---------------------------- MODULE MCReplicaSystem ----------------------------
(* Replicas in one group. *)
EXTENDS ReplicaSystem

(* Each proposer is given a value of its own. *)
MCeach == [p \in Active |-> {p + 1}]
MCflat == [r \in Replica |-> 0]

(* In a flat group nothing depends on whom a record has noted in aids: a replica
   has no subordinates to count, and no replica asks for a REPEAT. *)
MCview ==
    <<[a \in Replica |-> [i \in Iid |-> [records[a][i] EXCEPT !.aids = {}]]],
      trim_iid, proposerVars, learnerVars, requests, replies>>
===============================================================================
