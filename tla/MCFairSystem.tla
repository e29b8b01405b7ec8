----------------------------- MODULE MCFairSystem -----------------------------
(* Fair runs of replicas in one group (broadcast.cfg), and with a relay. *)
EXTENDS FairSystem

MCall == [p \in Active |-> Value]
MCflat == [r \in Replica |-> 0]

(* A proposer, a relay and a replica below the relay. *)
MCrelaygroup == [r \in Replica |-> IF r = 0 THEN 0 ELSE 1]
MCrelayparent == [r \in Replica |-> IF r = 2 THEN 1 ELSE 0]

(* Everything that is sent to the last replica. *)
MCtolast == {m \in Request \cup Reply : m.to = N-1}

(* Nothing depends on whom a record has noted in aids when half of a replica's
   subordinates is 0 (a flat group; a relay with one replica below it) and no
   replica asks for a REPEAT. *)
MCview ==
    <<[a \in Replica |-> [i \in Iid |-> [records[a][i] EXCEPT !.aids = {}]]],
      trim_iid, proposerVars, learnerVars, requests, replies, received>>
===============================================================================
