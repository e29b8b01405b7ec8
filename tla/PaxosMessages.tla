---------------------------- MODULE PaxosMessages ----------------------------
(***************************************************************************)
(* The values, ballots and messages of paxos/include/paxos_types.h, and    *)
(* the network between replicas.                                           *)
(*                                                                         *)
(* A message is sent to one replica and stays in the network: it may be    *)
(* received late, several times, after a message sent later, or never.     *)
(* Connections are TCP, but a reset drops what is pending (on_peer_event), *)
(* an acceptor only answers the clients connected at that moment, relays   *)
(* send the same request along two paths, and evacceptor_fwd_* puts every  *)
(* answer back on the wire, so all four happen.                            *)
(***************************************************************************)
EXTENDS Topology

CONSTANTS
    Value,      \* what clients submit
    None,       \* a NULL paxos_value
    Iid,        \* the instance identifiers
    MaxBallot,  \* bound: no ballot above it is used
    Active      \* the replicas whose proposers are given client values

ASSUME MessagesAssumption ==
    /\ None \notin Value
    /\ Iid \subseteq Nat \ {0}
    /\ MaxBallot \in Nat
    /\ Active \subseteq Proposers

VARIABLES
    requests,   \* PREPARE, ACCEPT and TRIM messages sent so far
    replies     \* PROMISE, ACCEPTED and PREEMPTED messages sent so far

Ballot == 0 .. MaxBallot

(* paxos_quorum, and quorum_reached on the set of acceptors heard from. *)
paxos_quorum_half == N \div 2
paxos_quorum_one_more == (N \div 2) + 2
paxos_quorum == (N \div 2) + 1

quorum_reached(acceptor_ids) == Cardinality(acceptor_ids) >= paxos_quorum

(* What a quorum has to be, for any two of them to share an acceptor. *)
Majority(A) == 2 * Cardinality(A) > N

(* Every ballot a proposer uses is positive (proposer_next_ballot).
   from: the replica at the other end of the connection; src: the field
   src of the message, which says where answers should finally go. *)
Request ==
    [type : {"PREPARE"}, from : Replica, to : Replica, src : Replica,
     iid : Iid, ballot : Ballot \ {0}]
    \cup
    [type : {"ACCEPT"}, from : Replica, to : Replica, src : Replica,
     iid : Iid, ballot : Ballot \ {0}, value : Value]
    \cup
    [type : {"TRIM"}, from : Replica, to : Replica, iid : Iid]
    \cup
    [type : {"REPEAT"}, from : Replica, to : Replica, first : Iid, last : Iid]

(* aid, ballot, value_ballot and value are the first entries of the arrays
   aids, ballots, value_ballots and values.  The later entries of ballots,
   value_ballots and values are read by no receiver; those of aids are. *)
Reply ==
    [type : {"PROMISE"}, to : Replica, aid : Replica, iid : Iid,
     ballot : Ballot, value_ballot : Ballot, value : Value \cup {None}]
    \cup
    [type : {"ACCEPTED"}, to : Replica, aid : Replica, iid : Iid,
     ballot : Ballot, value : Value, aids : SUBSET Replica]
    \cup
    [type : {"PREEMPTED"}, to : Replica, aid : Replica, iid : Iid,
     ballot : Ballot]

(* The same message for every replica of a set. *)
ToAll(m, R) == {[m EXCEPT !.to = r] : r \in R}
===============================================================================
