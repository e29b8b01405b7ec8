------------------------------ MODULE FairSystem ------------------------------
(***************************************************************************)
(* The replicas of ReplicaSystem under a scheduler that is fair and a      *)
(* network that loses messages only where it is allowed to: what is        *)
(* guaranteed to happen, and what the disabled timers cost.                *)
(*                                                                         *)
(* evproposer_check_timeouts, evlearner_check_holes and                    *)
(* send_acceptor_state return before they send anything, so that no        *)
(* message is ever sent a second time because it was lost.                 *)
(***************************************************************************)
EXTENDS ReplicaSystem

CONSTANT
    Unreliable  \* the messages that a dropped connection may take with it

VARIABLE
    received    \* the messages that were handled at least once

fairVars == <<systemVars, received>>

Pending == (requests \cup replies) \ received

FairInit == evpaxos_replica_init /\ received = {}

(* dispatch_message, called by on_read for a message of one of the connections. *)
dispatch_message(m) ==
    \/ m \in requests /\ ReceiveRequest(m)
    \/ m.type = "PROMISE" /\ ReceivePromise(m)
    \/ m.type = "PREEMPTED" /\ ReceivePreempted(m)
    \/ m.type = "ACCEPTED" /\ ReceiveAccepted(m)

(* on_read at replica r: a message is handled, in any order.  It may be a copy
   that a relay or evacceptor_fwd_* has put on the wire again. *)
on_read(r) ==
    \E m \in requests \cup replies :
        /\ m.to = r
        /\ dispatch_message(m)
        /\ received' = received \cup {m}

Application ==
    /\ \/ \E p \in Active : Submit(p)
       \/ \E r \in Learners : evpaxos_replica_send_trim(r)
    /\ UNCHANGED received

FairNext == Application \/ \E r \in Replica : on_read(r)

(***************************************************************************)
(* libevent calls the read callback of a connection as long as there is    *)
(* input on it: weak fairness of reading a pending message at r, with its  *)
(* being enabled and taken read off the messages.  An unreliable message   *)
(* may stay pending for ever (on_peer_event and on_client_event free a     *)
(* connection with what is on it).  Nothing forces a client to submit.     *)
(***************************************************************************)
Reads(r) ==
    \/ []<>(\A m \in Pending : m.to = r => m \in Unreliable)
    \/ []<><<\E m \in received' \ received : m.to = r>>_received

FairSpec == FairInit /\ [][FairNext]_fairVars /\ \A r \in Replica : Reads(r)

-------------------------------------------------------------------------------
(* Every value that a client gets to a proposer is delivered by every replica
   whose connections stay up: the proposer opens an instance for each value in
   its queue, a quorum answers, the learner closes the gap and delivers, with
   copies and reordering all along. *)
EveryValueDelivered ==
    \A p \in Active, v \in Value :
        <<p, v>> \in submitted ~>
            \A r \in Learners : \E d \in Range(delivered[r]) : d[2] = v
===============================================================================
