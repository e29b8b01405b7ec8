----------------------------- MODULE ReplicaSystem -----------------------------
(***************************************************************************)
(* The replicas of evpaxos/evreplica.c: an acceptor, a proposer and a      *)
(* learner that share one table of connections.  peers.c hands a message   *)
(* to the components of a replica in the order they subscribed: acceptor,  *)
(* proposer, learner.  All three run in one event handler, hence in one    *)
(* step here.                                                              *)
(***************************************************************************)
EXTENDS Acceptor, Proposer, Learner

CONSTANT
    Checkpoints \* the instances at which an application may ask for a trim

ASSUME SystemAssumption == Checkpoints \subseteq Iid

systemVars ==
    <<acceptorVars, proposerVars, learnerVars, requests, replies>>

evpaxos_replica_init ==
    /\ acceptor_new
    /\ proposer = [p \in Proposers |-> proposer_new]
    /\ submitted = {} /\ closed = {}
    /\ learner = [r \in Learners |-> learner_new(FALSE)]
    /\ delivered = [r \in Learners |-> <<>>]
    /\ requests = {} /\ replies = {}

(* A client's value reaches the proposer of replica p. *)
Submit(p) == 
    /\ ClientSubmits(p)
    /\ UNCHANGED <<acceptorVars, learnerVars>>

(* A request concerns the acceptor only. *)
ReceiveRequest(m) ==
    /\ HandleRequest(m)
    /\ UNCHANGED <<proposerVars, learnerVars>>

(* Only replicas of the top group have a proposer. *)
IfProposer(r, Handler) ==
    \/ r \in Proposers /\ Handler
    \/ r \notin Proposers /\ UNCHANGED <<proposerVars, requests>>

ReceivePromise(m) ==
    /\ evacceptor_fwd_promise(m.to, m)
    /\ IfProposer(m.to, evproposer_handle_promise(m.to, m))
    /\ UNCHANGED <<trim_iid, learnerVars>>

ReceivePreempted(m) ==
    /\ evacceptor_fwd_preempted(m.to, m)
    /\ IfProposer(m.to, evproposer_handle_preempted(m.to, m))
    /\ UNCHANGED <<trim_iid, learnerVars>>

(* evpaxos_replica_deliver: the last instance that m lets the learner of r
   deliver, 0 if none.  The proposer is told of each one that is delivered;
   the first that is news to it trims every instance it has pending. *)
evpaxos_replica_deliver(r, m) ==
    IF r \in Learners
    THEN Max({0} \cup Deliverable(learner_receive_accepted(learner[r], m)))
    ELSE 0

ReceiveAccepted(m) ==
    LET r == m.to
    IN  /\ evacceptor_fwd_accepted(r, m)
        /\ IfProposer(r, evproposer_handle_accepted(
                            r, m, evpaxos_replica_deliver(r, m)))
        /\ \/ r \in Learners /\ evlearner_handle_accepted(r, m)
           \/ r \notin Learners /\ UNCHANGED learnerVars
        /\ UNCHANGED trim_iid

(* evpaxos_replica_send_trim: the application of r no longer needs instances
   that it has seen delivered. *)
evpaxos_replica_send_trim(r) ==
    /\ \E iid \in Checkpoints :
          /\ \E d \in Range(delivered[r]) : d[1] = iid
          /\ requests' = requests \cup
                ToAll([type |-> "TRIM", from |-> r, to |-> r, iid |-> iid],
                      Peers[r])
    /\ UNCHANGED <<acceptorVars, proposerVars, learnerVars, replies>>

SystemNext ==
    \/ \E p \in Active : Submit(p)
    \/ \E m \in requests : ReceiveRequest(m)
    \/ \E m \in {k \in replies : k.type = "PROMISE"} : ReceivePromise(m)
    \/ \E m \in {k \in replies : k.type = "PREEMPTED"} : ReceivePreempted(m)
    \/ \E m \in {k \in replies : k.type = "ACCEPTED"} : ReceiveAccepted(m)
    \/ \E r \in Learners : evpaxos_replica_send_trim(r)

SystemSpec == evpaxos_replica_init /\ [][SystemNext]_systemVars

-------------------------------------------------------------------------------
(* The three components keep their types when they are run together. *)
SystemTypeOK == AcceptorTypeOK /\ ProposerTypeOK /\ LearnerTypeOK

(* Who a proposer counts has really answered and is still bound: an acceptor in
   the quorum of a pending instance has not fallen below the instance's ballot
   since, unless it trimmed the instance.  Forwarded, duplicated and late
   answers to an earlier or to another proposer's ballot are never counted. *)
QuorumIsBound ==
    \A p \in Proposers :
        LET s == proposer[p]
            Bound(h) == \A i \in DOMAIN h : \A a \in h[i].quorum :
                            \/ i <= trim_iid[a]
                            \/ h[i].ballot <= records[a][i].ballot
        IN  Bound(s.prepare_instances) /\ Bound(s.accept_instances)

(* What any replica delivers is a consensus decision: it was submitted by a
   client, and a quorum of acceptors voted for it in one ballot. *)
DeliveredWasChosen ==
    \A r \in Learners : \A d \in Range(delivered[r]) :
        /\ \E p \in Active : <<p, d[2]>> \in submitted
        /\ \E b \in Ballot :
              Majority({a \in Replica : <<a, d[1], b, d[2]>> \in Votes})

(* Replicas agree: no two of them deliver different values for one instance
   (the test TotalOrderDelivery, for clients of more than one proposer). *)
Agreement ==
    \A r, q \in Learners :
        \A d \in Range(delivered[r]), e \in Range(delivered[q]) :
            d[1] = e[1] => d[2] = e[2]

(* The replicas implement an atomic broadcast. *)
Broadcast == INSTANCE AtomicBroadcast WITH
    Member <- Learners,
    Payload <- Value,
    broadcast <- {s[2] : s \in submitted},
    log <- [r \in Learners |-> [k \in DOMAIN delivered[r] |-> delivered[r][k][2]]]

(* With one proposer at work the replicas deliver every submitted value at most
   once and all in the same order, whatever is lost, repeated or reordered. *)
ImplementsBroadcast == Broadcast!BroadcastSpec
===============================================================================
