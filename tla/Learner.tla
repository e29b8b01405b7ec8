-------------------------------- MODULE Learner --------------------------------
(***************************************************************************)
(* The learners: paxos/learner.c and the handlers of evpaxos/evlearner.c.  *)
(* check_holes returns before doing anything: missing messages are never   *)
(* asked for again.                                                        *)
(***************************************************************************)
EXTENDS PaxosMessages, Sequences, FiniteSetsExt, Functions

CONSTANT
    Learners    \* the replicas whose learners are followed

ASSUME LearnerAssumption == Learners \subseteq Replica

VARIABLES
    learner,    \* learner[r]: struct learner
    delivered   \* delivered[r]: history of deliveries, <<iid, value>>

learnerVars == <<learner, delivered>>

learner_new(late_start) ==
    [current_iid |-> 1, highest_iid_closed |-> 1, late_start |-> late_start,
     instances |-> [i \in {} |-> None]]

learner_set_instance_id(l, iid) ==
    [l EXCEPT !.current_iid = iid + 1, !.highest_iid_closed = iid]

(* acks[a] is the last ACCEPTED of a; final_value is None until closed. *)
learner_instance(ballot) ==
    [acks |-> [a \in {} |-> None], last_update_ballot |-> ballot,
     final_value |-> None]

learner_get_instance_or_create(l, m) ==
    IF m.iid \in DOMAIN l.instances THEN l.instances[m.iid]
    ELSE learner_instance(m.ballot)

(* The acks that agree with the one added last. *)
agreeing_any_ballot(inst) == DOMAIN inst.acks
agreeing(inst) ==
    {a \in DOMAIN inst.acks : inst.acks[a].ballot = inst.last_update_ballot}

(* instance_has_quorum, with the final value it leaves behind. *)
close_instance(inst) ==
    IF inst.final_value = None /\ quorum_reached(agreeing(inst))
    THEN [inst EXCEPT !.final_value = inst.acks[Max(agreeing(inst))].value]
    ELSE inst

(* instance_update and instance_add_accept: an ack replaces an older one of the
   same acceptor, and its ballot becomes the one that is counted, even if
   another acceptor has sent a larger one. *)
instance_update_keeps_ballot(inst, m) ==
    IF \/ inst.final_value # None
       \/ m.aid \in DOMAIN inst.acks /\ inst.acks[m.aid].ballot >= m.ballot
    THEN inst
    ELSE [inst EXCEPT
             !.acks = [a \in DOMAIN @ \cup {m.aid} |->
                         IF a = m.aid
                         THEN [ballot |-> m.ballot, value |-> m.value]
                         ELSE @[a]]]

instance_update(inst, m) ==
    IF \/ inst.final_value # None
       \/ m.aid \in DOMAIN inst.acks /\ inst.acks[m.aid].ballot >= m.ballot
    THEN inst
    ELSE [inst EXCEPT
             !.acks = [a \in DOMAIN @ \cup {m.aid} |->
                         IF a = m.aid
                         THEN [ballot |-> m.ballot, value |-> m.value]
                         ELSE @[a]],
             !.last_update_ballot = m.ballot]

highest_closed_kept(l, iid) == l.highest_iid_closed
highest_closed(l, iid) ==
    IF iid > l.highest_iid_closed THEN iid ELSE l.highest_iid_closed

learner_receive_accepted(l0, m) ==
    LET l    == IF l0.late_start
                THEN [l0 EXCEPT !.late_start = FALSE, !.current_iid = m.iid]
                ELSE l0
        inst == close_instance(
                    instance_update(learner_get_instance_or_create(l, m), m))
    IN  IF m.iid < l.current_iid THEN l
        ELSE [l EXCEPT
                !.instances = [i \in DOMAIN @ \cup {m.iid} |->
                                 IF i = m.iid THEN inst ELSE @[i]],
                !.highest_iid_closed =
                    IF inst.final_value # None THEN highest_closed(l, m.iid)
                    ELSE @]

(* evlearner_deliver_next_closed: the closed instances from current_iid on, up
   to the first one that is missing or not closed. *)
Closed(l) == {i \in DOMAIN l.instances : l.instances[i].final_value # None}

Deliverable(l) ==
    {i \in Closed(l) : i >= l.current_iid /\ l.current_iid .. i \subseteq Closed(l)}

AfterDelivery_not_advanced(l) ==
    [l EXCEPT !.instances = Restrict(@, DOMAIN @ \ Deliverable(l))]

AfterDelivery_keeps_instances(l) ==
    [l EXCEPT !.current_iid = @ + Cardinality(Deliverable(l))]

AfterDelivery(l) ==
    [l EXCEPT !.current_iid = @ + Cardinality(Deliverable(l)),
              !.instances = Restrict(@, DOMAIN @ \ Deliverable(l))]

Deliveries(l) ==
    [k \in 1 .. Cardinality(Deliverable(l)) |->
        <<l.current_iid + k - 1,
          l.instances[l.current_iid + k - 1].final_value>>]

evlearner_handle_accepted(r, m) ==
    LET l == learner_receive_accepted(learner[r], m)
    IN  /\ learner' = [learner EXCEPT ![r] = AfterDelivery(l)]
        /\ delivered' = [delivered EXCEPT ![r] = @ \o Deliveries(l)]

(* learner_has_holes: what check_holes would ask to be repeated. *)
learner_has_holes(l) == l.highest_iid_closed > l.current_iid

-------------------------------------------------------------------------------
(***************************************************************************)
(* The learners on their own.  Acceptors may announce anything that keeps  *)
(* to one value per ballot and instance; replies are the messages that     *)
(* were received.  A learner starts at the first instance, after the       *)
(* instance of a checkpoint, or at the first instance it hears of.         *)
(***************************************************************************)
AcceptorAnnounces(r) ==
    \E aid \in Replica, iid \in Iid, b \in Ballot \ {0}, v \in Value :
        LET m == [type |-> "ACCEPTED", to |-> r, aid |-> aid, iid |-> iid,
                  ballot |-> b, value |-> v, aids |-> {aid}]
        IN  /\ \A k \in replies : (k.iid = iid /\ k.ballot = b) => k.value = v
            /\ evlearner_handle_accepted(r, m)
            /\ replies' = replies \cup {m}
            /\ UNCHANGED requests

StartStates ==
    {learner_new(late) : late \in BOOLEAN} \cup
    {learner_set_instance_id(learner_new(FALSE), i) : i \in Iid}

LearnerInit ==
    /\ learner \in [Learners -> StartStates]
    /\ delivered = [r \in Learners |-> <<>>]
    /\ requests = {} /\ replies = {}

LearnerNext == \E r \in Learners : AcceptorAnnounces(r)

LearnerSpec ==
    LearnerInit /\ [][LearnerNext]_<<learnerVars, requests, replies>>

-------------------------------------------------------------------------------
(* The learner's counters and instance table keep the types of struct learner,
   and the table holds nothing that was delivered. *)
LearnerTypeOK ==
    \A r \in DOMAIN learner :
        LET l == learner[r]
        IN  /\ l.current_iid \in Nat /\ l.highest_iid_closed \in Nat
            /\ DOMAIN l.instances \subseteq {i \in Iid : i >= l.current_iid}
            /\ \A i \in DOMAIN l.instances :
                  /\ DOMAIN l.instances[i].acks \subseteq Replica
                  /\ l.instances[i].final_value \in Value \cup {None}

(* Deliveries are consecutive instances without gap or repetition, up to the
   one before current_iid, for acks in any order, of any ballots, repeated or
   late (the tests of learner_unittest about holes and duplicates). *)
DeliveredInOrder ==
    \A r \in DOMAIN learner :
        \A k \in DOMAIN delivered[r] :
            delivered[r][k][1] =
                learner[r].current_iid - Len(delivered[r]) + k - 1

(* What is delivered was decided: a quorum of acceptors announced that very
   value at one and the same ballot, as the comment on instance_has_quorum
   says, although acks are counted by ballot only and may replace each other. *)
DeliveredByQuorum ==
    \A r \in DOMAIN learner : \A d \in Range(delivered[r]) :
        \E b \in Ballot :
            Majority({m.aid : m \in
                {k \in replies : /\ k.type = "ACCEPTED" /\ k.to = r
                                 /\ k.iid = d[1] /\ k.ballot = b
                                 /\ k.value = d[2]}})

(* A complete quorum is noticed at once: in an instance that is still open no
   ballot has a quorum among the acks held, although only the ballot added
   last is ever counted and that ballot may go down. *)
QuorumNoticed ==
    \A r \in DOMAIN learner : \A i \in DOMAIN learner[r].instances :
        LET inst == learner[r].instances[i]
        IN  inst.final_value = None =>
                \A b \in Ballot :
                    ~quorum_reached({a \in DOMAIN inst.acks :
                                        inst.acks[a].ballot = b})

(* The test for holes is exact: it reports one just when some instance beyond
   current_iid is closed, so a gap before it keeps it from being delivered. *)
HolesNoticed ==
    \A r \in DOMAIN learner :
        learner_has_holes(learner[r])
            <=> \E i \in Closed(learner[r]) : i > learner[r].current_iid
===============================================================================
