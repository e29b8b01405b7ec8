------------------------------- MODULE Proposer -------------------------------
(***************************************************************************)
(* The proposers: paxos/proposer.c, and the event handlers of              *)
(* evpaxos/evproposer.c that drive it.  Every handler runs the loop        *)
(* try_accept to its end before it returns, so a handler is one action.    *)
(* check_timeouts returns before doing anything: nothing is ever resent.   *)
(***************************************************************************)
EXTENDS PaxosMessages, Sequences, Functions

CONSTANTS
    MaxProposers,    \* MAX_N_OF_PROPOSERS, the distance between two ballots
    preexec_window,  \* paxos_config.proposer_preexec_window
    Submitting       \* Submitting[p]: the values that clients give to p

ASSUME ProposerAssumption ==
    /\ MaxProposers \in Nat /\ N <= MaxProposers
    /\ preexec_window \in Nat \ {0}
    /\ Submitting \in [Active -> SUBSET Value]

VARIABLES
    proposer,        \* proposer[p]: struct proposer
    submitted,       \* history: <<p, v>> once p was given v by a client
    closed           \* history: <<p, v>> once p saw its v through

proposerVars == <<proposer, submitted, closed>>

(* struct instance; quorum holds the acceptors quorum_add has counted. *)
Instance ==
    [ballot : Ballot, value : Value \cup {None},
     promised_value : Value \cup {None}, value_ballot : Ballot,
     quorum : SUBSET Replica]

(* The hash tables of instances by iid. *)
EmptyTable == [i \in {} |-> None]
Insert(h, iid, inst) ==
    [i \in DOMAIN h \cup {iid} |-> IF i = iid THEN inst ELSE h[i]]
Delete(h, I) == Restrict(h, DOMAIN h \ I)

proposer_new ==
    [values |-> <<>>, max_trim_iid |-> 0, next_prepare_iid |-> 0,
     prepare_instances |-> EmptyTable, accept_instances |-> EmptyTable]

proposer_next_ballot_unspaced(p, ballot) ==
    IF ballot > 0 THEN ballot + 1 ELSE MaxProposers + p
proposer_next_ballot(p, ballot) ==
    IF ballot > 0 THEN ballot + MaxProposers ELSE MaxProposers + p

instance_new(ballot) ==
    [ballot |-> ballot, value |-> None, promised_value |-> None,
     value_ballot |-> 0, quorum |-> {}]

instance_has_value(inst) == inst.value # None
instance_has_promised_value(inst) == inst.promised_value # None

(* The next ballot, no answers and no promised value; the client's value
   stays with the instance. *)
proposer_preempt(p, inst) ==
    [inst EXCEPT !.ballot = proposer_next_ballot(p, @), !.value_ballot = 0,
                 !.promised_value = None, !.quorum = {}]

prepare_request(p, iid, inst) ==
    [type |-> "PREPARE", from |-> p, to |-> p, src |-> p, iid |-> iid,
     ballot |-> inst.ballot]

(* instance_to_accept: a promised value goes before the client's. *)
instance_to_accept(p, iid, inst) ==
    [type |-> "ACCEPT", from |-> p, to |-> p, src |-> p, iid |-> iid,
     ballot |-> inst.ballot,
     value |-> IF instance_has_promised_value(inst)
               THEN inst.promised_value ELSE inst.value]

-------------------------------------------------------------------------------
(***************************************************************************)
(* try_accept.  proposer_accept takes the prepared instance with the       *)
(* smallest iid, and gives up on it, and so on all the later ones, when    *)
(* its quorum is not complete or there is no value for it.  An instance    *)
(* without a value pops one from the queue even if it was promised one.    *)
(***************************************************************************)
PopPosition(s, iid) ==
    Cardinality({i \in DOMAIN s.prepare_instances :
                    i <= iid /\ ~instance_has_value(s.prepare_instances[i])})

FilledInstance(s, iid) ==
    LET inst == s.prepare_instances[iid]
        pos  == PopPosition(s, iid)
    IN  IF instance_has_value(inst) \/ pos > Len(s.values) THEN inst
        ELSE [inst EXCEPT !.value = s.values[pos]]

CanAccept(s, iid) ==
    LET inst == FilledInstance(s, iid)
    IN  /\ quorum_reached(inst.quorum)
        /\ instance_has_value(inst) \/ instance_has_promised_value(inst)

AcceptedNow(s) ==
    {i \in DOMAIN s.prepare_instances :
        \A j \in DOMAIN s.prepare_instances : j <= i => CanAccept(s, j)}

(* The queue after the pops of the instances accepted now. *)
PopValues(s, I) ==
    LET popped == {i \in I : ~instance_has_value(s.prepare_instances[i])}
    IN  SubSeq(s.values, Cardinality(popped) + 1, Len(s.values))

MoveToAccept(s, I) ==
    [s EXCEPT
        !.values = PopValues(s, I),
        !.prepare_instances = Delete(@, I),
        !.accept_instances =
            [i \in DOMAIN @ \cup I |->
                IF i \in I THEN [FilledInstance(s, i) EXCEPT !.quorum = {}]
                           ELSE @[i]]]

(* proposer_preexecute: when values are waiting, fill the window. *)
PreparedNow(s) ==
    LET count == preexec_window - Cardinality(DOMAIN s.prepare_instances)
    IN  IF s.values = <<>> THEN {}
        ELSE (s.next_prepare_iid + 1) .. (s.next_prepare_iid + count)

Prepare(p, s, I) ==
    [s EXCEPT
        !.next_prepare_iid = @ + Cardinality(I),
        !.prepare_instances =
            [i \in DOMAIN @ \cup I |->
                IF i \in I THEN instance_new(proposer_next_ballot(p, 0))
                           ELSE @[i]]]

-------------------------------------------------------------------------------
(***************************************************************************)
(* proposer_set_instance_id: everything up to iid is settled.  The values  *)
(* of the trimmed instances return to the queue, first those prepared and  *)
(* then those in the accept phase, each in the order of a hash table.      *)
(***************************************************************************)
TrimmedIn(h, iid) == {i \in DOMAIN h : i <= iid}
Orders(S) == Injection(1 .. Cardinality(S), S)

ReturnedValues_with_null(h, iid) ==
    {[k \in DOMAIN order |-> h[order[k]].value] :
        order \in Orders(TrimmedIn(h, iid))}

ReturnedValues(h, iid) ==
    {[k \in DOMAIN order |-> h[order[k]].value] :
        order \in Orders({i \in TrimmedIn(h, iid) : instance_has_value(h[i])})}

proposer_set_instance_id_back(s, iid) ==
    {[s EXCEPT !.next_prepare_iid = iid,
               !.prepare_instances = Delete(@, TrimmedIn(@, iid)),
               !.accept_instances = Delete(@, TrimmedIn(@, iid))]}

SettledUpTo(s, iid, v1, v2) ==
    [s EXCEPT !.next_prepare_iid = iid,
              !.values = @ \o v1 \o v2,
              !.prepare_instances = Delete(@, TrimmedIn(@, iid)),
              !.accept_instances = Delete(@, TrimmedIn(@, iid))]

proposer_set_instance_id(s, iid) ==
    IF iid <= s.next_prepare_iid THEN {s}
    ELSE {SettledUpTo(s, iid, v1, v2) :
             v1 \in ReturnedValues(s.prepare_instances, iid),
             v2 \in ReturnedValues(s.accept_instances, iid)}

(* The end of a handler: p is left in state s, with the instances up to settled
   trimmed, and the requests out go to all its acceptors.  The bounds on
   instances and ballots are those of Iid and MaxBallot. *)
Commit(p, s, out, settled) ==
    /\ \A m \in out : m.iid \in Iid /\ m.ballot <= MaxBallot
    /\ \E t \in proposer_set_instance_id(s, settled) :
          proposer' = [proposer EXCEPT ![p] = t]
    /\ requests' = requests \cup UNION {ToAll(m, Peers[p]) : m \in out}

(* try_accept from state s; sent are the requests the handler sent before. *)
try_accept(p, s, sent, settled) ==
    LET A  == AcceptedNow(s)
        s1 == MoveToAccept(s, A)
        P  == PreparedNow(s1)
        s2 == Prepare(p, s1, P)
    IN  Commit(p, s2,
               sent
               \cup {instance_to_accept(p, i, s1.accept_instances[i]) : i \in A}
               \cup {prepare_request(p, i, s2.prepare_instances[i]) : i \in P},
               settled)

-------------------------------------------------------------------------------
(* The handlers of evproposer.c at proposer p. *)

evproposer_handle_client_value(p, v) ==
    /\ try_accept(p, [proposer[p] EXCEPT !.values = Append(@, v)], {}, 0)
    /\ submitted' = submitted \cup {<<p, v>>}
    /\ UNCHANGED closed

(* The effect of a promise for the current ballot on its instance: another
   acceptor heard from, and the value of the largest ballot reported so far. *)
adopt_promise_last(inst, m) ==
    [inst EXCEPT !.quorum = @ \cup {m.aid},
                 !.promised_value = IF m.value # None THEN m.value ELSE @]

adopt_promise(inst, m) ==
    LET newer == m.value # None /\ m.value_ballot > inst.value_ballot
    IN  [inst EXCEPT
            !.quorum = @ \cup {m.aid},
            !.value_ballot = IF newer THEN m.value_ballot ELSE @,
            !.promised_value = IF newer THEN m.value ELSE @]

evproposer_handle_promise(p, m) ==
    LET s    == proposer[p]
        inst == s.prepare_instances[m.iid]
        With(new) == [s EXCEPT !.prepare_instances = Insert(@, m.iid, new)]
    IN  /\ UNCHANGED <<submitted, closed>>
        /\ \/ /\ m.iid \in DOMAIN s.prepare_instances => m.ballot < inst.ballot
              /\ try_accept(p, s, {}, 0)
           \/ /\ m.iid \in DOMAIN s.prepare_instances
              /\ m.ballot > inst.ballot
              /\ LET new == proposer_preempt(p, inst)
                 IN  try_accept(p, With(new), {prepare_request(p, m.iid, new)}, 0)
           \/ /\ m.iid \in DOMAIN s.prepare_instances
              /\ m.ballot = inst.ballot
              /\ try_accept(p, With(adopt_promise(inst, m)), {}, 0)

(* proposer_receive_accepted on a complete quorum: the client's value goes
   back to the queue if another value was proposed in its place. *)
finish_forgets(s, iid) ==
    [s EXCEPT !.accept_instances = Delete(@, {iid})]

finish(s, iid) ==
    LET inst == s.accept_instances[iid]
        back == /\ instance_has_promised_value(inst) /\ instance_has_value(inst)
                /\ inst.value # inst.promised_value
    IN  [s EXCEPT !.accept_instances = Delete(@, {iid}),
                  !.values = IF back THEN Append(@, inst.value) ELSE @]

(* settled is the last instance the replica's learner delivers on the same
   message, 0 if none: evpaxos_replica_deliver reports it to the proposer. *)
evproposer_handle_accepted(p, m, settled) ==
    LET s    == proposer[p]
        inst == s.accept_instances[m.iid]
        new  == [inst EXCEPT !.quorum = @ \cup {m.aid}]
    IN  /\ UNCHANGED submitted
        /\ \/ /\ m.iid \in DOMAIN s.accept_instances =>
                    m.ballot # inst.ballot \/ m.aid \in inst.quorum
              /\ Commit(p, s, {}, settled) /\ UNCHANGED closed
           \/ /\ m.iid \in DOMAIN s.accept_instances
              /\ m.ballot = inst.ballot /\ m.aid \notin inst.quorum
              /\ ~quorum_reached(new.quorum)
              /\ try_accept(p, [s EXCEPT !.accept_instances =
                                    Insert(@, m.iid, new)], {}, settled)
              /\ UNCHANGED closed
           \/ /\ m.iid \in DOMAIN s.accept_instances
              /\ m.ballot = inst.ballot /\ m.aid \notin inst.quorum
              /\ quorum_reached(new.quorum)
              /\ try_accept(p, finish(s, m.iid), {}, settled)
              /\ closed' = closed \cup
                    {<<p, v>> : v \in {inst.value} \cap
                        {instance_to_accept(p, m.iid, inst).value}}

evproposer_handle_preempted(p, m) ==
    LET s    == proposer[p]
        inst == s.accept_instances[m.iid]
        new  == proposer_preempt(p, inst)
    IN  /\ UNCHANGED <<submitted, closed>>
        /\ \/ /\ m.iid \in DOMAIN s.accept_instances => m.ballot <= inst.ballot
              /\ UNCHANGED <<proposer, requests>>
           \/ /\ m.iid \in DOMAIN s.accept_instances
              /\ m.ballot > inst.ballot
              /\ try_accept(p,
                    [s EXCEPT
                        !.accept_instances = Delete(@, {m.iid}),
                        !.prepare_instances = Insert(@, m.iid, new)],
                    {prepare_request(p, m.iid, new)}, 0)

evproposer_set_instance_id(p, iid) ==
    /\ Commit(p, proposer[p], {}, iid)
    /\ UNCHANGED <<submitted, closed>>

(* The trim mark of an acceptor; no try_accept follows. *)
evproposer_handle_acceptor_state(p, iid) ==
    /\ iid > proposer[p].max_trim_iid
    /\ Commit(p, [proposer[p] EXCEPT !.max_trim_iid = iid], {}, iid)
    /\ UNCHANGED <<submitted, closed>>

-------------------------------------------------------------------------------
(***************************************************************************)
(* The proposers on their own.  The environment answers as acceptors and   *)
(* other proposers may: it promises and accepts what was asked for, tells  *)
(* of ballots of other proposers, and reports values accepted at lower     *)
(* ballots, one value per ballot.  replies keeps the promises that were    *)
(* received for the proposer's own ballots.                                *)
(***************************************************************************)
OwnBallot(p, b) == b % MaxProposers = p

Asked(p, type, iid, b) ==
    {m \in requests : m.type = type /\ m.src = p /\ m.iid = iid /\ m.ballot = b}

Credible(p, m) ==
    /\ m.value = None <=> m.value_ballot = 0
    /\ m.value_ballot \in {0} \cup (MaxProposers .. m.ballot - 1)
    /\ \A k \in replies :
          (k.iid = m.iid /\ k.value_ballot = m.value_ballot) => k.value = m.value
    /\ \A k \in replies :
          (k.iid = m.iid /\ k.ballot = m.ballot /\ k.aid = m.aid) => k = m
    /\ OwnBallot(p, m.value_ballot) /\ m.value # None =>
          \E k \in Asked(p, "ACCEPT", m.iid, m.value_ballot) : k.value = m.value

(* A client gives a value to one proposer, once. *)
ClientSubmits(p) ==
    \E v \in Submitting[p] : /\ <<p, v>> \notin submitted
                             /\ evproposer_handle_client_value(p, v)
                             /\ UNCHANGED replies

AcceptorPromises(p) ==
    \E aid \in Replica, iid \in Iid, b \in Ballot :
        /\ Asked(p, "PREPARE", iid, b) # {}
        /\ \E vb \in Ballot, v \in Value \cup {None} :
              LET m == [type |-> "PROMISE", to |-> p, aid |-> aid, iid |-> iid,
                        ballot |-> b, value_ballot |-> vb, value |-> v]
              IN  /\ Credible(p, m)
                  /\ evproposer_handle_promise(p, m)
                  /\ replies' = replies \cup {m}

AcceptorPromisedAnother(p) ==
    \E iid \in Iid, b \in Ballot \ {0} :
        /\ ~OwnBallot(p, b)
        /\ evproposer_handle_promise(p,
              [type |-> "PROMISE", to |-> p, aid |-> p, iid |-> iid,
               ballot |-> b, value_ballot |-> b, value |-> None])
        /\ UNCHANGED replies

AcceptorAccepts(p) ==
    \E aid \in Replica, iid \in Iid, b \in Ballot :
        /\ OwnBallot(p, b) => Asked(p, "ACCEPT", iid, b) # {}
        /\ evproposer_handle_accepted(
              p, [aid |-> aid, iid |-> iid, ballot |-> b], 0)
        /\ UNCHANGED replies

AcceptorPreempts(p) ==
    \E iid \in Iid, b \in Ballot :
        /\ ~OwnBallot(p, b)
        /\ evproposer_handle_preempted(p, [iid |-> iid, ballot |-> b])
        /\ UNCHANGED replies

InstanceSettled(p) ==
    \E iid \in Iid : evproposer_set_instance_id(p, iid) /\ UNCHANGED replies

AcceptorTrimmed(p) ==
    \E iid \in Iid : evproposer_handle_acceptor_state(p, iid) /\ UNCHANGED replies

ProposerInit ==
    /\ proposer = [p \in Proposers |-> proposer_new]
    /\ submitted = {} /\ closed = {}
    /\ requests = {} /\ replies = {}

ProposerNext ==
    \E p \in Active :
        \/ ClientSubmits(p) \/ AcceptorPromises(p) \/ AcceptorPromisedAnother(p)
        \/ AcceptorAccepts(p) \/ AcceptorPreempts(p) \/ InstanceSettled(p)
        \/ AcceptorTrimmed(p)

ProposerSpec ==
    ProposerInit /\ [][ProposerNext]_<<proposerVars, requests, replies>>

-------------------------------------------------------------------------------
(* The proposer's queue, tables and counters keep the types of struct proposer,
   and no request goes beyond the bounds. *)
ProposerTypeOK ==
    /\ DOMAIN proposer = Proposers
    /\ \A p \in Proposers :
          LET s == proposer[p]
          IN  /\ \A k \in DOMAIN s.values : s.values[k] \in Value
              /\ s.next_prepare_iid \in Iid \cup {0}
              /\ s.max_trim_iid \in Iid \cup {0}
              /\ \A i \in DOMAIN s.prepare_instances :
                    i \in Iid /\ s.prepare_instances[i] \in Instance
              /\ \A i \in DOMAIN s.accept_instances :
                    i \in Iid /\ s.accept_instances[i] \in Instance
    /\ requests \subseteq Request /\ replies \subseteq Reply

(* The assertions of proposer_prepare and proposer_move_instance: an instance
   is in at most one of the two tables and never opened twice, whatever
   preemptions and trims moved it or removed it in between. *)
PhasesDisjoint ==
    \A p \in Proposers :
        LET s == proposer[p]
        IN  /\ DOMAIN s.prepare_instances \cap DOMAIN s.accept_instances = {}
            /\ \A i \in DOMAIN s.prepare_instances \cup DOMAIN s.accept_instances :
                  i <= s.next_prepare_iid

(* Where proposer p holds value v: positions in the queue, and pending
   instances of either table. *)
Holding(p, v) ==
    LET s == proposer[p]
    IN  {<<"queue", k>> : k \in {j \in DOMAIN s.values : s.values[j] = v}}
        \cup {<<"prepare", i>> : i \in
                {j \in DOMAIN s.prepare_instances :
                    s.prepare_instances[j].value = v}}
        \cup {<<"accept", i>> : i \in
                {j \in DOMAIN s.accept_instances :
                    s.accept_instances[j].value = v}}

(* No client value is lost and none is held twice: after any preemptions,
   adopted values, push-backs and trims it is in one place, until an instance
   that proposed it completes, and then in none. *)
ValueInOnePlace ==
    \A p \in Proposers, v \in Value :
        Cardinality(Holding(p, v)) =
            IF <<p, v>> \in submitted \ closed THEN 1 ELSE 0

(* Phase 2 of Paxos: a proposer asks to accept a value at a ballot only after a
   quorum promised that ballot, and the value is the one reported with the
   largest ballot among the promises it received, or a client's if none was. *)
AcceptFollowsPromises ==
    \A a \in {m \in requests : m.type = "ACCEPT"} :
        \E R \in SUBSET {m \in replies : /\ m.type = "PROMISE" /\ m.to = a.src
                                         /\ m.iid = a.iid /\ m.ballot = a.ballot} :
            /\ quorum_reached({m.aid : m \in R})
            /\ \/ /\ \A m \in R : m.value = None
                  /\ <<a.src, a.value>> \in submitted
               \/ \E m \in R :
                     /\ m.value = a.value
                     /\ \A k \in R : k.value_ballot <= m.value_ballot

(* A ballot of an instance is used for one value only.  proposer_next_ballot leads
   no proposer, however often it is preempted, to a ballot of another one; and no
   two ACCEPT requests of its own for a ballot differ, although a preemption takes
   the instance back to phase 1 and another value may be adopted there. *)
OneValuePerBallot ==
    \A a \in {m \in requests : m.type = "ACCEPT"} :
        /\ OwnBallot(a.src, a.ballot)
        /\ \A b \in {m \in requests : m.type = "ACCEPT"} :
              (a.iid = b.iid /\ a.ballot = b.ballot) => a.value = b.value
===============================================================================
