----------------------------- MODULE SystemProofs -----------------------------
(***************************************************************************)
(* The replicas together.  The invariant puts those of the acceptors, the  *)
(* proposers and the learners side by side and ties them to each other: an *)
(* acceptor has no value that no ACCEPT request carries, a proposer hears  *)
(* only what acceptors have answered, and a learner is told one value per  *)
(* ballot.  All of it for any topology, number of replicas, instances,     *)
(* ballots and values.                                                     *)
(***************************************************************************)
EXTENDS ReplicaSystem, AcceptorProofs, ProposerProofs, LearnerProofs

(* What the learners are told. *)
ToLearners(R) == {m \in R : m.type = "ACCEPTED" /\ m.to \in Learners}

(* Every value proposed was submitted, to an active proposer. *)
Submitted(Q, H) ==
    \A m \in Q : m.type = "ACCEPT" => \E p \in Active : <<p, m.value>> \in H

SystemInv ==
    /\ IInv /\ Backed(requests, records, replies)
    /\ ProposersOK(proposer, requests, replies, submitted, closed)
    /\ submitted \subseteq Active \X Value /\ Submitted(requests, submitted)
    /\ LearnersOK(learner, delivered, ToLearners(replies))
    /\ \A r \in Learners : TableOK(learner[r])

-------------------------------------------------------------------------------
(* One ballot of an instance has one value among the requests, and acceptors
   announce only what was requested: so do the announcements. *)
LEMMA AnnouncedOK ==
    ASSUME NEW proposers, NEW Q, NEW P, NEW given, NEW done,
           ProposersOK(proposers, Q, P, given, done),
           NEW S, NEW R, R \subseteq Reply, Backed(Q, S, R)
    PROVE  RepliesOK(ToLearners(R))
<1>1. ToLearners(R) \subseteq Announcement
    BY DEF ToLearners, Announcement, Reply
<1>2. ASSUME NEW k \in ToLearners(R), NEW m \in ToLearners(R),
             k.iid = m.iid, k.ballot = m.ballot
      PROVE  k.value = m.value
    <2>1. AskedFor(Q, k.iid, k.ballot, k.value) /\ AskedFor(Q, m.iid, m.ballot, m.value)
        BY DEF ToLearners, Backed, BackedReply
    <2>2. PICK a \in Q : /\ a.type = "ACCEPT" /\ a.iid = k.iid /\ a.ballot = k.ballot
                         /\ a.value = k.value
        BY <2>1 DEF AskedFor
    <2>3. PICK b \in Q : /\ b.type = "ACCEPT" /\ b.iid = m.iid /\ b.ballot = m.ballot
                         /\ b.value = m.value
        BY <2>1 DEF AskedFor
    <2> QED
        BY <1>2, <2>2, <2>3, OneValue
<1> QED
    BY <1>1, <1>2 DEF RepliesOK

(* What was backed stays so when there are more requests. *)
LEMMA BackedMore ==
    ASSUME NEW Q, NEW T, Q \subseteq T, NEW S, NEW R, Backed(Q, S, R)
    PROVE  Backed(T, S, R)
<1>1. \A i, b, v : AskedFor(Q, i, b, v) => AskedFor(T, i, b, v)
    BY DEF AskedFor
<1> QED
    BY <1>1 DEF Backed, BackedRecord, BackedReply

(* A value that is proposed comes from a client, or from a promise and so from an
   earlier ACCEPT request. *)
LEMMA ProposedWasSubmitted ==
    ASSUME NEW Q, NEW S, NEW R, Backed(Q, S, R), NEW H, Submitted(Q, H),
           NEW G, H \subseteq G, G \subseteq Active \X Value,
           NEW m \in Request, m.type = "ACCEPT", Follows(m, R, G)
    PROVE  \E p \in Active : <<p, m.value>> \in G
<1>1. m.value # None
    BY MessagesAssumption DEF Request
<1>2. PICK P \in SUBSET PromisesTo(m.src, m.iid, m.ballot, R) :
         \/ <<m.src, m.value>> \in G
         \/ \E k \in P : k.value = m.value
    BY Zenon DEF Follows
<1>3. CASE <<m.src, m.value>> \in G
    BY <1>3
<1>4. CASE \E k \in P : k.value = m.value
    <2>1. PICK k \in R : k.type = "PROMISE" /\ k.value = m.value
        BY <1>4 DEF PromisesTo
    <2>2. AskedFor(Q, k.iid, k.value_ballot, m.value)
        BY <1>1, <2>1 DEF Backed, BackedReply
    <2> QED
        BY <2>2, Zenon DEF AskedFor, Submitted
<1> QED
    BY <1>2, <1>3, <1>4, Zenon

(* The announcements of the next state, from the requests of this one. *)
LEMMA NextAnnounced ==
    ASSUME SystemInv, AcceptorTypeOK', Backed(requests, records', replies')
    PROVE  RepliesOK(ToLearners(replies'))
<1>1. replies' \subseteq Reply
    BY DEF AcceptorTypeOK
<1> QED
    BY <1>1, AnnouncedOK DEF SystemInv

(* What there is to show of a step. *)
LEMMA SystemStep ==
    ASSUME SystemInv, AcceptorTypeOK', Lawful,
           requests \subseteq requests', Backed(requests, records', replies'),
           ProposersOK(proposer', requests', replies', submitted', closed'),
           submitted \subseteq submitted', submitted' \subseteq Active \X Value,
           LearnersOK(learner', delivered', ToLearners(replies')),
           \A r \in Learners : TableOK(learner'[r])
    PROVE  SystemInv'
<1>1. IInv'
    BY LawfulPreserves DEF SystemInv
<1>2. Backed(requests', records', replies')
    BY BackedMore
<1>3. Submitted(requests', submitted')
    <2> SUFFICES ASSUME NEW m \in requests', m.type = "ACCEPT"
                 PROVE  \E p \in Active : <<p, m.value>> \in submitted'
        BY DEF Submitted
    <2>1. m \in Request /\ Follows(m, replies', submitted')
        BY DEF ProposersOK
    <2> QED
        BY <2>1, ProposedWasSubmitted, Zenon DEF SystemInv
<1> QED
    BY <1>1, <1>2, <1>3 DEF SystemInv

(* A step that no learner takes part in. *)
LEMMA NoLearnerStep ==
    ASSUME SystemInv, AcceptorTypeOK', Lawful,
           requests \subseteq requests', Backed(requests, records', replies'),
           ProposersOK(proposer', requests', replies', submitted', closed'),
           submitted \subseteq submitted', submitted' \subseteq Active \X Value,
           UNCHANGED learnerVars
    PROVE  SystemInv'
<1>1. learner' = learner /\ delivered' = delivered
    BY DEF learnerVars
<1>2. ToLearners(replies) \subseteq ToLearners(replies')
    BY DEF Lawful, ToLearners
<1>3. LearnersOK(learner, delivered, ToLearners(replies'))
    BY <1>2, NextAnnounced, LearnersQuiet DEF SystemInv
<1>4. \A r \in Learners : TableOK(learner'[r])
    BY <1>1 DEF SystemInv
<1> QED
    BY <1>1, <1>3, <1>4, SystemStep

-------------------------------------------------------------------------------
(* A client's value reaches a proposer. *)
LEMMA SubmitOK ==
    ASSUME SystemInv, NEW p \in Active, Submit(p)
    PROVE  SystemInv' /\ Only(p)
<1>1. /\ UNCHANGED <<records, trim_iid, replies>> /\ UNCHANGED learnerVars
      /\ \E v \in Submitting[p] : <<p, v>> \notin submitted /\ evproposer_handle_client_value(p, v)
    BY DEF Submit, ClientSubmits, acceptorVars
<1>2. PICK v \in Value : <<p, v>> \notin submitted /\ evproposer_handle_client_value(p, v)
    BY <1>1, ProposerAssumption
<1>3. /\ ProposersOK(proposer', requests', replies, submitted', closed')
      /\ requests \subseteq requests' /\ submitted' = submitted \cup {<<p, v>>} /\ Only(p)
    BY <1>2, SubmitStep DEF SystemInv
<1>4. AcceptorTypeOK'
    BY <1>1, <1>3 DEF SystemInv, IInv, AcceptorTypeOK, ProposersOK
<1>5. Lawful
    BY <1>1, SilentLawful DEF SystemInv
<1>6. Backed(requests, records', replies')
    BY <1>1 DEF SystemInv
<1>7. submitted' \subseteq Active \X Value
    BY <1>3 DEF SystemInv
<1> QED
    BY <1>1, <1>3, <1>4, <1>5, <1>6, <1>7, NoLearnerStep

(* A request reaches an acceptor. *)
LEMMA ReceiveRequestOK ==
    ASSUME SystemInv, NEW m \in requests, ReceiveRequest(m)
    PROVE  SystemInv'
<1>1. HandleRequest(m) /\ UNCHANGED proposerVars /\ UNCHANGED learnerVars
    BY DEF ReceiveRequest
<1>2. IInv /\ AcceptorTypeOK /\ requests \subseteq Request
    BY DEF SystemInv, IInv, AcceptorTypeOK
<1>3. AcceptorTypeOK' /\ Lawful
    BY <1>1, <1>2, StepsAreLawful DEF AcceptorNext
<1>4. Backed(requests, records', replies')
    BY <1>1, <1>2, RequestBacked DEF SystemInv
<1>5. requests \subseteq requests' /\ PassedOn(requests, requests')
    BY <1>1, <1>2, RequestRelayed DEF Relayed, CopyOf, PassedOn, Copy
<1>6. replies \subseteq replies' /\ requests' \subseteq Request
    BY <1>3 DEF Lawful, AcceptorTypeOK
<1>7. ProposersOK(proposer, requests', replies', submitted, closed)
    BY <1>5, <1>6, QuietStep, Zenon DEF SystemInv
<1>8. ProposersOK(proposer', requests', replies', submitted', closed') /\ submitted' = submitted
    BY <1>1, <1>7 DEF proposerVars
<1> QED
    BY <1>1, <1>3, <1>4, <1>5, <1>8, NoLearnerStep DEF SystemInv

(* An answer is forwarded; its handlers at the proposer and at the learner remain. *)
LEMMA ForwardStep ==
    ASSUME SystemInv, NEW m \in replies, Forwards(m)
    PROVE  /\ Lawful /\ replies \subseteq replies' /\ Backed(requests, records', replies')
           /\ requests' \subseteq Request => AcceptorTypeOK'
<1>1. IInv /\ AcceptorTypeOK
    BY DEF SystemInv, IInv
<1>2. Lawful /\ Backed(requests, records', replies')
    BY <1>1, ForwardLawful, ForwardBacked DEF SystemInv
<1>3. requests' \subseteq Request => AcceptorTypeOK'
    BY <1>1, ForwardTyped
<1> QED
    BY <1>2, <1>3 DEF Lawful

(* A replica outside the top group has no proposer to tell. *)
LEMMA NoProposer ==
    ASSUME SystemInv, replies \subseteq replies', UNCHANGED <<proposerVars, requests>>
    PROVE  /\ ProposersOK(proposer', requests', replies', submitted', closed')
           /\ requests \subseteq requests' /\ submitted' = submitted /\ \A p : Only(p)
<1>1. ProposersOK(proposer, requests, replies', submitted, closed)
    BY QuietAnswers, Zenon DEF SystemInv
<1> QED
    BY <1>1 DEF proposerVars, Only

(* A promise reaches a replica. *)
LEMMA ReceivePromiseOK ==
    ASSUME SystemInv, NEW m \in replies, m.type = "PROMISE", ReceivePromise(m)
    PROVE  SystemInv' /\ Only(m.to)
<1>1. /\ Forwards(m) /\ UNCHANGED learnerVars
      /\ IfProposer(m.to, evproposer_handle_promise(m.to, m))
    BY DEF ReceivePromise, Forwards
<1>2. /\ Lawful /\ replies \subseteq replies' /\ Backed(requests, records', replies')
      /\ requests' \subseteq Request => AcceptorTypeOK'
    BY <1>1, ForwardStep
<1>3. /\ ProposersOK(proposer', requests', replies', submitted', closed')
      /\ requests \subseteq requests' /\ submitted' = submitted /\ Only(m.to)
    <2>1. CASE m.to \in Proposers /\ evproposer_handle_promise(m.to, m)
        <3>1. m \in Reply /\ BackedReply(requests, m)
            BY DEF SystemInv, IInv, AcceptorTypeOK, Backed
        <3>2. /\ m.iid \in Iid /\ m.ballot \in Ballot /\ m.aid \in Replica
              /\ m.value \in Value \cup {None} /\ m.value_ballot \in Ballot
            BY <3>1 DEF Reply
        <3>3. m.value # None => m.value_ballot > 0
            BY <3>1 DEF BackedReply
        <3>4. PromiseMessage(m.to, m, replies')
            BY <1>2, <3>2, <3>3 DEF PromiseMessage, PromisesTo
        <3>5. ProposersOK(proposer, requests, replies, submitted, closed)
            BY DEF SystemInv
        <3> QED
            BY <1>2, <2>1, <3>4, <3>5, PromiseStep, Zenon
    <2>2. CASE UNCHANGED <<proposerVars, requests>>
        BY <1>2, <2>2, NoProposer
    <2> QED
        BY <1>1, <2>1, <2>2 DEF IfProposer
<1>4. AcceptorTypeOK'
    BY <1>2, <1>3 DEF ProposersOK
<1> QED
    BY <1>1, <1>2, <1>3, <1>4, NoLearnerStep DEF SystemInv

(* An acceptor's refusal reaches a replica. *)
LEMMA ReceivePreemptedOK ==
    ASSUME SystemInv, NEW m \in replies, m.type = "PREEMPTED", ReceivePreempted(m)
    PROVE  SystemInv' /\ Only(m.to)
<1>1. /\ Forwards(m) /\ UNCHANGED learnerVars
      /\ IfProposer(m.to, evproposer_handle_preempted(m.to, m))
    BY DEF ReceivePreempted, Forwards
<1>2. /\ Lawful /\ replies \subseteq replies' /\ Backed(requests, records', replies')
      /\ requests' \subseteq Request => AcceptorTypeOK'
    BY <1>1, ForwardStep
<1>3. /\ ProposersOK(proposer', requests', replies', submitted', closed')
      /\ requests \subseteq requests' /\ submitted' = submitted /\ Only(m.to)
    <2>1. CASE m.to \in Proposers /\ evproposer_handle_preempted(m.to, m)
        <3>1. m \in Reply
            BY DEF SystemInv, IInv, AcceptorTypeOK
        <3>2. m.iid \in Iid /\ m.ballot \in Ballot /\ \E k \in replies : k.ballot = m.ballot
            BY <3>1 DEF Reply
        <3>3. ProposersOK(proposer, requests, replies, submitted, closed)
            BY DEF SystemInv
        <3> QED
            BY <1>2, <2>1, <3>2, <3>3, PreemptedStep, Zenon
    <2>2. CASE UNCHANGED <<proposerVars, requests>>
        BY <1>2, <2>2, NoProposer
    <2> QED
        BY <1>1, <2>1, <2>2 DEF IfProposer
<1>4. AcceptorTypeOK'
    BY <1>2, <1>3 DEF ProposersOK
<1> QED
    BY <1>1, <1>2, <1>3, <1>4, NoLearnerStep DEF SystemInv

(* An instance that acceptors have announced in p's own first ballot is one that p
   has opened. *)
LEMMA AnnouncedWasOpened ==
    ASSUME SystemInv, NEW p \in Proposers, Unopposed(p, replies),
           NEW k \in replies, k.type = "ACCEPTED"
    PROVE  k.iid <= proposer[p].next_prepare_iid
<1>1. k.ballot = proposer_next_ballot(p, 0)
    BY DEF Unopposed
<1>2. AskedFor(requests, k.iid, k.ballot, k.value)
    BY DEF SystemInv, Backed, BackedReply
<1>3. PICK q \in requests : q.type = "ACCEPT" /\ q.iid = k.iid /\ q.ballot = k.ballot
    BY <1>2 DEF AskedFor
<1>4. /\ q.src \in Proposers
      /\ \A r \in Proposers : AcceptsOK(r, proposer[r], requests)
    BY <1>3 DEF SystemInv, ProposersOK, ProposerOK
<1>5. AcceptOK(q.src, proposer[q.src], q)
    BY <1>3, <1>4 DEF AcceptsOK, AcceptsOf
<1>6. OwnBallot(q.src, k.ballot) /\ q.iid <= proposer[q.src].next_prepare_iid
    BY <1>3, <1>5 DEF AcceptOK
<1>7. OwnBallot(p, k.ballot)
    BY <1>1, NextBallotFacts, ProposersAreReplicas
<1>8. q.src = p
    BY <1>6, <1>7 DEF OwnBallot
<1> QED
    BY <1>3, <1>6, <1>8

(* What evpaxos_replica_deliver tells the proposer of p is nothing that p, with no
   rival, has not opened. *)
LEMMA SettledOK ==
    ASSUME SystemInv, NEW m \in replies, m.type = "ACCEPTED",
           NEW settled, settled = evpaxos_replica_deliver(m.to, m)
    PROVE  /\ settled \in Iid \cup {0}
           /\ m.to \in Proposers => Calm(m.to, proposer[m.to], replies, {}, settled)
<1> DEFINE R == ToLearners(replies)
<1>1. settled = 0 \/ (settled \in Iid /\ \E k \in replies : k.type = "ACCEPTED" /\ k.iid = settled)
    <2>1. CASE m.to \notin Learners
        BY <2>1 DEF evpaxos_replica_deliver
    <2>2. CASE m.to \in Learners
        <3>1. RepliesOK(R) /\ LearnerOK(learner[m.to], m.to, R) /\ m \in R
            <4>1. replies \subseteq Reply
                BY DEF SystemInv, IInv, AcceptorTypeOK
            <4>2. RepliesOK(R)
                BY <4>1, AnnouncedOK DEF SystemInv
            <4>3. LearnerOK(learner[m.to], m.to, R)
                BY <2>2 DEF SystemInv, LearnersOK
            <4> QED
                BY <2>2, <4>2, <4>3 DEF ToLearners
        <3>2. settled = Max({0} \cup Deliverable(learner_receive_accepted(learner[m.to], m)))
            BY <2>2 DEF evpaxos_replica_deliver
        <3> HIDE DEF R
        <3>3. settled = 0 \/ (settled \in Iid /\ \E k \in R : k.type = "ACCEPTED" /\ k.iid = settled)
            BY <3>1, <3>2, SettledWasAnnounced
        <3> QED
            BY <3>3 DEF R, ToLearners
    <2> QED
        BY <2>1, <2>2
<1>2. ASSUME m.to \in Proposers, Unopposed(m.to, replies)
      PROVE  settled = 0 \/ settled <= proposer[m.to].next_prepare_iid
    BY <1>1, <1>2, AnnouncedWasOpened
<1> QED
    BY <1>1, <1>2 DEF Calm

(* An acceptor's vote reaches a replica: its acceptor passes it on, its proposer
   counts it, its learner delivers what it can, all in one handler. *)
LEMMA ReceiveAcceptedOK ==
    ASSUME SystemInv, NEW m \in replies, m.type = "ACCEPTED", ReceiveAccepted(m)
    PROVE  SystemInv' /\ Only(m.to)
<1> DEFINE settled == evpaxos_replica_deliver(m.to, m)
<1>1. /\ Forwards(m)
      /\ IfProposer(m.to, evproposer_handle_accepted(m.to, m, settled))
      /\ \/ m.to \in Learners /\ evlearner_handle_accepted(m.to, m)
         \/ m.to \notin Learners /\ UNCHANGED learnerVars
    BY DEF ReceiveAccepted, Forwards
<1>2. /\ settled \in Iid \cup {0}
      /\ m.to \in Proposers => Calm(m.to, proposer[m.to], replies, {}, settled)
    BY SettledOK
<1> HIDE DEF settled
<1>3. /\ Lawful /\ replies \subseteq replies' /\ Backed(requests, records', replies')
      /\ requests' \subseteq Request => AcceptorTypeOK'
    BY <1>1, ForwardStep
<1>4. /\ ProposersOK(proposer', requests', replies', submitted', closed')
      /\ requests \subseteq requests' /\ submitted' = submitted /\ Only(m.to)
    <2>1. CASE m.to \in Proposers /\ evproposer_handle_accepted(m.to, m, settled)
        <3>1. m \in Reply
            BY DEF SystemInv, IInv, AcceptorTypeOK
        <3>2. m.aid \in Replica /\ Accepts(m.aid, m.iid, m.ballot, replies)
            BY <3>1 DEF Reply, Accepts
        <3>3. ProposersOK(proposer, requests, replies, submitted, closed)
            BY DEF SystemInv
        <3> QED
            BY <1>2, <1>3, <2>1, <3>2, <3>3, AcceptedStep, Zenon
    <2>2. CASE UNCHANGED <<proposerVars, requests>>
        BY <1>3, <2>2, NoProposer
    <2> QED
        BY <1>1, <2>1, <2>2 DEF IfProposer
<1>5. AcceptorTypeOK' /\ submitted \subseteq submitted' /\ submitted' \subseteq Active \X Value
    BY <1>3, <1>4 DEF ProposersOK, SystemInv
<1>6. CASE UNCHANGED learnerVars
    BY <1>3, <1>4, <1>5, <1>6, NoLearnerStep
<1>7. CASE m.to \in Learners /\ evlearner_handle_accepted(m.to, m)
    <2> DEFINE R == ToLearners(replies)
               T == ToLearners(replies')
    <2>1. R \subseteq T /\ m \in R
        BY <1>3, <1>7 DEF ToLearners
    <2>2. RepliesOK(R) /\ RepliesOK(T)
        <3>1. replies \subseteq Reply
            BY DEF SystemInv, IInv, AcceptorTypeOK
        <3>2. RepliesOK(R)
            BY <3>1, AnnouncedOK DEF SystemInv
        <3> QED
            BY <1>3, <1>5, <3>2, NextAnnounced
    <2>3. LearnersOK(learner, delivered, R) /\ \A r \in Learners : TableOK(learner[r])
        BY DEF SystemInv
    <2> HIDE DEF R, T
    <2>4. LearnersOK(learner', delivered', T)
        BY <1>7, <2>1, <2>2, <2>3, HandleAcceptedOK, Zenon
    <2>5. \A r \in Learners : TableOK(learner'[r])
        <3>1. m \in Announcement /\ R \cup {m} = R
            BY <2>1, <2>2 DEF RepliesOK
        <3>2. RepliesOK(R \cup {m})
            BY <2>2, <3>1
        <3> QED
            BY <1>7, <2>2, <2>3, <3>1, <3>2, HandleAcceptedTables
    <2> QED
        BY <1>3, <1>4, <1>5, <2>4, <2>5, SystemStep DEF T
<1> QED
    BY <1>1, <1>6, <1>7

(* A step that only sends messages that are news to no proposer, or none at all. *)
LEMMA OnlySends ==
    ASSUME SystemInv, UNCHANGED <<acceptorVars, proposerVars, learnerVars, replies>>,
           requests \subseteq requests', requests' \subseteq Request,
           PassedOn(requests, requests')
    PROVE  SystemInv'
<1>1. /\ UNCHANGED <<records, trim_iid, replies>> /\ UNCHANGED learnerVars
      /\ proposer' = proposer /\ submitted' = submitted /\ closed' = closed
    BY DEF acceptorVars, proposerVars
<1>2. AcceptorTypeOK' /\ Lawful /\ Backed(requests, records', replies')
    BY <1>1, SilentLawful, Zenon DEF SystemInv, IInv, AcceptorTypeOK
<1>3. ProposersOK(proposer, requests', replies, submitted, closed)
    BY QuietStep, Zenon DEF SystemInv
<1> QED
    BY <1>1, <1>2, <1>3, NoLearnerStep DEF SystemInv

(* The application of a replica asks for a trim. *)
LEMMA SendTrimOK ==
    ASSUME SystemInv, NEW r \in Learners, evpaxos_replica_send_trim(r)
    PROVE  SystemInv'
<1>1. PICK iid \in Checkpoints :
         requests' = requests \cup
            ToAll([type |-> "TRIM", from |-> r, to |-> r, iid |-> iid], Peers[r])
    BY DEF evpaxos_replica_send_trim
<1>2. r \in Replica /\ Peers[r] \subseteq Replica /\ iid \in Iid /\ requests \subseteq Request
    BY NeighboursAreReplicas, SystemAssumption, LearnerAssumption DEF SystemInv, IInv, AcceptorTypeOK
<1>3. \A a \in requests' : a \in requests \/ (a \in Request /\ a.type = "TRIM")
    BY <1>1, <1>2 DEF ToAll, Request
<1>4. requests' \subseteq Request /\ PassedOn(requests, requests')
    BY <1>2, <1>3 DEF PassedOn, Copy
<1> QED
    BY <1>1, <1>4, OnlySends DEF evpaxos_replica_send_trim

-------------------------------------------------------------------------------
(* evpaxos_replica_init: nothing is stored, pending or sent. *)
LEMMA InitOK ==
    ASSUME evpaxos_replica_init
    PROVE  SystemInv
<1>1. /\ IInv /\ Backed(requests, records, replies)
    BY NoRecordTyped
    DEF evpaxos_replica_init, acceptor_new, IInv, AcceptorTypeOK, TrimmedStayGone,
        AnswersBind, StoredWasAnnounced, Found, Backed, BackedRecord
<1>2. ProposersOK(proposer, requests, replies, submitted, closed)
    <2>1. /\ proposer = [p \in Proposers |-> proposer_new]
          /\ requests = {} /\ submitted = {} /\ closed = {}
        BY DEF evpaxos_replica_init
    <2> HIDE DEF proposer_new
    <2> QED
        BY <2>1, InitialProposers
<1>3. submitted \subseteq Active \X Value /\ Submitted(requests, submitted)
    BY DEF evpaxos_replica_init, Submitted
<1>4. learner \in [Learners -> StartStates] /\ delivered = [r \in Learners |-> <<>>]
    BY Zenon DEF evpaxos_replica_init, StartStates
<1>5. LearnersOK(learner, delivered, ToLearners(replies))
    BY <1>4, StartsOK
<1>6. \A r \in Learners : TableOK(learner[r])
    BY <1>4, StartTable
<1> QED
    BY <1>1, <1>2, <1>3, <1>5, <1>6 DEF SystemInv

(* Every step of the replicas keeps the invariant. *)
LEMMA StepOK ==
    ASSUME SystemInv, [SystemNext]_systemVars
    PROVE  SystemInv'
<1>1. ASSUME NEW p \in Active, Submit(p) PROVE SystemInv'
    BY <1>1, SubmitOK
<1>2. ASSUME NEW m \in requests, ReceiveRequest(m) PROVE SystemInv'
    BY <1>2, ReceiveRequestOK
<1>3. ASSUME NEW m \in replies, m.type = "PROMISE", ReceivePromise(m) PROVE SystemInv'
    BY <1>3, ReceivePromiseOK
<1>4. ASSUME NEW m \in replies, m.type = "PREEMPTED", ReceivePreempted(m) PROVE SystemInv'
    BY <1>4, ReceivePreemptedOK
<1>5. ASSUME NEW m \in replies, m.type = "ACCEPTED", ReceiveAccepted(m) PROVE SystemInv'
    BY <1>5, ReceiveAcceptedOK
<1>6. ASSUME NEW r \in Learners, evpaxos_replica_send_trim(r) PROVE SystemInv'
    BY <1>6, SendTrimOK
<1>7. CASE UNCHANGED systemVars
    <2>1. /\ UNCHANGED <<acceptorVars, proposerVars, learnerVars, replies>> /\ requests' = requests
        BY <1>7 DEF systemVars
    <2>2. requests' \subseteq Request /\ PassedOn(requests, requests')
        BY <2>1 DEF PassedOn, Copy, SystemInv, IInv, AcceptorTypeOK
    <2> QED
        BY <2>1, <2>2, OnlySends
<1> QED
    BY <1>1, <1>2, <1>3, <1>4, <1>5, <1>6, <1>7 DEF SystemNext

(* The invariant holds in every state of the replicas. *)
THEOREM SystemInvariant == SystemSpec => []SystemInv
<1>1. evpaxos_replica_init => SystemInv
    BY InitOK
<1>2. SystemInv /\ [SystemNext]_systemVars => SystemInv'
    BY StepOK
<1> QED
    BY <1>1, <1>2, PTL DEF SystemSpec

-------------------------------------------------------------------------------
(* Together the components keep their types: no handler is ever given a message
   that takes it out of them. *)
THEOREM SystemTypeInvariant == SystemSpec => []SystemTypeOK
<1>1. SystemInv => SystemTypeOK
    <2> SUFFICES ASSUME SystemInv PROVE SystemTypeOK
        OBVIOUS
    <2>1. AcceptorTypeOK /\ replies \subseteq Reply
        BY DEF SystemInv, IInv, AcceptorTypeOK
    <2>2. ProposersOK(proposer, requests, replies, submitted, closed)
        BY DEF SystemInv
    <2>3. ProposerTypeOK
        BY <2>1, <2>2, ProposersTyped, Zenon
    <2>4. LearnerTypeOK
        BY LearnersTyped DEF SystemInv
    <2> QED
        BY <2>1, <2>3, <2>4 DEF SystemTypeOK
<1> QED
    BY <1>1, SystemInvariant, PTL

(* Whatever a learner delivers, a client has submitted it and a majority of the
   acceptors has voted for it in one ballot. *)
LEMMA DecidedWasChosen ==
    ASSUME SystemInv, NEW r, NEW i, NEW v, Decided(ToLearners(replies), r, i, v)
    PROVE  /\ \E k \in requests : k.type = "ACCEPT" /\ k.iid = i /\ k.value = v
           /\ \E p \in Active : <<p, v>> \in submitted
           /\ \E b \in Ballot : Majority({a \in Replica : <<a, i, b, v>> \in Votes})
<1>1. PICK k \in requests : k.type = "ACCEPT" /\ k.iid = i /\ k.value = v
    <2>1. PICK m \in replies : m.type = "ACCEPTED" /\ m.iid = i /\ m.value = v
        BY DecidedAnnounced DEF ToLearners
    <2>2. AskedFor(requests, i, m.ballot, v)
        BY <2>1 DEF SystemInv, Backed, BackedReply
    <2> QED
        BY <2>2 DEF AskedFor
<1>2. \E p \in Active : <<p, v>> \in submitted
    BY <1>1 DEF SystemInv, Submitted
<1>3. PICK b \in Ballot : Majority(AcksFor(ToLearners(replies), r, i, b, v))
    BY DEF Decided
<1> DEFINE A == AcksFor(ToLearners(replies), r, i, b, v)
           B == {a \in Replica : <<a, i, b, v>> \in Votes}
<1>4. A \subseteq B
    <2> SUFFICES ASSUME NEW m \in replies, m.type = "ACCEPTED",
                        m.iid = i, m.ballot = b, m.value = v
                 PROVE  m.aid \in B
        BY Zenon DEF AcksFor, ToLearners
    <2>1. m.aid \in Replica
        BY DEF SystemInv, IInv, AcceptorTypeOK, Reply
    <2> QED
        BY <2>1 DEF Votes
<1>5. Majority(A) /\ B \in SUBSET Replica
    BY <1>3
<1> HIDE DEF A, B
<1>6. Majority(B)
    BY <1>4, <1>5, MajorityGrows
<1> QED
    BY <1>1, <1>2, <1>6, Zenon DEF B

(* What any replica delivers is a decision: evproposer, evacceptor and evlearner
   together, with messages lost, repeated, reordered and forwarded. *)
THEOREM DeliversChosen == SystemSpec => []DeliveredWasChosen
<1>1. SystemInv => DeliveredWasChosen
    <2> SUFFICES ASSUME SystemInv, NEW r \in Learners, NEW k \in DOMAIN delivered[r],
                        NEW d, d = delivered[r][k]
                 PROVE  /\ \E p \in Active : <<p, d[2]>> \in submitted
                        /\ \E b \in Ballot :
                              Majority({a \in Replica : <<a, d[1], b, d[2]>> \in Votes})
        BY Zenon DEF DeliveredWasChosen, Range
    <2>1. Decided(ToLearners(replies), r, d[1], d[2])
        BY DEF SystemInv, LearnersOK, DeliveredOK
    <2> QED
        BY <2>1, DecidedWasChosen
<1> QED
    BY <1>1, SystemInvariant, PTL

(* The acceptors that a proposer counts in prepare_instances and accept_instances
   are bound by their answers, unless they have trimmed the instance. *)
THEOREM CountedAreBound == SystemSpec => []QuorumIsBound
<1>1. SystemInv => QuorumIsBound
    <2> SUFFICES ASSUME SystemInv, NEW p \in Proposers
                 PROVE  /\ \A i \in DOMAIN proposer[p].prepare_instances :
                           \A a \in proposer[p].prepare_instances[i].quorum :
                              \/ i <= trim_iid[a]
                              \/ proposer[p].prepare_instances[i].ballot <= records[a][i].ballot
                        /\ \A i \in DOMAIN proposer[p].accept_instances :
                           \A a \in proposer[p].accept_instances[i].quorum :
                              \/ i <= trim_iid[a]
                              \/ proposer[p].accept_instances[i].ballot <= records[a][i].ballot
        BY DEF QuorumIsBound
    <2> DEFINE s == proposer[p]
    <2>1. PromisesOK(p, s, replies) /\ AcksOK(s, replies)
        BY DEF SystemInv, ProposersOK, ProposerOK
    <2>2. \A m \in replies : m.iid <= trim_iid[m.aid] \/ m.ballot <= records[m.aid][m.iid].ballot
        BY DEF SystemInv, IInv, AnswersBind
    <2> HIDE DEF s
    <2>3. ASSUME NEW i \in DOMAIN s.prepare_instances, NEW a \in s.prepare_instances[i].quorum
          PROVE  \E m \in replies : m.aid = a /\ m.iid = i /\ m.ballot = s.prepare_instances[i].ballot
        <3>1. PICK S \in SUBSET PromisesTo(p, i, s.prepare_instances[i].ballot, replies) :
                 {m.aid : m \in S} = s.prepare_instances[i].quorum
            BY <2>1, Zenon DEF PromisesOK, Heard
        <3> QED
            BY <3>1 DEF PromisesTo
    <2>4. ASSUME NEW i \in DOMAIN s.accept_instances, NEW a \in s.accept_instances[i].quorum
          PROVE  \E m \in replies : m.aid = a /\ m.iid = i /\ m.ballot = s.accept_instances[i].ballot
        BY <2>1 DEF AcksOK
    <2> QED
        BY <2>2, <2>3, <2>4 DEF s
<1> QED
    BY <1>1, SystemInvariant, PTL

(* What the acceptors and the proposers guarantee on their own holds when they are
   put together, although relays and other proposers then send what each of them
   was given by an environment before: answers still bind, trimmed instances stay
   away, and a ballot still has one value. *)
THEOREM ComponentsStayRight ==
    SystemSpec => [](AnswersBind /\ TrimmedStayGone /\ StoredWasAnnounced /\ OneValuePerBallot)
<1>1. SystemInv => AnswersBind /\ TrimmedStayGone /\ StoredWasAnnounced
    BY DEF SystemInv, IInv
<1>2. SystemInv => OneValuePerBallot
    BY OneValue DEF SystemInv, OneValuePerBallot
<1> QED
    BY <1>1, <1>2, SystemInvariant, PTL
===============================================================================
