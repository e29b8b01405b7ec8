---------------------------- MODULE BroadcastProofs ----------------------------
(***************************************************************************)
(* The replicas implement an atomic broadcast as long as the clients use   *)
(* one proposer, for any topology, number of replicas, instances, ballots  *)
(* and values; and what is proved of the replicas holds under the fair     *)
(* scheduler.                                                              *)
(***************************************************************************)
EXTENDS FairSystem, SystemProofs

(* Under the scheduler and the network of FairSystem the replicas take no other
   steps: what dispatch_message hands to a handler is a message of its type. *)
THEOREM FairRefinesSystem == FairSpec => SystemSpec
<1>1. FairInit => evpaxos_replica_init
    BY DEF FairInit
<1>2. evpaxos_replica_init => SystemInv
    BY InitOK
<1>3. SystemInv /\ [FairNext]_fairVars => [SystemNext]_systemVars
    <2> SUFFICES ASSUME SystemInv, [FairNext]_fairVars
                 PROVE  SystemNext \/ UNCHANGED systemVars
        OBVIOUS
    <2>1. CASE UNCHANGED fairVars
        BY <2>1 DEF fairVars
    <2>2. CASE Application
        BY <2>2 DEF Application, SystemNext
    <2>3. ASSUME NEW m \in requests \cup replies, dispatch_message(m)
          PROVE  SystemNext
        <3>1. m.type \in {"PROMISE", "PREEMPTED", "ACCEPTED"} => m \in replies
            BY DEF SystemInv, IInv, AcceptorTypeOK, Request
        <3>2. CASE m \in requests /\ ReceiveRequest(m)
            BY <3>2 DEF SystemNext
        <3>3. CASE m.type = "PROMISE" /\ ReceivePromise(m)
            BY <3>1, <3>3 DEF SystemNext
        <3>4. CASE m.type = "PREEMPTED" /\ ReceivePreempted(m)
            BY <3>1, <3>4 DEF SystemNext
        <3>5. CASE m.type = "ACCEPTED" /\ ReceiveAccepted(m)
            BY <3>1, <3>5 DEF SystemNext
        <3> QED
            BY <2>3, <3>2, <3>3, <3>4, <3>5 DEF dispatch_message
    <2> QED
        BY <2>1, <2>2, <2>3 DEF FairNext, on_read
<1>4. SystemInv /\ [SystemNext]_systemVars => SystemInv'
    BY StepOK
<1> QED
    BY <1>1, <1>2, <1>3, <1>4, PTL DEF FairSpec, SystemSpec

-------------------------------------------------------------------------------
(***************************************************************************)
(* One proposer at work, p.  Nobody ever sees a ballot but the first of p: *)
(* the other proposers have nothing to send, and a proposer that is never  *)
(* refused keeps its ballot.  The learners began with the first instance.  *)
(***************************************************************************)
First(p) == proposer_next_ballot(p, 0)
OthersIdle(p, proposers) == \A q \in Proposers : q # p => Idle(proposers[q])

SoleInv(p) ==
    /\ SentAt(First(p), requests) /\ RecordsAt(First(p), records)
    /\ RepliesAt(First(p), replies)
    /\ OthersIdle(p, proposer) /\ FromFirst(learner, delivered)

(* A proposer whose answers are all at its first ballot sends nothing else. *)
LEMMA SoleSends ==
    ASSUME NEW p \in Proposers, NEW P, NEW Q, NEW R, NEW G, NEW C, ProposersOK(P, Q, R, G, C),
           RepliesAt(First(p), R), NEW Qo, SentAt(First(p), Qo),
           \A a \in Q : a \in Qo \/ a.src = p
    PROVE  SentAt(First(p), Q)
<1>1. Unopposed(p, R)
    BY DEF RepliesAt, Unopposed, First
<1>2. UnopposedOK(p, P[p], Q, Pursued(p, G, C))
    BY <1>1, Zenon DEF ProposersOK, ProposerOK
<1>3. \A m \in Q : m.type \in {"PREPARE", "ACCEPT"} /\ m.src = p => m.ballot = First(p)
    BY <1>2, Zenon DEF UnopposedOK, First
<1> QED
    BY <1>3 DEF SentAt

(* The handler of one proposer, p or another, after which the answers are still at
   the first ballot of p. *)
LEMMA SoleHandler ==
    ASSUME SystemInv, SystemInv', NEW p \in Proposers, SoleInv(p), NEW r, Only(r),
           r # p => StaysIdle(r) \/ UNCHANGED <<proposer, requests>>,
           RepliesAt(First(p), replies')
    PROVE  SentAt(First(p), requests') /\ OthersIdle(p, proposer')
<1>1. SentAt(First(p), requests) /\ OthersIdle(p, proposer)
    BY DEF SoleInv
<1>2. CASE r = p
    <2>1. /\ \A a \in requests' : a \in requests \/ a.src = p
          /\ \A q \in Proposers : q # p => proposer'[q] = proposer[q]
        BY <1>2 DEF Only
    <2>2. ProposersOK(proposer', requests', replies', submitted', closed')
        BY DEF SystemInv
    <2>3. SentAt(First(p), requests')
        BY <1>1, <2>1, <2>2, SoleSends
    <2> QED
        BY <1>1, <2>1, <2>3 DEF OthersIdle
<1>3. CASE StaysIdle(r)
    <2>1. PICK t : Idle(t) /\ proposer' = [proposer EXCEPT ![r] = t] /\ requests' = requests
        BY <1>3, Zenon DEF StaysIdle
    <2>2. proposer = [q \in Proposers |-> proposer[q]]
        BY DEF SystemInv, ProposersOK
    <2>3. ASSUME NEW q \in Proposers, q # p PROVE Idle(proposer'[q])
        BY <1>1, <2>1, <2>2, <2>3 DEF OthersIdle
    <2> QED
        BY <1>1, <2>1, <2>3 DEF OthersIdle
<1>4. CASE UNCHANGED <<proposer, requests>>
    BY <1>1, <1>4
<1> QED
    BY <1>2, <1>3, <1>4

(* An answer is handled at a replica. *)
LEMMA SoleAnswer ==
    ASSUME SystemInv, SystemInv', NEW p \in Proposers, SoleInv(p),
           NEW m \in replies, Forwards(m), Only(m.to), NEW settled,
           IfProposer(m.to, \/ evproposer_handle_promise(m.to, m)
                            \/ evproposer_handle_accepted(m.to, m, settled)
                            \/ evproposer_handle_preempted(m.to, m))
    PROVE  /\ SentAt(First(p), requests') /\ RecordsAt(First(p), records')
           /\ RepliesAt(First(p), replies') /\ OthersIdle(p, proposer')
<1>1. RecordsAt(First(p), records') /\ RepliesAt(First(p), replies')
    BY ForwardAt DEF SoleInv, SystemInv, IInv
<1>2. m.to # p => StaysIdle(m.to) \/ UNCHANGED <<proposer, requests>>
    <2> SUFFICES ASSUME m.to # p PROVE StaysIdle(m.to) \/ UNCHANGED <<proposer, requests>>
        OBVIOUS
    <2>1. CASE m.to \notin Proposers
        BY <2>1 DEF IfProposer, proposerVars
    <2>2. CASE m.to \in Proposers
        <3>1. /\ m.to \in Replica /\ StructOK(m.to, proposer[m.to])
              /\ Idle(proposer[m.to])
            BY <2>2, ProposersAreReplicas DEF SystemInv, ProposersOK, ProposerOK, SoleInv, OthersIdle
        <3>2. \/ evproposer_handle_promise(m.to, m)
              \/ evproposer_handle_accepted(m.to, m, settled)
              \/ evproposer_handle_preempted(m.to, m)
            BY <2>2 DEF IfProposer
        <3> QED
            BY <3>1, <3>2, IdleHandlers
    <2> QED
        BY <2>1, <2>2
<1>3. SentAt(First(p), requests') /\ OthersIdle(p, proposer')
    BY <1>1, <1>2, SoleHandler
<1> QED
    BY <1>1, <1>3

(* A vote reaches a learner: it goes on delivering where it stopped. *)
LEMMA SoleDelivers ==
    ASSUME SystemInv, FromFirst(learner, delivered), NEW m \in replies, m.type = "ACCEPTED",
           m.to \in Learners, evlearner_handle_accepted(m.to, m)
    PROVE  /\ FromFirst(learner', delivered')
           /\ \A s \in Learners \ {m.to} : delivered'[s] = delivered[s]
           /\ \E e \in Seq(Nat \X Value) : delivered'[m.to] = delivered[m.to] \o e
<1> DEFINE R == ToLearners(replies)
<1>1. replies \subseteq Reply
    BY DEF SystemInv, IInv, AcceptorTypeOK
<1>2. RepliesOK(R)
    BY <1>1, AnnouncedOK DEF SystemInv
<1>3. LearnersOK(learner, delivered, R) /\ m \in R
    BY DEF SystemInv, ToLearners
<1> HIDE DEF R
<1> QED
    BY <1>2, <1>3, DeliveriesExtend, Zenon

(* Every step keeps all of it. *)
LEMMA SoleStep ==
    ASSUME SystemInv, NEW p, Active = {p}, SoleInv(p), [SystemNext]_systemVars
    PROVE  SoleInv(p)'
<1> DEFINE b == First(p)
<1>0. p \in Proposers /\ p \in Replica /\ b \in Nat
    BY ProposersAreReplicas, NextBallotFacts DEF First
<1>1. /\ SentAt(b, requests) /\ RecordsAt(b, records) /\ RepliesAt(b, replies)
      /\ OthersIdle(p, proposer) /\ FromFirst(learner, delivered)
    BY DEF SoleInv
<1>2. SystemInv'
    BY StepOK
<1> HIDE DEF b
<1>3. ASSUME NEW q \in Active, Submit(q) PROVE SoleInv(p)'
    <2>1. Only(p)
        BY <1>3, SubmitOK
    <2>2. UNCHANGED <<records, replies, learner, delivered>>
        BY <1>3 DEF Submit, ClientSubmits, acceptorVars, learnerVars
    <2>3. SentAt(b, requests') /\ OthersIdle(p, proposer')
        BY <1>0, <1>1, <1>2, <2>1, <2>2, SoleHandler DEF b
    <2> QED
        BY <1>1, <2>2, <2>3 DEF SoleInv, b
<1>4. ASSUME NEW m \in requests, ReceiveRequest(m) PROVE SoleInv(p)'
    <2>1. HandleRequest(m) /\ UNCHANGED <<proposer, learner, delivered>>
        BY <1>4 DEF ReceiveRequest, proposerVars, learnerVars
    <2>2. AcceptorTypeOK /\ requests \subseteq Request
        BY DEF SystemInv, IInv, AcceptorTypeOK
    <2>3. SentAt(b, requests')
        BY <1>1, <2>1, <2>2, PassedAt
    <2>4. m \in Request /\ (m.type \in {"PREPARE", "ACCEPT"} => m.ballot = b)
        BY <1>1, <2>2 DEF SentAt
    <2>5. RecordsAt(b, records') /\ RepliesAt(b, replies')
        BY <1>0, <1>1, <2>1, <2>2, <2>4, RequestAt
    <2> QED
        BY <1>1, <2>1, <2>3, <2>5 DEF SoleInv, b
<1>5. ASSUME NEW m \in replies, Forwards(m), Only(m.to), NEW settled,
             IfProposer(m.to, \/ evproposer_handle_promise(m.to, m)
                              \/ evproposer_handle_accepted(m.to, m, settled)
                              \/ evproposer_handle_preempted(m.to, m)),
             FromFirst(learner', delivered')
      PROVE  SoleInv(p)'
    BY <1>0, <1>2, <1>5, SoleAnswer, Zenon DEF SoleInv
<1>6. ASSUME NEW m \in replies, m.type = "PROMISE", ReceivePromise(m) PROVE SoleInv(p)'
    <2>1. Only(m.to)
        BY <1>6, ReceivePromiseOK
    <2>2. /\ Forwards(m) /\ UNCHANGED <<learner, delivered>>
          /\ IfProposer(m.to, \/ evproposer_handle_promise(m.to, m)
                              \/ evproposer_handle_accepted(m.to, m, 0)
                              \/ evproposer_handle_preempted(m.to, m))
        BY <1>6 DEF ReceivePromise, Forwards, IfProposer, learnerVars
    <2> QED
        BY <1>1, <1>5, <2>1, <2>2, Zenon
<1>7. ASSUME NEW m \in replies, m.type = "PREEMPTED", ReceivePreempted(m) PROVE SoleInv(p)'
    <2>1. Only(m.to)
        BY <1>7, ReceivePreemptedOK
    <2>2. /\ Forwards(m) /\ UNCHANGED <<learner, delivered>>
          /\ IfProposer(m.to, \/ evproposer_handle_promise(m.to, m)
                              \/ evproposer_handle_accepted(m.to, m, 0)
                              \/ evproposer_handle_preempted(m.to, m))
        BY <1>7 DEF ReceivePreempted, Forwards, IfProposer, learnerVars
    <2> QED
        BY <1>1, <1>5, <2>1, <2>2, Zenon
<1>8. ASSUME NEW m \in replies, m.type = "ACCEPTED", ReceiveAccepted(m) PROVE SoleInv(p)'
    <2>1. Only(m.to)
        BY <1>8, ReceiveAcceptedOK
    <2>2. PICK settled :
          /\ Forwards(m)
          /\ IfProposer(m.to, \/ evproposer_handle_promise(m.to, m)
                              \/ evproposer_handle_accepted(m.to, m, settled)
                              \/ evproposer_handle_preempted(m.to, m))
          /\ \/ m.to \in Learners /\ evlearner_handle_accepted(m.to, m)
             \/ UNCHANGED <<learner, delivered>>
        BY <1>8 DEF ReceiveAccepted, Forwards, IfProposer, learnerVars
    <2>3. FromFirst(learner', delivered')
        <3>1. CASE m.to \in Learners /\ evlearner_handle_accepted(m.to, m)
            BY <1>1, <1>8, <3>1, SoleDelivers
        <3>2. CASE UNCHANGED <<learner, delivered>>
            BY <1>1, <3>2
        <3> QED
            BY <2>2, <3>1, <3>2
    <2> QED
        BY <1>5, <2>1, <2>2, <2>3, Zenon
<1>9. ASSUME NEW r \in Learners, evpaxos_replica_send_trim(r) PROVE SoleInv(p)'
    <2>1. UNCHANGED <<records, replies, proposer, learner, delivered>>
        BY <1>9 DEF evpaxos_replica_send_trim, acceptorVars, proposerVars, learnerVars
    <2>2. \A a \in requests' : a \in requests \/ a.type = "TRIM"
        BY <1>9 DEF evpaxos_replica_send_trim, ToAll
    <2>3. SentAt(b, requests')
        BY <1>1, <2>2 DEF SentAt
    <2> QED
        BY <1>1, <2>1, <2>3 DEF SoleInv, b
<1>10. CASE UNCHANGED systemVars
    BY <1>10 DEF systemVars, acceptorVars, proposerVars, learnerVars, SoleInv
<1> QED
    BY <1>3, <1>4, <1>6, <1>7, <1>8, <1>9, <1>10 DEF SystemNext

-------------------------------------------------------------------------------
(* The logs when p alone has been at work: the requests Q and the answers R are at
   its first ballot, D is what the learners L have delivered. *)
SoleLogs(p, P, Q, S, R, G, C, L, D) ==
    /\ ProposersOK(P, Q, R, G, C) /\ Backed(Q, S, R) /\ Submitted(Q, G)
    /\ SentAt(First(p), Q) /\ RepliesAt(First(p), R)
    /\ LearnersOK(L, D, ToLearners(R)) /\ FromFirst(L, D)

(* Two ACCEPT requests are for one instance exactly when they are for one value. *)
LEMMA SoleInstances ==
    ASSUME NEW p \in Proposers, NEW P, NEW Q, NEW R, NEW G, NEW C, ProposersOK(P, Q, R, G, C),
           SentAt(First(p), Q), RepliesAt(First(p), R),
           NEW a \in Q, a.type = "ACCEPT", NEW c \in Q, c.type = "ACCEPT"
    PROVE  a.iid = c.iid <=> a.value = c.value
<1>1. a.ballot = First(p) /\ c.ballot = First(p)
    BY DEF SentAt
<1>2. ASSUME NEW m \in Q, m.type = "ACCEPT" PROVE m.src = p
    <2>1. m.src \in Proposers /\ AcceptsOK(m.src, P[m.src], Q) /\ m.ballot = First(p)
        BY <1>2 DEF ProposersOK, ProposerOK, SentAt
    <2>2. OwnBallot(m.src, First(p))
        BY <1>2, <2>1 DEF AcceptsOK, AcceptsOf, AcceptOK
    <2>3. OwnBallot(p, First(p))
        BY NextBallotFacts, ProposersAreReplicas DEF First
    <2> QED
        BY <2>2, <2>3 DEF OwnBallot
<1>3. a \in AcceptsOf(p, Q) /\ c \in AcceptsOf(p, Q)
    BY <1>2 DEF AcceptsOf
<1>4. UnopposedOK(p, P[p], Q, Pursued(p, G, C))
    <2>1. Unopposed(p, R)
        BY DEF RepliesAt, Unopposed, First
    <2> QED
        BY <2>1, Zenon DEF ProposersOK, ProposerOK
<1>5. a.value = c.value => a.iid = c.iid
    BY <1>3, <1>4, Zenon DEF UnopposedOK
<1>6. a.iid = c.iid => a.value = c.value
    BY <1>1, OneValue
<1> QED
    BY <1>5, <1>6

(* Every instance has one value and every value one instance, so all logs are one. *)
LEMMA SoleLogFacts ==
    ASSUME NEW p \in Proposers, NEW P, NEW Q, NEW S, NEW R, NEW G, NEW C, NEW L, NEW D,
           SoleLogs(p, P, Q, S, R, G, C, L, D)
    PROVE  OneLog(D) /\ FromClients(D, G)
<1>1. /\ ProposersOK(P, Q, R, G, C) /\ Backed(Q, S, R) /\ Submitted(Q, G)
      /\ SentAt(First(p), Q) /\ RepliesAt(First(p), R)
      /\ LearnersOK(L, D, ToLearners(R)) /\ FromFirst(L, D)
    BY Zenon DEF SoleLogs
<1>2. ASSUME NEW r \in Learners
      PROVE  /\ D[r] \in Seq(Nat \X Value) /\ L[r].current_iid = Len(D[r]) + 1
             /\ DeliveredOK(D[r], L[r].current_iid - 1, r, ToLearners(R))
    BY <1>1 DEF LearnersOK, FromFirst, DeliveredOK
<1>3. ASSUME NEW r \in Learners, NEW k \in DOMAIN D[r]
      PROVE  /\ D[r][k][1] = k
             /\ \E a \in Q : a.type = "ACCEPT" /\ a.iid = k /\ a.value = D[r][k][2]
    <2>1. D[r][k][1] = k /\ Decided(ToLearners(R), r, D[r][k][1], D[r][k][2])
        <3>1. /\ D[r][k][1] = L[r].current_iid - 1 - Len(D[r]) + k
              /\ Decided(ToLearners(R), r, D[r][k][1], D[r][k][2])
            BY <1>2, <1>3 DEF DeliveredOK
        <3>2. Len(D[r]) \in Nat /\ k \in Nat
            BY <1>2, <1>3
        <3> QED
            BY <1>2, <3>1, <3>2
    <2>2. PICK m \in ToLearners(R) : m.type = "ACCEPTED" /\ m.iid = k /\ m.value = D[r][k][2]
        BY <2>1, DecidedAnnounced
    <2>3. AskedFor(Q, k, m.ballot, D[r][k][2])
        BY <1>1, <2>2 DEF ToLearners, Backed, BackedReply
    <2> QED
        BY <2>1, <2>3 DEF AskedFor
<1>4. ASSUME NEW r \in Learners, NEW q \in Learners, NEW k \in DOMAIN D[r], NEW j \in DOMAIN D[q]
      PROVE  k = j <=> D[r][k][2] = D[q][j][2]
    <2>1. PICK a \in Q : a.type = "ACCEPT" /\ a.iid = k /\ a.value = D[r][k][2]
        BY <1>3
    <2>2. PICK c \in Q : c.type = "ACCEPT" /\ c.iid = j /\ c.value = D[q][j][2]
        BY <1>3
    <2>3. a.iid = c.iid <=> a.value = c.value
        <3>1. ProposersOK(P, Q, R, G, C) /\ SentAt(First(p), Q) /\ RepliesAt(First(p), R)
            BY <1>1, Zenon
        <3>2. a.type = "ACCEPT" /\ c.type = "ACCEPT"
            BY <2>1, <2>2, Zenon
        <3> QED
            BY <3>1, <3>2, SoleInstances
    <2> QED
        BY <2>1, <2>2, <2>3
<1>5. ASSUME NEW r \in Learners, NEW k \in DOMAIN D[r] PROVE \E s \in G : s[2] = D[r][k][2]
    <2>1. PICK a \in Q : a.type = "ACCEPT" /\ a.value = D[r][k][2]
        BY <1>3, <1>5
    <2>2. PICK q \in Active : <<q, a.value>> \in G
        BY <1>1, <2>1 DEF Submitted
    <2>3. <<q, a.value>>[2] = D[r][k][2]
        BY <2>1
    <2> QED
        BY <2>2, <2>3
<1> QED
    BY <1>2, <1>3, <1>4, <1>5 DEF OneLog, FullLogs, SameValues, FromClients

(* A replica that delivers extends its log, in line with every other. *)
LEMMA DeliverStep ==
    ASSUME IsFiniteSet(Value), NEW p \in Proposers,
           SoleLogs(p, proposer', requests', records', replies', submitted', closed',
                    learner', delivered'),
           delivered = [q \in Learners |-> delivered[q]],
           NEW r \in Learners, delivered[r] \in Seq(Nat \X Value),
           NEW e \in Seq(Nat \X Value), delivered'[r] = delivered[r] \o e,
           \A q \in Learners \ {r} : delivered'[q] = delivered[q], submitted' = submitted
    PROVE  Broadcast!Deliver(r)
<1> DEFINE x == Values(delivered'[r])
           logs == [q \in Learners |-> Values(delivered[q])]
           new == Values(e)
<1>1. OneLog(delivered') /\ FromClients(delivered', submitted')
    BY SoleLogFacts, Zenon
<1>2. new \in UNION {[1 .. n -> Value] : n \in 0 .. Cardinality(Value)}
    BY <1>1, LogExtends
<1>3. Distinct(x) /\ \A q \in Learners : InLine(Values(delivered'[q]), x)
    BY <1>1, LogsInLine, Zenon
<1>4. \A k \in DOMAIN x : \E s \in submitted : s[2] = x[k]
    BY <1>1, Zenon DEF FromClients, Values
<1>5. logs[r] \o new = x
    BY ValuesFacts, Zenon
<1> HIDE DEF x, new
<1>6. Broadcast!IsInjective(x) /\ Broadcast!Range(x) \subseteq {s[2] : s \in submitted}
    BY <1>3, <1>4 DEF Broadcast!IsInjective, Broadcast!Range, Distinct
<1>7. \A q \in Learners \ {r} :
         Broadcast!IsRestriction(logs[q], x) \/ Broadcast!IsRestriction(x, logs[q])
    <2>1. ASSUME NEW q \in Learners \ {r}
          PROVE  Broadcast!IsRestriction(logs[q], x) \/ Broadcast!IsRestriction(x, logs[q])
        <3>1. logs[q] = Values(delivered'[q])
            OBVIOUS
        <3>2. InLine(logs[q], x)
            BY <1>3, <3>1
        <3> QED
            BY <3>2, Zenon DEF Broadcast!IsRestriction, InLine
    <2> QED
        BY <2>1
<1>8. [q \in Learners |-> Values(delivered'[q])] = [logs EXCEPT ![r] = x]
    BY Zenon DEF x
<1>9. Broadcast!Cardinality(Value) = Cardinality(Value)
    BY DEF Cardinality, Broadcast!Cardinality
<1> QED
    BY <1>2, <1>5, <1>6, <1>7, <1>8, <1>9, Zenon DEF Broadcast!Deliver, Values

(* Any other step is that of a client, or none. *)
LEMMA QuietLogs ==
    ASSUME delivered' = delivered, submitted \subseteq submitted',
           submitted' \subseteq Active \X Value
    PROVE  Broadcast!Submit
<1> DEFINE V == {s[2] : s \in submitted'}
<1>1. V \in SUBSET Value
    OBVIOUS
<1>2. V = {s[2] : s \in submitted} \cup V
    OBVIOUS
<1> QED
    BY <1>1, <1>2, Zenon DEF Broadcast!Submit

(* The replicas start with empty logs and nothing sent. *)
LEMMA SoleInit ==
    ASSUME NEW p, evpaxos_replica_init
    PROVE  SoleInv(p) /\ Broadcast!BroadcastInit
<1>1. /\ requests = {} /\ replies = {} /\ acceptor_new
      /\ proposer = [q \in Proposers |-> proposer_new] /\ submitted = {}
      /\ learner = [r \in Learners |-> learner_new(FALSE)]
      /\ delivered = [r \in Learners |-> <<>>]
    BY DEF evpaxos_replica_init
<1>2. SentAt(First(p), requests) /\ RepliesAt(First(p), replies)
    BY <1>1 DEF SentAt, RepliesAt
<1>3. RecordsAt(First(p), records)
    BY <1>1 DEF acceptor_new, RecordsAt, Found
<1>4. OthersIdle(p, proposer)
    BY <1>1 DEF OthersIdle, Idle, proposer_new, EmptyTable
<1>5. FromFirst(learner, delivered)
    BY <1>1 DEF FromFirst, learner_new
<1>6. Broadcast!BroadcastInit
    BY <1>1 DEF Broadcast!BroadcastInit
<1> QED
    BY <1>2, <1>3, <1>4, <1>5, <1>6 DEF SoleInv

(* What SystemInv and SoleInv say of the logs. *)
LEMMA SoleInvLogs ==
    ASSUME NEW p, SystemInv, SoleInv(p)
    PROVE  SoleLogs(p, proposer, requests, records, replies, submitted, closed,
                    learner, delivered)
    BY DEF SystemInv, SoleInv, SoleLogs

(* Only a client adds to what was submitted, and only a vote makes a learner deliver. *)
LEMMA StepsOfLogs ==
    ASSUME [SystemNext]_systemVars
    PROVE  \/ delivered' = delivered /\ submitted \subseteq submitted'
           \/ /\ submitted' = submitted
              /\ \E m \in replies : /\ m.type = "ACCEPTED" /\ m.to \in Learners
                                    /\ evlearner_handle_accepted(m.to, m)
<1>1. ASSUME NEW q \in Active, Submit(q)
      PROVE  delivered' = delivered /\ submitted \subseteq submitted'
    BY <1>1 DEF Submit, ClientSubmits, evproposer_handle_client_value, learnerVars
<1>2. ASSUME NEW m \in requests, ReceiveRequest(m)
      PROVE  UNCHANGED <<delivered, submitted>>
    BY <1>2 DEF ReceiveRequest, proposerVars, learnerVars
<1>3. ASSUME NEW m, ReceivePromise(m) PROVE UNCHANGED <<delivered, submitted>>
    BY <1>3, Zenon DEF ReceivePromise, IfProposer, evproposer_handle_promise, proposerVars, learnerVars
<1>4. ASSUME NEW m, ReceivePreempted(m) PROVE UNCHANGED <<delivered, submitted>>
    BY <1>4 DEF ReceivePreempted, IfProposer, evproposer_handle_preempted, proposerVars,
        learnerVars
<1>5. ASSUME NEW m, ReceiveAccepted(m)
      PROVE  /\ submitted' = submitted
             /\ \/ m.to \in Learners /\ evlearner_handle_accepted(m.to, m)
                \/ delivered' = delivered
    BY <1>5, Zenon DEF ReceiveAccepted, IfProposer, evproposer_handle_accepted, proposerVars,
        learnerVars
<1>6. ASSUME NEW r \in Learners, evpaxos_replica_send_trim(r)
      PROVE  UNCHANGED <<delivered, submitted>>
    BY <1>6 DEF evpaxos_replica_send_trim, proposerVars, learnerVars
<1>7. CASE UNCHANGED systemVars
    BY <1>7 DEF systemVars, proposerVars, learnerVars
<1> QED
    BY <1>1, <1>2, <1>3, <1>4, <1>5, <1>6, <1>7 DEF SystemNext

(* Every step of the replicas is one of the broadcast. *)
LEMMA BroadcastStep ==
    ASSUME IsFiniteSet(Value), NEW p, Active = {p}, SystemInv, SoleInv(p),
           [SystemNext]_systemVars
    PROVE  Broadcast!BroadcastNext
<1>1. SystemInv' /\ SoleInv(p)' /\ p \in Proposers
    BY StepOK, SoleStep, ProposersAreReplicas
<1>2. CASE delivered' = delivered /\ submitted \subseteq submitted'
    <2>1. submitted' \subseteq Active \X Value
        BY <1>1 DEF SystemInv
    <2> QED
        BY <1>2, <2>1, QuietLogs DEF Broadcast!BroadcastNext
<1>3. ASSUME submitted' = submitted, NEW m \in replies, m.type = "ACCEPTED",
             m.to \in Learners, evlearner_handle_accepted(m.to, m)
      PROVE  Broadcast!BroadcastNext
    <2>1. /\ \A q \in Learners \ {m.to} : delivered'[q] = delivered[q]
          /\ \E e \in Seq(Nat \X Value) : delivered'[m.to] = delivered[m.to] \o e
        BY <1>3, SoleDelivers, Zenon DEF SoleInv
    <2>2. PICK e \in Seq(Nat \X Value) : delivered'[m.to] = delivered[m.to] \o e
        BY <2>1
    <2>3. /\ delivered = [q \in Learners |-> delivered[q]]
          /\ delivered[m.to] \in Seq(Nat \X Value)
        BY <1>3 DEF SystemInv, LearnersOK, DeliveredOK
    <2>4. SoleLogs(p, proposer', requests', records', replies', submitted', closed',
                   learner', delivered')
        BY <1>1, SoleInvLogs DEF SystemInv, SoleInv, SoleLogs
    <2>5. Broadcast!Deliver(m.to)
        BY <1>1, <1>3, <2>1, <2>2, <2>3, <2>4, DeliverStep, Zenon
    <2> QED
        BY <1>3, <2>5 DEF Broadcast!BroadcastNext
<1> QED
    BY <1>2, <1>3, StepsOfLogs

(* With one proposer at work the replicas are an atomic broadcast: each delivers
   values that were submitted, none twice, and all in one order. *)
THEOREM SoleProposerBroadcasts ==
    ASSUME NEW p, Active = {p}, IsFiniteSet(Value)
    PROVE  SystemSpec => ImplementsBroadcast
<1>1. evpaxos_replica_init => SystemInv /\ SoleInv(p) /\ Broadcast!BroadcastInit
    BY InitOK, SoleInit
<1>2. SystemInv /\ SoleInv(p) /\ [SystemNext]_systemVars => SystemInv' /\ SoleInv(p)'
    BY StepOK, SoleStep
<1>3. SystemInv /\ SoleInv(p) /\ [SystemNext]_systemVars => Broadcast!BroadcastNext
    BY BroadcastStep
<1> QED
    BY <1>1, <1>2, <1>3, PTL DEF SystemSpec, ImplementsBroadcast, Broadcast!BroadcastSpec

(* With one proposer at work replicas agree on what an instance holds, a trim or a
   replica that lags notwithstanding. *)
THEOREM SoleProposerAgrees ==
    ASSUME NEW p, Active = {p}
    PROVE  SystemSpec => []Agreement
<1>1. evpaxos_replica_init => SystemInv /\ SoleInv(p)
    BY InitOK, SoleInit
<1>2. SystemInv /\ SoleInv(p) /\ [SystemNext]_systemVars => SystemInv' /\ SoleInv(p)'
    BY StepOK, SoleStep
<1>3. SystemInv /\ SoleInv(p) => Agreement
    <2> SUFFICES ASSUME SystemInv, SoleInv(p),
                        NEW r \in Learners, NEW q \in Learners,
                        NEW d \in Range(delivered[r]), NEW e \in Range(delivered[q]),
                        d[1] = e[1]
                 PROVE  d[2] = e[2]
        BY DEF Agreement
    <2>1. OneLog(delivered)
        BY SoleInvLogs, SoleLogFacts, ProposersAreReplicas
    <2>2. PICK k \in DOMAIN delivered[r], j \in DOMAIN delivered[q] :
             d = delivered[r][k] /\ e = delivered[q][j]
        BY DEF Range
    <2>3. k = j
        BY <2>1, <2>2 DEF OneLog, FullLogs
    <2>4. \A i \in DOMAIN delivered[r], l \in DOMAIN delivered[q] :
             i = l <=> delivered[r][i][2] = delivered[q][l][2]
        BY <2>1, Zenon DEF OneLog, SameValues
    <2> QED
        BY <2>2, <2>3, <2>4
<1> QED
    BY <1>1, <1>2, <1>3, PTL DEF SystemSpec
===============================================================================
