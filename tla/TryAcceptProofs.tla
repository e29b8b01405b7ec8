-------------------------- MODULE TryAcceptProofs --------------------------
(***************************************************************************)
(* try_accept as a whole, the trim that may follow it, and the handlers of *)
(* a client value and of a promise, which end in it: from a struct proposer*)
(* that is as it should be to another, with requests that are right.       *)
(***************************************************************************)
EXTENDS StructProofs

(* Opening new instances and trimming old ones leaves the ACCEPT requests sent
   so far, and the promises counted so far, as they were. *)
LEMMA LaterAccepts ==
    ASSUME NEW p, NEW s, NEW t, NEW Q, StructOK(p, s), StructOK(p, t), Later(s, t),
           Q \subseteq Request, AcceptsOK(p, s, Q)
    PROVE  AcceptsOK(p, t, Q)
<1> SUFFICES ASSUME NEW m \in AcceptsOf(p, Q) PROVE AcceptOK(p, t, m)
    BY Zenon DEF AcceptsOK
<1>1. AcceptOK(p, s, m)
    BY DEF AcceptsOK
<1>2. m.iid \in Nat
    BY IidFacts DEF AcceptsOf, Request
<1>3. s.next_prepare_iid \in Nat /\ t.next_prepare_iid \in Nat
    BY StructFacts
<1>4. OwnBallot(p, m.ballot) /\ m.iid <= s.next_prepare_iid
    BY <1>1 DEF AcceptOK
<1>5. m.iid <= t.next_prepare_iid
    BY <1>2, <1>3, <1>4 DEF Later
<1>6. m.iid \in DOMAIN t.prepare_instances =>
         m.ballot < t.prepare_instances[m.iid].ballot
    BY <1>1, <1>2, <1>3, <1>4 DEF Later, AcceptOK
<1>7. m.iid \in DOMAIN t.accept_instances =>
         LET inst == t.accept_instances[m.iid]
         IN  /\ m.ballot <= inst.ballot
             /\ m.ballot = inst.ballot => m.value = Proposed(inst)
    BY <1>1 DEF Later, AcceptOK
<1> QED
    BY <1>4, <1>5, <1>6, <1>7 DEF AcceptOK

(* The promises counted so far, likewise. *)
LEMMA LaterPromises ==
    ASSUME NEW p, NEW s, NEW t, NEW R, Later(s, t), PromisesOK(p, s, R)
    PROVE  PromisesOK(p, t, R)
<1> SUFFICES ASSUME NEW i \in DOMAIN t.prepare_instances
             PROVE  \E S \in SUBSET PromisesTo(p, i, t.prepare_instances[i].ballot, R) :
                       Heard(t.prepare_instances[i], S)
    BY Zenon DEF PromisesOK
<1>1. CASE /\ i \in DOMAIN s.prepare_instances
           /\ t.prepare_instances[i] = s.prepare_instances[i]
    BY <1>1 DEF PromisesOK
<1>2. CASE /\ t.prepare_instances[i].quorum = {}
           /\ t.prepare_instances[i].promised_value = None
           /\ t.prepare_instances[i].value_ballot = 0
    <2>1. Heard(t.prepare_instances[i], {})
        BY <1>2 DEF Heard
    <2> QED
        BY <2>1
<1> QED
    BY <1>1, <1>2 DEF Later

(* So does what the accept phase has counted. *)
LEMMA LaterAcks ==
    ASSUME NEW s, NEW t, NEW R, Later(s, t), AcksOK(s, R)
    PROVE  AcksOK(t, R)
    BY DEF Later, AcksOK

-------------------------------------------------------------------------------
(* The ACCEPT requests of try_accept, before they are addressed. *)
NewAccepts(p, t, A) == {instance_to_accept(p, i, t.accept_instances[i]) : i \in A}

(* What an instance to be accepted is like. *)
LEMMA AcceptedNowFacts ==
    ASSUME NEW p, NEW s, StructOK(p, s), NEW A, A = AcceptedNow(s)
    PROVE  /\ A \in SUBSET DOMAIN s.prepare_instances
           /\ \A i \in A : \A j \in DOMAIN s.prepare_instances : j <= i => j \in A
           /\ \A i \in A : CanAccept(s, i)
<1>1. A \in SUBSET DOMAIN s.prepare_instances
    BY DEF AcceptedNow
<1>2. DOMAIN s.prepare_instances \subseteq Nat
    BY StructFacts
<1>3. \A i \in A : i <= i
    BY <1>1, <1>2
<1>4. \A i, j, k \in Nat : i <= j /\ j <= k => i <= k
    OBVIOUS
<1>5. ASSUME NEW i \in A, NEW j \in DOMAIN s.prepare_instances, j <= i PROVE j \in A
    BY <1>1, <1>2, <1>4, <1>5 DEF AcceptedNow
<1> QED
    BY <1>1, <1>3, <1>5 DEF AcceptedNow

(* One ACCEPT request of try_accept: the ballot of the instance, and the value
   promised with the largest ballot or else the one the instance holds. *)
LEMMA NewAcceptFacts ==
    ASSUME NEW p, NEW s, StructOK(p, s), NEW A, A = AcceptedNow(s),
           NEW t, t = MoveToAccept(s, A), NEW i \in A,
           NEW m, m = instance_to_accept(p, i, t.accept_instances[i])
    PROVE  /\ m.type = "ACCEPT" /\ m.from = p /\ m.src = p /\ m.iid = i
           /\ m.ballot = s.prepare_instances[i].ballot
           /\ m.ballot = t.accept_instances[i].ballot
           /\ m.value = Proposed(t.accept_instances[i])
           /\ i \in DOMAIN t.accept_instances /\ i \notin DOMAIN t.prepare_instances
           /\ quorum_reached(s.prepare_instances[i].quorum)
           /\ IF s.prepare_instances[i].promised_value # None
              THEN m.value = s.prepare_instances[i].promised_value
              ELSE /\ i \in WithValue(t.accept_instances)
                   /\ m.value = t.accept_instances[i].value
<1> DEFINE old == s.prepare_instances[i]
           new == t.accept_instances[i]
<1>1. /\ A \in SUBSET DOMAIN s.prepare_instances /\ CanAccept(s, i)
      /\ i \in DOMAIN s.prepare_instances
    BY AcceptedNowFacts
<1>2. /\ new.ballot = old.ballot /\ new.promised_value = old.promised_value
      /\ new.value = FilledInstance(s, i).value
    BY <1>1, MoveStruct
<1>3. i \in DOMAIN t.accept_instances /\ i \notin DOMAIN t.prepare_instances
    BY <1>1, MoveFields
<1>4. /\ FilledInstance(s, i).quorum = old.quorum
      /\ FilledInstance(s, i).promised_value = old.promised_value
    BY <1>1, FilledFacts, SMTT(30)
<1>5. /\ quorum_reached(old.quorum)
      /\ FilledInstance(s, i).value # None \/ old.promised_value # None
    BY <1>1, <1>4 DEF CanAccept, instance_has_value, instance_has_promised_value
<1>6. /\ m.type = "ACCEPT" /\ m.from = p /\ m.src = p /\ m.iid = i
      /\ m.ballot = new.ballot /\ m.value = Proposed(new)
    BY DEF instance_to_accept, Proposed
<1>7. IF old.promised_value # None THEN m.value = old.promised_value
      ELSE i \in WithValue(t.accept_instances) /\ m.value = new.value
    BY <1>2, <1>3, <1>5, <1>6
       DEF Proposed, WithValue, instance_has_value, instance_has_promised_value
<1> QED
    BY <1>2, <1>3, <1>5, <1>6, <1>7

(* The promises of the instances that are still being prepared. *)
LEMMA MovePromises ==
    ASSUME NEW p, NEW s, StructOK(p, s), NEW A \in SUBSET DOMAIN s.prepare_instances,
           NEW t, t = MoveToAccept(s, A), NEW R, PromisesOK(p, s, R)
    PROVE  PromisesOK(p, t, R)
<1>1. \A i \in DOMAIN t.prepare_instances :
         /\ i \in DOMAIN s.prepare_instances
         /\ t.prepare_instances[i] = s.prepare_instances[i]
    BY MoveFields
<1> QED
    BY <1>1 DEF PromisesOK

(* Nobody has accepted yet what enters the accept phase. *)
LEMMA MoveAcks ==
    ASSUME NEW p, NEW s, StructOK(p, s), NEW A \in SUBSET DOMAIN s.prepare_instances,
           NEW t, t = MoveToAccept(s, A), NEW R, AcksOK(s, R)
    PROVE  AcksOK(t, R)
<1>1. \A i \in DOMAIN t.accept_instances :
         \/ i \in A
         \/ /\ i \in DOMAIN s.accept_instances
            /\ t.accept_instances[i] = s.accept_instances[i]
    BY MoveFields
<1>2. \A i \in A : t.accept_instances[i].quorum = {}
    BY MoveStruct
<1> QED
    BY <1>1, <1>2 DEF AcksOK

(* An ACCEPT request of try_accept follows the promises the instance counted. *)
LEMMA NewAcceptFollows ==
    ASSUME NEW p, NEW s, StructOK(p, s), NEW A, A = AcceptedNow(s),
           NEW t, t = MoveToAccept(s, A), NEW i \in A,
           NEW m, m = instance_to_accept(p, i, t.accept_instances[i]),
           NEW R, PromisesOK(p, s, R), NEW V, HoldsOnce(t, V),
           NEW H, \A v \in V : <<p, v>> \in H
    PROVE  Follows(m, R, H)
<1> DEFINE inst == s.prepare_instances[i]
<1>1. /\ m.src = p /\ m.iid = i /\ m.ballot = inst.ballot
      /\ quorum_reached(inst.quorum)
      /\ IF inst.promised_value # None THEN m.value = inst.promised_value
         ELSE i \in WithValue(t.accept_instances) /\ m.value = t.accept_instances[i].value
    BY NewAcceptFacts, SMTT(30)
<1>2. i \in DOMAIN s.prepare_instances
    BY AcceptedNowFacts, Zenon
<1>3. PICK S \in SUBSET PromisesTo(p, i, inst.ballot, R) : Heard(inst, S)
    BY <1>2 DEF PromisesOK
<1>4. {k.aid : k \in S} = inst.quorum
    BY <1>3, Zenon DEF Heard
<1>5. quorum_reached({k.aid : k \in S})
    BY <1>1, <1>4, Zenon
<1>6. \/ /\ \A k \in S : k.value = None
         /\ <<m.src, m.value>> \in H
      \/ \E k \in S : /\ k.value = m.value
                      /\ \A j \in S : j.value # None => j.value_ballot <= k.value_ballot
    <2>1. CASE inst.promised_value # None
        <3>1. PICK k \in S : k.value = inst.promised_value /\ k.value_ballot = inst.value_ballot
            BY <1>3, <2>1 DEF Heard
        <3>2. \A j \in S : j.value # None => j.value_ballot <= inst.value_ballot
            BY <1>3, <2>1 DEF Heard
        <3> QED
            BY <1>1, <2>1, <3>1, <3>2, Zenon
    <2>2. CASE inst.promised_value = None
        <3>1. \A k \in S : k.value = None
            BY <1>3, <2>2 DEF Heard
        <3>2. <<"accept", i>> \in Places(t) /\ ValueAt(t, <<"accept", i>>) = m.value
            BY <1>1, <2>2, PlaceCases, SMTT(30)
        <3>3. m.value \in V
            BY <3>2 DEF HoldsOnce
        <3> QED
            BY <1>1, <3>1, <3>3, Zenon
    <2> QED
        BY <2>1, <2>2
<1> QED
    BY <1>1, <1>3, <1>5, <1>6, Zenon DEF Follows

-------------------------------------------------------------------------------
(* The requests of a handler, addressed to all the acceptors of p. *)
Addressed(p, out) == UNION {ToAll(m, Peers[p]) : m \in out}

(* The PREPARE requests of p, within the bounds. *)
PrepareOf(p, m) ==
    /\ m.iid \in Iid /\ m.ballot \in Ballot \ {0}
    /\ m = [type |-> "PREPARE", from |-> p, to |-> p, src |-> p, iid |-> m.iid,
            ballot |-> m.ballot]

(* What the requests look like on the wire. *)
LEMMA AcceptRequest ==
    ASSUME NEW p \in Replica, NEW r \in Replica, NEW i \in Iid, NEW b \in Ballot \ {0},
           NEW v \in Value
    PROVE  [type |-> "ACCEPT", from |-> p, to |-> r, src |-> p, iid |-> i,
            ballot |-> b, value |-> v] \in Request
    BY DEF Request

(* A PREPARE goes to every peer as it is. *)
LEMMA PrepareAddressed ==
    ASSUME NEW p \in Replica, NEW m, PrepareOf(p, m), NEW a \in ToAll(m, Peers[p])
    PROVE  a \in Request /\ a.type = "PREPARE" /\ a.src = p /\ a.ballot = m.ballot
<1>1. PICK r \in Replica : a = [m EXCEPT !.to = r]
    BY DEF ToAll, Peers
<1>2. a = [type |-> "PREPARE", from |-> p, to |-> r, src |-> p, iid |-> m.iid,
           ballot |-> m.ballot]
    BY <1>1 DEF PrepareOf
<1> QED
    BY <1>2 DEF PrepareOf, Request

(* So does an ACCEPT, with the value the instance proposes. *)
LEMMA AcceptAddressed ==
    ASSUME NEW p \in Replica, NEW i \in Iid, NEW inst, inst.ballot \in Ballot \ {0},
           Proposed(inst) \in Value,
           NEW a \in ToAll(instance_to_accept(p, i, inst), Peers[p])
    PROVE  /\ a \in Request /\ a.type = "ACCEPT" /\ a.src = p /\ a.iid = i
           /\ a.ballot = inst.ballot /\ a.value = Proposed(inst)
<1>1. PICK r \in Replica : a = [instance_to_accept(p, i, inst) EXCEPT !.to = r]
    BY DEF ToAll, Peers
<1>2. a = [type |-> "ACCEPT", from |-> p, to |-> r, src |-> p, iid |-> i,
           ballot |-> inst.ballot, value |-> Proposed(inst)]
    BY <1>1 DEF instance_to_accept, Proposed
<1>3. [type |-> "ACCEPT", from |-> p, to |-> r, src |-> p, iid |-> i,
       ballot |-> inst.ballot, value |-> Proposed(inst)] \in Request
    BY <1>1, AcceptRequest
<1>4. a \in Request
    BY <1>2, <1>3, Zenon
<1> QED
    BY <1>2, <1>4

(* Every request that try_accept adds is a PREPARE, or the ACCEPT of an instance
   that it accepts now. *)
NewRequest(p, t, A, a) ==
    \/ a \in Request /\ a.type = "PREPARE" /\ a.src = p
    \/ \E i \in A : /\ a.type = "ACCEPT" /\ a.src = p /\ a.iid = i
                    /\ a.ballot = t.accept_instances[i].ballot
                    /\ a.value = Proposed(t.accept_instances[i])

(* try_accept's ACCEPT requests agree with those p has sent before. *)
LEMMA MoveAccepts ==
    ASSUME NEW p, NEW s, StructOK(p, s), NEW A, A = AcceptedNow(s),
           NEW t, t = MoveToAccept(s, A), NEW Q, Q \subseteq Request, AcceptsOK(p, s, Q),
           NEW Qn, \A a \in Qn : a \in Q \/ NewRequest(p, t, A, a)
    PROVE  AcceptsOK(p, t, Qn)
<1>1. /\ A \in SUBSET DOMAIN s.prepare_instances
      /\ \A i \in A : i \in DOMAIN s.prepare_instances
    BY AcceptedNowFacts
<1>2. /\ t.next_prepare_iid = s.next_prepare_iid
      /\ DOMAIN t.prepare_instances = DOMAIN s.prepare_instances \ A
      /\ \A i \in DOMAIN t.prepare_instances :
            t.prepare_instances[i] = s.prepare_instances[i]
      /\ DOMAIN t.accept_instances = DOMAIN s.accept_instances \cup A
      /\ \A i \in DOMAIN s.accept_instances \ A :
            t.accept_instances[i] = s.accept_instances[i]
    BY <1>1, MoveFields
<1>3. \A i \in A : /\ t.accept_instances[i].ballot = s.prepare_instances[i].ballot
                   /\ t.accept_instances[i].ballot \in Nat
                   /\ OwnBallot(p, t.accept_instances[i].ballot)
                   /\ i <= s.next_prepare_iid
    <2>1. \A i \in A : t.accept_instances[i].ballot = s.prepare_instances[i].ballot
        BY <1>1, MoveStruct
    <2>2. \A i \in A : s.prepare_instances[i].ballot \in Nat
        BY <1>1, StructFacts, MessagesAssumption, SMTT(30) DEF Instance, Ballot
    <2>3. \A i \in A : /\ OwnBallot(p, s.prepare_instances[i].ballot)
                       /\ i <= s.next_prepare_iid
        BY <1>1 DEF StructOK, OpenedBy
    <2> QED
        BY <2>1, <2>2, <2>3
<1>4. ASSUME NEW m \in AcceptsOf(p, Q)
      PROVE  /\ AcceptOK(p, t, m)
             /\ m.iid \in A => m.ballot # t.accept_instances[m.iid].ballot
    <2>1. AcceptOK(p, s, m)
        BY DEF AcceptsOK
    <2>2. m.ballot \in Nat
        BY MessagesAssumption, SMTT(30) DEF AcceptsOf, Request, Ballot
    <2>3. m.iid \in A => m.ballot < t.accept_instances[m.iid].ballot
        BY <1>1, <1>3, <2>1, Zenon DEF AcceptOK
    <2>4. m.iid \in A => /\ m.ballot <= t.accept_instances[m.iid].ballot
                         /\ m.ballot # t.accept_instances[m.iid].ballot
        BY <1>3, <2>2, <2>3
    <2> QED
        BY <1>2, <2>1, <2>4, Zenon DEF AcceptOK
<1>5. \A m \in AcceptsOf(p, Qn) :
         \/ m \in AcceptsOf(p, Q)
         \/ /\ m.iid \in A /\ m.ballot = t.accept_instances[m.iid].ballot
            /\ m.value = Proposed(t.accept_instances[m.iid])
    BY DEF AcceptsOf, NewRequest
<1>6. ASSUME NEW m, m.iid \in A, m.ballot = t.accept_instances[m.iid].ballot,
             m.value = Proposed(t.accept_instances[m.iid])
      PROVE  AcceptOK(p, t, m)
    BY <1>2, <1>3, <1>6, SMTT(30) DEF AcceptOK
<1>7. \A m \in AcceptsOf(p, Qn) : AcceptOK(p, t, m)
    BY <1>4, <1>5, <1>6, Zenon
<1>8. \A k, m \in AcceptsOf(p, Q) :
         k.iid = m.iid /\ k.ballot = m.ballot => k.value = m.value
    BY DEF AcceptsOK
<1>9. ASSUME NEW k \in AcceptsOf(p, Qn), NEW m \in AcceptsOf(p, Qn),
             k.iid = m.iid, k.ballot = m.ballot
      PROVE  k.value = m.value
    BY <1>4, <1>5, <1>8, <1>9, SMTT(30)
<1> QED
    BY <1>7, <1>9 DEF AcceptsOK

(* What a request that a handler adds must be. *)
GoodRequest(p, a, R, H) ==
    /\ a \in Request /\ a.src = p /\ a.type \in {"PREPARE", "ACCEPT"}
    /\ a.type = "ACCEPT" => Follows(a, R, H)

(* The requests of try_accept are PREPAREs and ACCEPTs that follow the promises. *)
LEMMA TryRequests ==
    ASSUME NEW p \in Replica, NEW s, StructOK(p, s), NEW R, PromisesOK(p, s, R),
           NEW A, A = AcceptedNow(s), NEW t, t = MoveToAccept(s, A),
           NEW V, HoldsOnce(t, V), NEW H, \A v \in V : <<p, v>> \in H,
           NEW m, PrepareOf(p, m) \/ m \in NewAccepts(p, t, A),
           NEW a \in ToAll(m, Peers[p])
    PROVE  GoodRequest(p, a, R, H) /\ NewRequest(p, t, A, a) /\ a.ballot = m.ballot
<1>1. CASE PrepareOf(p, m)
    <2>1. a \in Request /\ a.type = "PREPARE" /\ a.src = p /\ a.ballot = m.ballot
        BY <1>1, PrepareAddressed, SMTT(30)
    <2> QED
        BY <2>1, Zenon DEF GoodRequest, NewRequest
<1>2. CASE m \in NewAccepts(p, t, A)
    <2> DEFINE inst(i) == t.accept_instances[i]
    <2>1. PICK i \in A : m = instance_to_accept(p, i, inst(i))
        BY <1>2, Zenon DEF NewAccepts
    <2>2. A \in SUBSET DOMAIN s.prepare_instances /\ StructOK(p, t)
        BY AcceptedNowFacts, MoveStruct, Zenon
    <2>3. /\ m.src = p /\ m.iid = i /\ m.ballot = inst(i).ballot
          /\ m.value = Proposed(inst(i)) /\ i \in DOMAIN t.accept_instances
          /\ inst(i).promised_value # None \/ inst(i).value # None
        <3>1. inst(i).promised_value = s.prepare_instances[i].promised_value
            BY <2>2, MoveStruct, SMTT(30)
        <3>2. IF s.prepare_instances[i].promised_value # None
              THEN m.value = s.prepare_instances[i].promised_value
              ELSE i \in WithValue(t.accept_instances) /\ m.value = inst(i).value
            BY <2>1, NewAcceptFacts, SMTT(30)
        <3>3. i \in WithValue(t.accept_instances) => inst(i).value # None
            BY DEF WithValue, instance_has_value
        <3> QED
            BY <2>1, <3>1, <3>2, <3>3, NewAcceptFacts, SMTT(30)
    <2>4. i \in Iid /\ inst(i) \in Instance /\ inst(i).ballot > 0
        BY <2>2, <2>3, StructFacts, Zenon DEF StructOK, OpenedBy
    <2>5. inst(i).ballot \in Ballot \ {0} /\ Proposed(inst(i)) \in Value
        BY <2>3, <2>4, MessagesAssumption, SMTT(30)
           DEF Instance, Proposed, Ballot, instance_has_promised_value
    <2>6. Follows(m, R, H)
        BY <2>1, NewAcceptFollows
    <2> HIDE DEF inst
    <2>7. /\ a.type = "ACCEPT" /\ a.src = p /\ a.iid = i /\ a.ballot = inst(i).ballot
          /\ a.value = Proposed(inst(i)) /\ a \in Request
        BY <2>1, <2>4, <2>5, AcceptAddressed, SMTT(30)
    <2>8. a.src = m.src /\ a.iid = m.iid /\ a.ballot = m.ballot /\ a.value = m.value
        BY <2>3, <2>7, Zenon
    <2>9. Follows(a, R, H)
        BY <2>6, <2>8, Zenon DEF Follows
    <2> QED
        BY <2>7, <2>8, <2>9, Zenon DEF GoodRequest, NewRequest, inst
<1> QED
    BY <1>1, <1>2

(* try_accept of a proposer that nobody opposes. *)
LEMMA TryUnopposed ==
    ASSUME NEW p, NEW s, StructOK(p, s), NEW R, PromisesOK(p, s, R), Unopposed(p, R),
           NEW Q, Q \subseteq Request, NEW V, UnopposedOK(p, s, Q, V),
           NEW A, A = AcceptedNow(s), NEW t, t = MoveToAccept(s, A), HoldsOnce(t, V),
           NEW Qn, \A a \in Qn : a \in Request,
           \A a \in Qn : a \in Q \/ /\ NewRequest(p, t, A, a)
                                    /\ a.ballot = proposer_next_ballot(p, 0)
    PROVE  UnopposedOK(p, t, Qn, V)
<1> DEFINE b == proposer_next_ballot(p, 0)
<1>1. A \in SUBSET DOMAIN s.prepare_instances
    BY AcceptedNowFacts, Zenon
<1>2. /\ DOMAIN t.prepare_instances = DOMAIN s.prepare_instances \ A
      /\ \A i \in DOMAIN t.prepare_instances :
            t.prepare_instances[i] = s.prepare_instances[i]
      /\ DOMAIN t.accept_instances = DOMAIN s.accept_instances \cup A
      /\ \A i \in DOMAIN s.accept_instances : i \notin A
      /\ \A i \in DOMAIN s.accept_instances :
            t.accept_instances[i] = s.accept_instances[i]
    <2>1. \A i \in DOMAIN s.accept_instances : i \notin A
        BY <1>1 DEF StructOK
    <2> QED
        BY <1>1, <2>1, MoveFields, SMTT(30)
<1>3. \A i \in DOMAIN s.prepare_instances :
         /\ s.prepare_instances[i].ballot = b
         /\ s.prepare_instances[i].promised_value = None
    <2> SUFFICES ASSUME NEW i \in DOMAIN s.prepare_instances
                 PROVE  s.prepare_instances[i].promised_value = None
        BY DEF UnopposedOK
    <2>1. PICK S \in SUBSET PromisesTo(p, i, s.prepare_instances[i].ballot, R) :
             Heard(s.prepare_instances[i], S)
        BY DEF PromisesOK
    <2>2. \A m \in S : m.value = None
        BY DEF PromisesTo, Unopposed
    <2> QED
        BY <2>1, <2>2 DEF Heard
<1>4. \A i \in A : /\ t.accept_instances[i].ballot = b
                   /\ t.accept_instances[i].promised_value = None
    BY <1>1, <1>3, MoveStruct, SMTT(30)
<1>5. \A i \in DOMAIN t.accept_instances :
         /\ t.accept_instances[i].ballot = b
         /\ t.accept_instances[i].promised_value = None
    BY <1>2, <1>4 DEF UnopposedOK
<1>6. \A m \in AcceptsOf(p, Qn) :
         \/ m \in AcceptsOf(p, Q)
         \/ m.iid \in A /\ m.value = t.accept_instances[m.iid].value
    BY <1>4 DEF AcceptsOf, NewRequest, Proposed, instance_has_promised_value
<1>7. \A m \in AcceptsOf(p, Qn) : m.value # None
    BY MessagesAssumption DEF AcceptsOf, Request
<1>8. \A i \in DOMAIN t.accept_instances : t.accept_instances[i].value # None =>
         /\ <<"accept", i>> \in Places(t)
         /\ ValueAt(t, <<"accept", i>>) = t.accept_instances[i].value
    BY PlaceCases DEF WithValue, instance_has_value
<1>9. ASSUME NEW i \in DOMAIN t.accept_instances, NEW j \in DOMAIN t.accept_instances,
             t.accept_instances[i].value = t.accept_instances[j].value,
             t.accept_instances[i].value # None
      PROVE  i = j
    <2>1. /\ <<"accept", i>> \in Places(t) /\ <<"accept", j>> \in Places(t)
          /\ ValueAt(t, <<"accept", i>>) = ValueAt(t, <<"accept", j>>)
        BY <1>8, <1>9, SMTT(30)
    <2>2. <<"accept", i>> = <<"accept", j>>
        BY <2>1, Zenon DEF HoldsOnce
    <2> QED
        BY <2>2
<1>10. \A i \in DOMAIN t.accept_instances :
          t.accept_instances[i].value # None => t.accept_instances[i].value \in V
    BY <1>8 DEF HoldsOnce
<1>11. \A m \in AcceptsOf(p, Qn) : m.value \in V =>
          /\ m.iid \in DOMAIN t.accept_instances
          /\ t.accept_instances[m.iid].value = m.value
    BY <1>2, <1>6 DEF UnopposedOK
<1>12. \A m \in AcceptsOf(p, Qn) : m \in AcceptsOf(p, Q) \/ m.value \in V
    BY <1>2, <1>6, <1>7, <1>10
<1>13. \A k, m \in AcceptsOf(p, Q) : k.value = m.value => k.iid = m.iid
    BY DEF UnopposedOK
<1>14. ASSUME NEW k \in AcceptsOf(p, Qn), NEW m \in AcceptsOf(p, Qn), k.value = m.value
       PROVE  k.iid = m.iid
    <2>1. CASE k.value \in V
        BY <1>7, <1>9, <1>11, <1>14, <2>1
    <2>2. CASE k.value \notin V
        BY <1>12, <1>13, <1>14, <2>2
    <2> QED
        BY <2>1, <2>2
<1>15. \A m \in Qn : m.type \in {"PREPARE", "ACCEPT"} /\ m.src = p => m.ballot = b
    BY DEF UnopposedOK
<1>16. \A i \in DOMAIN t.prepare_instances : t.prepare_instances[i].ballot = b
    BY <1>2, <1>3
<1> QED
    BY <1>5, <1>11, <1>14, <1>15, <1>16, Zenon DEF UnopposedOK

(* The requests of try_accept, and what it does to the struct t and the requests. *)
TryOut(p, s1, s2, A, P, sent) ==
    sent \cup NewAccepts(p, s1, A)
    \cup {prepare_request(p, i, s2.prepare_instances[i]) : i \in P}
TryRun(p, s, sent, settled, t, Q, Qn) ==
    \E A, s1, P, s2, out :
        /\ A = AcceptedNow(s) /\ s1 = MoveToAccept(s, A)
        /\ P = PreparedNow(s1) /\ s2 = Prepare(p, s1, P)
        /\ out = TryOut(p, s1, s2, A, P, sent)
        /\ \A m \in out : m.iid \in Iid /\ m.ballot <= MaxBallot
        /\ t \in proposer_set_instance_id(s2, settled)
        /\ Qn = Q \cup Addressed(p, out)

(* What a handler of an unopposed proposer does: it sends requests at the first
   ballot only, and learns of no instance that it did not open. *)
Calm(p, s, R, sent, settled) ==
    Unopposed(p, R) => /\ settled = 0 \/ settled <= s.next_prepare_iid
                       /\ \A m \in sent : m.ballot = proposer_next_ballot(p, 0)

(* What the first loop of try_accept leaves: t is s with the instances A moved on
   to the accept phase, each at its ballot. *)
Moved(p, s, A, t, R, V) ==
    /\ StructOK(p, t) /\ HoldsOnce(t, V) /\ PromisesOK(p, t, R) /\ AcksOK(t, R)
    /\ t.next_prepare_iid = s.next_prepare_iid
    /\ \A i \in A : /\ i \in DOMAIN s.prepare_instances
                    /\ t.accept_instances[i].ballot = s.prepare_instances[i].ballot

(* The first loop of try_accept: instances move on to the accept phase. *)
LEMMA TryMoves ==
    ASSUME NEW p, NEW s, StructOK(p, s), NEW V, HoldsOnce(s, V),
           NEW R, PromisesOK(p, s, R), AcksOK(s, R),
           NEW A, A = AcceptedNow(s), NEW t, t = MoveToAccept(s, A)
    PROVE  Moved(p, s, A, t, R, V)
<1>1. /\ A \in SUBSET DOMAIN s.prepare_instances
      /\ \A i \in A : \A j \in DOMAIN s.prepare_instances : j <= i => j \in A
    BY AcceptedNowFacts
<1>2. HoldsOnce(t, V)
    BY <1>1, MoveHolds
<1>3. StructOK(p, t) /\ PromisesOK(p, t, R) /\ AcksOK(t, R)
    BY <1>1, MoveStruct, MovePromises, MoveAcks
<1> QED
    BY <1>1, <1>2, <1>3, MoveStruct, MoveFields DEF Moved

(* What the second loop leaves: t is s with the instances P opened at the first
   ballot of p. *)
Opened(p, s, P, t, V) ==
    /\ StructOK(p, t) /\ HoldsOnce(t, V) /\ Later(s, t)
    /\ t.accept_instances = s.accept_instances
    /\ \A i \in P : LET m == prepare_request(p, i, t.prepare_instances[i])
                    IN  PrepareOf(p, m) /\ m.ballot = proposer_next_ballot(p, 0)
    /\ \A i \in DOMAIN t.prepare_instances :
          \/ t.prepare_instances[i].ballot = proposer_next_ballot(p, 0)
          \/ /\ i \in DOMAIN s.prepare_instances
             /\ t.prepare_instances[i] = s.prepare_instances[i]

(* The second loop: instances are opened at the first ballot of p, as many as the
   bounds let it ask for. *)
LEMMA TryOpens ==
    ASSUME NEW p \in Replica, NEW s, StructOK(p, s), NEW V, HoldsOnce(s, V),
           NEW P, P = PreparedNow(s), NEW t, t = Prepare(p, s, P),
           \A i \in P : LET m == prepare_request(p, i, t.prepare_instances[i])
                        IN  m.iid \in Iid /\ m.ballot <= MaxBallot
    PROVE  Opened(p, s, P, t, V)
<1> DEFINE b == proposer_next_ballot(p, 0)
<1>1. \A i \in P : t.prepare_instances[i] = instance_new(b)
    BY DEF Prepare, StructOK, ProposerStruct
<1>2. \A i \in P : prepare_request(p, i, t.prepare_instances[i]) =
         [type |-> "PREPARE", from |-> p, to |-> p, src |-> p, iid |-> i, ballot |-> b]
    BY <1>1 DEF prepare_request, instance_new
<1>3. (\A i \in P : i \in Iid) /\ (P # {} => b <= MaxBallot)
    <2>1. ASSUME NEW i \in P PROVE i \in Iid /\ b <= MaxBallot
        <3> DEFINE m == prepare_request(p, i, t.prepare_instances[i])
        <3>1. m.iid = i /\ m.ballot = b
            <4>1. m = [type |-> "PREPARE", from |-> p, to |-> p, src |-> p, iid |-> i,
                       ballot |-> b]
                BY <1>2
            <4> HIDE DEF m
            <4> QED
                BY <4>1
        <3>2. m.iid \in Iid /\ m.ballot <= MaxBallot
            OBVIOUS
        <3> QED
            BY <3>1, <3>2
    <2> QED
        BY <2>1
<1>4. b \in Nat /\ b > 0
    BY NextBallotFacts
<1> HIDE DEF b
<1>5. \A i \in P : b \in Ballot \ {0}
    BY <1>3, <1>4, MessagesAssumption DEF Ballot
<1>6. \A i \in P : LET m == prepare_request(p, i, t.prepare_instances[i])
                   IN  PrepareOf(p, m) /\ m.ballot = b
    <2> SUFFICES ASSUME NEW i \in P, NEW m, m = prepare_request(p, i, t.prepare_instances[i])
                 PROVE  PrepareOf(p, m) /\ m.ballot = b
        OBVIOUS
    <2>1. /\ m = [type |-> "PREPARE", from |-> p, to |-> p, src |-> p, iid |-> i, ballot |-> b]
          /\ i \in Iid /\ b \in Ballot \ {0}
        BY <1>2, <1>3, <1>5
    <2> QED
        BY <2>1 DEF PrepareOf
<1>7. StructOK(p, t) /\ HoldsOnce(t, V)
    BY <1>3, PrepareStep, PrepareHolds DEF b
<1>8. /\ t.accept_instances = s.accept_instances
      /\ t.next_prepare_iid >= s.next_prepare_iid
      /\ \A i \in P : i > s.next_prepare_iid
      /\ \A i \in DOMAIN t.prepare_instances :
            \/ i \in P
            \/ /\ i \in DOMAIN s.prepare_instances
               /\ t.prepare_instances[i] = s.prepare_instances[i]
    BY <1>3, PrepareStep DEF b
<1>9. \A i \in P : /\ t.prepare_instances[i].ballot = b /\ t.prepare_instances[i].quorum = {}
                   /\ t.prepare_instances[i].promised_value = None
                   /\ t.prepare_instances[i].value_ballot = 0
    BY <1>1 DEF instance_new
<1>10. Later(s, t)
    BY <1>8, <1>9 DEF Later
<1> QED
    BY <1>6, <1>7, <1>8, <1>9, <1>10 DEF b, Opened

(* H records that every value of V was given to p; the messages out are PREPAREs
   of p and the ACCEPTs of the instances A that s has moved on. *)
Owned(p, V, H) == \A v \in V : <<p, v>> \in H
Composed(p, s, A, out) == \A m \in out : PrepareOf(p, m) \/ m \in NewAccepts(p, s, A)

(* What has been sent once out is on its way to every replica: Qn. *)
Posted(p, s, A, out, Q, Qn, R, H) ==
    /\ \A a \in Qn : a \in Q \/ GoodRequest(p, a, R, H)
    /\ \A a \in Qn : a \in Q \/ /\ NewRequest(p, s, A, a)
                                /\ \E m \in out : a.ballot = m.ballot
    /\ Qn \subseteq Request /\ AcceptsOK(p, s, Qn)

(* The requests of try_accept: right by themselves, and in line with those that p
   has sent before. *)
LEMMA TrySends ==
    ASSUME NEW p \in Replica, NEW s, StructOK(p, s), NEW R, PromisesOK(p, s, R),
           NEW A, A = AcceptedNow(s), NEW t, t = MoveToAccept(s, A),
           NEW V, HoldsOnce(t, V), NEW H, Owned(p, V, H),
           NEW Q, Q \subseteq Request, AcceptsOK(p, s, Q),
           NEW out, Composed(p, t, A, out),
           NEW Qn, Qn = Q \cup Addressed(p, out)
    PROVE  Posted(p, t, A, out, Q, Qn, R, H)
<1>1. ASSUME NEW m \in out, NEW a \in ToAll(m, Peers[p])
      PROVE  GoodRequest(p, a, R, H) /\ NewRequest(p, t, A, a) /\ a.ballot = m.ballot
    BY TryRequests DEF Owned, Composed
<1>2. \A a \in Qn : a \in Q \/ /\ GoodRequest(p, a, R, H) /\ NewRequest(p, t, A, a)
                               /\ \E m \in out : a.ballot = m.ballot
    BY <1>1 DEF Addressed
<1>3. Qn \subseteq Request
    BY <1>2 DEF GoodRequest
<1>4. AcceptsOK(p, t, Qn)
    BY <1>2, MoveAccepts
<1> QED
    BY <1>2, <1>3, <1>4 DEF Posted

(* With no rival all of it is at the first ballot: what was sent, ... *)
AtFirst(p, Q) == \A m \in Q : m.ballot = proposer_next_ballot(p, 0)

(* the ACCEPTs for the instances that became ready, *)
LEMMA TryMovesCalm ==
    ASSUME NEW p, NEW s, NEW Q, NEW V, UnopposedOK(p, s, Q, V),
           NEW A, NEW t, NEW R, Moved(p, s, A, t, R, V)
    PROVE  AtFirst(p, NewAccepts(p, t, A))
<1>1. \A i \in DOMAIN s.prepare_instances :
         s.prepare_instances[i].ballot = proposer_next_ballot(p, 0)
    BY Zenon DEF UnopposedOK
<1>2. \A i \in A : /\ i \in DOMAIN s.prepare_instances
                   /\ t.accept_instances[i].ballot = s.prepare_instances[i].ballot
    BY Zenon DEF Moved
<1>3. \A i \in A : t.accept_instances[i].ballot = proposer_next_ballot(p, 0)
    BY <1>1, <1>2
<1> QED
    BY <1>3 DEF AtFirst, NewAccepts, instance_to_accept

(* and the instances that were opened. *)
LEMMA OpensCalm ==
    ASSUME NEW p, NEW s, NEW Q, NEW V, UnopposedOK(p, s, Q, V), NEW t,
           t.accept_instances = s.accept_instances,
           \A i \in DOMAIN t.prepare_instances :
              t.prepare_instances[i].ballot = proposer_next_ballot(p, 0)
    PROVE  UnopposedOK(p, t, Q, V)
<1>1. \A i \in DOMAIN t.accept_instances :
         /\ t.accept_instances[i].ballot = proposer_next_ballot(p, 0)
         /\ t.accept_instances[i].promised_value = None
    BY DEF UnopposedOK
<1>2. \A m \in AcceptsOf(p, Q) : m.value \in V =>
         /\ m.iid \in DOMAIN t.accept_instances
         /\ t.accept_instances[m.iid].value = m.value
    BY DEF UnopposedOK
<1> QED
    BY <1>1, <1>2, Zenon DEF UnopposedOK

(* ... and the proposer that sent it. *)
LEMMA TryCalm ==
    ASSUME NEW p, NEW s, StructOK(p, s), NEW R, PromisesOK(p, s, R), Unopposed(p, R),
           NEW Q, Q \subseteq Request, NEW V, UnopposedOK(p, s, Q, V),
           NEW A, A = AcceptedNow(s), NEW t, t = MoveToAccept(s, A), HoldsOnce(t, V),
           NEW out, AtFirst(p, out), NEW Qn, NEW H, Posted(p, t, A, out, Q, Qn, R, H),
           NEW P, NEW u, Opened(p, t, P, u, V)
    PROVE  UnopposedOK(p, u, Qn, V)
<1>1. /\ \A a \in Qn : a \in Request
      /\ \A a \in Qn : a \in Q \/ /\ NewRequest(p, t, A, a)
                                  /\ a.ballot = proposer_next_ballot(p, 0)
    BY Zenon DEF Posted, AtFirst
<1>2. UnopposedOK(p, t, Qn, V)
    BY <1>1, TryUnopposed
<1>3. /\ u.accept_instances = t.accept_instances
      /\ \A i \in DOMAIN u.prepare_instances :
            \/ u.prepare_instances[i].ballot = proposer_next_ballot(p, 0)
            \/ /\ i \in DOMAIN t.prepare_instances
               /\ u.prepare_instances[i] = t.prepare_instances[i]
    BY Zenon DEF Opened
<1>4. \A i \in DOMAIN u.prepare_instances :
         u.prepare_instances[i].ballot = proposer_next_ballot(p, 0)
    <2>1. \A i \in DOMAIN t.prepare_instances :
             t.prepare_instances[i].ballot = proposer_next_ballot(p, 0)
        BY <1>2, Zenon DEF UnopposedOK
    <2> QED
        BY <1>3, <2>1
<1> QED
    BY <1>2, <1>3, <1>4, OpensCalm, Zenon

(* The trim that may follow, which does nothing to a proposer without a rival. *)
LEMMA TryTrims ==
    ASSUME NEW p \in Replica, NEW s, NEW Q, NEW R, NEW V, ProposerOK(p, s, Q, R, V),
           Q \subseteq Request, NEW settled \in Iid \cup {0},
           Unopposed(p, R) => settled <= s.next_prepare_iid,
           NEW t, t \in proposer_set_instance_id(s, settled)
    PROVE  ProposerOK(p, t, Q, R, V)
<1>1. /\ StructOK(p, s) /\ AcceptsOK(p, s, Q) /\ PromisesOK(p, s, R) /\ HoldsOnce(s, V)
      /\ AcksOK(s, R) /\ (Unopposed(p, R) => UnopposedOK(p, s, Q, V))
    BY Zenon DEF ProposerOK
<1>2. StructOK(p, t) /\ HoldsOnce(t, V) /\ Later(s, t)
    BY <1>1, TrimStep, TrimHolds
<1>3. AcceptsOK(p, t, Q) /\ PromisesOK(p, t, R) /\ AcksOK(t, R)
    BY <1>1, <1>2, LaterAccepts, LaterPromises, LaterAcks
<1>4. Unopposed(p, R) => t = s
    BY DEF proposer_set_instance_id
<1> QED
    BY <1>1, <1>2, <1>3, <1>4, Zenon DEF ProposerOK

(* The whole of try_accept and the trim that may follow it: from a proposer that
   is as it should be, whatever requests Q were sent and promises R received. *)
LEMMA TryStep ==
    ASSUME NEW p \in Replica, NEW s, NEW Q, NEW R, NEW V, NEW H,
           ProposerOK(p, s, Q, R, V), Q \subseteq Request, \A v \in V : <<p, v>> \in H,
           NEW sent, \A m \in sent : PrepareOf(p, m),
           NEW settled \in Iid \cup {0}, Calm(p, s, R, sent, settled), NEW t, NEW Qn,
           TryRun(p, s, sent, settled, t, Q, Qn)
    PROVE  /\ ProposerOK(p, t, Qn, R, V)
           /\ \A a \in Qn : a \in Q \/ GoodRequest(p, a, R, H)
<1>1. PICK A, s1, P, s2, out :
         /\ A = AcceptedNow(s) /\ s1 = MoveToAccept(s, A)
         /\ P = PreparedNow(s1) /\ s2 = Prepare(p, s1, P)
         /\ out = sent \cup NewAccepts(p, s1, A)
                  \cup {prepare_request(p, i, s2.prepare_instances[i]) : i \in P}
         /\ \A m \in out : m.iid \in Iid /\ m.ballot <= MaxBallot
         /\ t \in proposer_set_instance_id(s2, settled)
         /\ Qn = Q \cup Addressed(p, out)
    BY Zenon DEF TryRun, TryOut
<1>a. A = AcceptedNow(s) /\ s1 = MoveToAccept(s, A)
    BY <1>1, Zenon
<1>b. P = PreparedNow(s1) /\ s2 = Prepare(p, s1, P)
    BY <1>1, Zenon
<1>c. Qn = Q \cup Addressed(p, out)
    BY <1>1, Zenon
<1>d. t \in proposer_set_instance_id(s2, settled)
    BY <1>1, Zenon
<1>2. /\ StructOK(p, s) /\ AcceptsOK(p, s, Q) /\ PromisesOK(p, s, R) /\ HoldsOnce(s, V)
      /\ AcksOK(s, R) /\ (Unopposed(p, R) => UnopposedOK(p, s, Q, V))
    BY Zenon DEF ProposerOK
<1>3. Moved(p, s, A, s1, R, V)
    BY <1>a, <1>2, TryMoves
<1>4. Opened(p, s1, P, s2, V)
    <2>1. \A i \in P : LET m == prepare_request(p, i, s2.prepare_instances[i])
                       IN  m.iid \in Iid /\ m.ballot <= MaxBallot
        BY <1>1
    <2>2. StructOK(p, s1) /\ HoldsOnce(s1, V)
        BY <1>3, Zenon DEF Moved
    <2> QED
        BY <1>b, <2>1, <2>2, TryOpens
<1>5. Posted(p, s1, A, out, Q, Qn, R, H)
    <2>1. Composed(p, s1, A, out)
        BY <1>1, <1>4 DEF Composed, Opened
    <2>2. Owned(p, V, H) /\ HoldsOnce(s1, V)
        BY <1>3, Zenon DEF Owned, Moved
    <2> QED
        BY <1>a, <1>c, <1>2, <2>1, <2>2, TrySends
<1>6. ProposerOK(p, s2, Qn, R, V)
    <2>1. /\ StructOK(p, s1) /\ PromisesOK(p, s1, R) /\ AcksOK(s1, R)
          /\ StructOK(p, s2) /\ HoldsOnce(s2, V) /\ Later(s1, s2)
          /\ Qn \subseteq Request /\ AcceptsOK(p, s1, Qn)
        BY <1>3, <1>4, <1>5, Zenon DEF Moved, Opened, Posted
    <2>2. AcceptsOK(p, s2, Qn) /\ PromisesOK(p, s2, R) /\ AcksOK(s2, R)
        BY <2>1, LaterAccepts, LaterPromises, LaterAcks
    <2>3. ASSUME Unopposed(p, R) PROVE UnopposedOK(p, s2, Qn, V)
        <3>1. \A m \in sent : m.ballot = proposer_next_ballot(p, 0)
            BY <2>3, Zenon DEF Calm
        <3>2. AtFirst(p, NewAccepts(p, s1, A))
            BY <1>2, <1>3, <2>3, TryMovesCalm, Zenon
        <3>3. AtFirst(p, out)
            BY <1>1, <1>4, <3>1, <3>2 DEF Opened, AtFirst
        <3>4. HoldsOnce(s1, V)
            BY <1>3, Zenon DEF Moved
        <3> QED
            BY <1>a, <1>2, <1>4, <1>5, <2>3, <3>3, <3>4, TryCalm
    <2> QED
        BY <2>1, <2>2, <2>3, Zenon DEF ProposerOK
<1>7. Unopposed(p, R) => settled <= s2.next_prepare_iid
    <2>1. /\ s1.next_prepare_iid = s.next_prepare_iid
          /\ s2.next_prepare_iid >= s1.next_prepare_iid
        BY <1>3, <1>4, Zenon DEF Moved, Opened, Later
    <2>2. StructOK(p, s1) /\ StructOK(p, s2)
        BY <1>3, <1>4, Zenon DEF Moved, Opened
    <2>3. s1.next_prepare_iid \in Nat /\ s2.next_prepare_iid \in Nat /\ settled \in Nat
        BY <2>2, StructFacts, IidFacts
    <2>4. Unopposed(p, R) => settled = 0 \/ settled <= s.next_prepare_iid
        BY DEF Calm
    <2> QED
        BY <2>1, <2>3, <2>4
<1>8. ProposerOK(p, t, Qn, R, V)
    BY <1>d, <1>5, <1>6, <1>7, TryTrims DEF Posted
<1> QED
    BY <1>5, <1>8, Zenon DEF Posted

-------------------------------------------------------------------------------
(* What a handler of p leaves behind: R are the promises received, V the values
   p still has to see through, H those submitted. *)
HandlerOK(p, R, V, H) ==
    /\ \E t : /\ proposer' = [proposer EXCEPT ![p] = t]
              /\ ProposerOK(p, t, requests', R, V)
    /\ requests \subseteq requests'
    /\ \A a \in requests' : a \in requests \/ GoodRequest(p, a, R, H)

(* A handler that ends in try_accept. *)
LEMMA TryAcceptOK ==
    ASSUME NEW p \in Replica, NEW s, NEW R, NEW V, NEW H, requests \subseteq Request,
           ProposerOK(p, s, requests, R, V), \A v \in V : <<p, v>> \in H,
           NEW sent, \A m \in sent : PrepareOf(p, m), NEW settled \in Iid \cup {0},
           Calm(p, s, R, sent, settled), try_accept(p, s, sent, settled)
    PROVE  HandlerOK(p, R, V, H)
<1> DEFINE A   == AcceptedNow(s)
           s1  == MoveToAccept(s, A)
           P   == PreparedNow(s1)
           s2  == Prepare(p, s1, P)
           out == TryOut(p, s1, s2, A, P, sent)
<1>0. PICK t : /\ A = AcceptedNow(s) /\ s1 = MoveToAccept(s, A)
               /\ P = PreparedNow(s1) /\ s2 = Prepare(p, s1, P)
               /\ out = TryOut(p, s1, s2, A, P, sent)
               /\ \A m \in out : m.iid \in Iid /\ m.ballot <= MaxBallot
               /\ t \in proposer_set_instance_id(s2, settled)
               /\ proposer' = [proposer EXCEPT ![p] = t]
               /\ requests' = requests \cup Addressed(p, out)
    BY Zenon DEF try_accept, Commit, TryOut, NewAccepts, Addressed
<1> HIDE DEF A, s1, P, s2, out
<1>1. TryRun(p, s, sent, settled, t, requests, requests')
    BY <1>0, Zenon DEF TryRun
<1>2. /\ ProposerOK(p, t, requests', R, V)
      /\ \A a \in requests' : a \in requests \/ GoodRequest(p, a, R, H)
    BY <1>1, TryStep
<1>3. requests \subseteq requests'
    BY <1>0
<1> QED
    BY <1>0, <1>2, <1>3, Zenon DEF HandlerOK

(* A handler that only trims, or does nothing. *)
LEMMA CommitOK ==
    ASSUME NEW p, NEW s, NEW R, NEW V, NEW H, requests \subseteq Request,
           ProposerOK(p, s, requests, R, V), NEW settled \in Iid \cup {0},
           Calm(p, s, R, {}, settled), Commit(p, s, {}, settled)
    PROVE  HandlerOK(p, R, V, H)
<1>1. PICK t \in proposer_set_instance_id(s, settled) :
         proposer' = [proposer EXCEPT ![p] = t]
    BY Zenon DEF Commit
<1>2. requests' = requests
    BY DEF Commit
<1>3. StructOK(p, t) /\ Later(s, t) /\ HoldsOnce(t, V)
    BY TrimStep, TrimHolds DEF ProposerOK
<1>4. AcceptsOK(p, t, requests)
    BY <1>3, LaterAccepts DEF ProposerOK
<1>5. PromisesOK(p, t, R)
    BY <1>3, LaterPromises DEF ProposerOK
<1>6. AcksOK(t, R)
    BY <1>3, LaterAcks DEF ProposerOK
<1>7. Unopposed(p, R) => UnopposedOK(p, t, requests, V)
    <2>1. s.next_prepare_iid \in Nat
        BY StructFacts DEF ProposerOK
    <2>2. Unopposed(p, R) => t = s
        BY <1>1, <2>1 DEF Calm, proposer_set_instance_id
    <2> QED
        BY <2>2 DEF ProposerOK
<1>8. ProposerOK(p, t, requests', R, V)
    BY <1>2, <1>3, <1>4, <1>5, <1>6, <1>7 DEF ProposerOK
<1> QED
    BY <1>1, <1>2, <1>8, Zenon DEF HandlerOK

-------------------------------------------------------------------------------
(* The bounds on what was sent before try_accept, from the guard of Commit. *)
LEMMA SentBounded ==
    ASSUME NEW p, NEW s, NEW sent, NEW settled, try_accept(p, s, sent, settled)
    PROVE  \A m \in sent : m.iid \in Iid /\ m.ballot <= MaxBallot
    BY DEF try_accept, Commit

(* More promises and more submissions do no harm. *)
LEMMA MorePromises ==
    ASSUME NEW p, NEW s, NEW R, NEW Rn, R \subseteq Rn, PromisesOK(p, s, R)
    PROVE  PromisesOK(p, s, Rn)
<1>1. \A i, b : PromisesTo(p, i, b, R) \subseteq PromisesTo(p, i, b, Rn)
    BY DEF PromisesTo
<1> QED
    BY <1>1 DEF PromisesOK

(* More answers leave a proposer as it should be. *)
LEMMA MoreAnswers ==
    ASSUME NEW p, NEW s, NEW Q, NEW R, NEW Rn, R \subseteq Rn, NEW V,
           ProposerOK(p, s, Q, R, V)
    PROVE  ProposerOK(p, s, Q, Rn, V)
<1>1. PromisesOK(p, s, Rn)
    BY MorePromises DEF ProposerOK
<1>2. AcksOK(s, Rn)
    BY DEF ProposerOK, AcksOK
<1>3. Unopposed(p, Rn) => UnopposedOK(p, s, Q, V)
    BY DEF ProposerOK, Unopposed
<1> QED
    BY <1>1, <1>2, <1>3, Zenon DEF ProposerOK

(* An ACCEPT that follows the promises still does when more answers and values come. *)
LEMMA FollowsMore ==
    ASSUME NEW a, NEW R, NEW Rn, R \subseteq Rn, NEW H, NEW Hn, H \subseteq Hn,
           Follows(a, R, H)
    PROVE  Follows(a, Rn, Hn)
<1>1. PromisesTo(a.src, a.iid, a.ballot, R) \subseteq PromisesTo(a.src, a.iid, a.ballot, Rn)
    BY DEF PromisesTo
<1> QED
    BY <1>1, Zenon DEF Follows

(* Requests of another proposer, and further copies of p's own, are no news to p. *)
Copy(a, k) ==
    /\ a.type = k.type /\ a.src = k.src /\ a.iid = k.iid /\ a.ballot = k.ballot
    /\ a.type = "ACCEPT" => a.value = k.value
NoNews(p, Q, Qn) ==
    \A a \in Qn : a.type \in {"PREPARE", "ACCEPT"} /\ a.src = p => \E k \in Q : Copy(a, k)

(* They leave p as it should be. *)
LEMMA OtherRequests ==
    ASSUME NEW p, NEW s, NEW Q, NEW Qn, NEW R, NEW V, NoNews(p, Q, Qn),
           ProposerOK(p, s, Q, R, V)
    PROVE  ProposerOK(p, s, Qn, R, V)
<1>1. \A m \in AcceptsOf(p, Qn) :
         \E k \in AcceptsOf(p, Q) : /\ m.iid = k.iid /\ m.ballot = k.ballot
                                   /\ m.value = k.value
    BY DEF AcceptsOf, NoNews, Copy
<1>2. AcceptsOK(p, s, Qn)
    <2>0. /\ \A m \in AcceptsOf(p, Q) : AcceptOK(p, s, m)
          /\ \A k, m \in AcceptsOf(p, Q) :
                k.iid = m.iid /\ k.ballot = m.ballot => k.value = m.value
        BY Zenon DEF ProposerOK, AcceptsOK
    <2>1. ASSUME NEW m \in AcceptsOf(p, Qn) PROVE AcceptOK(p, s, m)
        <3>1. PICK k \in AcceptsOf(p, Q) :
                 m.iid = k.iid /\ m.ballot = k.ballot /\ m.value = k.value
            BY <1>1, Zenon
        <3>2. AcceptOK(p, s, k)
            BY <2>0, Zenon
        <3> QED
            BY <3>1, <3>2 DEF AcceptOK
    <2>2. \A k, m \in AcceptsOf(p, Qn) :
             k.iid = m.iid /\ k.ballot = m.ballot => k.value = m.value
        BY <1>1, <2>0
    <2> QED
        BY <2>1, <2>2 DEF AcceptsOK
<1>3. ASSUME Unopposed(p, R) PROVE UnopposedOK(p, s, Qn, V)
    <2>1. UnopposedOK(p, s, Q, V)
        BY <1>3 DEF ProposerOK
    <2>2. \A m \in Qn : m.type \in {"PREPARE", "ACCEPT"} /\ m.src = p =>
             m.ballot = proposer_next_ballot(p, 0)
        BY <2>1 DEF UnopposedOK, NoNews, Copy
    <2>3. \A k, m \in AcceptsOf(p, Qn) : k.value = m.value => k.iid = m.iid
        BY <1>1, <2>1 DEF UnopposedOK
    <2>4. \A m \in AcceptsOf(p, Qn) : m.value \in V =>
             /\ m.iid \in DOMAIN s.accept_instances
             /\ s.accept_instances[m.iid].value = m.value
        BY <1>1, <2>1 DEF UnopposedOK
    <2> QED
        BY <2>1, <2>2, <2>3, <2>4, Zenon DEF UnopposedOK
<1> QED
    BY <1>2, <1>3, Zenon DEF ProposerOK

-------------------------------------------------------------------------------
(***************************************************************************)
(* The handlers, one by one: what each does to the struct before it calls  *)
(* try_accept.                                                             *)
(***************************************************************************)

(* A value joins the queue. *)
LEMMA AppendHolds ==
    ASSUME NEW s, NEW t, NEW V, HoldsOnce(s, V), s.values \in Seq(Value),
           NEW v \in Value, v \notin V, t.values = Append(s.values, v),
           t.prepare_instances = s.prepare_instances,
           t.accept_instances = s.accept_instances
    PROVE  HoldsOnce(t, V \cup {v})
<1> DEFINE n == Len(s.values)
           new == <<"queue", n + 1>>
<1>1. /\ n \in Nat /\ DOMAIN s.values = 1 .. n /\ DOMAIN t.values = 1 .. (n + 1)
      /\ \A k \in 1 .. n : t.values[k] = s.values[k]
      /\ t.values[n + 1] = v
    OBVIOUS
<1>2. /\ \A k : k \in DOMAIN t.values <=> k \in DOMAIN s.values \/ k = n + 1
      /\ n + 1 \notin DOMAIN s.values
      /\ \A k \in DOMAIN s.values : t.values[k] = s.values[k]
    BY <1>1
<1>3. \A x : x \in Places(t) <=> x \in Places(s) \/ x = new
    <2>1. /\ \A x : x \in Places(s) <=>
                 x \in InTables(s) \/ \E k \in DOMAIN s.values : x = <<"queue", k>>
          /\ \A x : x \in Places(t) <=>
                 x \in InTables(s) \/ \E k \in DOMAIN t.values : x = <<"queue", k>>
        BY Zenon DEF Places, InTables
    <2> HIDE DEF n
    <2> QED
        BY <1>2, <2>1
<1>4. /\ \A x \in Places(s) : ValueAt(t, x) = ValueAt(s, x)
      /\ ValueAt(t, new) = v
    <2>1. \A k \in DOMAIN s.values : ValueAt(t, <<"queue", k>>) = ValueAt(s, <<"queue", k>>)
        BY <1>2 DEF ValueAt
    <2>2. \A i : /\ ValueAt(t, <<"prepare", i>>) = ValueAt(s, <<"prepare", i>>)
                 /\ ValueAt(t, <<"accept", i>>) = ValueAt(s, <<"accept", i>>)
        BY DEF ValueAt
    <2>3. ValueAt(t, new) = v
        BY <1>1, PlaceCases
    <2>4. ASSUME NEW x \in Places(s) PROVE ValueAt(t, x) = ValueAt(s, x)
        BY <2>1, <2>2, Zenon DEF Places
    <2> QED
        BY <2>3, <2>4
<1>5. \A x \in Places(s) : ValueAt(s, x) \in V
    BY DEF HoldsOnce
<1>6. \A x, y \in Places(s) : ValueAt(s, x) = ValueAt(s, y) => x = y
    BY DEF HoldsOnce
<1>7. \A u : u \in V <=> \E x \in Places(s) : u = ValueAt(s, x)
    BY DEF HoldsOnce
<1> HIDE DEF new
<1>8. \A x, y \in Places(t) : ValueAt(t, x) = ValueAt(t, y) => x = y
    BY <1>3, <1>4, <1>5, <1>6
<1>9. \A u : u \in V \cup {v} <=> \E x \in Places(t) : u = ValueAt(t, x)
    BY <1>3, <1>4, <1>7
<1>10. {ValueAt(t, x) : x \in Places(t)} = V \cup {v}
    BY <1>9
<1> QED
    BY <1>8, <1>10 DEF HoldsOnce

(* evproposer_handle_client_value: v is one more value to see through. *)
LEMMA ClientValueOK ==
    ASSUME NEW p \in Replica, NEW s, NEW R, NEW V, NEW H, requests \subseteq Request,
           ProposerOK(p, s, requests, R, V), NEW v \in Value, v \notin V,
           \A u \in V \cup {v} : <<p, u>> \in H,
           Unopposed(p, R) => \A m \in AcceptsOf(p, requests) : m.value # v,
           try_accept(p, [s EXCEPT !.values = Append(@, v)], {}, 0)
    PROVE  HandlerOK(p, R, V \cup {v}, H)
<1> DEFINE t == [s EXCEPT !.values = Append(@, v)]
<1>1. StructOK(p, s) /\ HoldsOnce(s, V) /\ s \in ProposerStruct /\ s.values \in Seq(Value)
    BY StructFacts, Zenon DEF ProposerOK, StructOK
<1>2. Append(s.values, v) \in Seq(Value)
    BY <1>1
<1>3. /\ t \in ProposerStruct /\ t.values = Append(s.values, v)
      /\ t.next_prepare_iid = s.next_prepare_iid
      /\ t.prepare_instances = s.prepare_instances
      /\ t.accept_instances = s.accept_instances
    BY <1>1, <1>2 DEF ProposerStruct
<1> HIDE DEF t
<1>4. StructOK(p, t)
    BY <1>1, <1>3, Zenon DEF StructOK
<1>5. Later(s, t)
    BY <1>1, <1>3, StructFacts DEF Later
<1>6. AcceptsOK(p, t, requests) /\ PromisesOK(p, t, R)
    BY <1>1, <1>4, <1>5, LaterAccepts, LaterPromises DEF ProposerOK
<1>7. HoldsOnce(t, V \cup {v})
    BY <1>1, <1>3, AppendHolds, Zenon
<1>8. ProposerOK(p, t, requests, R, V \cup {v})
    <2>1. AcksOK(t, R)
        BY <1>5, LaterAcks DEF ProposerOK
    <2>2. Unopposed(p, R) => UnopposedOK(p, t, requests, V \cup {v})
        BY <1>3 DEF ProposerOK, UnopposedOK
    <2> QED
        BY <1>4, <1>6, <1>7, <2>1, <2>2 DEF ProposerOK
<1>9. try_accept(p, t, {}, 0) /\ Calm(p, t, R, {}, 0)
    BY DEF t, Calm
<1> QED
    BY <1>8, <1>9, TryAcceptOK

(* Nothing is held elsewhere when instances keep their values. *)
LEMMA SameHeld ==
    ASSUME NEW s, NEW t, NEW V, HoldsOnce(s, V), t.values = s.values,
           DOMAIN t.prepare_instances = DOMAIN s.prepare_instances,
           DOMAIN t.accept_instances = DOMAIN s.accept_instances,
           \A i \in DOMAIN s.prepare_instances :
              t.prepare_instances[i].value = s.prepare_instances[i].value,
           \A i \in DOMAIN s.accept_instances :
              t.accept_instances[i].value = s.accept_instances[i].value
    PROVE  HoldsOnce(t, V)
<1>1. /\ WithValue(t.prepare_instances) = WithValue(s.prepare_instances)
      /\ WithValue(t.accept_instances) = WithValue(s.accept_instances)
    BY DEF WithValue, instance_has_value
<1>2. Places(t) = Places(s)
    BY <1>1, Zenon DEF Places
<1>3. /\ \A k : ValueAt(t, <<"queue", k>>) = ValueAt(s, <<"queue", k>>)
      /\ \A i \in WithValue(s.prepare_instances) :
            ValueAt(t, <<"prepare", i>>) = ValueAt(s, <<"prepare", i>>)
      /\ \A i \in WithValue(s.accept_instances) :
            ValueAt(t, <<"accept", i>>) = ValueAt(s, <<"accept", i>>)
    BY DEF ValueAt, WithValue
<1>4. \A x \in Places(s) : ValueAt(t, x) = ValueAt(s, x)
    BY <1>3, Zenon DEF Places
<1>5. \A x, y \in Places(t) : ValueAt(t, x) = ValueAt(t, y) => x = y
    BY <1>2, <1>4 DEF HoldsOnce
<1>6. {ValueAt(t, x) : x \in Places(t)} = {ValueAt(s, x) : x \in Places(s)}
    BY <1>2, <1>4
<1> QED
    BY <1>5, <1>6 DEF HoldsOnce

(* An instance takes the place of the one of the same identifier. *)
LEMMA InsertFacts ==
    ASSUME NEW h \in ProposerTable, NEW i \in Iid, NEW new \in Instance
    PROVE  /\ DOMAIN Insert(h, i, new) = DOMAIN h \cup {i}
           /\ Insert(h, i, new)[i] = new
           /\ \A j \in DOMAIN h : j # i => Insert(h, i, new)[j] = h[j]
           /\ Insert(h, i, new) \in ProposerTable
<1>1. /\ DOMAIN Insert(h, i, new) = DOMAIN h \cup {i}
      /\ Insert(h, i, new)[i] = new
      /\ \A j \in DOMAIN h : j # i => Insert(h, i, new)[j] = h[j]
      /\ Insert(h, i, new) = [j \in DOMAIN Insert(h, i, new) |-> Insert(h, i, new)[j]]
    BY DEF Insert
<1>2. DOMAIN h \subseteq Iid /\ \A j \in DOMAIN h : h[j] \in Instance
    BY ProposerTableFacts
<1>3. /\ DOMAIN Insert(h, i, new) \subseteq Iid
      /\ \A j \in DOMAIN Insert(h, i, new) : Insert(h, i, new)[j] \in Instance
    BY <1>1, <1>2
<1>4. Insert(h, i, new) \in ProposerTable
    BY <1>1, <1>3, ProposerTableFacts
<1> QED
    BY <1>1, <1>4

(* An instance being prepared hears a promise, or starts a larger ballot. *)
LEMMA ReplacePrepare ==
    ASSUME NEW p, NEW s, NEW Q, NEW R, NEW V, ProposerOK(p, s, Q, R, V),
           Q \subseteq Request, NEW i \in DOMAIN s.prepare_instances, NEW new \in Instance,
           new.value = s.prepare_instances[i].value, OwnBallot(p, new.ballot),
           new.ballot >= s.prepare_instances[i].ballot, new.ballot > 0,
           \E S \in SUBSET PromisesTo(p, i, new.ballot, R) : Heard(new, S),
           Unopposed(p, R) => new.ballot = s.prepare_instances[i].ballot,
           NEW t, t = [s EXCEPT !.prepare_instances = Insert(@, i, new)]
    PROVE  ProposerOK(p, t, Q, R, V)
<1> DEFINE h == s.prepare_instances
           k == t.prepare_instances
<1>1. StructOK(p, s) /\ AcceptsOK(p, s, Q) /\ PromisesOK(p, s, R) /\ HoldsOnce(s, V)
    BY DEF ProposerOK
<1>2. s \in ProposerStruct /\ h \in ProposerTable /\ i \in Iid
    BY <1>1, StructFacts, Zenon DEF StructOK
<1>3. /\ DOMAIN Insert(h, i, new) = DOMAIN h /\ Insert(h, i, new)[i] = new
      /\ \A j \in DOMAIN h : j # i => Insert(h, i, new)[j] = h[j]
      /\ Insert(h, i, new) \in ProposerTable
    <2>1. /\ DOMAIN Insert(h, i, new) = DOMAIN h \cup {i} /\ Insert(h, i, new)[i] = new
          /\ \A j \in DOMAIN h : j # i => Insert(h, i, new)[j] = h[j]
          /\ Insert(h, i, new) \in ProposerTable
        BY <1>2, InsertFacts, Zenon
    <2> QED
        BY <2>1, Zenon
<1>4. /\ t \in ProposerStruct /\ t.values = s.values
      /\ t.next_prepare_iid = s.next_prepare_iid
      /\ k = Insert(h, i, new) /\ t.accept_instances = s.accept_instances
    BY <1>2, <1>3 DEF ProposerStruct
<1>5. /\ DOMAIN k = DOMAIN h /\ k[i] = new
      /\ \A j \in DOMAIN h : j # i => k[j] = h[j]
    BY <1>3, <1>4
<1> HIDE DEF h, k
<1>6. StructOK(p, t)
    <2>1. OpenedBy(p, k, t.next_prepare_iid)
        BY <1>1, <1>4, <1>5 DEF StructOK, OpenedBy, h
    <2> QED
        BY <1>1, <1>4, <1>5, <2>1, Zenon DEF StructOK, h, k
<1>7. HoldsOnce(t, V)
    BY <1>1, <1>4, <1>5, SameHeld, Zenon DEF h, k
<1>8. ASSUME NEW m \in AcceptsOf(p, Q) PROVE AcceptOK(p, t, m)
    <2>1. AcceptOK(p, s, m)
        BY <1>1 DEF AcceptsOK
    <2>2. m.ballot \in Nat /\ new.ballot \in Nat /\ h[i].ballot \in Nat
        BY <1>1, StructFacts, MessagesAssumption DEF AcceptsOf, Request, Instance, Ballot, h
    <2>3. m.iid \in DOMAIN k => m.ballot < k[m.iid].ballot
        BY <1>5, <2>1, <2>2 DEF AcceptOK, h
    <2> QED
        BY <1>4, <2>1, <2>3 DEF AcceptOK, k
<1>9. AcceptsOK(p, t, Q)
    BY <1>1, <1>8 DEF AcceptsOK
<1>10. PromisesOK(p, t, R)
    BY <1>1, <1>5 DEF PromisesOK, h, k
<1>11. AcksOK(t, R)
    BY <1>4 DEF ProposerOK, AcksOK
<1>12. Unopposed(p, R) => UnopposedOK(p, t, Q, V)
    BY <1>4, <1>5 DEF ProposerOK, UnopposedOK, h, k
<1> QED
    BY <1>6, <1>7, <1>9, <1>10, <1>11, <1>12 DEF ProposerOK

(* proposer_preempt: a larger ballot of p's own, the same value, nothing heard. *)
LEMMA PreemptFacts ==
    ASSUME NEW p \in Replica, NEW inst \in Instance, OwnBallot(p, inst.ballot),
           inst.ballot > 0, NEW i \in Iid,
           proposer_next_ballot(p, inst.ballot) <= MaxBallot
    PROVE  LET new == proposer_preempt(p, inst)
           IN  /\ new \in Instance /\ new.value = inst.value
               /\ OwnBallot(p, new.ballot) /\ new.ballot > inst.ballot /\ new.ballot > 0
               /\ new.quorum = {} /\ new.promised_value = None /\ new.value_ballot = 0
               /\ PrepareOf(p, prepare_request(p, i, new))
<1> DEFINE new == proposer_preempt(p, inst)
           b == proposer_next_ballot(p, inst.ballot)
<1>1. inst.ballot \in Nat
    BY MessagesAssumption DEF Instance, Ballot
<1>2. b \in Nat /\ b > inst.ballot /\ OwnBallot(p, b)
    BY <1>1, NextBallotFacts
<1>3. b \in Ballot \ {0} /\ b > 0
    BY <1>1, <1>2, MessagesAssumption DEF Ballot
<1> HIDE DEF b
<1>4. /\ new.ballot = b /\ new.value = inst.value /\ new.quorum = {}
      /\ new.promised_value = None /\ new.value_ballot = 0
    BY DEF proposer_preempt, Instance, b
<1>5. new = [inst EXCEPT !.ballot = b, !.value_ballot = 0,
                         !.promised_value = None, !.quorum = {}]
    BY DEF proposer_preempt, b
<1>6. 0 \in Ballot
    BY MessagesAssumption DEF Ballot
<1>7. new \in Instance
    BY <1>3, <1>5, <1>6, Zenon DEF Instance
<1> HIDE DEF new
<1>8. prepare_request(p, i, new) = [type |-> "PREPARE", from |-> p, to |-> p, src |-> p,
                                    iid |-> i, ballot |-> b]
    BY <1>4 DEF prepare_request
<1>9. PrepareOf(p, prepare_request(p, i, new))
    BY <1>3, <1>8 DEF PrepareOf
<1> QED
    BY <1>2, <1>3, <1>4, <1>7, <1>9 DEF new

(* adopt_promise: one more promise heard, and the value of the largest ballot. *)
LEMMA AdoptFacts ==
    ASSUME NEW inst \in Instance, NEW S, Heard(inst, S), NEW m, m.aid \in Replica,
           m.value \in Value \cup {None}, m.value_ballot \in Ballot,
           m.value # None => m.value_ballot > 0
    PROVE  LET new == adopt_promise(inst, m)
           IN  /\ new \in Instance /\ new.value = inst.value /\ new.ballot = inst.ballot
               /\ Heard(new, S \cup {m})
<1> DEFINE new == adopt_promise(inst, m)
           newer == m.value # None /\ m.value_ballot > inst.value_ballot
<1>1. inst.value_ballot \in Nat /\ m.value_ballot \in Nat
    BY MessagesAssumption DEF Instance, Ballot
<1>2. /\ new \in Instance /\ new.value = inst.value /\ new.ballot = inst.ballot
      /\ new.quorum = inst.quorum \cup {m.aid}
      /\ new.value_ballot = IF newer THEN m.value_ballot ELSE inst.value_ballot
      /\ new.promised_value = IF newer THEN m.value ELSE inst.promised_value
    BY Zenon DEF adopt_promise, Instance
<1> HIDE DEF new
<1>3. {k.aid : k \in S \cup {m}} = new.quorum
    BY <1>2 DEF Heard
<1>4. \A k \in S \cup {m} : k.value_ballot \in Nat /\ (k.value # None => k.value_ballot > 0)
    BY <1>1 DEF Heard
<1>5. CASE newer
    <2>1. \A k \in S : k.value # None => k.value_ballot <= m.value_ballot
        BY <1>1, <1>4, <1>5 DEF Heard
    <2>2. /\ new.promised_value # None
          /\ m.value = new.promised_value /\ m.value_ballot = new.value_ballot
          /\ \A k \in S \cup {m} : k.value # None => k.value_ballot <= new.value_ballot
        BY <1>1, <1>2, <1>5, <2>1
    <2> QED
        BY <1>2, <1>3, <1>4, <2>2 DEF Heard, new
<1>6. CASE ~newer
    <2>1. new.promised_value = inst.promised_value /\ new.value_ballot = inst.value_ballot
        BY <1>2, <1>6
    <2>2. CASE inst.promised_value = None
        <3>1. inst.value_ballot = 0 /\ \A k \in S : k.value = None
            BY <2>2 DEF Heard
        <3>2. m.value = None
            BY <1>1, <1>6, <3>1
        <3> QED
            BY <1>2, <1>3, <1>4, <2>1, <2>2, <3>1, <3>2 DEF Heard, new
    <2>3. CASE inst.promised_value # None
        <3>1. \A k \in S \cup {m} : k.value # None => k.value_ballot <= inst.value_ballot
            BY <1>1, <1>6, <2>3 DEF Heard
        <3>2. \E k \in S \cup {m} : /\ k.value = inst.promised_value
                                    /\ k.value_ballot = inst.value_ballot
            BY <2>3 DEF Heard
        <3> QED
            BY <1>2, <1>3, <1>4, <2>1, <2>3, <3>1, <3>2 DEF Heard, new
    <2> QED
        BY <2>2, <2>3
<1> QED
    BY <1>5, <1>6

(* What the proposer may rely on in a PROMISE: the fields have their types, a value
   comes with the ballot it was accepted at, its ballot is one of an answer in R, and
   if the ballot is one of p's own the message is among the promises R. *)
PromiseMessage(p, m, R) ==
    /\ m.iid \in Iid /\ m.ballot \in Ballot /\ m.aid \in Replica
    /\ m.value \in Value \cup {None} /\ m.value_ballot \in Ballot
    /\ m.value # None => m.value_ballot > 0
    /\ \E k \in R : k.ballot = m.ballot
    /\ OwnBallot(p, m.ballot) => m \in PromisesTo(p, m.iid, m.ballot, R)

(* An instance of p in either phase. *)
LEMMA PreparedInstance ==
    ASSUME NEW p, NEW s, StructOK(p, s), NEW i \in DOMAIN s.prepare_instances
    PROVE  LET inst == s.prepare_instances[i]
           IN  /\ inst \in Instance /\ OwnBallot(p, inst.ballot)
               /\ inst.ballot > 0 /\ inst.ballot \in Nat
<1>1. s.prepare_instances[i] \in Instance
    BY StructFacts
<1>2. s.prepare_instances[i].ballot \in Nat
    BY <1>1, MessagesAssumption DEF Instance, Ballot
<1> QED
    BY <1>1, <1>2 DEF StructOK, OpenedBy

(* The same of an instance in the accept phase. *)
LEMMA AcceptedInstance ==
    ASSUME NEW p, NEW s, StructOK(p, s), NEW i \in DOMAIN s.accept_instances
    PROVE  LET inst == s.accept_instances[i]
           IN  /\ inst \in Instance /\ OwnBallot(p, inst.ballot)
               /\ inst.ballot > 0 /\ inst.ballot \in Nat
<1>1. s.accept_instances[i] \in Instance
    BY StructFacts
<1>2. s.accept_instances[i].ballot \in Nat
    BY <1>1, MessagesAssumption DEF Instance, Ballot
<1> QED
    BY <1>1, <1>2 DEF StructOK, OpenedBy

(* evproposer_handle_promise. *)
LEMMA PromiseOK ==
    ASSUME NEW p \in Replica, NEW R, NEW Rn, R \subseteq Rn, NEW V, NEW H,
           requests \subseteq Request, ProposerOK(p, proposer[p], requests, R, V),
           \A v \in V : <<p, v>> \in H, NEW m, PromiseMessage(p, m, Rn),
           evproposer_handle_promise(p, m)
    PROVE  HandlerOK(p, Rn, V, H) /\ UNCHANGED <<submitted, closed>>
<1> DEFINE s == proposer[p]
           h == s.prepare_instances
           inst == h[m.iid]
           With(new) == [s EXCEPT !.prepare_instances = Insert(@, m.iid, new)]
<1>1. UNCHANGED <<submitted, closed>>
    BY DEF evproposer_handle_promise
<1>2. StructOK(p, s) /\ ProposerOK(p, s, requests, Rn, V)
    BY MoreAnswers DEF ProposerOK
<1>3. ASSUME m.iid \in DOMAIN h
      PROVE  /\ inst \in Instance /\ OwnBallot(p, inst.ballot) /\ inst.ballot > 0
             /\ inst.ballot \in Nat
    BY <1>2, <1>3, PreparedInstance
<1> DEFINE new == proposer_preempt(p, inst)
           adopted == adopt_promise(inst, m)
<1>4. \/ try_accept(p, s, {}, 0)
      \/ /\ m.iid \in DOMAIN h /\ m.ballot > inst.ballot
         /\ try_accept(p, With(new), {prepare_request(p, m.iid, new)}, 0)
      \/ /\ m.iid \in DOMAIN h /\ m.ballot = inst.ballot
         /\ try_accept(p, With(adopted), {}, 0)
    BY Zenon DEF evproposer_handle_promise
<1>5. CASE try_accept(p, s, {}, 0)
    BY <1>1, <1>2, <1>5, TryAcceptOK DEF Calm
<1>6. CASE /\ m.iid \in DOMAIN h /\ m.ballot > inst.ballot
           /\ try_accept(p, With(new), {prepare_request(p, m.iid, new)}, 0)
    <2>1. prepare_request(p, m.iid, new).ballot = proposer_next_ballot(p, inst.ballot)
        BY <1>3, <1>6 DEF prepare_request, proposer_preempt, Instance
    <2>2. m.iid \in Iid
        BY DEF PromiseMessage
    <2>3. proposer_next_ballot(p, inst.ballot) <= MaxBallot
        BY <1>6, <2>1, SentBounded
    <2>4. /\ new \in Instance /\ new.value = inst.value
          /\ OwnBallot(p, new.ballot) /\ new.ballot > inst.ballot /\ new.ballot > 0
          /\ new.quorum = {} /\ new.promised_value = None /\ new.value_ballot = 0
          /\ PrepareOf(p, prepare_request(p, m.iid, new))
        BY <1>3, <1>6, <2>2, <2>3, PreemptFacts
    <2> HIDE DEF new
    <2>5. new.ballot >= inst.ballot
        BY <1>3, <1>6, <2>4, MessagesAssumption DEF Instance, Ballot
    <2>6. Heard(new, {}) /\ {} \in SUBSET PromisesTo(p, m.iid, new.ballot, Rn)
        BY <2>4 DEF Heard
    <2>7. ~Unopposed(p, Rn)
        <3>1. Unopposed(p, Rn) => inst.ballot = proposer_next_ballot(p, 0)
            BY <1>2, <1>6 DEF ProposerOK, UnopposedOK
        <3>2. PICK k \in Rn : k.ballot = m.ballot
            BY DEF PromiseMessage
        <3>3. m.ballot \in Nat /\ proposer_next_ballot(p, 0) \in Nat
            BY NextBallotFacts, MessagesAssumption DEF PromiseMessage, Ballot
        <3> QED
            BY <1>6, <3>1, <3>2, <3>3 DEF Unopposed
    <2>8. ProposerOK(p, With(new), requests, Rn, V)
        BY <1>2, <1>6, <2>4, <2>5, <2>6, <2>7, ReplacePrepare
    <2> HIDE DEF With
    <2> QED
        BY <1>1, <1>6, <2>4, <2>7, <2>8, TryAcceptOK DEF Calm
<1>7. CASE /\ m.iid \in DOMAIN h /\ m.ballot = inst.ballot
           /\ try_accept(p, With(adopted), {}, 0)
    <2>1. PICK S \in SUBSET PromisesTo(p, m.iid, inst.ballot, Rn) : Heard(inst, S)
        BY <1>2, <1>7 DEF ProposerOK, PromisesOK
    <2>2. /\ adopted \in Instance /\ adopted.value = inst.value
          /\ adopted.ballot = inst.ballot /\ Heard(adopted, S \cup {m})
        BY <1>3, <1>7, <2>1, AdoptFacts, Zenon DEF PromiseMessage
    <2> HIDE DEF adopted
    <2>3. m \in PromisesTo(p, m.iid, inst.ballot, Rn)
        BY <1>3, <1>7 DEF PromiseMessage
    <2>4. S \cup {m} \in SUBSET PromisesTo(p, m.iid, adopted.ballot, Rn)
        BY <2>1, <2>2, <2>3
    <2>5. /\ OwnBallot(p, adopted.ballot) /\ adopted.ballot > 0
          /\ adopted.ballot >= inst.ballot
        BY <1>3, <1>7, <2>2
    <2>6. ProposerOK(p, With(adopted), requests, Rn, V)
        BY <1>2, <1>7, <2>2, <2>4, <2>5, ReplacePrepare
    <2> HIDE DEF With
    <2> QED
        BY <1>1, <1>7, <2>6, TryAcceptOK DEF Calm
<1> QED
    BY <1>4, <1>5, <1>6, <1>7
===============================================================================
