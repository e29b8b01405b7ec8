--------------------------- MODULE ProposerProofs ---------------------------
(***************************************************************************)
(* The handlers of accepted, preempted and acceptor state, each from the   *)
(* struct it finds to the struct it leaves behind, and all the proposers   *)
(* among acceptors that answer as they may.                                *)
(***************************************************************************)
EXTENDS TryAcceptProofs

(* All the proposers: the values p still has to see through are those submitted to
   it and not closed. *)
Pursued(p, given, done) == {v \in Value : <<p, v>> \in given \ done}
ProposersOK(proposers, Q, R, given, done) ==
    /\ Q \subseteq Request
    /\ proposers = [p \in Proposers |-> proposers[p]]
    /\ \A p \in Proposers : ProposerOK(p, proposers[p], Q, R, Pursued(p, given, done))
    /\ \A p \in Proposers, v \in Value : <<p, v>> \in done => <<p, v>> \in given
    /\ \A m \in Q : m.type = "ACCEPT" => m.src \in Proposers /\ Follows(m, R, given)

(* In the proposers' environment a promise has a ballot of acceptance exactly when
   it has a value; besides the promises R, any other answer may be given. *)
ValuesHaveBallots(R) ==
    \A m \in R : m.type = "PROMISE" => (m.value = None <=> m.value_ballot = 0)
Answered(R) ==
    R \cup [type : {"ACCEPTED"}, aid : Replica, iid : Iid, ballot : Nat]

ProposerInv ==
    /\ ProposersOK(proposer, requests, Answered(replies), submitted, closed)
    /\ replies \subseteq Reply /\ ValuesHaveBallots(replies)

(* An acceptor's answer to an ACCEPT request is among the answers R. *)
Accepts(aid, iid, ballot, R) ==
    \E m \in R : m.type = "ACCEPTED" /\ m.aid = aid /\ m.iid = iid /\ m.ballot = ballot

(* An instance in the accept phase hears from one more acceptor. *)
LEMMA ReplaceAccept ==
    ASSUME NEW p, NEW s, NEW Q, NEW R, NEW V, ProposerOK(p, s, Q, R, V),
           NEW i \in DOMAIN s.accept_instances, NEW aid \in Replica,
           Accepts(aid, i, s.accept_instances[i].ballot, R)
    PROVE  LET new == [s.accept_instances[i] EXCEPT !.quorum = @ \cup {aid}]
           IN  ProposerOK(p, [s EXCEPT !.accept_instances = Insert(@, i, new)], Q, R, V)
<1> DEFINE h == s.accept_instances
           new == [h[i] EXCEPT !.quorum = @ \cup {aid}]
           t == [s EXCEPT !.accept_instances = Insert(@, i, new)]
<1>1. StructOK(p, s) /\ AcceptsOK(p, s, Q) /\ PromisesOK(p, s, R) /\ HoldsOnce(s, V)
    BY DEF ProposerOK
<1>2. s \in ProposerStruct /\ h \in ProposerTable /\ i \in Iid /\ h[i] \in Instance
    BY <1>1, StructFacts, Zenon DEF StructOK
<1>3. /\ new \in Instance /\ new.value = h[i].value /\ new.ballot = h[i].ballot
      /\ new.promised_value = h[i].promised_value /\ new.quorum = h[i].quorum \cup {aid}
    BY <1>2 DEF Instance
<1> HIDE DEF new
<1>4. /\ DOMAIN Insert(h, i, new) = DOMAIN h /\ Insert(h, i, new)[i] = new
      /\ \A j \in DOMAIN h : j # i => Insert(h, i, new)[j] = h[j]
      /\ Insert(h, i, new) \in ProposerTable
    <2>1. h \in ProposerTable /\ i \in Iid /\ new \in Instance
        BY <1>2, <1>3
    <2>2. /\ DOMAIN Insert(h, i, new) = DOMAIN h \cup {i} /\ Insert(h, i, new)[i] = new
          /\ \A j \in DOMAIN h : j # i => Insert(h, i, new)[j] = h[j]
          /\ Insert(h, i, new) \in ProposerTable
        BY <2>1, InsertFacts, Zenon
    <2> QED
        BY <2>2, Zenon
<1>5. /\ t \in ProposerStruct /\ t.values = s.values
      /\ t.next_prepare_iid = s.next_prepare_iid
      /\ t.accept_instances = Insert(h, i, new)
      /\ t.prepare_instances = s.prepare_instances
    BY <1>2, <1>4 DEF ProposerStruct
<1> HIDE DEF t
<1>6. /\ DOMAIN t.accept_instances = DOMAIN s.accept_instances
      /\ \A j \in DOMAIN s.accept_instances :
            /\ t.accept_instances[j].value = s.accept_instances[j].value
            /\ t.accept_instances[j].ballot = s.accept_instances[j].ballot
            /\ t.accept_instances[j].promised_value = s.accept_instances[j].promised_value
            /\ Proposed(t.accept_instances[j]) = Proposed(s.accept_instances[j])
    BY <1>3, <1>4, <1>5 DEF Proposed, instance_has_promised_value
<1>7. StructOK(p, t)
    <2>1. OpenedBy(p, t.accept_instances, t.next_prepare_iid)
        BY <1>1, <1>5, <1>6 DEF StructOK, OpenedBy
    <2> QED
        BY <1>1, <1>5, <1>6, <2>1, Zenon DEF StructOK
<1>8. HoldsOnce(t, V)
    BY <1>1, <1>5, <1>6, SameHeld
<1>9. AcceptsOK(p, t, Q)
    BY <1>1, <1>5, <1>6 DEF AcceptsOK, AcceptOK
<1>10. PromisesOK(p, t, R)
    BY <1>1, <1>5, Zenon DEF PromisesOK
<1>11. AcksOK(t, R)
    <2>1. \A j \in DOMAIN t.accept_instances : \A a \in t.accept_instances[j].quorum :
             a \in s.accept_instances[j].quorum \/ (a = aid /\ j = i)
        BY <1>3, <1>4, <1>5, <1>6
    <2>2. AcksOK(s, R)
        BY DEF ProposerOK
    <2> QED
        BY <1>6, <2>1, <2>2 DEF AcksOK, Accepts
<1>12. Unopposed(p, R) => UnopposedOK(p, t, Q, V)
    BY <1>5, <1>6 DEF ProposerOK, UnopposedOK
<1> QED
    BY <1>7, <1>8, <1>9, <1>10, <1>11, <1>12 DEF ProposerOK, t, new

(* A value leaves its place, and the proposer. *)
LEMMA RemoveHolds ==
    ASSUME NEW s, NEW t, NEW V, HoldsOnce(s, V), NEW out \in Places(s),
           \A x : x \in Places(t) <=> x \in Places(s) /\ x # out,
           \A x \in Places(t) : ValueAt(t, x) = ValueAt(s, x)
    PROVE  HoldsOnce(t, V \ {ValueAt(s, out)})
<1>1. \A x, y \in Places(s) : ValueAt(s, x) = ValueAt(s, y) => x = y
    BY DEF HoldsOnce
<1>2. \A u : u \in V <=> \E x \in Places(s) : u = ValueAt(s, x)
    BY DEF HoldsOnce
<1>3. \A x, y \in Places(t) : ValueAt(t, x) = ValueAt(t, y) => x = y
    BY <1>1
<1>4. \A u : u \in V \ {ValueAt(s, out)} <=> \E x \in Places(t) : u = ValueAt(t, x)
    BY <1>1, <1>2
<1> QED
    BY <1>3, <1>4 DEF HoldsOnce

(* The values after an instance completes: the client's value is done with if it
   is the one that was proposed, and goes back to the queue if it is not. *)
LEMMA FinishHolds ==
    ASSUME NEW p, NEW s, StructOK(p, s), NEW V, V \subseteq Value, HoldsOnce(s, V),
           NEW i \in DOMAIN s.accept_instances, NEW t, t = finish(s, i)
    PROVE  HoldsOnce(t, V \ ({s.accept_instances[i].value}
                             \cap {Proposed(s.accept_instances[i])}))
<1> DEFINE inst == s.accept_instances[i]
           back == /\ inst.promised_value # None /\ inst.value # None
                   /\ inst.value # inst.promised_value
<1>1. s \in ProposerStruct /\ inst \in Instance /\ s.values \in Seq(Value)
    BY StructFacts, Zenon DEF StructOK
<1>2. /\ t.prepare_instances = s.prepare_instances
      /\ t.accept_instances = Delete(s.accept_instances, {i})
      /\ back => t.values = Append(s.values, inst.value)
      /\ ~back => t.values = s.values
    BY <1>1 DEF finish, ProposerStruct, instance_has_value, instance_has_promised_value
<1>3. /\ DOMAIN t.accept_instances = DOMAIN s.accept_instances \ {i}
      /\ \A j \in DOMAIN t.accept_instances :
            t.accept_instances[j] = s.accept_instances[j]
    BY <1>2 DEF Delete, Restrict
<1>4. \A j : j \in WithValue(t.accept_instances) <=>
                j \in WithValue(s.accept_instances) /\ j # i
    BY <1>3 DEF WithValue
<1>5. \A x : x \in InTables(t) <=> x \in InTables(s) /\ x # <<"accept", i>>
    <2>1. /\ \A x : x \in InTables(s) <=>
                 \/ \E j \in WithValue(s.prepare_instances) : x = <<"prepare", j>>
                 \/ \E j \in WithValue(s.accept_instances) : x = <<"accept", j>>
          /\ \A x : x \in InTables(t) <=>
                 \/ \E j \in WithValue(s.prepare_instances) : x = <<"prepare", j>>
                 \/ \E j \in WithValue(t.accept_instances) : x = <<"accept", j>>
        BY <1>2, Zenon DEF InTables
    <2> QED
        BY <1>4, <2>1
<1>6. \A x \in InTables(t) : ValueAt(t, x) = ValueAt(s, x)
    <2>1. /\ \A j : ValueAt(t, <<"prepare", j>>) = ValueAt(s, <<"prepare", j>>)
          /\ \A j \in DOMAIN t.accept_instances :
                ValueAt(t, <<"accept", j>>) = ValueAt(s, <<"accept", j>>)
        BY <1>2, <1>3, Zenon DEF ValueAt
    <2>2. WithValue(t.accept_instances) \subseteq DOMAIN t.accept_instances
        BY DEF WithValue
    <2> QED
        BY <2>1, <2>2, Zenon DEF InTables
<1>7. inst.value # None => /\ <<"accept", i>> \in InTables(s)
                           /\ ValueAt(s, <<"accept", i>>) = inst.value
    BY PlaceCases DEF InTables, WithValue, instance_has_value
<1>8. Proposed(inst) = IF inst.promised_value # None THEN inst.promised_value ELSE inst.value
    BY DEF Proposed, instance_has_promised_value
<1> HIDE DEF inst
<1>9. CASE back
    <2> DEFINE w == <<inst.value>>
               g == [k \in {1} |-> <<"accept", i>>]
    <2>1. /\ w \in Seq(Value) /\ DOMAIN w = {1} /\ w[1] = inst.value
          /\ g[1] = <<"accept", i>>
        BY <1>1, <1>9 DEF Instance
    <2>2. t.values = s.values \o w
        BY <1>1, <1>2, <1>9 DEF Instance
    <2> HIDE DEF w, g
    <2>3. ToQueue(s, t, w, g)
        BY <1>5, <1>6, <1>7, <1>9, <2>1 DEF ToQueue
    <2>4. HoldsOnce(t, V)
        BY <1>1, <2>1, <2>2, <2>3, BackToQueue, Zenon
    <2>5. V \ ({inst.value} \cap {Proposed(inst)}) = V
        BY <1>8, <1>9
    <2> QED
        BY <2>4, <2>5 DEF inst
<1>10. CASE ~back
    <2>1. /\ \A x : x \in Places(t) <=> x \in Places(s) /\ x # <<"accept", i>>
          /\ \A x \in Places(t) : ValueAt(t, x) = ValueAt(s, x)
        <3>1. /\ \A x : x \in Places(s) <=>
                     x \in InTables(s) \/ \E k \in DOMAIN s.values : x = <<"queue", k>>
              /\ \A x : x \in Places(t) <=>
                     x \in InTables(t) \/ \E k \in DOMAIN s.values : x = <<"queue", k>>
            BY <1>2, <1>10, Zenon DEF Places, InTables
        <3>2. \A k : ValueAt(t, <<"queue", k>>) = ValueAt(s, <<"queue", k>>)
            BY <1>2, <1>10 DEF ValueAt
        <3> QED
            BY <1>5, <1>6, <3>1, <3>2
    <2>2. CASE inst.value # None
        <3>1. {inst.value} \cap {Proposed(inst)} = {inst.value}
            BY <1>8, <1>10, <2>2, Zenon
        <3>2. /\ <<"accept", i>> \in Places(s)
              /\ ValueAt(s, <<"accept", i>>) = inst.value
            BY <1>7, <2>2 DEF Places, InTables
        <3> QED
            BY <2>1, <3>1, <3>2, RemoveHolds DEF inst
    <2>3. CASE inst.value = None
        <3>1. V \ ({inst.value} \cap {Proposed(inst)}) = V
            BY <2>3, MessagesAssumption
        <3>2. <<"accept", i>> \notin Places(s)
            BY <2>3, PlaceCases DEF WithValue, instance_has_value, inst
        <3>3. Places(t) = Places(s) /\ \A x \in Places(s) : ValueAt(t, x) = ValueAt(s, x)
            BY <2>1, <3>2
        <3> QED
            BY <3>1, <3>3 DEF HoldsOnce, inst
    <2> QED
        BY <2>2, <2>3
<1> QED
    BY <1>9, <1>10

(* An instance completes: proposer_receive_accepted on a full quorum. *)
LEMMA FinishOK ==
    ASSUME NEW p, NEW s, NEW Q, NEW R, NEW V, ProposerOK(p, s, Q, R, V),
           Q \subseteq Request, V \subseteq Value, NEW i \in DOMAIN s.accept_instances
    PROVE  ProposerOK(p, finish(s, i), Q, R, V \ ({s.accept_instances[i].value}
                                         \cap {Proposed(s.accept_instances[i])}))
<1> DEFINE inst == s.accept_instances[i]
           t == finish(s, i)
<1>1. StructOK(p, s) /\ AcceptsOK(p, s, Q) /\ PromisesOK(p, s, R) /\ HoldsOnce(s, V)
    BY DEF ProposerOK
<1>2. /\ s \in ProposerStruct /\ inst \in Instance /\ s.values \in Seq(Value)
      /\ s.accept_instances \in ProposerTable
    BY <1>1, StructFacts, Zenon DEF StructOK
<1>3. Delete(s.accept_instances, {i}) \in ProposerTable
    BY <1>2, DeleteFacts, Zenon
<1>4. instance_has_value(inst) => Append(s.values, inst.value) \in Seq(Value)
    BY <1>2 DEF instance_has_value, Instance
<1>5. /\ t \in ProposerStruct /\ t.next_prepare_iid = s.next_prepare_iid
      /\ t.prepare_instances = s.prepare_instances
      /\ t.accept_instances = Delete(s.accept_instances, {i})
    BY <1>2, <1>3, <1>4, Zenon DEF finish, ProposerStruct
<1> HIDE DEF t
<1>6. /\ DOMAIN t.accept_instances = DOMAIN s.accept_instances \ {i}
      /\ \A j \in DOMAIN t.accept_instances : t.accept_instances[j] = s.accept_instances[j]
    BY <1>5 DEF Delete, Restrict
<1>7. StructOK(p, t)
    <2>1. /\ OpenedBy(p, t.accept_instances, t.next_prepare_iid)
          /\ OpenedBy(p, t.prepare_instances, t.next_prepare_iid)
        BY <1>1, <1>5, <1>6, Zenon DEF StructOK, OpenedBy
    <2>2. DOMAIN t.prepare_instances \cap DOMAIN t.accept_instances = {}
        BY <1>1, <1>5, <1>6 DEF StructOK
    <2> QED
        BY <1>5, <2>1, <2>2, Zenon DEF StructOK
<1>8. Later(s, t)
    <2>1. t.next_prepare_iid >= s.next_prepare_iid
        BY <1>1, <1>5, StructFacts
    <2> QED
        BY <1>5, <1>6, <2>1 DEF Later
<1>9. AcceptsOK(p, t, Q) /\ PromisesOK(p, t, R)
    BY <1>1, <1>7, <1>8, LaterAccepts, LaterPromises
<1>10. HoldsOnce(t, V \ ({inst.value} \cap {Proposed(inst)}))
    BY <1>1, FinishHolds DEF t
<1>11. AcksOK(t, R)
    BY <1>8, LaterAcks DEF ProposerOK
<1>12. ASSUME Unopposed(p, R)
       PROVE  UnopposedOK(p, t, Q, V \ ({inst.value} \cap {Proposed(inst)}))
    <2>1. UnopposedOK(p, s, Q, V) /\ inst.promised_value = None
        BY <1>12 DEF ProposerOK, UnopposedOK
    <2>2. Proposed(inst) = inst.value
        BY <2>1 DEF Proposed, instance_has_promised_value
    <2>3. \A m \in AcceptsOf(p, Q) : m.value \in V /\ m.value # inst.value =>
             /\ m.iid \in DOMAIN t.accept_instances
             /\ t.accept_instances[m.iid].value = m.value
        BY <1>6, <2>1 DEF UnopposedOK
    <2>4. \A j \in DOMAIN t.accept_instances :
             /\ t.accept_instances[j].ballot = proposer_next_ballot(p, 0)
             /\ t.accept_instances[j].promised_value = None
        BY <1>6, <2>1 DEF UnopposedOK
    <2> QED
        BY <1>5, <2>1, <2>2, <2>3, <2>4, Zenon DEF UnopposedOK
<1> QED
    BY <1>7, <1>9, <1>10, <1>11, <1>12 DEF ProposerOK, t

(* evproposer_handle_accepted, and the trim that follows a delivery: the values X
   are seen through, and are values p was pursuing. *)
LEMMA AcceptedOK ==
    ASSUME NEW p \in Replica, NEW R, NEW V, NEW H, V \subseteq Value,
           requests \subseteq Request, ProposerOK(p, proposer[p], requests, R, V),
           \A v \in V : <<p, v>> \in H, NEW m, m.aid \in Replica,
           Accepts(m.aid, m.iid, m.ballot, R), NEW settled \in Iid \cup {0},
           Calm(p, proposer[p], R, {}, settled), evproposer_handle_accepted(p, m, settled)
    PROVE  /\ submitted' = submitted
           /\ \E X : /\ HandlerOK(p, R, V \ X, H) /\ X \cap Value \subseteq V
                     /\ closed' = closed \cup {<<p, v>> : v \in X}
<1> DEFINE s == proposer[p]
           inst == s.accept_instances[m.iid]
           new == [inst EXCEPT !.quorum = @ \cup {m.aid}]
           X == {inst.value} \cap {Proposed(inst)}
<1>1. submitted' = submitted
    BY DEF evproposer_handle_accepted
<1>2. instance_to_accept(p, m.iid, inst).value = Proposed(inst)
    BY DEF instance_to_accept, Proposed
<1>3. \/ Commit(p, s, {}, settled) /\ closed' = closed
      \/ /\ m.iid \in DOMAIN s.accept_instances /\ m.ballot = inst.ballot
         /\ try_accept(p, [s EXCEPT !.accept_instances = Insert(@, m.iid, new)], {}, settled)
         /\ closed' = closed
      \/ /\ m.iid \in DOMAIN s.accept_instances
         /\ try_accept(p, finish(s, m.iid), {}, settled)
         /\ closed' = closed \cup {<<p, v>> : v \in X}
    BY <1>2, Zenon DEF evproposer_handle_accepted
<1>4. V \ {} = V /\ closed \cup {<<p, v>> : v \in {}} = closed
    OBVIOUS
<1>5. CASE Commit(p, s, {}, settled) /\ closed' = closed
    <2>1. HandlerOK(p, R, V, H)
        BY <1>5, CommitOK
    <2> QED
        BY <1>1, <1>4, <1>5, <2>1, Zenon
<1>6. CASE /\ m.iid \in DOMAIN s.accept_instances /\ m.ballot = inst.ballot
           /\ try_accept(p, [s EXCEPT !.accept_instances = Insert(@, m.iid, new)], {}, settled)
           /\ closed' = closed
    <2> DEFINE t == [s EXCEPT !.accept_instances = Insert(@, m.iid, new)]
    <2>1. ProposerOK(p, t, requests, R, V)
        BY <1>6, ReplaceAccept
    <2>2. t.next_prepare_iid = s.next_prepare_iid
        BY <1>6 DEF ProposerOK, StructOK, ProposerStruct
    <2> HIDE DEF t
    <2>3. Calm(p, t, R, {}, settled)
        BY <2>2 DEF Calm
    <2>4. HandlerOK(p, R, V, H)
        BY <1>6, <2>1, <2>3, TryAcceptOK DEF t
    <2> QED
        BY <1>1, <1>4, <1>6, <2>4, Zenon
<1>7. CASE /\ m.iid \in DOMAIN s.accept_instances
           /\ try_accept(p, finish(s, m.iid), {}, settled)
           /\ closed' = closed \cup {<<p, v>> : v \in X}
    <2>1. ProposerOK(p, finish(s, m.iid), requests, R, V \ X)
        BY <1>7, FinishOK
    <2>2. X \cap Value \subseteq V
        <3>1. ASSUME inst.value \in Value PROVE inst.value \in V
            <4>1. m.iid \in WithValue(s.accept_instances)
                BY <1>7, <3>1, MessagesAssumption DEF WithValue, instance_has_value
            <4>2. /\ <<"accept", m.iid>> \in Places(s)
                  /\ ValueAt(s, <<"accept", m.iid>>) = inst.value
                BY <4>1, PlaceCases
            <4>3. HoldsOnce(s, V)
                BY DEF ProposerOK
            <4> QED
                BY <4>2, <4>3 DEF HoldsOnce
        <3> QED
            BY <3>1
    <2> HIDE DEF X
    <2>3. Calm(p, finish(s, m.iid), R, {}, settled)
        <3>1. finish(s, m.iid).next_prepare_iid = s.next_prepare_iid
            BY DEF ProposerOK, StructOK, ProposerStruct, finish
        <3> QED
            BY <3>1 DEF Calm
    <2>4. HandlerOK(p, R, V \ X, H)
        BY <1>7, <2>1, <2>3, TryAcceptOK
    <2> QED
        BY <1>1, <1>7, <2>2, <2>4, Zenon
<1> QED
    BY <1>3, <1>5, <1>6, <1>7, Zenon

(* A preempted instance goes back from the accept phase to the prepare phase. *)
LEMMA BackToPrepare ==
    ASSUME NEW p, NEW s, NEW Q, NEW R, NEW V, ProposerOK(p, s, Q, R, V),
           Q \subseteq Request, NEW i \in DOMAIN s.accept_instances, NEW new \in Instance,
           new.value = s.accept_instances[i].value, OwnBallot(p, new.ballot),
           new.ballot > s.accept_instances[i].ballot, new.ballot > 0,
           new.quorum = {}, new.promised_value = None, new.value_ballot = 0,
           ~Unopposed(p, R)
    PROVE  ProposerOK(p, [s EXCEPT !.accept_instances = Delete(@, {i}),
                                   !.prepare_instances = Insert(@, i, new)], Q, R, V)
<1> DEFINE h == s.prepare_instances
           a == s.accept_instances
           t == [s EXCEPT !.accept_instances = Delete(@, {i}),
                          !.prepare_instances = Insert(@, i, new)]
<1>1. StructOK(p, s) /\ AcceptsOK(p, s, Q) /\ PromisesOK(p, s, R) /\ HoldsOnce(s, V)
    BY DEF ProposerOK
<1>2. /\ s \in ProposerStruct /\ h \in ProposerTable /\ a \in ProposerTable
      /\ i \in Iid /\ i \notin DOMAIN h /\ i <= s.next_prepare_iid
    BY <1>1, StructFacts, Zenon DEF StructOK, OpenedBy
<1>3. /\ DOMAIN Insert(h, i, new) = DOMAIN h \cup {i} /\ Insert(h, i, new)[i] = new
      /\ \A j \in DOMAIN h : j # i => Insert(h, i, new)[j] = h[j]
      /\ Insert(h, i, new) \in ProposerTable
    <2>1. h \in ProposerTable /\ i \in Iid
        BY <1>2
    <2> HIDE DEF h
    <2>2. Insert(h, i, new) \in ProposerTable
        BY <2>1, InsertFacts, Zenon
    <2>3. /\ DOMAIN Insert(h, i, new) = DOMAIN h \cup {i} /\ Insert(h, i, new)[i] = new
          /\ \A j \in DOMAIN h : j # i => Insert(h, i, new)[j] = h[j]
        BY DEF Insert
    <2> QED
        BY <2>2, <2>3
<1>4. Delete(a, {i}) \in ProposerTable
    BY <1>2, DeleteFacts, Zenon
<1>5. /\ t \in ProposerStruct /\ t.values = s.values
      /\ t.next_prepare_iid = s.next_prepare_iid
      /\ t.prepare_instances = Insert(h, i, new)
      /\ t.accept_instances = Delete(a, {i})
    BY <1>2, <1>3, <1>4, Zenon DEF ProposerStruct
<1> HIDE DEF t
<1>6. /\ DOMAIN t.prepare_instances = DOMAIN h \cup {i} /\ t.prepare_instances[i] = new
      /\ \A j \in DOMAIN h : t.prepare_instances[j] = h[j]
      /\ DOMAIN t.accept_instances = DOMAIN a \ {i}
      /\ \A j \in DOMAIN a \ {i} : t.accept_instances[j] = a[j]
    <2>1. /\ DOMAIN t.accept_instances = DOMAIN a \ {i}
          /\ \A j \in DOMAIN a \ {i} : t.accept_instances[j] = a[j]
        BY <1>5 DEF Delete, Restrict
    <2> QED
        BY <1>2, <1>3, <1>5, <2>1, Zenon
<1> HIDE DEF h, a
<1>7. StructOK(p, t)
    <2>1. OpenedBy(p, t.accept_instances, t.next_prepare_iid)
        BY <1>1, <1>5, <1>6, Zenon DEF StructOK, OpenedBy, a
    <2>2. OpenedBy(p, t.prepare_instances, t.next_prepare_iid)
        BY <1>1, <1>2, <1>5, <1>6 DEF StructOK, OpenedBy, h
    <2>3. DOMAIN t.prepare_instances \cap DOMAIN t.accept_instances = {}
        BY <1>1, <1>6 DEF StructOK, h, a
    <2> QED
        BY <1>5, <2>1, <2>2, <2>3, Zenon DEF StructOK
<1>8. HoldsOnce(t, V)
    <2> DEFINE From(y) == IF y = <<"prepare", i>> THEN <<"accept", i>> ELSE y
               g == [y \in Places(t) |-> From(y)]
    <2>1. /\ \A j : j \in WithValue(t.prepare_instances) <=>
                \/ j \in WithValue(h) /\ j # i
                \/ j = i /\ i \in WithValue(a)
          /\ \A j : j \in WithValue(t.accept_instances) <=> j \in WithValue(a) /\ j # i
          /\ i \notin WithValue(h)
        BY <1>2, <1>6 DEF WithValue, instance_has_value, a
    <2>2. /\ \A x : x \in Places(s) <=>
                 \/ \E k \in DOMAIN s.values : x = <<"queue", k>>
                 \/ \E j \in WithValue(h) : x = <<"prepare", j>>
                 \/ \E j \in WithValue(a) : x = <<"accept", j>>
          /\ \A x : x \in Places(t) <=>
                 \/ \E k \in DOMAIN s.values : x = <<"queue", k>>
                 \/ \E j \in WithValue(t.prepare_instances) : x = <<"prepare", j>>
                 \/ \E j \in WithValue(t.accept_instances) : x = <<"accept", j>>
        BY <1>5, Zenon DEF Places, h, a
    <2>3. /\ \A k : From(<<"queue", k>>) = <<"queue", k>>
          /\ \A k : ValueAt(s, <<"queue", k>>) = ValueAt(t, <<"queue", k>>)
          /\ \A j : j # i => From(<<"prepare", j>>) = <<"prepare", j>>
          /\ From(<<"prepare", i>>) = <<"accept", i>>
          /\ \A j : From(<<"accept", j>>) = <<"accept", j>>
          /\ \A j \in WithValue(h) :
                ValueAt(s, <<"prepare", j>>) = ValueAt(t, <<"prepare", j>>)
          /\ ValueAt(s, <<"accept", i>>) = ValueAt(t, <<"prepare", i>>)
          /\ \A j \in WithValue(a) \ {i} :
                ValueAt(s, <<"accept", j>>) = ValueAt(t, <<"accept", j>>)
        BY <1>5, <1>6, Zenon DEF ValueAt, WithValue, h, a
    <2> HIDE DEF From
    <2>4. ASSUME NEW y \in Places(t)
          PROVE  From(y) \in Places(s) /\ ValueAt(s, From(y)) = ValueAt(t, y)
        BY <2>1, <2>2, <2>3
    <2>5. ASSUME NEW x \in Places(s) PROVE \E y \in Places(t) : From(y) = x
        BY <2>1, <2>2, <2>3
    <2>6. ASSUME NEW x \in Places(t), NEW y \in Places(t), From(x) = From(y)
          PROVE  x = y
        <3>1. \A z \in Places(t) : z = <<"prepare", i>> \/ (From(z) = z /\ z # <<"accept", i>>)
            BY <2>1, <2>2, <2>3
        <3> QED
            BY <2>3, <2>6, <3>1
    <2>7. \A y \in Places(t) : g[y] = From(y)
        OBVIOUS
    <2> HIDE DEF g
    <2>8. /\ \A y \in Places(t) : g[y] \in Places(s) /\ ValueAt(s, g[y]) = ValueAt(t, y)
          /\ \A x, y \in Places(t) : g[x] = g[y] => x = y
          /\ \A x \in Places(s) : \E y \in Places(t) : g[y] = x
        BY <2>4, <2>5, <2>6, <2>7
    <2> QED
        BY <1>1, <2>8, Relocated
<1>9. ASSUME NEW m \in AcceptsOf(p, Q) PROVE AcceptOK(p, t, m)
    <2>1. AcceptOK(p, s, m)
        BY <1>1 DEF AcceptsOK
    <2>2. m.ballot \in Nat /\ new.ballot \in Nat /\ a[i].ballot \in Nat
        BY <1>1, StructFacts, MessagesAssumption DEF AcceptsOf, Request, Instance, Ballot, a
    <2>3. m.iid = i => m.ballot < new.ballot
        BY <2>1, <2>2 DEF AcceptOK, a
    <2>4. m.iid \in DOMAIN t.prepare_instances => m.ballot < t.prepare_instances[m.iid].ballot
        BY <1>6, <2>1, <2>3 DEF AcceptOK, h
    <2> QED
        BY <1>5, <1>6, <2>1, <2>4, Zenon DEF AcceptOK, a
<1>10. AcceptsOK(p, t, Q)
    BY <1>1, <1>9 DEF AcceptsOK
<1>11. PromisesOK(p, t, R)
    <2>1. Heard(new, {}) /\ {} \in SUBSET PromisesTo(p, i, new.ballot, R)
        BY DEF Heard
    <2> QED
        BY <1>1, <1>6, <2>1 DEF PromisesOK, h
<1>12. AcksOK(t, R)
    BY <1>6 DEF ProposerOK, AcksOK, a
<1> QED
    BY <1>7, <1>8, <1>10, <1>11, <1>12 DEF ProposerOK, t

(* evproposer_handle_preempted. *)
LEMMA PreemptedOK ==
    ASSUME NEW p \in Replica, NEW R, NEW V, NEW H, requests \subseteq Request,
           ProposerOK(p, proposer[p], requests, R, V), \A v \in V : <<p, v>> \in H,
           NEW m, m.iid \in Iid, m.ballot \in Ballot, \E k \in R : k.ballot = m.ballot,
           evproposer_handle_preempted(p, m)
    PROVE  /\ UNCHANGED <<submitted, closed>>
           /\ HandlerOK(p, R, V, H) \/ UNCHANGED <<proposer, requests>>
<1> DEFINE s == proposer[p]
           inst == s.accept_instances[m.iid]
           new == proposer_preempt(p, inst)
           t == [s EXCEPT !.accept_instances = Delete(@, {m.iid}),
                          !.prepare_instances = Insert(@, m.iid, new)]
<1>1. UNCHANGED <<submitted, closed>>
    BY DEF evproposer_handle_preempted
<1>2. CASE UNCHANGED <<proposer, requests>>
    BY <1>1, <1>2
<1>3. CASE /\ m.iid \in DOMAIN s.accept_instances /\ m.ballot > inst.ballot
           /\ try_accept(p, t, {prepare_request(p, m.iid, new)}, 0)
    <2>1. StructOK(p, s)
        BY DEF ProposerOK
    <2>2. inst \in Instance /\ OwnBallot(p, inst.ballot) /\ inst.ballot > 0
        BY <1>3, <2>1, AcceptedInstance
    <2>3. prepare_request(p, m.iid, new).ballot = proposer_next_ballot(p, inst.ballot)
        BY <2>2 DEF prepare_request, proposer_preempt, Instance
    <2>4. proposer_next_ballot(p, inst.ballot) <= MaxBallot
        BY <1>3, <2>3, SentBounded
    <2>5. /\ new \in Instance /\ new.value = inst.value
          /\ OwnBallot(p, new.ballot) /\ new.ballot > inst.ballot /\ new.ballot > 0
          /\ new.quorum = {} /\ new.promised_value = None /\ new.value_ballot = 0
          /\ PrepareOf(p, prepare_request(p, m.iid, new))
        BY <2>2, <2>4, PreemptFacts, Zenon
    <2> HIDE DEF new
    <2>6. ~Unopposed(p, R)
        <3>1. Unopposed(p, R) => inst.ballot = proposer_next_ballot(p, 0)
            BY <1>3 DEF ProposerOK, UnopposedOK
        <3>2. m.ballot \in Nat /\ proposer_next_ballot(p, 0) \in Nat
            BY NextBallotFacts, MessagesAssumption DEF Ballot
        <3> QED
            BY <1>3, <3>1, <3>2 DEF Unopposed
    <2>7. ProposerOK(p, t, requests, R, V)
        BY <1>3, <2>5, <2>6, BackToPrepare, Zenon
    <2> HIDE DEF t
    <2> QED
        BY <1>1, <1>3, <2>5, <2>6, <2>7, TryAcceptOK DEF Calm
<1> QED
    BY <1>2, <1>3, Zenon DEF evproposer_handle_preempted

(* evproposer_set_instance_id and evproposer_handle_acceptor_state. *)
LEMMA SetInstanceIdOK ==
    ASSUME NEW p, NEW R, NEW V, NEW H, requests \subseteq Request, NEW iid \in Iid \cup {0},
           ProposerOK(p, proposer[p], requests, R, V),
           Calm(p, proposer[p], R, {}, iid), evproposer_set_instance_id(p, iid)
    PROVE  HandlerOK(p, R, V, H) /\ UNCHANGED <<submitted, closed>>
<1>1. Commit(p, proposer[p], {}, iid)
    BY DEF evproposer_set_instance_id
<1> QED
    BY <1>1, CommitOK DEF evproposer_set_instance_id

(* evproposer_handle_acceptor_state: the trim that an acceptor reports is one of the
   proposer's own. *)
LEMMA AcceptorStateOK ==
    ASSUME NEW p, NEW R, NEW V, NEW H, requests \subseteq Request, NEW iid \in Iid,
           ProposerOK(p, proposer[p], requests, R, V),
           Calm(p, proposer[p], R, {}, iid), evproposer_handle_acceptor_state(p, iid)
    PROVE  HandlerOK(p, R, V, H) /\ UNCHANGED <<submitted, closed>>
<1> DEFINE s == proposer[p]
           t == [s EXCEPT !.max_trim_iid = iid]
<1>1. StructOK(p, s) /\ s \in ProposerStruct
    BY DEF ProposerOK, StructOK
<1>2. /\ t \in ProposerStruct /\ t.values = s.values
      /\ t.next_prepare_iid = s.next_prepare_iid
      /\ t.prepare_instances = s.prepare_instances
      /\ t.accept_instances = s.accept_instances
    BY <1>1 DEF ProposerStruct
<1>3. Commit(p, t, {}, iid)
    BY DEF evproposer_handle_acceptor_state
<1> HIDE DEF t
<1>4. StructOK(p, t)
    BY <1>1, <1>2, Zenon DEF StructOK
<1>5. Later(s, t)
    BY <1>1, <1>2, StructFacts DEF Later
<1>6. AcceptsOK(p, t, requests) /\ PromisesOK(p, t, R)
    BY <1>1, <1>4, <1>5, LaterAccepts, LaterPromises DEF ProposerOK
<1>7. HoldsOnce(t, V)
    BY <1>2, SameHeld DEF ProposerOK
<1>8. ProposerOK(p, t, requests, R, V)
    <2>1. AcksOK(t, R)
        BY <1>5, LaterAcks DEF ProposerOK
    <2>2. Unopposed(p, R) => UnopposedOK(p, t, requests, V)
        BY <1>2, Zenon DEF ProposerOK, UnopposedOK
    <2> QED
        BY <1>4, <1>6, <1>7, <2>1, <2>2 DEF ProposerOK
<1>9. Calm(p, t, R, {}, iid)
    BY <1>2 DEF Calm
<1> QED
    BY <1>3, <1>8, <1>9, CommitOK DEF evproposer_handle_acceptor_state

-------------------------------------------------------------------------------
(***************************************************************************)
(* The invariant of all the proposers.  A handler changes one of them, and *)
(* the requests it adds carry its identifier.                              *)
(***************************************************************************)

(* Proposers are replicas, and those given values are proposers. *)
LEMMA ProposersAreReplicas == Proposers \subseteq Replica /\ Active \subseteq Proposers
    BY MessagesAssumption DEF Proposers

(* A value that is pursued was submitted. *)
LEMMA PursuedFacts ==
    ASSUME NEW p, NEW given, NEW done
    PROVE  /\ Pursued(p, given, done) \subseteq Value
           /\ \A v \in Pursued(p, given, done) : <<p, v>> \in given
    BY DEF Pursued

(* proposer_new: nothing queued, nothing open. *)
LEMMA InitialProposer ==
    ASSUME NEW p, NEW R, NEW V, V = {}
    PROVE  ProposerOK(p, proposer_new, {}, R, V)
<1> DEFINE s == proposer_new
<1>1. /\ s.values = <<>> /\ s.max_trim_iid = 0 /\ s.next_prepare_iid = 0
      /\ s.prepare_instances = EmptyTable /\ s.accept_instances = EmptyTable
    BY DEF proposer_new
<1>2. DOMAIN EmptyTable = {} /\ EmptyTable = [i \in {} |-> EmptyTable[i]]
    BY DEF EmptyTable
<1>3. EmptyTable \in ProposerTable
    BY <1>2, ProposerTableFacts, Zenon
<1>4. s \in ProposerStruct
    BY <1>3 DEF proposer_new, ProposerStruct
<1>5. StructOK(p, s)
    BY <1>1, <1>2, <1>4 DEF StructOK, OpenedBy
<1>6. Places(s) = {}
    BY <1>1, <1>2 DEF Places, WithValue
<1>7. HoldsOnce(s, V)
    BY <1>6 DEF HoldsOnce
<1>8. AcceptsOK(p, s, {}) /\ PromisesOK(p, s, R) /\ AcksOK(s, R)
    BY <1>1, <1>2 DEF AcceptsOK, AcceptsOf, PromisesOK, AcksOK
<1>9. UnopposedOK(p, s, {}, V)
    BY <1>1, <1>2 DEF UnopposedOK, AcceptsOf
<1> QED
    BY <1>5, <1>7, <1>8, <1>9 DEF ProposerOK

(* A step of p alone: other proposers stay as they are, and send nothing. *)
Only(p) ==
    /\ \A a \in requests' : a \in requests \/ a.src = p
    /\ \A q \in Proposers : q # p => proposer'[q] = proposer[q]

(* The handler of one proposer, and what it leaves of the others. *)
LEMMA HandlerInv ==
    ASSUME NEW R, NEW Rn, R \subseteq Rn, NEW p \in Proposers,
           ProposersOK(proposer, requests, R, submitted, closed),
           HandlerOK(p, Rn, Pursued(p, submitted', closed'), submitted'),
           submitted \subseteq submitted',
           \A q \in Proposers : q # p =>
              Pursued(q, submitted', closed') = Pursued(q, submitted, closed),
           \A q \in Proposers, v \in Value : <<q, v>> \in closed' => <<q, v>> \in submitted'
    PROVE  /\ ProposersOK(proposer', requests', Rn, submitted', closed')
           /\ requests \subseteq requests' /\ Only(p)
<1>1. PICK t : /\ proposer' = [proposer EXCEPT ![p] = t]
               /\ ProposerOK(p, t, requests', Rn, Pursued(p, submitted', closed'))
    BY Zenon DEF HandlerOK
<1>2. /\ requests \subseteq requests'
      /\ \A a \in requests' : a \in requests \/ GoodRequest(p, a, Rn, submitted')
    BY DEF HandlerOK
<1>3. /\ proposer = [q \in Proposers |-> proposer[q]] /\ requests \subseteq Request
      /\ \A q \in Proposers :
            ProposerOK(q, proposer[q], requests, R, Pursued(q, submitted, closed))
      /\ \A m \in requests : m.type = "ACCEPT" =>
            m.src \in Proposers /\ Follows(m, R, submitted)
    BY DEF ProposersOK
<1>4. /\ proposer' = [q \in Proposers |-> proposer'[q]] /\ proposer'[p] = t
      /\ \A q \in Proposers : q # p => proposer'[q] = proposer[q]
    BY <1>1, <1>3
<1>5. requests' \subseteq Request
    BY <1>2, <1>3 DEF GoodRequest
<1>6. ASSUME NEW q \in Proposers
      PROVE  ProposerOK(q, proposer'[q], requests', Rn, Pursued(q, submitted', closed'))
    <2>1. CASE q = p
        BY <1>1, <1>4, <2>1
    <2>2. CASE q # p
        <3>1. NoNews(q, requests, requests')
            BY <1>2, <2>2 DEF NoNews, Copy, GoodRequest
        <3>2. ProposerOK(q, proposer[q], requests', Rn, Pursued(q, submitted, closed))
            BY <1>3, <3>1, OtherRequests, MoreAnswers, Zenon
        <3> QED
            BY <1>4, <2>2, <3>2
    <2> QED
        BY <2>1, <2>2
<1>7. ASSUME NEW m \in requests', m.type = "ACCEPT"
      PROVE  m.src \in Proposers /\ Follows(m, Rn, submitted')
    <2>1. CASE m \in requests
        BY <1>3, <1>7, <2>1, FollowsMore
    <2>2. CASE GoodRequest(p, m, Rn, submitted')
        BY <1>7, <2>2 DEF GoodRequest
    <2> QED
        BY <1>2, <2>1, <2>2
<1>8. Only(p)
    BY <1>2, <1>4 DEF Only, GoodRequest
<1> QED
    BY <1>2, <1>4, <1>5, <1>6, <1>7, <1>8, Zenon DEF ProposersOK

(* More answers, and requests that are no news to any proposer: a relay passes on a
   PREPARE in its own name, which is no proposer's, and an ACCEPT as it is. *)
PassedOn(Q, Qn) ==
    \A a \in Qn : \/ \E k \in Q : Copy(a, k)
                  \/ a.type # "ACCEPT" /\ (a.type = "PREPARE" => a.src \notin Proposers)

(* None of them disturbs a proposer. *)
LEMMA QuietStep ==
    ASSUME NEW proposers, NEW Q, NEW Qn, NEW R, NEW Rn, R \subseteq Rn, NEW given, NEW done,
           ProposersOK(proposers, Q, R, given, done), Qn \subseteq Request, PassedOn(Q, Qn)
    PROVE  ProposersOK(proposers, Qn, Rn, given, done)
<1>1. /\ proposers = [p \in Proposers |-> proposers[p]]
      /\ \A p \in Proposers : ProposerOK(p, proposers[p], Q, R, Pursued(p, given, done))
      /\ \A p \in Proposers, v \in Value : <<p, v>> \in done => <<p, v>> \in given
      /\ \A m \in Q : m.type = "ACCEPT" => m.src \in Proposers /\ Follows(m, R, given)
    BY DEF ProposersOK
<1>2. \A p \in Proposers : NoNews(p, Q, Qn)
    BY DEF NoNews, PassedOn
<1>3. \A p \in Proposers : ProposerOK(p, proposers[p], Qn, Rn, Pursued(p, given, done))
    BY <1>1, <1>2, OtherRequests, MoreAnswers, Zenon
<1>4. ASSUME NEW m \in Qn, m.type = "ACCEPT"
      PROVE  m.src \in Proposers /\ Follows(m, Rn, given)
    <2>1. PICK k \in Q : Copy(m, k)
        BY <1>4 DEF PassedOn
    <2>2. k.src \in Proposers /\ Follows(k, R, given)
        BY <1>1, <1>4, <2>1 DEF Copy
    <2>3. Follows(k, Rn, given)
        BY <2>2, FollowsMore
    <2>4. m.src = k.src /\ m.iid = k.iid /\ m.ballot = k.ballot /\ m.value = k.value
        BY <1>4, <2>1 DEF Copy
    <2> QED
        BY <2>2, <2>3, <2>4, Zenon DEF Follows
<1> QED
    BY <1>1, <1>3, <1>4, Zenon DEF ProposersOK

(* Answers that arrive while nothing is sent disturb none either. *)
LEMMA QuietAnswers ==
    ASSUME NEW proposers, NEW Q, NEW R, NEW Rn, R \subseteq Rn, NEW given, NEW done,
           ProposersOK(proposers, Q, R, given, done)
    PROVE  ProposersOK(proposers, Q, Rn, given, done)
<1>1. Q \subseteq Request
    BY DEF ProposersOK
<1>2. PassedOn(Q, Q)
    BY DEF Copy, PassedOn
<1> QED
    BY <1>1, <1>2, QuietStep, Zenon

(* A handler that neither receives a value nor sees one through. *)
LEMMA QuietHandler ==
    ASSUME NEW R, NEW Rn, R \subseteq Rn, NEW p \in Proposers,
           ProposersOK(proposer, requests, R, submitted, closed),
           UNCHANGED <<submitted, closed>>,
           HandlerOK(p, Rn, Pursued(p, submitted, closed), submitted)
    PROVE  /\ ProposersOK(proposer', requests', Rn, submitted', closed')
           /\ requests \subseteq requests' /\ Only(p)
<1>1. \A q \in Proposers, v \in Value : <<q, v>> \in closed' => <<q, v>> \in submitted'
    BY DEF ProposersOK
<1>2. submitted' = submitted /\ closed' = closed
    OBVIOUS
<1> QED
    BY <1>1, <1>2, HandlerInv

(* A promise without a value has no say: the ACCEPT requests of an unopposed
   proposer carry its own clients' values. *)
LEMMA UnopposedProposes ==
    ASSUME NEW p, NEW R, Unopposed(p, R), NEW H, NEW a \in Request, a.type = "ACCEPT",
           a.src = p, Follows(a, R, H)
    PROVE  <<p, a.value>> \in H
<1>1. a.value # None
    BY MessagesAssumption DEF Request
<1>2. PICK S \in SUBSET PromisesTo(p, a.iid, a.ballot, R) :
         \/ <<p, a.value>> \in H
         \/ \E m \in S : m.value = a.value
    BY Zenon DEF Follows
<1>3. \A m \in S : m.value = None
    BY DEF PromisesTo, Unopposed
<1> QED
    BY <1>1, <1>2, <1>3

(* A client's value: it was not submitted before, so it is held nowhere. *)
LEMMA SubmitStep ==
    ASSUME NEW R, NEW p \in Active, ProposersOK(proposer, requests, R, submitted, closed),
           NEW v \in Value, <<p, v>> \notin submitted, evproposer_handle_client_value(p, v)
    PROVE  /\ ProposersOK(proposer', requests', R, submitted', closed')
           /\ requests \subseteq requests' /\ submitted' = submitted \cup {<<p, v>>} /\ Only(p)
<1> DEFINE V == Pursued(p, submitted, closed)
<1>1. p \in Proposers /\ p \in Replica
    BY ProposersAreReplicas
<1>2. /\ try_accept(p, [proposer[p] EXCEPT !.values = Append(@, v)], {}, 0)
      /\ submitted' = submitted \cup {<<p, v>>} /\ closed' = closed
    BY Zenon DEF evproposer_handle_client_value
<1>3. /\ requests \subseteq Request /\ ProposerOK(p, proposer[p], requests, R, V)
      /\ \A q \in Proposers, u \in Value : <<q, u>> \in closed => <<q, u>> \in submitted
      /\ \A m \in requests : m.type = "ACCEPT" => Follows(m, R, submitted)
    BY <1>1 DEF ProposersOK
<1>4. /\ Pursued(p, submitted', closed') = V \cup {v} /\ v \notin V
      /\ \A q : q # p => Pursued(q, submitted', closed') = Pursued(q, submitted, closed)
    BY <1>1, <1>2, <1>3 DEF Pursued
<1>5. \A u \in V \cup {v} : <<p, u>> \in submitted'
    BY <1>2, PursuedFacts
<1>6. Unopposed(p, R) => \A m \in AcceptsOf(p, requests) : m.value # v
    BY <1>3, UnopposedProposes DEF AcceptsOf
<1> HIDE DEF V
<1>7. HandlerOK(p, R, V \cup {v}, submitted')
    BY <1>1, <1>2, <1>3, <1>4, <1>5, <1>6, ClientValueOK, Zenon
<1>8. /\ \A q \in Proposers, u \in Value : <<q, u>> \in closed' => <<q, u>> \in submitted'
      /\ submitted \subseteq submitted'
    BY <1>2, <1>3
<1>9. HandlerOK(p, R, Pursued(p, submitted', closed'), submitted')
    BY <1>4, <1>7
<1> QED
    BY <1>1, <1>2, <1>4, <1>8, <1>9, HandlerInv, Zenon

(* A promise reaches a proposer. *)
LEMMA PromiseStep ==
    ASSUME NEW R, NEW Rn, R \subseteq Rn, NEW p \in Proposers,
           ProposersOK(proposer, requests, R, submitted, closed),
           NEW m, PromiseMessage(p, m, Rn), evproposer_handle_promise(p, m)
    PROVE  /\ ProposersOK(proposer', requests', Rn, submitted', closed')
           /\ requests \subseteq requests' /\ submitted' = submitted /\ Only(p)
<1> DEFINE V == Pursued(p, submitted, closed)
<1>1. /\ requests \subseteq Request /\ p \in Replica
      /\ ProposerOK(p, proposer[p], requests, R, V) /\ \A v \in V : <<p, v>> \in submitted
    BY ProposersAreReplicas, PursuedFacts DEF ProposersOK
<1> HIDE DEF V
<1>2. HandlerOK(p, Rn, V, submitted) /\ UNCHANGED <<submitted, closed>>
    BY <1>1, PromiseOK, Zenon
<1> QED
    BY <1>2, QuietHandler, Zenon DEF V

(* A proposer hears that its ACCEPT request was answered, and of the instances up
   to settled. *)
LEMMA AcceptedStep ==
    ASSUME NEW R, NEW Rn, R \subseteq Rn, NEW p \in Proposers,
           ProposersOK(proposer, requests, R, submitted, closed),
           NEW m, m.aid \in Replica, Accepts(m.aid, m.iid, m.ballot, R),
           NEW settled \in Iid \cup {0}, Calm(p, proposer[p], R, {}, settled),
           evproposer_handle_accepted(p, m, settled)
    PROVE  /\ ProposersOK(proposer', requests', Rn, submitted', closed')
           /\ requests \subseteq requests' /\ submitted' = submitted /\ Only(p)
<1> DEFINE V == Pursued(p, submitted, closed)
<1>1. /\ requests \subseteq Request /\ p \in Replica
      /\ ProposerOK(p, proposer[p], requests, R, V)
      /\ \A q \in Proposers, u \in Value : <<q, u>> \in closed => <<q, u>> \in submitted
    BY ProposersAreReplicas DEF ProposersOK
<1>2. V \subseteq Value /\ \A v \in V : <<p, v>> \in submitted
    BY PursuedFacts
<1> HIDE DEF V
<1>3. submitted' = submitted
    BY <1>1, <1>2, AcceptedOK, Zenon
<1>4. PICK X : /\ HandlerOK(p, R, V \ X, submitted) /\ X \cap Value \subseteq V
               /\ closed' = closed \cup {<<p, v>> : v \in X}
    BY <1>1, <1>2, AcceptedOK, Zenon
<1>5. /\ \A q : q # p => Pursued(q, submitted', closed') = Pursued(q, submitted, closed)
      /\ Pursued(p, submitted', closed') = V \ X
    BY <1>3, <1>4 DEF Pursued, V
<1>6. \A q \in Proposers, v \in Value : <<q, v>> \in closed' => <<q, v>> \in submitted'
    BY <1>1, <1>2, <1>3, <1>4
<1>7. HandlerOK(p, R, Pursued(p, submitted', closed'), submitted')
    BY <1>3, <1>4, <1>5, Zenon
<1>8. /\ ProposersOK(proposer', requests', R, submitted', closed')
      /\ requests \subseteq requests' /\ Only(p)
    BY <1>3, <1>5, <1>6, <1>7, HandlerInv, Zenon
<1> QED
    BY <1>3, <1>8, QuietAnswers, Zenon

(* A proposer hears that it was preempted. *)
LEMMA PreemptedStep ==
    ASSUME NEW R, NEW Rn, R \subseteq Rn, NEW p \in Proposers,
           ProposersOK(proposer, requests, R, submitted, closed),
           NEW m, m.iid \in Iid, m.ballot \in Ballot, \E k \in R : k.ballot = m.ballot,
           evproposer_handle_preempted(p, m)
    PROVE  /\ ProposersOK(proposer', requests', Rn, submitted', closed')
           /\ requests \subseteq requests' /\ submitted' = submitted /\ Only(p)
<1>1. /\ requests \subseteq Request /\ p \in Replica
      /\ ProposerOK(p, proposer[p], requests, R, Pursued(p, submitted, closed))
    BY ProposersAreReplicas DEF ProposersOK
<1>2. /\ UNCHANGED <<submitted, closed>>
      /\ \/ HandlerOK(p, R, Pursued(p, submitted, closed), submitted)
         \/ UNCHANGED <<proposer, requests>>
    BY <1>1, PursuedFacts, PreemptedOK, Zenon
<1>3. /\ ProposersOK(proposer', requests', R, submitted', closed')
      /\ requests \subseteq requests' /\ Only(p)
    <2>1. CASE HandlerOK(p, R, Pursued(p, submitted, closed), submitted)
        BY <1>2, <2>1, QuietHandler
    <2>2. CASE UNCHANGED <<proposer, requests>>
        BY <1>2, <2>2 DEF Only
    <2> QED
        BY <1>2, <2>1, <2>2
<1> QED
    BY <1>2, <1>3, QuietAnswers, Zenon

-------------------------------------------------------------------------------
(***************************************************************************)
(* A proposer that no client has given a value: it opens no instance, so   *)
(* that nothing it hears of makes it send a request.                       *)
(***************************************************************************)
Idle(s) ==
    /\ s.values = <<>>
    /\ DOMAIN s.prepare_instances = {} /\ DOMAIN s.accept_instances = {}

(* Nothing is sent, and nothing comes of it. *)
StaysIdle(p) ==
    /\ requests' = requests
    /\ \E t : Idle(t) /\ proposer' = [proposer EXCEPT ![p] = t]

(* A trim finds nothing to return to the queue. *)
LEMMA IdleCommit ==
    ASSUME NEW p, NEW s \in ProposerStruct, Idle(s), NEW settled, Commit(p, s, {}, settled)
    PROVE  StaysIdle(p)
<1>1. requests' = requests
    BY DEF Commit
<1>2. PICK t \in proposer_set_instance_id(s, settled) :
         proposer' = [proposer EXCEPT ![p] = t]
    BY Zenon DEF Commit
<1>3. CASE t = s
    BY <1>1, <1>2, <1>3, Zenon DEF StaysIdle
<1>4. CASE t # s
    <2>1. PICK v1 \in ReturnedValues(s.prepare_instances, settled),
               v2 \in ReturnedValues(s.accept_instances, settled) :
             t = SettledUpTo(s, settled, v1, v2)
        BY <1>2, <1>4 DEF proposer_set_instance_id
    <2>2. \A h, v : DOMAIN h = {} /\ v \in ReturnedValues(h, settled) => v = <<>>
        <3> SUFFICES ASSUME NEW h, NEW v, DOMAIN h = {}, v \in ReturnedValues(h, settled)
                     PROVE  v = <<>>
            OBVIOUS
        <3> DEFINE S == {i \in TrimmedIn(h, settled) : instance_has_value(h[i])}
        <3>1. S = {}
            BY DEF TrimmedIn
        <3>2. PICK order \in Orders(S) : v = [k \in DOMAIN order |-> h[order[k]].value]
            BY DEF ReturnedValues
        <3> HIDE DEF S
        <3>3. Cardinality(S) = 0
            BY <3>1, FS_EmptySet
        <3>4. DOMAIN order = {}
            BY <3>2, <3>3 DEF Orders, Injection
        <3> QED
            BY <3>2, <3>4
    <2>3. v1 = <<>> /\ v2 = <<>>
        BY <2>1, <2>2, Zenon DEF Idle
    <2>4. /\ t.values = <<>> \o <<>> \o <<>>
          /\ \E I, J : /\ t.prepare_instances = Delete(s.prepare_instances, I)
                       /\ t.accept_instances = Delete(s.accept_instances, J)
        BY <2>1, <2>3, Zenon DEF SettledUpTo, Idle, ProposerStruct
    <2>5. <<>> \o <<>> \o <<>> = <<>>
        OBVIOUS
    <2>6. \A h, I : DOMAIN h = {} => DOMAIN Delete(h, I) = {}
        BY DEF Delete, Restrict
    <2>7. Idle(t)
        BY <2>4, <2>5, <2>6, Zenon DEF Idle
    <2> QED
        BY <1>1, <1>2, <2>7, Zenon DEF StaysIdle
<1> QED
    BY <1>3, <1>4

(* try_accept finds nothing to move and nothing to prepare for. *)
LEMMA IdleTry ==
    ASSUME NEW p \in Replica, NEW s, StructOK(p, s), Idle(s), NEW settled,
           try_accept(p, s, {}, settled)
    PROVE  StaysIdle(p)
<1>1. AcceptedNow(s) = {}
    BY DEF AcceptedNow, Idle
<1> DEFINE s1 == MoveToAccept(s, {})
           s2 == Prepare(p, s1, {})
<1>2. s1.values = <<>>
    BY DEF MoveToAccept, PopValues, Idle, StructOK, ProposerStruct
<1>3. /\ StructOK(p, s1)
      /\ DOMAIN s1.prepare_instances = {} /\ DOMAIN s1.accept_instances = {}
    BY MoveStruct, MoveFields DEF Idle
<1> HIDE DEF s1
<1>4. PreparedNow(s1) = {}
    BY <1>2 DEF PreparedNow
<1>5. Commit(p, s2, {}, settled)
    BY <1>1, <1>4 DEF try_accept, s1
<1>6. PICK P, t : P = PreparedNow(s1) /\ P = {} /\ t = Prepare(p, s1, P) /\ t = s2
    BY <1>4
<1> HIDE DEF s2
<1>7. StructOK(p, s2) /\ Idle(s2)
    <2>1. /\ \A i \in P : i \in Iid
          /\ P # {} => proposer_next_ballot(p, 0) <= MaxBallot
          /\ P = PreparedNow(s1) /\ t = Prepare(p, s1, P) /\ StructOK(p, s1)
        BY <1>3, <1>6
    <2>2. /\ StructOK(p, t) /\ t.values = s1.values
          /\ t.accept_instances = s1.accept_instances
          /\ DOMAIN t.prepare_instances = DOMAIN s1.prepare_instances \cup P
        BY <2>1, PrepareStep
    <2> QED
        BY <1>2, <1>3, <1>6, <2>2 DEF Idle
<1> QED
    BY <1>5, <1>7, IdleCommit DEF StructOK

(* Whatever an idle proposer is told. *)
LEMMA IdleHandlers ==
    ASSUME NEW p \in Replica, StructOK(p, proposer[p]), Idle(proposer[p]), NEW m, NEW settled,
           \/ evproposer_handle_promise(p, m)
           \/ evproposer_handle_accepted(p, m, settled)
           \/ evproposer_handle_preempted(p, m)
    PROVE  StaysIdle(p) \/ UNCHANGED <<proposer, requests>>
<1>1. /\ m.iid \notin DOMAIN proposer[p].prepare_instances
      /\ m.iid \notin DOMAIN proposer[p].accept_instances
    BY DEF Idle
<1>2. CASE evproposer_handle_promise(p, m)
    <2>1. try_accept(p, proposer[p], {}, 0)
        BY <1>1, <1>2 DEF evproposer_handle_promise
    <2> QED
        BY <2>1, IdleTry
<1>3. CASE evproposer_handle_accepted(p, m, settled)
    <2>1. Commit(p, proposer[p], {}, settled)
        BY <1>1, <1>3, Zenon DEF evproposer_handle_accepted
    <2> QED
        BY <2>1, IdleCommit DEF StructOK
<1>4. CASE evproposer_handle_preempted(p, m)
    BY <1>1, <1>4 DEF evproposer_handle_preempted
<1> QED
    BY <1>2, <1>3, <1>4

-------------------------------------------------------------------------------
(***************************************************************************)
(* The proposers among acceptors that answer as they may.                  *)
(***************************************************************************)

(* Any answer that is no promise may come from that environment. *)
LEMMA AnsweredFacts ==
    ASSUME NEW R
    PROVE  /\ R \subseteq Answered(R)
           /\ \A p, i, b : PromisesTo(p, i, b, Answered(R)) = PromisesTo(p, i, b, R)
           /\ \A aid \in Replica, iid \in Iid, b \in Nat : Accepts(aid, iid, b, Answered(R))
           /\ \A p \in Replica : Iid # {} => ~Unopposed(p, Answered(R))
<1>1. \A p, i, b : PromisesTo(p, i, b, Answered(R)) = PromisesTo(p, i, b, R)
    BY DEF PromisesTo, Answered
<1>2. ASSUME NEW aid \in Replica, NEW iid \in Iid, NEW b \in Nat
      PROVE  Accepts(aid, iid, b, Answered(R))
    <2> DEFINE m == [type |-> "ACCEPTED", aid |-> aid, iid |-> iid, ballot |-> b]
    <2>1. m \in Answered(R)
        BY DEF Answered
    <2> QED
        BY <2>1 DEF Accepts
<1>3. ASSUME NEW p \in Replica, NEW iid \in Iid PROVE ~Unopposed(p, Answered(R))
    <2> DEFINE b == proposer_next_ballot(p, 0)
    <2>1. b \in Nat
        BY NextBallotFacts
    <2> HIDE DEF b
    <2>2. PICK m \in Answered(R) : m.ballot = b + 1
        BY <1>2, <2>1 DEF Accepts
    <2> QED
        BY <2>1, <2>2 DEF Unopposed, b
<1> QED
    BY <1>1, <1>2, <1>3, Zenon DEF Answered

(* Other answers are no promises: what follows the promises follows them without
   those answers. *)
LEMMA AnsweredFollows ==
    ASSUME NEW a, NEW R, NEW H, Follows(a, Answered(R), H)
    PROVE  Follows(a, R, H)
    BY AnsweredFacts, Zenon DEF Follows

(* A client submits a value. *)
LEMMA ClientSubmitsOK ==
    ASSUME ProposerInv, NEW p \in Active, ClientSubmits(p)
    PROVE  ProposerInv'
<1>1. PICK v \in Submitting[p] : /\ <<p, v>> \notin submitted
                                 /\ evproposer_handle_client_value(p, v)
                                 /\ UNCHANGED replies
    BY DEF ClientSubmits
<1>2. v \in Value
    BY <1>1, ProposerAssumption
<1> QED
    BY <1>1, <1>2, SubmitStep DEF ProposerInv

(* A promise for one of p's own ballots. *)
LEMMA AcceptorPromisesOK ==
    ASSUME ProposerInv, NEW p \in Active, AcceptorPromises(p)
    PROVE  ProposerInv'
<1>1. p \in Proposers /\ p \in Replica
    BY ProposersAreReplicas
<1>2. PICK aid \in Replica, iid \in Iid, b \in Ballot, vb \in Ballot,
           v \in Value \cup {None} :
              LET m == [type |-> "PROMISE", to |-> p, aid |-> aid, iid |-> iid,
                        ballot |-> b, value_ballot |-> vb, value |-> v]
              IN  /\ Credible(p, m)
                  /\ evproposer_handle_promise(p, m)
                  /\ replies' = replies \cup {m}
    BY Zenon DEF AcceptorPromises
<1> DEFINE m == [type |-> "PROMISE", to |-> p, aid |-> aid, iid |-> iid,
                 ballot |-> b, value_ballot |-> vb, value |-> v]
<1>3. /\ Credible(p, m) /\ evproposer_handle_promise(p, m)
      /\ replies' = replies \cup {m}
    BY <1>2
<1>4. m \in Reply
    BY <1>1 DEF Reply
<1>5. PromiseMessage(p, m, Answered(replies'))
    <2>1. m.value # None => m.value_ballot > 0
        <3>1. m.value = None <=> m.value_ballot = 0
            BY <1>3, Zenon DEF Credible
        <3>2. m.value_ballot \in Ballot
            OBVIOUS
        <3> QED
            BY <3>1, <3>2, MessagesAssumption DEF Ballot
    <2>2. m \in PromisesTo(p, m.iid, m.ballot, Answered(replies'))
        BY <1>3 DEF PromisesTo, Answered
    <2>3. \E k \in Answered(replies') : k.ballot = m.ballot
        BY <2>2 DEF PromisesTo
    <2> QED
        BY <1>4, <2>1, <2>2, <2>3, Zenon DEF PromiseMessage
<1> HIDE DEF m
<1>6. Answered(replies) \subseteq Answered(replies')
    BY <1>3 DEF Answered
<1>7. replies' \subseteq Reply /\ ValuesHaveBallots(replies')
    BY <1>3, <1>4, Zenon DEF ProposerInv, ValuesHaveBallots, Credible
<1> QED
    BY <1>1, <1>3, <1>5, <1>6, <1>7, PromiseStep, Zenon DEF ProposerInv

(* A promise that tells of a ballot of another proposer. *)
LEMMA AcceptorPromisedAnotherOK ==
    ASSUME ProposerInv, NEW p \in Active, AcceptorPromisedAnother(p)
    PROVE  ProposerInv'
<1>1. p \in Proposers /\ p \in Replica
    BY ProposersAreReplicas
<1>2. PICK iid \in Iid, b \in Ballot \ {0} :
         /\ ~OwnBallot(p, b)
         /\ evproposer_handle_promise(p,
               [type |-> "PROMISE", to |-> p, aid |-> p, iid |-> iid,
                ballot |-> b, value_ballot |-> b, value |-> None])
         /\ UNCHANGED replies
    BY DEF AcceptorPromisedAnother
<1> DEFINE m == [type |-> "PROMISE", to |-> p, aid |-> p, iid |-> iid,
                 ballot |-> b, value_ballot |-> b, value |-> None]
<1>3. PromiseMessage(p, m, Answered(replies)) /\ evproposer_handle_promise(p, m)
    <2>1. b \in Nat
        BY MessagesAssumption DEF Ballot
    <2>2. \E k \in Answered(replies) : k.ballot = m.ballot
        BY <1>1, <2>1, AnsweredFacts DEF Accepts
    <2> QED
        BY <1>1, <1>2, <2>2 DEF PromiseMessage
<1> HIDE DEF m
<1> QED
    BY <1>1, <1>2, <1>3, PromiseStep DEF ProposerInv

(* An acceptor accepts. *)
LEMMA AcceptorAcceptsOK ==
    ASSUME ProposerInv, NEW p \in Active, AcceptorAccepts(p)
    PROVE  ProposerInv'
<1>1. p \in Proposers
    BY ProposersAreReplicas
<1>2. PICK aid \in Replica, iid \in Iid, b \in Ballot :
         /\ evproposer_handle_accepted(p, [aid |-> aid, iid |-> iid, ballot |-> b], 0)
         /\ UNCHANGED replies
    BY DEF AcceptorAccepts
<1> DEFINE m == [aid |-> aid, iid |-> iid, ballot |-> b]
<1>3. /\ m.aid \in Replica /\ evproposer_handle_accepted(p, m, 0)
      /\ Accepts(m.aid, m.iid, m.ballot, Answered(replies))
    <2>1. b \in Nat
        BY MessagesAssumption DEF Ballot
    <2> QED
        BY <1>2, <2>1, AnsweredFacts
<1> HIDE DEF m
<1>4. Calm(p, proposer[p], Answered(replies), {}, 0) /\ 0 \in Iid \cup {0}
    BY DEF Calm
<1> QED
    BY <1>1, <1>2, <1>3, <1>4, AcceptedStep, Zenon DEF ProposerInv

(* An acceptor that has promised more. *)
LEMMA AcceptorPreemptsOK ==
    ASSUME ProposerInv, NEW p \in Active, AcceptorPreempts(p)
    PROVE  ProposerInv'
<1>1. p \in Proposers /\ p \in Replica
    BY ProposersAreReplicas
<1>2. PICK iid \in Iid, b \in Ballot :
         evproposer_handle_preempted(p, [iid |-> iid, ballot |-> b]) /\ UNCHANGED replies
    BY DEF AcceptorPreempts
<1> DEFINE m == [iid |-> iid, ballot |-> b]
<1>3. /\ m.iid \in Iid /\ m.ballot \in Ballot /\ evproposer_handle_preempted(p, m)
      /\ \E k \in Answered(replies) : k.ballot = m.ballot
    <2>1. b \in Nat
        BY MessagesAssumption DEF Ballot
    <2>2. \E k \in Answered(replies) : k.ballot = m.ballot
        BY <1>1, <2>1, AnsweredFacts DEF Accepts
    <2> QED
        BY <1>2, <2>2
<1> HIDE DEF m
<1> QED
    BY <1>1, <1>2, <1>3, PreemptedStep DEF ProposerInv

(* The learner's and the acceptors' news of settled instances. *)
LEMMA TrimmingOK ==
    ASSUME ProposerInv, NEW p \in Active, InstanceSettled(p) \/ AcceptorTrimmed(p)
    PROVE  ProposerInv'
<1>1. p \in Proposers /\ p \in Replica
    BY ProposersAreReplicas
<1>2. PICK iid \in Iid : /\ \/ evproposer_set_instance_id(p, iid)
                            \/ evproposer_handle_acceptor_state(p, iid)
                         /\ UNCHANGED replies
    BY DEF InstanceSettled, AcceptorTrimmed
<1>3. /\ requests \subseteq Request
      /\ ProposerOK(p, proposer[p], requests, Answered(replies),
                    Pursued(p, submitted, closed))
    BY <1>1 DEF ProposerInv, ProposersOK
<1>4. Calm(p, proposer[p], Answered(replies), {}, iid)
    BY <1>1, AnsweredFacts DEF Calm
<1>5. /\ HandlerOK(p, Answered(replies), Pursued(p, submitted, closed), submitted)
      /\ UNCHANGED <<submitted, closed>>
    BY <1>2, <1>3, <1>4, SetInstanceIdOK, AcceptorStateOK
<1> QED
    BY <1>1, <1>2, <1>5, QuietHandler DEF ProposerInv

(* proposer_new, for all of them. *)
LEMMA InitialProposers ==
    ASSUME NEW R
    PROVE  ProposersOK([p \in Proposers |-> proposer_new], {}, R, {}, {})
<1>1. \A p : Pursued(p, {}, {}) = {}
    BY DEF Pursued
<1>2. \A p \in Proposers : ProposerOK(p, proposer_new, {}, R, Pursued(p, {}, {}))
    BY <1>1, InitialProposer
<1> HIDE DEF proposer_new
<1> QED
    BY <1>2 DEF ProposersOK

(* The invariant holds in every state of the proposers. *)
THEOREM ProposerInvariant == ProposerSpec => []ProposerInv
<1>1. ProposerInit => ProposerInv
    BY InitialProposers DEF ProposerInit, ProposerInv, ValuesHaveBallots
<1>2. ProposerInv /\ [ProposerNext]_<<proposerVars, requests, replies>> => ProposerInv'
    <2> SUFFICES ASSUME ProposerInv, [ProposerNext]_<<proposerVars, requests, replies>>
                 PROVE  ProposerInv'
        OBVIOUS
    <2>1. ASSUME NEW p \in Active, ClientSubmits(p) PROVE ProposerInv'
        BY <2>1, ClientSubmitsOK
    <2>2. ASSUME NEW p \in Active, AcceptorPromises(p) PROVE ProposerInv'
        BY <2>2, AcceptorPromisesOK
    <2>3. ASSUME NEW p \in Active, AcceptorPromisedAnother(p) PROVE ProposerInv'
        BY <2>3, AcceptorPromisedAnotherOK
    <2>4. ASSUME NEW p \in Active, AcceptorAccepts(p) PROVE ProposerInv'
        BY <2>4, AcceptorAcceptsOK
    <2>5. ASSUME NEW p \in Active, AcceptorPreempts(p) PROVE ProposerInv'
        BY <2>5, AcceptorPreemptsOK
    <2>6. ASSUME NEW p \in Active, InstanceSettled(p) \/ AcceptorTrimmed(p)
          PROVE  ProposerInv'
        BY <2>6, TrimmingOK
    <2>7. CASE UNCHANGED <<proposerVars, requests, replies>>
        BY <2>7 DEF ProposerInv, proposerVars
    <2> QED
        BY <2>1, <2>2, <2>3, <2>4, <2>5, <2>6, <2>7 DEF ProposerNext
<1> QED
    BY <1>1, <1>2, PTL DEF ProposerSpec

-------------------------------------------------------------------------------
(* The types of struct proposer. *)
LEMMA ProposersTyped ==
    ASSUME NEW R, ProposersOK(proposer, requests, R, submitted, closed), replies \subseteq Reply
    PROVE  ProposerTypeOK
<1>1. DOMAIN proposer = Proposers /\ requests \subseteq Request /\ replies \subseteq Reply
    BY DEF ProposersOK
<1>2. ASSUME NEW p \in Proposers
      PROVE  LET s == proposer[p]
             IN  /\ \A k \in DOMAIN s.values : s.values[k] \in Value
                 /\ s.next_prepare_iid \in Iid \cup {0}
                 /\ s.max_trim_iid \in Iid \cup {0}
                 /\ \A i \in DOMAIN s.prepare_instances :
                       i \in Iid /\ s.prepare_instances[i] \in Instance
                 /\ \A i \in DOMAIN s.accept_instances :
                       i \in Iid /\ s.accept_instances[i] \in Instance
    <2> DEFINE s == proposer[p]
    <2>1. StructOK(p, s)
        BY DEF ProposersOK, ProposerOK
    <2> HIDE DEF s
    <2>2. /\ s.values \in Seq(Value) /\ s.next_prepare_iid \in Iid \cup {0}
          /\ s.max_trim_iid \in Iid \cup {0}
        BY <2>1 DEF StructOK, ProposerStruct
    <2>3. \A k \in DOMAIN s.values : s.values[k] \in Value
        BY <2>2
    <2>4. /\ \A i \in DOMAIN s.prepare_instances :
                i \in Iid /\ s.prepare_instances[i] \in Instance
          /\ \A i \in DOMAIN s.accept_instances :
                i \in Iid /\ s.accept_instances[i] \in Instance
        BY <2>1, StructFacts
    <2> QED
        BY <2>2, <2>3, <2>4 DEF s
<1> QED
    BY <1>1, <1>2 DEF ProposerTypeOK

(* One value per ballot: the ballots of two proposers differ modulo
   MAX_N_OF_PROPOSERS, and a proposer proposes one value at each of its own. *)
LEMMA OneValue ==
    ASSUME NEW proposers, NEW Q, NEW R, NEW given, NEW done,
           ProposersOK(proposers, Q, R, given, done),
           NEW a \in Q, NEW b \in Q, a.type = "ACCEPT", b.type = "ACCEPT",
           a.iid = b.iid, a.ballot = b.ballot
    PROVE  OwnBallot(a.src, a.ballot) /\ a.value = b.value
<1>1. a.src \in Proposers /\ b.src \in Proposers
    BY DEF ProposersOK
<1>2. /\ AcceptsOK(a.src, proposers[a.src], Q)
      /\ AcceptsOK(b.src, proposers[b.src], Q)
    BY <1>1 DEF ProposersOK, ProposerOK
<1>3. OwnBallot(a.src, a.ballot) /\ OwnBallot(b.src, b.ballot)
    BY <1>2, Zenon DEF AcceptsOK, AcceptsOf, AcceptOK
<1>4. a.src = b.src
    BY <1>3 DEF OwnBallot
<1> QED
    BY <1>2, <1>3, <1>4 DEF AcceptsOK, AcceptsOf

(* ProposerTypeOK for every instance of the constants: the queue, the tables and
   the counters of struct proposer, and every request sent, keep their types. *)
THEOREM ProposerTypeInvariant == ProposerSpec => []ProposerTypeOK
<1>1. ProposerInv => ProposerTypeOK
    BY ProposersTyped DEF ProposerInv
<1> QED
    BY <1>1, ProposerInvariant, PTL

(* PhasesDisjoint: the assertions of proposer_prepare and proposer_move_instance
   never fail. *)
THEOREM PhasesStayDisjoint == ProposerSpec => []PhasesDisjoint
<1>1. ProposerInv => PhasesDisjoint
    BY DEF ProposerInv, ProposersOK, ProposerOK, StructOK, OpenedBy, PhasesDisjoint
<1> QED
    BY <1>1, ProposerInvariant, PTL

(* ValueInOnePlace: no client value is lost and none is held twice. *)
THEOREM ValueHeldOnce == ProposerSpec => []ValueInOnePlace
<1>1. ProposerInv => ValueInOnePlace
    <2> SUFFICES ASSUME ProposerInv, NEW p \in Proposers, NEW v \in Value
                 PROVE  Cardinality(Holding(p, v)) =
                           IF <<p, v>> \in submitted \ closed THEN 1 ELSE 0
        BY Zenon DEF ValueInOnePlace
    <2> DEFINE s == proposer[p]
    <2>1. HoldsOnce(s, Pursued(p, submitted, closed))
        BY DEF ProposerInv, ProposersOK, ProposerOK
    <2>2. \A x : x \in Holding(p, v) <=> x \in Places(s) /\ ValueAt(s, x) = v
        <3>1. /\ \A i : i \in WithValue(s.prepare_instances) /\ s.prepare_instances[i].value = v
                 <=> i \in DOMAIN s.prepare_instances /\ s.prepare_instances[i].value = v
              /\ \A i : i \in WithValue(s.accept_instances) /\ s.accept_instances[i].value = v
                 <=> i \in DOMAIN s.accept_instances /\ s.accept_instances[i].value = v
            BY MessagesAssumption DEF WithValue, instance_has_value
        <3>2. \A x : x \in Holding(p, v) <=>
                 \/ \E k \in DOMAIN s.values : s.values[k] = v /\ x = <<"queue", k>>
                 \/ \E i \in DOMAIN s.prepare_instances :
                       s.prepare_instances[i].value = v /\ x = <<"prepare", i>>
                 \/ \E i \in DOMAIN s.accept_instances :
                       s.accept_instances[i].value = v /\ x = <<"accept", i>>
            BY DEF Holding
        <3> HIDE DEF s
        <3> QED
            BY <3>1, <3>2, PlaceCases
    <2> HIDE DEF s
    <2>3. CASE v \in Pursued(p, submitted, closed)
        <3>1. PICK x \in Places(s) : ValueAt(s, x) = v
            BY <2>1, <2>3 DEF HoldsOnce
        <3>2. Holding(p, v) = {x}
            BY <2>1, <2>2, <3>1 DEF HoldsOnce
        <3> QED
            BY <2>3, <3>2, FS_Singleton DEF Pursued
    <2>4. CASE v \notin Pursued(p, submitted, closed)
        <3>1. Holding(p, v) = {}
            BY <2>1, <2>2, <2>4 DEF HoldsOnce
        <3> QED
            BY <2>4, <3>1, FS_EmptySet DEF Pursued
    <2> QED
        BY <2>3, <2>4
<1> QED
    BY <1>1, ProposerInvariant, PTL

(* AcceptFollowsPromises: phase 2 of Paxos is only ever entered with a quorum of
   promises, and with the value they call for. *)
THEOREM PhaseTwoFollows == ProposerSpec => []AcceptFollowsPromises
<1>1. ProposerInv => AcceptFollowsPromises
    <2> SUFFICES ASSUME ProposerInv, NEW a \in requests, a.type = "ACCEPT"
                 PROVE  \E S \in SUBSET PromisesTo(a.src, a.iid, a.ballot, replies) :
                           /\ quorum_reached({m.aid : m \in S})
                           /\ \/ /\ \A m \in S : m.value = None
                                 /\ <<a.src, a.value>> \in submitted
                              \/ \E m \in S : /\ m.value = a.value
                                              /\ \A k \in S : k.value_ballot <= m.value_ballot
        BY Zenon DEF PromisesTo, AcceptFollowsPromises
    <2>1. PICK S \in SUBSET PromisesTo(a.src, a.iid, a.ballot, replies) :
             /\ quorum_reached({m.aid : m \in S})
             /\ \/ (\A m \in S : m.value = None) /\ <<a.src, a.value>> \in submitted
                \/ \E m \in S : /\ m.value = a.value
                                /\ \A k \in S : k.value # None =>
                                      k.value_ballot <= m.value_ballot
        <3>1. Follows(a, replies, submitted)
            BY AnsweredFollows DEF ProposerInv, ProposersOK
        <3> QED
            BY <3>1, Zenon DEF Follows
    <2>2. \A k \in S : /\ k.value_ballot \in Nat
                       /\ k.value = None => k.value_ballot = 0
        BY MessagesAssumption DEF PromisesTo, ProposerInv, ValuesHaveBallots, Reply, Ballot
    <2>3. ASSUME NEW m \in S, \A k \in S : k.value # None => k.value_ballot <= m.value_ballot
          PROVE  \A k \in S : k.value_ballot <= m.value_ballot
        BY <2>2, <2>3
    <2> QED
        BY <2>1, <2>3, Zenon
<1> QED
    BY <1>1, ProposerInvariant, PTL

(* OneValuePerBallot: no two ACCEPT requests of a ballot differ, however often it is
   raised; the ballots of two proposers differ modulo MAX_N_OF_PROPOSERS. *)
THEOREM BallotHasOneValue == ProposerSpec => []OneValuePerBallot
<1>1. ProposerInv => OneValuePerBallot
    BY OneValue DEF ProposerInv, OneValuePerBallot
<1> QED
    BY <1>1, ProposerInvariant, PTL
===============================================================================
