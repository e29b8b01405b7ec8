----------------------------- MODULE LearnerProofs ----------------------------
(***************************************************************************)
(* DeliveredInOrder and DeliveredByQuorum for any number of acceptors,     *)
(* any instances, ballots and values.  The learner counts acks by their    *)
(* ballot only; the invariant says what it can rely on: every ack in its   *)
(* table was announced to it, and every final value has been announced by  *)
(* a majority at one ballot.                                               *)
(***************************************************************************)
EXTENDS Learner, FiniteSetTheorems, TLAPS

Ack == [ballot : Ballot, value : Value]
AckTable == UNION {[A -> Ack] : A \in SUBSET Replica}
LearnerInstance ==
    [acks : AckTable, last_update_ballot : Ballot, final_value : Value \cup {None}]
InstanceTable == UNION {[I -> LearnerInstance] : I \in SUBSET Iid}
LearnerStruct ==
    [current_iid : Nat, highest_iid_closed : Nat, late_start : BOOLEAN,
     instances : InstanceTable]

(* The acceptors that announced v at ballot b of instance i to learner r. *)
AcksFor(R, r, i, b, v) ==
    {m.aid : m \in {k \in R : /\ k.type = "ACCEPTED" /\ k.to = r
                              /\ k.iid = i /\ k.ballot = b /\ k.value = v}}
Decided(R, r, i, v) == \E b \in Ballot : Majority(AcksFor(R, r, i, b, v))

WasAnnounced(R, r, i, a, ack) ==
    \E m \in R : /\ m.type = "ACCEPTED" /\ m.to = r /\ m.aid = a
                 /\ m.iid = i /\ m.ballot = ack.ballot /\ m.value = ack.value

(* What the acceptors announce: one value per ballot and instance. *)
Announcement ==
    [type : {"ACCEPTED"}, to : Learners, aid : Replica, iid : Iid,
     ballot : Ballot, value : Value, aids : SUBSET Replica]
RepliesOK(R) ==
    /\ R \subseteq Announcement
    /\ \A k, m \in R : k.iid = m.iid /\ k.ballot = m.ballot => k.value = m.value

InstanceOK(inst, r, i, R) ==
    /\ inst \in LearnerInstance
    /\ \A a \in DOMAIN inst.acks : WasAnnounced(R, r, i, a, inst.acks[a])
    /\ inst.final_value # None => Decided(R, r, i, inst.final_value)

LearnerOK(l, r, R) ==
    /\ l \in LearnerStruct
    /\ IsFiniteSet(DOMAIN l.instances)
    /\ \A i \in DOMAIN l.instances : InstanceOK(l.instances[i], r, i, R)

(* What is delivered to r has the given last instance. *)
DeliveredOK(d, last, r, R) ==
    /\ d \in Seq(Nat \X Value)
    /\ \A k \in DOMAIN d : d[k][1] = last - Len(d) + k
    /\ \A k \in DOMAIN d : Decided(R, r, d[k][1], d[k][2])

(* The learners L and their deliveries D, when they have been told R. *)
LearnersOK(L, D, R) ==
    /\ L = [r \in Learners |-> L[r]] /\ D = [r \in Learners |-> D[r]]
    /\ \A r \in Learners :
          /\ LearnerOK(L[r], r, R)
          /\ DeliveredOK(D[r], L[r].current_iid - 1, r, R)
          /\ L[r].late_start => D[r] = <<>>

LearnerInv == RepliesOK(replies) /\ LearnersOK(learner, delivered, replies)

-------------------------------------------------------------------------------
(* The tables of acks and of instances: what they hold, and what an update does. *)
LEMMA AckTableFacts ==
    ASSUME NEW f \in AckTable
    PROVE  /\ DOMAIN f \subseteq Replica
           /\ \A a \in DOMAIN f : f[a] \in Ack
           /\ \A a \in Replica, x \in Ack :
                 [b \in DOMAIN f \cup {a} |-> IF b = a THEN x ELSE f[b]] \in AckTable
<1>1. PICK A \in SUBSET Replica : f \in [A -> Ack]
    BY DEF AckTable
<1>2. ASSUME NEW a \in Replica, NEW x \in Ack
      PROVE  [b \in DOMAIN f \cup {a} |-> IF b = a THEN x ELSE f[b]] \in AckTable
    <2>1. [b \in A \cup {a} |-> IF b = a THEN x ELSE f[b]] \in [A \cup {a} -> Ack]
        BY <1>1
    <2>2. A \cup {a} \in SUBSET Replica
        BY <1>1
    <2>3. DOMAIN f = A
        BY <1>1
    <2> QED
        BY <2>1, <2>2, <2>3 DEF AckTable
<1> QED
    BY <1>1, <1>2

(* The same of the table of instances, from which delivery also removes some. *)
LEMMA InstanceTableFacts ==
    ASSUME NEW f \in InstanceTable
    PROVE  /\ DOMAIN f \subseteq Iid
           /\ \A i \in DOMAIN f : f[i] \in LearnerInstance
           /\ \A i \in Iid, x \in LearnerInstance :
                 [j \in DOMAIN f \cup {i} |-> IF j = i THEN x ELSE f[j]] \in InstanceTable
           /\ \A S \in SUBSET DOMAIN f : [j \in S |-> f[j]] \in InstanceTable
<1>1. PICK I \in SUBSET Iid : f \in [I -> LearnerInstance]
    BY DEF InstanceTable
<1>2. DOMAIN f = I
    BY <1>1
<1>3. ASSUME NEW i \in Iid, NEW x \in LearnerInstance
      PROVE  [j \in DOMAIN f \cup {i} |-> IF j = i THEN x ELSE f[j]] \in InstanceTable
    <2>1. [j \in I \cup {i} |-> IF j = i THEN x ELSE f[j]] \in [I \cup {i} -> LearnerInstance]
        BY <1>1
    <2>2. I \cup {i} \in SUBSET Iid
        BY <1>1
    <2> QED
        BY <1>2, <2>1, <2>2 DEF InstanceTable
<1>4. ASSUME NEW S \in SUBSET DOMAIN f
      PROVE  [j \in S |-> f[j]] \in InstanceTable
    <2>1. [j \in S |-> f[j]] \in [S -> LearnerInstance]
        BY <1>1, <1>2
    <2>2. S \in SUBSET Iid
        BY <1>1, <1>2
    <2> QED
        BY <2>1, <2>2 DEF InstanceTable
<1> QED
    BY <1>1, <1>2, <1>3, <1>4

(* A table without entries is a table: instance_new and learner_new. *)
LEMMA EmptyTables == [a \in {} |-> None] \in AckTable /\ [i \in {} |-> None] \in InstanceTable
<1>1. [a \in {} |-> None] \in [{} -> Ack] /\ {} \in SUBSET Replica
    OBVIOUS
<1>2. [a \in {} |-> None] \in [{} -> LearnerInstance] /\ {} \in SUBSET Iid
    OBVIOUS
<1> QED
    BY <1>1, <1>2 DEF AckTable, InstanceTable

(* Instances are numbered from 1. *)
LEMMA IidPositive == \A i \in Iid : i \in Nat /\ i > 0
<1> SUFFICES ASSUME NEW i \in Iid PROVE i \in Nat /\ i > 0
    OBVIOUS
<1>1. i \in Nat \ {0}
    BY MessagesAssumption
<1> QED
    BY <1>1

(* The replicas are finitely many. *)
LEMMA ReplicasFinite == IsFiniteSet(Replica)
BY FS_Interval, TopologyAssumption DEF Replica

(* AcksFor are replicas, and more messages mean more votes. *)
LEMMA AcksGrow ==
    ASSUME NEW R, NEW T, R \subseteq T, T \subseteq Announcement, NEW r, NEW i, NEW v,
           Decided(R, r, i, v)
    PROVE  Decided(T, r, i, v)
<1>1. PICK b \in Ballot : Majority(AcksFor(R, r, i, b, v))
    BY DEF Decided
<1>2. AcksFor(R, r, i, b, v) \subseteq AcksFor(T, r, i, b, v)
    BY DEF AcksFor
<1>3. AcksFor(T, r, i, b, v) \subseteq Replica
    BY DEF AcksFor, Announcement
<1>4. IsFiniteSet(AcksFor(T, r, i, b, v)) /\ IsFiniteSet(AcksFor(R, r, i, b, v))
    BY <1>2, <1>3, ReplicasFinite, FS_Subset
<1>5. /\ Cardinality(AcksFor(T, r, i, b, v)) \in Nat /\ Cardinality(AcksFor(R, r, i, b, v)) \in Nat
      /\ Cardinality(AcksFor(R, r, i, b, v)) <= Cardinality(AcksFor(T, r, i, b, v))
    BY <1>2, <1>4, FS_Subset, FS_CardinalityType
<1>6. Majority(AcksFor(T, r, i, b, v))
    BY <1>1, <1>5, TopologyAssumption DEF Majority
<1> QED
    BY <1>6 DEF Decided

(* A nonempty set of acceptor ids has a maximum, which Max finds. *)
LEMMA MaxOfReplicas ==
    ASSUME NEW A \in SUBSET Replica, A # {}
    PROVE  Max(A) \in A
<1> DEFINE S == {n \in Nat : N - 1 - n \in A}
<1>1. S \subseteq Nat /\ S # {}
    <2>1. PICK a \in A : TRUE
        OBVIOUS
    <2>2. N - 1 - a \in S
        <3>1. a \in 0 .. N - 1
            BY <2>1 DEF Replica
        <3>2. N - 1 - a \in Nat /\ N - 1 - (N - 1 - a) = a
            BY <3>1, TopologyAssumption
        <3> QED
            BY <2>1, <3>2
    <2> QED
        BY <2>2
<1> HIDE DEF S
<1>2. \E x \in S : \A y \in S : ~(<<y, x>> \in OpToRel(<, Nat))
    BY <1>1, NatLessThanWellFounded, WFMin, Zenon
<1>3. PICK x \in S : \A y \in S : ~(<<y, x>> \in OpToRel(<, Nat))
    BY <1>2
<1>4. ASSUME NEW y \in S PROVE x <= y
    <2>1. ~(<<y, x>> \in {ss \in Nat \X Nat : ss[1] < ss[2]})
        BY <1>3, Zenon DEF OpToRel
    <2>2. <<y, x>> \in Nat \X Nat /\ <<y, x>>[1] = y /\ <<y, x>>[2] = x
        <3>1. x \in Nat /\ y \in Nat
            BY <1>1, <1>3
        <3> QED
            BY <3>1
    <2>3. ~(y < x)
        BY <2>1, <2>2, Zenon
    <2>4. x \in Nat /\ y \in Nat
        BY <1>1, <1>3
    <2> QED
        BY <2>3, <2>4
<1>5. N - 1 - x \in A /\ \A y \in A : N - 1 - x >= y
    <2>1. x \in Nat /\ N - 1 - x \in A
        BY <1>3 DEF S
    <2>2. ASSUME NEW y \in A PROVE N - 1 - x >= y
        <3>1. y \in 0 .. N - 1
            BY DEF Replica
        <3>2. N - 1 - y \in Nat /\ N - 1 - (N - 1 - y) = y
            BY <3>1, TopologyAssumption
        <3>3. N - 1 - y \in S
            BY <3>2 DEF S
        <3> QED
            BY <1>4, <2>1, <3>1, <3>3, TopologyAssumption
    <2> QED
        BY <2>1, <2>2
<1> QED
    BY <1>5 DEF Max

(* instance_update stores the message, or leaves the instance alone. *)
LEMMA UpdateOK ==
    ASSUME NEW R, NEW r, NEW m \in Announcement, m.to = r, NEW inst,
           R \subseteq Announcement, InstanceOK(inst, r, m.iid, R)
    PROVE  InstanceOK(instance_update(inst, m), r, m.iid, R \cup {m})
<1> DEFINE new == [a \in DOMAIN inst.acks \cup {m.aid} |->
                      IF a = m.aid THEN [ballot |-> m.ballot, value |-> m.value]
                      ELSE inst.acks[a]]
           T == R \cup {m}
<1>1. /\ inst \in LearnerInstance /\ inst.acks \in AckTable
      /\ m.aid \in Replica /\ m.ballot \in Ballot /\ m.value \in Value
      /\ [ballot |-> m.ballot, value |-> m.value] \in Ack
    BY DEF InstanceOK, LearnerInstance, Announcement, Ack
<1>2. inst.final_value # None => Decided(T, r, m.iid, inst.final_value)
    BY AcksGrow DEF InstanceOK
<1>3. \A a \in DOMAIN inst.acks : WasAnnounced(T, r, m.iid, a, inst.acks[a])
    BY DEF InstanceOK, WasAnnounced
<1>4. CASE instance_update(inst, m) = inst
    BY <1>1, <1>2, <1>3, <1>4 DEF InstanceOK
<1>5. CASE instance_update(inst, m) =
              [inst EXCEPT !.acks = new, !.last_update_ballot = m.ballot]
    <2> DEFINE i2 == instance_update(inst, m)
    <2>1. new \in AckTable
        BY <1>1, AckTableFacts
    <2>2. i2.acks = new /\ i2.final_value = inst.final_value /\ i2 \in LearnerInstance
        BY <1>1, <1>5, <2>1 DEF LearnerInstance
    <2>3. ASSUME NEW a \in DOMAIN new PROVE WasAnnounced(T, r, m.iid, a, new[a])
        <3>1. CASE a = m.aid
            BY <3>1 DEF WasAnnounced, Announcement
        <3>2. CASE a # m.aid
            BY <1>3, <3>2
        <3> QED
            BY <3>1, <3>2
    <2> QED
        BY <1>2, <2>2, <2>3 DEF InstanceOK
<1> QED
    BY <1>4, <1>5 DEF instance_update

(* close_instance sets a final value only when a majority has announced it: the acks
   that agree on the ballot agree on the value. *)
LEMMA CloseOK ==
    ASSUME NEW R, NEW r, NEW i, NEW inst, RepliesOK(R), InstanceOK(inst, r, i, R)
    PROVE  InstanceOK(close_instance(inst), r, i, R)
<1>1. CASE close_instance(inst) = inst
    BY <1>1
<1>2. CASE /\ quorum_reached(agreeing(inst))
           /\ close_instance(inst) =
                 [inst EXCEPT !.final_value = inst.acks[Max(agreeing(inst))].value]
    <2> DEFINE A == agreeing(inst)
               b == inst.last_update_ballot
               v == inst.acks[Max(A)].value
               c == close_instance(inst)
    <2>1. inst \in LearnerInstance /\ inst.acks \in AckTable /\ b \in Ballot
        BY DEF InstanceOK, LearnerInstance
    <2>2. A \subseteq DOMAIN inst.acks /\ A \subseteq Replica
        BY <2>1, AckTableFacts DEF agreeing
    <2>3. IsFiniteSet(A) /\ Cardinality(A) \in Nat
        BY <2>2, ReplicasFinite, FS_Subset, FS_CardinalityType
    <2>4. 2 * Cardinality(A) > N
        BY <1>2, <2>3, TopologyAssumption DEF quorum_reached, paxos_quorum
    <2>5. A # {}
        BY <2>3, <2>4, FS_EmptySet, TopologyAssumption
    <2>6. Max(A) \in A
        BY <2>2, <2>5, MaxOfReplicas
    <2>7. v \in Value
        BY <2>1, <2>2, <2>6, AckTableFacts DEF Ack
    <2>8. A \subseteq AcksFor(R, r, i, b, v)
        <3>1. ASSUME NEW a \in A PROVE a \in AcksFor(R, r, i, b, v)
            <4>1. WasAnnounced(R, r, i, a, inst.acks[a]) /\ WasAnnounced(R, r, i, Max(A), inst.acks[Max(A)])
                BY <2>2, <2>6 DEF InstanceOK
            <4>2. inst.acks[a].ballot = b /\ inst.acks[Max(A)].ballot = b
                BY <2>6 DEF agreeing
            <4>3. PICK m \in R : /\ m.type = "ACCEPTED" /\ m.to = r /\ m.aid = a /\ m.iid = i
                                 /\ m.ballot = b /\ m.value = inst.acks[a].value
                BY <4>1, <4>2 DEF WasAnnounced
            <4>4. PICK k \in R : k.iid = i /\ k.ballot = b /\ k.value = v
                BY <4>1, <4>2 DEF WasAnnounced
            <4>5. m.value = v
                BY <4>3, <4>4 DEF RepliesOK
            <4> QED
                BY <4>3, <4>5 DEF AcksFor
        <3> QED
            BY <3>1
    <2>9. Decided(R, r, i, v)
        <3>1. AcksFor(R, r, i, b, v) \subseteq Replica
            BY DEF AcksFor, RepliesOK, Announcement
        <3>2. /\ IsFiniteSet(AcksFor(R, r, i, b, v))
              /\ Cardinality(AcksFor(R, r, i, b, v)) \in Nat
              /\ Cardinality(A) <= Cardinality(AcksFor(R, r, i, b, v))
            BY <2>8, <3>1, ReplicasFinite, FS_Subset, FS_CardinalityType
        <3>3. Majority(AcksFor(R, r, i, b, v))
            BY <2>3, <2>4, <3>2, TopologyAssumption DEF Majority
        <3> QED
            BY <2>1, <3>3 DEF Decided
    <2>10. c \in LearnerInstance /\ c.acks = inst.acks /\ c.final_value = v
        BY <1>2, <2>1, <2>7 DEF LearnerInstance
    <2> QED
        BY <2>9, <2>10 DEF InstanceOK
<1> QED
    BY <1>1, <1>2 DEF close_instance

(* learner_receive_accepted: the table stays right, the message included, and
   only the first message of a learner that starts late moves current_iid. *)
Received(l, l0, r, m, R) ==
    /\ LearnerOK(l, r, R \cup {m})
    /\ ~l.late_start
    /\ l.current_iid = IF l0.late_start THEN m.iid ELSE l0.current_iid

(* learner_receive_accepted does just that, for any message and any table. *)
LEMMA ReceiveOK ==
    ASSUME NEW R, NEW r, NEW m \in Announcement, m.to = r, NEW l0,
           R \subseteq Announcement, RepliesOK(R \cup {m}), LearnerOK(l0, r, R),
           NEW l, l = learner_receive_accepted(l0, m)
    PROVE  Received(l, l0, r, m, R)
<1> DEFINE T == R \cup {m}
           l1 == IF l0.late_start
                 THEN [l0 EXCEPT !.late_start = FALSE, !.current_iid = m.iid] ELSE l0
           first == learner_get_instance_or_create(l1, m)
           inst == close_instance(instance_update(first, m))
           table == [i \in DOMAIN l1.instances \cup {m.iid} |->
                        IF i = m.iid THEN inst ELSE l1.instances[i]]
           highest == IF inst.final_value # None THEN highest_closed(l1, m.iid)
                      ELSE l1.highest_iid_closed
<1>1. m.iid \in Iid /\ m.iid \in Nat /\ m.ballot \in Ballot
    BY MessagesAssumption DEF Announcement
<1>2. /\ l1 \in LearnerStruct /\ l1.instances = l0.instances /\ ~l1.late_start
      /\ l1.current_iid = IF l0.late_start THEN m.iid ELSE l0.current_iid
    BY <1>1 DEF LearnerOK, LearnerStruct
<1>3. /\ IsFiniteSet(DOMAIN l1.instances)
      /\ \A i \in DOMAIN l1.instances : InstanceOK(l1.instances[i], r, i, R)
    BY <1>2 DEF LearnerOK
<1>4. InstanceOK(first, r, m.iid, R)
    <2>1. CASE m.iid \in DOMAIN l1.instances
        BY <1>3, <2>1 DEF learner_get_instance_or_create
    <2>2. CASE m.iid \notin DOMAIN l1.instances
        <3>1. /\ first = learner_instance(m.ballot)
              /\ first.acks = [a \in {} |-> None] /\ first.final_value = None
            BY <2>2 DEF learner_get_instance_or_create, learner_instance
        <3>2. first \in LearnerInstance
            BY <1>1, <3>1, EmptyTables DEF learner_instance, LearnerInstance
        <3> QED
            BY <3>1, <3>2 DEF InstanceOK
    <2> QED
        BY <2>1, <2>2
<1>5. InstanceOK(inst, r, m.iid, T)
    BY <1>4, UpdateOK, CloseOK
<1>6. \A i \in DOMAIN l1.instances : InstanceOK(l1.instances[i], r, i, T)
    <2> SUFFICES ASSUME NEW i \in DOMAIN l1.instances
                 PROVE  InstanceOK(l1.instances[i], r, i, T)
        OBVIOUS
    <2> DEFINE old == l1.instances[i]
    <2>1. InstanceOK(old, r, i, R)
        BY <1>3
    <2>2. \A a \in DOMAIN old.acks : WasAnnounced(T, r, i, a, old.acks[a])
        BY <2>1 DEF InstanceOK, WasAnnounced
    <2>3. old.final_value # None => Decided(T, r, i, old.final_value)
        BY <2>1, AcksGrow DEF InstanceOK
    <2> QED
        BY <2>1, <2>2, <2>3 DEF InstanceOK
<1>7. LearnerOK(l1, r, T)
    BY <1>2, <1>3, <1>6 DEF LearnerOK
<1>8. CASE l = l1
    BY <1>2, <1>7, <1>8 DEF Received
<1>9. CASE l = [l1 EXCEPT !.instances = table, !.highest_iid_closed = highest]
    <2>1. l1.instances \in InstanceTable /\ l1.highest_iid_closed \in Nat
        BY <1>2 DEF LearnerStruct
    <2>2. inst \in LearnerInstance
        BY <1>5 DEF InstanceOK
    <2>3. table \in InstanceTable
        <3> HIDE DEF inst, l1
        <3> QED
            BY <1>1, <2>1, <2>2, InstanceTableFacts
    <2>4. highest \in Nat
        BY <1>1, <2>1 DEF highest_closed
    <2> HIDE DEF table, highest, l1
    <2>5. /\ l \in LearnerStruct /\ l.instances = table
          /\ l.late_start = l1.late_start /\ l.current_iid = l1.current_iid
        BY <1>2, <1>9, <2>3, <2>4 DEF LearnerStruct
    <2>6. IsFiniteSet(DOMAIN table)
        BY <1>3, FS_AddElement DEF table
    <2>7. \A i \in DOMAIN table : InstanceOK(table[i], r, i, T)
        BY <1>5, <1>6 DEF table
    <2> QED
        BY <1>2, <2>5, <2>6, <2>7 DEF LearnerOK, Received
<1> QED
    BY <1>8, <1>9 DEF learner_receive_accepted

(* What can be delivered is an interval that begins at current_iid. *)
LEMMA DeliverableInterval ==
    ASSUME NEW l \in LearnerStruct, IsFiniteSet(DOMAIN l.instances)
    PROVE  /\ IsFiniteSet(Deliverable(l)) /\ Cardinality(Deliverable(l)) \in Nat
           /\ \A k \in Nat : k < Cardinality(Deliverable(l)) =>
                 l.current_iid + k \in Deliverable(l)
<1> DEFINE D == Deliverable(l)
           c == l.current_iid
<1>1. c \in Nat /\ DOMAIN l.instances \subseteq Nat
    BY InstanceTableFacts, MessagesAssumption DEF LearnerStruct
<1>2. D \subseteq DOMAIN l.instances
    BY DEF Deliverable, Closed
<1>3. IsFiniteSet(D) /\ Cardinality(D) \in Nat
    BY <1>2, FS_Subset, FS_CardinalityType
<1>4. ASSUME NEW k \in Nat, k < Cardinality(D), c + k \notin D PROVE FALSE
    <2>1. D \subseteq c .. (c + k - 1)
        <3> SUFFICES ASSUME NEW d \in D, ~(d \in c .. (c + k - 1)) PROVE FALSE
            OBVIOUS
        <3>1. d \in Nat /\ d >= c /\ c .. d \subseteq Closed(l)
            BY <1>1, <1>2 DEF Deliverable
        <3>2. c + k \in c .. d /\ c .. (c + k) \subseteq c .. d
            BY <1>1, <3>1
        <3>3. c + k \in Closed(l) /\ c .. (c + k) \subseteq Closed(l) /\ c + k >= c
            BY <1>1, <3>1, <3>2
        <3> QED
            BY <1>4, <3>3 DEF Deliverable
    <2>2. IsFiniteSet(c .. (c + k - 1)) /\ Cardinality(c .. (c + k - 1)) = k
        <3> DEFINE e == c + k - 1
        <3>1. c \in Int /\ e \in Int /\ (c > e => k = 0) /\ (~(c > e) => e - c + 1 = k)
            BY <1>1
        <3> HIDE DEF e, c
        <3>2. /\ IsFiniteSet(c .. e)
              /\ Cardinality(c .. e) = IF c > e THEN 0 ELSE e - c + 1
            BY <3>1, FS_Interval
        <3>3. Cardinality(c .. e) = k
            BY <3>1, <3>2
        <3> QED
            BY <3>2, <3>3 DEF e
    <2>3. Cardinality(D) <= k
        BY <2>1, <2>2, FS_Subset
    <2> QED
        BY <1>3, <1>4, <2>3
<1> QED
    BY <1>3, <1>4
(* evlearner_deliver_next_closed: what it delivers continues the sequence and
   was decided, and what it leaves in the table is still right. *)
LEMMA DeliverOK ==
    ASSUME NEW R, NEW r, NEW l, LearnerOK(l, r, R),
           NEW d, DeliveredOK(d, l.current_iid - 1, r, R),
           NEW after, after = AfterDelivery(l), NEW e, e = Deliveries(l)
    PROVE  /\ LearnerOK(after, r, R) /\ after.late_start = l.late_start
           /\ DeliveredOK(d \o e, after.current_iid - 1, r, R)
<1> DEFINE D == Deliverable(l)
           n == Cardinality(D)
           c == l.current_iid
           S == DOMAIN l.instances \ D
           kept == [i \in S |-> l.instances[i]]
<1>1. /\ l \in LearnerStruct /\ IsFiniteSet(DOMAIN l.instances)
      /\ \A i \in DOMAIN l.instances : InstanceOK(l.instances[i], r, i, R)
    BY DEF LearnerOK
<1>2. n \in Nat /\ \A k \in Nat : k < n => c + k \in D
    BY <1>1, DeliverableInterval
<1>3. c \in Nat /\ l.instances \in InstanceTable /\ DOMAIN l.instances \subseteq Nat
    BY <1>1, InstanceTableFacts, MessagesAssumption DEF LearnerStruct
<1>4. kept \in InstanceTable
    BY <1>3, InstanceTableFacts
<1>5. after = [l EXCEPT !.current_iid = c + n, !.instances = kept]
    BY DEF AfterDelivery, Restrict
<1>6. LearnerOK(after, r, R) /\ after.late_start = l.late_start /\ after.current_iid = c + n
    <2>1. IsFiniteSet(S)
        BY <1>1, FS_Subset
    <2>2. \A i \in S : InstanceOK(kept[i], r, i, R)
        BY <1>1
    <2> HIDE DEF kept, n, c
    <2>3. /\ after \in LearnerStruct /\ after.instances = kept
          /\ after.late_start = l.late_start /\ after.current_iid = c + n
        <3>1. c + n \in Nat
            BY <1>2, <1>3
        <3> QED
            BY <1>1, <1>4, <1>5, <3>1 DEF LearnerStruct
    <2>4. DOMAIN kept = S
        BY DEF kept
    <2> QED
        BY <2>1, <2>2, <2>3, <2>4 DEF LearnerOK
<1>7. \A i \in D : /\ i \in Nat /\ l.instances[i].final_value \in Value
                   /\ Decided(R, r, i, l.instances[i].final_value)
    BY <1>1, <1>3 DEF Deliverable, Closed, InstanceOK, LearnerInstance
<1>8. e = [k \in 1 .. n |-> <<c + k - 1, l.instances[c + k - 1].final_value>>]
    BY DEF Deliveries
<1> HIDE DEF n, c, D
<1>9. \A k \in 1 .. n : c + k - 1 \in D
    <2> SUFFICES ASSUME NEW k \in 1 .. n PROVE c + k - 1 \in D
        OBVIOUS
    <2>1. k - 1 \in Nat /\ k - 1 < n /\ c + (k - 1) = c + k - 1
        BY <1>2, <1>3
    <2> QED
        BY <1>2, <2>1
<1>10. e \in Seq(Nat \X Value) /\ Len(e) = n
    <2>1. e \in [1 .. n -> Nat \X Value]
        BY <1>7, <1>8, <1>9
    <2> QED
        BY <1>2, <2>1
<1>11. \A k \in 1 .. n : e[k][1] = c + k - 1 /\ Decided(R, r, e[k][1], e[k][2])
    <2> SUFFICES ASSUME NEW k \in 1 .. n
                 PROVE  e[k][1] = c + k - 1 /\ Decided(R, r, e[k][1], e[k][2])
        OBVIOUS
    <2>1. e[k][1] = c + k - 1 /\ e[k][2] = l.instances[c + k - 1].final_value
        BY <1>8
    <2> QED
        BY <1>7, <1>9, <2>1
<1>12. /\ d \in Seq(Nat \X Value)
       /\ \A k \in 1 .. Len(d) : /\ d[k][1] = (c - 1) - Len(d) + k
                                 /\ Decided(R, r, d[k][1], d[k][2])
    BY DEF DeliveredOK, c
<1>13. /\ d \o e \in Seq(Nat \X Value) /\ Len(d \o e) = Len(d) + n
       /\ \A k \in 1 .. Len(d) : (d \o e)[k] = d[k]
       /\ \A k \in (Len(d) + 1) .. (Len(d) + n) : (d \o e)[k] = e[k - Len(d)]
    <2>1. d \in Seq(Nat \X Value) /\ e \in Seq(Nat \X Value)
        BY <1>10, <1>12
    <2> QED
        BY <1>10, <2>1
<1>14. ASSUME NEW k \in 1 .. (Len(d) + n)
       PROVE  /\ (d \o e)[k][1] = (c + n - 1) - (Len(d) + n) + k
              /\ Decided(R, r, (d \o e)[k][1], (d \o e)[k][2])
    <2>1. Len(d) \in Nat
        BY <1>12
    <2>2. CASE k <= Len(d)
        <3>1. k \in 1 .. Len(d) /\ (c - 1) - Len(d) + k = (c + n - 1) - (Len(d) + n) + k
            BY <1>2, <1>3, <2>1, <2>2
        <3> QED
            BY <1>12, <1>13, <3>1
    <2>3. CASE k > Len(d)
        <3> DEFINE j == k - Len(d)
        <3>1. /\ k \in (Len(d) + 1) .. (Len(d) + n) /\ j \in 1 .. n
              /\ c + j - 1 = (c + n - 1) - (Len(d) + n) + k
            BY <1>2, <1>3, <2>1, <2>3
        <3> QED
            BY <1>11, <1>13, <3>1
    <2>4. k <= Len(d) \/ k > Len(d)
        BY <1>2, <2>1
    <2> QED
        BY <2>2, <2>3, <2>4
<1>15. DOMAIN (d \o e) = 1 .. (Len(d) + n)
    BY <1>13
<1>16. after.current_iid = c + n
    BY <1>6
<1> DEFINE s == d \o e
<1>17. \A k \in 1 .. (Len(d) + n) : /\ s[k][1] = (c + n - 1) - (Len(d) + n) + k
                                    /\ Decided(R, r, s[k][1], s[k][2])
    BY <1>14, Zenon
<1>18. s \in Seq(Nat \X Value) /\ Len(s) = Len(d) + n /\ DOMAIN s = 1 .. (Len(d) + n)
    BY <1>13, <1>15, Zenon
<1> HIDE DEF s
<1>19. DeliveredOK(s, c + n - 1, r, R)
    BY <1>17, <1>18 DEF DeliveredOK
<1> QED
    <2>1. after.current_iid - 1 = c + n - 1
        BY <1>2, <1>3, <1>16
    <2>2. DeliveredOK(s, after.current_iid - 1, r, R)
        BY <1>19, <2>1, Zenon
    <2> QED
        BY <1>6, <2>2, Zenon DEF s
-------------------------------------------------------------------------------
(* A learner starts with an empty table, whichever way it starts. *)
LEMMA StartOK ==
    ASSUME NEW l \in StartStates, NEW r, NEW R
    PROVE  LearnerOK(l, r, R)
<1>1. /\ l.instances = [i \in {} |-> None]
      /\ l \in [current_iid : Nat, highest_iid_closed : Nat, late_start : BOOLEAN,
                instances : {[i \in {} |-> None]}]
    <2> DEFINE empty == [i \in {} |-> None]
               Fresh == [current_iid : Nat, highest_iid_closed : Nat,
                         late_start : BOOLEAN, instances : {empty}]
    <2>1. ASSUME NEW late \in BOOLEAN PROVE learner_new(late) \in Fresh
        <3> HIDE DEF empty
        <3>1. learner_new(late) = [current_iid |-> 1, highest_iid_closed |-> 1,
                                   late_start |-> late, instances |-> empty]
            BY Zenon DEF learner_new, empty
        <3> QED
            BY <3>1
    <2>2. ASSUME NEW x \in Fresh, NEW i \in Iid
          PROVE  learner_set_instance_id(x, i) \in Fresh
        <3> HIDE DEF empty
        <3>1. i \in Nat /\ i + 1 \in Nat
            BY MessagesAssumption
        <3> QED
            BY <3>1 DEF learner_set_instance_id
    <2> HIDE DEF Fresh
    <2>3. l \in Fresh
        BY <2>1, <2>2, Zenon DEF StartStates
    <2> QED
        <3>1. l.instances = empty
            <4> HIDE DEF empty
            <4> QED
                BY <2>3 DEF Fresh
        <3> QED
            BY <2>3, <3>1, Zenon DEF Fresh
<1>2. [i \in {} |-> None] \in InstanceTable
    BY EmptyTables
<1>3. l \in LearnerStruct
    BY <1>1, <1>2 DEF LearnerStruct
<1>4. DOMAIN l.instances = {}
    BY <1>1
<1> QED
    BY <1>3, <1>4, FS_EmptySet DEF LearnerOK

(* What a learner was told remains true when more is announced. *)
LEMMA MoreReplies ==
    ASSUME NEW R, NEW T, R \subseteq T, RepliesOK(T),
           NEW r, NEW l, LearnerOK(l, r, R), NEW d, NEW last, DeliveredOK(d, last, r, R)
    PROVE  LearnerOK(l, r, T) /\ DeliveredOK(d, last, r, T)
<1>1. \A i, v : Decided(R, r, i, v) => Decided(T, r, i, v)
    BY AcksGrow DEF RepliesOK
<1>2. \A i, a, ack : WasAnnounced(R, r, i, a, ack) => WasAnnounced(T, r, i, a, ack)
    BY DEF WasAnnounced
<1>3. DeliveredOK(d, last, r, T)
    BY <1>1 DEF DeliveredOK
<1>4. \A inst, i : InstanceOK(inst, r, i, R) => InstanceOK(inst, r, i, T)
    BY <1>1, <1>2 DEF InstanceOK
<1>5. LearnerOK(l, r, T)
    BY <1>4 DEF LearnerOK
<1> QED
    BY <1>3, <1>5

(* evlearner_handle_accepted keeps every learner right, with the message among
   what has been announced by then. *)
LEMMA HandleAcceptedOK ==
    ASSUME NEW R, NEW T, R \subseteq T, RepliesOK(T), LearnersOK(learner, delivered, R),
           NEW r \in Learners, NEW m \in T, m.to = r, evlearner_handle_accepted(r, m)
    PROVE  LearnersOK(learner', delivered', T)
<1> DEFINE l == learner_receive_accepted(learner[r], m)
           M == R \cup {m}
<1>1. m \in Announcement /\ R \subseteq Announcement /\ RepliesOK(M) /\ M \subseteq T
    BY DEF RepliesOK
<1>2. /\ learner' = [learner EXCEPT ![r] = AfterDelivery(l)]
      /\ delivered' = [delivered EXCEPT ![r] = delivered[r] \o Deliveries(l)]
    BY DEF evlearner_handle_accepted
<1>3. /\ LearnerOK(learner[r], r, R)
      /\ DeliveredOK(delivered[r], learner[r].current_iid - 1, r, R)
      /\ learner[r].late_start => delivered[r] = <<>>
    BY DEF LearnersOK
<1>4. /\ LearnerOK(l, r, M) /\ ~l.late_start
      /\ l.current_iid = IF learner[r].late_start THEN m.iid
                         ELSE learner[r].current_iid
    <2> HIDE DEF l
    <2>1. l = learner_receive_accepted(learner[r], m)
        BY DEF l
    <2>2. Received(l, learner[r], r, m, R)
        BY <1>1, <1>3, <2>1, ReceiveOK
    <2> QED
        BY <2>2, Zenon DEF Received
<1> HIDE DEF l
<1>5. DeliveredOK(delivered[r], l.current_iid - 1, r, M)
    <2>1. CASE learner[r].late_start
        BY <1>3, <2>1 DEF DeliveredOK
    <2>2. CASE ~learner[r].late_start
        <3>1. R \subseteq M
            OBVIOUS
        <3> HIDE DEF M
        <3> QED
            BY <1>1, <1>3, <1>4, <2>2, <3>1, MoreReplies
    <2> QED
        BY <2>1, <2>2
<1> HIDE DEF M
<1>6. /\ LearnerOK(AfterDelivery(l), r, M)
      /\ AfterDelivery(l).late_start = l.late_start
      /\ DeliveredOK(delivered[r] \o Deliveries(l), AfterDelivery(l).current_iid - 1, r, M)
    BY <1>4, <1>5, DeliverOK
<1>7. /\ LearnerOK(AfterDelivery(l), r, T)
      /\ DeliveredOK(delivered[r] \o Deliveries(l), AfterDelivery(l).current_iid - 1, r, T)
    BY <1>1, <1>6, MoreReplies
<1>8. /\ learner' = [s \in Learners |-> learner'[s]]
      /\ delivered' = [s \in Learners |-> delivered'[s]]
      /\ learner'[r] = AfterDelivery(l)
      /\ delivered'[r] = delivered[r] \o Deliveries(l)
      /\ \A s \in Learners \ {r} : /\ learner'[s] = learner[s]
                                   /\ delivered'[s] = delivered[s]
    BY <1>2 DEF LearnersOK
<1>9. ASSUME NEW s \in Learners
      PROVE  /\ LearnerOK(learner'[s], s, T)
             /\ DeliveredOK(delivered'[s], learner'[s].current_iid - 1, s, T)
             /\ learner'[s].late_start => delivered'[s] = <<>>
    <2>1. CASE s = r
        BY <1>4, <1>6, <1>7, <1>8, <2>1
    <2>2. CASE s # r
        <3>1. /\ LearnerOK(learner[s], s, R)
              /\ DeliveredOK(delivered[s], learner[s].current_iid - 1, s, R)
              /\ learner[s].late_start => delivered[s] = <<>>
            BY DEF LearnersOK
        <3>2. learner'[s] = learner[s] /\ delivered'[s] = delivered[s]
            BY <1>8, <2>2
        <3> QED
            BY <3>1, <3>2, MoreReplies
    <2> QED
        BY <2>1, <2>2
<1> QED
    BY <1>8, <1>9 DEF LearnersOK

(* Learners that have delivered nothing, however they start. *)
LEMMA StartsOK ==
    ASSUME NEW L \in [Learners -> StartStates], NEW R
    PROVE  LearnersOK(L, [r \in Learners |-> <<>>], R)
<1>1. \A r \in Learners : LearnerOK(L[r], r, R)
    BY StartOK
<1>2. \A last, r : DeliveredOK(<<>>, last, r, R)
    BY DEF DeliveredOK
<1> QED
    BY <1>1, <1>2 DEF LearnersOK

(* A message that keeps to one value per ballot may be added. *)
LEMMA AnnouncementAdded ==
    ASSUME NEW R, RepliesOK(R), NEW m \in Announcement,
           \A k \in R : k.iid = m.iid /\ k.ballot = m.ballot => k.value = m.value
    PROVE  RepliesOK(R \cup {m})
BY DEF RepliesOK

(* What a learner of LearnerSpec is told. *)
LEMMA AnnouncedMessage ==
    ASSUME NEW r \in Learners, AcceptorAnnounces(r)
    PROVE  \E m \in Announcement :
              /\ m.to = r
              /\ \A k \in replies :
                    k.iid = m.iid /\ k.ballot = m.ballot => k.value = m.value
              /\ evlearner_handle_accepted(r, m)
              /\ replies' = replies \cup {m}
<1>1. PICK aid \in Replica, iid \in Iid, b \in Ballot \ {0}, v \in Value :
         LET m == [type |-> "ACCEPTED", to |-> r, aid |-> aid, iid |-> iid,
                   ballot |-> b, value |-> v, aids |-> {aid}]
         IN  /\ \A k \in replies : (k.iid = iid /\ k.ballot = b) => k.value = v
             /\ evlearner_handle_accepted(r, m)
             /\ replies' = replies \cup {m}
    BY DEF AcceptorAnnounces
<1> DEFINE m == [type |-> "ACCEPTED", to |-> r, aid |-> aid, iid |-> iid,
                 ballot |-> b, value |-> v, aids |-> {aid}]
<1>2. /\ m \in Announcement /\ m.to = r /\ m.iid = iid /\ m.ballot = b
      /\ m.value = v
    BY DEF Announcement
<1>3. evlearner_handle_accepted(r, m) /\ replies' = replies \cup {m}
    BY <1>1
<1> HIDE DEF m
<1> QED
    BY <1>1, <1>2, <1>3

(* The inductive invariant: every step of every learner keeps its table and its
   deliveries right. *)
THEOREM LearnerInvariant == LearnerSpec => []LearnerInv
<1>1. LearnerInit => LearnerInv
    <2> SUFFICES ASSUME LearnerInit PROVE LearnerInv
        OBVIOUS
    <2>1. RepliesOK(replies)
        BY DEF LearnerInit, RepliesOK
    <2>2. LearnersOK(learner, delivered, replies)
        BY StartsOK DEF LearnerInit
    <2> QED
        BY <2>1, <2>2 DEF LearnerInv
<1>2. LearnerInv /\ [LearnerNext]_<<learnerVars, requests, replies>> => LearnerInv'
    <2> SUFFICES ASSUME LearnerInv, [LearnerNext]_<<learnerVars, requests, replies>>
                 PROVE  LearnerInv'
        OBVIOUS
    <2>1. CASE UNCHANGED <<learnerVars, requests, replies>>
        BY <2>1 DEF LearnerInv, learnerVars
    <2>2. ASSUME NEW r \in Learners, AcceptorAnnounces(r) PROVE LearnerInv'
        <3>1. PICK m \in Announcement :
                 /\ m.to = r
                 /\ \A k \in replies :
                       k.iid = m.iid /\ k.ballot = m.ballot => k.value = m.value
                 /\ evlearner_handle_accepted(r, m)
                 /\ replies' = replies \cup {m}
            BY <2>2, AnnouncedMessage
        <3>2. RepliesOK(replies')
            BY <3>1, AnnouncementAdded DEF LearnerInv
        <3>3. LearnersOK(learner', delivered', replies')
            BY <3>1, <3>2, HandleAcceptedOK DEF LearnerInv
        <3> QED
            BY <3>2, <3>3 DEF LearnerInv
    <2> QED
        BY <2>1, <2>2 DEF LearnerNext
<1> QED
    BY <1>1, <1>2, PTL DEF LearnerSpec

(* Whatever acks arrive, in any order and however often, what a learner delivers
   are consecutive instances up to the one before current_iid. *)
THEOREM DeliversInOrder == LearnerSpec => []DeliveredInOrder
<1>1. LearnerInv => DeliveredInOrder
    <2> SUFFICES ASSUME LearnerInv, NEW r \in Learners, NEW k \in DOMAIN delivered[r]
                 PROVE  delivered[r][k][1] =
                            learner[r].current_iid - Len(delivered[r]) + k - 1
        BY DEF LearnerInv, LearnersOK, DeliveredInOrder
    <2>1. /\ learner[r].current_iid \in Nat
          /\ delivered[r] \in Seq(Nat \X Value)
          /\ delivered[r][k][1] = (learner[r].current_iid - 1) - Len(delivered[r]) + k
        BY DEF LearnerInv, LearnersOK, LearnerOK, LearnerStruct, DeliveredOK
    <2>2. Len(delivered[r]) \in Nat /\ k \in Nat
        BY <2>1
    <2> DEFINE x == delivered[r][k][1]
               n == Len(delivered[r])
               c == learner[r].current_iid
    <2>3. x = (c - 1) - n + k /\ c \in Nat /\ n \in Nat /\ k \in Nat
        BY <2>1, <2>2
    <2> HIDE DEF x, n, c
    <2>4. x = c - n + k - 1
        BY <2>3
    <2> QED
        BY <2>4 DEF x, n, c
<1> QED
    BY <1>1, LearnerInvariant, PTL

(* Every value a learner delivers was announced to it by a majority of the
   acceptors at one ballot, although instance_has_quorum compares ballots only. *)
THEOREM DeliversDecided == LearnerSpec => []DeliveredByQuorum
<1>1. LearnerInv => DeliveredByQuorum
    <2> SUFFICES ASSUME LearnerInv PROVE DeliveredByQuorum
        OBVIOUS
    <2>1. DOMAIN learner = Learners
        BY DEF LearnerInv, LearnersOK
    <2>2. \A r \in Learners : \A k \in DOMAIN delivered[r] :
             Decided(replies, r, delivered[r][k][1], delivered[r][k][2])
        BY DEF LearnerInv, LearnersOK, DeliveredOK
    <2>3. \A r \in Learners : \A d \in Range(delivered[r]) :
             Decided(replies, r, d[1], d[2])
        BY <2>2 DEF Range
    <2> QED
        BY <2>1, <2>3, Zenon DEF DeliveredByQuorum, Decided, AcksFor
<1> QED
    BY <1>1, LearnerInvariant, PTL

-------------------------------------------------------------------------------
(***************************************************************************)
(* The table of instances.  An instance that is open has no quorum for any *)
(* ballot; the table begins at current_iid; highest_iid_closed bounds the  *)
(* closed instances and is one of them once it is beyond current_iid.      *)
(***************************************************************************)
NoQuorumYet(inst) ==
    inst.final_value = None =>
        \A b \in Ballot :
            ~quorum_reached({a \in DOMAIN inst.acks : inst.acks[a].ballot = b})

TableOK(l) ==
    /\ l.current_iid > 0
    /\ \A i \in DOMAIN l.instances :
          i >= l.current_iid /\ NoQuorumYet(l.instances[i])
    /\ \A i \in Closed(l) : i <= l.highest_iid_closed
    /\ l.highest_iid_closed > l.current_iid => l.highest_iid_closed \in Closed(l)
    /\ l.late_start => DOMAIN l.instances = {} /\ l.highest_iid_closed <= 1

(* A quorum is not empty, and more acceptors are still a quorum. *)
LEMMA QuorumFacts ==
    ASSUME NEW A, NEW B \in SUBSET Replica, A \subseteq B, quorum_reached(A)
    PROVE  A # {} /\ quorum_reached(B)
<1>1. IsFiniteSet(B) /\ Cardinality(A) <= Cardinality(B)
    BY ReplicasFinite, FS_Subset
<1>2. IsFiniteSet(A) /\ Cardinality(A) \in Nat /\ Cardinality(B) \in Nat
    BY <1>1, FS_Subset, FS_CardinalityType
<1>3. paxos_quorum \in Nat /\ paxos_quorum > 0
    BY TopologyAssumption DEF paxos_quorum
<1>4. Cardinality(A) >= paxos_quorum
    BY DEF quorum_reached
<1>5. quorum_reached(B)
    BY <1>1, <1>2, <1>3, <1>4 DEF quorum_reached
<1>6. A # {}
    BY <1>2, <1>3, <1>4, FS_EmptySet
<1> QED
    BY <1>5, <1>6

(* An instance to which a message is added closes if any ballot has a quorum then,
   although only the ballot of the message is counted; once closed it stays so. *)
LEMMA UpdateNotices ==
    ASSUME NEW m \in Announcement, NEW inst \in LearnerInstance, NoQuorumYet(inst),
           NEW c, c = close_instance(instance_update(inst, m))
    PROVE  NoQuorumYet(c) /\ (inst.final_value # None => c.final_value # None)
<1> DEFINE u == instance_update(inst, m)
           new == [a \in DOMAIN inst.acks \cup {m.aid} |->
                      IF a = m.aid THEN [ballot |-> m.ballot, value |-> m.value]
                      ELSE inst.acks[a]]
<1>1. /\ inst.acks \in AckTable /\ inst.last_update_ballot \in Ballot
      /\ m.aid \in Replica /\ m.ballot \in Ballot /\ m.value \in Value
      /\ [ballot |-> m.ballot, value |-> m.value] \in Ack
    BY DEF LearnerInstance, Announcement, Ack
<1>2. CASE u = inst
    <2>1. inst.final_value = None => ~quorum_reached(agreeing(inst))
        BY <1>1 DEF NoQuorumYet, agreeing
    <2>2. c = inst
        BY <1>2, <2>1 DEF close_instance
    <2> QED
        BY <2>2
<1>3. CASE /\ inst.final_value = None
           /\ u = [inst EXCEPT !.acks = new, !.last_update_ballot = m.ballot]
    <2>1. new \in AckTable
        BY <1>1, AckTableFacts
    <2>2. /\ u.acks = new /\ u.final_value = None /\ u.last_update_ballot = m.ballot
          /\ u \in LearnerInstance
        BY <1>1, <1>3, <2>1 DEF LearnerInstance
    <2> DEFINE A == agreeing(u)
    <2>3. A = {a \in DOMAIN new : new[a].ballot = m.ballot}
        BY <2>2 DEF agreeing
    <2>4. CASE quorum_reached(A)
        <3>1. A \subseteq DOMAIN new /\ A \subseteq Replica
            BY <2>1, <2>3, AckTableFacts
        <3>2. Max(A) \in A
            BY <2>4, <3>1, QuorumFacts, MaxOfReplicas
        <3>3. u.acks[Max(A)].value \in Value
            <4> HIDE DEF new, A
            <4>1. new[Max(A)] \in Ack
                BY <2>1, <3>1, <3>2, AckTableFacts
            <4> QED
                BY <2>2, <4>1 DEF Ack
        <3>4. c = [u EXCEPT !.final_value = u.acks[Max(A)].value]
            BY <2>2, <2>4 DEF close_instance
        <3>5. c.final_value = u.acks[Max(A)].value
            BY <2>2, <3>4 DEF LearnerInstance
        <3> QED
            BY <1>3, <3>3, <3>5, MessagesAssumption DEF NoQuorumYet
    <2>5. CASE ~quorum_reached(A)
        <3>1. c = u
            BY <2>5 DEF close_instance
        <3>2. ASSUME NEW b \in Ballot
              PROVE  ~quorum_reached({a \in DOMAIN new : new[a].ballot = b})
            <4>1. CASE b = m.ballot
                BY <2>3, <2>5, <4>1
            <4>2. CASE b # m.ballot
                <5> DEFINE Old == {a \in DOMAIN inst.acks : inst.acks[a].ballot = b}
                           New == {a \in DOMAIN new : new[a].ballot = b}
                <5>1. New \subseteq Old
                    BY <4>2
                <5>2. Old \subseteq Replica
                    BY <1>1, AckTableFacts
                <5>3. ~quorum_reached(Old)
                    BY <1>3 DEF NoQuorumYet
                <5> HIDE DEF Old, New
                <5>4. ~quorum_reached(New)
                    BY <5>1, <5>2, <5>3, QuorumFacts
                <5> QED
                    BY <5>4 DEF New
            <4> QED
                BY <4>1, <4>2
        <3>3. c.acks = new /\ inst.final_value = None
            BY <1>3, <2>2, <3>1
        <3> HIDE DEF new
        <3>4. ASSUME NEW b \in Ballot
              PROVE  ~quorum_reached({a \in DOMAIN c.acks : c.acks[a].ballot = b})
            <4>1. {a \in DOMAIN c.acks : c.acks[a].ballot = b}
                    = {a \in DOMAIN new : new[a].ballot = b}
                BY <3>3
            <4> QED
                BY <3>2, <4>1
        <3> QED
            BY <3>3, <3>4, Zenon DEF NoQuorumYet
    <2> QED
        BY <2>4, <2>5
<1> QED
    BY <1>2, <1>3 DEF instance_update

(* A new instance has no quorum: instance_new. *)
LEMMA FreshInstance ==
    ASSUME NEW b \in Ballot
    PROVE  learner_instance(b) \in LearnerInstance /\ NoQuorumYet(learner_instance(b))
<1> DEFINE inst == learner_instance(b)
<1>1. inst \in LearnerInstance
    BY EmptyTables DEF learner_instance, LearnerInstance
<1>2. DOMAIN inst.acks = {}
    BY DEF learner_instance
<1>3. \A n \in Ballot : {a \in DOMAIN inst.acks : inst.acks[a].ballot = n} = {}
    BY <1>2
<1>4. ~quorum_reached({})
    BY QuorumFacts
<1> QED
    BY <1>1, <1>3, <1>4 DEF NoQuorumYet

(* learner_receive_accepted keeps the table in order: the message goes to an
   instance from current_iid on, and a closed one is counted as closed. *)
LEMMA ReceiveTable ==
    ASSUME NEW m \in Announcement, NEW l0 \in LearnerStruct, TableOK(l0),
           NEW l, l = learner_receive_accepted(l0, m)
    PROVE  TableOK(l)
<1> DEFINE l1 == IF l0.late_start
                 THEN [l0 EXCEPT !.late_start = FALSE, !.current_iid = m.iid] ELSE l0
           first == learner_get_instance_or_create(l1, m)
           inst == close_instance(instance_update(first, m))
           table == [i \in DOMAIN l1.instances \cup {m.iid} |->
                        IF i = m.iid THEN inst ELSE l1.instances[i]]
           highest == IF inst.final_value # None THEN highest_closed(l1, m.iid)
                      ELSE l1.highest_iid_closed
<1>1. m.iid \in Iid /\ m.iid \in Nat /\ m.iid > 0 /\ m.ballot \in Ballot
    <2>1. m.iid \in Iid /\ m.ballot \in Ballot
        BY DEF Announcement
    <2> QED
        BY <2>1, IidPositive
<1>2. /\ l1 \in LearnerStruct /\ l1.instances = l0.instances /\ ~l1.late_start
      /\ l1.highest_iid_closed = l0.highest_iid_closed
      /\ l1.current_iid = IF l0.late_start THEN m.iid ELSE l0.current_iid
    <2>1. CASE l0.late_start
        <3>1. l1 = [l0 EXCEPT !.late_start = FALSE, !.current_iid = m.iid]
            BY <2>1
        <3> HIDE DEF l1
        <3> QED
            BY <1>1, <2>1, <3>1 DEF LearnerStruct
    <2>2. CASE ~l0.late_start
        BY <2>2 DEF LearnerStruct
    <2> QED
        BY <2>1, <2>2
<1> HIDE DEF l1
<1>3. /\ l1.current_iid \in Nat /\ l1.highest_iid_closed \in Nat
      /\ l1.instances \in InstanceTable /\ DOMAIN l1.instances \subseteq Nat
      /\ \A i \in DOMAIN l1.instances : l1.instances[i] \in LearnerInstance
    BY <1>2, InstanceTableFacts, MessagesAssumption DEF LearnerStruct
<1>4. TableOK(l1)
    <2>1. Closed(l1) = Closed(l0)
        BY <1>2 DEF Closed
    <2>2. CASE l0.late_start
        <3>1. DOMAIN l1.instances = {} /\ Closed(l1) = {} /\ l1.highest_iid_closed <= 1
            BY <1>2, <2>2 DEF TableOK, Closed
        <3> QED
            BY <1>1, <1>2, <1>3, <2>2, <3>1 DEF TableOK
    <2>3. CASE ~l0.late_start
        BY <1>2, <2>1, <2>3 DEF TableOK
    <2> QED
        BY <2>2, <2>3
<1>5. CASE l = l1
    BY <1>4, <1>5
<1>6. CASE /\ m.iid >= l1.current_iid
           /\ l = [l1 EXCEPT !.instances = table, !.highest_iid_closed = highest]
    <2>1. first \in LearnerInstance /\ NoQuorumYet(first)
        <3>1. CASE m.iid \in DOMAIN l1.instances
            BY <1>3, <1>4, <3>1 DEF TableOK, learner_get_instance_or_create
        <3>2. CASE m.iid \notin DOMAIN l1.instances
            BY <1>1, <3>2, FreshInstance DEF learner_get_instance_or_create
        <3> QED
            BY <3>1, <3>2
    <2>2. /\ NoQuorumYet(inst)
          /\ first.final_value # None => inst.final_value # None
        <3> HIDE DEF first
        <3> QED
            BY <2>1, UpdateNotices
    <2>3. m.iid \in Closed(l1) => inst.final_value # None
        BY <2>2 DEF Closed, learner_get_instance_or_create
    <2> HIDE DEF inst, first
    <2>4. /\ l.instances = table /\ l.highest_iid_closed = highest
          /\ l.current_iid = l1.current_iid /\ ~l.late_start
        <3> HIDE DEF table, highest
        <3> QED
            BY <1>2, <1>6 DEF LearnerStruct
    <2>5. \A i \in DOMAIN table : i >= l1.current_iid /\ NoQuorumYet(table[i])
        BY <1>4, <1>6, <2>2 DEF TableOK
    <2>6. /\ inst.final_value # None => Closed(l) = Closed(l1) \cup {m.iid}
          /\ inst.final_value = None => Closed(l) = Closed(l1)
        <3>1. \A i : i \in Closed(l) <=>
                 /\ i \in DOMAIN l1.instances \cup {m.iid}
                 /\ (IF i = m.iid THEN inst ELSE l1.instances[i]).final_value # None
            BY <2>4 DEF Closed
        <3>2. \A i : i \in Closed(l1) <=>
                 i \in DOMAIN l1.instances /\ l1.instances[i].final_value # None
            BY DEF Closed
        <3> QED
            BY <2>3, <3>1, <3>2
    <2>7. /\ highest \in Nat /\ highest >= l1.highest_iid_closed
          /\ inst.final_value # None => highest >= m.iid
          /\ \/ highest = l1.highest_iid_closed
             \/ highest = m.iid /\ inst.final_value # None
        BY <1>1, <1>3 DEF highest_closed
    <2> HIDE DEF highest, table
    <2>8. Closed(l1) \subseteq Nat
        BY <1>3 DEF Closed
    <2>9. \A i \in Closed(l) : i <= highest
        BY <1>1, <1>3, <1>4, <2>6, <2>7, <2>8 DEF TableOK
    <2>10. highest > l1.current_iid => highest \in Closed(l)
        BY <1>4, <2>6, <2>7 DEF TableOK
    <2> QED
        BY <1>4, <2>4, <2>5, <2>9, <2>10 DEF TableOK
<1> QED
    <2>1. m.iid < l1.current_iid \/ m.iid >= l1.current_iid
        BY <1>1, <1>3
    <2> QED
        BY <1>5, <1>6, <2>1 DEF learner_receive_accepted, l1

(* Delivery keeps the table in order: evlearner_deliver_next_closed removes what
   it delivers, all of it below the new current_iid. *)
LEMMA DeliverTable ==
    ASSUME NEW l \in LearnerStruct, IsFiniteSet(DOMAIN l.instances), TableOK(l),
           ~l.late_start
    PROVE  TableOK(AfterDelivery(l))
<1> DEFINE D == Deliverable(l)
           n == Cardinality(D)
           c == l.current_iid
           after == AfterDelivery(l)
           Rest == DOMAIN l.instances \ D
<1>1. /\ c \in Nat /\ l.highest_iid_closed \in Nat /\ DOMAIN l.instances \subseteq Nat
      /\ l.instances \in InstanceTable
    BY InstanceTableFacts, MessagesAssumption DEF LearnerStruct
<1>2. IsFiniteSet(D) /\ n \in Nat /\ \A k \in Nat : k < n => c + k \in D
    BY DeliverableInterval
<1>3. /\ after.instances = Restrict(l.instances, Rest)
      /\ after.current_iid = c + n /\ after.late_start = l.late_start
      /\ after.highest_iid_closed = l.highest_iid_closed
    BY DEF AfterDelivery, LearnerStruct
<1>4. /\ DOMAIN after.instances = Rest
      /\ \A i \in Rest : after.instances[i] = l.instances[i]
    BY <1>3 DEF Restrict
<1>5. \A i \in D : i < c + n
    <2> SUFFICES ASSUME NEW i \in D, i >= c + n PROVE FALSE
        BY <1>1, <1>2 DEF Deliverable, Closed
    <2>1. i \in Nat /\ c .. (c + n) \subseteq D
        <3>1. i \in Nat /\ i \in Closed(l) /\ c .. i \subseteq Closed(l)
            BY <1>1 DEF Deliverable, Closed
        <3>2. ASSUME NEW j \in c .. (c + n) PROVE j \in D
            <4>1. j \in Nat /\ c <= j /\ j <= i
                BY <1>1, <1>2, <3>1
            <4>2. j \in c .. i /\ c .. j \subseteq c .. i
                BY <1>1, <3>1, <4>1
            <4>3. j \in Closed(l) /\ c .. j \subseteq Closed(l) /\ j >= c
                BY <1>1, <3>1, <4>1, <4>2
            <4> QED
                BY <4>3, Zenon DEF Deliverable
        <3> QED
            BY <3>1, <3>2
    <2> DEFINE J == c .. (c + n)
    <2>2. IsFiniteSet(J) /\ Cardinality(J) = n + 1
        <3> HIDE DEF n, c
        <3>1. c \in Int /\ c + n \in Int /\ ~(c > c + n) /\ (c + n) - c + 1 = n + 1
            BY <1>1, <1>2
        <3> DEFINE top == c + n
        <3> HIDE DEF top
        <3>2. c \in Int /\ top \in Int /\ ~(c > top) /\ top - c + 1 = n + 1
            BY <3>1 DEF top
        <3>3. IsFiniteSet(c .. top) /\ Cardinality(c .. top) = n + 1
            BY <3>2, FS_Interval
        <3> QED
            BY <3>3 DEF top
    <2> HIDE DEF J
    <2>3. Cardinality(J) <= n
        BY <1>2, <2>1, FS_Subset DEF J
    <2> QED
        BY <1>2, <2>2, <2>3
<1>6. Closed(after) = Closed(l) \ D
    <2>1. \A i : i \in Closed(after) <=>
              i \in Rest /\ l.instances[i].final_value # None
        BY <1>4 DEF Closed
    <2>2. \A i : i \in Closed(l) <=>
              i \in DOMAIN l.instances /\ l.instances[i].final_value # None
        BY DEF Closed
    <2> QED
        BY <2>1, <2>2
<1>7. \A i \in Rest : i >= c + n
    <2> SUFFICES ASSUME NEW i \in Rest, i < c + n PROVE FALSE
        BY <1>1, <1>2
    <2>1. i \in Nat /\ i >= c
        BY <1>1 DEF TableOK
    <2>2. i - c \in Nat /\ i - c < n /\ c + (i - c) = i
        BY <1>1, <1>2, <2>1
    <2> QED
        BY <1>2, <2>2
<1> HIDE DEF D, n, after
<1>8. l.highest_iid_closed > c + n => l.highest_iid_closed \in Closed(l) \ D
    <2> SUFFICES ASSUME l.highest_iid_closed > c + n
                 PROVE  l.highest_iid_closed \in Closed(l) \ D
        OBVIOUS
    <2>1. l.highest_iid_closed > c /\ l.highest_iid_closed \notin D
        BY <1>1, <1>2, <1>5
    <2> QED
        BY <2>1 DEF TableOK
<1>9. c + n > 0
    BY <1>1, <1>2 DEF TableOK
<1>10. \A i \in DOMAIN after.instances :
          i >= after.current_iid /\ NoQuorumYet(after.instances[i])
    BY <1>3, <1>4, <1>7 DEF TableOK
<1>11. \A i \in Closed(after) : i <= after.highest_iid_closed
    BY <1>3, <1>6 DEF TableOK
<1>12. TableOK(after)
    BY <1>3, <1>6, <1>8, <1>9, <1>10, <1>11 DEF TableOK
<1> QED
    BY <1>12 DEF after

(* However a learner starts, its table is empty and in order. *)
LEMMA StartTable ==
    ASSUME NEW l \in StartStates
    PROVE  TableOK(l)
<1>1. ASSUME NEW late \in BOOLEAN
      PROVE  LET s == learner_new(late)
             IN  /\ s.current_iid = 1 /\ s.highest_iid_closed = 1
                 /\ DOMAIN s.instances = {} /\ s.late_start = late
    BY DEF learner_new
<1>2. ASSUME NEW i \in Iid
      PROVE  LET s == learner_set_instance_id(learner_new(FALSE), i)
             IN  /\ s.current_iid = i + 1 /\ s.highest_iid_closed = i
                 /\ DOMAIN s.instances = {} /\ s.late_start = FALSE
    BY DEF learner_new, learner_set_instance_id
<1>3. /\ l.current_iid > 0 /\ DOMAIN l.instances = {}
      /\ ~(l.highest_iid_closed > l.current_iid)
      /\ l.late_start => l.highest_iid_closed <= 1
    <2>1. CASE \E late \in BOOLEAN : l = learner_new(late)
        BY <1>1, <2>1
    <2>2. CASE \E i \in Iid : l = learner_set_instance_id(learner_new(FALSE), i)
        <3>1. PICK i \in Iid : l = learner_set_instance_id(learner_new(FALSE), i)
            BY <2>2
        <3>2. /\ l.current_iid = i + 1 /\ l.highest_iid_closed = i
              /\ DOMAIN l.instances = {} /\ l.late_start = FALSE
            BY <1>2, <3>1
        <3>3. i \in Nat
            BY IidPositive
        <3> QED
            BY <3>2, <3>3
    <2> QED
        BY <2>1, <2>2, Zenon DEF StartStates
<1> QED
    BY <1>3 DEF TableOK, Closed

(* evlearner_handle_accepted keeps every table in order. *)
LEMMA HandleAcceptedTables ==
    ASSUME NEW R, RepliesOK(R), LearnersOK(learner, delivered, R),
           \A s \in Learners : TableOK(learner[s]),
           NEW r \in Learners, NEW m \in Announcement, RepliesOK(R \cup {m}),
           m.to = r, evlearner_handle_accepted(r, m)
    PROVE  \A s \in Learners : TableOK(learner'[s])
<1> DEFINE l == learner_receive_accepted(learner[r], m)
<1>1. LearnerOK(learner[r], r, R) /\ learner[r] \in LearnerStruct
    BY DEF LearnersOK, LearnerOK
<1>2. l \in LearnerStruct /\ IsFiniteSet(DOMAIN l.instances) /\ ~l.late_start
    <2> HIDE DEF l
    <2>1. Received(l, learner[r], r, m, R)
        BY <1>1, ReceiveOK DEF l, RepliesOK
    <2> QED
        BY <2>1, Zenon DEF Received, LearnerOK
<1>3. TableOK(l)
    BY <1>1, ReceiveTable
<1> HIDE DEF l
<1>4. TableOK(AfterDelivery(l))
    BY <1>2, <1>3, DeliverTable
<1>5. /\ learner'[r] = AfterDelivery(l)
      /\ \A s \in Learners \ {r} : learner'[s] = learner[s]
    BY DEF evlearner_handle_accepted, LearnersOK, l
<1> QED
    BY <1>4, <1>5

(* The invariant of the tables, on top of LearnerInv. *)
THEOREM TablesInvariant == LearnerSpec => [](\A r \in Learners : TableOK(learner[r]))
<1> DEFINE Tables == \A r \in Learners : TableOK(learner[r])
<1>1. LearnerInit => Tables
    BY StartTable DEF LearnerInit
<1>2. Tables /\ LearnerInv /\ [LearnerNext]_<<learnerVars, requests, replies>> => Tables'
    <2> SUFFICES ASSUME Tables, LearnerInv,
                        [LearnerNext]_<<learnerVars, requests, replies>>
                 PROVE  Tables'
        OBVIOUS
    <2>1. CASE UNCHANGED <<learnerVars, requests, replies>>
        BY <2>1 DEF learnerVars
    <2>2. ASSUME NEW r \in Learners, AcceptorAnnounces(r) PROVE Tables'
        <3>1. PICK m \in Announcement :
                 /\ m.to = r
                 /\ \A k \in replies :
                       k.iid = m.iid /\ k.ballot = m.ballot => k.value = m.value
                 /\ evlearner_handle_accepted(r, m)
            BY <2>2, AnnouncedMessage
        <3>2. RepliesOK(replies) /\ RepliesOK(replies \cup {m})
            BY <3>1, AnnouncementAdded DEF LearnerInv
        <3> QED
            BY <3>1, <3>2, HandleAcceptedTables DEF LearnerInv
    <2> QED
        BY <2>1, <2>2 DEF LearnerNext
<1> QED
    BY <1>1, <1>2, LearnerInvariant, PTL DEF LearnerSpec

(* The types of struct learner, from what the table holds. *)
LEMMA LearnersTyped ==
    ASSUME NEW R, LearnersOK(learner, delivered, R), \A r \in Learners : TableOK(learner[r])
    PROVE  LearnerTypeOK
<1> SUFFICES ASSUME NEW r \in Learners
             PROVE  LET l == learner[r]
                    IN  /\ l.current_iid \in Nat /\ l.highest_iid_closed \in Nat
                        /\ DOMAIN l.instances \subseteq {i \in Iid : i >= l.current_iid}
                        /\ \A i \in DOMAIN l.instances :
                              /\ DOMAIN l.instances[i].acks \subseteq Replica
                              /\ l.instances[i].final_value \in Value \cup {None}
    BY DEF LearnerTypeOK, LearnersOK
<1> DEFINE l == learner[r]
<1>1. l \in LearnerStruct /\ TableOK(l)
    BY DEF LearnersOK, LearnerOK
<1> HIDE DEF l
<1>2. /\ l.current_iid \in Nat /\ l.highest_iid_closed \in Nat
      /\ l.instances \in InstanceTable
    BY <1>1 DEF LearnerStruct
<1>3. DOMAIN l.instances \subseteq {i \in Iid : i >= l.current_iid}
    BY <1>1, <1>2, InstanceTableFacts DEF TableOK
<1>4. ASSUME NEW i \in DOMAIN l.instances
      PROVE  /\ DOMAIN l.instances[i].acks \subseteq Replica
             /\ l.instances[i].final_value \in Value \cup {None}
    <2>1. l.instances[i] \in LearnerInstance
        BY <1>2, InstanceTableFacts
    <2> QED
        BY <2>1, AckTableFacts DEF LearnerInstance
<1> QED
    BY <1>2, <1>3, <1>4 DEF l

(* The counters and the table of struct learner keep their types, and nothing
   that was delivered stays in the table. *)
THEOREM LearnerTypeInvariant == LearnerSpec => []LearnerTypeOK
<1>1. LearnerInv /\ (\A r \in Learners : TableOK(learner[r])) => LearnerTypeOK
    BY LearnersTyped DEF LearnerInv
<1> QED
    BY <1>1, LearnerInvariant, TablesInvariant, PTL

(* A complete quorum is noticed at once, although instance_has_quorum looks only
   at the ballot of the ack that came last. *)
THEOREM NoticesQuorum == LearnerSpec => []QuorumNoticed
<1>1. LearnerInv /\ (\A r \in Learners : TableOK(learner[r])) => QuorumNoticed
    <2> SUFFICES ASSUME LearnerInv, \A r \in Learners : TableOK(learner[r])
                 PROVE  QuorumNoticed
        OBVIOUS
    <2>1. DOMAIN learner = Learners
        BY DEF LearnerInv, LearnersOK
    <2>2. \A r \in Learners : \A i \in DOMAIN learner[r].instances :
             NoQuorumYet(learner[r].instances[i])
        BY DEF TableOK
    <2> QED
        BY <2>1, <2>2, Zenon DEF QuorumNoticed, NoQuorumYet
<1> QED
    BY <1>1, LearnerInvariant, TablesInvariant, PTL

(* learner_has_holes is exact: highest_iid_closed is beyond current_iid just when
   a closed instance waits behind a gap. *)
THEOREM NoticesHoles == LearnerSpec => []HolesNoticed
<1>1. LearnerInv /\ (\A r \in Learners : TableOK(learner[r])) => HolesNoticed
    <2> SUFFICES ASSUME LearnerInv, \A r \in Learners : TableOK(learner[r]),
                        NEW r \in Learners
                 PROVE  learner_has_holes(learner[r])
                           <=> \E i \in Closed(learner[r]) : i > learner[r].current_iid
        BY DEF HolesNoticed, LearnerInv, LearnersOK
    <2> DEFINE l == learner[r]
    <2>1. l \in LearnerStruct /\ TableOK(l)
        BY DEF LearnerInv, LearnersOK, LearnerOK
    <2> HIDE DEF l
    <2>2. /\ l.current_iid \in Nat /\ l.highest_iid_closed \in Nat
          /\ l.instances \in InstanceTable
        BY <2>1 DEF LearnerStruct
    <2>3. Closed(l) \subseteq Nat
        BY <2>2, InstanceTableFacts, MessagesAssumption DEF Closed
    <2>4. l.highest_iid_closed > l.current_iid
             <=> \E i \in Closed(l) : i > l.current_iid
        BY <2>1, <2>2, <2>3 DEF TableOK
    <2> QED
        BY <2>4, Zenon DEF l, learner_has_holes
<1> QED
    BY <1>1, LearnerInvariant, TablesInvariant, PTL

-------------------------------------------------------------------------------
(***************************************************************************)
(* What the other components of a replica can rely on.                     *)
(***************************************************************************)

(* More voters are still a majority. *)
LEMMA MajorityGrows ==
    ASSUME NEW A, NEW B \in SUBSET Replica, A \subseteq B, Majority(A)
    PROVE  Majority(B)
<1>1. IsFiniteSet(B) /\ IsFiniteSet(A)
    BY ReplicasFinite, FS_Subset
<1>2. /\ Cardinality(A) \in Nat /\ Cardinality(B) \in Nat
      /\ Cardinality(A) <= Cardinality(B)
    BY <1>1, FS_Subset, FS_CardinalityType
<1> QED
    BY <1>2, TopologyAssumption DEF Majority

(* A majority is not empty: what is decided, some acceptor has announced. *)
LEMMA DecidedAnnounced ==
    ASSUME NEW R, NEW r, NEW i, NEW v, Decided(R, r, i, v)
    PROVE  \E m \in R : m.type = "ACCEPTED" /\ m.to = r /\ m.iid = i /\ m.value = v
<1>1. PICK b \in Ballot : Majority(AcksFor(R, r, i, b, v))
    BY DEF Decided
<1>2. AcksFor(R, r, i, b, v) # {}
    <2> SUFFICES ASSUME AcksFor(R, r, i, b, v) = {} PROVE FALSE
        OBVIOUS
    <2>1. Cardinality(AcksFor(R, r, i, b, v)) = 0
        BY FS_EmptySet
    <2> QED
        BY <1>1, <2>1, TopologyAssumption DEF Majority
<1> QED
    BY <1>2 DEF AcksFor

(* Learners that receive nothing, when more is announced. *)
LEMMA LearnersQuiet ==
    ASSUME NEW L, NEW D, NEW R, NEW T, R \subseteq T, RepliesOK(T), LearnersOK(L, D, R)
    PROVE  LearnersOK(L, D, T)
<1>1. ASSUME NEW r \in Learners
      PROVE  LearnerOK(L[r], r, T) /\ DeliveredOK(D[r], L[r].current_iid - 1, r, T)
    <2>1. LearnerOK(L[r], r, R) /\ DeliveredOK(D[r], L[r].current_iid - 1, r, R)
        BY DEF LearnersOK
    <2> QED
        BY <2>1, MoreReplies
<1> QED
    BY <1>1 DEF LearnersOK

(* The last instance that can be delivered: Max finds it. *)
LEMMA LastDeliverable ==
    ASSUME NEW l \in LearnerStruct, IsFiniteSet(DOMAIN l.instances)
    PROVE  Max({0} \cup Deliverable(l)) \in {0} \cup Deliverable(l)
<1> DEFINE D == Deliverable(l)
           n == Cardinality(D)
           c == l.current_iid
<1>1. /\ IsFiniteSet(D) /\ n \in Nat /\ c \in Nat
      /\ \A k \in Nat : k < n => c + k \in D
    BY DeliverableInterval DEF LearnerStruct
<1>2. D \subseteq Nat
    BY InstanceTableFacts, MessagesAssumption DEF LearnerStruct, Deliverable, Closed
<1>3. \A d \in D : d >= c /\ c .. d \subseteq D
    BY <1>1, <1>2 DEF Deliverable
<1> HIDE DEF D
<1>4. \E x \in {0} \cup D : \A y \in {0} \cup D : x >= y
    <2>1. CASE D = {}
        BY <2>1
    <2>2. CASE D # {}
        <3>1. n # 0
            BY <1>1, <2>2, FS_EmptySet
        <3>2. n - 1 \in Nat /\ n - 1 < n
            BY <1>1, <3>1
        <3>3. c + (n - 1) \in D
            BY <1>1, <3>2
        <3>4. ASSUME NEW y \in D PROVE c + (n - 1) >= y
            <4> SUFFICES ASSUME ~(c + (n - 1) >= y) PROVE FALSE
                OBVIOUS
            <4>1. y \in Nat /\ y >= c
                BY <1>2, <1>3
            <4> HIDE DEF n, c
            <4>2. y - c + 1 > n
                BY <1>1, <4>1
            <4>3. Cardinality(c .. y) = y - c + 1
                BY <1>1, <4>1, FS_Interval
            <4>4. Cardinality(c .. y) <= n
                BY <1>1, <1>3, FS_Subset DEF n
            <4> QED
                BY <1>1, <4>1, <4>2, <4>3, <4>4
        <3> QED
            BY <1>1, <1>2, <3>2, <3>3, <3>4
    <2> QED
        BY <2>1, <2>2
<1> QED
    BY <1>4 DEF Max, D

(* What evpaxos_replica_deliver reports to the proposer was announced: an instance
   is settled only when acceptors have voted in it. *)
LEMMA SettledWasAnnounced ==
    ASSUME NEW R, RepliesOK(R), NEW r, NEW l0, LearnerOK(l0, r, R), NEW m \in R, m.to = r,
           NEW i, i = Max({0} \cup Deliverable(learner_receive_accepted(l0, m)))
    PROVE  i = 0 \/ (i \in Iid /\ \E k \in R : k.type = "ACCEPTED" /\ k.iid = i)
<1> DEFINE l == learner_receive_accepted(l0, m)
<1>1. R \cup {m} = R /\ m \in Announcement /\ R \subseteq Announcement
    BY DEF RepliesOK
<1>2. LearnerOK(l, r, R)
    <2> HIDE DEF l
    <2>1. Received(l, l0, r, m, R)
        BY <1>1, ReceiveOK DEF l
    <2> QED
        BY <1>1, <2>1 DEF Received
<1>3. i = Max({0} \cup Deliverable(l))
    OBVIOUS
<1> HIDE DEF l
<1>4. i \in {0} \cup Deliverable(l)
    BY <1>2, <1>3, LastDeliverable DEF LearnerOK
<1>5. ASSUME i \in Deliverable(l)
      PROVE  i \in Iid /\ \E k \in R : k.type = "ACCEPTED" /\ k.iid = i
    <2>1. i \in DOMAIN l.instances /\ l.instances[i].final_value # None
        BY <1>5 DEF Deliverable, Closed
    <2>2. i \in Iid
        BY <1>2, <2>1, InstanceTableFacts DEF LearnerOK, LearnerStruct
    <2>3. Decided(R, r, i, l.instances[i].final_value)
        BY <1>2, <2>1 DEF LearnerOK, InstanceOK
    <2> QED
        BY <2>2, <2>3, DecidedAnnounced
<1> QED
    BY <1>4, <1>5

(* Learners that began with the first instance: the k-th delivery is instance k. *)
FromFirst(L, D) ==
    \A r \in Learners : ~L[r].late_start /\ L[r].current_iid = Len(D[r]) + 1

(* They go on like this, each delivery being added to what r has delivered. *)
LEMMA DeliveriesExtend ==
    ASSUME NEW R, RepliesOK(R), LearnersOK(learner, delivered, R), FromFirst(learner, delivered),
           NEW r \in Learners, NEW m \in R, m.to = r, evlearner_handle_accepted(r, m)
    PROVE  /\ FromFirst(learner', delivered')
           /\ \A s \in Learners \ {r} : delivered'[s] = delivered[s]
           /\ \E e \in Seq(Nat \X Value) : delivered'[r] = delivered[r] \o e
<1> DEFINE l == learner_receive_accepted(learner[r], m)
           n == Cardinality(Deliverable(l))
           d == delivered[r]
<1>1. R \cup {m} = R /\ m \in Announcement /\ R \subseteq Announcement
    BY DEF RepliesOK
<1>2. LearnerOK(learner[r], r, R) /\ d \in Seq(Nat \X Value)
    BY DEF LearnersOK, DeliveredOK
<1>3. LearnerOK(l, r, R) /\ ~l.late_start /\ l.current_iid = Len(d) + 1
    <2> HIDE DEF l
    <2>1. Received(l, learner[r], r, m, R)
        BY <1>1, <1>2, ReceiveOK DEF l
    <2> QED
        BY <1>1, <2>1 DEF Received, FromFirst
<1>4. /\ learner'[r] = AfterDelivery(l) /\ delivered'[r] = d \o Deliveries(l)
      /\ \A s \in Learners \ {r} : learner'[s] = learner[s] /\ delivered'[s] = delivered[s]
    BY DEF evlearner_handle_accepted, LearnersOK
<1> HIDE DEF l
<1>5. l \in LearnerStruct /\ n \in Nat /\ \A k \in Nat : k < n => l.current_iid + k \in Deliverable(l)
    BY <1>3, DeliverableInterval DEF LearnerOK
<1>6. /\ AfterDelivery(l).current_iid = l.current_iid + n
      /\ AfterDelivery(l).late_start = l.late_start
    BY <1>5 DEF AfterDelivery, LearnerStruct
<1>7. \A k \in 1 .. n : <<l.current_iid + k - 1,
                         l.instances[l.current_iid + k - 1].final_value>> \in Nat \X Value
    <2> SUFFICES ASSUME NEW k \in 1 .. n, NEW i, i = l.current_iid + k - 1
                 PROVE  <<i, l.instances[i].final_value>> \in Nat \X Value
        OBVIOUS
    <2>1. l.current_iid \in Nat
        BY <1>5 DEF LearnerStruct
    <2>2. k - 1 \in Nat /\ k - 1 < n /\ i = l.current_iid + (k - 1) /\ i \in Nat
        BY <1>5, <2>1
    <2>3. i \in Deliverable(l)
        BY <1>5, <2>2
    <2>4. i \in DOMAIN l.instances /\ l.instances[i].final_value # None
        BY <2>3 DEF Deliverable, Closed
    <2>5. l.instances[i] \in LearnerInstance
        BY <1>3, <2>4 DEF LearnerOK, InstanceOK
    <2> QED
        BY <2>2, <2>4, <2>5 DEF LearnerInstance
<1>8. Deliveries(l) \in Seq(Nat \X Value) /\ Len(Deliveries(l)) = n
    BY <1>5, <1>7 DEF Deliveries
<1>9. Len(d \o Deliveries(l)) = Len(d) + n /\ Len(d) \in Nat
    <2>1. \A S : \A x, y \in Seq(S) : Len(x \o y) = Len(x) + Len(y) /\ Len(x) \in Nat
        OBVIOUS
    <2> HIDE DEF d, n
    <2> QED
        BY <1>2, <1>8, <2>1, Zenon
<1>10. learner'[r].current_iid = Len(delivered'[r]) + 1 /\ ~learner'[r].late_start
    <2> HIDE DEF n, d
    <2>1. learner'[r].current_iid = (Len(d) + 1) + n /\ Len(delivered'[r]) = Len(d) + n
        BY <1>3, <1>4, <1>6, <1>9
    <2> QED
        BY <1>3, <1>4, <1>5, <1>6, <1>9, <2>1
<1> QED
    BY <1>4, <1>8, <1>10 DEF FromFirst

-------------------------------------------------------------------------------
(* The logs D are one: position k of any of them holds the value of instance k, the
   same in all, and no other position does. *)
FullLogs(D) ==
    \A r \in Learners : D[r] \in Seq(Nat \X Value) /\ \A k \in DOMAIN D[r] : D[r][k][1] = k
SameValues(D) ==
    \A r, q \in Learners : \A k \in DOMAIN D[r], j \in DOMAIN D[q] :
        k = j <=> D[r][k][2] = D[q][j][2]
OneLog(D) == FullLogs(D) /\ SameValues(D)

(* What the clients submitted is all there is in the logs. *)
FromClients(D, G) == \A r \in Learners : \A k \in DOMAIN D[r] : \E s \in G : s[2] = D[r][k][2]

(* The values of a log, without the instances. *)
Values(d) == [k \in DOMAIN d |-> d[k][2]]

(* They are a sequence of the same length. *)
LEMMA ValuesOf ==
    ASSUME NEW d \in Seq(Nat \X Value)
    PROVE  /\ DOMAIN d = 1 .. Len(d) /\ Len(d) \in Nat /\ DOMAIN Values(d) = 1 .. Len(d)
           /\ \A k \in 1 .. Len(d) : Values(d)[k] = d[k][2]
           /\ Values(d) \in [1 .. Len(d) -> Value]
           /\ Values(d) \in Seq(Value) /\ Len(Values(d)) = Len(d)
<1>1. DOMAIN d = 1 .. Len(d) /\ Len(d) \in Nat
    OBVIOUS
<1>2. \A k \in 1 .. Len(d) : d[k][2] \in Value
    OBVIOUS
<1>3. Values(d) = [k \in 1 .. Len(d) |-> d[k][2]]
    BY <1>1 DEF Values
<1> DEFINE f == [k \in 1 .. Len(d) |-> d[k][2]]
<1>4. f \in Seq(Value) /\ Len(f) = Len(d)
    BY <1>1, <1>2
<1> QED
    BY <1>1, <1>2, <1>3, <1>4

(* What is appended to a log is appended to its values. *)
LEMMA ValuesFacts ==
    ASSUME NEW d \in Seq(Nat \X Value), NEW e \in Seq(Nat \X Value)
    PROVE  Values(d) \o Values(e) = Values(d \o e)
<1> DEFINE f == Values(d)
           g == Values(e)
           h == Values(d \o e)
<1>1. /\ d \o e \in Seq(Nat \X Value) /\ Len(d \o e) = Len(d) + Len(e)
      /\ Len(d) \in Nat /\ Len(e) \in Nat
      /\ \A k \in 1 .. Len(d) + Len(e) :
            (d \o e)[k] = IF k <= Len(d) THEN d[k] ELSE e[k - Len(d)]
    OBVIOUS
<1>2. /\ f \in Seq(Value) /\ Len(f) = Len(d) /\ \A k \in 1 .. Len(d) : f[k] = d[k][2]
      /\ g \in Seq(Value) /\ Len(g) = Len(e) /\ \A k \in 1 .. Len(e) : g[k] = e[k][2]
    BY ValuesOf
<1>3. /\ h \in Seq(Value) /\ Len(h) = Len(d) + Len(e)
      /\ \A k \in 1 .. Len(d) + Len(e) : h[k] = (d \o e)[k][2]
    BY <1>1, ValuesOf
<1> HIDE DEF f, g, h
<1>4. /\ f \o g \in Seq(Value) /\ Len(f \o g) = Len(d) + Len(e)
      /\ \A k \in 1 .. Len(d) + Len(e) :
            (f \o g)[k] = IF k <= Len(d) THEN f[k] ELSE g[k - Len(d)]
    <2>1. f \in Seq(Value) /\ g \in Seq(Value)
        BY <1>2
    <2>2. /\ f \o g \in Seq(Value) /\ Len(f \o g) = Len(f) + Len(g)
          /\ \A k \in 1 .. Len(f) + Len(g) :
                (f \o g)[k] = IF k <= Len(f) THEN f[k] ELSE g[k - Len(f)]
        BY <2>1
    <2> QED
        BY <1>2, <2>2
<1>5. ASSUME NEW k \in 1 .. Len(d) + Len(e) PROVE (f \o g)[k] = h[k]
    <2>1. CASE k <= Len(d)
        BY <1>1, <1>2, <1>3, <1>4, <2>1
    <2>2. CASE ~(k <= Len(d))
        <3>1. k - Len(d) \in 1 .. Len(e)
            BY <1>1, <2>2
        <3> QED
            BY <1>1, <1>2, <1>3, <1>4, <2>2, <3>1
    <2> QED
        BY <2>1, <2>2
<1>6. f \o g = h
    <2> DEFINE n == Len(d) + Len(e)
               fg == f \o g
    <2>1. fg \in Seq(Value) /\ h \in Seq(Value) /\ Len(fg) = n /\ Len(h) = n
        BY <1>3, <1>4
    <2>2. \A k \in 1 .. n : fg[k] = h[k]
        BY <1>5
    <2> HIDE DEF n, fg
    <2>3. fg = h
        BY <2>1, <2>2
    <2> QED
        BY <2>3 DEF fg
<1> QED
    BY <1>6 DEF f, g, h

(* A log has no more values than there are. *)
LEMMA ShortLog ==
    ASSUME IsFiniteSet(Value), NEW n \in Nat, NEW f \in [1 .. n -> Value],
           \A i, j \in 1 .. n : f[i] = f[j] => i = j
    PROVE  n \in 0 .. Cardinality(Value)
<1>1. f \in Injection(1 .. n, Value)
    BY DEF Injection, IsInjective
<1>2. Cardinality(1 .. n) <= Cardinality(Value)
    BY <1>1, FS_Injection
<1>3. Cardinality(1 .. n) = n
    BY FS_Interval
<1>4. Cardinality(Value) \in Nat
    BY FS_CardinalityType
<1> QED
    BY <1>2, <1>3, <1>4

(* No value twice; one log a prefix of the other. *)
Distinct(x) == \A i, j \in DOMAIN x : x[i] = x[j] => i = j
InLine(f, x) ==
    /\ \A k \in DOMAIN f \cap DOMAIN x : f[k] = x[k]
    /\ DOMAIN f \subseteq DOMAIN x \/ DOMAIN x \subseteq DOMAIN f

(* Logs that are one are without repetition, and any two are in line. *)
LEMMA LogsInLine ==
    ASSUME NEW D, OneLog(D), NEW r \in Learners, NEW q \in Learners
    PROVE  Distinct(Values(D[r])) /\ InLine(Values(D[q]), Values(D[r]))
<1> DEFINE X(s) == Values(D[s])
<1>1. ASSUME NEW s \in Learners
      PROVE  /\ Len(D[s]) \in Nat /\ DOMAIN D[s] = 1 .. Len(D[s])
             /\ DOMAIN X(s) = DOMAIN D[s] /\ \A k \in DOMAIN D[s] : X(s)[k] = D[s][k][2]
    <2>1. D[s] \in Seq(Nat \X Value)
        BY DEF OneLog, FullLogs
    <2> QED
        BY <2>1, ValuesOf
<1> HIDE DEF X
<1>2. ASSUME NEW i \in DOMAIN X(r), NEW j \in DOMAIN X(r), X(r)[i] = X(r)[j] PROVE i = j
    <2>1. i \in DOMAIN D[r] /\ j \in DOMAIN D[r] /\ D[r][i][2] = D[r][j][2]
        BY <1>1, <1>2
    <2>2. \A k \in DOMAIN D[r], l \in DOMAIN D[r] : k = l <=> D[r][k][2] = D[r][l][2]
        BY DEF OneLog, SameValues
    <2> QED
        BY <2>1, <2>2
<1>3. ASSUME NEW k \in DOMAIN X(q) \cap DOMAIN X(r) PROVE X(q)[k] = X(r)[k]
    <2>1. k \in DOMAIN D[q] /\ k \in DOMAIN D[r]
        BY <1>1, <1>3
    <2>2. D[q][k][2] = D[r][k][2]
        <3>1. \A i \in DOMAIN D[q], j \in DOMAIN D[r] : i = j <=> D[q][i][2] = D[r][j][2]
            BY DEF OneLog, SameValues
        <3> QED
            BY <2>1, <3>1
    <2> QED
        BY <1>1, <2>1, <2>2
<1>4. DOMAIN X(q) \subseteq DOMAIN X(r) \/ DOMAIN X(r) \subseteq DOMAIN X(q)
    <2>1. \A m, n \in Nat : 1 .. m \subseteq 1 .. n \/ 1 .. n \subseteq 1 .. m
        OBVIOUS
    <2> QED
        BY <1>1, <2>1
<1> QED
    BY <1>2, <1>3, <1>4, Zenon DEF X, Distinct, InLine

(* What a log grows by has no value twice either, and so no more values than there
   are. *)
LEMMA LogExtends ==
    ASSUME IsFiniteSet(Value), NEW D, OneLog(D), NEW r \in Learners,
           NEW d \in Seq(Nat \X Value), NEW e \in Seq(Nat \X Value), D[r] = d \o e
    PROVE  Values(e) \in UNION {[1 .. n -> Value] : n \in 0 .. Cardinality(Value)}
<1>1. /\ Len(e) \in Nat /\ Len(d) \in Nat /\ Values(e) \in [1 .. Len(e) -> Value]
      /\ \A k \in 1 .. Len(e) : Values(e)[k] = e[k][2]
    BY ValuesOf
<1>2. /\ DOMAIN D[r] = 1 .. Len(d) + Len(e)
      /\ \A k \in 1 .. Len(e) : D[r][Len(d) + k] = e[k]
    OBVIOUS
<1>3. ASSUME NEW i \in 1 .. Len(e), NEW j \in 1 .. Len(e), Values(e)[i] = Values(e)[j]
      PROVE  i = j
    <2>1. D[r][Len(d) + i][2] = D[r][Len(d) + j][2]
        <3>1. D[r][Len(d) + i] = e[i] /\ D[r][Len(d) + j] = e[j]
            BY <1>2
        <3>2. e[i][2] = e[j][2]
            BY <1>1, <1>3
        <3> QED
            BY <3>1, <3>2
    <2>2. Len(d) + i \in DOMAIN D[r] /\ Len(d) + j \in DOMAIN D[r]
        BY <1>1, <1>2
    <2>3. Len(d) + i = Len(d) + j
        <3>1. \A k \in DOMAIN D[r], l \in DOMAIN D[r] : k = l <=> D[r][k][2] = D[r][l][2]
            BY DEF OneLog, SameValues
        <3> QED
            BY <2>1, <2>2, <3>1
    <2> QED
        BY <1>1, <2>3
<1>4. Len(e) \in 0 .. Cardinality(Value)
    BY <1>1, <1>3, ShortLog
<1> QED
    BY <1>1, <1>4
===============================================================================
