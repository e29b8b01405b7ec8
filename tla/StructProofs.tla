---------------------------- MODULE StructProofs ----------------------------
(***************************************************************************)
(* The struct proposer, for any number of replicas, any instances,         *)
(* ballots, values and preexecution window: what must hold of it, and what *)
(* the parts of try_accept and the trims do to its queue and tables.  It is*)
(* shown of the struct on its own, whatever requests were sent and promises*)
(* received, so that the composed system can use it as well.               *)
(***************************************************************************)
EXTENDS Proposer, FiniteSetTheorems, TLAPS

ProposerTable == UNION {[I -> Instance] : I \in SUBSET Iid}
ProposerStruct ==
    [values : Seq(Value), max_trim_iid : Iid \cup {0},
     next_prepare_iid : Iid \cup {0},
     prepare_instances : ProposerTable, accept_instances : ProposerTable]

(* The instances of a table of p were opened by p, and carry p's ballots. *)
OpenedBy(p, h, last) ==
    \A i \in DOMAIN h :
        i <= last /\ OwnBallot(p, h[i].ballot) /\ h[i].ballot > 0

StructOK(p, s) ==
    /\ s \in ProposerStruct
    /\ DOMAIN s.prepare_instances \cap DOMAIN s.accept_instances = {}
    /\ OpenedBy(p, s.prepare_instances, s.next_prepare_iid)
    /\ OpenedBy(p, s.accept_instances, s.next_prepare_iid)

(* Where a client value is held: Holding of every value at once. *)
WithValue(h) == {i \in DOMAIN h : instance_has_value(h[i])}
Places(s) ==
    {<<"queue", k>> : k \in DOMAIN s.values}
    \cup {<<"prepare", i>> : i \in WithValue(s.prepare_instances)}
    \cup {<<"accept", i>> : i \in WithValue(s.accept_instances)}
ValueAt(s, x) ==
    IF x[1] = "queue" THEN s.values[x[2]]
    ELSE IF x[1] = "prepare" THEN s.prepare_instances[x[2]].value
    ELSE s.accept_instances[x[2]].value

HoldsOnce(s, V) ==
    /\ \A x, y \in Places(s) : ValueAt(s, x) = ValueAt(s, y) => x = y
    /\ {ValueAt(s, x) : x \in Places(s)} = V

(* The value instance_to_accept proposes. *)
Proposed(inst) ==
    IF instance_has_promised_value(inst) THEN inst.promised_value ELSE inst.value

(* The ACCEPT requests p has sent, among the requests Q: below what is being
   prepared, and the same as what is in the accept phase at that ballot. *)
AcceptsOf(p, Q) == {m \in Q : m.type = "ACCEPT" /\ m.src = p}
AcceptOK(p, s, m) ==
    /\ OwnBallot(p, m.ballot) /\ m.iid <= s.next_prepare_iid
    /\ m.iid \in DOMAIN s.prepare_instances =>
          m.ballot < s.prepare_instances[m.iid].ballot
    /\ m.iid \in DOMAIN s.accept_instances =>
          LET inst == s.accept_instances[m.iid]
          IN  /\ m.ballot <= inst.ballot
              /\ m.ballot = inst.ballot => m.value = Proposed(inst)
AcceptsOK(p, s, Q) ==
    /\ \A m \in AcceptsOf(p, Q) : AcceptOK(p, s, m)
    /\ \A k, m \in AcceptsOf(p, Q) :
          k.iid = m.iid /\ k.ballot = m.ballot => k.value = m.value

(* What an instance being prepared knows is what the promises S say. *)
PromisesTo(p, i, b, R) ==
    {m \in R : m.type = "PROMISE" /\ m.to = p /\ m.iid = i /\ m.ballot = b}
Heard(inst, S) ==
    /\ {m.aid : m \in S} = inst.quorum
    /\ \A m \in S : m.value_ballot \in Nat /\ (m.value # None => m.value_ballot > 0)
    /\ \/ /\ inst.promised_value = None /\ inst.value_ballot = 0
          /\ \A m \in S : m.value = None
       \/ /\ inst.promised_value # None
          /\ \E m \in S : m.value = inst.promised_value /\ m.value_ballot = inst.value_ballot
          /\ \A m \in S : m.value # None => m.value_ballot <= inst.value_ballot
PromisesOK(p, s, R) ==
    \A i \in DOMAIN s.prepare_instances :
        LET inst == s.prepare_instances[i]
        IN  \E S \in SUBSET PromisesTo(p, i, inst.ballot, R) : Heard(inst, S)

(* AcceptFollowsPromises of one request, with the promises R and the submissions H;
   a promise without a value has no say. *)
Follows(a, R, H) ==
    \E S \in SUBSET PromisesTo(a.src, a.iid, a.ballot, R) :
        /\ quorum_reached({m.aid : m \in S})
        /\ \/ /\ \A m \in S : m.value = None
              /\ <<a.src, a.value>> \in H
           \/ \E m \in S : /\ m.value = a.value
                           /\ \A k \in S : k.value # None =>
                                 k.value_ballot <= m.value_ballot

(* Whom an instance in the accept phase has counted has accepted its ballot. *)
AcksOK(s, R) ==
    \A i \in DOMAIN s.accept_instances : \A a \in s.accept_instances[i].quorum :
        \E m \in R : /\ m.type = "ACCEPTED" /\ m.aid = a /\ m.iid = i
                     /\ m.ballot = s.accept_instances[i].ballot

(* No answer tells p of a ballot other than its first, or of a value accepted
   before: p stays at its first ballot and proposes its clients' values, each in
   one instance, which keeps the value for as long as p pursues it. *)
Unopposed(p, R) ==
    \A m \in R : /\ m.ballot = proposer_next_ballot(p, 0)
                 /\ m.type = "PROMISE" => m.value = None
UnopposedOK(p, s, Q, V) ==
    /\ \A i \in DOMAIN s.prepare_instances :
          s.prepare_instances[i].ballot = proposer_next_ballot(p, 0)
    /\ \A i \in DOMAIN s.accept_instances :
          /\ s.accept_instances[i].ballot = proposer_next_ballot(p, 0)
          /\ s.accept_instances[i].promised_value = None
    /\ \A m \in Q : m.type \in {"PREPARE", "ACCEPT"} /\ m.src = p =>
          m.ballot = proposer_next_ballot(p, 0)
    /\ \A m \in AcceptsOf(p, Q) : m.value \in V =>
          /\ m.iid \in DOMAIN s.accept_instances
          /\ s.accept_instances[m.iid].value = m.value
    /\ \A k, m \in AcceptsOf(p, Q) : k.value = m.value => k.iid = m.iid

ProposerOK(p, s, Q, R, V) ==
    /\ StructOK(p, s) /\ AcceptsOK(p, s, Q) /\ PromisesOK(p, s, R) /\ HoldsOnce(s, V)
    /\ AcksOK(s, R)
    /\ Unopposed(p, R) => UnopposedOK(p, s, Q, V)

-------------------------------------------------------------------------------
(* Counting: how many members of a set are at most i. *)
Rank(S, i) == Cardinality({j \in S : j <= i})

(* The ranks of the members of a set are 1, 2, and so on: the positions in the
   queue that the instances without a value pop. *)
LEMMA Ranks ==
    ASSUME NEW S \in SUBSET Nat, IsFiniteSet(S)
    PROVE  /\ Cardinality(S) \in Nat
           /\ \A i \in S : Rank(S, i) \in 1 .. Cardinality(S)
           /\ \A i, j \in S : Rank(S, i) = Rank(S, j) => i = j
           /\ \A k \in 1 .. Cardinality(S) : \E i \in S : Rank(S, i) = k
<1> DEFINE Upto(i) == {j \in S : j <= i}
           n == Cardinality(S)
<1>1. n \in Nat
    BY FS_CardinalityType
<1>2. \A i : /\ IsFiniteSet(Upto(i)) /\ Cardinality(Upto(i)) \in Nat
             /\ Cardinality(Upto(i)) <= n
    BY FS_Subset, FS_CardinalityType
<1>3. ASSUME NEW i \in S PROVE Rank(S, i) \in 1 .. n
    <2>1. i \in Upto(i)
        OBVIOUS
    <2>2. Cardinality(Upto(i)) # 0
        BY <1>2, <2>1, FS_EmptySet
    <2> QED
        BY <1>1, <1>2, <2>2 DEF Rank
<1>4. ASSUME NEW i \in S, NEW j \in S, i < j
      PROVE  Rank(S, i) # Rank(S, j)
    <2>0. i \in Nat /\ j \in Nat /\ \A x \in S : x \in Nat
        OBVIOUS
    <2>1. \A x \in S : x <= i => x <= j
        BY <1>4, <2>0
    <2>2. j <= j /\ ~(j <= i)
        BY <1>4, <2>0
    <2>3. Upto(i) \subseteq Upto(j) /\ j \in Upto(j) /\ j \notin Upto(i)
        BY <2>1, <2>2, Zenon
    <2> HIDE DEF Upto
    <2>4. Cardinality(Upto(i)) # Cardinality(Upto(j))
        BY <1>2, <2>3, FS_Subset
    <2> QED
        BY <2>4 DEF Rank, Upto
<1>5. ASSUME NEW i \in S, NEW j \in S, Rank(S, i) = Rank(S, j)
      PROVE  i = j
    BY <1>4, <1>5
<1>6. \A k \in 1 .. n : \E i \in S : Rank(S, i) = k
    <2> DEFINE f == [i \in S |-> Rank(S, i)]
    <2>1. f \in [S -> 1 .. n] /\ \A i, j \in S : f[i] = f[j] => i = j
        BY <1>3, <1>5
    <2>2. IsFiniteSet(1 .. n) /\ Cardinality(1 .. n) = n
        <3> HIDE DEF n
        <3>1. 1 \in Int /\ n \in Int /\ (IF 1 > n THEN 0 ELSE n - 1 + 1) = n
            BY <1>1
        <3> QED
            BY <3>1, FS_Interval
    <2> DEFINE K == 1 .. n
    <2>3. IsFiniteSet(K) /\ Cardinality(S) = Cardinality(K)
        BY <2>1, <2>2
    <2> HIDE DEF f
    <2>4. f \in Injection(S, K)
        BY <2>1, Zenon DEF Injection, IsInjective
    <2> HIDE DEF K
    <2>5. f \in Surjection(S, K)
        BY <2>3, <2>4, FS_Injection
    <2>6. \A k \in K : \E i \in S : f[i] = k
        BY <2>5, Zenon DEF Surjection
    <2> QED
        BY <2>6 DEF f, K
<1> QED
    BY <1>1, <1>3, <1>5, <1>6

(* An order of the members of a finite set has each of them once. *)
LEMMA OrderFacts ==
    ASSUME NEW S, IsFiniteSet(S), NEW order \in Orders(S)
    PROVE  /\ DOMAIN order = 1 .. Cardinality(S) /\ Cardinality(S) \in Nat
           /\ \A k \in DOMAIN order : order[k] \in S
           /\ \A j, k \in DOMAIN order : order[j] = order[k] => j = k
           /\ \A x \in S : \E k \in DOMAIN order : order[k] = x
<1> DEFINE n == Cardinality(S)
<1>1. n \in Nat
    BY FS_CardinalityType
<1>2. /\ order \in [1 .. n -> S]
      /\ \A j, k \in 1 .. n : order[j] = order[k] => j = k
    BY DEF Orders, Injection, IsInjective
<1>3. IsFiniteSet(1 .. n) /\ Cardinality(1 .. n) = n
    <2> HIDE DEF n
    <2>1. 1 \in Int /\ n \in Int /\ (IF 1 > n THEN 0 ELSE n - 1 + 1) = n
        BY <1>1
    <2> QED
        BY <2>1, FS_Interval
<1>4. \A x \in S : \E k \in 1 .. n : order[k] = x
    <2> DEFINE D == 1 .. n
    <2>1. order \in Injection(D, S)
        BY <1>2, Zenon DEF Injection, IsInjective
    <2>2. Cardinality(D) = Cardinality(S)
        BY <1>3
    <2> HIDE DEF D
    <2>3. order \in Surjection(D, S)
        BY <2>1, <2>2, FS_Injection
    <2>4. \A x \in S : \E k \in D : order[k] = x
        BY <2>3, Zenon DEF Surjection
    <2> QED
        BY <2>4 DEF D
<1> QED
    BY <1>1, <1>2, <1>4

-------------------------------------------------------------------------------
(* The tables of instances and the ballots. *)
LEMMA ProposerTableFacts ==
    ASSUME NEW h
    PROVE  h \in ProposerTable <=>
              /\ h = [i \in DOMAIN h |-> h[i]] /\ DOMAIN h \subseteq Iid
              /\ \A i \in DOMAIN h : h[i] \in Instance
<1>1. ASSUME h \in ProposerTable
      PROVE  /\ h = [i \in DOMAIN h |-> h[i]] /\ DOMAIN h \subseteq Iid
             /\ \A i \in DOMAIN h : h[i] \in Instance
    <2>1. PICK I \in SUBSET Iid : h \in [I -> Instance]
        BY <1>1 DEF ProposerTable
    <2> QED
        BY <2>1
<1>2. ASSUME h = [i \in DOMAIN h |-> h[i]], DOMAIN h \subseteq Iid,
             \A i \in DOMAIN h : h[i] \in Instance
      PROVE  h \in ProposerTable
    <2>1. h \in [DOMAIN h -> Instance]
        BY <1>2
    <2> QED
        BY <1>2, <2>1 DEF ProposerTable
<1> QED
    BY <1>1, <1>2

(* Instances are numbered from 1; 0 stands for none. *)
LEMMA IidFacts == \A i \in Iid \cup {0} : i \in Nat /\ (i \in Iid => i > 0)
<1> SUFFICES ASSUME NEW i \in Iid \cup {0} PROVE i \in Nat /\ (i \in Iid => i > 0)
    OBVIOUS
<1>1. i \in Iid => i \in Nat \ {0}
    BY MessagesAssumption
<1> QED
    BY <1>1

(* HASH_DELETE of some instances. *)
LEMMA DeleteFacts ==
    ASSUME NEW h, NEW I
    PROVE  /\ Delete(h, I) = [i \in DOMAIN h \ I |-> h[i]]
           /\ DOMAIN Delete(h, I) = DOMAIN h \ I
           /\ \A i \in DOMAIN h \ I : Delete(h, I)[i] = h[i]
           /\ h \in ProposerTable => Delete(h, I) \in ProposerTable
<1>1. Delete(h, I) = [i \in DOMAIN h \ I |-> h[i]]
    BY DEF Delete, Restrict
<1>2. h \in ProposerTable => Delete(h, I) \in ProposerTable
    BY <1>1, ProposerTableFacts
<1> QED
    BY <1>1, <1>2

(* A proposer's ballots are its own: proposer_next_ballot starts at
   MaxProposers + p and goes up by MaxProposers. *)
LEMMA AddModulus ==
    ASSUME NEW M \in Nat \ {0}, NEW b \in Nat
    PROVE  (b + M) % M = b % M
<1> DEFINE q == b \div M
           r == b % M
           d == (b + M) \div M
           e == (b + M) % M
<1>1. q \in Int /\ r \in 0 .. M-1 /\ b = M * q + r
    OBVIOUS
<1>2. d \in Int /\ e \in 0 .. M-1 /\ b + M = M * d + e
    OBVIOUS
<1> HIDE DEF q, r, d, e
<1> DEFINE k == d - q - 1
<1>3. k \in Int /\ M * k = r - e
    BY <1>1, <1>2
<1> HIDE DEF k
<1>4. ~(k > 0)
    BY <1>1, <1>2, <1>3
<1>5. ~(k < 0)
    BY <1>1, <1>2, <1>3
<1>6. k = 0
    BY <1>3, <1>4, <1>5
<1>7. r = e
    BY <1>1, <1>2, <1>3, <1>6
<1> QED
    BY <1>7 DEF r, e

(* proposer_next_ballot: the ballots of p are its own, positive, and grow. *)
LEMMA NextBallotFacts ==
    ASSUME NEW p \in Replica
    PROVE  /\ MaxProposers \in Nat \ {0} /\ p \in Nat
           /\ proposer_next_ballot(p, 0) \in Nat /\ proposer_next_ballot(p, 0) > 0
           /\ OwnBallot(p, proposer_next_ballot(p, 0))
           /\ \A b \in Nat : b > 0 /\ OwnBallot(p, b) =>
                 /\ proposer_next_ballot(p, b) \in Nat
                 /\ proposer_next_ballot(p, b) > b
                 /\ OwnBallot(p, proposer_next_ballot(p, b))
<1>1. p \in Nat /\ N \in Nat \ {0} /\ p < N
    BY TopologyAssumption DEF Replica
<1>2. MaxProposers \in Nat /\ N <= MaxProposers
    BY ProposerAssumption
<1>3. MaxProposers \in Nat \ {0} /\ p < MaxProposers
    BY <1>1, <1>2
<1>4. /\ proposer_next_ballot(p, 0) = MaxProposers + p
      /\ \A b \in Nat : b > 0 => proposer_next_ballot(p, b) = b + MaxProposers
    BY DEF proposer_next_ballot
<1>5. (MaxProposers + p) % MaxProposers = p
    BY <1>1, <1>3
<1>6. \A b \in Nat : (b + MaxProposers) % MaxProposers = b % MaxProposers
    BY <1>3, AddModulus, Zenon
<1>7. \A b \in Nat : b > 0 /\ OwnBallot(p, b) =>
                 /\ proposer_next_ballot(p, b) \in Nat
                 /\ proposer_next_ballot(p, b) > b
                 /\ OwnBallot(p, proposer_next_ballot(p, b))
    <2> SUFFICES ASSUME NEW b \in Nat, b > 0, OwnBallot(p, b)
                 PROVE  LET c == proposer_next_ballot(p, b)
                        IN  c \in Nat /\ c > b /\ OwnBallot(p, c)
        OBVIOUS
    <2>1. proposer_next_ballot(p, b) = b + MaxProposers
        BY <1>4
    <2>2. b + MaxProposers \in Nat /\ b + MaxProposers > b
        BY <1>3
    <2> QED
        BY <1>6, <2>1, <2>2 DEF OwnBallot
<1>8. OwnBallot(p, proposer_next_ballot(p, 0))
    BY <1>4, <1>5 DEF OwnBallot
<1> QED
    BY <1>1, <1>3, <1>4, <1>7, <1>8

-------------------------------------------------------------------------------
(* try_accept, one step after the other.  First what StructOK says of s. *)
LEMMA StructFacts ==
    ASSUME NEW p, NEW s, StructOK(p, s)
    PROVE  /\ s.next_prepare_iid \in Nat /\ s.values \in Seq(Value)
           /\ s.prepare_instances \in ProposerTable
           /\ s.accept_instances \in ProposerTable
           /\ DOMAIN s.prepare_instances \subseteq Iid
           /\ DOMAIN s.prepare_instances \subseteq Nat
           /\ IsFiniteSet(DOMAIN s.prepare_instances)
           /\ \A i \in DOMAIN s.prepare_instances : s.prepare_instances[i] \in Instance
           /\ DOMAIN s.accept_instances \subseteq Iid
           /\ DOMAIN s.accept_instances \subseteq Nat
           /\ IsFiniteSet(DOMAIN s.accept_instances)
           /\ \A i \in DOMAIN s.accept_instances : s.accept_instances[i] \in Instance
<1>1. /\ s.next_prepare_iid \in Iid \cup {0} /\ s.values \in Seq(Value)
      /\ s.prepare_instances \in ProposerTable /\ s.accept_instances \in ProposerTable
    BY DEF StructOK, ProposerStruct
<1>2. s.next_prepare_iid \in Nat
    BY <1>1, IidFacts
<1>3. /\ DOMAIN s.prepare_instances \subseteq Iid
      /\ \A i \in DOMAIN s.prepare_instances : s.prepare_instances[i] \in Instance
      /\ DOMAIN s.accept_instances \subseteq Iid
      /\ \A i \in DOMAIN s.accept_instances : s.accept_instances[i] \in Instance
    BY <1>1, ProposerTableFacts
<1>4. /\ DOMAIN s.prepare_instances \subseteq Nat
      /\ DOMAIN s.accept_instances \subseteq Nat
    BY <1>3, MessagesAssumption, Zenon
<1>5. /\ \A i \in DOMAIN s.prepare_instances : i <= s.next_prepare_iid
      /\ \A i \in DOMAIN s.accept_instances : i <= s.next_prepare_iid
    BY DEF StructOK, OpenedBy
<1>6. IsFiniteSet(DOMAIN s.prepare_instances) /\ IsFiniteSet(DOMAIN s.accept_instances)
    BY <1>2, <1>4, <1>5, FS_BoundedSetOfNaturals, Zenon
<1> QED
    BY <1>1, <1>2, <1>3, <1>4, <1>6

(* The prepared instances that have no client value yet. *)
WithoutValue(s) ==
    {i \in DOMAIN s.prepare_instances : ~instance_has_value(s.prepare_instances[i])}

(* An instance is given the value at its position of the queue, if the queue is
   that long; nothing else about it changes. *)
LEMMA FilledFacts ==
    ASSUME NEW p, NEW s, StructOK(p, s), NEW i \in DOMAIN s.prepare_instances
    PROVE  LET inst == s.prepare_instances[i]
               new  == FilledInstance(s, i)
               pos  == Rank(WithoutValue(s), i)
           IN  /\ new \in Instance
               /\ new.ballot = inst.ballot /\ new.quorum = inst.quorum
               /\ new.promised_value = inst.promised_value
               /\ new.value_ballot = inst.value_ballot
               /\ inst.value # None => new.value = inst.value
               /\ inst.value = None =>
                     IF pos \in DOMAIN s.values THEN new.value = s.values[pos]
                     ELSE new.value = None
<1> DEFINE inst == s.prepare_instances[i]
           W == WithoutValue(s)
           pos == Rank(W, i)
<1>1. inst \in Instance /\ s.values \in Seq(Value)
    BY StructFacts
<1>2. PopPosition(s, i) = pos
    <2>1. {j \in DOMAIN s.prepare_instances :
              j <= i /\ ~instance_has_value(s.prepare_instances[j])}
            = {j \in W : j <= i}
        BY DEF WithoutValue
    <2> QED
        BY <2>1 DEF PopPosition, Rank
<1>3. inst.value = None => pos \in Nat /\ pos > 0
    <2> SUFFICES ASSUME inst.value = None PROVE pos \in Nat /\ pos > 0
        OBVIOUS
    <2>1. i \in W /\ W \subseteq Nat /\ IsFiniteSet(W)
        BY StructFacts, FS_Subset DEF WithoutValue, instance_has_value
    <2> HIDE DEF W
    <2> QED
        BY <2>1, Ranks
<1> HIDE DEF pos
<1>4. CASE inst.value # None
    <2>1. FilledInstance(s, i) = inst
        BY <1>4 DEF FilledInstance, instance_has_value
    <2> QED
        BY <1>1, <1>4, <2>1 DEF pos
<1>5. CASE inst.value = None /\ pos > Len(s.values)
    <2>1. FilledInstance(s, i) = inst
        BY <1>2, <1>5 DEF FilledInstance
    <2>2. pos \notin DOMAIN s.values
        BY <1>1, <1>3, <1>5
    <2> QED
        BY <1>1, <1>5, <2>1, <2>2 DEF pos
<1>6. CASE inst.value = None /\ ~(pos > Len(s.values))
    <2>1. FilledInstance(s, i) = [inst EXCEPT !.value = s.values[pos]]
        BY <1>2, <1>6, Zenon DEF FilledInstance, instance_has_value
    <2>2. pos \in DOMAIN s.values /\ s.values[pos] \in Value
        BY <1>1, <1>3, <1>6
    <2> HIDE DEF inst
    <2>3. LET new == FilledInstance(s, i)
          IN  /\ new \in Instance
              /\ new.ballot = inst.ballot /\ new.quorum = inst.quorum
              /\ new.promised_value = inst.promised_value
              /\ new.value_ballot = inst.value_ballot
              /\ new.value = s.values[pos]
        BY <1>1, <2>1, <2>2 DEF Instance
    <2> QED
        BY <1>6, <2>2, <2>3 DEF pos, inst
<1> QED
    BY <1>4, <1>5, <1>6

(* proposer_accept on all the instances of A: what it leaves in the struct. *)
LEMMA MoveFields ==
    ASSUME NEW p, NEW s, StructOK(p, s),
           NEW A \in SUBSET DOMAIN s.prepare_instances,
           NEW t, t = MoveToAccept(s, A)
    PROVE  /\ t \in ProposerStruct
           /\ t.next_prepare_iid = s.next_prepare_iid
           /\ t.values = PopValues(s, A)
           /\ DOMAIN t.prepare_instances = DOMAIN s.prepare_instances \ A
           /\ \A i \in DOMAIN t.prepare_instances :
                 t.prepare_instances[i] = s.prepare_instances[i]
           /\ DOMAIN t.accept_instances = DOMAIN s.accept_instances \cup A
           /\ \A i \in A : t.accept_instances[i] = [FilledInstance(s, i) EXCEPT !.quorum = {}]
           /\ \A i \in DOMAIN s.accept_instances \ A :
                 t.accept_instances[i] = s.accept_instances[i]
<1> DEFINE P == Delete(s.prepare_instances, A)
           C == [i \in DOMAIN s.accept_instances \cup A |->
                    IF i \in A THEN [FilledInstance(s, i) EXCEPT !.quorum = {}]
                    ELSE s.accept_instances[i]]
           v == PopValues(s, A)
           popped == {i \in A : ~instance_has_value(s.prepare_instances[i])}
<1>1. s \in ProposerStruct /\ s.values \in Seq(Value)
    BY StructFacts, Zenon DEF StructOK
<1>2. v \in Seq(Value)
    <2>1. IsFiniteSet(popped)
        BY StructFacts, FS_Subset
    <2>2. Cardinality(popped) \in Nat
        BY <2>1, FS_CardinalityType
    <2> DEFINE n == Cardinality(popped)
    <2> HIDE DEF n
    <2>3. n \in Nat
        BY <2>2 DEF n
    <2>4. SubSeq(s.values, n + 1, Len(s.values)) \in Seq(Value)
        BY <1>1, <2>3
    <2> QED
        BY <2>4 DEF PopValues, n
<1>3. P \in ProposerTable
    BY StructFacts, DeleteFacts, Zenon
<1>4. C \in ProposerTable
    <2>1. \A i \in A : [FilledInstance(s, i) EXCEPT !.quorum = {}] \in Instance
        <3> SUFFICES ASSUME NEW i \in A
                     PROVE  [FilledInstance(s, i) EXCEPT !.quorum = {}] \in Instance
            OBVIOUS
        <3>1. FilledInstance(s, i) \in Instance
            BY FilledFacts
        <3> QED
            BY <3>1 DEF Instance
    <2>2. /\ DOMAIN C = DOMAIN s.accept_instances \cup A
          /\ C = [i \in DOMAIN C |-> C[i]]
          /\ \A i \in DOMAIN C : C[i] \in Instance
        BY <2>1, StructFacts
    <2>3. DOMAIN C \subseteq Iid
        BY <2>2, StructFacts
    <2> HIDE DEF C
    <2> QED
        BY <2>2, <2>3, ProposerTableFacts
<1>5. t = [s EXCEPT !.values = v, !.prepare_instances = P, !.accept_instances = C]
    BY Zenon DEF MoveToAccept
<1>6. /\ DOMAIN P = DOMAIN s.prepare_instances \ A
      /\ \A i \in DOMAIN P : P[i] = s.prepare_instances[i]
    <2>1. DOMAIN P = DOMAIN s.prepare_instances \ A
        BY DeleteFacts, Zenon
    <2>2. \A i \in DOMAIN s.prepare_instances \ A : P[i] = s.prepare_instances[i]
        BY DeleteFacts, Zenon
    <2> HIDE DEF P
    <2> QED
        BY <2>1, <2>2
<1>7. /\ DOMAIN C = DOMAIN s.accept_instances \cup A
      /\ \A i \in A : C[i] = [FilledInstance(s, i) EXCEPT !.quorum = {}]
      /\ \A i \in DOMAIN s.accept_instances \ A : C[i] = s.accept_instances[i]
    OBVIOUS
<1> HIDE DEF P, C, v
<1>8. /\ t \in ProposerStruct /\ t.values = v /\ t.prepare_instances = P
      /\ t.accept_instances = C /\ t.next_prepare_iid = s.next_prepare_iid
    BY <1>1, <1>2, <1>3, <1>4, <1>5, Zenon DEF ProposerStruct
<1> QED
    BY <1>6, <1>7, <1>8, Zenon DEF v

(* Moving instances to the accept phase keeps their ballots and what was promised,
   and no instance is in both tables. *)
LEMMA MoveStruct ==
    ASSUME NEW p, NEW s, StructOK(p, s),
           NEW A \in SUBSET DOMAIN s.prepare_instances,
           NEW t, t = MoveToAccept(s, A)
    PROVE  /\ StructOK(p, t)
           /\ \A i \in A : LET new  == t.accept_instances[i]
                               inst == s.prepare_instances[i]
                           IN  /\ new.ballot = inst.ballot
                               /\ new.promised_value = inst.promised_value
                               /\ new.value = FilledInstance(s, i).value
                               /\ new.quorum = {}
<1>1. ASSUME NEW i \in A
      PROVE  LET new  == t.accept_instances[i]
                 inst == s.prepare_instances[i]
             IN  /\ new.ballot = inst.ballot
                 /\ new.promised_value = inst.promised_value
                 /\ new.value = FilledInstance(s, i).value
                 /\ new.quorum = {}
    <2> DEFINE f == FilledInstance(s, i)
    <2>1. /\ f \in Instance /\ f.ballot = s.prepare_instances[i].ballot
          /\ f.promised_value = s.prepare_instances[i].promised_value
        BY FilledFacts
    <2>2. t.accept_instances[i] = [f EXCEPT !.quorum = {}]
        BY MoveFields
    <2> HIDE DEF f
    <2>3. /\ t.accept_instances[i].ballot = f.ballot
          /\ t.accept_instances[i].promised_value = f.promised_value
          /\ t.accept_instances[i].value = f.value
          /\ t.accept_instances[i].quorum = {}
        BY <2>1, <2>2 DEF Instance
    <2> QED
        BY <2>1, <2>3 DEF f
<1>2. /\ t \in ProposerStruct /\ t.next_prepare_iid = s.next_prepare_iid
      /\ DOMAIN t.prepare_instances = DOMAIN s.prepare_instances \ A
      /\ \A i \in DOMAIN t.prepare_instances :
            t.prepare_instances[i] = s.prepare_instances[i]
      /\ DOMAIN t.accept_instances = DOMAIN s.accept_instances \cup A
      /\ \A i \in DOMAIN s.accept_instances \ A :
            t.accept_instances[i] = s.accept_instances[i]
    BY MoveFields
<1>3. /\ DOMAIN s.prepare_instances \cap DOMAIN s.accept_instances = {}
      /\ OpenedBy(p, s.prepare_instances, s.next_prepare_iid)
      /\ OpenedBy(p, s.accept_instances, s.next_prepare_iid)
    BY DEF StructOK
<1>4. OpenedBy(p, t.prepare_instances, t.next_prepare_iid)
    BY <1>2, <1>3 DEF OpenedBy
<1>5. OpenedBy(p, t.accept_instances, t.next_prepare_iid)
    BY <1>1, <1>2, <1>3 DEF OpenedBy
<1>6. DOMAIN t.prepare_instances \cap DOMAIN t.accept_instances = {}
    BY <1>2, <1>3
<1> QED
    BY <1>1, <1>2, <1>4, <1>5, <1>6 DEF StructOK

-------------------------------------------------------------------------------
(* The places of values. *)
LEMMA PlaceCases ==
    ASSUME NEW s
    PROVE  /\ \A x : x \in Places(s) <=>
                 \/ \E k \in DOMAIN s.values : x = <<"queue", k>>
                 \/ \E i \in WithValue(s.prepare_instances) : x = <<"prepare", i>>
                 \/ \E i \in WithValue(s.accept_instances) : x = <<"accept", i>>
           /\ \A k : ValueAt(s, <<"queue", k>>) = s.values[k]
           /\ \A i : ValueAt(s, <<"prepare", i>>) = s.prepare_instances[i].value
           /\ \A i : ValueAt(s, <<"accept", i>>) = s.accept_instances[i].value
<1>1. \A x : x \in Places(s) <=>
                 \/ \E k \in DOMAIN s.values : x = <<"queue", k>>
                 \/ \E i \in WithValue(s.prepare_instances) : x = <<"prepare", i>>
                 \/ \E i \in WithValue(s.accept_instances) : x = <<"accept", i>>
    BY Zenon DEF Places
<1>2. /\ \A k : ValueAt(s, <<"queue", k>>) = s.values[k]
      /\ \A i : ValueAt(s, <<"prepare", i>>) = s.prepare_instances[i].value
      /\ \A i : ValueAt(s, <<"accept", i>>) = s.accept_instances[i].value
    BY DEF ValueAt
<1> QED
    BY <1>1, <1>2

(* Values that change places one to one are still held once. *)
LEMMA Relocated ==
    ASSUME NEW s, NEW t, NEW V, HoldsOnce(s, V), NEW h,
           \A y \in Places(t) : h[y] \in Places(s) /\ ValueAt(s, h[y]) = ValueAt(t, y),
           \A x, y \in Places(t) : h[x] = h[y] => x = y,
           \A x \in Places(s) : \E y \in Places(t) : h[y] = x
    PROVE  HoldsOnce(t, V)
<1>1. \A x, y \in Places(t) : ValueAt(t, x) = ValueAt(t, y) => x = y
    BY DEF HoldsOnce
<1>2. {ValueAt(t, y) : y \in Places(t)} = {ValueAt(s, x) : x \in Places(s)}
    <2>1. \A y \in Places(t) : \E x \in Places(s) : ValueAt(t, y) = ValueAt(s, x)
        BY Zenon
    <2>2. \A x \in Places(s) : \E y \in Places(t) : ValueAt(s, x) = ValueAt(t, y)
        OBVIOUS
    <2> QED
        BY <2>1, <2>2
<1> QED
    BY <1>1, <1>2 DEF HoldsOnce

(* try_accept moves each value it pops into one instance, and every instance it
   moves takes its own value along. *)
LEMMA MoveHolds ==
    ASSUME NEW p, NEW s, StructOK(p, s), NEW V, HoldsOnce(s, V),
           NEW A \in SUBSET DOMAIN s.prepare_instances,
           \A i \in A : \A j \in DOMAIN s.prepare_instances : j <= i => j \in A,
           NEW t, t = MoveToAccept(s, A)
    PROVE  HoldsOnce(t, V)
<1> DEFINE Pr == s.prepare_instances
           popped == {i \in A : ~instance_has_value(Pr[i])}
           n == Cardinality(popped)
           From(y) == IF y[1] = "queue" THEN <<"queue", n + y[2]>>
                      ELSE IF y[1] = "prepare" \/ y[2] \notin A THEN y
                      ELSE IF y[2] \in popped THEN <<"queue", Rank(popped, y[2])>>
                      ELSE <<"prepare", y[2]>>
           h == [y \in Places(t) |-> From(y)]
<1>1. /\ popped \in SUBSET Nat /\ IsFiniteSet(popped) /\ n \in Nat
      /\ \A i \in popped : Rank(popped, i) \in 1 .. n
      /\ \A i, j \in popped : Rank(popped, i) = Rank(popped, j) => i = j
      /\ \A k \in 1 .. n : \E i \in popped : Rank(popped, i) = k
    <2>1. popped \in SUBSET Nat /\ IsFiniteSet(popped)
        BY StructFacts, FS_Subset
    <2> HIDE DEF popped
    <2> QED
        BY <2>1, Ranks
<1>2. s.values \in Seq(Value) /\ Len(s.values) \in Nat
    BY StructFacts
<1>3. /\ t.values \in Seq(Value)
      /\ \A k : k \in DOMAIN t.values <=> k \in Nat /\ k > 0 /\ n + k \in DOMAIN s.values
      /\ \A k \in DOMAIN t.values : t.values[k] = s.values[n + k]
    <2>1. t.values = SubSeq(s.values, n + 1, Len(s.values))
        <3>1. t.values = PopValues(s, A)
            BY MoveFields
        <3> QED
            BY <3>1, Zenon DEF PopValues
    <2> HIDE DEF n
    <2>2. /\ t.values \in Seq(Value)
          /\ Len(t.values) = IF n + 1 <= Len(s.values) THEN Len(s.values) - n ELSE 0
        BY <1>1, <1>2, <2>1
    <2>3. \A k \in 1 .. Len(t.values) : t.values[k] = s.values[n + k]
        BY <1>1, <1>2, <2>1, <2>2
    <2>4. DOMAIN t.values = 1 .. Len(t.values) /\ DOMAIN s.values = 1 .. Len(s.values)
        BY <1>2, <2>2
    <2>5. ASSUME NEW k
          PROVE  k \in 1 .. Len(t.values) <=>
                    k \in Nat /\ k > 0 /\ n + k \in 1 .. Len(s.values)
        <3> DEFINE a == Len(t.values)
                   b == Len(s.values)
        <3>1. a = (IF n + 1 <= b THEN b - n ELSE 0) /\ b \in Nat /\ n \in Nat
            BY <1>1, <1>2, <2>2
        <3> HIDE DEF a, b
        <3>2. k \in Nat => (k \in 1 .. a <=> k > 0 /\ n + k \in 1 .. b)
            BY <3>1
        <3>3. k \in 1 .. a => k \in Nat
            BY <3>1
        <3>4. k \in 1 .. a <=> k \in Nat /\ k > 0 /\ n + k \in 1 .. b
            BY <3>2, <3>3
        <3> QED
            BY <3>4 DEF a, b
    <2> QED
        BY <2>2, <2>3, <2>4, <2>5
<1>4. /\ DOMAIN t.prepare_instances = DOMAIN Pr \ A
      /\ \A i \in DOMAIN t.prepare_instances : t.prepare_instances[i] = Pr[i]
      /\ DOMAIN t.accept_instances = DOMAIN s.accept_instances \cup A
      /\ \A i \in DOMAIN s.accept_instances \ A :
            t.accept_instances[i] = s.accept_instances[i]
      /\ DOMAIN Pr \cap DOMAIN s.accept_instances = {}
    BY MoveFields DEF StructOK
<1>5. ASSUME NEW i \in A
      PROVE  /\ i \notin popped => Pr[i].value # None /\ t.accept_instances[i].value = Pr[i].value
             /\ i \in popped =>
                   IF Rank(popped, i) \in DOMAIN s.values
                   THEN t.accept_instances[i].value = s.values[Rank(popped, i)]
                   ELSE t.accept_instances[i].value = None
    <2>1. {j \in popped : j <= i} = {j \in WithoutValue(s) : j <= i}
        BY DEF WithoutValue
    <2>2. Rank(popped, i) = Rank(WithoutValue(s), i)
        BY <2>1 DEF Rank
    <2>3. t.accept_instances[i].value = FilledInstance(s, i).value
        BY MoveStruct
    <2>4. i \notin popped <=> Pr[i].value # None
        BY DEF instance_has_value
    <2> HIDE DEF popped
    <2>5. /\ Pr[i].value # None => FilledInstance(s, i).value = Pr[i].value
          /\ Pr[i].value = None =>
                IF Rank(popped, i) \in DOMAIN s.values
                THEN FilledInstance(s, i).value = s.values[Rank(popped, i)]
                ELSE FilledInstance(s, i).value = None
        BY <2>2, FilledFacts
    <2> QED
        BY <2>3, <2>4, <2>5
<1> HIDE DEF popped, n, Pr
<1>6. /\ \A k : From(<<"queue", k>>) = <<"queue", n + k>>
      /\ \A i : From(<<"prepare", i>>) = <<"prepare", i>>
      /\ \A i : From(<<"accept", i>>) =
                   IF i \notin A THEN <<"accept", i>>
                   ELSE IF i \in popped THEN <<"queue", Rank(popped, i)>>
                   ELSE <<"prepare", i>>
    OBVIOUS
<1>7. /\ \A i : i \in WithValue(t.prepare_instances) <=>
                   i \in WithValue(s.prepare_instances) /\ i \notin A
      /\ \A i : i \in WithValue(t.accept_instances) <=>
                   \/ i \in WithValue(s.accept_instances) /\ i \notin A
                   \/ i \in A /\ i \notin popped
                   \/ i \in popped /\ Rank(popped, i) \in DOMAIN s.values
    <2>1. \A k \in DOMAIN s.values : s.values[k] # None
        BY <1>2, MessagesAssumption
    <2>2. \A i : i \in WithValue(t.prepare_instances) <=>
                   i \in WithValue(s.prepare_instances) /\ i \notin A
        BY <1>4 DEF WithValue, Pr
    <2>3. ASSUME NEW i \in A
          PROVE  i \in WithValue(t.accept_instances) <=>
                   \/ i \notin popped
                   \/ i \in popped /\ Rank(popped, i) \in DOMAIN s.values
        BY <1>4, <1>5, <2>1 DEF WithValue, instance_has_value
    <2>4. ASSUME NEW i, i \notin A
          PROVE  /\ i \in WithValue(t.accept_instances) <=> i \in WithValue(s.accept_instances)
                 /\ i \notin popped
        BY <1>4, <2>4 DEF WithValue, popped
    <2> QED
        BY <2>2, <2>3, <2>4
<1> HIDE DEF From
<1>8. ASSUME NEW y \in Places(t)
      PROVE  From(y) \in Places(s) /\ ValueAt(s, From(y)) = ValueAt(t, y)
    <2>1. CASE \E k \in DOMAIN t.values : y = <<"queue", k>>
        <3>1. PICK k \in DOMAIN t.values : y = <<"queue", k>>
            BY <2>1
        <3>2. n + k \in DOMAIN s.values /\ t.values[k] = s.values[n + k]
            BY <1>3
        <3> QED
            BY <1>6, <3>1, <3>2, PlaceCases
    <2>2. CASE \E i \in WithValue(t.prepare_instances) : y = <<"prepare", i>>
        <3>1. PICK i \in WithValue(t.prepare_instances) : y = <<"prepare", i>>
            BY <2>2
        <3>2. /\ i \in WithValue(s.prepare_instances)
              /\ t.prepare_instances[i] = s.prepare_instances[i]
            BY <1>4, <1>7 DEF WithValue, Pr
        <3> QED
            BY <1>6, <3>1, <3>2, PlaceCases
    <2>3. CASE \E i \in WithValue(t.accept_instances) : y = <<"accept", i>>
        <3>1. PICK i \in WithValue(t.accept_instances) : y = <<"accept", i>>
            BY <2>3
        <3>2. CASE i \notin A
            <4>1. /\ i \in WithValue(s.accept_instances)
                  /\ t.accept_instances[i] = s.accept_instances[i]
                BY <1>4, <1>7, <3>2 DEF WithValue, popped
            <4>2. From(y) = <<"accept", i>>
                BY <1>6, <3>1, <3>2, Zenon
            <4> QED
                BY <3>1, <4>1, <4>2, PlaceCases
        <3>3. CASE i \in A /\ i \notin popped
            <4>1. /\ i \in WithValue(s.prepare_instances)
                  /\ t.accept_instances[i].value = s.prepare_instances[i].value
                BY <1>5, <3>3 DEF WithValue, Pr, instance_has_value
            <4>2. From(y) = <<"prepare", i>>
                BY <1>6, <3>1, <3>3, Zenon
            <4> QED
                BY <3>1, <4>1, <4>2, PlaceCases
        <3>4. CASE i \in A /\ i \in popped
            <4>1. /\ Rank(popped, i) \in DOMAIN s.values
                  /\ t.accept_instances[i].value = s.values[Rank(popped, i)]
                BY <1>4, <1>5, <1>7, <3>1, <3>4
            <4>2. From(y) = <<"queue", Rank(popped, i)>>
                BY <1>6, <3>1, <3>4, Zenon
            <4> QED
                BY <3>1, <4>1, <4>2, PlaceCases
        <3> QED
            BY <3>2, <3>3, <3>4
    <2> QED
        BY <2>1, <2>2, <2>3, PlaceCases
<1>9. ASSUME NEW x \in Places(s)
      PROVE  \E y \in Places(t) : From(y) = x
    <2>1. CASE \E k \in DOMAIN s.values : x = <<"queue", k>>
        <3>1. PICK k \in DOMAIN s.values : x = <<"queue", k>>
            BY <2>1
        <3>2. k \in Nat /\ k > 0
            BY <1>2
        <3>3. CASE k > n
            <4>1. k - n \in Nat /\ k - n > 0 /\ n + (k - n) = k
                BY <1>1, <3>2, <3>3
            <4>2. k - n \in DOMAIN t.values
                BY <1>3, <4>1
            <4>3. <<"queue", k - n>> \in Places(t)
                BY <4>2, PlaceCases
            <4> QED
                BY <1>6, <3>1, <4>1, <4>3
        <3>4. CASE ~(k > n)
            <4>1. k \in 1 .. n
                BY <1>1, <3>2, <3>4
            <4>2. PICK i \in popped : Rank(popped, i) = k
                BY <1>1, <4>1
            <4>3. i \in A /\ i \in WithValue(t.accept_instances)
                BY <1>7, <4>2 DEF popped
            <4>4. <<"accept", i>> \in Places(t)
                BY <4>3, PlaceCases
            <4> QED
                BY <1>6, <3>1, <4>2, <4>3, <4>4, Zenon
        <3> QED
            BY <3>3, <3>4
    <2>2. CASE \E i \in WithValue(s.prepare_instances) : x = <<"prepare", i>>
        <3>1. PICK i \in WithValue(s.prepare_instances) : x = <<"prepare", i>>
            BY <2>2
        <3>2. i \notin popped
            BY DEF WithValue, popped, Pr
        <3>3. CASE i \in A
            <4>1. <<"accept", i>> \in Places(t)
                BY <1>7, <3>2, <3>3, PlaceCases
            <4> QED
                BY <1>6, <3>1, <3>2, <3>3, <4>1, Zenon
        <3>4. CASE i \notin A
            <4>1. <<"prepare", i>> \in Places(t)
                BY <1>7, <3>4, PlaceCases
            <4> QED
                BY <1>6, <3>1, <4>1
        <3> QED
            BY <3>3, <3>4
    <2>3. CASE \E i \in WithValue(s.accept_instances) : x = <<"accept", i>>
        <3>1. PICK i \in WithValue(s.accept_instances) : x = <<"accept", i>>
            BY <2>3
        <3>2. i \notin A
            BY <1>4 DEF WithValue, Pr
        <3>3. <<"accept", i>> \in Places(t)
            BY <1>7, <3>2, PlaceCases
        <3> QED
            BY <1>6, <3>1, <3>2, <3>3, Zenon
    <2> QED
        BY <2>1, <2>2, <2>3, PlaceCases
<1>10. ASSUME NEW x \in Places(t), NEW y \in Places(t), From(x) = From(y)
       PROVE  x = y
    <2> DEFINE Q == DOMAIN t.values
               P == WithValue(t.prepare_instances)
               Old == WithValue(t.accept_instances) \ A
               Fed == WithValue(t.accept_instances) \cap popped
               Own == (WithValue(t.accept_instances) \cap A) \ popped
    <2>1. \A k \in Q : From(<<"queue", k>>) = <<"queue", n + k>> /\ k \in Nat /\ k > 0
        BY <1>3, <1>6, Zenon
    <2>2. \A i \in P : From(<<"prepare", i>>) = <<"prepare", i>> /\ i \notin A
        BY <1>6, <1>7, Zenon
    <2>3. \A i \in Old : From(<<"accept", i>>) = <<"accept", i>>
        BY <1>6, Zenon
    <2>4. \A i \in Fed : /\ From(<<"accept", i>>) = <<"queue", Rank(popped, i)>>
                         /\ Rank(popped, i) \in Nat /\ Rank(popped, i) <= n
        <3> SUFFICES ASSUME NEW i \in Fed
                     PROVE  /\ From(<<"accept", i>>) = <<"queue", Rank(popped, i)>>
                            /\ Rank(popped, i) \in Nat /\ Rank(popped, i) <= n
            BY Zenon
        <3>1. i \in A /\ i \in popped /\ Rank(popped, i) \in 1 .. n
            BY <1>1 DEF popped
        <3>2. From(<<"accept", i>>) = <<"queue", Rank(popped, i)>>
            BY <1>6, <3>1, Zenon
        <3> DEFINE r == Rank(popped, i)
        <3> HIDE DEF r
        <3>3. r \in 1 .. n
            BY <3>1 DEF r
        <3>4. r \in Nat /\ r <= n
            BY <1>1, <3>3
        <3> QED
            BY <3>2, <3>4 DEF r
    <2>5. \A i \in Own : From(<<"accept", i>>) = <<"prepare", i>> /\ i \in A
        BY <1>6, Zenon
    <2>6. \A z \in Places(t) :
             \/ \E k \in Q : z = <<"queue", k>>
             \/ \E i \in P : z = <<"prepare", i>>
             \/ \E i \in Old : z = <<"accept", i>>
             \/ \E i \in Fed : z = <<"accept", i>>
             \/ \E i \in Own : z = <<"accept", i>>
        BY PlaceCases
    <2>7. /\ \A j, k \in Q : n + j = n + k => j = k
          /\ \A k \in Q, i \in Fed : n + k # Rank(popped, i)
          /\ \A i, j \in Fed : Rank(popped, i) = Rank(popped, j) => i = j
        <3>1. \A i, j \in Fed : Rank(popped, i) = Rank(popped, j) => i = j
            BY <1>1, Zenon
        <3> HIDE DEF Q, Fed
        <3>2. n \in Nat /\ \A k \in Q : k \in Nat /\ k > 0
            BY <1>1, <2>1, Zenon
        <3>3. \A j, k \in Q : n + j = n + k => j = k
            BY <3>2
        <3>4. \A r \in Nat : r <= n => \A k \in Q : n + k # r
            BY <3>2
        <3> QED
            BY <2>4, <3>1, <3>3, <3>4, Zenon
    <2> HIDE DEF Q, P, Old, Fed, Own
    <2>8. CASE \E k \in Q : x = <<"queue", k>>
        BY <1>10, <2>1, <2>2, <2>3, <2>4, <2>5, <2>6, <2>7, <2>8
    <2>9. CASE \E i \in P : x = <<"prepare", i>>
        BY <1>10, <2>1, <2>2, <2>3, <2>4, <2>5, <2>6, <2>9
    <2>10. CASE \E i \in Old : x = <<"accept", i>>
        BY <1>10, <2>1, <2>2, <2>3, <2>4, <2>5, <2>6, <2>10
    <2>11. CASE \E i \in Fed : x = <<"accept", i>>
        BY <1>10, <2>1, <2>2, <2>3, <2>4, <2>5, <2>6, <2>7, <2>11
    <2>12. CASE \E i \in Own : x = <<"accept", i>>
        BY <1>10, <2>1, <2>2, <2>3, <2>4, <2>5, <2>6, <2>12
    <2> QED
        BY <2>6, <2>8, <2>9, <2>10, <2>11, <2>12
<1>11. \A y \in Places(t) : h[y] = From(y)
    OBVIOUS
<1> HIDE DEF h
<1> QED
    BY <1>8, <1>9, <1>10, <1>11, Relocated

-------------------------------------------------------------------------------
(* proposer_preexecute opens the instances after next_prepare_iid, with the first
   ballot of p, no value and no answers. *)
LEMMA PrepareStep ==
    ASSUME NEW p \in Replica, NEW s, StructOK(p, s),
           NEW P, P = PreparedNow(s), \A i \in P : i \in Iid,
           P # {} => proposer_next_ballot(p, 0) <= MaxBallot,
           NEW t, t = Prepare(p, s, P)
    PROVE  /\ StructOK(p, t)
           /\ t.values = s.values /\ t.accept_instances = s.accept_instances
           /\ t.next_prepare_iid >= s.next_prepare_iid
           /\ \A i \in P : i > s.next_prepare_iid
           /\ DOMAIN t.prepare_instances = DOMAIN s.prepare_instances \cup P
           /\ \A i \in P :
                 t.prepare_instances[i] = instance_new(proposer_next_ballot(p, 0))
           /\ \A i \in DOMAIN s.prepare_instances \ P :
                 t.prepare_instances[i] = s.prepare_instances[i]
<1> DEFINE next == s.next_prepare_iid
           inst == instance_new(proposer_next_ballot(p, 0))
           count == preexec_window - Cardinality(DOMAIN s.prepare_instances)
           h == [i \in DOMAIN s.prepare_instances \cup P |->
                    IF i \in P THEN inst ELSE s.prepare_instances[i]]
<1>1. s \in ProposerStruct /\ next \in Nat /\ next \in Iid \cup {0}
    BY StructFacts, Zenon DEF StructOK, ProposerStruct
<1>2. count \in Int
    <2>1. Cardinality(DOMAIN s.prepare_instances) \in Nat
        BY StructFacts, FS_CardinalityType
    <2> QED
        BY <2>1, ProposerAssumption
<1>3. P = {} \/ P = (next + 1) .. (next + count)
    BY DEF PreparedNow
<1> HIDE DEF count, next
<1>4. /\ IsFiniteSet(P) /\ Cardinality(P) \in Nat
      /\ P = {} => Cardinality(P) = 0
      /\ P # {} => next + Cardinality(P) \in P
      /\ \A i \in P : i \in Nat /\ i > next /\ i <= next + Cardinality(P)
    <2>1. CASE P = {}
        BY <2>1, FS_EmptySet
    <2>2. CASE P # {}
        <3> DEFINE a == next + 1
                   b == next + count
        <3>1. a \in Int /\ b \in Int /\ P = a .. b
            BY <1>1, <1>2, <1>3, <2>2
        <3>2. a <= b
            BY <2>2, <3>1
        <3> HIDE DEF a, b
        <3>3. IsFiniteSet(P) /\ Cardinality(P) = b - a + 1
            BY <3>1, <3>2, FS_Interval
        <3>4. Cardinality(P) = count /\ count > 0
            BY <1>1, <1>2, <3>2, <3>3 DEF a, b
        <3> QED
            BY <1>1, <1>2, <2>2, <3>1, <3>3, <3>4 DEF a, b
    <2> QED
        BY <2>1, <2>2
<1>5. next + Cardinality(P) \in Iid \cup {0} /\ next + Cardinality(P) >= next
    BY <1>1, <1>4
<1>6. P # {} => /\ inst \in Instance /\ OwnBallot(p, inst.ballot) /\ inst.ballot > 0
    <2> SUFFICES ASSUME P # {}
                 PROVE  inst \in Instance /\ OwnBallot(p, inst.ballot) /\ inst.ballot > 0
        OBVIOUS
    <2> DEFINE b == proposer_next_ballot(p, 0)
    <2>1. b \in Nat /\ b > 0 /\ OwnBallot(p, b) /\ b <= MaxBallot
        BY NextBallotFacts
    <2>2. b \in Ballot /\ 0 \in Ballot
        BY <2>1, MessagesAssumption DEF Ballot
    <2> HIDE DEF b
    <2>3. instance_new(b) \in Instance /\ instance_new(b).ballot = b
        BY <2>2 DEF instance_new, Instance
    <2> QED
        BY <2>1, <2>3 DEF b
<1> HIDE DEF inst
<1>7. h \in ProposerTable
    <2>1. /\ DOMAIN h = DOMAIN s.prepare_instances \cup P
          /\ h = [i \in DOMAIN h |-> h[i]]
        OBVIOUS
    <2>2. DOMAIN h \subseteq Iid
        BY <2>1, StructFacts
    <2>3. \A i \in DOMAIN h : h[i] \in Instance
        BY <1>6, StructFacts
    <2> HIDE DEF h
    <2> QED
        BY <2>1, <2>2, <2>3, ProposerTableFacts
<1>8. t = [s EXCEPT !.next_prepare_iid = next + Cardinality(P), !.prepare_instances = h]
    BY Zenon DEF Prepare, next, inst
<1>9. /\ DOMAIN h = DOMAIN s.prepare_instances \cup P
      /\ \A i \in P : h[i] = inst
      /\ \A i \in DOMAIN s.prepare_instances \ P : h[i] = s.prepare_instances[i]
    OBVIOUS
<1> HIDE DEF h
<1>10. /\ t \in ProposerStruct /\ t.values = s.values
       /\ t.accept_instances = s.accept_instances /\ t.prepare_instances = h
       /\ t.next_prepare_iid = next + Cardinality(P)
    BY <1>1, <1>5, <1>7, <1>8, Zenon DEF ProposerStruct
<1>11. /\ DOMAIN s.prepare_instances \cap DOMAIN s.accept_instances = {}
       /\ \A i \in DOMAIN s.prepare_instances \cup DOMAIN s.accept_instances :
             i \in Nat /\ i <= next
       /\ \A i \in DOMAIN s.prepare_instances :
             /\ OwnBallot(p, s.prepare_instances[i].ballot)
             /\ s.prepare_instances[i].ballot > 0
       /\ \A i \in DOMAIN s.accept_instances :
             /\ OwnBallot(p, s.accept_instances[i].ballot)
             /\ s.accept_instances[i].ballot > 0
    BY StructFacts, Zenon DEF StructOK, OpenedBy, next
<1>12. \A i \in DOMAIN s.prepare_instances \cup DOMAIN s.accept_instances :
          i <= next + Cardinality(P) /\ i \notin P
    BY <1>1, <1>4, <1>11
<1>13. DOMAIN t.prepare_instances \cap DOMAIN t.accept_instances = {}
    BY <1>9, <1>10, <1>11, <1>12
<1>14. OpenedBy(p, t.prepare_instances, t.next_prepare_iid)
    BY <1>4, <1>6, <1>9, <1>10, <1>11, <1>12 DEF OpenedBy
<1>15. OpenedBy(p, t.accept_instances, t.next_prepare_iid)
    BY <1>10, <1>11, <1>12 DEF OpenedBy
<1>16. StructOK(p, t)
    BY <1>10, <1>13, <1>14, <1>15 DEF StructOK
<1> QED
    BY <1>4, <1>5, <1>9, <1>10, <1>16 DEF next, inst

(* It gives no value a new place. *)
LEMMA PrepareHolds ==
    ASSUME NEW p \in Replica, NEW s, StructOK(p, s), NEW V, HoldsOnce(s, V),
           NEW P, P = PreparedNow(s), \A i \in P : i \in Iid,
           P # {} => proposer_next_ballot(p, 0) <= MaxBallot,
           NEW t, t = Prepare(p, s, P)
    PROVE  HoldsOnce(t, V)
<1>1. /\ t.values = s.values /\ t.accept_instances = s.accept_instances
      /\ \A i \in P : i > s.next_prepare_iid
      /\ DOMAIN t.prepare_instances = DOMAIN s.prepare_instances \cup P
      /\ \A i \in P : t.prepare_instances[i] = instance_new(proposer_next_ballot(p, 0))
      /\ \A i \in DOMAIN s.prepare_instances \ P :
            t.prepare_instances[i] = s.prepare_instances[i]
    BY PrepareStep
<1>2. \A i \in DOMAIN s.prepare_instances : i \notin P
    <2>1. \A i \in DOMAIN s.prepare_instances :
             i \in Nat /\ s.next_prepare_iid \in Nat /\ i <= s.next_prepare_iid
        BY StructFacts, Zenon DEF StructOK, OpenedBy
    <2> QED
        BY <1>1, <2>1
<1>3. \A i \in P : t.prepare_instances[i].value = None
    BY <1>1 DEF instance_new
<1>4. WithValue(t.prepare_instances) = WithValue(s.prepare_instances)
    BY <1>1, <1>2, <1>3 DEF WithValue, instance_has_value
<1>5. Places(t) = Places(s)
    BY <1>1, <1>4, Zenon DEF Places
<1>6. \A i \in WithValue(s.prepare_instances) :
         t.prepare_instances[i].value = s.prepare_instances[i].value
    BY <1>1, <1>2 DEF WithValue
<1>7. \A x \in Places(s) : ValueAt(t, x) = ValueAt(s, x)
    BY <1>1, <1>6, PlaceCases
<1> DEFINE h == [x \in Places(t) |-> x]
<1>8. \A x \in Places(t) : h[x] = x
    OBVIOUS
<1> HIDE DEF h
<1> QED
    BY <1>5, <1>7, <1>8, Relocated

-------------------------------------------------------------------------------
(* Values that go back to the queue: the places of the tables they leave. *)
InTables(s) ==
    {<<"prepare", i>> : i \in WithValue(s.prepare_instances)}
    \cup {<<"accept", i>> : i \in WithValue(s.accept_instances)}

ToQueue(s, t, w, g) ==
    /\ \A k \in DOMAIN w : g[k] \in InTables(s) /\ ValueAt(s, g[k]) = w[k]
    /\ \A j, k \in DOMAIN w : g[j] = g[k] => j = k
    /\ \A x : x \in InTables(t) <=> x \in InTables(s) /\ \A k \in DOMAIN w : g[k] # x
    /\ \A x \in InTables(t) : ValueAt(t, x) = ValueAt(s, x)

(* Values that go from the tables to the end of the queue are still held once. *)
LEMMA BackToQueue ==
    ASSUME NEW s, NEW t, NEW V, HoldsOnce(s, V), s.values \in Seq(Value),
           NEW w \in Seq(Value), t.values = s.values \o w, NEW g, ToQueue(s, t, w, g)
    PROVE  HoldsOnce(t, V)
<1>0. /\ \A k \in DOMAIN w : g[k] \in InTables(s) /\ ValueAt(s, g[k]) = w[k]
      /\ \A j, k \in DOMAIN w : g[j] = g[k] => j = k
      /\ \A x : x \in InTables(t) <=> x \in InTables(s) /\ \A k \in DOMAIN w : g[k] # x
      /\ \A x \in InTables(t) : ValueAt(t, x) = ValueAt(s, x)
    BY Zenon DEF ToQueue
<1> USE <1>0
<1> DEFINE n == Len(s.values)
           From(y) == IF y[1] # "queue" \/ y[2] <= n THEN y ELSE g[y[2] - n]
           h == [y \in Places(t) |-> From(y)]
<1>1. /\ n \in Nat /\ DOMAIN s.values = 1 .. n /\ Len(w) \in Nat
      /\ DOMAIN w = 1 .. Len(w) /\ Len(t.values) = n + Len(w)
      /\ DOMAIN t.values = 1 .. (n + Len(w))
      /\ \A k \in 1 .. n : t.values[k] = s.values[k]
      /\ \A k \in 1 .. Len(w) : t.values[n + k] = w[k]
    OBVIOUS
<1>2. \A k \in DOMAIN t.values :
         \/ k \in DOMAIN s.values /\ k <= n /\ t.values[k] = s.values[k]
         \/ /\ k - n \in DOMAIN w /\ ~(k <= n) /\ k \in Nat
            /\ t.values[k] = w[k - n]
    <2> SUFFICES ASSUME NEW k \in DOMAIN t.values, ~(k <= n)
                 PROVE  k - n \in DOMAIN w /\ k \in Nat /\ t.values[k] = w[k - n]
        BY <1>1
    <2>1. k \in Nat /\ k - n \in 1 .. Len(w) /\ n + (k - n) = k
        BY <1>1
    <2> QED
        BY <1>1, <2>1
<1>3. /\ \A k \in DOMAIN s.values : k \in DOMAIN t.values /\ k <= n
      /\ \A k \in DOMAIN w : /\ n + k \in DOMAIN t.values /\ ~(n + k <= n)
                             /\ (n + k) - n = k
    BY <1>1
<1>4. /\ \A x : x \in Places(s) <=>
             x \in InTables(s) \/ \E k \in DOMAIN s.values : x = <<"queue", k>>
      /\ \A x : x \in Places(t) <=>
             x \in InTables(t) \/ \E k \in DOMAIN t.values : x = <<"queue", k>>
    BY Zenon DEF Places, InTables
<1>5. \A x : x \in InTables(s) => x[1] # "queue"
    BY DEF InTables
<1>6. \A x : x \in InTables(t) => x[1] # "queue" /\ x \in InTables(s)
    BY <1>5
<1>7. /\ \A k : k <= n => From(<<"queue", k>>) = <<"queue", k>>
      /\ \A k : ~(k <= n) => From(<<"queue", k>>) = g[k - n]
      /\ \A x \in InTables(t) : From(x) = x
    BY <1>6
<1> HIDE DEF n, From
<1>8. ASSUME NEW y \in Places(t)
      PROVE  From(y) \in Places(s) /\ ValueAt(s, From(y)) = ValueAt(t, y)
    <2>1. CASE y \in InTables(t)
        BY <1>4, <1>6, <1>7, <2>1
    <2>2. CASE \E k \in DOMAIN t.values : y = <<"queue", k>>
        <3>1. PICK k \in DOMAIN t.values : y = <<"queue", k>>
            BY <2>2
        <3>2. ValueAt(t, y) = t.values[k]
            BY <3>1, PlaceCases
        <3>3. CASE k \in DOMAIN s.values /\ k <= n /\ t.values[k] = s.values[k]
            <4>1. From(y) = <<"queue", k>>
                BY <1>7, <3>1, <3>3
            <4>2. ValueAt(s, <<"queue", k>>) = s.values[k]
                BY PlaceCases
            <4> QED
                BY <1>4, <3>2, <3>3, <4>1, <4>2
        <3>4. CASE k - n \in DOMAIN w /\ ~(k <= n) /\ t.values[k] = w[k - n]
            <4>1. From(y) = g[k - n]
                BY <1>7, <3>1, <3>4
            <4> QED
                BY <1>4, <3>2, <3>4, <4>1
        <3> QED
            BY <1>2, <3>3, <3>4
    <2> QED
        BY <1>4, <2>1, <2>2
<1>9. ASSUME NEW x \in Places(s)
      PROVE  \E y \in Places(t) : From(y) = x
    <2>1. CASE \E k \in DOMAIN s.values : x = <<"queue", k>>
        BY <1>3, <1>4, <1>7, <2>1
    <2>2. CASE x \in InTables(t)
        BY <1>4, <1>7, <2>2
    <2>3. CASE \E k \in DOMAIN w : g[k] = x
        <3>1. PICK k \in DOMAIN w : g[k] = x
            BY <2>3
        <3>2. <<"queue", n + k>> \in Places(t) /\ From(<<"queue", n + k>>) = x
            BY <1>3, <1>4, <1>7, <3>1
        <3> QED
            BY <3>2
    <2> QED
        BY <1>4, <2>1, <2>2, <2>3
<1>10. ASSUME NEW x \in Places(t), NEW y \in Places(t), From(x) = From(y)
       PROVE  x = y
    <2> DEFINE Moved(z, k) == /\ z = <<"queue", k>> /\ k \in Nat /\ k - n \in DOMAIN w
                             /\ From(z) = g[k - n]
                             /\ From(z) \in InTables(s) /\ From(z) \notin InTables(t)
    <2>1. ASSUME NEW z \in Places(t)
          PROVE  \/ z \in InTables(t) /\ z \in InTables(s) /\ From(z) = z
                 \/ z \notin InTables(s) /\ From(z) = z
                 \/ \E k : Moved(z, k)
        <3>1. CASE z \in InTables(t)
            BY <1>6, <1>7, <3>1
        <3>2. CASE \E k \in DOMAIN t.values : z = <<"queue", k>>
            <4>1. PICK k \in DOMAIN t.values : z = <<"queue", k>>
                BY <3>2
            <4>2. CASE k <= n
                <5>1. From(z) = z
                    BY <1>7, <4>1, <4>2
                <5>2. z \notin InTables(s)
                    BY <1>5, <4>1
                <5> QED
                    BY <5>1, <5>2
            <4>3. CASE ~(k <= n)
                <5>1. k - n \in DOMAIN w /\ k \in Nat
                    BY <1>2, <4>3
                <5>2. From(z) = g[k - n]
                    BY <1>7, <4>1, <4>3
                <5>3. From(z) \in InTables(s) /\ From(z) \notin InTables(t)
                    BY <5>1, <5>2
                <5> QED
                    BY <4>1, <5>1, <5>2, <5>3, Zenon
            <4> QED
                BY <4>2, <4>3
        <3> QED
            BY <1>4, <3>1, <3>2, Zenon
    <2>2. \A j, k \in Nat : j - n = k - n => j = k
        BY <1>1
    <2>3. ASSUME NEW j, NEW k, Moved(x, j), Moved(y, k)
          PROVE  x = y
        BY <1>10, <2>2, <2>3
    <2> HIDE DEF Moved
    <2>4. \A z : (\E k : Moved(z, k)) => From(z) \in InTables(s) /\ From(z) \notin InTables(t)
        BY DEF Moved
    <2>5. \A z \in Places(t) :
             \/ From(z) = z /\ (From(z) \in InTables(t) \/ From(z) \notin InTables(s))
             \/ \E k : Moved(z, k)
        BY <2>1
    <2>6. CASE (\E k : Moved(x, k)) /\ (\E k : Moved(y, k))
        BY <2>3, <2>6
    <2> QED
        BY <1>10, <2>4, <2>5, <2>6
<1>11. \A y \in Places(t) : h[y] = From(y)
    OBVIOUS
<1> HIDE DEF h
<1>12. \A y \in Places(t) : h[y] \in Places(s) /\ ValueAt(s, h[y]) = ValueAt(t, y)
    BY <1>8, <1>11
<1>13. \A x, y \in Places(t) : h[x] = h[y] => x = y
    BY <1>10, <1>11, Zenon
<1>14. \A x \in Places(s) : \E y \in Places(t) : h[y] = x
    BY <1>9, <1>11, Zenon
<1> QED
    BY <1>12, <1>13, <1>14, Relocated

(* Between s and t instances were dropped, and new ones opened for preparation;
   all others are as they were. *)
Later(s, t) ==
    /\ t.next_prepare_iid >= s.next_prepare_iid
    /\ \A i \in DOMAIN t.prepare_instances :
          \/ /\ i \in DOMAIN s.prepare_instances
             /\ t.prepare_instances[i] = s.prepare_instances[i]
          \/ /\ i > s.next_prepare_iid
             /\ t.prepare_instances[i].quorum = {}
             /\ t.prepare_instances[i].promised_value = None
             /\ t.prepare_instances[i].value_ballot = 0
    /\ \A i \in DOMAIN t.accept_instances :
          /\ i \in DOMAIN s.accept_instances
          /\ t.accept_instances[i] = s.accept_instances[i]

(* Trimming returns the value of every instance that has one, once. *)
Returning(h, iid) == {i \in DOMAIN h : i <= iid /\ instance_has_value(h[i])}

ReturnOrder(h, iid, v, order) ==
    /\ \A k \in DOMAIN v : order[k] \in Returning(h, iid) /\ v[k] = h[order[k]].value
    /\ \A j, k \in DOMAIN v : order[j] = order[k] => j = k
    /\ \A i \in Returning(h, iid) : \E k \in DOMAIN v : order[k] = i

(* What a trim puts back into the queue, in whatever order the hash table yields it,
   is the value of each trimmed instance that has one, once. *)
LEMMA ReturnedFacts ==
    ASSUME NEW h, NEW iid, NEW v, h \in ProposerTable, IsFiniteSet(DOMAIN h),
           v \in ReturnedValues(h, iid)
    PROVE  v \in Seq(Value) /\ \E order : ReturnOrder(h, iid, v, order)
<1> DEFINE S == {i \in TrimmedIn(h, iid) : instance_has_value(h[i])}
<1>1. S = Returning(h, iid) /\ S \subseteq DOMAIN h
    BY DEF TrimmedIn, Returning
<1>2. IsFiniteSet(S)
    BY <1>1, FS_Subset
<1>3. PICK order \in Orders(S) : v = [k \in DOMAIN order |-> h[order[k]].value]
    BY DEF ReturnedValues
<1>4. \A i \in S : h[i].value \in Value
    BY <1>1, ProposerTableFacts DEF Instance, instance_has_value
<1> HIDE DEF S
<1>5. /\ DOMAIN order = 1 .. Cardinality(S) /\ Cardinality(S) \in Nat
      /\ \A k \in DOMAIN order : order[k] \in S
      /\ \A j, k \in DOMAIN order : order[j] = order[k] => j = k
      /\ \A x \in S : \E k \in DOMAIN order : order[k] = x
    BY <1>2, OrderFacts
<1>6. v \in [1 .. Cardinality(S) -> Value]
    BY <1>3, <1>4, <1>5
<1>7. v \in Seq(Value) /\ DOMAIN v = DOMAIN order
    BY <1>5, <1>6
<1>8. \A k \in DOMAIN v : v[k] = h[order[k]].value
    BY <1>3, <1>7
<1>9. ReturnOrder(h, iid, v, order)
    BY <1>1, <1>5, <1>7, <1>8 DEF ReturnOrder
<1> QED
    BY <1>7, <1>9, Zenon

(* What proposer_set_instance_id does beyond next_prepare_iid. *)
LEMMA TrimFields ==
    ASSUME NEW p, NEW s, StructOK(p, s), NEW iid \in Iid, iid > s.next_prepare_iid,
           NEW t \in proposer_set_instance_id(s, iid)
    PROVE  /\ t \in ProposerStruct /\ t.next_prepare_iid = iid
           /\ t.prepare_instances =
                 Delete(s.prepare_instances, TrimmedIn(s.prepare_instances, iid))
           /\ t.accept_instances =
                 Delete(s.accept_instances, TrimmedIn(s.accept_instances, iid))
           /\ \E v1 \in ReturnedValues(s.prepare_instances, iid),
                 v2 \in ReturnedValues(s.accept_instances, iid) :
                 /\ t.values = s.values \o v1 \o v2
                 /\ v1 \in Seq(Value) /\ v2 \in Seq(Value)
<1>1. s \in ProposerStruct /\ s.next_prepare_iid \in Nat /\ s.values \in Seq(Value)
    BY StructFacts, Zenon DEF StructOK
<1>2. iid \in Nat /\ ~(iid <= s.next_prepare_iid)
    BY <1>1, IidFacts
<1> DEFINE P == Delete(s.prepare_instances, TrimmedIn(s.prepare_instances, iid))
           C == Delete(s.accept_instances, TrimmedIn(s.accept_instances, iid))
<1>3. PICK v1 \in ReturnedValues(s.prepare_instances, iid),
           v2 \in ReturnedValues(s.accept_instances, iid) :
         t = SettledUpTo(s, iid, v1, v2)
    BY <1>2 DEF proposer_set_instance_id
<1>5. v1 \in Seq(Value) /\ v2 \in Seq(Value)
    BY ReturnedFacts, StructFacts
<1>6. s.values \o v1 \o v2 \in Seq(Value)
    BY <1>1, <1>5
<1>7. P \in ProposerTable /\ C \in ProposerTable
    BY StructFacts, DeleteFacts, Zenon
<1> HIDE DEF P, C
<1> DEFINE vs == s.values \o v1 \o v2
<1> HIDE DEF vs
<1>8. /\ t = [s EXCEPT !.next_prepare_iid = iid, !.values = vs,
                       !.prepare_instances = P, !.accept_instances = C]
      /\ vs \in Seq(Value)
    <2>1. s = [values |-> s.values, max_trim_iid |-> s.max_trim_iid,
               next_prepare_iid |-> s.next_prepare_iid,
               prepare_instances |-> s.prepare_instances,
               accept_instances |-> s.accept_instances]
        BY <1>1 DEF ProposerStruct
    <2>2. t = [s EXCEPT !.next_prepare_iid = iid, !.values = s.values \o v1 \o v2,
                        !.prepare_instances = P, !.accept_instances = C]
        BY <1>3, <2>1 DEF P, C, SettledUpTo
    <2> QED
        BY <1>6, <2>2, Zenon DEF vs
<1>9. /\ t \in ProposerStruct /\ t.next_prepare_iid = iid /\ t.values = vs
      /\ t.prepare_instances = P /\ t.accept_instances = C
    BY <1>1, <1>7, <1>8, Zenon DEF ProposerStruct
<1> QED
    BY <1>5, <1>9, Zenon DEF vs, P, C

(* Everything up to iid leaves the tables, the rest stays. *)
LEMMA TrimStep ==
    ASSUME NEW p, NEW s, StructOK(p, s), NEW iid \in Iid \cup {0},
           NEW t \in proposer_set_instance_id(s, iid)
    PROVE  StructOK(p, t) /\ Later(s, t)
<1>1. s.next_prepare_iid \in Nat /\ iid \in Nat
    BY StructFacts, IidFacts
<1>2. CASE iid <= s.next_prepare_iid
    <2>1. t = s
        BY <1>2 DEF proposer_set_instance_id
    <2> QED
        BY <1>1, <2>1 DEF Later
<1>3. CASE ~(iid <= s.next_prepare_iid)
    <2>1. iid > s.next_prepare_iid /\ iid \in Iid
        BY <1>1, <1>3
    <2>2. /\ t \in ProposerStruct /\ t.next_prepare_iid = iid
          /\ t.prepare_instances =
                Delete(s.prepare_instances, TrimmedIn(s.prepare_instances, iid))
          /\ t.accept_instances =
                Delete(s.accept_instances, TrimmedIn(s.accept_instances, iid))
        BY <2>1, TrimFields
    <2>3. /\ DOMAIN t.prepare_instances \subseteq DOMAIN s.prepare_instances
          /\ \A i \in DOMAIN t.prepare_instances :
                t.prepare_instances[i] = s.prepare_instances[i]
        BY <2>2 DEF Delete, Restrict
    <2>4. /\ DOMAIN t.accept_instances \subseteq DOMAIN s.accept_instances
          /\ \A i \in DOMAIN t.accept_instances :
                t.accept_instances[i] = s.accept_instances[i]
        BY <2>2 DEF Delete, Restrict
    <2>5. DOMAIN t.prepare_instances \cap DOMAIN t.accept_instances = {}
        BY <2>3, <2>4 DEF StructOK
    <2>6. \A i \in Nat : i <= s.next_prepare_iid => i <= iid
        BY <1>1, <2>1
    <2>7. OpenedBy(p, t.prepare_instances, iid)
        BY <2>3, <2>6, StructFacts DEF StructOK, OpenedBy
    <2>8. OpenedBy(p, t.accept_instances, iid)
        BY <2>4, <2>6, StructFacts DEF StructOK, OpenedBy
    <2>9. Later(s, t)
        BY <1>1, <2>1, <2>2, <2>3, <2>4 DEF Later
    <2> QED
        BY <2>2, <2>5, <2>7, <2>8, <2>9 DEF StructOK
<1> QED
    BY <1>2, <1>3

(* The values of the trimmed instances of one table go back to the queue. *)
LEMMA PreparedReturn ==
    ASSUME NEW s, NEW t, NEW V, HoldsOnce(s, V), s.values \in Seq(Value),
           s.prepare_instances \in ProposerTable, IsFiniteSet(DOMAIN s.prepare_instances),
           NEW iid, NEW v \in ReturnedValues(s.prepare_instances, iid),
           t.values = s.values \o v,
           t.prepare_instances =
              Delete(s.prepare_instances, TrimmedIn(s.prepare_instances, iid)),
           t.accept_instances = s.accept_instances
    PROVE  HoldsOnce(t, V)
<1> DEFINE h == s.prepare_instances
<1>1. PICK order : ReturnOrder(h, iid, v, order)
    BY ReturnedFacts, Zenon
<1>2. v \in Seq(Value)
    BY ReturnedFacts, Zenon
<1>0. /\ \A k \in DOMAIN v : order[k] \in Returning(h, iid) /\ v[k] = h[order[k]].value
      /\ \A j, k \in DOMAIN v : order[j] = order[k] => j = k
      /\ \A i \in Returning(h, iid) : \E k \in DOMAIN v : order[k] = i
    BY <1>1, Zenon DEF ReturnOrder
<1>3. /\ DOMAIN t.prepare_instances = {i \in DOMAIN h : ~(i <= iid)}
      /\ \A i \in DOMAIN t.prepare_instances : t.prepare_instances[i] = h[i]
    BY DEF Delete, Restrict, TrimmedIn
<1>4. \A i : i \in WithValue(t.prepare_instances)
                <=> i \in WithValue(h) /\ i \notin Returning(h, iid)
    BY <1>3 DEF WithValue, Returning
<1> DEFINE g == [k \in DOMAIN v |-> <<"prepare", order[k]>>]
<1>5. \A k \in DOMAIN v : g[k] = <<"prepare", order[k]>>
    OBVIOUS
<1>6. Returning(h, iid) \subseteq WithValue(h)
    BY DEF Returning, WithValue
<1> HIDE DEF g
<1>7. /\ \A x : x \in InTables(s) <=>
             \/ \E i \in WithValue(h) : x = <<"prepare", i>>
             \/ \E i \in WithValue(s.accept_instances) : x = <<"accept", i>>
      /\ \A x : x \in InTables(t) <=>
             \/ \E i \in WithValue(t.prepare_instances) : x = <<"prepare", i>>
             \/ \E i \in WithValue(s.accept_instances) : x = <<"accept", i>>
    BY Zenon DEF InTables
<1>8. ASSUME NEW k \in DOMAIN v PROVE g[k] \in InTables(s) /\ ValueAt(s, g[k]) = v[k]
    <2>1. order[k] \in WithValue(h) /\ v[k] = h[order[k]].value /\ g[k] = <<"prepare", order[k]>>
        BY <1>0, <1>5, <1>6
    <2>2. ValueAt(s, <<"prepare", order[k]>>) = h[order[k]].value
        BY PlaceCases
    <2> QED
        BY <1>7, <2>1, <2>2, Zenon
<1>9. ASSUME NEW j \in DOMAIN v, NEW k \in DOMAIN v, g[j] = g[k] PROVE j = k
    <2>1. <<"prepare", order[j]>> = <<"prepare", order[k]>>
        BY <1>5, <1>9, Zenon
    <2>2. order[j] = order[k]
        BY <2>1
    <2> QED
        BY <1>0, <2>2, Zenon
<1>10. \A x : x \in InTables(t) <=>
                 x \in InTables(s) /\ \A k \in DOMAIN v : g[k] # x
    <2>1. \A i \in WithValue(s.accept_instances), k \in DOMAIN v : g[k] # <<"accept", i>>
        BY <1>5
    <2>2. \A i \in WithValue(h) : i \in WithValue(t.prepare_instances)
             <=> \A k \in DOMAIN v : g[k] # <<"prepare", i>>
        <3> SUFFICES ASSUME NEW i \in WithValue(h)
                     PROVE  i \in WithValue(t.prepare_instances)
                               <=> \A k \in DOMAIN v : g[k] # <<"prepare", i>>
            BY Zenon
        <3>1. \A k \in DOMAIN v : g[k] = <<"prepare", i>> <=> order[k] = i
            BY <1>5
        <3>2. i \in Returning(h, iid) <=> \E k \in DOMAIN v : order[k] = i
            BY <1>0
        <3>3. i \in WithValue(t.prepare_instances) <=> i \notin Returning(h, iid)
            BY <1>4, Zenon
        <3> QED
            BY <3>1, <3>2, <3>3, Zenon
    <2>3. \A i \in WithValue(t.prepare_instances) : i \in WithValue(h)
        BY <1>4
    <2>5. ASSUME NEW x, x \in InTables(t)
          PROVE  x \in InTables(s) /\ \A k \in DOMAIN v : g[k] # x
        <3>1. ASSUME NEW i \in WithValue(t.prepare_instances), x = <<"prepare", i>>
              PROVE  x \in InTables(s) /\ \A k \in DOMAIN v : g[k] # x
            <4>1. i \in WithValue(h)
                BY <2>3, Zenon
            <4> QED
                BY <1>7, <2>2, <3>1, <4>1, Zenon
        <3>2. ASSUME NEW i \in WithValue(s.accept_instances), x = <<"accept", i>>
              PROVE  x \in InTables(s) /\ \A k \in DOMAIN v : g[k] # x
            BY <1>7, <2>1, <3>2, Zenon
        <3> QED
            BY <1>7, <2>5, <3>1, <3>2, Zenon
    <2>6. ASSUME NEW x, x \in InTables(s), \A k \in DOMAIN v : g[k] # x
          PROVE  x \in InTables(t)
        <3>1. CASE \E i \in WithValue(h) : x = <<"prepare", i>>
            <4>1. PICK i \in WithValue(h) : x = <<"prepare", i>>
                BY <3>1
            <4>2. i \in WithValue(t.prepare_instances)
                BY <2>2, <2>6, <4>1, Zenon
            <4> QED
                BY <1>7, <4>1, <4>2, Zenon
        <3> QED
            BY <1>7, <2>6, <3>1, Zenon
    <2> QED
        BY <2>5, <2>6, Zenon
<1>11. \A x \in InTables(t) : ValueAt(t, x) = ValueAt(s, x)
    <2>1. \A i \in WithValue(t.prepare_instances) : t.prepare_instances[i] = h[i]
        BY <1>3 DEF WithValue
    <2> QED
        <3>1. ASSUME NEW x, NEW i \in WithValue(t.prepare_instances), x = <<"prepare", i>>
              PROVE  ValueAt(t, x) = ValueAt(s, x)
            BY <2>1, <3>1, PlaceCases
        <3>2. ASSUME NEW x, NEW i \in WithValue(s.accept_instances), x = <<"accept", i>>
              PROVE  ValueAt(t, x) = ValueAt(s, x)
            BY <3>2, PlaceCases
        <3> QED
            BY <1>7, <3>1, <3>2, Zenon
<1>12. ToQueue(s, t, v, g)
    BY <1>8, <1>9, <1>10, <1>11, Zenon DEF ToQueue
<1> QED
    BY <1>2, <1>12, BackToQueue, Zenon

(* The same for the accept phase. *)
LEMMA AcceptedReturn ==
    ASSUME NEW s, NEW t, NEW V, HoldsOnce(s, V), s.values \in Seq(Value),
           s.accept_instances \in ProposerTable, IsFiniteSet(DOMAIN s.accept_instances),
           NEW iid, NEW v \in ReturnedValues(s.accept_instances, iid),
           t.values = s.values \o v,
           t.accept_instances =
              Delete(s.accept_instances, TrimmedIn(s.accept_instances, iid)),
           t.prepare_instances = s.prepare_instances
    PROVE  HoldsOnce(t, V)
<1> DEFINE h == s.accept_instances
<1>1. PICK order : ReturnOrder(h, iid, v, order)
    BY ReturnedFacts, Zenon
<1>2. v \in Seq(Value)
    BY ReturnedFacts, Zenon
<1>0. /\ \A k \in DOMAIN v : order[k] \in Returning(h, iid) /\ v[k] = h[order[k]].value
      /\ \A j, k \in DOMAIN v : order[j] = order[k] => j = k
      /\ \A i \in Returning(h, iid) : \E k \in DOMAIN v : order[k] = i
    BY <1>1, Zenon DEF ReturnOrder
<1>3. /\ DOMAIN t.accept_instances = {i \in DOMAIN h : ~(i <= iid)}
      /\ \A i \in DOMAIN t.accept_instances : t.accept_instances[i] = h[i]
    BY DEF Delete, Restrict, TrimmedIn
<1>4. \A i : i \in WithValue(t.accept_instances)
                <=> i \in WithValue(h) /\ i \notin Returning(h, iid)
    BY <1>3 DEF WithValue, Returning
<1> DEFINE g == [k \in DOMAIN v |-> <<"accept", order[k]>>]
<1>5. \A k \in DOMAIN v : g[k] = <<"accept", order[k]>>
    OBVIOUS
<1>6. Returning(h, iid) \subseteq WithValue(h)
    BY DEF Returning, WithValue
<1> HIDE DEF g
<1>7. /\ \A x : x \in InTables(s) <=>
             \/ \E i \in WithValue(h) : x = <<"accept", i>>
             \/ \E i \in WithValue(s.prepare_instances) : x = <<"prepare", i>>
      /\ \A x : x \in InTables(t) <=>
             \/ \E i \in WithValue(t.accept_instances) : x = <<"accept", i>>
             \/ \E i \in WithValue(s.prepare_instances) : x = <<"prepare", i>>
    BY Zenon DEF InTables
<1>8. ASSUME NEW k \in DOMAIN v PROVE g[k] \in InTables(s) /\ ValueAt(s, g[k]) = v[k]
    <2>1. order[k] \in WithValue(h) /\ v[k] = h[order[k]].value /\ g[k] = <<"accept", order[k]>>
        BY <1>0, <1>5, <1>6
    <2>2. ValueAt(s, <<"accept", order[k]>>) = h[order[k]].value
        BY PlaceCases
    <2> QED
        BY <1>7, <2>1, <2>2, Zenon
<1>9. ASSUME NEW j \in DOMAIN v, NEW k \in DOMAIN v, g[j] = g[k] PROVE j = k
    <2>1. <<"accept", order[j]>> = <<"accept", order[k]>>
        BY <1>5, <1>9, Zenon
    <2>2. order[j] = order[k]
        BY <2>1
    <2> QED
        BY <1>0, <2>2, Zenon
<1>10. \A x : x \in InTables(t) <=>
                 x \in InTables(s) /\ \A k \in DOMAIN v : g[k] # x
    <2>1. \A i \in WithValue(s.prepare_instances), k \in DOMAIN v : g[k] # <<"prepare", i>>
        BY <1>5
    <2>2. \A i \in WithValue(h) : i \in WithValue(t.accept_instances)
             <=> \A k \in DOMAIN v : g[k] # <<"accept", i>>
        <3> SUFFICES ASSUME NEW i \in WithValue(h)
                     PROVE  i \in WithValue(t.accept_instances)
                               <=> \A k \in DOMAIN v : g[k] # <<"accept", i>>
            BY Zenon
        <3>1. \A k \in DOMAIN v : g[k] = <<"accept", i>> <=> order[k] = i
            BY <1>5
        <3>2. i \in Returning(h, iid) <=> \E k \in DOMAIN v : order[k] = i
            BY <1>0
        <3>3. i \in WithValue(t.accept_instances) <=> i \notin Returning(h, iid)
            BY <1>4, Zenon
        <3> QED
            BY <3>1, <3>2, <3>3, Zenon
    <2>3. \A i \in WithValue(t.accept_instances) : i \in WithValue(h)
        BY <1>4
    <2>5. ASSUME NEW x, x \in InTables(t)
          PROVE  x \in InTables(s) /\ \A k \in DOMAIN v : g[k] # x
        <3>1. ASSUME NEW i \in WithValue(t.accept_instances), x = <<"accept", i>>
              PROVE  x \in InTables(s) /\ \A k \in DOMAIN v : g[k] # x
            <4>1. i \in WithValue(h)
                BY <2>3, Zenon
            <4> QED
                BY <1>7, <2>2, <3>1, <4>1, Zenon
        <3>2. ASSUME NEW i \in WithValue(s.prepare_instances), x = <<"prepare", i>>
              PROVE  x \in InTables(s) /\ \A k \in DOMAIN v : g[k] # x
            BY <1>7, <2>1, <3>2, Zenon
        <3> QED
            BY <1>7, <2>5, <3>1, <3>2, Zenon
    <2>6. ASSUME NEW x, x \in InTables(s), \A k \in DOMAIN v : g[k] # x
          PROVE  x \in InTables(t)
        <3>1. CASE \E i \in WithValue(h) : x = <<"accept", i>>
            <4>1. PICK i \in WithValue(h) : x = <<"accept", i>>
                BY <3>1
            <4>2. i \in WithValue(t.accept_instances)
                BY <2>2, <2>6, <4>1, Zenon
            <4> QED
                BY <1>7, <4>1, <4>2, Zenon
        <3> QED
            BY <1>7, <2>6, <3>1, Zenon
    <2> QED
        BY <2>5, <2>6, Zenon
<1>11. \A x \in InTables(t) : ValueAt(t, x) = ValueAt(s, x)
    <2>1. \A i \in WithValue(t.accept_instances) : t.accept_instances[i] = h[i]
        BY <1>3 DEF WithValue
    <2> QED
        <3>1. ASSUME NEW x, NEW i \in WithValue(t.accept_instances), x = <<"accept", i>>
              PROVE  ValueAt(t, x) = ValueAt(s, x)
            BY <2>1, <3>1, PlaceCases
        <3>2. ASSUME NEW x, NEW i \in WithValue(s.prepare_instances), x = <<"prepare", i>>
              PROVE  ValueAt(t, x) = ValueAt(s, x)
            BY <3>2, PlaceCases
        <3> QED
            BY <1>7, <3>1, <3>2, Zenon
<1>12. ToQueue(s, t, v, g)
    BY <1>8, <1>9, <1>10, <1>11, Zenon DEF ToQueue
<1> QED
    BY <1>2, <1>12, BackToQueue, Zenon

(* proposer_set_instance_id loses no value and doubles none. *)
LEMMA TrimHolds ==
    ASSUME NEW p, NEW s, StructOK(p, s), NEW V, HoldsOnce(s, V),
           NEW iid \in Iid \cup {0}, NEW t \in proposer_set_instance_id(s, iid)
    PROVE  HoldsOnce(t, V)
<1>1. CASE iid <= s.next_prepare_iid
    BY <1>1 DEF proposer_set_instance_id
<1>2. CASE ~(iid <= s.next_prepare_iid)
    <2>1. iid \in Iid /\ iid > s.next_prepare_iid
        BY <1>2, IidFacts, StructFacts
    <2>2. /\ t.prepare_instances =
                Delete(s.prepare_instances, TrimmedIn(s.prepare_instances, iid))
          /\ t.accept_instances =
                Delete(s.accept_instances, TrimmedIn(s.accept_instances, iid))
        BY <2>1, TrimFields
    <2>3. PICK v1 \in ReturnedValues(s.prepare_instances, iid),
               v2 \in ReturnedValues(s.accept_instances, iid) :
                  /\ t.values = s.values \o v1 \o v2
                  /\ v1 \in Seq(Value) /\ v2 \in Seq(Value)
        BY <2>1, TrimFields, Zenon
    <2> DEFINE u == [values |-> s.values \o v1,
                     prepare_instances |-> t.prepare_instances,
                     accept_instances |-> s.accept_instances]
    <2>4. /\ u.values = s.values \o v1 /\ u.accept_instances = s.accept_instances
          /\ u.prepare_instances =
                Delete(s.prepare_instances, TrimmedIn(s.prepare_instances, iid))
        BY <2>2
    <2>5. t.values = u.values \o v2 /\ t.prepare_instances = u.prepare_instances
        BY <2>3
    <2> HIDE DEF u
    <2>6. HoldsOnce(u, V)
        BY <2>4, PreparedReturn, StructFacts, Zenon
    <2>7. u.values \in Seq(Value)
        BY <2>3, <2>4, StructFacts
    <2> QED
        BY <2>2, <2>4, <2>5, <2>6, <2>7, AcceptedReturn, StructFacts, Zenon
<1> QED
    BY <1>1, <1>2
===============================================================================
