----------------------------- MODULE SupportProofs ----------------------------
(***************************************************************************)
(* What is built on the protocol, and what the protocol is built on.  Whom *)
(* a relay reaches and whom a replica counts, for every configuration of   *)
(* groups.  The counter of sample/counter.c for any groups of replicas,    *)
(* any distance between checkpoints and any number of values: it counts    *)
(* exactly, and a replica that all others count can resume from its file,  *)
(* unless it ended inside checkpoint_state itself.  The circular array of  *)
(* paxos/carray.c implements a queue, for every first size and after any   *)
(* number of operations.  The table of clients and the reconnection of     *)
(* peers, of evpaxos/peers.c, for any number of peers and connections.     *)
(* The threads of sample/replica2.c for any number of replicas: none is    *)
(* freed while the event loop runs.                                        *)
(***************************************************************************)
EXTENDS Counter, CArray, Connections, ReplicaThreads, FiniteSetTheorems, TLAPS

TrimValue == [type : {"TRIM"}, replica : Replica, iid : Nat]

Counted(l, n) == {i \in 1 .. n : l[i] = COUNT}

-------------------------------------------------------------------------------
(* The number of replicas. *)
LEMMA ReplicaNumber ==
    N \in Nat \ {0} /\ IsFiniteSet(Replica) /\ Cardinality(Replica) = N
<1>1. N \in Nat \ {0}
  BY TopologyAssumption
<1> QED
  BY <1>1, FS_Interval DEF Replica

(* The ids below the number of a replica's peers are those of replicas. *)
LEMMA CountsReplicas ==
    ASSUME NEW r \in Replica
    PROVE  replica_count(r) \in Nat /\ 0 .. replica_count(r)-1 \subseteq Replica
<1>1. Peers[r] \subseteq Replica
  BY DEF Peers
<1>2. IsFiniteSet(Peers[r]) /\ Cardinality(Peers[r]) <= N
  BY <1>1, ReplicaNumber, FS_Subset, Zenon
<1>3. replica_count(r) \in Nat /\ replica_count(r) <= N
  BY <1>2, FS_CardinalityType DEF replica_count
<1> QED
  BY <1>3, ReplicaNumber DEF Replica

(* In a group without relays every replica is counted by all: evpaxos_replica_count
   is the number of replicas there, and no trim goes beyond what any of them saved. *)
THEOREM FlatGroupIsCounted ==
    ASSUME \A r, i \in Replica : groupid[i] = groupid[r]
    PROVE  CountedByAll = Replica
<1>1. ASSUME NEW r \in Replica PROVE replica_count(r) = N
  <2>1. Peers[r] = Replica
    BY DEF Peers, ConnectsTo
  <2> QED
    BY <2>1, ReplicaNumber DEF replica_count
<1>2. \A q \in Replica : q < N
  BY ReplicaNumber DEF Replica
<1> QED
  BY <1>1, <1>2 DEF CountedByAll

(* Where peers_foreach_down_acceptor is right to index the configuration with the
   place of a peer: a relay that is connected to the replicas 0 .. k and to no other
   passes its requests on to all replicas below it, and to these only. *)
THEOREM RelayReachesBelow ==
    ASSUME NEW r \in Replica, Relay(r), NEW k \in Replica, Peers[r] = 0 .. k
    PROVE  Down[r] = {p \in Replica : BelowAt(r, p)}
<1>1. ASSUME NEW p \in 0 .. k PROVE PeerIndex(r, p) = p
  <2>1. k \in Nat /\ p \in Nat /\ p <= k
    BY ReplicaNumber DEF Replica
  <2>2. {q \in 0 .. k : q < p} = 0 .. p-1
    BY <2>1
  <2>3. Cardinality(0 .. p-1) = p
    BY <2>1, FS_Interval
  <2> QED
    BY <2>2, <2>3 DEF PeerIndex
<1>2. \A p \in Replica : BelowAt(r, p) => p \in Peers[r]
  BY DEF BelowAt, Peers, ConnectsTo
<1>3. Peers[r] \subseteq Replica
  BY DEF Peers
<1>4. Down[r] = {p \in Peers[r] : BelowAt(r, PeerIndex(r, p))}
  BY DEF Down
<1>5. Down[r] = {p \in Peers[r] : BelowAt(r, p)}
  BY <1>1, <1>4
<1> QED
  BY <1>2, <1>3, <1>5, Zenon

-------------------------------------------------------------------------------
(* A value that is appended does not change what was counted before it. *)
LEMMA CountedAppend ==
    ASSUME NEW S, NEW l \in Seq(S), NEW v \in S, NEW n \in Nat, n <= Len(l)
    PROVE  Counted(Append(l, v), n) = Counted(l, n)
<1>1. \A i \in 1 .. n : i \in 1 .. Len(l) /\ Append(l, v)[i] = l[i]
  OBVIOUS
<1> QED
  BY <1>1 DEF Counted

(* One more instance adds one when it holds a COUNT, and nothing otherwise. *)
LEMMA CountedNext ==
    ASSUME NEW l, NEW n \in Nat
    PROVE  /\ Cardinality(Counted(l, n)) \in Nat
           /\ l[n + 1] = COUNT =>
                Cardinality(Counted(l, n + 1)) = Cardinality(Counted(l, n)) + 1
           /\ l[n + 1] # COUNT => Counted(l, n + 1) = Counted(l, n)
<1>1. \A i \in 1 .. n + 1 : i \in 1 .. n \/ i = n + 1
  OBVIOUS
<1>2. \A i \in 1 .. n : i \in 1 .. n + 1 /\ i # n + 1
  OBVIOUS
<1>3. IsFiniteSet(Counted(l, n)) /\ Cardinality(Counted(l, n)) \in Nat
  <2>1. IsFiniteSet(1 .. n)
    BY FS_Interval
  <2>2. Counted(l, n) \subseteq 1 .. n
    BY DEF Counted
  <2> QED
    BY <2>1, <2>2, FS_Subset, FS_CardinalityType
<1>4. ASSUME l[n + 1] = COUNT
      PROVE  Cardinality(Counted(l, n + 1)) = Cardinality(Counted(l, n)) + 1
  <2>1. n + 1 \in 1 .. n + 1
    OBVIOUS
  <2>2. Counted(l, n + 1) = Counted(l, n) \cup {n + 1}
    BY <1>1, <1>2, <1>4, <2>1 DEF Counted
  <2>3. n + 1 \notin Counted(l, n)
    BY <1>2 DEF Counted
  <2> QED
    BY <1>3, <2>2, <2>3, FS_AddElement
<1>5. ASSUME l[n + 1] # COUNT PROVE Counted(l, n + 1) = Counted(l, n)
  BY <1>1, <1>2, <1>5 DEF Counted
<1> QED
  BY <1>3, <1>4, <1>5

(* The smallest of some natural numbers is one of them and below the others. *)
LEMMA MinIsLeast ==
    ASSUME NEW S, S \subseteq Nat, S # {}
    PROVE  Min(S) \in S /\ \A y \in S : Min(S) <= y
<1>1. \E x \in S : \A y \in S : ~(<<y, x>> \in OpToRel(<, Nat))
  BY NatLessThanWellFounded, WFMin, Zenon
<1>2. PICK x \in S : \A y \in S : ~(<<y, x>> \in OpToRel(<, Nat))
  BY <1>1, Zenon
<1>3. \A y \in S : x <= y
  <2>1. TAKE y \in S
  <2>2. ~(<<y, x>> \in {ss \in Nat \X Nat : ss[1] < ss[2]})
    BY <1>2, Zenon DEF OpToRel
  <2>3. <<y, x>> \in Nat \X Nat /\ <<y, x>>[1] = y /\ <<y, x>>[2] = x
    OBVIOUS
  <2>4. ~(y < x)
    BY <2>2, <2>3, Zenon
  <2> QED
    BY <2>4
<1> QED
  BY <1>3, Zenon DEF Min

-------------------------------------------------------------------------------
(* What is on file and what is in memory agree with the log. *)
FileAgrees(r) ==
    /\ file[r].iid <= Len(log)
    /\ file[r].count = Cardinality(Counted(log, file[r].iid))

(* Between the last COUNT a replica noted and the instance it delivers next there
   is no other. *)
MemoryAgrees(r) ==
    /\ instance_id[r] < next[r]
    /\ Counted(log, instance_id[r]) = Counted(log, next[r] - 1)
    /\ counts[r] = Cardinality(Counted(log, next[r] - 1))

Shapes ==
    /\ submitted \subseteq TrimValue /\ log \in Seq({COUNT} \cup submitted)
    /\ running \subseteq Replica /\ saving \subseteq running
    /\ next \in [Replica -> Nat \ {0}] /\ \A r \in Replica : next[r] <= Len(log) + 1
    /\ counts \in [Replica -> Nat] /\ instance_id \in [Replica -> Nat]
    /\ file \in [Replica -> [count : Nat, iid : Nat]]

CountInv ==
    /\ Shapes
    /\ \A r \in Replica : FileAgrees(r)
    /\ \A r \in running : MemoryAgrees(r)

(* An empty file agrees with every log. *)
LEMMA NoStateAgrees ==
    ASSUME NEW l PROVE Cardinality(Counted(l, 0)) = 0
<1>1. Counted(l, 0) = {}
  BY DEF Counted
<1> QED
  BY <1>1, FS_EmptySet

(* What on_deliver takes for a TRIM was submitted by a checkpoint. *)
LEMMA DeliveredTrim ==
    ASSUME CountInv, NEW r \in Replica, on_deliver(r), log[next[r]].type = "TRIM"
    PROVE  log[next[r]] \in submitted
<1>1. log \in Seq({COUNT} \cup submitted) /\ next[r] \in Nat \ {0}
  BY DEF CountInv, Shapes
<1>2. next[r] <= Len(log)
  BY DEF on_deliver
<1>3. log[next[r]] \in {COUNT} \cup submitted
  BY <1>1, <1>2
<1>4. COUNT.type # "TRIM"
  BY DEF COUNT
<1> QED
  BY <1>3, <1>4

(* Order appends behind everything that was counted. *)
LEMMA OrderKeepsCount == CountInv /\ Order => CountInv'
<1> SUFFICES ASSUME CountInv, Order PROVE CountInv'
  OBVIOUS
<1>1. PICK v \in submitted \cup {COUNT} : log' = Append(log, v)
  BY DEF Order
<1>2. UNCHANGED <<submitted, running, saving, file, next, counts, instance_id>>
  BY DEF Order
<1>3. log \in Seq({COUNT} \cup submitted) /\ v \in {COUNT} \cup submitted
  BY <1>1 DEF CountInv, Shapes
<1>4. Len(log) \in Nat /\ Len(log') = Len(log) + 1 /\ log' \in Seq({COUNT} \cup submitted)
  BY <1>1, <1>3
<1>5. \A n \in Nat : n <= Len(log) => Counted(log', n) = Counted(log, n)
  BY <1>1, <1>3, CountedAppend
<1>6. Shapes'
  BY <1>2, <1>4 DEF CountInv, Shapes
<1>7. ASSUME NEW r \in Replica PROVE FileAgrees(r)'
  BY <1>2, <1>4, <1>5 DEF CountInv, Shapes, FileAgrees
<1>8. ASSUME NEW r \in running PROVE MemoryAgrees(r)'
  <2>1. r \in Replica /\ MemoryAgrees(r)
    BY DEF CountInv, Shapes
  <2>2. /\ instance_id[r] \in Nat /\ next[r] - 1 \in Nat
        /\ instance_id[r] <= Len(log) /\ next[r] - 1 <= Len(log)
    BY <1>4, <2>1 DEF CountInv, Shapes, MemoryAgrees
  <2> QED
    BY <1>2, <1>5, <2>1, <2>2 DEF MemoryAgrees
<1> QED
  BY <1>2, <1>6, <1>7, <1>8 DEF CountInv

(* on_deliver counts the COUNT it delivers, and no other value. *)
LEMMA DeliverKeepsCount ==
    ASSUME CountInv, NEW r \in Replica, on_deliver(r) PROVE CountInv'
<1> DEFINE iid == next[r]
<1>1. /\ r \in running /\ r \notin saving /\ iid <= Len(log)
      /\ next' = [next EXCEPT ![r] = iid + 1]
      /\ UNCHANGED <<log, submitted, running>>
      /\ saving' = saving \/ saving' = saving \cup {r}
      /\ file' = file \/ file' = [file EXCEPT ![r] = NoState]
  BY DEF on_deliver
<1>2. /\ iid \in Nat \ {0} /\ iid - 1 \in Nat /\ (iid - 1) + 1 = iid
      /\ Len(log) \in Nat /\ iid \in 1 .. Len(log)
      /\ log[iid] \in {COUNT} \cup TrimValue /\ MemoryAgrees(r)
  BY <1>1 DEF CountInv, Shapes
<1>3. \/ /\ log[iid] # COUNT /\ UNCHANGED <<counts, instance_id>>
      \/ /\ log[iid] = COUNT
         /\ counts' = [counts EXCEPT ![r] = @ + 1]
         /\ instance_id' = [instance_id EXCEPT ![r] = iid]
  BY <1>2 DEF on_deliver, update_trim_info, update_state, COUNT, TrimValue
<1>4. /\ Cardinality(Counted(log, iid - 1)) \in Nat
      /\ log[iid] = COUNT => Cardinality(Counted(log, iid)) =
                             Cardinality(Counted(log, iid - 1)) + 1
      /\ log[iid] # COUNT => Counted(log, iid) = Counted(log, iid - 1)
  <2> DEFINE n == iid - 1
  <2>1. n \in Nat /\ n + 1 = iid
    BY <1>2
  <2> HIDE DEF n, iid
  <2>2. /\ Cardinality(Counted(log, n)) \in Nat
        /\ log[n + 1] = COUNT => Cardinality(Counted(log, n + 1)) =
                                 Cardinality(Counted(log, n)) + 1
        /\ log[n + 1] # COUNT => Counted(log, n + 1) = Counted(log, n)
    BY <2>1, CountedNext
  <2> QED
    BY <2>1, <2>2 DEF n
<1>5. Shapes'
  <2>1. NoState \in [count : Nat, iid : Nat]
    BY DEF NoState
  <2>2. file' \in [Replica -> [count : Nat, iid : Nat]] /\ saving' \subseteq running'
    BY <1>1, <2>1, Zenon DEF CountInv, Shapes
  <2>3. counts' \in [Replica -> Nat] /\ instance_id' \in [Replica -> Nat]
    <3>1. /\ counts \in [Replica -> Nat] /\ counts[r] + 1 \in Nat
          /\ instance_id \in [Replica -> Nat] /\ iid \in Nat
      BY <1>2 DEF CountInv, Shapes
    <3> HIDE DEF iid
    <3>2. CASE UNCHANGED <<counts, instance_id>>
      BY <3>1, <3>2
    <3>3. CASE /\ counts' = [counts EXCEPT ![r] = @ + 1]
               /\ instance_id' = [instance_id EXCEPT ![r] = iid]
      BY <3>1, <3>3
    <3> QED
      BY <1>3, <3>2, <3>3
  <2>4. /\ next' \in [Replica -> Nat \ {0}]
        /\ \A q \in Replica : next'[q] <= Len(log) + 1
    <3>1. /\ next \in [Replica -> Nat \ {0}]
          /\ \A q \in Replica : next[q] <= Len(log) + 1
      BY DEF CountInv, Shapes
    <3>2. iid + 1 \in Nat \ {0} /\ iid + 1 <= Len(log) + 1
      BY <1>1, <1>2
    <3> HIDE DEF iid
    <3>3. next' = [next EXCEPT ![r] = iid + 1]
      BY <1>1
    <3>4. next' \in [Replica -> Nat \ {0}]
      BY <3>1, <3>2, <3>3
    <3>5. \A q \in Replica : next'[q] = IF q = r THEN iid + 1 ELSE next[q]
      BY <3>1, <3>3
    <3> QED
      BY <3>1, <3>2, <3>4, <3>5
  <2> QED
    BY <1>1, <2>2, <2>3, <2>4 DEF CountInv, Shapes
<1>6. ASSUME NEW q \in Replica PROVE FileAgrees(q)'
  <2>1. file'[q] = file[q] \/ file'[q] = NoState
    BY <1>1 DEF CountInv, Shapes
  <2> QED
    BY <1>1, <1>2, <2>1, NoStateAgrees DEF CountInv, FileAgrees, NoState
<1>7. ASSUME NEW q \in running PROVE MemoryAgrees(q)'
  <2>1. q \in Replica /\ MemoryAgrees(q)
    BY DEF CountInv, Shapes
  <2>2. CASE q # r
    <3>1. next'[q] = next[q] /\ counts'[q] = counts[q] /\ instance_id'[q] = instance_id[q]
      BY <1>1, <1>3, <2>1, <2>2 DEF CountInv, Shapes
    <3> QED
      BY <1>1, <2>1, <3>1 DEF MemoryAgrees
  <2>3. CASE q = r
    <3>1. next'[r] = iid + 1 /\ next'[r] - 1 = iid
      BY <1>1, <1>2 DEF CountInv, Shapes
    <3>2. CASE log[iid] # COUNT
      BY <1>1, <1>2, <1>3, <1>4, <2>3, <3>1, <3>2 DEF MemoryAgrees, CountInv, Shapes
    <3>3. CASE log[iid] = COUNT
      <4>1. instance_id'[r] = iid /\ counts'[r] = counts[r] + 1
        BY <1>3, <3>3 DEF CountInv, Shapes
      <4> QED
        BY <1>1, <1>2, <1>4, <2>3, <3>1, <3>3, <4>1 DEF MemoryAgrees
    <3> QED
      BY <3>2, <3>3
  <2> QED
    BY <2>2, <2>3
<1> QED
  BY <1>1, <1>5, <1>6, <1>7 DEF CountInv

(* checkpoint_state saves a count that belongs to the instance it saves, even if
   TRIM values were delivered since. *)
LEMMA SaveKeepsCount ==
    ASSUME CountInv, NEW r \in Replica, checkpoint_state(r) PROVE CountInv'
<1>1. /\ r \in running /\ saving' = saving \ {r}
      /\ file' = [file EXCEPT ![r] = [count |-> counts[r], iid |-> instance_id[r]]]
      /\ submitted' = submitted \cup {TRIM(r, instance_id[r])}
      /\ UNCHANGED <<log, running, next, counts, instance_id>>
  BY DEF checkpoint_state
<1>2. MemoryAgrees(r) /\ instance_id[r] \in Nat /\ counts[r] \in Nat
  BY <1>1 DEF CountInv, Shapes
<1>3. Shapes'
  <2>1. TRIM(r, instance_id[r]) \in TrimValue
    BY <1>2 DEF TRIM, TrimValue
  <2>2. submitted' \subseteq TrimValue /\ submitted \subseteq submitted'
    BY <1>1, <2>1 DEF CountInv, Shapes
  <2>3. log' \in Seq({COUNT} \cup submitted')
    <3>1. log \in Seq({COUNT} \cup submitted)
      BY DEF CountInv, Shapes
    <3> QED
      BY <1>1, <2>2, <3>1
  <2> QED
    BY <1>1, <1>2, <2>2, <2>3 DEF CountInv, Shapes
<1>4. ASSUME NEW q \in Replica PROVE FileAgrees(q)'
  <2>1. CASE q # r
    BY <1>1, <2>1 DEF CountInv, Shapes, FileAgrees
  <2>2. CASE q = r
    <3>1. file'[r].iid = instance_id[r] /\ file'[r].count = counts[r]
      BY <1>1 DEF CountInv, Shapes
    <3>2. Len(log) \in Nat /\ next[r] \in Nat /\ next[r] <= Len(log) + 1
      BY DEF CountInv, Shapes
    <3> QED
      BY <1>1, <1>2, <2>2, <3>1, <3>2 DEF FileAgrees, MemoryAgrees
  <2> QED
    BY <2>1, <2>2
<1> QED
  BY <1>1, <1>3, <1>4 DEF CountInv, MemoryAgrees

(* start_replica goes on right behind what the file counts. *)
LEMMA StartKeepsCount ==
    ASSUME CountInv, NEW r \in Replica, start_replica(r) PROVE CountInv'
<1>1. /\ running' = running \cup {r}
      /\ counts' = [counts EXCEPT ![r] = file[r].count]
      /\ instance_id' = [instance_id EXCEPT ![r] = file[r].iid]
      /\ next' = [next EXCEPT ![r] = file[r].iid + 1]
      /\ UNCHANGED <<log, submitted, saving, file>>
  BY DEF start_replica, resume_at
<1>2. FileAgrees(r) /\ file[r].iid \in Nat /\ file[r].count \in Nat /\ Len(log) \in Nat
  BY DEF CountInv, Shapes
<1>3. Shapes'
  BY <1>1, <1>2 DEF CountInv, Shapes, FileAgrees
<1>4. ASSUME NEW q \in running' PROVE MemoryAgrees(q)'
  <2>1. CASE q = r
    <3>1. /\ counts'[r] = file[r].count /\ instance_id'[r] = file[r].iid
          /\ next'[r] = file[r].iid + 1 /\ next'[r] - 1 = file[r].iid
      BY <1>1, <1>2 DEF CountInv, Shapes
    <3> QED
      BY <1>1, <1>2, <2>1, <3>1 DEF FileAgrees, MemoryAgrees
  <2>2. CASE q # r
    <3>1. /\ q \in running /\ q \in Replica /\ MemoryAgrees(q)
          /\ next'[q] = next[q] /\ counts'[q] = counts[q] /\ instance_id'[q] = instance_id[q]
      BY <1>1, <2>2 DEF CountInv, Shapes
    <3> QED
      BY <1>1, <3>1 DEF MemoryAgrees
  <2> QED
    BY <2>1, <2>2
<1> QED
  BY <1>1, <1>3, <1>4 DEF CountInv, FileAgrees

(* Every step of the counters keeps the invariant. *)
LEMMA CountStep == CountInv /\ [CounterNext]_counterVars => CountInv'
<1> SUFFICES ASSUME CountInv, [CounterNext]_counterVars PROVE CountInv'
  OBVIOUS
<1>1. ASSUME NEW r \in Replica, ProcessEnds(r) PROVE CountInv'
  <2>1. /\ running' = running \ {r} /\ saving' = saving \ {r}
        /\ next' = [next EXCEPT ![r] = 1] /\ counts' = [counts EXCEPT ![r] = 0]
        /\ instance_id' = [instance_id EXCEPT ![r] = 0]
        /\ UNCHANGED <<log, submitted, file>>
    BY <1>1 DEF ProcessEnds
  <2>2. Shapes'
    BY <2>1 DEF CountInv, Shapes
  <2>3. ASSUME NEW q \in running' PROVE MemoryAgrees(q)'
    <3>1. q \in running /\ q \in Replica /\ q # r
      BY <2>1 DEF CountInv, Shapes
    <3>2. next'[q] = next[q] /\ counts'[q] = counts[q] /\ instance_id'[q] = instance_id[q]
      BY <2>1, <3>1 DEF CountInv, Shapes
    <3> QED
      BY <2>1, <3>1, <3>2 DEF CountInv, MemoryAgrees
  <2> QED
    BY <2>1, <2>2, <2>3 DEF CountInv, FileAgrees
<1>2. CASE UNCHANGED counterVars
  BY <1>2 DEF counterVars, CountInv, Shapes, FileAgrees, MemoryAgrees
<1> QED
  BY <1>1, <1>2, OrderKeepsCount, DeliverKeepsCount, SaveKeepsCount, StartKeepsCount
  DEF CounterNext

(* At the start nothing is counted, on file or in memory. *)
LEMMA CountInit == CounterInit => CountInv
<1> SUFFICES ASSUME CounterInit PROVE CountInv
  OBVIOUS
<1> USE DEF CounterInit
<1>1. NoState \in [count : Nat, iid : Nat] /\ NoState.iid = 0 /\ NoState.count = 0
  BY DEF NoState
<1>2. Shapes
  BY <1>1 DEF Shapes
<1>3. \A r \in Replica : FileAgrees(r) /\ MemoryAgrees(r)
  BY <1>1, NoStateAgrees DEF FileAgrees, MemoryAgrees
<1> QED
  BY <1>2, <1>3 DEF CountInv

(* For any number of replicas, any interval and any number of values: over stops
   and starts at any time, also inside checkpoint_state, a running replica has
   counted exactly the COUNTs before the instance it delivers next. *)
THEOREM CounterCounts == CounterSpec => []CountExact
<1>1. CountInv => CountExact
  BY DEF CountInv, MemoryAgrees, CountExact, Counted
<1> QED
  BY <1>1, CountInit, CountStep, PTL DEF CounterSpec

-------------------------------------------------------------------------------
(* The instance a replica is sure to resume behind, once checkpoint_state is
   through if it is inside it. *)
Durable(r) == IF r \in saving THEN instance_id[r] ELSE file[r].iid

ResumeInv ==
    /\ CountInv
    /\ instances \in [Replica -> [Replica -> Nat]]
    /\ last_trim \in [Replica -> Nat] /\ trimmed \in Nat
    /\ \A m \in submitted : m.replica \notin interrupted => m.iid <= Durable(m.replica)
    /\ \A r \in Replica, q \in Replica \ interrupted : instances[r][q] <= Durable(q)
    /\ \A q \in CountedByAll \ interrupted : trimmed <= Durable(q)
    /\ \A r \in running \ saving : file[r].iid <= instance_id[r]

(* What a step must not do to the files, but by ending inside checkpoint_state. *)
Durably ==
    /\ interrupted \subseteq interrupted'
    /\ \A q \in Replica : Durable(q) \in Nat /\ Durable(q)' \in Nat
    /\ \A q \in Replica \ interrupted' : Durable(q) <= Durable(q)'
    /\ \A r \in running' \ saving' : file'[r].iid <= instance_id'[r]

(* No step takes back what a replica is sure to resume behind, unless the replica
   ends inside checkpoint_state. *)
LEMMA StepIsDurable ==
    ASSUME ResumeInv, CountInv', [CounterNext]_counterVars
    PROVE  Durably
<1>1. \A q \in Replica :
         /\ Durable(q) \in Nat /\ Durable(q)' \in Nat
         /\ file[q].iid \in Nat /\ instance_id[q] \in Nat
  BY DEF ResumeInv, CountInv, Shapes, Durable
<1>2. \A r \in running : r \in Replica /\ instance_id[r] < next[r] /\ next[r] \in Nat
  BY DEF ResumeInv, CountInv, Shapes, MemoryAgrees
<1>3. CASE Order \/ UNCHANGED counterVars
  <2>1. UNCHANGED <<running, saving, interrupted, file, instance_id>>
    BY <1>3 DEF Order, counterVars
  <2>2. \A q \in Replica : Durable(q)' = Durable(q)
    BY <2>1 DEF Durable
  <2> QED
    BY <1>1, <2>1, <2>2 DEF ResumeInv, Durably
<1>4. ASSUME NEW r \in Replica, on_deliver(r) PROVE Durably
  <2>1. /\ r \in running /\ r \notin saving /\ running' = running
        /\ \/ saving' = saving /\ file' = file
           \/ saving' = saving \cup {r} /\ file' = [file EXCEPT ![r] = NoState]
        /\ \/ instance_id' = instance_id
           \/ instance_id' = [instance_id EXCEPT ![r] = next[r]]
        /\ interrupted' = interrupted
    BY <1>4 DEF on_deliver, update_state, update_trim_info
  <2>2. /\ instance_id[r] <= instance_id'[r]
        /\ \A q \in Replica \ {r} : instance_id'[q] = instance_id[q] /\ file'[q] = file[q]
    <3>1. instance_id \in [Replica -> Nat] /\ file \in [Replica -> [count : Nat, iid : Nat]]
      BY DEF ResumeInv, CountInv, Shapes
    <3>2. instance_id'[r] = instance_id[r] \/ instance_id'[r] = next[r]
      BY <2>1, <3>1
    <3>3. instance_id[r] <= instance_id'[r]
      BY <1>1, <1>2, <2>1, <3>2
    <3>4. ASSUME NEW q \in Replica \ {r}
          PROVE  instance_id'[q] = instance_id[q] /\ file'[q] = file[q]
      BY <2>1, <3>1
    <3> QED
      BY <3>3, <3>4
  <2>3. file[r].iid <= instance_id[r] /\ instance_id'[r] \in Nat
    BY <1>1, <1>2, <2>1 DEF ResumeInv, CountInv, Shapes
  <2>4. ASSUME NEW q \in Replica PROVE Durable(q) <= Durable(q)'
    BY <1>1, <2>1, <2>2, <2>3 DEF Durable
  <2>5. ASSUME NEW q \in running' \ saving' PROVE file'[q].iid <= instance_id'[q]
    <3>1. q \in running \ saving /\ q \in Replica /\ file'[q] = file[q]
      BY <1>2, <2>1, <2>2
    <3>2. file[q].iid <= instance_id[q] /\ instance_id[q] <= instance_id'[q]
      BY <1>1, <2>2, <3>1 DEF ResumeInv
    <3> QED
      BY <1>1, <2>2, <2>3, <3>1, <3>2
  <2> QED
    BY <1>1, <2>1, <2>4, <2>5 DEF Durably
<1>5. ASSUME NEW r \in Replica, checkpoint_state(r) PROVE Durably
  <2>1. /\ r \in saving /\ saving' = saving \ {r}
        /\ file' = [file EXCEPT ![r] = [count |-> counts[r], iid |-> instance_id[r]]]
        /\ UNCHANGED <<running, instance_id, interrupted>>
    BY <1>5 DEF checkpoint_state
  <2>2. /\ file'[r].iid = instance_id[r]
        /\ \A q \in Replica \ {r} : file'[q] = file[q]
    BY <2>1 DEF ResumeInv, CountInv, Shapes
  <2>3. \A q \in Replica : Durable(q)' = Durable(q)
    BY <2>1, <2>2 DEF Durable
  <2> QED
    BY <1>1, <1>2, <2>1, <2>2, <2>3 DEF Durably, ResumeInv
<1>6. ASSUME NEW r \in Replica, ProcessEnds(r) PROVE Durably
  <2>1. /\ running' = running \ {r} /\ saving' = saving \ {r} /\ file' = file
        /\ instance_id' = [instance_id EXCEPT ![r] = 0]
        /\ interrupted' = interrupted \cup (saving \cap {r})
    BY <1>6 DEF ProcessEnds
  <2>2. \A q \in Replica \ {r} : instance_id'[q] = instance_id[q]
    BY <2>1 DEF ResumeInv, CountInv, Shapes
  <2>3. ASSUME NEW q \in Replica \ interrupted' PROVE Durable(q)' = Durable(q)
    BY <2>1, <2>2, <2>3 DEF Durable
  <2> QED
    BY <1>1, <1>2, <2>1, <2>2, <2>3 DEF Durably, ResumeInv
<1>7. ASSUME NEW r \in Replica, start_replica(r) PROVE Durably
  <2>1. /\ r \notin saving /\ running' = running \cup {r}
        /\ UNCHANGED <<saving, file, interrupted>>
        /\ instance_id' = [instance_id EXCEPT ![r] = file[r].iid]
    BY <1>7 DEF start_replica, ResumeInv, CountInv, Shapes
  <2>2. /\ instance_id'[r] = file[r].iid
        /\ \A q \in Replica \ {r} : instance_id'[q] = instance_id[q]
    BY <2>1 DEF ResumeInv, CountInv, Shapes
  <2> QED
    BY <1>1, <1>2, <2>1, <2>2 DEF Durably, Durable, ResumeInv
<1> QED
  BY <1>3, <1>4, <1>5, <1>6, <1>7 DEF CounterNext

(* update_trim_info never asks for more than the least report of the replicas it
   counts, the new one included, although its minimum starts from an old one. *)
LEMMA TrimPointBelowReports ==
    ASSUME instances \in [Replica -> [Replica -> Nat]],
           NEW r \in Replica, NEW q \in Replica, NEW iid \in Nat
    PROVE  /\ trim_point(r, q, iid) \in Nat
           /\ trim_point(r, q, iid) <= instances[r][0]
           /\ \A i \in 0 .. replica_count(r)-1 :
                 trim_point(r, q, iid) <= IF i = q THEN iid ELSE instances[r][i]
<1> DEFINE C == 0 .. replica_count(r)-1
           S == {instances[r][0]} \cup {IF i = q THEN iid ELSE instances[r][i] : i \in C}
<1>1. 0 \in Replica /\ C \subseteq Replica
  BY TopologyAssumption, CountsReplicas DEF Replica
<1> HIDE DEF C
<1>2. S \subseteq Nat
  BY <1>1
<1>3. /\ S # {} /\ instances[r][0] \in S
      /\ \A i \in C : (IF i = q THEN iid ELSE instances[r][i]) \in S
  BY Zenon
<1> HIDE DEF S
<1>4. Min(S) \in S /\ \A y \in S : Min(S) <= y
  BY <1>2, <1>3, MinIsLeast, Zenon
<1>5. trim_point(r, q, iid) = Min(S)
  BY DEF trim_point, S, C
<1> QED
  BY <1>2, <1>3, <1>4, <1>5, Zenon DEF C

(* Every step keeps all reports, and what is trimmed, below what is durable. *)
LEMMA ResumeStep ==
    ASSUME ResumeInv, [CounterNext]_counterVars
    PROVE  ResumeInv'
<1>1. CountInv'
  BY CountStep DEF ResumeInv
<1>2. Durably
  BY <1>1, StepIsDurable
<1>3. \A m \in TrimValue : m.replica \in Replica /\ m.iid \in Nat
  BY DEF TrimValue
<1>4. \A m \in submitted' : m.replica \notin interrupted' => m.iid <= Durable(m.replica)'
  <2>1. ASSUME NEW m \in submitted, m.replica \notin interrupted'
        PROVE  m.iid <= Durable(m.replica)'
    <3>1. m \in TrimValue /\ m.iid <= Durable(m.replica)
      BY <1>2, <2>1 DEF ResumeInv, CountInv, Shapes, Durably
    <3>2. m.replica \in Replica \ interrupted' /\ m.iid \in Nat
      BY <1>3, <2>1, <3>1
    <3>3. Durable(m.replica) \in Nat /\ Durable(m.replica)' \in Nat
          /\ Durable(m.replica) <= Durable(m.replica)'
      BY <1>2, <3>2 DEF Durably
    <3> QED
      BY <3>1, <3>2, <3>3
  <2>2. ASSUME NEW r \in Replica, checkpoint_state(r), NEW m, m = TRIM(r, instance_id[r])
        PROVE  m.iid <= Durable(m.replica)'
    <3>1. Durable(r)' = instance_id[r] /\ instance_id[r] \in Nat
      BY <2>2 DEF checkpoint_state, Durable, ResumeInv, CountInv, Shapes
    <3>2. m.iid = instance_id[r] /\ m.replica = r
      BY <2>2 DEF TRIM
    <3> QED
      BY <3>1, <3>2
  <2>3. \/ submitted' = submitted
        \/ \E r \in Replica : /\ checkpoint_state(r)
                             /\ submitted' = submitted \cup {TRIM(r, instance_id[r])}
    BY DEF CounterNext, Order, on_deliver, checkpoint_state, ProcessEnds, start_replica,
           counterVars
  <2> QED
    BY <2>1, <2>2, <2>3
<1>5. ASSUME NEW r \in Replica, on_deliver(r)
      PROVE  /\ instances' \in [Replica -> [Replica -> Nat]]
             /\ last_trim' \in [Replica -> Nat] /\ trimmed' \in Nat
             /\ \A p \in Replica, q \in Replica \ interrupted : instances'[p][q] <= Durable(q)
             /\ \A q \in CountedByAll \ interrupted : trimmed' <= Durable(q)
  <2> DEFINE v == log[next[r]]
  <2>1. \/ UNCHANGED <<instances, last_trim, trimmed>>
        \/ v.type = "TRIM" /\ update_trim_info(r, v.replica, v.iid)
    BY <1>5, Zenon DEF on_deliver, update_state
  <2>2. CASE UNCHANGED <<instances, last_trim, trimmed>>
    BY <2>2, Zenon DEF ResumeInv
  <2>3. CASE v.type = "TRIM" /\ update_trim_info(r, v.replica, v.iid)
    <3>1. v \in submitted
      BY <1>5, <2>3, DeliveredTrim DEF ResumeInv
    <3> DEFINE p == v.replica
               iid == v.iid
               min == trim_point(r, p, iid)
    <3>2. p \in Replica /\ iid \in Nat /\ (p \notin interrupted => iid <= Durable(p))
      BY <1>3, <3>1 DEF ResumeInv, CountInv, Shapes
    <3>3. /\ instances' = instances \/ instances' = [instances EXCEPT ![r][p] = iid]
          /\ \/ UNCHANGED <<last_trim, trimmed>>
             \/ last_trim' = [last_trim EXCEPT ![r] = min] /\ trimmed' = Max({trimmed, min})
      BY <2>3 DEF update_trim_info
    <3> HIDE DEF v, p, iid
    <3>4. /\ min \in Nat
          /\ \A i \in 0 .. replica_count(r)-1 :
                min <= IF i = p THEN iid ELSE instances[r][i]
      BY <3>2, TrimPointBelowReports DEF ResumeInv
    <3> HIDE DEF min
    <3>5. trimmed' = trimmed \/ trimmed' = min
      <4>1. trimmed \in Nat
        BY DEF ResumeInv
      <4>2. Max({trimmed, min}) \in {trimmed, min}
        BY <3>4, <4>1 DEF Max
      <4> QED
        BY <3>3, <4>2
    <3>6. \A q \in Replica : Durable(q) \in Nat /\ instances[r][q] \in Nat
      BY <1>2 DEF Durably, ResumeInv
    <3>7. ASSUME NEW q \in CountedByAll \ interrupted PROVE min <= Durable(q)
      <4>1. q \in Replica /\ q \in 0 .. replica_count(r)-1
        BY CountsReplicas DEF CountedByAll, Replica
      <4>2. min <= IF q = p THEN iid ELSE instances[r][q]
        BY <3>4, <4>1, Zenon
      <4>3. (IF q = p THEN iid ELSE instances[r][q]) <= Durable(q)
        BY <3>2, <4>1 DEF ResumeInv
      <4> QED
        BY <3>2, <3>4, <3>6, <4>1, <4>2, <4>3
    <3>8. \A q \in CountedByAll \ interrupted : trimmed' <= Durable(q)
      BY <3>5, <3>7 DEF ResumeInv
    <3>9. /\ instances' \in [Replica -> [Replica -> Nat]]
          /\ \A a \in Replica, q \in Replica \ interrupted : instances'[a][q] <= Durable(q)
      <4>1. /\ instances \in [Replica -> [Replica -> Nat]]
            /\ \A a \in Replica, q \in Replica \ interrupted : instances[a][q] <= Durable(q)
        BY DEF ResumeInv
      <4>2. CASE instances' = instances
        BY <4>1, <4>2
      <4>3. CASE instances' = [instances EXCEPT ![r][p] = iid]
        <5>1. instances' \in [Replica -> [Replica -> Nat]]
          BY <3>2, <4>1, <4>3
        <5>2. \A a, q \in Replica :
                instances'[a][q] = IF a = r /\ q = p THEN iid ELSE instances[a][q]
          BY <4>1, <4>3
        <5> QED
          BY <3>2, <4>1, <5>1, <5>2
      <4> QED
        BY <3>3, <4>2, <4>3
    <3>10. last_trim' \in [Replica -> Nat] /\ trimmed' \in Nat
      BY <3>3, <3>4, <3>5 DEF ResumeInv
    <3> QED
      BY <3>8, <3>9, <3>10
  <2> QED
    BY <2>1, <2>2, <2>3
<1>6. ASSUME NEW r \in Replica, start_replica(r) \/ ProcessEnds(r)
      PROVE  /\ instances' \in [Replica -> [Replica -> Nat]]
             /\ last_trim' \in [Replica -> Nat] /\ trimmed' \in Nat
             /\ \A p \in Replica, q \in Replica \ interrupted : instances'[p][q] <= Durable(q)
             /\ \A q \in CountedByAll \ interrupted : trimmed' <= Durable(q)
  <2>1. /\ instances' = [instances EXCEPT ![r] = [q \in Replica |-> 0]]
        /\ last_trim' = [last_trim EXCEPT ![r] = 0] /\ trimmed' = trimmed
    BY <1>6 DEF start_replica, ProcessEnds
  <2>2. \A q \in Replica : Durable(q) \in Nat
    BY <1>2 DEF Durably
  <2> QED
    BY <2>1, <2>2 DEF ResumeInv
<1>7. /\ instances' \in [Replica -> [Replica -> Nat]]
      /\ last_trim' \in [Replica -> Nat] /\ trimmed' \in Nat
      /\ \A p \in Replica, q \in Replica \ interrupted : instances'[p][q] <= Durable(q)
      /\ \A q \in CountedByAll \ interrupted : trimmed' <= Durable(q)
  <2>1. CASE UNCHANGED <<instances, last_trim, trimmed>>
    BY <2>1 DEF ResumeInv
  <2>2. \/ UNCHANGED <<instances, last_trim, trimmed>>
        \/ \E r \in Replica : on_deliver(r) \/ start_replica(r) \/ ProcessEnds(r)
    BY DEF CounterNext, Order, checkpoint_state, counterVars
  <2> QED
    BY <1>5, <1>6, <2>1, <2>2
<1>8. /\ \A p \in Replica, q \in Replica \ interrupted' : instances'[p][q] <= Durable(q)'
      /\ \A q \in CountedByAll \ interrupted' : trimmed' <= Durable(q)'
  <2>1. ASSUME NEW p \in Replica, NEW q \in Replica \ interrupted'
        PROVE  instances'[p][q] <= Durable(q)'
    <3>1. instances'[p][q] <= Durable(q) /\ instances'[p][q] \in Nat
      BY <1>2, <1>7 DEF Durably
    <3> QED
      BY <1>2, <3>1 DEF Durably
  <2>2. ASSUME NEW q \in CountedByAll \ interrupted' PROVE trimmed' <= Durable(q)'
    <3>1. q \in Replica /\ trimmed' <= Durable(q) /\ trimmed' \in Nat
      BY <1>2, <1>7 DEF Durably, CountedByAll
    <3> QED
      BY <1>2, <2>2, <3>1 DEF Durably
  <2> QED
    BY <2>1, <2>2
<1> QED
  BY <1>1, <1>2, <1>4, <1>7, <1>8 DEF ResumeInv, Durably

(* For any groups of replicas, any interval and any number of values, with processes
   that end at any time: a stopped replica that all counters count and that never
   ended inside checkpoint_state can resume from its file, the acceptors having
   kept all it has yet to deliver. *)
THEOREM CounterResumes == CounterSpec => []StoppedCanResume
<1>1. CounterInit => ResumeInv
  BY CountInit DEF CounterInit, ResumeInv, Durable, NoState, CountedByAll
<1>2. ResumeInv => StoppedCanResume
  BY DEF ResumeInv, CountInv, Shapes, Durable, StoppedCanResume, CountedByAll
<1>3. ResumeInv /\ [CounterNext]_counterVars => ResumeInv'
  BY ResumeStep
<1> QED
  BY <1>1, <1>2, <1>3, PTL DEF CounterSpec

-------------------------------------------------------------------------------
(* No number grows beyond the length of the log. *)
Bounded == CountInv /\ CounterTypeOK /\ Len(log) <= MaxLog

(* There are no more COUNTs than instances. *)
LEMMA CountedBelow ==
    ASSUME NEW l, NEW n \in Nat
    PROVE  Cardinality(Counted(l, n)) \in Nat /\ Cardinality(Counted(l, n)) <= n
<1>1. IsFiniteSet(1 .. n) /\ Cardinality(1 .. n) = n
  BY FS_Interval
<1>2. Counted(l, n) \subseteq 1 .. n
  BY DEF Counted
<1> QED
  BY <1>1, <1>2, FS_Subset, FS_CardinalityType

(* What the invariant says of numbers: those of a running replica, and those on
   file, are bounded by the log. *)
LEMMA NumbersBelow ==
    ASSUME CountInv', Len(log') <= MaxLog
    PROVE  /\ Len(log') \in Nat
           /\ next' \in [Replica -> 1 .. MaxLog + 1]
           /\ file' \in [Replica -> [count : 0 .. MaxLog, iid : 0 .. MaxLog]]
           /\ \A r \in running' : counts'[r] \in 0 .. MaxLog /\ instance_id'[r] \in 0 .. MaxLog
<1>1. Len(log') \in Nat /\ MaxLog \in Nat
  BY CounterAssumption DEF CountInv, Shapes
<1>2. next' \in [Replica -> 1 .. MaxLog + 1]
  BY <1>1 DEF CountInv, Shapes
<1>3. ASSUME NEW r \in Replica
      PROVE  file'[r] \in [count : 0 .. MaxLog, iid : 0 .. MaxLog]
  <2>1. /\ file'[r] \in [count : Nat, iid : Nat] /\ file'[r].iid <= Len(log')
        /\ file'[r].count = Cardinality(Counted(log', file'[r].iid))
    BY DEF CountInv, Shapes, FileAgrees
  <2>2. file'[r].count <= file'[r].iid
    BY <2>1, CountedBelow
  <2> QED
    BY <1>1, <2>1, <2>2
<1>4. ASSUME NEW r \in running'
      PROVE  counts'[r] \in 0 .. MaxLog /\ instance_id'[r] \in 0 .. MaxLog
  <2>1. /\ r \in Replica /\ instance_id'[r] \in Nat /\ next'[r] \in Nat
        /\ instance_id'[r] < next'[r] /\ next'[r] <= Len(log') + 1
        /\ counts'[r] = Cardinality(Counted(log', next'[r] - 1))
    BY DEF CountInv, Shapes, MemoryAgrees
  <2>2. next'[r] - 1 \in Nat
    BY <2>1
  <2>3. counts'[r] \in Nat /\ counts'[r] <= next'[r] - 1
    BY <2>1, <2>2, CountedBelow
  <2> QED
    BY <1>1, <2>1, <2>3
<1>5. file' \in [Replica -> [count : 0 .. MaxLog, iid : 0 .. MaxLog]]
  BY <1>3 DEF CountInv, Shapes
<1> QED
  BY <1>1, <1>2, <1>4, <1>5

(* Every step stays within the bound: an instance a replica notes, saves, reports or
   has trimmed is one of the log. *)
LEMMA BoundedStep == Bounded /\ [CounterNext]_counterVars => Bounded'
<1> SUFFICES ASSUME Bounded, [CounterNext]_counterVars PROVE Bounded'
  OBVIOUS
<1> DEFINE B == 0 .. MaxLog
<1>1. CountInv'
  BY CountStep DEF Bounded
<1>2. Len(log') <= MaxLog
  <2>1. CASE log' = log
    BY <2>1 DEF Bounded
  <2>2. CASE Order
    BY <2>2, CounterAssumption DEF Bounded, CountInv, Shapes, Order
  <2> QED
    BY <2>1, <2>2 DEF CounterNext, on_deliver, checkpoint_state, ProcessEnds, start_replica,
                      counterVars
<1>3. /\ next' \in [Replica -> 1 .. MaxLog + 1]
      /\ file' \in [Replica -> [count : B, iid : B]]
      /\ \A r \in running' : counts'[r] \in B /\ instance_id'[r] \in B
  BY <1>1, <1>2, NumbersBelow
<1>4. counts' \in [Replica -> B] /\ instance_id' \in [Replica -> B]
  <2>1. ASSUME NEW r \in Replica PROVE counts'[r] \in B /\ instance_id'[r] \in B
    <3>1. CASE r \in running'
      BY <1>3, <3>1
    <3>2. CASE r \notin running'
      <4>1. \/ counts'[r] = counts[r] /\ instance_id'[r] = instance_id[r]
            \/ counts'[r] = 0 /\ instance_id'[r] = 0
        <5>1. counts \in [Replica -> Nat] /\ instance_id \in [Replica -> Nat]
          BY DEF Bounded, CountInv, Shapes
        <5>2. ASSUME NEW q \in Replica, on_deliver(q)
              PROVE  counts'[r] = counts[r] /\ instance_id'[r] = instance_id[r]
          <6>1. q # r
            BY <3>2, <5>2, Zenon DEF on_deliver
          <6> QED
            BY <5>1, <5>2, <6>1, Zenon DEF on_deliver, update_state, update_trim_info
        <5>3. ASSUME NEW q \in Replica, start_replica(q)
              PROVE  counts'[r] = counts[r] /\ instance_id'[r] = instance_id[r]
          <6>1. q # r
            BY <3>2, <5>3 DEF start_replica
          <6> QED
            BY <5>1, <5>3, <6>1, Zenon DEF start_replica
        <5>4. ASSUME NEW q \in Replica, ProcessEnds(q)
              PROVE  \/ counts'[r] = counts[r] /\ instance_id'[r] = instance_id[r]
                     \/ counts'[r] = 0 /\ instance_id'[r] = 0
          BY <5>1, <5>4 DEF ProcessEnds
        <5> QED
          BY <5>2, <5>3, <5>4, Zenon DEF CounterNext, Order, checkpoint_state, counterVars
      <4> QED
        BY <4>1, CounterAssumption DEF Bounded, CounterTypeOK
    <3> QED
      BY <3>1, <3>2
  <2> QED
    BY <1>1, <2>1 DEF CountInv, Shapes
<1>5. submitted' \subseteq {TRIM(r, j) : r \in Replica, j \in B}
  <2>1. \/ submitted' = submitted
        \/ \E r \in Replica : submitted' = submitted \cup {TRIM(r, instance_id[r])}
    BY Zenon DEF CounterNext, Order, on_deliver, checkpoint_state, ProcessEnds, start_replica,
           counterVars
  <2>2. \A r \in Replica : instance_id[r] \in B
    BY DEF Bounded, CounterTypeOK
  <2>3. submitted \subseteq {TRIM(r, j) : r \in Replica, j \in B}
    BY DEF Bounded, CounterTypeOK
  <2>4. \A r \in Replica : TRIM(r, instance_id[r]) \in {TRIM(q, j) : q \in Replica, j \in B}
    BY <2>2
  <2> QED
    BY <2>1, <2>3, <2>4
<1>6. ASSUME NEW r \in Replica, NEW q \in Replica, NEW iid \in B,
             update_trim_info(r, q, iid)
      PROVE  /\ instances' \in [Replica -> [Replica -> B]]
             /\ last_trim' \in [Replica -> B] /\ trimmed' \in B
  <2> DEFINE min == trim_point(r, q, iid)
  <2>1. /\ instances' = instances \/ instances' = [instances EXCEPT ![r][q] = iid]
        /\ \/ UNCHANGED <<last_trim, trimmed>>
           \/ last_trim' = [last_trim EXCEPT ![r] = min] /\ trimmed' = Max({trimmed, min})
    BY <1>6 DEF update_trim_info
  <2>2. /\ instances \in [Replica -> [Replica -> B]] /\ last_trim \in [Replica -> B]
        /\ trimmed \in B
    <3>1. CounterTypeOK
      BY DEF Bounded
    <3>2. instances \in [Replica -> [Replica -> B]]
      BY <3>1 DEF CounterTypeOK
    <3>3. last_trim \in [Replica -> B] /\ trimmed \in B
      BY <3>1 DEF CounterTypeOK
    <3> QED
      BY <3>2, <3>3
  <2>3. min \in B
    <3>1. instances \in [Replica -> [Replica -> Nat]] /\ iid \in Nat
      BY <2>2
    <3>2. min \in Nat /\ min <= instances[r][0]
      BY <3>1, TrimPointBelowReports
    <3>3. instances[r][0] \in B
      BY <2>2, TopologyAssumption DEF Replica
    <3> HIDE DEF min
    <3> QED
      BY <3>2, <3>3, CounterAssumption
  <2> HIDE DEF min
  <2>4. Max({trimmed, min}) \in B
    <3>1. trimmed \in Nat /\ min \in Nat
      BY <2>2, <2>3
    <3>2. Max({trimmed, min}) \in {trimmed, min}
      BY <3>1 DEF Max
    <3> QED
      BY <2>2, <2>3, <3>2
  <2>5. instances' \in [Replica -> [Replica -> B]]
    BY <2>1, <2>2
  <2> QED
    BY <2>1, <2>2, <2>3, <2>4, <2>5
<1>7. /\ instances' \in [Replica -> [Replica -> B]]
      /\ last_trim' \in [Replica -> B] /\ trimmed' \in B
  <2>1. /\ instances \in [Replica -> [Replica -> B]] /\ last_trim \in [Replica -> B]
        /\ trimmed \in B
    BY DEF Bounded, CounterTypeOK
  <2>2. CASE UNCHANGED <<instances, last_trim, trimmed>>
    BY <2>1, <2>2
  <2>3. ASSUME NEW r \in Replica, start_replica(r) \/ ProcessEnds(r)
        PROVE  /\ instances' \in [Replica -> [Replica -> B]]
               /\ last_trim' \in [Replica -> B] /\ trimmed' \in B
    <3>1. 0 \in B
      BY CounterAssumption
    <3> HIDE DEF B
    <3> QED
      BY <2>1, <2>3, <3>1 DEF start_replica, ProcessEnds
  <2>4. ASSUME NEW r \in Replica, on_deliver(r)
        PROVE  /\ instances' \in [Replica -> [Replica -> B]]
               /\ last_trim' \in [Replica -> B] /\ trimmed' \in B
    <3> DEFINE v == log[next[r]]
    <3>1. CASE UNCHANGED <<instances, last_trim, trimmed>>
      BY <2>2, <3>1
    <3>2. CASE v.type = "TRIM" /\ update_trim_info(r, v.replica, v.iid)
      <4>1. v \in submitted
        BY <2>4, <3>2, DeliveredTrim DEF Bounded
      <4>2. v.replica \in Replica /\ v.iid \in B
        <5>1. v \in {TRIM(q, j) : q \in Replica, j \in B}
          BY <4>1 DEF Bounded, CounterTypeOK
        <5>2. PICK q \in Replica, j \in B : v = TRIM(q, j)
          BY <5>1
        <5>3. v.replica = q /\ v.iid = j
          BY <5>2 DEF TRIM
        <5> QED
          BY <5>3
      <4> HIDE DEF v, B
      <4> QED
        BY <1>6, <3>2, <4>2
    <3> QED
      BY <2>4, <3>1, <3>2 DEF on_deliver, update_state
  <2> QED
    BY <2>2, <2>3, <2>4, Zenon DEF CounterNext, Order, checkpoint_state, counterVars
<1>8. interrupted' \subseteq Replica
  <2>1. interrupted \subseteq Replica
    BY DEF Bounded, CounterTypeOK
  <2>2. ASSUME NEW r \in Replica, ProcessEnds(r) PROVE interrupted' \subseteq Replica
    BY <2>1, <2>2, Zenon DEF ProcessEnds
  <2>3. ASSUME NEW r \in Replica, on_deliver(r) \/ checkpoint_state(r) \/ start_replica(r)
        PROVE  interrupted' = interrupted
    BY <2>3, Zenon DEF on_deliver, checkpoint_state, start_replica
  <2>4. ASSUME Order \/ UNCHANGED counterVars PROVE interrupted' = interrupted
    BY <2>4, Zenon DEF Order, counterVars
  <2> QED
    BY <2>1, <2>2, <2>3, <2>4, Zenon DEF CounterNext
<1>9. CounterTypeOK'
  BY <1>1, <1>3, <1>4, <1>5, <1>7, <1>8 DEF CountInv, Shapes, CounterTypeOK
<1> QED
  BY <1>1, <1>2, <1>9 DEF Bounded

(* For any number of replicas and any interval: what is on file, in memory, reported
   and trimmed is never beyond the log, and every value of the log was submitted. *)
THEOREM CounterTypeInvariant == CounterSpec => []CounterTypeOK
<1>1. CounterInit => Bounded
  <2> SUFFICES ASSUME CounterInit PROVE Bounded
    OBVIOUS
  <2>1. CounterTypeOK
    BY CounterAssumption DEF CounterInit, CounterTypeOK, NoState
  <2> QED
    BY <2>1, CountInit, CounterAssumption DEF CounterInit, Bounded
<1>2. Bounded => CounterTypeOK
  BY DEF Bounded
<1> QED
  BY <1>1, <1>2, BoundedStep, PTL DEF CounterSpec

-------------------------------------------------------------------------------
(* The remainder of an index that has gone around at most once. *)
LEMMA Wrap ==
    ASSUME NEW s \in Nat \ {0}, NEW x \in 0 .. 2*s - 1
    PROVE  x % s = IF x < s THEN x ELSE x - s
<1>1. CASE x < s
  BY <1>1, Z3
<1>2. CASE x >= s
  <2> DEFINE q == x \div s
             r == x % s
  <2>1. q \in Int /\ r \in 0 .. s-1 /\ x = s*q + r
    BY Z3
  <2> HIDE DEF q, r
  <2>2. CASE q <= 0
    <3>1. s*q <= 0
      BY <2>1, <2>2, Z3
    <3> QED BY <1>2, <2>1, <3>1, Z3
  <2>3. CASE q = 1
    BY <1>2, <2>1, <2>3, Z3 DEF r
  <2>4. CASE q >= 2
    <3>1. s*q >= 2*s
      BY <2>1, <2>4, Z3
    <3> QED BY <1>2, <2>1, <3>1, Z3
  <2> QED BY <2>1, <2>2, <2>3, <2>4, Z3
<1> QED BY <1>1, <1>2

-------------------------------------------------------------------------------
(* Where the element at distance i from the head h of an array of size s is. *)
Slot(h, i, s) == IF h + i < s THEN h + i ELSE h + i - s

(* carray_at and the tail, without remainders. *)
LEMMA Slots ==
    ASSUME NEW s \in Nat \ {0}, NEW h \in 0 .. s-1, NEW i \in 0 .. s
    PROVE  /\ (h + i) % s = Slot(h, i, s)
           /\ Slot(h, i, s) \in 0 .. s-1
<1> DEFINE x == h + i
<1>1. x \in 0 .. 2*s - 1
  OBVIOUS
<1>2. x % s = IF x < s THEN x ELSE x - s
  <2> HIDE DEF x
  <2> QED BY <1>1, Wrap, Zenon
<1> QED BY <1>1, <1>2 DEF Slot

(* The array is created empty. *)
LEMMA NewTyped == carray_new => CArrayTypeOK
<1> SUFFICES ASSUME carray_new PROVE CArrayTypeOK
  OBVIOUS
<1>1. 0 % FirstSize = 0
  BY CArrayAssumption, Wrap
<1> QED BY <1>1, CArrayAssumption DEF carray_new, CArrayTypeOK

(* carray_pop_front: the counters, and where each element is afterwards. *)
LEMMA PopKeeps ==
    ASSUME CArrayTypeOK, carray_pop_front, ~carray_empty
    PROVE  /\ CArrayTypeOK'
           /\ result' = carray_at(0)
           /\ \A i \in 0 .. count' - 1 : carray_at(i)' = carray_at(i+1)
<1> USE DEF carray_empty
<1>1. /\ size' = size /\ array' = array /\ tail' = tail /\ count' = count - 1
      /\ result' = array[head] /\ head' = (head + 1) % size
  BY DEF carray_pop_front
<1>2. /\ size \in Nat \ {0} /\ count \in 1 .. size /\ head \in 0 .. size-1
      /\ 0 \in 0 .. size /\ 1 \in 0 .. size
  BY DEF CArrayTypeOK
<1>3. head' = Slot(head, 1, size) /\ head' \in 0 .. size-1
  BY <1>1, <1>2, Slots
<1>4. ASSUME NEW i \in 0 .. size-1
      PROVE  (head' + i) % size = (head + (i+1)) % size
  <2>1. i \in 0 .. size /\ i+1 \in 0 .. size
    BY <1>2, <1>3
  <2>2. (head' + i) % size = Slot(head', i, size)
    BY <1>2, <1>3, <2>1, Slots
  <2>3. (head + (i+1)) % size = Slot(head, i+1, size)
    BY <1>2, <2>1, Slots
  <2>4. Slot(head', i, size) = Slot(head, i+1, size)
    BY <1>2, <1>3 DEF Slot
  <2> QED BY <2>2, <2>3, <2>4
<1>5. ASSUME NEW i \in 0 .. count' - 1
      PROVE  carray_at(i)' = carray_at(i+1)
  <2>1. i \in 0 .. size-1
    BY <1>1, <1>2
  <2>2. (head' + i) % size' = (head + (i+1)) % size
    BY <1>1, <1>4, <2>1
  <2> QED BY <1>1, <2>2 DEF carray_at
<1>6. result' = carray_at(0)
  <2>1. (head + 0) % size = head
    BY <1>2, Slots DEF Slot
  <2> QED BY <1>1, <2>1 DEF carray_at
<1>7. tail' = (head' + count') % size'
  <2>1. count' \in 0 .. size-1 /\ count' + 1 = count
    BY <1>1, <1>2
  <2> QED BY <1>1, <1>4, <2>1, Zenon DEF CArrayTypeOK
<1>8. carray_at(0) \in Elem /\ \A i \in 0 .. count' - 1 : carray_at(i)' \in Elem
  <2>1. \A i \in 0 .. count' - 1 : i+1 \in 0 .. count-1
    BY <1>1, <1>2
  <2> QED BY <1>2, <1>5, <2>1 DEF CArrayTypeOK
<1>9. count' \in 0 .. size'
  BY <1>1, <1>2
<1> QED BY <1>1, <1>3, <1>5, <1>6, <1>7, <1>8, <1>9, Zenon DEF CArrayTypeOK

(* carray_push_back into an array with room: the slot at the tail is free. *)
LEMMA PushKeeps ==
    ASSUME CArrayTypeOK, NEW p \in Elem, carray_push_back(p), ~carray_full
    PROVE  /\ CArrayTypeOK'
           /\ \A i \in 0 .. count :
                 carray_at(i)' = IF i = count THEN p ELSE carray_at(i)
<1>1. /\ size' = size /\ head' = head /\ count' = count + 1 /\ result' = result
      /\ tail' = (tail + 1) % size /\ array' = [array EXCEPT ![tail] = p]
  BY DEF carray_push_back
<1>2. /\ size \in Nat \ {0} /\ count \in 0 .. size-1 /\ head \in 0 .. size-1
      /\ count \in 0 .. size /\ array \in [0 .. size-1 -> Elem \cup {Garbage}]
  BY DEF CArrayTypeOK, carray_full
<1>3. tail = Slot(head, count, size) /\ tail \in 0 .. size-1
  BY <1>2, Slots DEF CArrayTypeOK
<1>4. ASSUME NEW i \in 0 .. count-1
      PROVE  /\ (head + i) % size \in 0 .. size-1
             /\ (head + i) % size # tail
  <2>1. i \in 0 .. size
    BY <1>2
  <2>2. (head + i) % size = Slot(head, i, size) /\ Slot(head, i, size) \in 0 .. size-1
    BY <1>2, <2>1, Slots, Zenon
  <2>3. Slot(head, i, size) # Slot(head, count, size)
    BY <1>2 DEF Slot
  <2> QED BY <1>3, <2>2, <2>3
<1>5. ASSUME NEW i \in 0 .. count
      PROVE  carray_at(i)' = IF i = count THEN p ELSE carray_at(i)
  <2>1. CASE i = count
    <3>1. (head' + i) % size' = tail
      BY <1>1, <2>1 DEF CArrayTypeOK
    <3> QED BY <1>1, <1>2, <1>3, <2>1, <3>1 DEF carray_at
  <2>2. CASE i # count
    <3>1. i \in 0 .. count-1
      BY <1>2, <2>2
    <3>2. (head + i) % size \in 0 .. size-1 /\ (head + i) % size # tail
      BY <1>4, <3>1
    <3> QED BY <1>1, <1>2, <2>2, <3>2 DEF carray_at
  <2> QED BY <2>1, <2>2
<1>7. tail' = (head' + count') % size'
  <2>1. 1 \in 0 .. size /\ count + 1 \in 0 .. size
    BY <1>2
  <2>2. (tail + 1) % size = Slot(tail, 1, size)
    BY <1>2, <1>3, <2>1, Slots
  <2>3. (head + (count + 1)) % size = Slot(head, count + 1, size)
    BY <1>2, <2>1, Slots
  <2>4. (tail + 1) % size = (head + (count + 1)) % size
    BY <1>2, <1>3, <2>2, <2>3 DEF Slot
  <2> QED BY <1>1, <2>4
<1>8. \A i \in 0 .. count' - 1 : carray_at(i)' \in Elem
  <2> TAKE i \in 0 .. count' - 1
  <2>1. i \in 0 .. count /\ (i # count => i \in 0 .. count-1)
    BY <1>1, <1>2
  <2>2. i # count => carray_at(i) \in Elem
    BY <2>1 DEF CArrayTypeOK
  <2> QED BY <1>5, <2>1, <2>2
<1>9. array' \in [0 .. size-1 -> Elem \cup {Garbage}]
  BY <1>1, <1>2, <1>3
<1>10. count' \in 0 .. size
  BY <1>1, <1>2
<1> QED BY <1>1, <1>2, <1>5, <1>7, <1>8, <1>9, <1>10 DEF CArrayTypeOK

(* carray_push_back into a full array: carray_grow moves every element to the
   place its distance from the head gives it, and the next slot is free. *)
LEMMA GrowKeeps ==
    ASSUME CArrayTypeOK, NEW p \in Elem, carray_push_back(p), carray_full
    PROVE  /\ CArrayTypeOK'
           /\ \A i \in 0 .. count :
                 carray_at(i)' = IF i = count THEN p ELSE carray_at(i)
<1>1. /\ size' = 2*size /\ head' = 0 /\ count' = count + 1 /\ result' = result
      /\ tail' = (count + 1) % (2*size)
      /\ array' = [carray_grow EXCEPT ![count] = p]
  BY DEF carray_push_back
<1>2. /\ size \in Nat \ {0} /\ count = size
      /\ \A i \in 0 .. count-1 : carray_at(i) \in Elem
  BY DEF CArrayTypeOK, carray_full
<1>3. size' \in Nat \ {0} /\ 0 \in 0 .. size' - 1
  BY <1>1, <1>2
<1>4. ASSUME NEW i \in 0 .. size' - 1
      PROVE  array'[i] = IF i = count THEN p
                         ELSE IF i < count THEN carray_at(i) ELSE Garbage
  BY <1>1, <1>2 DEF carray_grow
<1>5. ASSUME NEW i \in 0 .. count
      PROVE  carray_at(i)' = IF i = count THEN p ELSE carray_at(i)
  <2>1. i \in 0 .. size' - 1 /\ i \in 0 .. size'
    BY <1>1, <1>2
  <2>2. (0 + i) % size' = Slot(0, i, size')
    BY <1>3, <2>1, Slots
  <2>3. Slot(0, i, size') = i
    <3> DEFINE s == size'
    <3>1. s \in Nat /\ i \in 0 .. s-1
      BY <1>3, <2>1, Zenon
    <3> HIDE DEF s
    <3>2. Slot(0, i, s) = i
      BY <3>1 DEF Slot
    <3> QED BY <3>2 DEF s
  <2>4. carray_at(i)' = array'[i]
    BY <1>1, <2>2, <2>3 DEF carray_at
  <2> QED BY <1>2, <1>4, <2>1, <2>4
<1>6. array' \in [0 .. size' - 1 -> Elem \cup {Garbage}]
  <2>1. array' = [i \in 0 .. size' - 1 |-> array'[i]]
    BY <1>1, Zenon DEF carray_grow
  <2>2. ASSUME NEW i \in 0 .. size' - 1
        PROVE  array'[i] \in Elem \cup {Garbage}
    <3>1. i < count => carray_at(i) \in Elem
      BY <1>1, <1>2
    <3> QED BY <1>4, <3>1
  <2> QED BY <2>1, <2>2
<1>7. \A i \in 0 .. count' - 1 : carray_at(i)' \in Elem
  <2> TAKE i \in 0 .. count' - 1
  <2>1. i \in 0 .. count /\ (i # count => i \in 0 .. count-1)
    BY <1>1, <1>2
  <2> QED BY <1>2, <1>5, <2>1
<1>8. tail' = (head' + count') % size' /\ count' \in 0 .. size'
  BY <1>1, <1>2
<1>9. result' \in Elem \cup {Null}
  BY <1>1 DEF CArrayTypeOK
<1> QED BY <1>1, <1>3, <1>5, <1>6, <1>7, <1>8, <1>9 DEF CArrayTypeOK

-------------------------------------------------------------------------------
(* Every step of carray.c keeps the counters and slots in order. *)
LEMMA StepKeeps ==
    ASSUME CArrayTypeOK, [CArrayNext]_carrayVars
    PROVE  CArrayTypeOK'
<1>1. CASE carray_pop_front /\ carray_empty
  BY <1>1 DEF carray_pop_front, CArrayTypeOK, carray_at
<1>2. CASE carray_pop_front /\ ~carray_empty
  BY <1>2, PopKeeps
<1>3. ASSUME NEW p \in Elem, carray_push_back(p)
      PROVE  CArrayTypeOK'
  BY <1>3, PushKeeps, GrowKeeps
<1>4. CASE UNCHANGED carrayVars
  BY <1>4 DEF carrayVars, CArrayTypeOK, carray_at
<1> QED BY <1>1, <1>2, <1>3, <1>4 DEF CArrayNext

(* The counters and slots of the circular array are in order after any number
   of calls of carray_push_back and carray_pop_front, for any first size. *)
THEOREM CArrayTypeInvariant == CArraySpec => []CArrayTypeOK
<1> QED BY NewTyped, StepKeeps, PTL DEF CArraySpec

(* Removing the first element, element by element. *)
LEMMA TailElements ==
    ASSUME NEW q \in Seq(Elem), q # <<>>
    PROVE  Tail(q) = [i \in 1 .. Len(q)-1 |-> q[i+1]]
<1> DEFINE t == Tail(q)
<1>1. t \in Seq(Elem) /\ Len(t) = Len(q)-1 /\ \A i \in 1 .. Len(t) : t[i] = q[i+1]
  OBVIOUS
<1>2. t = [i \in 1 .. Len(t) |-> t[i]]
  <2> HIDE DEF t
  <2> QED BY <1>1
<1> HIDE DEF t
<1>3. t = [i \in 1 .. Len(q)-1 |-> q[i+1]]
  BY <1>1, <1>2
<1> QED BY <1>3 DEF t

(* Adding a last element, element by element. *)
LEMMA AppendElements ==
    ASSUME NEW q \in Seq(Elem), NEW p \in Elem
    PROVE  Append(q, p) =
             [i \in 1 .. Len(q)+1 |-> IF i = Len(q)+1 THEN p ELSE q[i]]
<1> DEFINE t == Append(q, p)
<1>1. /\ t \in Seq(Elem) /\ Len(t) = Len(q)+1
      /\ \A i \in 1 .. Len(q) : t[i] = q[i]
      /\ t[Len(q)+1] = p
  OBVIOUS
<1>2. t = [i \in 1 .. Len(t) |-> t[i]]
  <2> HIDE DEF t
  <2> QED BY <1>1
<1> HIDE DEF t
<1>3. ASSUME NEW i \in 1 .. Len(q)+1
      PROVE  t[i] = IF i = Len(q)+1 THEN p ELSE q[i]
  BY <1>1
<1>4. t = [i \in 1 .. Len(q)+1 |-> IF i = Len(q)+1 THEN p ELSE q[i]]
  BY <1>1, <1>2, <1>3
<1> QED BY <1>4 DEF t

(* The queue a circular array stands for. *)
Elements == [i \in 1 .. count |-> carray_at(i-1)]

(* Each step of carray.c is a step of the queue, or leaves it alone. *)
LEMMA StepRefines ==
    ASSUME CArrayTypeOK, [CArrayNext]_carrayVars
    PROVE  [Queue!QueueNext]_<<Elements, result>>
<1> USE DEF Queue!QueueNext, Queue!Take, Queue!Put
<1>0. /\ count \in Nat /\ Elements \in Seq(Elem) /\ Len(Elements) = count
      /\ \A i \in 1 .. count : Elements[i] = carray_at(i-1)
  <2>1. count \in Nat
    BY DEF CArrayTypeOK
  <2>2. \A i \in 1 .. count : carray_at(i-1) \in Elem
    <3> TAKE i \in 1 .. count
    <3>1. i-1 \in 0 .. count-1
      BY <2>1
    <3> QED BY <3>1 DEF CArrayTypeOK
  <2> QED BY <2>1, <2>2 DEF Elements
<1>1. CASE carray_pop_front /\ carray_empty
  <2>1. Elements = <<>>
    BY <1>0, <1>1 DEF carray_empty
  <2>2. result' = Null /\ Elements' = Elements
    BY <1>1 DEF carray_pop_front, Elements, carray_at
  <2> QED BY <2>1, <2>2 DEF Elements
<1>2. CASE carray_pop_front /\ ~carray_empty
  <2>1. count' = count - 1 /\ count # 0
    BY <1>2 DEF carray_pop_front, carray_empty
  <2>2. result' = Head(Elements) /\ Elements # <<>>
    <3>1. result' = carray_at(0)
      BY <1>2, PopKeeps
    <3>2. Elements[1] = carray_at(0)
      BY <1>0, <2>1
    <3> QED BY <1>0, <2>1, <3>1, <3>2
  <2>3. Elements' = Tail(Elements)
    <3>1. ASSUME NEW i \in 1 .. count-1
          PROVE  carray_at(i-1)' = Elements[i+1]
      <4>1. i-1 \in 0 .. count' - 1 /\ (i-1)+1 = i /\ (i+1)-1 = i
        BY <1>0, <2>1
      <4>2. carray_at(i-1)' = carray_at(i)
        BY <1>2, <4>1, PopKeeps
      <4>3. i+1 \in 1 .. count
        BY <1>0
      <4> QED BY <1>0, <4>1, <4>2, <4>3
    <3>2. Elements' = [i \in 1 .. count-1 |-> Elements[i+1]]
      BY <2>1, <3>1 DEF Elements
    <3> QED BY <1>0, <2>2, <3>2, TailElements, Zenon
  <2> QED BY <2>2, <2>3, Zenon DEF Elements
<1>3. ASSUME NEW p \in Elem, carray_push_back(p)
      PROVE  Elements' = Append(Elements, p) /\ result' = result
  <2>1. count' = count + 1 /\ result' = result
    BY <1>3 DEF carray_push_back
  <2>2. ASSUME NEW i \in 1 .. count+1
        PROVE  carray_at(i-1)' = IF i = count+1 THEN p ELSE Elements[i]
    <3>1. i-1 \in 0 .. count /\ (i-1 = count <=> i = count+1)
      BY <1>0
    <3>2. carray_at(i-1)' = IF i-1 = count THEN p ELSE carray_at(i-1)
      BY <1>3, <3>1, PushKeeps, GrowKeeps
    <3>3. i # count+1 => Elements[i] = carray_at(i-1)
      BY <1>0
    <3> QED BY <3>1, <3>2, <3>3
  <2>3. Elements' = [i \in 1 .. count+1 |->
                        IF i = count+1 THEN p ELSE Elements[i]]
    BY <2>1, <2>2, Zenon DEF Elements
  <2>4. Append(Elements, p) =
          [i \in 1 .. Len(Elements)+1 |->
              IF i = Len(Elements)+1 THEN p ELSE Elements[i]]
    BY <1>0, AppendElements
  <2>5. Append(Elements, p) =
          [i \in 1 .. count+1 |-> IF i = count+1 THEN p ELSE Elements[i]]
    BY <1>0, <2>4
  <2> QED BY <2>1, <2>3, <2>5
<1>4. CASE UNCHANGED carrayVars
  BY <1>4 DEF carrayVars, Elements, carray_at
<1>5. ASSUME NEW p \in Elem, carray_push_back(p)
      PROVE  Queue!QueueNext
  BY <1>3, <1>5, Zenon DEF Elements
<1> QED BY <1>1, <1>2, <1>4, <1>5, Zenon DEF CArrayNext

(* The circular array of carray.c implements the first-in first-out queue that
   the proposer expects, through every wrap-around and every carray_grow. *)
THEOREM CArrayIsQueue == CArraySpec => ImplementsQueue
<1>1. carray_new => Queue!QueueInit
  BY DEF carray_new, Queue!QueueInit, carray_at
<1>2. CArrayTypeOK /\ [CArrayNext]_carrayVars
        => [Queue!QueueNext]_<<[i \in 1 .. count |-> carray_at(i-1)], result>>
  BY StepRefines DEF Elements
<1> QED BY <1>1, <1>2, CArrayTypeInvariant, PTL
        DEF CArraySpec, ImplementsQueue, Queue!QueueSpec

-------------------------------------------------------------------------------
ConnInv == ConnTypeOK /\ IdIsPlace /\ TableExact /\ PeerPursued

(* A new client goes behind the others: its place is its id, and the places of
   the others stay. *)
LEMMA AcceptKeepsTable ==
    ASSUME ConnInv, NEW c \in Conn, on_accept(c)
    PROVE  /\ ConnTypeOK' /\ IdIsPlace'
           /\ Table' = Table \cup {c}
           /\ \A i, j \in 0 .. clients_count' - 1 : clients'[i] = clients'[j] => i = j
<1> USE DEF ConnInv, ConnTypeOK, IdIsPlace, TableExact, on_accept, Table
<1>1. /\ clients_count' = clients_count + 1 /\ clients_count' \in Nat
      /\ clients' = [i \in 0 .. clients_count |-> IF i = clients_count THEN c ELSE clients[i]]
      /\ id' = [id EXCEPT ![c] = clients_count]
  OBVIOUS
<1>2. 0 .. clients_count' - 1 = 0 .. clients_count
  BY <1>1
<1>3. \A i \in 0 .. clients_count - 1 : clients'[i] = clients[i] /\ clients[i] # c /\ clients[i] \in Conn
  BY <1>1
<1>4. clients'[clients_count] = c /\ clients_count \in 0 .. clients_count
  BY <1>1
<1>5. \A i \in 0 .. clients_count : i = clients_count \/ i \in 0 .. clients_count - 1
  OBVIOUS
<1>6. ConnTypeOK'
  BY <1>1, <1>2
<1>7. IdIsPlace'
  BY <1>1, <1>2, <1>3, <1>4, <1>5
<1>8. Table' = Table \cup {c}
  <2>1. Table' = {clients'[i] : i \in 0 .. clients_count}
    BY <1>2
  <2>2. \A i \in 0 .. clients_count : clients'[i] \in Table \cup {c}
    BY <1>3, <1>4, <1>5
  <2>3. \A d \in Table : \E i \in 0 .. clients_count : clients'[i] = d
    BY <1>3
  <2>4. \E i \in 0 .. clients_count : clients'[i] = c
    BY <1>4
  <2> HIDE DEF ConnInv, ConnTypeOK, IdIsPlace, TableExact, on_accept, Table
  <2>5. Table' \subseteq Table \cup {c}
    BY <2>1, <2>2
  <2>6. Table \cup {c} \subseteq Table'
    BY <2>1, <2>3, <2>4
  <2> QED
    BY <2>5, <2>6
<1>9. \A i, j \in 0 .. clients_count : clients'[i] = clients'[j] => i = j
  BY <1>3, <1>4, <1>5
<1> QED
  BY <1>2, <1>6, <1>7, <1>8, <1>9, Zenon

(* A client that leaves is the one the shift removes, and those behind it get
   their new place as id. *)
LEMMA CloseKeepsTable ==
    ASSUME ConnInv, NEW c \in Conn, on_client_event(c)
    PROVE  /\ ConnTypeOK' /\ IdIsPlace'
           /\ Table' = Table \ {c}
           /\ \A i, j \in 0 .. clients_count' - 1 : clients'[i] = clients'[j] => i = j
<1> DEFINE k == id[c]
<1>1. /\ k \in 0 .. clients_count - 1 /\ clients[k] = c
      /\ \A i, j \in 0 .. clients_count - 1 : clients[i] = clients[j] => i = j
      /\ clients_count \in Nat /\ clients \in [0 .. clients_count - 1 -> Conn] /\ id \in [Conn -> Nat]
      /\ \A i \in 0 .. clients_count - 1 : id[clients[i]] = i
  BY DEF ConnInv, ConnTypeOK, IdIsPlace, TableExact, on_client_event, Table
<1>2. /\ clients_count' = clients_count - 1
      /\ clients' = shifted(k) /\ id' = renumbered(k)
      /\ UNCHANGED <<up, backlog, broken, bev, status, timer>>
  BY DEF on_client_event
<1>3. clients_count' \in Nat /\ 0 .. clients_count' - 1 = 0 .. clients_count - 2
  BY <1>1, <1>2
<1> HIDE DEF k
<1>4. \A i \in 0 .. clients_count - 2 :
         /\ i \in 0 .. clients_count - 1 /\ i + 1 \in 0 .. clients_count - 1
         /\ i < k => clients'[i] = clients[i]
         /\ i >= k => i \in k .. clients_count - 2 /\ clients'[i] = clients[i + 1]
  BY <1>1, <1>2 DEF shifted
<1>5. clients' \in [0 .. clients_count - 2 -> Conn]
  BY <1>1, <1>2 DEF shifted
<1>6. \A d \in Conn : id'[d] \in Nat
  <2>1. TAKE d \in Conn
  <2>2. CASE \E i \in k .. clients_count - 2 : clients[i + 1] = d
    <3>1. id'[d] = CHOOSE i \in k .. clients_count - 2 : clients[i + 1] = d
      BY <1>2, <2>2 DEF renumbered
    <3>2. id'[d] \in k .. clients_count - 2
      BY <2>2, <3>1
    <3> QED
      BY <1>1, <3>2
  <2>3. CASE ~\E i \in k .. clients_count - 2 : clients[i + 1] = d
    BY <1>1, <1>2, <2>3 DEF renumbered
  <2> QED
    BY <2>2, <2>3
<1>7. ConnTypeOK'
  <2>1. id' \in [Conn -> Nat]
    BY <1>2, <1>6, Zenon DEF renumbered
  <2> QED
    BY <1>2, <1>3, <1>5, <2>1 DEF ConnInv, ConnTypeOK
<1>8. \A i \in 0 .. clients_count - 2 : id'[clients'[i]] = i
  <2>1. TAKE i \in 0 .. clients_count - 2
  <2>2. CASE i < k
    <3>1. clients'[i] = clients[i] /\ id[clients[i]] = i /\ clients[i] \in Conn
      BY <1>1, <1>4, <2>2
    <3>2. ~\E j \in k .. clients_count - 2 : clients[j + 1] = clients[i]
      BY <1>1, <1>4, <2>2
    <3> QED
      BY <1>2, <3>1, <3>2 DEF renumbered
  <2>3. CASE i >= k
    <3>1. /\ clients'[i] = clients[i + 1] /\ i \in k .. clients_count - 2
          /\ clients[i + 1] \in Conn
      BY <1>1, <1>4, <2>3
    <3>2. \A j \in k .. clients_count - 2 : clients[j + 1] = clients[i + 1] => j = i
      BY <1>1, <3>1
    <3>3. id'[clients[i + 1]] =
             CHOOSE j \in k .. clients_count - 2 : clients[j + 1] = clients[i + 1]
      BY <1>2, <3>1, Zenon DEF renumbered
    <3> QED
      BY <3>1, <3>2, <3>3
  <2> QED
    BY <1>1, <2>2, <2>3
<1>9. IdIsPlace'
  BY <1>3, <1>8, Zenon DEF IdIsPlace
<1>10. Table' = Table \ {c}
  <2>1. \A i \in 0 .. clients_count - 2 : clients'[i] \in Table \ {c}
    BY <1>1, <1>4 DEF Table
  <2>2. \A i \in 0 .. clients_count - 1 :
           clients[i] # c => \E j \in 0 .. clients_count - 2 : clients'[j] = clients[i]
    <3>1. SUFFICES ASSUME NEW i \in 0 .. clients_count - 1, clients[i] # c
                   PROVE  \E j \in 0 .. clients_count - 2 : clients'[j] = clients[i]
      OBVIOUS
    <3>2. CASE i < k
      BY <1>1, <1>4, <3>2
    <3>3. CASE i > k
      <4>1. i - 1 \in 0 .. clients_count - 2 /\ i - 1 >= k /\ (i - 1) + 1 = i
        BY <1>1, <3>3
      <4> QED
        BY <1>4, <4>1
    <3> QED
      BY <1>1, <3>1, <3>2, <3>3
  <2>3. \A d \in Table \ {c} : \E j \in 0 .. clients_count - 2 : clients'[j] = d
    BY <2>2 DEF Table
  <2>4. Table' = {clients'[i] : i \in 0 .. clients_count - 2}
    BY <1>3, Zenon DEF Table
  <2> QED
    BY <2>1, <2>3, <2>4
<1>11. \A i, j \in 0 .. clients_count - 2 : clients'[i] = clients'[j] => i = j
  BY <1>1, <1>4, <1>8
<1> QED
  BY <1>3, <1>7, <1>9, <1>10, <1>11, Zenon

(* What a peer does on its side leaves the table of the replica alone. *)
LEMMA SameTable ==
    ASSUME IdIsPlace, UNCHANGED <<clients_count, clients, id>>
    PROVE  Table' = Table /\ IdIsPlace'
  BY DEF Table, IdIsPlace

(* Every step of a peer, of the replica and of the network keeps the invariant. *)
LEMMA ConnStepKeeps == ConnInv /\ [ConnNext]_connVars => ConnInv'
<1> SUFFICES ASSUME ConnInv, [ConnNext]_connVars PROVE ConnInv'
  OBVIOUS
<1> USE ConnAssumption
<1>1. ASSUME NEW p \in Peer, Connected(p) PROVE ConnInv'
  <2>1. /\ bev[p] = Connecting /\ status' = [status EXCEPT ![p] = "CONNECTED"]
        /\ UNCHANGED <<up, clients_count, clients, id, timer>>
    BY <1>1 DEF Connected
  <2>2. PICK c \in Conn \ InUse : /\ bev' = [bev EXCEPT ![p] = c]
                                 /\ backlog' = backlog \cup {c} /\ broken' = broken \ {c}
    BY <1>1 DEF Connected
  <2>3. ConnTypeOK'
    BY <2>1, <2>2 DEF ConnInv, ConnTypeOK
  <2>4. c \notin Table /\ \A q \in Peer : bev[q] # c
    BY <2>2 DEF InUse
  <2>5. bev \in [Peer -> Conn \cup {Connecting, Idle}] /\ Table' = Table /\ IdIsPlace'
    BY <2>1, SameTable DEF ConnInv, ConnTypeOK
  <2>6. TableExact'
    BY <2>1, <2>2, <2>4, <2>5 DEF ConnInv, TableExact
  <2>7. PeerPursued'
    BY <2>1, <2>2, <2>5 DEF ConnInv, ConnTypeOK, PeerPursued
  <2> QED
    BY <2>3, <2>5, <2>6, <2>7 DEF ConnInv
<1>2. ASSUME NEW p \in Peer, NEW ev \in {"EOF", "ERROR"}, start_over(p, ev),
             bev[p] = Connecting \/ bev[p] \in broken
      PROVE  ConnInv'
  <2>1. /\ bev' = [bev EXCEPT ![p] = Idle] /\ timer' = timer \cup {p}
        /\ status' = [status EXCEPT ![p] = ev]
        /\ UNCHANGED <<up, broken, backlog, clients_count, clients, id>>
    BY <1>2 DEF start_over, serverVars
  <2>2. ConnTypeOK'
    BY <1>2, <2>1 DEF ConnInv, ConnTypeOK
  <2>3. bev \in [Peer -> Conn \cup {Connecting, Idle}] /\ Table' = Table /\ IdIsPlace'
    BY <2>1, SameTable DEF ConnInv, ConnTypeOK
  <2>4. TableExact'
    BY <2>1, <2>3 DEF ConnInv, TableExact
  <2>5. PeerPursued'
    BY <1>2, <2>1, <2>3 DEF ConnInv, ConnTypeOK, PeerPursued
  <2> QED
    BY <2>2, <2>3, <2>4, <2>5 DEF ConnInv
<1>3. ASSUME NEW p \in Peer, on_connection_timeout(p) PROVE ConnInv'
  <2>1. /\ bev' = [bev EXCEPT ![p] = Connecting] /\ timer' = timer \ {p}
        /\ p \in timer /\ status' = status
        /\ UNCHANGED <<up, broken, backlog, clients_count, clients, id>>
    BY <1>3 DEF on_connection_timeout, serverVars
  <2>2. ConnTypeOK'
    BY <1>3, <2>1 DEF ConnInv, ConnTypeOK
  <2>3. bev \in [Peer -> Conn \cup {Connecting, Idle}] /\ Table' = Table /\ IdIsPlace'
    BY <2>1, SameTable DEF ConnInv, ConnTypeOK
  <2>4. TableExact'
    BY <2>1, <2>3 DEF ConnInv, TableExact
  <2>5. PeerPursued'
    BY <1>3, <2>1, <2>3 DEF ConnInv, ConnTypeOK, PeerPursued
  <2> QED
    BY <2>2, <2>3, <2>4, <2>5 DEF ConnInv
<1>4. ASSUME NEW c \in Conn, on_accept(c) PROVE ConnInv'
  <2>1. ConnTypeOK' /\ IdIsPlace' /\ Table' = Table \cup {c}
        /\ \A i, j \in 0 .. clients_count' - 1 : clients'[i] = clients'[j] => i = j
    BY <1>4, AcceptKeepsTable
  <2>2. /\ c \in backlog /\ backlog' = backlog \ {c}
        /\ UNCHANGED <<up, broken, bev, status, timer>>
    BY <1>4 DEF on_accept
  <2>3. TableExact'
    BY <2>1, <2>2 DEF ConnInv, TableExact
  <2> QED
    BY <2>1, <2>2, <2>3, Zenon DEF ConnInv, PeerPursued
<1>5. ASSUME NEW c \in Conn, on_client_event(c) PROVE ConnInv'
  <2>1. ConnTypeOK' /\ IdIsPlace' /\ Table' = Table \ {c}
        /\ \A i, j \in 0 .. clients_count' - 1 : clients'[i] = clients'[j] => i = j
    BY <1>5, CloseKeepsTable
  <2>2. c \in broken /\ UNCHANGED <<up, backlog, broken, bev, status, timer>>
    BY <1>5 DEF on_client_event
  <2>3. TableExact'
    BY <2>1, <2>2 DEF ConnInv, TableExact
  <2> QED
    BY <2>1, <2>2, <2>3 DEF ConnInv, PeerPursued
<1>6. ASSUME NEW c \in Conn, Break(c) PROVE ConnInv'
  BY <1>6 DEF ConnInv, ConnTypeOK, IdIsPlace, TableExact, PeerPursued, Break,
              Table, serverVars
<1>7. CASE Stop
  <2>1. /\ up' = FALSE /\ backlog' = {} /\ clients_count' = 0 /\ clients' = [i \in {} |-> i]
        /\ broken' = broken \cup (InUse \cap Conn)
        /\ UNCHANGED <<id, bev, status, timer>>
    BY <1>7 DEF Stop
  <2>2. 0 .. clients_count' - 1 = {}
    BY <2>1
  <2>3. clients' \in [0 .. clients_count' - 1 -> Conn]
    BY <2>1, <2>2
  <2>4. ConnTypeOK'
    BY <2>1, <2>3, Zenon DEF ConnInv, ConnTypeOK
  <2>5. IdIsPlace' /\ Table' = {}
    BY <2>2 DEF IdIsPlace, Table
  <2>6. TableExact'
    BY <2>1, <2>2, <2>5 DEF TableExact, InUse
  <2> QED
    BY <2>1, <2>4, <2>5, <2>6 DEF ConnInv, PeerPursued
<1>8. CASE Start \/ UNCHANGED connVars
  <2>1. /\ up' = TRUE \/ up' = up
        /\ UNCHANGED <<broken, bev, status, timer, backlog, clients_count, clients, id>>
    BY <1>8 DEF Start, serverVars, connVars
  <2>2. up' \in BOOLEAN
    BY <2>1, Zenon DEF ConnInv, ConnTypeOK
  <2>3. ConnTypeOK'
    BY <2>1, <2>2 DEF ConnInv, ConnTypeOK
  <2>4. Table' = Table
    BY <2>1 DEF Table
  <2>5. IdIsPlace' /\ TableExact'
    BY <2>1, <2>4 DEF ConnInv, IdIsPlace, TableExact, InUse
  <2>6. PeerPursued'
    BY <2>1 DEF ConnInv, PeerPursued
  <2> QED
    BY <2>3, <2>5, <2>6 DEF ConnInv
<1> QED
  BY <1>1, <1>2, <1>3, <1>4, <1>5, <1>6, <1>7, <1>8
  DEF ConnNext, PeerStep, ConnStep, Fault, Refused, Closed, TimedOut

(* For any number of peers and connections: the id of a client is its place, the
   table holds every accepted connection once, and a peer that lost its
   connection has a timer or an attempt pending. *)
THEOREM ConnInvariant == ConnSpec => []ConnInv
<1>1. ConnInit => ConnInv
  BY ConnAssumption DEF ConnInit, ConnInv, ConnTypeOK, IdIsPlace, TableExact,
                        PeerPursued, Table
<1> QED
  BY <1>1, ConnStepKeeps, PTL DEF ConnSpec

(* The table stays within its capacity and every field within the values of
   peers.c, for any number of peers and connections. *)
THEOREM ConnTypeInvariant == ConnSpec => []ConnTypeOK
  BY ConnInvariant, PTL DEF ConnInv

(* The same for the table of clients alone, which on_accept and on_client_event
   keep: its ids are places. *)
THEOREM ClientsKeepTheirPlace == ConnSpec => []IdIsPlace
  BY ConnInvariant, PTL DEF ConnInv

(* And it is exact: peers_foreach_client reaches every client once. *)
THEOREM ClientsReachedOnce == ConnSpec => []TableExact
  BY ConnInvariant, PTL DEF ConnInv

(* No peer is forgotten, whatever fails in whatever order. *)
THEOREM PeersArePursued == ConnSpec => []PeerPursued
  BY ConnInvariant, PTL DEF ConnInv

-------------------------------------------------------------------------------
(* While the main thread starts replicas or runs the loop, it holds the mutex of
   every thread it has created.  The threads behind main_i have not been created. *)
MutexHeld ==
    /\ main_i \in Node
    /\ DOMAIN thread = Node /\ thread = [n \in Node |-> thread[n]]
    /\ held \in [Node -> BOOLEAN]
    /\ main = "start" => \A n \in Node : n >= main_i => thread[n] = "none"
    /\ main \in {"start", "loop"} =>
           \A n \in Node : /\ thread[n] # "ended"
                           /\ thread[n] # "none" => held[n]

(* Every step of the main thread and of the threads of the replicas preserves it. *)
LEMMA MutexHeldStep == MutexHeld /\ [ThreadsNext]_threadVars => MutexHeld'
<1> SUFFICES ASSUME MutexHeld, [ThreadsNext]_threadVars
             PROVE  MutexHeld'
    OBVIOUS
<1> USE ThreadsAssumption DEF MutexHeld, Node
<1>1. CASE evpaxos_replica_init_thread
    <2>1. /\ main_i' \in Node
          /\ DOMAIN thread' = Node /\ thread' = [n \in Node |-> thread'[n]]
          /\ held' \in [Node -> BOOLEAN]
        <3>1. main_i' \in Node
            BY <1>1 DEF evpaxos_replica_init_thread, next_or
        <3>2. DOMAIN thread' = Node /\ thread' = [n \in Node |-> thread'[n]]
            BY <1>1 DEF evpaxos_replica_init_thread
        <3>3. held' \in [Node -> BOOLEAN]
            BY <1>1 DEF evpaxos_replica_init_thread
        <3> QED
            BY <3>1, <3>2, <3>3
    <2>2. main' = "start" => main_i' = main_i + 1
        BY <1>1 DEF evpaxos_replica_init_thread, next_or
    <2>3. \A n \in Node : IF n = main_i THEN thread'[n] = "created" /\ held'[n]
                                    ELSE thread'[n] = thread[n] /\ held'[n] = held[n]
        BY <1>1 DEF evpaxos_replica_init_thread
    <2>4. main = "start"
        BY <1>1 DEF evpaxos_replica_init_thread
    <2> QED
        BY <2>1, <2>2, <2>3, <2>4
<1>2. ASSUME NEW n \in Node, evpaxos_replica_deliver(n) PROVE MutexHeld'
    BY <1>2 DEF evpaxos_replica_deliver, use_shared
<1>3. CASE handle_sigint
    BY <1>3 DEF handle_sigint
<1>4. CASE unlock
    BY <1>4 DEF unlock
<1>5. CASE join
    <2>1. /\ main' \in {"unlock", "ended"} /\ main_i' \in {main_i + 1, 0}
          /\ main_i' < nnodes /\ thread' = thread /\ held' = held
        BY <1>5 DEF join, next_or
    <2> QED
        BY <2>1
<1>6. ASSUME NEW n \in Node, evpaxos_replica_init(n) PROVE MutexHeld'
    <2>1. CASE listen_failed(n)
        BY <2>1, Zenon DEF listen_failed, evpaxos_config_free
    <2>2. ASSUME NEW from, NEW to, proceed(n, from, to),
                 from # "none",
                 to \in {"peers", "acceptor", "proposer", "learner", "deliver", "listening"}
          PROVE  MutexHeld'
        BY <2>2, Zenon DEF proceed, use_shared
    <2> QED
        BY <1>6, <2>1, <2>2, Zenon DEF evpaxos_replica_init, connect_to_acceptors, init_acceptor,
           init_proposer, init_learner, set_deliver, listen
<1>7. ASSUME NEW n \in Node, stop_replica(n) PROVE MutexHeld'
    BY <1>7, Zenon DEF stop_replica, use_shared
<1>8. CASE UNCHANGED threadVars
    BY <1>8 DEF threadVars
<1> QED
    BY <1>1, <1>2, <1>3, <1>4, <1>5, <1>6, <1>7, <1>8, Zenon DEF ThreadsNext, MainThread, Thread

(* No replica that listens is freed before the event loop of the main thread has
   ended (sample/replica2.c, evpaxos_replica_init_thread_start), for any number of
   replicas. *)
THEOREM LoopOutlivesReplicas == ThreadsSpec => []FreedAfterLoop
<1>1. ThreadsInit => MutexHeld
    BY ThreadsAssumption DEF ThreadsInit, MutexHeld, Node
<1>2. MutexHeld => FreedAfterLoop
    BY DEF MutexHeld, FreedAfterLoop
<1> QED
    BY <1>1, <1>2, MutexHeldStep, PTL DEF ThreadsSpec

(* Every step keeps the variables to the values the program can give them, and the
   main thread's index within syncs. *)
LEMMA ThreadsTypeStep == ThreadsTypeOK /\ [ThreadsNext]_threadVars => ThreadsTypeOK'
<1> SUFFICES ASSUME ThreadsTypeOK, [ThreadsNext]_threadVars
             PROVE  ThreadsTypeOK'
    OBVIOUS
<1> DEFINE Stage == {"none", "created", "peers", "acceptor", "proposer", "learner",
                     "deliver", "listening", "failed", "ended"}
<1> USE DEF ThreadsTypeOK
<1>1. ASSUME NEW this, NEW after, next_or(this, after)
      PROVE  main_i' \in Node /\ main' \in {this, after}
    BY <1>1, ThreadsAssumption DEF next_or, Node
<1>2. ASSUME NEW n, NEW to \in Stage, thread' = [thread EXCEPT ![n] = to]
      PROVE  thread' \in [Node -> Stage]
    BY <1>2, Zenon
<1>3. ASSUME NEW n, NEW b \in BOOLEAN, held' = [held EXCEPT ![n] = b]
      PROVE  held' \in [Node -> BOOLEAN]
    BY <1>3, Zenon
<1>4. use_shared => aborted' \in BOOLEAN
    BY Zenon DEF use_shared
<1>5. ASSUME NEW k \in Nat, evpaxos_config_free(k)
      PROVE  config_frees' \in Nat /\ aborted' \in BOOLEAN
    <2>1. config_frees' \in Nat
        BY <1>5 DEF evpaxos_config_free
    <2>2. aborted' \in BOOLEAN
        BY <1>5, Zenon DEF evpaxos_config_free
    <2> QED
        BY <2>1, <2>2
<1>6. CASE evpaxos_replica_init_thread
    BY <1>1, <1>2, <1>3, <1>6, Zenon DEF evpaxos_replica_init_thread
<1>7. ASSUME NEW n \in Node, evpaxos_replica_deliver(n) PROVE ThreadsTypeOK'
    <2>1. aborted' \in BOOLEAN
        BY <1>4, <1>7, Zenon DEF evpaxos_replica_deliver
    <2> QED
        BY <1>7, <2>1 DEF evpaxos_replica_deliver
<1>8. CASE handle_sigint
    BY <1>8 DEF handle_sigint
<1>9. CASE unlock
    BY <1>3, <1>9 DEF unlock
<1>10. CASE join
    BY <1>1, <1>5, <1>10 DEF join
<1>11. ASSUME NEW n \in Node, evpaxos_replica_init(n) PROVE ThreadsTypeOK'
    <2>1. CASE listen_failed(n)
        BY <1>2, <1>5, <2>1, Zenon DEF listen_failed
    <2>2. ASSUME NEW from, NEW to \in Stage, proceed(n, from, to) PROVE ThreadsTypeOK'
        BY <1>2, <1>4, <2>2, Zenon DEF proceed
    <2> QED
        BY <1>11, <2>1, <2>2 DEF evpaxos_replica_init, connect_to_acceptors,
           init_acceptor, init_proposer, init_learner, set_deliver, listen
<1>12. ASSUME NEW n \in Node, stop_replica(n) PROVE ThreadsTypeOK'
    <2>1. thread' \in [Node -> Stage]
        BY <1>2, <1>12, Zenon DEF stop_replica
    <2>2. config_frees' \in Nat /\ UNCHANGED <<main, main_i, held>>
        BY <1>12 DEF stop_replica
    <2>3. aborted' \in BOOLEAN
        BY <1>4, <1>12, Zenon DEF stop_replica
    <2> QED
        BY <2>1, <2>2, <2>3
<1>13. CASE UNCHANGED threadVars
    BY <1>13 DEF threadVars
<1> QED
    BY <1>6, <1>7, <1>8, <1>9, <1>10, <1>11, <1>12, <1>13,
    Zenon DEF ThreadsNext, MainThread, Thread

(* For any number of replicas the loops of the main thread stay within syncs and
   the threads go through the stages of evpaxos_replica_init. *)
THEOREM ThreadsTypeInvariant == ThreadsSpec => []ThreadsTypeOK
<1>1. ThreadsInit => ThreadsTypeOK
    <2> SUFFICES ASSUME ThreadsInit PROVE ThreadsTypeOK
        OBVIOUS
    <2>1. main_i \in Node /\ config_frees \in Nat
        BY ThreadsAssumption DEF ThreadsInit, Node
    <2>2. held \in [Node -> BOOLEAN] /\ aborted \in BOOLEAN
        BY Zenon DEF ThreadsInit
    <2> QED
        BY <2>1, <2>2 DEF ThreadsInit, ThreadsTypeOK
<1> QED
    BY <1>1, ThreadsTypeStep, PTL DEF ThreadsSpec
===============================================================================
