-------------------------------- MODULE CArray --------------------------------
(***************************************************************************)
(* paxos/carray.c: a circular array that doubles when it is full.  The     *)
(* proposer keeps the values of its clients in one.                        *)
(***************************************************************************)
EXTENDS Integers, Sequences

CONSTANTS
    Elem,       \* the pointers that are stored
    Null,       \* NULL
    Garbage,    \* what malloc leaves in a slot
    FirstSize,  \* the size carray_new is called with
    MaxCount    \* bound: elements in the array

ASSUME CArrayAssumption ==
    /\ FirstSize \in Nat \ {0}
    /\ MaxCount \in Nat

VARIABLES
    head, tail, size, count, array,     \* struct carray
    result                              \* what carray_pop_front returned last

carrayVars == <<head, tail, size, count, array, result>>

carray_new ==
    /\ head = 0 /\ tail = 0 /\ size = FirstSize /\ count = 0
    /\ array = [i \in 0 .. FirstSize-1 |-> Garbage]
    /\ result = Null

carray_empty == count = 0
carray_full_late == count > size
carray_full == count = size

carray_at(i) == array[(head + i) % size]

(* The array after carray_grow: the elements from slot 0 on, in their order. *)
carray_grow_in_place ==
    [i \in 0 .. 2*size-1 |-> IF i < count THEN array[i] ELSE Garbage]

carray_grow ==
    [i \in 0 .. 2*size-1 |-> IF i < count THEN carray_at(i) ELSE Garbage]

carray_push_back(p) ==
    /\ count < MaxCount
    /\ count' = count + 1
    /\ UNCHANGED result
    /\ \/ /\ carray_full
          /\ head' = 0
          /\ size' = 2*size
          /\ tail' = (count + 1) % (2*size)
          /\ array' = [carray_grow EXCEPT ![count] = p]
       \/ /\ ~carray_full
          /\ tail' = (tail + 1) % size
          /\ array' = [array EXCEPT ![tail] = p]
          /\ UNCHANGED <<head, size>>

carray_pop_front ==
    /\ UNCHANGED <<tail, size, array>>
    /\ \/ /\ carray_empty
          /\ result' = Null
          /\ UNCHANGED <<head, count>>
       \/ /\ ~carray_empty
          /\ result' = array[head]
          /\ head' = (head + 1) % size
          /\ count' = count - 1

CArrayNext == carray_pop_front \/ \E p \in Elem : carray_push_back(p)

CArraySpec == carray_new /\ [][CArrayNext]_carrayVars

-------------------------------------------------------------------------------
(* The counters stay within the array, the tail is where the elements end, and
   no slot that holds an element is one that malloc left uninitialised. *)
CArrayTypeOK ==
    /\ size \in Nat \ {0}
    /\ count \in 0 .. size
    /\ head \in 0 .. size-1
    /\ tail = (head + count) % size
    /\ array \in [0 .. size-1 -> Elem \cup {Garbage}]
    /\ \A i \in 0 .. count-1 : carray_at(i) \in Elem
    /\ result \in Elem \cup {Null}

(* The elements from head on are the queue. *)
Queue == INSTANCE ValueQueue WITH
    queue <- [i \in 1 .. count |-> carray_at(i-1)]

(* The circular array is a queue: whatever wraps around and however often the
   array grows, elements come out in the order they went in, none is lost or
   repeated, and no uninitialised slot is handed out. *)
ImplementsQueue == Queue!QueueSpec
===============================================================================
