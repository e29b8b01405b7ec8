------------------------------ MODULE ValueQueue ------------------------------
(***************************************************************************)
(* What a proposer expects of the queue of client values: first in, first  *)
(* out, and NULL from an empty queue.                                      *)
(***************************************************************************)
EXTENDS Sequences

CONSTANTS
    Elem,       \* what is queued
    Null        \* the result of taking from an empty queue

VARIABLES
    queue,      \* the elements, oldest first
    result      \* the result of the last removal

Put(e) ==
    /\ queue' = Append(queue, e)
    /\ UNCHANGED result

Take ==
    \/ /\ queue = <<>>
       /\ result' = Null
       /\ UNCHANGED queue
    \/ /\ queue # <<>>
       /\ result' = Head(queue)
       /\ queue' = Tail(queue)

QueueInit == queue = <<>> /\ result = Null

QueueNext == Take \/ \E e \in Elem : Put(e)

QueueSpec == QueueInit /\ [][QueueNext]_<<queue, result>>
===============================================================================
