---------------------------- MODULE AtomicBroadcast ----------------------------
(***************************************************************************)
(* What a group of replicas promises its application: whatever is          *)
(* submitted is delivered at most once, and all replicas deliver in one    *)
(* order.  A replica may deliver several values at a time, and may lag.    *)
(***************************************************************************)
EXTENDS Integers, Sequences, FiniteSets, Functions

CONSTANTS
    Member,     \* the replicas that deliver
    Payload     \* what can be submitted

VARIABLES
    broadcast,  \* the values submitted so far
    log         \* log[r]: what r delivered, in order

Submit ==
    /\ \E V \in SUBSET Payload : broadcast' = broadcast \cup V
    /\ UNCHANGED log

(* r extends its log, which stays in line with every other log: one is a prefix of
   the other. *)
Deliver(r) ==
    \E new \in UNION {[1 .. n -> Payload] : n \in 0 .. Cardinality(Payload)} :
        LET extended == log[r] \o new
        IN  /\ IsInjective(extended) /\ Range(extended) \subseteq broadcast
            /\ \A q \in Member \ {r} :
                  IsRestriction(log[q], extended) \/ IsRestriction(extended, log[q])
            /\ log' = [log EXCEPT ![r] = extended]
            /\ UNCHANGED broadcast

BroadcastInit ==
    /\ broadcast = {}
    /\ log = [r \in Member |-> <<>>]

BroadcastNext == Submit \/ \E r \in Member : Deliver(r)

BroadcastSpec == BroadcastInit /\ [][BroadcastNext]_<<broadcast, log>>
===============================================================================
