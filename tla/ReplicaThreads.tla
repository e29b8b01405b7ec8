---------------------------- MODULE ReplicaThreads ----------------------------
(***************************************************************************)
(* The threads of sample/replica2.c: the main thread starts one thread per *)
(* replica, runs the event loop of all of them, and stops them.  The       *)
(* thread of a replica runs evpaxos_replica_init, waits on a mutex that    *)
(* the main thread holds, and frees the replica.  The replicas share one   *)
(* event base and one evpaxos_config.                                      *)
(***************************************************************************)
EXTENDS Integers

CONSTANT nnodes     \* the number of replicas

Node == 0 .. nnodes - 1

ASSUME ThreadsAssumption == nnodes \in Nat \ {0}

VARIABLES
    main,           \* "start", "loop", "unlock", "join" or "ended"
    main_i,         \* the i of the main thread, an index of a replica
    thread,         \* how far the thread of a replica is
    held,           \* whether the main thread holds syncs[main_i]
    config_frees,   \* how often the configuration was freed
    aborted         \* the process was ended by a use of memory that was not valid

threadVars == <<main, main_i, thread, held, config_frees, aborted>>

ThreadsInit ==
    /\ main = "start" /\ main_i = 0
    /\ thread = [n \in Node |-> "none"]
    /\ held = [n \in Node |-> FALSE]
    /\ config_frees = 0
    /\ aborted = FALSE

(* A use of the event base and of the configuration.  When one of them has been
   freed it ends the process, or goes unnoticed. *)
use_shared ==
    aborted' \in IF config_frees > 0 \/ main \in {"unlock", "join"} THEN BOOLEAN ELSE {FALSE}

(* evpaxos_config_free, called so many times. *)
evpaxos_config_free(times) ==
    /\ config_frees' = config_frees + times
    /\ aborted' \in IF config_frees' > 1 THEN BOOLEAN ELSE {FALSE}

-------------------------------------------------------------------------------
(* The main thread. *)

(* The next index of a loop over the replicas, or what comes behind the loop. *)
next_or_no_reset(this, after) ==
    main_i' = main_i + 1 /\ main' = IF main_i + 1 < nnodes THEN this ELSE after
next_or(this, after) ==
    IF main_i + 1 < nnodes THEN main_i' = main_i + 1 /\ main' = this
    ELSE main_i' = 0 /\ main' = after

evpaxos_replica_init_thread_unlocked ==
    /\ main = "start" /\ next_or("start", "loop")
    /\ thread' = [thread EXCEPT ![main_i] = "created"]
    /\ UNCHANGED <<held, config_frees, aborted>>
evpaxos_replica_init_thread ==
    /\ main = "start" /\ next_or("start", "loop")
    /\ held' = [held EXCEPT ![main_i] = TRUE]
    /\ thread' = [thread EXCEPT ![main_i] = "created"]
    /\ UNCHANGED <<config_frees, aborted>>

(* An event of replica n in which its learner closes an instance; the learner is
   subscribed at the end of evlearner_init_internal.  Before r->deliver is set, what
   malloc left there is called. *)
evpaxos_replica_deliver(n) ==
    /\ main = "loop"
    /\ thread[n] \in {"learner", "deliver", "listening"}
    /\ IF thread[n] = "learner" THEN aborted' \in BOOLEAN ELSE use_shared
    /\ UNCHANGED <<main, main_i, thread, held, config_frees>>

(* event_base_dispatch returns, and the base is freed. *)
handle_sigint ==
    /\ main = "loop" /\ main' = "unlock"
    /\ UNCHANGED <<main_i, thread, held, config_frees, aborted>>

unlock_skipped ==
    /\ main = "unlock" /\ main' = "join"
    /\ UNCHANGED <<main_i, thread, held, config_frees, aborted>>
unlock ==
    /\ main = "unlock" /\ main' = "join"
    /\ held' = [held EXCEPT ![main_i] = FALSE]
    /\ UNCHANGED <<main_i, thread, config_frees, aborted>>

join ==
    /\ main = "join" /\ thread[main_i] \in {"failed", "ended"}
    /\ next_or("unlock", "ended")
    /\ evpaxos_config_free(1)
    /\ UNCHANGED <<thread, held>>

-------------------------------------------------------------------------------
(* The thread of replica n. *)

(* The parts of evpaxos_replica_init, in the order of the code. *)
proceed(n, from, to) ==
    /\ thread[n] = from
    /\ thread' = [thread EXCEPT ![n] = to]
    /\ use_shared
    /\ UNCHANGED <<main, main_i, held, config_frees>>

connect_to_acceptors(n) == proceed(n, "created", "peers")
init_acceptor(n) == proceed(n, "peers", "acceptor")
init_proposer(n) == proceed(n, "acceptor", "proposer")
init_learner(n) == proceed(n, "proposer", "learner")
set_deliver(n) == proceed(n, "learner", "deliver")
listen(n) == proceed(n, "deliver", "listening")

(* evpaxos_config_free and evpaxos_replica_free, which frees the configuration with
   the learner; the thread returns without waiting for the mutex. *)
listen_failed(n) ==
    /\ thread[n] = "deliver"
    /\ thread' = [thread EXCEPT ![n] = "failed"]
    /\ evpaxos_config_free(2)
    /\ UNCHANGED <<main, main_i, held>>

(* pthread_mutex_lock, then evpaxos_replica_free.  It frees events of the base that
   the main thread has freed by then. *)
stop_replica(n) ==
    /\ thread[n] = "listening" /\ ~held[n]
    /\ thread' = [thread EXCEPT ![n] = "ended"]
    /\ config_frees' = config_frees + 1
    /\ use_shared
    /\ UNCHANGED <<main, main_i, held>>

evpaxos_replica_init(n) ==
    connect_to_acceptors(n) \/ init_acceptor(n) \/ init_proposer(n) \/ init_learner(n)
        \/ set_deliver(n) \/ listen(n) \/ listen_failed(n)

MainThread ==
    /\ ~aborted
    /\ evpaxos_replica_init_thread \/ handle_sigint \/ unlock \/ join
          \/ \E n \in Node : evpaxos_replica_deliver(n)

Thread(n) == ~aborted /\ (evpaxos_replica_init(n) \/ stop_replica(n))

ThreadsNext == MainThread \/ \E n \in Node : Thread(n)

(* The scheduler runs every thread that can run. *)
ThreadsSpec ==
    /\ ThreadsInit /\ [][ThreadsNext]_threadVars
    /\ WF_threadVars(MainThread)
    /\ \A n \in Node : WF_threadVars(Thread(n))

-------------------------------------------------------------------------------
(* Every variable has a value the program can give it; main_i is an index of syncs. *)
ThreadsTypeOK ==
    /\ main \in {"start", "loop", "unlock", "join", "ended"}
    /\ main_i \in Node
    /\ thread \in [Node -> {"none", "created", "peers", "acceptor", "proposer",
                            "learner", "deliver", "listening", "failed", "ended"}]
    /\ held \in [Node -> BOOLEAN]
    /\ config_frees \in Nat /\ aborted \in BOOLEAN

(* While the main thread starts replicas or runs the loop, no replica that listens
   is freed: its thread waits for the mutex that was locked before it was created. *)
FreedAfterLoop ==
    main \in {"start", "loop"} => \A n \in Node : thread[n] # "ended"

(* After the signal the process comes to its end, however far the threads are with
   the initialisation: the main thread waits for no thread that waits for it. *)
ShutdownEnds == main = "unlock" ~> (aborted \/ main = "ended")
===============================================================================
