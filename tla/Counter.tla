-------------------------------- MODULE Counter -------------------------------
(***************************************************************************)
(* sample/counter.c: a replicated counter that saves its state now and     *)
(* then, tells the others how far it has come by a value of its own, and   *)
(* has the acceptors forget what the replicas it counts have saved.        *)
(* Replicas stop at any time, also while they save, and start again from   *)
(* their file.  What lies below is the atomic broadcast that ReplicaSystem *)
(* implements: one sequence of values.                                     *)
(***************************************************************************)
EXTENDS Topology, Sequences, FiniteSetsExt

CONSTANTS
    Interval,           \* a checkpoint every Interval instances; 100 in the code
    MaxLog              \* bound on the number of values

ASSUME CounterAssumption == Interval \in Nat \ {0} /\ MaxLog \in Nat

VARIABLES
    log,        \* the values in the order of their instances
    submitted,  \* the TRIM values that were submitted
    trimmed,    \* the largest instance that acceptors were told to trim
    running, saving,
    interrupted,    \* history: the replicas that once ended while saving
    file,       \* file[r]: the contents of state-r
    next,       \* the instance the learner of r delivers next
    counts, instance_id, instances, last_trim   \* struct counter_replica

counterVars == <<log, submitted, trimmed, running, saving, interrupted, file, next,
                 counts, instance_id, instances, last_trim>>

COUNT == [type |-> "COUNT"]
TRIM(r, iid) == [type |-> "TRIM", replica |-> r, iid |-> iid]

(* A file that is missing or was only opened for writing reads as 0 0. *)
NoState == [count |-> 0, iid |-> 0]

CounterInit ==
    /\ log = <<>> /\ submitted = {} /\ trimmed = 0
    /\ running = Replica /\ saving = {} /\ interrupted = {}
    /\ file = [r \in Replica |-> NoState]
    /\ next = [r \in Replica |-> 1]
    /\ counts = [r \in Replica |-> 0] /\ instance_id = [r \in Replica |-> 0]
    /\ instances = [r \in Replica |-> [q \in Replica |-> 0]]
    /\ last_trim = [r \in Replica |-> 0]

(* on_client_value, or a submitted TRIM, gets an instance; the broadcast may
   lose a value or order it twice. *)
Order ==
    /\ Len(log) < MaxLog
    /\ \E v \in submitted \cup {COUNT} : log' = Append(log, v)
    /\ UNCHANGED <<submitted, trimmed, running, saving, interrupted, file, next,
                   counts, instance_id, instances, last_trim>>

-------------------------------------------------------------------------------
update_state_forgets_iid(r, iid) ==
    /\ counts' = [counts EXCEPT ![r] = @ + 1]
    /\ UNCHANGED <<instance_id, instances, last_trim, trimmed>>

update_state(r, iid) ==
    /\ counts' = [counts EXCEPT ![r] = @ + 1]
    /\ instance_id' = [instance_id EXCEPT ![r] = iid]
    /\ UNCHANGED <<instances, last_trim, trimmed>>

(* evpaxos_replica_count: trim.count is the number of r's own peers, which relays
   make smaller than the number of replicas. *)
replica_count(r) == Cardinality(Peers[r])

(* The least report of the replicas 0 .. trim.count-1.  The minimum starts from
   the value that replica 0 had before the update. *)
trim_point_skips_last(r, q, iid) ==
    Min({instances[r][0]} \cup
        {IF i = q THEN iid ELSE instances[r][i] : i \in 0 .. replica_count(r)-2})

trim_point(r, q, iid) ==
    Min({instances[r][0]} \cup
        {IF i = q THEN iid ELSE instances[r][i] : i \in 0 .. replica_count(r)-1})

update_trim_info(r, q, iid) ==
    /\ UNCHANGED <<counts, instance_id>>
    /\ \/ iid <= instances[r][q] /\ UNCHANGED <<instances, last_trim, trimmed>>
       \/ /\ iid > instances[r][q]
          /\ instances' = [instances EXCEPT ![r][q] = iid]
          /\ LET min == trim_point(r, q, iid)
             IN  \/ min <= last_trim[r] /\ UNCHANGED <<last_trim, trimmed>>
                 \/ /\ min > last_trim[r]
                    /\ last_trim' = [last_trim EXCEPT ![r] = min]
                    /\ trimmed' = Max({trimmed, min})

(* on_deliver up to the fopen of checkpoint_state, which empties the file. *)
on_deliver(r) ==
    LET iid == next[r]
        v   == log[iid]
    IN  /\ r \in running \ saving /\ iid <= Len(log)
        /\ next' = [next EXCEPT ![r] = iid + 1]
        /\ IF v.type = "TRIM" THEN update_trim_info(r, v.replica, v.iid)
                              ELSE update_state(r, iid)
        /\ \/ /\ iid % Interval = 0
              /\ saving' = saving \cup {r}
              /\ file' = [file EXCEPT ![r] = NoState]
           \/ iid % Interval # 0 /\ UNCHANGED <<saving, file>>
        /\ UNCHANGED <<log, submitted, running, interrupted>>

(* The rest of on_deliver: fprintf, fclose and submit_trim. *)
checkpoint_state(r) ==
    /\ r \in running \cap saving
    /\ saving' = saving \ {r}
    /\ file' = [file EXCEPT ![r] = [count |-> counts[r], iid |-> instance_id[r]]]
    /\ submitted' = submitted \cup {TRIM(r, instance_id[r])}
    /\ UNCHANGED <<log, trimmed, running, interrupted, next, counts, instance_id,
                   instances, last_trim>>

(* handle_sigint, or the end of the process in any other way and at any time;
   what it had in memory is gone. *)
ProcessEnds(r) ==
    /\ r \in running
    /\ running' = running \ {r} /\ saving' = saving \ {r}
    /\ interrupted' = interrupted \cup (saving \cap {r})
    /\ next' = [next EXCEPT ![r] = 1]
    /\ counts' = [counts EXCEPT ![r] = 0]
    /\ instance_id' = [instance_id EXCEPT ![r] = 0]
    /\ instances' = [instances EXCEPT ![r] = [q \in Replica |-> 0]]
    /\ last_trim' = [last_trim EXCEPT ![r] = 0]
    /\ UNCHANGED <<log, submitted, trimmed, file>>

(* start_replica: init_state, evpaxos_replica_set_instance_id, empty trim_info. *)
resume_at_saved(r) == file[r].iid
resume_at(r) == file[r].iid + 1

start_replica(r) ==
    /\ r \notin running /\ running' = running \cup {r}
    /\ counts' = [counts EXCEPT ![r] = file[r].count]
    /\ instance_id' = [instance_id EXCEPT ![r] = file[r].iid]
    /\ next' = [next EXCEPT ![r] = resume_at(r)]
    /\ instances' = [instances EXCEPT ![r] = [q \in Replica |-> 0]]
    /\ last_trim' = [last_trim EXCEPT ![r] = 0]
    /\ UNCHANGED <<log, submitted, trimmed, saving, interrupted, file>>

CounterNext ==
    \/ Order
    \/ \E r \in Replica :
        on_deliver(r) \/ checkpoint_state(r) \/ ProcessEnds(r) \/ start_replica(r)

CounterSpec == CounterInit /\ [][CounterNext]_counterVars

-------------------------------------------------------------------------------
(* The counters hold numbers and the log the values that were submitted. *)
CounterTypeOK ==
    /\ log \in Seq({COUNT} \cup submitted) /\ saving \subseteq running
    /\ submitted \subseteq {TRIM(r, i) : r \in Replica, i \in 0 .. MaxLog}
    /\ trimmed \in 0 .. MaxLog /\ running \subseteq Replica
    /\ interrupted \subseteq Replica
    /\ file \in [Replica -> [count : 0 .. MaxLog, iid : 0 .. MaxLog]]
    /\ next \in [Replica -> 1 .. MaxLog + 1]
    /\ counts \in [Replica -> 0 .. MaxLog] /\ instance_id \in [Replica -> 0 .. MaxLog]
    /\ instances \in [Replica -> [Replica -> 0 .. MaxLog]]
    /\ last_trim \in [Replica -> 0 .. MaxLog]

(* Over any number of stops and starts a replica counts every COUNT once: it has
   counted those before the instance it delivers next, although a checkpoint
   taken at a TRIM carries the instance of an earlier COUNT. *)
CountExact ==
    \A r \in running :
        counts[r] = Cardinality({i \in 1 .. next[r] - 1 : log[i] = COUNT})

(* The replicas whose reports every counter takes into its minimum. *)
CountedByAll == {q \in Replica : \A r \in Replica : q < replica_count(r)}

(* A replica that stopped can go on from what it has saved, if all counters count
   it: the acceptors were never told to forget an instance it has yet to deliver.
   update_trim_info takes the minimum over reports that are old, repeated or lost
   by a restart, while other replicas end inside checkpoint_state and start from
   nothing.  Only a replica that itself ended there has no state to go on from. *)
StoppedCanResume ==
    \A r \in CountedByAll \ (running \cup interrupted) : trimmed <= file[r].iid
===============================================================================
