# libpaxos3 with groups and relays: a TLA+ development

libpaxos is a Multi-Paxos library in C. Every *instance* decides one client
value; replicas deliver the decided values in the order of the instances. This
version adds groups: a *relay* hangs its group below a parent group and passes
requests down and answers up. The modules here model the protocol core
(`paxos/`), the event handlers, connections and messages around it (`evpaxos/`),
and two of the sample programs.

## Parts of the system

| part | source | modules | state |
|---|---|---|---|
| acceptor and its handlers | `paxos/acceptor.c`, `evpaxos/evacceptor.c` | `Acceptor` | modelled but for restarts |
| in-memory storage | `paxos/storage_mem.c`, `storage.c` | `Acceptor` | get, put, trim |
| hash table | `paxos/include/khash.h` | none | taken as a map |
| LMDB storage | `paxos/storage_lmdb.c`, `storage_utils.c` | none | does not build: line 264 uses a field that no longer exists |
| proposer and its handlers | `paxos/proposer.c`, `evpaxos/evproposer.c` | `Proposer` | modelled but for the timeouts, which are switched off |
| queue of client values | `paxos/carray.c` | `CArray`, `ValueQueue` | modelled |
| quorum | `paxos/quorum.c`, `paxos.c` | `PaxosMessages` | modelled as a set |
| learner and its handler | `paxos/learner.c`, `evpaxos/evlearner.c` | `Learner` | modelled but for the hole check, which is switched off |
| replica | `evpaxos/evreplica.c` | `ReplicaSystem`, `FairSystem`, `AtomicBroadcast`, `ReplicaThreads` | modelled but for the choice of a peer in submit |
| groups and relays | `evpaxos/peers.c`, `evacceptor.c` | `Topology` | run with one relay, proved about for every topology |
| connections | `evpaxos/peers.c` | `Connections`; `PaxosMessages` for the protocol | modelled |
| message coding | `evpaxos/message.c`, `paxos_types_pack.c` | `MessageStream` | modelled but for input that cannot be parsed |
| configuration files | `evpaxos/config.c` | none | read once; the result is the constants of `Topology` |
| counter | `sample/counter.c` | `Counter` | modelled |
| replicas in threads | `sample/replica2.c` | `ReplicaThreads` | modelled |
| client | `sample/client.c` | none | environment of the replicas |
| other samples | `sample/` | none | start one component and run the loop |

## Modules and code

### The protocol

`Topology` holds the tests on group and parent ids. `PaxosMessages` extends it
with messages, quorums and the network: two growing sets, `requests` and
`replies`. A message in a set may be received late, repeatedly, out of order or
never. The connections are TCP, but a reset drops pending output, announcements
go only to clients that are connected, a relay gives a request a second path,
and `evacceptor_fwd_*` sends answers again.

`Acceptor`, `Proposer` and `Learner` extend `PaxosMessages`. State is a function
over replicas, and each operator named after a handler is that handler with
everything it calls, e.g. `evproposer_handle_promise` includes `try_accept` and
the new PREPAREs. A handler runs to its end in the event loop, so it is one
step. Each module also has an environment, so that it can be checked alone.

`ReplicaSystem` extends all three. A message goes to acceptor, proposer and
learner in the order they subscribe, in one step. `evpaxos_replica_deliver`
tells the proposer what the learner delivered. `AtomicBroadcast` is the abstract
promise: values are broadcast, and every member delivers a prefix of one order.

`FairSystem` adds to `ReplicaSystem` which messages were received, and fairness.

Three timer handlers return before they send anything: `evproposer.c:210`,
`evlearner.c:73`, `evacceptor.c:274`. The modules therefore have no
retransmission, no repeat requests by learners and no acceptor state. The
handlers for REPEAT and for the acceptor state exist in the code, so they are
actions where a module is checked alone.

### What the protocol stands on

`CArray` is the circular array, `ValueQueue` the queue it promises. `Proposer`
uses a sequence in its place, which `SupportProofs` justifies.

`Connections` has the peers that connect to one replica, each with its
bufferevent, last event and reconnect timer, and at the replica the connections
waiting for `on_accept` and the table of clients. A connection breaks at any
time and each end learns of it separately; the replica stops and starts.

`MessageStream` is one connection at the level of MessagePack objects: the pack
functions, a wire that delivers any piece, `on_read`, which takes complete
messages from the buffer, and a new connection, which starts with empty buffers.
MessagePack itself is external, modelled from its use.

### Programs

`Counter` runs on what `AtomicBroadcast` promises, a sequence of values. Its
steps are a delivery, the two halves of `checkpoint_state` (the file is open;
the file is written and the TRIM submitted), the end of a process at any time,
between the two halves as well, and a start. `interrupted` is a history variable:
who ended between the halves. `replica_count` is what `evpaxos_replica_count`
returns, the number of a replica's own peers, and `trim_point` the minimum over
that many ids. `trimmed` is the largest instance that any acceptor was told to
forget. A replica that starts again can deliver every instance behind its
checkpoint. The code would need the hole check for that; the model allows more,
and only safety is claimed.

`ReplicaThreads` has the main thread of `replica2.c` and one thread per replica,
step by step through `evpaxos_replica_init`, the mutex and the frees. A use of
memory that may have been freed, or of a callback not yet assigned, ends the
process or goes unnoticed.

Operators such as `trimmed_off_by_one` next to `trimmed` are faulty variants.
No specification uses them; put in the place of the original, each makes a
property fail, which shows that the property depends on that line of code.

## Runs

| run | instance | shows |
|---|---|---|
| `acceptor_flat` | 2 acceptors, 1 instance, ballots to 2 | answers bind, votes are never below a promise, trimmed instances stay gone, a value stored at a ballot was announced at it |
| `proposer` | 1 proposer, 2 acceptors, 2 values, 2 instances, ballots to 4 | no client value lost or held twice; phase 2 follows the promises; one value per ballot |
| `learner` | 3 acceptors, 2 instances, 2 ballots, 2 values | delivery in order, only by a majority at one ballot; no quorum missed; hole test exact |
| `broadcast` | 2 replicas, 2 values, 2 instances, 1 proposer, trims | the replicas implement `AtomicBroadcast`, and every submitted value is delivered |
| `majority` | proposer, relay, one replica below it; 1 value, 1 instance, trims; everything sent to the last may be lost | with two of three as a quorum, what proposer and relay deliver was chosen, and they deliver every submitted value |
| `duel` | 2 replicas, 2 proposers, 1 instance, ballots to 3 | counted acceptors are still bound |
| `carray` | first size 2, up to 6 elements | a FIFO queue through wrap-around and growth |
| `connections` | 2 peers, 3 connections | ids are places, no client lost or doubled, everyone reconnects |
| `stream` | 3 messages of every type and shape, cut anywhere | received as sent, in order, none left in the buffer |
| `counter` | replica, relay, one replica below it; a checkpoint every 2 instances, 5 values | counts exact over restarts; trims never take what a counted replica still needs |
| `threads` | 3 replicas | no replica freed under the loop; the shutdown ends |
| `agreement` | as `duel`, with learners | **violated**, see below |

**Bounds.** `MaxBallot` allows a preemption and one retry in `proposer`. In
`duel` it allows each proposer its first ballot only: retries there take the
state space beyond a few minutes. `preexec_window` is 1; with 2 a third instance
would be opened and the bound on `Iid` would block the step. `MaxProposers`
stands for the 1000 of the code and is at least `N`, as the code needs for
distinct ballots. Three connections for two peers let an old connection linger at
the replica when its peer is back. In `counter` five
values leave room for two checkpoints of a replica, their reports and a trim; the
first and the last replica have two peers and the relay three, so that the last
one's reports are counted by the relay only. Safety is checked with every loss in
all system runs: `Unreliable` restricts only which messages must arrive in the end.

**Symmetry and views.** `learner` and `proposer` use symmetry on client values,
which are only compared for equality. The system runs use `MCview`, which hides
the acceptors noted in a record: nothing depends on them where half of a
replica's subordinates is 0 and nobody sends REPEAT. `Learner` assumes one value
per ballot and instance; `proposer` checks exactly that (`OneValuePerBallot`: no
ballot of another proposer, and one value at each of one's own), and
`ComponentsStayRight` proves it of the whole system.

**Fairness.** libevent calls a read callback as long as there is input, and every
timer and event that is due; the scheduler of the system runs every thread that
can run. Hence weak fairness, per replica, per connection or per thread:

- `FairSystem`: `Reads(r)` says that, unless again and again nothing is pending
  at `r` that must arrive, `r` handles a new message again and again. It is weak
  fairness of reading a pending message, written out over `received`, which TLC
  evaluates much faster than `ENABLED`. Messages in `Unreliable` may stay pending
  for ever. Nothing forces a client to submit.
- `Connections`: callbacks and timers run, and the replica is started again.
  `Settled`: faults stop at some time. Without it nobody stays connected.
- `ReplicaThreads`: the main thread and every replica thread run when they can.

**Deadlock** is checked in every run but `threads`, whose program ends.

## Where code and expectations differ

`agreement`: on a PREPARE with a larger ballot the acceptor sets
`acc.values = NULL` (`paxos/acceptor.c:132`) before it answers, while the unit test
`PrepareWithAcceptedValue` (`unit/acceptor_unittest.cc:190`) expects the promise to
report the accepted value. A second proposer can therefore replace a decided
value, and two replicas deliver different values for an instance. With one
proposer at work this cannot happen (`SoleProposerAgrees`).

Assumptions of other runs at which the code gives no guarantee:

- `EveryValueDelivered` needs a quorum whose messages arrive. With a PREPARE to a
  member of the only quorum in `Unreliable` it fails, as `evproposer.c:210` has
  the timeouts switched off. Likewise for a vote that a learner misses
  (`evlearner.c:73`).
- `StoppedCanResume` leaves out replicas that ended inside `checkpoint_state`: it
  empties the file before it writes it (`counter.c:97`), and a replica that starts
  from nothing needs instances that may be trimmed.
- It also leaves out replicas that some counter does not count. `update_trim_info`
  takes its minimum over the first `trim.count` ids (`counter.c:131`), the number of
  the replica's own peers (`counter.c:229`, `evreplica.c:313`). In `paxos.conf`, the
  default configuration of `counter`, replica 0 has 8 peers of 10 replicas, so its
  trims can pass what replicas 8 and 9 have saved; replicas 6 and 9 have 3 peers, so
  that only replicas 0, 1 and 2 are counted by all. Without relays all are
  (`FlatGroupIsCounted`).
- `peers_foreach_down_acceptor` (`peers.c:273`) uses the index into a relay's own
  peers as an index into the configuration, and so does `Down` in `Topology`. The
  two agree for a relay whose peers are the replicas 0 to k (`RelayReachesBelow`):
  in `majority`, and for relays 4 and 5 of `paxos.conf`. Relays 7 and 8 there have
  no connection to replica 6; by the same definitions they pass requests on to
  nobody, and replica 9 below them is never asked. Likewise relays 10 and 11 of
  `paxos15.conf` and replicas 12, 13 and 14. No property here is about such
  replicas: safety does not need them, and the others are more than a quorum.
- `ShutdownEnds` counts the end of the process as an end: replicas free the
  configuration they share (`evlearner.c:201`), and a delivery can come before the
  callback is assigned (`evreplica.c:204`, `205`).

## Proofs

All hold for every value of the constants: any number of replicas and groups, any
instances, ballots and values. They rest on the named ASSUMEs of the modules and,
where a theorem says so, on hypotheses of its own.

**`AcceptorProofs`**: `AcceptorTypeInvariant`; `AcceptorInvariant`
(`TrimmedStayGone`, `AnswersBind`, `StoredWasAnnounced`); `AcceptorVotes`, that
every step obeys `NoVoteBelowPromise`. `IInv` joins the types with the three
invariants, since the steps of those use the types, and the vote property uses
`AnswersBind`. The relation `Lawful` says what a step may do: ballots only grow
on instances that are not trimmed, a trimmed instance has no record, a value
enters the storage only together with its announcement, and a new answer is
backed by the record it leaves behind. Each handler is shown to be lawful and a
lawful step to preserve `IInv`, so the argument is made once for all handlers.
Its second part is for the composed system: what is stored or answered was asked
for in an ACCEPT (`Backed`), and where every request has one ballot, so have the
records and the answers.

**`LearnerProofs`**: `DeliversInOrder`, `DeliversDecided`, `NoticesQuorum`,
`NoticesHoles` and the types. None of the properties is inductive. `LearnerInv`
adds that every ack in the learner's table was announced to it, that a final value
has the announcements of a majority at one ballot behind it, and that the last
delivered instance is the one before `current_iid`. The second needs that a ballot
has one value per instance (`RepliesOK`), because the learner compares ballots
only; the environment of the module keeps to that, and `SystemProofs` shows it of
the acceptors. `TableOK` adds that an open instance has no quorum yet, and that
`highest_iid_closed` bounds the closed instances and beyond `current_iid` is one.

**`StructProofs`, `TryAcceptProofs`, `ProposerProofs`**: `ProposerTypeInvariant`,
`PhasesStayDisjoint`, `ValueHeldOnce`, `PhaseTwoFollows`, `BallotHasOneValue`. The
proof has three layers. `StructProofs` says what must hold of a `struct proposer`
and what each part of `try_accept` and of a trim does to it; `TryAcceptProofs`
puts `try_accept` together, with the requests it sends; `ProposerProofs` has the
handlers and all proposers. The inductive invariant `ProposersOK` says of each
proposer, besides types and disjoint phases, that

- the values submitted to it and not closed are each in exactly one place
  (`HoldsOnce`), a bijection in place of the cardinality in `ValueInOnePlace`;
- what a preparing instance knows is what the promises for its ballot say, so
  that it will propose the value of the largest ballot reported;
- an ACCEPT that was sent lies below what is being prepared, and agrees with what
  is being accepted at the same ballot, hence one value per ballot;
- whom it counts in the accept phase has accepted its ballot (`AcksOK`);
- if all its answers are at its first ballot, it never left that ballot, and a
  value it still pursues has been proposed in one instance only (`UnopposedOK`).

The invariant takes requests, answers and submitted values as parameters, so that
the same lemmas serve the proposers alone, where the environment may have given
any ACCEPTED (`Answered`), and the composed system.

**`SystemProofs`** composes the three. `SystemInv` puts their invariants side by
side and ties them together: `Backed`, every proposed value was submitted, and
the learners' announcements are the acceptors' answers. What the components
assumed of their environments is proved here: promises come from records, and a
ballot has one value, because requests do. From it follow `SystemTypeInvariant`,
`DeliversChosen`, `CountedAreBound` and `ComponentsStayRight`, all with any number
of proposers at work and with the handlers of relays.

**`BroadcastProofs`**: `FairRefinesSystem` carries the theorems on `SystemSpec`
over to `FairSpec`. `SoleProposerBroadcasts`: with one proposer at work (`Active = {p}`) and finitely
many values, `SystemSpec` implements `AtomicBroadcast`. The finiteness is only
that of the abstract module, which bounds a delivery by the number of values.
`SoleInv` adds that every request, record and answer is at the first ballot of
`p`, that the other proposers have nothing pending, and that a learner has
delivered all instances from the first up to `current_iid`. Then ACCEPT requests
for one value are for one instance (`SoleInstances`), so position k of every log
holds the value of instance k (`OneLog`). A vote that lets a learner deliver is a
step `Deliver`, every other step is `Submit` or leaves logs and values alone.
`SoleProposerAgrees` is `Agreement` under the same hypothesis, which cannot be
dropped: the run `agreement` refutes it for two proposers.

**`SupportProofs`**: `CArrayTypeInvariant`, and `CArrayIsQueue`, that the array
refines `ValueQueue`. The main lemmas say where the i-th element lies before and
after a push, a pop and a growth. `ConnTypeInvariant`, `ClientsKeepTheirPlace`,
`ClientsReachedOnce` and `PeersArePursued` are inductive together (`ConnInv`): the
removal of a client is right only if its id is its place. `RelayReachesBelow` and
`FlatGroupIsCounted` are about configurations, see above. `CounterCounts`, where `CountInv` adds that a file agrees
with the log and that between the instance in memory and the next one there are
only TRIMs. `CounterResumes`: `ResumeInv` bounds every report of a replica that
was not interrupted, submitted, ordered or noted, by what the replica has saved or
is about to save (`Durable`), which no step takes back; a minimum that counts the
replica is below its report. `LoopOutlivesReplicas` follows from
`MutexHeld`: the main thread holds the mutex of every thread it created until the
loop has ended. The types of all four modules are proved as well.

**Model-checked only.** Liveness under fairness is out of the prover's reach:
`EveryValueDelivered`, `EveryoneReconnects`, `ShutdownEnds`. `ReceivedAsSent` and
`NothingLeftUnread` are about `recv_all`, a recursive operator, and what it
computes needs induction over the buffer. For two and more proposers, that no value is delivered twice
is neither proved nor checked.

## Not modelled

- The LMDB backend and its helpers: they do not compile with the present
  messages. The memory backend forgets everything, so that a restart of an
  acceptor has nothing to recover and no document promises that it does.
- The bodies behind the early returns of the three timer handlers, and the
  timeout iterators of the proposer that only they call.
- Ballots at the end of 32 bits: four million preemptions of one instance.
- Two proposers that retry against each other while learners deliver, beyond what
  can be enumerated. A value that is proposed twice this way is not ruled out.
- Answers that replicas pass to themselves again and again (`acceptor.c:465`):
  the network is a set, in which a message sent again is the same message.
- Input that MessagePack cannot parse, command lines, logging, statistics and the
  printing of messages.
- The hash table `khash.h`, a container used as a map. The configuration reader,
  which turns text into two tables before anything runs.
- Trees of groups of several levels in a system run, and learners in them that
  are connected to fewer acceptors than a quorum.
- `sample/client.c`, which submits values and prints statistics, and `acceptor.c`,
  `learner.c`, `proposer.c`, `replica.c`, which start one component; and
  `evlearner_send_trim`, which nothing calls.
- Google Test (`unit/gtest/`), which makes up most lines of the repository, and
  the unit tests, which were read for what they expect.
