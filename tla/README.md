# WinLogForwarder: models, checks and proofs

WinLogForwarder is a Windows service that reads events from the Windows Event Log,
renders them as syslog messages (RFC 5424) and forwards them over TLS to a collector
host. This directory holds TLA+ models of its components, the TLC configurations that
check them on small instances, and theorems about them whose proofs TLAPS checks.

    tlc -config EventQueue.cfg MCEventQueue        model-check one run
    tlapm EventQueueProofs.tla                     check the proofs of a module

Paths below are relative to `src/src/` unless they start with `src/`.

1. [The system](#1-the-system)
2. [The modules and how they relate to the code](#2-the-modules-and-how-they-relate-to-the-code)
3. [The runs](#3-the-runs)
4. [The proofs](#4-the-proofs)
5. [What the runs found](#5-what-the-runs-found)
6. [Observed without a run](#6-observed-without-a-run)
7. [What is not modelled](#7-what-is-not-modelled)
8. [Plan](#8-plan)

## 1. The system

### Data flow

    Windows Event Log --signal--> EventSubscription --EvtNext--> EventBatch
                                        |  (collector thread: EventCollector::run)
                                        v
              EventProcessor: render, filter, RFC5424EventFormatter --> EventMessageBuilder
                                        |
                                        v  push (blocks when full)
                                   EventQueue  (ring buffer, mutex, two condition variables)
                                        |
                                        v  pop (blocks when empty)
              ForwardContext: length + fragments --> TlsSocket / TcpSocket --> collector host
                                           (forwarder thread: EventForwarder::run)

`Service` and `ServiceContext` create both threads, wait for them and stop them, from
threads of the service control manager (SCM) or of the console. `ServiceConfig` reads
the file that says which subscriptions and formatters there are.

### Components

| Component | State it keeps | Operations | What makes it hard | What makes it correct |
|---|---|---|---|---|
| `EventQueue` (`evt/event_queue.cpp`) | ring, head, tail, count, stop event, waiting threads | push, pop, stop | two condition variables with `notify_one`, overtaking, spurious wake-ups, stop against wait | FIFO without loss, no lost wake-up, stop releases everybody, null only after stop |
| `EventCollector`, `EventSubscription`, `EventBatch` | per subscription: signal, drained, cancelled; the batch; statistics | run, drain, fetch, wait, stop | the log service publishes and signals at any moment; failed fetches; a full queue in the middle of a batch; stop from another thread | every published event is fetched and counted once, in order; stop ends the thread |
| `EventForwarder`, `ForwardContext` | state of `run`, message being sent, block and offset, recorded network events | pop, connect, send, close | partial writes, retries, lost connections in the middle of a frame, congestion | whole frames, in order, nothing popped is lost before it was taken by a connection; everything is sent to a host that reads |
| `EventMessage`, `EventMessageBuilder` | fragments, the current one, one savepoint | write, write_chars, savepoint, commit, rollback | fragments that are emptied and used again, surrogate pairs at chunk ends, a shorter last fragment | a bounded text with rollback |
| `RFC5424EventFormatter` | none between calls | format | sections that are rolled back at any write, escaping, shortening | a receiver reads the event back |
| `EventProcessor`, `EventRenderer`, `RenderingBuffer` | two buffers kept from event to event, the account shared last | process, render_event | buffers that grow to a limit, partial results, memory of earlier events | the formatter sees this event's data and nothing else; an event loses only what is its own fault |
| `UserCache` | LRU list, map of list iterators | get_account_info | iterators across splice and pop_back, exceptions between the two structures | no dangling iterator, holds the most recent |
| `Service`, `ServiceContext` | context, threads, SCM status | ServiceMain, run_interactive, handlers, start, stop | handlers run at any moment on other threads, without locks | a stop ends the service as far as its threads look at it, STOPPED is reported last |
| `ServiceConfig`, `EventIDList` | limits, formatters, subscriptions, validity | load and its five sections, add_subscription | one buffer filled for all formatters, defects collected over entries, two notions of equal ids | good files are accepted, and of the others only those with a defect that is known to be overlooked; entries do not inherit from each other (but for max_syslog_sd_length) |
| `TlsSocket`, `TcpSocket`, `TlsContext`, `Timer` | descriptor, TLS session with the rest of a record, deadline | connect, handshake, send_data, close, shutdown | calls that wait and retry within time limits, that fail half-way, a session that must not outlive its connection | a session belongs to one connection; a silent peer cannot hold the thread; the end is announced |
| `Logger`, strings, tables of names, prototype classes, vendored parsers | - | - | - | see section 7 |

### Interactions

- The collector pushes and the forwarder pops `EventQueue`; both learn of a stop from it
  (a refused push, a null message, `wait_stop`, the handle of the stop event in a wait).
- The log service sets a subscription's signal *after* it published; the collector
  resets the signal *before* it fetches.
- `ServiceContext::stop` calls `EventQueue::stop`, waits for each thread, and cancels
  subscriptions, on a thread that shares `_service_context`, `_forwarder`, `_collector`
  and `_subscriptions` with the one that creates them.
- `EventForwarder::connect` takes a socket through connect, handshake and failure; every
  way out of it leads to `close`, which is what makes the next connect possible.
- The processor renders into buffers of the renderer; the `EventData` the formatter
  reads points into them and into an account that the cache may drop.
- The formatter writes into an `EventMessageBuilder` under savepoints; the forwarder
  reads the fragments of the message.

## 2. The modules and how they relate to the code

`PROJECT.json` maps every definition to its lines. Per module: its state, its actions,
and the abstraction made. A module `XProofs` extends `X` with its theorems (section 4);
`ServiceProofs` extends both modules of the service, `ServiceLifecycle` and `ServiceConfig`.

**`BoundedFifo`** is the abstract specification of the queue: a sequence of messages,
operations in progress, and `closed`. No mutex and no condition variables.

**`EventQueue`** has the ring (`buffer`, `head`, `tail`, `count`), the stop signal, both
wait sets and the calls in progress. What a thread does with the mutex held, up to a
return or a wait, is one step: `CallPush`, `PushWait`, `PushRefused`, `PushStore`, and
likewise for pop, `Stop`, `SpuriousWake`. `NotifyOne` removes *some* waiter, who then
competes with everybody else for the mutex. `Contents` is the refinement mapping to
`BoundedFifo`.

**`EventCollector`** has a program counter for the collector thread between any two
accesses to what it shares: the test of the signal, its reset, the fetch (which may
return a batch, end, be cancelled or fail), each event's processing, each push, the
wait. Beside it run the log service (`Publish`, then `SetSignal` as a step of its own),
the forwarder's `Pop`, and a stop whose steps (`Cancel`, `MarkCancelled` per
subscription, `StopQueue`) come between those of the collector. The queue is a
bounded FIFO (the contract `EventQueue` is shown to have). Events are numbered in the
order of the log, and their processing is a free choice among its three results.

**`TlsSocket`** has the call in progress (connect, handshake, shutdown: each a sequence of
steps with its poll and its time limit), the descriptor, the TLS session and the bytes of
a record that was not taken whole. Between any two steps the network acts: the peer
answers, closes, stops reading or reads on, and time passes. Configuring a connection may
fail in TLS or in another way (`ConfigureFails`, the rethrow that makes `connect` return an error). Mbed TLS is modelled by what
the socket sees of it (a session that is not freed stays as it was; a record that is kept
goes first). A connection takes any prefix of what it is offered, up to `MaxRecord`.

**`EventForwarder`** extends it with the state of `run`, the recorded network events as a
set of bits, and the progress of `ForwardContext` (message, block, bytes). Each state of
`run` that calls the socket conjoins one of its actions. The operands with which `run`
tests the network events are the constants `WriteMask` and `CloseMask`: see section 5.

**`LogForwarding`** is what the program is for, seen from outside: per log, events are
logged, dropped or accepted in order, and what is accepted is delivered in order.
**`Pipeline`** is the collector thread and the forwarder thread together. It instantiates
both modules over one queue and one stop signal: the collector's `Pop` *is* the
forwarder's `PopMessage`, and the forwarder's `Push` and `Stop` are not there at all, so
that `EachMeetsTheOther` has something to say. Events of all logs are numbered through as
the forwarder's messages `1 .. MaxMessages`. `PipelineProofs` uses the proof modules of both
parts as instances (`Collector!CollectorInv`, `Forwarder!ForwarderInv`). What the receiver reads is computed from
the bytes of the connections (`Received` of `EventForwarder`) and, log by log, mapped to
`LogForwarding`'s `delivered`.

**`Utf16`** holds code units, characters and their encoding in bytes, with
malformed surrogates; `Octets` are the bytes of well-formed characters. **`EventMessage`** has the fragments, the current one, the
savepoint, and a write in progress whose loop over chunks and fragments is a step per
turn; fragments hold `Octets`.
**`BoundedText`** is its abstract specification: a text that a write extends and a
rollback restores. `Encode` is the conversion of a whole text, so that the refinement
says that converting by chunks makes no difference.

**`RFC5424Formatter`** has the sections of `format` as lists of writes, each of which
may be the one that does not fit. It writes into the bounded text that `EventMessage`
implements. The loop over a value, which gathers escaped characters in a buffer and writes
it when it is full, is `Turn` per code unit, in a recursive function. **`SyslogReader`** is a receiver that reads a message by the grammar of
RFC 5424 (quoted by the formatter), without knowing how it was made; the properties
compare what it reads with the event.

**`UserCache`** has the list with its nodes' addresses, the map from SIDs to addresses,
and calls that hit, miss, or fail in one of the two allocations. A freed address may be
used again, so that a dangling iterator would lead to another account. `recency` is a
history: the SIDs in the order of their last answer.
**`EventProcessor`** extends it with the two buffers, the shared account and `EventData`,
which points into them. `process` is a step per part of the event (values, account, XML,
formatting), each with its ways to fail. The filter accepts everything and is left out.

**`ServiceLifecycle`** has the main thread (`ServiceMain` or `run_interactive`,
`init_service`, `ServiceContext::start`), any number of stops (SCM handler or Ctrl+C
handlers), the two threads, the status reported last, and a `fault` for what is
undefined in the code: a null pointer that is used, or a vector that is walked and
appended to at once. A fault ends the behaviour.

**`ServiceConfig`** has one step per section and entry of the file, with the one
`formatter_config` that is filled for all formatters (uninitialised at first: any value of
`Indeterminate`), and then a step per `add_subscription` of `ServiceContext::start`. A
parameter may be missing (`NULL`) or of the wrong type (`WRONG`); `LoadInt` makes both, and
negative numbers, "not given", as `load_int` does. A query that is not valid and a channel that is denied
are left out (`AddSubscription`), any other failure to subscribe ends the start with its subscriptions half added
(`StartAborts`). What a file should be is stated apart from the code's own checks:
`IsGoodBut({})` is a file without any defect, with enterprise ids as the comment at
`svc/service_config.cpp:52` has them, and `IsGoodBut(Overlooked)` forgives the three
kinds of defects that `load` does not notice.

How they compose: `Pipeline` joins `EventCollector` and `EventForwarder` (with `TlsSocket`)
over the bounded FIFO that `EventQueue` is shown to implement; `RFC5424Formatter` uses the
`BoundedText` that `EventMessage` is shown to implement; `EventProcessor` calls
`UserCache`; `ServiceLifecycle` uses that the collector ends after a stop, which
`EventCollector` (`StopEndsCollector`) is checked for. That the forwarder ends is not assumed there:
`StopEndsForwarder` has an exception, the state Sending, and so has `StopEndsService`.

## 3. The runs

Each run asks one component's question, its safety and its liveness together. Deadlock
is checked where the component cannot stop by itself (queue, message);
the others end, or may have nothing left to do, and their cfg says so.

| Run | What is shown | Bounds, and why they suffice |
|---|---|---|
| `queue` | the ring stays well formed, no wake-up is lost, null only after stop, and `BoundedFifo` is implemented, with its progress and its release of everybody after a stop | three producers and a consumer at two slots: two threads wait while a third overtakes; head and tail wrap; two messages tell order |
| `collector` | each fetched event is counted once and forwarded in order; a drained subscription with events has a signal; all is fetched; stop ends the thread | two subscriptions (one of which never has events and is cancelled like the other), two events, batches of two, queue of one, so that a push blocks in a batch; one failed fetch |
| `forwarder` | connections carry whole frames in order; what was popped is sent or held; nothing overtakes; no TLS session outlives its connection; all is sent to a host that reads; stop ends the thread unless it stays in Sending, and the end is announced | two messages of three blocks, one of them empty, over three connections, the first two of which may break anywhere; handshakes of two pieces; records of one byte, so that a block of two is taken in parts; one congestion; memory may run out. The masks are the repaired ones of line 200, not those of lines 213 and 215 (finding 1), and `CaInstalled` is TRUE |
| `forwarder_sends` | *violation*, finding 1 | one message and one connection, with the operands of the code |
| `pipeline` | the two threads implement `LogForwarding`; every event is delivered or dropped unless the service stops; each thread is the environment the other assumes | two events of one log: a batch of two does not fit into a queue of one, so that the collector blocks in `push` while the forwarder reconnects; two connections. The stop is the one step that stops the queue. As in `forwarder` the masks are repaired and `CaInstalled` is TRUE; the host always reads (`MaxCongestions` is 0) |
| `message` | fragments stay packed and are not overrun, `BoundedText` is implemented, writes end | three fragments, the last one shorter; chunks of two code units; texts with pairs across chunk ends and lone surrogates |
| `processor` | the formatter sees only this event; an event loses only what is too large or fails in it; the cache's map leads to the right nodes, and it holds the SIDs used last and drops none too early | events below, at and beyond both limits, so that each buffer grows twice and overflows; four SIDs in a cache of two (three entries) with addresses used again; one failed allocation. SIDs and addresses are symmetric (no liveness is checked) |
| `lifecycle` | STOPPED is reported last, but for a start that throws after RUNNING was reported; the context of a start that succeeded is let go after the threads; a stop that reached the service ends it, unless the forwarder runs on | both modes; two stops: two Ctrl+C handlers at once (the SCM sends one); two subscriptions |
| `lifecycle_threads` | *violation*, finding 2 | the same |
| `formatter` | the receiver reads the event back; an optional part of a message is left out only for want of room | five events and every capacity from 1 to 60, more than the longest message: every write is the one that fails in some behaviour |
| `formatter_rfc` | *violation*, finding 3 | the same |
| `config` | files without a defect are accepted, and of the others exactly those with nothing but overlooked defects; formatters are apart, max_syslog_sd_length excepted; every subscription that the log service accepts is there once, unless the start was aborted, which only a channel that cannot be subscribed to does | files with each defect of each section (missing, wrong type, negative, at and beyond both ends of the range, leading zeros), alone and together with defects of the formatters; subscriptions that are refused, that abort the start, and that would do both |

### Properties, by what they guard

- *No lost wake-up.* `NoLostWakeup` (queue): while somebody waits for room there are as
  many running producers as free slots, and likewise for pop; `notify_one` keeps this
  although the thread it wakes may be overtaken. `NoLostSignal` (collector): resetting the
  signal before the fetch, not after, is what makes it true.
- *Nothing lost, doubled or reordered.* `ImplementsFifo`, `Accounting`, `InOrder`,
  `StreamIsFrames`, `PoppedIsSentOrHeld`, `NothingOvertakes`, and from end to end
  `ImplementsLogForwarding` and `EventsAreDelivered`.
- *Nothing left over from before.* `SessionIsOwn` (TLS sessions and records),
  `FormattedIsOwn` and `LeftOutByItsOwnFault` (rendering buffers), `FormattersAreApart`.
- *Assumptions discharged.* `EachMeetsTheOther`: pushes and the stop are those the forwarder
  expects, and the collector's assumption that its queue is popped holds.
- *Stop ends everything.* `ImplementsFifoProgress`, `StopEndsCollector`, `StopEndsForwarder`,
  `EndIsAnnounced`, `StopEndsService`, `NoThreadOutlivesTheService`, `StoppedIsReportedLast`.
- *Two structures that must agree.* `RingShape`, `FragmentsPacked`, `NoDanglingIterator`.
- *Functional correctness against a reference.* `ImplementsBoundedText`,
  `ReceiverReadsEvent`, `LeftOutOnlyIfTooLong`, `HoldsMostRecent`,
  `LoadsExactlyGoodFiles`, `EachSubscriptionOnce`.

Every property of a passing run has a mutant of the code (an operator marked "Mutant" in
the module: a dropped guard, a missing reset, an off-by-one) under which TLC finds it
violated.

### Fairness

- *Queue*: each thread inside push or pop goes on (weak fairness per thread). Nobody has
  to call, and stop is not forced. Windows schedules runnable threads, and a mutex that
  is free infinitely often is acquired: every critical section here is finite.
- *Collector*: its thread, the forwarder's pop and a stop that began go on; the log
  service sets the signals it owes. No fairness for publishing, stopping or failures.
  The 5 s timeout of `wait_event` is part of the thread's steps: it can always end a wait.
- *Forwarder*: the thread runs and time passes (weak fairness): `poll` with a time limit
  returns. The collector host exists (strong fairness): of infinitely many attempts some
  connect and can be configured, of infinitely many awaited pieces of a handshake each is sent, and some
  handshakes succeed; from some moment on they are not broken off. That a peer which is sent to
  reads on is *not* part of it. It is `PeerReads`, the premise of `MessagesAreSent` alone: nothing
  in the code makes a host read, and a message cannot be sent to one that does not.
  Connections break at most `MaxConnections - 1` times, otherwise nothing need ever be
  sent. `StopEndsForwarder` needs of all this only that the thread runs and that time passes;
  its exception, a thread that stays in Sending for good, is what a host that never reads
  makes of it.
- *Pipeline*: that of the two modules, without the collector's assumption on `Pop`.
- *Message*: a write goes on.
- *Lifecycle*: every thread runs, stops are not forced, and a forwarder that was told to
  stop need not end.

## 4. The proofs

Theorems hold for every value of the constants that satisfies the assumptions named in
the modules; the runs evaluate these assumptions. Each proof module has an inductive
invariant, which was first checked by TLC; its properties follow from it.

| Module | Obligations | Inductive invariant | Assumptions |
|---|---|---|---|
| `EventQueueProofs` | 633 | `TypeOK`, `RingShape`, `WaitersAreInCall`, `NoLostWakeup` | capacity not 0 (constructor's check), messages not null (push's assertion), finitely many threads |
| `EventCollectorProofs` | 854 | `CollectorInv` | at most 15 subscriptions (the array of `wait_event`), sizes not 0 |
| `EventForwarderProofs` | 2206 | `ForwarderInv`; of the receiver, `EarlierFirst` | a frame has a length and at least one fragment, block ends do not decrease, the length is not empty |
| `PipelineProofs` | 485 | those of both parts, `AcceptedFit` and `LinkInv` | those of both parts; messages enough for all events |
| `EventMessageProofs` | 2759 | `BuilderInv` | sizes not 0, chunks of at least two code units, surrogates are no characters |
| `EventProcessorProofs` | 1004 | `ProcessorInv` | events have values and XML of some size; null is no event or SID |
| `ServiceProofs` | 1520 | `ThreadsInv`, `ReportsInv` of the lifecycle; `LoadInv`, `ActiveInv` of the configuration | none on threads: any set of stops; `FilesAssumption`: what types a parsed file's values have |
| `RFC5424FormatterProofs` | 5353 | `FormInv` | `FormatterAssumption`: what the formatter itself writes are characters of one code unit, limits are not 0, numbers have nothing to escape; `Utf16Assumption` |

### The queue

| Theorem | Statement |
|---|---|
| `TypeCorrect` | `Spec => []TypeOK`: the counter and both indexes stay in range |
| `RingIsWellFormed` | `Spec => []RingShape` |
| `WaitersCorrect` | `Spec => []WaitersAreInCall` |
| `StopFreezesRing` | `Spec => StopIsFinal` |
| `PopNeverInventsNull` | `Spec => NullMeansStopped` |
| `NotifyOneSuffices` | `Spec => []NoLostWakeup` |
| `Refinement` | `Spec => ImplementsFifo` |

`TypeOK` is inductive by itself. For `RingShape` the occupied slots are an
interval that may wrap once: `RingArithmetic` and `SpanIsInterval` turn `%` into linear
inequalities, after which each store and each take moves one end of it. `NoLostWakeup` is
inductive relative to both and to `WaitersAreInCall` (who waits is inside a call):
a store raises the count by one and takes one waiter, if there is one, out of the wait
set, so both sides of the inequality move together; the finite cardinalities are where
the assumption on the threads is used. `PopNeverInventsNull` needs `RingShape`: a null can
only come from a slot that is not occupied. For the refinement, `StoreAppends` and
`ClearTakesTail` say what a store at the tail and a take from the head do to `Contents`;
every step of `EventQueue` is then a step of `BoundedFifo` or, for waits, wake-ups and
notifications, a stutter.

### The collector

| Theorem | Statement |
|---|---|
| `CollectorTypes` | `Spec => []TypeOK` |
| `EventsAreCountedOnce` | `Spec => []Accounting` |
| `EventsStayInOrder` | `Spec => []InOrder` |
| `SignalsAreNotLost` | `Spec => []NoLostSignal` |
| `CollectorForwardsLogs` | `Spec => Promise!Spec`: with any consumer of its queue the collector implements `LogForwarding` |

`CollectorInv` adds to the properties what the program counter says of the batch
(`ControlOK`) and that an event in the queue or popped was taken from the log before
(`AcceptedIsTaken`). `NoLostSignal` is about the order reset, fetch, publish, signal: the
proof goes through each place at which `Publish` or `SetSignal` can come between two steps
of the collector. That an event is not forwarded twice is `InOrder`, strict on both the
queue and what was popped; a pop moves an event from one to the other (`PopMovesNothing`).

### The forwarder

| Theorem | Statement |
|---|---|
| `ForwarderTypes` | `Spec => []TypeOK` |
| `ConnectionsCarryFrames` | `Spec => []StreamIsFrames` |
| `PoppedMessagesAreKept` | `Spec => []PoppedIsSentOrHeld` |
| `MessagesStayInOrder` | `Spec => []NothingOvertakes` |
| `SessionsAreOwn` | `Spec => []SessionIsOwn` |
| `EndsAreAnnounced` | `Spec => EndIsAnnounced` |
| `OnlyPoppedIsSent` | `Spec => []SentIsPopped` |
| `EarlierMessagesFirst` | `Spec => []EarlierFirst`: before a byte of a message is read, every earlier one was read whole |
| `MessagesAreReadInOrder` | `Spec => []ReceivedInOrder`: the receiver has read the messages `1 .. d`, once each and in order |

None of the delivery properties is inductive: a step of sending keeps them only because
the last byte on the connection is the one before the context's position
(`PositionInv`), the record that Mbed TLS kept is what is offered next (`RecordInv`), the
held message is the one popped last (`HeldInv`), and a session exists only in the states
in which it is this connection's (`SessionInv`, `CallInv`). `PhaseInv` relates the three
phases of a frame to its blocks. The theorems hold whatever `WriteMask` and `CloseMask`
are: finding 1 loses no byte and disturbs no order, it only sends nothing.

The receiver reads one connection after the other, keeps what arrived whole and
disregards repetitions (`Received`, two nested recursive functions). What it has read is not a
property of a step, so the proof goes by induction over the data: `LeastNumber`, well-foundedness
of the finite sets of numbers, gives `IntervalInduction`, which has a set where the
library's theorems have an operator. With it `ReadingIsUnique` and `ReceivingIsUnique` show
that the recursions have one solution, and `WholeIsLastByte` that a frame of a
connection is whole exactly where its last byte is. A message may be on several
connections, cut short on some of them; `EarlierFirst` says that this puts nothing
before its time, so what is whole is an initial segment of the messages
(`WholeAreRead`, `ReadInOrder`). `OnlyHeldBecomesWhole` and `ReadsOneMore` say how a step changes it:
not at all, or by the message that the forwarder holds.

### The pipeline

| Theorem | Statement |
|---|---|
| `CollectorIsItself` | `Spec => Collector!Spec` |
| `ForwarderIsFed` | `Spec => Forwarder!Spec` |
| `CollectorHolds`, `ForwarderHolds` | the invariants of both parts in the composition |
| `LogsAreForwarded` | `Spec => Collector!Promise!Spec`: up to what the forwarder popped |
| `LogsKeepTheirOrder` | `Spec => []WireKeepsLogs`: on the wire a log's events are in order and complete |
| `NoSuccessIsLost` | `Spec => []SuccessesAreKept` |
| `PipelineForwardsLogs` | `Spec => ImplementsLogForwarding`: from the log to what the receiver has read |

This is assume-guarantee reasoning: each thread's module has an environment of its own
(`Pop` of anybody; `Push` and `Stop` of anybody), and every step of the composition is a
step of each module or leaves its variables alone. `ConstantsFit` shows that the
assumptions of both modules follow from `PipelineAssumption`; that an accepted event has a
number among the forwarder's messages is `AcceptedFit`. The order on the wire then follows from `InOrder`
on one side of the queue and `NothingOvertakes` on the other. `WireKeepsLogs` and
`SuccessesAreKept` were also checked by TLC, with two logs.

For the refinement, a step of the collector is the step of `LogForwarding` that it is for
`LogsAreForwarded` (`CollectorSteps`, `StepsKeepPromise`), and leaves alone what the
receiver read; the pop between the threads is a stutter. A step of the
forwarder makes at most the held message whole (`ReadsOneMore`), which is `Deliver` of the
log its event is of and nothing for the others, because what the receiver has read of a
log is an initial segment of what was accepted of it (`ReadThrough`, `LinkInv`).

### The message

| Theorem | Statement |
|---|---|
| `BuilderInvariant` | `Spec => []BuilderInv` |
| `FragmentsStayPacked` | `Spec => []FragmentsPacked` |
| `BuilderImplementsText` | `Spec => ImplementsBoundedText` |

`FragmentsPacked` is inductive with the types and "the savepoint is not behind the
current fragment, and its offset not beyond its text". That a new fragment has the right
capacity needs the length of the whole text (`TextIsTiled`): the fragments before the
current one have the full size and are full. For the refinement, `Copy` appends a piece of
what is pending, the last fragment full means the text is full (`OverflowIsFail`), and
`RollbackIsRollback` shows that emptied fragments leave the prefix that was there
at the savepoint. A conversion is a stutter because of `EncodeSplit`: a text may be encoded in
two parts where the cut is not between the halves of a pair, which `ChunkIsNoCut` shows of
`ChunkSize`.

`Text` and `Encode` are folds (`FlattenSeq`), so this needs induction. The library's
induction theorems have an operator as a parameter, which the provers do not
instantiate; `SetInduction` has a *set* in its place. It follows from `LeastNumber`, which
is well-foundedness of the finite sets of numbers (a theorem of the library without such
a parameter). `RecursionIsUnique` and `ConcatsExist` then show that the recursive function
inside `FlattenSeq` is the list of partial concatenations, from which `FlattenConcat` and
`JoinedGrows` follow.

### The processor and its cache

| Theorem | Statement |
|---|---|
| `ProcessorTypes` | `Spec => []TypeOK` |
| `IteratorsAreValid` | `Spec => []NoDanglingIterator` |
| `CacheIsMostRecent` | `Spec => []HoldsMostRecent`: the SIDs answered last, all of them up to `MaxCacheSize` |
| `FormatterReadsOwnData` | `Spec => []FormattedIsOwn` |
| `OthersCostNothing` | `Spec => []LeftOutByItsOwnFault` |

`MapInv` says that map and list describe the same entries (with their number, so that an
insertion cannot leave a stale one), `RecentInv` that the list is the beginning of the
history. After a failed allocation only `NoDanglingIterator` remains, and the program has
ended. `DataInv` follows an event through the parts of `process` and says at each of them
what the buffers hold, which is why a buffer left by an earlier event cannot be read.

### The service

| Theorem | Statement |
|---|---|
| `LifecycleTypes` | `Spec => []TypeOK` |
| `ThreadsEndFirst` | `Spec => []NoThreadOutlivesTheService` |
| `StoppedIsSaidLast` | `Spec => []StoppedIsReportedLast`: but for a start that throws after RUNNING and a stop that was requested |

The main thread's own order of waits carries `ThreadsInv`, without any lock.
`StoppedIsReportedLast` needs that the SCM sends one stop and that its
handler reports before it stops the queue: no report can then follow the one that the main
thread makes after both threads ended. When `start` throws, the main thread waits for nobody, and the
handler may be the last to report (section 6); the theorem says that this is the
only exception, and that the last word is then the stop's STOP_PENDING.

### The configuration

| Theorem | Statement |
|---|---|
| `LoadInvariant` | `LoadSpec => []LoadInv` |
| `AcceptsExactlyGoodFiles` | `LoadSpec => []LoadsExactlyGoodFiles`: every file without a defect, and of the others those whose defects are all of the three overlooked kinds |
| `FormattersKeepTheirOwn` | `LoadSpec => []FormattersAreApart`: every value but max_syslog_sd_length |
| `SubscriptionsAreServed` | `LoadSpec => []EachSubscriptionOnce`: also of a start that was aborted, with its reason |

`LoadInv` says, section by section and entry by entry, that `valid` and `ok` are true
exactly if what was read so far is good but for what is overlooked (`ValidInv`, `OkInv`; `CodeChecks`
compares the code's checks with the reference), and that what the good parts
left behind, in the one configuration that is filled for all formatters too, is what the
present entry set (`ConfigInv`, `FormattersInv`, `SubscriptionsInv`).

`ActiveInv` goes on from there through `ServiceContext::start`: what the collector has comes from
the ids visited so far, and each of these that can be served has itself or its double in
the collector; a start that was aborted met a channel of `Unknown` (`AbortedRightly`). That the visit of the map meets every id (`AllAreVisited`) is a
pigeonhole argument: the number of ids up to an id tells the ids apart, and there are as
many such numbers as ids.

### The formatter

| Theorem | Statement |
|---|---|
| `WhatIsWritten` | `Spec => []FormInv` |
| `ReceiverIsTold` | `Spec => []ReceiverReadsEvent`: for every event, size of messages and limit |
| `NothingElseIsLeftOut` | `Spec => []LeftOutOnlyIfTooLong`: of the optional parts of a message that is made |

`FormInv` says how far the message is written: the sections done are there whole or not
at all, and of the one that runs either its first writes, all of them (`Written`), or
what fitted until one failed (`Failed`). TLC checked it first. It is what makes the `break` of
`append_event_sd` right: names and values are well formed, so a parameter fails only
when the message is full, then the `]` that is written next does not fit
either, and the half element is always rolled back. `NothingElseIsLeftOut` follows with the lengths of the
sections, once it is known how a receiver tells the sections apart.

`ReceiverIsTold` says that reading is the inverse of writing, which has three parts.
- *Bytes to characters* (`BytesAndCharacters`, `JoinPaired`): where surrogates are paired,
  the bytes of a text and its characters determine each other, and such texts can be
  joined. A write that succeeds never ends within a pair.
- *Buffers to values* (`TurnKeeps`, `ValueIs`): the writes of a value put
  together are the shortened value with its escapes, wherever a full buffer was
  written; the invariant `GatherInv` goes along the recursive function.
- *The reader* (`ParamIsRead`, `ElementIsRead`, `HeaderIsRead`, `UserIsRead`): what it
  makes of each part as it is written, with anything that may follow. An escaped `]` or
  quotation mark ends nothing, wherever the buffer was written in between.

Texts put together from parts are folds here too. `Image` (a text made of
each member of a text) and `SeqInduction`, an induction over the prefixes of a sequence
with a set in place of an operator, carry properties from the parts to the whole.

### Model-checked only

- All liveness, and everything that needs ENABLED (progress of the FIFO, ends of
  threads, `WritesReturn`, `EventsAreDelivered`): TLAPS does not handle it.
- The liveness half of `EachMeetsTheOther` (its safety half is `ForwarderIsFed`).

## 5. What the runs found

1. **The forwarder tests network events by bit index** (`evt/event_forwarder.cpp:215`,
   run `forwarder_sends`). `FD_WRITE_BIT` and `FD_CLOSE_BIT` are the numbers 1 and 5, and
   not the masks `1 << 1` and `1 << 5`, so `&` with them tests for FD_READ, and for
   FD_READ or FD_OOB. A recorded FD_WRITE is never seen, nothing is sent, and state
   Sending is never left. The line that selects the events (200) uses the masks. The
   run `forwarder` uses those, and shows that the rest of the state machine is right. A stop does not
   help: Sending does not look at it (section 6), and `StopEndsForwarder` excepts a
   thread that stays there.
2. **A stop during start uses null threads** (`svc/service_context.cpp:98`, run
   `lifecycle_threads`). SERVICE_RUNNING is reported before the threads exist; `stop`
   tests them before it stops them, but not before it waits for them.
3. **No space after the header** (`evt/event_rfc5424_formatter.cpp:223`, run
   `formatter_rfc`). RFC 5424 (`src/rfc5424.txt:403`) has
   `HEADER SP STRUCTURED-DATA`. The reader of `SyslogReader` is lenient here, so that
   `ReceiverReadsEvent` is about the rest.

## 6. Observed without a run

Met while modelling; the models have the behaviour where it concerns their state.

- `UserCache` holds `_max_cache_size + 1` entries, as the size is tested before the entry
  is added (`utl/user_cache.cpp:104`), while `utl/user_cache.h:92` says "Maximum number of entries". The model has
  the extra entry; `HoldsMostRecent` claims no upper bound.
- A formatter's max_syslog_sd_length goes to the default (`svc/service_config.cpp:429`), and
  so to the formatters after it; the formatter itself has what the entry before it left,
  or an uninitialised value. `svc/service_config.h:38` says "Formatters can override this
  value". `LoadFormatter` does what the code does; `FormattersAreApart` excepts this value, so
  no property covers it.
- A length of a formatter that is negative, and any optional parameter of the wrong type, is taken as
  not given: the default is used and the file is accepted
  (`svc/service_config.cpp:90-93`, 402, 421). These are two of the kinds of defects of `Overlooked`.
- The comment at `svc/service_config.cpp:52` says that leading zeros of enterprise ids are caught, but the test
  compares with the character NUL. This is the third kind.
- A number outside of int makes cpptoml throw, and `init_service` refuses the file; such
  numbers are kept out of the model.
- A channel that does not exist, unlike one that is denied, is rethrown
  (`evt/event_collector.cpp:81-82`) and ends `ServiceContext::start`: one such channel keeps the service from
  running, with subscriptions that could be served (`StartAborts`).
- No CA certificate is ever installed: `TlsConfig` requires verification
  (`net/tlsconfig.cpp:53`), `set_ca_crt` is not called anywhere, and Mbed TLS refuses such a
  handshake (`src/lib/mbedtls/library/ssl_tls.c:10016`). The constant `CaInstalled` is this
  call; with FALSE no handshake succeeds, and the runs take TRUE.
- `Socket::connect` ignores its timer (`net/socket.cpp:32`, unlike `net/socket.h:124` says):
  the system's own timeout ends a connect. The handshake looks at its deadline only when
  `poll` found nothing ready (`net/tlssocket.cpp:65`, unlike `net/tlssocket.h:70` says): a
  peer that sends a little at a time is not timed out.
- `std::bad_alloc` leaves the forwarder thread (`evt/event_forwarder.cpp:128`), and an
  allocation that fails in the cache leaves a `noexcept` function
  (`evt/event_renderer.cpp:115`): both end the program.
- State Sending waits for the socket alone and never looks at the stop
  (`evt/event_forwarder.cpp:198-219`): with a peer that never reads, or with the code's own masks,
  `run` loops and a service that was told to stop does not end. `StopEndsForwarder` and
  `StopEndsService` except this.
- The inner loop of the collector (`evt/event_collector.cpp:99-113`) never tests for a stop. After an
  `EvtCancel` that failed its end rests on the log having no more events: in the model,
  where there are finitely many, `StopEndsCollector` holds; with a log that is written to faster
  than it is read, nothing says so.
- An event whose values do not fit is formatted without any data and sent
  (`evt/event_processor.cpp:32` treats only Failed as a failure). `SystemOverflows` does it.
- A Ctrl+C while the configuration is loaded finds no context and is lost
  (`service.cpp:205`); a second one after the service ended may use a null context.
- When `start` throws after RUNNING was reported, `ServiceMain` reports STOPPED without waiting for
  anybody (`service.cpp:251-253`), and the handler of a stop that was requested in
  between may report STOP_PENDING after it (`service.cpp:265`). The SCM then sees a service that never
  stops. `StoppedIsReportedLast` has this as its exception.
- The comment at `evt/event_rfc5424_formatter.cpp:317-320` says that a parameter that does not fit is not
  appended and that a byte is kept for the `]`. Nothing keeps that byte, so a parameter of
  the system that does not fit fails the whole message. `LeftOutOnlyIfTooLong` therefore
  speaks of the optional parts of messages that are made, and not of when none is made.
- When loading fails, `ServiceMain` returns without reporting SERVICE_STOPPED, and when
  `start` throws after the forwarder was started, nothing stops the forwarder.
- `EventCollector::start` is called twice (`svc/service_context.cpp:71-72`); the second call resumes
  a thread that runs and does nothing, so `StartCollector` is one step.
- `EventCollector::wait_event` writes one handle per subscription into an array of 16
  (`evt/event_collector.cpp:161`).
- With a provider and event ids, the query has an unbalanced quotation mark
  (`evt/event_idlist.cpp:57`) and is refused (`IsQueryValid`; `IsServed` speaks of the query that
  is written, not of the one that is meant); with a provider alone, the provider is ignored (`*`).
- `str2num` has no end pointer: the event id "abc" is 0. `count()` is wrong for ranges.
- The timestamp of a message is the time of formatting, not of the event
  (`evt/event_rfc5424_formatter.cpp:209`).
- 64-bit properties are read through a 32-bit member (`evt/event_variants.cpp:50`), and
  keywords (EvtVarTypeHexInt64) are not of the type that is asked for.

## 7. What is not modelled

- *Extraction of single properties* (`EventVariants`): a test of the type and a copy of one
  value each.
- *Sockets*: `read`, `write`, `bind` and `accept`, which the program does not call, and name
  resolution. Mbed TLS, pugixml and cpptoml, most of the lines of the repository, are
  third-party code and are modelled by what they return where they are used.
- *Logger*: writes lines under a mutex, and nothing depends on it.
- *Tables and conversions* (facilities, properties, GUID and time formats, options).
- *Event filter*: there is only the null filter; no code adds filters.
- *Earlier prototype* (`LogCollector`, `WindowsLogService`, `WlfConfig`): not reached
  from `main.cpp`.
- Failures of allocation outside `UserCache` and the TLS session, and of `SetEvent` and waits on valid handles.
- Bytes that a connection took and never delivered: syslog has no acknowledgement, and
  `SentWhole` means "taken by the connection".

## 8. Plan

Done, in this order, by importance for the system's promise (events get through, once
and in order, and the service can be stopped): `EventQueue` with its abstraction and
proofs, `EventCollector`, `EventForwarder`, `EventMessage` with its abstraction,
`UserCache`, `ServiceLifecycle`, `RFC5424Formatter` with a reader, `ServiceConfig`;
then `TlsSocket` under the forwarder, `EventProcessor` above the cache, and `Pipeline`
with `LogForwarding`.

Proved since: all safety invariants of the collector, the forwarder with its socket, the
processor with its cache, the message, the lifecycle and the configuration; the
refinements of the queue, of the message and of the whole pipeline down to the receiver
(`PipelineForwardsLogs`), the latter from the invariants of both threads.

The formatter came last: its loops became recursive functions, and with them both of
its invariants could be proved. Every safety invariant and safety action property that a
passing run checks has a theorem now. Then the properties were held against the comments of the source
once more: what the code does against a comment is an exception named in the property, or
not claimed, and section 6 says so. What remains is the liveness of section 3, and the code that section 7 lists, of
which the extraction of single properties (`EventVariants`) would be the next to model.
