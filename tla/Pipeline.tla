------------------------------- MODULE Pipeline -------------------------------
(***************************************************************************)
(* The collector thread and the forwarder thread of one service, as        *)
(* ServiceContext::start connects them (svc/service_context.cpp): the      *)
(* collector pushes to the queue the forwarder pops from, and one stop     *)
(* signal ends both.                                                       *)
(*                                                                         *)
(* The two modules each model the other by one action.  Here these are the *)
(* real ones: the collector's Pop is the forwarder's PopMessage, and the   *)
(* forwarder's Push and Stop are what the collector and the stopping       *)
(* thread do to the queue.  Message m of the forwarder is the m-th event   *)
(* the queue accepted.                                                     *)
(*                                                                         *)
(* Bounds.  A handshake is one answer of the peer, the connection takes    *)
(* what it is given until it breaks, and memory is not exhausted: the      *)
(* other cases are EventForwarder's own.  Of ServiceContext::stop there is *)
(* the first step, which stops the queue; that subscriptions are cancelled *)
(* afterwards, which may fail, is EventCollector's.                        *)
(***************************************************************************)
EXTENDS Naturals, Sequences

CONSTANTS
  (* EventCollector *)
  NumSubs, MaxEvents, BatchSize, QueueSize, MaxFetchFailures,
  (* EventForwarder and TlsSocket *)
  MaxMessages, FrameEnds, WriteMask, CloseMask, NULL, MaxConnections, MaxRecord

(* What the two modules assume of their constants; the bound on messages   *)
(* leaves room for every event of every log.                               *)
ASSUME PipelineAssumption ==
  /\ NumSubs \in 1 .. 15 /\ MaxEvents \in [1 .. NumSubs -> Nat]
  /\ BatchSize \in Nat \ {0} /\ QueueSize \in Nat \ {0} /\ MaxFetchFailures \in Nat
  /\ MaxMessages \in Nat
  /\ \E m \in 0 .. MaxMessages :
       NumSubs * m <= MaxMessages /\ \A s \in 1 .. NumSubs : MaxEvents[s] <= m
  /\ FrameEnds \in Seq(Nat) /\ Len(FrameEnds) >= 2 /\ FrameEnds[1] > 0
  /\ \A i, j \in 1 .. Len(FrameEnds) : i <= j => FrameEnds[i] <= FrameEnds[j]
  /\ NULL \notin 1 .. MaxMessages
  /\ MaxConnections \in Nat \ {0} /\ MaxRecord \in Nat \ {0}

VARIABLES
  (* EventCollector *)
  published, unsignalled, evtCancelled, signal, fetched, drained, cancelled, stats,
  pc, sub, mustDrain, batch, fetchFailures, queue, queueStopped, forwarded,
  stopPc, stopSub,
  (* EventForwarder *)
  state, events, message, phase, block, sent, size,
  (* TlsSocket *)
  call, want, elapsed, connected, session, over, record, flights, arrived,
  opened, peerClosed, writable, congestions, stream, announced

(* Each with the theorems about it, which PipelineProofs carries over.     *)
Collector == INSTANCE EventCollectorProofs

Forwarder == INSTANCE EventForwarderProofs WITH
  pushed <- Len(forwarded) + Len(queue),
  popped <- Len(forwarded),
  stopSignal <- queueStopped,
  Flights <- 1,
  MaxCongestions <- 0,
  CaInstalled <- TRUE,
  OutOfMemory <- FALSE

(* What the forwarder thread and its connection have for themselves. *)
own ==
  <<state, events, message, phase, block, sent, size,
    call, want, elapsed, connected, session, over, record, flights, arrived,
    opened, peerClosed, writable, congestions, stream, announced>>

(* What the collector shares with it: the queue and the stop signal. *)
shared == <<queue, queueStopped, forwarded>>

vars == <<published, unsignalled, evtCancelled, signal, fetched, drained, cancelled,
          stats, pc, sub, mustDrain, batch, fetchFailures, stopPc, stopSub, shared, own>>

Init ==
  /\ Collector!Init
  /\ Forwarder!Init

-----------------------------------------------------------------------------
(* A step of the collector thread, of the log service or of the thread     *)
(* that stops the service.                                                 *)
CollectorSide(A) == A /\ UNCHANGED own

(* A step of the forwarder or of its network that leaves the queue alone.  *)
ForwarderSide(A) ==
  /\ UNCHANGED <<published, unsignalled, evtCancelled, signal, fetched, drained, cancelled,
                 stats, pc, sub, mustDrain, batch, fetchFailures, stopPc, stopSub, shared>>
  /\ A

(* pop_message() *)
PopMessage == Collector!Pop /\ Forwarder!PopMessage

Collect == CollectorSide(Collector!Run)

Forward == PopMessage \/ ForwarderSide(Forwarder!Run)

Environment ==
  \/ \E s \in Collector!Subs : CollectorSide(Collector!Publish(s) \/ Collector!SetSignal(s))
  \/ CollectorSide(Collector!BeginStop)
  \/ ForwarderSide(Forwarder!NetworkActs)

Next == Collect \/ Forward \/ Environment

(* The fairness of the two modules without that of the collector's Pop,    *)
(* which is now for the forwarder to live up to.                           *)
Fairness ==
  /\ WF_vars(Collect)
  /\ \A s \in Collector!Subs : WF_vars(CollectorSide(Collector!SetSignal(s)))
  /\ WF_vars(Forward)
  /\ SF_vars(ForwarderSide(Forwarder!Connecting /\ Forwarder!TcpConnects))
  /\ SF_vars(ForwarderSide(Forwarder!Connecting /\ Forwarder!Configure))
  /\ SF_vars(call = "poll_handshake"
               /\ ForwarderSide(Forwarder!NetworkActs /\ Forwarder!PeerAnswers))
  /\ SF_vars(ForwarderSide(Forwarder!ConnectOk))
  /\ <>[][state = "Connecting" => ~Forwarder!PeerCloses]_vars

Spec == Init /\ [][Next]_vars
FairSpec == Spec /\ Fairness

-----------------------------------------------------------------------------
(* The events the receiver reads: message m is the m-th one forwarded. *)
delivered ==
  LET ms == Forwarder!Received IN [i \in 1 .. Len(ms) |-> forwarded[ms[i]]]

(* The pipeline as LogForwarding sees it. *)
Abstract == INSTANCE LogForwarding WITH
  Logs <- Collector!Subs,
  logged <- published,
  taken <- [s \in Collector!Subs |-> fetched[s] - (IF s = sub THEN batch ELSE 0)],
  accepted <- forwarded \o queue,
  delivered <- delivered,
  stopped <- queueStopped

(* The pipeline does what the program is for: from the log to the wire no  *)
(* event that was not filtered is skipped, reordered or made up, across    *)
(* batches, the queue, partial writes and reconnections.                   *)
ImplementsLogForwarding == Abstract!Spec

(* And it gets there: every event that is logged is filtered, or fails to  *)
(* be formatted, or is delivered, unless the service stops.                *)
EventsAreDelivered == Abstract!Progress

(* Each side is what the other takes it for: to the forwarder the queue is *)
(* one that is pushed to in order and stopped once, and the collector,     *)
(* which may wait for room in a full queue, meets a forwarder that pops as *)
(* long as there are messages and no stop.                                 *)
EachMeetsTheOther ==
  /\ Forwarder!Spec
  /\ WF_(Collector!vars)(Collector!Pop)
=============================================================================
