--------------------------- MODULE EventCollector ----------------------------
(***************************************************************************)
(* The collector thread (evt/event_collector.cpp), its subscriptions       *)
(* (evt/event_subscription.cpp) and the batches they fetch                 *)
(* (evt/event_batch.cpp), with the threads it meets: the Windows Event Log *)
(* service that publishes events and sets the signals, the forwarder that  *)
(* pops the queue, and the thread that runs ServiceContext::stop.          *)
(*                                                                         *)
(* The queue is the bounded FIFO that EventQueue is shown to implement.    *)
(*                                                                         *)
(* Abstractions.  The events of a subscription are numbered in the order   *)
(* they are published; a batch is the number of its events not yet         *)
(* handled.  What the processor makes of an event (rendering, filter,      *)
(* formatter) is a free choice among its three results.  Waits on valid    *)
(* handles do not fail.  wait_event copies the handles into an array of    *)
(* 16; the model has fewer subscriptions than that.                        *)
(***************************************************************************)
EXTENDS Naturals, Sequences, FiniteSets

CONSTANTS
  NumSubs,          (* subscriptions the collector accepted                 *)
  MaxEvents,        (* bound: MaxEvents[s] events are published for s       *)
  BatchSize,        (* _batch_size (32 in the code)                         *)
  QueueSize,        (* capacity of the queue                                *)
  MaxFetchFailures  (* bound: EvtNext errors other than the expected two    *)

ASSUME CollectorAssumption ==
  /\ NumSubs \in 1 .. 15
  /\ MaxEvents \in [1 .. NumSubs -> Nat]
  /\ BatchSize \in Nat \ {0}
  /\ QueueSize \in Nat \ {0}
  /\ MaxFetchFailures \in Nat

Subs == 1 .. NumSubs

VARIABLES
  (* Windows Event Log service, per subscription *)
  published,      (* events published so far                                *)
  unsignalled,    (* TRUE between a publication and the signal it causes    *)
  evtCancelled,   (* EvtCancel was called on the handle                     *)
  (* EventSubscription, per subscription *)
  signal,         (* _signal, a manual-reset event                          *)
  fetched,        (* events handed out by EvtNext                           *)
  drained,        (* _drained                                               *)
  cancelled,      (* _cancelled                                             *)
  stats,          (* _stats: event_count, event_failed_count, ...           *)
  (* collector thread *)
  pc,
  sub,            (* position in the loop over _subscriptions               *)
  mustDrain,      (* must_drain                                             *)
  batch,          (* events of the current batch not yet consumed           *)
  fetchFailures,  (* EvtNext errors so far                                  *)
  (* queue and forwarder *)
  queue,          (* <<subscription, event>>, oldest first                  *)
  queueStopped,   (* the stop signal                                        *)
  forwarded,      (* everything popped so far                               *)
  (* thread that stops the collector *)
  stopPc,
  stopSub         (* position in the loop that cancels the subscriptions    *)

service == <<published, unsignalled>>
subscription == <<signal, fetched, drained, stats>>
collector == <<pc, sub, mustDrain, batch, fetchFailures>>
channel == <<queue, queueStopped, forwarded>>
stopper == <<evtCancelled, cancelled, stopPc, stopSub>>
vars == <<service, subscription, collector, channel, stopper>>

Outcomes == {"success", "filtered", "failed"}
Event == Subs \X Nat

ServiceOK ==
  /\ published \in [Subs -> Nat] /\ \A s \in Subs : published[s] <= MaxEvents[s]
  /\ unsignalled \in [Subs -> BOOLEAN]
SubscriptionOK ==
  /\ signal \in [Subs -> BOOLEAN]
  /\ fetched \in [Subs -> Nat] /\ \A s \in Subs : fetched[s] <= published[s]
  /\ drained \in [Subs -> BOOLEAN]
  /\ stats \in [Subs -> [Outcomes -> Nat]]
CollectorOK ==
  /\ pc \in {"loop", "pass", "signal", "reset", "fetch", "handle", "push", "wait", "done"}
  /\ sub \in 1 .. (NumSubs + 1)
  /\ mustDrain \in BOOLEAN
  /\ batch \in 0 .. BatchSize
  /\ fetchFailures \in 0 .. MaxFetchFailures
ChannelOK ==
  /\ queue \in Seq(Event) /\ Len(queue) <= QueueSize
  /\ queueStopped \in BOOLEAN
  /\ forwarded \in Seq(Event)
StopperOK ==
  /\ evtCancelled \in [Subs -> BOOLEAN]
  /\ cancelled \in [Subs -> BOOLEAN]
  /\ stopPc \in {"idle", "cancel", "mark", "done"}
  /\ stopSub \in 1 .. (NumSubs + 1)
TypeOK == ServiceOK /\ SubscriptionOK /\ CollectorOK /\ ChannelOK /\ StopperOK

Init ==
  /\ published = [s \in Subs |-> 0]
  /\ unsignalled = [s \in Subs |-> FALSE]
  /\ evtCancelled = [s \in Subs |-> FALSE]
  /\ signal = [s \in Subs |-> FALSE]
  /\ fetched = [s \in Subs |-> 0]
  /\ drained = [s \in Subs |-> FALSE]
  /\ cancelled = [s \in Subs |-> FALSE]
  /\ stats = [s \in Subs |-> [o \in Outcomes |-> 0]]
  /\ pc = "loop" /\ sub = 1 /\ mustDrain = FALSE /\ batch = 0
  /\ fetchFailures = 0
  /\ queue = <<>> /\ queueStopped = FALSE /\ forwarded = <<>>
  /\ stopPc = "idle" /\ stopSub = 1

-----------------------------------------------------------------------------
(* Windows Event Log service (external)                                    *)

(* An event that matches the query becomes available to EvtNext...         *)
Publish(s) ==
  /\ published[s] < MaxEvents[s]
  /\ published' = [published EXCEPT ![s] = @ + 1]
  /\ unsignalled' = [unsignalled EXCEPT ![s] = TRUE]
  /\ UNCHANGED <<subscription, collector, channel, stopper>>

(* ... and only then the service sets the event given to EvtSubscribe.     *)
SetSignal(s) ==
  /\ unsignalled[s]
  /\ unsignalled' = [unsignalled EXCEPT ![s] = FALSE]
  /\ signal' = [signal EXCEPT ![s] = TRUE]
  /\ UNCHANGED <<published, fetched, drained, stats, collector, channel, stopper>>

-----------------------------------------------------------------------------
(* EventCollector::run                                                     *)

Unchanged == UNCHANGED <<service, stopper>>

(* Mutant: run ends when every subscription is cancelled. *)
AllCancelled == \A s \in Subs : cancelled[s]

(* EventThread::interrupted. *)
Interrupted == queueStopped

(* while (!interrupted()): a new pass over the subscriptions, or the end.  *)
Loop ==
  /\ pc = "loop"
  /\ pc' = IF Interrupted THEN "done" ELSE "pass"
  /\ sub' = 1 /\ mustDrain' = FALSE
  /\ UNCHANGED <<batch, fetchFailures, subscription, channel>> /\ Unchanged

(* The for loop skips a cancelled subscription; drain starts with a look   *)
(* at _drained.                                                            *)
NextSubscription ==
  /\ pc = "pass" /\ sub \in Subs
  /\ \/ cancelled[sub] /\ pc' = "pass" /\ sub' = sub + 1
     \/ ~cancelled[sub] /\ pc' = (IF drained[sub] THEN "signal" ELSE "fetch") /\ sub' = sub
  /\ UNCHANGED <<mustDrain, batch, fetchFailures, subscription, channel>> /\ Unchanged

(* while (must_drain), then wait_event.                                     *)
EndPass ==
  /\ pc = "pass" /\ sub = NumSubs + 1
  /\ \/ mustDrain /\ pc' = "pass" /\ sub' = 1
     \/ ~mustDrain /\ pc' = "wait" /\ sub' = sub
  /\ mustDrain' = FALSE
  /\ UNCHANGED <<batch, fetchFailures, subscription, channel>> /\ Unchanged

(* WaitForMultipleObjects returns on a signal or after 5 s, and run does   *)
(* not ask which: the wait may end at any time and does end.               *)
WaitEvent ==
  /\ pc = "wait"
  /\ pc' = "loop"
  /\ UNCHANGED <<sub, mustDrain, batch, fetchFailures, subscription, channel>> /\ Unchanged

-----------------------------------------------------------------------------
(* EventSubscription::drain                                                *)

(* The result of drain sends the collector to the next subscription.       *)
DrainDone(continue) ==
  /\ pc' = "pass" /\ sub' = sub + 1
  /\ mustDrain' = (mustDrain \/ continue)

(* A drained subscription is left alone until its signal is set.           *)
TestSignal ==
  /\ pc = "signal"
  /\ IF signal[sub]
     THEN pc' = "reset" /\ UNCHANGED <<sub, mustDrain>>
     ELSE DrainDone(FALSE)
  /\ UNCHANGED <<batch, fetchFailures, subscription, channel>> /\ Unchanged

(* The signal is reset before the fetch.                                   *)
ResetSignal ==
  /\ pc = "reset"
  /\ signal' = [signal EXCEPT ![sub] = FALSE]
  /\ drained' = [drained EXCEPT ![sub] = FALSE]
  /\ pc' = "fetch"
  /\ UNCHANGED <<sub, mustDrain, batch, fetchFailures, fetched, stats, channel>>
  /\ Unchanged

(* Mutants: a subscription is taken for drained after any batch, or after  *)
(* a failed fetch.                                                         *)
BatchIsDrained(result) == result \in {"completed", "continue"}
FailedIsDrained(result) == result \in {"completed", "failed"}

(* Which results of a fetch mark the subscription as drained. *)
IsDrained(result) == result = "completed"

FetchDone(result) ==
  /\ drained' = [drained EXCEPT ![sub] = IsDrained(result)]
  /\ UNCHANGED <<signal, stats, channel>> /\ Unchanged

(* EvtNext returns some of the events available, at most BatchSize.        *)
FetchEvents ==
  /\ pc = "fetch" /\ ~evtCancelled[sub]
  /\ \E n \in 1 .. BatchSize :
       /\ fetched[sub] + n <= published[sub]
       /\ fetched' = [fetched EXCEPT ![sub] = @ + n]
       /\ batch' = n
  /\ pc' = "handle"
  /\ FetchDone("continue")
  /\ UNCHANGED <<sub, mustDrain, fetchFailures>>

(* ERROR_NO_MORE_ITEMS. *)
FetchCompleted ==
  /\ pc = "fetch" /\ ~evtCancelled[sub]
  /\ fetched[sub] = published[sub]
  /\ DrainDone(FALSE)
  /\ FetchDone("completed")
  /\ UNCHANGED <<fetched, batch, fetchFailures>>

(* ERROR_CANCELLED. *)
FetchCancelled ==
  /\ pc = "fetch" /\ evtCancelled[sub]
  /\ DrainDone(FALSE)
  /\ FetchDone("cancelled")
  /\ UNCHANGED <<fetched, batch, fetchFailures>>

(* Any other error; drain is not retried before the next wait.             *)
FetchFailed ==
  /\ pc = "fetch"
  /\ fetchFailures < MaxFetchFailures
  /\ fetchFailures' = fetchFailures + 1
  /\ DrainDone(FALSE)
  /\ FetchDone("failed")
  /\ UNCHANGED <<fetched, batch>>

(* Mutants. *)
HasNextOffByOne == batch >= 0
CurrentIsLast == <<sub, fetched[sub]>>

(* EventBatch::next. *)
HasNext == batch > 0

(* The event at the front of the batch leaves it; the statistics tell how. *)
Current == <<sub, fetched[sub] - batch + 1>>
Account(outcome) ==
  /\ stats' = [stats EXCEPT ![sub][outcome] = @ + 1]
  /\ batch' = batch - 1
  /\ UNCHANGED <<sub, mustDrain, fetchFailures, signal, fetched, drained>>

(* handle_event: the processor fails, filters or formats the event...      *)
Process ==
  /\ pc = "handle" /\ HasNext
  /\ \/ /\ pc' = "push"
        /\ UNCHANGED <<sub, mustDrain, batch, fetchFailures, subscription>>
     \/ pc' = pc /\ \E outcome \in {"filtered", "failed"} : Account(outcome)
  /\ UNCHANGED channel /\ Unchanged

(* Mutant: a refused push is taken for a success. *)
RefusedAsSuccess == "success"

(* The result of an event whose push the queue refused. *)
RefusedOutcome == "failed"

(* ... and a formatted one is pushed; push blocks on a full queue and      *)
(* fails on a stopped one.                                                 *)
Push ==
  /\ pc = "push"
  /\ \/ /\ ~queueStopped /\ Len(queue) < QueueSize
        /\ queue' = Append(queue, Current)
        /\ Account("success")
     \/ /\ queueStopped
        /\ Account(RefusedOutcome)
        /\ UNCHANGED queue
  /\ pc' = "handle"
  /\ UNCHANGED <<queueStopped, forwarded>> /\ Unchanged

EndBatch ==
  /\ pc = "handle" /\ ~HasNext
  /\ DrainDone(TRUE)
  /\ UNCHANGED <<batch, fetchFailures, subscription, channel>> /\ Unchanged

-----------------------------------------------------------------------------
(* The forwarder pops a message.                                           *)
Pop ==
  /\ ~queueStopped /\ queue # <<>>
  /\ forwarded' = Append(forwarded, Head(queue))
  /\ queue' = Tail(queue)
  /\ UNCHANGED <<queueStopped, service, subscription, collector, stopper>>

-----------------------------------------------------------------------------
(* The thread that stops the service                                       *)

(* ServiceContext::stop stops the queue, then calls EventCollector::stop.  *)
BeginStop ==
  /\ stopPc = "idle"
  /\ queueStopped' = TRUE
  /\ stopPc' = "cancel"
  /\ UNCHANGED <<queue, forwarded, evtCancelled, cancelled, stopSub, service, subscription, collector>>

(* EvtCancel on the next subscription; it may fail. *)
Cancel ==
  /\ stopPc = "cancel" /\ stopSub \in Subs
  /\ \/ evtCancelled' = [evtCancelled EXCEPT ![stopSub] = TRUE]
     \/ UNCHANGED evtCancelled
  /\ stopPc' = "mark"
  /\ UNCHANGED <<cancelled, stopSub, service, subscription, collector, channel>>

(* Its result is stored afterwards, without synchronisation with the       *)
(* collector.                                                              *)
MarkCancelled ==
  /\ stopPc = "mark"
  /\ cancelled' = [cancelled EXCEPT ![stopSub] = evtCancelled[stopSub]]
  /\ stopSub' = stopSub + 1
  /\ stopPc' = "cancel"
  /\ UNCHANGED <<evtCancelled, service, subscription, collector, channel>>

(* EventThread::stop. *)
StopQueue ==
  /\ stopPc = "cancel" /\ stopSub = NumSubs + 1
  /\ queueStopped' = TRUE
  /\ stopPc' = "done"
  /\ UNCHANGED <<queue, forwarded, evtCancelled, cancelled, stopSub, service, subscription, collector>>

-----------------------------------------------------------------------------
Drain ==
  \/ TestSignal \/ ResetSignal
  \/ FetchEvents \/ FetchCompleted \/ FetchCancelled \/ FetchFailed
  \/ Process \/ Push \/ EndBatch

Run == Loop \/ NextSubscription \/ EndPass \/ WaitEvent \/ Drain

StopThread == BeginStop \/ Cancel \/ MarkCancelled \/ StopQueue

Next ==
  \/ \E s \in Subs : Publish(s) \/ SetSignal(s)
  \/ Run
  \/ Pop
  \/ StopThread

(* The threads of the service run; the forwarder of this module is a live  *)
(* one.  The log service sets the signals it owes.  Nobody has to publish, *)
(* to stop, or to fail.                                                    *)
Fairness ==
  /\ WF_vars(Run)
  /\ WF_vars(Pop)
  /\ WF_vars(Cancel \/ MarkCancelled \/ StopQueue)
  /\ \A s \in Subs : WF_vars(SetSignal(s))

Spec == Init /\ [][Next]_vars
FairSpec == Spec /\ Fairness

-----------------------------------------------------------------------------
(* Safety                                                                  *)

(* The events the queue accepted so far, oldest first. *)
accepted == forwarded \o queue

(* Number of entries of a sequence of events that belong to s. *)
OfSub(seq, s) == Cardinality({i \in 1 .. Len(seq) : seq[i][1] = s})

(* Every event EvtNext handed out is counted once as forwarded, filtered   *)
(* or failed, or is still in the batch; none is counted twice.  An event   *)
(* counted as a success is in the queue or was popped, and no other is.    *)
Accounting ==
  \A s \in Subs :
    /\ stats[s]["success"] + stats[s]["filtered"] + stats[s]["failed"]
         + (IF s = sub THEN batch ELSE 0) = fetched[s]
    /\ stats[s]["success"] = OfSub(accepted, s)

(* The events of one subscription keep the order of the log on their way   *)
(* through batches, queue and forwarder, and none is forwarded twice.      *)
InOrder ==
  \A i, j \in 1 .. Len(accepted) :
    i < j /\ accepted[i][1] = accepted[j][1] => accepted[i][2] < accepted[j][2]

(* No wake-up is lost: a drained subscription that has events to fetch     *)
(* has its signal set or about to be set.  (The 5 s timeout would not      *)
(* rescue it: drain does not fetch without the signal.)                    *)
NoLostSignal ==
  \A s \in Subs :
    drained[s] /\ fetched[s] < published[s] => signal[s] \/ unsignalled[s]

-----------------------------------------------------------------------------
(* Liveness                                                                *)

(* Every published event is fetched unless the service stops.              *)
EventsAreFetched ==
  \A s \in Subs : \A n \in 1 .. MaxEvents[s] :
    (published[s] >= n) ~> (fetched[s] >= n \/ queueStopped)

(* The collector ends after stop, even if it is blocked on a full queue,   *)
(* waits for signals, or is in the middle of a batch, and even if          *)
(* EvtCancel fails: run then drains what is left before it looks at the    *)
(* stop again, so that this case rests on the number of events being       *)
(* finite (MaxEvents).                                                     *)
StopEndsCollector == queueStopped ~> pc = "done"

=============================================================================
