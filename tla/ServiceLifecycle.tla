--------------------------- MODULE ServiceLifecycle ---------------------------
(***************************************************************************)
(* How the service starts and stops: Service (service.cpp) and             *)
(* ServiceContext (svc/service_context.cpp).  One thread initialises the   *)
(* service, starts the forwarder and the collector and waits for both;     *)
(* another thread, of the service control manager (SCM) or of the console, *)
(* stops them.  They share _service_context, and through it _forwarder and *)
(* _collector, without a lock.                                             *)
(*                                                                         *)
(* As a service, the SCM delivers a stop once SERVICE_RUNNING has been     *)
(* reported, and one only: it refuses controls while a stop is pending.    *)
(* At a console each Ctrl+C runs the handler on a thread of its own, from  *)
(* the moment the handler is set.                                          *)
(*                                                                         *)
(* A null pointer that is used, or a vector that is appended to while      *)
(* another thread walks it, ends a behaviour with a fault.                 *)
(*                                                                         *)
(* Abstractions.  That a started collector ends once the queue is stopped  *)
(* is what EventCollector is about; here it is assumed.  A started         *)
(* forwarder may end then, and need not: in its state Sending it does not  *)
(* look at the stop (EventForwarder).  A wait with a timeout may end in    *)
(* either way.  The context is never deleted: release() leaks it.          *)
(***************************************************************************)
EXTENDS Naturals, Sequences

CONSTANTS
  Stoppers,     (* bound: stops requested                                   *)
  NumSubs       (* subscriptions configured                                 *)

ASSUME LifecycleAssumption == NumSubs \in Nat

VARIABLES
  interactive,   (* at a console, or as a service: the command line         *)
  mainPc,
  failed,        (* ServiceContext::start caught an exception               *)
  context,       (* _service_context is set                                 *)
  forwarder,     (* _forwarder: null, or a thread and how far it is         *)
  collector,     (* _collector, likewise                                    *)
  subs,          (* _subscriptions.size()                                   *)
  queueStopped,  (* the stop signal of the queue                            *)
  status,        (* the state reported last to the SCM                      *)
  stopPc,        (* per stop requested                                      *)
  fault

threads == <<forwarder, collector>>
vars == <<interactive, mainPc, failed, context, threads, subs, queueStopped, status, stopPc, fault>>

ThreadStates == {"null", "suspended", "running", "ended"}

FlagsOK ==
  /\ interactive \in BOOLEAN /\ failed \in BOOLEAN
  /\ context \in BOOLEAN /\ queueStopped \in BOOLEAN

TypeOK ==
  /\ FlagsOK
  /\ mainPc \in {"init", "reportRunning", "createForwarder", "startForwarder",
                 "createCollector", "addSubscription", "startCollector",
                 "waitCollector", "waitForwarder", "release", "reportStopped", "ended"}
  /\ forwarder \in ThreadStates /\ collector \in ThreadStates
  /\ subs \in 0 .. NumSubs
  /\ status \in {"START_PENDING", "RUNNING", "STOP_PENDING", "STOPPED"}
  /\ stopPc \in [Stoppers -> {"idle", "report", "check", "stopQueue", "stopForwarder",
                              "stopCollector", "cancel", "waitForwarder", "waitCollector", "done"}]
  /\ fault \in {"none", "null context", "null thread", "race"}

Init ==
  /\ interactive \in BOOLEAN
  /\ mainPc = "init" /\ failed = FALSE /\ context = FALSE
  /\ forwarder = "null" /\ collector = "null" /\ subs = 0
  /\ queueStopped = FALSE
  /\ status = "START_PENDING"
  /\ stopPc = [s \in Stoppers |-> "idle"]
  /\ fault = "none"

-----------------------------------------------------------------------------
(* ServiceMain, run_interactive and ServiceContext::start                  *)

(* Every step; a fault ends the behaviour. *)
GoesOn == fault = "none" /\ UNCHANGED interactive
MainGoes(from, to) == GoesOn /\ mainPc = from /\ mainPc' = to

InitService ==
  /\ MainGoes("init", IF interactive THEN "createForwarder" ELSE "reportRunning")
  /\ context' = TRUE
  /\ UNCHANGED <<failed, threads, subs, queueStopped, status, stopPc, fault>>

(* Nothing is reported to the SCM. *)
InitFails ==
  /\ MainGoes("init", "ended")
  /\ UNCHANGED <<failed, context, threads, subs, queueStopped, status, stopPc, fault>>

ReportRunning ==
  /\ MainGoes("reportRunning", "createForwarder")
  /\ status' = "RUNNING"
  /\ UNCHANGED <<failed, context, threads, subs, queueStopped, stopPc, fault>>

CreateForwarder ==
  /\ MainGoes("createForwarder", "startForwarder")
  /\ forwarder' = "suspended"
  /\ UNCHANGED <<failed, context, collector, subs, queueStopped, status, stopPc, fault>>

StartForwarder ==
  /\ MainGoes("startForwarder", "createCollector")
  /\ forwarder' = "running"
  /\ UNCHANGED <<failed, context, collector, subs, queueStopped, status, stopPc, fault>>

CreateCollector ==
  /\ MainGoes("createCollector", "addSubscription")
  /\ collector' = "suspended"
  /\ UNCHANGED <<failed, context, forwarder, subs, queueStopped, status, stopPc, fault>>

(* Mutant: the loop takes one turn too many. *)
OneMoreSubscription == subs <= NumSubs

MoreSubscriptions == subs < NumSubs

(* push_back, perhaps while a stop walks the vector. *)
CreateSubscription ==
  /\ GoesOn /\ mainPc = "addSubscription" /\ MoreSubscriptions
  /\ subs' = subs + 1
  /\ fault' = IF \E s \in Stoppers : stopPc[s] = "cancel" THEN "race" ELSE fault
  /\ UNCHANGED <<mainPc, failed, context, threads, queueStopped, status, stopPc>>

(* A duplicate, a missing formatter or an access denied: not added. *)
SubscriptionsAdded ==
  /\ MainGoes("addSubscription", "startCollector")
  /\ UNCHANGED <<failed, context, threads, subs, queueStopped, status, stopPc, fault>>

(* start() is called twice; the second call finds the thread running. *)
StartCollector ==
  /\ MainGoes("startCollector", "waitCollector")
  /\ collector' = "running"
  /\ UNCHANGED <<failed, context, forwarder, subs, queueStopped, status, stopPc, fault>>

(* Creating or starting a thread, or subscribing, throws. *)
StartFails ==
  /\ GoesOn
  /\ mainPc \in {"createForwarder", "startForwarder", "createCollector",
                 "addSubscription", "startCollector"}
  /\ mainPc' = "release" /\ failed' = TRUE
  /\ UNCHANGED <<context, threads, subs, queueStopped, status, stopPc, fault>>

WaitCollector ==
  /\ collector = "ended"
  /\ MainGoes("waitCollector", "waitForwarder")
  /\ UNCHANGED <<failed, context, threads, subs, queueStopped, status, stopPc, fault>>

(* Mutant: it is enough that the collector has ended. *)
ForwarderMayRun == TRUE

ForwarderAwaited == forwarder = "ended"

WaitForwarder ==
  /\ ForwarderAwaited
  /\ MainGoes("waitForwarder", "release")
  /\ UNCHANGED <<failed, context, threads, subs, queueStopped, status, stopPc, fault>>

Release ==
  /\ MainGoes("release", IF interactive THEN "ended" ELSE "reportStopped")
  /\ context' = FALSE
  /\ UNCHANGED <<failed, threads, subs, queueStopped, status, stopPc, fault>>

ReportStopped ==
  /\ MainGoes("reportStopped", "ended")
  /\ status' = "STOPPED"
  /\ UNCHANGED <<failed, context, threads, subs, queueStopped, stopPc, fault>>

Main ==
  \/ InitService \/ InitFails \/ ReportRunning
  \/ CreateForwarder \/ StartForwarder
  \/ CreateCollector \/ CreateSubscription \/ SubscriptionsAdded \/ StartCollector
  \/ StartFails
  \/ WaitCollector \/ WaitForwarder \/ Release \/ ReportStopped

-----------------------------------------------------------------------------
(* ServiceCtrlHandler, stop_interactive and ServiceContext::stop           *)

(* Mutant: the service is stopped, then the stop is reported as pending. *)
StopFirst == IF interactive THEN <<"check">> ELSE <<"check", "report">>

(* What a handler does, in order. *)
Handler == IF interactive THEN <<"check">> ELSE <<"report", "check">>

AfterStep(step) ==
  IF \E i \in 1 .. (Len(Handler) - 1) : Handler[i] = step THEN Handler[2] ELSE "done"

StopGoes(s, from, to) == GoesOn /\ stopPc[s] = from /\ stopPc' = [stopPc EXCEPT ![s] = to]

RequestStop(s) ==
  /\ interactive \/ (status = "RUNNING" /\ \A t \in Stoppers : stopPc[t] = "idle")
  /\ mainPc # "ended"
  /\ StopGoes(s, "idle", Handler[1])
  /\ UNCHANGED <<mainPc, failed, context, threads, subs, queueStopped, status, fault>>

ReportPending(s) ==
  /\ StopGoes(s, "report", AfterStep("report"))
  /\ status' = "STOP_PENDING"
  /\ UNCHANGED <<mainPc, failed, context, threads, subs, queueStopped, fault>>

(* if (_service_context) *)
CheckContext(s) ==
  /\ StopGoes(s, "check", IF context THEN "stopQueue" ELSE AfterStep("check"))
  /\ UNCHANGED <<mainPc, failed, context, threads, subs, queueStopped, status, fault>>

(* Mutant: the threads are asked to stop and the queue is not. *)
QueueRunsOn == UNCHANGED queueStopped

SignalStop == queueStopped' = TRUE

(* _service_context->stop() reads the pointer again. *)
StopQueue(s) ==
  /\ StopGoes(s, "stopQueue", "stopForwarder")
  /\ IF context THEN SignalStop /\ UNCHANGED fault
     ELSE fault' = "null context" /\ UNCHANGED queueStopped
  /\ UNCHANGED <<mainPc, failed, context, threads, subs, status>>

(* EventThread::stop sets the signal that is already set. *)
StopForwarder(s) ==
  /\ StopGoes(s, "stopForwarder", "stopCollector")
  /\ UNCHANGED <<mainPc, failed, context, threads, subs, queueStopped, status, fault>>

StopCollector(s) ==
  /\ StopGoes(s, "stopCollector", IF collector = "null" THEN "waitForwarder" ELSE "cancel")
  /\ UNCHANGED <<mainPc, failed, context, threads, subs, queueStopped, status, fault>>

(* The end of the loop that cancels the subscriptions. *)
CancelAll(s) ==
  /\ StopGoes(s, "cancel", "waitForwarder")
  /\ UNCHANGED <<mainPc, failed, context, threads, subs, queueStopped, status, fault>>

(* What thread->wait(5000) makes of a thread in state t: TRUE, FALSE. *)
Await(s, t, from, to) ==
  \/ /\ t = "null" /\ fault' = "null thread"
     /\ StopGoes(s, from, "done")
  \/ /\ t = "ended" /\ UNCHANGED fault
     /\ StopGoes(s, from, to)
  \/ /\ t \in {"suspended", "running"} /\ UNCHANGED fault
     /\ StopGoes(s, from, AfterStep("check"))

StopWaits(s) ==
  /\ \/ Await(s, forwarder, "waitForwarder", "waitCollector")
     \/ Await(s, collector, "waitCollector", AfterStep("check"))
  /\ UNCHANGED <<mainPc, failed, context, threads, subs, queueStopped, status>>

StopStep(s) ==
  \/ ReportPending(s) \/ CheckContext(s) \/ StopQueue(s)
  \/ StopForwarder(s) \/ StopCollector(s) \/ CancelAll(s) \/ StopWaits(s)

-----------------------------------------------------------------------------
(* The threads                                                             *)

ForwarderEnds ==
  /\ GoesOn /\ forwarder = "running" /\ queueStopped
  /\ forwarder' = "ended"
  /\ UNCHANGED <<mainPc, failed, context, collector, subs, queueStopped, status, stopPc, fault>>

CollectorEnds ==
  /\ GoesOn /\ collector = "running" /\ queueStopped
  /\ collector' = "ended"
  /\ UNCHANGED <<mainPc, failed, context, forwarder, subs, queueStopped, status, stopPc, fault>>

(* "Aborting event collector." *)
CollectorAborts ==
  /\ GoesOn /\ collector = "running"
  /\ collector' = "ended"
  /\ UNCHANGED <<mainPc, failed, context, forwarder, subs, queueStopped, status, stopPc, fault>>

Next ==
  \/ Main
  \/ \E s \in Stoppers : RequestStop(s) \/ StopStep(s)
  \/ ForwarderEnds \/ CollectorEnds \/ CollectorAborts

(* Every thread runs; nobody has to request a stop, and of the forwarder   *)
(* it is not assumed that it ends.                                         *)
Fairness ==
  /\ WF_vars(Main)
  /\ \A s \in Stoppers : WF_vars(StopStep(s))
  /\ WF_vars(CollectorEnds)

Spec == Init /\ [][Next]_vars
FairSpec == Spec /\ Fairness

-----------------------------------------------------------------------------
Ended == mainPc = "ended"
Requested(s) == stopPc[s] # "idle"

(* A service that reported to be running and has ended reported            *)
(* SERVICE_STOPPED last: a handler does not report a pending stop after    *)
(* it.  The exception is a start that throws once RUNNING was reported:    *)
(* the main thread then reports STOPPED without waiting for anything, and  *)
(* the handler of a stop requested in between may have the last word.      *)
StoppedIsReportedLast ==
  ~interactive /\ Ended /\ status # "START_PENDING" =>
    \/ status = "STOPPED"
    \/ failed /\ status = "STOP_PENDING" /\ \E s \in Stoppers : Requested(s)

(* Unless it failed to start, the service lets go of its context and       *)
(* reports that it stopped only after both of its threads have ended.      *)
NoThreadOutlivesTheService ==
  mainPc \in {"release", "reportStopped", "ended"} /\ ~failed /\ forwarder # "null" =>
    forwarder = "ended" /\ collector = "ended"

(* A stop that reached the service ends it, at whatever point of the start *)
(* it arrives, unless it faults or the forwarder, told to stop, runs on:   *)
(* also threads created after the queue was stopped are told.  The SCM's   *)
(* stop always reaches the service, a Ctrl+C does when it finds the        *)
(* context (_service_context->stop()).                                     *)
StopEndsService ==
  \A s \in Stoppers :
    stopPc[s] = "stopQueue" \/ (~interactive /\ Requested(s)) ~>
      Ended \/ fault # "none" \/ [](forwarder = "running" /\ queueStopped)

(* "if (_forwarder)", "if (_collector)": ServiceContext::stop uses only    *)
(* threads that were created.                                              *)
NoNullThreadIsUsed == fault # "null thread"
=============================================================================
