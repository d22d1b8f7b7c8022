---------------------------- MODULE ServiceProofs -----------------------------
(***************************************************************************)
(* What holds of the service: how it loads its configuration, for every    *)
(* configuration file, however many formatters and subscriptions it has,   *)
(* and for all limits (ServiceConfig); and how it starts and stops, for    *)
(* every number of subscriptions and any set of requests to stop: a        *)
(* control of the SCM, or handlers of Ctrl+C that run at the same time     *)
(* (ServiceLifecycle).                                                     *)
(***************************************************************************)
EXTENDS ServiceConfig, ServiceLifecycle, FiniteSetTheorems, TLAPS

-----------------------------------------------------------------------------
(***************************************************************************)
(* The service starts and stops                                            *)
(***************************************************************************)

(***************************************************************************)
(* A handler reports first that the service stops, and then stops it.      *)
(***************************************************************************)
LEMMA HandlerOrder ==
  /\ Handler[1] \in {"report", "check"}
  /\ interactive => Handler[1] = "check"
  /\ AfterStep("report") \in {"check", "done"}
  /\ AfterStep("check") = "done"
<1>1. CASE interactive
  <2>1. Handler = <<"check">>
    BY <1>1 DEF Handler
  <2>2. AfterStep("report") = "done" /\ AfterStep("check") = "done"
    BY <2>1 DEF AfterStep
  <2>3. QED
    BY <2>1, <2>2
<1>2. CASE ~interactive
  <2>1. Handler = <<"report", "check">>
    BY <1>2 DEF Handler
  <2>2. AfterStep("report") \in {"check", "done"} /\ AfterStep("check") = "done"
    BY <2>1 DEF AfterStep
  <2>3. QED
    BY <1>2, <2>1, <2>2
<1>3. QED
  BY <1>1, <1>2

(***************************************************************************)
(* What an action of the main thread, of a handler or of one of the two    *)
(* threads may change.                                                     *)
(***************************************************************************)
StopPcs == {"idle", "report", "check", "stopQueue", "stopForwarder", "stopCollector",
            "cancel", "waitForwarder", "waitCollector", "done"}

(* A handler goes on: it does not start, and does not report a second time. *)
HandlerGoes(s) ==
  \E to \in StopPcs \ {"idle", "report"} :
    stopPc[s] # "idle" /\ stopPc' = [stopPc EXCEPT ![s] = to]

LEMMA HandlerSteps ==
  ASSUME NEW s, StopStep(s)
  PROVE  /\ HandlerGoes(s)
         /\ UNCHANGED <<interactive, mainPc, failed, context, threads, subs>>
         /\ status' = status \/ (stopPc[s] = "report" /\ status' = "STOP_PENDING")
         /\ queueStopped' = queueStopped \/ (stopPc[s] = "stopQueue" /\ queueStopped' \in BOOLEAN)
         /\ fault' \in {fault, "null context", "null thread"}
<1> USE HandlerOrder DEF StopGoes, GoesOn, HandlerGoes, StopPcs
<1>1. CASE ReportPending(s)
  BY <1>1 DEF ReportPending
<1>2. CASE CheckContext(s)
  BY <1>2 DEF CheckContext
<1>3. CASE StopQueue(s)
  BY <1>3 DEF StopQueue, SignalStop
<1>4. CASE StopForwarder(s) \/ StopCollector(s) \/ CancelAll(s)
  BY <1>4 DEF StopForwarder, StopCollector, CancelAll
<1>5. CASE StopWaits(s)
  BY <1>5 DEF StopWaits, Await
<1>6. QED
  BY <1>1, <1>2, <1>3, <1>4, <1>5 DEF StopStep

LEMMA MainSteps ==
  ASSUME Main
  PROVE  /\ UNCHANGED <<interactive, stopPc, queueStopped>>
         /\ mainPc # "ended"
BY DEF Main, InitService, InitFails, ReportRunning, CreateForwarder, StartForwarder,
       CreateCollector, CreateSubscription, SubscriptionsAdded, StartCollector, StartFails,
       WaitCollector, WaitForwarder, Release, ReportStopped, MainGoes, GoesOn

-----------------------------------------------------------------------------
(***************************************************************************)
(* The flags stay Booleans.                                                *)
(***************************************************************************)
LEMMA StepsKeepFlags ==
  ASSUME FlagsOK, [Next]_vars
  PROVE  FlagsOK'
<1> USE DEF FlagsOK, MainGoes, GoesOn, threads
<1>1. CASE InitService \/ InitFails \/ ReportRunning
  BY <1>1, Zenon DEF InitService, InitFails, ReportRunning
<1>2. CASE CreateForwarder \/ StartForwarder \/ CreateCollector \/ StartCollector
  BY <1>2, Zenon DEF CreateForwarder, StartForwarder, CreateCollector, StartCollector
<1>3. CASE CreateSubscription \/ SubscriptionsAdded
  BY <1>3, Zenon DEF CreateSubscription, SubscriptionsAdded
<1>4. CASE StartFails
  BY <1>4, Zenon DEF StartFails
<1>5. CASE WaitCollector \/ WaitForwarder \/ Release \/ ReportStopped
  BY <1>5, Zenon DEF WaitCollector, WaitForwarder, Release, ReportStopped
<1>6. ASSUME NEW s \in Stoppers, RequestStop(s)
      PROVE  FlagsOK'
  BY <1>6, Zenon DEF RequestStop, StopGoes
<1>7. ASSUME NEW s \in Stoppers, StopStep(s)
      PROVE  FlagsOK'
  <2>1. queueStopped' \in BOOLEAN
    BY <1>7, HandlerSteps, Zenon
  <2>2. UNCHANGED <<interactive, mainPc, failed, context, threads, subs>>
    BY <1>7, HandlerSteps, Zenon
  <2>3. QED
    BY <2>1, <2>2, Zenon
<1>8. CASE ForwarderEnds \/ CollectorEnds \/ CollectorAborts
  BY <1>8, Zenon DEF ForwarderEnds, CollectorEnds, CollectorAborts
<1>9. CASE UNCHANGED vars
  BY <1>9, Zenon DEF vars
<1>10. QED
  BY <1>1, <1>2, <1>3, <1>4, <1>5, <1>6, <1>7, <1>8, <1>9 DEF Next, Main

(***************************************************************************)
(* Every state is well typed: there are no more subscriptions than were    *)
(* configured.                                                             *)
(***************************************************************************)
THEOREM LifecycleTypes == Spec => []TypeOK
<1>1. Init => TypeOK
  <2> SUFFICES ASSUME Init PROVE TypeOK
    OBVIOUS
  <2>1. FlagsOK
    BY Zenon DEF Init, FlagsOK
  <2>2. mainPc = "init" /\ forwarder = "null" /\ collector = "null" /\ subs = 0
    BY Zenon DEF Init
  <2>3. status = "START_PENDING" /\ stopPc = [s \in Stoppers |-> "idle"] /\ fault = "none"
    BY Zenon DEF Init
  <2>4. QED
    BY <2>1, <2>2, <2>3, LifecycleAssumption DEF TypeOK, ThreadStates
<1>2. TypeOK /\ [Next]_vars => TypeOK'
  <2> SUFFICES ASSUME TypeOK, [Next]_vars PROVE TypeOK'
    OBVIOUS
  <2>1. FlagsOK'
    BY StepsKeepFlags DEF TypeOK
  <2> USE <2>1, LifecycleAssumption DEF TypeOK, ThreadStates, threads, MainGoes, GoesOn
  <2>2. CASE InitService \/ InitFails \/ ReportRunning
    <3>1. /\ mainPc' \in {"ended", "createForwarder", "reportRunning"}
          /\ status' \in {status, "RUNNING"}
          /\ UNCHANGED <<threads, subs, stopPc, fault>>
      BY <2>2, Zenon DEF InitService, InitFails, ReportRunning
    <3>2. QED
      BY <3>1
  <2>3. CASE CreateForwarder \/ StartForwarder \/ CreateCollector \/ StartCollector
    <3>1. /\ mainPc' \in {"startForwarder", "createCollector", "addSubscription", "waitCollector"}
          /\ forwarder' \in {forwarder, "suspended", "running"}
          /\ collector' \in {collector, "suspended", "running"}
          /\ UNCHANGED <<subs, status, stopPc, fault>>
      BY <2>3, Zenon DEF CreateForwarder, StartForwarder, CreateCollector, StartCollector
    <3>2. QED
      BY <3>1
  <2>4. CASE CreateSubscription \/ SubscriptionsAdded
    <3>1. subs' \in 0 .. NumSubs
      <4>1. CASE CreateSubscription
        BY <4>1 DEF CreateSubscription, MoreSubscriptions
      <4>2. CASE SubscriptionsAdded
        BY <4>2 DEF SubscriptionsAdded
      <4>3. QED
        BY <2>4, <4>1, <4>2
    <3>2. fault' \in {fault, "race"}
      BY <2>4 DEF CreateSubscription, SubscriptionsAdded
    <3>3. mainPc' \in {mainPc, "startCollector"} /\ UNCHANGED <<threads, status, stopPc>>
      BY <2>4, Zenon DEF CreateSubscription, SubscriptionsAdded
    <3>4. fault' \in {"none", "null context", "null thread", "race"}
      BY <3>2
    <3>5. QED
      BY <3>1, <3>3, <3>4
  <2>5. CASE StartFails
    <3>1. mainPc' = "release" /\ UNCHANGED <<threads, subs, status, stopPc, fault>>
      BY <2>5, Zenon DEF StartFails
    <3>2. QED
      BY <3>1
  <2>6. CASE WaitCollector \/ WaitForwarder \/ Release \/ ReportStopped
    <3>1. /\ mainPc' \in {"waitForwarder", "release", "ended", "reportStopped"}
          /\ status' \in {status, "STOPPED"}
          /\ UNCHANGED <<threads, subs, stopPc, fault>>
      BY <2>6, Zenon DEF WaitCollector, WaitForwarder, Release, ReportStopped
    <3>2. QED
      BY <3>1
  <2>7. ASSUME NEW s \in Stoppers, RequestStop(s)
        PROVE  TypeOK'
    BY <2>7, HandlerOrder DEF RequestStop, StopGoes
  <2>8. ASSUME NEW s \in Stoppers, StopStep(s)
        PROVE  TypeOK'
    <3>1. stopPc' \in [Stoppers -> StopPcs]
      BY <2>8, HandlerSteps DEF HandlerGoes, StopPcs
    <3>2. status' \in {"START_PENDING", "RUNNING", "STOP_PENDING", "STOPPED"}
      BY <2>8, HandlerSteps
    <3>3. fault' \in {"none", "null context", "null thread", "race"}
      BY <2>8, HandlerSteps
    <3>4. UNCHANGED <<mainPc, threads, subs>>
      BY <2>8, HandlerSteps
    <3>5. QED
      BY <3>1, <3>2, <3>3, <3>4 DEF StopPcs
  <2>9. CASE ForwarderEnds \/ CollectorEnds \/ CollectorAborts
    BY <2>9 DEF ForwarderEnds, CollectorEnds, CollectorAborts
  <2>10. CASE UNCHANGED vars
    <3>1. UNCHANGED <<mainPc, threads, subs, status, stopPc, fault>>
      BY <2>10, Zenon DEF vars
    <3>2. QED
      BY <3>1
  <2>11. QED
    BY <2>2, <2>3, <2>4, <2>5, <2>6, <2>7, <2>8, <2>9, <2>10 DEF Next, Main
<1>3. QED
  BY <1>1, <1>2, PTL DEF Spec

-----------------------------------------------------------------------------
(***************************************************************************)
(* The threads and the main thread: the forwarder ends only when the queue *)
(* is stopped, and the main thread passes each of its two waits only when  *)
(* the thread it waits for has ended.                                      *)
(***************************************************************************)
BeforeForwarder == {"init", "reportRunning", "createForwarder"}
AfterWaits == {"release", "reportStopped", "ended"}

ThreadsInv ==
  /\ forwarder = "ended" => queueStopped
  /\ mainPc \in BeforeForwarder => forwarder = "null"
  /\ mainPc \notin BeforeForwarder \union {"ended"} /\ ~failed => forwarder # "null"
  /\ mainPc = "waitForwarder" => collector = "ended"
  /\ NoThreadOutlivesTheService

(***************************************************************************)
(* The thread that waits and the one that stops need no lock between them  *)
(* for this: unless it failed to start, the service goes on to its end     *)
(* only after both of its threads have ended.                              *)
(***************************************************************************)
LEMMA ThreadsInvariant == Spec => []ThreadsInv
<1> USE DEF ThreadsInv, NoThreadOutlivesTheService, BeforeForwarder
<1>1. Init => ThreadsInv
  BY DEF Init
<1>2. TypeOK /\ ThreadsInv /\ [Next]_vars => ThreadsInv'
  <2> SUFFICES ASSUME TypeOK, ThreadsInv, [Next]_vars PROVE ThreadsInv'
    OBVIOUS
  <2> USE DEF threads, MainGoes, GoesOn
  <2>1. CASE InitService \/ InitFails \/ ReportRunning
    BY <2>1 DEF InitService, InitFails, ReportRunning
  <2>2. CASE CreateForwarder \/ StartForwarder
    BY <2>2 DEF CreateForwarder, StartForwarder
  <2>3. CASE CreateCollector \/ StartCollector
    BY <2>3 DEF CreateCollector, StartCollector
  <2>4. CASE CreateSubscription \/ SubscriptionsAdded
    BY <2>4 DEF CreateSubscription, SubscriptionsAdded
  <2>5. CASE StartFails
    BY <2>5 DEF StartFails, TypeOK
  <2>6. CASE WaitCollector \/ WaitForwarder
    BY <2>6 DEF WaitCollector, WaitForwarder, ForwarderAwaited
  <2>7. CASE Release \/ ReportStopped
    BY <2>7 DEF Release, ReportStopped
  <2>8. ASSUME NEW s \in Stoppers, RequestStop(s)
        PROVE  ThreadsInv'
    BY <2>8 DEF RequestStop
  <2>9. ASSUME NEW s \in Stoppers, StopStep(s)
        PROVE  ThreadsInv'
    <3>1. UNCHANGED <<mainPc, failed, threads>>
      BY <2>9, HandlerSteps
    <3>2. queueStopped => queueStopped'
      BY <2>9 DEF StopStep, ReportPending, CheckContext, StopQueue, SignalStop, StopForwarder,
                  StopCollector, CancelAll, StopWaits
    <3>3. QED
      BY <3>1, <3>2
  <2>10. CASE ForwarderEnds \/ CollectorEnds \/ CollectorAborts
    BY <2>10 DEF ForwarderEnds, CollectorEnds, CollectorAborts
  <2>11. CASE UNCHANGED vars
    BY <2>11 DEF vars
  <2>12. QED
    BY <2>1, <2>2, <2>3, <2>4, <2>5, <2>6, <2>7, <2>8, <2>9, <2>10, <2>11 DEF Next, Main
<1>3. QED
  BY <1>1, <1>2, LifecycleTypes, PTL DEF Spec

(***************************************************************************)
(* The service says that it stopped, and lets go of its context, when both *)
(* of its threads have ended (ServiceContext::wait).                       *)
(***************************************************************************)
THEOREM ThreadsEndFirst == Spec => []NoThreadOutlivesTheService
BY ThreadsInvariant, PTL DEF ThreadsInv

-----------------------------------------------------------------------------
(***************************************************************************)
(* The SCM and the service's handler: one stop is requested, after RUNNING *)
(* was reported; it is reported as pending before the queue is stopped;    *)
(* and the main thread reports STOPPED after the queue was stopped, or     *)
(* after its start failed.                                                 *)
(***************************************************************************)
ReportsInv ==
  ~interactive =>
    /\ \A s, t \in Stoppers : stopPc[s] # "idle" /\ stopPc[t] # "idle" => s = t
    /\ queueStopped => \E s \in Stoppers : stopPc[s] \notin {"idle", "report"}
    /\ status = "START_PENDING" => \A s \in Stoppers : stopPc[s] = "idle"
    /\ mainPc \in {"init", "reportRunning"} => status = "START_PENDING" /\ ~failed
    /\ Ended /\ ~failed /\ forwarder = "null" => status = "START_PENDING"
    /\ Ended /\ ~failed /\ forwarder # "null" => status = "STOPPED"
    /\ Ended /\ failed =>
         \/ status = "STOPPED"
         \/ status = "STOP_PENDING" /\ \E s \in Stoppers : stopPc[s] # "idle"

(***************************************************************************)
(* Once the queue is stopped no handler is about to report a pending stop. *)
(***************************************************************************)
LEMMA NoReportAfterStop ==
  ASSUME ReportsInv, ~interactive, queueStopped, NEW s \in Stoppers
  PROVE  stopPc[s] # "report"
BY DEF ReportsInv

LEMMA ReportsInvariant == Spec => []ReportsInv
<1>1. Init => ReportsInv
  BY DEF Init, ReportsInv, Ended
<1>2. TypeOK /\ ThreadsInv /\ ReportsInv /\ [Next]_vars => ReportsInv'
  <2> SUFFICES ASSUME TypeOK, ThreadsInv, ReportsInv, [Next]_vars, ~interactive
               PROVE  ReportsInv'
    <3>1. [Next]_vars => UNCHANGED interactive
      <4>1. CASE Main
        BY <4>1, MainSteps
      <4>2. ASSUME NEW s \in Stoppers, RequestStop(s) \/ StopStep(s)
            PROVE  UNCHANGED interactive
        BY <4>2, HandlerSteps DEF RequestStop, StopGoes, GoesOn
      <4>3. CASE ForwarderEnds \/ CollectorEnds \/ CollectorAborts
        BY <4>3 DEF ForwarderEnds, CollectorEnds, CollectorAborts, GoesOn
      <4>4. CASE UNCHANGED vars
        BY <4>4 DEF vars
      <4>5. QED
        BY <4>1, <4>2, <4>3, <4>4 DEF Next
    <3>2. QED
      BY <3>1 DEF ReportsInv
  <2> USE DEF ReportsInv, Ended
  <2>1. CASE Main
    <3>1. UNCHANGED <<interactive, stopPc, queueStopped>> /\ mainPc # "ended"
      BY <2>1, MainSteps
    <3>2. CASE InitService \/ InitFails \/ ReportRunning
      BY <3>1, <3>2
      DEF InitService, InitFails, ReportRunning, MainGoes, ThreadsInv, BeforeForwarder, threads
    <3>3. CASE Release
      BY <3>1, <3>3 DEF Release, MainGoes
    <3>4. CASE ReportStopped
      BY <3>1, <3>4 DEF ReportStopped, MainGoes, ThreadsInv, BeforeForwarder, threads
    <3>5. CASE StartFails
      BY <3>1, <3>5 DEF StartFails
    <3>6. CASE ~(InitService \/ InitFails \/ ReportRunning \/ Release \/ ReportStopped \/ StartFails)
      <4>1. mainPc' \notin {"init", "reportRunning", "ended"} /\ status' = status
        BY <2>1, <3>6
        DEF Main, CreateForwarder, StartForwarder, CreateCollector, CreateSubscription,
            SubscriptionsAdded, StartCollector, WaitCollector, WaitForwarder, MainGoes
      <4>2. QED
        BY <3>1, <4>1
    <3>7. QED
      BY <3>2, <3>3, <3>4, <3>5, <3>6
  <2>2. ASSUME NEW s \in Stoppers, RequestStop(s)
        PROVE  ReportsInv'
    <3>1. /\ status = "RUNNING" /\ \A t \in Stoppers : stopPc[t] = "idle"
          /\ mainPc # "ended" /\ ~queueStopped
          /\ UNCHANGED <<interactive, mainPc, failed, forwarder, queueStopped, status>>
          /\ stopPc' = [stopPc EXCEPT ![s] = Handler[1]]
      BY <2>2 DEF RequestStop, StopGoes, GoesOn, threads
    <3>2. \A t \in Stoppers : t # s => stopPc'[t] = "idle"
      BY <3>1 DEF TypeOK
    <3>3. QED
      BY <3>1, <3>2
  <2>3. ASSUME NEW s \in Stoppers, StopStep(s)
        PROVE  ReportsInv'
    <3>1. /\ stopPc[s] # "idle" /\ stopPc'[s] \notin {"idle", "report"}
          /\ \A t \in Stoppers : t # s => stopPc'[t] = stopPc[t]
          /\ UNCHANGED <<interactive, mainPc, failed, forwarder>>
      BY <2>3, HandlerSteps DEF HandlerGoes, TypeOK, threads
    <3>2. status # "START_PENDING"
      BY <3>1
    <3>3. status' = status \/ (stopPc[s] = "report" /\ status' = "STOP_PENDING")
      BY <2>3, HandlerSteps
    <3>4. ASSUME Ended, ~failed PROVE status' = "STOPPED"
      <4>1. forwarder # "null"
        BY <3>2, <3>4
      <4>2. queueStopped
        BY <3>4, <4>1 DEF ThreadsInv, NoThreadOutlivesTheService
      <4>3. stopPc[s] # "report"
        BY <4>2, NoReportAfterStop
      <4>4. QED
        BY <3>3, <3>4, <4>1, <4>3
    <3>5. mainPc \notin {"init", "reportRunning"} /\ status' # "START_PENDING"
      BY <3>2, <3>3
    <3>6. ASSUME Ended, failed
          PROVE  \/ status' = "STOPPED"
                 \/ status' = "STOP_PENDING" /\ \E t \in Stoppers : stopPc'[t] # "idle"
      BY <3>1, <3>3, <3>6
    <3>7. QED
      BY <3>1, <3>2, <3>4, <3>5, <3>6
  <2>4. CASE ForwarderEnds
    BY <2>4 DEF ForwarderEnds, GoesOn
  <2>5. CASE CollectorEnds \/ CollectorAborts
    BY <2>5 DEF CollectorEnds, CollectorAborts, GoesOn
  <2>6. CASE UNCHANGED vars
    BY <2>6 DEF vars, threads
  <2>7. QED
    BY <2>1, <2>2, <2>3, <2>4, <2>5, <2>6 DEF Next
<1>3. QED
  BY <1>1, <1>2, LifecycleTypes, ThreadsInvariant, PTL DEF Spec

(***************************************************************************)
(* A service that was running and has ended said so last, however late the *)
(* handler of a stop runs; a pending stop is the last word only where the  *)
(* start failed after RUNNING was reported and a stop was requested.       *)
(***************************************************************************)
THEOREM StoppedIsSaidLast == Spec => []StoppedIsReportedLast
<1>1. ReportsInv => StoppedIsReportedLast
  BY DEF ReportsInv, StoppedIsReportedLast, Requested
<1>2. QED
  BY <1>1, ReportsInvariant, PTL

-----------------------------------------------------------------------------
(***************************************************************************)
(* The configuration is loaded                                             *)
(***************************************************************************)
-----------------------------------------------------------------------------
(* What is good of a file, section by section and up to an entry           *)

GoodGlobal == GlobalIsGood(Overlooked)
GoodForwarder == ForwarderIsGood(Overlooked)

LimitsAreGood(k) ==
  file.limits # NULL /\ \A i \in 1 .. k : LimitIsGood(LimitNames[i])

(* Entry i has an id that no entry before it has. *)
IsDistinct(array, i) ==
  array[i].id # NULL /\ \A j \in 1 .. i - 1 : array[j].id # array[i].id

FormattersAreGood(k) ==
  /\ file.formatters # NULL
  /\ \A i \in 1 .. k : IsDistinct(file.formatters, i) /\ FormatterIsGood(file.formatters[i], Overlooked)

SubscriptionsAreGood(k) ==
  /\ file.subscriptions # NULL
  /\ \A i \in 1 .. k :
       /\ IsDistinct(file.subscriptions, i)
       /\ SubscriptionIsGood(file.subscriptions[i], Overlooked)

UpToForwarder == GoodGlobal /\ LimitsAreGood(6) /\ GoodForwarder

NumFormatters == Len(Entries(file.formatters))
NumSubscriptions == Len(Entries(file.subscriptions))

IdsOf(array, k) == {array[i].id : i \in 1 .. k}

-----------------------------------------------------------------------------
(* The inductive invariant                                                 *)

Limited == {LimitNames[i] : i \in 1 .. 6}

PlaceInv ==
  /\ file \in Files
  /\ section \in {"global", "limits", "forwarder", "formatters", "subscriptions",
                 "start", "end", "aborted"}
  /\ index \in Nat \ {0}
  /\ section = "limits" => index <= 7
  /\ section = "formatters" => index <= NumFormatters + 1
  /\ section = "subscriptions" => index <= NumSubscriptions + 1
  /\ limits \in [Limited -> Int]

FlagsInv ==
  /\ valid \in BOOLEAN /\ ok \in BOOLEAN
  /\ IF section \in {"start", "end", "aborted"} THEN result \in BOOLEAN ELSE result = NULL

(* valid says whether the sections before this one are good... *)
ValidInv ==
  /\ section = "global" => valid
  /\ section = "limits" => (valid <=> GoodGlobal)
  /\ section = "forwarder" => (valid <=> GoodGlobal /\ LimitsAreGood(6))
  /\ section = "formatters" => (valid <=> UpToForwarder)
  /\ section = "subscriptions" => (valid <=> UpToForwarder /\ FormattersAreGood(NumFormatters))
  /\ section \in {"start", "end", "aborted"} => (result <=> IsGoodBut(Overlooked))

(* ... and ok whether the entries before this one are. *)
OkInv ==
  /\ section \in {"global", "forwarder"} => ok
  /\ section = "limits" /\ file.limits # NULL => (ok <=> LimitsAreGood(index - 1))
  /\ section = "formatters" /\ LimitsAreGood(6) /\ file.formatters # NULL =>
       (ok <=> FormattersAreGood(index - 1))
  /\ section = "subscriptions" /\ file.subscriptions # NULL =>
       (ok <=> SubscriptionsAreGood(index - 1))

(* What good parts of the file left behind. *)
OwnConfiguration(i) ==
  LET f == file.formatters[i]
      c == formatters[f.id]
  IN  /\ c.facility = f.facility
      /\ c.properties = Properties \ OwnOr(Read(f.excluded), {})
      /\ c.msgLength = OwnOr(LoadInt(f.msgLength), file.limits[MSG])
      /\ c.sysId = OwnOr(Read(f.sysId), <<"sys", file.global.enterprise>>)
      /\ c.evdId = OwnOr(Read(f.evdId), <<"evd", file.global.enterprise>>)

ConfigInv ==
  /\ section # "global" /\ GoodGlobal => global.enterprise = file.global.enterprise
  /\ section = "limits" /\ index > 5 /\ LimitsAreGood(5) => limits[MSG] = file.limits[MSG]
  /\ section \notin {"global", "limits"} /\ LimitsAreGood(6) => limits[MSG] = file.limits[MSG]

FormattersInv ==
  /\ section \in {"global", "limits", "forwarder"} => DOMAIN formatters = {}
  /\ section = "formatters" /\ ok => DOMAIN formatters = IdsOf(file.formatters, index - 1)
  /\ section = "formatters" /\ ok /\ GoodGlobal /\ LimitsAreGood(6) =>
       \A i \in 1 .. index - 1 : OwnConfiguration(i)
  /\ section \in {"subscriptions", "start", "end", "aborted"} /\ UpToForwarder
       /\ FormattersAreGood(NumFormatters) =>
       \A i \in 1 .. NumFormatters : OwnConfiguration(i)

(* The first k subscriptions of the file are stored under their ids. *)
AreLoaded(k) ==
  \A i \in 1 .. k :
    subscriptions[file.subscriptions[i].id] = Loaded(file.subscriptions[i])

SubscriptionsInv ==
  /\ section \in {"global", "limits", "forwarder", "formatters"} => DOMAIN subscriptions = {}
  /\ section = "subscriptions" /\ ok =>
       /\ DOMAIN subscriptions = IdsOf(file.subscriptions, index - 1)
       /\ AreLoaded(index - 1)

LoadInv ==
  PlaceInv /\ FlagsInv /\ ValidInv /\ OkInv /\ ConfigInv /\ FormattersInv /\ SubscriptionsInv

-----------------------------------------------------------------------------
(* The names of the limits, and what a good file is                        *)

LEMMA Names ==
  /\ Len(LimitNames) = 6 /\ LimitNames[5] = MSG /\ LimitNames[6] = SD
  /\ MSG \in Limited /\ SD \in Limited /\ MSG # SD
  /\ \A i \in 1 .. 6 : LimitNames[i] \in Limited
  /\ \A i \in 1 .. 5 : LimitNames[i] \in DOMAIN LimitRange /\ LimitNames[i] # SD
  /\ \A i \in 1 .. 6 : LimitNames[i] = MSG => i = 5
  /\ \A n \in DOMAIN LimitRange : \E i \in 1 .. 5 : n = LimitNames[i]
<1>1. /\ Len(LimitNames) = 6 /\ LimitNames[5] = MSG /\ LimitNames[6] = SD /\ MSG # SD
      /\ \A i \in 1 .. 6 : LimitNames[i] = MSG => i = 5
      /\ \A i \in 1 .. 5 : LimitNames[i] # SD
  BY DEF LimitNames, MSG, SD
<1> HIDE DEF LimitNames
<1>2. QED
  BY <1>1, FilesAssumption DEF Limited

LEMMA Lengths ==
  ASSUME file \in Files
  PROVE  /\ NumFormatters \in Nat /\ NumSubscriptions \in Nat
         /\ file.formatters # NULL => NumFormatters = Len(file.formatters)
         /\ file.subscriptions # NULL => NumSubscriptions = Len(file.subscriptions)
         /\ file.formatters = NULL => NumFormatters = 0
         /\ file.subscriptions = NULL => NumSubscriptions = 0
BY FilesAssumption DEF NumFormatters, NumSubscriptions, Entries

(***************************************************************************)
(* A file is good if its sections are, each entry compared with those      *)
(* before it.                                                              *)
(***************************************************************************)
LEMMA GoodByParts ==
  ASSUME file \in Files
  PROVE  IsGoodBut(Overlooked) <=>
           /\ UpToForwarder
           /\ FormattersAreGood(NumFormatters)
           /\ SubscriptionsAreGood(NumSubscriptions)
<1>1. LimitsAreGood(6) <=> file.limits # NULL /\ \A i \in 1 .. 6 : LimitIsGood(LimitNames[i])
  BY DEF LimitsAreGood
<1>3. ASSUME NEW a, Len(a) \in Nat
      PROVE  DistinctIds(a) <=> \A i \in 1 .. Len(a) : IsDistinct(a, i)
  <2>1. ASSUME DistinctIds(a), NEW i \in 1 .. Len(a) PROVE IsDistinct(a, i)
    BY <1>3, <2>1 DEF DistinctIds, IsDistinct
  <2>2. ASSUME \A i \in 1 .. Len(a) : IsDistinct(a, i) PROVE DistinctIds(a)
    <3> SUFFICES ASSUME NEW i \in 1 .. Len(a), NEW j \in 1 .. Len(a)
                 PROVE  a[i].id # NULL /\ (i # j => a[i].id # a[j].id)
      BY DEF DistinctIds
    <3>1. IsDistinct(a, i) /\ IsDistinct(a, j)
      BY <2>2
    <3>2. i = j \/ i \in 1 .. j - 1 \/ j \in 1 .. i - 1
      BY <1>3
    <3>3. QED
      BY <3>1, <3>2 DEF IsDistinct
  <2>3. QED
    BY <2>1, <2>2
<1>4. FormattersAreGood(NumFormatters) <=>
        /\ file.formatters # NULL /\ DistinctIds(file.formatters)
        /\ \A i \in 1 .. Len(file.formatters) : FormatterIsGood(file.formatters[i], Overlooked)
  <2>1. CASE file.formatters = NULL
    BY <2>1 DEF FormattersAreGood
  <2>2. CASE file.formatters # NULL
    BY <1>3, <2>2, Lengths DEF FormattersAreGood
  <2>3. QED
    BY <2>1, <2>2
<1>5. SubscriptionsAreGood(NumSubscriptions) <=>
        /\ file.subscriptions # NULL /\ DistinctIds(file.subscriptions)
        /\ \A i \in 1 .. Len(file.subscriptions) :
             SubscriptionIsGood(file.subscriptions[i], Overlooked)
  <2>1. CASE file.subscriptions = NULL
    BY <2>1 DEF SubscriptionsAreGood
  <2>2. CASE file.subscriptions # NULL
    BY <1>3, <2>2, Lengths DEF SubscriptionsAreGood
  <2>3. QED
    BY <2>1, <2>2
<1>6. QED
  BY <1>1, <1>4, <1>5 DEF IsGoodBut, UpToForwarder, GoodGlobal, GoodForwarder

-----------------------------------------------------------------------------
(* The invariant is inductive                                              *)

LEMMA FileStays ==
  ASSUME file' = file
  PROVE  /\ GoodGlobal' <=> GoodGlobal
         /\ \A k : LimitsAreGood(k)' <=> LimitsAreGood(k)
         /\ GoodForwarder' <=> GoodForwarder
         /\ UpToForwarder' <=> UpToForwarder
         /\ \A k : FormattersAreGood(k)' <=> FormattersAreGood(k)
         /\ \A k : SubscriptionsAreGood(k)' <=> SubscriptionsAreGood(k)
         /\ NumFormatters' = NumFormatters /\ NumSubscriptions' = NumSubscriptions
         /\ IsGoodBut(Overlooked)' <=> IsGoodBut(Overlooked)
<1>1. GoodGlobal' <=> GoodGlobal
  BY DEF GoodGlobal, GlobalIsGood
<1>2. \A k : LimitsAreGood(k)' <=> LimitsAreGood(k)
  BY DEF LimitsAreGood, LimitIsGood
<1>3. GoodForwarder' <=> GoodForwarder
  BY DEF GoodForwarder, ForwarderIsGood
<1>4. \A k : FormattersAreGood(k)' <=> FormattersAreGood(k)
  BY DEF FormattersAreGood, IsDistinct, FormatterIsGood
<1>5. \A k : SubscriptionsAreGood(k)' <=> SubscriptionsAreGood(k)
  BY DEF SubscriptionsAreGood, IsDistinct
<1>6. NumFormatters' = NumFormatters /\ NumSubscriptions' = NumSubscriptions
  BY DEF NumFormatters, NumSubscriptions
<1>7. IsGoodBut(Overlooked)' <=> IsGoodBut(Overlooked)
  BY DEF IsGoodBut, GlobalIsGood, ForwarderIsGood, LimitIsGood, FormatterIsGood
<1>8. QED
  BY <1>1, <1>2, <1>3, <1>4, <1>5, <1>6, <1>7 DEF UpToForwarder

(* What the code checks is what is good, but for what it overlooks. *)
LEMMA CodeChecks ==
  /\ GoodGlobal <=> file.global # NULL /\ HasAgent(file.global) /\ HasEnterprise(file.global)
  /\ \A s : SubscriptionIsGood(s, Overlooked) <=> HasNames(s) /\ AreEventsValid(s)
  /\ GoodForwarder <=>
       /\ file.forwarder # NULL /\ file.forwarder.collector = "endpoint"
       /\ Read(file.forwarder.protocol) \in {NULL, "TLS", "TCP"}
<1>1. \A digits : IsSegment(digits, Overlooked) <=>
        /\ digits # <<>> /\ \A j \in 1 .. Len(digits) : IsDigit(digits[j])
        /\ ValueOf(digits) <= MaxEnterpriseId
  BY DEF IsSegment, IsDigit, Overlooked
<1>2. GoodGlobal <=> file.global # NULL /\ HasAgent(file.global) /\ HasEnterprise(file.global)
  BY <1>1 DEF GoodGlobal, GlobalIsGood, HasAgent, HasEnterprise, IsValidEnterpriseId
<1>3. \A s : SubscriptionIsGood(s, Overlooked) <=> HasNames(s) /\ AreEventsValid(s)
  BY DEF SubscriptionIsGood, HasNames, AreEventsValid, HasItsTypes, Overlooked
<1>4. \A p : p \in {NULL, "TLS", "TCP", WRONG} <=> Read(p) \in {NULL, "TLS", "TCP"}
  BY DEF Read
<1>5. GoodForwarder <=>
        /\ file.forwarder # NULL /\ file.forwarder.collector = "endpoint"
        /\ Read(file.forwarder.protocol) \in {NULL, "TLS", "TCP"}
  BY <1>4 DEF GoodForwarder, ForwarderIsGood, HasItsTypes, Overlooked
<1>6. QED
  BY <1>2, <1>3, <1>5

LEMMA StartsLoading == LoadInit => LoadInv
<1> SUFFICES ASSUME LoadInit PROVE LoadInv
  OBVIOUS
<1>1. /\ file \in Files /\ section = "global" /\ index = 1 /\ result = NULL
      /\ limits = [n \in Limited |-> 0] /\ formatters = Nobody /\ subscriptions = Nobody
  BY DEF LoadInit, Limited
<1>2. valid /\ ok /\ valid \in BOOLEAN /\ ok \in BOOLEAN
  BY Zenon DEF LoadInit
<1>3. DOMAIN formatters = {} /\ DOMAIN subscriptions = {}
  BY <1>1 DEF Nobody
<1>4. PlaceInv
  BY <1>1 DEF PlaceInv
<1>5. FlagsInv /\ ValidInv /\ OkInv
  BY <1>1, <1>2 DEF FlagsInv, ValidInv, OkInv
<1>6. ConfigInv /\ FormattersInv /\ SubscriptionsInv
  BY <1>1, <1>3 DEF ConfigInv, FormattersInv, SubscriptionsInv
<1>7. QED
  BY <1>4, <1>5, <1>6 DEF LoadInv

LEMMA GlobalStep == LoadInv /\ LoadGlobal => LoadInv'
<1> SUFFICES ASSUME LoadInv, LoadGlobal PROVE LoadInv'
  OBVIOUS
<1> USE DEF LoadInv
<1>1. /\ file' = file /\ section = "global" /\ section' = "limits" /\ index' = 1
      /\ limits' = limits /\ formatters' = formatters /\ subscriptions' = subscriptions
      /\ GoodGlobal => global'.enterprise = file.global.enterprise
  BY CodeChecks DEF LoadGlobal, EndSection
<1>2. /\ valid' \in BOOLEAN /\ ok' \in BOOLEAN /\ ok'
      /\ valid' <=> GoodGlobal
  <2>1. valid /\ result = NULL
    BY <1>1 DEF ValidInv, FlagsInv
  <2>2. QED
    BY <1>1, <2>1, CodeChecks, Zenon DEF LoadGlobal, EndSection
<1>3. result' = NULL
  BY <1>1 DEF FlagsInv, LoadGlobal
<1>4. PlaceInv'
  BY <1>1 DEF PlaceInv
<1>5. FlagsInv' /\ ValidInv'
  BY <1>1, <1>2, <1>3, FileStays DEF FlagsInv, ValidInv
<1>6. OkInv'
  BY <1>1, <1>2 DEF OkInv, LimitsAreGood
<1>7. ConfigInv'
  BY <1>1, FileStays DEF ConfigInv
<1>8. FormattersInv' /\ SubscriptionsInv'
  BY <1>1 DEF FormattersInv, SubscriptionsInv
<1>9. QED
  BY <1>4, <1>5, <1>6, <1>7, <1>8

LEMMA LimitStep == LoadInv /\ LoadLimit => LoadInv'
<1> SUFFICES ASSUME LoadInv, LoadLimit PROVE LoadInv'
  OBVIOUS
<1> USE DEF LoadInv
<1> DEFINE name == LimitNames[index]
           value == LoadInt(file.limits[name])
           accepted == value # NULL /\ InRange(value, RangeOf(name))
<1>1. /\ file' = file /\ section = "limits" /\ section' = section /\ index' = index + 1
      /\ index \in 1 .. 6 /\ file.limits # NULL
      /\ limits' = IF accepted THEN [limits EXCEPT ![name] = value] ELSE limits
      /\ formatters' = formatters /\ subscriptions' = subscriptions /\ global' = global
      /\ result' = NULL
  BY Names DEF LoadLimit, NextEntry, PlaceInv, FlagsInv
<1>2. /\ valid' \in BOOLEAN /\ ok' \in BOOLEAN
      /\ valid' <=> valid
      /\ ok' <=> ok /\ accepted
  BY Zenon DEF LoadLimit, NextEntry, FlagsInv
<1>3. /\ file \in Files /\ limits \in [Limited -> Int] /\ name \in Limited
      /\ value \in Nat \union {NULL}
      /\ value # NULL => value = file.limits[name]
  BY <1>1, Names, FilesAssumption DEF PlaceInv, LoadInt
<1>4. limits' \in [Limited -> Int]
  BY <1>1, <1>3
<1>5. LimitsAreGood(index - 1) => (accepted <=> LimitIsGood(name))
  <2>1. CASE index = 6
    <3>1. name = SD
      BY <2>1, Names
    <3>2. ASSUME LimitsAreGood(index - 1) PROVE limits[MSG] = file.limits[MSG]
      BY <1>1, <2>1, <3>2 DEF ConfigInv
    <3>3. MinMaxSDLength \in Nat /\ limits[MSG] \in Int /\ NULL \notin Int
      BY <1>3, ConfigAssumption, Names
    <3>4. QED
      BY <1>3, <3>1, <3>2, <3>3 DEF LimitIsGood, InRange, RangeOf, SdRange, LoadInt
  <2>2. CASE index \in 1 .. 5
    <3>1. name \in DOMAIN LimitRange /\ name # SD
      BY <2>2, Names
    <3>2. LimitRange[name].lower \in Nat /\ LimitRange[name].upper \in Nat /\ NULL \notin Int
      BY <3>1, FilesAssumption, ConfigAssumption
    <3>3. QED
      BY <1>3, <3>1, <3>2 DEF LimitIsGood, InRange, RangeOf, Span, LoadInt
  <2>3. QED
    BY <1>1, <2>1, <2>2
<1>6. LimitsAreGood(index) <=> LimitsAreGood(index - 1) /\ LimitIsGood(name)
  <2>1. 1 .. index = (1 .. index - 1) \union {index}
    BY <1>1
  <2>2. QED
    BY <1>1, <2>1 DEF LimitsAreGood
<1>7. PlaceInv'
  BY <1>1, <1>3, <1>4 DEF PlaceInv
<1>8. FlagsInv' /\ ValidInv'
  BY <1>1, <1>2, FileStays DEF FlagsInv, ValidInv
<1>9. OkInv'
  <2>1. ok' <=> LimitsAreGood(index)
    BY <1>1, <1>2, <1>5, <1>6 DEF OkInv
  <2>2. index' - 1 = index
    BY <1>1
  <2>3. QED
    BY <1>1, <2>1, <2>2, FileStays DEF OkInv
<1>10. ConfigInv'
  <2>1. ASSUME index' > 5, LimitsAreGood(5) PROVE limits'[MSG] = file.limits[MSG]
    <3>1. CASE index = 5
      <4>1. name = MSG
        BY <3>1, Names
      <4>2. LimitsAreGood(index - 1) /\ LimitIsGood(name)
        BY <1>6, <2>1, <3>1
      <4>3. QED
        BY <1>1, <1>3, <1>5, <4>1, <4>2
    <3>2. CASE index = 6
      <4>1. limits[MSG] = file.limits[MSG]
        BY <1>1, <2>1, <3>2 DEF ConfigInv
      <4>2. name # MSG
        BY <3>2, Names
      <4>3. QED
        BY <1>1, <1>3, <4>1, <4>2, Names
    <3>3. QED
      BY <1>1, <2>1, <3>1, <3>2
  <2>2. QED
    BY <1>1, <2>1, FileStays DEF ConfigInv
<1>11. FormattersInv' /\ SubscriptionsInv'
  BY <1>1 DEF FormattersInv, SubscriptionsInv
<1>12. QED
  BY <1>7, <1>8, <1>9, <1>10, <1>11

LEMMA LimitsEnd == LoadInv /\ LimitsLoaded => LoadInv'
<1> SUFFICES ASSUME LoadInv, LimitsLoaded PROVE LoadInv'
  OBVIOUS
<1> USE DEF LoadInv
<1>1. /\ file' = file /\ section = "limits" /\ section' = "forwarder" /\ index' = 1
      /\ file.limits = NULL \/ index = 7
      /\ limits' = limits /\ formatters' = formatters /\ subscriptions' = subscriptions
      /\ global' = global /\ result' = NULL
  BY Names DEF LimitsLoaded, EndSection, config, PlaceInv, FlagsInv
<1>2. /\ valid' \in BOOLEAN /\ ok' \in BOOLEAN /\ ok'
      /\ valid' <=> valid /\ file.limits # NULL /\ ok
  BY Zenon DEF LimitsLoaded, EndSection, FlagsInv
<1>3. file.limits # NULL /\ ok <=> LimitsAreGood(6)
  <2>1. CASE file.limits = NULL
    BY <2>1 DEF LimitsAreGood
  <2>2. CASE file.limits # NULL
    <3>1. index - 1 = 6
      BY <1>1, <2>2
    <3>2. QED
      BY <1>1, <2>2, <3>1 DEF OkInv
  <2>3. QED
    BY <2>1, <2>2
<1>4. PlaceInv'
  BY <1>1 DEF PlaceInv
<1>5. FlagsInv' /\ ValidInv'
  BY <1>1, <1>2, <1>3, FileStays DEF FlagsInv, ValidInv
<1>6. OkInv'
  BY <1>1, <1>2 DEF OkInv
<1>7. ConfigInv'
  <2>1. LimitsAreGood(6) => LimitsAreGood(5) /\ index > 5
    BY <1>1 DEF LimitsAreGood
  <2>2. QED
    BY <1>1, <2>1, FileStays DEF ConfigInv
<1>8. FormattersInv' /\ SubscriptionsInv'
  BY <1>1 DEF FormattersInv, SubscriptionsInv
<1>9. QED
  BY <1>4, <1>5, <1>6, <1>7, <1>8

LEMMA ForwarderStep == LoadInv /\ LoadForwarder => LoadInv'
<1> SUFFICES ASSUME LoadInv, LoadForwarder PROVE LoadInv'
  OBVIOUS
<1> USE DEF LoadInv
<1>1. /\ file' = file /\ section = "forwarder" /\ section' = "formatters" /\ index' = 1
      /\ limits' = limits /\ formatters' = formatters /\ subscriptions' = subscriptions
      /\ global' = global /\ result' = NULL
  BY DEF LoadForwarder, EndSection, config, FlagsInv
<1>2. /\ valid' \in BOOLEAN /\ ok' \in BOOLEAN /\ ok'
      /\ valid' <=> valid /\ GoodForwarder
  BY CodeChecks, Zenon DEF LoadForwarder, EndSection, FlagsInv
<1>3. PlaceInv'
  BY <1>1, Lengths, FileStays DEF PlaceInv
<1>4. FlagsInv' /\ ValidInv'
  BY <1>1, <1>2, FileStays DEF FlagsInv, ValidInv, UpToForwarder
<1>5. OkInv'
  <2>1. file.formatters # NULL => FormattersAreGood(0)
    BY DEF FormattersAreGood
  <2>2. index' - 1 = 0
    BY <1>1
  <2>3. QED
    BY <1>1, <1>2, <2>1, <2>2, FileStays DEF OkInv
<1>6. ConfigInv'
  BY <1>1, FileStays DEF ConfigInv
<1>7. FormattersInv' /\ SubscriptionsInv'
  <2>1. IdsOf(file.formatters, 0) = {}
    BY DEF IdsOf
  <2>2. DOMAIN formatters = {}
    BY <1>1 DEF FormattersInv
  <2>3. index' - 1 = 0
    BY <1>1
  <2>4. QED
    BY <1>1, <2>1, <2>2, <2>3 DEF FormattersInv, SubscriptionsInv
<1>8. QED
  BY <1>3, <1>4, <1>5, <1>6, <1>7

LEMMA FormattersEnd == LoadInv /\ FormattersLoaded => LoadInv'
<1> SUFFICES ASSUME LoadInv, FormattersLoaded PROVE LoadInv'
  OBVIOUS
<1> USE DEF LoadInv
<1>1. /\ file' = file /\ section = "formatters" /\ section' = "subscriptions" /\ index' = 1
      /\ limits' = limits /\ formatters' = formatters /\ subscriptions' = subscriptions
      /\ global' = global /\ result' = NULL
  BY DEF FormattersLoaded, NoEntryLeft, EndSection, config, FlagsInv
<1>2. /\ valid' \in BOOLEAN /\ ok' \in BOOLEAN /\ ok'
      /\ valid' <=> valid /\ file.formatters # NULL /\ ok
  BY Zenon DEF FormattersLoaded, EndSection, FlagsInv
<1>3. index - 1 = NumFormatters
  BY <1>1, Lengths DEF PlaceInv, FormattersLoaded, NoEntryLeft, NumFormatters
<1>4. LimitsAreGood(6) => (file.formatters # NULL /\ ok <=> FormattersAreGood(NumFormatters))
  <2>1. CASE file.formatters = NULL
    BY <2>1 DEF FormattersAreGood
  <2>2. CASE file.formatters # NULL
    BY <1>1, <1>3, <2>2 DEF OkInv
  <2>3. QED
    BY <2>1, <2>2
<1>5. PlaceInv'
  BY <1>1, Lengths, FileStays DEF PlaceInv
<1>6. FlagsInv' /\ ValidInv'
  BY <1>1, <1>2, <1>4, FileStays DEF FlagsInv, ValidInv, UpToForwarder
<1>7. OkInv'
  <2>1. file.subscriptions # NULL => SubscriptionsAreGood(0)
    BY DEF SubscriptionsAreGood
  <2>2. index' - 1 = 0
    BY <1>1
  <2>3. QED
    BY <1>1, <1>2, <2>1, <2>2, FileStays DEF OkInv
<1>8. ConfigInv'
  BY <1>1, FileStays DEF ConfigInv
<1>9. FormattersInv'
  <2>1. ASSUME UpToForwarder, FormattersAreGood(NumFormatters), NEW i \in 1 .. NumFormatters
        PROVE  OwnConfiguration(i)
    BY <1>1, <1>3, <1>4, <2>1 DEF FormattersInv, UpToForwarder
  <2>2. \A i : OwnConfiguration(i)' <=> OwnConfiguration(i)
    BY <1>1 DEF OwnConfiguration
  <2>3. QED
    BY <1>1, <2>1, <2>2, FileStays DEF FormattersInv
<1>10. SubscriptionsInv'
  <2>1. IdsOf(file.subscriptions, 0) = {} /\ AreLoaded(0)'
    BY DEF IdsOf, AreLoaded
  <2>2. DOMAIN subscriptions = {}
    BY <1>1 DEF SubscriptionsInv
  <2>3. index' - 1 = 0
    BY <1>1
  <2>4. QED
    BY <1>1, <2>1, <2>2, <2>3 DEF SubscriptionsInv
<1>11. QED
  BY <1>5, <1>6, <1>7, <1>8, <1>9, <1>10

(* What an entry adds to the ids of an array. *)
LEMMA IdsGrow ==
  ASSUME NEW a, NEW n \in Nat \ {0}
  PROVE  IdsOf(a, n) = IdsOf(a, n - 1) \union {a[n].id}
<1>1. 1 .. n = (1 .. n - 1) \union {n}
  OBVIOUS
<1>2. QED
  BY <1>1 DEF IdsOf

LEMMA FormatterStep == LoadInv /\ LoadFormatter => LoadInv'
<1> SUFFICES ASSUME LoadInv, LoadFormatter PROVE LoadInv'
  OBVIOUS
<1> USE DEF LoadInv
<1> DEFINE array == file.formatters
           f == array[index]
           sdLength == LoadInt(f.sdLength)
           isNew == IsNewId(f.id, formatters)
           accepted == ok /\ IsFormatterValid(f)
<1>1. /\ file' = file /\ section = "formatters" /\ section' = section /\ index' = index + 1
      /\ subscriptions' = subscriptions /\ global' = global /\ result' = NULL
  BY DEF LoadFormatter, HasEntry, NextEntry, FlagsInv
<1>2. /\ valid' \in BOOLEAN /\ ok' \in BOOLEAN
      /\ valid' <=> valid
      /\ ok' <=> ok /\ isNew /\ IsFormatterValid(f)
  <2>1. CASE isNew
    BY <2>1, Zenon DEF LoadFormatter, NextEntry, FlagsInv
  <2>2. CASE ~isNew
    BY <2>2, Zenon DEF LoadFormatter, NextEntry, FlagsInv
  <2>3. QED
    BY <2>1, <2>2
<1>3. file \in Files /\ array # NULL /\ index \in 1 .. NumFormatters /\ NumFormatters \in Nat
  BY <1>1, Lengths DEF LoadFormatter, HasEntry, PlaceInv, NumFormatters
<1>4. /\ f.msgLength \in Numbers /\ f.sdLength \in Numbers
      /\ MSG \in DOMAIN LimitRange
      /\ LimitRange[MSG].lower \in Nat /\ LimitRange[MSG].upper \in Nat
      /\ MinMaxSDLength \in Nat /\ NULL \notin Int /\ WRONG \notin Int /\ WRONG # NULL
      /\ limits \in [Limited -> Int]
      /\ MSG \in Limited /\ SD \in Limited /\ MSG # SD
  BY <1>3, Lengths, Names, FilesAssumption, ConfigAssumption DEF PlaceInv
<1>5. limits' \in [Limited -> Int] /\ limits'[MSG] = limits[MSG]
  <2>1. limits' = limits \/ (sdLength # NULL /\ limits' = [limits EXCEPT ![SD] = sdLength])
    BY DEF LoadFormatter
  <2>2. QED
    BY <1>4, <2>1 DEF LoadInt
<1>6. LimitsAreGood(6) => (IsFormatterValid(f) <=> FormatterIsGood(f, Overlooked))
  <2>1. LimitsAreGood(6) => limits[MSG] = file.limits[MSG]
    BY <1>1 DEF ConfigInv
  <2>2. limits[MSG] \in Int
    BY <1>4
  <2>3. QED
    <3>1. /\ LengthIsGood(f.msgLength, Span(LimitRange[MSG]), Overlooked)
               <=> LET l == LoadInt(f.msgLength) IN l = NULL \/ InRange(l, LimitRange[MSG])
          /\ limits[MSG] = file.limits[MSG] =>
               (LengthIsGood(f.sdLength, MinMaxSDLength .. file.limits[MSG], Overlooked)
                  <=> sdLength = NULL \/ InRange(sdLength, SdRange))
      BY <1>4, <2>2 DEF LengthIsGood, LoadInt, InRange, Span, SdRange, Numbers, Overlooked
    <3>2. OwnOr(Read(f.excluded), {}) \subseteq Properties
            <=> f.excluded \in {NULL, WRONG} \/ f.excluded \subseteq Properties
      BY DEF OwnOr, Read
    <3>3. QED
      BY <2>1, <3>1, <3>2 DEF IsFormatterValid, FormatterIsGood, HasItsTypes, Overlooked
<1>7. ok => (isNew <=> IsDistinct(array, index))
  <2>1. ok => DOMAIN formatters = IdsOf(array, index - 1)
    BY <1>1 DEF FormattersInv
  <2>2. QED
    BY <2>1 DEF IsNewId, IsDistinct, IdsOf
<1>8. FormattersAreGood(index) <=>
        FormattersAreGood(index - 1) /\ IsDistinct(array, index) /\ FormatterIsGood(f, Overlooked)
  <2>1. 1 .. index = (1 .. index - 1) \union {index}
    BY <1>3
  <2>2. QED
    BY <1>3, <2>1 DEF FormattersAreGood
<1>9. PlaceInv'
  BY <1>1, <1>3, <1>5, FileStays DEF PlaceInv
<1>10. FlagsInv' /\ ValidInv'
  BY <1>1, <1>2, FileStays DEF FlagsInv, ValidInv
<1>11. OkInv'
  <2>1. LimitsAreGood(6) => (ok' <=> FormattersAreGood(index))
    BY <1>1, <1>2, <1>3, <1>6, <1>7, <1>8 DEF OkInv
  <2>2. index' - 1 = index
    BY <1>1, <1>3
  <2>3. QED
    BY <1>1, <2>1, <2>2, FileStays DEF OkInv
<1>12. ConfigInv'
  BY <1>1, <1>5, FileStays DEF ConfigInv
<1>13. FormattersInv'
  <2>1. ASSUME ok'
        PROVE  /\ ok /\ IsFormatterValid(f) /\ IsDistinct(array, index)
               /\ formatters' = With(f.id, Filled(f), formatters)
               /\ DOMAIN formatters = IdsOf(array, index - 1)
    <3>1. ok /\ isNew /\ IsFormatterValid(f)
      BY <1>2, <2>1
    <3>2. QED
      BY <1>1, <1>7, <3>1 DEF LoadFormatter, FormattersInv
  <2>2. ok' => DOMAIN formatters' = IdsOf(array, index)
    BY <1>3, <2>1, IdsGrow DEF With
  <2>3. ASSUME ok', GoodGlobal, LimitsAreGood(6), NEW i \in 1 .. index
        PROVE  OwnConfiguration(i)'
    <3>1. CASE i = index
      <4>1. formatters'[f.id] = Filled(f)
        BY <2>1, <2>3 DEF With
      <4>2. global.enterprise = file.global.enterprise /\ limits[MSG] = file.limits[MSG]
        BY <1>1, <2>3 DEF ConfigInv
      <4>3. /\ Filled(f).facility = f.facility
            /\ Filled(f).properties = Properties \ OwnOr(Read(f.excluded), {})
            /\ Filled(f).msgLength = OwnOr(LoadInt(f.msgLength), file.limits[MSG])
            /\ Filled(f).sysId = OwnOr(Read(f.sysId), <<"sys", file.global.enterprise>>)
            /\ Filled(f).evdId = OwnOr(Read(f.evdId), <<"evd", file.global.enterprise>>)
        BY <2>1, <2>3, <4>2 DEF Filled, IsFormatterValid, Included, OwnOr
      <4>4. QED
        BY <1>1, <3>1, <4>1, <4>3 DEF OwnConfiguration
    <3>2. CASE i \in 1 .. index - 1
      <4>1. OwnConfiguration(i)
        BY <1>1, <2>1, <2>3, <3>2 DEF FormattersInv
      <4>2. array[i].id # f.id /\ array[i].id \in DOMAIN formatters
        BY <2>1, <2>3, <3>2 DEF IsDistinct, IdsOf
      <4>3. formatters'[array[i].id] = formatters[array[i].id]
        BY <2>1, <2>3, <4>2 DEF With
      <4>4. QED
        BY <1>1, <4>1, <4>3 DEF OwnConfiguration
    <3>3. QED
      BY <1>3, <3>1, <3>2
  <2>4. index' - 1 = index
    BY <1>1, <1>3
  <2>5. QED
    BY <1>1, <2>2, <2>3, <2>4, FileStays DEF FormattersInv
<1>14. SubscriptionsInv'
  BY <1>1 DEF SubscriptionsInv
<1>15. QED
  BY <1>9, <1>10, <1>11, <1>12, <1>13, <1>14

LEMMA SubscriptionStep == LoadInv /\ LoadSubscription => LoadInv'
<1> SUFFICES ASSUME LoadInv, LoadSubscription PROVE LoadInv'
  OBVIOUS
<1> USE DEF LoadInv
<1> DEFINE array == file.subscriptions
           s == array[index]
           isNew == IsNewId(s.id, subscriptions) /\ HasNames(s)
<1>1. /\ file' = file /\ section = "subscriptions" /\ section' = section /\ index' = index + 1
      /\ limits' = limits /\ formatters' = formatters /\ global' = global /\ result' = NULL
  BY DEF LoadSubscription, HasEntry, NextEntry, FlagsInv
<1>2. /\ valid' \in BOOLEAN /\ ok' \in BOOLEAN
      /\ valid' <=> valid
      /\ ok' <=> ok /\ isNew /\ AreEventsValid(s)
  <2>1. CASE isNew
    BY <2>1, Zenon DEF LoadSubscription, NextEntry, FlagsInv
  <2>2. CASE ~isNew
    BY <2>2, Zenon DEF LoadSubscription, NextEntry, FlagsInv
  <2>3. QED
    BY <2>1, <2>2
<1>3. file \in Files /\ array # NULL /\ index \in 1 .. NumSubscriptions /\ NumSubscriptions \in Nat
  BY <1>1, Lengths DEF LoadSubscription, HasEntry, PlaceInv, NumSubscriptions
<1>4. ok => DOMAIN subscriptions = IdsOf(array, index - 1)
  BY <1>1 DEF SubscriptionsInv
<1>5. ok => (IsNewId(s.id, subscriptions) <=> IsDistinct(array, index))
  BY <1>4 DEF IsNewId, IsDistinct, IdsOf
<1>6. SubscriptionsAreGood(index) <=>
        /\ SubscriptionsAreGood(index - 1)
        /\ IsDistinct(array, index) /\ HasNames(s) /\ AreEventsValid(s)
  <2>1. 1 .. index = (1 .. index - 1) \union {index}
    BY <1>3
  <2>2. QED
    BY <1>3, <2>1, CodeChecks DEF SubscriptionsAreGood
<1>7. index' - 1 = index
  BY <1>1, <1>3
<1>8. PlaceInv'
  BY <1>1, <1>3, FileStays DEF PlaceInv
<1>9. FlagsInv' /\ ValidInv'
  BY <1>1, <1>2, FileStays DEF FlagsInv, ValidInv
<1>10. OkInv'
  <2>1. ok' <=> SubscriptionsAreGood(index)
    BY <1>1, <1>2, <1>3, <1>5, <1>6 DEF OkInv
  <2>2. QED
    BY <1>1, <1>7, <2>1, FileStays DEF OkInv
<1>11. ConfigInv'
  BY <1>1, FileStays DEF ConfigInv
<1>12. FormattersInv'
  <2>1. \A i : OwnConfiguration(i)' <=> OwnConfiguration(i)
    BY <1>1 DEF OwnConfiguration
  <2>2. QED
    BY <1>1, <2>1, FileStays DEF FormattersInv
<1>13. SubscriptionsInv'
  <2>1. ASSUME ok'
        PROVE  /\ DOMAIN subscriptions' = IdsOf(array, index)
               /\ \A i \in 1 .. index : subscriptions'[array[i].id] = Loaded(array[i])
    <3>1. ok /\ isNew /\ AreEventsValid(s) /\ IsDistinct(array, index)
      BY <1>2, <1>5, <2>1
    <3>2. subscriptions' = With(s.id, Loaded(s), subscriptions)
      BY <3>1 DEF LoadSubscription
    <3>3. DOMAIN subscriptions' = IdsOf(array, index)
      BY <1>3, <1>4, <3>1, <3>2, IdsGrow DEF With
    <3>4. ASSUME NEW i \in 1 .. index PROVE subscriptions'[array[i].id] = Loaded(array[i])
      <4>1. CASE i = index
        BY <3>2, <4>1 DEF With
      <4>2. CASE i \in 1 .. index - 1
        <5>1. subscriptions[array[i].id] = Loaded(array[i])
          BY <1>1, <3>1, <4>2 DEF SubscriptionsInv, AreLoaded
        <5>2. array[i].id # s.id /\ array[i].id \in DOMAIN subscriptions
          BY <1>4, <3>1, <4>2 DEF IsDistinct, IdsOf
        <5>3. QED
          BY <3>2, <5>1, <5>2 DEF With
      <4>3. QED
        BY <1>3, <4>1, <4>2
    <3>5. QED
      BY <3>3, <3>4
  <2>2. QED
    BY <1>1, <1>7, <2>1 DEF SubscriptionsInv, AreLoaded
<1>14. QED
  BY <1>8, <1>9, <1>10, <1>11, <1>12, <1>13

LEMMA SubscriptionsEnd == LoadInv /\ SubscriptionsLoaded => LoadInv'
<1> SUFFICES ASSUME LoadInv, SubscriptionsLoaded PROVE LoadInv'
  OBVIOUS
<1> USE DEF LoadInv
<1>1. /\ file' = file /\ section = "subscriptions"
      /\ section' \in {"start", "end"} /\ index' = 1
      /\ limits' = limits /\ formatters' = formatters /\ subscriptions' = subscriptions
      /\ global' = global
  BY DEF SubscriptionsLoaded, NoEntryLeft, EndSection, config
<1>2. /\ valid' \in BOOLEAN /\ ok' \in BOOLEAN /\ result' \in BOOLEAN
      /\ result' <=> valid /\ file.subscriptions # NULL /\ ok
  BY Zenon DEF SubscriptionsLoaded, EndSection, FlagsInv
<1>3. index - 1 = NumSubscriptions /\ file \in Files
  BY <1>1, Lengths DEF PlaceInv, SubscriptionsLoaded, NoEntryLeft, NumSubscriptions
<1>4. file.subscriptions # NULL /\ ok <=> SubscriptionsAreGood(NumSubscriptions)
  <2>1. CASE file.subscriptions = NULL
    BY <2>1 DEF SubscriptionsAreGood
  <2>2. CASE file.subscriptions # NULL
    BY <1>1, <1>3, <2>2 DEF OkInv
  <2>3. QED
    BY <2>1, <2>2
<1>5. result' <=> IsGoodBut(Overlooked)
  BY <1>1, <1>2, <1>3, <1>4, GoodByParts DEF ValidInv
<1>6. PlaceInv'
  BY <1>1 DEF PlaceInv
<1>7. FlagsInv'
  BY <1>1, <1>2 DEF FlagsInv
<1>8. ValidInv' /\ OkInv'
  <2>1. IsGoodBut(Overlooked)' <=> IsGoodBut(Overlooked)
    BY <1>1, FileStays
  <2>2. QED
    BY <1>1, <1>5, <2>1 DEF ValidInv, OkInv
<1>9. ConfigInv'
  BY <1>1, FileStays DEF ConfigInv
<1>10. FormattersInv' /\ SubscriptionsInv'
  <2>1. \A i : OwnConfiguration(i)' <=> OwnConfiguration(i)
    BY <1>1 DEF OwnConfiguration
  <2>2. QED
    BY <1>1, <2>1, FileStays DEF FormattersInv, SubscriptionsInv
<1>11. QED
  BY <1>6, <1>7, <1>8, <1>9, <1>10

(* Once the file is loaded, the invariant says nothing of what changes. *)
LEMMA LoadedStays ==
  ASSUME LoadInv,
         file' = file,
         section' \in {"start", "end", "aborted"}, section \in {"start", "end", "aborted"},
         index' \in Nat \ {0}, valid' \in BOOLEAN, ok' \in BOOLEAN, result' = result,
         config' = config
  PROVE  LoadInv'
<1> USE DEF LoadInv
<1>1. limits' = limits /\ formatters' = formatters /\ global' = global
  BY DEF config
<1>2. PlaceInv'
  BY <1>1 DEF PlaceInv
<1>3. FlagsInv' /\ ValidInv' /\ OkInv'
  <2>1. IsGoodBut(Overlooked)' <=> IsGoodBut(Overlooked)
    BY FileStays
  <2>2. QED
    BY <2>1 DEF FlagsInv, ValidInv, OkInv
<1>4. ConfigInv' /\ SubscriptionsInv'
  BY <1>1, FileStays DEF ConfigInv, SubscriptionsInv
<1>5. FormattersInv'
  <2>1. \A i : OwnConfiguration(i)' <=> OwnConfiguration(i)
    BY <1>1 DEF OwnConfiguration
  <2>2. QED
    BY <1>1, <2>1, FileStays DEF FormattersInv
<1>6. QED
  BY <1>2, <1>3, <1>4, <1>5

LEMMA StartSteps == LoadInv /\ (AddSubscription \/ StartAborts \/ Started) => LoadInv'
<1> SUFFICES ASSUME LoadInv, AddSubscription \/ StartAborts \/ Started PROVE LoadInv'
  OBVIOUS
<1>1. /\ file' = file /\ section = "start" /\ section' \in {"start", "end", "aborted"}
      /\ index' \in Nat \ {0} /\ result' = result /\ config' = config
  <2>1. index \in Nat \ {0}
    BY DEF LoadInv, PlaceInv
  <2>2. QED
    BY <2>1 DEF AddSubscription, StartAborts, Started, NextEntry, EndSection
<1>2. valid' \in BOOLEAN /\ ok' \in BOOLEAN
  <2>1. valid \in BOOLEAN /\ ok \in BOOLEAN
    BY DEF LoadInv, FlagsInv
  <2>2. QED
    BY <2>1, Zenon DEF AddSubscription, StartAborts, Started, NextEntry, EndSection
<1>3. QED
  BY <1>1, <1>2, LoadedStays

LEMMA StandingStill == LoadInv /\ UNCHANGED loadVars => LoadInv'
<1> SUFFICES ASSUME LoadInv, UNCHANGED loadVars PROVE LoadInv'
  OBVIOUS
<1> USE DEF LoadInv
<1>1. /\ file' = file /\ section' = section /\ index' = index /\ result' = result
      /\ limits' = limits /\ formatters' = formatters /\ subscriptions' = subscriptions
      /\ global' = global
  BY DEF loadVars, place, config
<1>2. valid' \in BOOLEAN /\ ok' \in BOOLEAN /\ (valid' <=> valid) /\ (ok' <=> ok)
  BY Zenon DEF loadVars, FlagsInv
<1>3. /\ IsGoodBut(Overlooked)' <=> IsGoodBut(Overlooked)
      /\ \A i : OwnConfiguration(i)' <=> OwnConfiguration(i)
  BY <1>1, FileStays DEF OwnConfiguration
<1>4. PlaceInv' /\ FlagsInv' /\ ConfigInv' /\ SubscriptionsInv'
  BY <1>1, <1>2, FileStays DEF PlaceInv, FlagsInv, ConfigInv, SubscriptionsInv, AreLoaded
<1>5. ValidInv'
  BY <1>1, <1>2, <1>3, FileStays DEF ValidInv
<1>6. OkInv'
  BY <1>1, <1>2, FileStays DEF OkInv
<1>7. FormattersInv'
  BY <1>1, <1>2, <1>3, FileStays DEF FormattersInv
<1>8. QED
  BY <1>4, <1>5, <1>6, <1>7

-----------------------------------------------------------------------------
(* The theorems                                                            *)

(***************************************************************************)
(* Loading always knows what it has read: the flags of load and of the     *)
(* section's function are true exactly if the part of the file before the  *)
(* entry being read is good, and what the good parts left behind is theirs. *)
(***************************************************************************)
THEOREM LoadInvariant == LoadSpec => []LoadInv
<1>1. LoadInv /\ [LoadNext]_loadVars => LoadInv'
  BY GlobalStep, LimitStep, LimitsEnd, ForwarderStep, FormatterStep, FormattersEnd,
     SubscriptionStep, SubscriptionsEnd, StartSteps, StandingStill DEF LoadNext
<1>2. QED
  BY <1>1, StartsLoading, PTL DEF LoadSpec

(***************************************************************************)
(* ServiceConfig::load accepts every file without a defect, and otherwise  *)
(* exactly those whose defects are all of the kinds it overlooks: over all *)
(* sections and entries no other is forgotten, and none is made up.        *)
(***************************************************************************)
THEOREM AcceptsExactlyGoodFiles == LoadSpec => []LoadsExactlyGoodFiles
<1>1. IsGoodBut({}) => IsGoodBut(Overlooked)
  <2>1. \A digits : IsSegment(digits, {}) => IsSegment(digits, Overlooked)
    BY DEF IsSegment
  <2>2. GlobalIsGood({}) => GlobalIsGood(Overlooked)
    BY <2>1 DEF GlobalIsGood
  <2>3. ForwarderIsGood({}) => ForwarderIsGood(Overlooked)
    BY DEF ForwarderIsGood, HasItsTypes
  <2>4. \A f : FormatterIsGood(f, {}) => FormatterIsGood(f, Overlooked)
    BY DEF FormatterIsGood, LengthIsGood, HasItsTypes
  <2>5. \A s : SubscriptionIsGood(s, {}) => SubscriptionIsGood(s, Overlooked)
    BY DEF SubscriptionIsGood, HasItsTypes
  <2>6. QED
    BY <2>2, <2>3, <2>4, <2>5 DEF IsGoodBut
<1>2. LoadInv => LoadsExactlyGoodFiles
  <2> SUFFICES ASSUME LoadInv, result # NULL
               PROVE  (IsGoodBut({}) => result) /\ result = IsGoodBut(Overlooked)
    BY DEF LoadsExactlyGoodFiles
  <2>1. section \in {"start", "end", "aborted"}
    BY DEF LoadInv, FlagsInv
  <2>2. result \in BOOLEAN /\ IsGoodBut(Overlooked) \in BOOLEAN
    BY <2>1 DEF LoadInv, FlagsInv, IsGoodBut
  <2>3. result <=> IsGoodBut(Overlooked)
    BY <2>1 DEF LoadInv, ValidInv
  <2>4. result = IsGoodBut(Overlooked)
    BY <2>2, <2>3, Zenon
  <2>5. QED
    BY <1>1, <2>3, <2>4
<1>3. QED
  BY <1>2, LoadInvariant, PTL

(***************************************************************************)
(* In an accepted file every formatter has the configuration of its own    *)
(* section, whatever the entries before it left in formatter_config; of    *)
(* max_syslog_sd_length, which reaches later formatters, nothing is said.  *)
(***************************************************************************)
THEOREM FormattersKeepTheirOwn == LoadSpec => []FormattersAreApart
<1>1. LoadInv => FormattersAreApart
  <2> SUFFICES ASSUME LoadInv, result = TRUE, NEW i \in 1 .. Len(file.formatters)
               PROVE  OwnConfiguration(i)
    BY DEF FormattersAreApart, OwnConfiguration
  <2>1. file \in Files
    BY DEF LoadInv, PlaceInv
  <2>2. section \in {"start", "end", "aborted"} \/ result = NULL
    BY DEF LoadInv, FlagsInv
  <2>3. section \in {"start", "end", "aborted"}
    BY <2>2, ConfigAssumption
  <2>4. UpToForwarder /\ FormattersAreGood(NumFormatters)
    BY <2>1, <2>3, GoodByParts DEF LoadInv, ValidInv
  <2>5. i \in 1 .. NumFormatters
    BY <2>1, <2>4, Lengths DEF FormattersAreGood
  <2>6. QED
    BY <2>3, <2>4, <2>5 DEF LoadInv, FormattersInv
<1>2. QED
  BY <1>1, LoadInvariant, PTL

-----------------------------------------------------------------------------
(* The order of a map                                                      *)

(***************************************************************************)
(* IdAt visits every id of a finite map: the number of ids up to an id is  *)
(* one-to-one, and there are as many such numbers as ids.                  *)
(***************************************************************************)
LEMMA AllAreVisited ==
  ASSUME Ids \subseteq Int, IsFiniteSet(Ids)
  PROVE  /\ Cardinality(Ids) \in Nat
         /\ \A k \in 1 .. Cardinality(Ids) : IdAt(k) \in Ids
         /\ \A id \in Ids : \E k \in 1 .. Cardinality(Ids) : IdAt(k) = id
<1> DEFINE n == Cardinality(Ids)
           upTo(id) == {i \in Ids : i <= id}
           rank == [id \in Ids |-> Cardinality(upTo(id))]
<1>1. n \in Nat
  BY FS_CardinalityType
<1>2. ASSUME NEW id \in Ids PROVE IsFiniteSet(upTo(id)) /\ Cardinality(upTo(id)) \in 1 .. n
  <2>1. upTo(id) \in SUBSET Ids /\ id \in upTo(id)
    OBVIOUS
  <2> HIDE DEF upTo
  <2>2. IsFiniteSet(upTo(id)) /\ Cardinality(upTo(id)) <= n
    BY <2>1, FS_Subset
  <2>3. Cardinality(upTo(id)) \in Nat
    BY <2>2, FS_CardinalityType
  <2>4. Cardinality(upTo(id)) # 0
    BY <2>1, <2>2, FS_EmptySet
  <2>5. QED
    BY <1>1, <2>2, <2>3, <2>4
<1>3. ASSUME NEW i \in Ids, NEW j \in Ids, rank[i] = rank[j], i < j PROVE FALSE
  <2>1. upTo(i) \in SUBSET upTo(j) /\ j \notin upTo(i) /\ j \in upTo(j)
    <3>1. i \in Int /\ j \in Int /\ \A k \in Ids : k \in Int
      OBVIOUS
    <3>2. j <= j /\ ~(j <= i) /\ \A k \in Ids : k <= i => k <= j
      BY <1>3, <3>1
    <3>3. QED
      BY <3>2
  <2>2. Cardinality(upTo(i)) = Cardinality(upTo(j))
    BY <1>3
  <2> HIDE DEF upTo
  <2>3. upTo(i) = upTo(j)
    BY <1>2, <2>1, <2>2, FS_Subset
  <2>4. QED
    BY <2>1, <2>3
<1>4. \A i, j \in Ids : rank[i] = rank[j] => i = j
  <2> SUFFICES ASSUME NEW i \in Ids, NEW j \in Ids, rank[i] = rank[j] PROVE i = j
    OBVIOUS
  <2> HIDE DEF rank
  <2>1. i \in Int /\ j \in Int
    OBVIOUS
  <2>2. i < j \/ j < i \/ i = j
    BY <2>1
  <2>3. QED
    BY <1>3, <2>2
<1>5. rank \in [Ids -> 1 .. n]
  BY <1>2
<1> HIDE DEF rank, n
<1>6. rank \in Injection(Ids, 1 .. n)
  BY <1>4, <1>5 DEF Injection, IsInjective
<1>7. IsFiniteSet(1 .. n) /\ Cardinality(1 .. n) = n
  BY <1>1, FS_Interval
<1>8. rank \in Surjection(Ids, 1 .. n)
  BY <1>6, <1>7, FS_Injection DEF n
<1>9. \A id \in Ids : IdAt(rank[id]) = id
  <2> SUFFICES ASSUME NEW id \in Ids PROVE IdAt(rank[id]) = id
    OBVIOUS
  <2>1. \A i \in Ids : Cardinality({j \in Ids : j <= i}) = rank[i]
    BY DEF rank
  <2>2. \A i \in Ids : Cardinality({j \in Ids : j <= i}) = rank[id] => i = id
    BY <1>4, <2>1
  <2>3. Cardinality({j \in Ids : j <= id}) = rank[id]
    BY <2>1
  <2>4. QED
    BY <2>2, <2>3, Zenon DEF IdAt
<1>10. \A k \in 1 .. n : \E id \in Ids : rank[id] = k
  BY <1>8 DEF Surjection
<1>11. QED
  BY <1>1, <1>5, <1>9, <1>10 DEF n

-----------------------------------------------------------------------------
(* What the collector has of the subscriptions visited so far              *)

Visited == {IdAt(k) : k \in 1 .. index - 1}
Considered == IF section = "end" THEN Ids ELSE Visited

Configured == {formatters[f] : f \in DOMAIN formatters}

(* A subscription that is not left out names a channel that is unknown. *)
AbortedRightly ==
  \E i \in 1 .. NumSubscriptions :
    LET s == file.subscriptions[i]
    IN  s.channel \in Unknown /\ Read(s.filter) = NULL /\ s.formatter \in DOMAIN formatters

ActiveInv ==
  /\ section \notin {"start", "end", "aborted"} => active = <<>>
  /\ section \in {"start", "aborted"} => result = TRUE
  /\ section = "aborted" => AbortedRightly
  /\ section \in {"start", "end", "aborted"} /\ result = TRUE =>
       /\ Ids = IdsOf(file.subscriptions, NumSubscriptions)
       /\ AreLoaded(NumSubscriptions)
       /\ active \in Seq([id : Ids, formatter : Configured])
       /\ \A a \in 1 .. Len(active) :
            /\ active[a].id \in Considered
            /\ IsServed(subscriptions[active[a].id])
            /\ active[a].formatter = formatters[subscriptions[active[a].id].formatter]
       /\ \A a, b \in 1 .. Len(active) :
            Canonical[active[a].id] = Canonical[active[b].id] => a = b
       /\ \A id \in Considered : IsServed(subscriptions[id]) => IsDuplicate(id)

(* The ids of a good file are numbers, and finitely many. *)
LEMMA GoodIds ==
  ASSUME LoadInv, ActiveInv, section \in {"start", "end", "aborted"}, result = TRUE
  PROVE  Ids \subseteq Int /\ IsFiniteSet(Ids)
<1>1. file \in Files /\ IsGoodBut(Overlooked)
  BY DEF LoadInv, PlaceInv, ValidInv
<1>2. file.subscriptions # NULL /\ NumSubscriptions \in Nat
      /\ NumSubscriptions = Len(file.subscriptions)
  BY <1>1, Lengths DEF IsGoodBut
<1>3. \A i \in 1 .. NumSubscriptions :
        file.subscriptions[i].id # NULL /\ file.subscriptions[i].id \in Int \union {NULL}
  BY <1>1, <1>2, FilesAssumption DEF IsGoodBut, DistinctIds
<1>4. Ids = {file.subscriptions[i].id : i \in 1 .. NumSubscriptions}
  BY DEF ActiveInv, IdsOf
<1>5. Ids \subseteq Int
  BY <1>3, <1>4
<1> DEFINE f == [i \in 1 .. NumSubscriptions |-> file.subscriptions[i].id]
<1>6. f \in Surjection(1 .. NumSubscriptions, Ids)
  BY <1>4 DEF Surjection
<1>7. IsFiniteSet(1 .. NumSubscriptions)
  BY <1>2, FS_Interval
<1>8. IsFiniteSet(Ids)
  BY <1>6, <1>7, FS_Surjection
<1>9. QED
  BY <1>5, <1>8

LEMMA NothingIsActive == LoadInit => ActiveInv
BY DEF LoadInit, ActiveInv

(* Nothing is added before the file is loaded. *)
LEMMA LoadingSteps ==
  ASSUME LoadInv, ActiveInv,
         LoadGlobal \/ LoadLimit \/ LimitsLoaded \/ LoadForwarder \/ LoadFormatter
           \/ FormattersLoaded \/ LoadSubscription
  PROVE  ActiveInv'
<1>1. /\ section' \notin {"start", "end", "aborted"}
      /\ section \notin {"start", "end", "aborted"} /\ active' = active
  BY DEF LoadGlobal, LoadLimit, LimitsLoaded, LoadForwarder, LoadFormatter, FormattersLoaded,
         LoadSubscription, EndSection, NextEntry, HasEntry, NoEntryLeft
<1>2. QED
  BY <1>1 DEF ActiveInv

LEMMA LoadingEnds == LoadInv /\ ActiveInv /\ SubscriptionsLoaded => ActiveInv'
<1> SUFFICES ASSUME LoadInv, ActiveInv, SubscriptionsLoaded PROVE ActiveInv'
  OBVIOUS
<1>1. /\ section = "subscriptions" /\ section' \in {"start", "end"} /\ index' = 1
      /\ file' = file /\ formatters' = formatters /\ subscriptions' = subscriptions
      /\ active' = active
  BY DEF SubscriptionsLoaded, NoEntryLeft, EndSection, config
<1>2. /\ result' \in BOOLEAN
      /\ result' <=> valid /\ file.subscriptions # NULL /\ ok
      /\ section' = "start" <=> valid /\ file.subscriptions # NULL /\ ok
  BY Zenon DEF SubscriptionsLoaded, EndSection, FlagsInv, LoadInv
<1>3. active' = <<>>
  BY <1>1 DEF ActiveInv
<1>4. section' = "start" <=> result' = TRUE
  BY <1>2, Zenon
<1>5. index - 1 = NumSubscriptions
  BY <1>1, Lengths DEF LoadInv, PlaceInv, SubscriptionsLoaded, NoEntryLeft, NumSubscriptions
<1>6. result' = TRUE =>
        Ids = IdsOf(file.subscriptions, NumSubscriptions) /\ AreLoaded(NumSubscriptions)
  BY <1>1, <1>2, <1>5 DEF LoadInv, SubscriptionsInv, Ids
<1>7. /\ Ids' = Ids
      /\ IdsOf(file.subscriptions, NumSubscriptions)' = IdsOf(file.subscriptions, NumSubscriptions)
      /\ AreLoaded(NumSubscriptions)' <=> AreLoaded(NumSubscriptions)
  BY <1>1, FileStays DEF Ids, IdsOf, AreLoaded
<1>8. result' = TRUE => Considered' = {}
  BY <1>1, <1>4 DEF Considered, Visited
<1>9. QED
  BY <1>1, <1>3, <1>4, <1>6, <1>7, <1>8 DEF ActiveInv

(* The definitions that depend on what was loaded only. *)
LEMMA LoadedIsFixed ==
  ASSUME config' = config, file' = file
  PROVE  /\ Ids' = Ids /\ Configured' = Configured
         /\ formatters' = formatters /\ subscriptions' = subscriptions
         /\ IdsOf(file.subscriptions, NumSubscriptions)' = IdsOf(file.subscriptions, NumSubscriptions)
         /\ AreLoaded(NumSubscriptions)' <=> AreLoaded(NumSubscriptions)
         /\ AbortedRightly' <=> AbortedRightly
         /\ \A k : IdAt(k)' = IdAt(k)
         /\ \A s : IsServed(s)' <=> IsServed(s)
BY FileStays
  DEF config, Ids, Configured, IdsOf, IdAt, IsServed, HasContext, AreLoaded, AbortedRightly

LEMMA AddStep == LoadInv /\ ActiveInv /\ AddSubscription => ActiveInv'
<1> SUFFICES ASSUME LoadInv, ActiveInv, AddSubscription PROVE ActiveInv'
  OBVIOUS
<1> DEFINE id == IdAt(index)
           s == subscriptions[id]
           new == [id |-> id, formatter |-> formatters[s.formatter]]
           adds == ~IsDuplicate(id) /\ IsServed(s)
<1>1. /\ section = "start" /\ section' = "start" /\ index' = index + 1
      /\ file' = file /\ config' = config /\ result' = result
      /\ index \in 1 .. Cardinality(Ids)
      /\ active' = IF adds THEN Append(active, new) ELSE active
  <2>1. Cardinality(Ids) \in Nat
    BY GoodIds, FS_CardinalityType DEF AddSubscription, ActiveInv
  <2>2. QED
    BY <2>1 DEF AddSubscription, NextEntry, LoadInv, PlaceInv
<1>2. result = TRUE
  BY <1>1 DEF ActiveInv
<1>3. id \in Ids
  BY <1>1, <1>2, GoodIds, AllAreVisited
<1>4. active \in Seq([id : Ids, formatter : Configured])
  BY <1>1, <1>2 DEF ActiveInv
<1>5. Visited' = Visited \union {id}
  <2>1. 1 .. index = (1 .. index - 1) \union {index}
    BY <1>1
  <2>2. 1 .. index' - 1 = 1 .. index
    BY <1>1
  <2>3. Visited' = {IdAt(k) : k \in 1 .. index}
    BY <1>1, <2>2, LoadedIsFixed DEF Visited
  <2>4. QED
    BY <2>1, <2>3 DEF Visited
<1>6. Considered = Visited /\ Considered' = Visited \union {id}
  BY <1>1, <1>5 DEF Considered
<1> HIDE DEF id
<1>7. CASE ~adds
  <2>1. active' = active
    BY <1>1, <1>7
  <2>2. \A i : IsDuplicate(i)' <=> IsDuplicate(i)
    BY <2>1 DEF IsDuplicate
  <2>3. IsServed(s) => IsDuplicate(id)
    BY <1>7
  <2>4. QED
    BY <1>1, <1>2, <1>6, <2>1, <2>2, <2>3, LoadedIsFixed DEF ActiveInv
<1>8. CASE adds
  <2>1. active' = Append(active, new)
    BY <1>1, <1>8
  <2>2. new \in [id : Ids, formatter : Configured]
    BY <1>3, <1>8 DEF IsServed, HasContext, Configured
  <2> HIDE DEF new
  <2>3. /\ active' \in Seq([id : Ids, formatter : Configured])
        /\ Len(active) \in Nat /\ Len(active') = Len(active) + 1
        /\ \A a \in 1 .. Len(active) : active'[a] = active[a]
        /\ active'[Len(active) + 1] = new
    BY <1>4, <2>1, <2>2
  <2>4. 1 .. Len(active') = (1 .. Len(active)) \union {Len(active) + 1}
    BY <2>3
  <2>5. new.id = id /\ new.formatter = formatters[s.formatter]
    BY DEF new
  <2>6. \A a \in 1 .. Len(active') :
          /\ active'[a].id \in Considered'
          /\ IsServed(subscriptions[active'[a].id])
          /\ active'[a].formatter = formatters[subscriptions[active'[a].id].formatter]
    <3>1. ASSUME NEW a \in 1 .. Len(active)
          PROVE  /\ active'[a].id \in Considered'
                 /\ IsServed(subscriptions[active'[a].id])
                 /\ active'[a].formatter = formatters[subscriptions[active'[a].id].formatter]
      BY <1>1, <1>2, <1>6, <2>3 DEF ActiveInv
    <3>2. /\ new.id \in Considered' /\ IsServed(subscriptions[new.id])
          /\ new.formatter = formatters[subscriptions[new.id].formatter]
      BY <1>6, <1>8, <2>5
    <3>3. QED
      BY <2>3, <2>4, <3>1, <3>2
  <2>7. \A a \in 1 .. Len(active) : Canonical[active[a].id] # Canonical[id]
    BY <1>8 DEF IsDuplicate
  <2>8. \A a, b \in 1 .. Len(active') :
          Canonical[active'[a].id] = Canonical[active'[b].id] => a = b
    <3>1. \A a, b \in 1 .. Len(active) :
            Canonical[active[a].id] = Canonical[active[b].id] => a = b
      BY <1>1, <1>2 DEF ActiveInv
    <3>2. QED
      BY <2>3, <2>4, <2>5, <2>7, <3>1
  <2>9. \A i : IsDuplicate(i) => IsDuplicate(i)'
    BY <2>3, <2>4 DEF IsDuplicate
  <2>10. \A i : i = id => IsDuplicate(i)'
    BY <2>3, <2>4, <2>5 DEF IsDuplicate
  <2>11. \A i \in Considered' : IsServed(subscriptions[i]) => IsDuplicate(i)'
    BY <1>1, <1>2, <1>6, <2>9, <2>10 DEF ActiveInv
  <2>12. \A i : IsServed(i)' <=> IsServed(i)
    BY <1>1, LoadedIsFixed
  <2>13. Ids' = IdsOf(file.subscriptions, NumSubscriptions)'
    BY <1>1, <1>2, LoadedIsFixed DEF ActiveInv
  <2>14. active' \in Seq([id : Ids, formatter : Configured])'
    BY <1>1, <2>3, LoadedIsFixed
  <2>15. QED
    BY <1>1, <1>2, <2>6, <2>8, <2>11, <2>12, <2>13, <2>14, LoadedIsFixed DEF ActiveInv
<1>9. QED
  BY <1>7, <1>8

LEMMA AbortStep == LoadInv /\ ActiveInv /\ StartAborts => ActiveInv'
<1> SUFFICES ASSUME LoadInv, ActiveInv, StartAborts PROVE ActiveInv'
  OBVIOUS
<1> DEFINE id == IdAt(index)
           s == subscriptions[id]
<1>1. /\ section = "start" /\ section' = "aborted" /\ index' = index
      /\ file' = file /\ config' = config /\ active' = active /\ result' = result
      /\ index <= Cardinality(Ids) /\ HasContext(s) /\ s.channel \in Unknown
  BY DEF StartAborts
<1>2. result = TRUE
  BY <1>1 DEF ActiveInv
<1>3. AbortedRightly
  <2>1. index \in 1 .. Cardinality(Ids)
    BY <1>1, <1>2, GoodIds, FS_CardinalityType DEF LoadInv, PlaceInv
  <2>2. id \in IdsOf(file.subscriptions, NumSubscriptions)
    BY <1>1, <1>2, <2>1, GoodIds, AllAreVisited DEF ActiveInv
  <2> HIDE DEF id
  <2>3. PICK i \in 1 .. NumSubscriptions : file.subscriptions[i].id = id
    BY <2>2 DEF IdsOf
  <2>4. s = Loaded(file.subscriptions[i])
    BY <1>1, <1>2, <2>3 DEF ActiveInv, AreLoaded
  <2>5. QED
    BY <1>1, <2>4 DEF AbortedRightly, HasContext, Loaded
<1>4. Considered = Visited /\ Considered' = Visited
  BY <1>1, LoadedIsFixed DEF Considered, Visited
<1>5. \A i : IsDuplicate(i)' <=> IsDuplicate(i)
  BY <1>1 DEF IsDuplicate
<1>6. QED
  BY <1>1, <1>2, <1>3, <1>4, <1>5, LoadedIsFixed DEF ActiveInv

LEMMA StartEnds == LoadInv /\ ActiveInv /\ Started => ActiveInv'
<1> SUFFICES ASSUME LoadInv, ActiveInv, Started PROVE ActiveInv'
  OBVIOUS
<1>1. /\ section = "start" /\ section' = "end" /\ file' = file /\ config' = config
      /\ active' = active /\ result' = result /\ index > Cardinality(Ids)
  BY DEF Started, EndSection
<1>2. result = TRUE
  BY <1>1 DEF ActiveInv
<1>3. Ids \subseteq Visited
  <2>1. Cardinality(Ids) \in Nat /\ index \in Nat
    BY <1>1, <1>2, GoodIds, AllAreVisited DEF LoadInv, PlaceInv
  <2>2. \A k \in 1 .. Cardinality(Ids) : k \in 1 .. index - 1
    BY <1>1, <2>1
  <2>3. \A id \in Ids : \E k \in 1 .. Cardinality(Ids) : IdAt(k) = id
    BY <1>1, <1>2, GoodIds, AllAreVisited
  <2>4. QED
    BY <2>2, <2>3 DEF Visited
<1>4. Considered = Visited /\ Considered' = Ids
  BY <1>1, LoadedIsFixed DEF Considered
<1>5. \A a \in 1 .. Len(active) : active[a].id \in Ids
  <2> DEFINE Entry == [id : Ids, formatter : Configured]
  <2>1. active \in Seq(Entry)
    BY <1>1, <1>2 DEF ActiveInv
  <2>2. \A e \in Entry : e.id \in Ids
    OBVIOUS
  <2> HIDE DEF Entry
  <2>3. QED
    BY <2>1, <2>2
<1>6. \A id \in Ids : IsServed(subscriptions[id]) => IsDuplicate(id)
  BY <1>1, <1>2, <1>3, <1>4 DEF ActiveInv
<1>7. \A i : IsDuplicate(i)' <=> IsDuplicate(i)
  BY <1>1 DEF IsDuplicate
<1>8. QED
  BY <1>1, <1>2, <1>4, <1>5, <1>6, <1>7, LoadedIsFixed DEF ActiveInv

LEMMA ActiveStandsStill == ActiveInv /\ UNCHANGED loadVars => ActiveInv'
<1> SUFFICES ASSUME ActiveInv, UNCHANGED loadVars PROVE ActiveInv'
  OBVIOUS
<1>1. /\ section' = section /\ index' = index /\ file' = file /\ config' = config
      /\ active' = active /\ result' = result
  BY DEF loadVars, place
<1>2. Considered' = Considered
  BY <1>1, LoadedIsFixed DEF Considered, Visited
<1>3. \A i : IsDuplicate(i)' <=> IsDuplicate(i)
  BY <1>1 DEF IsDuplicate
<1>4. QED
  BY <1>1, <1>2, <1>3, LoadedIsFixed DEF ActiveInv

(***************************************************************************)
(* However many subscriptions an accepted file has, of those whose ids     *)
(* differ in case only the collector has at most one, with the formatter   *)
(* the file names; unless the start is aborted, it has one of each that    *)
(* the log service accepts, and only a subscription to a channel that      *)
(* cannot be subscribed to aborts it (ServiceContext::start,               *)
(* EventCollector::add_subscription).                                      *)
(***************************************************************************)
THEOREM SubscriptionsAreServed == LoadSpec => []EachSubscriptionOnce
<1>1. LoadInv /\ ActiveInv /\ [LoadNext]_loadVars => ActiveInv'
  BY LoadingSteps, LoadingEnds, AddStep, AbortStep, StartEnds, ActiveStandsStill DEF LoadNext
<1>2. LoadInv /\ ActiveInv => EachSubscriptionOnce
  <2> SUFFICES ASSUME LoadInv, ActiveInv, result = TRUE PROVE EachSubscriptionOnce
    BY DEF EachSubscriptionOnce
  <2>1. section \in {"start", "end", "aborted"}
    BY ConfigAssumption DEF LoadInv, FlagsInv
  <2>2. NumSubscriptions = Len(file.subscriptions)
    BY <2>1, Lengths DEF LoadInv, PlaceInv, ValidInv, IsGoodBut
  <2>3. /\ \A a, b \in 1 .. Len(active) :
             Canonical[active[a].id] = Canonical[active[b].id] => a = b
        /\ \A a \in 1 .. Len(active) :
             /\ IsServed(subscriptions[active[a].id])
             /\ active[a].formatter = formatters[subscriptions[active[a].id].formatter]
    BY <2>1 DEF ActiveInv
  <2>4. ASSUME section = "end", NEW i \in 1 .. Len(file.subscriptions),
               IsServed(subscriptions[file.subscriptions[i].id])
        PROVE  \E a \in 1 .. Len(active) :
                 Canonical[active[a].id] = Canonical[file.subscriptions[i].id]
    <3>1. file.subscriptions[i].id \in Ids
      BY <2>1, <2>2, <2>4 DEF ActiveInv, IdsOf
    <3>2. IsDuplicate(file.subscriptions[i].id)
      BY <2>1, <2>4, <3>1 DEF ActiveInv, Considered
    <3>3. QED
      BY <3>2 DEF IsDuplicate
  <2>5. ASSUME section = "aborted"
        PROVE  \E i \in 1 .. Len(file.subscriptions) :
                 LET s == file.subscriptions[i]
                 IN  /\ s.channel \in Unknown /\ Read(s.filter) = NULL
                     /\ s.formatter \in DOMAIN formatters
    BY <2>2, <2>5 DEF ActiveInv, AbortedRightly
  <2>6. QED
    BY <2>3, <2>4, <2>5 DEF EachSubscriptionOnce
<1>3. QED
  BY <1>1, <1>2, NothingIsActive, LoadInvariant, PTL DEF LoadSpec
=============================================================================
