------------------------- MODULE EventCollectorProofs -------------------------
(***************************************************************************)
(* What holds of EventCollector for every number of subscriptions up to    *)
(* the size of wait_event's array, and for all numbers of events, sizes of *)
(* batches and of the queue, and failures.                                 *)
(***************************************************************************)
EXTENDS EventCollector, TLAPS, FiniteSetTheorems, SequenceTheorems

(***************************************************************************)
(* What the queue does to the events it accepted.                          *)
(***************************************************************************)
LEMMA PopMovesNothing ==
  ASSUME NEW f \in Seq(Event), NEW q \in Seq(Event), q # <<>>
  PROVE  Append(f, Head(q)) \o Tail(q) = f \o q
<1> DEFINE a == Append(f, Head(q))
<1>1. Head(q) = q[1] /\ Head(q) \in Event /\ Len(q) >= 1
  BY EmptySeq, HeadTailProperties, LenProperties
<1>2. /\ Tail(q) \in Seq(Event) /\ Len(Tail(q)) = Len(q) - 1
      /\ \A i \in 1 .. Len(Tail(q)) : Tail(q)[i] = q[i + 1]
  BY HeadTailProperties
<1>3. /\ a \in Seq(Event) /\ Len(a) = Len(f) + 1
      /\ \A i \in 1 .. Len(f) : a[i] = f[i]
      /\ a[Len(f) + 1] = q[1]
  BY <1>1, AppendProperties
<1> HIDE DEF a
<1>4. /\ a \o Tail(q) \in Seq(Event) /\ Len(a \o Tail(q)) = Len(a) + Len(Tail(q))
      /\ \A i \in 1 .. Len(a) + Len(Tail(q)) :
           (a \o Tail(q))[i] = IF i <= Len(a) THEN a[i] ELSE Tail(q)[i - Len(a)]
  BY <1>2, <1>3, ConcatProperties
<1>5. /\ f \o q \in Seq(Event) /\ Len(f \o q) = Len(f) + Len(q)
      /\ \A i \in 1 .. Len(f) + Len(q) : (f \o q)[i] = IF i <= Len(f) THEN f[i] ELSE q[i - Len(f)]
  BY ConcatProperties
<1>6. Len(f) \in Nat /\ Len(q) \in Nat
  BY LenProperties
<1>7. \A i \in 1 .. Len(a \o Tail(q)) : (a \o Tail(q))[i] = (f \o q)[i]
  BY <1>1, <1>2, <1>3, <1>4, <1>5, <1>6
<1>8. Len(a \o Tail(q)) = Len(f \o q)
  BY <1>2, <1>3, <1>4, <1>5, <1>6
<1>9. a \o Tail(q) = f \o q
  BY <1>4, <1>5, <1>7, <1>8, SeqEqual
<1>10. QED
  BY <1>9 DEF a

LEMMA PushAppends ==
  ASSUME NEW f \in Seq(Event), NEW q \in Seq(Event), NEW e \in Event
  PROVE  f \o Append(q, e) = Append(f \o q, e)
<1>1. <<e>> \in Seq(Event) /\ f \o q \in Seq(Event)
  BY ConcatProperties
<1>2. Append(q, e) = q \o <<e>> /\ Append(f \o q, e) = (f \o q) \o <<e>>
  BY <1>1, AppendIsConcat
<1>3. QED
  BY <1>1, <1>2, ConcatAssociative

LEMMA OfSubAppend ==
  ASSUME NEW q \in Seq(Event), NEW e \in Event, NEW s \in Subs
  PROVE  OfSub(Append(q, e), s) = OfSub(q, s) + (IF e[1] = s THEN 1 ELSE 0)
<1> DEFINE A == {i \in 1 .. Len(q) : q[i][1] = s}
           B == {i \in 1 .. Len(Append(q, e)) : Append(q, e)[i][1] = s}
           n == Len(q) + 1
<1>1. /\ Len(q) \in Nat /\ Len(Append(q, e)) = n
      /\ \A i \in 1 .. Len(q) : Append(q, e)[i] = q[i]
      /\ Append(q, e)[n] = e
  BY AppendProperties, LenProperties
<1>2. B = IF e[1] = s THEN A \union {n} ELSE A
  BY <1>1
<1>3. IsFiniteSet(A) /\ Cardinality(A) \in Nat /\ n \notin A
  <2>1. IsFiniteSet(1 .. Len(q))
    BY <1>1, FS_Interval
  <2>2. IsFiniteSet(A)
    BY <2>1, FS_Subset
  <2>3. QED
    BY <1>1, <2>2, FS_CardinalityType
<1> HIDE DEF A, B, n
<1>4. Cardinality(A \union {n}) = Cardinality(A) + 1
  BY <1>3, FS_AddElement
<1>5. Cardinality(B) = Cardinality(A) + (IF e[1] = s THEN 1 ELSE 0)
  BY <1>2, <1>3, <1>4
<1>6. QED
  BY <1>5 DEF OfSub, A, B

LEMMA OfSubEmpty == \A s : OfSub(<<>>, s) = 0
<1> SUFFICES ASSUME NEW s PROVE OfSub(<<>>, s) = 0
  OBVIOUS
<1>1. {i \in 1 .. Len(<<>>) : <<>>[i][1] = s} = {}
  OBVIOUS
<1>2. QED
  BY <1>1, FS_EmptySet DEF OfSub

-----------------------------------------------------------------------------
(***************************************************************************)
(* The inductive invariant: where the collector is between two             *)
(* subscriptions it holds no batch, and an event is pushed from the batch  *)
(* it is in.                                                               *)
(***************************************************************************)
ControlOK ==
  /\ pc \in {"signal", "reset", "fetch", "handle", "push"} => sub \in Subs
  /\ pc \notin {"handle", "push"} => batch = 0
  /\ pc = "push" => HasNext
  /\ stopPc = "mark" => stopSub \in Subs

(* The events of a log that the collector is done with. *)
Taken(s) == fetched[s] - (IF s = sub THEN batch ELSE 0)

(* The queue accepted no event that is still in the log or in the batch. *)
AcceptedIsTaken ==
  \A i \in 1 .. Len(accepted) : accepted[i][2] \in 1 .. Taken(accepted[i][1])

CollectorInv == TypeOK /\ ControlOK /\ Accounting /\ AcceptedIsTaken /\ InOrder

LEMMA Bounds ==
  /\ NumSubs \in Nat /\ NumSubs > 0
  /\ \A s : s \in Subs <=> s \in Nat /\ 1 <= s /\ s <= NumSubs
  /\ BatchSize \in Nat /\ MaxFetchFailures \in Nat
  /\ \A s \in Subs : MaxEvents[s] \in Nat
BY CollectorAssumption DEF Subs

(***************************************************************************)
(* The batch is part of what was fetched of its log.                       *)
(***************************************************************************)
LEMMA TakenIsNat ==
  ASSUME TypeOK, Accounting, NEW s \in Subs
  PROVE  Taken(s) \in Nat
<1>1. /\ stats[s]["success"] \in Nat /\ stats[s]["filtered"] \in Nat
      /\ stats[s]["failed"] \in Nat
      /\ fetched[s] \in Nat /\ batch \in Nat
  BY Bounds DEF TypeOK, SubscriptionOK, CollectorOK, Outcomes
<1>2. QED
  BY <1>1 DEF Accounting, Taken

(***************************************************************************)
(* The event at the front of the batch is one of its log, and the next     *)
(* after those that were taken.                                            *)
(***************************************************************************)
LEMMA CurrentIsEvent ==
  ASSUME TypeOK, Accounting, sub \in Subs, HasNext
  PROVE  /\ Current \in Event /\ Current[1] = sub
         /\ Current[2] = Taken(sub) + 1
         /\ fetched[sub] - batch \in Nat
<1>1. fetched[sub] \in Nat /\ batch \in Nat
  BY DEF TypeOK, SubscriptionOK, CollectorOK
<1>2. fetched[sub] - batch \in Nat
  BY TakenIsNat DEF Taken
<1>3. QED
  BY <1>1, <1>2 DEF Current, Taken, Event

(***************************************************************************)
(* Every state is well typed: the collector fetches no event that was not  *)
(* published, and the queue holds no more than its capacity.               *)
(***************************************************************************)
LEMMA FrameTypes ==
  /\ ServiceOK /\ UNCHANGED service => ServiceOK'
  /\ SubscriptionOK /\ UNCHANGED <<published, subscription>> => SubscriptionOK'
  /\ CollectorOK /\ UNCHANGED collector => CollectorOK'
  /\ ChannelOK /\ UNCHANGED channel => ChannelOK'
  /\ StopperOK /\ UNCHANGED stopper => StopperOK'
BY DEF ServiceOK, SubscriptionOK, CollectorOK, ChannelOK, StopperOK,
       service, subscription, collector, channel, stopper

LEMMA StepsKeepTypes ==
  ASSUME TypeOK, ControlOK, Accounting, [Next]_vars
  PROVE  TypeOK' /\ ControlOK'
<1> USE Bounds
<1> USE DEF TypeOK
<1>1. ASSUME NEW s \in Subs, Publish(s)
      PROVE  TypeOK' /\ ControlOK'
  <2>1. UNCHANGED <<subscription, collector, channel, stopper>>
    BY <1>1 DEF Publish
  <2>2. /\ published[s] < MaxEvents[s]
        /\ published' = [published EXCEPT ![s] = @ + 1]
        /\ unsignalled' = [unsignalled EXCEPT ![s] = TRUE]
    BY <1>1 DEF Publish
  <2>3. ServiceOK'
    BY <2>2 DEF ServiceOK
  <2>4. SubscriptionOK'
    BY <2>1, <2>2 DEF SubscriptionOK, ServiceOK, subscription
  <2>5. QED
    BY <2>1, <2>3, <2>4, FrameTypes DEF ControlOK, HasNext, collector, stopper
<1>2. ASSUME NEW s \in Subs, SetSignal(s)
      PROVE  TypeOK' /\ ControlOK'
  <2>1. UNCHANGED <<collector, channel, stopper>>
    BY <1>2 DEF SetSignal
  <2>2. /\ unsignalled' = [unsignalled EXCEPT ![s] = FALSE]
        /\ signal' = [signal EXCEPT ![s] = TRUE]
        /\ UNCHANGED <<published, fetched, drained, stats>>
    BY <1>2 DEF SetSignal
  <2>3. ServiceOK'
    BY <2>2 DEF ServiceOK
  <2>4. SubscriptionOK'
    BY <2>2 DEF SubscriptionOK
  <2>5. QED
    BY <2>1, <2>3, <2>4, FrameTypes DEF ControlOK, HasNext, collector, stopper
<1>3. CASE Loop
  <2>1. UNCHANGED <<service, subscription, channel, stopper>>
    BY <1>3 DEF Loop, Unchanged
  <2>2. /\ pc = "loop" /\ pc' \in {"pass", "done"} /\ sub' = 1 /\ mustDrain' \in BOOLEAN
        /\ UNCHANGED <<batch, fetchFailures>>
    BY <1>3 DEF Loop
  <2>3. CollectorOK' /\ ControlOK'
    BY <2>1, <2>2 DEF CollectorOK, ControlOK, stopper
  <2>4. QED
    BY <2>1, <2>3, FrameTypes DEF service
<1>4. CASE NextSubscription
  <2>1. UNCHANGED <<service, subscription, channel, stopper>>
    BY <1>4 DEF NextSubscription, Unchanged
  <2>2. /\ pc' \in {"pass", "signal", "fetch"} /\ mustDrain' \in BOOLEAN
        /\ sub' \in 1 .. (NumSubs + 1)
        /\ pc' \in {"signal", "reset", "fetch"} => sub' \in Subs
        /\ batch = 0 /\ UNCHANGED <<batch, fetchFailures>>
    BY <1>4 DEF NextSubscription, ControlOK, CollectorOK
  <2>3. CollectorOK' /\ ControlOK'
    BY <2>1, <2>2 DEF CollectorOK, ControlOK, stopper
  <2>4. QED
    BY <2>1, <2>3, FrameTypes DEF service
<1>5. CASE EndPass
  <2>1. UNCHANGED <<service, subscription, channel, stopper>>
    BY <1>5 DEF EndPass, Unchanged
  <2>2. /\ pc = "pass" /\ pc' \in {"pass", "wait"} /\ sub' \in {sub, 1} /\ mustDrain' \in BOOLEAN
        /\ UNCHANGED <<batch, fetchFailures>>
    BY <1>5 DEF EndPass
  <2>3. CollectorOK' /\ ControlOK'
    BY <2>1, <2>2 DEF CollectorOK, ControlOK, stopper
  <2>4. QED
    BY <2>1, <2>3, FrameTypes DEF service
<1>6. CASE WaitEvent
  <2>1. UNCHANGED <<service, subscription, channel, stopper>>
    BY <1>6 DEF WaitEvent, Unchanged
  <2>2. /\ pc' \in {"loop"} /\ mustDrain' \in BOOLEAN
        /\ sub' \in 1 .. (NumSubs + 1)
        /\ pc' \in {"signal", "reset", "fetch"} => sub' \in Subs
        /\ batch = 0 /\ UNCHANGED <<batch, fetchFailures>>
    BY <1>6 DEF WaitEvent, ControlOK, CollectorOK
  <2>3. CollectorOK' /\ ControlOK'
    BY <2>1, <2>2 DEF CollectorOK, ControlOK, stopper
  <2>4. QED
    BY <2>1, <2>3, FrameTypes DEF service
<1>7. CASE TestSignal
  <2>1. UNCHANGED <<service, subscription, channel, stopper>>
    BY <1>7 DEF TestSignal, DrainDone, Unchanged
  <2>2. /\ pc' \in {"reset", "pass"} /\ mustDrain' \in BOOLEAN
        /\ sub' \in 1 .. (NumSubs + 1)
        /\ pc' \in {"signal", "reset", "fetch"} => sub' \in Subs
        /\ batch = 0 /\ UNCHANGED <<batch, fetchFailures>>
    BY <1>7 DEF TestSignal, DrainDone, ControlOK, CollectorOK
  <2>3. CollectorOK' /\ ControlOK'
    BY <2>1, <2>2 DEF CollectorOK, ControlOK, stopper
  <2>4. QED
    BY <2>1, <2>3, FrameTypes DEF service
<1>8. CASE EndBatch
  <2>1. UNCHANGED <<service, subscription, channel, stopper>>
    BY <1>8 DEF EndBatch, DrainDone, HasNext, Unchanged
  <2>2. /\ pc' \in {"pass"} /\ mustDrain' \in BOOLEAN
        /\ sub' \in 1 .. (NumSubs + 1)
        /\ pc' \in {"signal", "reset", "fetch"} => sub' \in Subs
        /\ batch = 0 /\ UNCHANGED <<batch, fetchFailures>>
    BY <1>8 DEF EndBatch, DrainDone, HasNext, ControlOK, CollectorOK
  <2>3. CollectorOK' /\ ControlOK'
    BY <2>1, <2>2 DEF CollectorOK, ControlOK, stopper
  <2>4. QED
    BY <2>1, <2>3, FrameTypes DEF service
<1>9. CASE ResetSignal
  <2>1. UNCHANGED <<service, channel, stopper>>
    BY <1>9 DEF ResetSignal, Unchanged
  <2>2. /\ signal' = [signal EXCEPT ![sub] = FALSE]
        /\ drained' = [drained EXCEPT ![sub] = FALSE]
        /\ pc = "reset" /\ pc' = "fetch"
        /\ UNCHANGED <<sub, mustDrain, batch, fetchFailures, fetched, stats>>
    BY <1>9 DEF ResetSignal
  <2>3. SubscriptionOK'
    BY <2>1, <2>2 DEF SubscriptionOK, service
  <2>4. CollectorOK' /\ ControlOK'
    BY <2>1, <2>2 DEF CollectorOK, ControlOK, stopper
  <2>5. QED
    BY <2>1, <2>3, <2>4, FrameTypes
<1>10. CASE FetchEvents
  <2>1. UNCHANGED <<service, channel, stopper>>
    BY <1>10 DEF FetchEvents, FetchDone, Unchanged
  <2>2. PICK n \in 1 .. BatchSize :
          /\ fetched[sub] + n <= published[sub]
          /\ fetched' = [fetched EXCEPT ![sub] = @ + n]
          /\ batch' = n
    BY <1>10 DEF FetchEvents
  <2>3. /\ drained' = [drained EXCEPT ![sub] = FALSE]
        /\ pc = "fetch" /\ pc' = "handle"
        /\ UNCHANGED <<signal, stats, sub, mustDrain, fetchFailures>>
    BY <1>10 DEF FetchEvents, FetchDone, IsDrained
  <2>4. SubscriptionOK'
    <3>1. sub \in Subs
      BY <2>3 DEF ControlOK
    <3>2. fetched' \in [Subs -> Nat] /\ \A s \in Subs : fetched'[s] <= published[s]
      BY <2>2, <3>1 DEF SubscriptionOK, ServiceOK
    <3>3. QED
      BY <2>1, <2>3, <3>2 DEF SubscriptionOK, service
  <2>5. CollectorOK' /\ ControlOK'
    BY <2>1, <2>2, <2>3 DEF CollectorOK, ControlOK, stopper
  <2>6. QED
    BY <2>1, <2>4, <2>5, FrameTypes
<1>11. CASE FetchCompleted \/ FetchCancelled \/ FetchFailed
  <2>1. UNCHANGED <<service, channel, stopper>>
    BY <1>11 DEF FetchCompleted, FetchCancelled, FetchFailed, FetchDone, Unchanged
  <2>2. /\ pc = "fetch" /\ pc' = "pass" /\ sub' = sub + 1
        /\ UNCHANGED <<signal, fetched, stats, batch>>
    BY <1>11 DEF FetchCompleted, FetchCancelled, FetchFailed, FetchDone, DrainDone
  <2>3. fetchFailures' \in 0 .. MaxFetchFailures /\ mustDrain' \in BOOLEAN
    BY <1>11 DEF FetchCompleted, FetchCancelled, FetchFailed, DrainDone, CollectorOK
  <2>4. drained' \in [Subs -> BOOLEAN]
    BY <1>11 DEF FetchCompleted, FetchCancelled, FetchFailed, FetchDone, IsDrained, SubscriptionOK
  <2>5. SubscriptionOK'
    BY <2>1, <2>2, <2>4 DEF SubscriptionOK, service
  <2>6. CollectorOK' /\ ControlOK'
    BY <2>1, <2>2, <2>3 DEF CollectorOK, ControlOK, stopper
  <2>7. QED
    BY <2>1, <2>5, <2>6, FrameTypes
<1>12. ASSUME NEW o \in Outcomes, Account(o), pc \in {"handle", "push"}, pc' = "handle", HasNext
      PROVE  /\ UNCHANGED <<service, stopper>> => SubscriptionOK'
             /\ CollectorOK'
             /\ UNCHANGED stopper => ControlOK'
  <2>1. /\ stats' = [stats EXCEPT ![sub][o] = @ + 1]
        /\ batch > 0 /\ batch' = batch - 1
        /\ UNCHANGED <<sub, mustDrain, fetchFailures, signal, fetched, drained>>
    BY <1>12 DEF Account, HasNext
  <2>2. sub \in Subs
    BY <1>12 DEF ControlOK
  <2>3. UNCHANGED service => SubscriptionOK'
    BY <2>1, <2>2 DEF SubscriptionOK, service
  <2>4. CollectorOK'
    BY <1>12, <2>1 DEF CollectorOK
  <2>5. UNCHANGED stopper => ControlOK'
    BY <1>12, <2>1, <2>2 DEF ControlOK, stopper
  <2>6. QED
    BY <2>3, <2>4, <2>5
<1>13. CASE Process
  <2>1. UNCHANGED <<service, channel, stopper>>
    BY <1>13 DEF Process, Unchanged
  <2>2. CASE pc' = "push" /\ UNCHANGED <<sub, mustDrain, batch, fetchFailures, subscription>>
    <3>1. SubscriptionOK' /\ CollectorOK'
      BY <2>1, <2>2, FrameTypes DEF CollectorOK, service
    <3>2. ControlOK'
      BY <1>13, <2>1, <2>2 DEF Process, ControlOK, HasNext, stopper
    <3>3. QED
      BY <2>1, <3>1, <3>2, FrameTypes
  <2>3. CASE pc' = pc /\ \E o \in {"filtered", "failed"} : Account(o)
    BY <1>13, <1>12, <2>1, <2>3, FrameTypes DEF Process, Outcomes
  <2>4. QED
    BY <1>13, <2>2, <2>3 DEF Process
<1>14. CASE Push
  <2>1. UNCHANGED <<service, stopper>>
    BY <1>14 DEF Push, Unchanged
  <2>2. pc = "push" /\ pc' = "handle" /\ HasNext /\ sub \in Subs
    BY <1>14 DEF Push, ControlOK
  <2>3. Account("success") \/ Account("failed")
    BY <1>14 DEF Push, RefusedOutcome
  <2>4. SubscriptionOK' /\ CollectorOK' /\ ControlOK'
    BY <1>12, <2>1, <2>2, <2>3 DEF Outcomes
  <2>5. ChannelOK'
    <3>1. Current \in Event
      BY <2>2, CurrentIsEvent
    <3>2. UNCHANGED <<queueStopped, forwarded>>
      BY <1>14 DEF Push
    <3>3. CASE UNCHANGED queue
      BY <3>2, <3>3 DEF ChannelOK
    <3>4. CASE Len(queue) < QueueSize /\ queue' = Append(queue, Current)
      BY <3>1, <3>2, <3>4, AppendProperties, LenProperties, CollectorAssumption DEF ChannelOK
    <3>5. QED
      BY <1>14, <3>3, <3>4 DEF Push
  <2>6. QED
    BY <2>1, <2>4, <2>5, FrameTypes
<1>15. CASE Pop
  <2>1. UNCHANGED <<service, subscription, collector, stopper>>
    BY <1>15 DEF Pop
  <2>2. ChannelOK'
    <3>1. /\ queue # <<>> /\ queue' = Tail(queue) /\ forwarded' = Append(forwarded, Head(queue))
          /\ UNCHANGED queueStopped
      BY <1>15 DEF Pop
    <3>2. /\ Head(queue) \in Event /\ Tail(queue) \in Seq(Event)
          /\ Len(Tail(queue)) = Len(queue) - 1 /\ Len(queue) \in Nat
      BY <3>1, HeadTailProperties, LenProperties DEF ChannelOK
    <3>3. Append(forwarded, Head(queue)) \in Seq(Event)
      BY <3>2, AppendProperties DEF ChannelOK
    <3>4. QED
      BY <3>1, <3>2, <3>3, CollectorAssumption DEF ChannelOK
  <2>3. QED
    BY <2>1, <2>2, FrameTypes DEF ControlOK, HasNext, collector, stopper, service
<1>16. CASE StopThread
  <2>1. UNCHANGED <<service, subscription, collector, queue, forwarded>>
    BY <1>16 DEF StopThread, BeginStop, Cancel, MarkCancelled, StopQueue, channel
  <2>2. queueStopped' \in BOOLEAN
    BY <1>16 DEF StopThread, BeginStop, Cancel, MarkCancelled, StopQueue, channel, ChannelOK
  <2>3. ChannelOK'
    BY <2>1, <2>2 DEF ChannelOK
  <2>4. StopperOK' /\ (stopPc' = "mark" => stopSub' \in Subs)
    <3>1. CASE BeginStop
      BY <3>1 DEF BeginStop, StopperOK
    <3>2. CASE Cancel
      <4>1. evtCancelled' \in [Subs -> BOOLEAN]
        BY <3>2 DEF Cancel, StopperOK
      <4>2. QED
        BY <3>2, <4>1 DEF Cancel, StopperOK
    <3>3. CASE MarkCancelled
      <4>1. cancelled' \in [Subs -> BOOLEAN] /\ stopSub \in Subs
        BY <3>3 DEF MarkCancelled, StopperOK, ControlOK
      <4>2. QED
        BY <3>3, <4>1 DEF MarkCancelled, StopperOK
    <3>4. CASE StopQueue
      BY <3>4 DEF StopQueue, StopperOK
    <3>5. QED
      BY <1>16, <3>1, <3>2, <3>3, <3>4 DEF StopThread
  <2>5. QED
    BY <2>1, <2>3, <2>4, FrameTypes DEF ControlOK, HasNext, collector, service
<1>17. CASE UNCHANGED vars
  BY <1>17, FrameTypes
  DEF vars, ControlOK, HasNext, service, collector, stopper
<1>18. QED
  BY <1>1, <1>2, <1>3, <1>4, <1>5, <1>6, <1>7, <1>8, <1>9, <1>10, <1>11, <1>13, <1>14, <1>15, <1>16, <1>17
  DEF Next, Run, Drain

-----------------------------------------------------------------------------
(***************************************************************************)
(* A step of the collector either counts nothing, or counts the event at   *)
(* the front of the batch in one of three ways; the queue accepts it in    *)
(* one of them.                                                            *)
(***************************************************************************)
Quiet ==
  /\ accepted' = accepted /\ stats' = stats
  /\ \A s \in Subs : Taken(s)' = Taken(s)

Counted(o) ==
  /\ sub \in Subs
  /\ stats' = [stats EXCEPT ![sub][o] = @ + 1]
  /\ \A s \in Subs : Taken(s)' = IF s = sub THEN Taken(s) + 1 ELSE Taken(s)

Dropped == accepted' = accepted /\ \E o \in {"filtered", "failed"} : Counted(o)

Accepted ==
  /\ ~queueStopped /\ UNCHANGED forwarded
  /\ Counted("success")
  /\ Current \in Event /\ Current[1] = sub /\ Current[2] = Taken(sub) + 1
  /\ accepted' = Append(accepted, Current)

LEMMA AccountCounts ==
  ASSUME TypeOK, sub \in Subs, NEW o, Account(o)
  PROVE  Counted(o)
BY DEF TypeOK, SubscriptionOK, CollectorOK, Account, Counted, Taken

LEMMA StepKinds ==
  ASSUME TypeOK, ControlOK, Accounting, Next
  PROVE  \/ Quiet
         \/ Dropped /\ (Process \/ Push)
         \/ Accepted /\ Push
<1> USE DEF Unchanged
<1>1. ASSUME NEW s \in Subs, Publish(s) \/ SetSignal(s)
      PROVE  Quiet
  BY <1>1 DEF Publish, SetSignal, Quiet, Taken, accepted, subscription, collector, channel
<1>2. ASSUME UNCHANGED <<subscription, channel, batch>>, batch = 0
      PROVE  Quiet
  BY <1>2 DEF Quiet, Taken, accepted, subscription, channel, TypeOK, CollectorOK, SubscriptionOK
<1>3. CASE Loop \/ NextSubscription \/ EndPass \/ WaitEvent \/ TestSignal \/ EndBatch
  <2>1. UNCHANGED <<subscription, channel, batch>>
    BY <1>3 DEF Loop, NextSubscription, EndPass, WaitEvent, TestSignal, EndBatch
  <2>2. pc \in {"loop", "pass", "wait", "signal"} \/ (pc = "handle" /\ ~HasNext)
    BY <1>3 DEF Loop, NextSubscription, EndPass, WaitEvent, TestSignal, EndBatch
  <2>3. batch = 0
    BY <2>2, Bounds DEF ControlOK, HasNext, TypeOK, CollectorOK
  <2>4. QED
    BY <1>2, <2>1, <2>3
<1>4. CASE ResetSignal \/ FetchCompleted \/ FetchCancelled \/ FetchFailed
  <2>1. batch = 0
    BY <1>4 DEF ResetSignal, FetchCompleted, FetchCancelled, FetchFailed, ControlOK
  <2>2. UNCHANGED <<fetched, stats, channel, batch>>
    BY <1>4 DEF ResetSignal, FetchCompleted, FetchCancelled, FetchFailed, FetchDone
  <2>3. QED
    BY <2>1, <2>2 DEF Quiet, Taken, accepted, channel, TypeOK, CollectorOK, SubscriptionOK
<1>5. CASE FetchEvents
  <2>1. batch = 0 /\ sub \in Subs
    BY <1>5 DEF FetchEvents, ControlOK
  <2>2. UNCHANGED <<stats, channel, sub>>
    BY <1>5 DEF FetchEvents, FetchDone
  <2>3. PICK n \in 1 .. BatchSize : fetched' = [fetched EXCEPT ![sub] = @ + n] /\ batch' = n
    BY <1>5 DEF FetchEvents
  <2>4. \A s \in Subs : Taken(s)' = Taken(s)
    BY <2>1, <2>2, <2>3, Bounds DEF Taken, TypeOK, SubscriptionOK
  <2>5. QED
    BY <2>2, <2>4 DEF Quiet, accepted, channel
<1>6. CASE Process
  <2>1. UNCHANGED channel /\ sub \in Subs
    BY <1>6 DEF Process, ControlOK
  <2>2. CASE UNCHANGED <<sub, batch, subscription>>
    BY <2>1, <2>2 DEF Quiet, Taken, accepted, channel, subscription
  <2>3. CASE \E o \in {"filtered", "failed"} : Account(o)
    BY <1>6, <2>1, <2>3, AccountCounts DEF Dropped, accepted, channel
  <2>4. QED
    BY <1>6, <2>2, <2>3 DEF Process
<1>7. CASE Push
  <2>1. sub \in Subs /\ HasNext /\ UNCHANGED forwarded
    BY <1>7 DEF Push, ControlOK
  <2>2. CASE ~queueStopped /\ queue' = Append(queue, Current) /\ Account("success")
    <3>1. Current \in Event /\ Current[1] = sub /\ Current[2] = Taken(sub) + 1
      BY <2>1, CurrentIsEvent
    <3>2. accepted' = Append(accepted, Current)
      BY <2>1, <2>2, <3>1, PushAppends DEF accepted, TypeOK, ChannelOK
    <3>3. QED
      BY <1>7, <2>1, <2>2, <3>1, <3>2, AccountCounts DEF Accepted
  <2>3. CASE UNCHANGED queue /\ Account(RefusedOutcome)
    BY <1>7, <2>1, <2>3, AccountCounts DEF Dropped, RefusedOutcome, accepted
  <2>4. QED
    BY <1>7, <2>2, <2>3 DEF Push
<1>8. CASE Pop
  <2>1. accepted' = accepted
    BY <1>8, PopMovesNothing DEF Pop, accepted, TypeOK, ChannelOK
  <2>2. QED
    BY <1>8, <2>1 DEF Pop, Quiet, Taken, subscription, collector
<1>9. CASE StopThread
  BY <1>9 DEF StopThread, BeginStop, Cancel, MarkCancelled, StopQueue, Quiet, Taken, accepted,
              subscription, collector, channel
<1>10. QED
  BY <1>1, <1>3, <1>4, <1>5, <1>6, <1>7, <1>8, <1>9 DEF Next, Run, Drain

-----------------------------------------------------------------------------
(***************************************************************************)
(* What is in the statistics of a log is what was taken from it, and the   *)
(* events accepted from it are its successes.                              *)
(***************************************************************************)
LEMMA AcceptedIsSeq == TypeOK => accepted \in Seq(Event)
BY ConcatProperties DEF TypeOK, ChannelOK, accepted

LEMMA StepsKeepAccounts ==
  ASSUME TypeOK, ControlOK, Accounting, Next, TypeOK'
  PROVE  Accounting'
<1> DEFINE Sum(s) == stats[s]["success"] + stats[s]["filtered"] + stats[s]["failed"]
           Accounted(s) == Sum(s) = Taken(s) /\ stats[s]["success"] = OfSub(accepted, s)
<1>1. \A s \in Subs : /\ stats[s] \in [Outcomes -> Nat] /\ Sum(s) \in Nat /\ fetched[s] \in Nat
                      /\ batch \in Nat /\ Taken(s) \in Int
  BY Bounds DEF TypeOK, SubscriptionOK, CollectorOK, Outcomes, Taken
<1>2. \A s \in Subs : /\ stats'[s] \in [Outcomes -> Nat] /\ Sum(s)' \in Nat /\ fetched'[s] \in Nat
                      /\ batch' \in Nat /\ Taken(s)' \in Int
  BY Bounds DEF TypeOK, SubscriptionOK, CollectorOK, Outcomes, Taken
<1>3. \A s \in Subs : Accounted(s)
  BY <1>1 DEF Accounting, Taken
<1>4. SUFFICES ASSUME NEW s \in Subs PROVE Accounted(s)'
  BY <1>2 DEF Accounting, Taken
<1>5. CASE Quiet
  BY <1>3, <1>5 DEF Quiet
<1>6. ASSUME NEW o \in Outcomes, Counted(o)
      PROVE  Sum(s)' = Taken(s)' /\ stats'[s]["success"] = stats[s]["success"] + (IF s = sub /\ o = "success" THEN 1 ELSE 0)
  <2>1. CASE s = sub
    <3>1. stats'[s] = [stats[s] EXCEPT ![o] = @ + 1] /\ Taken(s)' = Taken(s) + 1
      BY <1>6, <2>1 DEF Counted, TypeOK, SubscriptionOK
    <3>2. Sum(s) = Taken(s)
      BY <1>3
    <3>3. QED
      BY <1>1, <2>1, <3>1, <3>2 DEF Outcomes
  <2>2. CASE s # sub
    <3>1. stats'[s] = stats[s] /\ Taken(s)' = Taken(s)
      BY <1>6, <2>2 DEF Counted, TypeOK, SubscriptionOK
    <3>2. Sum(s) = Taken(s)
      BY <1>3
    <3>3. QED
      BY <1>1, <2>2, <3>1, <3>2 DEF Outcomes
  <2>3. QED
    BY <2>1, <2>2
<1>7. CASE Dropped
  <2>1. PICK o \in {"filtered", "failed"} : Counted(o)
    BY <1>7 DEF Dropped
  <2>2. Sum(s)' = Taken(s)' /\ stats'[s]["success"] = stats[s]["success"]
    BY <1>1, <1>6, <2>1 DEF Outcomes
  <2>3. QED
    BY <1>3, <1>7, <2>2 DEF Dropped
<1>8. CASE Accepted
  <2>1. /\ Sum(s)' = Taken(s)'
        /\ stats'[s]["success"] = stats[s]["success"] + (IF s = sub THEN 1 ELSE 0)
    BY <1>6, <1>8 DEF Accepted, Outcomes
  <2>2. OfSub(accepted', s) = OfSub(accepted, s) + (IF s = sub THEN 1 ELSE 0)
    BY <1>8, OfSubAppend, AcceptedIsSeq DEF Accepted
  <2>3. QED
    BY <1>3, <2>1, <2>2
<1>9. QED
  BY <1>5, <1>7, <1>8, StepKinds

(***************************************************************************)
(* The queue accepts the events of a log in their order: the event at the  *)
(* front of the batch comes after all that were taken.                     *)
(***************************************************************************)
LEMMA StepsKeepOrder ==
  ASSUME TypeOK, ControlOK, Accounting, AcceptedIsTaken, InOrder, Next, TypeOK'
  PROVE  AcceptedIsTaken' /\ InOrder'
<1>1. \A s \in Subs : Taken(s) \in Int /\ Taken(s)' \in Int
  BY Bounds DEF TypeOK, SubscriptionOK, CollectorOK, Taken
<1>2. /\ accepted \in Seq(Event) /\ Len(accepted) \in Nat
      /\ \A i \in 1 .. Len(accepted) : accepted[i][1] \in Subs /\ accepted[i][2] \in Nat
  BY AcceptedIsSeq, ElementOfSeq, LenProperties DEF Event
<1>3. CASE accepted' = accepted /\ \A s \in Subs : Taken(s)' >= Taken(s)
  <2>1. InOrder'
    BY <1>3 DEF InOrder
  <2>2. AcceptedIsTaken'
    BY <1>1, <1>2, <1>3 DEF AcceptedIsTaken
  <2>3. QED
    BY <2>1, <2>2
<1>4. CASE Accepted
  <2>1. /\ Len(accepted') = Len(accepted) + 1
        /\ \A i \in 1 .. Len(accepted) : accepted'[i] = accepted[i]
        /\ accepted'[Len(accepted) + 1] = Current
    BY <1>2, <1>4, AppendProperties DEF Accepted
  <2>2. /\ sub \in Subs /\ Current[1] = sub /\ Current[2] = Taken(sub) + 1
        /\ \A s \in Subs : Taken(s)' = IF s = sub THEN Taken(s) + 1 ELSE Taken(s)
    BY <1>4 DEF Accepted, Counted
  <2>3. Taken(sub) \in Nat
    BY <1>4, TakenIsNat DEF Accepted, Counted
  <2>4. ASSUME NEW i \in 1 .. Len(accepted')
        PROVE  (accepted[i][2] \in 1 .. Taken(accepted[i][1]))'
    <3>1. CASE i = Len(accepted) + 1
      BY <2>1, <2>2, <2>3, <3>1
    <3>2. CASE i \in 1 .. Len(accepted)
      <4>1. accepted'[i] = accepted[i] /\ accepted[i][1] \in Subs
            /\ accepted[i][2] \in 1 .. Taken(accepted[i][1])
        BY <1>2, <2>1, <3>2 DEF AcceptedIsTaken
      <4>2. QED
        BY <1>1, <2>2, <4>1
    <3>3. QED
      BY <1>2, <2>1, <3>1, <3>2
  <2>5. ASSUME NEW i \in 1 .. Len(accepted'), NEW j \in 1 .. Len(accepted'),
               i < j, accepted'[i][1] = accepted'[j][1]
        PROVE  accepted'[i][2] < accepted'[j][2]
    <3>1. i \in 1 .. Len(accepted) /\ accepted'[i] = accepted[i]
      BY <1>2, <2>1, <2>5
    <3>2. CASE j = Len(accepted) + 1
      <4>1. accepted[i][1] = sub /\ accepted'[j][2] = Taken(sub) + 1
        BY <2>1, <2>2, <2>5, <3>1, <3>2
      <4>2. accepted[i][2] \in Nat /\ accepted[i][2] <= Taken(sub)
        BY <1>2, <3>1, <4>1 DEF AcceptedIsTaken
      <4>3. QED
        BY <1>1, <2>2, <3>1, <4>1, <4>2
    <3>3. CASE j \in 1 .. Len(accepted)
      BY <2>1, <2>5, <3>1, <3>3 DEF InOrder
    <3>4. QED
      BY <1>2, <2>1, <3>2, <3>3
  <2>6. QED
    BY <2>4, <2>5 DEF AcceptedIsTaken, InOrder
<1>5. CASE Quiet
  BY <1>1, <1>3, <1>5 DEF Quiet
<1>6. CASE Dropped
  BY <1>1, <1>3, <1>6 DEF Dropped, Counted
<1>7. QED
  BY <1>4, <1>5, <1>6, StepKinds

LEMMA StutteringChangesNothing ==
  ASSUME CollectorInv, UNCHANGED vars
  PROVE  CollectorInv'
<1>1. UNCHANGED <<service, subscription, collector, channel, stopper>>
  BY DEF vars
<1>2. TypeOK'
  BY <1>1, FrameTypes DEF CollectorInv, TypeOK, service
<1>3. accepted' = accepted /\ \A s : Taken(s)' = Taken(s)
  BY <1>1 DEF accepted, Taken, channel, subscription, collector
<1>4. ControlOK'
  BY <1>1 DEF CollectorInv, ControlOK, HasNext, collector, stopper
<1>5. AcceptedIsTaken' /\ InOrder'
  BY <1>3 DEF CollectorInv, AcceptedIsTaken, InOrder
<1>6. Accounting'
  BY <1>1, <1>3 DEF CollectorInv, Accounting, subscription, collector
<1>7. QED
  BY <1>2, <1>4, <1>5, <1>6 DEF CollectorInv

(***************************************************************************)
(* The invariant of the collector: its place in a subscription and a batch,*)
(* the counts of events, the queue's contents and the signals that are     *)
(* owed fit together in every state.                                       *)
(***************************************************************************)
THEOREM CollectorInvariant == Spec => []CollectorInv
<1>1. Init => CollectorInv
  <2> SUFFICES ASSUME Init PROVE CollectorInv
    OBVIOUS
  <2>1. ServiceOK /\ SubscriptionOK
    BY Bounds DEF Init, ServiceOK, SubscriptionOK
  <2>2. CollectorOK
    <3>1. pc = "loop" /\ sub = 1 /\ mustDrain \in BOOLEAN /\ batch = 0 /\ fetchFailures = 0
      BY Zenon DEF Init
    <3>2. QED
      BY <3>1, Bounds DEF CollectorOK
  <2>3. ChannelOK /\ StopperOK
    <3>1. queue = <<>> /\ queueStopped \in BOOLEAN /\ forwarded = <<>>
      BY Zenon DEF Init
    <3>2. ChannelOK
      BY <3>1, CollectorAssumption DEF ChannelOK
    <3>3. StopperOK
      BY Bounds DEF Init, StopperOK
    <3>4. QED
      BY <3>2, <3>3
  <2>4. ControlOK
    BY DEF Init, ControlOK
  <2>5. accepted = <<>>
    BY DEF Init, accepted
  <2>6. Accounting
    BY <2>5, OfSubEmpty DEF Init, Accounting, Outcomes
  <2>7. AcceptedIsTaken /\ InOrder
    BY <2>5 DEF AcceptedIsTaken, InOrder
  <2>8. QED
    BY <2>1, <2>2, <2>3, <2>4, <2>6, <2>7 DEF CollectorInv, TypeOK
<1>2. CollectorInv /\ [Next]_vars => CollectorInv'
  BY StepsKeepTypes, StepsKeepAccounts, StepsKeepOrder, StutteringChangesNothing DEF CollectorInv
<1>3. QED
  BY <1>1, <1>2, PTL DEF Spec

(***************************************************************************)
(* The collector fetches no event before it is published, its positions    *)
(* stay inside the list of subscriptions and the queue inside its capacity.*)
(***************************************************************************)
THEOREM CollectorTypes == Spec => []TypeOK
BY CollectorInvariant, PTL DEF CollectorInv

(***************************************************************************)
(* Every event that EvtNext handed out is counted once, under what became  *)
(* of it, and those counted as successes are the ones the queue accepted,  *)
(* also when a push is refused because the service stops.                  *)
(***************************************************************************)
THEOREM EventsAreCountedOnce == Spec => []Accounting
BY CollectorInvariant, PTL DEF CollectorInv

(***************************************************************************)
(* The events of a log reach the forwarder in the order of the log, none   *)
(* of them twice.                                                          *)
(***************************************************************************)
THEOREM EventsStayInOrder == Spec => []InOrder
BY CollectorInvariant, PTL DEF CollectorInv

(***************************************************************************)
(* No wake-up is lost: a log is taken for drained only by a fetch that     *)
(* found nothing, and what is published later is signalled after that,     *)
(* since the signal is reset before the fetch.                             *)
(***************************************************************************)
THEOREM SignalsAreNotLost == Spec => []NoLostSignal
<1>1. Init => NoLostSignal
  BY DEF Init, NoLostSignal
<1>2. CollectorInv /\ NoLostSignal /\ [Next]_vars => NoLostSignal'
  <2> SUFFICES ASSUME TypeOK, ControlOK, NoLostSignal, [Next]_vars
               PROVE  NoLostSignal'
    BY DEF CollectorInv
  <2> USE Bounds DEF NoLostSignal, TypeOK, ServiceOK, SubscriptionOK, Unchanged
  <2>1. ASSUME NEW s \in Subs, Publish(s)
        PROVE  NoLostSignal'
    BY <2>1 DEF Publish, subscription
  <2>2. ASSUME NEW s \in Subs, SetSignal(s)
        PROVE  NoLostSignal'
    BY <2>2 DEF SetSignal
  <2>3. CASE UNCHANGED <<service, subscription>>
    BY <2>3 DEF service, subscription
  <2>4. CASE ResetSignal
    BY <2>4 DEF ResetSignal, ControlOK, service
  <2>5. CASE FetchEvents
    BY <2>5 DEF FetchEvents, FetchDone, IsDrained, ControlOK, service
  <2>6. CASE FetchCompleted
    BY <2>6 DEF FetchCompleted, FetchDone, IsDrained, ControlOK, service
  <2>7. CASE FetchCancelled \/ FetchFailed
    BY <2>7 DEF FetchCancelled, FetchFailed, FetchDone, IsDrained, ControlOK, service
  <2>8. CASE Process \/ Push
    <3>1. UNCHANGED <<published, unsignalled, signal, fetched, drained>>
      BY <2>8 DEF Process, Push, Account, service, subscription
    <3>2. QED
      BY <3>1
  <2>9. QED
    BY <2>1, <2>2, <2>3, <2>4, <2>5, <2>6, <2>7, <2>8
    DEF Next, Run, Drain, Loop, NextSubscription, EndPass, WaitEvent, TestSignal, EndBatch, Pop,
        StopThread, BeginStop, Cancel, MarkCancelled, StopQueue, vars
<1>3. QED
  BY <1>1, <1>2, CollectorInvariant, PTL DEF Spec

-----------------------------------------------------------------------------
(***************************************************************************)
(* The collector and the queue as LogForwarding sees them, if what the     *)
(* forwarder pops is delivered.                                            *)
(***************************************************************************)
Promise == INSTANCE LogForwarding WITH
  Logs <- Subs,
  logged <- published,
  taken <- [s \in Subs |-> Taken(s)],
  accepted <- accepted,
  delivered <- forwarded,
  stopped <- queueStopped

(***************************************************************************)
(* Each step logs an event, drops the next one of its log, lets the queue  *)
(* accept it, delivers the next accepted one, or changes nothing that can  *)
(* be seen.                                                                *)
(***************************************************************************)
LEMMA StepsKeepPromise == CollectorInv /\ [Next]_vars => [Promise!Next]_Promise!vars
<1> SUFFICES ASSUME TypeOK, ControlOK, Accounting, [Next]_vars
             PROVE  [Promise!Next]_Promise!vars
  BY DEF CollectorInv
<1> DEFINE taken == [s \in Subs |-> Taken(s)]
<1>1. ASSUME NEW s \in Subs, Publish(s) PROVE Promise!Log(s)
  BY <1>1 DEF Promise!Log, Publish, accepted, Taken, subscription, collector, channel
<1>2. ASSUME Quiet, UNCHANGED <<published, forwarded, queueStopped>>
      PROVE  UNCHANGED Promise!vars
  BY <1>2 DEF Quiet, Promise!vars
<1>3. ASSUME NEW o, Counted(o)
      PROVE  /\ taken' = [taken EXCEPT ![sub] = @ + 1]
             /\ taken[sub] = Taken(sub)
  BY <1>3 DEF Counted
<1>4. ASSUME Process \/ Push
      PROVE  HasNext /\ sub \in Subs /\ Taken(sub) < published[sub]
  <2>1. HasNext /\ sub \in Subs
    BY <1>4 DEF Process, Push, ControlOK
  <2>2. QED
    BY <2>1, Bounds DEF HasNext, Taken, TypeOK, ServiceOK, SubscriptionOK, CollectorOK
<1>5. ASSUME Process \/ Push
      PROVE  UNCHANGED <<published, forwarded, queueStopped>>
  BY <1>5 DEF Process, Push, Unchanged, service, channel
<1>6. ASSUME Dropped, Process \/ Push PROVE Promise!Drop(sub)
  <2>1. /\ accepted' = accepted /\ taken' = [taken EXCEPT ![sub] = @ + 1]
        /\ taken[sub] = Taken(sub)
    BY <1>3, <1>6 DEF Dropped
  <2>2. QED
    BY <2>1, <1>4, <1>5, <1>6 DEF Promise!Drop
<1>7. ASSUME Accepted, Push PROVE Promise!Accept(sub)
  <2>1. /\ ~queueStopped /\ accepted' = Append(accepted, Current)
        /\ taken' = [taken EXCEPT ![sub] = @ + 1] /\ taken[sub] = Taken(sub)
    BY <1>3, <1>7 DEF Accepted
  <2>2. Current = <<sub, taken[sub] + 1>>
    BY <1>7, <2>1 DEF Accepted, Current
  <2>3. QED
    BY <2>1, <2>2, <1>4, <1>5, <1>7 DEF Promise!Accept
<1>8. CASE Pop
  <2>1. /\ queue # <<>> /\ queue' = Tail(queue) /\ forwarded' = Append(forwarded, Head(queue))
        /\ UNCHANGED <<published, queueStopped, subscription, collector>>
    BY <1>8 DEF Pop, service
  <2>2. accepted' = accepted
    BY <2>1, PopMovesNothing DEF accepted, TypeOK, ChannelOK
  <2>3. Len(forwarded) < Len(accepted) /\ accepted[Len(forwarded) + 1] = Head(queue)
    <3>1. /\ Len(accepted) = Len(forwarded) + Len(queue)
          /\ \A i \in 1 .. Len(forwarded) + Len(queue) : accepted[i] =
                 IF i <= Len(forwarded) THEN forwarded[i] ELSE queue[i - Len(forwarded)]
      BY ConcatProperties DEF accepted, TypeOK, ChannelOK
    <3>2. Len(forwarded) \in Nat /\ Len(queue) \in Nat \ {0} /\ Head(queue) = queue[1]
      BY <2>1, EmptySeq, LenProperties DEF TypeOK, ChannelOK
    <3>3. QED
      BY <3>1, <3>2
  <2>4. taken' = taken
    BY <2>1 DEF Taken, subscription, collector
  <2>5. Promise!Deliver
    BY <2>1, <2>2, <2>3, <2>4 DEF Promise!Deliver
  <2>6. QED
    BY <2>5 DEF Promise!Next
<1>9. CASE StopThread
  <2>1. /\ UNCHANGED <<service, subscription, collector, queue, forwarded>>
        /\ queueStopped' = queueStopped \/ queueStopped'
    BY <1>9 DEF StopThread, BeginStop, Cancel, MarkCancelled, StopQueue, channel
  <2>2. taken' = taken /\ accepted' = accepted
    BY <2>1 DEF Taken, accepted, subscription, collector
  <2>3. CASE queueStopped'
    <3>1. Promise!Stop
      BY Zenon, <2>1, <2>2, <2>3, <1>9
      DEF Promise!Stop, StopThread, BeginStop, Cancel, MarkCancelled, StopQueue, channel, service
    <3>2. QED
      BY <3>1 DEF Promise!Next
  <2>4. CASE queueStopped' = queueStopped
    BY <2>1, <2>2, <2>4 DEF Promise!vars, service
  <2>5. QED
    BY <2>1, <2>3, <2>4
<1>10. CASE UNCHANGED vars
  BY <1>10 DEF vars, Promise!vars, Taken, accepted, service, subscription, collector, channel
<1>11. ASSUME NEW s \in Subs, SetSignal(s) PROVE UNCHANGED Promise!vars
  BY <1>11 DEF SetSignal, Promise!vars, Taken, accepted, collector, channel
<1>12. ASSUME Run PROVE [Promise!Next]_Promise!vars
  <2>1. UNCHANGED <<published, forwarded, queueStopped>>
    BY <1>12 DEF Run, Drain, Loop, NextSubscription, EndPass, WaitEvent, TestSignal, ResetSignal,
       FetchEvents, FetchCompleted, FetchCancelled, FetchFailed, FetchDone, Process, Push,
       EndBatch, Unchanged, service, channel
  <2>2. QED
    BY <1>2, <1>4, <1>6, <1>7, <1>12, <2>1, StepKinds DEF Next, Promise!Next
<1>13. QED
  BY <1>1, <1>8, <1>9, <1>10, <1>11, <1>12 DEF Next, Promise!Next

(***************************************************************************)
(* The collector forwards logs, with any number of logs that are drained   *)
(* in turn, failed fetches, cancelled subscriptions and a queue that may   *)
(* be full.                                                                *)
(***************************************************************************)
THEOREM CollectorForwardsLogs == Spec => Promise!Spec
<1>1. Init => Promise!Init
  <2> SUFFICES ASSUME Init PROVE Promise!Init
    OBVIOUS
  <2>1. /\ published = [s \in Subs |-> 0] /\ fetched = [s \in Subs |-> 0] /\ batch = 0
        /\ forwarded = <<>> /\ queue = <<>>
    BY DEF Init
  <2>2. queueStopped = FALSE
    BY Zenon DEF Init
  <2>3. accepted = <<>> /\ [s \in Subs |-> Taken(s)] = [s \in Subs |-> 0]
    BY <2>1 DEF accepted, Taken
  <2>4. QED
    BY Zenon, <2>1, <2>2, <2>3 DEF Promise!Init
<1>2. QED
  BY <1>1, StepsKeepPromise, CollectorInvariant, PTL DEF Spec, Promise!Spec

=============================================================================
