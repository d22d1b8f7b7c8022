--------------------------- MODULE PipelineProofs ----------------------------
(***************************************************************************)
(* What holds of the collector and the forwarder together, for any number  *)
(* of logs, events, connections and queue slots.  Each of the two modules  *)
(* is proved about in an environment of its own making; here they are the  *)
(* environment of each other, so that what was proved of each is true of   *)
(* the whole, and the order of a log can be followed up to the wire.       *)
(***************************************************************************)
EXTENDS Pipeline, TLAPS, FiniteSetTheorems, FunctionTheorems, SequenceTheorems

(***************************************************************************)
(* The constants are such that the theorems of both modules apply.         *)
(***************************************************************************)
LEMMA ConstantsFit ==
  /\ Collector!CollectorAssumption
  /\ Forwarder!ForwarderAssumption /\ Forwarder!SocketAssumption
BY PipelineAssumption
DEF Collector!CollectorAssumption, Forwarder!ForwarderAssumption, Forwarder!SocketAssumption

-----------------------------------------------------------------------------
(* The collector                                                           *)

(***************************************************************************)
(* Whatever the forwarder and its network do, the collector sees the pops  *)
(* that its own module expects, and nothing else.                          *)
(***************************************************************************)
LEMMA CollectorSteps == [Next]_vars => [Collector!Next]_(Collector!vars)
<1> SUFFICES ASSUME [Next]_vars PROVE [Collector!Next]_(Collector!vars)
  OBVIOUS
<1> DEFINE kept == <<published, unsignalled, evtCancelled, signal, fetched, drained, cancelled,
                     stats, pc, sub, mustDrain, batch, fetchFailures, stopPc, stopSub, shared>>
<1>1. ASSUME UNCHANGED kept PROVE UNCHANGED Collector!vars
  BY <1>1
  DEF shared, Collector!vars, Collector!service, Collector!subscription, Collector!collector,
      Collector!channel, Collector!stopper
<1>2. CASE Collect
  BY <1>2 DEF Collect, CollectorSide, Collector!Next
<1>3. CASE PopMessage
  BY <1>3 DEF PopMessage, Collector!Next
<1>4. CASE ForwarderSide(Forwarder!Run) \/ ForwarderSide(Forwarder!NetworkActs)
  BY <1>1, <1>4 DEF ForwarderSide
<1>5. ASSUME NEW s \in Collector!Subs,
             CollectorSide(Collector!Publish(s) \/ Collector!SetSignal(s))
      PROVE  Collector!Next
  BY <1>5 DEF CollectorSide, Collector!Next
<1>6. CASE CollectorSide(Collector!BeginStop)
  BY <1>6 DEF CollectorSide, Collector!StopThread, Collector!Next
<1>7. CASE UNCHANGED vars
  BY <1>1, <1>7 DEF vars
<1>8. QED
  BY <1>2, <1>3, <1>4, <1>5, <1>6, <1>7 DEF Next, Forward, Environment

THEOREM CollectorIsItself == Spec => Collector!Spec
<1>1. Init => Collector!Init
  BY DEF Init
<1>2. QED
  BY <1>1, CollectorSteps, PTL DEF Spec, Collector!Spec

(***************************************************************************)
(* What was proved of the collector's counters, its order and its signals  *)
(* holds with the real forwarder as its consumer.                          *)
(***************************************************************************)
THEOREM CollectorHolds == Spec => []Collector!CollectorInv
BY CollectorIsItself, Collector!CollectorInvariant, ConstantsFit

-----------------------------------------------------------------------------
(* The forwarder                                                           *)

(***************************************************************************)
(* Sequences of different events are no longer than there are events.      *)
(***************************************************************************)
LEMMA DistinctEventsAreFew ==
  ASSUME NEW q \in Seq(Collector!Event),
         \A i \in 1 .. Len(q) : q[i][2] \in 1 .. MaxEvents[q[i][1]],
         \A i, j \in 1 .. Len(q) : i < j /\ q[i][1] = q[j][1] => q[i][2] < q[j][2]
  PROVE  Len(q) <= MaxMessages
<1>1. PICK m \in 0 .. MaxMessages :
        NumSubs * m <= MaxMessages /\ \A s \in 1 .. NumSubs : MaxEvents[s] <= m
  BY PipelineAssumption
<1> DEFINE T == (1 .. NumSubs) \X (1 .. m)
           f == [i \in 1 .. Len(q) |-> q[i]]
<1>2. NumSubs \in Nat /\ m \in Nat /\ Len(q) \in Nat
  BY PipelineAssumption, LenProperties
<1>3. /\ IsFiniteSet(1 .. NumSubs) /\ Cardinality(1 .. NumSubs) = NumSubs
      /\ IsFiniteSet(1 .. m) /\ Cardinality(1 .. m) = m
      /\ IsFiniteSet(1 .. Len(q)) /\ Cardinality(1 .. Len(q)) = Len(q)
  <2>1. ASSUME NEW n \in Nat PROVE IsFiniteSet(1 .. n) /\ Cardinality(1 .. n) = n
    <3>1. IsFiniteSet(1 .. n) /\ Cardinality(1 .. n) = IF 1 > n THEN 0 ELSE n - 1 + 1
      BY FS_Interval
    <3>2. QED
      BY <3>1
  <2>2. QED
    BY <1>2, <2>1
<1>4. IsFiniteSet(T) /\ Cardinality(T) = NumSubs * m
  BY <1>3, FS_Product
<1>5. ASSUME NEW i \in 1 .. Len(q)
      PROVE  q[i] \in T /\ q[i] = <<q[i][1], q[i][2]>>
  <2>1. q[i] \in Collector!Event
    BY ElementOfSeq
  <2>2. q[i][1] \in 1 .. NumSubs /\ q[i] = <<q[i][1], q[i][2]>>
    BY <2>1 DEF Collector!Event, Collector!Subs
  <2>3. q[i][2] \in 1 .. m
    BY <1>1, <1>2, <2>2, PipelineAssumption
  <2>4. QED
    BY <2>2, <2>3
<1>6. ASSUME NEW i \in 1 .. Len(q), NEW j \in 1 .. Len(q), q[i] = q[j]
      PROVE  i = j
  <2>1. q[i][2] \in Nat
    BY <1>5
  <2>2. ~(i < j) /\ ~(j < i)
    BY <1>6, <2>1
  <2>3. QED
    BY <1>2, <2>2
<1>7. f \in Injection(1 .. Len(q), T)
  BY <1>5, <1>6, Fun_IsInj
<1> HIDE DEF T, f
<1>8. Cardinality(1 .. Len(q)) <= Cardinality(T)
  BY <1>4, <1>7, FS_Injection
<1>9. QED
  <2> DEFINE k == NumSubs * m
  <2>1. k \in Nat
    BY <1>2
  <2>2. k <= MaxMessages /\ Len(q) <= k
    BY <1>1, <1>3, <1>4, <1>8
  <2>3. QED
    BY <1>2, <2>1, <2>2, PipelineAssumption

(***************************************************************************)
(* All that was ever accepted are events of the logs.                      *)
(***************************************************************************)
MessagesFit == Len(forwarded) + Len(queue) <= MaxMessages

LEMMA AcceptedFit == Collector!CollectorInv => MessagesFit
<1> SUFFICES ASSUME Collector!CollectorInv PROVE MessagesFit
  OBVIOUS
<1> USE ConstantsFit
<1> DEFINE q == Collector!accepted
<1>1. Collector!TypeOK /\ Collector!Accounting /\ Collector!AcceptedIsTaken /\ Collector!InOrder
  BY DEF Collector!CollectorInv
<1>2. q \in Seq(Collector!Event)
  BY <1>1, Collector!AcceptedIsSeq
<1>3. ASSUME NEW i \in 1 .. Len(q)
      PROVE  q[i][2] \in 1 .. MaxEvents[q[i][1]]
  <2> DEFINE s == q[i][1]
  <2>1. s \in Collector!Subs
    BY <1>2, ElementOfSeq DEF Collector!Event
  <2>2. q[i][2] \in 1 .. Collector!Taken(s)
    BY <1>1 DEF Collector!AcceptedIsTaken
  <2>3. /\ fetched[s] \in Nat /\ published[s] \in Nat /\ MaxEvents[s] \in Nat /\ batch \in Nat
        /\ fetched[s] <= published[s] /\ published[s] <= MaxEvents[s]
    BY <1>1, <2>1, Collector!Bounds
    DEF Collector!TypeOK, Collector!ServiceOK, Collector!SubscriptionOK, Collector!CollectorOK
  <2>4. Collector!Taken(s) \in Nat /\ Collector!Taken(s) <= MaxEvents[s]
    <3>1. Collector!Taken(s) \in Nat
      BY <1>1, <2>1, Collector!TakenIsNat
    <3>2. Collector!Taken(s) <= fetched[s]
      BY <2>3 DEF Collector!Taken
    <3>3. QED
      BY <2>3, <3>1, <3>2
  <2> HIDE DEF q
  <2>5. QED
    BY <2>2, <2>3, <2>4
<1>4. \A i, j \in 1 .. Len(q) : i < j /\ q[i][1] = q[j][1] => q[i][2] < q[j][2]
  BY <1>1 DEF Collector!InOrder
<1>5. Len(q) <= MaxMessages
  <2> HIDE DEF q
  <2>1. QED
    BY <1>2, <1>3, <1>4, DistinctEventsAreFew
<1>6. Len(q) = Len(forwarded) + Len(queue)
  BY <1>1, ConcatProperties DEF Collector!accepted, Collector!TypeOK, Collector!ChannelOK
<1>7. QED
  BY <1>5, <1>6 DEF MessagesFit

(***************************************************************************)
(* What the collector's thread, the log service and the stopping thread do *)
(* to the queue.                                                           *)
(***************************************************************************)
LEMMA QueueSteps ==
  ASSUME Collector!ChannelOK,
         \/ Collector!Run
         \/ \E s \in Collector!Subs : Collector!Publish(s) \/ Collector!SetSignal(s)
         \/ Collector!BeginStop
  PROVE  \/ UNCHANGED shared
         \/ /\ ~queueStopped /\ Len(queue') = Len(queue) + 1
            /\ UNCHANGED <<queueStopped, forwarded>>
         \/ queueStopped' = TRUE /\ UNCHANGED <<queue, forwarded>>
<1>1. CASE Collector!Push
  <2>1. CASE UNCHANGED queue
    BY <1>1, <2>1 DEF Collector!Push, shared
  <2>2. CASE ~queueStopped /\ queue' = Append(queue, Collector!Current)
    BY <1>1, <2>2, AppendProperties DEF Collector!Push, Collector!ChannelOK
  <2>3. QED
    BY <1>1, <2>1, <2>2 DEF Collector!Push
<1>2. CASE Collector!Run /\ ~Collector!Push
  <2>1. UNCHANGED Collector!channel
    BY <1>2
    DEF Collector!Run, Collector!Drain, Collector!Loop, Collector!NextSubscription,
        Collector!EndPass, Collector!WaitEvent, Collector!TestSignal, Collector!ResetSignal,
        Collector!FetchEvents, Collector!FetchCompleted, Collector!FetchCancelled,
        Collector!FetchFailed, Collector!FetchDone, Collector!Process, Collector!EndBatch
  <2>2. QED
    BY <2>1 DEF Collector!channel, shared
<1>3. CASE \E s \in Collector!Subs : Collector!Publish(s) \/ Collector!SetSignal(s)
  BY <1>3 DEF Collector!Publish, Collector!SetSignal, Collector!channel, shared
<1>4. CASE Collector!BeginStop
  BY <1>4, Zenon DEF Collector!BeginStop
<1>5. QED
  BY <1>1, <1>2, <1>3, <1>4

(***************************************************************************)
(* To the forwarder the collector is a queue that is pushed to, one        *)
(* message after the other, and that is stopped once.                      *)
(***************************************************************************)
LEMMA ForwarderSteps ==
  Collector!CollectorInv /\ MessagesFit' /\ [Next]_vars => [Forwarder!Next]_(Forwarder!vars)
<1> SUFFICES ASSUME Collector!ChannelOK, MessagesFit', [Next]_vars
             PROVE  [Forwarder!Next]_(Forwarder!vars)
  BY DEF Collector!CollectorInv, Collector!TypeOK
<1>1. ASSUME UNCHANGED own, UNCHANGED shared PROVE UNCHANGED Forwarder!vars
  BY <1>1
  DEF own, shared, Forwarder!vars, Forwarder!context, Forwarder!queue, Forwarder!socket,
      Forwarder!calling, Forwarder!tls, Forwarder!handshaking, Forwarder!network,
      Forwarder!sentData
<1>2. CASE \/ Collect
           \/ \E s \in Collector!Subs :
                CollectorSide(Collector!Publish(s) \/ Collector!SetSignal(s))
           \/ CollectorSide(Collector!BeginStop)
  <2>1. UNCHANGED own
    BY <1>2 DEF Collect, CollectorSide
  <2>2. CASE UNCHANGED shared
    BY <1>1, <2>1, <2>2
  <2>3. CASE ~queueStopped /\ Len(queue') = Len(queue) + 1 /\ UNCHANGED <<queueStopped, forwarded>>
    <3>1. Len(queue) \in Nat /\ Len(forwarded) \in Nat /\ MaxMessages \in Nat
      BY LenProperties, PipelineAssumption DEF Collector!ChannelOK
    <3>2. /\ Len(forwarded) + Len(queue) < MaxMessages
          /\ (Len(forwarded) + Len(queue))' = Len(forwarded) + Len(queue) + 1
          /\ Len(forwarded)' = Len(forwarded)
      BY <2>3, <3>1 DEF MessagesFit
    <3>3. UNCHANGED <<state, events, Forwarder!context, Forwarder!socket>>
      BY <2>1
      DEF own, Forwarder!context, Forwarder!socket, Forwarder!calling, Forwarder!tls,
          Forwarder!handshaking, Forwarder!network, Forwarder!sentData
    <3>4. Forwarder!Push
      BY <2>3, <3>2, <3>3, Zenon DEF Forwarder!Push
    <3>5. QED
      BY <3>4 DEF Forwarder!Next
  <2>4. CASE ~queueStopped /\ queueStopped' = TRUE /\ UNCHANGED <<queue, forwarded>>
    <3>1. UNCHANGED <<state, events, Forwarder!context, Forwarder!socket>>
      BY <2>1
      DEF own, Forwarder!context, Forwarder!socket, Forwarder!calling, Forwarder!tls,
          Forwarder!handshaking, Forwarder!network, Forwarder!sentData
    <3>2. Forwarder!Stop
      BY <2>4, <3>1, Zenon DEF Forwarder!Stop
    <3>3. QED
      BY <3>2 DEF Forwarder!Next
  <2>5. CASE queueStopped /\ queueStopped' = TRUE /\ UNCHANGED <<queue, forwarded>>
    <3>1. queueStopped' = queueStopped
      BY <2>5, Zenon DEF Collector!ChannelOK
    <3>2. QED
      BY <2>2, <2>5, <3>1 DEF shared
  <2>6. \/ Collector!Run
        \/ \E s \in Collector!Subs : Collector!Publish(s) \/ Collector!SetSignal(s)
        \/ Collector!BeginStop
    BY <1>2 DEF Collect, CollectorSide
  <2>7. QED
    BY <2>2, <2>3, <2>4, <2>5, <2>6, QueueSteps
<1>3. CASE Forward \/ ForwarderSide(Forwarder!NetworkActs)
  BY <1>3 DEF Forward, PopMessage, ForwarderSide, Forwarder!Run, Forwarder!Next
<1>4. CASE UNCHANGED vars
  BY <1>1, <1>4 DEF vars
<1>5. QED
  BY <1>2, <1>3, <1>4 DEF Next, Environment

THEOREM ForwarderIsFed == Spec => Forwarder!Spec
<1>1. Init => Forwarder!Init
  <2> SUFFICES ASSUME Init PROVE Forwarder!Init
    OBVIOUS
  <2>1. queue = <<>> /\ forwarded = <<>>
    BY DEF Init, Collector!Init
  <2>2. Len(forwarded) + Len(queue) = 0 /\ Len(forwarded) = 0
    BY <2>1
  <2>3. QED
    BY <2>2, Zenon DEF Init, Forwarder!Init
<1>2. QED
  BY <1>1, ForwarderSteps, AcceptedFit, CollectorHolds, PTL DEF Spec, Forwarder!Spec

(***************************************************************************)
(* What was proved of frames, positions and sessions holds with the real   *)
(* collector as the producer.                                              *)
(***************************************************************************)
THEOREM ForwarderHolds == Spec => [](Forwarder!ForwarderInv /\ Forwarder!SentIsPopped)
BY ForwarderIsFed, Forwarder!ForwarderInvariant, Forwarder!OnlyPoppedIsSent, ConstantsFit, PTL

-----------------------------------------------------------------------------
(* From the log to the wire                                                *)

(***************************************************************************)
(* Up to the forwarder's hands the service does what it is for, whatever   *)
(* becomes of the connections: the events it popped are those of each log  *)
(* that were not dropped, in the order in which the queue accepted them.   *)
(***************************************************************************)
THEOREM LogsAreForwarded == Spec => Collector!Promise!Spec
BY CollectorIsItself, Collector!CollectorForwardsLogs, ConstantsFit

(***************************************************************************)
(* When any byte of an event is on a connection, the event is one that the *)
(* queue accepted, and every earlier event of its log that was accepted    *)
(* has been taken whole, by this connection or by one before it: across    *)
(* batches, the queue, partial writes and reconnections no event is made   *)
(* up and none is overtaken by a later one of its log.                     *)
(***************************************************************************)
WireKeepsLogs ==
  \A c \in Forwarder!Connections : \A i \in 1 .. Len(stream[c]) :
    LET m == stream[c][i][1]
    IN  /\ m \in 1 .. Len(forwarded)
        /\ \A k \in 1 .. Len(Collector!accepted) :
             /\ Collector!accepted[k][1] = Collector!accepted[m][1]
             /\ Collector!accepted[k][2] < Collector!accepted[m][2]
             => Forwarder!SentWhole(k)

THEOREM LogsKeepTheirOrder == Spec => []WireKeepsLogs
<1>1. Collector!CollectorInv /\ Forwarder!ForwarderInv /\ Forwarder!SentIsPopped => WireKeepsLogs
  <2> DEFINE q == Collector!accepted
  <2> SUFFICES ASSUME Collector!CollectorInv, Forwarder!ForwarderInv, Forwarder!SentIsPopped,
                      NEW c \in Forwarder!Connections, NEW i \in 1 .. Len(stream[c])
               PROVE  LET m == stream[c][i][1]
                      IN  /\ m \in 1 .. Len(forwarded)
                          /\ \A k \in 1 .. Len(q) :
                               q[k][1] = q[m][1] /\ q[k][2] < q[m][2] => Forwarder!SentWhole(k)
    BY DEF WireKeepsLogs
  <2> DEFINE m == stream[c][i][1]
  <2>1. m \in 1 .. Len(forwarded)
    BY DEF Forwarder!SentIsPopped
  <2>2. /\ q \in Seq(Collector!Event) /\ Len(q) = Len(forwarded) + Len(queue)
        /\ Len(forwarded) \in Nat /\ Len(queue) \in Nat
    BY ConcatProperties, LenProperties
    DEF Collector!accepted, Collector!CollectorInv, Collector!TypeOK, Collector!ChannelOK
  <2>3. \A k \in 1 .. m - 1 : Forwarder!SentWhole(k)
    BY DEF Forwarder!ForwarderInv, Forwarder!DeliveryInv, Forwarder!NothingOvertakes
  <2>4. \A k, j \in 1 .. Len(q) : k < j /\ q[k][1] = q[j][1] => q[k][2] < q[j][2]
    BY DEF Collector!CollectorInv, Collector!InOrder
  <2> HIDE DEF m, q
  <2>5. ASSUME NEW k \in 1 .. Len(q), q[k][1] = q[m][1], q[k][2] < q[m][2]
        PROVE  Forwarder!SentWhole(k)
    <3>1. m \in 1 .. Len(q)
      BY <2>1, <2>2
    <3>2. q[k][2] \in Nat /\ q[m][2] \in Nat
      BY <2>2, <3>1, ElementOfSeq DEF Collector!Event
    <3>3. ~(m < k) /\ m # k
      BY <2>4, <2>5, <3>1, <3>2
    <3>4. k \in 1 .. m - 1
      BY <2>1, <2>2, <3>3
    <3>5. QED
      BY <2>3, <3>4
  <2>6. QED
    BY <2>1, <2>5 DEF m
<1>2. QED
  BY <1>1, CollectorHolds, ForwarderHolds, PTL

(***************************************************************************)
(* Every event that the collector counted as a success is in the queue, or *)
(* held by the forwarder, or a connection took it whole; the statistics of *)
(* a log are the number of these events.                                   *)
(***************************************************************************)
SuccessesAreKept ==
  /\ \A s \in Collector!Subs : stats[s]["success"] = Collector!OfSub(Collector!accepted, s)
  /\ \A i \in 1 .. Len(Collector!accepted) :
       i \in Len(forwarded) + 1 .. Len(forwarded) + Len(queue) \/ i = message \/ Forwarder!SentWhole(i)

THEOREM NoSuccessIsLost == Spec => []SuccessesAreKept
<1>1. Collector!CollectorInv /\ Forwarder!ForwarderInv => SuccessesAreKept
  <2> SUFFICES ASSUME Collector!CollectorInv, Forwarder!ForwarderInv PROVE SuccessesAreKept
    OBVIOUS
  <2>1. \A s \in Collector!Subs : stats[s]["success"] = Collector!OfSub(Collector!accepted, s)
    BY DEF Collector!CollectorInv, Collector!Accounting
  <2>2. /\ Len(Collector!accepted) = Len(forwarded) + Len(queue)
        /\ Len(forwarded) \in Nat /\ Len(queue) \in Nat
    BY ConcatProperties, LenProperties
    DEF Collector!accepted, Collector!CollectorInv, Collector!TypeOK, Collector!ChannelOK
  <2>3. \A i \in 1 .. Len(forwarded) : i = message \/ Forwarder!SentWhole(i)
    BY DEF Forwarder!ForwarderInv, Forwarder!DeliveryInv, Forwarder!PoppedIsSentOrHeld
  <2>4. QED
    BY <2>1, <2>2, <2>3 DEF SuccessesAreKept
<1>2. QED
  BY <1>1, CollectorHolds, ForwarderHolds, PTL

-----------------------------------------------------------------------------
(* The abstract specification                                              *)

LEMMA ReadThrough ==
  ASSUME NEW q, NEW d \in Nat, NEW ms, ms = Forwarder!Upto(d)
  PROVE  [i \in 1 .. Len(ms) |-> q[ms[i]]] = [i \in 1 .. d |-> q[i]]
<1>1. Len(ms) = d /\ \A i \in 1 .. d : ms[i] = i
  BY ConstantsFit, Forwarder!ReadOne DEF Forwarder!Upto
<1>2. QED
  BY <1>1

LinkInv ==
  /\ Collector!CollectorInv
  /\ Forwarder!ForwarderInv /\ Forwarder!SentIsPopped /\ Forwarder!EarlierFirst

(***************************************************************************)
(* A step adds at most the next of the forwarded events to what the        *)
(* receiver reads, and nothing if no connection takes anything.            *)
(***************************************************************************)
LEMMA DeliversInOrder ==
  ASSUME LinkInv, LinkInv', [Next]_vars,
         \/ UNCHANGED forwarded
         \/ UNCHANGED stream /\ \E x : forwarded' = Append(forwarded, x)
  PROVE  \/ UNCHANGED delivered
         \/ /\ Len(delivered) < Len(forwarded) /\ ~UNCHANGED stream
            /\ delivered' = Append(delivered, forwarded[Len(delivered) + 1])
<1>1. PICK d \in 0 .. Len(forwarded), e \in 0 .. Len(forwarded)' :
        /\ Forwarder!Received = Forwarder!Upto(d) /\ Forwarder!Received' = Forwarder!Upto(e)
        /\ e \in {d, d + 1}
        /\ UNCHANGED stream => e = d
  <2>1. Collector!CollectorInv' => MessagesFit'
    BY AcceptedFit, PTL
  <2>2. [Forwarder!Next]_(Forwarder!vars)
    BY <2>1, ForwarderSteps DEF LinkInv
  <2>3. QED
    BY <2>2, ConstantsFit, Forwarder!ReadsOneMore DEF LinkInv
<1>2. forwarded \in Seq(Collector!Event) /\ Len(forwarded) \in Nat /\ d \in Nat /\ e \in Nat
  BY LenProperties DEF LinkInv, Collector!CollectorInv, Collector!TypeOK, Collector!ChannelOK
<1>3. /\ delivered = [i \in 1 .. d |-> forwarded[i]]
      /\ delivered' = [i \in 1 .. e |-> forwarded'[i]]
  <2>1. delivered = [i \in 1 .. d |-> forwarded[i]]
    BY <1>1, <1>2, ReadThrough DEF delivered
  <2>2. delivered' = [i \in 1 .. e |-> forwarded'[i]]
    <3> DEFINE ms == Forwarder!Received'
               q == forwarded'
    <3>1. delivered' = [i \in 1 .. Len(ms) |-> q[ms[i]]]
      BY Zenon DEF delivered
    <3>2. ms = Forwarder!Upto(e)
      BY <1>1
    <3> HIDE DEF ms, q
    <3>3. [i \in 1 .. Len(ms) |-> q[ms[i]]] = [i \in 1 .. e |-> q[i]]
      BY <1>2, <3>2, ReadThrough
    <3>4. QED
      BY <3>1, <3>3, Zenon DEF q
  <2>3. QED
    BY <2>1, <2>2
<1>4. CASE e = d
  <2>1. \A i \in 1 .. d : forwarded'[i] = forwarded[i]
    BY <1>2
  <2>2. QED
    BY <1>3, <1>4, <2>1
<1>5. CASE e = d + 1
  <2>1. UNCHANGED forwarded /\ ~UNCHANGED stream
    BY <1>1, <1>2, <1>5
  <2>2. delivered' = Append(delivered, forwarded[d + 1]) /\ Len(delivered) = d
    BY <1>2, <1>3, <1>5, <2>1
  <2>3. d < Len(forwarded)
    BY <1>2, <1>5, <2>1
  <2>4. QED
    BY <2>1, <2>2, <2>3
<1>6. QED
  BY <1>1, <1>4, <1>5

(***************************************************************************)
(* From the log to the wire: with any number of logs, events, connections  *)
(* and queue slots, frames of every shape and connections that break at    *)
(* any byte, each step of the two threads, of the log service, of the      *)
(* network and of the thread that stops the service logs an event, drops   *)
(* the next one of its log, lets the queue accept it, or delivers the next *)
(* accepted one to the receiver, or changes nothing that can be seen.      *)
(***************************************************************************)
THEOREM PipelineForwardsLogs == Spec => ImplementsLogForwarding
<1> DEFINE taken == [s \in Collector!Subs |-> fetched[s] - (IF s = sub THEN batch ELSE 0)]
           acc == forwarded \o queue
<1>1. Init /\ LinkInv => Abstract!Init
  <2> SUFFICES ASSUME Init, LinkInv PROVE Abstract!Init
    OBVIOUS
  <2>1. /\ published = [s \in Collector!Subs |-> 0] /\ taken = [s \in Collector!Subs |-> 0]
        /\ acc = <<>> /\ forwarded = <<>>
    BY DEF Init, Collector!Init
  <2>2. queueStopped = FALSE
    BY Zenon DEF Init, Collector!Init
  <2>3. delivered = <<>>
    <3>1. PICK d \in 0 .. Len(forwarded) : Forwarder!Received = Forwarder!Upto(d)
      BY ConstantsFit, Forwarder!ReadIsPopped DEF LinkInv, Forwarder!ReceivedInOrder
    <3>2. d = 0
      BY <2>1, <3>1
    <3>3. delivered = [i \in 1 .. d |-> forwarded[i]]
      BY <3>1, <3>2, ReadThrough DEF delivered
    <3>4. QED
      BY <3>2, <3>3
  <2> HIDE DEF taken, acc
  <2>4. QED
    BY <2>1, <2>2, <2>3, Zenon DEF Abstract!Init, taken, acc
<1>2. LinkInv /\ LinkInv' /\ [Next]_vars => [Abstract!Next]_(Abstract!vars)
  <2> SUFFICES ASSUME LinkInv, LinkInv', [Next]_vars PROVE [Abstract!Next]_(Abstract!vars)
    OBVIOUS
  <2> USE DEF Collector!accepted, Collector!Taken
  <2>1. ASSUME UNCHANGED own, UNCHANGED forwarded PROVE [Abstract!Next]_(Abstract!vars)
    <3>1. UNCHANGED delivered
      <4>1. UNCHANGED <<forwarded, stream>>
        BY <2>1 DEF own
      <4>2. QED
        BY <4>1, DeliversInOrder
    <3>2. [Collector!Promise!Next]_(Collector!Promise!vars)
      BY CollectorSteps, ConstantsFit, Collector!StepsKeepPromise DEF LinkInv
    <3>3. CASE UNCHANGED Collector!Promise!vars
      <4>1. UNCHANGED <<published, taken, acc, queueStopped>>
        BY <3>3 DEF Collector!Promise!vars
      <4> HIDE DEF taken, acc
      <4>2. QED
        BY <3>1, <4>1 DEF Abstract!vars, taken, acc
    <3>4. CASE Collector!Promise!Deliver
      <4>1. forwarded \in Seq(Collector!Event)
        BY DEF LinkInv, Collector!CollectorInv, Collector!TypeOK, Collector!ChannelOK
      <4>2. QED
        BY <2>1, <3>4, <4>1 DEF Collector!Promise!Deliver
    <3>5. ASSUME NEW s \in Collector!Subs, Collector!Promise!Log(s) PROVE Abstract!Log(s)
      BY <3>1, <3>5 DEF Collector!Promise!Log, Abstract!Log
    <3>6. ASSUME NEW s \in Collector!Subs, Collector!Promise!Drop(s) PROVE Abstract!Drop(s)
      BY <3>1, <3>6 DEF Collector!Promise!Drop, Abstract!Drop
    <3>7. ASSUME NEW s \in Collector!Subs, Collector!Promise!Accept(s) PROVE Abstract!Accept(s)
      BY <3>1, <3>7 DEF Collector!Promise!Accept, Abstract!Accept
    <3>8. ASSUME Collector!Promise!Stop PROVE Abstract!Stop
      <4>1. queueStopped' = TRUE
        BY <3>8, Zenon DEF Collector!Promise!Stop
      <4>2. UNCHANGED <<published, taken, acc>>
        BY <3>8 DEF Collector!Promise!Stop
      <4> HIDE DEF taken, acc
      <4>3. QED
        BY <3>1, <4>1, <4>2, Zenon DEF Abstract!Stop, taken, acc
    <3>9. QED
      BY <3>2, <3>3, <3>4, <3>5, <3>6, <3>7, <3>8 DEF Collector!Promise!Next, Abstract!Next
  <2>2. CASE Collect \/ CollectorSide(Collector!BeginStop)
             \/ \E s \in Collector!Subs :
                  CollectorSide(Collector!Publish(s) \/ Collector!SetSignal(s))
    <3>1. UNCHANGED own
      BY <2>2 DEF Collect, CollectorSide
    <3>2. UNCHANGED forwarded
      <4>1. \/ Collector!Run
            \/ \E s \in Collector!Subs : Collector!Publish(s) \/ Collector!SetSignal(s)
            \/ Collector!BeginStop
        BY <2>2 DEF Collect, CollectorSide
      <4>2. Collector!ChannelOK
        BY DEF LinkInv, Collector!CollectorInv, Collector!TypeOK
      <4>3. QED
        BY <4>1, <4>2, QueueSteps DEF shared
    <3>3. QED
      BY <2>1, <3>1, <3>2
  <2>3. CASE UNCHANGED vars
    BY <2>1, <2>3 DEF vars, shared
  <2>4. CASE PopMessage
    <3>1. /\ queue # <<>> /\ queue' = Tail(queue) /\ forwarded' = Append(forwarded, Head(queue))
          /\ UNCHANGED <<published, queueStopped, fetched, sub, batch, stream>>
      BY <2>4
      DEF PopMessage, Collector!Pop, Collector!service, Collector!subscription,
          Collector!collector, Forwarder!PopMessage, Forwarder!socket, Forwarder!sentData
    <3>2. acc' = acc
      BY <3>1, Collector!PopMovesNothing, ConstantsFit
      DEF LinkInv, Collector!CollectorInv, Collector!TypeOK, Collector!ChannelOK
    <3>3. UNCHANGED delivered
      BY <3>1, DeliversInOrder
    <3>4. taken' = taken
      BY <3>1
    <3> HIDE DEF taken, acc
    <3>5. QED
      BY <3>1, <3>2, <3>3, <3>4 DEF Abstract!vars, taken, acc
  <2>5. CASE ForwarderSide(Forwarder!Run) \/ ForwarderSide(Forwarder!NetworkActs)
    <3>1. UNCHANGED <<published, taken, queueStopped, queue, forwarded>>
      BY <2>5 DEF ForwarderSide, shared
    <3>2. CASE UNCHANGED delivered
      BY <3>1, <3>2 DEF Abstract!vars
    <3>3. CASE /\ Len(delivered) < Len(forwarded)
               /\ delivered' = Append(delivered, forwarded[Len(delivered) + 1])
      <4>1. /\ Len(delivered) < Len(acc)
            /\ acc[Len(delivered) + 1] = forwarded[Len(delivered) + 1]
        BY <3>3 DEF LinkInv, Collector!CollectorInv, Collector!TypeOK, Collector!ChannelOK
      <4>2. Abstract!Deliver
        BY <3>1, <3>3, <4>1 DEF Abstract!Deliver
      <4>3. QED
        BY <4>2 DEF Abstract!Next
    <3>4. QED
      BY <3>1, <3>2, <3>3, DeliversInOrder
  <2>6. QED
    BY <2>2, <2>3, <2>4, <2>5 DEF Next, Forward, Environment
<1>3. Spec => []LinkInv
  BY CollectorHolds, ForwarderHolds, ForwarderIsFed, Forwarder!EarlierMessagesFirst,
     ConstantsFit, PTL DEF LinkInv
<1>4. QED
  BY <1>1, <1>2, <1>3, PTL DEF Spec, ImplementsLogForwarding, Abstract!Spec
=============================================================================
