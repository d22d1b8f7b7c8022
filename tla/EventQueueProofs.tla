-------------------------- MODULE EventQueueProofs ---------------------------
(***************************************************************************)
(* What holds of EventQueue for every number of producers and consumers,   *)
(* every set of messages and every capacity.                               *)
(***************************************************************************)
EXTENDS EventQueue, TLAPS, FiniteSetTheorems, SequenceTheorems

(***************************************************************************)
(* Positions in the ring never need more than one wrap.                    *)
(***************************************************************************)
LEMMA RingArithmetic ==
  ASSUME NEW a \in Nat, a < 2 * Capacity
  PROVE  a % Capacity = IF a < Capacity THEN a ELSE a - Capacity
BY CapacityAssumption

LEMMA WrapSum ==
  ASSUME NEW h \in Slots, NEW n \in 0 .. Capacity
  PROVE  (h + n) % Capacity = IF h + n < Capacity THEN h + n ELSE h + n - Capacity
BY CapacityAssumption, RingArithmetic DEF Slots

LEMMA WrapNext ==
  ASSUME NEW h \in Slots
  PROVE  NextSlot(h) = IF h + 1 < Capacity THEN h + 1 ELSE 0
BY CapacityAssumption, RingArithmetic DEF Slots, NextSlot

LEMMA NextSlotIsSlot == \A s \in Slots : NextSlot(s) \in Slots
BY CapacityAssumption, RingArithmetic DEF Slots, NextSlot

(***************************************************************************)
(* Every state of the queue is well typed: the counter stays between zero  *)
(* and the capacity (push and pop never overrun the array) and head and    *)
(* tail stay inside it.                                                    *)
(***************************************************************************)
THEOREM TypeCorrect == Spec => []TypeOK
<1>1. Init => TypeOK
  <2>1. ASSUME Init PROVE count \in 0 .. Capacity /\ head \in Slots /\ tail \in Slots
    BY <2>1, CapacityAssumption DEF Init, Slots
  <2>2. QED
    BY <2>1 DEF Init, TypeOK
<1>2. TypeOK /\ [Next]_vars => TypeOK'
  <2> SUFFICES ASSUME TypeOK, [Next]_vars PROVE TypeOK'
    OBVIOUS
  <2> USE DEF TypeOK
  <2>1. ASSUME NEW p \in Producers, NEW m \in Messages, CallPush(p, m)
        PROVE  TypeOK'
    BY <2>1 DEF CallPush, ring
  <2>2. ASSUME NEW p \in Producers, PushWait(p)
        PROVE  TypeOK'
    BY <2>2 DEF PushWait, ring, calls
  <2>3. ASSUME NEW p \in Producers, PushRefused(p)
        PROVE  TypeOK'
    BY <2>3 DEF PushRefused, ReturnPush, ring
  <2>4. ASSUME NEW p \in Producers, PushStore(p)
        PROVE  TypeOK'
    <3>1. tail' \in Slots
      BY <2>4, NextSlotIsSlot DEF PushStore
    <3>2. count' \in 0 .. Capacity
      BY <2>4, CapacityAssumption DEF PushStore, MayStore, SpaceAvailable
    <3>3. eventWaiters' \subseteq Consumers
      BY <2>4 DEF PushStore, NotifyOne
    <3>4. QED
      BY <2>4, <3>1, <3>2, <3>3 DEF PushStore, ReturnPush
  <2>5. ASSUME NEW c \in Consumers, CallPop(c)
        PROVE  TypeOK'
    BY <2>5 DEF CallPop, ring
  <2>6. ASSUME NEW c \in Consumers, PopWait(c)
        PROVE  TypeOK'
    BY <2>6 DEF PopWait, ring, calls
  <2>7. ASSUME NEW c \in Consumers, PopNull(c)
        PROVE  TypeOK'
    BY <2>7 DEF PopNull, ReturnPop, ring
  <2>8. ASSUME NEW c \in Consumers, PopTake(c)
        PROVE  TypeOK'
    <3>1. head' \in Slots
      BY <2>8, NextSlotIsSlot DEF PopTake
    <3>2. count' \in 0 .. Capacity
      BY <2>8, CapacityAssumption DEF PopTake, MayTake, EventAvailable
    <3>3. spaceWaiters' \subseteq Producers
      BY <2>8 DEF PopTake, NotifyOne
    <3>4. QED
      BY <2>8, <3>1, <3>2, <3>3 DEF PopTake, ReturnPop
  <2>9. CASE Stop
    BY <2>9 DEF Stop, NotifyAll, ring, calls
  <2>10. CASE SpuriousWake
    BY <2>10 DEF SpuriousWake, ring, calls
  <2>11. CASE UNCHANGED vars
    BY <2>11 DEF vars, ring, calls
  <2>12. QED
    BY <2>1, <2>2, <2>3, <2>4, <2>5, <2>6, <2>7, <2>8, <2>9, <2>10, <2>11
    DEF Next, PushStep, PopStep
<1>3. QED
  BY <1>1, <1>2, PTL DEF Spec

-----------------------------------------------------------------------------
(***************************************************************************)
(* The slots occupied by n messages from slot h on are an interval that    *)
(* may wrap once: linear arithmetic in the place of a modulo.              *)
(***************************************************************************)
Span(h, n) == {(h + i) % Capacity : i \in 0 .. (n - 1)}
InSpan(s, h, n) == (h <= s /\ s < h + n) \/ s + Capacity < h + n

LEMMA SpanIsInterval ==
  ASSUME NEW h \in Slots, NEW n \in 0 .. Capacity, NEW s \in Slots
  PROVE  s \in Span(h, n) <=> InSpan(s, h, n)
<1> USE CapacityAssumption DEF Slots
<1>1. ASSUME NEW i \in 0 .. (n - 1), s = (h + i) % Capacity
      PROVE  InSpan(s, h, n)
  <2>1. s = IF h + i < Capacity THEN h + i ELSE h + i - Capacity
    BY <1>1, RingArithmetic
  <2>2. QED
    BY <2>1 DEF InSpan
<1>2. ASSUME h <= s, s < h + n
      PROVE  s \in Span(h, n)
  <2>1. s - h \in 0 .. (n - 1) /\ (h + (s - h)) % Capacity = s
    BY <1>2, RingArithmetic
  <2>2. QED
    BY <2>1 DEF Span
<1>3. ASSUME s + Capacity < h + n
      PROVE  s \in Span(h, n)
  <2>1. s + Capacity - h \in 0 .. (n - 1)
    BY <1>3
  <2>2. (h + (s + Capacity - h)) % Capacity = s
    BY RingArithmetic
  <2>3. QED
    BY <2>1, <2>2 DEF Span
<1>4. QED
  BY <1>1, <1>2, <1>3 DEF Span, InSpan

(***************************************************************************)
(* The ring stays well formed: head, tail and count agree and the slots    *)
(* between head and tail, and no others, hold messages.  Hence pop() never *)
(* returns a null it took from the ring.                                   *)
(***************************************************************************)
THEOREM RingIsWellFormed == Spec => []RingShape
<1> USE CapacityAssumption
<1>1. Init => RingShape
  <2> SUFFICES ASSUME Init PROVE RingShape
    OBVIOUS
  <2>1. (head + count) % Capacity = 0
    BY RingArithmetic DEF Init
  <2>2. Occupied = {}
    BY DEF Init, Occupied
  <2>3. QED
    BY <2>1, <2>2 DEF Init, RingShape
<1>2. TypeOK /\ RingShape /\ [Next]_vars => RingShape'
  <2> SUFFICES ASSUME TypeOK, RingShape, [Next]_vars PROVE RingShape'
    OBVIOUS
  <2>1. ASSUME UNCHANGED ring PROVE RingShape'
    BY <2>1 DEF ring, RingShape, Occupied
  <2>2. ASSUME NEW p \in Producers, PushStore(p)
        PROVE  RingShape'
    <3>1. /\ count < Capacity /\ pushing[p] # NULL
          /\ head' = head /\ count' = count + 1
          /\ tail' = NextSlot(tail)
          /\ buffer' = [buffer EXCEPT ![tail] = pushing[p]]
      BY <2>2 DEF PushStore, PushRunnable, MayStore, SpaceAvailable
    <3>2. tail = IF head + count < Capacity THEN head + count ELSE head + count - Capacity
      BY WrapSum DEF TypeOK, RingShape
    <3>3. tail' = (head' + count') % Capacity
      <4>1. head' \in Slots /\ count' \in 0 .. Capacity
        BY <3>1 DEF TypeOK
      <4>2. tail' = IF tail + 1 < Capacity THEN tail + 1 ELSE 0
        BY <3>1, WrapNext DEF TypeOK
      <4>3. (head' + count') % Capacity
              = IF head' + count' < Capacity THEN head' + count' ELSE head' + count' - Capacity
        BY <4>1, WrapSum
      <4>4. QED
        BY <3>1, <3>2, <4>2, <4>3 DEF TypeOK, Slots
    <3>4. ASSUME NEW s \in Slots
          PROVE  buffer'[s] # NULL <=> s \in Span(head', count')
      <4>1. InSpan(s, head', count') <=> (InSpan(s, head, count) \/ s = tail)
        BY <3>1, <3>2 DEF InSpan, TypeOK, Slots
      <4>2. count' \in 0 .. Capacity
        BY <3>1 DEF TypeOK
      <4>3. s \in Span(head', count') <=> (s \in Span(head, count) \/ s = tail)
        BY <3>1, <4>1, <4>2, SpanIsInterval DEF TypeOK
      <4>4. buffer[s] # NULL <=> s \in Span(head, count)
        BY DEF RingShape, Occupied, Span
      <4>5. QED
        BY <3>1, <4>3, <4>4 DEF TypeOK
    <3>5. QED
      BY <3>3, <3>4 DEF RingShape, Occupied, Span
  <2>3. ASSUME NEW c \in Consumers, PopTake(c)
        PROVE  RingShape'
    <3>1. /\ count > 0
          /\ tail' = tail /\ count' = count - 1
          /\ head' = NextSlot(head)
          /\ buffer' = [buffer EXCEPT ![head] = NULL]
      BY <2>3 DEF PopTake, MayTake, EventAvailable
    <3>2. tail = IF head + count < Capacity THEN head + count ELSE head + count - Capacity
      BY WrapSum DEF TypeOK, RingShape
    <3>3. head' = IF head + 1 < Capacity THEN head + 1 ELSE 0
      BY <3>1, WrapNext DEF TypeOK
    <3>4. tail' = (head' + count') % Capacity
      <4>1. head' \in Slots /\ count' \in 0 .. Capacity
        BY <3>1, <3>3 DEF TypeOK, Slots
      <4>2. (head' + count') % Capacity
              = IF head' + count' < Capacity THEN head' + count' ELSE head' + count' - Capacity
        BY <4>1, WrapSum
      <4>3. QED
        BY <3>1, <3>2, <3>3, <4>2 DEF TypeOK, Slots
    <3>5. ASSUME NEW s \in Slots
          PROVE  buffer'[s] # NULL <=> s \in Span(head', count')
      <4>1. InSpan(s, head', count') <=> (InSpan(s, head, count) /\ s # head)
        BY <3>1, <3>3 DEF InSpan, TypeOK, Slots
      <4>2. count' \in 0 .. Capacity /\ head' \in Slots
        BY <3>1, <3>3 DEF TypeOK, Slots
      <4>3. s \in Span(head', count') <=> (s \in Span(head, count) /\ s # head)
        BY <4>1, <4>2, SpanIsInterval DEF TypeOK
      <4>4. buffer[s] # NULL <=> s \in Span(head, count)
        BY DEF RingShape, Occupied, Span
      <4>5. QED
        BY <3>1, <4>3, <4>4 DEF TypeOK
    <3>6. QED
      BY <3>4, <3>5 DEF RingShape, Occupied, Span
  <2>4. QED
    BY <2>1, <2>2, <2>3
    DEF Next, PushStep, PopStep, CallPush, PushWait, PushRefused, CallPop, PopWait, PopNull,
        Stop, SpuriousWake, vars
<1>3. QED
  BY <1>1, <1>2, TypeCorrect, PTL DEF Spec

-----------------------------------------------------------------------------
(***************************************************************************)
(* Blocked threads are inside the operation they block in, and stop leaves *)
(* nobody blocked: a thread cannot start to wait after stop because the    *)
(* signal is set with the mutex held.                                      *)
(***************************************************************************)
THEOREM WaitersCorrect == Spec => []WaitersAreInCall
<1>1. Init => WaitersAreInCall
  BY DEF Init, WaitersAreInCall
<1>2. TypeOK /\ WaitersAreInCall /\ [Next]_vars => WaitersAreInCall'
  <2> SUFFICES ASSUME TypeOK, WaitersAreInCall, [Next]_vars PROVE WaitersAreInCall'
    OBVIOUS
  <2> USE DEF TypeOK, WaitersAreInCall
  <2>1. ASSUME NEW p \in Producers, NEW m \in Messages, CallPush(p, m)
        PROVE  WaitersAreInCall'
    BY <2>1, NullAssumption DEF CallPush
  <2>2. ASSUME NEW p \in Producers, PushWait(p)
        PROVE  WaitersAreInCall'
    BY <2>2 DEF PushWait, PushRunnable, calls
  <2>3. ASSUME NEW p \in Producers, PushRefused(p)
        PROVE  WaitersAreInCall'
    BY <2>3 DEF PushRefused, PushRunnable, ReturnPush
  <2>4. ASSUME NEW p \in Producers, PushStore(p)
        PROVE  WaitersAreInCall'
    BY <2>4 DEF PushStore, PushRunnable, ReturnPush, MayStore, NotifyOne
  <2>5. ASSUME NEW c \in Consumers, CallPop(c)
        PROVE  WaitersAreInCall'
    BY <2>5 DEF CallPop
  <2>6. ASSUME NEW c \in Consumers, PopWait(c)
        PROVE  WaitersAreInCall'
    BY <2>6 DEF PopWait, PopRunnable, calls
  <2>7. ASSUME NEW c \in Consumers, PopNull(c)
        PROVE  WaitersAreInCall'
    BY <2>7 DEF PopNull, PopRunnable, ReturnPop
  <2>8. ASSUME NEW c \in Consumers, PopTake(c)
        PROVE  WaitersAreInCall'
    BY <2>8 DEF PopTake, PopRunnable, ReturnPop, MayTake, NotifyOne
  <2>9. CASE Stop
    BY <2>9 DEF Stop, NotifyAll, calls
  <2>10. CASE SpuriousWake
    BY <2>10 DEF SpuriousWake, calls
  <2>11. CASE UNCHANGED vars
    BY <2>11 DEF vars, calls
  <2>12. QED
    BY <2>1, <2>2, <2>3, <2>4, <2>5, <2>6, <2>7, <2>8, <2>9, <2>10, <2>11
    DEF Next, PushStep, PopStep
<1>3. QED
  BY <1>1, <1>2, TypeCorrect, PTL DEF Spec

(***************************************************************************)
(* No step changes the ring or clears the signal once it is set.           *)
(***************************************************************************)
THEOREM StopFreezesRing == Spec => StopIsFinal
<1>1. [Next]_vars => [stopSignal => stopSignal' /\ UNCHANGED ring]_vars
  BY DEF Next, vars, PushStep, PopStep, CallPush, PushWait, PushRefused, PushStore, CallPop,
         PopWait, PopNull, PopTake, Stop, SpuriousWake, MayStore, MayTake
<1>2. QED
  BY <1>1, PTL DEF Spec, StopIsFinal

(***************************************************************************)
(* A null result of pop is always the answer to stop: the forwarder is     *)
(* right to leave its loop on it.                                          *)
(***************************************************************************)
NullStep ==
  \A c \in Consumers :
    c \in popping /\ c \notin popping' /\ popped'[c] = NULL => stopSignal

THEOREM PopNeverInventsNull == Spec => NullMeansStopped
<1>1. TypeOK /\ RingShape /\ [Next]_vars => [NullStep]_vars
  <2> SUFFICES ASSUME TypeOK, RingShape, Next,
                      NEW c \in Consumers,
                      c \in popping, c \notin popping', popped'[c] = NULL
               PROVE  stopSignal
    BY DEF NullStep
  <2>1. ASSUME UNCHANGED popping PROVE FALSE
    BY <2>1
  <2>2. ASSUME NEW d \in Consumers, CallPop(d) PROVE FALSE
    BY <2>2 DEF CallPop
  <2>3. ASSUME NEW d \in Consumers, PopNull(d) PROVE stopSignal
    BY <2>3 DEF PopNull
  <2>4. ASSUME NEW d \in Consumers, PopTake(d) PROVE FALSE
    <3>1. d = c /\ popped'[c] = buffer[head]
      BY <2>4 DEF PopTake, ReturnPop, TypeOK
    <3>2. count > 0
      BY <2>4 DEF PopTake, MayTake, EventAvailable
    <3>3. InSpan(head, head, count)
      BY <3>2 DEF InSpan, TypeOK, Slots
    <3>4. buffer[head] # NULL
      BY <3>3, SpanIsInterval DEF RingShape, Occupied, Span, TypeOK
    <3>5. QED
      BY <3>1, <3>4
  <2>5. QED
    BY <2>1, <2>2, <2>3, <2>4
    DEF Next, PushStep, PopStep, CallPush, PushWait, PushRefused, PushStore, ReturnPush,
        PopWait, Stop, SpuriousWake, calls
<1>2. QED
  BY <1>1, TypeCorrect, RingIsWellFormed, PTL DEF Spec, NullMeansStopped, NullStep

-----------------------------------------------------------------------------
(***************************************************************************)
(* No lost wake-up.                                                        *)
(***************************************************************************)
(***************************************************************************)
(* As long as a producer waits, no fewer producers run towards the mutex   *)
(* than there are free slots, and symmetrically for consumers: notify_one  *)
(* is enough, with any number of threads, whoever overtakes whom.          *)
(***************************************************************************)
THEOREM NotifyOneSuffices == Spec => []NoLostWakeup
<1> USE CapacityAssumption
<1>1. Init => NoLostWakeup
  BY DEF Init, NoLostWakeup
<1>2. TypeOK /\ WaitersAreInCall /\ NoLostWakeup /\ [Next]_vars => NoLostWakeup'
  <2> SUFFICES ASSUME TypeOK, WaitersAreInCall, NoLostWakeup, [Next]_vars
               PROVE  NoLostWakeup'
    OBVIOUS
  <2> DEFINE P == PushersRunning  C == PoppersRunning
  <2> HIDE DEF P, C
  <2>0. /\ IsFiniteSet(P) /\ Cardinality(P) \in Nat
        /\ IsFiniteSet(C) /\ Cardinality(C) \in Nat
        /\ IsFiniteSet(P') /\ Cardinality(P') \in Nat
        /\ IsFiniteSet(C') /\ Cardinality(C') \in Nat
    BY ThreadsAssumption, FS_Subset, FS_CardinalityType
    DEF P, C, PushersRunning, PoppersRunning
  <2>types. count \in 0 .. Capacity
    BY DEF TypeOK
  <2>a. ASSUME P \subseteq P' PROVE Cardinality(P) <= Cardinality(P')
    BY <2>0, <2>a, FS_Subset
  <2>b. ASSUME C \subseteq C' PROVE Cardinality(C) <= Cardinality(C')
    BY <2>0, <2>b, FS_Subset
  <2>c. ASSUME P \subseteq P', C \subseteq C', UNCHANGED count,
               spaceWaiters' \subseteq spaceWaiters, eventWaiters' \subseteq eventWaiters
        PROVE  NoLostWakeup'
    BY <2>0, <2>a, <2>b, <2>c, <2>types DEF NoLostWakeup, P, C
  <2>1. ASSUME NEW p \in Producers, NEW m \in Messages, CallPush(p, m)
        PROVE  NoLostWakeup'
    BY <2>1, <2>c, NullAssumption
    DEF CallPush, ring, TypeOK, P, C, PushersRunning, PoppersRunning, PushRunnable, PopRunnable
  <2>2. ASSUME NEW p \in Producers, PushWait(p)
        PROVE  NoLostWakeup'
    <3>1. count' = Capacity /\ UNCHANGED <<count, eventWaiters, popping>>
      BY <2>2, <2>types DEF PushWait, SpaceAvailable, ring, calls
    <3>2. C' = C
      BY <3>1 DEF C, PoppersRunning, PopRunnable
    <3>3. QED
      BY <3>1, <3>2, <2>0 DEF NoLostWakeup, P, C
  <2>3. ASSUME NEW p \in Producers, PushRefused(p)
        PROVE  NoLostWakeup'
    BY <2>3 DEF PushRefused, WaitersAreInCall, NoLostWakeup
  <2>4. ASSUME NEW p \in Producers, PushStore(p)
        PROVE  NoLostWakeup'
    <3>1. /\ p \in P /\ P' = P \ {p}
          /\ count' = count + 1
          /\ UNCHANGED spaceWaiters
      BY <2>4 DEF PushStore, ReturnPush, PushRunnable, P, PushersRunning, TypeOK
    <3>2. Cardinality(P') = Cardinality(P) - 1
      BY <3>1, <2>0, FS_RemoveElement
    <3>3. ASSUME eventWaiters' # {}
          PROVE  Cardinality(C') = Cardinality(C) + 1
      <4>1. PICK t \in eventWaiters : eventWaiters' = eventWaiters \ {t}
        BY <2>4, <3>3 DEF PushStore, NotifyOne
      <4>2. C' = C \union {t} /\ t \notin C
        BY <2>4, <4>1
        DEF PushStore, ReturnPush, C, PoppersRunning, PopRunnable, WaitersAreInCall, TypeOK
      <4>3. QED
        BY <4>2, <2>0, FS_AddElement
    <3>4. eventWaiters' # {} => eventWaiters # {}
      BY <2>4 DEF PushStore, NotifyOne
    <3>5. QED
      BY <3>1, <3>2, <3>3, <3>4, <2>0, <2>types DEF NoLostWakeup, P, C
  <2>5. ASSUME NEW c \in Consumers, CallPop(c)
        PROVE  NoLostWakeup'
    BY <2>5, <2>c
    DEF CallPop, ring, P, C, PushersRunning, PoppersRunning, PushRunnable, PopRunnable
  <2>6. ASSUME NEW c \in Consumers, PopWait(c)
        PROVE  NoLostWakeup'
    <3>1. count' = 0 /\ UNCHANGED <<count, spaceWaiters, pushing>>
      BY <2>6, <2>types DEF PopWait, EventAvailable, ring, calls
    <3>2. P' = P
      BY <3>1 DEF P, PushersRunning, PushRunnable
    <3>3. QED
      BY <3>1, <3>2, <2>0 DEF NoLostWakeup, P, C
  <2>7. ASSUME NEW c \in Consumers, PopNull(c)
        PROVE  NoLostWakeup'
    BY <2>7 DEF PopNull, WaitersAreInCall, NoLostWakeup
  <2>8. ASSUME NEW c \in Consumers, PopTake(c)
        PROVE  NoLostWakeup'
    <3>1. /\ c \in C /\ C' = C \ {c}
          /\ count' = count - 1
          /\ UNCHANGED eventWaiters
      BY <2>8 DEF PopTake, ReturnPop, PopRunnable, C, PoppersRunning, TypeOK
    <3>2. Cardinality(C') = Cardinality(C) - 1
      BY <3>1, <2>0, FS_RemoveElement
    <3>3. ASSUME spaceWaiters' # {}
          PROVE  Cardinality(P') = Cardinality(P) + 1
      <4>1. PICK t \in spaceWaiters : spaceWaiters' = spaceWaiters \ {t}
        BY <2>8, <3>3 DEF PopTake, NotifyOne
      <4>2. P' = P \union {t} /\ t \notin P
        BY <2>8, <4>1
        DEF PopTake, ReturnPop, P, PushersRunning, PushRunnable, WaitersAreInCall, TypeOK
      <4>3. QED
        BY <4>2, <2>0, FS_AddElement
    <3>4. spaceWaiters' # {} => spaceWaiters # {}
      BY <2>8 DEF PopTake, NotifyOne
    <3>5. QED
      BY <3>1, <3>2, <3>3, <3>4, <2>0, <2>types DEF NoLostWakeup, P, C
  <2>9. CASE Stop
    BY <2>9 DEF Stop, NotifyAll, NoLostWakeup
  <2>10. CASE SpuriousWake
    BY <2>10, <2>c
    DEF SpuriousWake, ring, calls, P, C, PushersRunning, PoppersRunning, PushRunnable, PopRunnable
  <2>11. CASE UNCHANGED vars
    BY <2>11, <2>c
    DEF vars, ring, calls, P, C, PushersRunning, PoppersRunning, PushRunnable, PopRunnable
  <2>12. QED
    BY <2>1, <2>2, <2>3, <2>4, <2>5, <2>6, <2>7, <2>8, <2>9, <2>10, <2>11
    DEF Next, PushStep, PopStep
<1>3. QED
  BY <1>1, <1>2, TypeCorrect, WaitersCorrect, PTL DEF Spec
-----------------------------------------------------------------------------
(***************************************************************************)
(* EventQueue implements BoundedFifo, for every number of threads and      *)
(* every capacity: the safety part of the refinement TLC checks on small   *)
(* instances.                                                              *)
(***************************************************************************)

Item == Messages \union {NULL}

(* The contents of a ring: n messages of b from slot h on. *)
View(b, h, n) == [i \in 1 .. n |-> b[(h + i - 1) % Capacity]]

LEMMA SlotAt ==
  ASSUME NEW h \in Slots, NEW i \in 1 .. Capacity
  PROVE  /\ (h + i - 1) % Capacity = IF h + i - 1 < Capacity THEN h + i - 1
                                                             ELSE h + i - 1 - Capacity
         /\ (h + i - 1) % Capacity \in Slots
<1>1. PICK k \in 0 .. Capacity : k = i - 1
  BY CapacityAssumption
<1>2. (h + k) % Capacity = IF h + k < Capacity THEN h + k ELSE h + k - Capacity
  BY WrapSum
<1>3. h + k = h + i - 1
  BY <1>1, CapacityAssumption DEF Slots
<1>4. QED
  BY <1>1, <1>2, <1>3, CapacityAssumption DEF Slots

LEMMA ViewIsSeq ==
  ASSUME NEW b \in [Slots -> Item], NEW h \in Slots, NEW n \in 0 .. Capacity
  PROVE  /\ View(b, h, n) \in Seq(Item)
         /\ Len(View(b, h, n)) = n
         /\ \A i \in 1 .. n : View(b, h, n)[i] = b[(h + i - 1) % Capacity]
<1>1. \A i \in 1 .. n : (h + i - 1) % Capacity \in Slots
  BY SlotAt, CapacityAssumption
<1>2. View(b, h, n) \in [1 .. n -> Item]
  BY <1>1 DEF View
<1>3. n \in Nat
  BY CapacityAssumption
<1>4. View(b, h, n) \in Seq(Item)
  BY <1>2, <1>3, SeqDef
<1>5. Len(View(b, h, n)) = n
  BY <1>2, <1>3, <1>4, LenProperties
<1>6. QED
  BY <1>4, <1>5 DEF View

(***************************************************************************)
(* Storing at the tail appends; clearing the head slot takes the head.     *)
(***************************************************************************)
LEMMA StoreAppends ==
  ASSUME NEW b \in [Slots -> Item], NEW h \in Slots, NEW n \in 0 .. Capacity, n < Capacity,
         NEW m \in Item
  PROVE  View([b EXCEPT ![(h + n) % Capacity] = m], h, n + 1) = Append(View(b, h, n), m)
<1> DEFINE c == [b EXCEPT ![(h + n) % Capacity] = m]
           s == View(b, h, n)
           t == View(c, h, n + 1)
<1> n + 1 \in 0 .. Capacity
  BY CapacityAssumption
<1>1. c \in [Slots -> Item]
  OBVIOUS
<1>2. /\ t \in Seq(Item) /\ Len(t) = n + 1
      /\ \A i \in 1 .. (n + 1) : t[i] = c[(h + i - 1) % Capacity]
  BY <1>1, ViewIsSeq
<1>3. /\ s \in Seq(Item) /\ Len(s) = n
      /\ \A i \in 1 .. n : s[i] = b[(h + i - 1) % Capacity]
  BY ViewIsSeq
<1> HIDE DEF s, t
<1>4. /\ Append(s, m) \in Seq(Item) /\ Len(Append(s, m)) = n + 1
      /\ \A i \in 1 .. n : Append(s, m)[i] = s[i]
      /\ Append(s, m)[n + 1] = m
  BY <1>3, AppendProperties
<1>5. ASSUME NEW i \in 1 .. (n + 1)
      PROVE  t[i] = Append(s, m)[i]
  <2>0. i \in 1 .. Capacity /\ n + 1 \in 1 .. Capacity
    BY CapacityAssumption
  <2>1. (h + n) % Capacity \in Slots
    <3>1. (h + n) % Capacity = IF h + n < Capacity THEN h + n ELSE h + n - Capacity
      BY WrapSum
    <3>2. QED
      BY <3>1, CapacityAssumption DEF Slots
  <2>2. CASE i = n + 1
    <3>1. h + i - 1 = h + n
      BY <2>2 DEF Slots
    <3>2. c[(h + n) % Capacity] = m
      BY <2>1
    <3>3. QED
      BY <1>2, <1>4, <2>2, <3>1, <3>2
  <2>3. CASE i # n + 1
    <3>1. i \in 1 .. n
      BY <2>3
    <3>2. (h + i - 1) % Capacity # (h + n) % Capacity
      <4>1. (h + n) % Capacity = IF h + n < Capacity THEN h + n ELSE h + n - Capacity
        BY WrapSum
      <4>2. (h + i - 1) % Capacity = IF h + i - 1 < Capacity THEN h + i - 1
                                                             ELSE h + i - 1 - Capacity
        BY <2>0, SlotAt
      <4>3. QED
        BY <3>1, <4>1, <4>2, CapacityAssumption DEF Slots
    <3>3. (h + i - 1) % Capacity \in Slots
      BY <2>0, SlotAt
    <3>4. c[(h + i - 1) % Capacity] = b[(h + i - 1) % Capacity]
      BY <3>2, <3>3
    <3>5. QED
      BY <1>2, <1>3, <1>4, <3>1, <3>4
  <2>4. QED
    BY <2>2, <2>3
<1>6. QED
  BY <1>2, <1>4, <1>5, SeqEqual DEF s, t

LEMMA ClearTakesTail ==
  ASSUME NEW b \in [Slots -> Item], NEW h \in Slots, NEW n \in 0 .. Capacity, n > 0,
         NEW m \in Item
  PROVE  /\ View(b, h, n) # <<>>
         /\ Head(View(b, h, n)) = b[h]
         /\ View([b EXCEPT ![h] = m], NextSlot(h), n - 1) = Tail(View(b, h, n))
<1> DEFINE c == [b EXCEPT ![h] = m]
           g == NextSlot(h)
           s == View(b, h, n)
           t == View(c, g, n - 1)
<1>0. /\ n - 1 \in 0 .. Capacity
      /\ g \in Slots
      /\ g = IF h + 1 < Capacity THEN h + 1 ELSE 0
  BY CapacityAssumption, NextSlotIsSlot, WrapNext
<1>1. c \in [Slots -> Item]
  OBVIOUS
<1>2. /\ t \in Seq(Item) /\ Len(t) = n - 1
      /\ \A i \in 1 .. (n - 1) : t[i] = c[(g + i - 1) % Capacity]
  BY <1>0, <1>1, ViewIsSeq
<1>3. /\ s \in Seq(Item) /\ Len(s) = n
      /\ \A i \in 1 .. n : s[i] = b[(h + i - 1) % Capacity]
  BY ViewIsSeq
<1> HIDE DEF s, t, g
<1>4. s # <<>>
  BY <1>3, EmptySeq
<1>5. /\ Tail(s) \in Seq(Item) /\ Len(Tail(s)) = n - 1
      /\ \A i \in 1 .. (n - 1) : Tail(s)[i] = s[i + 1]
  BY <1>3, <1>4, HeadTailProperties
<1>6. Head(s) = b[h]
  <2>1. h % Capacity = h
    BY CapacityAssumption, RingArithmetic DEF Slots
  <2>2. h + 1 - 1 = h /\ 1 \in 1 .. n
    BY CapacityAssumption DEF Slots
  <2>3. s[1] = b[h]
    BY <1>3, <2>1, <2>2
  <2>4. QED
    BY <1>3, <1>4, <2>3
<1>7. ASSUME NEW i \in 1 .. (n - 1)
      PROVE  t[i] = Tail(s)[i]
  <2>1. i \in 1 .. Capacity /\ i + 1 \in 1 .. Capacity /\ i + 1 \in 1 .. n
    BY CapacityAssumption
  <2>2. (g + i - 1) % Capacity = IF g + i - 1 < Capacity THEN g + i - 1
                                                         ELSE g + i - 1 - Capacity
    BY <1>0, <2>1, SlotAt
  <2>3. (h + (i + 1) - 1) % Capacity
           = IF h + (i + 1) - 1 < Capacity THEN h + (i + 1) - 1
                                           ELSE h + (i + 1) - 1 - Capacity
    BY <2>1, SlotAt
  <2>4. /\ (g + i - 1) % Capacity = (h + (i + 1) - 1) % Capacity
        /\ (g + i - 1) % Capacity # h
    BY <1>0, <2>1, <2>2, <2>3, CapacityAssumption DEF Slots
  <2>5. (g + i - 1) % Capacity \in Slots
    BY <1>0, <2>1, SlotAt
  <2>6. c[(g + i - 1) % Capacity] = b[(h + (i + 1) - 1) % Capacity]
    BY <2>4, <2>5
  <2>7. QED
    BY <1>2, <1>3, <1>5, <2>1, <2>6
<1>8. QED
  BY <1>2, <1>4, <1>5, <1>6, <1>7, SeqEqual DEF s, t, g

-----------------------------------------------------------------------------
(***************************************************************************)
(* Every behaviour of the ring buffer with its mutex and its condition     *)
(* variables is a behaviour of the blocking queue: same calls, same        *)
(* results, first in first out, at most Capacity messages, and a closed    *)
(* queue that gives nothing more.                                          *)
(***************************************************************************)
THEOREM Refinement == Spec => ImplementsFifo
<1> USE CapacityAssumption
<1>1. Init => Fifo!Init
  <2> SUFFICES ASSUME Init PROVE Fifo!Init
    OBVIOUS
  <2>1. Contents = <<>>
    BY DEF Init, Contents
  <2>2. QED
    BY <2>1 DEF Init, Fifo!Init
<1>2. TypeOK /\ RingShape /\ [Next]_vars => [Fifo!Next]_(Fifo!vars)
  <2> SUFFICES ASSUME TypeOK, RingShape, [Next]_vars PROVE [Fifo!Next]_(Fifo!vars)
    OBVIOUS
  <2>1. ASSUME UNCHANGED ring PROVE Contents' = Contents
    BY <2>1 DEF ring, Contents
  <2>2. /\ Contents = View(buffer, head, count)
        /\ Contents' = View(buffer', head', count')
    BY DEF Contents, View
  <2>3. buffer \in [Slots -> Item] /\ head \in Slots /\ count \in 0 .. Capacity
    BY DEF TypeOK, Item
  <2>4. Len(Contents) = count
    BY <2>2, <2>3, ViewIsSeq
  <2>5. ASSUME NEW p \in Producers, NEW m \in Messages, CallPush(p, m)
        PROVE  Fifo!CallPush(p, m)
    BY <2>1, <2>5 DEF CallPush, Fifo!CallPush
  <2>6. ASSUME NEW p \in Producers, PushWait(p)
        PROVE  UNCHANGED Fifo!vars
    BY <2>1, <2>6 DEF PushWait, calls, Fifo!vars
  <2>7. ASSUME NEW p \in Producers, PushRefused(p)
        PROVE  Fifo!Refuse(p)
    BY <2>1, <2>7 DEF PushRefused, PushRunnable, ReturnPush, Fifo!Refuse
  <2>8. ASSUME NEW p \in Producers, PushStore(p)
        PROVE  Fifo!Put(p)
    <3>1. /\ count < Capacity /\ ~stopSignal /\ pushing[p] # NULL
          /\ buffer' = [buffer EXCEPT ![tail] = pushing[p]]
          /\ count' = count + 1 /\ head' = head
          /\ UNCHANGED <<stopSignal, popping, popped>>
          /\ pushing' = [pushing EXCEPT ![p] = NULL]
          /\ pushed' = [pushed EXCEPT ![p] = TRUE]
      BY <2>8 DEF PushStore, PushRunnable, MayStore, SpaceAvailable, ReturnPush
    <3>2. pushing[p] \in Item
      BY DEF TypeOK, Item
    <3>3. Contents' = Append(Contents, pushing[p])
      BY <2>2, <2>3, <3>1, <3>2, StoreAppends DEF RingShape
    <3>4. QED
      BY <2>4, <3>1, <3>3 DEF Fifo!Put
  <2>9. ASSUME NEW c \in Consumers, CallPop(c)
        PROVE  Fifo!CallPop(c)
    BY <2>1, <2>9 DEF CallPop, Fifo!CallPop
  <2>10. ASSUME NEW c \in Consumers, PopWait(c)
        PROVE  UNCHANGED Fifo!vars
    BY <2>1, <2>10 DEF PopWait, calls, Fifo!vars
  <2>11. ASSUME NEW c \in Consumers, PopNull(c)
        PROVE  Fifo!TakeNull(c)
    BY <2>1, <2>11 DEF PopNull, PopRunnable, ReturnPop, Fifo!TakeNull
  <2>12. ASSUME NEW c \in Consumers, PopTake(c)
        PROVE  Fifo!Take(c)
    <3>1. /\ count > 0 /\ ~stopSignal /\ c \in popping
          /\ buffer' = [buffer EXCEPT ![head] = NULL]
          /\ count' = count - 1 /\ head' = NextSlot(head)
          /\ UNCHANGED <<stopSignal, pushing, pushed>>
          /\ popping' = popping \ {c}
          /\ popped' = [popped EXCEPT ![c] = buffer[head]]
      BY <2>12 DEF PopTake, PopRunnable, MayTake, EventAvailable, ReturnPop
    <3>2. NULL \in Item
      BY DEF Item
    <3>3. /\ Contents # <<>> /\ Head(Contents) = buffer[head]
          /\ Contents' = Tail(Contents)
      BY <2>2, <2>3, <3>1, <3>2, ClearTakesTail
    <3>4. QED
      BY <3>1, <3>3 DEF Fifo!Take
  <2>13. CASE Stop
    BY <2>1, <2>13 DEF Stop, calls, Fifo!Next, Fifo!Close
  <2>14. CASE SpuriousWake
    BY <2>1, <2>14 DEF SpuriousWake, calls, Fifo!vars
  <2>15. CASE UNCHANGED vars
    BY <2>1, <2>15 DEF vars, calls, Fifo!vars
  <2>16. QED
    BY <2>5, <2>6, <2>7, <2>8, <2>9, <2>10, <2>11, <2>12, <2>13, <2>14, <2>15
    DEF Next, PushStep, PopStep, Fifo!Next
<1>3. QED
  BY <1>1, <1>2, TypeCorrect, RingIsWellFormed, PTL DEF Spec, ImplementsFifo, Fifo!Spec
=============================================================================
