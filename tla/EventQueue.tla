----------------------------- MODULE EventQueue ------------------------------
(***************************************************************************)
(* The queue between the collector and the forwarder threads               *)
(* (evt/event_queue.cpp): a ring buffer guarded by a mutex, one condition  *)
(* variable per direction and a manual-reset stop event.                   *)
(*                                                                         *)
(* Every access to the buffer, the counters and the condition variables is *)
(* made with _mutex held, and the mutex is released only by a return or by *)
(* a wait.  What a thread does between two releases is therefore one step: *)
(* push and pop are a call, any number of steps that end in a wait, and a  *)
(* last step that returns.  A thread in a wait set has left the mutex; one *)
(* notified (or woken for no reason) must take it again, which other       *)
(* threads may do first, and test its predicate again.                     *)
(*                                                                         *)
(* Abstractions: an EventMessagePtr is a message or NULL, and the stop     *)
(* event of the queue is a Boolean (SetEvent and WaitForSingleObject on a  *)
(* valid handle are taken not to fail, so their os_error is not modelled). *)
(***************************************************************************)
EXTENDS Naturals, FiniteSets

CONSTANTS
  Producers,  (* threads that call push                                     *)
  Consumers,  (* threads that call pop                                      *)
  Messages,   (* the messages a producer may push                           *)
  Capacity,   (* the constructor's argument                                 *)
  NULL        (* the null EventMessagePtr                                   *)

(* The constructor throws invalid_argument on a capacity of zero, and push *)
(* asserts that its message is not null.                                   *)
ASSUME CapacityAssumption == Capacity \in Nat \ {0}
ASSUME NullAssumption == NULL \notin Messages
ASSUME ThreadsAssumption ==
  /\ IsFiniteSet(Producers)
  /\ IsFiniteSet(Consumers)

VARIABLES
  buffer,        (* _buffer: slot -> message, or NULL when moved from       *)
  count,         (* _count                                                  *)
  head,          (* _head: the oldest occupied slot                         *)
  tail,          (* _tail: the next slot to fill                            *)
  stopSignal,    (* _stop_signal                                            *)
  spaceWaiters,  (* producers blocked on _cv_space_available                *)
  eventWaiters,  (* consumers blocked on _cv_event_available                *)
  pushing,       (* pushing[p]: argument of p's push in progress, or NULL   *)
  popping,       (* consumers inside pop                                    *)
  pushed,        (* pushed[p]: value returned by p's last push              *)
  popped         (* popped[c]: value returned by c's last pop               *)

ring == <<buffer, count, head, tail>>
calls == <<pushing, popping, pushed, popped>>
vars == <<ring, stopSignal, spaceWaiters, eventWaiters, calls>>

Slots == 0 .. (Capacity - 1)

TypeOK ==
  /\ buffer \in [Slots -> Messages \union {NULL}]
  /\ count \in 0 .. Capacity
  /\ head \in Slots
  /\ tail \in Slots
  /\ stopSignal \in BOOLEAN
  /\ spaceWaiters \in SUBSET Producers
  /\ eventWaiters \in SUBSET Consumers
  /\ pushing \in [Producers -> Messages \union {NULL}]
  /\ popping \in SUBSET Consumers
  /\ pushed \in [Producers -> BOOLEAN]
  /\ popped \in [Consumers -> Messages \union {NULL}]

Init ==
  /\ buffer = [s \in Slots |-> NULL]
  /\ count = 0
  /\ head = 0
  /\ tail = 0
  /\ stopSignal = FALSE
  /\ spaceWaiters = {}
  /\ eventWaiters = {}
  /\ pushing = [p \in Producers |-> NULL]
  /\ popping = {}
  /\ pushed = [p \in Producers |-> TRUE]
  /\ popped = [c \in Consumers |-> NULL]

(* Mutants used to show that the properties depend on these definitions. *)
NextSlotNoWrap(s) == s + 1
NextSlotShort(s) == (s + 1) % (Capacity - 1)
SpaceOffByOne == count <= Capacity
NotifyNobody(waiters, w) == w = waiters

NextSlot(s) == (s + 1) % Capacity

(* The conditions the two wait predicates add to stopped(), and the test   *)
(* of the stop signal that follows the wait.                               *)
SpaceAvailable == count < Capacity
EventAvailable == count > 0
MayStore == SpaceAvailable /\ ~stopSignal
MayTake == EventAvailable /\ ~stopSignal

(* notify_one removes one waiter if there is one; w is the set afterwards. *)
NotifyOne(waiters, w) ==
  \/ waiters = {} /\ w = {}
  \/ \E t \in waiters : w = waiters \ {t}

(* Mutant: notify_one in the place of notify_all. *)
NotifyAllButSome(waiters, w) == NotifyOne(waiters, w)

(* notify_all, w being the set afterwards. *)
NotifyAll(waiters, w) == w = {}

-----------------------------------------------------------------------------
(* push(message)                                                           *)

CallPush(p, m) ==
  /\ pushing[p] = NULL
  /\ pushing' = [pushing EXCEPT ![p] = m]
  /\ UNCHANGED <<ring, stopSignal, spaceWaiters, eventWaiters, popping, pushed, popped>>

(* The producer is in push and competes for the mutex. *)
PushRunnable(p) == pushing[p] # NULL /\ p \notin spaceWaiters

PushWait(p) ==
  /\ PushRunnable(p)
  /\ ~SpaceAvailable /\ ~stopSignal
  /\ spaceWaiters' = spaceWaiters \union {p}
  /\ UNCHANGED <<ring, stopSignal, eventWaiters, calls>>

ReturnPush(p, result) ==
  /\ pushing' = [pushing EXCEPT ![p] = NULL]
  /\ pushed' = [pushed EXCEPT ![p] = result]
  /\ UNCHANGED <<popping, popped>>

PushRefused(p) ==
  /\ PushRunnable(p)
  /\ stopSignal
  /\ ReturnPush(p, FALSE)
  /\ UNCHANGED <<ring, stopSignal, spaceWaiters, eventWaiters>>

PushStore(p) ==
  /\ PushRunnable(p)
  /\ MayStore
  /\ buffer' = [buffer EXCEPT ![tail] = pushing[p]]
  /\ tail' = NextSlot(tail)
  /\ count' = count + 1
  /\ NotifyOne(eventWaiters, eventWaiters')
  /\ ReturnPush(p, TRUE)
  /\ UNCHANGED <<head, stopSignal, spaceWaiters>>

-----------------------------------------------------------------------------
(* pop()                                                                   *)

CallPop(c) ==
  /\ c \notin popping
  /\ popping' = popping \union {c}
  /\ UNCHANGED <<ring, stopSignal, spaceWaiters, eventWaiters, pushing, pushed, popped>>

PopRunnable(c) == c \in popping /\ c \notin eventWaiters

PopWait(c) ==
  /\ PopRunnable(c)
  /\ ~EventAvailable /\ ~stopSignal
  /\ eventWaiters' = eventWaiters \union {c}
  /\ UNCHANGED <<ring, stopSignal, spaceWaiters, calls>>

ReturnPop(c, result) ==
  /\ popping' = popping \ {c}
  /\ popped' = [popped EXCEPT ![c] = result]
  /\ UNCHANGED <<pushing, pushed>>

PopNull(c) ==
  /\ PopRunnable(c)
  /\ stopSignal
  /\ ReturnPop(c, NULL)
  /\ UNCHANGED <<ring, stopSignal, spaceWaiters, eventWaiters>>

PopTake(c) ==
  /\ PopRunnable(c)
  /\ MayTake
  /\ buffer' = [buffer EXCEPT ![head] = NULL]
  /\ head' = NextSlot(head)
  /\ count' = count - 1
  /\ NotifyOne(spaceWaiters, spaceWaiters')
  /\ ReturnPop(c, buffer[head])
  /\ UNCHANGED <<tail, stopSignal, eventWaiters>>

-----------------------------------------------------------------------------
(* stop() may be called by any thread, any number of times: the collector, *)
(* the forwarder and the service context all do.                           *)
Stop ==
  /\ stopSignal' = TRUE
  /\ NotifyAll(spaceWaiters, spaceWaiters')
  /\ NotifyAll(eventWaiters, eventWaiters')
  /\ UNCHANGED <<ring, calls>>

(* A condition variable may wake a thread that nobody notified. *)
SpuriousWake ==
  /\ \/ /\ \E p \in spaceWaiters : spaceWaiters' = spaceWaiters \ {p}
        /\ UNCHANGED eventWaiters
     \/ /\ \E c \in eventWaiters : eventWaiters' = eventWaiters \ {c}
        /\ UNCHANGED spaceWaiters
  /\ UNCHANGED <<ring, stopSignal, calls>>

PushStep(p) == PushWait(p) \/ PushRefused(p) \/ PushStore(p)
PopStep(c) == PopWait(c) \/ PopNull(c) \/ PopTake(c)

Next ==
  \/ \E p \in Producers, m \in Messages : CallPush(p, m)
  \/ \E p \in Producers : PushStep(p)
  \/ \E c \in Consumers : CallPop(c)
  \/ \E c \in Consumers : PopStep(c)
  \/ Stop
  \/ SpuriousWake

(* A thread that competes for the mutex gets it: no critical section of    *)
(* the queue blocks.  Calls, stop and spurious wake-ups are never forced.  *)
Fairness ==
  /\ \A p \in Producers : WF_vars(PushStep(p))
  /\ \A c \in Consumers : WF_vars(PopStep(c))

Spec == Init /\ [][Next]_vars
FairSpec == Spec /\ Fairness

-----------------------------------------------------------------------------
(* Safety                                                                  *)

(* The three counters agree, the occupied slots hold messages and the free *)
(* ones are null.  A null in an occupied slot would make pop() return a    *)
(* null pointer, which the forwarder takes for the order to stop.          *)
Occupied == {(head + i) % Capacity : i \in 0 .. (count - 1)}
RingShape ==
  /\ tail = (head + count) % Capacity
  /\ \A s \in Slots : buffer[s] # NULL <=> s \in Occupied

(* A thread blocked on a condition variable is inside the operation that   *)
(* blocks on it, and none is left blocked once the queue is stopped.       *)
WaitersAreInCall ==
  /\ \A p \in spaceWaiters : pushing[p] # NULL
  /\ eventWaiters \subseteq popping
  /\ stopSignal => spaceWaiters = {} /\ eventWaiters = {}

(* No wake-up is lost although push and pop notify one thread only, and    *)
(* although a thread that was not waiting may overtake the one notified:   *)
(* while somebody waits for a slot, at least as many producers are on      *)
(* their way to the mutex as there are free slots; likewise for messages.  *)
PushersRunning == {p \in Producers : PushRunnable(p)}
PoppersRunning == {c \in Consumers : PopRunnable(c)}
NoLostWakeup ==
  /\ spaceWaiters # {} => Capacity - count <= Cardinality(PushersRunning)
  /\ eventWaiters # {} => count <= Cardinality(PoppersRunning)

(* pop() returns null for no other reason than stop: the forwarder leaves  *)
(* its loop on a null message.                                             *)
NullMeansStopped ==
  [][\A c \in Consumers :
       c \in popping /\ c \notin popping' /\ popped'[c] = NULL => stopSignal]_vars

(* "All push and pop will fail once the queue is in stopped state": from   *)
(* then on no message enters or leaves, and the state is final.            *)
StopIsFinal == [][stopSignal => stopSignal' /\ UNCHANGED ring]_vars

-----------------------------------------------------------------------------
(* Refinement: the messages held are those of the occupied slots, oldest   *)
(* first.                                                                  *)
Contents == [i \in 1 .. count |-> buffer[(head + i - 1) % Capacity]]

Fifo == INSTANCE BoundedFifo WITH items <- Contents, closed <- stopSignal

(* The ring buffer, the mutex and the condition variables implement the    *)
(* blocking first-in first-out queue: same results, same order, no message *)
(* lost, duplicated or invented before stop().                             *)
ImplementsFifo == Fifo!Spec

(* They also deliver its progress: a waiting producer is served when there *)
(* is room, a waiting consumer when there are messages.                    *)
ImplementsFifoProgress == Fifo!FairSpec
=============================================================================
