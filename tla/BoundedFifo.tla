----------------------------- MODULE BoundedFifo -----------------------------
(***************************************************************************)
(* What EventQueue promises its callers: a blocking, bounded, first-in     *)
(* first-out queue of messages that can be closed once and for all.  No    *)
(* mutex, no condition variable and no ring buffer: only the operations in *)
(* progress, their results and the sequence of messages in between.        *)
(*                                                                         *)
(* An operation is a call and a return.  It takes effect when it returns.  *)
(***************************************************************************)
EXTENDS Naturals, Sequences

CONSTANTS
  Producers,  (* threads that push                                          *)
  Consumers,  (* threads that pop                                           *)
  Messages,   (* the messages a producer may push                           *)
  Capacity,   (* the largest number of messages held at a time              *)
  NULL        (* the null EventMessagePtr; not a message                    *)

VARIABLES
  items,      (* the messages held, oldest first                            *)
  closed,     (* TRUE once the queue is stopped                             *)
  pushing,    (* pushing[p]: message of p's push in progress, NULL if none  *)
  popping,    (* consumers whose pop is in progress                         *)
  pushed,     (* pushed[p]: result of p's last push                         *)
  popped      (* popped[c]: result of c's last pop                          *)

vars == <<items, closed, pushing, popping, pushed, popped>>

Init ==
  /\ items = <<>>
  /\ closed = FALSE
  /\ pushing = [p \in Producers |-> NULL]
  /\ popping = {}
  /\ pushed = [p \in Producers |-> TRUE]
  /\ popped = [c \in Consumers |-> NULL]

CallPush(p, m) ==
  /\ pushing[p] = NULL
  /\ pushing' = [pushing EXCEPT ![p] = m]
  /\ UNCHANGED <<items, closed, popping, pushed, popped>>

CallPop(c) ==
  /\ c \notin popping
  /\ popping' = popping \union {c}
  /\ UNCHANGED <<items, closed, pushing, pushed, popped>>

(* A push returns TRUE and its message is the youngest one. *)
Put(p) ==
  /\ pushing[p] # NULL
  /\ ~closed
  /\ Len(items) < Capacity
  /\ items' = Append(items, pushing[p])
  /\ pushing' = [pushing EXCEPT ![p] = NULL]
  /\ pushed' = [pushed EXCEPT ![p] = TRUE]
  /\ UNCHANGED <<closed, popping, popped>>

(* A pop returns the oldest message. *)
Take(c) ==
  /\ c \in popping
  /\ ~closed
  /\ items # <<>>
  /\ items' = Tail(items)
  /\ popping' = popping \ {c}
  /\ popped' = [popped EXCEPT ![c] = Head(items)]
  /\ UNCHANGED <<closed, pushing, pushed>>

(* A push on a closed queue returns FALSE and drops its message. *)
Refuse(p) ==
  /\ pushing[p] # NULL
  /\ closed
  /\ pushing' = [pushing EXCEPT ![p] = NULL]
  /\ pushed' = [pushed EXCEPT ![p] = FALSE]
  /\ UNCHANGED <<items, closed, popping, popped>>

(* A pop on a closed queue returns null, whatever the queue holds. *)
TakeNull(c) ==
  /\ c \in popping
  /\ closed
  /\ popping' = popping \ {c}
  /\ popped' = [popped EXCEPT ![c] = NULL]
  /\ UNCHANGED <<items, closed, pushing, pushed>>

Close ==
  /\ closed' = TRUE
  /\ UNCHANGED <<items, pushing, popping, pushed, popped>>

Next ==
  \/ \E p \in Producers : (\E m \in Messages : CallPush(p, m)) \/ Put(p) \/ Refuse(p)
  \/ \E c \in Consumers : CallPop(c) \/ Take(c) \/ TakeNull(c)
  \/ Close

(* Nobody has to call or to close.  A queue with room serves one of the    *)
(* producers that wait, a queue with messages one of the consumers, and a  *)
(* closed queue releases every thread.                                     *)
Fairness ==
  /\ WF_vars(\E p \in Producers : Put(p))
  /\ WF_vars(\E c \in Consumers : Take(c))
  /\ \A p \in Producers : WF_vars(Refuse(p))
  /\ \A c \in Consumers : WF_vars(TakeNull(c))

Spec == Init /\ [][Next]_vars
FairSpec == Spec /\ Fairness
=============================================================================
