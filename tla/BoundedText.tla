----------------------------- MODULE BoundedText ------------------------------
(***************************************************************************)
(* What EventMessageBuilder promises: a text of bounded length.  A write   *)
(* appends its argument piece by piece and returns TRUE when all of it was *)
(* appended; it fails only when the text is full or when what is left of   *)
(* its argument is malformed.  A savepoint remembers the length of the     *)
(* text; rolling back to it removes everything written since.              *)
(***************************************************************************)
EXTENDS Naturals, Sequences

CONSTANTS
  Capacity,   (* longest text                                               *)
  Inputs,     (* arguments of write                                         *)
  BAD,        (* stands for a malformed part of an argument                 *)
  NULL

VARIABLES
  text,
  mark,       (* length of the text at the savepoint, or NULL               *)
  pending,    (* what the write in progress has yet to append, or NULL      *)
  result      (* result of the last write                                   *)

vars == <<text, mark, pending, result>>

Malformed(s) == \E i \in 1 .. Len(s) : s[i] = BAD

Init == text = <<>> /\ mark = NULL /\ pending = NULL /\ result = NULL

Write(s) ==
  /\ pending = NULL
  /\ pending' = s /\ result' = NULL
  /\ UNCHANGED <<text, mark>>

AppendSome(n) ==
  /\ Len(text) + n <= Capacity
  /\ ~Malformed(SubSeq(pending, 1, n))
  /\ text' = text \o SubSeq(pending, 1, n)
  /\ pending' = SubSeq(pending, n + 1, Len(pending))
  /\ UNCHANGED <<mark, result>>

Return(r) ==
  /\ pending' = NULL /\ result' = r
  /\ UNCHANGED <<text, mark>>

Done == pending = <<>> /\ Return(TRUE)

Fail ==
  /\ pending # <<>>
  /\ Len(text) = Capacity \/ Malformed(pending)
  /\ Return(FALSE)

Savepoint ==
  /\ pending = NULL /\ mark = NULL
  /\ mark' = Len(text)
  /\ UNCHANGED <<text, pending, result>>

Commit ==
  /\ pending = NULL /\ mark # NULL
  /\ mark' = NULL
  /\ UNCHANGED <<text, pending, result>>

Rollback ==
  /\ pending = NULL /\ mark # NULL
  /\ text' = SubSeq(text, 1, mark)
  /\ mark' = NULL
  /\ UNCHANGED <<pending, result>>

Next ==
  \/ \E s \in Inputs : Write(s)
  \/ pending # NULL /\ (Done \/ Fail \/ \E n \in 1 .. Len(pending) : AppendSome(n))
  \/ Savepoint \/ Commit \/ Rollback

Spec == Init /\ [][Next]_vars
=============================================================================
