----------------------------- MODULE EventMessage -----------------------------
(***************************************************************************)
(* EventMessageBuilder (evt/event_message.cpp): a message is a list of     *)
(* fragments of at most max_fragment_size bytes; writes fill the current   *)
(* fragment and go on in the next one, a savepoint is a fragment and the   *)
(* number of bytes it held.  Fragments are never removed: a rollback       *)
(* empties them and later writes use them again.                           *)
(*                                                                         *)
(* One thread builds a message, so a call is the steps of its loop, from   *)
(* Write or WriteWide to the step that sets result.                        *)
(*                                                                         *)
(* Abstractions.  Characters, code units and bytes are those of Utf16.     *)
(* Every append of the class is write_chars of some text.  Allocation does *)
(* not fail.                                                               *)
(***************************************************************************)
EXTENDS Utf16

CONSTANTS
  Capacity,         (* _capacity: greatest size of the message             *)
  MaxFragmentSize,  (* max_fragment_size                                   *)
  MaxChunkSize,     (* max_chunk_size: code units converted at a time      *)
  Narrow, Wide,     (* texts written: bytes, code units                    *)
  NULL

ASSUME MessageAssumption ==
  /\ Capacity \in Nat \ {0}
  /\ MaxFragmentSize \in Nat \ {0}
  /\ MaxChunkSize \in Nat /\ MaxChunkSize >= 2
  /\ Narrow \subseteq Seq(Octets) /\ Wide \subseteq Seq(CodeUnits)
  /\ BAD \notin Octets
  /\ NULL \notin Nat /\ NULL \notin Seq(Octets \union {BAD})

VARIABLES
  fragments,  (* _fragments: capacity and characters of each               *)
  current,    (* _current                                                  *)
  savepoint,  (* _savepoint, NULL for end()                                *)
  offset,     (* _offset                                                   *)
  writing,    (* TRUE during a call of write_chars                         *)
  units,      (* code units it has yet to convert                          *)
  bytes,      (* bytes it has yet to copy                                  *)
  result      (* result of the last call                                   *)

builder == <<fragments, current, savepoint, offset>>
call == <<writing, units, bytes, result>>
vars == <<builder, call>>

-----------------------------------------------------------------------------
(* Fragments                                                                *)

LeastOf(i, j) == IF i < j THEN i ELSE j

NewFragment(capacity) == [capacity |-> capacity, text |-> <<>>]

FreeIn(f) == f.capacity - Len(f.text)

(* What the forwarder reads: the fragments one after the other. *)
Text == FlattenSeq([i \in 1 .. Len(fragments) |-> fragments[i].text])

FreeSpace == Capacity - Len(Text)

(* Mutant: a fragment as large as fragments may be. *)
WholeFragment == MaxFragmentSize

FragmentCapacity == LeastOf(MaxFragmentSize, FreeSpace)

-----------------------------------------------------------------------------
(* The chunks converted from UTF-16                                         *)

(* Mutants: a chunk may end between the halves of a pair; a high surrogate *)
(* is left for the next chunk even if nothing follows it.                  *)
PlainChunkSize(s) == LeastOf(Len(s), MaxChunkSize)
LeaveAnyHigh(s) ==
  LET n == LeastOf(Len(s), MaxChunkSize)
  IN  IF IsHigh(s, n) THEN n - 1 ELSE n

ChunkSize(s) ==
  LET n == LeastOf(Len(s), MaxChunkSize)
  IN  IF n < Len(s) /\ IsHigh(s, n) THEN n - 1 ELSE n

-----------------------------------------------------------------------------
Init ==
  /\ fragments = <<NewFragment(LeastOf(MaxFragmentSize, Capacity))>>
  /\ current = 1 /\ savepoint = NULL /\ offset = 0
  /\ writing = FALSE /\ units = <<>> /\ bytes = <<>> /\ result = NULL

-----------------------------------------------------------------------------
(* write_chars                                                              *)

Call(u, b) ==
  /\ ~writing /\ writing' = TRUE
  /\ units' = u /\ bytes' = b /\ result' = NULL
  /\ UNCHANGED builder

Write(b) == Call(<<>>, b)
WriteWide(u) == Call(u, <<>>)

Return(r) ==
  /\ writing' = FALSE /\ result' = r
  /\ units' = <<>> /\ bytes' = <<>>
  /\ UNCHANGED builder

(* The next chunk is converted, or the text is malformed. *)
Convert ==
  /\ writing /\ bytes = <<>> /\ units # <<>>
  /\ LET n == ChunkSize(units)
         chunk == SubSeq(units, 1, n)
     IN  \/ /\ WellFormed(chunk)
            /\ bytes' = Encode(chunk)
            /\ units' = SubSeq(units, n + 1, Len(units))
            /\ UNCHANGED <<builder, writing, result>>
         \/ ~WellFormed(chunk) /\ Return(FALSE)

(* The current fragment takes what it has room for. *)
Copy ==
  /\ writing /\ bytes # <<>> /\ FreeIn(fragments[current]) > 0
  /\ LET n == LeastOf(Len(bytes), FreeIn(fragments[current]))
     IN  /\ fragments' = [fragments EXCEPT ![current].text = @ \o SubSeq(bytes, 1, n)]
         /\ bytes' = SubSeq(bytes, n + 1, Len(bytes))
  /\ UNCHANGED <<current, savepoint, offset, writing, units, result>>

(* append_fragment: go on to the next fragment, a new one at the end. *)
AppendFragment ==
  /\ writing /\ bytes # <<>> /\ FreeIn(fragments[current]) = 0
  /\ FragmentCapacity > 0
  /\ current' = current + 1
  /\ fragments' = IF current < Len(fragments) THEN fragments
                  ELSE Append(fragments, NewFragment(FragmentCapacity))
  /\ UNCHANGED <<savepoint, offset, call>>

Overflow ==
  /\ writing /\ bytes # <<>> /\ FreeIn(fragments[current]) = 0
  /\ FragmentCapacity = 0
  /\ Return(FALSE)

Done == writing /\ bytes = <<>> /\ units = <<>> /\ Return(TRUE)

WriteStep == Convert \/ Copy \/ AppendFragment \/ Overflow \/ Done

-----------------------------------------------------------------------------
(* Savepoints                                                               *)

Savepoint ==
  /\ ~writing /\ savepoint = NULL
  /\ savepoint' = current
  /\ offset' = Len(fragments[current].text)
  /\ UNCHANGED <<fragments, current, call>>

Commit ==
  /\ ~writing /\ savepoint # NULL
  /\ savepoint' = NULL /\ offset' = 0
  /\ UNCHANGED <<fragments, current, call>>

(* Mutant: the fragments after the savepoint keep their text. *)
EmptiedAtSavepoint(i) == i = savepoint

(* Fragments that a rollback empties, up to offset for the first of them. *)
Emptied(i) == i >= savepoint

(* ~Savepoint without a commit. *)
Rollback ==
  /\ ~writing /\ savepoint # NULL
  /\ fragments' = [i \in 1 .. Len(fragments) |->
       IF Emptied(i)
       THEN [fragments[i] EXCEPT !.text = SubSeq(@, 1, IF i = savepoint THEN offset ELSE 0)]
       ELSE fragments[i]]
  /\ current' = savepoint
  /\ savepoint' = NULL /\ offset' = 0
  /\ UNCHANGED call

Next ==
  \/ \E b \in Narrow : Write(b)
  \/ \E u \in Wide : WriteWide(u)
  \/ WriteStep
  \/ Savepoint \/ Commit \/ Rollback

Spec == Init /\ [][Next]_vars
FairSpec == Spec /\ WF_vars(WriteStep)

-----------------------------------------------------------------------------
(* The fragments tile the capacity: all but the last one allocated have    *)
(* the full fragment size, those before the current one are full and those *)
(* after it empty, so that a byte never lands behind a gap and fragments   *)
(* reused after a rollback fit where they are; no fragment is overrun.     *)
FragmentsPacked ==
  /\ \A i \in 1 .. Len(fragments) :
       /\ fragments[i].capacity = LeastOf(MaxFragmentSize, Capacity - (i - 1) * MaxFragmentSize)
       /\ FreeIn(fragments[i]) >= 0
  /\ \A i \in 1 .. (current - 1) : FreeIn(fragments[i]) = 0
  /\ \A i \in (current + 1) .. Len(fragments) : fragments[i].text = <<>>

(* The builder is a bounded text with a savepoint, whatever the sizes of   *)
(* fragments and of chunks: what a write appends is the encoding of the    *)
(* whole text, a pair of surrogates is never split, a write fails only on  *)
(* a full message or malformed text, and a rollback restores the text.     *)
Abstract == INSTANCE BoundedText WITH
  Inputs <- Narrow \union {Encode(u) : u \in Wide},
  text <- Text,
  mark <- IF savepoint = NULL THEN NULL
          ELSE Len(FlattenSeq([i \in 1 .. (savepoint - 1) |-> fragments[i].text])) + offset,
  pending <- IF writing THEN bytes \o Encode(units) ELSE NULL
ImplementsBoundedText == Abstract!Spec

(* Every write returns: the loops over chunks and fragments end. *)
WritesReturn == writing ~> ~writing
=============================================================================
