-------------------------------- MODULE Utf16 --------------------------------
(***************************************************************************)
(* UTF-16 texts and their encoding in UTF-8.  A code unit is a character   *)
(* of BMP, of Width[c] bytes in UTF-8, or half of a surrogate pair, HIGH   *)
(* or LOW, which form the character PAIR; byte k of character c is         *)
(* <<c, k>>.                                                               *)
(***************************************************************************)
EXTENDS Naturals, Sequences, SequencesExt

CONSTANTS
  BMP, Width,       (* characters of one code unit, their bytes            *)
  HIGH, LOW, PAIR,  (* surrogates and the character they form              *)
  BAD               (* stands for the error of a conversion                *)

ASSUME Utf16Assumption ==
  /\ Width \in [BMP -> 1 .. 3]
  /\ HIGH # LOW /\ HIGH \notin BMP /\ LOW \notin BMP

CodeUnits == BMP \union {HIGH, LOW}

(* What a text holds: bytes of well-formed characters. *)
Octets == (BMP \union {PAIR}) \X (1 .. 4)

IsHigh(s, i) == i \in 1 .. Len(s) /\ s[i] = HIGH
IsLow(s, i) == i \in 1 .. Len(s) /\ s[i] = LOW

(* Bytes of the character that starts at s[i]; a surrogate without the     *)
(* other half is malformed.                                                *)
CharBytes(s, i) ==
  CASE s[i] \in BMP                            -> [k \in 1 .. Width[s[i]] |-> <<s[i], k>>]
    [] IsHigh(s, i) /\ IsLow(s, i + 1)         -> [k \in 1 .. 4 |-> <<PAIR, k>>]
    [] IsLow(s, i) /\ IsHigh(s, i - 1)         -> <<>>
    [] IsHigh(s, i) /\ ~IsLow(s, i + 1)        -> <<BAD>>
    [] IsLow(s, i) /\ ~IsHigh(s, i - 1)        -> <<BAD>>

(* WideCharToMultiByte with WC_ERR_INVALID_CHARS. *)
Encode(s) == FlattenSeq([i \in 1 .. Len(s) |-> CharBytes(s, i)])
WellFormed(s) == ~Contains(Encode(s), BAD)
=============================================================================
