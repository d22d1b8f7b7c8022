---------------------------- MODULE MCEventMessage ----------------------------
(* Instances of EventMessage for TLC. *)
EXTENDS EventMessage

Widths == [c \in {"a", "e"} |-> IF c = "a" THEN 1 ELSE 2]
Byte == <<"a", 1>>

(* Nothing, a byte, and more than a fragment. *)
NarrowTexts == {<<>>, <<Byte>>, <<Byte, Byte, Byte, Byte>>}

(* Longer than a chunk, with the halves of a pair on either side of its    *)
(* end, pairs of pairs, and surrogates without their other half.           *)
WideTexts == {<<"e", "H", "L">>, <<"H", "L", "a">>, <<"e", "a", "H">>, <<"H", "H", "L">>, <<"a", "L">>}
=============================================================================
