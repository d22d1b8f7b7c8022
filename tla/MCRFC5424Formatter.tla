-------------------------- MODULE MCRFC5424Formatter --------------------------
(* Instances of RFC5424Formatter for TLC. *)
EXTENDS RFC5424Formatter

Ascii == {SP, OPEN, CLOSE, EQUAL, QUOTE, ESCAPE, FIELD, SYS, EVD, REPLACEMENT, "x", "y"}
MCBMP == Ascii \union {BOM, "E"}
Widths == [c \in MCBMP |-> IF c \in Ascii THEN 1 ELSE IF c = "E" THEN 2 ELSE 3]

Number(name, value) == [name |-> name, value |-> value, number |-> TRUE]
Param(name, value) == [name |-> name, value |-> value, number |-> FALSE]

(* A value with every character to be escaped, longer than a buffer.       *)
Escapes == Param(<<"x">>, <<QUOTE, ESCAPE, CLOSE>>)
(* Longer than the limit, a pair across the end of a buffer and the limit. *)
Long == Param(<<"y">>, <<"E", "H", "L", "x", "H", "L", "x">>)
(* Surrogates without their other half. *)
Lone == Param(<<"x">>, <<"H", "H", "L", "L">>)
(* A name with characters that names may not have, longer than the limit.  *)
BadName == Param(<<EQUAL, "H", "L", CLOSE, "x">>, <<"x">>)
NoName == Param(<<>>, <<"x">>)
NoValue == Param(<<"x">>, <<>>)

MCEvents == {
  [system |-> <<Number(<<"x">>, <<"y", "y", "y", "y", "y">>)>>, data |-> NULL, user |-> NULL],
  [system |-> <<Escapes>>, data |-> NULL, user |-> <<<<"x", "E">>, <<"x">>>>],
  [system |-> <<>>, data |-> <<Long, NoName, Escapes, NoValue>>, user |-> <<<<"x">>>>],
  [system |-> <<Long, Lone>>, data |-> <<BadName>>, user |-> <<<<"H">>, <<"x">>>>],
  [system |-> <<>>, data |-> <<Lone, Escapes>>, user |-> NULL] }
MCCapacities == 1 .. 60
=============================================================================
