----------------------------- MODULE SyslogReader -----------------------------
(***************************************************************************)
(* A receiver's reading of a syslog message, by the grammar of RFC 5424    *)
(* that event_rfc5424_formatter.cpp quotes: a header, elements of          *)
(* structured data [SD-ID NAME="VALUE" ...] in which ", \ and ] are        *)
(* escaped within a value, and a payload after a space.  The reader takes  *)
(* one character after the other; it does not know how the message was     *)
(* made.                                                                   *)
(* The fields of the header are not told apart.                            *)
(***************************************************************************)
EXTENDS Naturals, Sequences, SequencesExt

SP == " "
OPEN == "["
CLOSE == "]"
EQUAL == "="
QUOTE == "\""
ESCAPE == "\\"

(* What has been read: where the reader is, the header, the elements, the  *)
(* payload.                                                                *)
Nothing == [at |-> "header", header |-> <<>>, elements |-> <<>>, payload |-> <<>>]

ReadMore(r, at) == [r EXCEPT !.at = at]
Refuse(r) == ReadMore(r, "refused")

(* The element and the parameter read last. *)
UpdateLast(s, x) == [s EXCEPT ![Len(s)] = x]
WithElement(r, e, at) == [r EXCEPT !.elements = UpdateLast(@, e), !.at = at]

ReadChar(r, c) ==
  LET e == Last(r.elements)
      p == Last(e.params)
      NewParam == WithElement(r, [e EXCEPT !.params = Append(@, [name |-> <<>>, value |-> <<>>])], "name")
      InName == WithElement(r, [e EXCEPT !.params = UpdateLast(@, [p EXCEPT !.name = Append(@, c)])], "name")
      InValue == WithElement(r, [e EXCEPT !.params = UpdateLast(@, [p EXCEPT !.value = Append(@, c)])], "value")
  IN  CASE r.at \in {"header", "between"} /\ c = OPEN ->
             [r EXCEPT !.elements = Append(@, [id |-> <<>>, params |-> <<>>]), !.at = "id"]
        [] r.at = "header" /\ c # OPEN    -> [r EXCEPT !.header = Append(@, c)]
        [] r.at = "between" /\ c = SP     -> ReadMore(r, "payload")
        [] r.at \in {"id", "param"} /\ c = SP    -> NewParam
        [] r.at \in {"id", "param"} /\ c = CLOSE -> ReadMore(r, "between")
        [] r.at = "id" /\ c \notin {SP, CLOSE, EQUAL, QUOTE} ->
             WithElement(r, [e EXCEPT !.id = Append(@, c)], "id")
        [] r.at = "name" /\ c = EQUAL     -> ReadMore(r, "equal")
        [] r.at = "name" /\ c \notin {EQUAL, SP, CLOSE, QUOTE} -> InName
        [] r.at = "equal" /\ c = QUOTE    -> ReadMore(r, "value")
        [] r.at = "value" /\ c = QUOTE    -> ReadMore(r, "param")
        [] r.at = "value" /\ c = ESCAPE   -> ReadMore(r, "escape")
        [] r.at = "value" /\ c \notin {QUOTE, ESCAPE, CLOSE} -> InValue
        [] r.at = "escape"                -> InValue
        [] r.at = "payload"               -> [r EXCEPT !.payload = Append(@, c)]
        [] OTHER                          -> Refuse(r)

(* What a reader that has read r has read after chars. *)
ReadOn(r, chars) ==
  LET after[i \in 0 .. Len(chars)] == IF i = 0 THEN r ELSE ReadChar(after[i - 1], chars[i])
  IN  after[Len(chars)]

Reading(chars) == ReadOn(Nothing, chars)

(* A message may end after its structured data, or within the payload. *)
Readable(chars) == Reading(chars).at \in {"between", "payload"}
=============================================================================
