--------------------------- MODULE RFC5424Formatter ---------------------------
(***************************************************************************)
(* RFC5424EventFormatter (evt/event_rfc5424_formatter.cpp): format writes  *)
(* the parts of a message one after the other into an EventMessageBuilder  *)
(* of bounded size, each under a savepoint.  The header and the element    *)
(* with the system properties are mandatory; the element with the event    *)
(* data and the user data are left out if they do not fit.                 *)
(*                                                                         *)
(* A step is one write.  What a write does to the text is the contract of  *)
(* BoundedText, which EventMessage implements.                             *)
(*                                                                         *)
(* Abstractions.  A field of the header is a character; so is an SD-ID.    *)
(* A property of the system is a name and a number (also a time or a GUID) *)
(* or a text; those not selected or missing are not in event.system.  The  *)
(* names of the system properties go through the filter for names, which   *)
(* leaves them as they are.  The XML of the user data is given as the      *)
(* pieces that pugixml writes.                                             *)
(***************************************************************************)
EXTENDS Utf16, SyslogReader

CONSTANTS
  Events,        (* the events that are formatted                           *)
  Capacities,    (* max_syslog_msg_length, given to the builder             *)
  MaxSdLength,   (* max_syslog_sd_length                                    *)
  NameLength,    (* SD_NAME_LENGTH                                          *)
  BufferSize,    (* buffer_size: code units gathered before a write         *)
  NULL

FIELD == "h"
SYS == "s"
EVD == "e"
BOM == "BOM"
REPLACEMENT == "_"

Properties == [name : Seq(CodeUnits), value : Seq(CodeUnits), number : BOOLEAN]

(* Numbers, times and GUIDs have no character that must be escaped. *)
AreProperties(params) ==
  /\ params \in Seq(Properties)
  /\ \A i \in 1 .. Len(params) :
       params[i].number => params[i].value \in Seq(BMP \ {QUOTE, ESCAPE, CLOSE})

ASSUME FormatterAssumption ==
  /\ {SP, OPEN, CLOSE, EQUAL, QUOTE, ESCAPE, FIELD, SYS, EVD, BOM, REPLACEMENT} \subseteq BMP
  /\ PAIR \notin BMP /\ BAD \notin Octets
  /\ Capacities \subseteq Nat \ {0}
  /\ MaxSdLength \in Nat /\ NameLength \in Nat \ {0} /\ BufferSize \in Nat \ {0}
  /\ NULL \notin Nat /\ NULL \notin BOOLEAN
  /\ \A e \in Events :
       /\ AreProperties(e.system)
       /\ e.data # NULL => AreProperties(e.data)
       /\ e.user # NULL => e.user \in Seq(Seq(CodeUnits))

VARIABLES
  event, capacity,  (* the arguments of format                              *)
  text,             (* bytes in the builder                                 *)
  mark,             (* length of the text at the savepoint, or NULL         *)
  section,          (* the function that runs                               *)
  next,             (* its next write                                       *)
  overflow,         (* xml_string_writer::overflow                          *)
  result            (* what format returned, or NULL                        *)

args == <<event, capacity>>
vars == <<args, text, mark, section, next, overflow, result>>

-----------------------------------------------------------------------------
(* What is written                                                         *)

(* What Op makes of each member of s, one after the other. *)
Each(s, Op(_)) == FlattenSeq([i \in 1 .. Len(s) |-> Op(s[i])])

(* The text with a surrogate pair as one character; surrogates without     *)
(* their other half are replaced.                                          *)
CharAt(s, i) ==
  CASE s[i] \in BMP                    -> <<s[i]>>
    [] IsHigh(s, i) /\ IsLow(s, i + 1) -> <<PAIR>>
    [] IsLow(s, i) /\ IsHigh(s, i - 1) -> <<>>
    [] OTHER                           -> <<REPLACEMENT>>
Characters(s) == FlattenSeq([i \in 1 .. Len(s) |-> CharAt(s, i)])

UpTo(n, s) == SubSeq(s, 1, IF Len(s) < n THEN Len(s) ELSE n)

(* append_printusascii with SD_NAME_EXCLUDE_CHARS: a pair gives one        *)
(* replacement.                                                            *)
InName(c) == c \in BMP /\ Width[c] = 1 /\ c \notin {EQUAL, SP, CLOSE, QUOTE}
ParamName(s) ==
  LET chars == UpTo(NameLength, Characters(s))
  IN  [i \in 1 .. Len(chars) |-> IF InName(chars[i]) THEN chars[i] ELSE REPLACEMENT]

(* Mutant: "]" is written as it is. *)
QuotesOnly(c) == c \in {QUOTE, ESCAPE}

NeedsEscape(c) == c \in {QUOTE, ESCAPE, CLOSE}

(* What append_sd_value makes of the character that starts at s[i]: the    *)
(* units it reads and those it puts into the buffer.                       *)
OneCharacter(s, i) ==
  CASE IsHigh(s, i) /\ IsLow(s, i + 1)  -> [reads |-> 2, puts |-> <<HIGH, LOW>>]
    [] IsHigh(s, i) /\ ~IsLow(s, i + 1) -> [reads |-> 1, puts |-> <<REPLACEMENT>>]
    [] IsLow(s, i)                      -> [reads |-> 1, puts |-> <<REPLACEMENT>>]
    [] OTHER -> [reads |-> 1, puts |-> IF NeedsEscape(s[i]) THEN <<ESCAPE, s[i]>> ELSE <<s[i]>>]

(* A turn of its inner loop at s[i], unless that unit was read with the    *)
(* one before it or the limit is reached; a full buffer is written first.  *)
(* g: the unit read next, what is left of max_code_units, the buffer, and  *)
(* the writes so far.                                                      *)
Turn(g, s, i) ==
  LET c == OneCharacter(s, i)
      isFull == Len(g.buffer) >= BufferSize
  IN  IF i < g.next \/ g.left = 0 THEN g
      ELSE [next   |-> i + c.reads,
            left   |-> g.left - 1,
            buffer |-> IF isFull THEN c.puts ELSE g.buffer \o c.puts,
            writes |-> IF isFull THEN Append(g.writes, g.buffer) ELSE g.writes]

ValueWrites(s) ==
  LET gathered[i \in 0 .. Len(s)] ==
        IF i = 0 THEN [next |-> 1, left |-> MaxSdLength, buffer |-> <<>>, writes |-> <<>>]
        ELSE Turn(gathered[i - 1], s, i)
      g == gathered[Len(s)]
  IN  IF g.buffer = <<>> THEN g.writes ELSE Append(g.writes, g.buffer)

(* A parameter without a name or a value is not written. *)
IsWritten(p) == p.name # <<>> /\ p.value # <<>>

ParamWrites(p) ==
  IF ~IsWritten(p) THEN <<>>
  ELSE <<<<SP>>, ParamName(p.name), <<EQUAL, QUOTE>>>>
         \o (IF p.number THEN <<p.value>> ELSE ValueWrites(p.value))
         \o <<<<QUOTE>>>>

ElementWrites(id, params) ==
  <<<<OPEN>>, <<id>>>> \o Each(params, ParamWrites) \o <<<<CLOSE>>>>

(* PRI and VERSION, TIMESTAMP, HOSTNAME, APP-NAME, PROCID, MSGID. *)
HeaderWrites ==
  <<<<FIELD>>, <<SP>>, <<FIELD>>, <<SP>>, <<FIELD>>, <<SP>>,
    <<FIELD>>, <<SP>>, <<FIELD>>, <<SP>>, <<FIELD>>>>

Writes(s) ==
  CASE s = "header" -> HeaderWrites
    [] s = "system" -> ElementWrites(SYS, event.system)
    [] s = "event"  -> ElementWrites(EVD, event.data)
    [] s = "user"   -> <<<<SP, BOM>>>> \o event.user

-----------------------------------------------------------------------------
(* The writes                                                              *)

Init ==
  /\ event \in Events /\ capacity \in Capacities
  /\ text = <<>> /\ mark = NULL
  /\ section = "header" /\ next = 1
  /\ overflow = FALSE /\ result = NULL

Write == Writes(section)[next]

(* A write returns TRUE when it wrote all of its argument. *)
Succeeds == WellFormed(Write) /\ Len(text) + Len(Encode(Write)) <= capacity

(* A write that fails wrote as much as there was room for, or less if it   *)
(* met something malformed.                                                *)
WritePart ==
  LET bytes == Encode(Write)
  IN  \E n \in 0 .. Len(bytes) :
        /\ ~Contains(SubSeq(bytes, 1, n), BAD)
        /\ Len(text) + n = capacity \/ (~WellFormed(Write) /\ Len(text) + n < capacity)
        /\ text' = text \o SubSeq(bytes, 1, n)

Enter(s) == section' = s /\ next' = 1
Return(r) == result' = r /\ section' = "done" /\ UNCHANGED next
Running == section # "done"

(* A section that the event does not have is not begun. *)
IsMissing == (section = "event" /\ event.data = NULL) \/ (section = "user" /\ event.user = NULL)

Skip ==
  /\ mark = NULL /\ IsMissing
  /\ IF section = "event" THEN Enter("user") /\ UNCHANGED result ELSE Return(TRUE)
  /\ UNCHANGED <<args, text, mark, overflow>>

(* emb.savepoint() *)
Begin ==
  /\ Running /\ mark = NULL /\ ~IsMissing
  /\ mark' = Len(text)
  /\ UNCHANGED <<args, text, section, next, overflow, result>>

InSection == Running /\ mark # NULL
HasWrite == InSection /\ next <= Len(Writes(section))

InParams == section = "event" /\ next > 2 /\ next < Len(Writes("event"))
InXml == section = "user" /\ next > 1

WriteAll ==
  /\ HasWrite /\ Succeeds /\ ~InXml
  /\ text' = text \o Encode(Write)
  /\ next' = next + 1
  /\ UNCHANGED <<args, mark, section, overflow, result>>

(* The break of append_event_sd: the "]" is written next. *)
ParamFails ==
  /\ HasWrite /\ ~Succeeds /\ InParams
  /\ WritePart
  /\ next' = Len(Writes("event"))
  /\ UNCHANGED <<args, mark, section, overflow, result>>

(* Mutant: only the last write counts. *)
LastFailure(failed) == failed

Overflow(failed) == overflow \/ failed

(* xml_string_writer::write: print goes on after a write that failed. *)
XmlWrite ==
  /\ HasWrite /\ InXml
  /\ IF Succeeds THEN text' = text \o Encode(Write) ELSE WritePart
  /\ overflow' = Overflow(~Succeeds)
  /\ next' = next + 1
  /\ UNCHANGED <<args, mark, section, result>>

(* Mutant: without event data the user data is not tried. *)
GiveUp == Return(TRUE)

GoOn == Enter("user") /\ UNCHANGED result

(* ~Savepoint(): the section is removed. *)
Rollback ==
  /\ text' = SubSeq(text, 1, mark) /\ mark' = NULL
  /\ CASE section \in {"header", "system"} -> Return(FALSE)
       [] section = "event"                -> GoOn
       [] section = "user"                 -> Return(TRUE)
  /\ UNCHANGED <<args, overflow>>

WriteFails ==
  /\ HasWrite /\ ~Succeeds /\ ~InParams /\ ~InXml
  /\ Rollback

Commit ==
  /\ InSection /\ next > Len(Writes(section)) /\ ~overflow
  /\ mark' = NULL
  /\ CASE section = "header" -> Enter("system") /\ UNCHANGED result
       [] section = "system" -> Enter("event") /\ UNCHANGED result
       [] section = "event"  -> Enter("user") /\ UNCHANGED result
       [] section = "user"   -> Return(TRUE)
  /\ UNCHANGED <<args, text, overflow>>

XmlOverflows ==
  /\ InSection /\ next > Len(Writes(section)) /\ overflow
  /\ Rollback

Next ==
  \/ Skip \/ Begin \/ WriteAll \/ ParamFails \/ XmlWrite
  \/ WriteFails \/ Commit \/ XmlOverflows

Spec == Init /\ [][Next]_vars

-----------------------------------------------------------------------------
(* What the receiver of the message gets                                   *)

(* Its characters, and whether all of their bytes are there. *)
IfFirst(b) == IF b[2] = 1 THEN <<b[1]>> ELSE <<>>
AllBytes(c) == [k \in 1 .. (IF c = PAIR THEN 4 ELSE Width[c]) |-> <<c, k>>]
Chars == Each(text, IfFirst)
WholeCharacters == text = Each(Chars, AllBytes)

IfWritten(p) ==
  IF ~IsWritten(p) THEN <<>>
  ELSE <<[name  |-> ParamName(p.name),
          value |-> IF p.number THEN p.value ELSE UpTo(MaxSdLength, Characters(p.value))]>>
Element(id, params) == [id |-> <<id>>, params |-> Each(params, IfWritten)]

IfNoSpace(c) == IF c = SP THEN <<>> ELSE <<c>>

(* The message of a format that succeeds is what an RFC 5424 receiver      *)
(* reads back as the event: the six fields, every property of the system   *)
(* with its name and its value, shortened but never cut within a character *)
(* or an escape, and then all of the event data or nothing of it, and all  *)
(* of the user data or nothing of it.                                      *)
ReceiverReadsEvent ==
  result = TRUE =>
    LET r == Reading(Chars)
    IN  /\ WholeCharacters /\ Readable(Chars)
        /\ Each(r.header, IfNoSpace) = [i \in 1 .. 6 |-> FIELD]
        /\ \/ r.elements = <<Element(SYS, event.system)>>
           \/ /\ event.data # NULL
              /\ r.elements = <<Element(SYS, event.system), Element(EVD, event.data)>>
        /\ \/ r.payload = <<>>
           \/ /\ event.user # NULL
              /\ r.payload = <<BOM>> \o Characters(FlattenSeq(event.user))

Bytes(s) == Each(Writes(s), Encode)
Fits(before, s) == before + Len(Bytes(s)) <= capacity /\ ~Contains(Bytes(s), BAD)

(* "Optional: omit if it doesn't fit.": a message is without its event     *)
(* data or its user data only if that does not fit after what precedes it  *)
(* (or is malformed); that one is too long does not keep out the other.    *)
(* (When there is no message at all is not stated: one parameter of the    *)
(* system that does not fit is enough.)                                    *)
LeftOutOnlyIfTooLong ==
  LET mandatory == Len(Bytes("header")) + Len(Bytes("system"))
      r == Reading(Chars)
      hasData == Len(r.elements) = 2
      before == mandatory + IF hasData THEN Len(Bytes("event")) ELSE 0
  IN  /\ result = TRUE /\ event.data # NULL /\ ~hasData => ~Fits(mandatory, "event")
      /\ result = TRUE /\ event.user # NULL /\ r.payload = <<>> => ~Fits(before, "user")

(* "A RFC5424 Syslog Event Log Formatter": in RFC 5424 a space separates   *)
(* the header from the structured data.                                    *)
HeaderIsSeparated == result = TRUE => Last(Reading(Chars).header) = SP
=============================================================================
