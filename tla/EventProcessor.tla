--------------------------- MODULE EventProcessor -----------------------------
(***************************************************************************)
(* From an event of the log to what is formatted: EventProcessor::process, *)
(* EventRenderer and its two RenderingBuffers (evt/event_processor.cpp,    *)
(* event_renderer.cpp, event_log_handle.cpp), with the UserCache.          *)
(*                                                                         *)
(* The buffers and the cache live as long as the processor; the EventData  *)
(* that is handed to the formatter is made anew for each event and only    *)
(* points into them.  The properties are about what it points at when the  *)
(* formatter reads it.                                                     *)
(*                                                                         *)
(* An event is [values, xml, sid]: the bytes that its system values and    *)
(* its XML take, and its user.  EvtRender writes into a buffer that is     *)
(* large enough, or fails; into one that is too small it writes nothing    *)
(* and says what it needs.  All of process runs in one thread, so that a   *)
(* part of the event is rendered in one step.                              *)
(***************************************************************************)
EXTENDS UserCache

CONSTANTS
  Events,        (* events of the log                                       *)
  ValuesLimit,   (* system_data_buffer_size_limit                           *)
  XmlLimit,      (* event_data_buffer_size_limit                            *)
  NULL

ASSUME ProcessorAssumption ==
  /\ Events \subseteq [values : Nat \ {0}, xml : Nat \ {0}, sid : Sids \union {NULL}]
  /\ ValuesLimit \in Nat /\ XmlLimit \in Nat
  /\ NULL \notin Events \union Sids

VARIABLES
  pc,        (* the part of process that comes next                         *)
  event,     (* the event that is processed                                 *)
  valuesBuf, (* _values_buffer                                              *)
  xmlBuf,    (* _xml_buffer                                                 *)
  account,   (* _account_buffer: the SID whose account it shares, or NULL   *)
  data,      (* event_data: what was extracted, and how much of a buffer    *)
  faults     (* history: parts of this event that EvtRender failed at       *)

buffers == <<valuesBuf, xmlBuf>>
vars == <<pc, event, buffers, account, data, faults, cacheVars>>

(* A buffer has a size, and holds bytes of an event or nothing useful. *)
Buffers(limit) == [size : 0 .. limit, holds : Events \union {NULL}]

(* EventData.  system: how many bytes of _values_buffer it points into;    *)
(* user: whose account it points at; xml: how many bytes of _xml_buffer    *)
(* the document is made of.                                                *)
NoData == [system |-> 0, user |-> NULL, xml |-> 0]

TypeOK ==
  /\ CacheTypeOK
  /\ pc \in {"idle", "system", "account", "xml", "format", "terminated"}
  /\ event \in Events \union {NULL}
  /\ valuesBuf \in Buffers(ValuesLimit) /\ xmlBuf \in Buffers(XmlLimit)
  /\ account \in Sids \union {NULL}
  /\ data \in [system : 0 .. ValuesLimit, user : Sids \union {NULL}, xml : 0 .. XmlLimit]
  /\ faults \subseteq {"system", "account", "xml"}

Init ==
  /\ CacheInit
  /\ pc = "idle" /\ event = NULL
  /\ valuesBuf = [size |-> 0, holds |-> NULL] /\ xmlBuf = [size |-> 0, holds |-> NULL]
  /\ account = NULL /\ data = NoData /\ faults = {}

-----------------------------------------------------------------------------
(* RenderingBuffer and EventLogHandle                                      *)

(* Mutants: only an empty buffer grows; the limit is exclusive. *)
ResizeOnce(b, n, limit) == IF b.size = 0 THEN [size |-> n, holds |-> NULL] ELSE b
ResizeBelow(b, n, limit) == IF n >= limit THEN b ELSE [size |-> n, holds |-> NULL]

(* resize(): the buffer never shrinks, and a larger one is empty. *)
Resize(b, n, limit) ==
  IF n > limit \/ n <= b.size THEN b ELSE [size |-> n, holds |-> NULL]

(* A call of EvtRender, for an event that takes n bytes. *)
Fits(b, n) == b.size >= n
Filled(b) == [b EXCEPT !.holds = event]

(* The buffer after the first call, and resize if it was too small. *)
Prepared(b, n, limit) == IF Fits(b, n) THEN b ELSE Resize(b, n, limit)

(* The event does not fit even after resize: ERROR_BUFFER_OVERFLOW. *)
Overflows(b, n, limit) == ~Fits(Prepared(b, n, limit), n)

(* The buffer after the first or the second call failed for another reason *)
(* than its size.                                                          *)
Spoilt(b) == [b EXCEPT !.holds = NULL]
Failed(b, n, limit) ==
  {Spoilt(b)} \union
    (IF Overflows(b, n, limit) THEN {} ELSE {Spoilt(Prepared(b, n, limit))})

-----------------------------------------------------------------------------
(* EventProcessor::process                                                 *)

Begin ==
  /\ pc = "idle"
  /\ event' \in Events
  /\ pc' = "system" /\ data' = NoData /\ faults' = {}
  /\ UNCHANGED <<buffers, account, cacheVars>>

(* Mutant: event_data is kept from one event to the next. *)
BeginWithOldData ==
  /\ pc = "idle"
  /\ event' \in Events
  /\ pc' = "system" /\ faults' = {}
  /\ UNCHANGED <<buffers, account, data, cacheVars>>

Start == Begin

(* Rendered: the properties point into the buffer. *)
SystemRendered ==
  /\ pc = "system" /\ ~Overflows(valuesBuf, event.values, ValuesLimit)
  /\ valuesBuf' = Filled(Prepared(valuesBuf, event.values, ValuesLimit))
  /\ data' = [data EXCEPT !.system = event.values]
  /\ pc' = "account"
  /\ UNCHANGED <<event, xmlBuf, account, faults, cacheVars>>

(* RenderStatus::Overflow: process goes on without any data. *)
SystemOverflows ==
  /\ pc = "system" /\ Overflows(valuesBuf, event.values, ValuesLimit)
  /\ pc' = "format"
  /\ UNCHANGED <<event, buffers, account, data, faults, cacheVars>>

(* RenderStatus::Failed: the event is dropped. *)
SystemFails ==
  /\ pc = "system"
  /\ valuesBuf' \in Failed(valuesBuf, event.values, ValuesLimit)
  /\ pc' = "idle" /\ event' = NULL
  /\ UNCHANGED <<xmlBuf, account, data, faults, cacheVars>>

(* An event without a user, or a SID that is not valid or has no account. *)
NoUser ==
  /\ pc = "account"
  /\ \/ event.sid = NULL /\ UNCHANGED <<faults, cacheVars>>
     \/ event.sid # NULL /\ NoAccount(event.sid) /\ faults' = faults \union {"account"}
  /\ account' = NULL
  /\ pc' = "xml"
  /\ UNCHANGED <<event, buffers, data>>

(* Mutant: the account that is asked for is the one used most recently. *)
AnyUser == IF lru = <<>> THEN event.sid ELSE lru[1].sid

(* The account get_account_info returns. *)
FoundUser == event.sid

UserFound ==
  /\ pc = "account" /\ event.sid # NULL
  /\ Hit(event.sid) \/ Miss(event.sid)
  /\ account' = FoundUser /\ data' = [data EXCEPT !.user = FoundUser]
  /\ pc' = "xml"
  /\ UNCHANGED <<event, buffers, faults>>

(* An allocation of the cache fails: render_user_account is noexcept and   *)
(* catches os_error only, so that the program is terminated.               *)
CacheThrows ==
  /\ pc = "account" /\ event.sid # NULL
  /\ Throws(event.sid)
  /\ account' = NULL
  /\ pc' = "terminated"
  /\ UNCHANGED <<event, buffers, data, faults>>

XmlRendered ==
  /\ pc = "xml" /\ ~Overflows(xmlBuf, event.xml, XmlLimit)
  /\ xmlBuf' = Filled(Prepared(xmlBuf, event.xml, XmlLimit))
  /\ data' = [data EXCEPT !.xml = event.xml]
  /\ pc' = "format"
  /\ UNCHANGED <<event, valuesBuf, account, faults, cacheVars>>

(* The XML is too long, or cannot be rendered or parsed: xml_doc.reset().  *)
XmlLeftOut ==
  /\ pc = "xml"
  /\ \/ /\ Overflows(xmlBuf, event.xml, XmlLimit)
        /\ UNCHANGED <<xmlBuf, faults>>
     \/ /\ xmlBuf' \in Failed(xmlBuf, event.xml, XmlLimit)
        /\ faults' = faults \union {"xml"}
  /\ data' = [data EXCEPT !.xml = 0]
  /\ pc' = "format"
  /\ UNCHANGED <<event, valuesBuf, account, cacheVars>>

(* The formatter reads the data, which then goes out of scope. *)
Format ==
  /\ pc = "format"
  /\ pc' = "idle" /\ event' = NULL
  /\ UNCHANGED <<buffers, account, data, faults, cacheVars>>

Next ==
  \/ Start
  \/ SystemRendered \/ SystemOverflows \/ SystemFails
  \/ NoUser \/ UserFound \/ CacheThrows
  \/ XmlRendered \/ XmlLeftOut
  \/ Format

Spec == Init /\ [][Next]_vars

-----------------------------------------------------------------------------
(* "event_data acts as an ephemeral view ... into the renderer memory"     *)
(* (event_processor.cpp): when the formatter reads it, every part that is  *)
(* there is of this event, whatever earlier events left in the buffers,    *)
(* and the account is one that the renderer keeps alive.                   *)
FormattedIsOwn ==
  pc = "format" =>
    /\ data.system > 0 => valuesBuf.holds = event /\ valuesBuf.size >= data.system
    /\ data.xml > 0 => xmlBuf.holds = event /\ xmlBuf.size >= data.xml
    /\ data.user # NULL => data.user = event.sid /\ account = data.user

(* What is left out of an event depends on that event alone: the parts     *)
(* that fit and could be rendered are there, and an event that is too      *)
(* large, or fails half-way, costs no other event anything.                *)
LeftOutByItsOwnFault ==
  pc = "format" =>
    /\ data.system = (IF event.values <= ValuesLimit THEN event.values ELSE 0)
    /\ data.system > 0 =>
         /\ data.xml = (IF event.xml <= XmlLimit /\ "xml" \notin faults THEN event.xml ELSE 0)
         /\ data.user = (IF "account" \notin faults THEN event.sid ELSE NULL)
    /\ data.system = 0 => data = NoData
=============================================================================
