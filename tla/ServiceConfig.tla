---------------------------- MODULE ServiceConfig -----------------------------
(***************************************************************************)
(* ServiceConfig::load (svc/service_config.cpp) reads the sections of the  *)
(* configuration file one after the other; a defect is noted and loading   *)
(* goes on.  If the file is accepted, ServiceContext::start gives its      *)
(* formatters and subscriptions to the collector, which leaves out the     *)
(* subscriptions that the log service refuses (EventCollector::            *)
(* add_subscription); any other failure to subscribe aborts the start.     *)
(*                                                                         *)
(* A file is data: parameters are numbers or members of small sets.  One   *)
(* that is not given is NULL, and one of the wrong type is WRONG.  Of      *)
(* what must be given, and of names that may be empty, NULL also stands    *)
(* for an empty text, which the code treats in the same way; for the       *)
(* protocol it does not.  Numbers outside of int are left out: the parser  *)
(* throws, and init_service refuses the file.                              *)
(*                                                                         *)
(* Ids are numbers in the order of std::map; Canonical maps ids that       *)
(* differ only in case to the same number.  An entry of events is the list *)
(* of its parts between hyphens; a part is a number, TEXT if it does not   *)
(* begin with one, or HUGE.                                                *)
(*                                                                         *)
(* One formatter_config is filled for all formatters.  Its two lengths are *)
(* not initialised: they may hold any value of Indeterminate.              *)
(***************************************************************************)
EXTENDS Integers, Sequences, FiniteSets, SequencesExt

CONSTANTS
  Files,           (* the configurations tried                              *)
  LimitRange,      (* per limit but max_syslog_sd_length: lower and upper   *)
  MinMaxSDLength,
  Facilities, Properties,
  MaxEnterpriseId, (* 2^32 - 1                                              *)
  Canonical,
  Denied,          (* channels the service may not read                     *)
  Unknown,         (* channels EvtSubscribe fails for in another way        *)
  Indeterminate,
  TEXT, HUGE, NULL, WRONG

ASSUME ConfigAssumption ==
  /\ MinMaxSDLength \in Nat /\ MaxEnterpriseId \in Nat
  /\ Indeterminate \subseteq Nat /\ Indeterminate # {}
  /\ NULL \notin BOOLEAN \union Int /\ WRONG \notin {NULL} \union Int

VARIABLES
  file,
  section, index,  (* the section being loaded and its entry               *)
  valid, ok,       (* valid of load and of the section's function          *)
  global, limits,  (* _agent_id and _enterprise_id, _limit_config          *)
  working,         (* formatter_config                                     *)
  formatters,      (* _formatter_configs                                   *)
  subscriptions,   (* _subscription_configs                                *)
  active,          (* _subscriptions of the collector, with their formatter *)
  result           (* of load                                              *)

place == <<section, index>>
config == <<global, limits, working, formatters, subscriptions>>
loadVars == <<file, place, valid, ok, config, active, result>>

LimitNames == <<"system_data_buffer_size", "event_data_buffer_size", "user_cache_size",
                "queue_size", "max_syslog_msg_length", "max_syslog_sd_length">>
MSG == "max_syslog_msg_length"
SD == "max_syslog_sd_length"

Numbers == Int \union {NULL, WRONG}

(* Limits and lengths are given, not given or of the wrong type; ids are   *)
(* numbers, or NULL.                                                       *)
ASSUME FilesAssumption ==
  /\ DOMAIN LimitRange = {LimitNames[i] : i \in 1 .. 5}
  /\ \A n \in DOMAIN LimitRange : LimitRange[n].lower \in Nat /\ LimitRange[n].upper \in Nat
  /\ \A f \in Files :
       /\ f.limits # NULL => \A i \in 1 .. 6 : f.limits[LimitNames[i]] \in Numbers
       /\ f.formatters # NULL =>
            /\ Len(f.formatters) \in Nat
            /\ \A i \in 1 .. Len(f.formatters) :
                 f.formatters[i].msgLength \in Numbers /\ f.formatters[i].sdLength \in Numbers
       /\ f.subscriptions # NULL =>
            /\ Len(f.subscriptions) \in Nat
            /\ \A i \in 1 .. Len(f.subscriptions) : f.subscriptions[i].id \in Int \union {NULL}

-----------------------------------------------------------------------------
(* Checks of parameters                                                    *)

(* What is of the wrong type is taken as not given, and so is a negative   *)
(* number.                                                                 *)
LoadInt(value) == IF value \in Nat THEN value ELSE NULL
Read(value) == IF value = WRONG THEN NULL ELSE value

OwnOr(own, default) == IF own = NULL THEN default ELSE own

Span(range) == range.lower .. range.upper

InRange(value, range) == value >= range.lower /\ value <= range.upper

(* The range of max_syslog_sd_length depends on what was loaded before. *)
SdRange == [lower |-> MinMaxSDLength, upper |-> limits[MSG]]
RangeOf(name) == IF name = SD THEN SdRange ELSE LimitRange[name]

(* Ids are lists of segments of digits; leading zeros are accepted, as     *)
(* the test for them compares with the character NUL.                      *)
IsDigit(c) == c \in 0 .. 9
ValueOf(segment) == FoldLeft(LAMBDA v, d : 10 * v + d, 0, segment)
IsValidEnterpriseId(id) ==
  \A i \in 1 .. Len(id) :
    /\ id[i] # <<>>
    /\ \A j \in 1 .. Len(id[i]) : IsDigit(id[i][j])
    /\ ValueOf(id[i]) <= MaxEnterpriseId

(* utl::str2i: text without a number at its beginning gives 0. *)
Str2i(part) == IF part = TEXT THEN 0 ELSE part

-----------------------------------------------------------------------------
Nobody == [id \in {} |-> NULL]

LoadInit ==
  /\ file \in Files
  /\ section = "global" /\ index = 1
  /\ valid = TRUE /\ ok = TRUE
  /\ global = [agent |-> NULL, enterprise |-> NULL]
  /\ limits = [n \in {LimitNames[i] : i \in 1 .. 6} |-> 0]
  /\ \E sd, msg \in Indeterminate :
       working = [facility |-> NULL, properties |-> {}, sysId |-> NULL, evdId |-> NULL,
                  msgLength |-> msg, sdLength |-> sd]
  /\ formatters = Nobody /\ subscriptions = Nobody
  /\ active = <<>> /\ result = NULL

(* valid &= load_..._section(...) *)
EndSection(isValid, following) ==
  /\ valid' = (valid /\ isValid)
  /\ ok' = TRUE
  /\ section' = following /\ index' = 1

NextEntry(isValid) ==
  /\ ok' = (ok /\ isValid)
  /\ index' = index + 1
  /\ UNCHANGED <<section, valid>>

-----------------------------------------------------------------------------
(* The sections                                                            *)

HasAgent(g) == g.agent # NULL
HasEnterprise(g) == g.enterprise # NULL /\ IsValidEnterpriseId(g.enterprise)

LoadGlobal ==
  /\ section = "global"
  /\ LET g == file.global
     IN  /\ global' = IF g = NULL THEN global
                      ELSE [agent |-> IF HasAgent(g) THEN g.agent ELSE NULL,
                            enterprise |-> IF HasEnterprise(g) THEN g.enterprise ELSE NULL]
         /\ EndSection(g # NULL /\ HasAgent(g) /\ HasEnterprise(g), "limits")
  /\ UNCHANGED <<file, limits, working, formatters, subscriptions, active, result>>

LoadLimit ==
  /\ section = "limits" /\ file.limits # NULL /\ index <= Len(LimitNames)
  /\ LET name == LimitNames[index]
         value == LoadInt(file.limits[name])
         accepted == value # NULL /\ InRange(value, RangeOf(name))
     IN  /\ limits' = IF accepted THEN [limits EXCEPT ![name] = value] ELSE limits
         /\ NextEntry(accepted)
  /\ UNCHANGED <<file, global, working, formatters, subscriptions, active, result>>

LimitsLoaded ==
  /\ section = "limits" /\ (file.limits = NULL \/ index > Len(LimitNames))
  /\ EndSection(file.limits # NULL /\ ok, "forwarder")
  /\ UNCHANGED <<file, config, active, result>>

(* The protocol is TLS if none is read; an empty one is refused. *)
LoadForwarder ==
  /\ section = "forwarder"
  /\ LET f == file.forwarder
     IN  EndSection(f # NULL /\ f.collector = "endpoint" /\ Read(f.protocol) \in {NULL, "TLS", "TCP"},
                     "formatters")
  /\ UNCHANGED <<file, config, active, result>>

Entries(array) == IF array = NULL THEN <<>> ELSE array
HasEntry(name, array) == section = name /\ index <= Len(Entries(array))
NoEntryLeft(name, array) == section = name /\ index > Len(Entries(array))

(* Mutant: an id may be used again. *)
AnyId(id, configs) == id # NULL

IsNewId(id, configs) == id # NULL /\ id \notin DOMAIN configs

(* Mutant: what an earlier formatter excluded stays excluded. *)
StillIncluded(f) ==
  (IF working.properties = {} THEN Properties ELSE working.properties) \ OwnOr(Read(f.excluded), {})

Included(f) == Properties \ OwnOr(Read(f.excluded), {})

IsFormatterValid(f) ==
  /\ f.facility \in Facilities
  /\ OwnOr(Read(f.excluded), {}) \subseteq Properties
  /\ LET msgLength == LoadInt(f.msgLength)
         sdLength == LoadInt(f.sdLength)
     IN  /\ msgLength = NULL \/ InRange(msgLength, LimitRange[MSG])
         /\ sdLength = NULL \/ InRange(sdLength, SdRange)

(* formatter_config after an entry; a parameter that is not accepted       *)
(* leaves what the entry before it left.                                   *)
Filled(f) ==
  LET msgLength == OwnOr(LoadInt(f.msgLength), limits[MSG])
  IN  [facility   |-> IF f.facility \in Facilities THEN f.facility ELSE working.facility,
       properties |-> Included(f),
       sysId      |-> OwnOr(Read(f.sysId), <<"sys", global.enterprise>>),
       evdId      |-> OwnOr(Read(f.evdId), <<"evd", global.enterprise>>),
       msgLength  |-> IF LoadInt(f.msgLength) = NULL \/ InRange(msgLength, LimitRange[MSG])
                      THEN msgLength ELSE working.msgLength,
       sdLength   |-> IF LoadInt(f.sdLength) = NULL THEN limits[SD] ELSE working.sdLength]

With(id, entry, configs) == [i \in DOMAIN configs \union {id} |-> IF i = id THEN entry ELSE configs[i]]

(* An accepted max_syslog_sd_length goes into the limits. *)
LoadFormatter ==
  /\ HasEntry("formatters", file.formatters)
  /\ LET f == file.formatters[index]
         sdLength == LoadInt(f.sdLength)
         accepted == ok /\ IsFormatterValid(f)
     IN  IF IsNewId(f.id, formatters)
         THEN /\ working' = Filled(f)
              /\ limits' = IF sdLength # NULL /\ InRange(sdLength, SdRange)
                           THEN [limits EXCEPT ![SD] = sdLength] ELSE limits
              /\ formatters' = IF accepted THEN With(f.id, Filled(f), formatters) ELSE formatters
              /\ NextEntry(accepted)
         ELSE NextEntry(FALSE) /\ UNCHANGED <<working, limits, formatters>>
  /\ UNCHANGED <<file, global, subscriptions, active, result>>

FormattersLoaded ==
  /\ NoEntryLeft("formatters", file.formatters)
  /\ EndSection(file.formatters # NULL /\ ok, "subscriptions")
  /\ UNCHANGED <<file, config, active, result>>

(* EventIDList::add, for the entries with one or two parts: an id that is  *)
(* too large and a range that is empty are left out.                       *)
EventRange(event) ==
  LET lower == Str2i(event[1])
      upper == Str2i(event[Len(event)])
  IN  IF HUGE \notin {lower, upper} /\ lower <= upper
      THEN <<[lower |-> lower, upper |-> upper]>> ELSE <<>>
EventIDList(events) ==
  FlattenSeq([i \in 1 .. Len(events) |-> IF Len(events[i]) <= 2 THEN EventRange(events[i]) ELSE <<>>])

HasNames(s) == s.channel # NULL /\ s.formatter # NULL
AreEventsValid(s) == s.events # NULL /\ \A i \in 1 .. Len(s.events) : Len(s.events[i]) <= 2

(* EventSubscriptionConfig of an entry. *)
Loaded(s) ==
  [id |-> s.id, channel |-> s.channel, formatter |-> s.formatter,
   provider |-> Read(s.provider), filter |-> Read(s.filter), events |-> EventIDList(s.events)]

LoadSubscription ==
  /\ HasEntry("subscriptions", file.subscriptions)
  /\ LET s == file.subscriptions[index]
         accepted == ok /\ AreEventsValid(s)
     IN  IF IsNewId(s.id, subscriptions) /\ HasNames(s)
         THEN /\ NextEntry(accepted)
              /\ subscriptions' = IF accepted
                                  THEN With(s.id, Loaded(s), subscriptions)
                                  ELSE subscriptions
         ELSE NextEntry(FALSE) /\ UNCHANGED subscriptions
  /\ UNCHANGED <<file, global, limits, working, formatters, active, result>>

SubscriptionsLoaded ==
  /\ NoEntryLeft("subscriptions", file.subscriptions)
  /\ LET isValid == file.subscriptions # NULL /\ ok
     IN  /\ EndSection(isValid, IF valid /\ isValid THEN "start" ELSE "end")
         /\ result' = (valid /\ isValid)
  /\ UNCHANGED <<file, config, active>>

-----------------------------------------------------------------------------
(* ServiceContext::start                                                   *)

(* std::map is visited in the order of its ids: the k-th has k - 1 before it. *)
Ids == DOMAIN subscriptions
IdAt(k) == CHOOSE id \in Ids : Cardinality({i \in Ids : i <= id}) = k

(* Mutant: ids that differ in case are different. *)
SameId(id) == \E i \in 1 .. Len(active) : active[i].id = id

IsDuplicate(id) == \E i \in 1 .. Len(active) : Canonical[active[i].id] = Canonical[id]

(* EventIDList::query: with a provider and a list, a quotation mark is     *)
(* left open.                                                              *)
IsQueryValid(s) == s.provider = NULL \/ s.events = <<>>

(* _filters is always empty: a subscription that names a filter is left    *)
(* out.                                                                    *)
HasContext(s) == s.filter = NULL /\ s.formatter \in DOMAIN formatters

(* The subscriptions that the log service accepts. *)
IsServed(s) == HasContext(s) /\ IsQueryValid(s) /\ s.channel \notin Denied \union Unknown

(* A query that is not valid, or a channel that is denied, is logged. *)
AddSubscription ==
  /\ section = "start" /\ index <= Cardinality(Ids)
  /\ LET id == IdAt(index)
         s == subscriptions[id]
     IN  /\ IsDuplicate(id) \/ ~HasContext(s) \/ ~IsQueryValid(s) \/ s.channel \notin Unknown
         /\ active' = IF ~IsDuplicate(id) /\ IsServed(s)
                      THEN Append(active, [id |-> id, formatter |-> formatters[s.formatter]]) ELSE active
  /\ NextEntry(TRUE)
  /\ UNCHANGED <<file, config, result>>

(* Any other error is thrown again and ends start; if the query is not     *)
(* valid either, the log service may name one error or the other.          *)
StartAborts ==
  /\ section = "start" /\ index <= Cardinality(Ids)
  /\ LET id == IdAt(index)
         s == subscriptions[id]
     IN  ~IsDuplicate(id) /\ HasContext(s) /\ s.channel \in Unknown
  /\ section' = "aborted"
  /\ UNCHANGED <<file, index, valid, ok, config, active, result>>

Started ==
  /\ section = "start" /\ index > Cardinality(Ids)
  /\ EndSection(TRUE, "end")
  /\ UNCHANGED <<file, config, active, result>>

LoadNext ==
  \/ LoadGlobal \/ LoadLimit \/ LimitsLoaded \/ LoadForwarder
  \/ LoadFormatter \/ FormattersLoaded \/ LoadSubscription \/ SubscriptionsLoaded
  \/ AddSubscription \/ StartAborts \/ Started

LoadSpec == LoadInit /\ [][LoadNext]_loadVars

-----------------------------------------------------------------------------
(* What a configuration file should be, whatever the order of its parts:   *)
(* every parameter that is given is of its type and in its range, and a    *)
(* segment of an enterprise id has no unnecessary leading zero (the        *)
(* comment in is_valid_enterprise_id).  IsGoodBut(forgiven) forgives a     *)
(* set of kinds of defects; IsGoodBut({}) is a file without any.           *)

DistinctIds(array) ==
  \A i, j \in 1 .. Len(array) : array[i].id # NULL /\ (i # j => array[i].id # array[j].id)

(* A segment is a number below 2^32 in decimal. *)
IsSegment(digits, forgiven) ==
  /\ digits # <<>> /\ \A j \in 1 .. Len(digits) : digits[j] \in 0 .. 9
  /\ ValueOf(digits) <= MaxEnterpriseId
  /\ Len(digits) > 1 /\ digits[1] = 0 => "leading zero" \in forgiven

GlobalIsGood(forgiven) ==
  /\ file.global # NULL /\ file.global.agent # NULL /\ file.global.enterprise # NULL
  /\ \A i \in 1 .. Len(file.global.enterprise) : IsSegment(file.global.enterprise[i], forgiven)

LimitIsGood(n) ==
  file.limits[n] \in IF n = SD THEN MinMaxSDLength .. file.limits[MSG] ELSE Span(LimitRange[n])

(* A length is in its range if it is given. *)
LengthIsGood(length, range, forgiven) ==
  \/ length \in {NULL} \union range
  \/ length \in Int /\ length < 0 /\ "negative length" \in forgiven
  \/ length = WRONG /\ "option of the wrong type" \in forgiven

HasItsTypes(options, forgiven) == WRONG \in options => "option of the wrong type" \in forgiven

ForwarderIsGood(forgiven) ==
  /\ file.forwarder # NULL /\ file.forwarder.collector = "endpoint"
  /\ file.forwarder.protocol \in {NULL, "TLS", "TCP", WRONG}
  /\ HasItsTypes({file.forwarder.protocol}, forgiven)

FormatterIsGood(f, forgiven) ==
  /\ f.facility \in Facilities
  /\ f.excluded \in {NULL, WRONG} \/ f.excluded \subseteq Properties
  /\ LengthIsGood(f.msgLength, Span(LimitRange[MSG]), forgiven)
  /\ LengthIsGood(f.sdLength, MinMaxSDLength .. file.limits[MSG], forgiven)
  /\ HasItsTypes({f.excluded, f.sysId, f.evdId}, forgiven)

SubscriptionIsGood(s, forgiven) ==
  /\ s.channel # NULL /\ s.formatter # NULL
  /\ s.events # NULL /\ \A i \in 1 .. Len(s.events) : Len(s.events[i]) <= 2
  /\ HasItsTypes({s.provider, s.filter}, forgiven)

IsGoodBut(forgiven) ==
  /\ NULL \notin {file.limits, file.formatters, file.subscriptions}
  /\ GlobalIsGood(forgiven) /\ ForwarderIsGood(forgiven)
  /\ \A i \in 1 .. 6 : LimitIsGood(LimitNames[i])
  /\ DistinctIds(file.formatters) /\ DistinctIds(file.subscriptions)
  /\ \A i \in 1 .. Len(file.formatters) : FormatterIsGood(file.formatters[i], forgiven)
  /\ \A i \in 1 .. Len(file.subscriptions) : SubscriptionIsGood(file.subscriptions[i], forgiven)

(* What load overlooks: leading zeros are compared with the character NUL, *)
(* and an optional parameter that cannot be read is taken as not given.    *)
Overlooked == {"leading zero", "negative length", "option of the wrong type"}

(* load accepts every file without a defect, and otherwise exactly those   *)
(* whose defects are all among the three kinds that it overlooks: none of  *)
(* the other defects is forgotten on the way through the sections and      *)
(* their entries, and none is made up.                                     *)
LoadsExactlyGoodFiles ==
  result # NULL =>
    /\ IsGoodBut({}) => result
    /\ result = IsGoodBut(Overlooked)

(* In a file that was accepted, every section has its own configuration:   *)
(* what formatter_config keeps of an earlier formatter does not reach a    *)
(* later one.  max_syslog_sd_length is left out: LoadFormatter puts it     *)
(* into the limits, and so into the formatters that follow.                *)
FormattersAreApart ==
  result = TRUE =>
    \A i \in 1 .. Len(file.formatters) :
      LET f == file.formatters[i]
          c == formatters[f.id]
      IN  /\ c.facility = f.facility
          /\ c.properties = Properties \ OwnOr(Read(f.excluded), {})
          /\ c.msgLength = OwnOr(LoadInt(f.msgLength), file.limits[MSG])
          /\ c.sysId = OwnOr(Read(f.sysId), <<"sys", file.global.enterprise>>)
          /\ c.evdId = OwnOr(Read(f.evdId), <<"evd", file.global.enterprise>>)

(* Of several subscriptions whose ids differ in case only the collector    *)
(* has at most one, with the formatter it names.  If the start was not     *)
(* aborted, it has one of each that the log service accepts with the       *)
(* query that the code writes; and the start is aborted only by a          *)
(* subscription to a channel that cannot be subscribed to.                 *)
EachSubscriptionOnce ==
  result = TRUE =>
    /\ \A a, b \in 1 .. Len(active) : Canonical[active[a].id] = Canonical[active[b].id] => a = b
    /\ \A a \in 1 .. Len(active) :
         LET s == subscriptions[active[a].id]
         IN  IsServed(s) /\ active[a].formatter = formatters[s.formatter]
    /\ section = "end" =>
         \A i \in 1 .. Len(file.subscriptions) :
           LET id == file.subscriptions[i].id
           IN  IsServed(subscriptions[id]) =>
                 \E a \in 1 .. Len(active) : Canonical[active[a].id] = Canonical[id]
    /\ section = "aborted" =>
         \E i \in 1 .. Len(file.subscriptions) :
           LET s == file.subscriptions[i]
           IN  s.channel \in Unknown /\ Read(s.filter) = NULL /\ s.formatter \in DOMAIN formatters

=============================================================================
