--------------------------- MODULE MCServiceConfig ----------------------------
(* Instances of ServiceConfig for TLC. *)
EXTENDS ServiceConfig

Ranges ==
  [n \in {LimitNames[i] : i \in 1 .. 5} |->
     IF n = MSG THEN [lower |-> 5, upper |-> 20] ELSE [lower |-> 2, upper |-> 4]]
(* 1 and 3 differ in case only. *)
Fold == [id \in 1 .. 4 |-> IF id = 3 THEN 1 ELSE id]

Global(agent, enterprise) == [agent |-> agent, enterprise |-> enterprise]
Globals == {NULL, Global("agent", <<<<1>>, <<0, 7>>>>), Global(NULL, <<<<1>>>>), Global("agent", NULL),
            Global("agent", <<<<0>>, <<1>>>>), Global("agent", <<<<1>>, <<>>>>), Global("agent", <<<<TEXT>>>>), Global("agent", <<<<9, 9>>>>)}

GoodLimits == [n \in {LimitNames[i] : i \in 1 .. 6} |-> IF n = MSG THEN 10 ELSE IF n = SD THEN 6 ELSE 3]
Limits == {NULL, GoodLimits}
  \union {[GoodLimits EXCEPT ![LimitNames[i]] = v] : i \in 1 .. 6, v \in {NULL, WRONG, -1, 1, 2, 4, 11, 21}}

Forwarders == {NULL} \union [collector : {NULL, "endpoint", "bad"}, protocol : {NULL, WRONG, "", "TCP", "UDP"}]

Formatter(id, msg, sd, excluded) ==
  [id |-> id, facility |-> "local0", excluded |-> excluded, sysId |-> NULL, evdId |-> "evd", msgLength |-> msg, sdLength |-> sd]
Formatters == {
  NULL, <<>>,
  <<Formatter(1, NULL, NULL, {"p"}), Formatter(2, 12, NULL, {})>>,
  <<Formatter(1, 8, 5, {}), Formatter(2, NULL, NULL, {"q"})>>,
  <<Formatter(1, NULL, NULL, {}), Formatter(2, NULL, 5, {}), Formatter(3, NULL, NULL, {})>>,
  <<Formatter(1, NULL, NULL, {}), Formatter(1, NULL, NULL, {})>>,
  <<Formatter(NULL, NULL, NULL, {}), Formatter(1, NULL, NULL, {})>>,
  <<Formatter(1, 4, NULL, {}), Formatter(2, NULL, NULL, {})>>,
  <<Formatter(1, NULL, 11, {})>>,
  <<Formatter(1, -8, NULL, {}), Formatter(2, 12, -1, {"p"})>>,
  <<Formatter(1, WRONG, NULL, {}), Formatter(2, NULL, WRONG, {"z"})>>,
  <<Formatter(1, 8, NULL, {"p"}), [Formatter(2, WRONG, WRONG, WRONG) EXCEPT !.evdId = WRONG]>>,
  <<Formatter(1, NULL, NULL, {"z"})>>,
  <<[Formatter(1, NULL, NULL, {}) EXCEPT !.facility = "mail"], Formatter(2, NULL, NULL, {})>> }

Subscription(id, formatter) ==
  [id |-> id, channel |-> "log", formatter |-> formatter, filter |-> NULL, provider |-> NULL, events |-> <<>>]
Subscriptions == {
  NULL, <<>>,
  <<Subscription(3, 2), Subscription(1, 1), Subscription(2, 1)>>,
  <<Subscription(1, 4), Subscription(3, 1)>>,
  <<Subscription(1, 1), Subscription(1, 2)>>,
  <<Subscription(NULL, 1), Subscription(2, 1)>>,
  <<Subscription(1, NULL)>>,
  <<[Subscription(1, 1) EXCEPT !.channel = NULL]>>,
  <<[Subscription(1, 1) EXCEPT !.channel = "security"], Subscription(2, 1)>>,
  <<[Subscription(1, 1) EXCEPT !.filter = "filter"], Subscription(2, 1)>>,
  <<[Subscription(1, 1) EXCEPT !.filter = WRONG, !.provider = WRONG, !.events = <<<<7>>>>], Subscription(2, 1)>>,
  <<Subscription(1, 1), [Subscription(2, 2) EXCEPT !.channel = "unknown"], Subscription(4, 1)>>,
  <<[Subscription(3, 1) EXCEPT !.channel = "unknown"], Subscription(1, 1), Subscription(2, 1)>>,
  <<[Subscription(1, 1) EXCEPT !.channel = "unknown", !.filter = "filter"], Subscription(2, 1)>>,
  <<[Subscription(1, 1) EXCEPT !.channel = "unknown", !.events = <<<<7>>>>, !.provider = "p"], Subscription(2, 1)>>,
  <<[Subscription(1, 1) EXCEPT !.events = NULL], Subscription(2, 1)>>,
  <<[Subscription(1, 1) EXCEPT !.events = <<<<7>>, <<3, 5>>, <<TEXT>>, <<HUGE>>, <<5, 3>>>>, !.provider = "p"]>>,
  <<[Subscription(1, 1) EXCEPT !.events = <<<<HUGE>>, <<5, 3>>>>, !.provider = "p"]>>,
  <<[Subscription(1, 1) EXCEPT !.events = <<<<1, 2, 3>>>>]>> }

GoodFile ==
  [global |-> Global("agent", <<<<1>>>>), limits |-> GoodLimits,
   forwarder |-> [collector |-> "endpoint", protocol |-> NULL],
   formatters |-> <<Formatter(1, NULL, NULL, {})>>, subscriptions |-> <<Subscription(1, 1)>>]

MCFiles ==
       {[GoodFile EXCEPT !.global = g, !.formatters = f] : g \in Globals, f \in Formatters}
  \union {[GoodFile EXCEPT !.limits = l, !.formatters = f] : l \in Limits, f \in Formatters}
  \union {[GoodFile EXCEPT !.forwarder = f] : f \in Forwarders}
  \union {[GoodFile EXCEPT !.formatters = f, !.subscriptions = s] : f \in Formatters, s \in Subscriptions}
=============================================================================
