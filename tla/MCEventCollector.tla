--------------------------- MODULE MCEventCollector --------------------------
(* Instances of EventCollector for TLC. *)
EXTENDS EventCollector

TwoAndNone == <<2, 0>>
=============================================================================
