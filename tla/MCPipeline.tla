------------------------------ MODULE MCPipeline ------------------------------
(* Instances of Pipeline for TLC. *)
EXTENDS Pipeline

TwoEvents == <<2>>

(* A length and one fragment, of a byte each. *)
Frame == <<1, 2>>

(* The masks of the events that are selected: FD_WRITE = 2, FD_CLOSE = 32. *)
WriteEvent == {1}
CloseEvent == {5}
=============================================================================
