--------------------------- MODULE MCEventForwarder --------------------------
(* Instances of EventForwarder for TLC.                                    *)
EXTENDS EventForwarder

(* A length of one byte, a fragment of two, an empty fragment. *)
Frame == <<1, 3, 3>>

(* The operands of & in the code: FD_WRITE_BIT = 1, FD_CLOSE_BIT = 5. *)
WriteBitIndex == {0}
CloseBitIndex == {0, 2}

(* The masks of the events that are selected: FD_WRITE = 2, FD_CLOSE = 32. *)
WriteEvent == {1}
CloseEvent == {5}
=============================================================================
