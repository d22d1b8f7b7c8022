--------------------------- MODULE MCEventProcessor ---------------------------
(* Instances of EventProcessor for TLC. *)
EXTENDS EventProcessor, TLC

(* Sizes up to the limit, at it, and one beyond it. *)
LogEvents == {[values |-> v, xml |-> x, sid |-> s] :
                v \in {1, 2, 3}, x \in {1, 2, 3}, s \in Sids \union {NULL}}

Symmetric == Permutations(Sids) \union Permutations(Nodes)
=============================================================================
