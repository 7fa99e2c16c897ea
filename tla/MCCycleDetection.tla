--------------------------- MODULE MCCycleDetection ---------------------------
(* Three type ids, every registered subset of them, and every dependency    *)
(* list of at most two entries, repeated and unregistered ones included.    *)
EXTENDS CycleDetection

CONSTANTS a, b, c

MCNode == {a, b, c}
MCDepLists == UNION {[1 .. k -> MCNode] : k \in 0 .. 2}
=============================================================================
