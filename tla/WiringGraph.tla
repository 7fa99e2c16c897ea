------------------------------ MODULE WiringGraph ------------------------------
(***************************************************************************)
(* Cycles of a finite dependency graph, stated without paths: a graph has  *)
(* a cycle exactly when some nonempty set of nodes supports itself, each   *)
(* of its members having an edge to a member.                              *)
(***************************************************************************)

SelfSupporting(S, E) == S # {} /\ \A n \in S : \E m \in S : <<n, m>> \in E

HasCycleIn(V, E) == \E S \in SUBSET V : SelfSupporting(S, E)
=============================================================================
