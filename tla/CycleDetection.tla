---------------------------- MODULE CycleDetection ----------------------------
(***************************************************************************)
(* Container::detect_cycles (stano-di): the iterative three-colour         *)
(* depth-first search that Container::validate runs over the DECLARED      *)
(* dependencies before it resolves anything.                               *)
(*                                                                         *)
(* A TypeId is an element of Node.  The registered ones are the keys of    *)
(* `factories`; a dependency list may name a type that was never           *)
(* registered, and may name the same type twice.  The order in which the   *)
(* code walks the HashMap of roots is unspecified, so a root is picked     *)
(* nondeterministically.                                                   *)
(***************************************************************************)
EXTENDS Naturals, SequencesExt, WiringGraph

CONSTANTS
    Node,       \* the type ids that can occur
    DepLists    \* the dependency lists that a registration may declare

ASSUME DepListsAssumption == DepLists \subseteq Seq(Node)

VARIABLES
    deps,       \* self.dependencies: registered id -> declared list
    todo,       \* keys of self.factories that the `for` loop has not visited
    colors,     \* colour of every id; an id absent from the map reads White
    stack,      \* (id, child_idx) frames, the top one last
    path,       \* the ids on the current branch
    errors      \* the CyclicDependency errors pushed so far

vars == <<deps, todo, colors, stack, path, errors>>

Color == {"White", "Gray", "Black"}
Frame == [node : Node, child : Nat]

TypeOK ==
    /\ DOMAIN deps \subseteq Node
    /\ deps \in [DOMAIN deps -> DepLists]
    /\ todo \subseteq DOMAIN deps
    /\ colors \in [Node -> Color]
    /\ stack \in Seq(Frame)
    /\ path \in Seq(Node)
    /\ errors \in Seq(Seq(Node))

-----------------------------------------------------------------------------
(* self.dependencies.get(&node), or the empty slice for an unknown id *)
DepsOf(n) == IF n \in DOMAIN deps THEN deps[n] ELSE <<>>

Top == Last(stack)

(* the top frame has moved on to its next child *)
Advance(s) == [s EXCEPT ![Len(s)].child = @ + 1]

(* path.iter().position(|&x| x == dep).unwrap_or(0), counted from 1 *)
Position(dep) ==
    IF \E i \in DOMAIN path : path[i] = dep
      THEN CHOOSE i \in 1 .. Len(path) : path[i] = dep
      ELSE 1

(* mutant of CycleTo: the whole branch, lead-in included *)
CycleTo_WholePath(dep) == path

(* path[start..], the branch from dep down to the top *)
CycleTo(dep) == SubSeq(path, Position(dep), Len(path))

Init ==
    /\ \E registered \in SUBSET Node : deps \in [registered -> DepLists]
    /\ todo = DOMAIN deps
    /\ colors = [n \in Node |-> "White"]
    /\ stack = <<>>
    /\ path = <<>>
    /\ errors = <<>>

(* for &root in self.factories.keys(): already coloured, `continue` *)
SkipRoot(root) ==
    /\ stack = <<>>
    /\ colors[root] # "White"
    /\ todo' = todo \ {root}
    /\ UNCHANGED <<deps, colors, stack, path, errors>>

StartRoot(root) ==
    /\ stack = <<>>
    /\ colors[root] = "White"
    /\ todo' = todo \ {root}
    /\ stack' = <<[node |-> root, child |-> 0]>>
    /\ path' = <<root>>
    /\ colors' = [colors EXCEPT ![root] = "Gray"]
    /\ UNCHANGED <<deps, errors>>

(* *child_idx >= deps.len(): the node is finished *)
Finish ==
    /\ stack # <<>>
    /\ Top.child >= Len(DepsOf(Top.node))
    /\ colors' = [colors EXCEPT ![Top.node] = "Black"]
    /\ stack' = Front(stack)
    /\ path' = Front(path)
    /\ UNCHANGED <<deps, todo, errors>>

(* the dependency the top frame looks at next *)
HasNext == stack # <<>> /\ Top.child < Len(DepsOf(Top.node))
NextDep == DepsOf(Top.node)[Top.child + 1]

(* mutant of ReportCycle: the search stops at the first cycle *)
ReportCycle_StopAtFirst ==
    /\ HasNext
    /\ colors[NextDep] = "Gray"
    /\ errors' = Append(errors, CycleTo(NextDep))
    /\ stack' = <<>>
    /\ path' = <<>>
    /\ todo' = {}
    /\ colors' = [n \in Node |-> IF colors[n] = "Gray" THEN "Black" ELSE colors[n]]
    /\ UNCHANGED deps

(* Color::Gray: the branch from that node down to here is a cycle *)
ReportCycle ==
    /\ HasNext
    /\ colors[NextDep] = "Gray"
    /\ stack' = Advance(stack)
    /\ errors' = Append(errors, CycleTo(NextDep))
    /\ UNCHANGED <<deps, todo, colors, path>>

(* mutant of Descend: a node is marked finished when it is pushed *)
Descend_MarkBlack ==
    /\ HasNext
    /\ colors[NextDep] = "White"
    /\ colors' = [colors EXCEPT ![NextDep] = "Black"]
    /\ path' = Append(path, NextDep)
    /\ stack' = Append(Advance(stack), [node |-> NextDep, child |-> 0])
    /\ UNCHANGED <<deps, todo, errors>>

(* mutant of Descend: the dependency is queued as one more root *)
Descend_QueueRoot ==
    /\ HasNext
    /\ colors[NextDep] = "White"
    /\ colors' = [colors EXCEPT ![NextDep] = "Gray"]
    /\ path' = Append(path, NextDep)
    /\ stack' = Append(Advance(stack), [node |-> NextDep, child |-> 0])
    /\ todo' = todo \union {NextDep}
    /\ UNCHANGED <<deps, errors>>

(* Color::White: go down *)
Descend ==
    /\ HasNext
    /\ colors[NextDep] = "White"
    /\ colors' = [colors EXCEPT ![NextDep] = "Gray"]
    /\ path' = Append(path, NextDep)
    /\ stack' = Append(Advance(stack), [node |-> NextDep, child |-> 0])
    /\ UNCHANGED <<deps, todo, errors>>

(* mutant of SkipBlack: the index stays *)
SkipBlack_NoAdvance ==
    /\ HasNext
    /\ colors[NextDep] = "Black"
    /\ UNCHANGED vars

(* Color::Black: nothing but the index moves *)
SkipBlack ==
    /\ HasNext
    /\ colors[NextDep] = "Black"
    /\ stack' = Advance(stack)
    /\ UNCHANGED <<deps, todo, colors, path, errors>>

Next ==
    \/ \E root \in todo : SkipRoot(root) \/ StartRoot(root)
    \/ Finish
    \/ ReportCycle
    \/ Descend
    \/ SkipBlack

Spec == Init /\ [][Next]_vars

(* The loop is straight-line code on one thread: it keeps taking steps. *)
FairSpec == Spec /\ WF_vars(Next)

-----------------------------------------------------------------------------
(* The declared graph. *)
Edges == {e \in (DOMAIN deps) \X Node : e[2] \in Range(deps[e[1]])}

HasCycle(E) == HasCycleIn(Node, E)

(* the edge that closes a reported cycle: from its last node to its first *)
ClosingEdge(c) == <<c[Len(c)], c[1]>>
ReportedEdges == {ClosingEdge(errors[i]) : i \in DOMAIN errors}

IsCycleOf(c, E) ==
    /\ c # <<>>
    /\ \A i \in 1 .. Len(c) - 1 : <<c[i], c[i + 1]>> \in E
    /\ ClosingEdge(c) \in E

Done == todo = {} /\ stack = <<>>

(* Every error names a cycle that is really there: consecutive dependencies, *)
(* closed by an edge from the last node to the first, no node repeated.  The  *)
(* list that validate() returns is what the operator reads to fix the wiring. *)
ReportsAreCycles ==
    \A i \in DOMAIN errors :
        IsCycleOf(errors[i], Edges) /\ IsInjective(errors[i])

(* When the search returns, removing the reported closing edges leaves the    *)
(* graph acyclic: every cycle, not only the first one met, contains an edge   *)
(* that some error points at.                                                 *)
EveryCycleReported == Done => ~HasCycle(Edges \ ReportedEdges)

(* The verdict validate() acts on (errors.is_empty()): it is empty exactly    *)
(* when the declared graph has no cycle, whatever the order of the roots.     *)
Verdict == Done => (errors = <<>> <=> ~HasCycle(Edges))

(* The gray nodes are exactly the branch, in stack order: the `unwrap_or(0)`   *)
(* of the position lookup is never used and every reported cycle starts at    *)
(* the node the back edge points to.                                          *)
GrayIsPath ==
    /\ Len(stack) = Len(path)
    /\ \A i \in 1 .. Len(path) : stack[i].node = path[i]
    /\ IsInjective(path)
    /\ \A n \in Node : colors[n] = "Gray" <=> n \in Range(path)

(* A finished node is never looked at again: the search does each node once,  *)
(* which is what bounds it by the number of declared edges.                   *)
BlackIsFinal ==
    [][\A n \in Node : colors[n] = "Black" => colors'[n] = "Black"]_vars

(* detect_cycles returns, also on a cyclic graph. *)
Terminates == <>Done
=============================================================================
