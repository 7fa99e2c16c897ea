------------------------- MODULE CycleDetectionProofs -------------------------
(***************************************************************************)
(* What detect_cycles promises, for every set of types and every declared  *)
(* graph: the reported branches are cycles, and the verdict is exact.      *)
(***************************************************************************)
EXTENDS CycleDetection, SequenceLemmas

(* Frame i has looked at its first `child` dependencies. *)
FrameSeen ==
    \A i \in 1 .. Len(stack) : stack[i].child <= Len(DepsOf(stack[i].node))

(* A branch follows declared edges. *)
PathFollowsEdges ==
    \A i \in 1 .. Len(path) - 1 : <<path[i], path[i + 1]>> \in Edges

(* An edge out of a finished node leads to a finished node or was reported. *)
BlackClosed ==
    \A n, m \in Node :
        colors[n] = "Black" /\ <<n, m>> \in Edges
            => colors[m] = "Black" \/ <<n, m>> \in ReportedEdges

(* So does an edge that a frame has examined, unless it is the edge to the   *)
(* frame above it.                                                          *)
ExaminedClosed ==
    \A i \in 1 .. Len(stack) : \A k \in 1 .. stack[i].child :
        LET n == stack[i].node
            m == DepsOf(n)[k]
        IN  \/ colors[m] = "Black"
            \/ <<n, m>> \in ReportedEdges
            \/ i < Len(stack) /\ m = stack[i + 1].node

(* A registered node that the loop has passed is not White. *)
RootsColoured == \A n \in DOMAIN deps \ todo : colors[n] # "White"

BlackNodes == {n \in Node : colors[n] = "Black"}

(* No cycle of unreported edges runs through finished nodes only. *)
BlackAcyclic ==
    \A S \in SUBSET BlackNodes : ~SelfSupporting(S, Edges \ ReportedEdges)

IInv ==
    /\ TypeOK
    /\ FrameSeen
    /\ GrayIsPath
    /\ PathFollowsEdges
    /\ ReportsAreCycles
    /\ BlackClosed
    /\ ExaminedClosed
    /\ RootsColoured
    /\ BlackAcyclic
-----------------------------------------------------------------------------
(* The dependency lists and the edge relation say the same thing. *)
LEMMA DepsType ==
    ASSUME TypeOK, NEW n \in Node
    PROVE  DepsOf(n) \in Seq(Node)
BY DepListsAssumption DEF TypeOK, DepsOf

LEMMA DepIsEdge ==
    ASSUME TypeOK, NEW n \in Node, NEW k \in 1 .. Len(DepsOf(n))
    PROVE  /\ DepsOf(n)[k] \in Node
           /\ <<n, DepsOf(n)[k]>> \in Edges
<1>1. DepsOf(n) \in Seq(Node)
  BY DepsType
<1>2. DepsOf(n)[k] \in Node
  BY <1>1
<1>3. n \in DOMAIN deps /\ DepsOf(n) = deps[n]
  BY DEF DepsOf
<1>4. k \in DOMAIN deps[n]
  BY <1>1, <1>3
<1>5. deps[n][k] \in Range(deps[n])
  BY <1>4 DEF Range
<1> QED
  BY <1>2, <1>3, <1>5 DEF Edges

LEMMA EdgeIsDep ==
    ASSUME TypeOK, NEW n, NEW m, <<n, m>> \in Edges
    PROVE  /\ n \in Node /\ m \in Node
           /\ \E k \in 1 .. Len(DepsOf(n)) : DepsOf(n)[k] = m
<1>1. n \in DOMAIN deps /\ m \in Node /\ m \in Range(deps[n])
  BY DEF Edges
<1>2. n \in Node
  BY <1>1 DEF TypeOK
<1>3. PICK k \in DOMAIN deps[n] : deps[n][k] = m
  BY <1>1 DEF Range
<1>4. DepsOf(n) = deps[n] /\ deps[n] \in Seq(Node)
  BY <1>1, <1>2, DepsType DEF DepsOf
<1> QED
  BY <1>1, <1>2, <1>3, <1>4

(* Where NextDep and Top come from. *)
LEMMA TopType ==
    ASSUME TypeOK, stack # <<>>
    PROVE  /\ Len(stack) \in Nat \ {0}
           /\ Top \in Frame
           /\ Top = stack[Len(stack)]
           /\ Top.node \in Node /\ Top.child \in Nat
<1>1. stack \in Seq(Frame) /\ Len(stack) \in Nat
  BY DEF TypeOK
<1>2. Len(stack) # 0
  BY <1>1, EmptySeq
<1>3. stack[Len(stack)] \in Frame
  BY <1>1, <1>2
<1> QED
  BY <1>1, <1>2, <1>3 DEF Top, Last, Frame

LEMMA NextDepType ==
    ASSUME TypeOK, HasNext
    PROVE  /\ Top.child + 1 \in 1 .. Len(DepsOf(Top.node))
           /\ NextDep \in Node
           /\ <<Top.node, NextDep>> \in Edges
<1>1. /\ Top.node \in Node /\ Top.child \in Nat
  BY TopType DEF HasNext
<1>2. DepsOf(Top.node) \in Seq(Node)
  BY <1>1, DepsType
<1>3. Top.child + 1 \in 1 .. Len(DepsOf(Top.node))
  BY <1>1, <1>2 DEF HasNext
<1> QED
  BY <1>1, <1>3, DepIsEdge DEF NextDep

LEMMA PositionType ==
    ASSUME TypeOK, NEW dep
    PROVE  /\ Position(dep) \in Nat \ {0}
           /\ dep \in Range(path) =>
                  Position(dep) \in 1 .. Len(path) /\ path[Position(dep)] = dep
<1>1. path \in Seq(Node) /\ DOMAIN path = 1 .. Len(path) /\ Len(path) \in Nat
  BY DEF TypeOK
<1>2. CASE \E i \in DOMAIN path : path[i] = dep
  <2>1. Position(dep) \in 1 .. Len(path) /\ path[Position(dep)] = dep
    BY <1>1, <1>2 DEF Position
  <2> QED
    BY <2>1, <1>1
<1>3. CASE ~\E i \in DOMAIN path : path[i] = dep
  BY <1>3 DEF Position, Range
<1> QED
  BY <1>2, <1>3

LEMMA CycleToType ==
    ASSUME TypeOK, NEW dep
    PROVE  CycleTo(dep) \in Seq(Node)
<1>1. path \in Seq(Node) /\ Len(path) \in Nat /\ Position(dep) \in Nat \ {0}
  BY PositionType DEF TypeOK
<1>2. \A i \in Position(dep) .. Len(path) : path[i] \in Node
  BY <1>1
<1> QED
  BY <1>1, <1>2, SubSeqProperties DEF CycleTo

(* Advance changes the index of the top frame and nothing else. *)
LEMMA AdvanceProperties ==
    ASSUME TypeOK, stack # <<>>
    PROVE  /\ Advance(stack) \in Seq(Frame)
           /\ Len(Advance(stack)) = Len(stack)
           /\ \A i \in 1 .. Len(stack) :
                 /\ Advance(stack)[i].node = stack[i].node
                 /\ i < Len(stack) => Advance(stack)[i] = stack[i]
           /\ Advance(stack)[Len(stack)].child = Top.child + 1
<1>1. stack \in Seq(Frame) /\ Len(stack) \in Nat \ {0}
  BY TopType DEF TypeOK
<1>2. \A i \in 1 .. Len(stack) : stack[i] \in Frame
  BY <1>1
<1>3. Advance(stack) = [i \in 1 .. Len(stack) |->
          IF i = Len(stack) THEN [stack[i] EXCEPT !.child = @ + 1] ELSE stack[i]]
  BY <1>1 DEF Advance
<1>4. \A i \in 1 .. Len(stack) :
          [stack[i] EXCEPT !.child = @ + 1] = [node |-> stack[i].node, child |-> stack[i].child + 1]
  BY <1>2 DEF Frame
<1>5. \A i \in 1 .. Len(stack) : Advance(stack)[i] \in Frame
  BY <1>2, <1>3, <1>4 DEF Frame
<1> QED
  BY <1>1, <1>2, <1>3, <1>4, <1>5 DEF Top, Last

-----------------------------------------------------------------------------
LEMMA TypeInit == Init => TypeOK
<1> SUFFICES ASSUME Init PROVE TypeOK
  OBVIOUS
<1>1. PICK registered \in SUBSET Node : deps \in [registered -> DepLists]
  BY DEF Init
<1>2. DOMAIN deps = registered
  BY <1>1
<1> QED
  BY <1>1, <1>2 DEF Init, TypeOK, Color

LEMMA TypeStep == TypeOK /\ [Next]_vars => TypeOK'
<1> SUFFICES ASSUME TypeOK, [Next]_vars PROVE TypeOK'
  OBVIOUS
<1>1. ASSUME NEW root \in todo, SkipRoot(root) PROVE TypeOK'
  BY <1>1 DEF TypeOK, SkipRoot
<1>2. ASSUME NEW root \in todo, StartRoot(root) PROVE TypeOK'
  <2>1. root \in Node
    BY <1>2 DEF TypeOK
  <2>2. [node |-> root, child |-> 0] \in Frame
    BY <2>1 DEF Frame
  <2>3. stack' \in Seq(Frame) /\ path' \in Seq(Node)
    BY <1>2, <2>1, <2>2 DEF StartRoot
  <2>4. colors' \in [Node -> Color]
    BY <1>2, <2>1 DEF StartRoot, TypeOK, Color
  <2> QED
    BY <1>2, <2>3, <2>4 DEF TypeOK, StartRoot
<1>3. CASE Finish
  <2>1. Top.node \in Node
    BY <1>3, TopType DEF Finish
  <2>2. stack' \in Seq(Frame)
    BY <1>3, PopProperties DEF Finish, TypeOK
  <2>3. path' \in Seq(Node)
    BY <1>3, FrontType DEF Finish, TypeOK
  <2>4. colors' \in [Node -> Color]
    BY <1>3, <2>1 DEF Finish, TypeOK, Color
  <2> QED
    BY <1>3, <2>2, <2>3, <2>4 DEF TypeOK, Finish
<1>4. CASE ReportCycle
  <2>1. stack # <<>>
    BY <1>4 DEF ReportCycle, HasNext
  <2>2. stack' \in Seq(Frame)
    BY <1>4, <2>1, AdvanceProperties DEF ReportCycle
  <2>3. errors' \in Seq(Seq(Node))
    BY <1>4, CycleToType, AppendProperties DEF ReportCycle, TypeOK
  <2> QED
    BY <1>4, <2>2, <2>3 DEF TypeOK, ReportCycle
<1>5. CASE Descend
  <2>1. stack # <<>> /\ NextDep \in Node
    BY <1>5, NextDepType DEF Descend, HasNext
  <2>2. [node |-> NextDep, child |-> 0] \in Frame
    BY <2>1 DEF Frame
  <2>3. stack' \in Seq(Frame)
    BY <1>5, <2>1, <2>2, AdvanceProperties, AppendProperties DEF Descend
  <2>4. path' \in Seq(Node)
    BY <1>5, <2>1, AppendProperties DEF Descend, TypeOK
  <2>5. colors' \in [Node -> Color]
    BY <1>5, <2>1 DEF Descend, TypeOK, Color
  <2> QED
    BY <1>5, <2>3, <2>4, <2>5 DEF TypeOK, Descend
<1>6. CASE SkipBlack
  <2>1. stack' \in Seq(Frame)
    BY <1>6, AdvanceProperties DEF SkipBlack, HasNext
  <2> QED
    BY <1>6, <2>1 DEF TypeOK, SkipBlack
<1>7. CASE UNCHANGED vars
  BY <1>7 DEF TypeOK, vars
<1> QED
  BY <1>1, <1>2, <1>3, <1>4, <1>5, <1>6, <1>7 DEF Next

(* Every variable keeps its type: in particular no error is built from an    *)
(* index outside the path, and no colour or frame names an unknown id.       *)
THEOREM TypeCorrect == Spec => []TypeOK
<1>1. Init => TypeOK
  BY TypeInit
<1>2. TypeOK /\ [Next]_vars => TypeOK'
  BY TypeStep
<1> QED
  BY <1>1, <1>2, PTL DEF Spec

-----------------------------------------------------------------------------
(* The declared graph never changes. *)
LEMMA GraphUnchanged ==
    ASSUME deps' = deps
    PROVE  /\ Edges' = Edges
           /\ \A n : DepsOf(n)' = DepsOf(n)
BY DEF Edges, DepsOf

LEMMA Frames ==
    ASSUME TypeOK, GrayIsPath
    PROVE  /\ Len(stack) \in Nat /\ Len(path) = Len(stack)
           /\ DOMAIN path = 1 .. Len(stack)
           /\ \A i \in 1 .. Len(stack) :
                 /\ stack[i] \in Frame
                 /\ stack[i].node \in Node /\ stack[i].child \in Nat
                 /\ path[i] = stack[i].node
                 /\ colors[path[i]] = "Gray"
<1>1. /\ stack \in Seq(Frame) /\ path \in Seq(Node)
      /\ Len(stack) \in Nat /\ Len(path) = Len(stack)
  BY DEF TypeOK, GrayIsPath
<1>2. \A i \in 1 .. Len(stack) : stack[i] \in Frame /\ path[i] \in Node
  BY <1>1
<1>3. \A i \in 1 .. Len(stack) : path[i] \in Range(path)
  BY <1>1 DEF Range
<1> QED
  BY <1>1, <1>2, <1>3 DEF GrayIsPath, Frame

LEMMA GrayIsPathStep ==
    ASSUME TypeOK, GrayIsPath, [Next]_vars
    PROVE  GrayIsPath'
<1> USE Frames
<1>1. path \in Seq(Node) /\ stack \in Seq(Frame) /\ Len(stack) = Len(path)
  BY DEF TypeOK, GrayIsPath
<1>2. ASSUME NEW root \in todo, SkipRoot(root) PROVE GrayIsPath'
  BY <1>2 DEF SkipRoot, GrayIsPath
<1>3. ASSUME NEW root \in todo, StartRoot(root) PROVE GrayIsPath'
  <2>1. Len(path) = 0
    BY <1>1, <1>3 DEF StartRoot
  <2>2. \A n \in Node : colors[n] # "Gray"
    BY <2>1, <1>1 DEF GrayIsPath, Range
  <2>3. path' = <<root>> /\ stack' = <<[node |-> root, child |-> 0]>>
    BY <1>3 DEF StartRoot
  <2>4. Range(path') = {root} /\ IsInjective(path')
    BY <2>3 DEF Range, IsInjective
  <2>5. root \in Node
    BY DEF TypeOK
  <2>6. \A n \in Node : colors'[n] = "Gray" <=> n \in Range(path')
    BY <1>3, <2>2, <2>4, <2>5 DEF StartRoot, TypeOK
  <2> QED
    BY <2>3, <2>4, <2>6 DEF GrayIsPath
<1>4. CASE Finish
  <2>1. stack # <<>> /\ path # <<>>
    BY <1>1, <1>4, EmptySeq DEF Finish
  <2>2. Top.node = path[Len(path)] /\ Top.node \in Node
    BY <1>1, <2>1, TopType DEF GrayIsPath
  <2>3. PICK n \in Nat : Len(path) = n + 1
    BY <1>1, <2>1, LengthIsSuccessor
  <2>4. /\ Len(stack') = n /\ Len(path') = n
        /\ \A i \in 1 .. n : stack'[i] = stack[i] /\ path'[i] = path[i]
    <3>1. n = Len(path) - 1 /\ n = Len(stack) - 1
      BY <1>1, <2>3
    <3>2. Len(stack') = n /\ \A i \in 1 .. n : stack'[i] = stack[i]
      BY <1>1, <1>4, <2>1, <3>1, PopProperties DEF Finish
    <3>3. Len(path') = n /\ \A i \in 1 .. n : path'[i] = path[i]
      BY <1>1, <1>4, <2>1, <3>1, PopProperties DEF Finish
    <3> QED
      BY <3>2, <3>3
  <2>5. Range(path') = Range(path) \ {Top.node} /\ IsInjective(path')
    BY <1>1, <1>4, <2>1, <2>2, PopRange DEF Finish, GrayIsPath
  <2>6. \A m \in Node : colors'[m] = "Gray" <=> m \in Range(path')
    BY <1>4, <2>2, <2>5 DEF Finish, GrayIsPath, TypeOK
  <2>7. \A i \in 1 .. Len(path') : stack'[i].node = path'[i]
    BY <2>3, <2>4 DEF GrayIsPath
  <2> QED
    BY <2>4, <2>5, <2>6, <2>7 DEF GrayIsPath
<1>5. CASE ReportCycle \/ SkipBlack
  <2>1. stack # <<>> /\ stack' = Advance(stack) /\ UNCHANGED <<path, colors>>
    BY <1>5 DEF ReportCycle, SkipBlack, HasNext
  <2>2. /\ Len(stack') = Len(stack)
        /\ \A i \in 1 .. Len(stack) : stack'[i].node = stack[i].node
    BY <2>1, AdvanceProperties
  <2> QED
    BY <1>1, <2>1, <2>2 DEF GrayIsPath
<1>6. CASE Descend
  <2> DEFINE top == [node |-> NextDep, child |-> 0]
  <2>1. /\ stack # <<>> /\ NextDep \in Node /\ top \in Frame
    BY <1>6, NextDepType DEF Descend, HasNext, Frame
  <2>2. NextDep \notin Range(path)
    BY <1>6, <2>1 DEF Descend, GrayIsPath
  <2>3. Range(path') = Range(path) \union {NextDep} /\ IsInjective(path')
    BY <1>1, <1>6, <2>1, <2>2, AppendRange DEF Descend, GrayIsPath
  <2>4. /\ Len(stack') = Len(path) + 1 /\ Len(path') = Len(path) + 1
        /\ \A i \in 1 .. Len(path) : stack'[i].node = stack[i].node /\ path'[i] = path[i]
        /\ stack'[Len(path) + 1].node = NextDep /\ path'[Len(path) + 1] = NextDep
    <3>1. /\ Advance(stack) \in Seq(Frame) /\ Len(Advance(stack)) = Len(path)
          /\ \A i \in 1 .. Len(path) : Advance(stack)[i].node = stack[i].node
      BY <1>1, <2>1, AdvanceProperties
    <3>2. /\ Len(stack') = Len(path) + 1
          /\ \A i \in 1 .. Len(path) : stack'[i] = Advance(stack)[i]
          /\ stack'[Len(path) + 1] = top
      BY <1>6, <2>1, <3>1, AppendProperties DEF Descend
    <3>3. /\ Len(path') = Len(path) + 1
          /\ \A i \in 1 .. Len(path) : path'[i] = path[i]
          /\ path'[Len(path) + 1] = NextDep
      BY <1>1, <1>6, <2>1, AppendProperties DEF Descend
    <3> QED
      BY <3>1, <3>2, <3>3
  <2>5. \A i \in 1 .. Len(path') : stack'[i].node = path'[i]
    BY <1>1, <2>4 DEF GrayIsPath
  <2>6. \A m \in Node : colors'[m] = "Gray" <=> m \in Range(path')
    BY <1>6, <2>1, <2>3 DEF Descend, GrayIsPath, TypeOK
  <2> QED
    BY <2>3, <2>4, <2>5, <2>6 DEF GrayIsPath
<1>7. CASE UNCHANGED vars
  BY <1>7 DEF GrayIsPath, vars
<1> QED
  BY <1>2, <1>3, <1>4, <1>5, <1>6, <1>7 DEF Next

-----------------------------------------------------------------------------
(* The shape of the stack and the path around a step: n frames lie below the *)
(* top one.                                                                 *)
LEMMA TopShape ==
    ASSUME TypeOK, GrayIsPath, stack # <<>>
    PROVE  \E n \in Nat :
              /\ Len(stack) = n + 1 /\ Len(path) = n + 1
              /\ Top = stack[n + 1] /\ Top.node = path[n + 1]
              /\ Top.node \in Node /\ Top.child \in Nat
<1>1. /\ stack \in Seq(Frame) /\ path \in Seq(Node) /\ Len(path) = Len(stack)
  BY DEF TypeOK, GrayIsPath
<1>2. PICK n \in Nat : Len(stack) = n + 1
  BY <1>1, LengthIsSuccessor
<1>3. Top = stack[n + 1] /\ Top.node = path[n + 1]
  BY <1>1, <1>2, TopType DEF GrayIsPath
<1> QED
  BY <1>1, <1>2, <1>3, TopType

LEMMA FinishShape ==
    ASSUME TypeOK, GrayIsPath, Finish,
           NEW n \in Nat, Len(stack) = n + 1
    PROVE  /\ Len(stack') = n /\ Len(path') = n
           /\ \A i \in 1 .. n : stack'[i] = stack[i] /\ path'[i] = path[i]
<1>1. /\ stack \in Seq(Frame) /\ path \in Seq(Node) /\ Len(path) = n + 1
  BY DEF TypeOK, GrayIsPath
<1>2. stack # <<>> /\ path # <<>> /\ n = Len(stack) - 1 /\ n = Len(path) - 1
  BY <1>1, EmptySeq DEF Finish
<1>3. Len(stack') = n /\ \A i \in 1 .. n : stack'[i] = stack[i]
  BY <1>1, <1>2, PopProperties DEF Finish
<1>4. Len(path') = n /\ \A i \in 1 .. n : path'[i] = path[i]
  BY <1>1, <1>2, PopProperties DEF Finish
<1> QED
  BY <1>3, <1>4

LEMMA AdvanceShape ==
    ASSUME TypeOK, GrayIsPath, stack # <<>>, stack' = Advance(stack),
           NEW n \in Nat, Len(stack) = n + 1
    PROVE  /\ Len(stack') = n + 1
           /\ \A i \in 1 .. n : stack'[i] = stack[i]
           /\ stack'[n + 1].node = Top.node
           /\ stack'[n + 1].child = Top.child + 1
<1>1. /\ \A i \in 1 .. n : i \in 1 .. Len(stack) /\ i < Len(stack)
      /\ n + 1 \in 1 .. Len(stack)
  OBVIOUS
<1>2. Top = stack[n + 1]
  BY TopType
<1> QED
  BY <1>1, <1>2, AdvanceProperties

LEMMA DescendShape ==
    ASSUME TypeOK, GrayIsPath, Descend,
           NEW n \in Nat, Len(stack) = n + 1
    PROVE  /\ Len(stack') = n + 2 /\ Len(path') = n + 2
           /\ \A i \in 1 .. n : stack'[i] = stack[i]
           /\ stack'[n + 1].node = Top.node
           /\ stack'[n + 1].child = Top.child + 1
           /\ stack'[n + 2].node = NextDep /\ stack'[n + 2].child = 0
           /\ \A i \in 1 .. n + 1 : path'[i] = path[i]
           /\ path'[n + 2] = NextDep
<1> DEFINE top == [node |-> NextDep, child |-> 0]
           adv == Advance(stack)
<1>1. /\ stack # <<>> /\ NextDep \in Node /\ top \in Frame
  BY NextDepType DEF Descend, HasNext, Frame
<1>2. /\ path \in Seq(Node) /\ Len(path) = n + 1
  BY DEF TypeOK, GrayIsPath
<1>3. Top = stack[n + 1]
  BY <1>1, TopType
<1>4. /\ adv \in Seq(Frame) /\ Len(adv) = n + 1
      /\ \A i \in 1 .. n : adv[i] = stack[i]
      /\ adv[n + 1].node = Top.node /\ adv[n + 1].child = Top.child + 1
  BY <1>1, <1>3, AdvanceProperties
<1>5. stack' = Append(adv, top) /\ path' = Append(path, NextDep)
  BY DEF Descend
<1>6. /\ Len(stack') = n + 1 + 1
      /\ \A i \in 1 .. n + 1 : stack'[i] = adv[i]
      /\ stack'[n + 1 + 1] = top
  BY <1>1, <1>4, <1>5, AppendProperties
<1>7. /\ Len(path') = n + 1 + 1
      /\ \A i \in 1 .. n + 1 : path'[i] = path[i]
      /\ path'[n + 1 + 1] = NextDep
  BY <1>1, <1>2, <1>5, AppendProperties
<1>8. n + 1 + 1 = n + 2 /\ n + 1 \in 1 .. n + 1 /\ \A i \in 1 .. n : i \in 1 .. n + 1
  OBVIOUS
<1> QED
  BY <1>4, <1>6, <1>7, <1>8

-----------------------------------------------------------------------------
LEMMA FrameSeenStep ==
    ASSUME TypeOK, GrayIsPath, FrameSeen, [Next]_vars
    PROVE  FrameSeen'
<1>1. deps' = deps
  BY DEF Next, vars, SkipRoot, StartRoot, Finish, ReportCycle, Descend, SkipBlack
<1>2. \A m : DepsOf(m)' = DepsOf(m)
  BY <1>1, GraphUnchanged
<1>3. \A m \in Node : Len(DepsOf(m)) \in Nat
  BY DepsType
<1> SUFFICES ASSUME NEW i \in 1 .. Len(stack')
             PROVE  stack'[i].child <= Len(DepsOf(stack'[i].node))
  BY <1>1 DEF FrameSeen, DepsOf
<1>4. ASSUME NEW root \in todo, StartRoot(root)
      PROVE  stack'[i].child <= Len(DepsOf(stack'[i].node))
  <2>1. stack'[i] = [node |-> root, child |-> 0] /\ root \in Node
    BY <1>4 DEF StartRoot, TypeOK
  <2> QED
    BY <1>3, <2>1
<1>5. CASE Finish
  <2>1. PICK n \in Nat : Len(stack) = n + 1
    BY <1>5, TopShape DEF Finish
  <2>2. Len(stack') = n /\ \A k \in 1 .. n : stack'[k] = stack[k]
    BY <1>5, <2>1, FinishShape
  <2>3. stack'[i] = stack[i] /\ i \in 1 .. Len(stack)
    BY <2>1, <2>2
  <2> QED
    BY <2>3 DEF FrameSeen
<1>6. CASE ReportCycle \/ SkipBlack
  <2>1. HasNext /\ stack # <<>> /\ stack' = Advance(stack)
    BY <1>6 DEF ReportCycle, SkipBlack, HasNext
  <2>2. PICK n \in Nat : Len(stack) = n + 1
    BY <2>1, TopShape
  <2>3. CASE i \in 1 .. n
    BY <2>1, <2>2, <2>3, AdvanceShape DEF FrameSeen
  <2>4. CASE i = n + 1
    BY <2>1, <2>2, <2>4, AdvanceShape, NextDepType
  <2> QED
    BY <2>1, <2>2, <2>3, <2>4, AdvanceShape
<1>7. CASE Descend
  <2>1. HasNext /\ stack # <<>>
    BY <1>7 DEF Descend, HasNext
  <2>2. PICK n \in Nat : Len(stack) = n + 1
    BY <2>1, TopShape
  <2>3. CASE i \in 1 .. n
    BY <1>7, <2>2, <2>3, DescendShape DEF FrameSeen
  <2>4. CASE i = n + 1
    BY <1>7, <2>1, <2>2, <2>4, DescendShape, NextDepType
  <2>5. CASE i = n + 2
    BY <1>7, <1>3, <2>1, <2>2, <2>5, DescendShape, NextDepType
  <2> QED
    BY <1>7, <2>2, <2>3, <2>4, <2>5, DescendShape
<1>8. ASSUME NEW root \in todo, SkipRoot(root)
      PROVE  stack'[i].child <= Len(DepsOf(stack'[i].node))
  BY <1>8 DEF SkipRoot, FrameSeen
<1>9. CASE UNCHANGED vars
  BY <1>9 DEF FrameSeen, vars
<1> QED
  BY <1>4, <1>5, <1>6, <1>7, <1>8, <1>9 DEF Next

LEMMA PathFollowsEdgesStep ==
    ASSUME TypeOK, GrayIsPath, PathFollowsEdges, [Next]_vars
    PROVE  PathFollowsEdges'
<1>1. deps' = deps
  BY DEF Next, vars, SkipRoot, StartRoot, Finish, ReportCycle, Descend, SkipBlack
<1>2. Edges' = Edges
  BY <1>1, GraphUnchanged
<1>3. CASE path' = path
  BY <1>2, <1>3 DEF PathFollowsEdges
<1>4. ASSUME NEW root \in todo, StartRoot(root) PROVE PathFollowsEdges'
  <2>1. Len(path') = 1
    BY <1>4 DEF StartRoot
  <2> QED
    BY <2>1 DEF PathFollowsEdges
<1>5. CASE Finish
  <2>1. PICK n \in Nat : Len(stack) = n + 1 /\ Len(path) = n + 1
    BY <1>5, TopShape DEF Finish
  <2>2. Len(path') = n /\ \A i \in 1 .. n : path'[i] = path[i]
    BY <1>5, <2>1, FinishShape
  <2> QED
    BY <1>2, <2>1, <2>2 DEF PathFollowsEdges
<1>6. CASE Descend
  <2>1. HasNext /\ stack # <<>>
    BY <1>6 DEF Descend, HasNext
  <2>2. PICK n \in Nat : Len(stack) = n + 1 /\ Len(path) = n + 1 /\ Top.node = path[n + 1]
    BY <2>1, TopShape
  <2>3. /\ Len(path') = n + 2 /\ path'[n + 2] = NextDep
        /\ \A i \in 1 .. n + 1 : path'[i] = path[i]
    BY <1>6, <2>2, DescendShape
  <2>4. <<path[n + 1], NextDep>> \in Edges
    BY <2>1, <2>2, NextDepType
  <2>5. ASSUME NEW i \in 1 .. n + 1
        PROVE  <<path'[i], path'[i + 1]>> \in Edges
    <3>1. CASE i = n + 1
      BY <2>3, <2>4, <3>1
    <3>2. CASE i \in 1 .. n
      BY <2>2, <2>3, <3>2 DEF PathFollowsEdges
    <3> QED
      BY <3>1, <3>2
  <2> QED
    BY <1>2, <2>3, <2>5 DEF PathFollowsEdges
<1> QED
  BY <1>3, <1>4, <1>5, <1>6 DEF Next, vars, SkipRoot, ReportCycle, SkipBlack

-----------------------------------------------------------------------------
(* The branch that a Gray dependency closes is a cycle whose closing edge is *)
(* the one just examined.                                                   *)
LEMMA ClosedBranch ==
    ASSUME TypeOK, GrayIsPath, PathFollowsEdges, HasNext, colors[NextDep] = "Gray"
    PROVE  /\ IsCycleOf(CycleTo(NextDep), Edges) /\ IsInjective(CycleTo(NextDep))
           /\ ClosingEdge(CycleTo(NextDep)) = <<Top.node, NextDep>>
<1> DEFINE d == NextDep
           p == Position(d)
           c == CycleTo(d)
<1>1. stack # <<>> /\ d \in Node /\ <<Top.node, d>> \in Edges
  BY NextDepType DEF HasNext
<1>2. PICK n \in Nat : Len(path) = n + 1 /\ Top.node = path[n + 1]
  BY <1>1, TopShape
<1>3. d \in Range(path)
  BY <1>1 DEF GrayIsPath
<1>4. p \in 1 .. n + 1 /\ path[p] = d
  BY <1>2, <1>3, PositionType
<1>5. path \in Seq(Node) /\ DOMAIN path = 1 .. n + 1
  BY <1>2 DEF TypeOK
<1>6. PICK k \in Nat : p + k = n + 1
  <2>1. n + 1 - p \in Nat /\ p + (n + 1 - p) = n + 1
    BY <1>4
  <2> QED
    BY <2>1
<1>7. /\ c \in Seq(Node) /\ Len(c) = k + 1
      /\ \A i \in 1 .. k + 1 : c[i] = path[p + i - 1]
  <2>1. p \in Int /\ n + 1 \in Int /\ \A i \in p .. n + 1 : path[i] \in Node
    BY <1>4, <1>5
  <2>2. /\ SubSeq(path, p, n + 1) \in Seq(Node)
        /\ Len(SubSeq(path, p, n + 1)) = IF p <= n + 1 THEN (n + 1) - p + 1 ELSE 0
        /\ \A i \in 1 .. (n + 1) - p + 1 : SubSeq(path, p, n + 1)[i] = path[p + i - 1]
    BY <2>1, SubSeqProperties
  <2>3. p <= n + 1 /\ (n + 1) - p + 1 = k + 1
    BY <1>4, <1>6
  <2> QED
    BY <1>2, <2>2, <2>3 DEF CycleTo
<1>8. c[1] = d /\ c[k + 1] = Top.node
  <2>1. 1 \in 1 .. k + 1 /\ p + 1 - 1 = p /\ k + 1 \in 1 .. k + 1 /\ p + (k + 1) - 1 = n + 1
    BY <1>4, <1>6
  <2> QED
    BY <1>2, <1>4, <1>7, <2>1
<1>9. ClosingEdge(c) = <<Top.node, d>>
  BY <1>7, <1>8 DEF ClosingEdge
<1>10. ASSUME NEW i \in 1 .. k
       PROVE  <<c[i], c[i + 1]>> \in Edges
  <2>1. i \in 1 .. k + 1 /\ i + 1 \in 1 .. k + 1
    OBVIOUS
  <2>2. p + i - 1 \in 1 .. n /\ p + (i + 1) - 1 = (p + i - 1) + 1
    BY <1>4, <1>6
  <2>3. c[i] = path[p + i - 1] /\ c[i + 1] = path[(p + i - 1) + 1]
    BY <1>7, <2>1, <2>2
  <2>4. n = Len(path) - 1
    BY <1>2
  <2>5. <<path[p + i - 1], path[(p + i - 1) + 1]>> \in Edges
    BY <2>2, <2>4 DEF PathFollowsEdges
  <2> QED
    BY <2>3, <2>5
<1>11. IsInjective(c)
  <2>1. DOMAIN c = 1 .. k + 1
    BY <1>7
  <2>2. ASSUME NEW i \in 1 .. k + 1, NEW j \in 1 .. k + 1, c[i] = c[j]
        PROVE  i = j
    <3>1. p + i - 1 \in 1 .. n + 1 /\ p + j - 1 \in 1 .. n + 1
      BY <1>4, <1>6
    <3>2. path[p + i - 1] = path[p + j - 1]
      BY <1>7, <2>2
    <3>3. p + i - 1 = p + j - 1
      BY <1>5, <3>1, <3>2 DEF GrayIsPath, IsInjective
    <3> QED
      BY <1>4, <3>3
  <2> QED
    BY <2>1, <2>2 DEF IsInjective
<1>12. c # <<>> /\ k = Len(c) - 1
  BY <1>7
<1> QED
  BY <1>1, <1>9, <1>10, <1>11, <1>12 DEF IsCycleOf

LEMMA ReportedGrows ==
    ASSUME TypeOK, GrayIsPath, PathFollowsEdges, ReportCycle
    PROVE  ReportedEdges' = ReportedEdges \union {<<Top.node, NextDep>>}
<1> DEFINE c == CycleTo(NextDep)
<1>1. HasNext /\ colors[NextDep] = "Gray" /\ errors' = Append(errors, c)
  BY DEF ReportCycle
<1>2. errors \in Seq(Seq(Node)) /\ c \in Seq(Node)
  BY CycleToType DEF TypeOK
<1>3. /\ Len(errors) \in Nat /\ DOMAIN errors = 1 .. Len(errors)
      /\ DOMAIN errors' = 1 .. Len(errors) + 1
      /\ \A i \in 1 .. Len(errors) : errors'[i] = errors[i]
      /\ errors'[Len(errors) + 1] = c
  BY <1>1, <1>2, AppendProperties
<1>4. DOMAIN errors' = (DOMAIN errors) \union {Len(errors) + 1}
  BY <1>3
<1>5. ReportedEdges' = {ClosingEdge(errors'[i]) : i \in DOMAIN errors'}
  BY DEF ReportedEdges, ClosingEdge
<1>6. ReportedEdges' = ReportedEdges \union {ClosingEdge(c)}
  BY <1>3, <1>4, <1>5 DEF ReportedEdges
<1> QED
  BY <1>1, <1>6, ClosedBranch

LEMMA ReportsAreCyclesStep ==
    ASSUME TypeOK, GrayIsPath, PathFollowsEdges, ReportsAreCycles, [Next]_vars
    PROVE  ReportsAreCycles'
<1>1. deps' = deps
  BY DEF Next, vars, SkipRoot, StartRoot, Finish, ReportCycle, Descend, SkipBlack
<1>2. Edges' = Edges
  BY <1>1, GraphUnchanged
<1>3. CASE errors' = errors
  BY <1>2, <1>3 DEF ReportsAreCycles, IsCycleOf, ClosingEdge
<1>4. CASE ReportCycle
  <2> DEFINE c == CycleTo(NextDep)
  <2>1. IsCycleOf(c, Edges) /\ IsInjective(c) /\ errors' = Append(errors, c)
    BY <1>4, ClosedBranch DEF ReportCycle
  <2>2. errors \in Seq(Seq(Node)) /\ c \in Seq(Node)
    BY CycleToType DEF TypeOK
  <2>3. /\ DOMAIN errors = 1 .. Len(errors) /\ Len(errors) \in Nat
        /\ DOMAIN errors' = 1 .. Len(errors) + 1
        /\ \A i \in 1 .. Len(errors) : errors'[i] = errors[i]
        /\ errors'[Len(errors) + 1] = c
    BY <2>1, <2>2, AppendProperties
  <2>4. ASSUME NEW i \in DOMAIN errors'
        PROVE  IsCycleOf(errors'[i], Edges) /\ IsInjective(errors'[i])
    <3>1. CASE i = Len(errors) + 1
      BY <2>1, <2>3, <3>1
    <3>2. CASE i \in DOMAIN errors
      BY <2>3, <3>2 DEF ReportsAreCycles
    <3> QED
      BY <2>3, <3>1, <3>2
  <2> QED
    BY <1>2, <2>4 DEF ReportsAreCycles, IsCycleOf, ClosingEdge
<1> QED
  BY <1>3, <1>4 DEF Next, vars, SkipRoot, StartRoot, Finish, Descend, SkipBlack

-----------------------------------------------------------------------------
LEMMA RootsColouredStep ==
    ASSUME TypeOK, RootsColoured, [Next]_vars
    PROVE  RootsColoured'
<1>1. deps' = deps /\ DOMAIN deps \subseteq Node
  BY DEF Next, vars, SkipRoot, StartRoot, Finish, ReportCycle, Descend, SkipBlack, TypeOK
<1> SUFFICES ASSUME NEW n \in DOMAIN deps \ todo'
             PROVE  colors'[n] # "White"
  BY <1>1 DEF RootsColoured
<1>2. n \in Node
  BY <1>1
<1>3. ASSUME NEW root \in todo, SkipRoot(root) PROVE colors'[n] # "White"
  BY <1>3 DEF SkipRoot, RootsColoured
<1>4. ASSUME NEW root \in todo, StartRoot(root) PROVE colors'[n] # "White"
  BY <1>2, <1>4 DEF StartRoot, RootsColoured, TypeOK
<1>5. CASE Finish
  BY <1>2, <1>5 DEF Finish, RootsColoured, TypeOK
<1>6. CASE ReportCycle
  BY <1>6 DEF ReportCycle, RootsColoured
<1>7. CASE Descend
  BY <1>2, <1>7 DEF Descend, RootsColoured, TypeOK
<1>8. CASE SkipBlack
  BY <1>8 DEF SkipBlack, RootsColoured
<1>9. CASE UNCHANGED vars
  BY <1>9 DEF vars, RootsColoured
<1> QED
  BY <1>3, <1>4, <1>5, <1>6, <1>7, <1>8, <1>9 DEF Next

(* What a step may do to the finished nodes and the reported edges. *)
LEMMA BlackStep ==
    ASSUME TypeOK, GrayIsPath, PathFollowsEdges, [Next]_vars
    PROVE  /\ Edges' = Edges /\ ReportedEdges \subseteq ReportedEdges'
           /\ \A n \in Node : colors[n] = "Black" => colors'[n] = "Black"
           /\ ~Finish => \A n \in Node : colors'[n] = "Black" => colors[n] = "Black"
           /\ Finish => \A n \in Node : colors'[n] = "Black" =>
                             colors[n] = "Black" \/ n = Top.node
<1>1. deps' = deps
  BY DEF Next, vars, SkipRoot, StartRoot, Finish, ReportCycle, Descend, SkipBlack
<1>2. Edges' = Edges
  BY <1>1, GraphUnchanged
<1>3. ReportedEdges \subseteq ReportedEdges'
  <2>1. CASE ReportCycle
    BY <2>1, ReportedGrows
  <2>2. CASE errors' = errors
    BY <2>2 DEF ReportedEdges, ClosingEdge
  <2> QED
    BY <2>1, <2>2 DEF Next, vars, SkipRoot, StartRoot, Finish, Descend, SkipBlack
<1>4. ASSUME NEW root \in todo, StartRoot(root), NEW n \in Node
      PROVE  colors[n] = "Black" <=> colors'[n] = "Black"
  BY <1>4 DEF StartRoot, TypeOK
<1>5. ASSUME Descend, NEW n \in Node
      PROVE  colors[n] = "Black" <=> colors'[n] = "Black"
  BY <1>5 DEF Descend, TypeOK
<1>6. ASSUME colors' = colors, NEW n \in Node
      PROVE  colors[n] = "Black" <=> colors'[n] = "Black"
  BY <1>6
<1>7. ASSUME Finish, NEW n \in Node
      PROVE  colors'[n] = "Black" <=> colors[n] = "Black" \/ n = Top.node
  BY <1>7 DEF Finish, TypeOK
<1> QED
  BY <1>2, <1>3, <1>4, <1>5, <1>6, <1>7
     DEF Next, vars, SkipRoot, ReportCycle, SkipBlack

(* Every edge out of the node that Finish closes leads to a finished node or *)
(* was reported.                                                            *)
LEMMA FinishedNode ==
    ASSUME TypeOK, GrayIsPath, ExaminedClosed, Finish,
           NEW m, <<Top.node, m>> \in Edges
    PROVE  colors[m] = "Black" \/ <<Top.node, m>> \in ReportedEdges
<1>1. PICK n \in Nat : Len(stack) = n + 1 /\ Top = stack[n + 1] /\ Top.child \in Nat
  BY TopShape DEF Finish
<1>2. PICK k \in 1 .. Len(DepsOf(Top.node)) : DepsOf(Top.node)[k] = m
  BY EdgeIsDep
<1>3. DepsOf(Top.node) \in Seq(Node)
  BY EdgeIsDep, DepsType
<1>4. k \in 1 .. Top.child
  BY <1>1, <1>2, <1>3 DEF Finish
<1>5. n + 1 \in 1 .. Len(stack) /\ ~(n + 1 < Len(stack))
  BY <1>1
<1> QED
  BY <1>1, <1>2, <1>4, <1>5 DEF ExaminedClosed

LEMMA BlackClosedStep ==
    ASSUME TypeOK, GrayIsPath, PathFollowsEdges, BlackClosed, ExaminedClosed, [Next]_vars
    PROVE  BlackClosed'
<1> SUFFICES ASSUME NEW n \in Node, NEW m \in Node,
                    colors'[n] = "Black", <<n, m>> \in Edges
             PROVE  colors'[m] = "Black" \/ <<n, m>> \in ReportedEdges'
  BY BlackStep DEF BlackClosed
<1>1. CASE colors[n] = "Black"
  BY <1>1, BlackStep DEF BlackClosed
<1>2. CASE Finish /\ n = Top.node
  BY <1>2, FinishedNode, BlackStep
<1> QED
  BY <1>1, <1>2, BlackStep

LEMMA BlackAcyclicStep ==
    ASSUME TypeOK, GrayIsPath, PathFollowsEdges, BlackClosed, ExaminedClosed,
           BlackAcyclic, [Next]_vars
    PROVE  BlackAcyclic'
<1> DEFINE E == Edges \ ReportedEdges
<1> SUFFICES ASSUME NEW S \in SUBSET Node, S # {},
                    \A n \in S : colors'[n] = "Black",
                    \A n \in S : \E m \in S : <<n, m>> \in E
             PROVE  FALSE
  BY BlackStep DEF BlackAcyclic, BlackNodes, SelfSupporting
<1>1. CASE \A n \in S : colors[n] = "Black"
  BY <1>1 DEF BlackAcyclic, BlackNodes, SelfSupporting
<1>2. CASE Finish /\ Top.node \in S /\ \A n \in S \ {Top.node} : colors[n] = "Black"
  <2> DEFINE R == S \ {Top.node}
  <2>1. colors[Top.node] = "Gray"
    <3>1. PICK n \in Nat : Len(stack) = n + 1 /\ Top = stack[n + 1] /\ Top.node = path[n + 1]
      BY <1>2, TopShape DEF Finish
    <3> QED
      BY <3>1, Frames
  <2>2. \A n \in S : \E m \in S : <<n, m>> \in E /\ colors[m] = "Black"
    BY <1>2, FinishedNode DEF BlackClosed
  <2>3. \A n \in S : \E m \in R : <<n, m>> \in E
    BY <2>1, <2>2
  <2>4. R # {} /\ R \in SUBSET BlackNodes
    BY <1>2, <2>3 DEF BlackNodes
  <2> QED
    BY <2>3, <2>4 DEF BlackAcyclic, SelfSupporting
<1> QED
  BY <1>1, <1>2, BlackStep

LEMMA ExaminedClosedStep ==
    ASSUME TypeOK, GrayIsPath, PathFollowsEdges, FrameSeen, ExaminedClosed, [Next]_vars
    PROVE  ExaminedClosed'
<1> DEFINE Closed(i, n, m) ==
               \/ colors'[m] = "Black"
               \/ <<n, m>> \in ReportedEdges'
               \/ i < Len(stack') /\ m = stack'[i + 1].node
<1>1. deps' = deps
  BY DEF Next, vars, SkipRoot, StartRoot, Finish, ReportCycle, Descend, SkipBlack
<1>2. \A m : DepsOf(m)' = DepsOf(m)
  BY <1>1, GraphUnchanged
<1> SUFFICES ASSUME NEW i \in 1 .. Len(stack'), NEW k \in 1 .. stack'[i].child
             PROVE  Closed(i, stack'[i].node, DepsOf(stack'[i].node)[k])
  BY <1>1 DEF ExaminedClosed, DepsOf
(* what the invariant says of a frame, with the colours after the step *)
<1>3. ASSUME NEW j \in 1 .. Len(stack), NEW h \in 1 .. stack[j].child
      PROVE  LET n == stack[j].node
                 m == DepsOf(n)[h]
             IN  /\ m \in Node
                 /\ \/ colors'[m] = "Black" \/ <<n, m>> \in ReportedEdges'
                    \/ j < Len(stack) /\ m = stack[j + 1].node
  <2>1. stack[j].node \in Node /\ stack[j].child \in Nat
    BY Frames
  <2>2. DepsOf(stack[j].node) \in Seq(Node)
    BY <2>1, DepsType
  <2>3. h \in 1 .. Len(DepsOf(stack[j].node))
    BY <2>1, <2>2 DEF FrameSeen
  <2>4. DepsOf(stack[j].node)[h] \in Node
    BY <2>1, <2>3, DepIsEdge
  <2> QED
    BY <2>4, BlackStep DEF ExaminedClosed
<1>4. CASE stack' = stack
  BY <1>3, <1>4
<1>5. ASSUME NEW root \in todo, StartRoot(root)
      PROVE  Closed(i, stack'[i].node, DepsOf(stack'[i].node)[k])
  <2>1. stack'[i].child = 0
    BY <1>5 DEF StartRoot
  <2> QED
    BY <2>1
<1>6. CASE Finish
  <2>1. PICK n \in Nat : Len(stack) = n + 1 /\ Top = stack[n + 1] /\ Top.node \in Node
    BY <1>6, TopShape DEF Finish
  <2>2. Len(stack') = n /\ \A j \in 1 .. n : stack'[j] = stack[j]
    BY <1>6, <2>1, FinishShape
  <2>3. i \in 1 .. Len(stack) /\ stack'[i] = stack[i] /\ i \in 1 .. n
    BY <2>1, <2>2
  <2>4. colors'[Top.node] = "Black"
    BY <1>6, <2>1 DEF Finish, TypeOK
  <2>5. CASE i = n
    BY <1>3, <2>1, <2>3, <2>4, <2>5
  <2>6. CASE i # n
    <3>1. i < Len(stack') /\ i + 1 \in 1 .. n
      BY <2>2, <2>3, <2>6
    <3> QED
      BY <1>3, <2>2, <2>3, <3>1
  <2> QED
    BY <2>5, <2>6
<1>7. CASE ReportCycle \/ SkipBlack
  <2>1. HasNext /\ stack # <<>> /\ stack' = Advance(stack)
    BY <1>7 DEF ReportCycle, SkipBlack, HasNext
  <2>2. PICK n \in Nat : Len(stack) = n + 1 /\ Top = stack[n + 1] /\ Top.child \in Nat
    BY <2>1, TopShape
  <2>3. /\ Len(stack') = n + 1
        /\ \A j \in 1 .. n : stack'[j] = stack[j]
        /\ stack'[n + 1].node = Top.node
        /\ stack'[n + 1].child = Top.child + 1
    BY <2>1, <2>2, AdvanceShape
  <2>4. \A j \in 1 .. n + 1 : stack'[j].node = stack[j].node
    BY <2>2, <2>3
  <2>5. CASE i \in 1 .. n
    <3>1. i \in 1 .. Len(stack) /\ i + 1 \in 1 .. n + 1 /\ stack'[i] = stack[i]
      BY <2>2, <2>3, <2>5
    <3> QED
      BY <1>3, <2>2, <2>3, <2>4, <3>1
  <2>6. CASE i = n + 1 /\ k \in 1 .. Top.child
    <3>1. i \in 1 .. Len(stack) /\ stack'[i].node = stack[i].node /\ ~(i < Len(stack))
          /\ k \in 1 .. stack[i].child
      BY <2>2, <2>3, <2>6
    <3> QED
      BY <1>3, <3>1
  <2>7. CASE i = n + 1 /\ k = Top.child + 1
    <3>1. stack'[i].node = Top.node /\ DepsOf(Top.node)[k] = NextDep
      BY <2>3, <2>7 DEF NextDep
    <3>2. CASE ReportCycle
      BY <3>1, <3>2, ReportedGrows
    <3>3. CASE SkipBlack
      BY <3>1, <3>3 DEF SkipBlack
    <3> QED
      BY <1>7, <3>2, <3>3
  <2> QED
    BY <2>2, <2>3, <2>5, <2>6, <2>7
<1>8. CASE Descend
  <2>1. HasNext /\ stack # <<>>
    BY <1>8 DEF Descend, HasNext
  <2>2. PICK n \in Nat : Len(stack) = n + 1 /\ Top = stack[n + 1] /\ Top.child \in Nat
    BY <2>1, TopShape
  <2>3. /\ Len(stack') = n + 2
        /\ \A j \in 1 .. n : stack'[j] = stack[j]
        /\ stack'[n + 1].node = Top.node
        /\ stack'[n + 1].child = Top.child + 1
        /\ stack'[n + 2].node = NextDep /\ stack'[n + 2].child = 0
    BY <1>8, <2>2, DescendShape
  <2>4. \A j \in 1 .. n + 1 : stack'[j].node = stack[j].node
    BY <2>2, <2>3
  <2>5. CASE i \in 1 .. n
    <3>1. i \in 1 .. Len(stack) /\ i + 1 \in 1 .. n + 1 /\ stack'[i] = stack[i]
          /\ i < Len(stack')
      BY <2>2, <2>3, <2>5
    <3> QED
      BY <1>3, <2>2, <2>3, <2>4, <3>1
  <2>6. CASE i = n + 1 /\ k \in 1 .. Top.child
    <3>1. i \in 1 .. Len(stack) /\ stack'[i].node = stack[i].node /\ ~(i < Len(stack))
          /\ k \in 1 .. stack[i].child
      BY <2>2, <2>3, <2>6
    <3> QED
      BY <1>3, <3>1
  <2>7. CASE i = n + 1 /\ k = Top.child + 1
    <3>1. stack'[i].node = Top.node /\ DepsOf(Top.node)[k] = NextDep
      BY <2>3, <2>7 DEF NextDep
    <3>2. i < Len(stack') /\ stack'[i + 1].node = NextDep
      <4>1. i + 1 = n + 2
        BY <2>7
      <4> QED
        BY <2>3, <2>7, <4>1
    <3> QED
      BY <3>1, <3>2
  <2>8. CASE i = n + 2
    BY <2>3, <2>8
  <2> QED
    BY <2>2, <2>3, <2>5, <2>6, <2>7, <2>8
<1> QED
  BY <1>4, <1>5, <1>6, <1>7, <1>8 DEF Next, vars, SkipRoot

-----------------------------------------------------------------------------
LEMMA InvInit == Init => IInv
<1> SUFFICES ASSUME Init PROVE IInv
  OBVIOUS
<1>1. TypeOK
  BY TypeInit
<1>2. stack = <<>> /\ path = <<>> /\ errors = <<>> /\ todo = DOMAIN deps
      /\ colors = [n \in Node |-> "White"]
  BY DEF Init
<1>3. BlackNodes = {}
  BY <1>2 DEF BlackNodes
<1> QED
  BY <1>1, <1>2, <1>3
     DEF IInv, FrameSeen, GrayIsPath, PathFollowsEdges, ReportsAreCycles, BlackClosed,
         ExaminedClosed, RootsColoured, BlackAcyclic, SelfSupporting, Range, IsInjective

LEMMA InvStep == IInv /\ [Next]_vars => IInv'
<1> SUFFICES ASSUME IInv, [Next]_vars PROVE IInv'
  OBVIOUS
<1> USE DEF IInv
<1>1. TypeOK'
  BY TypeStep
<1>2. FrameSeen' /\ GrayIsPath' /\ PathFollowsEdges'
  BY FrameSeenStep, GrayIsPathStep, PathFollowsEdgesStep
<1>3. ReportsAreCycles' /\ RootsColoured'
  BY ReportsAreCyclesStep, RootsColouredStep
<1>4. BlackClosed' /\ ExaminedClosed' /\ BlackAcyclic'
  BY BlackClosedStep, ExaminedClosedStep, BlackAcyclicStep
<1> QED
  BY <1>1, <1>2, <1>3, <1>4

(* The strengthening is inductive. *)
THEOREM InvCorrect == Spec => []IInv
<1> QED
  BY InvInit, InvStep, PTL DEF Spec

(* The nodes of a reported cycle support themselves. *)
LEMMA CycleSupports ==
    ASSUME NEW E, NEW c \in Seq(Node), IsCycleOf(c, E)
    PROVE  SelfSupporting(Range(c), E)
<1>1. PICK n \in Nat : Len(c) = n + 1
  BY LengthIsSuccessor DEF IsCycleOf
<1>2. DOMAIN c = 1 .. n + 1
  BY <1>1
<1>3. ASSUME NEW i \in 1 .. n + 1
      PROVE  \E m \in Range(c) : <<c[i], m>> \in E
  <2>1. CASE i = n + 1
    <3>1. c[1] \in Range(c)
      BY <1>2 DEF Range
    <3>2. <<c[i], c[1]>> \in E
      BY <1>1, <2>1 DEF IsCycleOf, ClosingEdge
    <3> QED
      BY <3>1, <3>2
  <2>2. CASE i # n + 1
    <3>1. i \in 1 .. Len(c) - 1 /\ i + 1 \in DOMAIN c
      BY <1>1, <1>2, <2>2
    <3> QED
      BY <3>1 DEF IsCycleOf, Range
  <2> QED
    BY <2>1, <2>2
<1>4. c[1] \in Range(c)
  BY <1>2 DEF Range
<1> QED
  BY <1>2, <1>3, <1>4 DEF SelfSupporting, Range

(* The search is complete: cutting the reported closing edges leaves no     *)
(* cycle among the declared dependencies.                                   *)
LEMMA Complete == IInv => EveryCycleReported
<1> SUFFICES ASSUME IInv, Done, NEW S \in SUBSET Node,
                    SelfSupporting(S, Edges \ ReportedEdges)
             PROVE  FALSE
  BY DEF EveryCycleReported, HasCycle, HasCycleIn
<1>1. \A n \in S : n \in DOMAIN deps
  BY DEF SelfSupporting, Edges
<1>2. path = <<>> /\ \A n \in Node : colors[n] # "Gray"
  <2>1. path \in Seq(Node) /\ Len(path) = 0
    BY DEF IInv, GrayIsPath, TypeOK, Done
  <2>2. Range(path) = {}
    BY <2>1 DEF Range
  <2> QED
    BY <2>1, <2>2, EmptySeq DEF IInv, GrayIsPath
<1>3. \A n \in S : colors[n] = "Black"
  BY <1>1, <1>2 DEF IInv, RootsColoured, Done, TypeOK, Color
<1>4. S \in SUBSET BlackNodes
  BY <1>3 DEF BlackNodes
<1> QED
  BY <1>4 DEF IInv, BlackAcyclic

LEMMA Exact == IInv => Verdict
<1> SUFFICES ASSUME IInv, Done PROVE errors = <<>> <=> ~HasCycle(Edges)
  BY DEF Verdict
<1>1. ASSUME errors = <<>> PROVE ~HasCycle(Edges)
  <2>1. ReportedEdges = {}
    BY <1>1 DEF ReportedEdges
  <2>2. Edges \ ReportedEdges = Edges
    BY <2>1
  <2> QED
    BY <2>2, Complete DEF EveryCycleReported
<1>2. ASSUME errors # <<>> PROVE HasCycle(Edges)
  <2>1. errors \in Seq(Seq(Node))
    BY DEF IInv, TypeOK
  <2>2. 1 \in DOMAIN errors /\ errors[1] \in Seq(Node)
    <3>1. Len(errors) \in Nat \ {0}
      BY <1>2, <2>1, EmptySeq
    <3> QED
      BY <2>1, <3>1
  <2>3. SelfSupporting(Range(errors[1]), Edges)
    BY <2>2, CycleSupports DEF IInv, ReportsAreCycles
  <2>4. Range(errors[1]) \in SUBSET Node
    BY <2>2 DEF Range
  <2> QED
    BY <2>3, <2>4 DEF HasCycle, HasCycleIn
<1> QED
  BY <1>1, <1>2

(* detect_cycles reports only cycles of the declared graph, cuts every one   *)
(* of them, and its emptiness is exactly the absence of a cycle.            *)
THEOREM ReportsAreCyclesHolds == Spec => []ReportsAreCycles
<1>1. IInv => ReportsAreCycles
  BY DEF IInv
<1> QED
  BY <1>1, InvCorrect, PTL

(* Every cycle of the declared graph has an edge that some error points at. *)
THEOREM EveryCycleReportedHolds == Spec => []EveryCycleReported
<1> QED
  BY Complete, InvCorrect, PTL

(* validate() goes on to run factories exactly when the declared graph is    *)
(* acyclic.                                                                 *)
THEOREM VerdictHolds == Spec => []Verdict
<1> QED
  BY Exact, InvCorrect, PTL

(* No finished node is opened again, whatever the graph. *)
THEOREM BlackIsFinalHolds == Spec => BlackIsFinal
<1>1. IInv /\ [Next]_vars
        => [\A n \in Node : colors[n] = "Black" => colors'[n] = "Black"]_vars
  BY BlackStep DEF IInv
<1> QED
  BY <1>1, InvCorrect, PTL DEF Spec, BlackIsFinal
=============================================================================
