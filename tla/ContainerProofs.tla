---------------------------- MODULE ContainerProofs ----------------------------
(***************************************************************************)
(* What the container promises for every set of components, every wiring    *)
(* and any number of threads.                                              *)
(***************************************************************************)
EXTENDS Container, SequenceLemmas

(* What a location says about the rest of the thread. *)
ShapeOf(t) ==
    /\ pc[t] \in {"idle", "validate"} => stack[t] = <<>> /\ goal[t] = NoId
    /\ pc[t] \in {"factory", "unwind"} => stack[t] # <<>>
    /\ pc[t] \in {"resolve", "factory", "unwind"} => goal[t] \in Id
    /\ pc[t] = "resolve" /\ stack[t] # <<>> => GetsLeft(t)
    /\ pc[t] = "idle" => call[t] = "get"
    /\ pc[t] = "validate" => call[t] = "validate"

Shape == \A t \in Thread : ShapeOf(t)

(* No factory has more parts than it asks for, and no instance comes from a   *)
(* later registration.                                                      *)
FrameBound ==
    /\ \A t \in Thread : \A k \in 1 .. Len(stack[t]) :
          Len(stack[t][k].got) <= Len(recipe[stack[t][k].id].gets)
    /\ \A i \in Id : builtAt[i] <= epoch

(* What a validate() in progress knows: a component it has passed has its     *)
(* instance, unless an error was recorded.                                   *)
ValidateProgress ==
    \A t \in Thread : call[t] = "validate" =>
        \A i \in Registered :
            i \in vtodo[t] \/ i = goal[t] \/ cell[i] = "ready" \/ verrors[t] # {}

IInv ==
    /\ TypeOK
    /\ Shape
    /\ FrameBound
    /\ RunningIsOwned
    /\ StackFollowsGets
    /\ PartsAreCurrent
    /\ ValidateProgress
    /\ ValidatedMeansWired

-----------------------------------------------------------------------------
LEMMA FrameFacts ==
    ASSUME TypeOK, NEW t \in Thread
    PROVE  /\ stack[t] \in Seq(FrameType) /\ Len(stack[t]) \in Nat
           /\ DOMAIN stack[t] = 1 .. Len(stack[t])
           /\ \A k \in 1 .. Len(stack[t]) :
                 /\ stack[t][k] \in FrameType
                 /\ stack[t][k].id \in Id
                 /\ stack[t][k].got \in Seq(Nat)
<1>1. stack[t] \in Seq(FrameType)
  BY DEF TypeOK
<1>2. Len(stack[t]) \in Nat /\ \A k \in 1 .. Len(stack[t]) : stack[t][k] \in FrameType
  BY <1>1
<1> QED
  BY <1>1, <1>2 DEF FrameType

LEMMA RecipeFacts ==
    ASSUME TypeOK, NEW i \in Id
    PROVE  /\ recipe[i].gets \in Seq(Id) /\ Len(recipe[i].gets) \in Nat
           /\ DOMAIN recipe[i].gets = 1 .. Len(recipe[i].gets)
           /\ \A k \in 1 .. Len(recipe[i].gets) :
                 recipe[i].gets[k] \in Id /\ <<i, recipe[i].gets[k]>> \in GetEdges
<1>1. /\ recipe[i].gets \in Seq(Id) /\ Len(recipe[i].gets) \in Nat
      /\ DOMAIN recipe[i].gets = 1 .. Len(recipe[i].gets)
  BY DEF TypeOK, Recipe
<1>2. \A k \in 1 .. Len(recipe[i].gets) :
          recipe[i].gets[k] \in Id /\ recipe[i].gets[k] \in Range(recipe[i].gets)
  BY <1>1 DEF Range
<1> QED
  BY <1>1, <1>2 DEF GetEdges

(* n frames lie below the top one *)
LEMMA TopFacts ==
    ASSUME TypeOK, NEW t \in Thread, stack[t] # <<>>
    PROVE  \E n \in Nat :
              /\ Len(stack[t]) = n + 1 /\ TopFrame(t) = stack[t][n + 1]
              /\ TopFrame(t) \in FrameType
              /\ TopFrame(t).id \in Id /\ TopFrame(t).got \in Seq(Nat)
              /\ Len(TopFrame(t).got) \in Nat
<1>1. PICK n \in Nat : Len(stack[t]) = n + 1
  BY FrameFacts, LengthIsSuccessor
<1>2. TopFrame(t) = stack[t][n + 1]
  BY <1>1 DEF TopFrame, Last
<1>3. n + 1 \in 1 .. Len(stack[t])
  BY <1>1
<1> QED
  BY <1>1, <1>2, <1>3, FrameFacts

LEMMA NextGetFacts ==
    ASSUME TypeOK, NEW t \in Thread, stack[t] # <<>>, GetsLeft(t)
    PROVE  /\ Len(TopFrame(t).got) + 1 \in 1 .. Len(recipe[TopFrame(t).id].gets)
           /\ NextGet(t) \in Id
           /\ <<TopFrame(t).id, NextGet(t)>> \in GetEdges
<1>1. TopFrame(t).id \in Id /\ Len(TopFrame(t).got) \in Nat
  BY TopFacts
<1>2. Len(TopFrame(t).got) + 1 \in 1 .. Len(recipe[TopFrame(t).id].gets)
  BY <1>1, RecipeFacts DEF GetsLeft
<1> QED
  BY <1>1, <1>2, RecipeFacts DEF NextGet

LEMMA WantFacts ==
    ASSUME TypeOK, Shape, NEW t \in Thread, pc[t] = "resolve"
    PROVE  Want(t) \in Id
BY NextGetFacts DEF Shape, ShapeOf, Want

(* The three things an action does to a stack. *)
LEMMA PushFacts ==
    ASSUME NEW s \in Seq(FrameType), NEW i \in Id
    PROVE  LET f == [id |-> i, got |-> <<>>]
           IN  /\ Append(s, f) \in Seq(FrameType)
               /\ Append(s, f) # <<>>
               /\ Len(Append(s, f)) = Len(s) + 1
               /\ \A k \in 1 .. Len(s) : Append(s, f)[k] = s[k]
               /\ Append(s, f)[Len(s) + 1] = f
<1>1. <<>> \in Seq(Nat)
  BY EmptySeq
<1>2. [id |-> i, got |-> <<>>] \in FrameType
  BY <1>1 DEF FrameType
<1> QED
  BY <1>2, AppendProperties

LEMMA DeliverFacts ==
    ASSUME NEW s \in Seq(FrameType), NEW n \in Nat, Len(s) = n + 1, NEW x \in Nat
    PROVE  /\ Deliver(s, x) \in Seq(FrameType)
           /\ Deliver(s, x) # <<>>
           /\ Len(Deliver(s, x)) = n + 1
           /\ \A k \in 1 .. n : Deliver(s, x)[k] = s[k]
           /\ Deliver(s, x)[n + 1].id = s[n + 1].id
           /\ Deliver(s, x)[n + 1].got = Append(s[n + 1].got, x)
<1>1. n + 1 \in 1 .. Len(s) /\ DOMAIN s = 1 .. n + 1
  OBVIOUS
<1>2. s[n + 1] \in FrameType
  BY <1>1
<1>3. Append(s[n + 1].got, x) \in Seq(Nat)
  BY <1>2, AppendProperties DEF FrameType
<1> DEFINE f == [s[n + 1] EXCEPT !.got = Append(@, x)]
<1>4. f \in FrameType /\ f.id = s[n + 1].id /\ f.got = Append(s[n + 1].got, x)
  BY <1>2, <1>3 DEF FrameType
<1>5. Deliver(s, x) = [s EXCEPT ![n + 1] = f]
  BY DEF Deliver
<1> HIDE DEF f
<1>6. /\ [s EXCEPT ![n + 1] = f] \in Seq(FrameType)
      /\ Len([s EXCEPT ![n + 1] = f]) = Len(s)
      /\ \A j \in 1 .. Len(s) : [s EXCEPT ![n + 1] = f][j] = IF j = n + 1 THEN f ELSE s[j]
  BY <1>1, <1>4, ExceptSeq
<1> QED
  BY <1>1, <1>4, <1>5, <1>6

-----------------------------------------------------------------------------
LEMMA TypeInit == Init => TypeOK
<1> SUFFICES ASSUME Init PROVE TypeOK
  OBVIOUS
<1>1. <<>> \in Seq(Id) /\ <<>> \in Seq(Nat) /\ <<>> \in Seq(FrameType)
  BY EmptySeq
<1>2. NoRecipe \in Recipe
  BY <1>1 DEF NoRecipe, Recipe
<1>3. 0 \in 0 .. MaxRegs /\ 0 \in 0 .. MaxPanics
  BY BoundsAssumption
<1>4. /\ recipe \in [Id -> Recipe] /\ parts \in [Id -> Seq(Nat)]
      /\ stack \in [Thread -> Seq(FrameType)]
  BY <1>1, <1>2 DEF Init
<1>5. /\ cell \in [Id -> CellState] /\ built \in [Id -> Nat] /\ builtAt \in [Id -> Nat]
      /\ epoch \in 0 .. MaxRegs /\ panics \in 0 .. MaxPanics /\ validated \in BOOLEAN
  BY <1>3 DEF Init, CellState
<1>6. /\ pc \in [Thread -> Location] /\ call \in [Thread -> {"get", "validate"}]
      /\ goal \in [Thread -> Id \union {NoId}]
      /\ vtodo \in [Thread -> SUBSET Id] /\ verrors \in [Thread -> SUBSET Id]
  BY DEF Init, Location
<1> QED
  BY <1>4, <1>5, <1>6 DEF TypeOK

(* An action's stack, for the thread that takes it. *)
LEMMA StackType ==
    ASSUME TypeOK, NEW t \in Thread, NEW s \in Seq(FrameType)
    PROVE  [stack EXCEPT ![t] = s] \in [Thread -> Seq(FrameType)]
BY DEF TypeOK

LEMMA TypeStep == TypeOK /\ Shape /\ [Next]_vars => TypeOK'
<1> SUFFICES ASSUME TypeOK, Shape, [Next]_vars PROVE TypeOK'
  OBVIOUS
<1> USE DEF registry, calls
<1>0. <<>> \in Seq(Id) /\ <<>> \in Seq(Nat) /\ NoRecipe \in Recipe
  <2>1. <<>> \in Seq(Id) /\ <<>> \in Seq(Nat)
    BY EmptySeq
  <2> QED
    BY <2>1 DEF NoRecipe, Recipe
<1>1. ASSUME NEW i \in Id, Register(i) PROVE TypeOK'
  <2>1. recipe' \in [Id -> Recipe]
    BY <1>1, RecipesAssumption DEF Register, TypeOK
  <2>2. cell' \in [Id -> CellState]
    BY <1>1 DEF Register, TypeOK, CellState
  <2>3. epoch' \in 0 .. MaxRegs
    BY <1>1, BoundsAssumption DEF Register, TypeOK
  <2> QED
    BY <1>1, <2>1, <2>2, <2>3 DEF Register, TypeOK
<1>2. ASSUME NEW i \in Id, RegisterInstance(i) PROVE TypeOK'
  <2>1. recipe' \in [Id -> Recipe] /\ parts' \in [Id -> Seq(Nat)]
    BY <1>0, <1>2 DEF RegisterInstance, TypeOK
  <2>2. cell' \in [Id -> CellState]
    BY <1>2 DEF RegisterInstance, TypeOK, CellState
  <2>3. epoch' \in 0 .. MaxRegs /\ epoch' \in Nat
    BY <1>2, BoundsAssumption DEF RegisterInstance, TypeOK
  <2>4. built' \in [Id -> Nat] /\ builtAt' \in [Id -> Nat]
    BY <1>2, <2>3 DEF RegisterInstance, TypeOK
  <2> QED
    BY <1>2, <2>1, <2>2, <2>3, <2>4 DEF RegisterInstance, TypeOK
<1>3. ASSUME NEW t \in Thread, NEW i \in Id, BeginGet(t, i) PROVE TypeOK'
  BY <1>3 DEF BeginGet, TypeOK, Location
<1>4. ASSUME NEW t \in Thread, RejectCycle(t) PROVE TypeOK'
  BY <1>4 DEF RejectCycle, TypeOK
<1>5. ASSUME NEW t \in Thread, BeginValidate(t) PROVE TypeOK'
  BY <1>5 DEF BeginValidate, TypeOK, Location, Registered
<1>6. ASSUME NEW t \in Thread, ResolveMissing(t) PROVE TypeOK'
  BY <1>6 DEF ResolveMissing, TypeOK, Location, AfterGoal
<1>7. ASSUME NEW t \in Thread, FactoryMissesPart(t) PROVE TypeOK'
  BY <1>7 DEF FactoryMissesPart, TypeOK, Location
<1>8. ASSUME NEW t \in Thread, ReturnInstance(t) PROVE TypeOK'
  BY <1>8 DEF ReturnInstance, TypeOK, Location, AfterGoal
<1>9. ASSUME NEW t \in Thread, ReceivePart(t) PROVE TypeOK'
  <2>1. stack[t] # <<>> /\ GetsLeft(t)
    BY <1>9 DEF ReceivePart, Shape, ShapeOf
  <2>2. built[NextGet(t)] \in Nat
    BY <2>1, NextGetFacts DEF TypeOK
  <2>3. Deliver(stack[t], built[NextGet(t)]) \in Seq(FrameType)
    BY <2>1, <2>2, TopFacts, FrameFacts, DeliverFacts
  <2>4. stack' \in [Thread -> Seq(FrameType)]
    BY <1>9, <2>3, StackType DEF ReceivePart
  <2> QED
    BY <1>9, <2>4 DEF ReceivePart, TypeOK, Location
<1>10. ASSUME NEW t \in Thread, StartFactory(t) PROVE TypeOK'
  <2>1. Want(t) \in Id
    BY <1>10, WantFacts DEF StartFactory
  <2>2. stack' \in [Thread -> Seq(FrameType)]
    BY <1>10, <2>1, FrameFacts, PushFacts, StackType DEF StartFactory
  <2>3. cell' \in [Id -> CellState]
    BY <1>10, <2>1 DEF StartFactory, TypeOK, CellState
  <2> QED
    BY <1>10, <2>2, <2>3 DEF StartFactory, TypeOK, Location
<1>11. ASSUME NEW t \in Thread, RequestPart(t) PROVE TypeOK'
  BY <1>11 DEF RequestPart, TypeOK, Location
<1>12. ASSUME NEW t \in Thread, FactoryReturns(t) PROVE TypeOK'
  <2>1. TopFrame(t).id \in Id /\ TopFrame(t).got \in Seq(Nat)
    BY <1>12, TopFacts DEF FactoryReturns, Shape, ShapeOf
  <2>2. stack' \in [Thread -> Seq(FrameType)]
    BY <1>12, FrameFacts, FrontType, StackType DEF FactoryReturns
  <2>3. cell' \in [Id -> CellState]
    BY <1>12, <2>1 DEF FactoryReturns, TypeOK, CellState
  <2>4. built' \in [Id -> Nat] /\ parts' \in [Id -> Seq(Nat)]
    BY <1>12, <2>1 DEF FactoryReturns, TypeOK
  <2>5. builtAt' \in [Id -> Nat]
    BY <1>12, <2>1 DEF FactoryReturns, TypeOK
  <2> QED
    BY <1>12, <2>2, <2>3, <2>4, <2>5 DEF FactoryReturns, TypeOK, Location
<1>13. ASSUME NEW t \in Thread, FactoryPanics(t) PROVE TypeOK'
  BY <1>13, BoundsAssumption DEF FactoryPanics, TypeOK, Location
<1>14. ASSUME NEW t \in Thread, UnwindFactory(t) \/ UnwindToCaller(t) \/ UnwindToValidate(t)
       PROVE  TypeOK'
  <2>1. LeaveCell(t) /\ TopFrame(t).id \in Id /\ goal[t] \in Id
    BY <1>14, TopFacts DEF UnwindFactory, UnwindToCaller, UnwindToValidate, LeaveCell, Shape, ShapeOf
  <2>2. stack' \in [Thread -> Seq(FrameType)]
    BY <2>1, FrameFacts, FrontType, StackType DEF LeaveCell
  <2>3. cell' \in [Id -> CellState]
    BY <2>1 DEF LeaveCell, TypeOK, CellState
  <2>4. CASE UnwindFactory(t)
    BY <2>2, <2>3, <2>4 DEF UnwindFactory, TypeOK
  <2>5. CASE UnwindToCaller(t)
    BY <2>2, <2>3, <2>5 DEF UnwindToCaller, TypeOK, Location
  <2>6. CASE UnwindToValidate(t)
    BY <2>1, <2>2, <2>3, <2>6 DEF UnwindToValidate, TypeOK, Location
  <2> QED
    BY <1>14, <2>4, <2>5, <2>6
<1>15. ASSUME NEW t \in Thread, NEW i \in Id, ValidateSkip(t, i) \/ ValidateResolve(t, i)
       PROVE  TypeOK'
  <2>1. CASE ValidateSkip(t, i)
    BY <2>1 DEF ValidateSkip, TypeOK
  <2>2. CASE ValidateResolve(t, i)
    BY <2>2 DEF ValidateResolve, TypeOK, Location
  <2> QED
    BY <1>15, <2>1, <2>2
<1>16. ASSUME NEW t \in Thread, ValidateEnd(t) PROVE TypeOK'
  BY <1>16 DEF ValidateEnd, TypeOK, Location
<1>17. CASE UNCHANGED vars
  BY <1>17 DEF vars, TypeOK
<1> QED
  BY <1>1, <1>2, <1>3, <1>4, <1>5, <1>6, <1>7, <1>8, <1>9, <1>10, <1>11, <1>12,
     <1>13, <1>14, <1>15, <1>16, <1>17
     DEF Next, Proceed, Resolve, RunFactory, Validate

-----------------------------------------------------------------------------
(* One thread's step leaves every other thread's shape alone. *)
LEMMA ShapeOther ==
    ASSUME Shape, NEW u \in Thread, recipe' = recipe,
           pc'[u] = pc[u], stack'[u] = stack[u], goal'[u] = goal[u], call'[u] = call[u]
    PROVE  ShapeOf(u)'
BY DEF Shape, ShapeOf, GetsLeft, TopFrame

LEMMA ShapeStep ==
    ASSUME TypeOK, Shape, StackFollowsGets, [Next]_vars
    PROVE  Shape'
<1> USE DEF registry, calls
<1> SUFFICES ASSUME NEW u \in Thread PROVE ShapeOf(u)'
  BY DEF Shape
<1>1. ASSUME NEW i \in Id, Register(i) \/ RegisterInstance(i) PROVE ShapeOf(u)'
  <2>1. pc[u] = "idle" /\ UNCHANGED calls
    BY <1>1 DEF Register, RegisterInstance
  <2> QED
    BY <2>1 DEF Shape, ShapeOf
<1>2. CASE UNCHANGED <<recipe, pc, stack, goal, call>>
  BY <1>2, ShapeOther
<1>3. ASSUME NEW t \in Thread, NEW i \in Id, BeginGet(t, i) PROVE ShapeOf(u)'
  <2>1. CASE u # t
    BY <1>3, <2>1, ShapeOther DEF BeginGet, TypeOK
  <2>2. CASE u = t
    BY <1>3, <2>2 DEF BeginGet, TypeOK, Shape, ShapeOf
  <2> QED
    BY <2>1, <2>2
<1>4. ASSUME NEW t \in Thread, BeginValidate(t) PROVE ShapeOf(u)'
  <2>1. CASE u # t
    BY <1>4, <2>1, ShapeOther DEF BeginValidate, TypeOK
  <2>2. CASE u = t
    BY <1>4, <2>2 DEF BeginValidate, TypeOK, Shape, ShapeOf
  <2> QED
    BY <2>1, <2>2
<1>5. ASSUME NEW t \in Thread, ResolveMissing(t) \/ ReturnInstance(t) PROVE ShapeOf(u)'
  <2>1. CASE u # t
    BY <1>5, <2>1, ShapeOther DEF ResolveMissing, ReturnInstance, TypeOK
  <2>2. CASE u = t
    BY <1>5, <2>2 DEF ResolveMissing, ReturnInstance, AfterGoal, TypeOK, Shape, ShapeOf
  <2> QED
    BY <2>1, <2>2
<1>6. ASSUME NEW t \in Thread, FactoryMissesPart(t) \/ FactoryPanics(t) PROVE ShapeOf(u)'
  <2>1. CASE u # t
    BY <1>6, <2>1, ShapeOther DEF FactoryMissesPart, FactoryPanics, TypeOK
  <2>2. CASE u = t
    BY <1>6, <2>2 DEF FactoryMissesPart, FactoryPanics, TypeOK, Shape, ShapeOf
  <2> QED
    BY <2>1, <2>2
<1>7. ASSUME NEW t \in Thread, ReceivePart(t) PROVE ShapeOf(u)'
  <2>1. CASE u # t
    BY <1>7, <2>1, ShapeOther DEF ReceivePart, TypeOK
  <2>2. CASE u = t
    <3>1. stack[t] # <<>> /\ GetsLeft(t)
      BY <1>7 DEF ReceivePart, Shape, ShapeOf
    <3>2. built[NextGet(t)] \in Nat
      BY <3>1, NextGetFacts DEF TypeOK
    <3>3. Deliver(stack[t], built[NextGet(t)]) # <<>>
      BY <3>1, <3>2, TopFacts, FrameFacts, DeliverFacts
    <3> QED
      BY <1>7, <2>2, <3>3 DEF ReceivePart, TypeOK, Shape, ShapeOf
  <2> QED
    BY <2>1, <2>2
<1>8. ASSUME NEW t \in Thread, StartFactory(t) PROVE ShapeOf(u)'
  <2>1. CASE u # t
    BY <1>8, <2>1, ShapeOther DEF StartFactory, TypeOK
  <2>2. CASE u = t
    <3>1. stack'[t] # <<>>
      BY <1>8, WantFacts, FrameFacts, PushFacts DEF StartFactory, TypeOK
    <3> QED
      BY <1>8, <2>2, <3>1 DEF StartFactory, TypeOK, Shape, ShapeOf
  <2> QED
    BY <2>1, <2>2
<1>9. ASSUME NEW t \in Thread, RequestPart(t) PROVE ShapeOf(u)'
  <2>1. CASE u # t
    BY <1>9, <2>1, ShapeOther DEF RequestPart, TypeOK
  <2>2. CASE u = t
    BY <1>9, <2>2 DEF RequestPart, TypeOK, Shape, ShapeOf, GetsLeft, TopFrame
  <2> QED
    BY <2>1, <2>2
(* the caller's next get is the one that this factory answers *)
<1>10. ASSUME NEW t \in Thread, FactoryReturns(t) PROVE ShapeOf(u)'
  <2>1. CASE u # t
    BY <1>10, <2>1, ShapeOther DEF FactoryReturns, TypeOK
  <2>2. CASE u = t
    <3> DEFINE s == Front(stack[t])
    <3>1. stack[t] # <<>> /\ stack[t] \in Seq(FrameType) /\ stack'[t] = s
      BY <1>10, FrameFacts DEF FactoryReturns, TypeOK, Shape, ShapeOf
    <3>2. PICK n \in Nat : Len(stack[t]) = n + 1
      BY <3>1, LengthIsSuccessor
    <3>3. s \in Seq(FrameType) /\ Len(s) = n /\ \A k \in 1 .. n : s[k] = stack[t][k]
      BY <3>1, <3>2, PopProperties
    <3>4. ASSUME s # <<>> PROVE GetsLeft(t)'
      <4>1. n \in 1 .. Len(stack[t]) - 1
        BY <3>2, <3>3, <3>4, EmptySeq
      <4>2. TopFrame(t)' = stack[t][n]
        BY <3>1, <3>3, <4>1 DEF TopFrame, Last
      <4>3. Len(stack[t][n].got) < Len(recipe[stack[t][n].id].gets)
        BY <4>1 DEF StackFollowsGets
      <4> QED
        BY <1>10, <4>2, <4>3 DEF GetsLeft, FactoryReturns
    <3> QED
      BY <1>10, <2>2, <3>1, <3>4 DEF FactoryReturns, TypeOK, Shape, ShapeOf
  <2> QED
    BY <2>1, <2>2
<1>11. ASSUME NEW t \in Thread, UnwindFactory(t) PROVE ShapeOf(u)'
  <2>1. CASE u # t
    BY <1>11, <2>1, ShapeOther DEF UnwindFactory, LeaveCell, TypeOK
  <2>2. CASE u = t
    <3>1. stack[t] # <<>> /\ stack[t] \in Seq(FrameType) /\ stack'[t] = Front(stack[t])
      BY <1>11, FrameFacts DEF UnwindFactory, LeaveCell, TypeOK, Shape, ShapeOf
    <3>2. Len(stack'[t]) = Len(stack[t]) - 1
      BY <3>1, PopProperties
    <3>3. stack'[t] # <<>>
      <4>1. Len(stack[t]) # 1
        BY <1>11, FrameFacts DEF UnwindFactory
      <4>2. PICK n \in Nat : Len(stack[t]) = n + 1
        BY <3>1, LengthIsSuccessor
      <4> QED
        BY <3>2, <4>1, <4>2
    <3> QED
      BY <1>11, <2>2, <3>3 DEF UnwindFactory, LeaveCell, TypeOK, Shape, ShapeOf
  <2> QED
    BY <2>1, <2>2
<1>12. ASSUME NEW t \in Thread, UnwindToCaller(t) \/ UnwindToValidate(t) PROVE ShapeOf(u)'
  <2>1. CASE u # t
    BY <1>12, <2>1, ShapeOther DEF UnwindToCaller, UnwindToValidate, LeaveCell, TypeOK
  <2>2. CASE u = t
    <3>1. stack[t] # <<>> /\ stack[t] \in Seq(FrameType) /\ stack'[t] = Front(stack[t])
          /\ Len(stack[t]) = 1
      BY <1>12, FrameFacts
         DEF UnwindToCaller, UnwindToValidate, LeaveCell, TypeOK, Shape, ShapeOf
    <3>2. stack'[t] \in Seq(FrameType) /\ Len(stack'[t]) = 0
      BY <3>1, PopProperties
    <3>3. stack'[t] = <<>>
      BY <3>2, EmptySeq
    <3> QED
      BY <1>12, <2>2, <3>3
         DEF UnwindToCaller, UnwindToValidate, LeaveCell, TypeOK, Shape, ShapeOf
  <2> QED
    BY <2>1, <2>2
<1>13. ASSUME NEW t \in Thread, NEW i \in Id, ValidateSkip(t, i) PROVE ShapeOf(u)'
  BY <1>13, ShapeOther DEF ValidateSkip
<1>14. ASSUME NEW t \in Thread, NEW i \in Id, ValidateResolve(t, i) PROVE ShapeOf(u)'
  <2>1. CASE u # t
    BY <1>14, <2>1, ShapeOther DEF ValidateResolve, TypeOK
  <2>2. CASE u = t
    BY <1>14, <2>2 DEF ValidateResolve, TypeOK, Shape, ShapeOf
  <2> QED
    BY <2>1, <2>2
<1>15. ASSUME NEW t \in Thread, ValidateEnd(t) PROVE ShapeOf(u)'
  <2>1. CASE u # t
    BY <1>15, <2>1, ShapeOther DEF ValidateEnd, TypeOK
  <2>2. CASE u = t
    BY <1>15, <2>2 DEF ValidateEnd, TypeOK, Shape, ShapeOf
  <2> QED
    BY <2>1, <2>2
<1> QED
  BY <1>1, <1>2, <1>3, <1>4, <1>5, <1>6, <1>7, <1>8, <1>9, <1>10, <1>11, <1>12,
     <1>13, <1>14, <1>15
     DEF Next, Proceed, Resolve, RunFactory, Validate, RejectCycle, vars

-----------------------------------------------------------------------------
(* Only six kinds of step touch the registry or a stack. *)
Popped(t) == LeaveCell(t) /\ UNCHANGED <<recipe, built, parts, builtAt, epoch>>

LEMMA StepKinds ==
    ASSUME TypeOK, [Next]_vars
    PROVE  \/ \E i \in Id : Register(i) \/ RegisterInstance(i)
           \/ \E t \in Thread : StartFactory(t) \/ FactoryReturns(t) \/ Popped(t) \/ ReceivePart(t)
           \/ UNCHANGED <<registry, stack>>
<1> USE DEF registry, calls
<1>1. ASSUME NEW t \in Thread, Resolve(t)
      PROVE  \/ StartFactory(t) \/ ReceivePart(t)
             \/ UNCHANGED <<registry, stack>>
  BY <1>1 DEF Resolve, ResolveMissing, FactoryMissesPart, ReturnInstance
<1>2. ASSUME NEW t \in Thread, RunFactory(t)
      PROVE  FactoryReturns(t) \/ Popped(t) \/ UNCHANGED <<registry, stack>>
  BY <1>2 DEF RunFactory, RequestPart, UnwindFactory, UnwindToCaller, UnwindToValidate, Popped
<1>3. ASSUME NEW t \in Thread, Validate(t)
      PROVE  UNCHANGED <<registry, stack>>
  BY <1>3 DEF Validate, ValidateSkip, ValidateResolve, ValidateEnd
<1>4. ASSUME NEW t \in Thread,
             (\E i \in Id : BeginGet(t, i)) \/ RejectCycle(t) \/ BeginValidate(t) \/ FactoryPanics(t)
      PROVE  UNCHANGED <<registry, stack>>
  BY <1>4 DEF BeginGet, RejectCycle, BeginValidate, FactoryPanics
<1>5. CASE UNCHANGED vars
  BY <1>5 DEF vars
<1> QED
  BY <1>1, <1>2, <1>3, <1>4, <1>5 DEF Next, Proceed

(* What each of those steps does, entry by entry.  Under a registration every *)
(* stack is empty.                                                           *)
RegisterShape(i) ==
    /\ UNCHANGED calls /\ epoch' = epoch + 1 /\ validated' = FALSE
    /\ \A t \in Thread : pc[t] = "idle" /\ stack[t] = <<>> /\ stack'[t] = <<>>
    /\ cell'[i] \in {"empty", "ready"}
    /\ \A j \in Id \ {i} : cell'[j] = cell[j] /\ recipe'[j] = recipe[j]

StartShape(t) ==
    /\ Want(t) \in Id /\ cell[Want(t)] = "empty" /\ cell'[Want(t)] = "running"
    /\ \A i \in Id \ {Want(t)} : cell'[i] = cell[i]
    /\ UNCHANGED <<recipe, built, parts, builtAt, epoch>>
    /\ \A u \in Thread \ {t} : stack'[u] = stack[u]
    /\ Len(stack[t]) \in Nat /\ DOMAIN stack[t] = 1 .. Len(stack[t])
    /\ Len(stack'[t]) = Len(stack[t]) + 1 /\ DOMAIN stack'[t] = 1 .. Len(stack[t]) + 1
    /\ \A k \in 1 .. Len(stack[t]) : stack'[t][k] = stack[t][k]
    /\ stack'[t][Len(stack[t]) + 1] = [id |-> Want(t), got |-> <<>>]

PopShape(t, n) ==
    /\ TopFrame(t).id \in Id /\ TopFrame(t) = stack[t][n + 1]
    /\ cell'[TopFrame(t).id] \in {"empty", "ready"}
    /\ \A i \in Id \ {TopFrame(t).id} : cell'[i] = cell[i]
    /\ UNCHANGED <<recipe, epoch>>
    /\ \A u \in Thread \ {t} : stack'[u] = stack[u]
    /\ Len(stack[t]) = n + 1 /\ DOMAIN stack[t] = 1 .. n + 1
    /\ Len(stack'[t]) = n /\ DOMAIN stack'[t] = 1 .. n
    /\ \A k \in 1 .. n : stack'[t][k] = stack[t][k]

ReceiveShape(t, n) ==
    /\ TopFrame(t) = stack[t][n + 1] /\ TopFrame(t).id \in Id
    /\ GetsLeft(t) /\ NextGet(t) \in Id /\ cell[NextGet(t)] = "ready"
    /\ UNCHANGED <<recipe, cell, built, parts, builtAt, epoch>>
    /\ \A u \in Thread \ {t} : stack'[u] = stack[u]
    /\ Len(stack[t]) = n + 1 /\ DOMAIN stack[t] = 1 .. n + 1
    /\ Len(stack'[t]) = n + 1 /\ DOMAIN stack'[t] = 1 .. n + 1
    /\ \A k \in 1 .. n : stack'[t][k] = stack[t][k]
    /\ stack'[t][n + 1].id = stack[t][n + 1].id
    /\ stack'[t][n + 1].got = Append(stack[t][n + 1].got, built[NextGet(t)])

LEMMA RegisterFacts ==
    ASSUME TypeOK, Shape, NEW i \in Id, Register(i) \/ RegisterInstance(i)
    PROVE  RegisterShape(i)
<1>1. /\ UNCHANGED calls /\ epoch' = epoch + 1 /\ validated' = FALSE
      /\ \A t \in Thread : pc[t] = "idle"
  BY DEF Register, RegisterInstance
<1>2. \A t \in Thread : stack[t] = <<>> /\ stack'[t] = <<>>
  BY <1>1 DEF Shape, ShapeOf, calls
<1>3. /\ cell'[i] \in {"empty", "ready"}
      /\ \A j \in Id \ {i} : cell'[j] = cell[j] /\ recipe'[j] = recipe[j]
  <2>1. CASE Register(i)
    BY <2>1 DEF Register, TypeOK
  <2>2. CASE RegisterInstance(i)
    BY <2>2 DEF RegisterInstance, TypeOK
  <2> QED
    BY <2>1, <2>2
<1> QED
  BY <1>1, <1>2, <1>3 DEF RegisterShape

LEMMA StartFacts ==
    ASSUME TypeOK, Shape, NEW t \in Thread, StartFactory(t)
    PROVE  StartShape(t)
<1>1. Want(t) \in Id /\ cell[Want(t)] = "empty"
  BY WantFacts DEF StartFactory
<1>2. stack[t] \in Seq(FrameType) /\ DOMAIN stack[t] = 1 .. Len(stack[t]) /\ Len(stack[t]) \in Nat
  BY FrameFacts
<1>3. stack'[t] = Append(stack[t], [id |-> Want(t), got |-> <<>>])
      /\ \A u \in Thread \ {t} : stack'[u] = stack[u]
  BY DEF StartFactory, TypeOK
<1>4. /\ stack'[t] \in Seq(FrameType) /\ Len(stack'[t]) = Len(stack[t]) + 1
      /\ \A k \in 1 .. Len(stack[t]) : stack'[t][k] = stack[t][k]
      /\ stack'[t][Len(stack[t]) + 1] = [id |-> Want(t), got |-> <<>>]
  BY <1>1, <1>2, <1>3, PushFacts
<1>5. DOMAIN stack'[t] = 1 .. Len(stack[t]) + 1
  BY <1>4
<1>6. /\ cell'[Want(t)] = "running"
      /\ \A i \in Id \ {Want(t)} : cell'[i] = cell[i]
      /\ UNCHANGED <<recipe, built, parts, builtAt, epoch>>
  BY <1>1 DEF StartFactory, TypeOK
<1> QED
  BY <1>1, <1>2, <1>3, <1>4, <1>5, <1>6 DEF StartShape

LEMMA PopFacts ==
    ASSUME TypeOK, Shape, NEW t \in Thread, FactoryReturns(t) \/ Popped(t),
           NEW n \in Nat, Len(stack[t]) = n + 1
    PROVE  PopShape(t, n)
<1>1. stack[t] \in Seq(FrameType) /\ stack[t] # <<>> /\ DOMAIN stack[t] = 1 .. n + 1
  BY FrameFacts, EmptySeq
<1>2. stack'[t] = Front(stack[t]) /\ \A u \in Thread \ {t} : stack'[u] = stack[u]
  BY DEF FactoryReturns, Popped, LeaveCell, TypeOK
<1>3. n = Len(stack[t]) - 1
  OBVIOUS
<1>4. /\ stack'[t] \in Seq(FrameType) /\ Len(stack'[t]) = n
      /\ \A k \in 1 .. n : stack'[t][k] = stack[t][k]
  BY <1>1, <1>2, <1>3, PopProperties
<1>5. DOMAIN stack'[t] = 1 .. n
  BY <1>4
<1>6. TopFrame(t).id \in Id /\ TopFrame(t) = stack[t][n + 1]
  BY <1>1, TopFacts
<1>7. /\ cell'[TopFrame(t).id] \in {"empty", "ready"}
      /\ \A i \in Id \ {TopFrame(t).id} : cell'[i] = cell[i]
      /\ UNCHANGED <<recipe, epoch>>
  BY <1>6 DEF FactoryReturns, Popped, LeaveCell, TypeOK
<1> QED
  BY <1>1, <1>2, <1>4, <1>5, <1>6, <1>7 DEF PopShape

LEMMA ReceiveFacts ==
    ASSUME TypeOK, Shape, NEW t \in Thread, ReceivePart(t),
           NEW n \in Nat, Len(stack[t]) = n + 1
    PROVE  ReceiveShape(t, n)
<1>1. stack[t] \in Seq(FrameType) /\ stack[t] # <<>> /\ DOMAIN stack[t] = 1 .. n + 1
  BY FrameFacts, EmptySeq
<1>2. GetsLeft(t) /\ cell[NextGet(t)] = "ready"
  BY <1>1 DEF ReceivePart, Shape, ShapeOf
<1>3. /\ TopFrame(t) = stack[t][n + 1] /\ TopFrame(t).id \in Id
      /\ NextGet(t) \in Id
  BY <1>1, <1>2, TopFacts, NextGetFacts
<1>4. built[NextGet(t)] \in Nat
  BY <1>3 DEF TypeOK
<1>5. /\ stack'[t] = Deliver(stack[t], built[NextGet(t)])
      /\ \A u \in Thread \ {t} : stack'[u] = stack[u]
      /\ UNCHANGED registry
  BY DEF ReceivePart, TypeOK
<1>6. /\ stack'[t] \in Seq(FrameType) /\ Len(stack'[t]) = n + 1
      /\ \A k \in 1 .. n : stack'[t][k] = stack[t][k]
      /\ stack'[t][n + 1].id = stack[t][n + 1].id
      /\ stack'[t][n + 1].got = Append(stack[t][n + 1].got, built[NextGet(t)])
  BY <1>1, <1>4, <1>5, DeliverFacts
<1>7. DOMAIN stack'[t] = 1 .. n + 1
  BY <1>6
<1> QED
  BY <1>1, <1>2, <1>3, <1>5, <1>6, <1>7 DEF ReceiveShape, registry

LEMMA PopExists ==
    ASSUME TypeOK, Shape, NEW t \in Thread, FactoryReturns(t) \/ Popped(t)
    PROVE  \E n \in Nat : PopShape(t, n)
<1>1. stack[t] # <<>>
  BY DEF FactoryReturns, Popped, LeaveCell, Shape, ShapeOf
<1> QED
  BY <1>1, TopFacts, PopFacts

LEMMA ReceiveExists ==
    ASSUME TypeOK, Shape, NEW t \in Thread, ReceivePart(t)
    PROVE  \E n \in Nat : ReceiveShape(t, n)
<1>1. stack[t] # <<>>
  BY DEF ReceivePart
<1> QED
  BY <1>1, TopFacts, ReceiveFacts

-----------------------------------------------------------------------------
LEMMA RunningIsOwnedStep ==
    ASSUME TypeOK, Shape, RunningIsOwned, [Next]_vars
    PROVE  RunningIsOwned'
<1>1. ASSUME NEW i \in Id, Register(i) \/ RegisterInstance(i) PROVE RunningIsOwned'
  <2>1. RegisterShape(i)
    BY <1>1, RegisterFacts
  <2>2. \A t \in Thread : DOMAIN stack'[t] = {} /\ DOMAIN stack[t] = {}
    BY <2>1 DEF RegisterShape
  <2>3. \A t \in Thread : OnStack(t) = {} /\ OnStack(t)' = {}
    BY <2>2 DEF OnStack
  <2>4. \A j \in Id : cell[j] # "running"
    BY <2>3 DEF RunningIsOwned
  <2>5. \A j \in Id : cell'[j] # "running"
    BY <2>1, <2>4 DEF RegisterShape
  <2> QED
    BY <2>2, <2>3, <2>5 DEF RunningIsOwned
<1>2. ASSUME NEW t \in Thread, StartFactory(t) PROVE RunningIsOwned'
  <2> DEFINE w == Want(t)
             n == Len(stack[t])
  <2>0. StartShape(t)
    BY <1>2, StartFacts
  <2>1. \A u \in Thread : w \notin OnStack(u)
    BY <2>0 DEF RunningIsOwned, StartShape
  <2>2. \A u \in Thread \ {t} : OnStack(u)' = OnStack(u)
    BY <2>0 DEF OnStack, StartShape
  <2>3. OnStack(t)' = OnStack(t) \union {w}
    <3>1. DOMAIN stack'[t] = (DOMAIN stack[t]) \union {n + 1}
      BY <2>0 DEF StartShape
    <3>2. \A k \in DOMAIN stack[t] : stack'[t][k].id = stack[t][k].id
      BY <2>0 DEF StartShape
    <3>3. stack'[t][n + 1].id = w
      BY <2>0 DEF StartShape
    <3> QED
      BY <3>1, <3>2, <3>3 DEF OnStack
  <2>4. \A i \in Id : cell'[i] = "running" <=> \E u \in Thread : i \in OnStack(u)'
    <3>1. ASSUME NEW i \in Id, i # w
          PROVE  cell'[i] = "running" <=> \E u \in Thread : i \in OnStack(u)'
      <4>1. cell'[i] = cell[i]
        BY <2>0, <3>1 DEF StartShape
      <4>2. \A u \in Thread : i \in OnStack(u)' <=> i \in OnStack(u)
        BY <2>2, <2>3, <3>1
      <4> QED
        BY <4>1, <4>2 DEF RunningIsOwned
    <3>2. cell'[w] = "running" /\ w \in OnStack(t)'
      BY <2>0, <2>3 DEF StartShape
    <3> QED
      BY <3>1, <3>2
  <2>5. ASSUME NEW u \in Thread, NEW v \in Thread,
               NEW j \in DOMAIN stack'[u], NEW k \in DOMAIN stack'[v],
               stack'[u][j].id = stack'[v][k].id
        PROVE  u = v /\ j = k
    <3>1. ASSUME NEW x \in Thread, NEW h \in DOMAIN stack'[x]
          PROVE  \/ x = t /\ h = n + 1 /\ stack'[x][h].id = w
                 \/ h \in DOMAIN stack[x] /\ stack'[x][h].id = stack[x][h].id
                    /\ stack[x][h].id # w
      <4>1. CASE x # t
        BY <2>0, <2>1, <4>1 DEF StartShape, OnStack
      <4>2. CASE x = t /\ h = n + 1
        BY <2>0, <4>2 DEF StartShape
      <4>3. CASE x = t /\ h \in 1 .. n
        BY <2>0, <2>1, <4>3 DEF StartShape, OnStack
      <4>4. x = t => h = n + 1 \/ h \in 1 .. n
        BY <2>0 DEF StartShape
      <4> QED
        BY <4>1, <4>2, <4>3, <4>4
    <3>2. \/ u = t /\ j = n + 1 /\ v = t /\ k = n + 1
          \/ /\ j \in DOMAIN stack[u] /\ k \in DOMAIN stack[v]
             /\ stack[u][j].id = stack[v][k].id
      BY <2>5, <3>1
    <3> QED
      BY <3>2 DEF RunningIsOwned
  <2> QED
    BY <2>4, <2>5 DEF RunningIsOwned
<1>3. ASSUME NEW t \in Thread, FactoryReturns(t) \/ Popped(t) PROVE RunningIsOwned'
  <2> DEFINE j == TopFrame(t).id
  <2>1. PICK n \in Nat : PopShape(t, n)
    BY <1>3, PopExists
  <2>2. n + 1 \in DOMAIN stack[t] /\ stack[t][n + 1].id = j
    BY <2>1 DEF PopShape
  <2>3. \A u \in Thread : \A k \in DOMAIN stack[u] :
            stack[u][k].id = j => u = t /\ k = n + 1
    BY <2>2 DEF RunningIsOwned
  <2>4. \A u \in Thread \ {t} : OnStack(u)' = OnStack(u) /\ j \notin OnStack(u)
    BY <2>1, <2>3 DEF OnStack, PopShape
  <2>5. OnStack(t)' = OnStack(t) \ {j}
    <3>1. DOMAIN stack[t] = (DOMAIN stack'[t]) \union {n + 1} /\ n + 1 \notin DOMAIN stack'[t]
      BY <2>1 DEF PopShape
    <3>2. \A k \in DOMAIN stack'[t] : stack'[t][k] = stack[t][k]
      BY <2>1 DEF PopShape
    <3>3. \A k \in DOMAIN stack'[t] : stack[t][k].id # j
      BY <2>3, <3>1
    <3> QED
      BY <2>2, <3>1, <3>2, <3>3 DEF OnStack
  <2>6. \A i \in Id : cell'[i] = "running" <=> \E u \in Thread : i \in OnStack(u)'
    <3>1. ASSUME NEW i \in Id, i # j
          PROVE  cell'[i] = "running" <=> \E u \in Thread : i \in OnStack(u)'
      <4>1. cell'[i] = cell[i]
        BY <2>1, <3>1 DEF PopShape
      <4>2. \A u \in Thread : i \in OnStack(u)' <=> i \in OnStack(u)
        BY <2>4, <2>5, <3>1
      <4> QED
        BY <4>1, <4>2 DEF RunningIsOwned
    <3>2. cell'[j] # "running"
      BY <2>1 DEF PopShape
    <3>3. \A u \in Thread : j \notin OnStack(u)'
      BY <2>4, <2>5
    <3> QED
      BY <3>1, <3>2, <3>3
  <2>7. ASSUME NEW u \in Thread, NEW k \in DOMAIN stack'[u]
        PROVE  k \in DOMAIN stack[u] /\ stack'[u][k] = stack[u][k]
    <3>1. CASE u # t
      BY <2>1, <3>1 DEF PopShape
    <3>2. CASE u = t
      BY <2>1, <3>2 DEF PopShape
    <3> QED
      BY <3>1, <3>2
  <2> QED
    BY <2>6, <2>7 DEF RunningIsOwned
<1>4. ASSUME NEW t \in Thread, ReceivePart(t) PROVE RunningIsOwned'
  <2>1. PICK n \in Nat : ReceiveShape(t, n)
    BY <1>4, ReceiveExists
  <2>2. ASSUME NEW u \in Thread
        PROVE  /\ DOMAIN stack'[u] = DOMAIN stack[u]
               /\ \A k \in DOMAIN stack[u] : stack'[u][k].id = stack[u][k].id
    <3>1. CASE u # t
      BY <2>1, <3>1 DEF ReceiveShape
    <3>2. CASE u = t
      <4>1. \A k \in 1 .. n + 1 : k = n + 1 \/ k \in 1 .. n
        OBVIOUS
      <4> QED
        BY <2>1, <3>2, <4>1 DEF ReceiveShape
    <3> QED
      BY <3>1, <3>2
  <2>3. \A u \in Thread : OnStack(u)' = OnStack(u)
    BY <2>2 DEF OnStack
  <2>4. cell' = cell
    BY <2>1 DEF ReceiveShape
  <2> QED
    BY <2>2, <2>3, <2>4 DEF RunningIsOwned
<1>5. CASE UNCHANGED <<registry, stack>>
  BY <1>5 DEF RunningIsOwned, OnStack, registry
<1> QED
  BY <1>1, <1>2, <1>3, <1>4, <1>5, StepKinds

LEMMA StackFollowsGetsStep ==
    ASSUME TypeOK, Shape, StackFollowsGets, [Next]_vars
    PROVE  StackFollowsGets'
<1> DEFINE Link(f, g) == /\ Len(f.got) < Len(recipe'[f.id].gets)
                         /\ g.id = recipe'[f.id].gets[Len(f.got) + 1]
<1> SUFFICES ASSUME NEW u \in Thread, NEW k \in 1 .. Len(stack'[u]) - 1
             PROVE  Link(stack'[u][k], stack'[u][k + 1])
  BY DEF StackFollowsGets
<1>1. ASSUME recipe' = recipe, stack'[u] = stack[u] PROVE Link(stack'[u][k], stack'[u][k + 1])
  BY <1>1 DEF StackFollowsGets
<1>2. ASSUME NEW i \in Id, Register(i) \/ RegisterInstance(i) PROVE FALSE
  <2>1. stack'[u] = <<>>
    BY <1>2, RegisterFacts DEF RegisterShape
  <2> QED
    BY <2>1
<1>3. ASSUME NEW t \in Thread, StartFactory(t) PROVE Link(stack'[u][k], stack'[u][k + 1])
  <2>0. StartShape(t)
    BY <1>3, StartFacts
  <2>1. recipe' = recipe /\ Len(stack[t]) \in Nat
    BY <2>0 DEF StartShape
  <2>2. CASE u # t
    BY <1>1, <2>0, <2>1, <2>2 DEF StartShape
  <2>3. CASE u = t /\ k < Len(stack[t])
    <3>1. k \in 1 .. Len(stack[t]) - 1 /\ k \in 1 .. Len(stack[t]) /\ k + 1 \in 1 .. Len(stack[t])
      BY <2>1, <2>3
    <3>2. stack'[u][k] = stack[t][k] /\ stack'[u][k + 1] = stack[t][k + 1]
      BY <2>0, <2>3, <3>1 DEF StartShape
    <3> QED
      BY <2>1, <3>1, <3>2 DEF StackFollowsGets
  <2>4. CASE u = t /\ k = Len(stack[t])
    <3>1. k \in 1 .. Len(stack[t]) /\ stack[t] # <<>>
      BY <2>1, <2>4, FrameFacts
    <3>2. stack'[u][k] = TopFrame(t)
      BY <2>0, <2>4, <3>1 DEF StartShape, TopFrame, Last
    <3>3. stack'[u][k + 1].id = NextGet(t)
      BY <2>0, <2>4, <3>1 DEF StartShape, Want
    <3>4. GetsLeft(t)
      BY <1>3, <3>1 DEF StartFactory, Shape, ShapeOf
    <3> QED
      BY <2>1, <3>2, <3>3, <3>4 DEF GetsLeft, NextGet
  <2>5. u = t => k < Len(stack[t]) \/ k = Len(stack[t])
    BY <2>0, <2>1 DEF StartShape
  <2> QED
    BY <2>2, <2>3, <2>4, <2>5
<1>4. ASSUME NEW t \in Thread, FactoryReturns(t) \/ Popped(t)
      PROVE  Link(stack'[u][k], stack'[u][k + 1])
  <2>1. PICK n \in Nat : PopShape(t, n)
    BY <1>4, PopExists
  <2>2. recipe' = recipe
    BY <2>1 DEF PopShape
  <2>3. CASE u # t
    BY <1>1, <2>1, <2>2, <2>3 DEF PopShape
  <2>4. CASE u = t
    <3>0. Len(stack'[t]) = n /\ Len(stack[t]) = n + 1
      BY <2>1 DEF PopShape
    <3>1. k \in 1 .. n /\ k + 1 \in 1 .. n /\ k \in 1 .. Len(stack[t]) - 1
      BY <2>4, <3>0
    <3>2. stack'[u][k] = stack[t][k] /\ stack'[u][k + 1] = stack[t][k + 1]
      BY <2>1, <2>4, <3>1 DEF PopShape
    <3> QED
      BY <2>2, <3>1, <3>2 DEF StackFollowsGets
  <2> QED
    BY <2>3, <2>4
<1>5. ASSUME NEW t \in Thread, ReceivePart(t)
      PROVE  Link(stack'[u][k], stack'[u][k + 1])
  <2>1. PICK n \in Nat : ReceiveShape(t, n)
    BY <1>5, ReceiveExists
  <2>2. recipe' = recipe
    BY <2>1 DEF ReceiveShape
  <2>3. CASE u # t
    BY <1>1, <2>1, <2>2, <2>3 DEF ReceiveShape
  <2>4. CASE u = t
    <3>0. Len(stack'[t]) = n + 1 /\ Len(stack[t]) = n + 1
      BY <2>1 DEF ReceiveShape
    <3>1. k \in 1 .. n /\ k + 1 \in 1 .. n + 1 /\ k \in 1 .. Len(stack[t]) - 1
      BY <2>4, <3>0
    <3>2. stack'[u][k] = stack[t][k]
      BY <2>1, <2>4, <3>1 DEF ReceiveShape
    <3>3. stack'[u][k + 1].id = stack[t][k + 1].id
      <4>1. k + 1 = n + 1 \/ k + 1 \in 1 .. n
        BY <3>1
      <4> QED
        BY <2>1, <2>4, <4>1 DEF ReceiveShape
    <3> QED
      BY <2>2, <3>1, <3>2, <3>3 DEF StackFollowsGets
  <2> QED
    BY <2>3, <2>4
<1>6. CASE UNCHANGED <<registry, stack>>
  BY <1>1, <1>6 DEF registry
<1> QED
  BY <1>2, <1>3, <1>4, <1>5, <1>6, StepKinds

LEMMA FrameBoundStep ==
    ASSUME TypeOK, Shape, FrameBound, [Next]_vars
    PROVE  FrameBound'
<1> DEFINE Bound(f) == Len(f.got) <= Len(recipe'[f.id].gets)
           Frames == \A u \in Thread : \A k \in 1 .. Len(stack'[u]) : Bound(stack'[u][k])
           Stamps == \A i \in Id : builtAt'[i] <= epoch'
<1> SUFFICES Frames /\ Stamps
  BY DEF FrameBound
<1>1. ASSUME recipe' = recipe, NEW u \in Thread, stack'[u] = stack[u],
             NEW k \in 1 .. Len(stack'[u])
      PROVE  Bound(stack'[u][k])
  BY <1>1 DEF FrameBound
<1>2. ASSUME builtAt' = builtAt, epoch' = epoch PROVE Stamps
  BY <1>2 DEF FrameBound
<1>3. ASSUME NEW i \in Id, Register(i) \/ RegisterInstance(i) PROVE Frames /\ Stamps
  <2>1. RegisterShape(i)
    BY <1>3, RegisterFacts
  <2>2. Frames
    BY <2>1 DEF RegisterShape
  <2>3. epoch \in Nat /\ epoch' = epoch + 1
    BY <2>1 DEF RegisterShape, TypeOK
  <2>4. \A j \in Id : builtAt[j] \in Nat /\ builtAt[j] <= epoch
    BY DEF TypeOK, FrameBound
  <2>5. \A j \in Id : builtAt'[j] = builtAt[j] \/ builtAt'[j] = epoch'
    BY <1>3 DEF Register, RegisterInstance, TypeOK
  <2>6. Stamps
    BY <2>3, <2>4, <2>5
  <2> QED
    BY <2>2, <2>6
<1>4. ASSUME NEW t \in Thread, StartFactory(t) PROVE Frames /\ Stamps
  <2>0. StartShape(t)
    BY <1>4, StartFacts
  <2>1. recipe' = recipe /\ Len(stack[t]) \in Nat
    BY <2>0 DEF StartShape
  <2>2. ASSUME NEW u \in Thread, NEW k \in 1 .. Len(stack'[u]) PROVE Bound(stack'[u][k])
    <3>1. CASE u # t
      BY <1>1, <2>0, <2>1, <3>1 DEF StartShape
    <3>2. CASE u = t /\ k \in 1 .. Len(stack[t])
      BY <2>0, <2>1, <3>2 DEF StartShape, FrameBound
    <3>3. CASE u = t /\ k = Len(stack[t]) + 1
      <4>1. stack'[u][k].id \in Id /\ stack'[u][k].got = <<>>
        BY <2>0, <3>3 DEF StartShape
      <4>2. Len(recipe[stack'[u][k].id].gets) \in Nat
        BY <4>1, RecipeFacts
      <4> QED
        BY <2>1, <4>1, <4>2
    <3>4. u = t => k \in 1 .. Len(stack[t]) \/ k = Len(stack[t]) + 1
      BY <2>0, <2>1 DEF StartShape
    <3> QED
      BY <3>1, <3>2, <3>3, <3>4
  <2> QED
    BY <1>2, <2>0, <2>2 DEF StartShape
<1>5. ASSUME NEW t \in Thread, FactoryReturns(t) \/ Popped(t) PROVE Frames /\ Stamps
  <2>1. PICK n \in Nat : PopShape(t, n)
    BY <1>5, PopExists
  <2>2. recipe' = recipe /\ epoch' = epoch
    BY <2>1 DEF PopShape
  <2>3. ASSUME NEW u \in Thread, NEW k \in 1 .. Len(stack'[u]) PROVE Bound(stack'[u][k])
    <3>1. CASE u # t
      BY <1>1, <2>1, <2>2, <3>1 DEF PopShape
    <3>2. CASE u = t
      <4>1. k \in 1 .. n /\ k \in 1 .. Len(stack[t])
        BY <2>1, <3>2 DEF PopShape
      <4> QED
        BY <2>1, <2>2, <3>2, <4>1 DEF PopShape, FrameBound
    <3> QED
      BY <3>1, <3>2
  <2>4. \A i \in Id : builtAt'[i] = builtAt[i] \/ builtAt'[i] = epoch
    BY <1>5, <2>1 DEF FactoryReturns, Popped, TypeOK, PopShape
  <2>5. \A i \in Id : builtAt[i] <= epoch /\ epoch <= epoch
    BY DEF FrameBound, TypeOK
  <2>6. Stamps
    BY <2>2, <2>4, <2>5
  <2> QED
    BY <2>3, <2>6
<1>6. ASSUME NEW t \in Thread, ReceivePart(t) PROVE Frames /\ Stamps
  <2>1. PICK n \in Nat : ReceiveShape(t, n)
    BY <1>6, ReceiveExists
  <2>2. recipe' = recipe
    BY <2>1 DEF ReceiveShape
  <2>3. ASSUME NEW u \in Thread, NEW k \in 1 .. Len(stack'[u]) PROVE Bound(stack'[u][k])
    <3>1. CASE u # t
      BY <1>1, <2>1, <2>2, <3>1 DEF ReceiveShape
    <3>2. CASE u = t /\ k \in 1 .. n
      BY <2>1, <2>2, <3>2 DEF ReceiveShape, FrameBound
    <3>3. CASE u = t /\ k = n + 1
      <4>1. /\ stack'[u][k].id = TopFrame(t).id
            /\ stack'[u][k].got = Append(TopFrame(t).got, built[NextGet(t)])
        BY <2>1, <3>3 DEF ReceiveShape
      <4>2. Len(TopFrame(t).got) + 1 \in 1 .. Len(recipe[TopFrame(t).id].gets)
        BY <1>6, <2>1, NextGetFacts DEF ReceivePart, ReceiveShape
      <4>3. TopFrame(t).got \in Seq(Nat) /\ built[NextGet(t)] \in Nat
        BY <1>6, <2>1, TopFacts DEF ReceivePart, ReceiveShape, TypeOK
      <4>4. Len(Append(TopFrame(t).got, built[NextGet(t)])) = Len(TopFrame(t).got) + 1
        BY <4>3, AppendProperties
      <4> QED
        BY <2>2, <4>1, <4>2, <4>4
    <3>4. u = t => k \in 1 .. n \/ k = n + 1
      BY <2>1 DEF ReceiveShape
    <3> QED
      BY <3>1, <3>2, <3>3, <3>4
  <2> QED
    BY <1>2, <2>1, <2>3 DEF ReceiveShape
<1>7. CASE UNCHANGED <<registry, stack>>
  BY <1>1, <1>2, <1>7 DEF registry
<1> QED
  BY <1>3, <1>4, <1>5, <1>6, <1>7, StepKinds
-----------------------------------------------------------------------------
(* No step but a registration takes an instance away or replaces it, or adds   *)
(* an id, so the parts a factory has received stay the container's own.       *)
Keeps ==
    /\ recipe' = recipe
    /\ \A x \in Id : cell[x] = "ready" => cell'[x] = "ready" /\ built'[x] = built[x]
    /\ \A x \in Id : cell'[x] = "absent" <=> cell[x] = "absent"

StillCurrent(i, got) ==
    \A k \in DOMAIN got :
        /\ cell'[recipe'[i].gets[k]] = "ready"
        /\ got[k] = built'[recipe'[i].gets[k]]

LEMMA PartsKept ==
    ASSUME TypeOK, Keeps, NEW i \in Id, NEW got \in Seq(Nat),
           Len(got) <= Len(recipe[i].gets), CurrentParts(i, got)
    PROVE  StillCurrent(i, got)
<1> SUFFICES ASSUME NEW k \in DOMAIN got
             PROVE  /\ cell'[recipe'[i].gets[k]] = "ready"
                    /\ got[k] = built'[recipe'[i].gets[k]]
  BY DEF StillCurrent
<1>1. k \in 1 .. Len(recipe[i].gets)
  <2>1. k \in 1 .. Len(got) /\ Len(got) \in Nat
    OBVIOUS
  <2> QED
    BY <2>1, RecipeFacts
<1>2. recipe[i].gets[k] \in Id
  BY <1>1, RecipeFacts
<1>3. cell[recipe[i].gets[k]] = "ready" /\ got[k] = built[recipe[i].gets[k]]
  BY DEF CurrentParts
<1> QED
  BY <1>2, <1>3 DEF Keeps

LEMMA RunningTop ==
    ASSUME TypeOK, Shape, RunningIsOwned, NEW t \in Thread, NEW n \in Nat, PopShape(t, n)
    PROVE  cell[TopFrame(t).id] = "running"
<1>1. n + 1 \in DOMAIN stack[t] /\ stack[t][n + 1].id = TopFrame(t).id /\ TopFrame(t).id \in Id
  BY DEF PopShape
<1>2. TopFrame(t).id \in OnStack(t)
  BY <1>1 DEF OnStack
<1> QED
  BY <1>1, <1>2 DEF RunningIsOwned

LEMMA KeepsStep ==
    ASSUME TypeOK, Shape, RunningIsOwned, [Next]_vars
    PROVE  Keeps \/ \E i \in Id : Register(i) \/ RegisterInstance(i)
<1>1. ASSUME NEW t \in Thread, StartFactory(t) PROVE Keeps
  <2>1. StartShape(t)
    BY <1>1, StartFacts
  <2> QED
    BY <2>1 DEF StartShape, Keeps
<1>2. ASSUME NEW t \in Thread, FactoryReturns(t) \/ Popped(t) PROVE Keeps
  <2>1. PICK n \in Nat : PopShape(t, n)
    BY <1>2, PopExists
  <2>2. cell[TopFrame(t).id] = "running"
    BY <2>1, RunningTop
  <2>3. \A x \in Id \ {TopFrame(t).id} : built'[x] = built[x]
    BY <1>2, <2>1 DEF FactoryReturns, Popped, PopShape, TypeOK
  <2> QED
    BY <2>1, <2>2, <2>3 DEF PopShape, Keeps
<1>3. ASSUME NEW t \in Thread, ReceivePart(t) PROVE Keeps
  BY <1>3 DEF ReceivePart, registry, Keeps
<1>4. CASE UNCHANGED <<registry, stack>>
  BY <1>4 DEF registry, Keeps
<1> QED
  BY <1>1, <1>2, <1>3, <1>4, StepKinds

LEMMA PartsAreCurrentStep ==
    ASSUME TypeOK, Shape, FrameBound, RunningIsOwned, PartsAreCurrent, [Next]_vars
    PROVE  PartsAreCurrent'
<1> DEFINE Sound(i) == cell'[i] = "ready" /\ builtAt'[i] = epoch' =>
                          /\ Len(parts'[i]) = Len(recipe'[i].gets)
                          /\ StillCurrent(i, parts'[i])
           Instances == \A i \in Id : Sound(i)
           Frames == \A u \in Thread : \A k \in DOMAIN stack'[u] :
                         StillCurrent(stack'[u][k].id, stack'[u][k].got)
<1> SUFFICES Instances /\ Frames
  BY DEF PartsAreCurrent, StillCurrent, CurrentParts
<1>1. ASSUME Keeps, NEW i \in Id, cell[i] = "ready", cell'[i] = "ready",
             builtAt'[i] = builtAt[i], parts'[i] = parts[i], epoch' = epoch
      PROVE  Sound(i)
  <2> SUFFICES ASSUME builtAt[i] = epoch
               PROVE  Len(parts[i]) = Len(recipe'[i].gets) /\ StillCurrent(i, parts[i])
    BY <1>1
  <2>1. Len(parts[i]) = Len(recipe[i].gets) /\ CurrentParts(i, parts[i])
    BY <1>1 DEF PartsAreCurrent
  <2>2. parts[i] \in Seq(Nat) /\ Len(recipe[i].gets) \in Nat
    BY RecipeFacts DEF TypeOK
  <2>3. StillCurrent(i, parts[i])
    BY <1>1, <2>1, <2>2, PartsKept
  <2> QED
    BY <1>1, <2>1, <2>3 DEF Keeps
<1>2. ASSUME Keeps, NEW u \in Thread, NEW k \in 1 .. Len(stack[u])
      PROVE  StillCurrent(stack[u][k].id, stack[u][k].got)
  <2>1. stack[u][k].id \in Id /\ stack[u][k].got \in Seq(Nat) /\ k \in DOMAIN stack[u]
    BY FrameFacts
  <2>2. Len(stack[u][k].got) <= Len(recipe[stack[u][k].id].gets)
    BY DEF FrameBound
  <2>3. CurrentParts(stack[u][k].id, stack[u][k].got)
    BY <2>1 DEF PartsAreCurrent
  <2> QED
    BY <1>2, <2>1, <2>2, <2>3, PartsKept
<1>3. ASSUME NEW i \in Id, Register(i) \/ RegisterInstance(i) PROVE Instances /\ Frames
  <2>1. RegisterShape(i)
    BY <1>3, RegisterFacts
  <2>2. Frames
    BY <2>1 DEF RegisterShape
  <2>3. \A j \in Id : builtAt[j] \in Nat /\ epoch \in Nat /\ builtAt[j] <= epoch /\ epoch' = epoch + 1
    BY <2>1 DEF TypeOK, FrameBound, RegisterShape
  <2>4. \A j \in Id : builtAt[j] # epoch'
    BY <2>3
  <2>5. CASE Register(i)
    BY <2>2, <2>4, <2>5 DEF Register
  <2>6. CASE RegisterInstance(i)
    <3>1. recipe'[i].gets = <<>> /\ parts'[i] = <<>>
      BY <2>6 DEF RegisterInstance, TypeOK, NoRecipe
    <3>2. \A j \in Id \ {i} : builtAt'[j] = builtAt[j]
      BY <2>6 DEF RegisterInstance, TypeOK
    <3>3. Sound(i)
      BY <3>1 DEF StillCurrent
    <3> QED
      BY <2>2, <2>4, <3>2, <3>3
  <2> QED
    BY <1>3, <2>5, <2>6
<1>4. ASSUME NEW t \in Thread, StartFactory(t) PROVE Instances /\ Frames
  <2>1. StartShape(t)
    BY <1>4, StartFacts
  <2>2. Keeps
    BY <2>1 DEF StartShape, Keeps
  <2>3. ASSUME NEW i \in Id, cell'[i] = "ready" PROVE Sound(i)
    <3>1. /\ cell[i] = "ready" /\ builtAt' = builtAt /\ parts' = parts /\ epoch' = epoch
      BY <2>1, <2>3 DEF StartShape
    <3> QED
      BY <1>1, <2>2, <2>3, <3>1
  <2>4. ASSUME NEW u \in Thread, NEW k \in DOMAIN stack'[u]
        PROVE  StillCurrent(stack'[u][k].id, stack'[u][k].got)
    <3>1. CASE u # t
      BY <1>2, <2>1, <2>2, <3>1, FrameFacts DEF StartShape
    <3>2. CASE u = t /\ k \in 1 .. Len(stack[t])
      BY <1>2, <2>1, <2>2, <3>2 DEF StartShape
    <3>3. CASE u = t /\ k = Len(stack[t]) + 1
      <4>1. stack'[u][k].got = <<>>
        BY <2>1, <3>3 DEF StartShape
      <4> QED
        BY <4>1 DEF StillCurrent
    <3>4. u = t => k \in 1 .. Len(stack[t]) \/ k = Len(stack[t]) + 1
      BY <2>1 DEF StartShape
    <3> QED
      BY <3>1, <3>2, <3>3, <3>4
  <2> QED
    BY <2>3, <2>4
<1>5. ASSUME NEW t \in Thread, FactoryReturns(t) \/ Popped(t) PROVE Instances /\ Frames
  <2> DEFINE j == TopFrame(t).id
  <2>1. PICK n \in Nat : PopShape(t, n)
    BY <1>5, PopExists
  <2>2. Keeps
    <3>1. \A i \in Id : ~(Register(i) \/ RegisterInstance(i))
      BY <1>5 DEF FactoryReturns, Popped, LeaveCell, Register, RegisterInstance
    <3> QED
      BY <3>1, KeepsStep
  <2>3. epoch' = epoch /\ \A i \in Id \ {j} : builtAt'[i] = builtAt[i] /\ parts'[i] = parts[i]
                                            /\ cell'[i] = cell[i]
    BY <1>5, <2>1 DEF FactoryReturns, Popped, PopShape, TypeOK
  <2>4. ASSUME NEW i \in Id, i # j, cell'[i] = "ready" PROVE Sound(i)
    BY <1>1, <2>2, <2>3, <2>4
  <2>5. Sound(j)
    <3>1. CASE Popped(t)
      <4>1. cell'[j] = "empty"
        BY <2>1, <3>1 DEF Popped, LeaveCell, TypeOK, PopShape
      <4> QED
        BY <4>1
    <3>2. CASE FactoryReturns(t)
      <4>1. j \in Id /\ j = stack[t][n + 1].id /\ n + 1 \in 1 .. Len(stack[t])
            /\ TopFrame(t) = stack[t][n + 1]
        BY <2>1 DEF PopShape
      <4>2. parts'[j] = TopFrame(t).got
        BY <3>2, <4>1 DEF FactoryReturns, TypeOK
      <4>3. StillCurrent(j, TopFrame(t).got)
        BY <1>2, <2>2, <4>1
      <4>4. Len(TopFrame(t).got) <= Len(recipe[j].gets)
        BY <4>1 DEF FrameBound
      <4>5. ~(Len(TopFrame(t).got) < Len(recipe[j].gets))
        BY <3>2 DEF FactoryReturns, GetsLeft
      <4>6. Len(TopFrame(t).got) \in Nat /\ Len(recipe[j].gets) \in Nat
        BY <4>1, FrameFacts, RecipeFacts
      <4>7. Len(TopFrame(t).got) = Len(recipe'[j].gets)
        BY <2>2, <4>4, <4>5, <4>6 DEF Keeps
      <4> QED
        BY <4>2, <4>3, <4>7
    <3> QED
      BY <1>5, <3>1, <3>2
  <2>6. ASSUME NEW u \in Thread, NEW k \in DOMAIN stack'[u]
        PROVE  k \in 1 .. Len(stack[u]) /\ stack'[u][k] = stack[u][k]
    <3>1. CASE u # t
      BY <2>1, <3>1, FrameFacts DEF PopShape
    <3>2. CASE u = t
      BY <2>1, <3>2 DEF PopShape
    <3> QED
      BY <3>1, <3>2
  <2>7. Frames
    BY <1>2, <2>2, <2>6
  <2> QED
    BY <2>4, <2>5, <2>7
<1>6. ASSUME NEW t \in Thread, ReceivePart(t) PROVE Instances /\ Frames
  <2> DEFINE x == built[NextGet(t)]
             g == TopFrame(t).got
             j == TopFrame(t).id
  <2>1. PICK n \in Nat : ReceiveShape(t, n)
    BY <1>6, ReceiveExists
  <2>2. Keeps
    BY <2>1 DEF ReceiveShape, Keeps
  <2>3. Instances
    BY <1>1, <2>1, <2>2 DEF ReceiveShape
  <2>4. ASSUME NEW u \in Thread, NEW k \in DOMAIN stack'[u]
        PROVE  StillCurrent(stack'[u][k].id, stack'[u][k].got)
    <3>1. CASE u # t
      BY <1>2, <2>1, <2>2, <3>1, FrameFacts DEF ReceiveShape
    <3>2. CASE u = t /\ k \in 1 .. n
      <4>1. k \in 1 .. Len(stack[t]) /\ stack'[u][k] = stack[t][k]
        BY <2>1, <3>2 DEF ReceiveShape
      <4> QED
        BY <1>2, <2>2, <3>2, <4>1
    <3>3. CASE u = t /\ k = n + 1
      <4>1. stack'[u][k].id = j /\ stack'[u][k].got = Append(g, x)
            /\ n + 1 \in 1 .. Len(stack[t]) /\ TopFrame(t) = stack[t][n + 1]
        BY <2>1, <3>3 DEF ReceiveShape
      <4>2. StillCurrent(j, g)
        BY <1>2, <2>2, <4>1
      <4>3. g \in Seq(Nat) /\ Len(g) \in Nat
        BY <4>1, FrameFacts
      <4>4. x \in Nat
        BY <2>1 DEF ReceiveShape, TypeOK
      <4>5. /\ DOMAIN Append(g, x) = 1 .. Len(g) + 1
            /\ Append(g, x)[Len(g) + 1] = x
            /\ \A h \in 1 .. Len(g) : h \in DOMAIN g /\ Append(g, x)[h] = g[h]
        BY <4>3, <4>4, AppendProperties
      <4>6. recipe'[j].gets[Len(g) + 1] = NextGet(t)
        BY <2>2 DEF NextGet, Keeps
      <4>7. cell'[NextGet(t)] = "ready" /\ x = built'[NextGet(t)]
        BY <2>1 DEF ReceiveShape
      <4>8. \A h \in DOMAIN Append(g, x) : h \in 1 .. Len(g) \/ h = Len(g) + 1
        BY <4>3, <4>5
      <4> HIDE DEF g, x, j
      <4>9. StillCurrent(j, Append(g, x))
        BY <4>2, <4>5, <4>6, <4>7, <4>8 DEF StillCurrent
      <4> QED
        BY <4>1, <4>9
    <3>4. u = t => k \in 1 .. n \/ k = n + 1
      BY <2>1 DEF ReceiveShape
    <3> QED
      BY <3>1, <3>2, <3>3, <3>4
  <2> QED
    BY <2>3, <2>4
<1>7. CASE UNCHANGED <<registry, stack>>
  <2>1. Keeps
    BY <1>7 DEF registry, Keeps
  <2>2. Instances
    BY <1>1, <1>7, <2>1 DEF registry
  <2>3. Frames
    BY <1>2, <1>7, <2>1, FrameFacts
  <2> QED
    BY <2>2, <2>3
<1> QED
  BY <1>3, <1>4, <1>5, <1>6, <1>7, StepKinds
-----------------------------------------------------------------------------
LEMMA ValidateProgressStep ==
    ASSUME TypeOK, Shape, RunningIsOwned, ValidateProgress, [Next]_vars
    PROVE  ValidateProgress'
<1> USE DEF registry, calls
<1> DEFINE Knows(u) == call'[u] = "validate" =>
               \A i \in Registered' :
                   i \in vtodo'[u] \/ i = goal'[u] \/ cell'[i] = "ready" \/ verrors'[u] # {}
<1> SUFFICES ASSUME NEW u \in Thread PROVE Knows(u)
  BY DEF ValidateProgress
<1>1. ASSUME NEW i \in Id, Register(i) \/ RegisterInstance(i) PROVE Knows(u)
  <2>1. pc[u] = "idle" /\ call'[u] = call[u]
    BY <1>1 DEF Register, RegisterInstance
  <2> QED
    BY <2>1 DEF Shape, ShapeOf
<1> SUFFICES ASSUME \A i \in Id : ~(Register(i) \/ RegisterInstance(i)) PROVE Knows(u)
  BY <1>1
<1>2. Keeps
  BY KeepsStep
<1>3. Registered' = Registered
  BY <1>2 DEF Keeps, Registered
<1>4. ASSUME call[u] = "validate", NEW i \in Registered
      PROVE  i \in vtodo[u] \/ i = goal[u] \/ cell'[i] = "ready" \/ verrors[u] # {}
  BY <1>2, <1>4 DEF Keeps, Registered, ValidateProgress
<1>5. ASSUME call'[u] = call[u], vtodo'[u] = vtodo[u], goal'[u] = goal[u], verrors'[u] = verrors[u]
      PROVE  Knows(u)
  BY <1>3, <1>4, <1>5
<1>6. ASSUME NEW t \in Thread, NEW i \in Id, BeginGet(t, i) PROVE Knows(u)
  <2>1. CASE u # t
    BY <1>5, <1>6, <2>1 DEF BeginGet, TypeOK
  <2>2. CASE u = t
    BY <1>6, <2>2 DEF BeginGet, TypeOK
  <2> QED
    BY <2>1, <2>2
<1>7. ASSUME NEW t \in Thread, RejectCycle(t) \/ FactoryPanics(t) PROVE Knows(u)
  BY <1>5, <1>7 DEF RejectCycle, FactoryPanics
<1>8. ASSUME NEW t \in Thread, BeginValidate(t) PROVE Knows(u)
  <2>1. CASE u # t
    BY <1>5, <1>8, <2>1 DEF BeginValidate, TypeOK
  <2>2. CASE u = t
    BY <1>3, <1>8, <2>2 DEF BeginValidate, TypeOK
  <2> QED
    BY <2>1, <2>2
<1>9. ASSUME NEW t \in Thread, ResolveMissing(t) \/ ReturnInstance(t) PROVE Knows(u)
  <2>1. CASE u # t
    BY <1>5, <1>9, <2>1 DEF ResolveMissing, ReturnInstance, TypeOK
  <2>2. CASE u = t
    <3>1. goal[u] \notin Registered \/ cell'[goal[u]] = "ready"
      BY <1>9, <2>2 DEF ResolveMissing, ReturnInstance, Registered
    <3>2. call'[u] = call[u] /\ vtodo'[u] = vtodo[u] /\ verrors'[u] = verrors[u]
      BY <1>9 DEF ResolveMissing, ReturnInstance
    <3> QED
      BY <1>3, <1>4, <3>1, <3>2
  <2> QED
    BY <2>1, <2>2
<1>10. ASSUME NEW t \in Thread,
              FactoryMissesPart(t) \/ ReceivePart(t) \/ StartFactory(t)
                \/ RequestPart(t) \/ FactoryReturns(t) \/ UnwindFactory(t)
       PROVE  Knows(u)
  BY <1>5, <1>10 DEF FactoryMissesPart, ReceivePart, StartFactory, RequestPart,
                     FactoryReturns, UnwindFactory
<1>11. ASSUME NEW t \in Thread, UnwindToCaller(t) PROVE Knows(u)
  <2>1. CASE u # t
    BY <1>5, <1>11, <2>1 DEF UnwindToCaller, TypeOK
  <2>2. CASE u = t
    BY <1>11, <2>2 DEF UnwindToCaller
  <2> QED
    BY <2>1, <2>2
<1>12. ASSUME NEW t \in Thread, UnwindToValidate(t) PROVE Knows(u)
  <2>1. CASE u # t
    BY <1>5, <1>12, <2>1 DEF UnwindToValidate, TypeOK
  <2>2. CASE u = t
    <3>1. goal[t] \in verrors'[t]
      BY <1>12 DEF UnwindToValidate, TypeOK
    <3> QED
      BY <2>2, <3>1
  <2> QED
    BY <2>1, <2>2
<1>13. ASSUME NEW t \in Thread, NEW i \in Id, ValidateSkip(t, i) PROVE Knows(u)
  <2>1. CASE u # t
    BY <1>5, <1>13, <2>1 DEF ValidateSkip, TypeOK
  <2>2. CASE u = t
    <3>1. /\ cell'[i] = "ready" /\ vtodo'[u] = vtodo[u] \ {i}
          /\ call'[u] = call[u] /\ goal'[u] = goal[u] /\ verrors'[u] = verrors[u]
      BY <1>13, <2>2 DEF ValidateSkip, TypeOK
    <3> QED
      BY <1>3, <1>4, <3>1
  <2> QED
    BY <2>1, <2>2
<1>14. ASSUME NEW t \in Thread, NEW i \in Id, ValidateResolve(t, i) PROVE Knows(u)
  <2>1. CASE u # t
    BY <1>5, <1>14, <2>1 DEF ValidateResolve, TypeOK
  <2>2. CASE u = t
    <3>1. /\ goal'[u] = i /\ vtodo'[u] = vtodo[u] \ {i}
          /\ call'[u] = call[u] /\ verrors'[u] = verrors[u]
      BY <1>14, <2>2 DEF ValidateResolve, TypeOK
    <3>2. goal[u] \notin Registered
      BY <1>14, <2>2, NoIdAssumption DEF ValidateResolve, Shape, ShapeOf, Registered
    <3> QED
      BY <1>3, <1>4, <3>1, <3>2
  <2> QED
    BY <2>1, <2>2
<1>15. ASSUME NEW t \in Thread, ValidateEnd(t) PROVE Knows(u)
  <2>1. CASE u # t
    BY <1>5, <1>15, <2>1 DEF ValidateEnd, TypeOK
  <2>2. CASE u = t
    BY <1>15, <2>2 DEF ValidateEnd, TypeOK
  <2> QED
    BY <2>1, <2>2
<1>16. CASE UNCHANGED vars
  BY <1>5, <1>16 DEF vars
<1> QED
  BY <1>6, <1>7, <1>8, <1>9, <1>10, <1>11, <1>12, <1>13, <1>14, <1>15, <1>16
     DEF Next, Proceed, Resolve, RunFactory, Validate

LEMMA ValidatedMeansWiredStep ==
    ASSUME TypeOK, Shape, RunningIsOwned, ValidateProgress, ValidatedMeansWired, [Next]_vars
    PROVE  ValidatedMeansWired'
<1> USE DEF registry, calls
<1> SUFFICES ASSUME validated' = TRUE, NEW i \in Registered' PROVE cell'[i] = "ready"
  BY DEF ValidatedMeansWired, TypeOK
<1>1. \A j \in Id : ~(Register(j) \/ RegisterInstance(j))
  BY DEF Register, RegisterInstance
<1>2. Keeps
  BY <1>1, KeepsStep
<1>3. i \in Registered
  BY <1>2 DEF Keeps, Registered
<1>4. CASE validated = TRUE
  BY <1>2, <1>3, <1>4 DEF Keeps, ValidatedMeansWired, Registered
<1>5. ASSUME NEW t \in Thread, ValidateEnd(t) PROVE cell'[i] = "ready"
  <2>1. vtodo[t] = {} /\ verrors[t] = {} /\ call[t] = "validate" /\ goal[t] = NoId
    BY <1>5 DEF ValidateEnd, Shape, ShapeOf
  <2>2. i # NoId
    BY <1>3, NoIdAssumption DEF Registered
  <2>3. cell[i] = "ready"
    BY <1>3, <2>1, <2>2 DEF ValidateProgress
  <2> QED
    BY <1>2, <1>3, <2>3 DEF Keeps, Registered
<1>6. validated = TRUE \/ \E t \in Thread : ValidateEnd(t)
  <2>1. ASSUME NEW t \in Thread, Resolve(t) \/ RunFactory(t) PROVE validated' = validated
    BY <2>1 DEF Resolve, ResolveMissing, FactoryMissesPart, ReturnInstance, ReceivePart, StartFactory,
                RunFactory, RequestPart, FactoryReturns, UnwindFactory, UnwindToCaller, UnwindToValidate
  <2>2. ASSUME NEW t \in Thread, Validate(t) PROVE validated' = validated \/ ValidateEnd(t)
    BY <2>2 DEF Validate, ValidateSkip, ValidateResolve
  <2>3. ASSUME NEW t \in Thread, \/ \E j \in Id : BeginGet(t, j)
                                \/ RejectCycle(t) \/ BeginValidate(t) \/ FactoryPanics(t)
        PROVE  validated' = validated
    BY <2>3 DEF BeginGet, RejectCycle, BeginValidate, FactoryPanics
  <2>4. CASE UNCHANGED vars
    BY <2>4 DEF vars
  <2> QED
    BY <1>1, <2>1, <2>2, <2>3, <2>4 DEF Next, Proceed
<1> QED
  BY <1>4, <1>5, <1>6

-----------------------------------------------------------------------------
LEMMA InvInit == Init => IInv
<1> SUFFICES ASSUME Init PROVE IInv
  OBVIOUS
<1>1. TypeOK
  BY TypeInit
<1>2. \A t \in Thread : stack[t] = <<>> /\ pc[t] = "idle" /\ call[t] = "get" /\ goal[t] = NoId
  BY DEF Init
<1>3. Shape
  BY <1>2 DEF Shape, ShapeOf
<1>4. FrameBound
  BY <1>2 DEF Init, FrameBound
<1>5. RunningIsOwned
  BY <1>2 DEF Init, RunningIsOwned, OnStack
<1>6. StackFollowsGets
  BY <1>2 DEF StackFollowsGets
<1>7. PartsAreCurrent
  BY <1>2 DEF Init, PartsAreCurrent
<1>8. ValidateProgress
  BY <1>2 DEF ValidateProgress
<1>9. ValidatedMeansWired
  BY DEF Init, ValidatedMeansWired
<1> QED
  BY <1>1, <1>3, <1>4, <1>5, <1>6, <1>7, <1>8, <1>9 DEF IInv

LEMMA InvStep == IInv /\ [Next]_vars => IInv'
BY TypeStep, ShapeStep, FrameBoundStep, RunningIsOwnedStep, StackFollowsGetsStep,
   PartsAreCurrentStep, ValidateProgressStep, ValidatedMeansWiredStep DEF IInv

(* Every reachable state of the container satisfies the inductive invariant. *)
THEOREM InvCorrect == Spec => []IInv
BY InvInit, InvStep, PTL DEF Spec

(* No call, panic, retry or registration leaves the container's state outside *)
(* its types.                                                               *)
THEOREM TypeCorrect == Spec => []TypeOK
<1>1. IInv => TypeOK
  BY DEF IInv
<1> QED
  BY <1>1, InvCorrect, PTL

(* However many threads resolve the same component, its factory is run by one *)
(* of them at a time, and a cell is released when that run is over.          *)
THEOREM RunningIsOwnedHolds == Spec => []RunningIsOwned
<1>1. IInv => RunningIsOwned
  BY DEF IInv
<1> QED
  BY <1>1, InvCorrect, PTL

(* The factories on a thread's stack form a path of the wiring. *)
THEOREM StackFollowsGetsHolds == Spec => []StackFollowsGets
<1>1. IInv => StackFollowsGets
  BY DEF IInv
<1> QED
  BY <1>1, InvCorrect, PTL

(* A component and everyone else hold the same instances of its parts. *)
THEOREM PartsAreCurrentHolds == Spec => []PartsAreCurrent
<1>1. IInv => PartsAreCurrent
  BY DEF IInv
<1> QED
  BY <1>1, InvCorrect, PTL

(* After validate() returned Ok no factory is left to run. *)
THEOREM ValidatedMeansWiredHolds == Spec => []ValidatedMeansWired
<1>1. IInv => ValidatedMeansWired
  BY DEF IInv
<1> QED
  BY <1>1, InvCorrect, PTL

-----------------------------------------------------------------------------
(* The factories that the threads of a deadlock are running support each      *)
(* other: each asks for the next one on its stack, or for one that a thread   *)
(* of the deadlock runs.                                                     *)
LEMMA DeadlockIsCycle == IInv => DeadlockNeedsCycle
<1> SUFFICES ASSUME IInv, NEW D \in SUBSET Thread, Deadlocked(D)
             PROVE  HasCycleIn(Id, GetEdges)
  BY DEF DeadlockNeedsCycle
<1> DEFINE S == {i \in Id : \E u \in D : i \in OnStack(u)}
<1>0. TypeOK /\ Shape /\ StackFollowsGets
  BY DEF IInv
<1>1. S # {}
  BY DEF Deadlocked
<1>2. ASSUME NEW n \in S PROVE \E m \in S : <<n, m>> \in GetEdges
  <2>1. PICK u \in D : n \in OnStack(u)
    OBVIOUS
  <2>2. PICK k \in 1 .. Len(stack[u]) : n = stack[u][k].id
    BY <1>0, <2>1, FrameFacts DEF OnStack
  <2>3. Len(stack[u]) \in Nat /\ DOMAIN stack[u] = 1 .. Len(stack[u])
    BY <1>0, FrameFacts
  <2>4. CASE k # Len(stack[u])
    <3> DEFINE f == stack[u][k]
               m == stack[u][k + 1].id
    <3>1. k \in 1 .. Len(stack[u]) - 1 /\ k + 1 \in 1 .. Len(stack[u])
      BY <2>3, <2>4
    <3>2. Len(f.got) < Len(recipe[n].gets) /\ m = recipe[n].gets[Len(f.got) + 1]
      BY <1>0, <2>2, <3>1 DEF StackFollowsGets
    <3>3. f.got \in Seq(Nat) /\ Len(f.got) \in Nat
      BY <1>0, FrameFacts
    <3>4. <<n, m>> \in GetEdges /\ m \in Id
      BY <1>0, <3>2, <3>3, RecipeFacts
    <3>5. m \in OnStack(u)
      BY <2>3, <3>1 DEF OnStack
    <3> QED
      BY <3>4, <3>5
  <2>5. CASE k = Len(stack[u])
    <3>1. n = TopFrame(u).id /\ stack[u] # <<>>
      BY <2>2, <2>3, <2>5 DEF TopFrame, Last
    <3>2. PICK m \in Id, v \in D : WaitsFor(u, m) /\ m \in OnStack(v)
      BY DEF Deadlocked
    <3>3. pc[u] = "resolve" /\ m = NextGet(u)
      BY <3>1, <3>2 DEF WaitsFor, Want
    <3>4. GetsLeft(u)
      BY <1>0, <3>1, <3>3 DEF Shape, ShapeOf
    <3>5. <<n, m>> \in GetEdges
      BY <1>0, <3>1, <3>3, <3>4, NextGetFacts
    <3> QED
      BY <3>2, <3>5
  <2> QED
    BY <2>4, <2>5
<1>3. S \in SUBSET Id
  OBVIOUS
<1> HIDE DEF S
<1> QED
  BY <1>1, <1>2, <1>3 DEF HasCycleIn, SelfSupporting

(* Threads deadlock on an acyclic wiring under no schedule. *)
THEOREM DeadlockNeedsCycleHolds == Spec => []DeadlockNeedsCycle
BY DeadlockIsCycle, InvCorrect, PTL

-----------------------------------------------------------------------------
LEMMA AbstractInit == Init => Abstract!Init
BY DEF Init, Abstract!Init, Registered

LEMMA AbstractStep ==
    ASSUME IInv, [Next]_vars
    PROVE  [Abstract!Next]_(Abstract!absvars)
<1> DEFINE ready == {i \in Id : cell[i] = "ready"}
<1>0. TypeOK /\ Shape /\ RunningIsOwned
  BY DEF IInv
<1>1. ASSUME NEW i \in Id, Register(i) PROVE Abstract!Next
  <2>1. cell' = [cell EXCEPT ![i] = "empty"] /\ built' = built /\ epoch' = epoch + 1
    BY <1>1 DEF Register
  <2>2. Registered' = Registered \union {i} /\ ready' = ready \ {i}
    BY <1>0, <2>1 DEF Registered, TypeOK
  <2> QED
    BY <2>1, <2>2 DEF Abstract!Next, Abstract!Register
<1>2. ASSUME NEW i \in Id, RegisterInstance(i) PROVE Abstract!Next
  <2>1. cell' = [cell EXCEPT ![i] = "ready"] /\ built' = [built EXCEPT ![i] = @ + 1]
        /\ epoch' = epoch + 1
    BY <1>2 DEF RegisterInstance
  <2>2. Registered' = Registered \union {i} /\ ready' = ready \union {i}
    BY <1>0, <2>1 DEF Registered, TypeOK
  <2> QED
    BY <2>1, <2>2 DEF Abstract!Next, Abstract!Provide
<1>3. ASSUME NEW t \in Thread, StartFactory(t) PROVE UNCHANGED Abstract!absvars
  <2>1. StartShape(t)
    BY <1>0, <1>3, StartFacts
  <2>2. Registered' = Registered /\ ready' = ready /\ built' = built /\ epoch' = epoch
    BY <2>1 DEF StartShape, Registered
  <2> QED
    BY <2>2 DEF Abstract!absvars
<1>4. ASSUME NEW t \in Thread, FactoryReturns(t) \/ Popped(t)
      PROVE  Abstract!Next \/ UNCHANGED Abstract!absvars
  <2> DEFINE j == TopFrame(t).id
  <2>1. PICK n \in Nat : PopShape(t, n)
    BY <1>0, <1>4, PopExists
  <2>2. cell[j] = "running" /\ j \in Id
    BY <1>0, <2>1, RunningTop DEF PopShape
  <2>3. Registered' = Registered /\ epoch' = epoch
    BY <2>1, <2>2 DEF PopShape, Registered
  <2>4. CASE FactoryReturns(t)
    <3>1. cell' = [cell EXCEPT ![j] = "ready"] /\ built' = [built EXCEPT ![j] = @ + 1]
      BY <2>4 DEF FactoryReturns
    <3>2. ready' = ready \union {j} /\ j \in Registered \ ready
      BY <1>0, <2>2, <3>1 DEF Registered, TypeOK
    <3> QED
      BY <2>2, <2>3, <3>1, <3>2 DEF Abstract!Next, Abstract!Publish
  <2>5. CASE Popped(t)
    <3>1. cell' = [cell EXCEPT ![j] = "empty"] /\ built' = built
      BY <2>5 DEF Popped, LeaveCell
    <3>2. ready' = ready
      BY <1>0, <2>2, <3>1 DEF TypeOK
    <3> QED
      BY <2>3, <3>1, <3>2 DEF Abstract!absvars
  <2> QED
    BY <1>4, <2>4, <2>5
<1>5. ASSUME UNCHANGED <<cell, built, epoch>> PROVE UNCHANGED Abstract!absvars
  BY <1>5 DEF Abstract!absvars, Registered
<1>6. ASSUME NEW t \in Thread, ReceivePart(t) PROVE UNCHANGED <<cell, built, epoch>>
  BY <1>6 DEF ReceivePart, registry
<1>7. CASE UNCHANGED <<registry, stack>>
  BY <1>5, <1>7 DEF registry
<1> QED
  BY <1>0, <1>1, <1>2, <1>3, <1>4, <1>5, <1>6, <1>7, StepKinds

(* Seen from outside, the container is a map of lazy singletons: an id gets at *)
(* most one instance per registration, and keeps it.                          *)
THEOREM ImplementsLazySingletonsHolds == Spec => ImplementsLazySingletons
<1>1. IInv /\ [Next]_vars => [Abstract!Next]_(Abstract!absvars)
  BY AbstractStep
<1> QED
  BY <1>1, AbstractInit, InvCorrect, PTL DEF Spec, ImplementsLazySingletons, Abstract!Spec
=============================================================================
