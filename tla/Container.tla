------------------------------- MODULE Container -------------------------------
(***************************************************************************)
(* stano-di's Container: registrations, the lazily initialised singletons  *)
(* behind try_get / get / get_trait, and the start-up check validate().    *)
(*                                                                         *)
(* A TypeId (or a TraitObject's id) is an element of Id.  The four maps     *)
(* factories, singletons, type_names and dependencies are written together *)
(* by every registration, so their common key set is one: the ids whose    *)
(* cell is not "absent".  A recipe is what a registration stores:           *)
(* `declared` is the dependency list passed to register_with_deps, `gets`   *)
(* the container.get calls its factory makes, in order.  The #[service]    *)
(* macro generates both from the struct's fields (they are equal);         *)
(* register() and register_trait() declare nothing whatever the closure     *)
(* does.                                                                   *)
(*                                                                         *)
(* Threads are whoever calls the shared container.  A factory that asks     *)
(* for another component recurses into get on the same thread, so each     *)
(* thread has a stack of the factories it is running.  OnceLock (std) runs *)
(* one initialiser at a time: another thread, or the same one again, that  *)
(* meets a running cell waits; an initialiser that panics leaves the cell  *)
(* empty.                                                                  *)
(***************************************************************************)
EXTENDS Naturals, SequencesExt, WiringGraph

CONSTANTS
    Id,         \* component ids
    Thread,     \* threads that share the container
    Recipes,    \* id -> the recipes it may be registered with
    NoId,       \* no id: a thread that resolves nothing
    MaxRegs,    \* bound: registrations in a behaviour
    MaxPanics   \* bound: factories that panic of their own accord

Recipe == [declared : Seq(Id), gets : Seq(Id)]

ASSUME RecipesAssumption ==
    /\ DOMAIN Recipes = Id
    /\ \A i \in Id : Recipes[i] \subseteq Recipe
ASSUME NoIdAssumption == NoId \notin Id
ASSUME BoundsAssumption == MaxRegs \in Nat /\ MaxPanics \in Nat

VARIABLES
    recipe,     \* id -> its current recipe
    cell,       \* id -> "absent" | "empty" | "running" | "ready"
    built,      \* id -> instances published so far; the last one is current
    parts,      \* id -> the instances its own current instance was built from
    builtAt,    \* id -> the epoch in which its current instance was published
    epoch,      \* registrations so far
    pc,         \* thread -> where it is
    call,       \* thread -> "get" or "validate"
    goal,       \* thread -> the id its outermost resolution is for
    stack,      \* thread -> the factories it is running, innermost last
    vtodo,      \* thread -> singletons validate() has not visited
    verrors,    \* thread -> ids validate() pushed a FactoryPanic for
    validated,  \* the last validate() since the last registration was Ok
    panics      \* factories that panicked of their own accord

registry == <<recipe, cell, built, parts, builtAt, epoch>>
calls == <<pc, call, goal, stack, vtodo, verrors>>
vars == <<registry, calls, validated, panics>>

CellState == {"absent", "empty", "running", "ready"}
Location == {"idle", "resolve", "factory", "unwind", "validate"}
FrameType == [id : Id, got : Seq(Nat)]

TypeOK ==
    /\ recipe \in [Id -> Recipe]
    /\ cell \in [Id -> CellState]
    /\ built \in [Id -> Nat]
    /\ parts \in [Id -> Seq(Nat)]
    /\ builtAt \in [Id -> Nat]
    /\ epoch \in 0 .. MaxRegs
    /\ pc \in [Thread -> Location]
    /\ call \in [Thread -> {"get", "validate"}]
    /\ goal \in [Thread -> Id \union {NoId}]
    /\ stack \in [Thread -> Seq(FrameType)]
    /\ vtodo \in [Thread -> SUBSET Id]
    /\ verrors \in [Thread -> SUBSET Id]
    /\ validated \in BOOLEAN
    /\ panics \in 0 .. MaxPanics

NoRecipe == [declared |-> <<>>, gets |-> <<>>]

Init ==
    /\ recipe = [i \in Id |-> NoRecipe]
    /\ cell = [i \in Id |-> "absent"]
    /\ built = [i \in Id |-> 0]
    /\ parts = [i \in Id |-> <<>>]
    /\ builtAt = [i \in Id |-> 0]
    /\ epoch = 0
    /\ pc = [t \in Thread |-> "idle"]
    /\ call = [t \in Thread |-> "get"]
    /\ goal = [t \in Thread |-> NoId]
    /\ stack = [t \in Thread |-> <<>>]
    /\ vtodo = [t \in Thread |-> {}]
    /\ verrors = [t \in Thread |-> {}]
    /\ validated = FALSE
    /\ panics = 0

-----------------------------------------------------------------------------
Registered == {i \in Id : cell[i] # "absent"}

DeclaredEdges == {e \in Registered \X Id : e[2] \in Range(recipe[e[1]].declared)}
GetEdges == {e \in Id \X Id : e[2] \in Range(recipe[e[1]].gets)}

TopFrame(t) == Last(stack[t])
OnStack(t) == {stack[t][k].id : k \in DOMAIN stack[t]}

(* the get call that the innermost factory makes next, if any is left *)
GetsLeft(t) == Len(TopFrame(t).got) < Len(recipe[TopFrame(t).id].gets)

(* mutant of NextGet: the outermost factory's parts are asked for *)
NextGet_Outermost(t) == recipe[stack[t][1].id].gets[Len(TopFrame(t).got) + 1]

NextGet(t) == recipe[TopFrame(t).id].gets[Len(TopFrame(t).got) + 1]

(* the innermost factory gets the instance it asked for *)
Deliver(s, instance) == [s EXCEPT ![Len(s)].got = Append(@, instance)]

(* the id whose singleton thread t is at *)
Want(t) == IF stack[t] = <<>> THEN goal[t] ELSE NextGet(t)

(* where the thread goes when its outermost resolution is over *)
AfterGoal(t) == IF call[t] = "validate" THEN "validate" ELSE "idle"

-----------------------------------------------------------------------------
(* register_with_deps, register_trait_with_deps, register, register_trait: *)
(* a fresh OnceLock under the id.  &mut self: nobody is inside the          *)
(* container.                                                              *)
Register(i) ==
    /\ \A t \in Thread : pc[t] = "idle"
    /\ epoch < MaxRegs
    /\ epoch' = epoch + 1
    /\ \E r \in Recipes[i] : recipe' = [recipe EXCEPT ![i] = r]
    /\ cell' = [cell EXCEPT ![i] = "empty"]
    /\ validated' = FALSE
    /\ UNCHANGED <<built, parts, builtAt, calls, panics>>

(* register_instance: the cell is filled on the spot *)
RegisterInstance(i) ==
    /\ \A t \in Thread : pc[t] = "idle"
    /\ epoch < MaxRegs
    /\ epoch' = epoch + 1
    /\ recipe' = [recipe EXCEPT ![i] = NoRecipe]
    /\ cell' = [cell EXCEPT ![i] = "ready"]
    /\ built' = [built EXCEPT ![i] = @ + 1]
    /\ parts' = [parts EXCEPT ![i] = <<>>]
    /\ builtAt' = [builtAt EXCEPT ![i] = epoch']
    /\ validated' = FALSE
    /\ UNCHANGED <<calls, panics>>

(* try_get, try_get_trait, get, get_trait called from outside *)
BeginGet(t, i) ==
    /\ pc[t] = "idle"
    /\ pc' = [pc EXCEPT ![t] = "resolve"]
    /\ call' = [call EXCEPT ![t] = "get"]
    /\ goal' = [goal EXCEPT ![t] = i]
    /\ UNCHANGED <<registry, stack, vtodo, verrors, validated, panics>>

(* the singletons map has no such id: Err(NotRegistered) to an outside caller *)
ResolveMissing(t) ==
    /\ pc[t] = "resolve"
    /\ stack[t] = <<>>
    /\ cell[goal[t]] = "absent"
    /\ pc' = [pc EXCEPT ![t] = AfterGoal(t)]
    /\ goal' = [goal EXCEPT ![t] = NoId]
    /\ UNCHANGED <<registry, call, stack, vtodo, verrors, validated, panics>>

(* the same inside a factory: the generated code calls get, which panics *)
FactoryMissesPart(t) ==
    /\ pc[t] = "resolve"
    /\ stack[t] # <<>>
    /\ cell[NextGet(t)] = "absent"
    /\ pc' = [pc EXCEPT ![t] = "unwind"]
    /\ UNCHANGED <<registry, call, goal, stack, vtodo, verrors, validated, panics>>

(* get_or_init finds the instance: back to the outside caller *)
ReturnInstance(t) ==
    /\ pc[t] = "resolve"
    /\ stack[t] = <<>>
    /\ cell[goal[t]] = "ready"
    /\ pc' = [pc EXCEPT ![t] = AfterGoal(t)]
    /\ goal' = [goal EXCEPT ![t] = NoId]
    /\ UNCHANGED <<registry, call, stack, vtodo, verrors, validated, panics>>

(* get_or_init finds the instance: back into the factory that asked for it *)
ReceivePart(t) ==
    /\ pc[t] = "resolve"
    /\ stack[t] # <<>>
    /\ cell[NextGet(t)] = "ready"
    /\ pc' = [pc EXCEPT ![t] = "factory"]
    /\ stack' = [stack EXCEPT ![t] = Deliver(@, built[NextGet(t)])]
    /\ UNCHANGED <<registry, call, goal, vtodo, verrors, validated, panics>>

(* mutant of StartFactory: two initialisers of one cell *)
StartFactory_NoLock(t) ==
    /\ pc[t] = "resolve"
    /\ cell[Want(t)] \in {"empty", "running"}
    /\ pc' = [pc EXCEPT ![t] = "factory"]
    /\ cell' = [cell EXCEPT ![Want(t)] = "running"]
    /\ stack' = [stack EXCEPT ![t] = Append(@, [id |-> Want(t), got |-> <<>>])]
    /\ UNCHANGED <<recipe, built, parts, builtAt, epoch,
                   call, goal, vtodo, verrors, validated, panics>>

(* mutant of StartFactory: one lock for all the factories of the container *)
StartFactory_OneLock(t) ==
    /\ pc[t] = "resolve"
    /\ \A i \in Id : cell[i] # "running"
    /\ cell[Want(t)] = "empty"
    /\ pc' = [pc EXCEPT ![t] = "factory"]
    /\ cell' = [cell EXCEPT ![Want(t)] = "running"]
    /\ stack' = [stack EXCEPT ![t] = Append(@, [id |-> Want(t), got |-> <<>>])]
    /\ UNCHANGED <<recipe, built, parts, builtAt, epoch,
                   call, goal, vtodo, verrors, validated, panics>>

(* get_or_init finds an empty cell: this thread runs the factory.  A running *)
(* cell enables nothing: the thread waits.                                  *)
StartFactory(t) ==
    /\ pc[t] = "resolve"
    /\ cell[Want(t)] = "empty"
    /\ pc' = [pc EXCEPT ![t] = "factory"]
    /\ cell' = [cell EXCEPT ![Want(t)] = "running"]
    /\ stack' = [stack EXCEPT ![t] = Append(@, [id |-> Want(t), got |-> <<>>])]
    /\ UNCHANGED <<recipe, built, parts, builtAt, epoch,
                   call, goal, vtodo, verrors, validated, panics>>

(* the factory calls container.get for its next part *)
RequestPart(t) ==
    /\ pc[t] = "factory"
    /\ GetsLeft(t)
    /\ pc' = [pc EXCEPT ![t] = "resolve"]
    /\ UNCHANGED <<registry, call, goal, stack, vtodo, verrors, validated, panics>>

(* the factory returns: the instance is published, and the resolution that  *)
(* started the factory goes on with it                                      *)
FactoryReturns(t) ==
    /\ pc[t] = "factory"
    /\ ~GetsLeft(t)
    /\ LET i == TopFrame(t).id
       IN  /\ cell' = [cell EXCEPT ![i] = "ready"]
           /\ built' = [built EXCEPT ![i] = @ + 1]
           /\ parts' = [parts EXCEPT ![i] = TopFrame(t).got]
           /\ builtAt' = [builtAt EXCEPT ![i] = epoch]
    /\ stack' = [stack EXCEPT ![t] = Front(@)]
    /\ pc' = [pc EXCEPT ![t] = "resolve"]
    /\ UNCHANGED <<recipe, epoch, call, goal, vtodo, verrors, validated, panics>>

(* the factory's own code panics (a missing setting, a refused connection) *)
FactoryPanics(t) ==
    /\ pc[t] = "factory"
    /\ panics < MaxPanics
    /\ panics' = panics + 1
    /\ pc' = [pc EXCEPT ![t] = "unwind"]
    /\ UNCHANGED <<registry, call, goal, stack, vtodo, verrors, validated>>

(* a panic leaves one initialiser: OnceLock empties the cell *)
LeaveCell(t) ==
    /\ pc[t] = "unwind"
    /\ cell' = [cell EXCEPT ![TopFrame(t).id] = "empty"]
    /\ stack' = [stack EXCEPT ![t] = Front(@)]

(* ... and goes on into the factory that had asked for the part *)
UnwindFactory(t) ==
    /\ Len(stack[t]) > 1
    /\ LeaveCell(t)
    /\ UNCHANGED <<recipe, built, parts, builtAt, epoch,
                   pc, call, goal, vtodo, verrors, validated, panics>>

(* ... or reaches the outside caller of get *)
UnwindToCaller(t) ==
    /\ Len(stack[t]) = 1
    /\ call[t] = "get"
    /\ LeaveCell(t)
    /\ pc' = [pc EXCEPT ![t] = "idle"]
    /\ goal' = [goal EXCEPT ![t] = NoId]
    /\ UNCHANGED <<recipe, built, parts, builtAt, epoch,
                   call, vtodo, verrors, validated, panics>>

(* mutant of UnwindToValidate: the caught panic is not recorded *)
UnwindToValidate_DropError(t) ==
    /\ Len(stack[t]) = 1
    /\ call[t] = "validate"
    /\ LeaveCell(t)
    /\ pc' = [pc EXCEPT ![t] = "validate"]
    /\ goal' = [goal EXCEPT ![t] = NoId]
    /\ UNCHANGED <<recipe, built, parts, builtAt, epoch,
                   call, vtodo, verrors, validated, panics>>

(* mutant of UnwindToValidate: the error is built after the id was dropped *)
UnwindToValidate_NoName(t) ==
    /\ Len(stack[t]) = 1
    /\ call[t] = "validate"
    /\ LeaveCell(t)
    /\ pc' = [pc EXCEPT ![t] = "validate"]
    /\ goal' = [goal EXCEPT ![t] = NoId]
    /\ verrors' = [verrors EXCEPT ![t] = @ \union {goal'[t]}]
    /\ UNCHANGED <<recipe, built, parts, builtAt, epoch,
                   call, vtodo, validated, panics>>

(* ... or validate()'s catch_unwind, which pushes FactoryPanic *)
UnwindToValidate(t) ==
    /\ Len(stack[t]) = 1
    /\ call[t] = "validate"
    /\ LeaveCell(t)
    /\ pc' = [pc EXCEPT ![t] = "validate"]
    /\ goal' = [goal EXCEPT ![t] = NoId]
    /\ verrors' = [verrors EXCEPT ![t] = @ \union {goal[t]}]
    /\ UNCHANGED <<recipe, built, parts, builtAt, epoch,
                   call, vtodo, validated, panics>>

(* validate(): detect_cycles (module CycleDetection) finds a declared cycle, *)
(* Err without resolving anything                                           *)
RejectCycle(t) ==
    /\ pc[t] = "idle"
    /\ HasCycleIn(Id, DeclaredEdges)
    /\ validated' = FALSE
    /\ UNCHANGED <<registry, calls, panics>>

BeginValidate(t) ==
    /\ pc[t] = "idle"
    /\ ~HasCycleIn(Id, DeclaredEdges)
    /\ pc' = [pc EXCEPT ![t] = "validate"]
    /\ call' = [call EXCEPT ![t] = "validate"]
    /\ vtodo' = [vtodo EXCEPT ![t] = Registered]
    /\ verrors' = [verrors EXCEPT ![t] = {}]
    /\ UNCHANGED <<registry, goal, stack, validated, panics>>

(* the loop over self.singletons, in HashMap order: singleton.get() is Some *)
ValidateSkip(t, i) ==
    /\ pc[t] = "validate"
    /\ i \in vtodo[t]
    /\ cell[i] = "ready"
    /\ vtodo' = [vtodo EXCEPT ![t] = @ \ {i}]
    /\ UNCHANGED <<registry, pc, call, goal, stack, verrors, validated, panics>>

(* singleton.get() is None, also while another thread initialises it: on to *)
(* get_or_init                                                             *)
ValidateResolve(t, i) ==
    /\ pc[t] = "validate"
    /\ i \in vtodo[t]
    /\ cell[i] # "ready"
    /\ vtodo' = [vtodo EXCEPT ![t] = @ \ {i}]
    /\ pc' = [pc EXCEPT ![t] = "resolve"]
    /\ goal' = [goal EXCEPT ![t] = i]
    /\ UNCHANGED <<registry, call, stack, verrors, validated, panics>>

(* errors.is_empty() decides *)
ValidateEnd(t) ==
    /\ pc[t] = "validate"
    /\ vtodo[t] = {}
    /\ validated' = (verrors[t] = {})
    /\ pc' = [pc EXCEPT ![t] = "idle"]
    /\ call' = [call EXCEPT ![t] = "get"]
    /\ verrors' = [verrors EXCEPT ![t] = {}]
    /\ UNCHANGED <<registry, goal, stack, vtodo, panics>>

-----------------------------------------------------------------------------
(* the steps of a call that has begun *)
Resolve(t) ==
    \/ ResolveMissing(t) \/ FactoryMissesPart(t)
    \/ ReturnInstance(t) \/ ReceivePart(t) \/ StartFactory(t)

RunFactory(t) ==
    \/ RequestPart(t) \/ FactoryReturns(t)
    \/ UnwindFactory(t) \/ UnwindToCaller(t) \/ UnwindToValidate(t)

Validate(t) ==
    \/ \E i \in Id : ValidateSkip(t, i) \/ ValidateResolve(t, i)
    \/ ValidateEnd(t)

Proceed(t) == Resolve(t) \/ RunFactory(t) \/ Validate(t)

Next ==
    \/ \E i \in Id : Register(i) \/ RegisterInstance(i)
    \/ \E t \in Thread :
          \/ \E i \in Id : BeginGet(t, i)
          \/ RejectCycle(t) \/ BeginValidate(t)
          \/ Proceed(t)
          \/ FactoryPanics(t)

Spec == Init /\ [][Next]_vars

(* A thread inside a call runs on unless it waits for a cell; nothing makes  *)
(* it start one.                                                            *)
FairSpec == Spec /\ \A t \in Thread : WF_vars(Proceed(t))

-----------------------------------------------------------------------------
(* A cell is being initialised exactly when some thread has its factory on   *)
(* its stack, at one place: never two runs of one factory at once, and no    *)
(* cell left locked after the panics of everything that ran are over.        *)
RunningIsOwned ==
    /\ \A i \in Id : cell[i] = "running" <=> \E t \in Thread : i \in OnStack(t)
    /\ \A t, u \in Thread : \A j \in DOMAIN stack[t], k \in DOMAIN stack[u] :
           stack[t][j].id = stack[u][k].id => t = u /\ j = k

(* Each factory on a stack was started by the get call that the one below it *)
(* is waiting in.                                                           *)
StackFollowsGets ==
    \A t \in Thread :
        \A k \in 1 .. Len(stack[t]) - 1 :
            LET f == stack[t][k]
            IN  /\ Len(f.got) < Len(recipe[f.id].gets)
                /\ stack[t][k + 1].id = recipe[f.id].gets[Len(f.got) + 1]

(* got[k] is the container's own instance of the k-th part of i *)
CurrentParts(i, got) ==
    \A k \in DOMAIN got :
        /\ cell[recipe[i].gets[k]] = "ready"
        /\ got[k] = built[recipe[i].gets[k]]

(* Wiring is coherent: as long as nothing is registered again, the parts a   *)
(* component was built from are the very instances that get returns, also    *)
(* when threads raced for them and when a factory panicked and was retried.  *)
PartsAreCurrent ==
    /\ \A i \in Id :
          cell[i] = "ready" /\ builtAt[i] = epoch =>
              /\ Len(parts[i]) = Len(recipe[i].gets)
              /\ CurrentParts(i, parts[i])
    /\ \A t \in Thread : \A k \in DOMAIN stack[t] :
          CurrentParts(stack[t][k].id, stack[t][k].got)

WaitsFor(t, i) == pc[t] = "resolve" /\ Want(t) = i /\ cell[i] = "running"

(* every thread of D waits for a factory that a thread of D is running *)
Deadlocked(D) ==
    /\ D # {}
    /\ \A t \in D : \E i \in Id, u \in D : WaitsFor(t, i) /\ i \in OnStack(u)

(* Threads can wait for each other for ever only if the get calls of the     *)
(* factories form a cycle: an acyclic wiring never deadlocks, in whatever     *)
(* order threads resolve it and whatever panics on the way.                   *)
DeadlockNeedsCycle ==
    (\E D \in SUBSET Thread : Deadlocked(D)) => HasCycleIn(Id, GetEdges)

(* After validate() returned Ok, and until the next registration, every       *)
(* registered component has its instance: no factory runs while requests are  *)
(* served, so none can panic there.                                           *)
ValidatedMeansWired == validated => \A i \in Registered : cell[i] = "ready"

(* every part that a registered factory asks for is registered *)
WiringComplete ==
    \A e \in GetEdges : cell[e[1]] # "absent" => cell[e[2]] # "absent"

(* Under an acyclic wiring with nothing missing, every call into the          *)
(* container returns, also when it waits for a factory that panics.           *)
CallsReturn ==
    \A t \in Thread : pc[t] # "idle" /\ WiringComplete ~> pc[t] = "idle"

(* What stano-di's README says of validate(): circular dependencies are found *)
(* before they hang the program.                                              *)
ValidateNeverHangs ==
    \A t \in Thread : \A i \in Id :
        ~(call[t] = "validate" /\ WaitsFor(t, i) /\ i \in OnStack(t))

(* The container seen from outside: a map that gives each id at most one      *)
(* instance per registration.                                                *)
Abstract == INSTANCE LazySingletons WITH
    rounds <- epoch,
    known <- Registered,
    current <- {i \in Id : cell[i] = "ready"},
    issued <- built

ImplementsLazySingletons == Abstract!Spec
=============================================================================
