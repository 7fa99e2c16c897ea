---------------------------- MODULE LazySingletons ----------------------------
(***************************************************************************)
(* What the container promises about instances: an id gets an instance only *)
(* after it was registered, keeps that one until it is registered again,    *)
(* and no instance is ever handed out twice as a new one.                   *)
(***************************************************************************)
EXTENDS Naturals

CONSTANT Id

VARIABLES
    rounds,     \* registrations so far
    known,      \* registered ids
    current,    \* ids that have an instance
    issued      \* id -> instances created so far; the last one is current

absvars == <<rounds, known, current, issued>>

Init ==
    /\ rounds = 0
    /\ known = {}
    /\ current = {}
    /\ issued = [i \in Id |-> 0]

Register(i) ==
    /\ rounds' = rounds + 1
    /\ known' = known \union {i}
    /\ current' = current \ {i}
    /\ UNCHANGED issued

Provide(i) ==
    /\ rounds' = rounds + 1
    /\ known' = known \union {i}
    /\ current' = current \union {i}
    /\ issued' = [issued EXCEPT ![i] = @ + 1]

Publish(i) ==
    /\ i \in known \ current
    /\ current' = current \union {i}
    /\ issued' = [issued EXCEPT ![i] = @ + 1]
    /\ UNCHANGED <<rounds, known>>

Next == \E i \in Id : Register(i) \/ Provide(i) \/ Publish(i)

Spec == Init /\ [][Next]_absvars
=============================================================================
