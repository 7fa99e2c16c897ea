------------------------------ MODULE MCContainer ------------------------------
(* Three components and two threads.  `app` uses `repo` and `db`, `repo`     *)
(* uses `db`, as the example application's services do; the second table     *)
(* adds the wirings that go wrong.                                           *)
EXTENDS Container

CONSTANTS app, repo, db, t1, t2, none

MCId == {app, repo, db}
MCThread == {t1, t2}
ThreadSymmetry == Permutations(MCThread)

Service(gets) == [declared |-> gets, gets |-> gets]     \* #[service], #[component]
Plain(gets) == [declared |-> <<>>, gets |-> gets]       \* register(), register_trait()

Acyclic ==
    [i \in MCId |->
        CASE i = app -> {Service(<<repo, db>>)}
          [] i = repo -> {Service(<<db>>)}
          [] i = db -> {Service(<<>>)}]

(* with a declared cycle repo - db, an undeclared one, and a self-loop *)
AnyWiring ==
    [i \in MCId |->
        CASE i = app -> {Service(<<repo, db>>)}
          [] i = repo -> {Service(<<db>>)}
          [] i = db -> {Service(<<>>), Service(<<repo>>), Plain(<<repo>>), Plain(<<db>>)}]

(* the undeclared cycle alone *)
Undeclared ==
    [i \in MCId |->
        CASE i = app -> {Service(<<>>)}
          [] i = repo -> {Plain(<<db>>)}
          [] i = db -> {Plain(<<repo>>)}]
=============================================================================
