------------------------------ MODULE MCWidgets -------------------------------
(* Two requests at once over two ids and two names: every handler, with every *)
(* kind of input that is refused, and an id that may not exist yet.          *)
EXTENDS Widgets, TLC

CONSTANTS i1, i2, n1, n2, s1, s2, none

MCId == {i1, i2}
MCName == {n1, n2}
MCSlot == {s1, s2}
Symmetry == Permutations(MCId) \union Permutations(MCName) \union Permutations(MCSlot)

Sent(kind, path, ids, body, names) ==
    [kind : {kind}, path : {path}, id : ids, body : {body}, name : names]

MCRequests ==
    Sent("create", "ok", {none}, "ok", MCName)
      \union Sent("create", "ok", {none}, "wrongType", {none})
      \union Sent("get", "ok", MCId, "ok", {none})
      \union Sent("get", "notUuid", {none}, "ok", {none})
      \union Sent("update", "ok", MCId, "ok", MCName)
      \union Sent("update", "notUtf8", {none}, "wrongShape", {none})
      \union Sent("list", "ok", {none}, "ok", {none})
=============================================================================
