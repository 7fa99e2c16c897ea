---------------------------- MODULE MCAuthorization ----------------------------
(* Chains over an administration path and an open one, written with and        *)
(* without methods(), in any order, with a pattern that does not compile; a     *)
(* token of an administrator, one of a user and one signed by somebody else.    *)
EXTENDS Authorization

CONSTANTS
    get, post, adminPath, openPath, adminPattern, everything, bad, any,
    admin, user, adminToken, userToken, forged, ours, theirs,
    none, basic, s1, s2

MCMethod == {get, post}
MCPath == {adminPath, openPath}
MCPattern == {adminPattern, everything}
MCMatches == (adminPattern :> {adminPath}) @@ (everything :> MCPath)
MCRole == {admin, user}
MCToken == {adminToken, userToken, forged}
MCRoleOf == (adminToken :> admin) @@ (userToken :> user) @@ (forged :> admin)
MCKeyOf == (adminToken :> ours) @@ (userToken :> ours) @@ (forged :> theirs)
MCSlots == {s1, s2}

Permit == [kind |-> "permit", roles |-> {}]
Authenticated == [kind |-> "authenticated", roles |-> {}]
AdminOnly == [kind |-> "role", roles |-> {admin}]

On(p, ms, e) == [pattern |-> p, methods |-> ms, effect |-> e]

(* An open part, an administration with and without methods(), in either order *)
(* of writing, a pattern that does not compile, and two ways to end: any_request *)
(* as it is meant, and one narrowed by methods() that lets everybody in.       *)
Chains ==
    {On(everything, {get}, Permit), On(adminPattern, MCMethod, AdminOnly),
     On(adminPattern, {post}, Authenticated), On(bad, MCMethod, AdminOnly),
     On(any, MCMethod, Authenticated), On(any, {post}, Permit)}

Sent(m, p, h, c) == [method |-> m, path |-> p, header |-> h, cookie |-> c]

MCRequests ==
    {Sent(post, adminPath, adminToken, none), Sent(post, adminPath, userToken, none),
     Sent(get, adminPath, basic, adminToken), Sent(get, openPath, forged, userToken)}

SlotSymmetry == Permutations(MCSlots)
=============================================================================
