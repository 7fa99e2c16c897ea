------------------------------ MODULE RustSyntax ------------------------------
(***************************************************************************)
(* What the attribute macros are given: the token trees of an attribute     *)
(* (proc_macro2) and the types of a signature or a field (syn).  A group's   *)
(* tokens are one tree, however many commas it holds; the angle brackets of  *)
(* a generic type are ordinary punctuation.                                 *)
(***************************************************************************)
EXTENDS Integers, FiniteSets, Selections

Ident(n) == [ident |-> n]
Punct(c) == [punct |-> c]
Number(n) == [number |-> n]             \* a numeric literal, as it is written
StringLit(s) == [string |-> s]          \* a string literal: its pieces, cut at braces and stars
Group(d, ts) == [group |-> d, of |-> ts]

IsIdent(tt) == "ident" \in DOMAIN tt
IsGroup(tt) == "group" \in DOMAIN tt
IsLiteral(tt) == "number" \in DOMAIN tt \/ "string" \in DOMAIN tt

Comma == Punct(",")
Paren(ts) == Group("(", ts)

(* the sequences of tokens ss with commas between them: #(#ss),*            *)
CommaJoin(ss) == Joined(ss, <<Comma>>)

Assign(name, ts) == <<Ident(name), Punct("=")>> \o ts
Call(name, ts) == <<Ident(name), Paren(ts)>>

-----------------------------------------------------------------------------
(* Types: a path, of which the last segment has arguments; dyn Trait; any     *)
(* other type, of which the macros only copy the tokens.  A type comes with   *)
(* its tokens, as it was parsed from them.                                   *)
PathTokens(segments) == Joined([k \in DOMAIN segments |-> <<Ident(segments[k])>>], <<Punct("::")>>)
ArgsTokens(args) ==
    IF args = <<>> THEN <<>>
    ELSE <<Punct("<")>> \o CommaJoin([k \in DOMAIN args |-> args[k].tokens]) \o <<Punct(">")>>

PathType(segments, args) ==
    [segments |-> segments, args |-> args, tokens |-> PathTokens(segments) \o ArgsTokens(args)]
Named(n) == PathType(<<n>>, <<>>)
Generic(n, args) == PathType(<<n>>, args)
Dyn(t) == [dyn |-> t, tokens |-> <<Ident("dyn"), Ident(t)>>]
OtherType(ts) == [tokens |-> ts]
Lifetime(n) == [lifetime |-> n, tokens |-> <<Punct("'"), Ident(n)>>]  \* an argument that is no type

IsPath(ty) == "segments" \in DOMAIN ty
IsType(arg) == "lifetime" \notin DOMAIN arg

TypeTokens(ty) == ty.tokens

-----------------------------------------------------------------------------
(* How many angle brackets are open after each token, and what it is for      *)
(* tokens to be held together by them: they close what they open, and have    *)
(* no comma outside.  Types do, unless an arrow looks like a closing bracket. *)
Openness(tt) == IF tt = Punct("<") THEN 1 ELSE IF tt = Punct(">") THEN -1 ELSE 0

Depths(ts) ==
    LET depth[n \in 0 .. Len(ts)] == IF n = 0 THEN 0 ELSE depth[n - 1] + Openness(ts[n])
    IN  depth

Enclosed(ts) ==
    /\ ts # <<>> /\ Depths(ts)[Len(ts)] = 0
    /\ \A n \in DOMAIN ts : /\ Depths(ts)[n] >= 0
                            /\ ts[n] = Comma => Depths(ts)[n] > 0
=============================================================================
