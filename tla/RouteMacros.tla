------------------------------ MODULE RouteMacros ------------------------------
(***************************************************************************)
(* stano-route-macros: #[get], #[post] and their like turn a handler and    *)
(* the attribute written on it into a #[utoipa::path(...)] attribute and a   *)
(* registration with inventory, or into a compile error.                    *)
(*                                                                         *)
(* An Option is a sequence of at most one element.  A handler is its name,   *)
(* the types of its arguments and its return type (<<>> for none); its body  *)
(* is copied and does not matter.                                           *)
(***************************************************************************)
EXTENDS RustSyntax

-----------------------------------------------------------------------------
(* Splitting an attribute at its top-level commas.                          *)

(* mutant of AngleDepth: only groups nest *)
AngleDepth_Flat(depth, tt) == depth

AngleDepth(depth, tt) ==
    IF tt = Punct("<") THEN depth + 1
    ELSE IF tt = Punct(">") /\ depth > 0 THEN depth - 1
    ELSE depth

(* one token after the others: the keys so far, the key in progress, the depth *)
NothingRead == [keys |-> <<>>, current |-> <<>>, depth |-> 0]
Closed(acc) == IF acc.current = <<>> THEN acc.keys ELSE Append(acc.keys, acc.current)
Take(acc, tt) ==
    IF tt = Comma /\ acc.depth = 0
    THEN [keys |-> Closed(acc), current |-> <<>>, depth |-> 0]
    ELSE [keys |-> acc.keys, current |-> Append(acc.current, tt),
          depth |-> AngleDepth(acc.depth, tt)]

SplitTopLevelKeys(attr) ==
    LET read[n \in 0 .. Len(attr)] ==
            IF n = 0 THEN NothingRead ELSE Take(read[n - 1], attr[n])
    IN  Closed(read[Len(attr)])

(* build_attr_key: a key is its tokens, named by the first of them *)
KeyName(key) == IF IsIdent(key[1]) THEN key[1].ident ELSE ""

(* keys.iter().find(|k| k.name == name) *)
FindKey(keys, name) == FirstKept(keys, {k \in DOMAIN keys : KeyName(keys[k]) = name})

(* what is inside `name(...)`; none for `name = ...` *)
GroupInnerTokens(key) == IF Len(key) = 2 /\ IsGroup(key[2]) THEN <<key[2].of>> ELSE <<>>

InnerOf(keys, name) ==
    LET key == FindKey(keys, name)
    IN  IF key = <<>> THEN <<>> ELSE GroupInnerTokens(key[1])

(* a literal that starts with 200 and goes on with letters only, as do the      *)
(* suffixes of integers that have no digits                                 *)
TwoHundred == {"200", "200usize", "200isize"}

EntryHasStatus200(entry) ==
    /\ IsGroup(entry) /\ entry.group = "("
    /\ \E key \in ToSet(SplitTopLevelKeys(entry.of)) :
          KeyName(key) = "status" /\ \E n \in TwoHundred : Number(n) \in ToSet(key)

-----------------------------------------------------------------------------
(* Reading the signature.                                                   *)

LastSegmentIs(ty, n) == IsPath(ty) /\ Last(ty.segments) = n

(* the T of Wrapper<T>, by the name of the last segment *)
ExtractTypeArg(ty, wrapper) ==
    IF LastSegmentIs(ty, wrapper) /\ Len(ty.args) = 1 /\ IsType(ty.args[1]) THEN ty.args ELSE <<>>

ExtractResultOkArg(ty) ==
    IF LastSegmentIs(ty, "Result") /\ ty.args # <<>> /\ IsType(ty.args[1])
    THEN <<ty.args[1]>> ELSE <<>>

PrimitivePathParamTypes ==
    {"String", "bool", "char", "i8", "i16", "i32", "i64", "i128", "isize",
     "u8", "u16", "u32", "u64", "u128", "usize", "f32", "f64"}

(* name.ends_with("Id"), for the typed ids of the application *)
CONSTANT TypedIds

IsPrimitivePathParamType(ty) ==
    /\ IsPath(ty) /\ Len(ty.segments) = 1 /\ ty.args = <<>>
    /\ ty.segments[1] \in PrimitivePathParamTypes \union TypedIds

(* the names between an opening brace and the closing brace that follows it *)
Closings(pieces, k) == {j \in DOMAIN pieces : j > k /\ pieces[j] = "}"}
NameBetween(pieces, k) ==
    LET end == Min(Closings(pieces, k))
    IN  SubSeq(pieces, Min({j \in k + 1 .. end : pieces[j] # "*"}), end - 1)

Scan(pieces, so_far, k) ==
    IF k > so_far.upto /\ pieces[k] = "{" /\ Closings(pieces, k) # {}
    THEN [names |-> Append(so_far.names, NameBetween(pieces, k)),
          upto |-> Min(Closings(pieces, k))]
    ELSE so_far

PathPlaceholders(pieces) ==
    LET scan[k \in 0 .. Len(pieces)] ==
            IF k = 0 THEN [names |-> <<>>, upto |-> 0] ELSE Scan(pieces, scan[k - 1], k)
    IN  scan[Len(pieces)].names

(* the first literal of `path = ...`, if it is a string *)
FindPathLiteral(keys) ==
    LET key == FindKey(keys, "path")
        literals == IF key = <<>> THEN <<>>
                    ELSE FirstKept(key[1], {k \in DOMAIN key[1] : IsLiteral(key[1][k])})
    IN  IF literals # <<>> /\ "string" \in DOMAIN literals[1] THEN <<literals[1].string>> ELSE <<>>

(* what each kind of extractor among the arguments wraps *)
Wrapped(inputs, w) == FlattenSeq([k \in DOMAIN inputs |-> ExtractTypeArg(inputs[k], w)])
InspectSignature(func) ==
    [json |-> Wrapped(func.inputs, "AppJson"), path |-> Wrapped(func.inputs, "AppPath"),
     query |-> Wrapped(func.inputs, "AppQuery")]

InferredResponseBody(ret) ==
    IF ret = <<>> THEN <<>>
    ELSE IF ExtractTypeArg(ret[1], "AppJson") # <<>> THEN ExtractTypeArg(ret[1], "AppJson")
    ELSE LET ok == ExtractResultOkArg(ret[1])
         IN  IF ok = <<>> THEN <<>> ELSE ExtractTypeArg(ok[1], "AppJson")

-----------------------------------------------------------------------------
(* route_method_fn.                                                         *)

ExplicitBody(keys) == FindKey(keys, "request_body")

(* what follows `request_body =`; nothing for `request_body(...)` *)
ExplicitValue(key) == SubSeq(key, 3, Len(key))

BodiesConflict(keys, sig) ==
    /\ ExplicitBody(keys) # <<>> /\ sig.json # <<>>
    /\ ExplicitValue(ExplicitBody(keys)[1]) # TypeTokens(sig.json[1])

Says200(responses) ==
    \E key \in ToSet(SplitTopLevelKeys(responses)) : \E tt \in ToSet(key) : EntryHasStatus200(tt)

(* the first objection to the handler, in the order the macro looks for them *)
Objection(keys, func) ==
    LET sig == InspectSignature(func)
        body == InferredResponseBody(func.ret)
        responses == InnerOf(keys, "responses")
    IN  CASE Len(sig.json) > 1 -> "two bodies"
          [] Len(sig.path) > 1 -> "two paths"
          [] Len(sig.query) > 1 -> "two queries"
          [] BodiesConflict(keys, sig) -> "body conflict"
          [] body # <<>> /\ responses # <<>> /\ Says200(responses[1]) -> "200 conflict"
          [] body = <<>> /\ responses = <<>> -> "no 200"
          [] OTHER -> "none"

RequestBodyArgs(keys, sig) ==
    IF sig.json # <<>> THEN <<Assign("request_body", TypeTokens(sig.json[1]))>>
    ELSE ExplicitBody(keys)

Entry200(body) ==
    <<Paren(Assign("status", <<Number("200")>>) \o <<Comma>> \o Assign("body", TypeTokens(body)))>>

ResponsesArgs(keys, func) ==
    LET inferred == InferredResponseBody(func.ret)
        written == InnerOf(keys, "responses")
        entries == (IF inferred = <<>> THEN <<>> ELSE <<Entry200(inferred[1])>>) \o written
    IN  <<Call("responses", CommaJoin(entries))>>

(* ("name" = T, Path) for one placeholder and a type that is one value, else T *)
PathParam(keys, ty) ==
    LET literal == FindPathLiteral(keys)
        names == IF literal = <<>> THEN <<>> ELSE PathPlaceholders(literal[1])
    IN  IF Len(names) = 1 /\ IsPrimitivePathParamType(ty)
        THEN <<Paren(<<StringLit(names[1]), Punct("=")>> \o TypeTokens(ty)
                     \o <<Comma, Ident("Path")>>)>>
        ELSE TypeTokens(ty)

ParamsArgs(keys, sig) ==
    LET inferred == [k \in DOMAIN sig.path |-> PathParam(keys, sig.path[k])]
                    \o [k \in DOMAIN sig.query |-> TypeTokens(sig.query[k])]
        params == inferred \o InnerOf(keys, "params")
    IN  IF params = <<>> THEN <<>> ELSE <<Call("params", CommaJoin(params))>>

PassThrough(keys) ==
    Kept(keys, {k \in DOMAIN keys :
                   KeyName(keys[k]) \notin {"request_body", "responses", "params"}})

(* stano_routes_path: where the generated code finds stano-axum from a crate   *)
(* with these dependencies; the macro panics without any of the three        *)
StanoRoutesPath(deps) ==
    IF "stano-axum" \in deps THEN <<"stano-axum">>
    ELSE IF "stano-launcher" \in deps THEN <<"stano-launcher", "stano_axum">>
    ELSE IF "stano-starter-rest" \in deps THEN <<"stano-starter-rest", "stano_axum">>
    ELSE <<>>

CompileError(why) == [error |-> why]
IsError(expansion) == "error" \in DOMAIN expansion

(* #[method(attr)] on a function: the arguments of #[utoipa::path], and the    *)
(* handler that is registered                                               *)
RouteMethodFn(method, attr, func, deps) ==
    LET keys == SplitTopLevelKeys(attr)
        sig == InspectSignature(func)
        objection == Objection(keys, func)
    IN  IF objection # "none" THEN CompileError(objection)
        ELSE IF StanoRoutesPath(deps) = <<>> THEN CompileError("no dependency")
        ELSE [args |-> <<<<Ident(method)>>, Assign("operation_id", <<StringLit(<<func.name>>)>>)>>
                       \o PassThrough(keys) \o RequestBodyArgs(keys, sig)
                       \o ResponsesArgs(keys, func) \o ParamsArgs(keys, sig),
              registers |-> func.name,
              through |-> StanoRoutesPath(deps)]

(* route_method_impl *)
RouteMethodImpl(method, attr, item, deps) ==
    IF item.kind = "fn" THEN RouteMethodFn(method, attr, item, deps)
    ELSE CompileError("not a function")
=============================================================================
