------------------------------- MODULE MCStartup -------------------------------
(***************************************************************************)
(* The programs and environments for Startup: four sweeps, each over one      *)
(* part of a program with the others fixed.                                  *)
(***************************************************************************)
EXTENDS Startup

Foo == Named("Foo")
Map == Generic("HashMap", <<Named("A"), Named("B")>>)
Text == OtherType(<<Punct("&"), Punct("'"), Ident("static"), Ident("str")>>)
Created == OtherType(<<Paren(<<Ident("StatusCode"), Comma>> \o TypeTokens(Generic("AppJson", <<Foo>>)))>>)

-----------------------------------------------------------------------------
(* Handlers.                                                                *)

Takes(wrapper, type, single) ==
    [wraps |-> wrapper, type |-> type, single |-> single, as |-> Generic(wrapper, <<type>>)]
Qualified(x) == [x EXCEPT !.as = PathType(<<"stano_axum">> \o @.segments, @.args)]

Json(t) == Takes("AppJson", t, FALSE)
IdPath == Takes("AppPath", Named("WidgetId"), TRUE)
TextPath == Takes("AppPath", Named("String"), TRUE)
PartsPath == Takes("AppPath", Named("WidgetParts"), FALSE)
Search == Takes("AppQuery", Named("SearchParams"), FALSE)
Context == Takes("State", Generic("Arc", <<Named("ApplicationContext")>>), FALSE)

Inputs == {<<>>, <<Json(Foo)>>, <<Context, Json(Map)>>, <<Qualified(Json(Foo))>>,
           <<IdPath>>, <<TextPath, Search>>, <<PartsPath, Json(Foo)>>, <<Search>>,
           <<Json(Foo), Json(Foo)>>, <<IdPath, TextPath>>, <<Search, Context, Search>>}

Returns == {[answers |-> <<>>, ret |-> <<>>],
            [answers |-> <<>>, ret |-> <<Text>>],
            [answers |-> <<>>, ret |-> <<Created>>],
            [answers |-> <<>>, ret |-> <<Generic("Result", <<Text, Named("ApiError")>>)>>],
            [answers |-> <<Foo>>, ret |-> <<Generic("AppJson", <<Foo>>)>>],
            [answers |-> <<Map>>,
             ret |-> <<Generic("Result", <<Generic("AppJson", <<Map>>), Named("ApiError")>>)>>]}

Entry(status, body) == [status |-> status, body |-> body]
Responses == {<<>>, <<<<>>>>, <<<<Entry("404", Map)>>>>, <<<<Entry("200", Foo)>>>>,
              <<<<Entry("404", Map), Entry("200", Foo)>>>>, <<<<Entry("200usize", Foo)>>>>,
              <<<<Entry("200", Foo), Entry("200", Map)>>>>}

Header == <<Paren(<<StringLit(<<"X-Trace">>), Punct("="), Ident("String"), Comma, Ident("Header")>>)>>
Written_params == {<<>>, <<<<>>>>, <<<<Header>>>>, <<<<Header, Header>>>>}

OnePlace == [path |-> <<"/widgets/", "{", "id", "}">>, placeholders |-> <<"id">>]
Places == {OnePlace,
           [path |-> <<"/widgets">>, placeholders |-> <<>>],
           [path |-> <<"/widgets/", "{", "id", "}", "/parts/", "{", "part", "}">>,
            placeholders |-> <<"id", "part">>],
           [path |-> <<"/files/", "{", "*", "rest", "}">>, placeholders |-> <<"rest">>]}

Handler(inputs, r, body, responses, params, place) ==
    [is |-> "handler", method |-> "get", path |-> place.path, placeholders |-> place.placeholders,
     body |-> body, responses |-> responses, params |-> params, secured |-> params # <<>>,
     deps |-> {"stano-starter-rest"}, inputs |-> inputs, answers |-> r.answers,
     spelled |-> [kind |-> "fn", name |-> "handler",
                  inputs |-> [k \in DOMAIN inputs |-> inputs[k].as], ret |-> r.ret]]

Health == Handler(<<>>, [answers |-> <<Foo>>, ret |-> <<Generic("AppJson", <<Foo>>)>>],
                  <<>>, <<>>, <<>>, [path |-> <<"/health">>, placeholders |-> <<>>])

Sweep ==
    {Handler(i, r, b, rs, ps, OnePlace) :
        i \in Inputs, r \in Returns, b \in {<<>>, <<Foo>>, <<Map>>}, rs \in Responses, ps \in Written_params}
    \union {Handler(i, r, <<>>, rs, <<>>, at) :
        i \in Inputs, r \in Returns, rs \in Responses, at \in Places}
    \union {[Health EXCEPT !.deps = {"serde"}], [Health EXCEPT !.spelled.kind = "struct"]}

-----------------------------------------------------------------------------
(* Routes that may meet.                                                    *)

At(method, name, path) ==
    [Health EXCEPT !.method = method, !.spelled.name = name, !.path = path,
                    !.placeholders = IF Len(path) > 2 THEN <<path[Len(path) - 1]>> ELSE <<>>,
                    !.secured = method # "get"]

Routes == {At("get", "list", <<"/widgets">>), At("post", "create", <<"/widgets">>),
           At("post", "create_again", <<"/widgets">>),
           At("get", "by_id", <<"/widgets/", "{", "id", "}">>),
           At("delete", "remove", <<"/widgets/", "{", "id", "}">>),
           At("get", "by_name", <<"/widgets/", "{", "name", "}">>),
           At("get", "below", <<"/widgets/", "{", "*", "rest", "}">>),
           At("get", "page", <<"/swagger/", "{", "page", "}">>),
           At("get", "metrics", <<"/metrics">>)}

Extra(method, path) ==
    [method |-> method, path |-> path, handler |-> "extra", operation |-> "extra", secured |-> TRUE]

-----------------------------------------------------------------------------
(* Traits and services.                                                     *)

Trait(name) ==
    [is |-> "trait", deps |-> {"stano-starter"}, sound |-> TRUE,
     spelled |-> [kind |-> "trait", name |-> name, supertraits |-> {"Send", "Sync"}]]

Arc(t) == Generic("Arc", <<t>>)
StdArc(t) == PathType(<<"std", "sync", "Arc">>, <<t>>)

Service(name, attr, fields, claims, asks) ==
    [is |-> "service", deps |-> {"stano-starter-service"}, sound |-> TRUE, attr |-> attr,
     claims |-> claims, asks |-> asks,
     spelled |-> [kind |-> "struct", name |-> name, shape |-> "named", fields |-> fields]]

DbConfig == TypeIdOf(<<Ident("DbConfig")>>)
Settings == TypeIdOf(TypeTokens(Map))
Greeter == TraitObjectId("Greeter")
Logger == TraitObjectId("Logger")

Services ==
    {Service("EnglishGreeter", <<Dyn("Greeter")>>, <<Arc(Dyn("Logger"))>>, Greeter, {Logger}),
     Service("LoudGreeter", <<Dyn("Greeter")>>, <<>>, Greeter, {}),
     Service("ConsoleLogger", <<Dyn("Logger")>>, <<Arc(Named("DbConfig"))>>, Logger, {DbConfig}),
     Service("PoliteLogger", <<Dyn("Logger")>>, <<StdArc(Dyn("Greeter"))>>, Logger, {Greeter}),
     Service("Reports", <<>>, <<StdArc(Dyn("Greeter")), Arc(Map)>>,
             TypeIdOf(<<Ident("Reports")>>), {Greeter, Settings}),
     Service("DbConfig", <<>>, <<>>, DbConfig, {})}

Unsound(item) == [item EXCEPT !.sound = FALSE]
Base == Service("Odd", <<>>, <<Arc(Dyn("Logger"))>>, TypeIdOf(<<Ident("Odd")>>), {Logger})
Refused ==
    {Unsound([Base EXCEPT !.spelled.shape = "tuple"]),
     Unsound([Base EXCEPT !.spelled.fields = <<Arc(Dyn("Logger")), Named("DbConfig")>>]),
     Unsound([Base EXCEPT !.spelled.kind = "fn"]),
     Unsound([Base EXCEPT !.attr = <<[unparsable |-> TRUE]>>]),
     Unsound([Base EXCEPT !.deps = {"serde"}]),
     Unsound([Trait("Odd") EXCEPT !.spelled.supertraits = {"Send"}]),
     Unsound([Trait("Odd") EXCEPT !.spelled.kind = "struct"])}

-----------------------------------------------------------------------------
(* Environments.                                                            *)

Release == [process |-> <<>>, file |-> <<>>, debug |-> FALSE]
Scraped == [Release EXCEPT !.process = [MRP_PROMETHEUS_ENABLED |-> "true"]]

Item(text) == [text |-> text, padded |-> FALSE]
Padded(text) == [text |-> text, padded |-> TRUE]
Lists == {<<Item("https://b.org")>>, <<Padded("https://a.example.com"), Item("")>>,
          <<Item("")>>, <<Padded("bad origin")>>, <<Item("https://b.org"), Item("*")>>}

Setting(key, values) == {<<>>} \union {key :> v : v \in values}
Cors ==
    {[process |-> origins @@ suffixes @@ dev @@ profile, file |-> file, debug |-> debug] :
        origins \in Setting("APP_CORS_ORIGINS", Lists),
        suffixes \in Setting("APP_CORS_ORIGIN_SUFFIXES", {<<Item(".example.com")>>, <<Item(""), Item("")>>}),
        dev \in Setting("APP_CORS_DEV_ORIGINS", Lists),
        profile \in Setting("RUST_ENV", {"Development", "production"}),
        file \in {<<>>, [RUST_ENV |-> "development", APP_CORS_ORIGINS |-> <<Item("https://a.example.com")>>]},
        debug \in BOOLEAN}

MCOrigin == {"https://a.example.com", "https://b.org", "*", "bad origin"}
MCParses == MCOrigin \ {"bad origin"}
MCEndsWith == {<<o, s>> \in MCOrigin \X (MCOrigin \union {"", ".example.com"}) :
                  s \in {"", o} \/ <<o, s>> = <<"https://a.example.com", ".example.com">>}
MCTypedIds == {"WidgetId"}

-----------------------------------------------------------------------------
Program(items, instances, extra, swagger, environment) ==
    [items |-> items, instances |-> instances, extra |-> extra, swagger |-> swagger, env |-> environment]

Plainly(items) == Program(items, {}, {}, FALSE, Release)

(* one sequence for each set: Link reorders what is registered *)
UpTo(n, S) == {SetToSeq(T) : T \in UNION {kSubset(k, S) : k \in 0 .. n}}

MCPrograms ==
    {Plainly(<<h>>) : h \in Sweep}
    \union {Plainly(<<Trait("Logger"), i>>) : i \in Refused}
    \union {Program(hs, {}, extra, swagger, e) :
               hs \in UpTo(3, Routes), swagger \in BOOLEAN, e \in {Release, Scraped},
               extra \in {{}, {Extra("post", <<"/widgets">>)}, {Extra("get", <<"/swagger/">>)}}}
    \union {Program(<<Trait("Greeter"), Trait("Logger")>> \o ss \o <<Health>>, instances, {}, TRUE, Release) :
               ss \in UpTo(4, Services), instances \in SUBSET {DbConfig, Settings}}
    \union {Program(<<Health>>, {}, {}, FALSE, e) : e \in Cors}
=============================================================================
