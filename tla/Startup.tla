-------------------------------- MODULE Startup --------------------------------
(***************************************************************************)
(* How a program of the platform comes to serve: its traits, services and    *)
(* handlers are expanded by the macros, linked in an order nobody chooses,    *)
(* registered, validated, configured from the environment and assembled into  *)
(* a router.                                                               *)
(*                                                                         *)
(* Everything happens on one thread; what varies is what was written, the    *)
(* order of the inventory, the environment, and which steps fail.  An item    *)
(* is written with its meaning next to its spelling: the macros read only    *)
(* what is `spelled` (and the attribute), the properties only what is meant.  *)
(***************************************************************************)
EXTENDS RouteMacros, ServiceMacros, WiringGraph

CONSTANTS
    Programs,       \* what may be written, and where it may run: the items, the
                    \* instances main registers, the routes and the Swagger flag it
                    \* passes to run(), the environment
    Origin,         \* origins of requests, and entries of the CORS variables
    Parses,         \* those of them that are header values
    EndsWith        \* pairs <<origin, suffix>>

ASSUME OriginAssumption ==
    /\ Parses \subseteq Origin
    /\ \A o \in Origin : <<o, "">> \in EndsWith

-----------------------------------------------------------------------------
(* What a program is: how the items of `Programs` mean what they spell.  An    *)
(* Option is a sequence of at most one element.                             *)
IsOption(s) == IsSeq(s) /\ Len(s) <= 1

(* A type the macros can carry along: no arrow, no comma outside brackets.     *)
GoodType(ty) == IsType(ty) /\ IsSeq(TypeTokens(ty)) /\ Enclosed(TypeTokens(ty))

LastName(ty) == ty.segments[Len(ty.segments)]
SpelledAs(ty, n, args) == IsPath(ty) /\ ty.segments # <<>> /\ LastName(ty) = n /\ ty.args = args
SpelledWithout(ty, names) == IsPath(ty) => ty.segments # <<>> /\ LastName(ty) \notin names

(* An argument takes something out of the request by one of three wrappers, or  *)
(* has nothing to do with it.                                               *)
Wrapper == {"AppJson", "AppPath", "AppQuery"}
InputWritten(x) ==
    IF x.wraps \in Wrapper
    THEN /\ SpelledAs(x.as, x.wraps, <<x.type>>) /\ GoodType(x.type)
         /\ x.single <=> IsPrimitivePathParamType(x.type)
    ELSE SpelledWithout(x.as, Wrapper)

(* What is answered is an AppJson, or a Result of one.                        *)
FirstArg(ty) == IF IsPath(ty) /\ ty.args # <<>> THEN <<ty.args[1]>> ELSE <<>>
AnswerWritten(ret, answers) ==
    \/ ret = <<>> /\ answers = <<>>
    \/ /\ ret # <<>> /\ answers = <<>> /\ SpelledWithout(ret[1], {"AppJson"})
       /\ FirstArg(ret[1]) # <<>> => SpelledWithout(FirstArg(ret[1])[1], {"AppJson"})
    \/ /\ ret # <<>> /\ Len(answers) = 1 /\ GoodType(answers[1])
       /\ \/ SpelledAs(ret[1], "AppJson", answers)
          \/ /\ SpelledAs(ret[1], "Result", ret[1].args) /\ ret[1].args # <<>>
             /\ IsType(ret[1].args[1]) /\ SpelledAs(ret[1].args[1], "AppJson", answers)

(* Every opening brace of a path is followed by a name, perhaps after a star,   *)
(* and the closing brace.  matchit takes no other closing brace, and a star     *)
(* only at the end; the text between placeholders is one piece here.        *)
NameAt(path, k) == IF path[k + 1] = "*" THEN k + 2 ELSE k + 1
MatchitTakes(path) ==
    /\ \A j \in DOMAIN path : path[j] = "}" =>
          \E k \in DOMAIN path : path[k] = "{" /\ j = NameAt(path, k) + 1
    /\ \A k \in DOMAIN path : path[k] = "{" /\ path[k + 1] = "*" => k + 3 = Len(path)
    /\ \A j \in DOMAIN path : j > 1 =>
          {path[j - 1], path[j]} \intersect {"{", "}"} # {} \/ path[j - 1] = "*"
PathWritten(path, placeholders) ==
    LET opens == {k \in DOMAIN path : path[k] = "{"}
    IN  /\ IsSeq(path) /\ MatchitTakes(path)
        /\ \A k \in opens : /\ NameAt(path, k) + 1 \in DOMAIN path
                             /\ path[NameAt(path, k)] \notin {"{", "}", "*"}
                             /\ path[NameAt(path, k) + 1] = "}"
        /\ placeholders = Kept([k \in DOMAIN path |-> IF k \in opens THEN path[NameAt(path, k)] ELSE ""],
                               opens)

HandlerWritten(h) ==
    /\ h.method \in {"get", "post", "put", "delete", "patch"}
    /\ PathWritten(h.path, h.placeholders)
    /\ IsSeq(h.inputs) /\ \A k \in DOMAIN h.inputs : InputWritten(h.inputs[k])
    /\ h.spelled.inputs = [k \in DOMAIN h.inputs |-> h.inputs[k].as]
    /\ IsOption(h.answers) /\ IsOption(h.spelled.ret) /\ AnswerWritten(h.spelled.ret, h.answers)
    /\ IsOption(h.body) /\ \A k \in DOMAIN h.body : GoodType(h.body[k])
    /\ IsOption(h.responses) /\ IsOption(h.params)
    /\ \A k \in DOMAIN h.responses :
          /\ IsSeq(h.responses[k])
          /\ \A j \in DOMAIN h.responses[k] : GoodType(h.responses[k][j].body)
    /\ \A k \in DOMAIN h.params :
          /\ IsSeq(h.params[k])
          /\ \A j \in DOMAIN h.params[k] : IsSeq(h.params[k][j]) /\ Enclosed(h.params[k][j])
    /\ h.secured \in BOOLEAN

(* A service claims its own type or a trait, and asks for what its Arcs hold.   *)
IdMeant(ty) == IF "dyn" \in DOMAIN ty THEN TraitObjectId(ty.dyn) ELSE TypeIdOf(TypeTokens(ty))
HoldsArc(ty) == IsPath(ty) /\ LastName(ty) = "Arc" /\ ty.args # <<>> /\ IsType(ty.args[1])
ServiceCrates == {"stano-di", "stano-starter", "stano-starter-domain", "stano-starter-rest",
                  "stano-starter-service"}
ServiceWritten(s) ==
    /\ IsSeq(s.spelled.fields)
    /\ s.sound <=>
          /\ s.spelled.kind = "struct" /\ s.spelled.shape # "tuple"
          /\ s.attr # <<>> => "unparsable" \notin DOMAIN s.attr[1]
          /\ s.deps \intersect ServiceCrates # {}
          /\ \A k \in DOMAIN s.spelled.fields : HoldsArc(s.spelled.fields[k])
    /\ s.sound =>
          /\ s.claims = IF s.attr = <<>> THEN TypeIdOf(<<Ident(s.spelled.name)>>)
                        ELSE TraitObjectId(s.attr[1].dyn)
          /\ s.asks = {IdMeant(ty.args[1]) : ty \in ToSet(s.spelled.fields)}

TraitWritten(t) ==
    t.sound <=> /\ t.spelled.kind = "trait" /\ {"Send", "Sync"} \subseteq t.spelled.supertraits
                /\ t.deps \intersect ServiceCrates # {}

(* axum merges two routes of one path if their methods differ; matchit keeps    *)
(* two paths apart unless they differ only in the names of placeholders, or one *)
(* has a placeholder where the other has the star; all else panics.         *)
Shape(path) ==
    [k \in DOMAIN path |-> IF k > 1 /\ path[k - 1] \in {"{", "*"} THEN "name" ELSE path[k]]
StarBesideName(path, other) ==
    \E k \in DOMAIN path \intersect DOMAIN other :
        /\ path[k] = "{" /\ path[k + 1] = "*" /\ other[k] = "{" /\ other[k + 1] # "*"
        /\ \A j \in 1 .. k - 1 : Shape(path)[j] = Shape(other)[j]
Collide(r, other) ==
    \/ Shape(r.path) = Shape(other.path) /\ (r.method = other.method \/ r.path # other.path)
    \/ StarBesideName(r.path, other.path) \/ StarBesideName(other.path, r.path)

(* Structs are told apart by their names, and the routes passed to run() are    *)
(* a router already.                                                        *)
ProgramWritten(p) ==
    /\ IsSeq(p.items)
    /\ \A k \in DOMAIN p.items :
          LET i == p.items[k]
          IN  \/ i.is = "trait" /\ TraitWritten(i)
              \/ i.is = "service" /\ ServiceWritten(i)
              \/ i.is = "handler" /\ HandlerWritten(i)
    /\ \A j, k \in DOMAIN p.items :
          p.items[j].is = "service" /\ p.items[k].is = "service" =>
              /\ p.items[j].spelled.name # "main"
              /\ p.items[j].spelled.name = p.items[k].spelled.name => j = k
    /\ \A r, q \in p.extra : r # q => ~Collide(r, q)
    /\ \A key \in {"APP_CORS_ORIGINS", "APP_CORS_ORIGIN_SUFFIXES", "APP_CORS_DEV_ORIGINS"} :
          /\ key \in DOMAIN p.env.process => IsSeq(p.env.process[key])
          /\ key \in DOMAIN p.env.file => IsSeq(p.env.file[key])

ASSUME ProgramAssumption == \A p \in Programs : ProgramWritten(p)

-----------------------------------------------------------------------------
(* The state.                                                               *)

VARIABLES
    phase,          \* how far the program has come
    source,         \* the program as it was written
    expansions,     \* what the macros made of its items so far
    routes,         \* the registrations of handlers, in inventory order
    registrations,  \* the registrations of services, in inventory order
    registry,       \* the container: id -> what was registered for it
    late,           \* ids main registered after register_all
    config,         \* BootstrapConfig
    todo,           \* what the loop in progress has still to add
    router,         \* the routes of the application
    docs,           \* the operations of the OpenAPI document
    schemes         \* its security schemes

linked == <<routes, registrations>>
assembly == <<todo, router, docs, schemes>>
vars == <<phase, source, expansions, linked, registry, late, config, assembly>>

Phase == {"compiling", "linked", "registering", "registered", "validated", "configured", "collecting",
          "documented", "assembling", "bound", "serving",
          "rejected", "failed", "panicked"}
Nothing == [is |-> "nothing"]

Init ==
    /\ phase = "compiling" /\ source \in Programs /\ expansions = <<>>
    /\ routes = <<>> /\ registrations = <<>>
    /\ registry = <<>> /\ late = {} /\ config = Nothing
    /\ todo = <<>> /\ router = {} /\ docs = {} /\ schemes = {}

Items(kind) == {k \in DOMAIN source.items : source.items[k].is = kind}
Written(kind) == {source.items[k] : k \in Items(kind)}

-----------------------------------------------------------------------------
(* Compile time.                                                            *)

BearerAuth == <<StringLit(<<"bearerAuth">>), Punct("="), Group("[", <<>>)>>
WrittenEntry(e) ==
    <<Paren(Assign("status", <<Number(e.status)>>) \o <<Comma>> \o Assign("body", TypeTokens(e.body)))>>
PathKey(h) == Assign("path", <<StringLit(h.path)>>)
SecurityKey(h) == IF h.secured THEN <<Call("security", <<Paren(BearerAuth)>>)>> ELSE <<>>

(* the attribute as it is written; `responses` and `params` are lists or absent *)
Attribute(h) ==
    CommaJoin(
        <<PathKey(h)>>
        \o [k \in DOMAIN h.body |-> Assign("request_body", TypeTokens(h.body[k]))]
        \o [k \in DOMAIN h.responses |->
               Call("responses", CommaJoin([j \in DOMAIN h.responses[k] |->
                                               WrittenEntry(h.responses[k][j])]))]
        \o SecurityKey(h)
        \o [k \in DOMAIN h.params |-> Call("params", CommaJoin(h.params[k]))])

NextItem == source.items[Len(expansions) + 1]
Turn(kind) ==
    phase = "compiling" /\ Len(expansions) < Len(source.items) /\ NextItem.is = kind

(* an item is replaced by its expansion, or refused *)
Compile(expansion) ==
    /\ expansions' = Append(expansions, expansion)
    /\ phase' = IF IsError(expansion) THEN "rejected" ELSE phase
    /\ UNCHANGED <<source, linked, registry, late, config, assembly>>

(* #[component] on a trait *)
CompileTrait ==
    /\ Turn("trait")
    /\ Compile(ComponentImpl(NextItem.spelled, NextItem.deps))

(* #[service], #[service(dyn Trait)] on a struct *)
CompileService ==
    /\ Turn("service")
    /\ Compile(ServiceImpl(NextItem.attr, NextItem.spelled, NextItem.deps))

(* #[get], #[post]: ... on a function *)
CompileHandler ==
    /\ Turn("handler")
    /\ Compile(RouteMethodImpl(NextItem.method, Attribute(NextItem), NextItem.spelled, NextItem.deps))

(* what utoipa and axum make of the expansion *)
RouteOf(e) ==
    [method |-> e.args[1][1].ident,
     path |-> FindPathLiteral(e.args)[1],
     handler |-> e.registers,
     operation |-> FindKey(e.args, "operation_id")[1][3].string[1],
     secured |-> FindKey(e.args, "security") # <<>>]

Having(field) == {k \in DOMAIN expansions : field \in DOMAIN expansions[k]}
Orders(S) == Bijection(1 .. Cardinality(S), S)

(* the linker collects the submissions of all crates in an order of its own *)
Link ==
    /\ phase = "compiling" /\ Len(expansions) = Len(source.items)
    /\ \E p \in Orders(Having("args")) :
          routes' = [n \in DOMAIN p |-> RouteOf(expansions[p[n]])]
    /\ \E p \in Orders(Having("component")) :
          registrations' = [n \in DOMAIN p |-> expansions[p[n]]]
    /\ phase' = "linked" /\ expansions' = <<>>
    /\ UNCHANGED <<source, registry, late, config, assembly>>

-----------------------------------------------------------------------------
(* The application context.                                                 *)

Recipe(r) == [holder |-> r.component, declared |-> r.declared, gets |-> r.gets]
Instance == [holder |-> "main", declared |-> <<>>, gets |-> <<>>]

(* HashMap::insert *)
Insert(reg, id, entry) ==
    [i \in DOMAIN reg \union {id} |-> IF i = id THEN entry ELSE reg[i]]

(* register_instance, by main, before register_all or after it *)
RegisterInstance(i) ==
    /\ phase \in {"linked", "registered"}
    /\ i \in DOMAIN registry => registry[i] # Instance
    /\ registry' = Insert(registry, i, Instance)
    /\ late' = IF phase = "registered" THEN late \union {i} ELSE late
    /\ UNCHANGED <<phase, source, expansions, linked, config, assembly>>

(* mutant of Register: what is registered already stays *)
Register_KeepFirst(reg, r) ==
    IF r.id \in DOMAIN reg THEN reg ELSE Insert(reg, r.id, Recipe(r))

(* Component::register: whatever the id held before is replaced *)
Register(reg, r) == Insert(reg, r.id, Recipe(r))

(* register_all: every submission of the inventory *)
RegisterAll ==
    /\ phase = "linked"
    /\ phase' = "registering" /\ todo' = registrations
    /\ UNCHANGED <<source, expansions, linked, registry, late, config, router, docs, schemes>>

RegisterNext ==
    /\ phase = "registering" /\ todo # <<>>
    /\ registry' = Register(registry, Head(todo))
    /\ todo' = Tail(todo)
    /\ UNCHANGED <<phase, source, expansions, linked, late, config, router, docs, schemes>>

RegisterAllReturns ==
    /\ phase = "registering" /\ todo = <<>>
    /\ phase' = "registered"
    /\ UNCHANGED <<source, expansions, linked, registry, late, config, assembly>>

(* what validate() finds of a registry whose factories do not fail themselves  *)
Registered == DOMAIN registry
DeclaredEdges == {e \in Registered \X Registered : e[2] \in ToSet(registry[e[1]].declared)}
Resolvable ==
    /\ ~HasCycleIn(Registered, DeclaredEdges)
    /\ \A i \in Registered : ToSet(registry[i].gets) \subseteq Registered

(* validate; main gives up if it fails, also because a factory's own code did *)
Validate ==
    /\ phase = "registered"
    /\ \/ Resolvable /\ phase' = "validated"
       \/ phase' = "failed"
    /\ UNCHANGED <<source, expansions, linked, registry, late, config, assembly>>

-----------------------------------------------------------------------------
(* Configuration.                                                           *)

(* OsEnvironment: a .env file gives values only to variables that have none *)
env == source.env

Get(key) ==
    IF key \in DOMAIN env.process THEN <<env.process[key]>>
    ELSE IF key \in DOMAIN env.file THEN <<env.file[key]>>
    ELSE <<>>

Says(key, spellings) == Get(key) # <<>> /\ Get(key)[1] \in spellings
TrueSpellings == {"true", "True", "TRUE"}
DevelopmentSpellings == {"development", "Development"}

(* mutant of ParseCsvEnv: empty entries are kept *)
ParseCsvEnv_KeepEmpty(key) ==
    LET entries == IF Get(key) = <<>> THEN <<[text |-> "", padded |-> FALSE]>> ELSE Get(key)[1]
    IN  [k \in DOMAIN entries |-> entries[k].text]

(* parse_csv_env: an unset variable is one empty entry; entries are trimmed,    *)
(* and the empty ones dropped                                               *)
ParseCsvEnv(key) ==
    LET entries == IF Get(key) = <<>> THEN <<[text |-> "", padded |-> FALSE]>> ELSE Get(key)[1]
    IN  Kept([k \in DOMAIN entries |-> entries[k].text], {k \in DOMAIN entries : entries[k].text # ""})

IsDevEnvironment == env.debug \/ Says("RUST_ENV", DevelopmentSpellings)

ObservabilityConfigFromEnv ==
    [enabled |-> Says("MRP_OTEL_ENABLED", TrueSpellings),
     protocol |-> IF Says("OTEL_EXPORTER_OTLP_PROTOCOL", {"http/protobuf", "http", "HTTP"})
                  THEN "http" ELSE "grpc",
     metrics |-> Says("MRP_OTEL_METRICS_ENABLED", TrueSpellings),
     prometheus |-> Says("MRP_PROMETHEUS_ENABLED", TrueSpellings),
     httpLogging |-> Says("MRP_HTTP_LOGGING_ENABLED", TrueSpellings),
     processMetrics |-> Says("MRP_PROCESS_METRICS_ENABLED", TrueSpellings)]

(* BootstrapConfig, as the launcher's README has main build it *)
Configure ==
    /\ phase = "validated"
    /\ config' = [cors_origins |-> ToSet(ParseCsvEnv("APP_CORS_ORIGINS")),
                  cors_origin_suffixes |-> ToSet(ParseCsvEnv("APP_CORS_ORIGIN_SUFFIXES")),
                  cors_dev_origins |-> ToSet(ParseCsvEnv("APP_CORS_DEV_ORIGINS")),
                  is_dev |-> IsDevEnvironment,
                  enable_swagger |-> source.swagger,
                  observability |-> ObservabilityConfigFromEnv]
    /\ phase' = "configured"
    /\ UNCHANGED <<source, expansions, linked, registry, late, assembly>>

(* cors_layer: the origins that are allowed, and whether with credentials; the  *)
(* development origins go through AllowOrigin::list, which takes no wildcard    *)
DevOrigins(c) == c.cors_dev_origins \intersect Parses

CorsLayerPanics(c) == c.is_dev /\ "*" \in DevOrigins(c)

CorsLayer(c) ==
    IF c.is_dev /\ c.cors_dev_origins # {}
    THEN [allows |-> DevOrigins(c), credentials |-> TRUE]
    ELSE IF c.cors_origins = {} /\ c.cors_origin_suffixes = {}
    THEN [allows |-> Parses, credentials |-> FALSE]
    ELSE [allows |-> {o \in Parses : \/ o \in c.cors_origins
                                     \/ \E s \in c.cors_origin_suffixes : <<o, s>> \in EndsWith},
          credentials |-> TRUE]

-----------------------------------------------------------------------------
(* run(), up to the first request.                                          *)

(* init_observability, which may fail *)
StartRun ==
    /\ phase = "configured"
    /\ \/ phase' = "collecting" /\ todo' = routes
       \/ phase' = "failed" /\ UNCHANGED todo
    /\ UNCHANGED <<source, expansions, linked, registry, late, config, router, docs, schemes>>

(* mutant of Mount: a route that collides is skipped *)
Mount_Skip(new, next) ==
    /\ phase' = next
    /\ router' = router \union {r \in new : ~\E other \in router : Collide(r, other)}

(* route(), merge() of the routes new *)
Mount(new, next) ==
    IF \E r \in new, other \in router : Collide(r, other)
    THEN phase' = "panicked" /\ UNCHANGED router
    ELSE phase' = next /\ router' = router \union new

(* collect_routes: one registration of the inventory *)
CollectRoute ==
    /\ phase = "collecting" /\ todo # <<>>
    /\ Mount({Head(todo)}, "collecting")
    /\ docs' = docs \union {Head(todo)}
    /\ todo' = Tail(todo)
    /\ UNCHANGED <<source, expansions, linked, registry, late, config, schemes>>

(* mutant of RegisterBearerAuthScheme: not called *)
RegisterBearerAuthScheme_Not(known) == known

RegisterBearerAuthScheme(known) == known \union {"bearerAuth"}

(* merge(extra_routes), split_for_parts, register_bearer_auth_scheme *)
MergeExtraRoutes ==
    /\ phase = "collecting" /\ todo = <<>>
    /\ Mount(source.extra, "documented")
    /\ docs' = docs \union source.extra
    /\ schemes' = RegisterBearerAuthScheme(schemes)
    /\ UNCHANGED <<source, expansions, linked, registry, late, config, todo>>

BuiltIn(path) == [method |-> "get", path |-> path, handler |-> "built-in",
                  operation |-> "none", secured |-> FALSE]
SwaggerRoutes == {BuiltIn(<<"/swagger">>), BuiltIn(<<"/swagger/">>),
                  BuiltIn(<<"/swagger/", "{", "*", "rest", "}">>),
                  BuiltIn(<<"/api-docs/openapi.json">>)}
PrometheusRoutes == {BuiltIn(<<"/metrics">>)}

(* the Swagger UI *)
MergeSwagger ==
    /\ phase = "documented"
    /\ Mount(IF config.enable_swagger THEN SwaggerRoutes ELSE {}, "assembling")
    /\ UNCHANGED <<source, expansions, linked, registry, late, config, todo, docs, schemes>>

(* prometheus_router *)
MergePrometheus ==
    /\ phase = "assembling"
    /\ Mount(IF config.observability.prometheus THEN PrometheusRoutes ELSE {}, "bound")
    /\ UNCHANGED <<source, expansions, linked, registry, late, config, todo, docs, schemes>>

(* the layers, CORS the last of them, and TcpListener::bind *)
Bind ==
    /\ phase = "bound"
    /\ phase' \in IF CorsLayerPanics(config) THEN {"panicked"} ELSE {"serving", "failed"}
    /\ UNCHANGED <<source, expansions, linked, registry, late, config, assembly>>

Next ==
    \/ CompileTrait \/ CompileService \/ CompileHandler \/ Link
    \/ \E i \in source.instances : RegisterInstance(i)
    \/ RegisterAll \/ RegisterNext \/ RegisterAllReturns \/ Validate \/ Configure
    \/ StartRun \/ CollectRoute \/ MergeExtraRoutes \/ MergeSwagger \/ MergePrometheus \/ Bind

Spec == Init /\ [][Next]_vars

-----------------------------------------------------------------------------
After(p) ==
    LET order == <<"linked", "registering", "registered", "validated", "configured", "collecting",
                   "documented", "assembling", "bound", "serving">>
    IN  \E j, k \in DOMAIN order : j <= k /\ order[j] = p /\ order[k] = phase

(* The shape of the state, and what goes with each phase: registrations are    *)
(* permuted but none is lost, the document has only routes of the router, and  *)
(* operations that ask for bearerAuth are documented with its scheme.        *)
TypeOK ==
    /\ phase \in Phase
    /\ Len(expansions) <= Len(source.items)
    /\ expansions # <<>> => phase \in {"compiling", "rejected"}
    /\ After("linked") =>
          /\ Len(routes) = Cardinality(Items("handler"))
          /\ {r.handler : r \in ToSet(routes)} = {h.spelled.name : h \in Written("handler")}
          /\ Len(registrations) = Cardinality(Items("service"))
    /\ late \subseteq Registered \intersect source.instances
    /\ After("documented") => docs \subseteq router
    /\ After("documented") => \A d \in docs : d.secured => "bearerAuth" \in schemes

(* what a handler takes out of the request with wrapper w, and the answers      *)
(* written for it                                                           *)
Taking(h, w) == Kept(h.inputs, {k \in DOMAIN h.inputs : h.inputs[k].wraps = w})
Statuses(h) == IF h.responses = <<>> THEN {} ELSE {e.status : e \in ToSet(h.responses[1])}

(* What the macros object to.  Of a written responses(...) they look only for a *)
(* 200 beside the one they infer: without an answer to infer it may leave the   *)
(* 200 out, or give it twice.                                               *)
Objectionable(h) ==
    \/ h.spelled.kind # "fn"
    \/ h.deps \intersect {"stano-axum", "stano-launcher", "stano-starter-rest"} = {}
    \/ \E w \in {"AppJson", "AppPath", "AppQuery"} : Len(Taking(h, w)) > 1
    \/ /\ h.body # <<>> /\ Taking(h, "AppJson") # <<>>
       /\ TypeTokens(h.body[1]) # TypeTokens(Taking(h, "AppJson")[1].type)
    \/ h.answers # <<>> /\ Statuses(h) \intersect TwoHundred # {}
    \/ h.answers = <<>> /\ h.responses = <<>>

WithoutCommas(ts) == Kept(ts, {k \in DOMAIN ts : ts[k] # Comma})
Plain(key) == IF GroupInnerTokens(key) = <<>> THEN key
              ELSE <<key[1], Paren(WithoutCommas(key[2].of))>>

MeantBody(h) ==
    LET taken == Taking(h, "AppJson")
    IN  IF taken # <<>> THEN <<taken[1].type>> ELSE h.body
MeantResponses(h) ==
    (IF h.answers = <<>> THEN <<>> ELSE <<[status |-> "200", body |-> h.answers[1]]>>)
    \o FlattenSeq(h.responses)
MeantParams(h) ==
    LET Param(x) ==
            IF x.wraps = "AppPath" /\ x.single /\ Len(h.placeholders) = 1
            THEN <<Paren(<<StringLit(<<h.placeholders[1]>>), Punct("=")>> \o TypeTokens(x.type)
                         \o <<Comma, Ident("Path")>>)>>
            ELSE TypeTokens(x.type)
        taken == Taking(h, "AppPath") \o Taking(h, "AppQuery")
    IN  [k \in DOMAIN taken |-> Param(taken[k])] \o FlattenSeq(h.params)

(* the arguments of #[utoipa::path] that say what a handler means *)
Meaning(h) ==
    <<<<Ident(h.method)>>, Assign("operation_id", <<StringLit(<<h.spelled.name>>)>>), PathKey(h)>>
    \o SecurityKey(h)
    \o [k \in DOMAIN MeantBody(h) |-> Assign("request_body", TypeTokens(MeantBody(h)[k]))]
    \o <<Call("responses", FlattenSeq([k \in DOMAIN MeantResponses(h) |->
                                          WrittenEntry(MeantResponses(h)[k])]))>>
    \o (IF MeantParams(h) = <<>> /\ h.params = <<>> THEN <<>>
        ELSE <<Call("params", FlattenSeq(MeantParams(h)))>>)

(* The macros refuse a handler that takes two bodies, paths or queries, writes  *)
(* another body than the one it takes, writes a 200 next to the one it answers, *)
(* or neither answers nor writes any responses; and a service with a field it   *)
(* cannot resolve.  They refuse nothing else, and what they accept they         *)
(* document as it was meant: its body, the answer of its return type as the     *)
(* first 200, the other answers in the order written, its parameters once each, *)
(* everything else word for word, however many commas and angle brackets there  *)
(* are in the types.                                                        *)
ExpansionKeepsMeaning ==
    \A k \in DOMAIN expansions :
       LET i == source.items[k]
           e == expansions[k]
       IN  IF i.is # "handler" THEN IsError(e) <=> ~i.sound
           ELSE IF IsError(e) THEN Objectionable(i)
           ELSE /\ ~Objectionable(i) /\ Len(e.args) = Len(Meaning(i))
                /\ {Plain(a) : a \in ToSet(e.args)} = {Plain(a) : a \in ToSet(Meaning(i))}

(* Once validate() has passed, every field of every registered service, as the  *)
(* struct was written, names something registered, and no service needs itself. *)
ValidatedMeansComplete ==
    After("validated") =>
        LET holds == {s \in Written("service") :
                         registry[s.claims].holder = s.spelled.name}
            needs == UNION {{s.claims} \X s.asks : s \in holds}
        IN  /\ \A s \in holds : s.asks \subseteq Registered
            /\ ~HasCycleIn(Registered, needs)

(* A service is found under the id it claims unless another one claims it too   *)
(* or main registers an instance afterwards: what main registered before        *)
(* register_all gives way to a service, in whatever order services are linked. *)
ClaimantHolds ==
    After("registered") =>
        \A s \in Written("service") :
            LET rivals == {r \in Written("service") : r.claims = s.claims}
            IN  /\ s.claims \in Registered
                /\ registry[s.claims].holder \in
                      IF s.claims \in late THEN {"main"} ELSE {r.spelled.name : r \in rivals}

(* the routes a program asks for, and which part of it does: one of its         *)
(* handlers, run()'s argument, the Swagger UI, /metrics                     *)
Asked ==
    {<<k, source.items[k]>> : k \in Items("handler")}
    \union {<<0, r>> : r \in source.extra}
    \union {<<-1, r>> : r \in IF source.swagger THEN SwaggerRoutes ELSE {}}
    \union {<<-2, r>> : r \in IF Says("MRP_PROMETHEUS_ENABLED", TrueSpellings)
                             THEN PrometheusRoutes ELSE {}}

Given(key) == IF Get(key) = <<>> THEN {} ELSE {e.text : e \in ToSet(Get(key)[1])} \ {""}

WildcardListed == IsDevEnvironment /\ "*" \in Given("APP_CORS_DEV_ORIGINS")

(* A program that serves, serves every handler it was written with, where it    *)
(* was written, and documents it; it panics only if two of the routes it asked  *)
(* for are in one place or the development origins name the wildcard, and if    *)
(* two of its handlers are in one place, it never serves.                   *)
EveryHandlerServed ==
    /\ phase = "serving" =>
          \A h \in Written("handler") :
             /\ {r.handler : r \in {q \in router : q.method = h.method /\ q.path = h.path}}
                   = {h.spelled.name}
             /\ \E d \in docs : /\ d.path = h.path /\ d.method = h.method
                                /\ d.operation = h.spelled.name /\ d.secured = h.secured
    /\ phase = "serving" =>
          \A j, k \in Items("handler") : j # k => ~Collide(source.items[j], source.items[k])
    /\ phase = "panicked" =>
          \/ \E r, q \in Asked : r # q /\ Collide(r[2], q[2])
          \/ WildcardListed

(* Credentials are shared only with origins that a variable of this environment *)
(* names, and a list that applies admits nobody else: neither an empty entry,   *)
(* nor one that is no header value, nor a development list in production opens  *)
(* a list that was given.                                                   *)
OnlyListedOrigins ==
    phase = "serving" =>
        LET cors == CorsLayer(config)
            development == Given("APP_CORS_DEV_ORIGINS")
            production == {o \in Origin : \/ o \in Given("APP_CORS_ORIGINS")
                                         \/ \E s \in Given("APP_CORS_ORIGIN_SUFFIXES") : <<o, s>> \in EndsWith}
            restricted == Given("APP_CORS_ORIGINS") \union Given("APP_CORS_ORIGIN_SUFFIXES") # {}
        IN  IF IsDevEnvironment /\ development # {}
            THEN cors.allows \subseteq development
            ELSE IF restricted THEN cors.allows \subseteq production ELSE ~cors.credentials
=============================================================================
