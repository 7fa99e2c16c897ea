# A verification of modular-rust-platform

TLA+ models of the parts of this repository that keep state and decide things at
run time, at start-up and in its macros, the TLC configurations that check them, and
TLAPS proofs: every invariant that a passing run checks is proved for all values of the
constants. Paths in this file are relative to `src/crates/`.

## 1. The system

| Component | State | Operations | Talks to |
|---|---|---|---|
| DI container, `stano-di/src/container.rs` | factories, one `OnceLock` cell per type, declared dependencies | register\*, register_instance, try_get, get, validate, dependency_graph | factories call back into `get` |
| Cycle detection, `container.rs:257-321` | colours, frames, path, errors of one search | one pass of the loop | validate |
| Application context, environment, `stano-di/src/{application_context,environment}.rs` | the container; the variables of the process and of a `.env` file | register_instance, register_all, validate, environment | everything at start-up |
| DI macros, `stano-di-macros` | none (compile time) | `#[component]`, `#[service]`: ids, dependency lists, factories, registration, refusals | container, linker (`inventory`) |
| Authorization, `stano-axum/src/security` | the builder chain; the finished layer; a lazily bound counter | request_matcher, any_request, methods, permit_all ... has_any_role, build; one check per request | the application's claims validator, the JWT decoder, the meter |
| Post-authorization hook, `post_authorization_hook.rs` | none | an async function of the request and the rest of the stack | application |
| Middleware, `stano-axum/src/middleware` | none | error logging, request logging | response extensions, tracing |
| Extractors, errors, `stano-axum/src/{extractors,error}` | none | rejections to `ApiError`, `ApiError` to response | handlers, error logging |
| HTTP server, `stano-launcher/src/server.rs` | the layer stack, requests in progress | run: initialise, assemble, bind, serve, drain, shut down | all of the above |
| Observability, `stano-launcher/src/observability.rs` | three providers, global and guarded; a gauge | init_observability, force_flush, shutdown, drop, record_http_metrics | collector |
| Database, query tracing, `stano-seaorm` | the pool; instruments bound at the first query | from_url, the metric callback | global meter and tracer |
| Routes, route macros, `stano-axum/src/routes.rs`, `stano-route-macros` | none (start-up, compile time) | `#[get]` ...: inference of the OpenAPI attribute, refusals; collect_routes | run, utoipa, linker |
| Configuration, CORS, `stano-launcher/src/{config,server}.rs` | BootstrapConfig | parse_csv_env, is_dev_environment, cors_layer | run |
| Typed ids, starters | none | generating a newtype, re-exporting | handlers |
| Example application, `stano-example-app` | the widgets table | build_context, CRUD handlers | everything |

What is hard to get right here, and hard to test:

- Factories recurse into the container while other threads resolve the same
  components; a panic must free every cell it unwinds through (`container.rs:180`,
  `:339`). What makes it correct: one run of a factory at a time, coherent wiring,
  no deadlock without a cycle, a meaningful Ok of `validate()`.
- A search over a graph in HashMap order must find every cycle and report only
  cycles (`container.rs:257`).
- The authorization layer awaits application code between decoding a token and
  acting on it (`layer.rs:152`), and is assembled by a chain of calls that may
  contain mistakes anywhere (`authorization.rs:238`).
- A dozen layers wrap each other; what each guarantees depends on its place, and a
  request can end inside any of them by a panic, a timeout or a disconnect
  (`server.rs:93-151`).
- Telemetry is global and bound once: whoever asks too early gets a no-op for ever
  (`query_tracing.rs:144`, `layer.rs:242`), and its shutdown is a sequence of steps
  each of which may fail (`observability.rs:177-237`).
- The macros work on tokens: they find keys at the top level of an attribute by
  counting angle brackets and commas, recognise types by their last segment, and
  generate what a service declares and what it asks for by different code
  (`stano-route-macros/src/lib.rs:116`, `stano-di-macros/src/lib.rs:211`).
- Registrations arrive in the linker's order, meet instances registered by hand, and
  the last one wins (`stano-di/src/lib.rs:25`); routes from four sources meet in one
  router that panics when two collide (`server.rs:75-92`).
- The process must end after a signal whatever the handlers do (`server.rs:155`).

PROJECT.json lists each hazard at its line with the properties that guard it.

## 2. Modules

    WiringGraph ──┬── CycleDetection ── CycleDetectionProofs
                  └── Container ─────── ContainerProofs
                        │ INSTANCE         (both use SequenceLemmas)
                        └── LazySingletons
    WiringGraph ───────────────────────────────┐
    Selections ── RustSyntax ─┬─ RouteMacros ───┼── Startup ── StartupProofs
                              └─ ServiceMacros ─┘     (uses SequenceLemmas)
    ErrorResponses ── Widgets ──────── WidgetsProofs
    Authorization ──────────────────── AuthorizationProofs
    HttpServer ─────────────────────── HttpServerProofs
    Observability ──────────────────── ObservabilityProofs

**WiringGraph** defines "has a cycle" without paths or recursion: some nonempty set
of nodes each of which has an edge into the set. On finite graphs this is the same
thing, and it can be proved about.

**CycleDetection** is `detect_cycles`, one action per arm of the loop: `SkipRoot`,
`StartRoot`, `Finish`, `ReportCycle`, `Descend`, `SkipBlack`. An id that is missing
from the colour map is White, as `unwrap_or(Color::White)` has it; lists may name
unregistered ids and repeat them. Roots come in any order.

**Container** has one cell per id, `absent`, `empty`, `running` or `ready`; the four
maps of the code have one key set because every registration writes all four. A
thread has a stack of the factories it runs. `StartFactory` needs an empty cell; a
running one enables nothing, which is how `OnceLock` waits, also on the same thread.
Panics unwind frame by frame (`UnwindFactory`) to the caller of `get` or to
validate's `catch_unwind`. A recipe separates what is declared to the cycle check
from what the factory asks for: equal for `#[service]`, different for `register()`.
The verdict of the cycle check is `HasCycleIn` here; that `detect_cycles` computes
it is what `Verdict` of CycleDetection says and TLAPS proves.

**RustSyntax** is as much of Rust as the macros look at: tokens (identifiers,
punctuation, literals, groups) and types (a path with arguments, a trait object,
anything else), each with the tokens it is written in. It is external, syn's view of a
program. **Selections** is what the macros do to sequences (`Kept`, `FirstKept`, `Joined`),
by recursive functions, so that it can be proved about; **SequenceLemmas** has the facts
about them.

**RouteMacros** is `stano-route-macros` function by function, over tokens: splitting the
attribute at its top-level commas, looking at the signature for `AppJson`, `AppPath`
and `AppQuery`, the compile errors in the order the code tests for them (`Objection`),
and the `#[utoipa::path(...)]` it puts together. **ServiceMacros** is `#[component]` and
`#[service]`: the id under which a service is registered, the ids it declares, the ids
its factory asks for, and what it refuses.

**Startup** runs both over a program, one item per step, and takes what they generated
through the rest of a start: the linker's order, `register_all` (`RegisterAll`, then
`RegisterNext` for one submission of the inventory, then `RegisterAllReturns`) between
`register_instance`s,
`validate()`, the configuration from the process's variables and a `.env` file, and
`run()` up to the bound port, where routes are collected and merged one by one. Each item
of a program is written twice over: as the macros see it (`spelled`, the attribute), and
as its author means it (`inputs`, `answers`, `claims`, `asks`). Actions read the first and
properties compare with the second. How the two belong together is `ProgramWritten`, which
the module assumes of every program (`ProgramAssumption`); it also says what is syntax and
what other tools have ruled out before a macro runs:

- An argument is `AppJson(x): AppJson<T>` or its like, or of a type that is no wrapper by
  its last segment; an answer is `AppJson<T>`, a `Result` of one, or something else.
- The types a handler takes, answers or names have no comma outside brackets and no `->`;
  section 3 says what the macro makes of an arrow.
- An opening brace of a path is followed by a name, a `*` before it perhaps, and the
  closing brace, a catch-all ends its path, and text has no closing brace of its own:
  matchit panics over anything else. Text between placeholders is one piece, and whether
  matchit takes what is next to a placeholder within a segment is not asked.
- Two services have different struct names, as type ids are made of them; the routes
  passed to `run()` do not collide among themselves, because they come as a router.

It says nothing of how many items, arguments, entries, parameters or placeholders there
are, nor of whether what is written makes sense: a handler may take two bodies, two
services may claim one trait, any two routes may collide (`Collide`: alike up to the names of placeholders, or a
placeholder beside a catch-all). Every step may fail where the code's may: a macro
refuses, validate() errs, telemetry does not start, the router panics, tower-http panics over a
`*` among the development origins, the port is taken.

**LazySingletons** is the abstract specification: a map from ids to at most one
instance per registration. `Container` implements it under the mapping written at
the end of the module.

**Authorization** has the builder (one action per statement of the chain, `Configure`,
`Build`) and the layer (`Arrive` up to the validator's await, the validator's two
outcomes, `Allow`, `Reject`, `Handle`, `Leave`). Patterns are the sets of paths they
match; tokens are values with a signing key and a role; expiry and revocation are
steps of the environment. `written` keeps the chain as the application wrote it, so
that the properties do not depend on what the builder made of it.

**HttpServer** has `run()` as a sequence of phases and, for every request, a position
in `Layers`, the list of the layer calls in program order. Each layer has an action
for the way in (`...Down`) or out (`...Up`) where it does something. Where the code
awaits application code, clients may leave, and inside `TimeoutLayer` the timer may
fire. `Authorization` is abstracted to its three outcomes.

**Observability** has `init_observability` provider by provider with its early returns
and errors, `force_flush`, `shutdown`, and the drop that always follows; the SDK's
batch processors and the collector are its environment. `Query` binds the database
instruments. Records are counted per provider.

**ErrorResponses** is the table of `ApiError::into_response` with what the error logging
middleware adds. **Widgets** puts it to use: the example application's handlers refuse
(`Refuse`) or send one statement (`Query`), which the database executes (`Execute`) and
the handler answers (`Reply`, `DatabaseFails`). Statements are atomic; what is
concurrent is who sends them, who still waits for them, and which ones arrive after
their request is gone (`late`). `seen` and `confirmed` record what the answers are
measured by.

## 3. Runs

| Run | Bounds | Shows |
|---|---|---|
| cycle_detection | 3 ids, lists of at most 2 | `Verdict`, `EveryCycleReported`, `ReportsAreCycles`, `Terminates` |
| container_safety | 3 ids, 2 threads, 4 registrations, 1 spontaneous panic; acyclic, cyclic and undeclared-cyclic wirings | `RunningIsOwned`, `PartsAreCurrent`, `DeadlockNeedsCycle`, `ValidatedMeansWired`, the refinement of LazySingletons |
| container_live | the same, acyclic wirings, 3 registrations | `CallsReturn` |
| authorization | 2 requests at once of 4 kinds, all chains of up to 3 statements out of 6 (a second `any_request()`, narrowed by `methods()`, among them), 1 token event, 1 rejection | `BadChainNeverServes`, `Gatekeeping`, `RevokedStaysOut`, `FailuresCounted` |
| http_server | 2 requests, 5 kinds, 3 ways of calling `run()`: everything on, request logging with the hook, authorization alone | `EveryResponseHardened`, `AuthorizationFirst`, `PanicsAnswered`, `LoggedFromInside`, `RequestIdsCarried`, `GaugeDrift`, `TelemetryOutlivesRequests`, `DrainEnds` |
| observability_safety | 2 records per provider, 1 outage, 1 flush, all configurations | `EveryProviderShut`, `NothingLeftSilently`, `FlushedMeansFlushed` |
| widgets | 2 requests at once, 2 ids, 2 names, 1 late write | `AnswersWereTrue`, `ConfirmedStays`, `NothingUnmade` |
| startup | four sweeps (below), 239 661 states | `ExpansionKeepsMeaning`, `ValidatedMeansComplete`, `ClaimantHolds`, `EveryHandlerServed`, `OnlyListedOrigins` |

Why these bounds are enough for the cases to happen: three ids make chains, diamonds,
self-loops and cycles with a lead-in; two threads can race for a cell, wait for each
other and observe a panic; three statements hold a mistake, an overlap and a terminal
rule; two requests in the authorization layer share the bound counter and the
revocations, and the slots are symmetric. In Widgets one id can be made while the other
is asked for, and a second name tells an old row from a new one. Two requests suffice
for HttpServer, whose requests share only the gauge and the drain; its invariants are
proved for all 16 ways of calling `run()`. A second record per provider tells what was
recorded before a flush from what came during it. Every invariant of these runs, and the
refinement, is also proved without any bound (section 4).

Startup is checked on programs that vary in one respect while the rest is fixed:
handlers (11 argument lists, 6 return types, written bodies, responses and parameters, 4
paths: some 6 000 attributes, a third of them mistakes) and macros applied to what they
refuse; up to 3 routes of 9 that collide by method, by placeholder name, by a name
beside a star or with a built-in one, with and without Swagger, Prometheus and a route
passed to `run()`; up to 4 services of 6 around two traits, so that rivals, cycles and
missing parts occur, with any of two instances registered early, late or twice; and
every combination of the three CORS variables, a wildcard among the origins, RUST_ENV, a
`.env` file and the build profile. Types nest two levels deep with two arguments, which
is what it takes for a comma or a bracket to mislead the splitting. The parts meet only
through the registries, so sweeping them apart loses nothing.

`TypeOK` in each safety run also carries facts about the shape of the state (a sent
response has a status, a counted rejection happened, buffered records were recorded).

### What the documentation says and the code does not do

Each of these is a run that ends in a counterexample of the property named after the
sentence; PROJECT.json quotes the lines.

| Run | The sentence | The code |
|---|---|---|
| container_undeclared | validate() finds circular dependencies before they hang the program | `register()` declares none, so validate() itself hangs |
| http_gauge | active requests | the gauge stays up after a timeout, a panic or a disconnect; `GaugeDrift` says by exactly how much |
| http_logging | every HTTP request is logged | logging acts after the inner service returned, and sits inside the layers that catch panics, reject and limit: a panicking handler's 500 leaves no line; `LoggedFromInside` says which responses do |
| observability_migrate | queries begin after run() has initialised | the example migrates before, and its query metrics stay no-ops |

Seen while modelling, without a run of their own:

- `authorization.rs:202` says `methods()` restricts "this rule"; on an `any_request()` rule it
  is ignored (`:241-242`), as `Finish` has it.
- `stano-route-macros/src/lib.rs:12-14` says other keys are forwarded verbatim; a second
  `responses(...)`, `params(...)` or `request_body = ...` is dropped in silence, and so is
  `responses = ...` (`group_inner_tokens` yields nothing).
- A `request_body(content = T)` next to an `AppJson` argument is always called a conflict,
  `status = OK` is not recognised as 200, a `->` within generics lowers the angle depth, and a
  `{{` in a path is taken for a placeholder. `#[service]` drops the struct attributes
  written below it.
- `operation_id` is the function's name (`stano-route-macros/src/lib.rs:510`), so two handlers of one
  name in different modules share it; the document is then invalid.
- `config.rs:12-14` says CORS is permissive when both production lists are empty; so it is, also
  in production with only `cors_dev_origins` given (`server.rs:201`). `OnlyListedOrigins` allows it
  because the configuration documents it; credentials are not shared then.
- `stano-launcher/src/routes.rs` is not compiled in; the crate re-exports `stano_axum::routes`.
- `server.rs:44` says the hook has no effect without authorization; `server.rs:135` applies
  it whenever it is given.
- The macros look in a written `responses(...)` only for a 200 beside the one they infer
  (`stano-route-macros/src/lib.rs:424-463`): a handler with no `AppJson` to answer may leave the 200
  out or give it twice. `200usize` is recognised as 200, `200u16` is not (`:184-185` wants
  letters only after the digits). `Objectionable` has it so.
- `*` in `APP_CORS_DEV_ORIGINS` is accepted by the configuration and makes `run()` panic in
  tower-http in development (`server.rs:188-195`).
- `stano-launcher/README.md:89-90` says an id is injected and propagated; the propagating
  layer is outside the one that generates ids (`server.rs:127-128`), so a generated id is
  never put on the response. `RequestIdsCarried` says what does come back.
- `stano-launcher/README.md:96` says 300 seconds per request; the claims validator and the
  hook are outside the timeout (`server.rs:99`).
- `observability.rs:163` says all providers are flushed; `force_flush` returns at the first
  error (`:181`). `FlushedMeansFlushed` says what an Ok is worth.
- `stano-axum/README.md:25` and `api_error.rs:89` say a NotFound is not logged;
  `error_logging.rs:24` logs every response that carries an `ApiError`, and what
  `into_response` logs itself is logged twice. `ErrorResponse` has both in `logged`.
- Every clean `shutdown()` is followed by the drop, which shuts each provider down again and
  warns that it failed to (`observability.rs:224`).

### Fairness

- CycleDetection: weak fairness of the loop. It is straight-line code.
- Container: weak fairness of each thread inside a call; nothing makes a thread start
  one. `CallsReturn` assumes a complete wiring at each moment of the call, because a
  missing part panics again at every retry and a thread may then lose the race for the
  cell for ever (OnceLock gives no order to waiters).
- HttpServer: layers run, the router's fallback among them, timers fire, `run()` moves on (tokio and hyper). `DrainEnds`
  also assumes that the validator and the hook return and that clients read what they
  are sent. Handlers get no fairness: the timeout has to do.

## 4. Proofs

Each `...Proofs` module proves one inductive invariant `IInv` of its component
(`InvCorrect`), one lemma per action, and derives the properties of the runs from it.
The results hold for every value of the constants that satisfies the assumptions named
in the component's module, and TLC evaluates those on every run: dependency lists are
sequences of ids, recipes are given for exactly the ids, `NoId`, `NoToken` and their
like are not members of what they stand outside of, sets of requests are finite, bounds
are naturals, and an accepted request of the application says what it is about.

*Cycle detection.* `Verdict` is not inductive. The invariant adds that the gray nodes
are the path, in stack order and without repetition (`GrayIsPath`), that the path
follows edges, and, for completeness, that an edge out of a finished node leads to a
finished node or was reported (`BlackClosed`), that the same holds of the edges a frame
has already examined (`ExaminedClosed`), and that no set of finished nodes supports
itself by unreported edges (`BlackAcyclic`). When a node is finished, its unreported
edges all lead to nodes finished before it, so a set that needs it would support
itself without it. At the end everything reachable is finished. Proved: `TypeOK`,
`ReportsAreCycles`, `EveryCycleReported`, `Verdict`, `BlackIsFinal`.

*Container.* The invariant adds the shape of a thread at each location, that no
factory has more parts than it asks for, and what a `validate()` in progress already
knows (`ValidateProgress`): what it has passed is ready, or an error was recorded.
Ready cells stay ready until the next registration, which needs every thread outside
the container. Proved: `TypeOK`, `RunningIsOwned`, `StackFollowsGets`,
`PartsAreCurrent`, `ValidatedMeansWired`, `DeadlockNeedsCycle` (the ids that a
deadlocked set of threads waits for and runs support themselves), and the refinement
of LazySingletons, step by step.

*Authorization.* `Gatekeeping` speaks of the chain as it was written, the layer acts on
what the builder made of it, so the invariant says that the two agree (`ChainKept`): for
every request the first rule that applies has the effect of the first statement that
applies (`AgreeOn`), and the terminal rule is the last one written (`LastTerminal`). That
each of these sets of places has a least or greatest member is carried along, which
spares an induction. `SlotShape` says what a request at each stage knows: the effect
chosen for it, the claims decoded for it, the tokens already revoked when it arrived.
`CounterBound` relates the lazily bound counter to the provider it was bound to. Proved:
`TypeOK`, `BadChainNeverServes`, `Gatekeeping`, `RevokedStaysOut`, `FailuresCounted`.

*HttpServer.* A request's position in the stack, its direction, its response and the marks
it has left are constrained by one predicate, `Sound`, a conjunction of one part per
promise: where it can be and with what response, what has happened before a given layer
was reached, who may be inside the authorization layer, what a panic, a log record or an
id implies about the place. A layer's action is then one step from a sound request to a
sound request, and the other requests are untouched. `GaugeInv` says that the gauge counts
the requests that were counted and not yet given back (`Held`), by cardinality, and `RunInv`
which requests can exist in which phase of `run()`. Proved: `TypeOK`,
`EveryResponseHardened`, `AuthorizationFirst`, `PanicsAnswered`, `LoggedFromInside`,
`RequestIdsCarried`, `GaugeDrift`, `TelemetryOutlivesRequests`.

*Observability.* `GuardInv` says who holds which provider in which phase and that what was
shut down is not alive, `RecordsInv` that whatever a shut-down provider still holds follows
an outage and was reported as an error or a warning, `FlushInv` that a flush in progress is
done with the providers it has passed. Proved: `TypeOK`, `EveryProviderShut`, `NothingLeftSilently`,
`FlushedMeansFlushed`.

*Widgets.* `SlotInv` says what the answer of each request rests on: the rows it read were in
the table at some moment of its life (`seen`), and what its client had been told to exist
(`known`) is among them. `LateInv` and the parts about creates say that ids are issued once:
a create on its way, in a slot or left behind, has no row yet and shares its id with no
other. `TableInv` relates the table to what was issued and confirmed. Proved: `TypeOK`,
`AnswersWereTrue`, `ConfirmedStays`, `NothingUnmade`.

*Startup.* The constant is the set of programs, so its theorems are about every program
that is `ProgramWritten`, in every environment and under every order of the linker. Two
things are proved. First, about the macros as functions, that what they read in an
attribute or a signature is what was written there. Splitting at top-level commas gives
back exactly the keys that were joined (`SplittingTheJoined`), for any tokens with no comma
outside brackets (of types and of written parameters `ProgramWritten` says so, of keys and
entries made of them it is proved); each key is then found by its
name (`AttributeRead`), the entries of `responses(...)` and their statuses (`TwoHundredRead`),
the placeholders of a path (`PlaceholdersFound`), the wrapped types of a signature
(`WrappedTaken`, `AnswerInferred`). It follows that the macro objects to exactly what
`Objectionable` says of the handler as its author means it (`RefusedIsObjectionable`), that the arguments it generates say what the handler
means, commas aside (`MeaningRead`), that the registered route is the one written
(`RouteWritten`), and that what a service declares and what its factory gets are both what
its fields ask for (`ServiceExpanded`), although different code generates them. These
functions are recursive; what they return is found by induction over the set of the numbers,
or of the sequences, for which it holds, which needs no theorem with an operator parameter.

Second, the inductive invariant `StartupInv`, one part per thing that is built. `ItemsInv`:
the expansions so far are those of the items so far. `LinkedInv`: routes and registrations
are the handlers and services in some order, none lost and none twice, which lets the rest
forget the items. `RegistryInv`: at any pass of `register_all`, what an id holds is the recipe
of one of the registrations already made, or an instance of main's if none of those claims
the id, or a later instance; without the second part `ClaimantHolds` is not inductive.
`SettingsInv`: the configuration is a function of the environment alone. `RouterInv`: what is
mounted is a prefix of the routes, then all of them with what `run()` adds, no two of the
handlers' routes collide, and a panic has two colliding requests for routes or a wildcard
among the development origins. Proved:
`TypeOK`, `ExpansionKeepsMeaning`, `ValidatedMeansComplete`, `ClaimantHolds`,
`EveryHandlerServed`, `OnlyListedOrigins`.

Proved without being checked by a run of their own: `BlackIsFinal` (the search never
reopens a node), `StackFollowsGets` (a thread's stack is a chain of requests), and the
lemmas about the macros just named.

Only model-checked: `Terminates`, `CallsReturn` and `DrainEnds`, because liveness under
fairness and ENABLED are out of the prover's reach.

## 5. What is left out

- Formatting, logging texts, attributes of metrics, JSON bodies.
- HttpServer: compression, what a rejection depends on (Authorization has
  that), pipelining on one connection. One request per connection stands for several,
  since they follow each other and share nothing.
- Observability: the sampler, the resource, the process-metrics observer. If an exporter
  cannot be built after the meter provider was installed, `init_observability` returns an
  error and nobody holds that provider; the model has the step (`FailToBuild`), and
  `EveryProviderShut` speaks of what was handed over.
- A signal before `axum::serve` is polled kills the process by default; the model has the
  step, and nothing is claimed of it.
- Typed ids and starters: conversions and re-exports. Of a program that the macros have
  expanded, rustc's own checks (trait bounds, imports) and the OpenAPI document's schemas.
- `sql` parsing, slow-query levels and the pool of stano-seaorm: attributes of spans and a
  library's state.
- A handler that asks the context for a trait while it runs: nothing in the code relates a
  handler's body to what is registered; a missing component is a panic, which HttpServer
  answers.

## 6. What would come next

1. A `Gate` specification (a request is let in on the terms of its statement, or answered)
   that Authorization implements, and HttpServer stated over it in place of the three
   outcomes it now has.
2. HttpServer and Observability in one specification: the gauge and the rejection counter
   as records of the providers that are shut down at the end.
