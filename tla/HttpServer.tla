------------------------------ MODULE HttpServer ------------------------------
(***************************************************************************)
(* stano-launcher's run(): it installs telemetry, assembles the middleware  *)
(* stack around the router, serves until a signal, drains and shuts the     *)
(* telemetry down.  The model follows every request through the stack,      *)
(* layer by layer and back, with the requests interleaved.                  *)
(*                                                                         *)
(* Each Router::layer call wraps what was added before it, so a request    *)
(* meets the layers in the reverse order of the calls.  Between two layers  *)
(* the code does not pause; it does at the three places where it awaits     *)
(* code of the application: the claims validator in the authorization       *)
(* layer, the post-authorization hook, and the handler.  There a client may *)
(* go away (hyper drops the request's future) and, inside TimeoutLayer, the *)
(* timer may fire (the layer drops the inner future).  A dropped future     *)
(* runs nothing more of its middleware.                                     *)
(*                                                                         *)
(* Requests of one connection follow each other, those of different         *)
(* connections share nothing but the gauge: a connection carries one        *)
(* request here.  Compression changes nothing told apart here and is left   *)
(* out, as are CORS origins.                                               *)
(***************************************************************************)
EXTENDS Naturals, Integers, FiniteSets, SequencesExt

CONSTANTS
    Requests,       \* the requests clients send
    Kinds,          \* what they are
    Configs         \* the ways run() is called

Kind == [type : {"preflight", "ordinary", "oversized", "unmatched"},
         id : BOOLEAN]      \* whether the client sent an x-request-id
Config == [metrics : BOOLEAN, httpLogging : BOOLEAN, authorization : BOOLEAN, hook : BOOLEAN]

ASSUME RequestsAssumption == IsFiniteSet(Requests) /\ Kinds \subseteq Kind
ASSUME ConfigsAssumption == Configs \subseteq Config

VARIABLES
    phase,      \* of run()
    otel,       \* "none" | "live" | "shut": the providers OtelGuard holds
    config,     \* what run() was given
    at,         \* request -> the stack position it has reached
    dir,        \* request -> where it is going
    kind,       \* request -> what the client sent
    answer,     \* request -> the response so far
    marks,      \* request -> what middleware and application did for it
    gauge       \* http.server.active_requests

requestVars == <<at, dir, kind, answer, marks, gauge>>
vars == <<phase, otel, config, requestVars>>

Phase == {"start", "initialized", "routed", "serving", "draining", "drained", "exited", "killed"}
Mark == {"authorized", "hooked", "echoId", "id", "loggedId", "counted",
         "returned", "failed", "panicked", "outerPanicked", "timedOut", "left",
         "logged", "traced", "errorLogged"}
NoAnswer == [status |-> 0, by |-> "none", apiError |-> FALSE, hardened |-> FALSE, id |-> FALSE]
Answer == [status : {0, 200, 400, 401, 404, 408, 413, 500},
           by : {"none", "cors", "authorization", "hook", "bodyLimit", "timeout",
                 "catchPanic", "handler"},
           apiError : BOOLEAN, hardened : BOOLEAN, id : BOOLEAN]

(***************************************************************************)
(* The stack.                                                              *)
(***************************************************************************)

\* mutant of Layers: the security headers applied inside the authorization
Layers_HeadersInside ==
    <<"handler", "metrics", "timeout", "httpLog", "trace", "errorLog", "catchPanic", "setId",
      "propagateId", "bodyLimit", "hook", "headers", "authorization", "cors">>

\* mutant of Layers: the hook added after the authorization, so around it
Layers_HookOutside ==
    <<"handler", "metrics", "timeout", "httpLog", "trace", "errorLog", "catchPanic", "setId",
      "propagateId", "bodyLimit", "authorization", "hook", "headers", "cors">>

\* mutant of Layers: CatchPanicLayer forgotten
Layers_NoCatchPanic ==
    <<"handler", "metrics", "timeout", "httpLog", "trace", "errorLog", "setId",
      "propagateId", "bodyLimit", "hook", "authorization", "headers", "cors">>

\* mutant of Layers: the request id set inside the error logging
Layers_IdInside ==
    <<"handler", "metrics", "timeout", "httpLog", "trace", "setId", "errorLog", "catchPanic",
      "propagateId", "bodyLimit", "hook", "authorization", "headers", "cors">>

\* mutant of Layers: the request logging added before, so inside, TimeoutLayer
Layers_LogInsideTimeout ==
    <<"handler", "metrics", "httpLog", "timeout", "trace", "errorLog", "catchPanic", "setId",
      "propagateId", "bodyLimit", "hook", "authorization", "headers", "cors">>

\* mutant of Layers: TimeoutLayer forgotten
Layers_NoTimeout ==
    <<"handler", "metrics", "httpLog", "trace", "errorLog", "catchPanic", "setId",
      "propagateId", "bodyLimit", "hook", "authorization", "headers", "cors">>

\* The router and the layers run() puts around it, in the order of its calls:
\* the innermost first.
Layers ==
    <<"handler", "metrics", "timeout", "httpLog", "trace", "errorLog", "catchPanic", "setId",
      "propagateId", "bodyLimit", "hook", "authorization", "headers", "cors">>

\* Four calls depend on what run() was given.
Present(layer) ==
    /\ layer \in Range(Layers)
    /\ layer = "metrics" => config.metrics
    /\ layer = "httpLog" => config.httpLogging
    /\ layer = "hook" => config.hook
    /\ layer = "authorization" => config.authorization

Position(layer) == CHOOSE i \in DOMAIN Layers : Layers[i] = layer
Outside == Len(Layers) + 1

\* The next position inwards, and outwards.
Inner(i) == Max({j \in 1 .. i - 1 : Present(Layers[j])})
Outer(i) == Min({j \in i + 1 .. Outside : j = Outside \/ Present(Layers[j])})

InProgress(r) == dir[r] \in {"down", "up"}
\* The layer that acts next on the request, or on its response.
Here(r, layer) == InProgress(r) /\ at[r] # Outside /\ Layers[at[r]] = layer
Descending(r, layer) == dir[r] = "down" /\ Here(r, layer)
Ascending(r, layer) == dir[r] = "up" /\ Here(r, layer)
\* The request has entered the layer, whose future is still alive.
Within(r, layer) ==
    /\ InProgress(r) /\ Present(layer)
    /\ \/ at[r] < Position(layer)
       \/ at[r] = Position(layer) /\ dir[r] = "up"

TypeOK ==
    /\ phase \in Phase /\ otel \in {"none", "live", "shut"} /\ config \in Configs
    /\ at \in [Requests -> 1 .. Outside]
    /\ dir \in [Requests -> {"unsent", "down", "up", "sending", "sent", "aborted"}]
    /\ \A r \in Requests : at[r] = Outside \/ (InProgress(r) /\ Present(Layers[at[r]]))
    /\ \A r \in Requests : dir[r] \in {"sending", "sent"} => answer[r].status # 0
    /\ kind \in [Requests -> Kinds]
    /\ answer \in [Requests -> Answer]
    /\ marks \in [Requests -> SUBSET Mark]
    /\ gauge \in 0 .. Cardinality(Requests)

Init ==
    /\ phase = "start" /\ otel = "none" /\ config \in Configs
    /\ at = [r \in Requests |-> Outside]
    /\ dir = [r \in Requests |-> "unsent"]
    /\ kind \in [Requests -> Kinds]
    /\ answer = [r \in Requests |-> NoAnswer]
    /\ marks = [r \in Requests |-> {}]
    /\ gauge = 0

(***************************************************************************)
(* The ways a request moves.                                               *)
(***************************************************************************)

\* The layer calls the service it wraps.
Descend(r, noted) ==
    /\ at' = [at EXCEPT ![r] = Inner(@)]
    /\ marks' = [marks EXCEPT ![r] = @ \union noted]
    /\ UNCHANGED <<phase, otel, config, dir, kind, answer>>

\* The layer at a position returns a response to the one around it; the
\* outermost hands it to hyper, which writes it to the client.
Return(r, from, response, noted) ==
    /\ at' = [at EXCEPT ![r] = Outer(from)]
    /\ dir' = [dir EXCEPT ![r] = IF Outer(from) = Outside THEN "sending" ELSE "up"]
    /\ answer' = [answer EXCEPT ![r] = response]
    /\ marks' = [marks EXCEPT ![r] = @ \union noted]
    /\ UNCHANGED <<phase, otel, config, kind>>

Respond(r, response, noted) == Return(r, at[r], response, noted)

\* The connection ends without a response: its futures are dropped.
Abort(r, noted) ==
    /\ at' = [at EXCEPT ![r] = Outside]
    /\ dir' = [dir EXCEPT ![r] = "aborted"]
    /\ marks' = [marks EXCEPT ![r] = @ \union noted]
    /\ UNCHANGED <<phase, otel, config, kind, answer, gauge>>

\* A panic unwinds to CatchPanicLayer when that encloses it, and is answered
\* by handle_panic; any other ends the connection's task.
Panic(r, noted) ==
    \/ /\ Within(r, "catchPanic")
       /\ Return(r, Position("catchPanic"),
                 [NoAnswer EXCEPT !.status = 500, !.by = "catchPanic"], noted)
       /\ UNCHANGED gauge
    \/ /\ ~ Within(r, "catchPanic")
       /\ Abort(r, noted)

(***************************************************************************)
(* The layers, from the outermost.                                         *)
(***************************************************************************)

\* CorsLayer answers a preflight itself.
CorsDown(r) ==
    /\ Descending(r, "cors")
    /\ IF kind[r].type = "preflight"
       THEN Respond(r, [NoAnswer EXCEPT !.status = 200, !.by = "cors"], {})
       ELSE Descend(r, {})
    /\ UNCHANGED gauge

\* add_security_headers
HeadersUp(r) ==
    /\ Ascending(r, "headers")
    /\ Respond(r, [answer[r] EXCEPT !.hardened = TRUE], {})
    /\ UNCHANGED gauge

\* The rules let the request through or turn it away (module Authorization);
\* the validator is the application's and may panic.
Rejection == [NoAnswer EXCEPT !.status = 401, !.by = "authorization", !.apiError = TRUE]

AuthorizationDown(r) ==
    /\ Descending(r, "authorization")
    /\ \/ Descend(r, {"authorized"}) /\ UNCHANGED gauge
       \/ Respond(r, Rejection, {}) /\ UNCHANGED gauge
       \/ Panic(r, {"outerPanicked"})

\* The hook is any async function of the request and the rest of the stack: it
\* may answer without calling the rest, and replace the rest's response.
HookAnswer == [NoAnswer EXCEPT !.status = 200, !.by = "hook"]

HookDown(r) ==
    /\ Descending(r, "hook")
    /\ \/ Descend(r, {"hooked"}) /\ UNCHANGED gauge
       \/ Respond(r, HookAnswer, {"hooked"}) /\ UNCHANGED gauge
       \/ Panic(r, {"hooked", "outerPanicked"})

HookUp(r) ==
    /\ Ascending(r, "hook")
    /\ \/ Respond(r, answer[r], {}) /\ UNCHANGED gauge
       \/ Respond(r, HookAnswer, {}) /\ UNCHANGED gauge
       \/ Panic(r, {"outerPanicked"})

BodyLimitDown(r) ==
    /\ Descending(r, "bodyLimit")
    /\ IF kind[r].type = "oversized"
       THEN Respond(r, [NoAnswer EXCEPT !.status = 413, !.by = "bodyLimit"], {})
       ELSE Descend(r, {})
    /\ UNCHANGED gauge

\* PropagateRequestIdLayer keeps the x-request-id the request has when it
\* passes, to put it on the response.
HasId(r) == kind[r].id \/ "id" \in marks[r]

PropagateIdDown(r) ==
    /\ Descending(r, "propagateId")
    /\ Descend(r, IF HasId(r) THEN {"echoId"} ELSE {})
    /\ UNCHANGED gauge

PropagateIdUp(r) ==
    /\ Ascending(r, "propagateId")
    /\ Respond(r, [answer[r] EXCEPT !.id = "echoId" \in marks[r]], {})
    /\ UNCHANGED gauge

\* SetRequestIdLayer makes an id for a request that has none.
SetIdDown(r) ==
    /\ Descending(r, "setId")
    /\ Descend(r, {"id"})
    /\ UNCHANGED gauge

\* error_logging_middleware reads the id first, and logs an ApiError after.
ErrorLogDown(r) ==
    /\ Descending(r, "errorLog")
    /\ Descend(r, IF HasId(r) THEN {"loggedId"} ELSE {})
    /\ UNCHANGED gauge

ErrorLogUp(r) ==
    /\ Ascending(r, "errorLog")
    /\ Respond(r, answer[r], IF answer[r].apiError THEN {"errorLogged"} ELSE {})
    /\ UNCHANGED gauge

\* http_request_logging_middleware: the record has a trace id when the
\* request's span, TraceLayer's, is the current one.
HttpLogUp(r) ==
    /\ Ascending(r, "httpLog")
    /\ Respond(r, answer[r], {"logged"} \union IF Within(r, "trace") THEN {"traced"} ELSE {})
    /\ UNCHANGED gauge

\* record_http_metrics, a route_layer: a request no route matches is answered
\* by the fallback outside it.
Measured(r) == Present("metrics") /\ kind[r].type # "unmatched"

MetricsDown(r) ==
    /\ Descending(r, "metrics")
    /\ IF Measured(r)
       THEN Descend(r, {"counted"}) /\ gauge' = gauge + 1
       ELSE Descend(r, {}) /\ UNCHANGED gauge

\* mutant of MetricsUp: the gauge lowered for successful responses only
MetricsUp_OnlyOk(r) ==
    /\ Ascending(r, "metrics")
    /\ Respond(r, answer[r], {})
    /\ gauge' = IF Measured(r) /\ answer[r].status = 200 THEN gauge - 1 ELSE gauge

\* mutant of MetricsUp: the gauge lowered for requests no route matched, too
MetricsUp_Always(r) ==
    /\ Ascending(r, "metrics")
    /\ Respond(r, answer[r], {})
    /\ gauge' = gauge - 1

MetricsUp(r) ==
    /\ Ascending(r, "metrics")
    /\ Respond(r, answer[r], {})
    /\ gauge' = IF Measured(r) THEN gauge - 1 ELSE gauge

\* Where no route matches, the router's own fallback answers.
Fallback(r) ==
    /\ Descending(r, "handler") /\ kind[r].type = "unmatched"
    /\ Respond(r, [NoAnswer EXCEPT !.status = 404, !.by = "handler"], {"returned"})
    /\ UNCHANGED gauge

\* The handler, which may not come back at all.
Handle(r) ==
    /\ Descending(r, "handler") /\ kind[r].type # "unmatched"
    /\ \/ /\ Respond(r, [NoAnswer EXCEPT !.status = 200, !.by = "handler"], {"returned"})
          /\ UNCHANGED gauge
       \/ /\ Respond(r, [NoAnswer EXCEPT !.status = 400, !.by = "handler",
                                         !.apiError = TRUE], {"returned", "failed"})
          /\ UNCHANGED gauge
       \/ Panic(r, {"panicked"})

\* TimeoutLayer answers 408 and drops the future it wraps.  Only the handler
\* awaits inside it.
TimeoutFires(r) ==
    /\ Descending(r, "handler") /\ kind[r].type # "unmatched" /\ Within(r, "timeout")
    /\ Return(r, Position("timeout"),
              [NoAnswer EXCEPT !.status = 408, !.by = "timeout"], {"timedOut"})
    /\ UNCHANGED gauge

PassDown(r) ==
    /\ \E layer \in {"headers", "catchPanic", "trace", "httpLog", "timeout"} :
           Descending(r, layer)
    /\ Descend(r, {})
    /\ UNCHANGED gauge

PassUp(r) ==
    /\ \E layer \in {"cors", "authorization", "bodyLimit", "setId", "catchPanic",
                     "trace", "timeout"} :
           Ascending(r, layer)
    /\ Respond(r, answer[r], {})
    /\ UNCHANGED gauge

Layer(r) ==
    \/ CorsDown(r) \/ HeadersUp(r) \/ BodyLimitDown(r)
    \/ PropagateIdDown(r) \/ PropagateIdUp(r) \/ SetIdDown(r)
    \/ ErrorLogDown(r) \/ ErrorLogUp(r) \/ HttpLogUp(r)
    \/ MetricsDown(r) \/ MetricsUp(r) \/ Fallback(r)
    \/ PassDown(r) \/ PassUp(r)

Hook(r) == HookDown(r) \/ HookUp(r)

(***************************************************************************)
(* The clients.                                                            *)
(***************************************************************************)

Arrive(r) ==
    /\ phase = "serving" /\ dir[r] = "unsent"
    /\ dir' = [dir EXCEPT ![r] = "down"]
    /\ at' = [at EXCEPT ![r] = Inner(Outside)]
    /\ UNCHANGED <<phase, otel, config, kind, answer, marks, gauge>>

ClientReads(r) ==
    /\ dir[r] = "sending"
    /\ dir' = [dir EXCEPT ![r] = "sent"]
    /\ UNCHANGED <<phase, otel, config, at, kind, answer, marks, gauge>>

\* The client goes away while the request's future is suspended, or before
\* it has read the response.
AtAwait(r) ==
    \/ Descending(r, "authorization")
    \/ Here(r, "hook")
    \/ Descending(r, "handler")

ClientLeaves(r) ==
    /\ AtAwait(r) \/ dir[r] = "sending"
    /\ Abort(r, {"left"})

(***************************************************************************)
(* run().                                                                  *)
(***************************************************************************)

Exit == phase' = "exited" /\ otel' = IF otel = "live" THEN "shut" ELSE otel

\* init_observability: an exporter that cannot be built ends run().
InitObservability ==
    /\ phase = "start"
    /\ \/ phase' = "initialized" /\ otel' = "live"
       \/ Exit
    /\ UNCHANGED <<config, requestVars>>

\* Merging routers panics on overlapping routes, route_layer on an empty
\* router; unwinding drops the guard.
BuildRouter ==
    /\ phase = "initialized"
    /\ \/ phase' = "routed" /\ UNCHANGED otel
       \/ Exit
    /\ UNCHANGED <<config, requestVars>>

Bind ==
    /\ phase = "routed"
    /\ \/ phase' = "serving" /\ UNCHANGED otel
       \/ Exit
    /\ UNCHANGED <<config, requestVars>>

\* Ctrl+C or SIGTERM: shutdown_signal() installs its handlers when axum::serve
\* first polls it; until then the default action kills the process.
Signal ==
    /\ \/ phase \in {"start", "initialized", "routed"} /\ phase' = "killed"
       \/ phase = "serving" /\ phase' = "draining"
    /\ UNCHANGED <<otel, config, requestVars>>

Idle(r) == dir[r] \in {"unsent", "sent", "aborted"}

\* mutant of ServeReturns: serving stops at the signal, without a graceful shutdown
ServeReturns_AtOnce ==
    /\ phase = "draining"
    /\ phase' = "drained"
    /\ UNCHANGED <<otel, config, requestVars>>

\* axum::serve returns when every connection has ended.
ServeReturns ==
    /\ phase = "draining" /\ \A r \in Requests : Idle(r)
    /\ phase' = "drained"
    /\ UNCHANGED <<otel, config, requestVars>>

\* otel_guard.shutdown()?: run() ends, with or without an error.
ShutdownTelemetry ==
    /\ phase = "drained"
    /\ Exit
    /\ UNCHANGED <<config, requestVars>>

Next ==
    \/ InitObservability \/ BuildRouter \/ Bind
    \/ Signal \/ ServeReturns \/ ShutdownTelemetry
    \/ \E r \in Requests :
           \/ Arrive(r) \/ ClientReads(r) \/ ClientLeaves(r)
           \/ Layer(r) \/ AuthorizationDown(r) \/ Hook(r) \/ Handle(r) \/ TimeoutFires(r)

Spec == Init /\ [][Next]_vars

\* What tokio and hyper see to: layers run, timers fire, run() moves on.
FrameworkFairness ==
    /\ WF_vars(InitObservability) /\ WF_vars(BuildRouter) /\ WF_vars(Bind)
    /\ WF_vars(ServeReturns) /\ WF_vars(ShutdownTelemetry)
    /\ \A r \in Requests : WF_vars(Layer(r)) /\ WF_vars(TimeoutFires(r))
FrameworkSpec == Spec /\ FrameworkFairness

\* The application's validator and hook return, and clients read the responses
\* they are sent.  Nothing is asked of the handlers.
FairSpec ==
    /\ FrameworkSpec
    /\ \A r \in Requests :
           WF_vars(AuthorizationDown(r)) /\ WF_vars(Hook(r)) /\ WF_vars(ClientReads(r))

(***************************************************************************)
(* Properties.                                                             *)
(***************************************************************************)

Answered(r) == dir[r] \in {"sending", "sent"}

\* Every response but a preflight's carries the security headers, whichever
\* layer made it: rejections, 413s, timeouts and panics included.
EveryResponseHardened ==
    \A r \in Requests : Answered(r) /\ answer[r].by # "cors" => answer[r].hardened

\* The hook, the handler and everything between see only requests that the
\* authorization layer, when there is one, let through.
AuthorizationFirst ==
    \A r \in Requests :
        config.authorization /\ ("hooked" \in marks[r] \/ Within(r, "bodyLimit"))
        => "authorized" \in marks[r]

\* A connection is lost only when the client goes away or the validator or the
\* hook panics: a handler's panic, wherever in the handler, is answered 500
\* (unless the hook replaces the response).
PanicsAnswered ==
    \A r \in Requests :
        /\ dir[r] = "aborted" => marks[r] \intersect {"left", "outerPanicked"} # {}
        /\ Answered(r) /\ "panicked" \in marks[r] =>
               answer[r].status = 500 \/ answer[r].by = "hook"

\* Which requests http_request_logging_middleware logs, before their response
\* leaves the server: those whose handler or fallback returned and those that
\* timed out.  It never hears of a response made further out, nor of a handler
\* that panics (EveryRequestLogged, below, is what its documentation says).
\* What is logged has the trace id of the request.
LoggedFromInside ==
    \A r \in Requests :
        /\ Answered(r) /\ config.httpLogging =>
               ("logged" \in marks[r] <=> marks[r] \intersect {"returned", "timedOut"} # {})
        /\ "logged" \in marks[r] => "traced" \in marks[r]

\* A request id is where a reader looks for it: in the log of every ApiError a
\* handler returned, by the time the response is on the way out, and, when the
\* client sent it, on every response made inside the stack, also on that of a
\* timeout or a panic.
RequestIdsCarried ==
    \A r \in Requests :
        /\ "failed" \in marks[r] /\ ~ Within(r, "errorLog") =>
               {"errorLogged", "loggedId"} \subseteq marks[r]
        /\ Answered(r) /\ kind[r].id /\ answer[r].by \in {"handler", "timeout", "catchPanic"} =>
               answer[r].id

\* http.server.active_requests exceeds the requests inside the middleware by
\* exactly those whose handler was dropped or unwound (timed out, left by
\* their client, panicked): no other step makes it drift.
GaugeDrift ==
    LET inside == {r \in Requests : Measured(r) /\ Within(r, "metrics")}
        lost == {r \in Requests :
                   /\ "counted" \in marks[r] /\ "returned" \notin marks[r]
                   /\ marks[r] \intersect {"panicked", "timedOut", "left"} # {}}
                \ inside
    IN  gauge = Cardinality(inside) + Cardinality(lost)

\* The providers are shut down on every way out of run(), and never while a
\* request is in progress, whose spans and metrics they still have to take.
TelemetryOutlivesRequests ==
    /\ phase = "exited" => otel # "live"
    /\ otel = "shut" => \A r \in Requests : Idle(r)

\* Once told to stop, the server stops: no handler can hold up the drain.
DrainEnds == phase = "draining" ~> phase = "exited"

(***************************************************************************)
(* What the documentation says and the code does not do.                   *)
(***************************************************************************)

\* stano-launcher/README.md:98: http.server.active_requests records the active
\* requests: it is back at zero when the server is idle.
GaugeReturnsToZero == (\A r \in Requests : Idle(r)) => gauge = 0

\* stano-axum/src/middleware/request_logging.rs:8: the middleware logs every
\* HTTP request, with its status: by the time that is answered.
EveryRequestLogged ==
    \A r \in Requests : Answered(r) /\ config.httpLogging => "logged" \in marks[r]
=============================================================================
