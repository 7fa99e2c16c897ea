----------------------------- MODULE Observability -----------------------------
(***************************************************************************)
(* stano-launcher's telemetry and what hangs on it: init_observability,    *)
(* which builds the OpenTelemetry providers one after the other and         *)
(* installs them globally; OtelGuard, which holds them until run() ends and *)
(* flushes or shuts them down in a fixed order; and stano-seaorm's query    *)
(* instruments, bound once, at the first query, to whatever is installed    *)
(* by then.                                                                *)
(*                                                                         *)
(* Records are counted, not looked at.  A provider of the SDK buffers       *)
(* them, exports from time to time in the background, and is alive until    *)
(* its first shutdown(), which exports what is left; every later shutdown() *)
(* is an error (AlreadyShutdown).  An export fails while the collector is   *)
(* down: spans and log records of the batch are gone, metrics are           *)
(* cumulative and stay.  A metric read by Prometheus is scraped: that       *)
(* reader buffers and exports nothing.                                      *)
(***************************************************************************)
EXTENDS Naturals, Sequences

CONSTANTS
    MaxRecords,         \* bound: records per provider
    MaxOutages,         \* bound: times the collector goes down
    MaxFlushes,         \* bound: calls of force_flush
    QueriesEarly        \* whether the application queries before it is initialized

ASSUME BoundsAssumption ==
    MaxRecords \in Nat /\ MaxOutages \in Nat /\ MaxFlushes \in Nat
ASSUME QueriesAssumption == QueriesEarly \in BOOLEAN

Provider == {"tracer", "meter", "logger"}
\* The order in which force_flush, shutdown and drop go through them.
Order == <<"tracer", "meter", "logger">>

VARIABLES
    phase,      \* of the process
    config,     \* ObservabilityConfig
    installed,  \* providers that records can reach: global, or in the subscriber
    guard,      \* providers the OtelGuard holds
    alive,      \* providers built and not shut down
    recorded, buffered, lost,   \* provider -> records
    collector,  \* whether it is reachable
    outages,
    database,   \* whether DbConfig::from_url has installed the callback
    bound,      \* providers the query instruments are bound to, or Unbound
    firstQuery, \* the phase of the first query
    step,       \* position in Order of a shutdown or drop
    failed,     \* shutdown() returned an error
    warned,     \* a warning was logged on drop
    flush       \* the force_flush call in progress, or the last one

providers == <<installed, guard, alive>>
records == <<recorded, buffered, lost>>
world == <<collector, outages>>
db == <<database, bound, firstQuery>>
exit == <<step, failed, warned>>
vars == <<phase, config, providers, records, world, db, exit, flush>>

Phase == {"wiring", "buildMeter", "buildTracer", "buildLogger", "serving",
          "shutdown", "drop", "exited"}
Config == [enabled : BOOLEAN, metrics : BOOLEAN, prometheus : BOOLEAN]
Unbound == {"unbound"}
NoFlush == [at |-> 0, calls |-> 0, result |-> "none",
            before |-> [p \in Provider |-> 0]]

TypeOK ==
    /\ phase \in Phase /\ config \in Config
    /\ installed \subseteq Provider /\ guard \subseteq Provider /\ alive \subseteq Provider
    /\ recorded \in [Provider -> 0 .. MaxRecords]
    /\ buffered \in [Provider -> Nat] /\ lost \in [Provider -> Nat]
    /\ \A p \in Provider : buffered[p] + lost[p] <= recorded[p]
    /\ collector \in BOOLEAN /\ outages \in 0 .. MaxOutages
    /\ database \in BOOLEAN
    /\ bound = Unbound \/ bound \subseteq {"meter", "tracer"}
    /\ firstQuery \in Phase \union {"none"}
    /\ step \in 0 .. Len(Order) + 1
    /\ failed \in BOOLEAN /\ warned \in BOOLEAN
    /\ flush \in [at : 0 .. Len(Order) + 1, calls : 0 .. MaxFlushes,
                  result : {"none", "ok", "error"},
                  before : [Provider -> Nat]]

Init ==
    /\ phase = "wiring" /\ config \in Config
    /\ installed = {} /\ guard = {} /\ alive = {}
    /\ recorded = [p \in Provider |-> 0]
    /\ buffered = [p \in Provider |-> 0]
    /\ lost = [p \in Provider |-> 0]
    /\ collector = TRUE /\ outages = 0
    /\ database = FALSE /\ bound = Unbound /\ firstQuery = "none"
    /\ step = 0 /\ failed = FALSE /\ warned = FALSE
    /\ flush = NoFlush

(***************************************************************************)
(* init_observability.                                                     *)
(***************************************************************************)

\* The meter's two readers, one to push metrics and one to be scraped.
PushesMetrics == config.enabled /\ config.metrics
HaveMeterReader == PushesMetrics \/ config.prometheus

Build(p) ==
    /\ installed' = installed \union {p}
    /\ alive' = alive \union {p}

CallRun ==
    /\ phase = "wiring"
    /\ phase' = "buildMeter"
    /\ UNCHANGED <<config, providers, records, world, db, exit, flush>>

\* An exporter that cannot be built: init_observability returns Err, run()
\* returns it, and what was installed before has no guard.
FailToBuild ==
    /\ \/ phase = "buildMeter" /\ HaveMeterReader
       \/ phase \in {"buildTracer", "buildLogger"}
    /\ phase' = "exited"
    /\ UNCHANGED <<config, providers, records, world, db, exit, flush>>

BuildMeter ==
    /\ phase = "buildMeter"
    /\ IF HaveMeterReader
       THEN Build("meter")
       ELSE UNCHANGED <<installed, alive>>
    /\ phase' = IF config.enabled THEN "buildTracer" ELSE "serving"
    /\ guard' = IF config.enabled THEN {} ELSE alive'
    /\ UNCHANGED <<config, records, world, db, exit, flush>>

BuildTracer ==
    /\ phase = "buildTracer"
    /\ Build("tracer")
    /\ phase' = "buildLogger"
    /\ UNCHANGED <<config, guard, records, world, db, exit, flush>>

\* Nothing reaches the logger when the process had a subscriber before:
\* try_init() fails and that is ignored.
BuildLogger ==
    /\ phase = "buildLogger"
    /\ Build("logger") \/ (alive' = alive \union {"logger"} /\ UNCHANGED installed)
    /\ guard' = alive'
    /\ phase' = "serving"
    /\ UNCHANGED <<config, records, world, db, exit, flush>>

(***************************************************************************)
(* Records.  A provider that is shut down takes no more.                    *)
(***************************************************************************)

Record(ps) ==
    LET taken == ps \intersect alive
    IN  /\ \A p \in taken : recorded[p] < MaxRecords
        /\ recorded' = [p \in Provider |-> recorded[p] + IF p \in taken THEN 1 ELSE 0]
        /\ buffered' = [p \in Provider |->
               buffered[p] + IF p \in taken /\ (p = "meter" => PushesMetrics) THEN 1 ELSE 0]
        /\ UNCHANGED lost

\* Spans and events through the subscriber, HTTP metrics through the global
\* meter, which record_http_metrics asks for at each request.
Emit(p) ==
    /\ phase # "exited" /\ p \in installed \intersect alive
    /\ Record({p})
    /\ UNCHANGED <<phase, config, providers, world, db, exit, flush>>

\* DbConfig::from_url with tracing enabled: the callback's OnceLock is empty.
OpenDatabase ==
    /\ phase = "wiring" /\ ~ database
    /\ database' = TRUE
    /\ UNCHANGED <<phase, config, providers, records, world, bound, firstQuery, exit, flush>>

\* mutant of Query: the instruments are bound to whatever is installed
Query_BindAll ==
    /\ database
    /\ phase # "exited"
    /\ phase \in {"wiring", "buildMeter", "buildTracer", "buildLogger"} => QueriesEarly
    /\ bound' = IF bound = Unbound THEN installed ELSE bound
    /\ firstQuery' = IF firstQuery = "none" THEN phase ELSE firstQuery
    /\ Record(bound')
    /\ UNCHANGED <<phase, config, providers, world, database, exit, flush>>

\* A query completes and the callback runs: the first call binds the
\* instruments to what is installed, a no-op standing in for what is not; all
\* record with them.
Query ==
    /\ database
    /\ phase # "exited"
    /\ phase \in {"wiring", "buildMeter", "buildTracer", "buildLogger"} => QueriesEarly
    /\ bound' = IF bound = Unbound THEN installed \intersect {"meter", "tracer"} ELSE bound
    /\ firstQuery' = IF firstQuery = "none" THEN phase ELSE firstQuery
    /\ Record(bound')
    /\ UNCHANGED <<phase, config, providers, world, database, exit, flush>>

(***************************************************************************)
(* Exports.                                                                *)
(***************************************************************************)

CollectorFails ==
    /\ collector /\ outages < MaxOutages
    /\ collector' = FALSE /\ outages' = outages + 1
    /\ UNCHANGED <<phase, config, providers, records, db, exit, flush>>

CollectorRecovers ==
    /\ ~ collector
    /\ collector' = TRUE
    /\ UNCHANGED <<phase, config, providers, records, outages, db, exit, flush>>

Exportable(p) == collector \/ buffered[p] = 0

Exported(p) == buffered' = [buffered EXCEPT ![p] = 0] /\ UNCHANGED <<recorded, lost>>

ExportLost(p) ==
    IF p = "meter" THEN UNCHANGED records
    ELSE /\ lost' = [lost EXCEPT ![p] = @ + buffered[p]]
         /\ buffered' = [buffered EXCEPT ![p] = 0]
         /\ UNCHANGED recorded

\* The batch processor's own schedule.
ExportBatch(p) ==
    /\ phase # "exited" /\ p \in alive /\ buffered[p] > 0
    /\ IF Exportable(p) THEN Exported(p) ELSE ExportLost(p)
    /\ UNCHANGED <<phase, config, providers, world, db, exit, flush>>

\* OtelGuard::force_flush, called by whoever holds the guard.
StartFlush ==
    /\ phase = "serving" /\ flush.at = 0 /\ flush.calls < MaxFlushes
    /\ flush' = [at |-> 1, calls |-> flush.calls + 1, result |-> "none",
                 before |-> recorded]
    /\ UNCHANGED <<phase, config, providers, records, world, db, exit>>

\* mutant of FlushFails: the error is logged and the call goes on
FlushFails_GoOn ==
    flush' = [flush EXCEPT !.at = @ + 1]

\* `?`: the call returns, the providers that come after are not flushed.
FlushFails ==
    flush' = [flush EXCEPT !.at = 0, !.result = "error"]

FlushProvider ==
    /\ flush.at \in DOMAIN Order
    /\ LET p == Order[flush.at] IN
       \/ /\ p \notin guard
          /\ flush' = [flush EXCEPT !.at = @ + 1]
          /\ UNCHANGED records
       \/ /\ p \in guard /\ Exportable(p)
          /\ flush' = [flush EXCEPT !.at = @ + 1]
          /\ Exported(p)
       \/ /\ p \in guard /\ ~ Exportable(p)
          /\ FlushFails
          /\ ExportLost(p)
    /\ UNCHANGED <<phase, config, providers, world, db, exit>>

FlushReturns ==
    /\ flush.at = Len(Order) + 1
    /\ flush' = [flush EXCEPT !.at = 0, !.result = "ok"]
    /\ UNCHANGED <<phase, config, providers, records, world, db, exit>>

(***************************************************************************)
(* The end of run().                                                       *)
(***************************************************************************)

\* axum::serve returned; or bind failed, or assembling the router panicked,
\* and the guard is dropped as it is.
Finish ==
    /\ phase = "serving" /\ flush.at = 0
    /\ phase' \in {"shutdown", "drop"}
    /\ step' = 1
    /\ UNCHANGED <<config, providers, records, world, db, failed, warned, flush>>

\* The first shutdown() of a provider: a last export, which may fail.
ShutDown(p) ==
    /\ alive' = alive \ {p}
    /\ IF Exportable(p) THEN Exported(p) ELSE ExportLost(p)
    /\ UNCHANGED <<installed, guard>>

\* OtelGuard::shutdown(self): an error returns at once; either way self is
\* dropped next.
ShutdownStep ==
    /\ phase = "shutdown" /\ step \in DOMAIN Order
    /\ LET p == Order[step] IN
       \/ /\ p \notin guard
          /\ step' = step + 1
          /\ UNCHANGED <<phase, failed, providers, records>>
       \/ /\ p \in guard /\ Exportable(p)
          /\ ShutDown(p)
          /\ step' = step + 1
          /\ UNCHANGED <<phase, failed>>
       \/ /\ p \in guard /\ ~ Exportable(p)
          /\ ShutDown(p)
          /\ failed' = TRUE /\ phase' = "drop" /\ step' = 1
    /\ UNCHANGED <<config, world, db, warned, flush>>

ShutdownReturns ==
    /\ phase = "shutdown" /\ step = Len(Order) + 1
    /\ phase' = "drop" /\ step' = 1
    /\ UNCHANGED <<config, providers, records, world, db, failed, warned, flush>>

\* mutant of DropStep: an error ends the drop, as it ends shutdown()
DropStep_StopAtError ==
    /\ phase = "drop" /\ step \in DOMAIN Order
    /\ LET p == Order[step] IN
       \/ /\ p \notin guard
          /\ step' = step + 1
          /\ UNCHANGED <<warned, providers, records>>
       \/ /\ p \in guard \intersect alive
          /\ ShutDown(p)
          /\ step' = step + 1
          /\ warned' = (warned \/ ~ Exportable(p))
       \/ /\ p \in guard \ alive
          /\ warned' = TRUE
          /\ step' = Len(Order) + 1
          /\ UNCHANGED <<providers, records>>
    /\ UNCHANGED <<phase, config, world, db, failed, flush>>

\* mutant of DropStep: errors are ignored, as shutdown() is taken to report them
DropStep_Silent ==
    /\ phase = "drop" /\ step \in DOMAIN Order
    /\ step' = step + 1
    /\ LET p == Order[step] IN
       \/ /\ p \notin guard \intersect alive
          /\ UNCHANGED <<providers, records>>
       \/ /\ p \in guard \intersect alive
          /\ ShutDown(p)
    /\ UNCHANGED <<phase, config, world, db, failed, warned, flush>>

\* Drop for OtelGuard: every provider once more, errors are warnings.
DropStep ==
    /\ phase = "drop" /\ step \in DOMAIN Order
    /\ step' = step + 1
    /\ LET p == Order[step] IN
       \/ /\ p \notin guard
          /\ UNCHANGED <<warned, providers, records>>
       \/ /\ p \in guard \intersect alive
          /\ ShutDown(p)
          /\ warned' = (warned \/ ~ Exportable(p))
       \/ /\ p \in guard \ alive
          /\ warned' = TRUE
          /\ UNCHANGED <<providers, records>>
    /\ UNCHANGED <<phase, config, world, db, failed, flush>>

Dropped ==
    /\ phase = "drop" /\ step = Len(Order) + 1
    /\ phase' = "exited"
    /\ UNCHANGED <<config, providers, records, world, db, exit, flush>>

Next ==
    \/ CallRun \/ FailToBuild \/ BuildMeter \/ BuildTracer \/ BuildLogger
    \/ \E p \in Provider : Emit(p) \/ ExportBatch(p)
    \/ OpenDatabase \/ Query
    \/ CollectorFails \/ CollectorRecovers
    \/ StartFlush \/ FlushProvider \/ FlushReturns
    \/ Finish \/ ShutdownStep \/ ShutdownReturns \/ DropStep \/ Dropped

Spec == Init /\ [][Next]_vars

(***************************************************************************)
(* Properties.                                                             *)
(***************************************************************************)

\* Whichever provider's shutdown fails, and whether run() ends well or early,
\* none that init_observability handed over is left running.
EveryProviderShut == phase = "exited" /\ guard # {} => alive = {}

\* With a collector that stays up, everything recorded while the providers were
\* alive has been exported when run() has ended; metrics that could not be are
\* reported, by shutdown(), or by a warning where its error ended it early or it
\* was not called.
NothingLeftSilently ==
    phase = "exited" /\ guard # {} =>
        /\ outages = 0 => \A p \in Provider : buffered[p] = 0 /\ lost[p] = 0
        /\ (\E p \in guard : buffered[p] > 0) => failed \/ warned

\* When force_flush returns Ok, nothing recorded before the call still waits.
FlushedMeansFlushed ==
    flush.result = "ok" =>
        \A p \in guard : buffered[p] <= recorded[p] - flush.before[p]

(***************************************************************************)
(* What comments say and the code does not do.                             *)
(***************************************************************************)

\* query_tracing.rs:110: "any query only begins after `run()` has already
\* initialized observability", so that the instruments export.
InstrumentsNeverNoOp ==
    phase = "serving" /\ bound # Unbound => installed \intersect {"meter", "tracer"} \subseteq bound
=============================================================================
