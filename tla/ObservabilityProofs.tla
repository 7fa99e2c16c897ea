-------------------------- MODULE ObservabilityProofs --------------------------
(***************************************************************************)
(* What the telemetry promises for any number of records, outages of the    *)
(* collector and flushes.                                                  *)
(***************************************************************************)
EXTENDS Observability, TLAPS

Early == {"wiring", "buildMeter", "buildTracer", "buildLogger"}

(* Who holds what is alive: nobody while it is built, then the guard.          *)
GuardInv ==
    /\ phase \in Early => guard = {} /\ flush = NoFlush
    /\ phase = "serving" => guard = alive
    /\ phase \in {"shutdown", "drop"} => alive \subseteq guard /\ step \in 1 .. 4
    /\ phase = "drop" => \A k \in 1 .. 3 : k < step => Order[k] \notin alive
    /\ phase = "exited" /\ guard # {} => alive = {}

(* What a provider that was shut down has left is known to somebody; what was  *)
(* never built has nothing.                                                 *)
RecordsInv ==
    /\ outages = 0 => collector = TRUE /\ \A p \in Provider : lost[p] = 0
    /\ \A p \in Provider \ (alive \union guard) : buffered[p] = 0
    /\ \A p \in guard \ alive :
          /\ outages = 0 => buffered[p] = 0
          /\ buffered[p] > 0 => failed = TRUE \/ warned = TRUE

(* A flush in progress is done with the providers it has passed.              *)
Flushed(p) == buffered[p] <= recorded[p] - flush.before[p]

FlushInv ==
    /\ \A p \in Provider : flush.before[p] <= recorded[p]
    /\ \A k \in 1 .. 3 : k < flush.at /\ Order[k] \in guard => Flushed(Order[k])
    /\ flush.result = "ok" => \A p \in guard : Flushed(p)

IInv ==
    /\ TypeOK
    /\ GuardInv
    /\ RecordsInv
    /\ FlushInv

-----------------------------------------------------------------------------
LEMMA OrderFacts ==
    /\ Len(Order) = 3 /\ DOMAIN Order = 1 .. 3
    /\ \A k \in 1 .. 3 : Order[k] \in Provider
    /\ \A p \in Provider : \E k \in 1 .. 3 : p = Order[k]
<1>1. /\ Len(Order) = 3 /\ DOMAIN Order = 1 .. 3
      /\ Order[1] = "tracer" /\ Order[2] = "meter" /\ Order[3] = "logger"
  BY DEF Order
<1>2. \A k \in 1 .. 3 : k = 1 \/ k = 2 \/ k = 3
  OBVIOUS
<1> QED
  BY <1>1, <1>2 DEF Provider

(* TypeOK with the numbers of Order filled in.                               *)
FlushType ==
    [at : 0 .. 4, calls : 0 .. MaxFlushes, result : {"none", "ok", "error"},
     before : [Provider -> Nat]]

LEMMA TypeFacts ==
    ASSUME TypeOK
    PROVE  /\ recorded \in [Provider -> Nat] /\ buffered \in [Provider -> Nat]
           /\ lost \in [Provider -> Nat]
           /\ \A p \in Provider : buffered[p] + lost[p] <= recorded[p] /\ recorded[p] <= MaxRecords
           /\ step \in 0 .. 4 /\ flush \in FlushType
           /\ guard \subseteq Provider /\ alive \subseteq Provider /\ installed \subseteq Provider
BY OrderFacts, BoundsAssumption DEF TypeOK, FlushType

LEMMA InitInv == Init => IInv
<1> SUFFICES ASSUME Init PROVE IInv
  OBVIOUS
<1> USE DEF Init
<1>1. NoFlush \in FlushType
  BY BoundsAssumption DEF NoFlush, FlushType
<1>2. TypeOK
  <2>1. /\ phase \in Phase /\ firstQuery \in Phase \union {"none"}
        /\ step \in 0 .. Len(Order) + 1 /\ outages \in 0 .. MaxOutages
    BY OrderFacts, BoundsAssumption DEF Phase
  <2>2. /\ recorded \in [Provider -> 0 .. MaxRecords] /\ buffered \in [Provider -> Nat]
        /\ lost \in [Provider -> Nat]
        /\ \A p \in Provider : buffered[p] + lost[p] <= recorded[p]
    BY BoundsAssumption
  <2>3. flush \in [at : 0 .. Len(Order) + 1, calls : 0 .. MaxFlushes,
                   result : {"none", "ok", "error"}, before : [Provider -> Nat]]
    BY <1>1, OrderFacts DEF FlushType
  <2>4. /\ collector \in BOOLEAN /\ database \in BOOLEAN /\ failed \in BOOLEAN /\ warned \in BOOLEAN
    OBVIOUS
  <2> QED
    BY <2>1, <2>2, <2>3, <2>4 DEF TypeOK
<1>3. GuardInv
  BY DEF GuardInv, Early
<1>4. RecordsInv
  BY DEF RecordsInv
<1>5. FlushInv
  BY DEF FlushInv, NoFlush
<1> QED
  BY <1>2, <1>3, <1>4, <1>5 DEF IInv

-----------------------------------------------------------------------------
(* What a record, an export and a shutdown do to the counts.                  *)

LEMMA RecordFacts ==
    ASSUME IInv, NEW ps, Record(ps)
    PROVE  /\ recorded' \in [Provider -> 0 .. MaxRecords] /\ buffered' \in [Provider -> Nat]
           /\ lost' = lost
           /\ \A p \in Provider :
                 /\ buffered'[p] + lost[p] <= recorded'[p]
                 /\ recorded[p] <= recorded'[p]
                 /\ buffered'[p] - buffered[p] <= recorded'[p] - recorded[p]
                 /\ p \notin alive => buffered'[p] = buffered[p]
<1>1. /\ recorded \in [Provider -> Nat] /\ buffered \in [Provider -> Nat] /\ lost \in [Provider -> Nat]
      /\ \A p \in Provider : buffered[p] + lost[p] <= recorded[p] /\ recorded[p] <= MaxRecords
  BY TypeFacts DEF IInv
<1> DEFINE taken == ps \intersect alive
           more(p) == IF p \in taken /\ (p = "meter" => PushesMetrics) THEN 1 ELSE 0
<1>2. /\ \A p \in taken : recorded[p] < MaxRecords
      /\ recorded' = [p \in Provider |-> recorded[p] + IF p \in taken THEN 1 ELSE 0]
      /\ buffered' = [p \in Provider |-> buffered[p] + more(p)]
      /\ lost' = lost
  BY DEF Record
<1>3. ASSUME NEW p \in Provider
      PROVE  /\ recorded'[p] \in 0 .. MaxRecords /\ buffered'[p] \in Nat
             /\ buffered'[p] + lost[p] <= recorded'[p]
             /\ recorded[p] <= recorded'[p]
             /\ buffered'[p] - buffered[p] <= recorded'[p] - recorded[p]
             /\ p \notin alive => buffered'[p] = buffered[p]
  <2>1. /\ recorded[p] \in Nat /\ buffered[p] \in Nat /\ lost[p] \in Nat /\ MaxRecords \in Nat
        /\ buffered[p] + lost[p] <= recorded[p] /\ recorded[p] <= MaxRecords
    BY <1>1, BoundsAssumption
  <2>2. more(p) = 0 \/ (more(p) = 1 /\ p \in taken)
    OBVIOUS
  <2>5. buffered'[p] = buffered[p] + more(p)
    BY <1>2
  <2>6. p \notin alive => p \notin taken
    OBVIOUS
  <2> HIDE DEF more, taken
  <2>3. CASE p \in taken
    <3>1. recorded'[p] = recorded[p] + 1 /\ recorded[p] < MaxRecords
      BY <1>2, <2>3
    <3> QED
      BY <2>1, <2>2, <2>3, <2>5, <2>6, <3>1
  <2>4. CASE p \notin taken
    <3>1. recorded'[p] = recorded[p] + 0
      BY <1>2, <2>4
    <3> QED
      BY <2>1, <2>2, <2>4, <2>5, <2>6, <3>1
  <2> QED
    BY <2>3, <2>4
<1>4. recorded' \in [Provider -> 0 .. MaxRecords] /\ buffered' \in [Provider -> Nat]
  BY <1>2, <1>3
<1> QED
  BY <1>2, <1>3, <1>4

(* An export, successful or not.                                             *)
ExportOf(p) == (Exportable(p) /\ Exported(p)) \/ (~Exportable(p) /\ ExportLost(p))

LEMMA ExportFacts ==
    ASSUME IInv, NEW p \in Provider, ExportOf(p)
    PROVE  /\ recorded' = recorded
           /\ buffered' \in [Provider -> Nat] /\ lost' \in [Provider -> Nat]
           /\ \A q \in Provider :
                 /\ buffered'[q] + lost'[q] <= recorded[q]
                 /\ buffered'[q] <= buffered[q]
                 /\ q # p => buffered'[q] = buffered[q] /\ lost'[q] = lost[q]
           /\ Exportable(p) => buffered'[p] = 0 /\ lost' = lost
           /\ outages = 0 => Exportable(p)
<1>1. /\ recorded \in [Provider -> Nat] /\ buffered \in [Provider -> Nat] /\ lost \in [Provider -> Nat]
      /\ \A q \in Provider : buffered[q] + lost[q] <= recorded[q]
  BY TypeFacts DEF IInv
<1>2. outages = 0 => Exportable(p)
  BY DEF IInv, RecordsInv, Exportable
<1>3. CASE Exportable(p) /\ Exported(p)
  BY <1>1, <1>2, <1>3 DEF Exported
<1>4. CASE ~Exportable(p) /\ ExportLost(p)
  <2>1. CASE p = "meter"
    BY <1>1, <1>2, <1>4, <2>1 DEF ExportLost, records
  <2>2. CASE p # "meter"
    BY <1>1, <1>2, <1>4, <2>2 DEF ExportLost
  <2> QED
    BY <2>1, <2>2
<1> QED
  BY <1>3, <1>4 DEF ExportOf

-----------------------------------------------------------------------------
(* TypeOK in two halves, the counts and the rest.                             *)
Counted ==
    /\ recorded \in [Provider -> 0 .. MaxRecords]
    /\ buffered \in [Provider -> Nat] /\ lost \in [Provider -> Nat]
    /\ \A p \in Provider : buffered[p] + lost[p] <= recorded[p]

Shaped ==
    /\ phase \in Phase /\ config \in Config
    /\ installed \subseteq Provider /\ guard \subseteq Provider /\ alive \subseteq Provider
    /\ collector \in BOOLEAN /\ outages \in 0 .. MaxOutages
    /\ database \in BOOLEAN
    /\ bound = Unbound \/ bound \subseteq {"meter", "tracer"}
    /\ firstQuery \in Phase \union {"none"}
    /\ step \in 0 .. 4
    /\ failed \in BOOLEAN /\ warned \in BOOLEAN
    /\ flush \in FlushType

LEMMA TypeSplit == TypeOK <=> Counted /\ Shaped
BY OrderFacts DEF TypeOK, Counted, Shaped, FlushType

LEMMA TypeJoin == Counted' /\ Shaped' => TypeOK'
BY OrderFacts DEF TypeOK, Counted, Shaped, FlushType

(* What holds of the counts when records are taken, exported, or left alone.   *)
CountsStep ==
    \A p \in Provider :
       /\ recorded[p] \in Nat /\ recorded'[p] \in Nat /\ buffered[p] \in Nat /\ buffered'[p] \in Nat
       /\ recorded[p] <= recorded'[p]
       /\ buffered'[p] - buffered[p] <= recorded'[p] - recorded[p]

LEMMA RecordCounts ==
    ASSUME IInv, NEW ps, Record(ps)
    PROVE  Counted' /\ CountsStep
<1>1. Counted
  BY TypeSplit DEF IInv
<1>2. /\ recorded' \in [Provider -> 0 .. MaxRecords] /\ buffered' \in [Provider -> Nat]
      /\ lost' = lost
      /\ \A p \in Provider :
            /\ buffered'[p] + lost[p] <= recorded'[p]
            /\ recorded[p] <= recorded'[p]
            /\ buffered'[p] - buffered[p] <= recorded'[p] - recorded[p]
  BY RecordFacts
<1> QED
  BY <1>1, <1>2, BoundsAssumption DEF Counted, CountsStep

LEMMA ExportCounts ==
    ASSUME IInv, NEW p \in Provider, ExportOf(p)
    PROVE  Counted' /\ CountsStep
<1>1. Counted
  BY TypeSplit DEF IInv
<1>2. /\ recorded' = recorded
      /\ buffered' \in [Provider -> Nat] /\ lost' \in [Provider -> Nat]
      /\ \A q \in Provider : buffered'[q] + lost'[q] <= recorded[q] /\ buffered'[q] <= buffered[q]
  BY ExportFacts
<1> QED
  BY <1>1, <1>2, BoundsAssumption DEF Counted, CountsStep

LEMMA QuietCounts ==
    ASSUME IInv, UNCHANGED records
    PROVE  Counted' /\ CountsStep
<1>1. Counted /\ recorded' = recorded /\ buffered' = buffered /\ lost' = lost
  BY TypeSplit DEF IInv, records
<1> QED
  BY <1>1, BoundsAssumption DEF Counted, CountsStep

(* A step that leaves the flush and the guard alone keeps what the flush knows. *)
LEMMA FlushKept ==
    ASSUME IInv, CountsStep, guard' = guard, flush' = flush
    PROVE  FlushInv'
<1>1. flush \in FlushType /\ \A p \in Provider : flush.before[p] \in Nat
  BY TypeFacts DEF IInv, FlushType
<1>2. ASSUME NEW p \in Provider
      PROVE  /\ flush.before[p] <= recorded[p] => flush.before[p] <= recorded'[p]
             /\ Flushed(p) => Flushed(p)'
  BY <1>1 DEF CountsStep, Flushed
<1>3. \A p \in Provider : flush'.before[p] <= recorded'[p]
  BY <1>2 DEF IInv, FlushInv
<1>4. \A k \in 1 .. 3 : k < flush'.at /\ Order[k] \in guard' => Flushed(Order[k])'
  BY <1>2, OrderFacts DEF IInv, FlushInv
<1>5. flush'.result = "ok" => \A p \in guard' : Flushed(p)'
  BY <1>2, TypeFacts DEF IInv, FlushInv
<1> QED
  BY <1>3, <1>4, <1>5 DEF FlushInv

-----------------------------------------------------------------------------
(* Each action.                                                            *)

LEMMA BuildStep ==
    ASSUME IInv, CallRun \/ FailToBuild \/ BuildMeter \/ BuildTracer \/ BuildLogger
    PROVE  IInv'
<1>1. /\ phase \in Early /\ guard = {} /\ flush = NoFlush
  BY DEF IInv, GuardInv, Early, CallRun, FailToBuild, BuildMeter, BuildTracer, BuildLogger
<1>2. /\ UNCHANGED <<records, world, db, exit, flush, config>>
  BY DEF CallRun, FailToBuild, BuildMeter, BuildTracer, BuildLogger
<1>3. Counted' /\ CountsStep
  BY <1>2, QuietCounts
<1>4. Shaped
  BY TypeSplit DEF IInv
<1>5. /\ alive \subseteq alive' /\ alive' \subseteq Provider
      /\ installed' \subseteq Provider
      /\ phase' \in Early \union {"serving", "exited"}
      /\ phase' \in Early => guard' = {}
      /\ phase' = "serving" => guard' = alive'
      /\ phase' = "exited" => guard' = {}
  <2>1. CASE CallRun
    BY <1>1, <1>4, <2>1 DEF CallRun, Early, Shaped, providers
  <2>2. CASE FailToBuild
    BY <1>1, <1>4, <2>2 DEF FailToBuild, Early, Shaped, providers
  <2>3. CASE BuildMeter
    BY <1>1, <1>4, <2>3 DEF BuildMeter, Build, Early, Shaped, Provider
  <2>4. CASE BuildTracer
    BY <1>1, <1>4, <2>4 DEF BuildTracer, Build, Early, Shaped, Provider
  <2>5. CASE BuildLogger
    BY <1>1, <1>4, <2>5 DEF BuildLogger, Build, Early, Shaped, Provider
  <2> QED
    BY <2>1, <2>2, <2>3, <2>4, <2>5
      DEF CallRun, FailToBuild, BuildMeter, BuildTracer, BuildLogger
<1>6. guard' = {} \/ guard' = alive'
  BY <1>5 DEF Early
<1>7. TypeOK'
  <2>1. Shaped'
    BY <1>2, <1>4, <1>5, <1>6 DEF Shaped, Phase, Early, world, db, exit
  <2> QED
    BY <2>1, <1>3, TypeJoin
<1>8. GuardInv'
  BY <1>1, <1>2, <1>5 DEF GuardInv, Early
<1>9. RecordsInv'
  <2>1. outages' = 0 => collector' = TRUE /\ \A p \in Provider : lost'[p] = 0
    BY <1>2 DEF IInv, RecordsInv, world, records
  <2>2. \A p \in Provider \ (alive' \union guard') : buffered'[p] = 0
    BY <1>1, <1>2, <1>5 DEF IInv, RecordsInv, records
  <2>3. guard' \ alive' = {}
    BY <1>6
  <2> QED
    BY <2>1, <2>2, <2>3 DEF RecordsInv
<1>10. FlushInv'
  <2>1. flush' = NoFlush
    BY <1>1, <1>2
  <2>2. \A p \in Provider : recorded'[p] \in Nat
    BY <1>3 DEF CountsStep
  <2> QED
    BY <2>1, <2>2 DEF FlushInv, NoFlush
<1> QED
  BY <1>7, <1>8, <1>9, <1>10 DEF IInv

(* Records: the spans, events and metrics of the service, and of a query.      *)
LEMMA RecordStep ==
    ASSUME IInv, NEW ps, Record(ps),
           UNCHANGED <<phase, config, providers, world, exit, flush>>,
           database' \in BOOLEAN,
           bound' = Unbound \/ bound' \subseteq {"meter", "tracer"},
           firstQuery' \in Phase \union {"none"}
    PROVE  IInv'
<1>1. Counted' /\ CountsStep
  BY RecordCounts
<1>2. Shaped /\ UNCHANGED <<phase, config, installed, guard, alive, collector, outages,
                            step, failed, warned, flush>>
  BY TypeSplit DEF IInv, providers, world, exit
<1>3. TypeOK'
  <2>1. Shaped'
    BY <1>2 DEF Shaped
  <2> QED
    BY <2>1, <1>1, TypeJoin
<1>4. GuardInv'
  BY <1>2 DEF IInv, GuardInv
<1>5. RecordsInv'
  <2>1. lost' = lost /\ \A p \in Provider : p \notin alive => buffered'[p] = buffered[p]
    BY RecordFacts
  <2>2. guard \subseteq Provider
    BY <1>2 DEF Shaped
  <2> QED
    BY <1>2, <2>1, <2>2 DEF IInv, RecordsInv
<1>6. FlushInv'
  BY <1>1, <1>2, FlushKept
<1> QED
  BY <1>3, <1>4, <1>5, <1>6 DEF IInv

LEMMA QueryStep ==
    ASSUME IInv, Query
    PROVE  IInv'
<1>1. Shaped
  BY TypeSplit DEF IInv
<1>2. /\ Record(bound')
      /\ UNCHANGED <<phase, config, providers, world, exit, flush>>
      /\ database' = database
  BY DEF Query
<1>3. bound' = Unbound \/ bound' \subseteq {"meter", "tracer"}
  BY <1>1 DEF Query, Shaped
<1>4. firstQuery' \in Phase \union {"none"} /\ database' \in BOOLEAN
  BY <1>1, <1>2 DEF Query, Shaped
<1> QED
  BY <1>2, <1>3, <1>4, RecordStep

LEMMA EmitStep ==
    ASSUME IInv, NEW p \in Provider, Emit(p)
    PROVE  IInv'
<1>1. Shaped
  BY TypeSplit DEF IInv
<1>2. /\ Record({p})
      /\ UNCHANGED <<phase, config, providers, world, exit, flush>>
      /\ database' = database /\ bound' = bound /\ firstQuery' = firstQuery
  BY DEF Emit, db
<1>3. /\ database' \in BOOLEAN
      /\ bound' = Unbound \/ bound' \subseteq {"meter", "tracer"}
      /\ firstQuery' \in Phase \union {"none"}
  BY <1>1, <1>2 DEF Shaped
<1> QED
  BY <1>2, <1>3, RecordStep

LEMMA ExportStep ==
    ASSUME IInv, NEW p \in Provider, ExportBatch(p)
    PROVE  IInv'
<1>1. ExportOf(p)
  BY DEF ExportBatch, ExportOf
<1>2. Counted' /\ CountsStep
  BY <1>1, ExportCounts
<1>3. Shaped /\ UNCHANGED <<phase, config, installed, guard, alive, collector, outages,
                            database, bound, firstQuery, step, failed, warned, flush>>
  BY TypeSplit DEF IInv, ExportBatch, providers, world, db, exit
<1>4. TypeOK'
  <2>1. Shaped'
    BY <1>3 DEF Shaped
  <2> QED
    BY <2>1, <1>2, TypeJoin
<1>5. GuardInv'
  BY <1>3 DEF IInv, GuardInv
<1>6. RecordsInv'
  <2>1. /\ \A q \in Provider : q # p => buffered'[q] = buffered[q] /\ lost'[q] = lost[q]
        /\ outages = 0 => lost' = lost
    BY <1>1, ExportFacts
  <2>2. p \in alive /\ guard \subseteq Provider
    BY <1>3 DEF Shaped, ExportBatch
  <2> QED
    BY <1>3, <2>1, <2>2 DEF IInv, RecordsInv
<1>7. FlushInv'
  BY <1>2, <1>3, FlushKept
<1> QED
  BY <1>4, <1>5, <1>6, <1>7 DEF IInv

(* What leaves records, providers, exit and the flush alone.                  *)
LEMMA WorldStep ==
    ASSUME IInv, OpenDatabase \/ CollectorFails \/ CollectorRecovers
    PROVE  IInv'
<1>1. Shaped /\ UNCHANGED <<phase, config, installed, guard, alive, recorded, buffered, lost,
                            step, failed, warned, flush>>
  BY TypeSplit DEF IInv, OpenDatabase, CollectorFails, CollectorRecovers, providers, records, exit
<1>2. Counted' /\ CountsStep
  BY <1>1, QuietCounts DEF records
<1>3. /\ collector' \in BOOLEAN /\ outages' \in 0 .. MaxOutages
      /\ outages' = 0 => outages = 0 /\ collector' = TRUE
  <2>1. /\ outages \in 0 .. MaxOutages /\ MaxOutages \in Nat /\ collector \in BOOLEAN
        /\ outages = 0 => collector = TRUE
    BY <1>1, BoundsAssumption DEF IInv, RecordsInv, Shaped
  <2>2. CASE OpenDatabase
    BY <2>1, <2>2 DEF OpenDatabase, world
  <2>3. CASE CollectorFails
    <3>1. collector' = FALSE /\ outages' = outages + 1 /\ outages < MaxOutages
      BY <2>3 DEF CollectorFails
    <3>2. outages + 1 \in 0 .. MaxOutages /\ outages + 1 # 0
      BY <2>1, <3>1
    <3> QED
      BY <3>1, <3>2
  <2>4. CASE CollectorRecovers
    BY <2>1, <2>4 DEF CollectorRecovers
  <2> QED
    BY <2>2, <2>3, <2>4
<1>4. /\ database' \in BOOLEAN /\ bound' = bound /\ firstQuery' = firstQuery
  BY <1>1 DEF Shaped, OpenDatabase, CollectorFails, CollectorRecovers, db
<1>5. TypeOK'
  <2>1. Shaped'
    BY <1>1, <1>3, <1>4 DEF Shaped
  <2> QED
    BY <2>1, <1>2, TypeJoin
<1>6. GuardInv'
  BY <1>1 DEF IInv, GuardInv
<1>7. RecordsInv'
  BY <1>1, <1>3 DEF IInv, RecordsInv
<1>8. FlushInv'
  BY <1>1, <1>2, FlushKept
<1> QED
  BY <1>5, <1>6, <1>7, <1>8 DEF IInv

(* The calls of force_flush.                                               *)
LEMMA FlushCalls ==
    ASSUME IInv, StartFlush \/ FlushReturns
    PROVE  IInv'
<1>1. Shaped /\ UNCHANGED <<phase, config, installed, guard, alive, recorded, buffered, lost,
                            collector, outages, database, bound, firstQuery, step, failed, warned>>
  BY TypeSplit DEF IInv, StartFlush, FlushReturns, providers, records, world, db, exit
<1>2. Counted' /\ CountsStep
  BY <1>1, QuietCounts DEF records
<1>3. phase = "serving"  \/ (flush.at = 4 /\ flush # NoFlush)
  BY OrderFacts DEF StartFlush, FlushReturns, NoFlush
<1>4. flush' \in FlushType
  <2>1. /\ flush \in FlushType /\ MaxFlushes \in Nat
        /\ recorded \in [Provider -> Nat]
    BY <1>1, TypeFacts, BoundsAssumption DEF IInv, Shaped
  <2>2. CASE StartFlush
    BY <2>1, <2>2 DEF StartFlush, FlushType
  <2>3. CASE FlushReturns
    <3>1. flush' = [flush EXCEPT !.at = 0, !.result = "ok"]
      BY <2>3 DEF FlushReturns
    <3>2. [flush EXCEPT !.at = 0] \in FlushType
      BY <2>1 DEF FlushType
    <3>3. [[flush EXCEPT !.at = 0] EXCEPT !.result = "ok"] \in FlushType
      BY <3>2 DEF FlushType
    <3>4. flush' = [[flush EXCEPT !.at = 0] EXCEPT !.result = "ok"]
      BY <2>1, <3>1 DEF FlushType
    <3> QED
      BY <3>3, <3>4
  <2> QED
    BY <2>2, <2>3
<1>5. TypeOK'
  <2>1. Shaped'
    BY <1>1, <1>4 DEF Shaped
  <2> QED
    BY <2>1, <1>2, TypeJoin
<1>6. GuardInv'
  BY <1>1, <1>3 DEF IInv, GuardInv, Early
<1>7. RecordsInv'
  BY <1>1 DEF IInv, RecordsInv
<1>8. FlushInv'
  <2>1. /\ \A p \in Provider : recorded[p] \in Nat /\ buffered[p] \in Nat /\ buffered[p] <= recorded[p]
        /\ guard \subseteq Provider /\ flush \in FlushType
    <3>1. ASSUME NEW p \in Provider
          PROVE  recorded[p] \in Nat /\ buffered[p] \in Nat /\ buffered[p] <= recorded[p]
      <4>1. recorded[p] \in Nat /\ buffered[p] \in Nat /\ lost[p] \in Nat
            /\ buffered[p] + lost[p] <= recorded[p]
        BY TypeFacts DEF IInv
      <4> QED
        BY <4>1
    <3> QED
      BY <3>1, <1>1 DEF Shaped
  <2>2. CASE StartFlush
    <3>1. flush'.before = recorded /\ flush'.at = 1 /\ flush'.result = "none"
      BY <2>2 DEF StartFlush
    <3>2. \A k \in 1 .. 3 : ~(k < 1)
      OBVIOUS
    <3> QED
      BY <1>1, <2>1, <3>1, <3>2 DEF FlushInv, Flushed
  <2>3. CASE FlushReturns
    <3>1. /\ flush'.before = flush.before /\ flush'.at = 0 /\ flush'.result = "ok" /\ flush.at = 4
      BY <2>1, <2>3, OrderFacts DEF FlushReturns, FlushType
    <3>2. \A k \in 1 .. 3 : k < 4 /\ ~(k < 0)
      OBVIOUS
    <3>3. \A p \in guard : Flushed(p)
      BY <2>1, <3>1, <3>2, OrderFacts DEF IInv, FlushInv
    <3> QED
      BY <1>1, <2>1, <3>1, <3>2, <3>3 DEF IInv, FlushInv, Flushed
  <2> QED
    BY <2>2, <2>3
<1> QED
  BY <1>5, <1>6, <1>7, <1>8 DEF IInv

LEMMA FlushStep ==
    ASSUME IInv, FlushProvider
    PROVE  IInv'
<1>1. Shaped /\ UNCHANGED <<phase, config, installed, guard, alive,
                            collector, outages, database, bound, firstQuery, step, failed, warned>>
  BY TypeSplit DEF IInv, FlushProvider, providers, world, db, exit
<1>a. flush.at \in 1 .. 3 /\ Order[flush.at] \in Provider /\ flush \in FlushType
  BY <1>1, OrderFacts DEF FlushProvider, Shaped
<1>b. PICK p \in Provider : p = Order[flush.at]
  BY <1>a
<1>2. flush.at \in 1 .. 3 /\ p \in Provider /\ flush \in FlushType
  BY <1>a
<1>3. \/ p \notin guard /\ flush' = [flush EXCEPT !.at = @ + 1] /\ UNCHANGED records
      \/ /\ p \in guard /\ Exportable(p)
         /\ flush' = [flush EXCEPT !.at = @ + 1] /\ Exported(p)
      \/ /\ p \in guard /\ ~ Exportable(p)
         /\ flush' = [flush EXCEPT !.at = 0, !.result = "error"] /\ ExportLost(p)
  BY <1>b DEF FlushProvider, FlushFails
<1>4. UNCHANGED records \/ ExportOf(p)
  BY <1>3 DEF ExportOf
<1>5. Counted' /\ CountsStep
  BY <1>2, <1>4, QuietCounts, ExportCounts
<1>6. /\ flush' \in FlushType /\ flush'.before = flush.before
      /\ \/ flush'.at = flush.at + 1 /\ flush'.result = flush.result
            /\ (p \in guard => Exportable(p) /\ ExportOf(p))
         \/ flush'.at = 0 /\ flush'.result = "error"
  <2>1. [flush EXCEPT !.at = @ + 1] \in FlushType
    BY <1>2 DEF FlushType
  <2>2. [flush EXCEPT !.at = 0, !.result = "error"] \in FlushType
    <3>1. [flush EXCEPT !.at = 0] \in FlushType
      BY <1>2 DEF FlushType
    <3>2. [[flush EXCEPT !.at = 0] EXCEPT !.result = "error"] \in FlushType
      BY <3>1 DEF FlushType
    <3>3. [flush EXCEPT !.at = 0, !.result = "error"]
             = [[flush EXCEPT !.at = 0] EXCEPT !.result = "error"]
      BY <1>2 DEF FlushType
    <3> QED
      BY <3>2, <3>3
  <2> QED
    BY <1>2, <1>3, <2>1, <2>2 DEF FlushType, ExportOf
<1>7. TypeOK'
  <2>1. Shaped'
    BY <1>1, <1>6 DEF Shaped
  <2> QED
    BY <2>1, <1>5, TypeJoin
<1>8. GuardInv'
  <2>1. phase \notin Early
    BY <1>2 DEF IInv, GuardInv, NoFlush
  <2> QED
    BY <1>1, <2>1 DEF IInv, GuardInv
<1>9. RecordsInv'
  <2>1. /\ outages = 0 => lost' = lost
        /\ \A q \in Provider : buffered'[q] \in Nat /\ buffered[q] \in Nat /\ buffered'[q] <= buffered[q]
    <3>1. CASE UNCHANGED records
      BY <3>1, TypeFacts DEF IInv, records
    <3>2. CASE ExportOf(p)
      BY <1>2, <3>2, TypeFacts, ExportFacts DEF IInv
    <3> QED
      BY <1>4, <3>1, <3>2
  <2>2. \A q \in Provider : buffered[q] = 0 => buffered'[q] = 0
    BY <2>1
  <2>3. \A q \in Provider : buffered'[q] > 0 => buffered[q] > 0
    BY <2>1
  <2>4. guard \subseteq Provider
    BY <1>1 DEF Shaped
  <2> QED
    BY <1>1, <2>1, <2>2, <2>3, <2>4 DEF IInv, RecordsInv
<1>10. FlushInv'
  <2>1. ASSUME NEW q \in Provider
        PROVE  /\ flush.before[q] \in Nat /\ flush.before[q] <= recorded'[q]
               /\ Flushed(q) => Flushed(q)'
    <3>1. flush.before[q] \in Nat /\ flush.before[q] <= recorded[q]
      BY <1>2 DEF IInv, FlushInv, FlushType
    <3>2. flush'.before[q] = flush.before[q]
      BY <1>6
    <3> QED
      BY <1>5, <3>1, <3>2 DEF CountsStep, Flushed
  <2>2. \A q \in guard : q \in Provider
    BY <1>1 DEF Shaped
  <2>3. flush'.result = "ok" => \A q \in guard' : Flushed(q)'
    BY <1>1, <1>6, <2>1, <2>2 DEF IInv, FlushInv
  <2>4. \A k \in 1 .. 3 : k < flush'.at /\ Order[k] \in guard' => Flushed(Order[k])'
    <3>1. CASE flush'.at = 0
      BY <3>1
    <3>2. CASE flush'.at = flush.at + 1 /\ (p \in guard => Exportable(p) /\ ExportOf(p))
      <4>1. p \in guard => Flushed(p)'
        <5>1. p \in guard => buffered'[p] = 0
          BY <1>2, <3>2, ExportFacts
        <5> QED
          BY <1>2, <1>5, <1>6, <2>1, <5>1 DEF Flushed, CountsStep
      <4>2. \A k \in 1 .. 3 : k < flush.at + 1 => k < flush.at \/ k = flush.at
        BY <1>2
      <4>3. \A k \in 1 .. 3 : k < flush.at /\ Order[k] \in guard => Flushed(Order[k])
        BY DEF IInv, FlushInv
      <4> QED
        BY <1>1, <2>1, <3>2, <4>1, <4>2, <4>3, OrderFacts, <1>b
    <3> QED
      BY <1>6, <3>1, <3>2
  <2>5. \A q \in Provider : flush'.before[q] <= recorded'[q]
    BY <1>6, <2>1
  <2> QED
    BY <2>3, <2>4, <2>5 DEF FlushInv
<1> QED
  BY <1>7, <1>8, <1>9, <1>10 DEF IInv

(* The steps between the serving and the exit that leave the providers alone.  *)
LEMMA EndStep ==
    ASSUME IInv, Finish \/ ShutdownReturns \/ Dropped
    PROVE  IInv'
<1>1. Shaped /\ UNCHANGED <<config, installed, guard, alive, recorded, buffered, lost, collector,
                            outages, database, bound, firstQuery, failed, warned, flush>>
  BY TypeSplit DEF IInv, Finish, ShutdownReturns, Dropped, providers, records, world, db, exit
<1>2. Counted' /\ CountsStep
  BY <1>1, QuietCounts DEF records
<1>3. /\ phase' \in {"shutdown", "drop", "exited"} /\ step' \in 0 .. 4
      /\ phase' \in {"shutdown", "drop"} => alive \subseteq guard /\ step' = 1
      /\ phase' = "exited" => phase = "drop" /\ step = 4
  <2>1. CASE Finish
    BY <2>1 DEF IInv, GuardInv, Finish
  <2>2. CASE ShutdownReturns
    BY <2>2 DEF IInv, GuardInv, ShutdownReturns
  <2>3. CASE Dropped
    BY <1>1, <2>3, OrderFacts DEF Dropped, exit, Shaped
  <2> QED
    BY <2>1, <2>2, <2>3
<1>4. TypeOK'
  <2>1. Shaped'
    BY <1>1, <1>3 DEF Shaped, Phase
  <2> QED
    BY <2>1, <1>2, TypeJoin
<1>5. GuardInv'
  <2>1. phase' = "exited" => alive = {}
    <3>1. SUFFICES ASSUME phase' = "exited" PROVE alive = {}
      OBVIOUS
    <3>2. phase = "drop" /\ step = 4
      BY <1>3, <3>1
    <3>3. \A k \in 1 .. 3 : Order[k] \notin alive
      <4>1. \A k \in 1 .. 3 : k < 4
        OBVIOUS
      <4> QED
        BY <3>2, <4>1 DEF IInv, GuardInv
    <3> QED
      BY <1>1, <3>3, OrderFacts DEF Shaped
  <2>2. phase' \notin Early /\ phase' # "serving"
    BY <1>3 DEF Early
  <2>3. phase' \in {"shutdown", "drop"} => alive' \subseteq guard' /\ step' \in 1 .. 4
    BY <1>1, <1>3
  <2>4. phase' = "drop" => \A k \in 1 .. 3 : k < step' => Order[k] \notin alive'
    <3>1. \A k \in 1 .. 3 : ~(k < 1)
      OBVIOUS
    <3> QED
      BY <1>3, <3>1
  <2> QED
    BY <1>1, <2>1, <2>2, <2>3, <2>4 DEF GuardInv
<1>6. RecordsInv'
  BY <1>1 DEF IInv, RecordsInv
<1>7. FlushInv'
  BY <1>1, <1>2, FlushKept
<1> QED
  BY <1>4, <1>5, <1>6, <1>7 DEF IInv

(* What one provider's turn does in shutdown() and in drop: nothing, when it is *)
(* not there or was shut down already, or its last export.                    *)
LEMMA TurnStep ==
    ASSUME IInv, phase \in {"shutdown", "drop"}, step \in 1 .. 3,
           NEW p \in Provider, p = Order[step],
           \/ UNCHANGED <<providers, records>> /\ (p \in alive => phase = "shutdown")
           \/ ShutDown(p) /\ guard' = guard,
           (phase' = phase /\ step' = step + 1) \/ (phase' = "drop" /\ step' = 1),
           UNCHANGED <<config, world, db, flush>>,
           failed' \in BOOLEAN, warned' \in BOOLEAN,
           failed = TRUE => failed' = TRUE, warned = TRUE => warned' = TRUE,
           ShutDown(p) /\ p \in guard /\ ~Exportable(p) => failed' = TRUE \/ warned' = TRUE
    PROVE  IInv'
<1>1. Shaped /\ UNCHANGED <<config, guard, collector, outages, database, bound, firstQuery, flush>>
  BY TypeSplit DEF IInv, providers, world, db
<1>2. /\ UNCHANGED records \/ ExportOf(p)
      /\ installed' = installed
      /\ alive' = alive \/ alive' = alive \ {p}
      /\ p \in alive' => phase = "shutdown"
      /\ alive' # alive => ShutDown(p) /\ ExportOf(p)
  BY DEF ShutDown, ExportOf, providers
<1>3. Counted' /\ CountsStep
  BY <1>2, QuietCounts, ExportCounts
<1>4. TypeOK'
  <2>1. phase' \in Phase /\ step' \in 0 .. 4 /\ alive' \subseteq Provider
    BY <1>1, <1>2 DEF Phase, Shaped
  <2>2. Shaped'
    BY <1>1, <1>2, <2>1 DEF Shaped
  <2> QED
    BY <2>2, <1>3, TypeJoin
<1>5. GuardInv'
  <2>1. phase' \notin Early \union {"serving", "exited"}
    BY DEF Early
  <2>2. alive' \subseteq guard' /\ step' \in 1 .. 4
    BY <1>1, <1>2 DEF IInv, GuardInv
  <2>3. phase' = "drop" => \A k \in 1 .. 3 : k < step' => Order[k] \notin alive'
    <3>1. CASE step' = 1
      <4>1. \A k \in 1 .. 3 : ~(k < 1)
        OBVIOUS
      <4> QED
        BY <3>1, <4>1
    <3>2. CASE phase' = phase /\ step' = step + 1
      <4>1. \A k \in 1 .. 3 : k < step + 1 => k < step \/ k = step
        OBVIOUS
      <4>2. phase = "drop" => \A k \in 1 .. 3 : k < step => Order[k] \notin alive'
        BY <1>2 DEF IInv, GuardInv
      <4>3. phase = "drop" => p \notin alive'
        BY <1>2
      <4> QED
        BY <3>2, <4>1, <4>2, <4>3
    <3> QED
      BY <3>1, <3>2
  <2> QED
    BY <2>1, <2>2, <2>3 DEF GuardInv
<1>6. RecordsInv'
  <2>1. /\ outages = 0 => lost' = lost
        /\ \A q \in Provider : buffered'[q] \in Nat /\ buffered[q] \in Nat /\ buffered'[q] <= buffered[q]
    <3>1. CASE UNCHANGED records
      BY <3>1, TypeFacts DEF IInv, records
    <3>2. CASE ExportOf(p)
      BY <3>2, TypeFacts, ExportFacts DEF IInv
    <3> QED
      BY <1>2, <3>1, <3>2
  <2>2. \A q \in Provider : buffered[q] = 0 => buffered'[q] = 0
    BY <2>1
  <2>3. \A q \in Provider : buffered'[q] > 0 => buffered[q] > 0
    BY <2>1
  <2>4. guard \subseteq Provider /\ alive \subseteq guard
    BY <1>1 DEF Shaped, IInv, GuardInv
  <2>5. outages' = 0 => collector' = TRUE /\ \A q \in Provider : lost'[q] = 0
    BY <1>1, <2>1 DEF IInv, RecordsInv
  <2>6. \A q \in Provider \ (alive' \union guard') : buffered'[q] = 0
    BY <1>1, <2>2, <2>4 DEF IInv, RecordsInv
  <2>7. ASSUME NEW q \in guard' \ alive'
        PROVE  /\ outages' = 0 => buffered'[q] = 0
               /\ buffered'[q] > 0 => failed' = TRUE \/ warned' = TRUE
    <3>1. q \in Provider /\ q \in guard
      BY <1>1, <2>4
    <3>2. CASE q \notin alive
      BY <1>1, <2>2, <2>3, <3>1, <3>2 DEF IInv, RecordsInv
    <3>3. CASE q \in alive
      <4>1. q = p /\ ShutDown(p) /\ ExportOf(p) /\ p \in guard
        BY <1>2, <2>7, <3>1, <3>3
      <4>2. Exportable(p) => buffered'[p] = 0
        BY <4>1, ExportFacts
      <4>3. outages = 0 => Exportable(p)
        BY <4>1, ExportFacts
      <4>4. buffered'[p] \in Nat /\ ~(0 > 0)
        BY <2>1
      <4> QED
        BY <1>1, <4>1, <4>2, <4>3, <4>4
    <3> QED
      BY <3>2, <3>3
  <2> QED
    BY <2>5, <2>6, <2>7 DEF RecordsInv
<1>7. FlushInv'
  BY <1>1, <1>3, FlushKept
<1> QED
  BY <1>4, <1>5, <1>6, <1>7 DEF IInv

LEMMA ExitStep ==
    ASSUME IInv, ShutdownStep \/ DropStep
    PROVE  IInv'
<1>1. step \in 1 .. 3 /\ phase \in {"shutdown", "drop"}
  BY OrderFacts DEF ShutdownStep, DropStep
<1>2. PICK p \in Provider : p = Order[step]
  BY <1>1, OrderFacts
<1>3. Shaped /\ UNCHANGED <<config, world, db, flush>>
  BY TypeSplit DEF IInv, ShutdownStep, DropStep
<1>4. phase \in {"shutdown", "drop"} => alive \subseteq guard
  BY DEF IInv, GuardInv
<1>5. failed \in BOOLEAN /\ warned \in BOOLEAN
  BY <1>3 DEF Shaped
<1>6. ShutDown(p) => guard' = guard
  BY DEF ShutDown
<1>7. CASE ShutdownStep
  <2>1. /\ phase = "shutdown" /\ warned' = warned
        /\ \/ p \notin guard /\ step' = step + 1 /\ UNCHANGED <<phase, failed, providers, records>>
           \/ p \in guard /\ Exportable(p) /\ ShutDown(p) /\ step' = step + 1
              /\ UNCHANGED <<phase, failed>>
           \/ p \in guard /\ ~ Exportable(p) /\ ShutDown(p)
              /\ failed' = TRUE /\ phase' = "drop" /\ step' = 1
    BY <1>2, <1>7 DEF ShutdownStep
  <2>2. failed' \in BOOLEAN /\ warned' \in BOOLEAN /\ (failed = TRUE => failed' = TRUE)
    BY <1>5, <2>1
  <2>3. \/ UNCHANGED <<providers, records>> /\ (p \in alive => phase = "shutdown")
        \/ ShutDown(p) /\ guard' = guard
    BY <1>6, <2>1
  <2>4. (phase' = phase /\ step' = step + 1) \/ (phase' = "drop" /\ step' = 1)
    BY <2>1
  <2>5. ShutDown(p) /\ p \in guard /\ ~Exportable(p) => failed' = TRUE \/ warned' = TRUE
    BY <2>1
  <2> QED
    BY <1>1, <1>2, <1>3, <2>1, <2>2, <2>3, <2>4, <2>5, TurnStep
<1>8. CASE DropStep
  <2>1. /\ phase = "drop" /\ phase' = phase /\ failed' = failed /\ step' = step + 1
        /\ \/ p \notin guard /\ UNCHANGED <<warned, providers, records>>
           \/ p \in guard \intersect alive /\ ShutDown(p)
              /\ warned' = (warned \/ ~ Exportable(p))
           \/ p \in guard \ alive /\ warned' = TRUE /\ UNCHANGED <<providers, records>>
    BY <1>2, <1>8 DEF DropStep
  <2>2. failed' \in BOOLEAN /\ warned' \in BOOLEAN /\ (warned = TRUE => warned' = TRUE)
    BY <1>5, <2>1
  <2>3. \/ UNCHANGED <<providers, records>> /\ (p \in alive => phase = "shutdown")
        \/ ShutDown(p) /\ guard' = guard
    BY <1>4, <1>6, <2>1
  <2>5. ShutDown(p) /\ p \in guard /\ ~Exportable(p) => failed' = TRUE \/ warned' = TRUE
    BY <1>6, <2>1 DEF ShutDown
  <2> QED
    BY <1>1, <1>2, <1>3, <2>1, <2>2, <2>3, <2>5, TurnStep
<1> QED
  BY <1>7, <1>8

LEMMA StutterStep ==
    ASSUME IInv, UNCHANGED vars
    PROVE  IInv'
<1>1. UNCHANGED <<phase, config, installed, guard, alive, recorded, buffered, lost, collector,
                  outages, database, bound, firstQuery, step, failed, warned, flush>>
  BY DEF vars, providers, records, world, db, exit
<1>2. TypeOK'
  BY <1>1 DEF IInv, TypeOK
<1>3. GuardInv'
  BY <1>1 DEF IInv, GuardInv
<1>4. RecordsInv'
  BY <1>1 DEF IInv, RecordsInv
<1>5. FlushInv'
  BY <1>1 DEF IInv, FlushInv, Flushed
<1> QED
  BY <1>2, <1>3, <1>4, <1>5 DEF IInv

-----------------------------------------------------------------------------
(* The invariant holds of every behaviour, whatever is recorded, however often  *)
(* the collector goes down and the telemetry is flushed.                       *)
THEOREM InvCorrect == Spec => []IInv
<1>1. IInv /\ [Next]_vars => IInv'
  <2> SUFFICES ASSUME IInv, [Next]_vars PROVE IInv'
    OBVIOUS
  <2>1. CallRun \/ FailToBuild \/ BuildMeter \/ BuildTracer \/ BuildLogger => IInv'
    BY BuildStep
  <2>2. \A p \in Provider : Emit(p) => IInv'
    BY EmitStep
  <2>3. \A p \in Provider : ExportBatch(p) => IInv'
    BY ExportStep
  <2>4. Query => IInv'
    BY QueryStep
  <2>5. OpenDatabase \/ CollectorFails \/ CollectorRecovers => IInv'
    BY WorldStep
  <2>6. StartFlush \/ FlushReturns => IInv'
    BY FlushCalls
  <2>7. FlushProvider => IInv'
    BY FlushStep
  <2>8. Finish \/ ShutdownReturns \/ Dropped => IInv'
    BY EndStep
  <2>9. ShutdownStep \/ DropStep => IInv'
    BY ExitStep
  <2>10. UNCHANGED vars => IInv'
    BY StutterStep
  <2> QED
    BY <2>1, <2>2, <2>3, <2>4, <2>5, <2>6, <2>7, <2>8, <2>9, <2>10 DEF Next
<1> QED
  BY <1>1, InitInv, PTL DEF Spec

(* The state has the types of the program's, and no record is counted twice.   *)
THEOREM TypeCorrect == Spec => []TypeOK
<1>1. IInv => TypeOK
  BY DEF IInv
<1> QED
  BY <1>1, InvCorrect, PTL

(* Whichever shutdown fails and wherever run() ends, nothing that was handed to *)
(* the guard is left running when it has been dropped.                        *)
THEOREM EveryProviderShutHolds == Spec => []EveryProviderShut
<1>1. IInv => EveryProviderShut
  BY DEF IInv, GuardInv, EveryProviderShut
<1> QED
  BY <1>1, InvCorrect, PTL

(* Nothing recorded is left behind without an outage, and no metric without a  *)
(* word.                                                                   *)
THEOREM NothingLeftSilentlyHolds == Spec => []NothingLeftSilently
<1>1. IInv => NothingLeftSilently
  <2> SUFFICES ASSUME IInv, phase = "exited", guard # {}
               PROVE  /\ outages = 0 => \A p \in Provider : buffered[p] = 0 /\ lost[p] = 0
                      /\ (\E p \in guard : buffered[p] > 0) => failed \/ warned
    BY DEF NothingLeftSilently
  <2>1. alive = {}
    BY DEF IInv, GuardInv
  <2> QED
    BY <2>1 DEF IInv, RecordsInv
<1> QED
  BY <1>1, InvCorrect, PTL

(* A flush that returned Ok left nothing of what was recorded before it,        *)
(* whatever was recorded and exported while it ran.                           *)
THEOREM FlushedMeansFlushedHolds == Spec => []FlushedMeansFlushed
<1>1. IInv => FlushedMeansFlushed
  BY DEF IInv, FlushInv, Flushed, FlushedMeansFlushed
<1> QED
  BY <1>1, InvCorrect, PTL
=============================================================================
