--------------------------- MODULE HttpServerProofs ---------------------------
(***************************************************************************)
(* What the middleware stack promises to any number of requests of any      *)
(* kinds, under every way run() is called.                                  *)
(***************************************************************************)
EXTENDS HttpServer, FiniteSetTheorems, TLAPS

-----------------------------------------------------------------------------
(* The stack, with its positions as numbers.                                  *)

LEMMA MaxIs ==
    ASSUME NEW S \in SUBSET Int, NEW v \in S, \A y \in S : v >= y
    PROVE  Max(S) = v
<1>1. \E x \in S : \A y \in S : x >= y
  OBVIOUS
<1>2. Max(S) \in S /\ \A y \in S : Max(S) >= y
  BY <1>1, Zenon DEF Max
<1>3. Max(S) \in Int /\ v \in Int
  BY <1>2
<1>4. Max(S) >= v /\ v >= Max(S)
  BY <1>2
<1> QED
  BY <1>3, <1>4

LEMMA MinIs ==
    ASSUME NEW S \in SUBSET Int, NEW v \in S, \A y \in S : v =< y
    PROVE  Min(S) = v
<1>1. \E x \in S : \A y \in S : x =< y
  OBVIOUS
<1>2. Min(S) \in S /\ \A y \in S : Min(S) =< y
  BY <1>1, Zenon DEF Min
<1>3. Min(S) \in Int /\ v \in Int
  BY <1>2
<1>4. Min(S) =< v /\ v =< Min(S)
  BY <1>2
<1> QED
  BY <1>3, <1>4

LEMMA LayersFacts ==
    /\ Len(Layers) = 14 /\ DOMAIN Layers = 1 .. 14 /\ Outside = 15
    /\ Layers[1] = "handler" /\ Layers[2] = "metrics" /\ Layers[3] = "timeout"
    /\ Layers[4] = "httpLog" /\ Layers[5] = "trace" /\ Layers[6] = "errorLog"
    /\ Layers[7] = "catchPanic" /\ Layers[8] = "setId" /\ Layers[9] = "propagateId"
    /\ Layers[10] = "bodyLimit" /\ Layers[11] = "hook" /\ Layers[12] = "authorization"
    /\ Layers[13] = "headers" /\ Layers[14] = "cors"
BY DEF Layers, Outside

LEMMA Fourteen ==
    \A i \in 1 .. 14 :
       \/ i = 1 \/ i = 2 \/ i = 3 \/ i = 4 \/ i = 5 \/ i = 6 \/ i = 7
       \/ i = 8 \/ i = 9 \/ i = 10 \/ i = 11 \/ i = 12 \/ i = 13 \/ i = 14
OBVIOUS

(* Each name has its place, and four places may be empty.                     *)
LEMMA PlaceFacts ==
    /\ \A i \in 1 .. 14 :
          /\ Layers[i] = "handler" => i = 1
          /\ Layers[i] = "metrics" => i = 2
          /\ Layers[i] = "timeout" => i = 3
          /\ Layers[i] = "httpLog" => i = 4
          /\ Layers[i] = "trace" => i = 5
          /\ Layers[i] = "errorLog" => i = 6
          /\ Layers[i] = "catchPanic" => i = 7
          /\ Layers[i] = "setId" => i = 8
          /\ Layers[i] = "propagateId" => i = 9
          /\ Layers[i] = "bodyLimit" => i = 10
          /\ Layers[i] = "hook" => i = 11
          /\ Layers[i] = "authorization" => i = 12
          /\ Layers[i] = "headers" => i = 13
          /\ Layers[i] = "cors" => i = 14
    /\ \A i \in 1 .. 14 :
          Present(Layers[i]) <=>
             /\ i = 2 => config.metrics
             /\ i = 4 => config.httpLogging
             /\ i = 11 => config.hook
             /\ i = 12 => config.authorization
<1>1. ASSUME NEW i \in 1 .. 14
      PROVE  /\ Layers[i] = "handler" => i = 1
             /\ Layers[i] = "metrics" => i = 2
             /\ Layers[i] = "timeout" => i = 3
             /\ Layers[i] = "httpLog" => i = 4
             /\ Layers[i] = "trace" => i = 5
             /\ Layers[i] = "errorLog" => i = 6
             /\ Layers[i] = "catchPanic" => i = 7
             /\ Layers[i] = "setId" => i = 8
             /\ Layers[i] = "propagateId" => i = 9
             /\ Layers[i] = "bodyLimit" => i = 10
             /\ Layers[i] = "hook" => i = 11
             /\ Layers[i] = "authorization" => i = 12
             /\ Layers[i] = "headers" => i = 13
             /\ Layers[i] = "cors" => i = 14
  BY LayersFacts, Fourteen
<1>2. \A i \in 1 .. 14 : Layers[i] \in Range(Layers)
  BY LayersFacts DEF Range
<1> QED
  BY <1>1, <1>2, LayersFacts DEF Present

LEMMA PositionFacts ==
    /\ Position("handler") = 1 /\ Position("metrics") = 2 /\ Position("timeout") = 3
    /\ Position("httpLog") = 4 /\ Position("trace") = 5 /\ Position("errorLog") = 6
    /\ Position("catchPanic") = 7 /\ Position("bodyLimit") = 10
BY LayersFacts, PlaceFacts DEF Position

LEMMA InnerIs ==
    ASSUME NEW i \in 2 .. 15, NEW v \in 1 .. i - 1, Present(Layers[v]),
           \A j \in v + 1 .. i - 1 : ~ Present(Layers[j])
    PROVE  Inner(i) = v
<1> DEFINE S == {j \in 1 .. i - 1 : Present(Layers[j])}
<1>1. S \in SUBSET Int /\ v \in S
  OBVIOUS
<1>2. \A y \in S : v >= y
  OBVIOUS
<1> QED
  BY <1>1, <1>2, MaxIs DEF Inner

LEMMA OuterIs ==
    ASSUME NEW i \in 1 .. 14, NEW v \in i + 1 .. 15, v = 15 \/ Present(Layers[v]),
           \A j \in i + 1 .. v - 1 : ~ Present(Layers[j])
    PROVE  Outer(i) = v
<1> DEFINE S == {j \in i + 1 .. Outside : j = Outside \/ Present(Layers[j])}
<1>1. S \in SUBSET Int /\ v \in S
  BY LayersFacts
<1>2. \A y \in S : v =< y
  BY LayersFacts
<1> QED
  BY <1>1, <1>2, MinIs DEF Outer

LEMMA InnerTable ==
    /\ Inner(2) = 1 /\ Inner(4) = 3 /\ Inner(6) = 5 /\ Inner(7) = 6 /\ Inner(8) = 7
    /\ Inner(9) = 8 /\ Inner(10) = 9 /\ Inner(11) = 10 /\ Inner(14) = 13 /\ Inner(15) = 14
    /\ Inner(3) = IF config.metrics THEN 2 ELSE 1
    /\ Inner(5) = IF config.httpLogging THEN 4 ELSE 3
    /\ Inner(12) = IF config.hook THEN 11 ELSE 10
    /\ Inner(13) = IF config.authorization THEN 12 ELSE IF config.hook THEN 11 ELSE 10
<1>1. /\ Inner(2) = 1 /\ Inner(4) = 3 /\ Inner(6) = 5 /\ Inner(7) = 6 /\ Inner(8) = 7
      /\ Inner(9) = 8 /\ Inner(10) = 9 /\ Inner(11) = 10 /\ Inner(14) = 13 /\ Inner(15) = 14
  BY InnerIs, PlaceFacts
<1>2. Inner(3) = IF config.metrics THEN 2 ELSE 1
  BY InnerIs, PlaceFacts
<1>3. Inner(5) = IF config.httpLogging THEN 4 ELSE 3
  BY InnerIs, PlaceFacts
<1>4. Inner(12) = IF config.hook THEN 11 ELSE 10
  BY InnerIs, PlaceFacts
<1>5. Inner(13) = IF config.authorization THEN 12 ELSE IF config.hook THEN 11 ELSE 10
  BY InnerIs, PlaceFacts
<1> QED
  BY <1>1, <1>2, <1>3, <1>4, <1>5

LEMMA OuterTable ==
    /\ Outer(2) = 3 /\ Outer(4) = 5 /\ Outer(5) = 6 /\ Outer(6) = 7 /\ Outer(7) = 8
    /\ Outer(8) = 9 /\ Outer(9) = 10 /\ Outer(12) = 13 /\ Outer(13) = 14 /\ Outer(14) = 15
    /\ Outer(1) = IF config.metrics THEN 2 ELSE 3
    /\ Outer(3) = IF config.httpLogging THEN 4 ELSE 5
    /\ Outer(11) = IF config.authorization THEN 12 ELSE 13
    /\ Outer(10) = IF config.hook THEN 11 ELSE IF config.authorization THEN 12 ELSE 13
<1>1. /\ Outer(2) = 3 /\ Outer(4) = 5 /\ Outer(5) = 6 /\ Outer(6) = 7 /\ Outer(7) = 8
      /\ Outer(8) = 9 /\ Outer(9) = 10 /\ Outer(12) = 13 /\ Outer(13) = 14 /\ Outer(14) = 15
  BY OuterIs, PlaceFacts
<1>2. Outer(1) = IF config.metrics THEN 2 ELSE 3
  BY OuterIs, PlaceFacts
<1>3. Outer(3) = IF config.httpLogging THEN 4 ELSE 5
  BY OuterIs, PlaceFacts
<1>4. Outer(11) = IF config.authorization THEN 12 ELSE 13
  BY OuterIs, PlaceFacts
<1>5. Outer(10) = IF config.hook THEN 11 ELSE IF config.authorization THEN 12 ELSE 13
  BY OuterIs, PlaceFacts
<1> QED
  BY <1>1, <1>2, <1>3, <1>4, <1>5

-----------------------------------------------------------------------------
(* The inductive invariant.  For one request: where it is (a, d), what it is   *)
(* (k), its response so far (ans) and what was done for it (m) fit together,   *)
(* whatever layers are configured (c).                                       *)

Dir == {"unsent", "down", "up", "sending", "sent", "aborted"}
Out == {"sending", "sent"}

PlaceOf(c, a, d) ==
    /\ d \in {"down", "up"} <=> a # 15
    /\ a = 2 => c.metrics
    /\ a = 4 => c.httpLogging
    /\ a = 11 => c.hook
    /\ a = 12 => c.authorization

ResponseOf(a, d, ans) ==
    /\ d = "up" \/ d \in Out => ans.status # 0
    /\ (d = "up" /\ a = 14) \/ d \in Out => ans.by = "cors" \/ ans.hardened = TRUE

(* Nothing is marked before the layer that does it.                           *)
BeforeOf(a, d, m) ==
    d \in {"unsent", "down"} =>
        /\ m \intersect {"returned", "failed", "panicked", "timedOut", "left", "logged"} = {}
        /\ a # 1 => "counted" \notin m

AuthorizedOf(c, a, m) ==
    c.authorization /\ ("hooked" \in m \/ a < 12) => "authorized" \in m

PanicOf(d, ans, m) ==
    /\ d = "aborted" => "left" \in m \/ "outerPanicked" \in m
    /\ "panicked" \in m /\ (d = "up" \/ d \in Out) => ans.status = 500 \/ ans.by = "hook"

(* httpLog stands at 4.                                                      *)
LogOf(c, a, d, m) ==
    /\ "logged" \in m => "traced" \in m
    /\ d = "up" /\ a <= 4 => ("returned" \in m \/ "timedOut" \in m) /\ "logged" \notin m
    /\ c.httpLogging /\ ((d = "up" /\ a > 4) \/ d \in Out) =>
           ("logged" \in m <=> "returned" \in m \/ "timedOut" \in m)

(* errorLog stands at 6, setId at 8, propagateId at 9.                         *)
IdOf(a, d, k, ans, m) ==
    /\ a < 8 => "id" \in m
    /\ a < 6 \/ (a = 6 /\ d = "up") => "loggedId" \in m
    /\ "failed" \in m =>
          \/ d = "up" /\ a <= 6 /\ ans.apiError = TRUE
          \/ "errorLogged" \in m /\ "loggedId" \in m
    /\ k.id /\ a < 9 => "echoId" \in m
    /\ d = "up" /\ a <= 9 /\ k.id => "echoId" \in m
    /\ (d = "up" /\ a > 9) \/ d \in Out =>
          (k.id /\ ans.by \in {"handler", "timeout", "catchPanic"} => ans.id = TRUE)

(* metrics stands at 2.                                                      *)
CountOf(c, a, d, k, m) ==
    /\ "counted" \in m => c.metrics /\ k.type # "unmatched"
    /\ a = 1 \/ (a = 2 /\ d = "up") => (c.metrics /\ k.type # "unmatched" => "counted" \in m)
    /\ d = "up" /\ a <= 2 => "returned" \in m
    /\ "counted" \in m /\ "returned" \notin m /\ d # "down" =>
           "panicked" \in m \/ "timedOut" \in m \/ "left" \in m

Sound(c, a, d, k, ans, m) ==
    /\ PlaceOf(c, a, d)
    /\ ResponseOf(a, d, ans)
    /\ BeforeOf(a, d, m)
    /\ AuthorizedOf(c, a, m)
    /\ PanicOf(d, ans, m)
    /\ LogOf(c, a, d, m)
    /\ IdOf(a, d, k, ans, m)
    /\ CountOf(c, a, d, k, m)

Sorted ==
    /\ config \in Configs
    /\ at \in [Requests -> 1 .. 15] /\ dir \in [Requests -> Dir]
    /\ kind \in [Requests -> Kinds]
    /\ answer \in [Requests -> Answer] /\ marks \in [Requests -> SUBSET Mark]

RequestsInv ==
    /\ Sorted
    /\ \A r \in Requests : Sound(config, at[r], dir[r], kind[r], answer[r], marks[r])

(* The requests the gauge counts: those inside the middleware and those it     *)
(* never saw come back.                                                     *)
Holds(a, d, m) == "counted" \in m /\ ("returned" \notin m \/ (d = "up" /\ a <= 2))
Held == {r \in Requests : Holds(at[r], dir[r], marks[r])}

GaugeInv == gauge = Cardinality(Held)

RunInv ==
    /\ phase \in Phase /\ otel \in {"none", "live", "shut"}
    /\ phase \in {"start", "initialized", "routed", "killed"} =>
           \A r \in Requests : dir[r] = "unsent"
    /\ phase \in {"drained", "exited"} => \A r \in Requests : Idle(r)
    /\ otel = "shut" => phase = "exited"
    /\ phase = "exited" => otel # "live"

IInv ==
    /\ RequestsInv
    /\ GaugeInv
    /\ RunInv

-----------------------------------------------------------------------------
LEMMA ConfigFacts ==
    ASSUME Sorted
    PROVE  /\ config.metrics \in BOOLEAN /\ config.httpLogging \in BOOLEAN
           /\ config.authorization \in BOOLEAN /\ config.hook \in BOOLEAN
           /\ \A r \in Requests : kind[r].id \in BOOLEAN /\ kind[r] \in Kind
BY ConfigsAssumption, RequestsAssumption DEF Sorted, Config, Kind

LEMMA HeldFinite == IsFiniteSet(Held) /\ Cardinality(Held) \in 0 .. Cardinality(Requests)
<1>1. Held \in SUBSET Requests
  BY DEF Held
<1>2. IsFiniteSet(Held) /\ Cardinality(Held) <= Cardinality(Requests)
  BY <1>1, RequestsAssumption, FS_Subset
<1>3. Cardinality(Held) \in Nat /\ Cardinality(Requests) \in Nat
  BY <1>2, RequestsAssumption, FS_CardinalityType
<1> QED
  BY <1>2, <1>3

(* A request that moves keeps the others as they are, and the gauge follows    *)
(* when it says whether the request is held.                                 *)
Counts(held, holds) ==
    gauge' = IF held = holds THEN gauge ELSE IF holds THEN gauge + 1 ELSE gauge - 1

LEMMA Moved ==
    ASSUME IInv, NEW r \in Requests,
           NEW a \in 1 .. 15, NEW d \in Dir, NEW ans \in Answer, NEW m \in SUBSET Mark,
           Sound(config, a, d, kind[r], ans, m),
           at' = [at EXCEPT ![r] = a], dir' = [dir EXCEPT ![r] = d],
           answer' = [answer EXCEPT ![r] = ans], marks' = [marks EXCEPT ![r] = m],
           UNCHANGED <<phase, otel, config, kind>>,
           dir[r] \notin {"sent", "aborted"}, dir[r] = "unsent" => phase = "serving",
           Counts(Holds(at[r], dir[r], marks[r]), Holds(a, d, m))
    PROVE  IInv'
<1>1. Sorted
  BY DEF IInv, RequestsInv
<1>2. /\ at' \in [Requests -> 1 .. 15] /\ dir' \in [Requests -> Dir]
      /\ answer' \in [Requests -> Answer] /\ marks' \in [Requests -> SUBSET Mark]
      /\ at'[r] = a /\ dir'[r] = d /\ answer'[r] = ans /\ marks'[r] = m
      /\ \A q \in Requests : q # r =>
            at'[q] = at[q] /\ dir'[q] = dir[q] /\ answer'[q] = answer[q] /\ marks'[q] = marks[q]
  BY <1>1 DEF Sorted
<1>3. RequestsInv'
  <2>1. Sorted'
    BY <1>1, <1>2 DEF Sorted
  <2>2. ASSUME NEW q \in Requests
        PROVE  Sound(config', at'[q], dir'[q], kind'[q], answer'[q], marks'[q])
    <3>1. CASE q = r
      BY <1>2, <3>1
    <3>2. CASE q # r
      BY <1>2, <3>2 DEF IInv, RequestsInv
    <3> QED
      BY <3>1, <3>2
  <2> QED
    BY <2>1, <2>2 DEF RequestsInv
<1>4. GaugeInv'
  <2>1. IsFiniteSet(Held) /\ gauge = Cardinality(Held) /\ gauge \in Nat
    BY HeldFinite DEF IInv, GaugeInv
  <2>2. r \in Held <=> Holds(at[r], dir[r], marks[r])
    BY DEF Held
  <2>3. \A q \in Requests : q # r =>
           (Holds(at'[q], dir'[q], marks'[q]) <=> Holds(at[q], dir[q], marks[q]))
    BY <1>2
  <2>4. CASE Holds(a, d, m)
    <3>1. Held' = Held \union {r}
      BY <1>2, <2>3, <2>4 DEF Held
    <3>2. Cardinality(Held') = IF r \in Held THEN Cardinality(Held) ELSE Cardinality(Held) + 1
      BY <2>1, <3>1, FS_AddElement
    <3>3. Holds(at[r], dir[r], marks[r]) \in BOOLEAN /\ Holds(a, d, m) = TRUE
      BY <2>4 DEF Holds
    <3> QED
      BY <2>1, <2>2, <3>2, <3>3 DEF GaugeInv, Counts
  <2>5. CASE ~ Holds(a, d, m)
    <3>1. Held' = Held \ {r}
      BY <1>2, <2>3, <2>5 DEF Held
    <3>2. Cardinality(Held') = IF r \in Held THEN Cardinality(Held) - 1 ELSE Cardinality(Held)
      BY <2>1, <3>1, FS_RemoveElement
    <3>3. Holds(at[r], dir[r], marks[r]) \in BOOLEAN /\ Holds(a, d, m) = FALSE
      BY <2>5 DEF Holds
    <3> QED
      BY <2>1, <2>2, <3>2, <3>3 DEF GaugeInv, Counts
  <2> QED
    BY <2>4, <2>5
<1>5. RunInv'
  <2>1. phase \notin {"start", "initialized", "routed", "killed", "drained", "exited"}
    BY DEF IInv, RunInv, Idle
  <2> QED
    BY <2>1 DEF IInv, RunInv
<1> QED
  BY <1>3, <1>4, <1>5 DEF IInv

LEMMA InitInv == Init => IInv
<1> SUFFICES ASSUME Init PROVE IInv
  OBVIOUS
<1>1. NoAnswer \in Answer
  BY DEF NoAnswer, Answer
<1>2. Sorted
  BY <1>1, LayersFacts DEF Init, Sorted, Dir
<1>3. ASSUME NEW r \in Requests
      PROVE  Sound(config, at[r], dir[r], kind[r], answer[r], marks[r])
  <2>1. at[r] = 15 /\ dir[r] = "unsent" /\ marks[r] = {}
    BY LayersFacts DEF Init
  <2> QED
    BY <2>1 DEF Sound, PlaceOf, ResponseOf, BeforeOf, AuthorizedOf, PanicOf, LogOf, IdOf, CountOf, Out
<1>4. GaugeInv
  <2>1. Held = {}
    BY DEF Init, Held, Holds
  <2> QED
    BY <2>1, FS_EmptySet DEF Init, GaugeInv
<1>5. RunInv
  BY DEF Init, RunInv, Phase
<1> QED
  BY <1>2, <1>3, <1>4, <1>5 DEF IInv, RequestsInv

-----------------------------------------------------------------------------
(* The ways a request moves.                                               *)

LEMMA Descended ==
    ASSUME IInv, NEW r \in Requests, dir[r] = "down", NEW a \in 1 .. 15, a = Inner(at[r]),
           NEW noted \in SUBSET Mark, Descend(r, noted),
           Sound(config, a, "down", kind[r], answer[r], marks[r] \union noted),
           Counts(Holds(at[r], "down", marks[r]), Holds(a, "down", marks[r] \union noted))
    PROVE  IInv'
<1>1. Sorted
  BY DEF IInv, RequestsInv
<1>2. /\ at' = [at EXCEPT ![r] = a] /\ dir' = [dir EXCEPT ![r] = "down"]
      /\ answer' = [answer EXCEPT ![r] = answer[r]]
      /\ marks' = [marks EXCEPT ![r] = marks[r] \union noted]
      /\ UNCHANGED <<phase, otel, config, kind>>
  BY <1>1 DEF Descend, Sorted
<1>3. answer[r] \in Answer /\ marks[r] \union noted \in SUBSET Mark /\ "down" \in Dir
  BY <1>1 DEF Sorted, Dir
<1> QED
  BY <1>2, <1>3, Moved

LEMMA Returned ==
    ASSUME IInv, NEW r \in Requests, dir[r] \in {"down", "up"},
           NEW from \in 1 .. 14, NEW a \in 1 .. 15, a = Outer(from),
           NEW d, d = IF a = 15 THEN "sending" ELSE "up",
           NEW ans \in Answer, NEW noted \in SUBSET Mark, Return(r, from, ans, noted),
           Sound(config, a, d, kind[r], ans, marks[r] \union noted),
           Counts(Holds(at[r], dir[r], marks[r]), Holds(a, d, marks[r] \union noted))
    PROVE  IInv'
<1>1. Sorted
  BY DEF IInv, RequestsInv
<1>2. /\ at' = [at EXCEPT ![r] = a] /\ dir' = [dir EXCEPT ![r] = d]
      /\ answer' = [answer EXCEPT ![r] = ans]
      /\ marks' = [marks EXCEPT ![r] = marks[r] \union noted]
      /\ UNCHANGED <<phase, otel, config, kind>>
  BY <1>1, LayersFacts DEF Return, Sorted
<1>3. marks[r] \union noted \in SUBSET Mark /\ d \in Dir
  BY <1>1 DEF Sorted, Dir
<1> QED
  BY <1>2, <1>3, Moved

(* A future that is dropped leaves its request held, if it was.                *)
LEMMA Aborted ==
    ASSUME IInv, NEW r \in Requests, dir[r] \in {"down", "up", "sending"},
           NEW noted \in SUBSET Mark, Abort(r, noted),
           at[r] \in {1, 11, 12, 15}, at[r] = 1 => dir[r] = "down",
           \/ noted = {"left"}
           \/ /\ at[r] \in {11, 12} /\ "outerPanicked" \in noted
              /\ noted \subseteq {"hooked", "outerPanicked"}
              /\ "hooked" \in noted => at[r] = 11
    PROVE  IInv'
<1>1. Sorted /\ Sound(config, at[r], dir[r], kind[r], answer[r], marks[r])
  BY DEF IInv, RequestsInv
<1>2. /\ at' = [at EXCEPT ![r] = 15] /\ dir' = [dir EXCEPT ![r] = "aborted"]
      /\ answer' = [answer EXCEPT ![r] = answer[r]]
      /\ marks' = [marks EXCEPT ![r] = marks[r] \union noted]
      /\ UNCHANGED <<phase, otel, config, kind>> /\ gauge' = gauge
  BY <1>1, LayersFacts DEF Abort, Sorted
<1>3. marks[r] \union noted \in SUBSET Mark /\ "aborted" \in Dir /\ answer[r] \in Answer
      /\ 15 \in 1 .. 15 /\ dir[r] \notin {"sent", "aborted", "unsent"}
  BY <1>1 DEF Sorted, Dir
<1>4. Sound(config, 15, "aborted", kind[r], answer[r], marks[r] \union noted)
  <2> DEFINE m == marks[r] \union noted
  <2>1. PlaceOf(config, 15, "aborted") /\ ResponseOf(15, "aborted", answer[r]) /\ BeforeOf(15, "aborted", m)
    BY DEF PlaceOf, ResponseOf, BeforeOf, Out
  <2>2. AuthorizedOf(config, 15, m)
    BY <1>1 DEF Sound, AuthorizedOf
  <2>3. PanicOf("aborted", answer[r], m)
    BY DEF PanicOf, Out
  <2>4. LogOf(config, 15, "aborted", m)
    BY <1>1 DEF Sound, LogOf, Out
  <2>5. IdOf(15, "aborted", kind[r], answer[r], m)
    BY <1>1 DEF Sound, IdOf, BeforeOf, Out
  <2>6. CountOf(config, 15, "aborted", kind[r], m)
    BY <1>1 DEF Sound, CountOf, BeforeOf
  <2> QED
    BY <2>1, <2>2, <2>3, <2>4, <2>5, <2>6 DEF Sound
<1>5. Counts(Holds(at[r], dir[r], marks[r]), Holds(15, "aborted", marks[r] \union noted))
  <2>1. Holds(at[r], dir[r], marks[r]) = Holds(15, "aborted", marks[r] \union noted)
    BY <1>1 DEF Sound, Holds, BeforeOf
  <2> QED
    BY <1>2, <2>1 DEF Counts
<1> DEFINE m == marks[r] \union noted
<1>6. marks' = [marks EXCEPT ![r] = m] /\ m \in SUBSET Mark
      /\ Sound(config, 15, "aborted", kind[r], answer[r], m)
      /\ Counts(Holds(at[r], dir[r], marks[r]), Holds(15, "aborted", m))
  BY <1>2, <1>3, <1>4, <1>5
<1> HIDE DEF m
<1> QED
  BY <1>2, <1>3, <1>6, Moved

-----------------------------------------------------------------------------
(* The layers on the way in.                                               *)

LEMMA Standing ==
    ASSUME IInv, NEW r \in Requests
    PROVE  /\ Sorted /\ Sound(config, at[r], dir[r], kind[r], answer[r], marks[r])
           /\ at[r] \in 1 .. 15 /\ marks[r] \in SUBSET Mark /\ answer[r] \in Answer
           /\ config.metrics \in BOOLEAN /\ config.httpLogging \in BOOLEAN
           /\ config.authorization \in BOOLEAN /\ config.hook \in BOOLEAN
           /\ kind[r] \in Kind /\ kind[r].id \in BOOLEAN
           /\ \A layer : Here(r, layer) =>
                 /\ at[r] \in 1 .. 14 /\ Layers[at[r]] = layer /\ dir[r] \in {"down", "up"}
<1>1. Sorted /\ Sound(config, at[r], dir[r], kind[r], answer[r], marks[r])
  BY DEF IInv, RequestsInv
<1>2. at[r] \in 1 .. 15 /\ marks[r] \in SUBSET Mark /\ answer[r] \in Answer
  BY <1>1 DEF Sorted
<1>3. ASSUME NEW layer, Here(r, layer)
      PROVE  at[r] \in 1 .. 14 /\ Layers[at[r]] = layer /\ dir[r] \in {"down", "up"}
  BY <1>2, <1>3, LayersFacts DEF Here, InProgress
<1> QED
  BY <1>1, <1>2, <1>3, ConfigFacts

(* Going in marks what the layer does, and leaves its request as sound as it   *)
(* was.                                                                    *)
LEMMA GoesIn ==
    ASSUME IInv, NEW r \in Requests, dir[r] = "down", at[r] \in 2 .. 14,
           NEW noted \in SUBSET {"authorized", "hooked", "echoId", "id", "loggedId"},
           Descend(r, noted), gauge' = gauge,
           at[r] = 2 => ~ Measured(r),
           "hooked" \in noted => at[r] = 11,
           at[r] = 12 => "authorized" \in noted,
           at[r] = 8 => "id" \in noted,
           at[r] = 6 => "loggedId" \in noted,
           at[r] = 9 /\ kind[r].id => "echoId" \in noted
    PROVE  IInv'
<1>1. /\ Sorted /\ Sound(config, at[r], "down", kind[r], answer[r], marks[r])
      /\ config.metrics \in BOOLEAN /\ config.httpLogging \in BOOLEAN
      /\ config.authorization \in BOOLEAN /\ config.hook \in BOOLEAN
  BY Standing
<1>2. /\ Inner(at[r]) \in 1 .. 15 /\ Inner(at[r]) < at[r]
      /\ Inner(at[r]) = 2 => config.metrics /\ at[r] = 3
      /\ Inner(at[r]) = 4 => config.httpLogging
      /\ Inner(at[r]) = 11 => config.hook
      /\ Inner(at[r]) = 12 => config.authorization
      /\ Inner(at[r]) < 12 /\ at[r] > 12 => ~ config.authorization
      /\ Inner(at[r]) < 9 /\ at[r] >= 9 => at[r] = 9
      /\ Inner(at[r]) < 8 /\ at[r] >= 8 => at[r] = 8
      /\ Inner(at[r]) < 6 /\ at[r] >= 6 => at[r] = 6
      /\ Inner(at[r]) = 1 => at[r] = 2 \/ ~ config.metrics
  BY <1>1, InnerTable, Fourteen
<1>3. PICK a \in 1 .. 15 : a = Inner(at[r])
  BY <1>2
<1> DEFINE m == marks[r] \union noted
<1>4. /\ at[r] = 2 => ~(config.metrics /\ kind[r].type # "unmatched")
  BY PlaceFacts, LayersFacts DEF Measured
<1>5. PlaceOf(config, a, "down") /\ ResponseOf(a, "down", answer[r]) /\ PanicOf("down", answer[r], m)
  BY <1>2, <1>3 DEF PlaceOf, ResponseOf, PanicOf, Out
<1>6. BeforeOf(a, "down", m)
  BY <1>1 DEF Sound, BeforeOf
<1>7. AuthorizedOf(config, a, m)
  BY <1>1, <1>2, <1>3 DEF Sound, AuthorizedOf
<1>8. LogOf(config, a, "down", m)
  BY <1>1 DEF Sound, LogOf, Out
<1>9. IdOf(a, "down", kind[r], answer[r], m)
  BY <1>1, <1>2, <1>3 DEF Sound, IdOf, BeforeOf, Out
<1>10. CountOf(config, a, "down", kind[r], m)
  BY <1>1, <1>2, <1>3, <1>4 DEF Sound, CountOf, BeforeOf
<1>11. Sound(config, a, "down", kind[r], answer[r], m)
  BY <1>5, <1>6, <1>7, <1>8, <1>9, <1>10 DEF Sound
<1>12. Counts(Holds(at[r], "down", marks[r]), Holds(a, "down", m))
  <2>1. Holds(at[r], "down", marks[r]) = Holds(a, "down", m)
    BY DEF Holds
  <2> QED
    BY <2>1 DEF Counts
<1>13. noted \in SUBSET Mark
  BY DEF Mark
<1> QED
  BY <1>3, <1>11, <1>12, <1>13, Descended

(* The metrics middleware counts the request in.                              *)
LEMMA CountedIn ==
    ASSUME IInv, NEW r \in Requests, dir[r] = "down", at[r] = 2, Measured(r),
           Descend(r, {"counted"}), gauge' = gauge + 1
    PROVE  IInv'
<1>1. /\ Sorted /\ Sound(config, 2, "down", kind[r], answer[r], marks[r])
  BY Standing
<1>2. Inner(2) = 1 /\ config.metrics /\ kind[r].type # "unmatched"
  BY PlaceFacts, LayersFacts, InnerTable DEF Measured
<1> DEFINE m == marks[r] \union {"counted"}
<1>3. PlaceOf(config, 1, "down") /\ ResponseOf(1, "down", answer[r]) /\ PanicOf("down", answer[r], m)
  BY DEF PlaceOf, ResponseOf, PanicOf, Out
<1>4. BeforeOf(1, "down", m) /\ AuthorizedOf(config, 1, m) /\ LogOf(config, 1, "down", m)
  BY <1>1 DEF Sound, BeforeOf, AuthorizedOf, LogOf, Out
<1>5. IdOf(1, "down", kind[r], answer[r], m)
  BY <1>1 DEF Sound, IdOf, BeforeOf, Out
<1>6. CountOf(config, 1, "down", kind[r], m)
  BY <1>2 DEF CountOf
<1>7. Sound(config, 1, "down", kind[r], answer[r], m)
  BY <1>3, <1>4, <1>5, <1>6 DEF Sound
<1>8. Counts(Holds(2, "down", marks[r]), Holds(1, "down", m))
  <2>1. Holds(2, "down", marks[r]) = FALSE /\ Holds(1, "down", m) = TRUE
    BY <1>1 DEF Holds, Sound, BeforeOf
  <2> QED
    BY <2>1 DEF Counts
<1>9. {"counted"} \in SUBSET Mark /\ 1 \in 1 .. 15
  BY DEF Mark
<1> QED
  BY <1>2, <1>7, <1>8, <1>9, Descended

-----------------------------------------------------------------------------
(* The layers on the way out.                                              *)

(* A response that was made further in and passes, changed in what the layer   *)
(* at its place changes.                                                   *)
Passes(r, ans, noted) ==
    /\ ans.status = answer[r].status /\ ans.by = answer[r].by /\ ans.apiError = answer[r].apiError
    /\ ans.hardened = (answer[r].hardened \/ at[r] = 13)
    /\ IF at[r] = 9 THEN "echoId" \in marks[r] => ans.id = TRUE ELSE ans.id = answer[r].id
    /\ at[r] = 6 /\ ans.apiError = TRUE => "errorLogged" \in noted
    /\ IF at[r] = 4 THEN {"logged", "traced"} \subseteq noted ELSE "logged" \notin noted

LEMMA GoesOut ==
    ASSUME IInv, NEW r \in Requests, dir[r] = "up", at[r] \in 3 .. 14,
           NEW ans \in Answer, NEW noted \in SUBSET {"errorLogged", "logged", "traced"},
           Respond(r, ans, noted), gauge' = gauge, Passes(r, ans, noted)
    PROVE  IInv'
<1>1. /\ Sorted /\ Sound(config, at[r], "up", kind[r], answer[r], marks[r])
      /\ config.metrics \in BOOLEAN /\ config.httpLogging \in BOOLEAN
      /\ config.authorization \in BOOLEAN /\ config.hook \in BOOLEAN
      /\ kind[r].id \in BOOLEAN /\ answer[r] \in Answer
  BY Standing
<1>2. /\ Outer(at[r]) \in 1 .. 15 /\ Outer(at[r]) > at[r] /\ Outer(at[r]) # 2
      /\ Outer(at[r]) = 4 => config.httpLogging
      /\ Outer(at[r]) = 11 => config.hook
      /\ Outer(at[r]) = 12 => config.authorization
      /\ Outer(at[r]) > 4 /\ at[r] < 4 => ~ config.httpLogging
      /\ Outer(at[r]) > 6 /\ at[r] <= 6 => at[r] = 6
      /\ Outer(at[r]) > 9 /\ at[r] <= 9 => at[r] = 9
      /\ Outer(at[r]) >= 14 => at[r] >= 13
      /\ Outer(at[r]) = 15 => at[r] = 14
  BY <1>1, OuterTable, Fourteen
<1>3. PICK a \in 1 .. 15 : a = Outer(at[r])
  BY <1>2
<1> DEFINE d == IF a = 15 THEN "sending" ELSE "up"
           m == marks[r] \union noted
<1>4. (d = "up" /\ a # 15) \/ (d = "sending" /\ a = 15)
  OBVIOUS
<1> HIDE DEF d
<1>5. PlaceOf(config, a, d)
  BY <1>2, <1>3, <1>4 DEF PlaceOf
<1>6. ResponseOf(a, d, ans)
  BY <1>1, <1>2, <1>3, <1>4 DEF Sound, ResponseOf, Out, Passes, Answer
<1>7. BeforeOf(a, d, m)
  BY <1>4 DEF BeforeOf
<1>8. AuthorizedOf(config, a, m)
  BY <1>1, <1>2, <1>3 DEF Sound, AuthorizedOf
<1>9. PanicOf(d, ans, m)
  BY <1>1, <1>4 DEF Sound, PanicOf, Out, Passes
<1>10. LogOf(config, a, d, m)
  BY <1>1, <1>2, <1>3, <1>4 DEF Sound, LogOf, Out, Passes
<1>11. IdOf(a, d, kind[r], ans, m)
  BY <1>1, <1>2, <1>3, <1>4 DEF Sound, IdOf, Out, Passes
<1>12. CountOf(config, a, d, kind[r], m)
  BY <1>1, <1>2, <1>3, <1>4 DEF Sound, CountOf
<1>13. Sound(config, a, d, kind[r], ans, m)
  BY <1>5, <1>6, <1>7, <1>8, <1>9, <1>10, <1>11, <1>12 DEF Sound
<1>14. Counts(Holds(at[r], "up", marks[r]), Holds(a, d, m))
  <2>1. Holds(at[r], "up", marks[r]) = Holds(a, d, m)
    BY <1>2, <1>3 DEF Holds
  <2> QED
    BY <2>1 DEF Counts
<1>15. noted \in SUBSET Mark /\ at[r] \in 1 .. 14
  BY DEF Mark
<1>16. Return(r, at[r], ans, noted) /\ d = IF a = 15 THEN "sending" ELSE "up"
  BY DEF Respond, d
<1> QED
  BY <1>3, <1>13, <1>14, <1>15, <1>16, Returned

(* A response that a layer around the request ids makes itself.                *)
LEMMA MadeOutside ==
    ASSUME IInv, NEW r \in Requests, dir[r] \in {"down", "up"}, at[r] \in {10, 11, 12, 14},
           NEW ans \in Answer, NEW noted \in SUBSET {"hooked"},
           Respond(r, ans, noted), gauge' = gauge,
           ans.status # 0, ans.by \notin {"handler", "timeout", "catchPanic"},
           at[r] = 14 => ans.by = "cors",
           dir[r] = "up" => ans.by = "hook",
           noted # {} => at[r] = 11
    PROVE  IInv'
<1>1. /\ Sorted /\ Sound(config, at[r], dir[r], kind[r], answer[r], marks[r])
      /\ config.metrics \in BOOLEAN /\ config.httpLogging \in BOOLEAN
      /\ config.authorization \in BOOLEAN /\ config.hook \in BOOLEAN
  BY Standing
<1>2. /\ Outer(at[r]) \in 11 .. 15 /\ Outer(at[r]) > at[r]
      /\ Outer(at[r]) = 11 => config.hook
      /\ Outer(at[r]) = 12 => config.authorization
      /\ Outer(at[r]) >= 14 => at[r] = 14
  BY <1>1, OuterTable, Fourteen
<1>3. PICK a \in 1 .. 15 : a = Outer(at[r])
  BY <1>2
<1> DEFINE d == IF a = 15 THEN "sending" ELSE "up"
           m == marks[r] \union noted
<1>4. (d = "up" /\ a # 15) \/ (d = "sending" /\ a = 15)
  OBVIOUS
<1> HIDE DEF d
<1>5. PlaceOf(config, a, d) /\ ResponseOf(a, d, ans) /\ BeforeOf(a, d, m)
  BY <1>2, <1>3, <1>4 DEF PlaceOf, ResponseOf, BeforeOf, Out
<1>6. AuthorizedOf(config, a, m)
  BY <1>1, <1>2, <1>3 DEF Sound, AuthorizedOf
<1>7. PanicOf(d, ans, m)
  BY <1>1, <1>4 DEF Sound, PanicOf, BeforeOf, Out
<1>8. LogOf(config, a, d, m)
  BY <1>1, <1>2, <1>3, <1>4 DEF Sound, LogOf, BeforeOf, Out
<1>9. IdOf(a, d, kind[r], ans, m)
  BY <1>1, <1>2, <1>3, <1>4 DEF Sound, IdOf, BeforeOf, Out
<1>10. CountOf(config, a, d, kind[r], m)
  BY <1>1, <1>2, <1>3, <1>4 DEF Sound, CountOf, BeforeOf
<1>11. Sound(config, a, d, kind[r], ans, m)
  BY <1>5, <1>6, <1>7, <1>8, <1>9, <1>10 DEF Sound
<1>12. Counts(Holds(at[r], dir[r], marks[r]), Holds(a, d, m))
  <2>1. Holds(at[r], dir[r], marks[r]) = Holds(a, d, m)
    BY <1>2, <1>3 DEF Holds
  <2> QED
    BY <2>1 DEF Counts
<1>13. noted \in SUBSET Mark /\ at[r] \in 1 .. 14
  BY DEF Mark
<1>14. Return(r, at[r], ans, noted) /\ d = IF a = 15 THEN "sending" ELSE "up"
  BY DEF Respond, d
<1> QED
  BY <1>3, <1>11, <1>12, <1>13, <1>14, Returned

(* What ends a handler: its answer, its panic caught, its time.  The response  *)
(* comes out of the handler, of catchPanic or of the timeout.                 *)
Ends(from, ans, noted) ==
    \/ from = 1 /\ noted = {"returned"}
    \/ from = 1 /\ noted = {"returned", "failed"} /\ ans.apiError = TRUE
    \/ from = 3 /\ noted = {"timedOut"}
    \/ from = 7 /\ noted = {"panicked"} /\ ans.status = 500

LEMMA MadeInside ==
    ASSUME IInv, NEW r \in Requests, dir[r] = "down", at[r] = 1,
           NEW ans \in Answer, NEW from \in {1, 3, 7}, NEW noted \in SUBSET Mark,
           Return(r, from, ans, noted), gauge' = gauge, ans.status # 0, Ends(from, ans, noted)
    PROVE  IInv'
<1>1. /\ Sorted /\ Sound(config, 1, "down", kind[r], answer[r], marks[r])
      /\ config.metrics \in BOOLEAN /\ config.httpLogging \in BOOLEAN
  BY Standing
<1>2. /\ from = 1 => Outer(from) = IF config.metrics THEN 2 ELSE 3
      /\ from = 3 => Outer(from) = IF config.httpLogging THEN 4 ELSE 5
      /\ from = 7 => Outer(from) = 8
  BY OuterTable
<1>3. PICK a \in 1 .. 15 : a = Outer(from)
  BY <1>1, <1>2
<1>4. a \in {2, 3, 4, 5, 8} /\ (a = 2 => config.metrics) /\ (a = 4 => config.httpLogging)
      /\ (a \in {2, 3} <=> from = 1) /\ (a \in {4, 5} <=> from = 3) /\ (a = 8 <=> from = 7)
      /\ (a = 5 => ~ config.httpLogging) /\ (a = 3 => ~ config.metrics)
  BY <1>1, <1>2, <1>3
<1>0. /\ noted \subseteq {"returned", "failed", "timedOut", "panicked"}
      /\ "returned" \in noted <=> from = 1
      /\ "failed" \in noted => from = 1 /\ ans.apiError = TRUE
      /\ "timedOut" \in noted <=> from = 3
      /\ "panicked" \in noted <=> from = 7
      /\ from = 7 => ans.status = 500
  BY DEF Ends
<1> DEFINE m == marks[r] \union noted
<1>5. PlaceOf(config, a, "up") /\ ResponseOf(a, "up", ans) /\ BeforeOf(a, "up", m)
  BY <1>4 DEF PlaceOf, ResponseOf, BeforeOf, Out
<1>6. AuthorizedOf(config, a, m)
  BY <1>0, <1>1 DEF Sound, AuthorizedOf
<1>7. PanicOf("up", ans, m)
  BY <1>0, <1>1 DEF Sound, PanicOf, BeforeOf, Out
<1>8. LogOf(config, a, "up", m)
  BY <1>0, <1>1, <1>4 DEF Sound, LogOf, BeforeOf, Out
<1>9. IdOf(a, "up", kind[r], ans, m)
  BY <1>0, <1>1, <1>4 DEF Sound, IdOf, BeforeOf, Out
<1>10. CountOf(config, a, "up", kind[r], m)
  BY <1>0, <1>1, <1>4 DEF Sound, CountOf, BeforeOf
<1>11. Sound(config, a, "up", kind[r], ans, m)
  BY <1>5, <1>6, <1>7, <1>8, <1>9, <1>10 DEF Sound
<1>12. Counts(Holds(1, "down", marks[r]), Holds(a, "up", m))
  <2>1. Holds(1, "down", marks[r]) = Holds(a, "up", m)
    BY <1>0, <1>1, <1>4 DEF Holds, Sound, BeforeOf, CountOf
  <2> QED
    BY <2>1 DEF Counts
<1>13. from \in 1 .. 14 /\ "up" = IF a = 15 THEN "sending" ELSE "up"
  BY <1>4
<1> QED
  BY <1>3, <1>11, <1>12, <1>13, Returned

(* The metrics middleware counts the request out.                             *)
LEMMA CountedOut ==
    ASSUME IInv, NEW r \in Requests, dir[r] = "up", at[r] = 2,
           Respond(r, answer[r], {}), gauge' = IF Measured(r) THEN gauge - 1 ELSE gauge
    PROVE  IInv'
<1>1. /\ Sorted /\ Sound(config, 2, "up", kind[r], answer[r], marks[r])
      /\ answer[r] \in Answer
  BY Standing
<1>2. Outer(2) = 3 /\ (Measured(r) <=> config.metrics /\ kind[r].type # "unmatched")
  BY PlaceFacts, LayersFacts, OuterTable DEF Measured
<1>3. marks[r] \union {} = marks[r] /\ {} \in SUBSET Mark /\ 3 \in 1 .. 15 /\ 2 \in 1 .. 14
  OBVIOUS
<1>4. Sound(config, 3, "up", kind[r], answer[r], marks[r])
  BY <1>1 DEF Sound, PlaceOf, ResponseOf, BeforeOf, AuthorizedOf, PanicOf, LogOf, IdOf, CountOf, Out
<1>5. Counts(Holds(2, "up", marks[r]), Holds(3, "up", marks[r]))
  <2>2. Measured(r) <=> "counted" \in marks[r]
    BY <1>1, <1>2 DEF Sound, CountOf
  <2>3. CASE "counted" \in marks[r]
    <3>1. Holds(2, "up", marks[r]) = TRUE /\ Holds(3, "up", marks[r]) = FALSE
      BY <1>1, <2>3 DEF Holds, Sound, CountOf
    <3>2. gauge' = gauge - 1
      BY <2>2, <2>3
    <3> QED
      BY <3>1, <3>2 DEF Counts
  <2>4. CASE "counted" \notin marks[r]
    <3>1. Holds(2, "up", marks[r]) = FALSE /\ Holds(3, "up", marks[r]) = FALSE
      BY <1>1, <2>4 DEF Holds, Sound, CountOf
    <3>2. gauge' = gauge
      BY <2>2, <2>4
    <3> QED
      BY <3>1, <3>2 DEF Counts
  <2> QED
    BY <2>3, <2>4
<1>6. Return(r, 2, answer[r], {})
  BY DEF Respond
<1> QED
  BY <1>1, <1>2, <1>3, <1>4, <1>5, <1>6, Returned

-----------------------------------------------------------------------------
(* The actions.                                                            *)

Statuses == {0, 200, 400, 401, 404, 408, 413, 500}
Makers == {"none", "cors", "authorization", "hook", "bodyLimit", "timeout", "catchPanic", "handler"}

LEMMA AnswerIs ==
    Answer = [status : Statuses, by : Makers, apiError : BOOLEAN, hardened : BOOLEAN, id : BOOLEAN]
BY DEF Answer, Statuses, Makers

LEMMA HardenedResponse ==
    ASSUME NEW old \in Answer, NEW ans, ans = [old EXCEPT !.hardened = TRUE]
    PROVE  /\ ans \in Answer /\ ans.hardened = TRUE /\ ans.status = old.status
           /\ ans.by = old.by /\ ans.apiError = old.apiError /\ ans.id = old.id
BY AnswerIs

LEMMA ResponseWithId ==
    ASSUME NEW old \in Answer, NEW x, NEW S, NEW ans, ans = [old EXCEPT !.id = x \in S]
    PROVE  /\ ans \in Answer /\ ans.hardened = old.hardened /\ ans.status = old.status
           /\ ans.by = old.by /\ ans.apiError = old.apiError /\ (x \in S => ans.id = TRUE)
<1>1. CASE x \in S
  <2>1. ans = [old EXCEPT !.id = TRUE]
    BY <1>1, Zenon
  <2> QED
    BY <1>1, <2>1, AnswerIs
<1>2. CASE x \notin S
  <2>0. (x \in S) = FALSE
    BY <1>2
  <2>1. ans = [old EXCEPT !.id = FALSE]
    BY <2>0, Zenon
  <2> QED
    BY <1>2, <2>1, AnswerIs
<1> QED
  BY <1>1, <1>2

LEMMA NewResponse ==
    ASSUME NEW x \in Statuses, NEW y \in Makers
    PROVE  /\ [NoAnswer EXCEPT !.status = x, !.by = y] \in Answer
           /\ [NoAnswer EXCEPT !.status = x, !.by = y, !.apiError = TRUE] \in Answer
<1>1. NoAnswer \in Answer
  BY DEF NoAnswer, Answer
<1> QED
  BY <1>1, AnswerIs

LEMMA Responses ==
    /\ [NoAnswer EXCEPT !.status = 200, !.by = "cors"] \in Answer
    /\ [NoAnswer EXCEPT !.status = 413, !.by = "bodyLimit"] \in Answer
    /\ [NoAnswer EXCEPT !.status = 500, !.by = "catchPanic"] \in Answer
    /\ [NoAnswer EXCEPT !.status = 408, !.by = "timeout"] \in Answer
    /\ [NoAnswer EXCEPT !.status = 404, !.by = "handler"] \in Answer
    /\ [NoAnswer EXCEPT !.status = 200, !.by = "handler"] \in Answer
    /\ [NoAnswer EXCEPT !.status = 400, !.by = "handler", !.apiError = TRUE] \in Answer
    /\ Rejection \in Answer /\ HookAnswer \in Answer
<1>1. {200, 400, 401, 404, 408, 413, 500} \subseteq Statuses
  BY DEF Statuses
<1>2. {"cors", "authorization", "hook", "bodyLimit", "timeout", "catchPanic", "handler"} \subseteq Makers
  BY DEF Makers
<1>3. ASSUME NEW x \in {200, 400, 401, 404, 408, 413, 500},
             NEW y \in {"cors", "authorization", "hook", "bodyLimit", "timeout", "catchPanic", "handler"}
      PROVE  /\ [NoAnswer EXCEPT !.status = x, !.by = y] \in Answer
             /\ [NoAnswer EXCEPT !.status = x, !.by = y, !.apiError = TRUE] \in Answer
  <2>1. x \in Statuses /\ y \in Makers
    BY <1>1, <1>2
  <2> QED
    BY <2>1, NewResponse
<1>5. /\ [NoAnswer EXCEPT !.status = 200, !.by = "cors"] \in Answer
      /\ [NoAnswer EXCEPT !.status = 413, !.by = "bodyLimit"] \in Answer
      /\ [NoAnswer EXCEPT !.status = 500, !.by = "catchPanic"] \in Answer
      /\ [NoAnswer EXCEPT !.status = 408, !.by = "timeout"] \in Answer
  BY <1>3
<1>6. /\ [NoAnswer EXCEPT !.status = 404, !.by = "handler"] \in Answer
      /\ [NoAnswer EXCEPT !.status = 200, !.by = "handler"] \in Answer
      /\ [NoAnswer EXCEPT !.status = 200, !.by = "hook"] \in Answer
  BY <1>3
<1>7. /\ [NoAnswer EXCEPT !.status = 400, !.by = "handler", !.apiError = TRUE] \in Answer
      /\ [NoAnswer EXCEPT !.status = 401, !.by = "authorization", !.apiError = TRUE] \in Answer
  BY <1>3
<1> QED
  BY <1>5, <1>6, <1>7 DEF Rejection, HookAnswer

LEMMA PanicOutside ==
    ASSUME IInv, NEW r \in Requests, dir[r] \in {"down", "up"}, at[r] \in {11, 12},
           NEW noted \in SUBSET {"hooked", "outerPanicked"}, "outerPanicked" \in noted,
           "hooked" \in noted => at[r] = 11, Panic(r, noted)
    PROVE  IInv'
<1>1. ~ Within(r, "catchPanic")
  BY PositionFacts DEF Within
<1>2. Abort(r, noted)
  BY <1>1 DEF Panic
<1>3. noted \in SUBSET Mark
  BY DEF Mark
<1> QED
  BY <1>2, <1>3, Aborted

LEMMA CorsStep ==
    ASSUME IInv, NEW r \in Requests, CorsDown(r)
    PROVE  IInv'
<1>1. at[r] = 14 /\ dir[r] = "down" /\ gauge' = gauge
  BY Standing, PlaceFacts DEF CorsDown, Descending
<1>2. CASE Respond(r, [NoAnswer EXCEPT !.status = 200, !.by = "cors"], {})
  <2> DEFINE ans == [NoAnswer EXCEPT !.status = 200, !.by = "cors"]
  <2>1. ans \in Answer /\ ans.status # 0 /\ ans.by = "cors"
    BY Responses DEF NoAnswer
  <2> HIDE DEF ans
  <2>2. Respond(r, ans, {})
    BY <1>2 DEF ans
  <2> QED
    BY <1>1, <2>1, <2>2, MadeOutside
<1>3. CASE Descend(r, {})
  BY <1>1, <1>3, GoesIn
<1> QED
  BY <1>2, <1>3 DEF CorsDown

LEMMA HeadersStep ==
    ASSUME IInv, NEW r \in Requests, HeadersUp(r)
    PROVE  IInv'
<1>1. at[r] = 13 /\ dir[r] = "up" /\ gauge' = gauge /\ answer[r] \in Answer
  BY Standing, PlaceFacts DEF HeadersUp, Ascending
<1> DEFINE ans == [answer[r] EXCEPT !.hardened = TRUE]
<1>2. /\ ans \in Answer /\ ans.hardened = TRUE /\ ans.status = answer[r].status
      /\ ans.by = answer[r].by /\ ans.apiError = answer[r].apiError /\ ans.id = answer[r].id
  BY <1>1, HardenedResponse
<1>3. Respond(r, ans, {})
  BY DEF HeadersUp
<1> HIDE DEF ans
<1>4. Passes(r, ans, {})
  BY <1>1, <1>2 DEF Passes, Answer
<1> QED
  BY <1>1, <1>2, <1>3, <1>4, GoesOut

LEMMA AuthorizationStep ==
    ASSUME IInv, NEW r \in Requests, AuthorizationDown(r)
    PROVE  IInv'
<1>1. at[r] = 12 /\ dir[r] = "down"
  BY Standing, PlaceFacts DEF AuthorizationDown, Descending
<1>2. CASE Descend(r, {"authorized"}) /\ UNCHANGED gauge
  BY <1>1, <1>2, GoesIn
<1>3. CASE Respond(r, Rejection, {}) /\ UNCHANGED gauge
  <2>1. Rejection \in Answer /\ Rejection.status # 0 /\ Rejection.by = "authorization"
    BY Responses DEF Rejection, NoAnswer
  <2> QED
    BY <1>1, <1>3, <2>1, MadeOutside
<1>4. CASE Panic(r, {"outerPanicked"})
  BY <1>1, <1>4, PanicOutside
<1> QED
  BY <1>2, <1>3, <1>4 DEF AuthorizationDown

LEMMA HookStep ==
    ASSUME IInv, NEW r \in Requests, Hook(r)
    PROVE  IInv'
<1>1. at[r] = 11 /\ dir[r] \in {"down", "up"} /\ (HookDown(r) => dir[r] = "down") /\ (HookUp(r) => dir[r] = "up")
      /\ answer[r] \in Answer
  BY Standing, PlaceFacts DEF Hook, HookDown, HookUp, Descending, Ascending
<1>2. HookAnswer \in Answer /\ HookAnswer.status # 0 /\ HookAnswer.by = "hook"
  BY Responses DEF HookAnswer, NoAnswer
<1>3. CASE HookDown(r)
  <2>1. CASE Descend(r, {"hooked"}) /\ UNCHANGED gauge
    BY <1>1, <1>3, <2>1, GoesIn
  <2>2. CASE Respond(r, HookAnswer, {"hooked"}) /\ UNCHANGED gauge
    BY <1>1, <1>2, <1>3, <2>2, MadeOutside
  <2>3. CASE Panic(r, {"hooked", "outerPanicked"})
    BY <1>1, <2>3, PanicOutside
  <2> QED
    BY <1>3, <2>1, <2>2, <2>3 DEF HookDown
<1>4. CASE HookUp(r)
  <2>1. CASE Respond(r, answer[r], {}) /\ UNCHANGED gauge
    <3>1. Passes(r, answer[r], {})
      BY <1>1 DEF Passes, Answer
    <3> QED
      BY <1>1, <1>4, <2>1, <3>1, GoesOut
  <2>2. CASE Respond(r, HookAnswer, {}) /\ UNCHANGED gauge
    BY <1>1, <1>2, <1>4, <2>2, MadeOutside
  <2>3. CASE Panic(r, {"outerPanicked"})
    BY <1>1, <2>3, PanicOutside
  <2> QED
    BY <1>4, <2>1, <2>2, <2>3 DEF HookUp
<1> QED
  BY <1>3, <1>4 DEF Hook

LEMMA BodyLimitStep ==
    ASSUME IInv, NEW r \in Requests, BodyLimitDown(r)
    PROVE  IInv'
<1>1. at[r] = 10 /\ dir[r] = "down" /\ gauge' = gauge
  BY Standing, PlaceFacts DEF BodyLimitDown, Descending
<1>2. CASE Respond(r, [NoAnswer EXCEPT !.status = 413, !.by = "bodyLimit"], {})
  <2> DEFINE ans == [NoAnswer EXCEPT !.status = 413, !.by = "bodyLimit"]
  <2>1. ans \in Answer /\ ans.status # 0 /\ ans.by = "bodyLimit"
    BY Responses DEF NoAnswer
  <2> HIDE DEF ans
  <2>2. Respond(r, ans, {})
    BY <1>2 DEF ans
  <2> QED
    BY <1>1, <2>1, <2>2, MadeOutside
<1>3. CASE Descend(r, {})
  BY <1>1, <1>3, GoesIn
<1> QED
  BY <1>2, <1>3 DEF BodyLimitDown

(* The two layers of the request id, and the one that logs it.                 *)
LEMMA IdStep ==
    ASSUME IInv, NEW r \in Requests,
           PropagateIdDown(r) \/ PropagateIdUp(r) \/ SetIdDown(r) \/ ErrorLogDown(r) \/ ErrorLogUp(r)
    PROVE  IInv'
<1>1. answer[r] \in Answer /\ gauge' = gauge
  BY Standing DEF PropagateIdDown, PropagateIdUp, SetIdDown, ErrorLogDown, ErrorLogUp
<1>2. CASE PropagateIdDown(r)
  <2>1. at[r] = 9 /\ dir[r] = "down"
    BY <1>2, Standing, PlaceFacts DEF PropagateIdDown, Descending
  <2>2. PICK noted \in SUBSET {"echoId"} : Descend(r, noted) /\ (kind[r].id => "echoId" \in noted)
    BY <1>2 DEF PropagateIdDown, HasId
  <2> QED
    BY <1>1, <2>1, <2>2, GoesIn
<1>3. CASE PropagateIdUp(r)
  <2>1. at[r] = 9 /\ dir[r] = "up"
    BY <1>3, Standing, PlaceFacts DEF PropagateIdUp, Ascending
  <2> DEFINE ans == [answer[r] EXCEPT !.id = "echoId" \in marks[r]]
  <2>2. /\ ans \in Answer /\ ans.hardened = answer[r].hardened /\ ans.status = answer[r].status
        /\ ans.by = answer[r].by /\ ans.apiError = answer[r].apiError
        /\ "echoId" \in marks[r] => ans.id = TRUE
    <3>1. \A new : new = [answer[r] EXCEPT !.id = "echoId" \in marks[r]] =>
             /\ new \in Answer /\ new.hardened = answer[r].hardened /\ new.status = answer[r].status
             /\ new.by = answer[r].by /\ new.apiError = answer[r].apiError
             /\ "echoId" \in marks[r] => new.id = TRUE
      BY <1>1, ResponseWithId, Zenon
    <3> QED
      BY <3>1, Zenon
  <2>3. Respond(r, ans, {})
    BY <1>3 DEF PropagateIdUp
  <2> HIDE DEF ans
  <2>4. Passes(r, ans, {})
    BY <1>1, <2>1, <2>2 DEF Passes, Answer
  <2> QED
    BY <1>1, <2>1, <2>2, <2>3, <2>4, GoesOut
<1>4. CASE SetIdDown(r)
  <2>1. at[r] = 8 /\ dir[r] = "down" /\ Descend(r, {"id"})
    BY <1>4, Standing, PlaceFacts DEF SetIdDown, Descending
  <2> QED
    BY <1>1, <2>1, GoesIn
<1>5. CASE ErrorLogDown(r)
  <2>1. at[r] = 6 /\ dir[r] = "down"
    BY <1>5, Standing, PlaceFacts DEF ErrorLogDown, Descending
  <2>2. HasId(r)
    <3>1. Sound(config, at[r], dir[r], kind[r], answer[r], marks[r])
      BY Standing
    <3> QED
      BY <2>1, <3>1 DEF HasId, Sound, IdOf
  <2>3. Descend(r, {"loggedId"})
    BY <1>5, <2>2 DEF ErrorLogDown
  <2> QED
    BY <1>1, <2>1, <2>3, GoesIn
<1>6. CASE ErrorLogUp(r)
  <2>1. at[r] = 6 /\ dir[r] = "up"
    BY <1>6, Standing, PlaceFacts DEF ErrorLogUp, Ascending
  <2>2. PICK noted \in SUBSET {"errorLogged"} :
           Respond(r, answer[r], noted) /\ (answer[r].apiError = TRUE => "errorLogged" \in noted)
    BY <1>6 DEF ErrorLogUp
  <2>3. Passes(r, answer[r], noted)
    BY <1>1, <2>1, <2>2 DEF Passes, Answer
  <2> QED
    BY <1>1, <2>1, <2>2, <2>3, GoesOut
<1> QED
  BY <1>2, <1>3, <1>4, <1>5, <1>6

LEMMA LogStep ==
    ASSUME IInv, NEW r \in Requests, HttpLogUp(r)
    PROVE  IInv'
<1>1. at[r] = 4 /\ dir[r] = "up" /\ answer[r] \in Answer /\ gauge' = gauge
  BY Standing, PlaceFacts DEF HttpLogUp, Ascending
<1>2. Within(r, "trace")
  BY <1>1, PositionFacts, PlaceFacts, LayersFacts DEF Within, InProgress
<1>3. Respond(r, answer[r], {"logged", "traced"})
  <2>1. {"logged"} \union {"traced"} = {"logged", "traced"}
    OBVIOUS
  <2> QED
    BY <1>2, <2>1 DEF HttpLogUp
<1>4. Passes(r, answer[r], {"logged", "traced"})
  BY <1>1 DEF Passes, Answer
<1> QED
  BY <1>1, <1>3, <1>4, GoesOut

LEMMA MetricsStep ==
    ASSUME IInv, NEW r \in Requests, MetricsDown(r) \/ MetricsUp(r)
    PROVE  IInv'
<1>1. CASE MetricsDown(r)
  <2>1. at[r] = 2 /\ dir[r] = "down"
    BY <1>1, Standing, PlaceFacts DEF MetricsDown, Descending
  <2>2. CASE Measured(r)
    BY <1>1, <2>1, <2>2, CountedIn DEF MetricsDown
  <2>3. CASE ~ Measured(r)
    <3>1. Descend(r, {}) /\ gauge' = gauge
      BY <1>1, <2>3 DEF MetricsDown
    <3> QED
      BY <2>1, <2>3, <3>1, GoesIn
  <2> QED
    BY <2>2, <2>3
<1>2. CASE MetricsUp(r)
  <2>1. at[r] = 2 /\ dir[r] = "up"
    BY <1>2, Standing, PlaceFacts DEF MetricsUp, Ascending
  <2> QED
    BY <1>2, <2>1, CountedOut DEF MetricsUp
<1> QED
  BY <1>1, <1>2

LEMMA PassStep ==
    ASSUME IInv, NEW r \in Requests, PassDown(r) \/ PassUp(r)
    PROVE  IInv'
<1>1. CASE PassDown(r)
  <2>1. at[r] \in {13, 7, 5, 4, 3} /\ dir[r] = "down"
    BY <1>1, Standing, PlaceFacts DEF PassDown, Descending
  <2>2. Descend(r, {}) /\ gauge' = gauge
    BY <1>1 DEF PassDown
  <2> QED
    BY <2>1, <2>2, GoesIn
<1>2. CASE PassUp(r)
  <2>1. at[r] \in {14, 12, 10, 8, 7, 5, 3} /\ dir[r] = "up"
    BY <1>2, Standing, PlaceFacts DEF PassUp, Ascending
  <2>2. Respond(r, answer[r], {}) /\ gauge' = gauge /\ answer[r] \in Answer
    BY <1>2, Standing DEF PassUp
  <2>3. Passes(r, answer[r], {})
    BY <2>1, <2>2 DEF Passes, Answer
  <2> QED
    BY <2>1, <2>2, <2>3, GoesOut
<1> QED
  BY <1>1, <1>2

LEMMA HandleStep ==
    ASSUME IInv, NEW r \in Requests, Handle(r) \/ Fallback(r)
    PROVE  IInv'
<1>1. at[r] = 1 /\ dir[r] = "down"
  BY Standing, PlaceFacts DEF Handle, Fallback, Descending
<1>2. ASSUME NEW ans \in Answer, ans.status # 0, NEW noted \in SUBSET Mark, gauge' = gauge,
             noted = {"returned"} \/ (noted = {"returned", "failed"} /\ ans.apiError = TRUE),
             Respond(r, ans, noted)
      PROVE  IInv'
  <2>1. Return(r, 1, ans, noted) /\ Ends(1, ans, noted)
    BY <1>1, <1>2 DEF Respond, Ends
  <2> QED
    BY <1>1, <1>2, <2>1, MadeInside
<1>3. ASSUME NEW ans \in Answer, ans.status # 0, gauge' = gauge, Respond(r, ans, {"returned"})
      PROVE  IInv'
  <2>1. {"returned"} \in SUBSET Mark
    BY DEF Mark
  <2> QED
    BY <1>2, <1>3, <2>1
<1>4. CASE Respond(r, [NoAnswer EXCEPT !.status = 404, !.by = "handler"], {"returned"}) /\ UNCHANGED gauge
  <2> DEFINE ans == [NoAnswer EXCEPT !.status = 404, !.by = "handler"]
  <2>1. ans \in Answer /\ ans.status # 0
    BY Responses DEF NoAnswer
  <2> QED
    BY <1>3, <1>4, <2>1
<1>5. CASE Respond(r, [NoAnswer EXCEPT !.status = 200, !.by = "handler"], {"returned"}) /\ UNCHANGED gauge
  <2> DEFINE ans == [NoAnswer EXCEPT !.status = 200, !.by = "handler"]
  <2>1. ans \in Answer /\ ans.status # 0
    BY Responses DEF NoAnswer
  <2> QED
    BY <1>3, <1>5, <2>1
<1>6. CASE /\ Respond(r, [NoAnswer EXCEPT !.status = 400, !.by = "handler", !.apiError = TRUE],
                      {"returned", "failed"})
           /\ UNCHANGED gauge
  <2> DEFINE ans == [NoAnswer EXCEPT !.status = 400, !.by = "handler", !.apiError = TRUE]
  <2>1. ans \in Answer /\ ans.status # 0 /\ ans.apiError = TRUE
    BY Responses DEF NoAnswer
  <2>2. {"returned", "failed"} \in SUBSET Mark
    BY DEF Mark
  <2> QED
    BY <1>2, <1>6, <2>1, <2>2
<1>7. CASE Panic(r, {"panicked"})
  <2>1. Within(r, "catchPanic")
    BY <1>1, PositionFacts, PlaceFacts, LayersFacts DEF Within, InProgress
  <2> DEFINE ans == [NoAnswer EXCEPT !.status = 500, !.by = "catchPanic"]
  <2>2. ans \in Answer /\ ans.status = 500 /\ ans.status # 0
    BY Responses DEF NoAnswer
  <2>3. Return(r, 7, ans, {"panicked"}) /\ gauge' = gauge
    BY <1>7, <2>1, PositionFacts DEF Panic
  <2>4. {"panicked"} \in SUBSET Mark /\ Ends(7, ans, {"panicked"})
    BY <2>2 DEF Mark, Ends
  <2> HIDE DEF ans
  <2> QED
    BY <1>1, <2>2, <2>3, <2>4, MadeInside
<1> QED
  BY <1>4, <1>5, <1>6, <1>7 DEF Handle, Fallback

LEMMA TimeoutStep ==
    ASSUME IInv, NEW r \in Requests, TimeoutFires(r)
    PROVE  IInv'
<1>1. at[r] = 1 /\ dir[r] = "down" /\ gauge' = gauge
  BY Standing, PlaceFacts DEF TimeoutFires, Descending
<1> DEFINE ans == [NoAnswer EXCEPT !.status = 408, !.by = "timeout"]
<1>2. ans \in Answer /\ ans.status # 0
  BY Responses DEF NoAnswer
<1>3. Return(r, 3, ans, {"timedOut"})
  BY PositionFacts DEF TimeoutFires
<1>4. {"timedOut"} \in SUBSET Mark /\ Ends(3, ans, {"timedOut"})
  BY DEF Mark, Ends
<1> HIDE DEF ans
<1> QED
  BY <1>1, <1>2, <1>3, <1>4, MadeInside

(* A client sends its request, reads the response, or goes away.               *)
LEMMA ClientStep ==
    ASSUME IInv, NEW r \in Requests, Arrive(r) \/ ClientReads(r)
    PROVE  IInv'
<1>1. /\ Sorted /\ Sound(config, at[r], dir[r], kind[r], answer[r], marks[r])
      /\ answer[r] \in Answer /\ marks[r] \in SUBSET Mark /\ at[r] \in 1 .. 15
  BY Standing
<1>2. CASE Arrive(r)
  <2>1. /\ dir[r] = "unsent" /\ at[r] = 15 /\ Inner(Outside) = 14 /\ phase = "serving"
    BY <1>1, <1>2, InnerTable, LayersFacts DEF Arrive, Sound, PlaceOf
  <2>2. /\ at' = [at EXCEPT ![r] = 14] /\ dir' = [dir EXCEPT ![r] = "down"]
        /\ answer' = [answer EXCEPT ![r] = answer[r]] /\ marks' = [marks EXCEPT ![r] = marks[r]]
        /\ UNCHANGED <<phase, otel, config, kind>> /\ gauge' = gauge
    BY <1>1, <1>2, <2>1 DEF Arrive, Sorted
  <2>3. Sound(config, 14, "down", kind[r], answer[r], marks[r])
    BY <1>1, <2>1
      DEF Sound, PlaceOf, ResponseOf, BeforeOf, AuthorizedOf, PanicOf, LogOf, IdOf, CountOf, Out
  <2>4. Counts(Holds(at[r], dir[r], marks[r]), Holds(14, "down", marks[r]))
    <3>1. Holds(at[r], dir[r], marks[r]) = Holds(14, "down", marks[r])
      BY <2>1 DEF Holds
    <3> QED
      BY <2>2, <3>1 DEF Counts
  <2>5. 14 \in 1 .. 15 /\ "down" \in Dir /\ dir[r] \notin {"sent", "aborted"}
        /\ (dir[r] = "unsent" => phase = "serving")
    BY <2>1 DEF Dir
  <2> QED
    BY <1>1, <2>2, <2>3, <2>4, <2>5, Moved
<1>3. CASE ClientReads(r)
  <2>1. dir[r] = "sending" /\ at[r] = 15
    BY <1>1, <1>3 DEF ClientReads, Sound, PlaceOf
  <2>2. /\ at' = [at EXCEPT ![r] = 15] /\ dir' = [dir EXCEPT ![r] = "sent"]
        /\ answer' = [answer EXCEPT ![r] = answer[r]] /\ marks' = [marks EXCEPT ![r] = marks[r]]
        /\ UNCHANGED <<phase, otel, config, kind>> /\ gauge' = gauge
    BY <1>1, <1>3, <2>1 DEF ClientReads, Sorted
  <2>3. Sound(config, 15, "sent", kind[r], answer[r], marks[r])
    BY <1>1, <2>1
      DEF Sound, PlaceOf, ResponseOf, BeforeOf, AuthorizedOf, PanicOf, LogOf, IdOf, CountOf, Out
  <2>4. Counts(Holds(at[r], dir[r], marks[r]), Holds(15, "sent", marks[r]))
    <3>1. Holds(at[r], dir[r], marks[r]) = Holds(15, "sent", marks[r])
      BY <2>1 DEF Holds
    <3> QED
      BY <2>2, <3>1 DEF Counts
  <2>5. 15 \in 1 .. 15 /\ "sent" \in Dir /\ dir[r] \notin {"sent", "aborted"}
        /\ (dir[r] = "unsent" => phase = "serving")
    BY <2>1 DEF Dir
  <2> QED
    BY <1>1, <2>2, <2>3, <2>4, <2>5, Moved
<1> QED
  BY <1>2, <1>3

LEMMA LeaveStep ==
    ASSUME IInv, NEW r \in Requests, ClientLeaves(r)
    PROVE  IInv'
<1>1. Abort(r, {"left"}) /\ {"left"} \in SUBSET Mark
  BY DEF ClientLeaves, Mark
<1>2. dir[r] \in {"down", "up", "sending"} /\ at[r] \in {1, 11, 12, 15} /\ (at[r] = 1 => dir[r] = "down")
  <2>1. CASE dir[r] = "sending"
    BY <2>1, Standing DEF Sound, PlaceOf
  <2>2. CASE Descending(r, "authorization")
    BY <2>2, Standing, PlaceFacts DEF Descending
  <2>3. CASE Here(r, "hook")
    BY <2>3, Standing, PlaceFacts
  <2>4. CASE Descending(r, "handler")
    BY <2>4, Standing, PlaceFacts DEF Descending
  <2> QED
    BY <2>1, <2>2, <2>3, <2>4 DEF ClientLeaves, AtAwait
<1> QED
  BY <1>1, <1>2, Aborted

-----------------------------------------------------------------------------
(* run() leaves the requests to the stack.                                   *)
LEMMA RunStep ==
    ASSUME IInv,
           \/ InitObservability \/ BuildRouter \/ Bind \/ Signal \/ ServeReturns \/ ShutdownTelemetry
           \/ UNCHANGED vars
    PROVE  IInv'
<1>1. UNCHANGED <<config, at, dir, kind, answer, marks, gauge>>
  BY DEF InitObservability, BuildRouter, Bind, Signal, ServeReturns, ShutdownTelemetry, vars, requestVars
<1>2. RequestsInv'
  BY <1>1 DEF IInv, RequestsInv, Sorted
<1>3. GaugeInv'
  BY <1>1 DEF IInv, GaugeInv, Held
<1>4. RunInv'
  <2>1. \A r \in Requests : dir[r] = "unsent" => Idle(r)
    BY DEF Idle
  <2>2. \A r \in Requests : Idle(r)' = Idle(r)
    BY <1>1 DEF Idle
  <2>3. RunInv
    BY DEF IInv
  <2>4. CASE InitObservability
    BY <1>1, <2>1, <2>2, <2>3, <2>4 DEF InitObservability, Exit, RunInv, Phase
  <2>5. CASE BuildRouter
    BY <1>1, <2>1, <2>2, <2>3, <2>5 DEF BuildRouter, Exit, RunInv, Phase
  <2>6. CASE Bind
    BY <1>1, <2>1, <2>2, <2>3, <2>6 DEF Bind, Exit, RunInv, Phase
  <2>7. CASE Signal
    BY <1>1, <2>1, <2>2, <2>3, <2>7 DEF Signal, RunInv, Phase
  <2>8. CASE ServeReturns
    BY <1>1, <2>1, <2>2, <2>3, <2>8 DEF ServeReturns, RunInv, Phase
  <2>9. CASE ShutdownTelemetry
    BY <1>1, <2>1, <2>2, <2>3, <2>9 DEF ShutdownTelemetry, Exit, RunInv, Phase
  <2>10. CASE UNCHANGED vars
    BY <1>1, <2>2, <2>3, <2>10 DEF vars, RunInv
  <2> QED
    BY <2>4, <2>5, <2>6, <2>7, <2>8, <2>9, <2>10
<1> QED
  BY <1>2, <1>3, <1>4 DEF IInv

-----------------------------------------------------------------------------
(* The invariant holds of any number of requests, of every kind and under      *)
(* every configuration.                                                     *)
THEOREM InvCorrect == Spec => []IInv
<1>1. IInv /\ [Next]_vars => IInv'
  <2> SUFFICES ASSUME IInv, [Next]_vars PROVE IInv'
    OBVIOUS
  <2>1. \/ InitObservability \/ BuildRouter \/ Bind \/ Signal \/ ServeReturns \/ ShutdownTelemetry
        \/ UNCHANGED vars
        => IInv'
    BY RunStep
  <2>2. \A r \in Requests : Arrive(r) \/ ClientReads(r) => IInv'
    BY ClientStep
  <2>3. \A r \in Requests : ClientLeaves(r) => IInv'
    BY LeaveStep
  <2>4. \A r \in Requests : Layer(r) => IInv'
    <3>1. \A r \in Requests : CorsDown(r) => IInv'
      BY CorsStep
    <3>2. \A r \in Requests : HeadersUp(r) => IInv'
      BY HeadersStep
    <3>3. \A r \in Requests : BodyLimitDown(r) => IInv'
      BY BodyLimitStep
    <3>4. \A r \in Requests :
             PropagateIdDown(r) \/ PropagateIdUp(r) \/ SetIdDown(r) \/ ErrorLogDown(r) \/ ErrorLogUp(r)
             => IInv'
      BY IdStep
    <3>5. \A r \in Requests : HttpLogUp(r) => IInv'
      BY LogStep
    <3>6. \A r \in Requests : MetricsDown(r) \/ MetricsUp(r) => IInv'
      BY MetricsStep
    <3>7. \A r \in Requests : PassDown(r) \/ PassUp(r) => IInv'
      BY PassStep
    <3>8. \A r \in Requests : Fallback(r) => IInv'
      BY HandleStep
    <3> QED
      BY <3>1, <3>2, <3>3, <3>4, <3>5, <3>6, <3>7, <3>8 DEF Layer
  <2>5. \A r \in Requests : AuthorizationDown(r) => IInv'
    BY AuthorizationStep
  <2>6. \A r \in Requests : Hook(r) => IInv'
    BY HookStep
  <2>7. \A r \in Requests : Handle(r) => IInv'
    BY HandleStep
  <2>8. \A r \in Requests : TimeoutFires(r) => IInv'
    BY TimeoutStep
  <2> QED
    BY <2>1, <2>2, <2>3, <2>4, <2>5, <2>6, <2>7, <2>8 DEF Next
<1> QED
  BY <1>1, InitInv, PTL DEF Spec

-----------------------------------------------------------------------------
(* What a reader should know of.                                            *)

LEMMA WhereFacts ==
    ASSUME IInv, NEW r \in Requests
    PROVE  /\ Answered(r) <=> dir[r] \in Out
           /\ Within(r, "bodyLimit") => at[r] < 12
           /\ (dir[r] = "up" /\ at[r] <= 6) => Within(r, "errorLog")
<1>1. Present("errorLog")
  BY PlaceFacts, LayersFacts
<1>2. at[r] \in 1 .. 15
  BY Standing
<1> QED
  BY <1>1, <1>2, PositionFacts DEF Answered, Out, Within, InProgress

(* The state has the types of the program's, and a request stands at a layer    *)
(* that is there.                                                          *)
THEOREM TypeCorrect == Spec => []TypeOK
<1>1. IInv => TypeOK
  <2> SUFFICES ASSUME IInv PROVE TypeOK
    OBVIOUS
  <2>1. Sorted /\ RunInv /\ gauge \in 0 .. Cardinality(Requests)
    BY HeldFinite DEF IInv, RequestsInv, GaugeInv
  <2>2. ASSUME NEW r \in Requests
        PROVE  /\ at[r] = Outside \/ (InProgress(r) /\ Present(Layers[at[r]]))
               /\ dir[r] \in {"sending", "sent"} => answer[r].status # 0
    <3>1. Sound(config, at[r], dir[r], kind[r], answer[r], marks[r]) /\ at[r] \in 1 .. 15
      BY Standing
    <3>2. CASE at[r] = 15
      BY <3>1, <3>2, LayersFacts DEF Sound, ResponseOf, Out
    <3>3. CASE at[r] # 15
      <4>1. at[r] \in 1 .. 14 /\ dir[r] \in {"down", "up"}
        BY <3>1, <3>3 DEF Sound, PlaceOf
      <4>2. Present(Layers[at[r]])
        BY <3>1, <4>1, PlaceFacts DEF Sound, PlaceOf
      <4> QED
        BY <4>1, <4>2 DEF InProgress
    <3> QED
      BY <3>2, <3>3
  <2> QED
    BY <2>1, <2>2, LayersFacts DEF TypeOK, Sorted, RunInv, Dir
<1> QED
  BY <1>1, InvCorrect, PTL

(* Whichever layer made it, a response that leaves the server carries the       *)
(* security headers, unless CORS answered.                                   *)
THEOREM EveryResponseHardenedHolds == Spec => []EveryResponseHardened
<1>1. IInv => EveryResponseHardened
  BY WhereFacts, Standing DEF EveryResponseHardened, Sound, ResponseOf
<1> QED
  BY <1>1, InvCorrect, PTL

(* Nothing inside the authorization layer sees a request it did not let         *)
(* through.                                                                *)
THEOREM AuthorizationFirstHolds == Spec => []AuthorizationFirst
<1>1. IInv => AuthorizationFirst
  BY WhereFacts, Standing DEF AuthorizationFirst, Sound, AuthorizedOf
<1> QED
  BY <1>1, InvCorrect, PTL

(* A handler's panic costs no client its answer.                              *)
THEOREM PanicsAnsweredHolds == Spec => []PanicsAnswered
<1>1. IInv => PanicsAnswered
  <2> SUFFICES ASSUME IInv, NEW r \in Requests
               PROVE  /\ dir[r] = "aborted" => marks[r] \intersect {"left", "outerPanicked"} # {}
                      /\ Answered(r) /\ "panicked" \in marks[r] =>
                             answer[r].status = 500 \/ answer[r].by = "hook"
    BY DEF PanicsAnswered
  <2>1. Sound(config, at[r], dir[r], kind[r], answer[r], marks[r])
    BY Standing
  <2> QED
    BY <2>1, WhereFacts DEF Sound, PanicOf
<1> QED
  BY <1>1, InvCorrect, PTL

(* What comes out of the handler, its panics aside, or of the timeout is        *)
(* logged, with its trace id, and nothing else is.                            *)
THEOREM LoggedFromInsideHolds == Spec => []LoggedFromInside
<1>1. IInv => LoggedFromInside
  <2> SUFFICES ASSUME IInv, NEW r \in Requests
               PROVE  /\ Answered(r) /\ config.httpLogging =>
                             ("logged" \in marks[r] <=> marks[r] \intersect {"returned", "timedOut"} # {})
                      /\ "logged" \in marks[r] => "traced" \in marks[r]
    BY DEF LoggedFromInside
  <2>1. Sound(config, at[r], dir[r], kind[r], answer[r], marks[r])
    BY Standing
  <2> QED
    BY <2>1, WhereFacts DEF Sound, LogOf
<1> QED
  BY <1>1, InvCorrect, PTL

(* The request id is in the log of every error, and on every response made     *)
(* inside the stack to a client that sent one.                                *)
THEOREM RequestIdsCarriedHolds == Spec => []RequestIdsCarried
<1>1. IInv => RequestIdsCarried
  <2> SUFFICES ASSUME IInv, NEW r \in Requests
               PROVE  /\ "failed" \in marks[r] /\ ~ Within(r, "errorLog") =>
                             {"errorLogged", "loggedId"} \subseteq marks[r]
                      /\ Answered(r) /\ kind[r].id /\ answer[r].by \in {"handler", "timeout", "catchPanic"} =>
                             answer[r].id
    BY DEF RequestIdsCarried
  <2>1. Sound(config, at[r], dir[r], kind[r], answer[r], marks[r])
    BY Standing
  <2> QED
    BY <2>1, WhereFacts DEF Sound, IdOf
<1> QED
  BY <1>1, InvCorrect, PTL

(* The gauge is off by the requests it never saw come back, and by no other.    *)
THEOREM GaugeDriftHolds == Spec => []GaugeDrift
<1>1. IInv => GaugeDrift
  <2> SUFFICES ASSUME IInv PROVE GaugeDrift
    OBVIOUS
  <2> DEFINE inside == {r \in Requests : Measured(r) /\ Within(r, "metrics")}
             lost == {r \in Requests :
                        /\ "counted" \in marks[r] /\ "returned" \notin marks[r]
                        /\ marks[r] \intersect {"panicked", "timedOut", "left"} # {}}
                     \ inside
  <2>1. ASSUME NEW r \in Requests
        PROVE  r \in Held <=> r \in inside \union lost
    <3>1. /\ Sound(config, at[r], dir[r], kind[r], answer[r], marks[r])
          /\ at[r] \in 1 .. 15
      BY Standing
    <3>2. /\ Measured(r) <=> config.metrics /\ kind[r].type # "unmatched"
          /\ Within(r, "metrics") <=>
                 /\ dir[r] \in {"down", "up"} /\ config.metrics
                 /\ at[r] < 2 \/ (at[r] = 2 /\ dir[r] = "up")
      BY PositionFacts, PlaceFacts, LayersFacts DEF Measured, Within, InProgress
    <3>3. r \in inside => r \in Held
      BY <3>1, <3>2 DEF Held, Holds, Sound, CountOf, BeforeOf
    <3>4. r \in lost => r \in Held
      BY DEF Held, Holds
    <3>5. r \in Held => r \in inside \union lost
      BY <3>1, <3>2 DEF Held, Holds, Sound, CountOf, PlaceOf, BeforeOf
    <3> QED
      BY <3>3, <3>4, <3>5
  <2>2. Held = inside \union lost /\ inside \intersect lost = {}
    BY <2>1 DEF Held
  <2>3. IsFiniteSet(inside) /\ IsFiniteSet(lost)
    BY RequestsAssumption, FS_Subset
  <2> HIDE DEF inside, lost
  <2>4. Cardinality(inside \union lost)
           = Cardinality(inside) + Cardinality(lost) - Cardinality(inside \intersect lost)
    BY <2>3, FS_Union
  <2>5. Cardinality(inside) \in Nat /\ Cardinality(lost) \in Nat
    BY <2>3, FS_CardinalityType
  <2>6. gauge = Cardinality(inside) + Cardinality(lost)
    BY <2>2, <2>4, <2>5, FS_EmptySet DEF IInv, GaugeInv
  <2> QED
    BY <2>6 DEF GaugeDrift, inside, lost
<1> QED
  BY <1>1, InvCorrect, PTL

(* The providers are shut down on every way out, after the last request.        *)
THEOREM TelemetryOutlivesRequestsHolds == Spec => []TelemetryOutlivesRequests
<1>1. IInv => TelemetryOutlivesRequests
  BY DEF IInv, RunInv, TelemetryOutlivesRequests
<1> QED
  BY <1>1, InvCorrect, PTL
=============================================================================
