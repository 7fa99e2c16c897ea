-------------------------- MODULE AuthorizationProofs --------------------------
(***************************************************************************)
(* What the authorization layer promises for every chain of statements,     *)
(* every set of patterns and tokens and any number of requests at once.     *)
(***************************************************************************)
EXTENDS Authorization, SequenceTheorems, TLAPS

RuleType == [pattern : Pattern, methods : SUBSET Method, effect : Effect]

(* The rules and the statements that apply to a request, each by its place. *)
RuleHits(r) == {k \in DOMAIN rules : Applies(rules[k], r)}
WrittenHits(r) == {k \in Matchers : written[k].pattern \in Pattern /\ Applies(written[k], r)}

(* Min and Max are what their names say; every finite set of numbers has them, *)
(* and carrying it in the invariant spares the induction.                    *)
HasLeast(S) == Min(S) \in S /\ \A y \in S : Min(S) <= y
HasGreatest(S) == Max(S) \in S /\ \A y \in S : Max(S) >= y

(* The builder keeps, for every request, the statement written first for it... *)
AgreeOn(r) ==
    /\ RuleHits(r) = {} <=> WrittenHits(r) = {}
    /\ RuleHits(r) # {} =>
          /\ HasLeast(RuleHits(r)) /\ HasLeast(WrittenHits(r))
          /\ rules[Min(RuleHits(r))].effect = written[Min(WrittenHits(r))].effect

(* ... and the terminal rule written last.                                  *)
LastTerminal ==
    /\ Terminals = {} => anyRequest = NoEffect
    /\ Terminals # {} =>
          /\ HasGreatest(Terminals)
          /\ anyRequest = written[Max(Terminals)].effect

ChainKept ==
    /\ \A r \in Requests : AgreeOn(r)
    /\ LastTerminal
    /\ poisoned = FALSE => \A k \in DOMAIN written : written[k].pattern \notin BadPattern
    /\ layer = "built" => poisoned = FALSE /\ anyRequest # NoEffect

(* What the layer knows of the request in a slot.                            *)
SlotShape(s) ==
    /\ stage[s] # "free" =>
          /\ layer = "built" /\ req[s] \in Requests
          /\ effect[s] = EffectFor(req[s])
    /\ stage[s] \in {"free", "validating", "answering"} => context[s] = NoToken /\ status[s] = 0
    /\ stage[s] = "handler" => Allowed(s) /\ context[s] = claims[s] /\ status[s] = 0
    /\ context[s] # NoToken => context[s] = claims[s]
    /\ validator /\ stage[s] \in {"answering", "handler", "answered"} =>
          claims[s] \notin revokedBefore[s]
    /\ revokedBefore[s] \subseteq revoked

(* The counter is bound at the first rejection, to the provider of that moment. *)
CounterBound ==
    /\ counter = "unbound" => rejections = 0
    /\ counter = "noop" => early > 0
    /\ counter = "real" => provider = "real"
    /\ early = 0 => counted = rejections

IInv ==
    /\ TypeOK
    /\ ChainKept
    /\ \A s \in Slot : SlotShape(s)
    /\ CounterBound

-----------------------------------------------------------------------------
(* Least and greatest elements of a set that grows at its end.              *)

LEMMA LeastOfGrown ==
    ASSUME NEW S \in SUBSET Nat, NEW n \in Nat, \A y \in S : y < n,
           S # {} => HasLeast(S)
    PROVE  /\ HasLeast(S \union {n})
           /\ S = {} => Min(S \union {n}) = n
           /\ S # {} => Min(S \union {n}) = Min(S)
<1> DEFINE T == S \union {n}
           least == IF S = {} THEN n ELSE Min(S)
<1>1. least \in T /\ \A y \in T : least <= y
  <2>1. CASE S = {}
    BY <2>1
  <2>2. CASE S # {}
    <3>1. Min(S) \in S /\ \A y \in S : Min(S) <= y
      BY <2>2 DEF HasLeast
    <3>2. least = Min(S)
      BY <2>2
    <3>3. Min(S) <= n
      <4>1. Min(S) \in Nat /\ Min(S) < n
        BY <3>1
      <4> QED
        BY <4>1
    <3> QED
      BY <3>1, <3>2, <3>3
  <2> QED
    BY <2>1, <2>2
<1>2. Min(T) \in T /\ \A y \in T : Min(T) <= y
  BY <1>1 DEF Min
<1>3. Min(T) = least
  <2>1. Min(T) <= least /\ least <= Min(T)
    BY <1>1, <1>2
  <2>2. Min(T) \in Nat /\ least \in Nat
    BY <1>1, <1>2
  <2> QED
    BY <2>1, <2>2
<1> QED
  BY <1>2, <1>3 DEF HasLeast

LEMMA GreatestOfGrown ==
    ASSUME NEW S \in SUBSET Nat, NEW n \in Nat, \A y \in S : y < n
    PROVE  HasGreatest(S \union {n}) /\ Max(S \union {n}) = n
<1> DEFINE T == S \union {n}
<1>1. n \in T /\ \A y \in T : n >= y
  OBVIOUS
<1>2. Max(T) \in T /\ \A y \in T : Max(T) >= y
  BY <1>1 DEF Max
<1>3. Max(T) = n
  <2>1. Max(T) >= n /\ n >= Max(T)
    BY <1>1, <1>2
  <2>2. Max(T) \in Nat
    BY <1>2
  <2> QED
    BY <2>1, <2>2
<1> QED
  BY <1>2, <1>3 DEF HasGreatest

LEMMA StatementFacts ==
    ASSUME NEW w \in Statements
    PROVE  /\ w \in Statement
           /\ w.pattern \in Pattern \union BadPattern \union {AnyRequest}
           /\ w.methods \subseteq Method /\ w.effect \in Effect
<1>1. w \in Statement
  BY ChainAssumption
<1> QED
  BY <1>1 DEF Statement

(* The rule that applies is one of the builder's.                           *)
LEMMA EffectForType ==
    ASSUME TypeOK, ChainKept, NEW r \in Requests
    PROVE  EffectFor(r) \in Effect
<1>1. CASE RuleHits(r) = {}
  BY <1>1 DEF EffectFor, RuleHits, TypeOK
<1>2. CASE RuleHits(r) # {}
  <2>1. Min(RuleHits(r)) \in RuleHits(r)
    BY <1>2 DEF ChainKept, AgreeOn, HasLeast
  <2>2. Min(RuleHits(r)) \in DOMAIN rules
    BY <2>1 DEF RuleHits
  <2>3. rules[Min(RuleHits(r))] \in RuleType
    <3>1. rules \in Seq(RuleType)
      BY DEF TypeOK, RuleType
    <3> QED
      BY <2>2, <3>1
  <2> QED
    BY <1>2, <2>3 DEF EffectFor, RuleHits, RuleType
<1> QED
  BY <1>1, <1>2

-----------------------------------------------------------------------------
LEMMA InitInv == Init => IInv
<1> SUFFICES ASSUME Init PROVE IInv
  OBVIOUS
<1> USE DEF Init
<1>1. NoEffect \in Effect
  BY DEF NoEffect, Effect
<1>2. TypeOK
  <2>1. /\ rules \in Seq([pattern : Pattern, methods : SUBSET Method, effect : Effect])
        /\ written \in Seq(Statement)
    OBVIOUS
  <2>2. validator \in BOOLEAN /\ cookieName \in BOOLEAN /\ poisoned \in BOOLEAN
    OBVIOUS
  <2>3. /\ stage \in [Slot -> Stage] /\ effect \in [Slot -> Effect]
        /\ req \in [Slot -> Request \union {NoRequest}]
        /\ claims \in [Slot -> Token \union {NoToken}]
        /\ context \in [Slot -> Token \union {NoToken}]
        /\ status \in [Slot -> {0, 200, 401, 403}]
        /\ revokedBefore \in [Slot -> SUBSET Token]
    BY <1>1 DEF Stage
  <2>4. rejections \in 0 .. MaxRejections /\ counted \in 0 .. rejections /\ early \in 0 .. rejections
    BY BoundsAssumption
  <2> QED
    BY <1>1, <2>1, <2>2, <2>3, <2>4 DEF TypeOK
<1>3. ChainKept
  <2>1. Terminals = {} /\ Matchers = {}
    BY DEF Terminals, Matchers
  <2>2. \A r \in Requests : RuleHits(r) = {} /\ WrittenHits(r) = {}
    BY <2>1 DEF RuleHits, WrittenHits
  <2> QED
    BY <2>1, <2>2 DEF ChainKept, AgreeOn, LastTerminal
<1>4. \A s \in Slot : SlotShape(s)
  BY DEF SlotShape
<1>5. CounterBound
  BY DEF CounterBound
<1> QED
  BY <1>2, <1>3, <1>4, <1>5 DEF IInv

-----------------------------------------------------------------------------
(* A statement is written: what the sets of hits become.                     *)

LEMMA AppendFacts ==
    ASSUME NEW T, NEW q \in Seq(T), NEW e \in T
    PROVE  /\ Len(q) \in Nat /\ DOMAIN q = 1 .. Len(q)
           /\ Append(q, e) \in Seq(T)
           /\ DOMAIN Append(q, e) = DOMAIN q \union {Len(q) + 1}
           /\ \A k \in DOMAIN q : Append(q, e)[k] = q[k] /\ k < Len(q) + 1
           /\ Append(q, e)[Len(q) + 1] = e
<1>1. /\ Len(q) \in Nat /\ DOMAIN q = 1 .. Len(q)
      /\ Append(q, e) \in Seq(T)
      /\ DOMAIN Append(q, e) = 1 .. Len(q) + 1
      /\ \A k \in 1 .. Len(q) : Append(q, e)[k] = q[k]
      /\ Append(q, e)[Len(q) + 1] = e
  BY AppendProperties
<1>2. 1 .. Len(q) + 1 = (1 .. Len(q)) \union {Len(q) + 1}
  BY <1>1
<1>3. \A k \in 1 .. Len(q) : k < Len(q) + 1
  BY <1>1
<1> QED
  BY <1>1, <1>2, <1>3

LEMMA WriteChain ==
    ASSUME IInv, NEW w \in Statements, Write(w)
    PROVE  ChainKept'
<1> DEFINE n == Len(written) + 1
           m == Len(rules) + 1
<1>1. /\ w \in Statement /\ w.effect \in Effect
      /\ w.pattern \in Pattern \union BadPattern \union {AnyRequest}
      /\ w.methods \subseteq Method
  BY StatementFacts
<1>2. /\ n \in Nat /\ written' = Append(written, w)
      /\ DOMAIN written \subseteq Nat
      /\ DOMAIN written' = DOMAIN written \union {n}
      /\ \A k \in DOMAIN written : written'[k] = written[k] /\ k < n
      /\ written'[n] = w
  <2>1. written \in Seq(Statement) /\ written' = Append(written, w)
    BY DEF IInv, TypeOK, Write
  <2> QED
    BY <1>1, <2>1, AppendFacts
<1>3. ASSUME w.pattern \in Pattern
      PROVE  /\ m \in Nat
             /\ DOMAIN rules \subseteq Nat
             /\ DOMAIN rules' = DOMAIN rules \union {m}
             /\ \A k \in DOMAIN rules : rules'[k] = rules[k] /\ k < m
             /\ rules'[m] = w
             /\ anyRequest' = anyRequest /\ poisoned' = poisoned
  <2>1. w.pattern \notin BadPattern /\ w.pattern # AnyRequest
    BY <1>3, ChainAssumption
  <2>2. /\ rules \in Seq(RuleType) /\ rules' = Append(rules, w)
        /\ anyRequest' = anyRequest /\ poisoned' = poisoned
    BY <2>1 DEF IInv, TypeOK, Write, Finish, RuleType
  <2>3. w \in RuleType
    BY <1>1, <1>3 DEF RuleType, Statement
  <2> QED
    BY <2>2, <2>3, AppendFacts
<1>4. ASSUME w.pattern \notin Pattern
      PROVE  rules' = rules
  BY <1>4 DEF Write, Finish
<1>5. ASSUME NEW r \in Requests
      PROVE  AgreeOn(r)'
  <2>1. AgreeOn(r)
    BY DEF IInv, ChainKept
  <2>2. WrittenHits(r) \subseteq DOMAIN written /\ RuleHits(r) \subseteq DOMAIN rules
    BY DEF WrittenHits, Matchers, RuleHits
  <2>3. CASE w.pattern \in Pattern /\ Applies(w, r)
    <3>1. WrittenHits(r)' = WrittenHits(r) \union {n}
      BY <1>2, <2>3, ChainAssumption DEF WrittenHits, Matchers, Applies
    <3>2. RuleHits(r)' = RuleHits(r) \union {m}
      BY <1>3, <2>3 DEF RuleHits, Applies
    <3>3. /\ HasLeast(WrittenHits(r)')
          /\ WrittenHits(r) = {} => Min(WrittenHits(r)') = n
          /\ WrittenHits(r) # {} => Min(WrittenHits(r)') = Min(WrittenHits(r))
      <4>1. /\ WrittenHits(r) \in SUBSET Nat /\ \A y \in WrittenHits(r) : y < n
            /\ WrittenHits(r) # {} => HasLeast(WrittenHits(r))
        BY <1>2, <2>1, <2>2 DEF AgreeOn
      <4> QED
        BY <1>2, <3>1, <4>1, LeastOfGrown
    <3>4. /\ HasLeast(RuleHits(r)')
          /\ RuleHits(r) = {} => Min(RuleHits(r)') = m
          /\ RuleHits(r) # {} => Min(RuleHits(r)') = Min(RuleHits(r))
      <4>1. /\ RuleHits(r) \in SUBSET Nat /\ \A y \in RuleHits(r) : y < m
            /\ RuleHits(r) # {} => HasLeast(RuleHits(r))
        BY <1>3, <2>1, <2>2, <2>3 DEF AgreeOn
      <4> QED
        BY <1>3, <2>3, <3>2, <4>1, LeastOfGrown
    <3>5. rules'[Min(RuleHits(r)')].effect = written'[Min(WrittenHits(r)')].effect
      <4>1. CASE RuleHits(r) = {}
        BY <1>2, <1>3, <2>1, <2>3, <3>3, <3>4, <4>1 DEF AgreeOn
      <4>2. CASE RuleHits(r) # {}
        <5>1. /\ Min(RuleHits(r)) \in DOMAIN rules /\ Min(WrittenHits(r)) \in DOMAIN written
              /\ rules[Min(RuleHits(r))].effect = written[Min(WrittenHits(r))].effect
          BY <2>1, <2>2, <4>2 DEF AgreeOn, HasLeast
        <5> QED
          BY <1>2, <1>3, <2>1, <2>3, <3>3, <3>4, <4>2, <5>1 DEF AgreeOn
      <4> QED
        BY <4>1, <4>2
    <3> QED
      BY <3>1, <3>2, <3>3, <3>4, <3>5 DEF AgreeOn, HasLeast
  <2>4. CASE ~(w.pattern \in Pattern /\ Applies(w, r))
    <3>1. WrittenHits(r)' = WrittenHits(r)
      BY <1>2, <2>4 DEF WrittenHits, Matchers, Applies
    <3>2. /\ RuleHits(r)' = RuleHits(r)
          /\ \A k \in DOMAIN rules : rules'[k] = rules[k]
      <4>1. CASE w.pattern \in Pattern
        BY <1>3, <2>4, <4>1 DEF RuleHits, Applies
      <4>2. CASE w.pattern \notin Pattern
        BY <1>4, <4>2 DEF RuleHits, Applies
      <4> QED
        BY <4>1, <4>2
    <3>3. ASSUME RuleHits(r) # {}
          PROVE  rules'[Min(RuleHits(r))].effect = written'[Min(WrittenHits(r))].effect
      <4>1. /\ Min(RuleHits(r)) \in DOMAIN rules /\ Min(WrittenHits(r)) \in DOMAIN written
            /\ rules[Min(RuleHits(r))].effect = written[Min(WrittenHits(r))].effect
        BY <2>1, <2>2, <3>3 DEF AgreeOn, HasLeast
      <4> QED
        BY <1>2, <3>2, <4>1
    <3> QED
      BY <2>1, <3>1, <3>2, <3>3 DEF AgreeOn, HasLeast
  <2> QED
    BY <2>3, <2>4
<1>6. LastTerminal'
  <2>1. LastTerminal /\ Terminals \subseteq DOMAIN written
    BY DEF IInv, ChainKept, Terminals
  <2>2. CASE w.pattern = AnyRequest
    <3>1. Terminals' = Terminals \union {n}
      BY <1>2, <2>2 DEF Terminals, Matchers
    <3>2. HasGreatest(Terminals') /\ Max(Terminals') = n
      <4>1. Terminals \in SUBSET Nat /\ \A y \in Terminals : y < n
        BY <1>2, <2>1
      <4> QED
        BY <1>2, <3>1, <4>1, GreatestOfGrown
    <3>3. anyRequest' = w.effect
      BY <2>2, ChainAssumption DEF Write, Finish
    <3> QED
      BY <1>2, <3>1, <3>2, <3>3 DEF LastTerminal, HasGreatest
  <2>3. CASE w.pattern # AnyRequest
    <3>1. Terminals' = Terminals
      BY <1>2, <2>3 DEF Terminals, Matchers
    <3>2. anyRequest' = anyRequest
      BY <2>3 DEF Write, Finish
    <3>3. Terminals # {} => Max(Terminals) \in DOMAIN written
      BY <2>1 DEF LastTerminal, HasGreatest
    <3> QED
      BY <1>2, <2>1, <3>1, <3>2, <3>3 DEF LastTerminal, HasGreatest
  <2> QED
    BY <2>2, <2>3
<1>7. poisoned' = FALSE => \A k \in DOMAIN written' : written'[k].pattern \notin BadPattern
  <2>1. poisoned' = FALSE => poisoned = FALSE /\ w.pattern \notin BadPattern
    BY <1>1, ChainAssumption DEF Write, Finish, IInv, TypeOK
  <2>2. poisoned = FALSE => \A k \in DOMAIN written : written[k].pattern \notin BadPattern
    BY DEF IInv, ChainKept
  <2> QED
    BY <1>2, <2>1, <2>2
<1>8. layer' # "built"
  BY DEF Write
<1> QED
  BY <1>5, <1>6, <1>7, <1>8 DEF ChainKept

-----------------------------------------------------------------------------
(* Once the layer is built the chain does not change any more, and every other *)
(* step leaves it alone.                                                    *)

LEMMA ChainStep ==
    ASSUME IInv, [Next]_vars
    PROVE  ChainKept'
<1>1. CASE \E w \in Statements : Write(w)
  BY <1>1, WriteChain
<1>2. CASE \E k \in Key : Build(k)
  <2>1. layer' = "built" => poisoned = FALSE /\ anyRequest # NoEffect
    BY <1>2 DEF Build, IInv, TypeOK
  <2>2. UNCHANGED <<rules, anyRequest, poisoned, written>>
    BY <1>2 DEF Build
  <2> QED
    BY <2>1, <2>2 DEF IInv, ChainKept, AgreeOn, LastTerminal, RuleHits, WrittenHits,
                     Matchers, Terminals, Applies
<1>3. CASE UNCHANGED <<rules, anyRequest, poisoned, written, layer>>
  BY <1>3 DEF IInv, ChainKept, AgreeOn, LastTerminal, RuleHits, WrittenHits,
              Matchers, Terminals, Applies
<1>4. \/ \E w \in Statements : Write(w)
      \/ \E k \in Key : Build(k)
      \/ UNCHANGED <<rules, anyRequest, poisoned, written, layer>>
  BY DEF Next, vars, chain, Configure, Arrive, ValidatorAccepts, ValidatorRejects, Allow,
         Reject, Handle, Leave, Expire, Revoke, InstallProvider
<1> QED
  BY <1>1, <1>2, <1>3, <1>4

-----------------------------------------------------------------------------
(* The requests.                                                            *)

(* A step that is not about a slot: the others see at most a revocation.      *)
Untouched(t) ==
    /\ UNCHANGED <<rules, anyRequest, validator, layer>>
    /\ stage'[t] = stage[t] /\ req'[t] = req[t] /\ effect'[t] = effect[t]
    /\ claims'[t] = claims[t] /\ context'[t] = context[t] /\ status'[t] = status[t]
    /\ revokedBefore'[t] = revokedBefore[t] /\ revoked \subseteq revoked'

LEMMA OtherSlot ==
    ASSUME NEW s \in Slot, SlotShape(s), Untouched(s)
    PROVE  SlotShape(s)'
<1>1. EffectFor(req[s])' = EffectFor(req[s])
  BY DEF EffectFor, Applies, Untouched
<1> QED
  BY <1>1 DEF SlotShape, Allowed, HasRole, Untouched

LEMMA SlotFunctions ==
    ASSUME TypeOK
    PROVE  /\ DOMAIN stage = Slot /\ DOMAIN req = Slot /\ DOMAIN effect = Slot
           /\ DOMAIN claims = Slot /\ DOMAIN context = Slot /\ DOMAIN status = Slot
           /\ DOMAIN revokedBefore = Slot
BY DEF TypeOK

(* While the chain is being written nobody is served.                         *)
LEMMA BuildingSlots ==
    ASSUME IInv, layer = "building", UNCHANGED requests, UNCHANGED revoked
    PROVE  \A s \in Slot : SlotShape(s)'
<1> SUFFICES ASSUME NEW s \in Slot
             PROVE  SlotShape(s)'
  OBVIOUS
<1>1. SlotShape(s) /\ stage[s] = "free"
  BY DEF IInv, SlotShape
<1> QED
  BY <1>1 DEF SlotShape, requests

LEMMA ArriveSlot ==
    ASSUME IInv, NEW s \in Slot, NEW r \in Requests, Arrive(s, r)
    PROVE  SlotShape(s)'
<1>1. /\ UNCHANGED <<rules, anyRequest, validator, layer, context, status, revoked>>
      /\ layer = "built" /\ stage[s] = "free"
      /\ req'[s] = r /\ effect'[s] = EffectFor(r)
      /\ stage'[s] = IF NeedsValidator(effect'[s], claims'[s]) THEN "validating" ELSE "answering"
      /\ revokedBefore'[s] = revoked
  BY SlotFunctions DEF Arrive, IInv, chain, world
<1>2. EffectFor(req[s])' = effect'[s]
  BY <1>1 DEF EffectFor, Applies
<1>3. context'[s] = NoToken /\ status'[s] = 0
  BY <1>1 DEF IInv, SlotShape
<1>4. validator' /\ stage'[s] = "answering" => claims'[s] \notin revokedBefore'[s]
  <2>1. validator' /\ stage'[s] = "answering" => claims'[s] = NoToken
    BY <1>1 DEF NeedsValidator
  <2>2. NoToken \notin revoked
    BY TokenAssumption DEF IInv, TypeOK
  <2> QED
    BY <1>1, <2>1, <2>2
<1> QED
  BY <1>1, <1>2, <1>3, <1>4 DEF SlotShape

LEMMA SlotStep ==
    ASSUME IInv, [Next]_vars
    PROVE  \A t \in Slot : SlotShape(t)'
<1>1. CASE \/ \E w \in Statements : Write(w)
           \/ Configure
           \/ \E k \in Key : Build(k)
  BY <1>1, BuildingSlots DEF Write, Configure, Build, world
<1>2. ASSUME NEW s \in Slot,
             \/ \E r \in Requests : Arrive(s, r)
             \/ ValidatorAccepts(s) \/ ValidatorRejects(s)
             \/ Allow(s) \/ Reject(s) \/ Handle(s) \/ Leave(s)
      PROVE  \A t \in Slot : SlotShape(t)'
  <2>1. ASSUME NEW t \in Slot \ {s}
        PROVE  Untouched(t)
    BY <1>2, SlotFunctions DEF IInv, Untouched, Arrive, ValidatorAccepts, ValidatorRejects, Allow,
       Reject, Handle, Leave, chain, world
  <2>2. SlotShape(s)'
    <3> USE SlotFunctions DEF IInv
    <3>1. CASE \E r \in Requests : Arrive(s, r)
      BY <3>1, ArriveSlot
    <3>2. CASE ValidatorAccepts(s)
      <4>1. /\ UNCHANGED <<rules, anyRequest, validator, layer, req, effect, claims, context,
                           status, revokedBefore, revoked>>
            /\ stage[s] = "validating" /\ stage'[s] = "answering"
            /\ claims[s] \notin revoked
        BY <3>2 DEF ValidatorAccepts, chain, world
      <4>2. EffectFor(req[s])' = EffectFor(req[s])
        BY <4>1 DEF EffectFor, Applies
      <4> QED
        BY <4>1, <4>2 DEF SlotShape
    <3>3. CASE ValidatorRejects(s)
      <4>1. /\ UNCHANGED <<rules, anyRequest, validator, layer, req, effect, context,
                           status, revokedBefore, revoked>>
            /\ stage[s] = "validating" /\ stage'[s] = "answering" /\ claims'[s] = NoToken
        BY <3>3 DEF ValidatorRejects, chain, world
      <4>2. EffectFor(req[s])' = EffectFor(req[s])
        BY <4>1 DEF EffectFor, Applies
      <4>3. NoToken \notin revokedBefore[s]
        BY TokenAssumption DEF TypeOK
      <4> QED
        BY <4>1, <4>2, <4>3 DEF SlotShape
    <3>4. CASE Allow(s)
      <4>1. /\ UNCHANGED <<rules, anyRequest, validator, layer, req, effect, claims,
                           status, revokedBefore, revoked>>
            /\ stage[s] = "answering" /\ stage'[s] = "handler" /\ context'[s] = claims[s]
            /\ Allowed(s)
        BY <3>4 DEF Allow, chain, world
      <4>2. EffectFor(req[s])' = EffectFor(req[s]) /\ Allowed(s)'
        BY <4>1 DEF EffectFor, Applies, Allowed, HasRole
      <4> QED
        BY <4>1, <4>2 DEF SlotShape
    <3>5. CASE Reject(s)
      <4>1. /\ UNCHANGED <<rules, anyRequest, validator, layer, req, effect, claims, context,
                           revokedBefore, revoked>>
            /\ stage[s] = "answering" /\ stage'[s] = "answered"
        BY <3>5 DEF Reject, chain, world
      <4>2. EffectFor(req[s])' = EffectFor(req[s])
        BY <4>1 DEF EffectFor, Applies
      <4> QED
        BY <4>1, <4>2 DEF SlotShape
    <3>6. CASE Handle(s)
      <4>1. /\ UNCHANGED <<rules, anyRequest, validator, layer, req, effect, claims, context,
                           revokedBefore, revoked>>
            /\ stage[s] = "handler" /\ stage'[s] = "answered"
        BY <3>6 DEF Handle, chain, world
      <4>2. EffectFor(req[s])' = EffectFor(req[s])
        BY <4>1 DEF EffectFor, Applies
      <4> QED
        BY <4>1, <4>2 DEF SlotShape
    <3>7. CASE Leave(s)
      <4>1. /\ stage'[s] = "free" /\ context'[s] = NoToken /\ status'[s] = 0
            /\ revokedBefore'[s] = {}
        BY <3>7 DEF Leave
      <4> QED
        BY <4>1 DEF SlotShape
    <3> QED
      BY <1>2, <3>1, <3>2, <3>3, <3>4, <3>5, <3>6, <3>7
  <2> QED
    BY <2>1, <2>2, OtherSlot DEF IInv
<1>3. CASE \/ \E t \in Token : Expire(t) \/ Revoke(t)
           \/ InstallProvider
           \/ UNCHANGED vars
  <2>1. \A t \in Slot : Untouched(t)
    BY <1>3 DEF Untouched, Expire, Revoke, InstallProvider, vars, chain, requests, world
  <2> QED
    BY <2>1, OtherSlot DEF IInv
<1> QED
  BY <1>1, <1>2, <1>3 DEF Next

-----------------------------------------------------------------------------
(* The counter.                                                             *)
LEMMA CounterStep ==
    ASSUME IInv, [Next]_vars
    PROVE  CounterBound'
<1>1. /\ CounterBound
      /\ rejections \in Nat /\ counted \in Nat /\ early \in Nat
      /\ counted <= rejections /\ early <= rejections
      /\ provider \in {"noop", "real"} /\ counter \in {"unbound", "noop", "real"}
  BY BoundsAssumption DEF IInv, TypeOK
<1>2. CASE \E s \in Slot : Reject(s)
  <2>1. /\ rejections' = rejections + 1 /\ provider' = provider
        /\ early' = IF provider = "noop" THEN early + 1 ELSE early
        /\ counter' = IF counter = "unbound" THEN provider ELSE counter
        /\ counted' = IF counter' = "real" THEN counted + 1 ELSE counted
    BY <1>2 DEF Reject, CountRejection
  <2>2. CASE counter = "unbound"
    BY <1>1, <2>1, <2>2 DEF CounterBound
  <2>3. CASE counter # "unbound"
    BY <1>1, <2>1, <2>3 DEF CounterBound
  <2> QED
    BY <2>2, <2>3
<1>3. CASE InstallProvider
  BY <1>1, <1>3 DEF InstallProvider, CounterBound
<1>4. CASE UNCHANGED metrics
  BY <1>1, <1>4 DEF metrics, CounterBound
<1>5. \/ \E s \in Slot : Reject(s)
      \/ InstallProvider
      \/ UNCHANGED metrics
  BY DEF Next, vars, Write, Configure, Build, Arrive, ValidatorAccepts, ValidatorRejects, Allow,
         Handle, Leave, Expire, Revoke
<1> QED
  BY <1>2, <1>3, <1>4, <1>5

-----------------------------------------------------------------------------
(* Types.                                                                   *)

LEMMA WriteType ==
    ASSUME IInv, NEW w \in Statements, Write(w)
    PROVE  TypeOK'
<1>1. /\ w \in Statement /\ w.effect \in Effect /\ w.methods \subseteq Method
      /\ w.pattern \in Pattern \union BadPattern \union {AnyRequest}
  BY StatementFacts
<1>2. written' \in Seq(Statement)
  <2>1. written \in Seq(Statement) /\ written' = Append(written, w)
    BY DEF IInv, TypeOK, Write
  <2> QED
    BY <1>1, <2>1, AppendFacts
<1>3. rules' \in Seq(RuleType) /\ anyRequest' \in Effect /\ poisoned' \in BOOLEAN
  <2>1. rules \in Seq(RuleType) /\ anyRequest \in Effect /\ poisoned \in BOOLEAN
    BY DEF IInv, TypeOK, RuleType
  <2>2. CASE w.pattern = AnyRequest /\ anyRequest' = w.effect /\ UNCHANGED <<rules, poisoned>>
    BY <1>1, <2>1, <2>2
  <2>3. CASE /\ w.pattern \in Pattern /\ rules' = Append(rules, w)
             /\ UNCHANGED <<anyRequest, poisoned>>
    <3>1. w \in RuleType
      BY <1>1, <2>3 DEF RuleType, Statement
    <3>2. Append(rules, w) \in Seq(RuleType)
      BY <2>1, <3>1, AppendFacts
    <3> QED
      BY <2>1, <2>3, <3>2
  <2>4. CASE poisoned' = TRUE /\ UNCHANGED <<rules, anyRequest>>
    BY <2>1, <2>4
  <2> QED
    BY <2>2, <2>3, <2>4 DEF Write, Finish
<1>4. UNCHANGED <<validator, cookieName, layer, key, requests, world, metrics>>
  BY DEF Write
<1> QED
  BY <1>2, <1>3, <1>4 DEF IInv, TypeOK, RuleType, requests, world, metrics

LEMMA TypeStep ==
    ASSUME IInv, [Next]_vars
    PROVE  TypeOK'
<1> USE DEF IInv
<1>1. CASE \E w \in Statements : Write(w)
  BY <1>1, WriteType
<1>2. CASE Configure
  <2>1. validator' \in BOOLEAN /\ cookieName' \in BOOLEAN
    BY <1>2 DEF Configure, TypeOK
  <2>2. UNCHANGED <<rules, anyRequest, poisoned, written, layer, key, requests, world, metrics>>
    BY <1>2 DEF Configure
  <2> QED
    BY <2>1, <2>2 DEF TypeOK, requests, world, metrics
<1>3. CASE \E k \in Key : Build(k)
  <2>1. layer' \in {"failed", "built"} /\ key' \in Key
    BY <1>3 DEF Build
  <2>2. UNCHANGED <<rules, anyRequest, validator, cookieName, poisoned, written,
                    requests, world, metrics>>
    BY <1>3 DEF Build
  <2> QED
    BY <2>1, <2>2 DEF TypeOK, requests, world, metrics
<1>4. ASSUME NEW s \in Slot, NEW r \in Requests, Arrive(s, r)
      PROVE  TypeOK'
  <2>1. /\ EffectFor(r) \in Effect /\ r \in Request
        /\ Decode(ExtractToken(r)) \in Token \union {NoToken}
    BY EffectForType, ChainAssumption DEF Decode
  <2>2. /\ req' = [req EXCEPT ![s] = r]
        /\ effect' = [effect EXCEPT ![s] = EffectFor(r)]
        /\ claims' = [claims EXCEPT ![s] = Decode(ExtractToken(r))]
        /\ \E at \in Stage : stage' = [stage EXCEPT ![s] = at]
        /\ revokedBefore' = [revokedBefore EXCEPT ![s] = revoked]
        /\ UNCHANGED <<chain, context, status, world, metrics>>
    BY <1>4 DEF Arrive, Stage
  <2> QED
    BY <2>1, <2>2 DEF TypeOK, chain, world, metrics
<1>5. ASSUME NEW s \in Slot,
             ValidatorAccepts(s) \/ ValidatorRejects(s) \/ Allow(s)
      PROVE  TypeOK'
  <2>1. /\ \E at \in {"answering", "handler"} : stage' = [stage EXCEPT ![s] = at]
        /\ claims' = claims \/ claims' = [claims EXCEPT ![s] = NoToken]
        /\ context' = context \/ context' = [context EXCEPT ![s] = claims[s]]
        /\ UNCHANGED <<chain, req, effect, status, revokedBefore, world, metrics>>
    BY <1>5 DEF ValidatorAccepts, ValidatorRejects, Allow
  <2>2. stage' \in [Slot -> Stage]
    BY <2>1 DEF TypeOK, Stage
  <2>3. /\ claims' \in [Slot -> Token \union {NoToken}]
        /\ context' \in [Slot -> Token \union {NoToken}]
    BY <2>1 DEF TypeOK
  <2> QED
    BY <2>1, <2>2, <2>3 DEF TypeOK, chain, world, metrics
<1>6. ASSUME NEW s \in Slot, Reject(s)
      PROVE  TypeOK'
  <2>1. /\ \E at \in Stage : stage' = [stage EXCEPT ![s] = at]
        /\ \E c \in {401, 403} : status' = [status EXCEPT ![s] = c]
        /\ UNCHANGED <<chain, req, effect, claims, context, revokedBefore, world, provider>>
    BY <1>6 DEF Reject, Stage
  <2>2. /\ rejections' \in 0 .. MaxRejections
        /\ counted' \in 0 .. rejections' /\ early' \in 0 .. rejections'
        /\ counter' \in {"unbound", "noop", "real"}
    BY <1>6, BoundsAssumption DEF Reject, CountRejection, TypeOK
  <2> QED
    BY <2>1, <2>2 DEF TypeOK, chain, world
<1>7. ASSUME NEW s \in Slot, Handle(s)
      PROVE  TypeOK'
  <2>1. /\ \E at \in Stage : stage' = [stage EXCEPT ![s] = at]
        /\ \E c \in {200, 401} : status' = [status EXCEPT ![s] = c]
        /\ UNCHANGED <<chain, req, effect, claims, context, revokedBefore, world, metrics>>
    BY <1>7 DEF Handle, Stage
  <2> QED
    BY <2>1 DEF TypeOK, chain, world, metrics
<1>8. ASSUME NEW s \in Slot, Leave(s)
      PROVE  TypeOK'
  <2>1. NoEffect \in Effect /\ "free" \in Stage
    BY DEF NoEffect, Effect, Stage
  <2> QED
    BY <1>8, <2>1 DEF Leave, TypeOK, chain, world, metrics
<1>9. CASE \E t \in Token : Expire(t) \/ Revoke(t)
  BY <1>9 DEF Expire, Revoke, TypeOK, chain, requests, metrics
<1>10. CASE InstallProvider
  BY <1>10 DEF InstallProvider, TypeOK, chain, requests, world
<1>11. CASE UNCHANGED vars
  BY <1>11 DEF vars, TypeOK, chain, requests, world, metrics
<1> QED
  BY <1>1, <1>2, <1>3, <1>4, <1>5, <1>6, <1>7, <1>8, <1>9, <1>10, <1>11 DEF Next

-----------------------------------------------------------------------------
(* The invariant holds in every reachable state.                              *)
THEOREM InvCorrect == Spec => []IInv
<1>1. IInv /\ [Next]_vars => IInv'
  BY TypeStep, ChainStep, SlotStep, CounterStep DEF IInv
<1> QED
  BY <1>1, InitInv, PTL DEF Spec

(* Builder, layer and counter keep their shape.                               *)
THEOREM TypeCorrect == Spec => []TypeOK
<1>1. IInv => TypeOK
  BY DEF IInv
<1> QED
  BY <1>1, InvCorrect, PTL

(* A chain with a mistake anywhere, or without a terminal rule, is never built. *)
THEOREM BadChainNeverServesHolds == Spec => []BadChainNeverServes
<1>1. IInv => BadChainNeverServes
  <2> SUFFICES ASSUME IInv, layer = "built"
               PROVE  /\ Terminals # {}
                      /\ \A k \in DOMAIN written : written[k].pattern \notin BadPattern
    BY DEF BadChainNeverServes
  <2> QED
    BY DEF IInv, ChainKept, LastTerminal
<1> QED
  BY <1>1, InvCorrect, PTL

(* What the builder kept decides a request as the written chain does.         *)
LEMMA EffectIsGoverning ==
    ASSUME IInv, layer = "built", NEW r \in Requests
    PROVE  EffectFor(r) = Governing(r)
<1>1. AgreeOn(r) /\ LastTerminal /\ anyRequest # NoEffect
  BY DEF IInv, ChainKept
<1>2. EffectFor(r) = IF RuleHits(r) = {} THEN anyRequest ELSE rules[Min(RuleHits(r))].effect
  BY DEF EffectFor, RuleHits
<1>3. Governing(r) = IF WrittenHits(r) = {} THEN written[Max(Terminals)].effect
                     ELSE written[Min(WrittenHits(r))].effect
  BY DEF Governing, WrittenHits
<1> QED
  BY <1>1, <1>2, <1>3 DEF AgreeOn, LastTerminal

(* No request passes the layer but on the terms of the first statement written *)
(* for it, whatever the chain.                                              *)
THEOREM GatekeepingHolds == Spec => []Gatekeeping
<1>1. IInv => Gatekeeping
  <2> SUFFICES ASSUME IInv, NEW s \in Slot, stage[s] = "handler"
               PROVE  \/ Governing(req[s]).kind = "permit"
                      \/ /\ context[s] # NoToken
                         /\ Governing(req[s]).kind = "role" =>
                               RoleOf[context[s]] \in Governing(req[s]).roles
    BY DEF Gatekeeping
  <2>1. /\ layer = "built" /\ req[s] \in Requests /\ effect[s] = EffectFor(req[s])
        /\ Allowed(s) /\ context[s] = claims[s]
    BY DEF IInv, SlotShape
  <2>2. effect[s] = Governing(req[s])
    BY <2>1, EffectIsGoverning
  <2> QED
    BY <2>1, <2>2 DEF Allowed, HasRole
<1> QED
  BY <1>1, InvCorrect, PTL

(* A token revoked before the request came in never becomes its context, and   *)
(* never makes it a 403, however the validator, the clients and time interleave. *)
THEOREM RevokedStaysOutHolds == Spec => []RevokedStaysOut
<1>1. IInv => RevokedStaysOut
  <2> SUFFICES ASSUME IInv, NEW s \in Slot, validator
               PROVE  /\ context[s] \notin revokedBefore[s]
                      /\ status[s] = 403 => claims[s] \notin revokedBefore[s]
    BY DEF RevokedStaysOut
  <2>1. SlotShape(s) /\ stage[s] \in Stage /\ revokedBefore[s] \subseteq Token
    BY DEF IInv, TypeOK
  <2>2. stage[s] \in {"answering", "handler", "answered"} => claims[s] \notin revokedBefore[s]
    BY <2>1 DEF SlotShape
  <2>3. NoToken \notin revokedBefore[s]
    BY <2>1, TokenAssumption
  <2> QED
    BY <2>1, <2>2, <2>3 DEF SlotShape, Stage
<1> QED
  BY <1>1, InvCorrect, PTL

(* Every rejection is counted, unless one came before the provider was there.   *)
THEOREM FailuresCountedHolds == Spec => []FailuresCounted
<1>1. IInv => FailuresCounted
  BY DEF IInv, CounterBound, FailuresCounted
<1> QED
  BY <1>1, InvCorrect, PTL
=============================================================================
