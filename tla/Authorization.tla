----------------------------- MODULE Authorization -----------------------------
(***************************************************************************)
(* stano-axum's request authorization: the AuthorizationBuilder chain an    *)
(* application writes, and the AuthorizationLayer built from it, which      *)
(* checks every request before the rest of the service sees it.             *)
(*                                                                         *)
(* A statement of the chain is request_matcher(pattern) or any_request(),   *)
(* narrowed by methods() and ended by permit_all(), authenticated() or      *)
(* has_role().  The builder is moved from call to call, so a statement is   *)
(* one step.  Its `methods` is the whole of Method where methods() was not  *)
(* called, its effect's `roles` the extensions the predicate accepts.       *)
(*                                                                         *)
(* The layer's check runs without a pause up to the claims validator, an    *)
(* async function of the application (typically a lookup of the session):   *)
(* while it is awaited, other requests are checked, tokens expire, sessions *)
(* are revoked and clients go away.                                        *)
(***************************************************************************)
EXTENDS Naturals, SequencesExt

CONSTANTS
    Method, Path,
    Pattern,        \* patterns matchit accepts
    BadPattern,     \* patterns it rejects
    Matches,        \* pattern -> the paths its router matches
    AnyRequest,     \* the pattern of any_request()
    Role,           \* values of the claims extension
    Statements,     \* statements an application writes
    Token, NoToken,
    RoleOf,         \* token -> its claims extension
    KeyOf,          \* token -> the key that signed it
    Key,            \* public keys the layer is built with
    Requests,       \* requests clients send
    NotBearer,      \* an Authorization header of another scheme
    Slot,           \* requests in progress at once
    MaxStatements,  \* bound: statements in a chain
    MaxEvents,      \* bound: tokens expired or revoked
    MaxRejections   \* bound: rejections, so that the counter is finite

NoEffect == [kind |-> "none", roles |-> {}]
Effect == [kind : {"permit", "authenticated", "role", "none"}, roles : SUBSET Role]
Statement ==
    [pattern : Pattern \union BadPattern \union {AnyRequest},
     methods : SUBSET Method,
     effect : Effect]
Request ==
    [method : Method, path : Path,
     header : Token \union {NoToken, NotBearer},    \* Authorization
     cookie : Token \union {NoToken}]               \* the configured cookie

ASSUME ChainAssumption ==
    /\ Statements \subseteq Statement
    /\ Requests \subseteq Request
    /\ Matches \in [Pattern -> SUBSET Path]
    /\ Pattern \intersect BadPattern = {}
    /\ AnyRequest \notin Pattern \union BadPattern
ASSUME TokenAssumption ==
    /\ RoleOf \in [Token -> Role]
    /\ DOMAIN KeyOf = Token
    /\ NoToken \notin Token /\ NotBearer \notin Token /\ NotBearer # NoToken
ASSUME BoundsAssumption ==
    MaxStatements \in Nat /\ MaxEvents \in Nat /\ MaxRejections \in Nat

VARIABLES
    rules, anyRequest, validator, cookieName, poisoned,     \* AuthorizationBuilder
    written,        \* the statements as the application wrote them
    layer,          \* "building" | "failed" | "built"
    key,            \* jwt_config's public key
    stage,          \* slot -> where its request is
    req,            \* slot -> the request
    effect,         \* slot -> the effect that governs it
    claims,         \* slot -> the token whose claims were decoded
    context,        \* slot -> the token whose SecurityContext was inserted
    status,         \* slot -> the answer
    revokedBefore,  \* slot -> tokens revoked when the request came in
    expired, revoked,
    provider,       \* the global meter provider
    counter,        \* the provider that failure_counter is bound to
    counted,        \* http.server.auth.failures, as the real provider saw it
    rejections,     \* 401s and 403s the layer answered
    early           \* those answered before the real provider was installed

chain == <<rules, anyRequest, validator, cookieName, poisoned, written, layer, key>>
requests == <<stage, req, effect, claims, context, status, revokedBefore>>
world == <<expired, revoked>>
metrics == <<provider, counter, counted, rejections, early>>
vars == <<chain, requests, world, metrics>>

Stage == {"free", "validating", "answering", "handler", "answered"}
NoRequest == [method |-> "none", path |-> "none", header |-> NoToken, cookie |-> NoToken]

TypeOK ==
    /\ rules \in Seq([pattern : Pattern, methods : SUBSET Method, effect : Effect])
    /\ anyRequest \in Effect
    /\ validator \in BOOLEAN /\ cookieName \in BOOLEAN /\ poisoned \in BOOLEAN
    /\ written \in Seq(Statement)
    /\ layer \in {"building", "failed", "built"}
    /\ key \in Key \union {"none"}
    /\ stage \in [Slot -> Stage]
    /\ req \in [Slot -> Request \union {NoRequest}]
    /\ effect \in [Slot -> Effect]
    /\ claims \in [Slot -> Token \union {NoToken}]
    /\ context \in [Slot -> Token \union {NoToken}]
    /\ status \in [Slot -> {0, 200, 401, 403}]
    /\ revokedBefore \in [Slot -> SUBSET Token]
    /\ expired \subseteq Token /\ revoked \subseteq Token
    /\ provider \in {"noop", "real"} /\ counter \in {"unbound", "noop", "real"}
    /\ rejections \in 0 .. MaxRejections
    /\ counted \in 0 .. rejections /\ early \in 0 .. rejections

Init ==
    /\ rules = <<>> /\ anyRequest = NoEffect
    /\ validator = FALSE /\ cookieName = FALSE /\ poisoned = FALSE
    /\ written = <<>> /\ layer = "building" /\ key = "none"
    /\ stage = [s \in Slot |-> "free"]
    /\ req = [s \in Slot |-> NoRequest]
    /\ effect = [s \in Slot |-> NoEffect]
    /\ claims = [s \in Slot |-> NoToken]
    /\ context = [s \in Slot |-> NoToken]
    /\ status = [s \in Slot |-> 0]
    /\ revokedBefore = [s \in Slot |-> {}]
    /\ expired = {} /\ revoked = {}
    /\ provider = "noop" /\ counter = "unbound" /\ counted = 0 /\ rejections = 0
    /\ early = 0
-----------------------------------------------------------------------------
(* The builder.                                                            *)

(* mutant of Finish: a pattern that does not compile is skipped *)
Finish_SkipBad(w) ==
    IF w.pattern \in BadPattern THEN UNCHANGED <<rules, anyRequest, poisoned>>
    ELSE IF w.pattern = AnyRequest
    THEN anyRequest' = w.effect /\ UNCHANGED <<rules, poisoned>>
    ELSE rules' = Append(rules, w) /\ UNCHANGED <<anyRequest, poisoned>>

(* permit_all, authenticated, has_role and has_any_role end a statement; the  *)
(* first pattern that does not compile poisons the chain, and the methods of   *)
(* an any_request() statement are not kept                                  *)
Finish(w) ==
    \/ /\ w.pattern = AnyRequest
       /\ anyRequest' = w.effect
       /\ UNCHANGED <<rules, poisoned>>
    \/ /\ w.pattern \in Pattern
       /\ rules' = Append(rules, w)
       /\ UNCHANGED <<anyRequest, poisoned>>
    \/ /\ w.pattern \in BadPattern
       /\ poisoned' = TRUE
       /\ UNCHANGED <<rules, anyRequest>>

Write(w) ==
    /\ layer = "building"
    /\ Len(written) < MaxStatements
    /\ Finish(w)
    /\ written' = Append(written, w)
    /\ UNCHANGED <<validator, cookieName, layer, key, requests, world, metrics>>

(* with_claims_validator, cookie_name *)
Configure ==
    /\ layer = "building"
    /\ \/ validator' = TRUE /\ UNCHANGED cookieName
       \/ cookieName' = TRUE /\ UNCHANGED validator
    /\ UNCHANGED <<rules, anyRequest, poisoned, written, layer, key, requests, world, metrics>>

(* build: InvalidPattern, then MissingAnyRequest, then the layer *)
Build(k) ==
    /\ layer = "building"
    /\ layer' = IF poisoned \/ anyRequest = NoEffect THEN "failed" ELSE "built"
    /\ key' = k
    /\ UNCHANGED <<rules, anyRequest, validator, cookieName, poisoned, written,
                   requests, world, metrics>>

-----------------------------------------------------------------------------
(* The layer.                                                              *)

Applies(rule, r) == r.method \in rule.methods /\ r.path \in Matches[rule.pattern]

(* mutant of EffectFor: the rule written last wins *)
EffectFor_Last(r) ==
    LET hits == {k \in DOMAIN rules : Applies(rules[k], r)}
    IN  IF hits = {} THEN anyRequest ELSE rules[Max(hits)].effect

(* CheckState::check: the first rule that applies *)
EffectFor(r) ==
    LET hits == {k \in DOMAIN rules : Applies(rules[k], r)}
    IN  IF hits = {} THEN anyRequest ELSE rules[Min(hits)].effect

(* extract_token *)
ExtractToken(r) ==
    IF r.header \in Token THEN r.header
    ELSE IF cookieName THEN r.cookie ELSE NoToken

(* decode_jwt: signed with the configured key and not past its exp *)
Decode(t) == IF t \in Token /\ KeyOf[t] = key /\ t \notin expired THEN t ELSE NoToken

HasRole(e, t) == e.kind = "role" /\ RoleOf[t] \in e.roles

(* mutant of NeedsValidator: a request that is let in anyway is not looked up *)
NeedsValidator_NotIfPermitted(e, t) == t # NoToken /\ validator /\ e.kind # "permit"

NeedsValidator(e, t) == t # NoToken /\ validator

(* a request comes in: its effect is chosen and its token decoded *)
Arrive(s, r) ==
    /\ layer = "built"
    /\ stage[s] = "free"
    /\ req' = [req EXCEPT ![s] = r]
    /\ effect' = [effect EXCEPT ![s] = EffectFor(r)]
    /\ claims' = [claims EXCEPT ![s] = Decode(ExtractToken(r))]
    /\ stage' = [stage EXCEPT ![s] =
                     IF NeedsValidator(effect'[s], claims'[s]) THEN "validating" ELSE "answering"]
    /\ revokedBefore' = [revokedBefore EXCEPT ![s] = revoked]
    /\ UNCHANGED <<chain, context, status, world, metrics>>

(* the validator finds the session alive *)
ValidatorAccepts(s) ==
    /\ stage[s] = "validating"
    /\ claims[s] \notin revoked
    /\ stage' = [stage EXCEPT ![s] = "answering"]
    /\ UNCHANGED <<chain, req, effect, claims, context, status, revokedBefore, world, metrics>>

(* it finds it revoked, or fails: as if the token had not decoded *)
ValidatorRejects(s) ==
    /\ stage[s] = "validating"
    /\ stage' = [stage EXCEPT ![s] = "answering"]
    /\ claims' = [claims EXCEPT ![s] = NoToken]
    /\ UNCHANGED <<chain, req, effect, context, status, revokedBefore, world, metrics>>

(* apply_effect's Outcome::Allow *)
Allowed(s) ==
    \/ effect[s].kind = "permit"
    \/ claims[s] # NoToken /\ (effect[s].kind = "authenticated" \/ HasRole(effect[s], claims[s]))

Allow(s) ==
    /\ stage[s] = "answering"
    /\ Allowed(s)
    /\ context' = [context EXCEPT ![s] = claims[s]]
    /\ stage' = [stage EXCEPT ![s] = "handler"]
    /\ UNCHANGED <<chain, req, effect, claims, status, revokedBefore, world, metrics>>

(* mutant of CountRejection: the counter is looked up when the layer is built, *)
(* before the launcher installs the provider                                 *)
CountRejection_Eager ==
    /\ counter' = "noop"
    /\ UNCHANGED counted

(* mutant of CountRejection: the layer and its clone both count *)
CountRejection_Twice ==
    /\ counter' = IF counter = "unbound" THEN provider ELSE counter
    /\ counted' = IF counter' = "real" THEN counted + 2 ELSE counted

(* failure_counter.get_or_init(global::meter ..).add(1) *)
CountRejection ==
    /\ counter' = IF counter = "unbound" THEN provider ELSE counter
    /\ counted' = IF counter' = "real" THEN counted + 1 ELSE counted

Reject(s) ==
    /\ stage[s] = "answering"
    /\ ~Allowed(s)
    /\ rejections < MaxRejections
    /\ CountRejection
    /\ rejections' = rejections + 1
    /\ early' = IF provider = "noop" THEN early + 1 ELSE early
    /\ status' = [status EXCEPT ![s] = IF claims[s] = NoToken THEN 401 ELSE 403]
    /\ stage' = [stage EXCEPT ![s] = "answered"]
    /\ UNCHANGED <<chain, req, effect, claims, context, revokedBefore, world, provider>>

(* the handler; AppSecurityContext as an argument wants a context *)
Handle(s) ==
    /\ stage[s] = "handler"
    /\ \E wantsContext \in BOOLEAN :
          status' = [status EXCEPT ![s] = IF wantsContext /\ context[s] = NoToken THEN 401 ELSE 200]
    /\ stage' = [stage EXCEPT ![s] = "answered"]
    /\ UNCHANGED <<chain, req, effect, claims, context, revokedBefore, world, metrics>>

(* the answer is sent, or the client goes away and the future is dropped at   *)
(* the await it stands in                                                   *)
Leave(s) ==
    /\ stage[s] \in {"validating", "handler", "answered"}
    /\ stage' = [stage EXCEPT ![s] = "free"]
    /\ req' = [req EXCEPT ![s] = NoRequest]
    /\ effect' = [effect EXCEPT ![s] = NoEffect]
    /\ claims' = [claims EXCEPT ![s] = NoToken]
    /\ context' = [context EXCEPT ![s] = NoToken]
    /\ status' = [status EXCEPT ![s] = 0]
    /\ revokedBefore' = [revokedBefore EXCEPT ![s] = {}]
    /\ UNCHANGED <<chain, world, metrics>>

-----------------------------------------------------------------------------
(* Around the layer: time, the application's session store, the launcher.   *)

Events == Cardinality(expired) + Cardinality(revoked)

Expire(t) ==
    /\ Events < MaxEvents
    /\ t \notin expired
    /\ expired' = expired \union {t}
    /\ UNCHANGED <<chain, requests, revoked, metrics>>

Revoke(t) ==
    /\ Events < MaxEvents
    /\ t \notin revoked
    /\ revoked' = revoked \union {t}
    /\ UNCHANGED <<chain, requests, expired, metrics>>

(* observability::init, which run() calls before it serves; a layer can also   *)
(* serve without the launcher                                                *)
InstallProvider ==
    /\ provider = "noop"
    /\ provider' = "real"
    /\ UNCHANGED <<chain, requests, world, counter, counted, rejections, early>>

Next ==
    \/ \E w \in Statements : Write(w)
    \/ Configure
    \/ \E k \in Key : Build(k)
    \/ \E s \in Slot :
          \/ \E r \in Requests : Arrive(s, r)
          \/ ValidatorAccepts(s) \/ ValidatorRejects(s)
          \/ Allow(s) \/ Reject(s) \/ Handle(s) \/ Leave(s)
    \/ \E t \in Token : Expire(t) \/ Revoke(t)
    \/ InstallProvider

Spec == Init /\ [][Next]_vars

-----------------------------------------------------------------------------
(* The chain as the application wrote it, read without the builder: the first *)
(* statement that matches the request, else the last any_request().           *)
Matchers == {k \in DOMAIN written : written[k].pattern # AnyRequest}
Terminals == DOMAIN written \ Matchers

Governing(r) ==
    LET hits == {k \in Matchers : written[k].pattern \in Pattern /\ Applies(written[k], r)}
    IN  IF hits = {} THEN written[Max(Terminals)].effect
        ELSE written[Min(hits)].effect

(* No layer is built from a chain with a pattern that does not compile or      *)
(* without a terminal rule, wherever in the chain the mistake is and whatever  *)
(* was written after it.                                                    *)
BadChainNeverServes ==
    layer = "built" =>
        /\ Terminals # {}
        /\ \A k \in DOMAIN written : written[k].pattern \notin BadPattern

(* A request gets past the layer only on the terms of the first statement the   *)
(* application wrote for it: unless that permits everybody, with a context, and *)
(* with one of the roles it names.                                          *)
Gatekeeping ==
    \A s \in Slot : stage[s] = "handler" =>
        LET e == Governing(req[s])
        IN  \/ e.kind = "permit"
            \/ context[s] # NoToken /\ (e.kind = "role" => RoleOf[context[s]] \in e.roles)

(* With a claims validator, a token revoked before the request came in never   *)
(* becomes its security context, not even where everybody is let in, and its    *)
(* holder is nobody the layer knows: 401, not 403.                           *)
RevokedStaysOut ==
    \A s \in Slot : validator =>
        /\ context[s] \notin revokedBefore[s]
        /\ status[s] = 403 => claims[s] \notin revokedBefore[s]

(* The failure counter misses no rejection, though the layer is built before   *)
(* the provider is installed, unless the layer rejected something even then.   *)
FailuresCounted == early = 0 => counted = rejections
=============================================================================
