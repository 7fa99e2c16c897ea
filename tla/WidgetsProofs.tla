----------------------------- MODULE WidgetsProofs -----------------------------
(***************************************************************************)
(* What the widgets promise for every set of ids and names and any number   *)
(* of requests at once, however many writes arrive late.                     *)
(***************************************************************************)
EXTENDS Widgets, TLAPS

Exists(i) == table[i] # NoName

(* A statement that was sent says what it is about.                          *)
Accepted(r) ==
    /\ r \in Request
    /\ r.kind \in {"create", "update"} => r.name \in Name
    /\ r.kind # "list" => r.id \in Id
    /\ r.kind \in {"get", "update"} => r.path = "ok"

Waiting(s) == stage[s] \in {"querying", "executed"}

SlotInv(s) ==
    /\ stage[s] # "answered" => answer[s] = Unanswered
    /\ Waiting(s) =>
          /\ Accepted(req[s])
          /\ req[s].kind = "create" => req[s].id \in issued
          /\ \A i \in known[s] : Concerns(req[s], i)
    /\ stage[s] = "executed" =>
          /\ rows[s] \in seen[s]
          /\ \A i \in IdsOf(rows[s]) : Exists(i)
          /\ known[s] \subseteq IdsOf(rows[s])
    /\ answer[s].status = 200 => rows[s] \in seen[s]
    /\ answer[s].status = 404 => {} \in seen[s]
    /\ answer[s].status \in {200, 404} => known[s] \subseteq IdsOf(rows[s])

(* The creates on their way, in a slot or left behind: their ids are new, have *)
(* no row, and no two of them have the same.                                 *)
Creating(s) == stage[s] = "querying" /\ req[s].kind = "create"
LateCreates == {r \in late : r.kind = "create"}

LateInv ==
    \A r \in late : Accepted(r) /\ (r.kind = "create" => r.id \in issued)

NoRowYet ==
    /\ \A s \in Slot : Creating(s) => ~Exists(req[s].id)
    /\ \A r \in LateCreates : ~Exists(r.id)

OneCreate ==
    /\ \A s, t \in Slot : Creating(s) /\ Creating(t) /\ req[s].id = req[t].id => s = t
    /\ \A s \in Slot : \A r \in LateCreates : Creating(s) => req[s].id # r.id
    /\ \A r, q \in LateCreates : r.id = q.id => r = q

(* Rows come from creates, and what a client was sent stays.                  *)
TableInv ==
    /\ \A i \in Id : Exists(i) => i \in issued
    /\ \A i \in confirmed : Exists(i)

IInv ==
    /\ TypeOK
    /\ \A s \in Slot : SlotInv(s)
    /\ LateInv
    /\ NoRowYet
    /\ OneCreate
    /\ TableInv

-----------------------------------------------------------------------------
(* Views and statements.                                                    *)

LEMMA IdsOfView ==
    ASSUME NEW t \in Table, NEW r, NEW i
    PROVE  i \in IdsOf(View(r, t)) <=> i \in Id /\ t[i] # NoName /\ Concerns(r, i)
<1>1. ASSUME i \in IdsOf(View(r, t))
      PROVE  i \in Id /\ t[i] # NoName /\ Concerns(r, i)
  <2>1. PICK row \in View(r, t) : i = row[1]
    BY <1>1 DEF IdsOf
  <2>2. row \in Row /\ t[row[1]] = row[2] /\ Concerns(r, row[1])
    BY DEF View, RowsOf
  <2>3. row[1] \in Id /\ row[2] \in Name
    BY <2>2 DEF Row
  <2> QED
    BY <2>1, <2>2, <2>3, WidgetsAssumption
<1>2. ASSUME i \in Id, t[i] # NoName, Concerns(r, i)
      PROVE  i \in IdsOf(View(r, t))
  <2>1. <<i, t[i]>> \in Row
    BY <1>2 DEF Table, Row
  <2>2. <<i, t[i]>> \in View(r, t)
    BY <1>2, <2>1 DEF View, RowsOf
  <2> QED
    BY <2>2 DEF IdsOf
<1> QED
  BY <1>1, <1>2

(* A statement removes no row, touches only its own, and makes one only if it  *)
(* is a create.                                                             *)
LEMMA WrittenFacts ==
    ASSUME TypeOK, NEW r, Accepted(r)
    PROVE  /\ Written(r) \in Table
           /\ \A i \in Id : Exists(i) => Written(r)[i] # NoName
           /\ \A i \in Id : i # r.id => Written(r)[i] = table[i]
           /\ \A i \in Id : r.kind # "create" /\ Written(r)[i] # NoName => Exists(i)
<1>1. table \in Table /\ NoName \notin Name
  BY WidgetsAssumption DEF TypeOK
<1>2. CASE r.kind = "create" \/ (r.kind = "update" /\ table[r.id] # NoName)
  <2>1. r.name \in Name /\ r.id \in Id
    BY <1>2 DEF Accepted
  <2>2. Written(r) = [table EXCEPT ![r.id] = r.name]
    BY <1>2 DEF Written
  <2> QED
    BY <1>1, <1>2, <2>1, <2>2 DEF Table, Exists
<1>3. CASE ~(r.kind = "create" \/ (r.kind = "update" /\ table[r.id] # NoName))
  BY <1>1, <1>3 DEF Written, Exists
<1> QED
  BY <1>2, <1>3

(* Where the handler refuses, the answer is neither a 200 nor a 404.           *)
LEMMA RefusalFacts ==
    ASSUME NEW r \in Requests, NEW e \in Refusal(r)
    PROVE  e \in {Rejected("path", 400), Rejected("json", 400), Rejected("json", 422),
                  Rejected("json", 415), Failed("invalidInput")}
<1>1. r \in Request /\ r.body \in {"ok", "malformed", "wrongShape", "wrongType"}
  BY WidgetsAssumption DEF Request, Body, RejectionStatus
<1>2. r.body # "ok" => RejectionStatus[r.body] \in {400, 422, 415}
  BY <1>1 DEF RejectionStatus
<1> QED
  BY <1>2 DEF Refusal, PathError, BodyError, IdError

LEMMA ErrorFacts ==
    ASSUME NEW e \in {Rejected("path", 400), Rejected("json", 400), Rejected("json", 422),
                      Rejected("json", 415), Failed("invalidInput"), Failed("notFound"),
                      Failed("serviceInternal")}
    PROVE  /\ e \in ApiError
           /\ ErrorResponse(e).status = StatusOf(e)
           /\ ErrorResponse(e).status \in {400, 404, 415, 422, 500}
           /\ ErrorResponse(e).status = 404 <=> e = Failed("notFound")
           /\ ErrorResponse(e).status = 500 => ~ErrorResponse(e).details /\ "into_response" \in ErrorResponse(e).logged
           /\ "middleware" \in ErrorResponse(e).logged
           /\ ErrorResponse(e) \in [status : {StatusOf(x) : x \in ApiError}, details : BOOLEAN,
                                    logged : SUBSET {"into_response", "middleware"}]
<1>1. e \in ApiError
  BY DEF Rejected, Failed, ApiError, Extraction, Service
<1>2. /\ e.kind \in {"path", "json"} => StatusOf(e) = e.status /\ e.status \in {400, 415, 422}
      /\ e.kind = "invalidInput" => StatusOf(e) = 400
      /\ e.kind = "notFound" => StatusOf(e) = 404
      /\ e.kind = "serviceInternal" => StatusOf(e) = 500
      /\ e.kind \in {"path", "json", "invalidInput", "notFound", "serviceInternal"}
      /\ e.kind = "notFound" <=> e = Failed("notFound")
  BY DEF Rejected, Failed, StatusOf, Extraction
<1>3. StatusOf(e) \in {400, 404, 415, 422, 500} /\ (StatusOf(e) = 404 <=> e = Failed("notFound"))
  BY <1>2
<1>4. StatusOf(e) = 500 => e.kind = "serviceInternal"
  BY <1>2
<1>5. /\ ErrorResponse(e).status = StatusOf(e)
      /\ ErrorResponse(e).details = (IsClientError(StatusOf(e)) /\ Explained(e))
      /\ ErrorResponse(e).logged = (IF Quiet(e) THEN {} ELSE {"into_response"}) \union {"middleware"}
  BY DEF ErrorResponse
<1>6. StatusOf(e) = 500 => ~IsClientError(StatusOf(e)) /\ ~Quiet(e)
  BY <1>4 DEF IsClientError, Quiet
<1>7. ErrorResponse(e).logged \in SUBSET {"into_response", "middleware"}
  BY <1>5
<1>8. (IsClientError(StatusOf(e)) /\ Explained(e)) \in BOOLEAN
  OBVIOUS
<1>9. ErrorResponse(e) \in [status : {StatusOf(x) : x \in ApiError}, details : BOOLEAN,
                            logged : SUBSET {"into_response", "middleware"}]
  BY <1>1, <1>5, <1>7, <1>8 DEF ErrorResponse
<1>10. StatusOf(e) = 500 => ~ErrorResponse(e).details /\ "into_response" \in ErrorResponse(e).logged
  BY <1>5, <1>6
<1> QED
  BY <1>1, <1>3, <1>5, <1>9, <1>10

(* What is not refused says what it is about.                                *)
LEMMA AcceptedRequests ==
    ASSUME NEW r \in Requests, Refusal(r) = {}
    PROVE  /\ r \in Request
           /\ r.kind # "create" => Accepted(r)
           /\ r.kind = "create" =>
                 \A i \in Id : Accepted([r EXCEPT !.id = i])
<1>1. r \in Request /\ r.kind \in Kind /\ r.path \in Path /\ r.body \in Body
  BY WidgetsAssumption DEF Request
<1>2. PathError(r) = {} /\ BodyError(r) = {} /\ IdError(r) = {}
  BY DEF Refusal
<1>3. /\ r.kind \in {"get", "update"} => r.path = "ok"
      /\ r.kind \in {"create", "update"} => r.body = "ok"
  BY <1>1, <1>2 DEF PathError, BodyError, IdError, Path
<1>4. /\ r.kind \in {"get", "update"} => r.id \in Id
      /\ r.kind \in {"create", "update"} => r.name \in Name
  BY <1>3, RequestAssumption
<1>5. r.kind # "create" => Accepted(r)
  BY <1>1, <1>3, <1>4 DEF Accepted, Kind
<1>6. ASSUME r.kind = "create", NEW i \in Id
      PROVE  Accepted([r EXCEPT !.id = i])
  <2>1. [r EXCEPT !.id = i] \in Request
    BY <1>1 DEF Request
  <2>2. /\ [r EXCEPT !.id = i].kind = "create" /\ [r EXCEPT !.id = i].id = i
        /\ [r EXCEPT !.id = i].name = r.name
    BY <1>1, <1>6 DEF Request
  <2> QED
    BY <1>4, <1>6, <2>1, <2>2 DEF Accepted
<1> QED
  BY <1>1, <1>5, <1>6

-----------------------------------------------------------------------------
LEMMA InitInv == Init => IInv
<1> SUFFICES ASSUME Init PROVE IInv
  OBVIOUS
<1> USE DEF Init
<1>1. /\ table \in Table /\ late = {} /\ issued = {} /\ confirmed = {}
      /\ \A s \in Slot : stage[s] = "free" /\ answer[s] = Unanswered
      /\ \A i \in Id : ~Exists(i)
  BY DEF Table, Exists
<1>2. TypeOK
  <2>1. Unanswered \in [status : {0, 200} \union {StatusOf(e) : e \in ApiError}, details : BOOLEAN,
                       logged : SUBSET {"into_response", "middleware"}]
    BY DEF Unanswered
  <2>2. answer \in [Slot -> [status : {0, 200} \union {StatusOf(e) : e \in ApiError}, details : BOOLEAN,
                       logged : SUBSET {"into_response", "middleware"}]]
    BY <2>1
  <2>3. Unanswered.status = 0
    BY DEF Unanswered
  <2> QED
    BY <1>1, <2>2, <2>3 DEF TypeOK, Stage
<1>3. \A s \in Slot : SlotInv(s)
  BY <1>1 DEF SlotInv, Waiting, Unanswered
<1>4. LateInv /\ NoRowYet /\ OneCreate /\ TableInv
  BY <1>1 DEF LateInv, NoRowYet, OneCreate, TableInv, Creating, LateCreates
<1> QED
  BY <1>2, <1>3, <1>4 DEF IInv

-----------------------------------------------------------------------------
(* Slots and rows that a step is not about.                                  *)

Unmoved(t) ==
    /\ stage'[t] = stage[t] /\ req'[t] = req[t] /\ rows'[t] = rows[t]
    /\ answer'[t] = answer[t] /\ known'[t] = known[t]
    /\ seen[t] \subseteq seen'[t]

LEMMA OtherSlot ==
    ASSUME IInv, NEW t \in Slot, Unmoved(t), issued \subseteq issued',
           \A i \in Id : Exists(i) => Exists(i)'
    PROVE  SlotInv(t)'
<1>1. SlotInv(t) /\ rows[t] \subseteq Row
  BY DEF IInv, TypeOK
<1>2. \A i \in IdsOf(rows[t]) : i \in Id
  BY <1>1 DEF IdsOf, Row
<1> QED
  BY <1>1, <1>2 DEF SlotInv, Unmoved, Waiting, Accepted, Concerns

(* A statement is given up, answered or left behind: no create appears.       *)
LEMMA PendingMoves ==
    ASSUME IInv, NEW s \in Slot, ~(Creating(s)'), table' = table,
           \A t \in Slot \ {s} : stage'[t] = stage[t] /\ req'[t] = req[t],
           \/ LateCreates' \subseteq LateCreates
           \/ Creating(s) /\ LateCreates' = LateCreates \union {req[s]}
    PROVE  NoRowYet' /\ OneCreate'
<1>1. \A t \in Slot : Creating(t)' => t # s /\ Creating(t) /\ req'[t] = req[t]
  BY DEF Creating
<1>2. NoRowYet /\ OneCreate
  BY DEF IInv
<1>3. NoRowYet'
  BY <1>1, <1>2 DEF NoRowYet, Exists
<1>4. OneCreate'
  <2>1. \A t, u \in Slot : Creating(t)' /\ Creating(u)' /\ req'[t].id = req'[u].id => t = u
    BY <1>1, <1>2 DEF OneCreate
  <2>2. \A t \in Slot : \A r \in LateCreates' : Creating(t)' => req'[t].id # r.id
    BY <1>1, <1>2 DEF OneCreate
  <2>3. \A r, q \in LateCreates' : r.id = q.id => r = q
    BY <1>2 DEF OneCreate
  <2> QED
    BY <2>1, <2>2, <2>3 DEF OneCreate
<1> QED
  BY <1>3, <1>4

LEMMA LeaveBehindFacts ==
    ASSUME IInv, NEW s \in Slot, LeaveBehind(s)
    PROVE  /\ \/ LateCreates' \subseteq LateCreates
              \/ Creating(s) /\ LateCreates' = LateCreates \union {req[s]}
           /\ issued' = issued => LateInv'
           /\ late' \subseteq {r \in Request : r.kind \in {"create", "update"}}
<1>1. late \subseteq {r \in Request : r.kind \in {"create", "update"}} /\ LateInv /\ SlotInv(s)
  BY DEF IInv, TypeOK
<1>2. CASE late' = late
  BY <1>1, <1>2 DEF LateCreates, LateInv, Accepted
<1>3. CASE /\ stage[s] = "querying" /\ req[s].kind \in {"create", "update"}
           /\ late' = late \union {req[s]}
  <2>1. /\ Accepted(req[s]) /\ req[s] \in Request
        /\ req[s].kind = "create" => req[s].id \in issued
    BY <1>1, <1>3 DEF SlotInv, Waiting, Accepted
  <2>2. issued' = issued => LateInv'
    BY <1>1, <1>3, <2>1 DEF LateInv, Accepted
  <2>3. \/ LateCreates' \subseteq LateCreates
        \/ Creating(s) /\ LateCreates' = LateCreates \union {req[s]}
    <3>1. CASE req[s].kind = "create"
      BY <1>3, <3>1 DEF Creating, LateCreates
    <3>2. CASE req[s].kind # "create"
      BY <1>3, <3>2 DEF LateCreates
    <3> QED
      BY <3>1, <3>2
  <2> QED
    BY <1>1, <1>3, <2>1, <2>2, <2>3
<1> QED
  BY <1>2, <1>3 DEF LeaveBehind

-----------------------------------------------------------------------------
(* One lemma per action: everything of the invariant but the types.           *)

SafeInv ==
    /\ \A s \in Slot : SlotInv(s)
    /\ LateInv
    /\ NoRowYet
    /\ OneCreate
    /\ TableInv

LEMMA RefuseStep ==
    ASSUME IInv, NEW s \in Slot, NEW r \in Requests, Refuse(s, r)
    PROVE  SafeInv'
<1>1. /\ UNCHANGED <<table, late, issued, confirmed, rows, seen, known>>
      /\ stage' = [stage EXCEPT ![s] = "answered"] /\ req' = [req EXCEPT ![s] = r]
      /\ stage[s] = "free"
  BY DEF Refuse
<1>2. PICK e \in Refusal(r) : answer' = [answer EXCEPT ![s] = ErrorResponse(e)]
  BY DEF Refuse
<1>3. DOMAIN stage = Slot /\ DOMAIN req = Slot /\ DOMAIN answer = Slot
  BY DEF IInv, TypeOK
<1>4. \A t \in Slot \ {s} : Unmoved(t)
  BY <1>1, <1>2, <1>3 DEF Unmoved
<1>5. SlotInv(s)'
  <2>1. answer'[s].status \notin {200, 404}
    <3>1. e \in {Rejected("path", 400), Rejected("json", 400), Rejected("json", 422),
                 Rejected("json", 415), Failed("invalidInput")}
      BY RefusalFacts
    <3>2. e # Failed("notFound")
      BY <3>1 DEF Rejected, Failed
    <3>3. ErrorResponse(e).status \notin {200, 404}
      BY <3>1, <3>2, ErrorFacts
    <3> QED
      BY <1>2, <1>3, <3>3
  <2>2. stage'[s] = "answered"
    BY <1>1, <1>3
  <2> QED
    BY <2>1, <2>2 DEF SlotInv, Waiting
<1>6. NoRowYet' /\ OneCreate'
  <2>1. ~(Creating(s)') /\ LateCreates' = LateCreates
    BY <1>1, <1>3 DEF Creating, LateCreates
  <2>2. \A t \in Slot \ {s} : stage'[t] = stage[t] /\ req'[t] = req[t]
    BY <1>1, <1>3
  <2> QED
    BY <1>1, <2>1, <2>2, PendingMoves
<1>7. LateInv' /\ TableInv'
  BY <1>1 DEF IInv, LateInv, TableInv, Accepted, Exists
<1>8. \A t \in Slot \ {s} : SlotInv(t)'
  BY <1>1, <1>4, OtherSlot DEF Exists
<1> QED
  BY <1>5, <1>6, <1>7, <1>8 DEF SafeInv

LEMMA QueryStep ==
    ASSUME IInv, NEW s \in Slot, NEW r \in Requests, Query(s, r)
    PROVE  SafeInv'
<1> DEFINE sent == req'[s]
<1>1. /\ UNCHANGED <<table, late, confirmed, rows, answer>>
      /\ stage' = [stage EXCEPT ![s] = "querying"] /\ stage[s] = "free" /\ Refusal(r) = {}
      /\ seen' = [seen EXCEPT ![s] = {View(sent, table)}]
      /\ known' = [known EXCEPT ![s] = {i \in confirmed : Concerns(sent, i)}]
  BY DEF Query
<1>2. /\ DOMAIN stage = Slot /\ DOMAIN req = Slot /\ DOMAIN seen = Slot /\ DOMAIN known = Slot
  BY DEF IInv, TypeOK
<1>3. /\ \A t \in Slot \ {s} : req'[t] = req[t]
      /\ Accepted(sent) /\ issued \subseteq issued'
      /\ sent.kind = "create" => /\ sent.id \in issued' /\ sent.id \notin issued
                                 /\ sent.id \in Id
  <2>1. CASE r.kind # "create" /\ req' = [req EXCEPT ![s] = r] /\ UNCHANGED issued
    <3>1. sent = r /\ \A t \in Slot \ {s} : req'[t] = req[t]
      BY <1>2, <2>1
    <3>2. Accepted(r)
      BY <1>1, <2>1, AcceptedRequests
    <3> QED
      BY <2>1, <3>1, <3>2
  <2>2. CASE r.kind = "create" /\ \E new \in Id \ issued :
                 req' = [req EXCEPT ![s] = [r EXCEPT !.id = new]] /\ issued' = issued \union {new}
    <3>1. PICK new \in Id \ issued :
             req' = [req EXCEPT ![s] = [r EXCEPT !.id = new]] /\ issued' = issued \union {new}
      BY <2>2
    <3>2. sent = [r EXCEPT !.id = new] /\ \A t \in Slot \ {s} : req'[t] = req[t]
      BY <1>2, <3>1
    <3>3. Accepted(sent) /\ r \in Request
      BY <1>1, <2>2, <3>2, AcceptedRequests
    <3>4. sent.id = new
      BY <3>2, <3>3 DEF Request
    <3> QED
      BY <3>1, <3>2, <3>3, <3>4
  <2> QED
    BY <2>1, <2>2 DEF Query
<1>4. TableInv' /\ TableInv
  BY <1>1, <1>3 DEF IInv, TableInv, Exists
<1>5. SlotInv(s)'
  <2>1. /\ stage'[s] = "querying"
        /\ answer'[s] = Unanswered /\ Unanswered.status = 0
        /\ known'[s] = {i \in confirmed : Concerns(sent, i)}
    BY <1>1, <1>2 DEF IInv, SlotInv, Unanswered
  <2> QED
    BY <1>3, <2>1 DEF SlotInv, Waiting, Accepted, Concerns
<1>6. \A t \in Slot \ {s} : SlotInv(t)'
  <2>1. \A t \in Slot \ {s} : Unmoved(t)
    BY <1>1, <1>2, <1>3 DEF Unmoved
  <2> QED
    BY <1>1, <1>3, <2>1, OtherSlot DEF Exists
<1>7. LateInv'
  BY <1>1, <1>3 DEF IInv, LateInv, Accepted
<1>8. /\ LateCreates' = LateCreates
      /\ \A t \in Slot \ {s} : Creating(t)' <=> Creating(t)
      /\ Creating(s)' => sent.kind = "create"
      /\ ~Creating(s)
      /\ \A t \in Slot : Creating(t) => req[t].id \in issued
      /\ \A q \in LateCreates : q.id \in issued
  BY <1>1, <1>2, <1>3 DEF Creating, LateCreates, IInv, SlotInv, Waiting, LateInv
<1>9. NoRowYet'
  <2>1. sent.kind = "create" => ~Exists(sent.id)
    BY <1>3, <1>4 DEF TableInv
  <2> QED
    BY <1>1, <1>3, <1>8, <2>1 DEF IInv, NoRowYet, Exists
<1>10. OneCreate'
  <2>1. \A t, u \in Slot : Creating(t)' /\ Creating(u)' /\ req'[t].id = req'[u].id => t = u
    <3> SUFFICES ASSUME NEW t \in Slot, NEW u \in Slot,
                        Creating(t)', Creating(u)', req'[t].id = req'[u].id
                 PROVE  t = u
      OBVIOUS
    <3>1. CASE t # s /\ u # s
      BY <1>3, <1>8, <3>1 DEF IInv, OneCreate
    <3>2. CASE t = s /\ u # s
      BY <1>3, <1>8, <3>2
    <3>3. CASE t # s /\ u = s
      BY <1>3, <1>8, <3>3
    <3> QED
      BY <3>1, <3>2, <3>3
  <2>2. \A t \in Slot : \A q \in LateCreates' : Creating(t)' => req'[t].id # q.id
    BY <1>3, <1>8 DEF IInv, OneCreate
  <2> QED
    BY <1>8, <2>1, <2>2 DEF IInv, OneCreate
<1> QED
  BY <1>4, <1>5, <1>6, <1>7, <1>9, <1>10 DEF SafeInv

(* A statement of an accepted request is executed, in a slot or late.         *)
LEMMA ApplyFacts ==
    ASSUME IInv, NEW r, Accepted(r), table' = Written(r), issued' = issued,
           confirmed' = confirmed, r.kind = "create" => r.id \in issued
    PROVE  /\ \A i \in Id : Exists(i) => Exists(i)'
           /\ \A i \in Id : i # r.id \/ r.kind # "create" => (Exists(i)' <=> Exists(i))
           /\ TableInv'
<1>1. /\ \A i \in Id : Exists(i) => Written(r)[i] # NoName
      /\ \A i \in Id : i # r.id => Written(r)[i] = table[i]
      /\ \A i \in Id : r.kind # "create" /\ Written(r)[i] # NoName => Exists(i)
  BY WrittenFacts DEF IInv
<1>2. /\ \A i \in Id : Exists(i) => Exists(i)'
      /\ \A i \in Id : i # r.id \/ r.kind # "create" => (Exists(i)' <=> Exists(i))
  BY <1>1 DEF Exists
<1>3. TableInv /\ confirmed \subseteq Id
  BY DEF IInv, TypeOK
<1>4. TableInv'
  BY <1>2, <1>3 DEF TableInv
<1> QED
  BY <1>2, <1>4

(* The ids of the creates on their way are ids.                               *)
LEMMA PendingIds ==
    ASSUME IInv
    PROVE  /\ \A s \in Slot : Creating(s) => req[s].id \in Id
           /\ \A q \in LateCreates : q.id \in Id
BY DEF IInv, SlotInv, LateInv, Creating, LateCreates, Waiting, Accepted

LEMMA ExecuteStep ==
    ASSUME IInv, NEW s \in Slot, Execute(s)
    PROVE  SafeInv'
<1>1. /\ stage[s] = "querying" /\ stage' = [stage EXCEPT ![s] = "executed"]
      /\ table' = Written(req[s])
      /\ rows' = [rows EXCEPT ![s] = View(req[s], Written(req[s]))]
      /\ UNCHANGED <<late, issued, confirmed, req, answer, known>>
      /\ seen' = [t \in Slot |-> IF stage[t] \in {"querying", "executed"}
                                THEN seen[t] \union {View(req[t], table')} ELSE seen[t]]
  BY DEF Execute, Apply, Returned
<1>2. DOMAIN stage = Slot /\ DOMAIN rows = Slot
  BY DEF IInv, TypeOK
<1>3. /\ Accepted(req[s]) /\ (req[s].kind = "create" => req[s].id \in issued)
      /\ \A i \in known[s] : Concerns(req[s], i)
  BY <1>1 DEF IInv, SlotInv, Waiting
<1>4. /\ \A i \in Id : Exists(i) => Exists(i)'
      /\ \A i \in Id : i # req[s].id \/ req[s].kind # "create" => (Exists(i)' <=> Exists(i))
      /\ TableInv'
  BY <1>1, <1>3, ApplyFacts
<1>5. \A t \in Slot \ {s} : SlotInv(t)'
  <2>1. \A t \in Slot \ {s} : Unmoved(t)
    BY <1>1, <1>2 DEF Unmoved
  <2> QED
    BY <1>1, <1>4, <2>1, OtherSlot
<1>6. SlotInv(s)'
  <2> DEFINE after == View(req[s], Written(req[s]))
  <2>1. rows'[s] = after /\ after \in seen'[s] /\ stage'[s] = "executed"
    BY <1>1, <1>2
  <2>2. answer'[s] = Unanswered /\ Unanswered.status = 0
    BY <1>1 DEF IInv, SlotInv, Unanswered
  <2>3. \A i : i \in IdsOf(after) <=> i \in Id /\ Written(req[s])[i] # NoName /\ Concerns(req[s], i)
    BY <1>3, WrittenFacts, IdsOfView DEF IInv
  <2>4. \A i \in IdsOf(after) : Exists(i)'
    BY <1>1, <2>3 DEF Exists
  <2>5. known[s] \subseteq IdsOf(after)
    <3> SUFFICES ASSUME NEW i \in known[s]
                 PROVE  i \in IdsOf(after)
      OBVIOUS
    <3>1. i \in confirmed /\ i \in Id /\ Exists(i)
      BY DEF IInv, TypeOK, TableInv
    <3>2. Written(req[s])[i] # NoName
      BY <1>1, <1>4, <3>1 DEF Exists
    <3> QED
      BY <1>3, <2>3, <3>1, <3>2
  <2> QED
    BY <1>1, <1>3, <2>1, <2>2, <2>4, <2>5 DEF SlotInv, Waiting, Accepted, Concerns
<1>7. LateInv'
  BY <1>1 DEF IInv, LateInv, Accepted
<1>8. /\ LateCreates' = LateCreates
      /\ \A t \in Slot : Creating(t)' => Creating(t) /\ t # s
      /\ req[s].kind = "create" => Creating(s)
  BY <1>1, <1>2 DEF LateCreates, Creating
<1>9. NoRowYet'
  <2>1. \A t \in Slot : Creating(t)' => req[t].id # req[s].id \/ req[s].kind # "create"
    BY <1>8 DEF IInv, OneCreate
  <2>2. \A q \in LateCreates : q.id # req[s].id \/ req[s].kind # "create"
    BY <1>8 DEF IInv, OneCreate
  <2> QED
    BY <1>1, <1>4, <1>8, <2>1, <2>2, PendingIds DEF IInv, NoRowYet
<1>10. OneCreate'
  BY <1>1, <1>8 DEF IInv, OneCreate
<1> QED
  BY <1>4, <1>5, <1>6, <1>7, <1>9, <1>10 DEF SafeInv

LEMMA ReplyStep ==
    ASSUME IInv, NEW s \in Slot, Reply(s)
    PROVE  SafeInv'
<1>1. /\ stage[s] = "executed" /\ stage' = [stage EXCEPT ![s] = "answered"]
      /\ answer' = [answer EXCEPT ![s] = Response(req[s], rows[s])]
      /\ confirmed' = confirmed \union IdsOf(rows[s])
      /\ UNCHANGED <<table, late, issued, req, rows, seen, known>>
  BY DEF Reply
<1>2. DOMAIN stage = Slot /\ DOMAIN answer = Slot
  BY DEF IInv, TypeOK
<1>3. /\ rows[s] \in seen[s] /\ known[s] \subseteq IdsOf(rows[s])
      /\ \A i \in IdsOf(rows[s]) : Exists(i)
  BY <1>1 DEF IInv, SlotInv
<1>4. SlotInv(s)'
  <2>1. Response(req[s], rows[s]).status = 404 => rows[s] = {}
    BY DEF Response, Ok
  <2> QED
    BY <1>1, <1>2, <1>3, <2>1 DEF SlotInv, Waiting
<1>5. \A t \in Slot \ {s} : SlotInv(t)'
  <2>1. \A t \in Slot \ {s} : Unmoved(t)
    BY <1>1, <1>2 DEF Unmoved
  <2> QED
    BY <1>1, <2>1, OtherSlot DEF Exists
<1>6. NoRowYet' /\ OneCreate'
  <2>1. ~(Creating(s)') /\ LateCreates' = LateCreates
    BY <1>1, <1>2 DEF Creating, LateCreates
  <2>2. \A t \in Slot \ {s} : stage'[t] = stage[t] /\ req'[t] = req[t]
    BY <1>1, <1>2
  <2> QED
    BY <1>1, <2>1, <2>2, PendingMoves
<1>7. LateInv' /\ TableInv'
  BY <1>1, <1>3 DEF IInv, LateInv, TableInv, Accepted, Exists
<1> QED
  BY <1>4, <1>5, <1>6, <1>7 DEF SafeInv

LEMMA DatabaseFailsStep ==
    ASSUME IInv, NEW s \in Slot, DatabaseFails(s)
    PROVE  SafeInv'
<1>1. /\ stage' = [stage EXCEPT ![s] = "answered"] /\ rows' = [rows EXCEPT ![s] = {}]
      /\ answer' = [answer EXCEPT ![s] = ErrorResponse(Failed("serviceInternal"))]
      /\ LeaveBehind(s)
      /\ UNCHANGED <<table, issued, confirmed, req, seen, known>>
  BY DEF DatabaseFails, DbError
<1>2. DOMAIN stage = Slot /\ DOMAIN answer = Slot /\ DOMAIN rows = Slot
  BY DEF IInv, TypeOK
<1>3. SlotInv(s)'
  <2>1. Failed("serviceInternal") # Failed("notFound")
    BY DEF Failed
  <2>2. ErrorResponse(Failed("serviceInternal")).status \notin {200, 404}
    BY <2>1, ErrorFacts
  <2> QED
    BY <1>1, <1>2, <2>2 DEF SlotInv, Waiting
<1>4. \A t \in Slot \ {s} : SlotInv(t)'
  <2>1. \A t \in Slot \ {s} : Unmoved(t)
    BY <1>1, <1>2 DEF Unmoved
  <2> QED
    BY <1>1, <2>1, OtherSlot DEF Exists
<1>5. NoRowYet' /\ OneCreate'
  <2>1. ~(Creating(s)')
    BY <1>1, <1>2 DEF Creating
  <2>2. \A t \in Slot \ {s} : stage'[t] = stage[t] /\ req'[t] = req[t]
    BY <1>1, <1>2
  <2> QED
    BY <1>1, <2>1, <2>2, PendingMoves, LeaveBehindFacts
<1>6. LateInv' /\ TableInv'
  BY <1>1, LeaveBehindFacts DEF IInv, TableInv, Exists
<1> QED
  BY <1>3, <1>4, <1>5, <1>6 DEF SafeInv

LEMMA LeaveStep ==
    ASSUME IInv, NEW s \in Slot, Leave(s)
    PROVE  SafeInv'
<1>1. /\ stage' = [stage EXCEPT ![s] = "free"] /\ req' = [req EXCEPT ![s] = NoRequest]
      /\ rows' = [rows EXCEPT ![s] = {}] /\ answer' = [answer EXCEPT ![s] = Unanswered]
      /\ seen' = [seen EXCEPT ![s] = {}] /\ known' = [known EXCEPT ![s] = {}]
      /\ LeaveBehind(s)
      /\ UNCHANGED <<table, issued, confirmed>>
  BY DEF Leave
<1>2. /\ DOMAIN stage = Slot /\ DOMAIN answer = Slot /\ DOMAIN rows = Slot /\ DOMAIN req = Slot
      /\ DOMAIN seen = Slot /\ DOMAIN known = Slot
  BY DEF IInv, TypeOK
<1>3. SlotInv(s)'
  BY <1>1, <1>2 DEF SlotInv, Waiting, Unanswered
<1>4. \A t \in Slot \ {s} : SlotInv(t)'
  <2>1. \A t \in Slot \ {s} : Unmoved(t)
    BY <1>1, <1>2 DEF Unmoved
  <2> QED
    BY <1>1, <2>1, OtherSlot DEF Exists
<1>5. NoRowYet' /\ OneCreate'
  <2>1. ~(Creating(s)')
    BY <1>1, <1>2 DEF Creating
  <2>2. \A t \in Slot \ {s} : stage'[t] = stage[t] /\ req'[t] = req[t]
    BY <1>1, <1>2
  <2> QED
    BY <1>1, <2>1, <2>2, PendingMoves, LeaveBehindFacts
<1>6. LateInv' /\ TableInv'
  BY <1>1, LeaveBehindFacts DEF IInv, TableInv, Exists
<1> QED
  BY <1>3, <1>4, <1>5, <1>6 DEF SafeInv

LEMMA ArriveLateStep ==
    ASSUME IInv, NEW r \in late, ArriveLate(r)
    PROVE  SafeInv'
<1>1. /\ late' = late \ {r}
      /\ UNCHANGED <<issued, confirmed, stage, req, rows, answer, known>>
  BY DEF ArriveLate
<1>2. LateInv' /\ Accepted(r) /\ (r.kind = "create" => r.id \in issued)
  BY <1>1 DEF IInv, LateInv, Accepted
<1>3. LateCreates' = LateCreates \ {r} /\ \A t \in Slot : Creating(t)' <=> Creating(t)
  BY <1>1 DEF LateCreates, Creating
<1>4. OneCreate'
  BY <1>1, <1>3 DEF IInv, OneCreate
<1>5. CASE UNCHANGED <<table, seen>>
  <2>1. \A t \in Slot : SlotInv(t)'
    <3>1. \A t \in Slot : Unmoved(t)
      BY <1>1, <1>5 DEF Unmoved
    <3> QED
      BY <1>1, <1>5, <3>1, OtherSlot DEF Exists
  <2>2. NoRowYet' /\ TableInv'
    BY <1>1, <1>3, <1>5 DEF IInv, NoRowYet, TableInv, Exists
  <2> QED
    BY <1>2, <1>4, <2>1, <2>2 DEF SafeInv
<1>6. CASE Apply(r)
  <2>1. /\ \A i \in Id : Exists(i) => Exists(i)'
        /\ \A i \in Id : i # r.id \/ r.kind # "create" => (Exists(i)' <=> Exists(i))
        /\ TableInv'
    BY <1>1, <1>2, <1>6, ApplyFacts DEF Apply
  <2>2. \A t \in Slot : SlotInv(t)'
    <3>1. \A t \in Slot : Unmoved(t)
      BY <1>1, <1>6 DEF Unmoved, Apply
    <3> QED
      BY <1>1, <2>1, <3>1, OtherSlot
  <2>3. NoRowYet'
    <3>1. r.kind = "create" => r \in LateCreates
      BY DEF LateCreates
    <3>2. \A t \in Slot : Creating(t) => req[t].id # r.id \/ r.kind # "create"
      BY <3>1 DEF IInv, OneCreate
    <3>3. \A q \in LateCreates \ {r} : q.id # r.id \/ r.kind # "create"
      BY <3>1 DEF IInv, OneCreate
    <3> QED
      BY <1>1, <1>3, <2>1, <3>2, <3>3, PendingIds DEF IInv, NoRowYet
  <2> QED
    BY <1>2, <1>4, <2>1, <2>2, <2>3 DEF SafeInv
<1> QED
  BY <1>5, <1>6 DEF ArriveLate

-----------------------------------------------------------------------------
(* Types.                                                                   *)

AnswerType ==
    [status : {0, 200} \union {StatusOf(e) : e \in ApiError}, details : BOOLEAN,
     logged : SUBSET {"into_response", "middleware"}]

(* What TypeOK says of one slot, but for what its request knows.               *)
SlotType(s) ==
    /\ stage[s] \in Stage
    /\ req[s] \in Request \union {NoRequest}
    /\ rows[s] \subseteq Row
    /\ answer[s] \in AnswerType
    /\ seen[s] \subseteq SUBSET Row
    /\ req[s] = NoRequest <=> stage[s] = "free"
    /\ Waiting(s) /\ req[s].kind \in {"get", "update"} => req[s].path = "ok"
    /\ answer[s].status = 500 => ~answer[s].details /\ "into_response" \in answer[s].logged
    /\ answer[s].status >= 400 => "middleware" \in answer[s].logged

SlotDomains ==
    /\ DOMAIN stage = Slot /\ DOMAIN req = Slot /\ DOMAIN rows = Slot
    /\ DOMAIN answer = Slot /\ DOMAIN seen = Slot /\ DOMAIN known = Slot

SlotFunctions ==
    /\ stage = [s \in Slot |-> stage[s]] /\ req = [s \in Slot |-> req[s]]
    /\ rows = [s \in Slot |-> rows[s]] /\ answer = [s \in Slot |-> answer[s]]
    /\ seen = [s \in Slot |-> seen[s]] /\ known = [s \in Slot |-> known[s]]

LEMMA SlotTypes ==
    ASSUME TypeOK
    PROVE  (\A s \in Slot : SlotType(s)) /\ SlotDomains /\ SlotFunctions
BY DEF TypeOK, SlotType, SlotDomains, SlotFunctions, AnswerType, Waiting

SharedType ==
    /\ table \in Table
    /\ late \subseteq {r \in Request : r.kind \in {"create", "update"}}
    /\ issued \subseteq Id /\ confirmed \subseteq issued

LEMMA TypeFromSlots ==
    ASSUME SharedType', SlotFunctions',
           \A s \in Slot : SlotType(s)' /\ known'[s] \subseteq confirmed'
    PROVE  TypeOK'
<1>1. stage' \in [Slot -> Stage] /\ req' \in [Slot -> Request \union {NoRequest}]
  BY DEF SlotType, SlotFunctions
<1>2. rows' \in [Slot -> SUBSET Row] /\ seen' \in [Slot -> SUBSET SUBSET Row]
  BY DEF SlotType, SlotFunctions
<1>3. answer' \in [Slot -> AnswerType] /\ known' \in [Slot -> SUBSET confirmed']
  BY DEF SlotType, SlotFunctions
<1> QED
  BY <1>1, <1>2, <1>3 DEF TypeOK, SlotType, AnswerType, Waiting, SharedType

LEMMA RequestsHaveKinds ==
    ASSUME NEW r \in Request
    PROVE  r # NoRequest
BY DEF Request, Kind, NoRequest

LEMMA UnansweredType ==
    /\ Unanswered \in AnswerType /\ Unanswered.status = 0
    /\ Ok \in AnswerType /\ Ok.status = 200
<1>1. /\ Unanswered.status = 0 /\ Unanswered.details \in BOOLEAN /\ Unanswered.logged = {}
      /\ Ok.status = 200 /\ Ok.details \in BOOLEAN /\ Ok.logged = {}
  BY DEF Unanswered, Ok
<1> QED
  BY <1>1 DEF AnswerType, Unanswered, Ok

(* An error's answer is of its type, and shows and hides what it should.       *)
LEMMA ErrorType ==
    ASSUME NEW e \in {Rejected("path", 400), Rejected("json", 400), Rejected("json", 422),
                      Rejected("json", 415), Failed("invalidInput"), Failed("notFound"),
                      Failed("serviceInternal")}
    PROVE  /\ ErrorResponse(e) \in AnswerType
           /\ ErrorResponse(e).status = 500 =>
                 ~ErrorResponse(e).details /\ "into_response" \in ErrorResponse(e).logged
           /\ "middleware" \in ErrorResponse(e).logged
<1>1. ErrorResponse(e) \in [status : {StatusOf(x) : x \in ApiError}, details : BOOLEAN,
                            logged : SUBSET {"into_response", "middleware"}]
  BY ErrorFacts
<1>2. ErrorResponse(e) \in AnswerType
  BY <1>1 DEF AnswerType
<1> QED
  BY <1>2, ErrorFacts

(* Slots that a step leaves alone keep their type.                            *)
LEMMA OtherSlotType ==
    ASSUME NEW t \in Slot, SlotType(t), seen'[t] = seen[t], Unmoved(t)
    PROVE  SlotType(t)'
BY DEF SlotType, Unmoved, Waiting

LEMMA TypeStep ==
    ASSUME IInv, [Next]_vars
    PROVE  TypeOK'
<1>1. /\ \A t \in Slot : SlotType(t) /\ known[t] \subseteq confirmed
      /\ SlotDomains /\ SlotFunctions /\ SharedType
  BY SlotTypes DEF IInv, TypeOK, SharedType
<1>2. ASSUME NEW s \in Slot, NEW r \in Requests, Refuse(s, r)
      PROVE  TypeOK'
  <2>1. /\ UNCHANGED <<table, late, issued, confirmed, rows, seen, known>>
        /\ stage' = [stage EXCEPT ![s] = "answered"] /\ req' = [req EXCEPT ![s] = r]
    BY <1>2 DEF Refuse
  <2>2. PICK e \in Refusal(r) : answer' = [answer EXCEPT ![s] = ErrorResponse(e)]
    BY <1>2 DEF Refuse
  <2>3. SlotType(s)'
    <3>1. /\ ErrorResponse(e) \in AnswerType
          /\ ErrorResponse(e).status = 500 =>
                ~ErrorResponse(e).details /\ "into_response" \in ErrorResponse(e).logged
          /\ "middleware" \in ErrorResponse(e).logged
      BY RefusalFacts, ErrorType
    <3>2. r \in Request /\ r # NoRequest
      BY RequestsHaveKinds, WidgetsAssumption
    <3>3. stage'[s] = "answered" /\ req'[s] = r /\ answer'[s] = ErrorResponse(e)
      BY <1>1, <2>1, <2>2 DEF SlotDomains
    <3>4. "answered" \in Stage /\ "answered" \notin {"free", "querying", "executed"}
      BY DEF Stage
    <3> QED
      BY <1>1, <2>1, <3>1, <3>2, <3>3, <3>4 DEF SlotType, Waiting
  <2>4. \A t \in Slot \ {s} : SlotType(t)'
    BY <1>1, <2>1, <2>2, OtherSlotType DEF SlotDomains, Unmoved
  <2>5. SlotFunctions' /\ SharedType'
    BY <1>1, <2>1, <2>2 DEF SlotFunctions, SharedType
  <2> QED
    BY <1>1, <2>1, <2>3, <2>4, <2>5, TypeFromSlots
<1>3. ASSUME NEW s \in Slot, NEW r \in Requests, Query(s, r)
      PROVE  TypeOK'
  <2>1. /\ UNCHANGED <<table, late, confirmed, rows, answer>>
        /\ stage' = [stage EXCEPT ![s] = "querying"] /\ stage[s] = "free"
        /\ seen' = [seen EXCEPT ![s] = {View(req'[s], table)}]
        /\ known' = [known EXCEPT ![s] = {i \in confirmed : Concerns(req'[s], i)}]
    BY <1>3 DEF Query
  <2>2. /\ \E q : req' = [req EXCEPT ![s] = q]
        /\ issued \subseteq issued' /\ issued' \subseteq Id
    BY <1>1, <1>3 DEF Query, SharedType
  <2>3. Accepted(req'[s])
    <3>1. SafeInv' /\ Waiting(s)'
      BY <1>1, <1>3, <2>1, QueryStep DEF Waiting, SlotDomains
    <3> QED
      BY <3>1 DEF SafeInv, SlotInv, Accepted
  <2>4. SlotType(s)'
    <3>1. /\ stage'[s] = "querying" /\ answer'[s] = Unanswered /\ rows'[s] = rows[s]
          /\ seen'[s] = {View(req'[s], table)}
      BY <1>1, <2>1 DEF SlotDomains, IInv, SlotInv
    <3>2. View(req'[s], table) \subseteq Row
      BY DEF View, RowsOf
    <3>3. /\ req'[s] \in Request /\ req'[s] # NoRequest
          /\ req'[s].kind \in {"get", "update"} => req'[s].path = "ok"
      BY <2>3, RequestsHaveKinds DEF Accepted
    <3>4. "querying" \in Stage
      BY DEF Stage
    <3> QED
      BY <1>1, <3>1, <3>2, <3>3, <3>4, UnansweredType DEF SlotType, Waiting
  <2>5. \A t \in Slot \ {s} : SlotType(t)' /\ known'[t] = known[t]
    BY <1>1, <2>1, <2>2, OtherSlotType DEF SlotDomains, Unmoved, SlotType, Waiting
  <2>6. SlotFunctions' /\ SharedType' /\ known'[s] \subseteq confirmed'
    <3>1. SharedType'
      BY <1>1, <2>1, <2>2 DEF SharedType
    <3>2. SlotFunctions' /\ known'[s] \subseteq confirmed'
      BY <1>1, <2>1, <2>2 DEF SlotFunctions, SlotDomains
    <3> QED
      BY <3>1, <3>2
  <2> QED
    BY <1>1, <2>1, <2>4, <2>5, <2>6, TypeFromSlots
<1>4. ASSUME NEW s \in Slot, Execute(s)
      PROVE  TypeOK'
  <2>1. /\ stage[s] = "querying" /\ stage' = [stage EXCEPT ![s] = "executed"]
        /\ table' = Written(req[s]) /\ Accepted(req[s])
        /\ rows' = [rows EXCEPT ![s] = View(req[s], Written(req[s]))]
        /\ UNCHANGED <<late, issued, confirmed, req, answer, known>>
        /\ seen' = [t \in Slot |-> IF stage[t] \in {"querying", "executed"}
                                  THEN seen[t] \union {View(req[t], table')} ELSE seen[t]]
    BY <1>4 DEF Execute, Apply, Returned, IInv, SlotInv, Waiting
  <2>2. \A q, t : View(q, t) \subseteq Row
    BY DEF View, RowsOf
  <2>3. SharedType'
    BY <1>1, <2>1, WrittenFacts DEF SharedType, IInv
  <2>4. SlotFunctions' /\ \A t \in Slot : seen'[t] \subseteq SUBSET Row
    <3>1. \A t \in Slot : seen'[t] \subseteq SUBSET Row
      BY <1>1, <2>1, <2>2 DEF SlotType
    <3>2. /\ stage' = [t \in Slot |-> stage'[t]] /\ rows' = [t \in Slot |-> rows'[t]]
          /\ UNCHANGED <<req, answer, known>>
      BY <1>1, <2>1 DEF SlotFunctions
    <3>3. seen' = [t \in Slot |-> seen'[t]]
      BY <2>1
    <3> QED
      BY <1>1, <3>1, <3>2, <3>3 DEF SlotFunctions
  <2>5. \A t \in Slot : rows'[t] \subseteq Row
    BY <1>1, <2>1, <2>2 DEF SlotType, SlotDomains
  <2>6. \A t \in Slot : stage'[t] = IF t = s THEN "executed" ELSE stage[t]
    BY <1>1, <2>1 DEF SlotDomains
  <2>7. \A t \in Slot : SlotType(t)'
    BY <1>1, <2>1, <2>4, <2>5, <2>6 DEF SlotType, Waiting, Stage
  <2> QED
    BY <1>1, <2>1, <2>3, <2>4, <2>7, TypeFromSlots
<1>5. ASSUME NEW s \in Slot, Reply(s)
      PROVE  TypeOK'
  <2>1. /\ stage[s] = "executed" /\ stage' = [stage EXCEPT ![s] = "answered"]
        /\ answer' = [answer EXCEPT ![s] = Response(req[s], rows[s])]
        /\ confirmed' = confirmed \union IdsOf(rows[s])
        /\ UNCHANGED <<table, late, issued, req, rows, seen, known>>
    BY <1>5 DEF Reply
  <2>2. IdsOf(rows[s]) \subseteq issued
    <3>1. \A i \in IdsOf(rows[s]) : i \in Id /\ Exists(i)
      BY <1>1, <2>1 DEF IInv, SlotInv, SlotType, IdsOf, Row
    <3> QED
      BY <3>1 DEF IInv, TableInv
  <2>3. SlotType(s)'
    <3>1. stage'[s] = "answered" /\ answer'[s] = Response(req[s], rows[s])
      BY <1>1, <2>1 DEF SlotDomains
    <3>2. \/ Response(req[s], rows[s]) = Ok
          \/ Response(req[s], rows[s]) = ErrorResponse(Failed("notFound"))
      BY DEF Response
    <3>3. /\ Response(req[s], rows[s]) \in AnswerType
          /\ Response(req[s], rows[s]).status = 500 =>
                ~Response(req[s], rows[s]).details /\ "into_response" \in Response(req[s], rows[s]).logged
          /\ Response(req[s], rows[s]).status >= 400 => "middleware" \in Response(req[s], rows[s]).logged
      <4>1. CASE Response(req[s], rows[s]) = Ok
        BY <4>1, UnansweredType
      <4>2. CASE Response(req[s], rows[s]) = ErrorResponse(Failed("notFound"))
        BY <4>2, ErrorType
      <4> QED
        BY <3>2, <4>1, <4>2
    <3> QED
      BY <1>1, <2>1, <3>1, <3>3 DEF SlotType, Waiting, Stage
  <2>4. \A t \in Slot \ {s} : SlotType(t)'
    BY <1>1, <2>1, OtherSlotType DEF SlotDomains, Unmoved
  <2>5. SlotFunctions' /\ SharedType'
    BY <1>1, <2>1, <2>2 DEF SlotFunctions, SharedType
  <2> QED
    BY <1>1, <2>1, <2>3, <2>4, <2>5, TypeFromSlots
<1>6. ASSUME NEW s \in Slot, DatabaseFails(s)
      PROVE  TypeOK'
  <2>1. /\ stage[s] # "free" /\ stage' = [stage EXCEPT ![s] = "answered"]
        /\ rows' = [rows EXCEPT ![s] = {}]
        /\ answer' = [answer EXCEPT ![s] = ErrorResponse(Failed("serviceInternal"))]
        /\ UNCHANGED <<table, issued, confirmed, req, seen, known>>
    BY <1>6 DEF DatabaseFails, DbError
  <2>2. late' \subseteq {r \in Request : r.kind \in {"create", "update"}}
    BY <1>6, LeaveBehindFacts DEF DatabaseFails
  <2>3. SlotType(s)'
    <3>1. /\ stage'[s] = "answered" /\ rows'[s] = {}
          /\ answer'[s] = ErrorResponse(Failed("serviceInternal"))
      BY <1>1, <2>1 DEF SlotDomains
    <3> QED
      BY <1>1, <2>1, <3>1, ErrorType DEF SlotType, Waiting, Stage
  <2>4. \A t \in Slot \ {s} : SlotType(t)'
    BY <1>1, <2>1, OtherSlotType DEF SlotDomains, Unmoved
  <2>5. SlotFunctions' /\ SharedType'
    BY <1>1, <2>1, <2>2 DEF SlotFunctions, SharedType
  <2> QED
    BY <1>1, <2>1, <2>3, <2>4, <2>5, TypeFromSlots
<1>7. ASSUME NEW s \in Slot, Leave(s)
      PROVE  TypeOK'
  <2>1. /\ stage' = [stage EXCEPT ![s] = "free"] /\ req' = [req EXCEPT ![s] = NoRequest]
        /\ rows' = [rows EXCEPT ![s] = {}] /\ answer' = [answer EXCEPT ![s] = Unanswered]
        /\ seen' = [seen EXCEPT ![s] = {}] /\ known' = [known EXCEPT ![s] = {}]
        /\ UNCHANGED <<table, issued, confirmed>>
    BY <1>7 DEF Leave
  <2>2. late' \subseteq {r \in Request : r.kind \in {"create", "update"}}
    BY <1>7, LeaveBehindFacts DEF Leave
  <2>3. SlotType(s)' /\ known'[s] = {}
    <3>1. /\ stage'[s] = "free" /\ req'[s] = NoRequest /\ rows'[s] = {}
          /\ answer'[s] = Unanswered /\ seen'[s] = {} /\ known'[s] = {}
      BY <1>1, <2>1 DEF SlotDomains
    <3> QED
      BY <3>1, UnansweredType DEF SlotType, Waiting, Stage
  <2>4. \A t \in Slot \ {s} : SlotType(t)' /\ known'[t] = known[t]
    BY <1>1, <2>1, OtherSlotType DEF SlotDomains, Unmoved
  <2>5. SlotFunctions' /\ SharedType'
    BY <1>1, <2>1, <2>2 DEF SlotFunctions, SharedType
  <2> QED
    BY <1>1, <2>1, <2>3, <2>4, <2>5, TypeFromSlots
<1>8. ASSUME NEW r \in late, ArriveLate(r)
      PROVE  TypeOK'
  <2>1. /\ late' = late \ {r} /\ Accepted(r)
        /\ UNCHANGED <<issued, confirmed, stage, req, rows, answer, known>>
    BY <1>8 DEF ArriveLate, IInv, LateInv
  <2>2. /\ table' \in Table /\ SlotFunctions'
        /\ \A t \in Slot : seen'[t] \subseteq SUBSET Row
    <3>1. CASE UNCHANGED <<table, seen>>
      BY <1>1, <2>1, <3>1 DEF SharedType, SlotFunctions, SlotType
    <3>2. CASE Apply(r)
      <4>1. table' \in Table
        BY <2>1, <3>2, WrittenFacts DEF Apply, IInv
      <4>2. \A q, t : View(q, t) \subseteq Row
        BY DEF View, RowsOf
      <4> QED
        BY <1>1, <2>1, <3>2, <4>1, <4>2 DEF Apply, SlotFunctions, SlotType
    <3> QED
      BY <1>8, <3>1, <3>2 DEF ArriveLate
  <2>3. \A t \in Slot : SlotType(t)'
    BY <1>1, <2>1, <2>2 DEF SlotType, Waiting
  <2>4. SharedType'
    BY <1>1, <2>1, <2>2 DEF SharedType
  <2> QED
    BY <1>1, <2>1, <2>2, <2>3, <2>4, TypeFromSlots
<1>9. CASE UNCHANGED vars
  BY <1>9 DEF vars, IInv, TypeOK
<1> QED
  BY <1>2, <1>3, <1>4, <1>5, <1>6, <1>7, <1>8, <1>9 DEF Next

-----------------------------------------------------------------------------
(* The invariant holds in every reachable state.                              *)
THEOREM InvCorrect == Spec => []IInv
<1>1. ASSUME IInv, [Next]_vars
      PROVE  SafeInv'
  <2>1. CASE UNCHANGED vars
    <3>1. \A t \in Slot : SlotInv(t)'
      <4>1. \A t \in Slot : Unmoved(t)
        BY <2>1 DEF vars, Unmoved
      <4> QED
        BY <1>1, <2>1, <4>1, OtherSlot DEF vars, Exists
    <3>2. LateInv' /\ TableInv'
      BY <1>1, <2>1 DEF vars, IInv, LateInv, TableInv, Accepted, Exists
    <3>3. NoRowYet' /\ OneCreate'
      BY <1>1, <2>1 DEF vars, IInv, NoRowYet, OneCreate, Creating, LateCreates, Exists
    <3> QED
      BY <3>1, <3>2, <3>3 DEF SafeInv
  <2>2. CASE Next
    <3>1. \A s \in Slot, r \in Requests : Refuse(s, r) => SafeInv'
      BY <1>1, RefuseStep
    <3>2. \A s \in Slot, r \in Requests : Query(s, r) => SafeInv'
      BY <1>1, QueryStep
    <3>3. \A s \in Slot : Execute(s) \/ Reply(s) => SafeInv'
      BY <1>1, ExecuteStep, ReplyStep
    <3>4. \A s \in Slot : DatabaseFails(s) \/ Leave(s) => SafeInv'
      BY <1>1, DatabaseFailsStep, LeaveStep
    <3>5. \A r \in late : ArriveLate(r) => SafeInv'
      BY <1>1, ArriveLateStep
    <3> QED
      BY <2>2, <3>1, <3>2, <3>3, <3>4, <3>5 DEF Next
  <2> QED
    BY <1>1, <2>1, <2>2
<1>2. IInv /\ [Next]_vars => IInv'
  BY <1>1, TypeStep DEF IInv, SafeInv
<1> QED
  BY <1>2, InitInv, PTL DEF Spec

(* Table, requests and answers keep their shape; no failure shows its text.     *)
THEOREM TypeCorrect == Spec => []TypeOK
<1>1. IInv => TypeOK
  BY DEF IInv
<1> QED
  BY <1>1, InvCorrect, PTL

(* Every 200 and every 404 was true of the table while its request ran.        *)
THEOREM AnswersWereTrueHolds == Spec => []AnswersWereTrue
<1>1. IInv => AnswersWereTrue
  BY DEF IInv, SlotInv, AnswersWereTrue
<1> QED
  BY <1>1, InvCorrect, PTL

(* What a client was sent is there for every later request.                    *)
THEOREM ConfirmedStaysHolds == Spec => []ConfirmedStays
<1>1. IInv => ConfirmedStays
  BY DEF IInv, SlotInv, ConfirmedStays
<1> QED
  BY <1>1, InvCorrect, PTL

(* Rows come from creates only, one each.                                     *)
THEOREM NothingUnmadeHolds == Spec => []NothingUnmade
<1>1. IInv => NothingUnmade
  <2> SUFFICES ASSUME IInv, NEW i \in IdsOf(RowsOf(table))
               PROVE  /\ i \in issued
                      /\ \A s \in Slot : ~(stage[s] = "querying" /\ req[s].kind = "create"
                                           /\ req[s].id = i)
    BY DEF NothingUnmade
  <2>1. PICK row \in Row : row[1] = i /\ table[i] = row[2]
    BY DEF IdsOf, RowsOf
  <2>2. i \in Id /\ Exists(i)
    BY <2>1, WidgetsAssumption DEF Row, Exists
  <2> QED
    BY <2>2 DEF IInv, TableInv, NoRowYet, Creating
<1> QED
  BY <1>1, InvCorrect, PTL
=============================================================================
