-------------------------------- MODULE Widgets --------------------------------
(***************************************************************************)
(* The widgets of the example application, from the handler to the table:   *)
(* extraction and the id's parsing, WidgetService and its repository (which  *)
(* hand the call on), one SQL statement, and the mapping of what it returns. *)
(*                                                                         *)
(* Requests run concurrently and share nothing but the table.  A statement   *)
(* is on its way, is executed by the database in one step, and is answered.  *)
(* The connection may fail before or after the statement took effect.  Where *)
(* it fails, or the client or the server's timeout drops the request, the    *)
(* statement may still reach the database later.                            *)
(***************************************************************************)
EXTENDS ErrorResponses, FiniteSets

CONSTANTS
    Slot,           \* requests in progress at once
    Id,             \* ids; WidgetId::new() gives a new one of them
    Name,           \* names of widgets
    NoId, NoName,   \* no id or name in the request, no row in the table
    Requests,       \* requests clients send
    MaxLate         \* bound: statements without a request, at once

Kind == {"create", "get", "update", "list"}
Path == {"ok", "notUtf8", "notUuid"}
RejectionStatus == [malformed |-> 400, wrongShape |-> 422, wrongType |-> 415]
Body == {"ok"} \union DOMAIN RejectionStatus
Request ==
    [kind : Kind, path : Path, id : Id \union {NoId},
     body : Body, name : Name \union {NoName}]
NoRequest == [kind |-> "none"]

ASSUME WidgetsAssumption ==
    /\ NoId \notin Id /\ NoName \notin Name
    /\ Requests \subseteq Request
    /\ MaxLate \in Nat
ASSUME RequestAssumption ==     \* what is accepted says what it is about
    \A r \in Requests :
        /\ r.kind \in {"create", "update"} /\ r.body = "ok" => r.name \in Name
        /\ r.kind \in {"get", "update"} /\ r.path = "ok" => r.id \in Id

VARIABLES
    table,      \* id -> its row's name, or NoName
    late,       \* writes on their way that no request waits for
    issued,     \* ids that create has made
    confirmed,  \* ids that some client has been sent a widget of
    stage,      \* slot -> where its request is
    req,        \* slot -> the request
    rows,       \* slot -> the rows its statement returned
    answer,     \* slot -> the response
    seen,       \* slot -> the views of the table since the statement was sent
    known       \* slot -> ids in its view that were confirmed before

vars == <<table, late, issued, confirmed, stage, req, rows, answer, seen, known>>

Table == [Id -> Name \union {NoName}]
Row == Id \X Name
RowsOf(t) == {r \in Row : t[r[1]] = r[2]}
IdsOf(rs) == {r[1] : r \in rs}

(* what a request is about: the row of its id, or for a list everything *)
Concerns(r, i) == r.kind = "list" \/ i = r.id
View(r, t) == {row \in RowsOf(t) : Concerns(r, row[1])}

Stage == {"free", "querying", "executed", "answered"}
Unanswered == [status |-> 0, details |-> FALSE, logged |-> {}]
Ok == [status |-> 200, details |-> FALSE, logged |-> {}]

TypeOK ==
    /\ table \in Table
    /\ late \subseteq {r \in Request : r.kind \in {"create", "update"}}
    /\ issued \subseteq Id /\ confirmed \subseteq issued
    /\ stage \in [Slot -> Stage]
    /\ req \in [Slot -> Request \union {NoRequest}]
    /\ rows \in [Slot -> SUBSET Row]
    /\ answer \in [Slot -> [status : {0, 200} \union {StatusOf(e) : e \in ApiError}, details : BOOLEAN,
                            logged : SUBSET {"into_response", "middleware"}]]
    /\ seen \in [Slot -> SUBSET SUBSET Row]
    /\ known \in [Slot -> SUBSET confirmed]
    /\ \A s \in Slot : req[s] = NoRequest <=> stage[s] = "free"
    /\ \A s \in Slot :
           stage[s] \in {"querying", "executed"} /\ req[s].kind \in {"get", "update"} =>
               req[s].path = "ok"
    /\ \A s \in Slot :
          /\ answer[s].status = 500 => ~answer[s].details /\ "into_response" \in answer[s].logged
          /\ answer[s].status >= 400 => "middleware" \in answer[s].logged

Init ==
    /\ table = [i \in Id |-> NoName] /\ late = {}
    /\ issued = {} /\ confirmed = {}
    /\ stage = [s \in Slot |-> "free"]
    /\ req = [s \in Slot |-> NoRequest]
    /\ rows = [s \in Slot |-> {}]
    /\ answer = [s \in Slot |-> Unanswered]
    /\ seen = [s \in Slot |-> {}]
    /\ known = [s \in Slot |-> {}]

-----------------------------------------------------------------------------
(* The handler before it calls the service: AppPath, AppJson, then the id.  *)
(* The errors found, of which there is at most one.                         *)

PathError(r) ==
    IF r.kind \in {"get", "update"} /\ r.path = "notUtf8" THEN {Rejected("path", 400)} ELSE {}
BodyError(r) ==
    IF r.kind \in {"create", "update"} /\ r.body # "ok"
    THEN {Rejected("json", RejectionStatus[r.body])} ELSE {}
IdError(r) ==
    IF r.kind \in {"get", "update"} /\ r.path = "notUuid" THEN {Failed("invalidInput")} ELSE {}

(* mutant of Refusal: an id that does not parse is passed on *)
Refusal_AnyId(r) == IF PathError(r) # {} THEN PathError(r) ELSE BodyError(r)

Refusal(r) ==
    IF PathError(r) # {} THEN PathError(r)
    ELSE IF BodyError(r) # {} THEN BodyError(r)
    ELSE IdError(r)

(* The repository's statements: insert, update and select, each with the rows  *)
(* it returns.                                                              *)

(* mutant of Written: save() instead of update() *)
Written_Upsert(r) ==
    IF r.kind \in {"create", "update"} THEN [table EXCEPT ![r.id] = r.name] ELSE table

Written(r) ==
    IF r.kind = "create" \/ (r.kind = "update" /\ table[r.id] # NoName)
    THEN [table EXCEPT ![r.id] = r.name]
    ELSE table

Returned(r) == View(r, Written(r))

(* mutant of DbError: every error of an update is taken for RecordNotUpdated *)
DbError_NotUpdated(r) == Failed(IF r.kind = "update" THEN "notFound" ELSE "serviceInternal")

(* anyhow::Error::from *)
DbError(r) == Failed("serviceInternal")

(* no row: get's ok_or, update's DbErr::RecordNotUpdated *)
Response(r, rs) ==
    IF r.kind \in {"get", "update"} /\ rs = {} THEN ErrorResponse(Failed("notFound")) ELSE Ok

-----------------------------------------------------------------------------
Refuse(s, r) ==
    /\ stage[s] = "free"
    /\ \E e \in Refusal(r) : answer' = [answer EXCEPT ![s] = ErrorResponse(e)]
    /\ stage' = [stage EXCEPT ![s] = "answered"]
    /\ req' = [req EXCEPT ![s] = r]
    /\ UNCHANGED <<table, late, issued, confirmed, rows, seen, known>>

(* the statement is sent, for a create with a new id *)
Query(s, r) ==
    /\ stage[s] = "free"
    /\ Refusal(r) = {}
    /\ \/ /\ r.kind # "create"
          /\ req' = [req EXCEPT ![s] = r]
          /\ UNCHANGED issued
       \/ /\ r.kind = "create"
          /\ \E new \in Id \ issued :
                /\ req' = [req EXCEPT ![s] = [r EXCEPT !.id = new]]
                /\ issued' = issued \union {new}
    /\ stage' = [stage EXCEPT ![s] = "querying"]
    /\ seen' = [seen EXCEPT ![s] = {View(req'[s], table)}]
    /\ known' = [known EXCEPT ![s] = {i \in confirmed : Concerns(req'[s], i)}]
    /\ UNCHANGED <<table, late, confirmed, rows, answer>>

(* the database executes a statement, and whoever waits may see it *)
Apply(r) ==
    /\ table' = Written(r)
    /\ seen' = [s \in Slot |-> IF stage[s] \in {"querying", "executed"}
                               THEN seen[s] \union {View(req[s], table')} ELSE seen[s]]

Execute(s) ==
    /\ stage[s] = "querying"
    /\ Apply(req[s])
    /\ rows' = [rows EXCEPT ![s] = Returned(req[s])]
    /\ stage' = [stage EXCEPT ![s] = "executed"]
    /\ UNCHANGED <<late, issued, confirmed, req, answer, known>>

(* mutant of Reply: the widget is sent back while its insert is on the way *)
Reply_Early(s) ==
    /\ stage[s] = "executed" \/ (stage[s] = "querying" /\ req[s].kind = "create")
    /\ answer' = [answer EXCEPT ![s] =
           IF req[s].kind = "create" THEN Ok ELSE Response(req[s], rows[s])]
    /\ confirmed' = confirmed \union
           (IF req[s].kind = "create" THEN {req[s].id} ELSE IdsOf(rows[s]))
    /\ late' = IF stage[s] = "querying" THEN late \union {req[s]} ELSE late
    /\ stage' = [stage EXCEPT ![s] = "answered"]
    /\ UNCHANGED <<table, issued, req, rows, seen, known>>

Reply(s) ==
    /\ stage[s] = "executed"
    /\ answer' = [answer EXCEPT ![s] = Response(req[s], rows[s])]
    /\ confirmed' = confirmed \union IdsOf(rows[s])
    /\ stage' = [stage EXCEPT ![s] = "answered"]
    /\ UNCHANGED <<table, late, issued, req, rows, seen, known>>

(* a write whose request no longer waits for it *)
LeaveBehind(s) ==
    \/ UNCHANGED late
    \/ /\ stage[s] = "querying" /\ req[s].kind \in {"create", "update"}
       /\ Cardinality(late) < MaxLate
       /\ late' = late \union {req[s]}

(* the statement fails, or its answer does not arrive *)
DatabaseFails(s) ==
    /\ stage[s] \in {"querying", "executed"}
    /\ answer' = [answer EXCEPT ![s] = ErrorResponse(DbError(req[s]))]
    /\ LeaveBehind(s)
    /\ stage' = [stage EXCEPT ![s] = "answered"]
    /\ rows' = [rows EXCEPT ![s] = {}]
    /\ UNCHANGED <<table, issued, confirmed, req, seen, known>>

(* the request is over, or its future is dropped *)
Leave(s) ==
    /\ stage[s] # "free"
    /\ LeaveBehind(s)
    /\ stage' = [stage EXCEPT ![s] = "free"]
    /\ req' = [req EXCEPT ![s] = NoRequest]
    /\ rows' = [rows EXCEPT ![s] = {}]
    /\ answer' = [answer EXCEPT ![s] = Unanswered]
    /\ seen' = [seen EXCEPT ![s] = {}]
    /\ known' = [known EXCEPT ![s] = {}]
    /\ UNCHANGED <<table, issued, confirmed>>

(* a write that was left behind reaches the database, or never does *)
ArriveLate(r) ==
    /\ r \in late
    /\ late' = late \ {r}
    /\ Apply(r) \/ UNCHANGED <<table, seen>>
    /\ UNCHANGED <<issued, confirmed, stage, req, rows, answer, known>>

Next ==
    \/ \E s \in Slot :
          \/ \E r \in Requests : Refuse(s, r) \/ Query(s, r)
          \/ Execute(s) \/ Reply(s) \/ DatabaseFails(s) \/ Leave(s)
    \/ \E r \in late : ArriveLate(r)

Spec == Init /\ [][Next]_vars

-----------------------------------------------------------------------------
(* Every widget or list sent back, and every 404, was true of the table at some *)
(* moment between the request's coming in and its answer: in particular a       *)
(* widget is never said to be missing because the database failed.             *)
AnswersWereTrue ==
    \A s \in Slot : stage[s] = "answered" =>
        /\ answer[s].status = 200 => rows[s] \in seen[s]
        /\ answer[s].status = 404 => {} \in seen[s]

(* A widget once sent to a client is there for every request that comes in      *)
(* afterwards, whatever is dropped, fails or arrives late in between.          *)
ConfirmedStays ==
    \A s \in Slot :
        answer[s].status \in {200, 404} => known[s] \subseteq IdsOf(rows[s])

(* Only create makes widgets: an update of an id that does not exist leaves no  *)
(* row behind, not even when it races with the create of that id or comes late. *)
NothingUnmade ==
    \A i \in IdsOf(RowsOf(table)) :
        /\ i \in issued
        /\ \A s \in Slot : ~(stage[s] = "querying" /\ req[s].kind = "create" /\ req[s].id = i)
=============================================================================
