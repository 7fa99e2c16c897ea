---------------------------- MODULE ErrorResponses -----------------------------
(* What a client and the log get to see of an ApiError: IntoResponse for       *)
(* ApiError, and error_logging_middleware, which finds the error in the        *)
(* response's extensions.  Messages and bodies are left out; `details` says    *)
(* whether the error's own text is in the body.                               *)
EXTENDS Naturals

Extraction == {"json", "path", "query"}     \* rejections of axum's extractors
Service == {"notFound", "invalidInput", "conflict", "unauthorized", "forbidden", "serviceInternal"}

(* `status` is axum's for a rejection: 400, 413, 415, 422, and 500 where a      *)
(* handler asks for path parameters that its route does not have             *)
ApiError ==
    [kind : Extraction, status : {400, 413, 415, 422, 500}]
        \union [kind : Service \union {"internal"}, status : {0}]

Rejected(extractor, status) == [kind |-> extractor, status |-> status]
Failed(kind) == [kind |-> kind, status |-> 0]

StatusOf(e) ==
    CASE e.kind \in Extraction -> e.status
      [] e.kind = "notFound" -> 404
      [] e.kind = "invalidInput" -> 400
      [] e.kind = "conflict" -> 409
      [] e.kind = "unauthorized" -> 401
      [] e.kind = "forbidden" -> 403
      [] e.kind \in {"serviceInternal", "internal"} -> 500

IsClientError(status) == status \in 400 .. 499

(* the errors that bring a text of their own *)
Explained(e) == e.kind \in Extraction \union {"invalidInput", "conflict"}

(* those that into_response does not log: "too noisy" *)
Quiet(e) == e.kind \in {"notFound", "unauthorized", "forbidden"}

(* into_response; the middleware logs whatever carries an error *)
ErrorResponse(e) ==
    [status |-> StatusOf(e),
     details |-> IsClientError(StatusOf(e)) /\ Explained(e),
     logged |-> (IF Quiet(e) THEN {} ELSE {"into_response"}) \union {"middleware"}]
=============================================================================
