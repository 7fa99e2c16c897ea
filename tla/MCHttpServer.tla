----------------------------- MODULE MCHttpServer -----------------------------
(* Requests of different kinds at once, under the ways of calling run() that   *)
(* tell its layers apart: everything on; the hook without the authorization    *)
(* and the other way round; and, for one sentence, nothing but the logging.    *)
EXTENDS HttpServer

Sent(type, id) == [type |-> type, id |-> id]
AllKinds ==
    {Sent("ordinary", TRUE), Sent("ordinary", FALSE), Sent("preflight", FALSE),
     Sent("oversized", FALSE), Sent("unmatched", FALSE)}
Ordinary == {Sent("ordinary", FALSE)}

Only(flags) ==
    [metrics |-> "metrics" \in flags, httpLogging |-> "httpLogging" \in flags,
     authorization |-> "authorization" \in flags, hook |-> "hook" \in flags]
Ways ==
    {Only({"metrics", "httpLogging", "authorization", "hook"}),
     Only({"httpLogging", "hook"}), Only({"authorization"})}
LoggingOnly == {Only({"httpLogging"})}
=============================================================================
