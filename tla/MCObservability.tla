---------------------------- MODULE MCObservability ----------------------------
(* Every configuration; the collector may go down at any moment.             *)
EXTENDS Observability
=============================================================================
