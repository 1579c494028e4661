-------------------------- MODULE MCMiddlewareLoop -------------------------
(* MiddlewareLoop on small instances.                                       *)
EXTENDS MiddlewareLoop
=============================================================================
