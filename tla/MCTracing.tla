----------------------------- MODULE MCTracing -----------------------------
(***************************************************************************)
(* Tracing for TLC: model values for two calls, a worker and two server    *)
(* threads.                                                                *)
(***************************************************************************)
EXTENDS Tracing

CONSTANTS c1, c2, g1, u1, u2
=============================================================================
