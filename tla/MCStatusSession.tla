--------------------------- MODULE MCStatusSession --------------------------
(* StatusSession for TLC: one start and one stop of it are enough to lose  *)
(* the stop.  Client has the status session over several starts.           *)
EXTENDS StatusSession
=============================================================================
