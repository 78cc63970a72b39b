------------------------------ MODULE MCClient ------------------------------
(* Client for TLC: two scanners to change from one to the other; three     *)
(* starts, for one after a stop, a failure or a change of the settings and *)
(* one after that; the event queue matters only empty and not empty.       *)
EXTENDS Client

CONSTANTS s1, s2
=============================================================================
