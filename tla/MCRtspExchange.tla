---------------------------- MODULE MCRtspExchange ---------------------------
(* RtspExchange for TLC: with two keepalives, one can get what was left of *)
(* the answer to the other.                                                *)
EXTENDS RtspExchange
=============================================================================
