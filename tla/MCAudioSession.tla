--------------------------- MODULE MCAudioSession ---------------------------
(* AudioSession for TLC.  Two sessions are enough for a session to replace *)
(* another, three for one to replace a replacement.                        *)
EXTENDS AudioSession
=============================================================================
