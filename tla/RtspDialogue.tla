---------------------------- MODULE RtspDialogue ----------------------------
(***************************************************************************)
(* The RTSP thread as the scanner meets it: the way through                *)
(* RTSPSession::execute from one request to the next, with the outcomes a  *)
(* request may have and what follows from each.  AudioSession, which has   *)
(* the other threads and takes the outcomes as given, and RtspExchange,    *)
(* which has the network and finds the outcomes out, both implement it.    *)
(***************************************************************************)

VARIABLES
    at,     \* which request is next, or how the session has ended
    rtp     \* has an RTPSession been made for it?

vars == <<at, rtp>>

SetUp     == {"OPTIONS", "DESCRIBE", "SETUP", "PLAY"}
Following == [OPTIONS |-> "DESCRIBE", DESCRIBE |-> "SETUP", SETUP |-> "PLAY"]

Init == at = "none" /\ rtp = FALSE

-----------------------------------------------------------------------------
(* A session is made when there is none, or the last one has ended.        *)
Begin ==
    /\ at \in {"none", "gaveUp", "tornDown"}
    /\ at' = "connect" /\ rtp' = FALSE

Connects     == at = "connect" /\ at' = "OPTIONS" /\ UNCHANGED rtp
ConnectFails == at = "connect" /\ at' = "gaveUp" /\ UNCHANGED rtp

(* 200: the next request, or audio.                                        *)
Accepted ==
    /\ at \in SetUp
    /\ IF at = "PLAY" THEN at' = "loop" /\ rtp' = TRUE
                      ELSE at' = Following[at] /\ UNCHANGED rtp

(* Another status, or a closed connection: the loop without audio.         *)
Refused  == at \in SetUp /\ at' = "loop" /\ UNCHANGED rtp
TimesOut == at \in SetUp /\ at' = "gaveUp" /\ UNCHANGED rtp

(* The answer makes RTSPResponse throw: the process ends.                  *)
Uncaught == at \in SetUp \cup {"loop"} /\ at' = "uncaught" /\ UNCHANGED rtp

(* The RTP port is taken: the session is given up without a TEARDOWN.      *)
BindFails == at = "loop" /\ rtp /\ at' = "gaveUp" /\ UNCHANGED rtp

(* Keepalives change nothing.  The loop ends when one fails, or by stop(): *)
(* there is audio to stop and to tear down, or a null pointer.             *)
LeavesLoop == at = "loop" /\ at' = (IF rtp THEN "teardown" ELSE "null") /\ UNCHANGED rtp
TearsDown  == at = "teardown" /\ at' = "tornDown" /\ UNCHANGED rtp

-----------------------------------------------------------------------------
Next == Begin \/ Connects \/ ConnectFails \/ Accepted \/ Refused \/ TimesOut \/ Uncaught
            \/ BindFails \/ LeavesLoop \/ TearsDown

Spec == Init /\ [][Next]_vars
=============================================================================
