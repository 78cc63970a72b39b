---------------------------- MODULE AudioService ----------------------------
(***************************************************************************)
(* What SC_RTaudio promises the frame that drives it, whatever its three   *)
(* threads do: a start comes back having succeeded, failed or not tried, a *)
(* stop comes back, and then nothing of the session is left, here or at    *)
(* the scanner.  AudioSession is shown to implement it; Client is built on *)
(* it.                                                                     *)
(***************************************************************************)

VARIABLES
    call,           \* the call that the GUI thread is in
    started,        \* m_started, what isStarted() says
    connectionFail, \* m_connection_fail, which connectionFail() returns
    held,           \* is a thread of the session or its stream left?
    owed,           \* is the scanner streaming to us, a TEARDOWN owed to it?
    crashed         \* the process is gone, and why

vars == <<call, started, connectionFail, held, owed, crashed>>

Alive == crashed = "no"

Init == /\ call = "none" /\ started = FALSE /\ connectionFail = FALSE
        /\ held = FALSE /\ owed = FALSE
        /\ crashed = "no"

-----------------------------------------------------------------------------
(* start() returns at once, having found no device to play on: it leaves   *)
(* m_connection_fail as the last start set it.                             *)
StartNoDevice ==
    /\ call = "none" /\ ~started
    /\ call' = "returned"
    /\ UNCHANGED <<started, connectionFail, held, owed, crashed>>

Start ==
    /\ call = "none" /\ ~started
    /\ call' = "start"
    /\ started' = TRUE /\ connectionFail' = FALSE /\ held' = TRUE
    /\ UNCHANGED <<owed, crashed>>

StartSucceeds ==
    /\ call = "start"
    /\ call' = "returned"
    /\ UNCHANGED <<started, connectionFail, held, owed, crashed>>

StartFails ==
    /\ call = "start"
    /\ call' = "returned"
    /\ started' = FALSE /\ connectionFail' = TRUE /\ held' = FALSE /\ owed' = FALSE
    /\ UNCHANGED crashed

(* What startScanner does when start() is back: it stops what could not    *)
(* connect.                                                                *)
Returned ==
    /\ call = "returned"
    /\ IF connectionFail THEN call' = "stop" /\ started' = FALSE
                         ELSE call' = "none" /\ UNCHANGED started
    /\ UNCHANGED <<connectionFail, held, owed, crashed>>

Stop ==
    /\ call = "none"
    /\ call' = "stop"
    /\ started' = FALSE
    /\ UNCHANGED <<connectionFail, held, owed, crashed>>

StopReturns ==
    /\ call = "stop"
    /\ call' = "none"
    /\ held' = FALSE /\ owed' = FALSE
    /\ UNCHANGED <<started, connectionFail, crashed>>

-----------------------------------------------------------------------------
(* Behind the frame's back: the session comes up while start() waits, ends *)
(* by itself with a TEARDOWN, is gone before stop() returns, or takes the  *)
(* process with it.                                                        *)

ComesUp ==
    /\ call = "start"
    /\ owed' = TRUE
    /\ UNCHANGED <<call, started, connectionFail, held, crashed>>

TearsDown ==
    /\ held
    /\ owed' = FALSE
    /\ UNCHANGED <<call, started, connectionFail, held, crashed>>

Released ==
    /\ call = "stop"
    /\ held' = FALSE /\ owed' = FALSE
    /\ UNCHANGED <<call, started, connectionFail, crashed>>

Crash ==
    /\ held
    /\ crashed' \in {"nullRtpSession", "nullConfig", "recvError", "uncaught"}
    /\ UNCHANGED <<call, started, connectionFail, held, owed>>

-----------------------------------------------------------------------------
Call == StartSucceeds \/ StartFails \/ Returned \/ StopReturns
Session == ComesUp \/ TearsDown \/ Released \/ Crash

Next == Alive /\ (StartNoDevice \/ Start \/ Stop \/ Call \/ Session)

Spec == Init /\ [][Next]_vars
=============================================================================
