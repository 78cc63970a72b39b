----------------------------- MODULE StatusFeed ------------------------------
(***************************************************************************)
(* What the frame is promised of its status session: messages come only    *)
(* between a start and the end of the stop that follows, and wait to be    *)
(* shown for as long as it takes.  StatusSession, which has the status     *)
(* thread step by step and counts the messages, and StatusDisplay, which   *)
(* has the messages and takes the thread as given, both implement it.      *)
(***************************************************************************)
EXTENDS Naturals

VARIABLES
    started,    \* m_started
    stopping,   \* is the GUI thread in ScannerStatus::stop?
    receiving,  \* is there a status thread that may still post?
    waiting     \* updates posted with CallAfter and not yet handled

vars == <<started, stopping, receiving, waiting>>

Init == started = FALSE /\ stopping = FALSE /\ receiving = FALSE /\ waiting = 0

-----------------------------------------------------------------------------
(* A thread is launched only when the last one is gone.                    *)
Start ==
    /\ ~started /\ ~stopping /\ ~receiving
    /\ started' = TRUE /\ receiving' = TRUE
    /\ UNCHANGED <<stopping, waiting>>

Stop ==
    /\ ~stopping
    /\ started' = FALSE /\ stopping' = TRUE
    /\ UNCHANGED <<receiving, waiting>>

(* stop() comes back when it has joined the thread.                        *)
Stopped ==
    /\ stopping /\ ~receiving
    /\ stopping' = FALSE
    /\ UNCHANGED <<started, receiving, waiting>>

Posts ==
    /\ receiving
    /\ waiting' = waiting + 1
    /\ UNCHANGED <<started, stopping, receiving>>

(* By itself, when the scanner does not answer, or for a stop.             *)
Ends ==
    /\ receiving
    /\ receiving' = FALSE
    /\ UNCHANGED <<started, stopping, waiting>>

(* The event loop shows an update; it does not run during a stop.          *)
Handles ==
    /\ ~stopping /\ waiting > 0
    /\ waiting' = waiting - 1
    /\ UNCHANGED <<started, stopping, receiving>>

-----------------------------------------------------------------------------
Next == Start \/ Stop \/ Stopped \/ Posts \/ Ends \/ Handles

Spec == Init /\ [][Next]_vars
=============================================================================
