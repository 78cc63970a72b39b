---------------------------- MODULE StatusSession ---------------------------
(***************************************************************************)
(* The status display's session with the scanner (ScannerStatus): start    *)
(* and stop on the GUI thread, and the status thread, which asks for       *)
(* status messages with a PSI request, receives them over UDP, posts each  *)
(* to the GUI, and asks again when they stop coming.                       *)
(*                                                                         *)
(* The network may lose anything at any time, so a receive has all its     *)
(* outcomes: a message that says what is hoped for, one that does not, or  *)
(* none within socket_read_wait_ms.                                        *)
(***************************************************************************)
EXTENDS Integers

CONSTANTS
    MaxStarts,      \* bound: status threads launched in a behaviour
    MaxPending      \* the GUI's event queue is counted up to this many events

ASSUME StatusBounds == MaxStarts \in Nat \ {0} /\ MaxPending \in Nat \ {0}

VARIABLES
    guiPc,      \* where the GUI thread is
    started,    \* m_started
    running,    \* m_running
    pc,         \* where m_status_thread is; "joined" after join()
    starts,     \* number of threads launched so far
    pending     \* status updates posted with CallAfter and not yet handled

guiVars == <<guiPc, started, starts>>
vars    == <<guiVars, running, pc, pending>>

Ended == {"none", "ended", "joined"}

Init == /\ guiPc = "ready" /\ started = FALSE /\ running = FALSE
        /\ pc = "none" /\ starts = 0 /\ pending = 0

-----------------------------------------------------------------------------
(* The GUI thread: ScannerStatus::start and ::stop, called by startScanner *)
(* when it is not started, and by stopScanner or OnClose at any time.      *)

Start ==
    /\ guiPc = "ready" /\ ~started /\ starts < MaxStarts
    /\ started' = TRUE /\ starts' = starts + 1
    /\ pc' = "open"
    /\ UNCHANGED <<guiPc, running, pending>>

(* Mutated Stop: m_started is not reset.                                   *)
StopStaysStarted ==
    /\ guiPc = "ready"
    /\ guiPc' = "clear"
    /\ UNCHANGED <<started, running, pc, starts, pending>>

Stop ==
    /\ guiPc = "ready"
    /\ started' = FALSE
    /\ guiPc' = "clear"
    /\ UNCHANGED <<running, pc, starts, pending>>

ClearRunning ==
    /\ guiPc = "clear"
    /\ running' = FALSE
    /\ guiPc' = "join"
    /\ UNCHANGED <<started, pc, starts, pending>>

(* Mutated Join: stop() leaves the thread to end by itself.                *)
JoinNobody ==
    /\ guiPc = "join"
    /\ guiPc' = "ready"
    /\ UNCHANGED <<started, running, pc, starts, pending>>

Join ==
    /\ guiPc = "join" /\ pc \in Ended
    /\ pc' = IF pc = "ended" THEN "joined" ELSE pc
    /\ guiPc' = "ready"
    /\ UNCHANGED <<started, running, starts, pending>>

(* Mutated HandleUpdate: an event is handled that nobody posted.           *)
HandleAnyUpdate ==
    /\ guiPc = "ready"
    /\ pending' = pending - 1
    /\ UNCHANGED <<guiVars, running, pc>>

(* The event loop runs what the status thread posted, between clicks.      *)
HandleUpdate ==
    /\ guiPc = "ready" /\ pending > 0
    /\ pending' = pending - 1
    /\ UNCHANGED <<guiVars, running, pc>>

-----------------------------------------------------------------------------
(* ScannerStatus::execute.                                                 *)

(* The UDPSocket, whose constructors read the configuration on this thread.*)
OpenSocket ==
    /\ pc = "open"
    /\ pc' = "restart"
    /\ UNCHANGED <<guiVars, running, pending>>

(* restart: m_running = true, whatever it was.                             *)
SetRunning ==
    /\ pc = "restart"
    /\ running' = TRUE
    /\ pc' = "request"
    /\ UNCHANGED <<guiVars, pending>>

(* PSI goes out; without an OK or a first status the thread returns.       *)
RequestStatus ==
    /\ pc = "request"
    /\ pc' \in {"loop", "ended"}
    /\ UNCHANGED <<guiVars, running, pending>>

(* Mutated TestRunning: while(true).                                       *)
TestNothing ==
    /\ pc = "loop"
    /\ pc' = "recv"
    /\ UNCHANGED <<guiVars, running, pending>>

TestRunning ==
    /\ pc = "loop"
    /\ pc' = IF running THEN "recv" ELSE "ended"
    /\ UNCHANGED <<guiVars, running, pending>>

ReceiveTimeout ==
    /\ pc = "recv"
    /\ pc' = "restart"
    /\ UNCHANGED <<guiVars, running, pending>>

(* A message that parses is posted to the GUI; one that does not, or is no *)
(* ScannerInfo, is dropped.                                                *)
ReceiveMessage ==
    /\ pc = "recv"
    /\ pending' \in {pending, IF pending < MaxPending THEN pending + 1 ELSE pending}
    /\ pc' = "loop"
    /\ UNCHANGED <<guiVars, running>>

-----------------------------------------------------------------------------
GuiThread == ClearRunning \/ Join \/ HandleUpdate
StatusThread == OpenSocket \/ SetRunning \/ RequestStatus \/ TestRunning \/ ReceiveTimeout
                    \/ ReceiveMessage

Next == Start \/ Stop \/ GuiThread \/ StatusThread

(* The threads are scheduled and recvfrom returns within its poll timeout; *)
(* the user need not do anything, nor the scanner.                         *)
Fairness == WF_vars(ClearRunning \/ Join) /\ WF_vars(HandleUpdate) /\ WF_vars(StatusThread)

Spec == Init /\ [][Next]_vars
FairSpec == Spec /\ Fairness

-----------------------------------------------------------------------------
TypeOK ==
    /\ guiPc \in {"ready", "clear", "join"}
    /\ started \in BOOLEAN /\ running \in BOOLEAN
    /\ pc \in Ended \cup {"open", "restart", "request", "loop", "recv"}
    /\ starts \in 0..MaxStarts /\ pending \in 0..MaxPending

(* A status thread is launched only when the last one has been joined:     *)
(* m_status_thread is never overwritten while joinable, which would        *)
(* terminate the program, and two threads never share m_running            *)
(* (ScannerStatus::start, line 28).                                        *)
OneThread == [][starts' # starts => pc \in {"none", "joined"}]_vars

(* When stop() has returned the thread is gone: nothing is posted to the   *)
(* GUI by a status session that the user has stopped.                      *)
QuietAfterStop == [][guiPc = "ready" /\ ~started => pending' <= pending]_vars

(* The session keeps the promise that StatusFeed makes to the frame, where *)
(* StatusDisplay takes it up: launches, stops, messages and the end of the *)
(* thread come in no other order, whatever restarts come between.          *)
Feed == INSTANCE StatusFeed
            WITH stopping <- guiPc # "ready", receiving <- pc \notin Ended, waiting <- pending
ImplementsFeed == Feed!Spec

(* README.md:32 says that the Stop button "disconnects": a stop that has   *)
(* begun gets done, and the GUI thread returns from it.                    *)
StopDisconnects == guiPc = "clear" ~> guiPc = "ready"
=============================================================================
