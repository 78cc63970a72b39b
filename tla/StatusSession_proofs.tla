------------------------ MODULE StatusSession_proofs -------------------------
(***************************************************************************)
(* Proofs about StatusSession, for every number of starts and of pending   *)
(* events: its type invariant, OneThread, QuietAfterStop, and that it      *)
(* implements StatusFeed.                                                  *)
(*                                                                         *)
(* All but the first rest on one fact that join() establishes and only a   *)
(* start ends: while the session is stopped, there is no thread.           *)
(***************************************************************************)
EXTENDS StatusSession, TLAPS

StoppedHasNoThread == guiPc = "ready" /\ ~started => pc \in {"none", "joined"}

IInv == TypeOK /\ StoppedHasNoThread

-----------------------------------------------------------------------------
(* The types of the two counters, which the bounds in the guards keep.     *)
LEMMA CountersStayInRange ==
    ASSUME TypeOK, [Next]_vars
    PROVE  starts' \in 0..MaxStarts /\ pending' \in 0..MaxPending
  BY StatusBounds DEF TypeOK, Next, Start, Stop, GuiThread, ClearRunning, Join, HandleUpdate,
         StatusThread, OpenSocket, SetRunning, RequestStatus, TestRunning, ReceiveTimeout, ReceiveMessage,
         guiVars, vars

(* The state before the first start satisfies the invariant.               *)
LEMMA InitInv == Init => IInv
  <1> SUFFICES ASSUME Init PROVE IInv
    OBVIOUS
  <1>1. starts \in 0..MaxStarts /\ pending \in 0..MaxPending
    BY StatusBounds DEF Init
  <1> QED
    BY <1>1, Zenon DEF Init, IInv, TypeOK, StoppedHasNoThread, Ended

(* Every step of the GUI thread and of the status thread preserves it.     *)
LEMMA NextInv == IInv /\ [Next]_vars => IInv'
  <1> SUFFICES ASSUME IInv, [Next]_vars PROVE IInv'
    OBVIOUS
  <1> DEFINE Control == /\ guiPc \in {"ready", "clear", "join"}
                        /\ started \in BOOLEAN /\ running \in BOOLEAN
                        /\ pc \in Ended \cup {"open", "restart", "request", "loop", "recv"}
                        /\ StoppedHasNoThread
  <1>0. Control
    BY DEF IInv, TypeOK
  <1> SUFFICES Control'
    BY CountersStayInRange DEF IInv, TypeOK
  <1> USE DEF StoppedHasNoThread, Ended, guiVars
  <1>1. CASE Start
    BY <1>0, <1>1, Zenon DEF Start
  <1>2. CASE Stop
    BY <1>0, <1>2, Zenon DEF Stop
  <1>3. CASE ClearRunning
    BY <1>0, <1>3, Zenon DEF ClearRunning
  <1>4. CASE Join
    BY <1>0, <1>4 DEF Join
  <1>5. CASE HandleUpdate
    BY <1>0, <1>5 DEF HandleUpdate
  <1>6. CASE SetRunning
    BY <1>0, <1>6, Zenon DEF SetRunning
  <1>7. CASE RequestStatus
    BY <1>0, <1>7 DEF RequestStatus
  <1>8. CASE TestRunning
    BY <1>0, <1>8 DEF TestRunning
  <1>9. CASE ReceiveTimeout
    BY <1>0, <1>9 DEF ReceiveTimeout
  <1>10. CASE ReceiveMessage
    BY <1>0, <1>10 DEF ReceiveMessage
  <1>11. CASE OpenSocket
    BY <1>0, <1>11 DEF OpenSocket
  <1>12. CASE UNCHANGED vars
    BY <1>0, <1>12 DEF vars
  <1> QED
    BY <1>1, <1>2, <1>3, <1>4, <1>5, <1>6, <1>7, <1>8, <1>9, <1>10, <1>11, <1>12
       DEF Next, GuiThread, StatusThread

(* The inductive invariant holds in every reachable state.                 *)
THEOREM Invariance == Spec => []IInv
  <1> QED
    BY InitInv, NextInv, PTL DEF Spec

(* The type invariant, for every bound on starts and pending events.       *)
THEOREM TypeCorrect == Spec => []TypeOK
  <1>1. IInv => TypeOK
    BY DEF IInv
  <1> QED
    BY <1>1, Invariance, PTL

(* m_status_thread is overwritten only when no thread is joinable.         *)
THEOREM OneThreadAtATime == Spec => OneThread
  <1>1. ASSUME IInv, [Next]_vars, starts' # starts
        PROVE  pc \in {"none", "joined"}
    <2>1. Start
      BY <1>1 DEF Next, Stop, GuiThread, ClearRunning, Join, HandleUpdate, StatusThread,
             OpenSocket, SetRunning, RequestStatus, TestRunning, ReceiveTimeout, ReceiveMessage,
             guiVars, vars
    <2> QED
      BY <1>1, <2>1 DEF IInv, StoppedHasNoThread, Start
  <1> QED
    BY <1>1, Invariance, PTL DEF Spec, OneThread

(* Once stop() has returned nothing more is posted to the GUI.             *)
THEOREM NothingPostedAfterStop == Spec => QuietAfterStop
  <1>1. ASSUME IInv, [Next]_vars, guiPc = "ready", ~started
        PROVE  pending' <= pending
    <2>1. pc # "recv" /\ pending \in 0..MaxPending
      BY <1>1 DEF IInv, StoppedHasNoThread, TypeOK
    <2>2. ~ReceiveMessage
      BY <2>1 DEF ReceiveMessage
    <2>3. pending' = pending \/ pending' = pending - 1
      BY <1>1, <2>2 DEF Next, Start, Stop, GuiThread, ClearRunning, Join, HandleUpdate,
             StatusThread, OpenSocket, SetRunning, RequestStatus, TestRunning, ReceiveTimeout, vars
    <2> QED
      BY <2>1, <2>3
  <1> QED
    BY <1>1, Invariance, PTL DEF Spec, QuietAfterStop

-----------------------------------------------------------------------------
(* What the frame is promised of a status session (StatusFeed).            *)

(* What a step of the GUI thread is to it.                                 *)
LEMMA FeedOfGuiThread ==
    ASSUME IInv, Start \/ Stop \/ GuiThread
    PROVE  [Feed!Next]_(Feed!vars)
  <1> USE DEF Feed!vars, guiVars
  <1>1. CASE Start
    <2>1. pc \in Ended /\ pc' \notin Ended
      BY <1>1 DEF Start, IInv, StoppedHasNoThread, Ended
    <2>2. Feed!Start
      BY <1>1, <2>1 DEF Start, Feed!Start
    <2> QED
      BY <2>2 DEF Feed!Next
  <1>2. CASE Stop
    <2>1. Feed!Stop
      BY <1>2 DEF Stop, Feed!Stop
    <2> QED
      BY <2>1 DEF Feed!Next
  <1>3. CASE ClearRunning
    BY <1>3 DEF ClearRunning
  <1>4. CASE Join
    <2>1. pc \in Ended /\ pc' \in Ended
      BY <1>4 DEF Join, Ended
    <2>2. Feed!Stopped
      BY <1>4, <2>1 DEF Join, Feed!Stopped
    <2> QED
      BY <2>2 DEF Feed!Next
  <1>5. CASE HandleUpdate
    <2>1. Feed!Handles
      BY <1>5 DEF HandleUpdate, Feed!Handles
    <2> QED
      BY <2>1 DEF Feed!Next
  <1> QED
    BY <1>1, <1>2, <1>3, <1>4, <1>5 DEF GuiThread

(* What a step of the status thread is to it: a message posted, the end of *)
(* the thread, or nothing, a restart included.                             *)
LEMMA FeedOfStatusThread ==
    ASSUME StatusThread
    PROVE  [Feed!Next]_(Feed!vars)
  <1> USE DEF Feed!vars, guiVars, Ended
  <1>1. CASE OpenSocket \/ SetRunning \/ ReceiveTimeout
    BY <1>1 DEF OpenSocket, SetRunning, ReceiveTimeout
  <1>2. CASE RequestStatus \/ TestRunning
    <2>1. CASE pc' = "ended"
      <3>1. Feed!Ends
        BY <1>2, <2>1 DEF RequestStatus, TestRunning, Feed!Ends
      <3> QED
        BY <3>1 DEF Feed!Next
    <2>2. CASE pc' # "ended"
      BY <1>2, <2>2 DEF RequestStatus, TestRunning
    <2> QED
      BY <2>1, <2>2
  <1>3. CASE ReceiveMessage
    <2>1. CASE pending' = pending + 1
      <3>1. Feed!Posts
        BY <1>3, <2>1 DEF ReceiveMessage, Feed!Posts
      <3> QED
        BY <3>1 DEF Feed!Next
    <2>2. CASE pending' = pending
      BY <1>3, <2>2 DEF ReceiveMessage
    <2> QED
      BY <1>3, <2>1, <2>2 DEF ReceiveMessage
  <1> QED
    BY <1>1, <1>2, <1>3 DEF StatusThread

(* Whatever restarts and lost messages come between, the frame meets what  *)
(* StatusFeed says: the promise that StatusDisplay is written against.     *)
THEOREM SessionImplementsFeed == Spec => ImplementsFeed
  <1>1. Init => Feed!Init
    BY DEF Init, Feed!Init, Ended
  <1>2. IInv /\ [Next]_vars => [Feed!Next]_(Feed!vars)
    <2>1. CASE UNCHANGED vars
      BY <2>1 DEF vars, guiVars, Feed!vars
    <2> QED
      BY <2>1, FeedOfGuiThread, FeedOfStatusThread DEF Next
  <1> QED
    BY <1>1, <1>2, Invariance, PTL DEF Spec, ImplementsFeed, Feed!Spec
=============================================================================
