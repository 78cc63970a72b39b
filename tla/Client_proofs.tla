---------------------------- MODULE Client_proofs ----------------------------
(***************************************************************************)
(* Proofs about Client, for every set of scanners, number of starts and    *)
(* length of the event queue.                                              *)
(*                                                                         *)
(* The client is put together from two sessions, so its proof is too: a    *)
(* step of the client is a step of each session, or leaves it alone.  What *)
(* StatusSession_proofs proves of the status session thus holds in the     *)
(* client, and what is proved here of any AudioService.  FrameInv adds     *)
(* what each place of the frame says of the two.                           *)
(***************************************************************************)
EXTENDS Client, StatusSession_proofs

(* A service that is not started, and not about to stop, has nothing left. *)
StoppedIsReleased == call \in {"none", "returned"} /\ ~audioStarted => ~held /\ ~owed

AudioInv == AudioTypeOK /\ StoppedIsReleased
                /\ (call = "start" => audioStarted) /\ (call = "stop" => ~audioStarted)

FrameTypeOK ==
    /\ frame \in Frames /\ closing \in BOOLEAN
    /\ config \in Addresses /\ address \in Addresses /\ audioAddress \in Addresses
    /\ edited \in BOOLEAN

(* The frame's call into a session is the one that the session is in.      *)
CallsFollowFrame ==
    /\ guiPc = "ready" <=> frame # "stopStatus"
    /\ call \in {"start", "returned"} <=> frame = "starting"
    /\ frame = "failing" => call = "stop"
    /\ call = "stop" => frame \in {"failing", "stopAudio"}

NotBuilt == {"init", "firstRun", "build", "badKey"}
Stopped  == {"stopStatus", "skipped", "destroyed"}

(* Where the frame is tells which of its two sessions it believes started. *)
SessionsFollowFrame ==
    /\ frame \in NotBuilt => ~audioStarted /\ ~edited
    /\ frame \in Stopped => ~audioStarted /\ ~started
    /\ frame \in {"failing", "stopAudio"} => ~audioStarted
    /\ frame \in EventLoops \cup {"weather"} /\ audioStarted => started

(* Who was given which address, while the settings are left alone.         *)
AddressKnown ==
    /\ ~edited /\ frame \notin NotBuilt => config = address
    /\ ~edited /\ audioStarted => audioAddress = address

FrameInv == FrameTypeOK /\ CallsFollowFrame /\ SessionsFollowFrame /\ AddressKnown

ClientInv == IInv /\ AudioInv /\ FrameInv

-----------------------------------------------------------------------------
(* What a step of the client is to each of its sessions.                   *)

(* To the status session: the actions that are composed with one of its    *)
(* own, and all the others, which leave it alone.                          *)
LEMMA StepOfStatus == [ClientNext]_clientVars => [Next]_vars
  <1> SUFFICES ASSUME [ClientNext]_clientVars PROVE [Next]_vars
    OBVIOUS
  <1>1. CASE UNCHANGED clientVars
    BY <1>1 DEF clientVars, statusVars
  <1>2. CASE User
    BY <1>2 DEF User, BadKey, EditSettings, SaveSettings, CancelSettings, RefuseStart,
           StartScanner, DismissBox, StopScanner, PressWeather, statusVars
  <1>3. CASE Construct \/ Build \/ AudioStarts \/ CheckConnection \/ ReportFailure
                \/ AudioStops \/ ReleaseWeather \/ Destroy \/ AudioStep
    BY <1>3 DEF Construct, Build, AudioStarts, CheckConnection, ReportFailure, AudioStops,
           ReleaseWeather, Destroy, AudioStep, statusVars
  <1>4. CASE UpdateStatus \/ StopStatus \/ ClearStatus \/ JoinStatus \/ FrameUpdate \/ StatusStep
    BY <1>4 DEF UpdateStatus, StopStatus, ClearStatus, JoinStatus, FrameUpdate, StatusStep,
           Next, GuiThread
  <1> QED
    BY <1>1, <1>2, <1>3, <1>4 DEF ClientNext, Handler

(* To the audio session, likewise.                                         *)
LEMMA StepOfAudio == [ClientNext]_clientVars => [Audio!Next]_audioVars
  <1> SUFFICES ASSUME [ClientNext]_clientVars PROVE [Audio!Next]_audioVars
    OBVIOUS
  <1> USE DEF audioVars
  <1>1. CASE UNCHANGED clientVars
    BY <1>1 DEF clientVars
  <1>2. CASE ~Over /\ User
    BY <1>2 DEF Over, Audio!Next, User, BadKey, EditSettings, SaveSettings, CancelSettings,
           RefuseStart, StartScanner, DismissBox, StopScanner, PressWeather
  <1>3. CASE Construct \/ Build \/ UpdateStatus \/ StopStatus \/ ClearStatus \/ JoinStatus
                \/ ReleaseWeather \/ Destroy \/ FrameUpdate \/ StatusStep
    BY <1>3 DEF Construct, Build, UpdateStatus, StopStatus, ClearStatus, JoinStatus,
           ReleaseWeather, Destroy, FrameUpdate, StatusStep
  <1>4. CASE ~Over /\ (AudioStarts \/ CheckConnection \/ ReportFailure \/ AudioStops \/ AudioStep)
    BY <1>4 DEF Over, AudioStarts, CheckConnection, ReportFailure, AudioStops, AudioStep,
           Audio!Next, Audio!Call
  <1> QED
    BY <1>1, <1>2, <1>3, <1>4 DEF ClientNext, Handler

(* The client drives the status session the way StatusSession lets it.     *)
THEOREM StatusInside == ClientSpec => Spec
  <1>1. ClientInit => Init
    BY DEF ClientInit
  <1> QED
    BY <1>1, StepOfStatus, PTL DEF ClientSpec, Spec

(* The client drives the audio session the way AudioService lets it, and   *)
(* thus the way SC_RTaudio's code was modelled for.                        *)
THEOREM AudioInside == ClientSpec => Audio!Spec
  <1>1. ClientInit => Audio!Init
    BY DEF ClientInit
  <1>2. [ClientNext]_clientVars => [Audio!Next]_(Audio!vars)
    BY StepOfAudio DEF audioVars, Audio!vars
  <1> QED
    BY <1>1, <1>2, PTL DEF ClientSpec, Audio!Spec

-----------------------------------------------------------------------------
(* What the frame may rely on of any AudioService.                         *)

(* Before the first start.                                                 *)
LEMMA AudioInitInv == Audio!Init => AudioInv
  BY DEF Audio!Init, AudioInv, AudioTypeOK, StoppedIsReleased

(* Every step that AudioService allows preserves it.                       *)
LEMMA AudioNextInv == AudioInv /\ [Audio!Next]_audioVars => AudioInv'
  <1> SUFFICES ASSUME AudioInv, [Audio!Next]_audioVars PROVE AudioInv'
    OBVIOUS
  <1> USE DEF AudioInv, AudioTypeOK, StoppedIsReleased
  <1>1. CASE Audio!StartNoDevice
    BY <1>1 DEF Audio!StartNoDevice
  <1>2. CASE Audio!Start
    BY <1>2 DEF Audio!Start
  <1>3. CASE Audio!Stop
    BY <1>3 DEF Audio!Stop
  <1>4. CASE Audio!StartSucceeds
    BY <1>4 DEF Audio!StartSucceeds
  <1>5. CASE Audio!StartFails
    BY <1>5 DEF Audio!StartFails
  <1>6. CASE Audio!Returned
    BY <1>6 DEF Audio!Returned
  <1>7. CASE Audio!StopReturns
    BY <1>7 DEF Audio!StopReturns
  <1>8. CASE Audio!Session
    <2>1. CASE Audio!ComesUp
      BY <2>1 DEF Audio!ComesUp
    <2>2. CASE Audio!TearsDown
      BY <2>2 DEF Audio!TearsDown
    <2>3. CASE Audio!Released
      BY <2>3 DEF Audio!Released
    <2>4. CASE Audio!Crash
      BY <2>4 DEF Audio!Crash
    <2> QED
      BY <1>8, <2>1, <2>2, <2>3, <2>4 DEF Audio!Session
  <1>9. CASE UNCHANGED audioVars
    BY <1>9 DEF audioVars
  <1> QED
    BY <1>1, <1>2, <1>3, <1>4, <1>5, <1>6, <1>7, <1>8, <1>9 DEF Audio!Next, Audio!Call

-----------------------------------------------------------------------------
(* What the frame's own steps preserve.                                    *)

(* The status thread does not touch what the GUI thread decides on.        *)
LEMMA StatusThreadLeavesGui == StatusThread => UNCHANGED guiVars
  BY DEF StatusThread, OpenSocket, SetRunning, RequestStatus, TestRunning, ReceiveTimeout,
         ReceiveMessage, guiVars

(* A client that has just been started has no session.                     *)
LEMMA FrameInitInv == ClientInit => FrameInv
  BY DEF ClientInit, Init, Audio!Init, FrameInv, FrameTypeOK, CallsFollowFrame, NotBuilt, Stopped,
         SessionsFollowFrame, AddressKnown, Frames, EventLoops, Addresses

(* Every step preserves it: one case for each action.                      *)
LEMMA FrameNextInv == FrameInv /\ [ClientNext]_clientVars => FrameInv'
  <1> SUFFICES ASSUME FrameInv, [ClientNext]_clientVars PROVE FrameInv'
    OBVIOUS
  <1> USE DEF FrameInv, FrameTypeOK, CallsFollowFrame, SessionsFollowFrame, AddressKnown,
              NotBuilt, Stopped, Frames, EventLoops, statusVars, vars, guiVars,
              frameVars, audioVars, configVars
  <1>1. CASE Construct
    BY <1>1 DEF Construct
  <1>2. CASE BadKey
    BY <1>2 DEF BadKey
  <1>3. CASE Build
    BY <1>3 DEF Build
  <1>4. CASE EditSettings
    BY <1>4 DEF EditSettings
  <1>5. CASE SaveSettings
    BY <1>5 DEF SaveSettings, LeaveDialog
  <1>6. CASE CancelSettings
    BY <1>6 DEF CancelSettings, LeaveDialog
  <1>7. CASE RefuseStart
    BY <1>7 DEF RefuseStart
  <1>8. CASE StartScanner
    BY <1>8 DEF StartScanner, Audio!StartNoDevice, Audio!Start
  <1>9. CASE AudioStarts
    BY <1>9 DEF AudioStarts, Audio!StartSucceeds, Audio!StartFails
  <1>10. CASE CheckConnection
    BY <1>10 DEF CheckConnection, Audio!Returned
  <1>11. CASE ReportFailure
    BY <1>11 DEF ReportFailure, Audio!StopReturns
  <1>12. CASE UpdateStatus
    BY <1>12 DEF UpdateStatus, Start
  <1>13. CASE DismissBox
    BY <1>13 DEF DismissBox
  <1>14. CASE StopScanner
    BY <1>14 DEF StopScanner, Audio!Stop
  <1>15. CASE AudioStops
    BY <1>15 DEF AudioStops, Audio!StopReturns
  <1>16. CASE StopStatus
    BY <1>16 DEF StopStatus, Stop
  <1>17. CASE ClearStatus
    BY <1>17 DEF ClearStatus, ClearRunning
  <1>18. CASE JoinStatus
    BY <1>18 DEF JoinStatus, Join
  <1>19. CASE Destroy
    BY <1>19 DEF Destroy
  <1>20. CASE PressWeather
    BY <1>20 DEF PressWeather
  <1>21. CASE ReleaseWeather
    BY <1>21 DEF ReleaseWeather
  <1>22. CASE FrameUpdate
    BY <1>22 DEF FrameUpdate, HandleUpdate
  <1>23. CASE StatusStep
    BY <1>23, StatusThreadLeavesGui DEF StatusStep
  <1>24. CASE AudioStep
    BY <1>24 DEF AudioStep, Audio!Session, Audio!ComesUp, Audio!TearsDown, Audio!Released, Audio!Crash
  <1>25. CASE UNCHANGED clientVars
    BY <1>25 DEF clientVars
  <1> QED
    BY <1>1, <1>2, <1>3, <1>4, <1>5, <1>6, <1>7, <1>8, <1>9, <1>10, <1>11, <1>12, <1>13, <1>14, <1>15, <1>16, <1>17, <1>18, <1>19, <1>20, <1>21, <1>22, <1>23, <1>24, <1>25
       DEF ClientNext, User, Handler

-----------------------------------------------------------------------------
(* The three invariants together hold in every reachable state: the        *)
(* status session's by its own proof.                                      *)
THEOREM ClientInvariance == ClientSpec => []ClientInv
  <1>1. ClientSpec => []IInv
    BY StatusInside, Invariance
  <1>2. ClientSpec => []AudioInv
    <2>1. ClientInit => AudioInv
      BY AudioInitInv DEF ClientInit
    <2>2. AudioInv /\ [ClientNext]_clientVars => AudioInv'
      BY AudioNextInv, StepOfAudio
    <2> QED
      BY <2>1, <2>2, PTL DEF ClientSpec
  <1>3. ClientSpec => []FrameInv
    BY FrameInitInv, FrameNextInv, PTL DEF ClientSpec
  <1> QED
    BY <1>1, <1>2, <1>3, PTL DEF ClientInv

(* The type invariant of the whole client.                                 *)
THEOREM ClientTypeCorrect == ClientSpec => []ClientTypeOK
  <1>1. ClientInv => ClientTypeOK
    BY DEF ClientInv, IInv, AudioInv, FrameInv, FrameTypeOK, ClientTypeOK
  <1> QED
    BY <1>1, ClientInvariance, PTL

(* The frame joins the status thread only when the audio session has been  *)
(* released and the scanner told.                                          *)
THEOREM ReleasedFirst == ClientSpec => []AudioReleasedFirst
  <1>1. ClientInv => AudioReleasedFirst
    <2> SUFFICES ASSUME ClientInv, guiPc \in {"clear", "join"} PROVE ~held /\ ~owed
      BY DEF AudioReleasedFirst
    <2>1. frame = "stopStatus"
      BY DEF ClientInv, FrameInv, CallsFollowFrame
    <2>2. call = "none" /\ ~audioStarted
      BY <2>1 DEF ClientInv, AudioInv, AudioTypeOK, FrameInv, CallsFollowFrame,
             SessionsFollowFrame, Stopped
    <2> QED
      BY <2>2 DEF ClientInv, AudioInv, StoppedIsReleased
  <1> QED
    BY <1>1, ClientInvariance, PTL

(* A frame that believes both sessions stopped, or is destroyed, has       *)
(* neither a thread nor a stream, and owes the scanner nothing.            *)
THEOREM NothingIsLeft == ClientSpec => []NothingLeft
  <1>1. ClientInv => NothingLeft
    <2> SUFFICES ASSUME ClientInv,
                        \/ frame \in {"skipped", "destroyed"}
                        \/ frame \in EventLoops \cup {"weather"} /\ ~audioStarted /\ ~started
                 PROVE  ~held /\ ~owed /\ pc \in {"none", "joined"}
      BY DEF NothingLeft
    <2>1. frame \notin {"starting", "failing", "stopAudio", "stopStatus"}
      BY DEF EventLoops
    <2>2. ~audioStarted /\ ~started
      BY DEF ClientInv, FrameInv, SessionsFollowFrame, Stopped
    <2>3. call = "none" /\ guiPc = "ready"
      BY <2>1 DEF ClientInv, AudioInv, AudioTypeOK, FrameInv, CallsFollowFrame
    <2> QED
      BY <2>2, <2>3 DEF ClientInv, AudioInv, StoppedIsReleased, IInv, StoppedHasNoThread
  <1> QED
    BY <1>1, ClientInvariance, PTL

(* Whatever starts fail and whenever the user stops, there is no audio     *)
(* without its status session.                                             *)
THEOREM AudioWithStatus == ClientSpec => []AudioHasStatus
  <1>1. ClientInv => AudioHasStatus
    BY DEF ClientInv, FrameInv, SessionsFollowFrame, AudioHasStatus
  <1> QED
    BY <1>1, ClientInvariance, PTL

(* Both sessions are with the scanner that the settings named when the     *)
(* frame was made, for as long as they are left alone.                     *)
THEOREM OneScanner == ClientSpec => []OneScannerUnlessEdited
  <1>1. ClientInv => OneScannerUnlessEdited
    BY DEF ClientInv, FrameInv, AddressKnown, OneScannerUnlessEdited
  <1> QED
    BY <1>1, ClientInvariance, PTL

(* In the client, whose stop waits for the audio first and whose starts    *)
(* may fail halfway, a status thread is still launched only when the last  *)
(* one was joined.                                                         *)
THEOREM OneThreadInClient == ClientSpec => OneThread
  BY StatusInside, OneThreadAtATime

(* And nothing is posted to the frame by a session that was stopped.       *)
THEOREM QuietInClient == ClientSpec => QuietAfterStop
  BY StatusInside, NothingPostedAfterStop

(* Under the client's handlers, too, the display is fed as StatusFeed says,*)
(* which is what StatusDisplay was written against.                        *)
THEOREM FeedInClient == ClientSpec => ImplementsFeed
  BY StatusInside, SessionImplementsFeed
=============================================================================
