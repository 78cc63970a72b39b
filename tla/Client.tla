------------------------------- MODULE Client -------------------------------
(***************************************************************************)
(* The whole client as its user meets it: SCFrame and the GUI thread, from *)
(* the first-run dialog to the frame's destruction, driving the audio      *)
(* session (AudioService) and the status session (StatusSession), the      *)
(* Settings dialog that rewrites the configuration the two were given, and *)
(* the weather key, for whose long press the frame sleeps.                 *)
(*                                                                         *)
(* The GUI thread is in one handler at a time, `frame' says which.  A modal*)
(* dialog or message box runs the event loop but lets no button through.   *)
(* A crash freezes everything.                                             *)
(***************************************************************************)
EXTENDS StatusSession

CONSTANTS
    Scanners,       \* the addresses a user may give
    NoScanner       \* the empty address of a first run

ASSUME NoScannerAssumption == NoScanner \notin Scanners

VARIABLES
    frame,          \* what the frame is doing
    closing,        \* is its stop the one of OnClose?
    call, audioStarted, connectionFail, held, owed, crashed, \* see AudioService
    config,         \* the IP address in the wxConfig object
    address,        \* the one that ScannerStatus and SControl were made with
    audioAddress,   \* the one that the last RTSPSession was made with
    edited          \* has the Settings dialog changed config since the frame was made?

statusVars  == vars
frameVars   == <<frame, closing>>
audioVars   == <<call, audioStarted, connectionFail, held, owed, crashed>>
configVars  == <<config, address, audioAddress, edited>>
clientVars  == <<statusVars, frameVars, audioVars, configVars>>

Audio == INSTANCE AudioService WITH started <- audioStarted

Addresses == Scanners \cup {NoScanner}
(* Where the frame waits for events, in the main loop or a modal one.      *)
EventLoops == {"events", "settings", "refused", "connectError", "skipped"}
Over == frame \in {"destroyed", "badKey"} \/ ~Audio!Alive

ClientInit ==
    /\ Init /\ Audio!Init
    /\ frame = "init" /\ closing = FALSE
    /\ config \in Addresses /\ address = NoScanner /\ audioAddress = NoScanner
    /\ edited = FALSE

-----------------------------------------------------------------------------
(* SCFrame's constructor, inside SCApp::OnInit.                            *)

(* Without an address the Settings dialog comes first.                     *)
Construct ==
    /\ frame = "init"
    /\ frame' = IF config = NoScanner THEN "firstRun" ELSE "build"
    /\ UNCHANGED <<statusVars, closing, audioVars, configVars>>

(* That dialog runs the event loop while m_frame is not assigned yet: the  *)
(* SPACE or the CTRL key (CTRL+V to paste the address) makes FilterEvent   *)
(* use an uninitialised pointer.                                           *)
BadKey ==
    /\ frame = "firstRun"
    /\ frame' = "badKey"
    /\ UNCHANGED <<statusVars, closing, audioVars, configVars>>

(* Mutated Build: the two are not told what the dialog has saved.          *)
BuildEarly ==
    /\ frame = "build"
    /\ frame' = "events"
    /\ UNCHANGED <<statusVars, closing, audioVars, configVars>>

(* ScannerStatus and SControl read the configuration once, here.  (The     *)
(* requests for model and firmware only make up the status bar's text.)    *)
Build ==
    /\ frame = "build"
    /\ address' = config
    /\ frame' = "events"
    /\ UNCHANGED <<statusVars, closing, audioVars, config, audioAddress, edited>>

-----------------------------------------------------------------------------
(* The Settings dialog.                                                    *)

EditSettings ==
    /\ frame = "events"
    /\ frame' = "settings"
    /\ UNCHANGED <<statusVars, closing, audioVars, configVars>>

LeaveDialog == frame' = IF frame = "firstRun" THEN "build" ELSE "events"

(* SettingsDialog::onOK writes every setting and flushes.                  *)
SaveSettings ==
    /\ frame \in {"firstRun", "settings"}
    /\ config' \in Addresses
    /\ edited' = (edited \/ (frame = "settings" /\ config' # config))
    /\ LeaveDialog
    /\ UNCHANGED <<statusVars, closing, audioVars, address, audioAddress>>

CancelSettings ==
    /\ frame \in {"firstRun", "settings"}
    /\ LeaveDialog
    /\ UNCHANGED <<statusVars, closing, audioVars, configVars>>

-----------------------------------------------------------------------------
(* SCFrame::startScanner.                                                  *)

(* "A session is already running."                                         *)
RefuseStart ==
    /\ frame = "events" /\ (audioStarted \/ started)
    /\ frame' = "refused"
    /\ UNCHANGED <<statusVars, closing, audioVars, configVars>>

(* The RTSPSession that start() makes reads the configuration anew.        *)
StartScanner ==
    /\ frame = "events" /\ ~audioStarted /\ ~started /\ starts < MaxStarts
    /\ \/ Audio!StartNoDevice /\ UNCHANGED audioAddress
       \/ Audio!Start /\ audioAddress' = config
    /\ frame' = "starting"
    /\ UNCHANGED <<statusVars, closing, config, address, edited>>

AudioStarts ==
    /\ Audio!StartSucceeds \/ Audio!StartFails
    /\ UNCHANGED <<statusVars, frameVars, configVars>>

CheckConnection ==
    /\ frame = "starting"
    /\ Audio!Returned
    /\ frame' = IF connectionFail THEN "failing" ELSE "display"
    /\ UNCHANGED <<statusVars, closing, configVars>>

(* "Cannot connect to the scanner audio service."                          *)
ReportFailure ==
    /\ frame = "failing"
    /\ Audio!StopReturns
    /\ frame' = "connectError"
    /\ UNCHANGED <<statusVars, closing, configVars>>

(* Mutated UpdateStatus: the frame forgets to start the display.          *)
SkipStatus ==
    /\ frame = "display"
    /\ frame' = "events"
    /\ UNCHANGED <<statusVars, closing, audioVars, configVars>>

UpdateStatus ==
    /\ frame = "display"
    /\ Start
    /\ frame' = "events"
    /\ UNCHANGED <<closing, audioVars, configVars>>

DismissBox ==
    /\ frame \in {"refused", "connectError"}
    /\ frame' = "events"
    /\ UNCHANGED <<statusVars, closing, audioVars, configVars>>

-----------------------------------------------------------------------------
(* SCFrame::stopScanner and SCFrame::OnClose.                              *)

StopScanner ==
    /\ frame = "events"
    /\ Audio!Stop
    /\ closing' \in BOOLEAN     \* the Stop button, or the frame's close button
    /\ frame' = "stopAudio"
    /\ UNCHANGED <<statusVars, configVars>>

AudioStops ==
    /\ frame = "stopAudio"
    /\ Audio!StopReturns
    /\ UNCHANGED <<statusVars, frameVars, configVars>>

(* Mutated StopStatus: does not wait for the audio to be stopped.          *)
StopStatusAtOnce ==
    /\ frame = "stopAudio"
    /\ Stop
    /\ frame' = "stopStatus"
    /\ UNCHANGED <<closing, audioVars, configVars>>

(* Mutated StopStatus: OnClose leaves the status session alone.            *)
StopStatusUnlessClosing ==
    /\ frame = "stopAudio" /\ call = "none"
    /\ IF closing THEN frame' = "skipped" /\ UNCHANGED statusVars
                  ELSE Stop /\ frame' = "stopStatus"
    /\ UNCHANGED <<closing, audioVars, configVars>>

StopStatus ==
    /\ frame = "stopAudio" /\ call = "none"
    /\ Stop
    /\ frame' = "stopStatus"
    /\ UNCHANGED <<closing, audioVars, configVars>>

ClearStatus ==
    /\ frame = "stopStatus"
    /\ ClearRunning
    /\ UNCHANGED <<frameVars, audioVars, configVars>>

(* OnClose ends with event.Skip(), which has the frame destroyed later.    *)
JoinStatus ==
    /\ frame = "stopStatus"
    /\ Join
    /\ frame' = IF closing THEN "skipped" ELSE "events"
    /\ UNCHANGED <<closing, audioVars, configVars>>

(* wxWidgets deletes the frame when no event is pending.                   *)
Destroy ==
    /\ frame = "skipped" /\ pending = 0
    /\ frame' = "destroyed"
    /\ UNCHANGED <<statusVars, closing, audioVars, configVars>>

-----------------------------------------------------------------------------
(* SControl::send_weather_scan: between the datagram that presses the key  *)
(* and the one that releases it the GUI thread sleeps 3 s, in its handler. *)

PressWeather ==
    /\ frame = "events"
    /\ frame' = "weather"
    /\ UNCHANGED <<statusVars, closing, audioVars, configVars>>

ReleaseWeather ==
    /\ frame = "weather"
    /\ frame' = "events"
    /\ UNCHANGED <<statusVars, closing, audioVars, configVars>>

-----------------------------------------------------------------------------
(* The status thread and what it posts; the audio session behind its calls.*)
FrameUpdate ==
    /\ frame \in EventLoops
    /\ HandleUpdate
    /\ UNCHANGED <<frameVars, audioVars, configVars>>

StatusStep ==
    /\ StatusThread
    /\ UNCHANGED <<frameVars, audioVars, configVars>>

AudioStep ==
    /\ Audio!Session
    /\ UNCHANGED <<statusVars, frameVars, configVars>>

User == BadKey \/ EditSettings \/ SaveSettings \/ CancelSettings \/ RefuseStart
            \/ StartScanner \/ DismissBox \/ StopScanner \/ PressWeather
Handler == Construct \/ Build \/ AudioStarts \/ CheckConnection \/ ReportFailure
            \/ UpdateStatus \/ AudioStops \/ StopStatus \/ ClearStatus \/ JoinStatus
            \/ ReleaseWeather

ClientNext == \/ ~Over /\ (User \/ Handler \/ FrameUpdate \/ Destroy \/ StatusStep \/ AudioStep)
              \/ Over /\ UNCHANGED clientVars

(* A handler that has begun goes on, start() and stop() of the audio come  *)
(* back (AudioSession's CallsReturn), events are handled and the status    *)
(* thread is scheduled.  The user need not do anything.                    *)
ClientFairness ==
    /\ WF_clientVars(~Over /\ Handler)
    /\ WF_clientVars(~Over /\ FrameUpdate) /\ WF_clientVars(~Over /\ Destroy)
    /\ WF_clientVars(~Over /\ StatusStep)

ClientSpec == ClientInit /\ [][ClientNext]_clientVars
FairClientSpec == ClientSpec /\ ClientFairness

-----------------------------------------------------------------------------
Frames == EventLoops \cup {"init", "firstRun", "badKey", "build", "starting", "failing",
              "display", "stopAudio", "stopStatus", "weather", "destroyed"}

AudioTypeOK ==
    /\ call \in {"none", "start", "returned", "stop"}
    /\ audioStarted \in BOOLEAN /\ connectionFail \in BOOLEAN
    /\ held \in BOOLEAN /\ owed \in BOOLEAN
    /\ crashed \in {"no", "nullRtpSession", "nullConfig", "recvError", "uncaught"}

ClientTypeOK ==
    /\ TypeOK /\ AudioTypeOK
    /\ frame \in Frames /\ closing \in BOOLEAN
    /\ config \in Addresses /\ address \in Addresses /\ audioAddress \in Addresses
    /\ edited \in BOOLEAN

(* The audio session is released, and the scanner told, before the frame   *)
(* waits for the status thread: a stop that hangs in that join leaves no   *)
(* stream open and no scanner streaming (stopScanner, OnClose).            *)
AudioReleasedFirst == guiPc \in {"clear", "join"} => ~held /\ ~owed

(* What the frame believes stopped has stopped, whether a stop, a failed   *)
(* start or a close has led there: no thread, no stream, nothing owed to   *)
(* the scanner.  A frame that is destroyed destroys no joinable thread,    *)
(* which would terminate the program.                                      *)
NothingLeft ==
    \/ frame \in {"skipped", "destroyed"}
    \/ frame \in EventLoops \cup {"weather"} /\ ~audioStarted /\ ~started
    => ~held /\ ~owed /\ pc \in {"none", "joined"}

(* No audio without its status session: while the audio counts as started  *)
(* and the user can press buttons, so does the status session that         *)
(* startScanner starts after it.                                           *)
AudioHasStatus == frame \in EventLoops /\ audioStarted => started

(* Both sessions, made from configurations that were read at different     *)
(* times, talk to the same scanner, the first run's included, unless the   *)
(* settings were changed after the frame was made.                         *)
OneScannerUnlessEdited ==
    frame \in EventLoops /\ audioStarted /\ ~edited => audioAddress = address

(* A stop that the user asked for gets done: the audio's part always, the  *)
(* status's part unless the status thread asks again while it is being     *)
(* joined.                                                                 *)
StopGetsThrough ==
    frame = "stopAudio" ~> \/ frame \in {"events", "destroyed"} \/ Over
                           \/ guiPc = "join" /\ pc = "restart"

(* README.md:30 says "update the IP address of your scanner first", and of *)
(* Start that it "causes scanner client to connect to the scanner": both   *)
(* sessions of a start are with the scanner that the settings name.        *)
StartReachesScanner ==
    [][frame = "display" /\ frame' = "events" /\ audioStarted =>
            address = config /\ audioAddress = config]_clientVars
=============================================================================
