---------------------------- MODULE AudioSession ----------------------------
(***************************************************************************)
(* An audio session from the Start button to the Stop button: SC_RTaudio   *)
(* on the GUI thread, the RTSP thread (RTSPSession::execute), the RTP      *)
(* thread (RTPSession::execute) and RtAudio's callback thread, with the    *)
(* promises, flags, joins and the condition variable that tie them.        *)
(*                                                                         *)
(* One step is what a thread does between two points where another thread  *)
(* can tell: a read or write of shared state, a blocking call.  A network  *)
(* call is one step with its outcomes.  What a datagram becomes is the     *)
(* subject of AudioBuffer; here a receive only comes back or times out.    *)
(*                                                                         *)
(* Crashes: the null m_rtp_session_ptr; the null m_pConfig of the RTP      *)
(* socket, read on a timeout, which may also be an arbitrary number in a   *)
(* log line; the exceptions of RTSPResponse, and of the string that        *)
(* recvfrom makes of -1 bytes, which nothing catches.  A crash freezes     *)
(* every thread.                                                           *)
(***************************************************************************)
EXTENDS Naturals, FiniteSets

CONSTANT MaxSessions    \* bound: RTSPSession objects made in a behaviour

ASSUME MaxSessionsAssumption == MaxSessions \in Nat \ {0}

VARIABLES
    \* SC_RTaudio and the frame that drives it
    guiPc,          \* where the GUI thread is
    started,        \* m_started
    connectionFail, \* m_connection_fail
    session,        \* which RTSPSession m_rtsp_session_ptr owns, 0 for null
    \* the RTSPSession
    rtspPc,         \* where its thread is; "joined" after join()
    running,        \* RTSPSession::m_running
    lastStatus,     \* m_last_status: is it 200?
    pollRet,        \* m_pollret of the TCP socket
    promise,        \* rtsp_success_promise
    sent,           \* requests sent on this session's connection
    \* its RTPSession
    rtpPc,          \* where its thread is; "none" while m_rtp_session_ptr is null
    rtpRunning,     \* RTPSession::m_running
    rtpPromise,     \* rtp_success_promise
    \* the AudioBuffer's flag and the audio stream
    stopped,        \* AudioBuffer::m_stopped of this session's buffer
    stream,         \* RtAudio's stream state
    cbPc,           \* where the callback thread is
    crashed         \* the process is gone, and why

guiVars    == <<guiPc, started, connectionFail, session>>
rtspVars   == <<rtspPc, running, lastStatus, pollRet, promise, sent>>
rtpVars    == <<rtpPc, rtpRunning, rtpPromise>>
streamVars == <<stream, cbPc>>
vars       == <<guiVars, rtspVars, rtpVars, stopped, streamVars, crashed>>

Alive == crashed = "no"
Ended == {"none", "ended", "joined"}

-----------------------------------------------------------------------------
Init ==
    /\ guiPc = "ready" /\ started = FALSE /\ connectionFail = FALSE /\ session = 0
    /\ rtspPc = "none" /\ running = FALSE /\ lastStatus = "other"
    /\ pollRet = "SREADY" /\ promise = "unset" /\ sent = {}
    /\ rtpPc = "none" /\ rtpRunning = FALSE /\ rtpPromise = "unset"
    /\ stopped = FALSE /\ stream = "closed" /\ cbPc = "none"
    /\ crashed = "no"

-----------------------------------------------------------------------------
(* SC_RTaudio::start, called by startScanner when it is not started.       *)

(* No device, or none with an output channel: an early return.             *)
StartNoDevice ==
    /\ guiPc = "ready" /\ ~started
    /\ guiPc' = "startReturned"
    /\ UNCHANGED <<started, connectionFail, session, rtspVars, rtpVars, stopped,
                   streamVars, crashed>>

(* Mutated Start: m_connection_fail is left as it was.                     *)
StartKeepsFailure ==
    /\ guiPc = "ready" /\ ~started /\ session < MaxSessions
    /\ started' = TRUE /\ session' = session + 1
    /\ guiPc' = "waitPromise"
    /\ rtspPc' = "connect" /\ running' = FALSE /\ lastStatus' = "other"
    /\ pollRet' = "SREADY" /\ promise' = "unset" /\ sent' = {}
    /\ rtpPc' = "none" /\ rtpRunning' = FALSE /\ rtpPromise' = "unset"
    /\ stopped' = FALSE
    /\ UNCHANGED <<connectionFail, streamVars, crashed>>

(* A new RTSPSession replaces the old one, whose buffer, socket and        *)
(* threads go with it, and its thread is launched.                         *)
Start ==
    /\ guiPc = "ready" /\ ~started /\ session < MaxSessions
    /\ started' = TRUE /\ connectionFail' = FALSE /\ session' = session + 1
    /\ guiPc' = "waitPromise"
    /\ rtspPc' = "connect" /\ running' = FALSE /\ lastStatus' = "other"
    /\ pollRet' = "SREADY" /\ promise' = "unset" /\ sent' = {}
    /\ rtpPc' = "none" /\ rtpRunning' = FALSE /\ rtpPromise' = "unset"
    /\ stopped' = FALSE
    /\ UNCHANGED <<streamVars, crashed>>

GetPromise ==
    /\ guiPc = "waitPromise" /\ promise # "unset"
    /\ guiPc' = IF promise = "true" THEN "openStream" ELSE "failStop"
    /\ UNCHANGED <<started, connectionFail, session, rtspVars, rtpVars, stopped,
                   streamVars, crashed>>

(* The promise was false: RTSPSession::stop, which has no thread to signal *)
(* any more and joins it.                                                  *)
FailStop ==
    /\ guiPc = "failStop" /\ rtspPc \in Ended
    /\ rtspPc' = "joined" /\ running' = FALSE
    /\ connectionFail' = TRUE /\ started' = FALSE
    /\ guiPc' = "startReturned"
    /\ UNCHANGED <<session, lastStatus, pollRet, promise, sent, rtpVars, stopped,
                   streamVars, crashed>>

(* openStream and startStream; an RtAudioError from either is swallowed.   *)
OpenStream ==
    /\ guiPc = "openStream"
    /\ IF stream = "closed"
       THEN /\ stream' \in {"running", "stopped", "closed"}
            /\ cbPc' = CASE stream' = "running" -> "idle"
                         [] stream' = "stopped" -> "parked"
                         [] OTHER -> "none"
       ELSE UNCHANGED streamVars
    /\ guiPc' = "startReturned"
    /\ UNCHANGED <<started, connectionFail, session, rtspVars, rtpVars, stopped, crashed>>

(* startScanner looks at connectionFail() and stops what did not start.    *)
StartReturned ==
    /\ guiPc = "startReturned"
    /\ IF connectionFail THEN guiPc' = "stopSession" /\ started' = FALSE
                         ELSE guiPc' = "ready" /\ UNCHANGED started
    /\ UNCHANGED <<connectionFail, session, rtspVars, rtpVars, stopped, streamVars, crashed>>

-----------------------------------------------------------------------------
(* SC_RTaudio::stop, from the Stop button or from closing the frame.       *)

Stop ==
    /\ guiPc = "ready"
    /\ started' = FALSE
    /\ guiPc' = "stopSession"
    /\ UNCHANGED <<connectionFail, session, rtspVars, rtpVars, stopped, streamVars, crashed>>

(* RTSPSession::stop: m_running is cleared without m_cv_m ...              *)
StopSession ==
    /\ guiPc = "stopSession"
    /\ running' = FALSE
    /\ guiPc' = IF running THEN "notify" ELSE "join"
    /\ UNCHANGED <<started, connectionFail, session, rtspPc, lastStatus, pollRet,
                   promise, sent, rtpVars, stopped, streamVars, crashed>>

(* ... and the notification finds a waiter or is lost.                     *)
Notify ==
    /\ guiPc = "notify"
    /\ rtspPc' = IF rtspPc = "waiting" THEN "woken" ELSE rtspPc
    /\ guiPc' = "join"
    /\ UNCHANGED <<started, connectionFail, session, running, lastStatus, pollRet,
                   promise, sent, rtpVars, stopped, streamVars, crashed>>

(* Mutated Join: the RTSP thread is left to end by itself.                 *)
JoinNobody ==
    /\ guiPc = "join"
    /\ guiPc' = "closing"
    /\ UNCHANGED <<started, connectionFail, session, rtspVars, rtpVars, stopped,
                   streamVars, crashed>>

Join ==
    /\ guiPc = "join" /\ rtspPc \in Ended
    /\ rtspPc' = IF rtspPc = "ended" THEN "joined" ELSE rtspPc
    /\ guiPc' = "closing"
    /\ UNCHANGED <<started, connectionFail, session, running, lastStatus, pollRet,
                   promise, sent, rtpVars, stopped, streamVars, crashed>>

(* Mutated CloseStream: only a running stream is closed.                   *)
CloseRunningStream ==
    /\ guiPc = "closing" /\ cbPc # "inCallback"
    /\ IF stream = "running" THEN stream' = "closed" /\ cbPc' = "none"
                             ELSE UNCHANGED streamVars
    /\ guiPc' = "ready"
    /\ UNCHANGED <<started, connectionFail, session, rtspVars, rtpVars, stopped, crashed>>

(* closeStream lets a callback that is running finish and joins its thread.*)
CloseStream ==
    /\ guiPc = "closing" /\ cbPc # "inCallback"
    /\ stream' = "closed" /\ cbPc' = "none"
    /\ guiPc' = "ready"
    /\ UNCHANGED <<started, connectionFail, session, rtspVars, rtpVars, stopped, crashed>>

-----------------------------------------------------------------------------
(* RTSPSession::execute.                                                   *)

(* What every failure before the promise does: no more audio, tell start().*)
(* The thread ends here, whatever the scanner still holds for us.          *)
GiveUp ==
    /\ running' = FALSE /\ stopped' = TRUE
    /\ promise' = "false"
    /\ rtspPc' = "ended"

Connect ==
    /\ rtspPc = "connect"
    /\ \/ GiveUp /\ pollRet' \in {"SREADY", "STIMEOUT"}
       \/ /\ running' = TRUE /\ rtspPc' = "OPTIONS"
          /\ UNCHANGED <<stopped, promise, pollRet>>
    /\ UNCHANGED <<guiVars, lastStatus, sent, rtpVars, streamVars, crashed>>

Methods == {"OPTIONS", "DESCRIBE", "SETUP", "PLAY"}
(* Mutated After: a PAUSE that execute does not know.                      *)
AfterPlayPause == [OPTIONS |-> "DESCRIBE", DESCRIBE |-> "SETUP", SETUP |-> "PLAY",
                   PLAY |-> "PAUSE"]

After   == [OPTIONS |-> "DESCRIBE", DESCRIBE |-> "SETUP", SETUP |-> "PLAY",
            PLAY |-> "evaluate"]

(* A request goes out and the answer is 200, something else (an error      *)
(* status, a malformed answer, a connection the scanner has closed) or     *)
(* nothing within socket_read_wait_ms.  Only 200 leads to the next one.    *)
Request(method) ==
    /\ rtspPc = method
    /\ sent' = sent \cup {method}
    /\ \/ lastStatus' = "200" /\ pollRet' = "SREADY" /\ rtspPc' = After[method]
       \/ lastStatus' = "other" /\ pollRet' \in {"SREADY", "STIMEOUT"} /\ rtspPc' = "evaluate"
    /\ UNCHANGED <<guiVars, running, promise, rtpVars, stopped, streamVars, crashed>>

(* An answer with a header line that RTSPResponse does not know: at()      *)
(* throws, and nothing on this thread catches it (RtspExchange says when). *)
Uncaught ==
    /\ rtspPc \in Methods \cup {"keepalive"}
    /\ sent' = sent \cup {IF rtspPc = "keepalive" THEN "KEEPALIVE" ELSE rtspPc}
    /\ crashed' = "uncaught"
    /\ UNCHANGED <<guiVars, rtspPc, running, lastStatus, pollRet, promise, rtpVars,
                   stopped, streamVars>>

(* Mutated Evaluate: a timeout is like any other answer that is not 200.   *)
EvaluateStatusOnly ==
    /\ rtspPc = "evaluate"
    /\ IF lastStatus = "200"
       THEN rtpPc' = "bind" /\ rtspPc' = "waitRtp" /\ UNCHANGED promise
       ELSE promise' = "true" /\ rtspPc' = "loop" /\ UNCHANGED rtpPc
    /\ UNCHANGED <<guiVars, running, lastStatus, pollRet, sent, rtpRunning, rtpPromise,
                   stopped, streamVars, crashed>>

(* A timeout is a failure; an answer that is not 200 is not: it goes on    *)
(* without an RTPSession.                                                  *)
Evaluate ==
    /\ rtspPc = "evaluate"
    /\ \/ pollRet = "STIMEOUT" /\ GiveUp /\ UNCHANGED rtpPc
       \/ /\ pollRet # "STIMEOUT" /\ lastStatus = "200"
          /\ rtpPc' = "bind" /\ rtspPc' = "waitRtp"
          /\ UNCHANGED <<running, stopped, promise>>
       \/ /\ pollRet # "STIMEOUT" /\ lastStatus # "200"
          /\ promise' = "true" /\ rtspPc' = "loop"
          /\ UNCHANGED <<running, stopped, rtpPc>>
    /\ UNCHANGED <<guiVars, lastStatus, pollRet, sent, rtpRunning, rtpPromise,
                   streamVars, crashed>>

WaitRtp ==
    /\ rtspPc = "waitRtp"
    /\ \/ /\ rtpPromise = "true"
          /\ promise' = "true" /\ rtspPc' = "loop"
          /\ UNCHANGED rtpRunning
       \/ /\ rtpPromise = "false"
          /\ rtpRunning' = FALSE /\ rtspPc' = "joinFailedRtp"
          /\ UNCHANGED promise
    /\ UNCHANGED <<guiVars, running, lastStatus, pollRet, sent, rtpPc, rtpPromise,
                   stopped, streamVars, crashed>>

(* Mutated JoinFailedRtp: the promise is not set.                          *)
JoinFailedRtpSilently ==
    /\ rtspPc = "joinFailedRtp" /\ rtpPc \in Ended
    /\ rtpPc' = "joined"
    /\ running' = FALSE /\ stopped' = TRUE /\ rtspPc' = "ended"
    /\ UNCHANGED <<guiVars, lastStatus, pollRet, promise, sent, rtpRunning, rtpPromise,
                   streamVars, crashed>>

JoinFailedRtp ==
    /\ rtspPc = "joinFailedRtp" /\ rtpPc \in Ended
    /\ rtpPc' = "joined"
    /\ GiveUp
    /\ UNCHANGED <<guiVars, lastStatus, pollRet, sent, rtpRunning, rtpPromise,
                   streamVars, crashed>>

(* Mutated KeepaliveLoop: TEARDOWN before the RTP thread is stopped.       *)
TeardownFirst ==
    /\ rtspPc = "loop"
    /\ rtspPc' = IF running THEN "lock" ELSE "teardown"
    /\ UNCHANGED <<guiVars, running, lastStatus, pollRet, promise, sent, rtpVars,
                   stopped, streamVars, crashed>>

(* Mutated KeepaliveLoop: while(true).                                     *)
LoopForEver ==
    /\ rtspPc = "loop"
    /\ rtspPc' = "lock"
    /\ UNCHANGED <<guiVars, running, lastStatus, pollRet, promise, sent, rtpVars,
                   stopped, streamVars, crashed>>

(* while(m_running): between this test and the wait the thread is deaf.    *)
KeepaliveLoop ==
    /\ rtspPc = "loop"
    /\ rtspPc' = IF running THEN "lock" ELSE "stopRtp"
    /\ UNCHANGED <<guiVars, running, lastStatus, pollRet, promise, sent, rtpVars,
                   stopped, streamVars, crashed>>

EnterWait ==
    /\ rtspPc = "lock"
    /\ rtspPc' = "waiting"
    /\ UNCHANGED <<guiVars, running, lastStatus, pollRet, promise, sent, rtpVars,
                   stopped, streamVars, crashed>>

(* Mutated WaitEnds: wait() instead of wait_until().                       *)
WaitForSignal == FALSE /\ UNCHANGED vars

(* 40 seconds have passed, or the wait woke spuriously.                    *)
WaitEnds ==
    /\ rtspPc = "waiting"
    /\ rtspPc' = "woken"
    /\ UNCHANGED <<guiVars, running, lastStatus, pollRet, promise, sent, rtpVars,
                   stopped, streamVars, crashed>>

Woken ==
    /\ rtspPc = "woken"
    /\ rtspPc' = IF running THEN "keepalive" ELSE "loop"
    /\ UNCHANGED <<guiVars, running, lastStatus, pollRet, promise, sent, rtpVars,
                   stopped, streamVars, crashed>>

Keepalive ==
    /\ rtspPc = "keepalive"
    /\ sent' = sent \cup {"KEEPALIVE"}
    /\ \/ pollRet' = "SREADY" /\ UNCHANGED running
       \/ pollRet' \in {"SREADY", "STIMEOUT"} /\ running' = FALSE
    /\ rtspPc' = "loop"
    /\ UNCHANGED <<guiVars, lastStatus, promise, rtpVars, stopped, streamVars, crashed>>

(* Mutated StopRtp: joins without clearing RTPSession::m_running.          *)
StopRtpByJoin ==
    /\ rtspPc = "stopRtp"
    /\ IF rtpPc = "none"
       THEN crashed' = "nullRtpSession" /\ UNCHANGED rtspPc
       ELSE rtspPc' = "joinRtp" /\ UNCHANGED crashed
    /\ UNCHANGED <<guiVars, running, lastStatus, pollRet, promise, sent, rtpVars,
                   stopped, streamVars>>

(* m_rtp_session_ptr->stop() ...                                           *)
StopRtp ==
    /\ rtspPc = "stopRtp"
    /\ IF rtpPc = "none"
       THEN crashed' = "nullRtpSession" /\ UNCHANGED <<rtpRunning, rtspPc>>
       ELSE rtpRunning' = FALSE /\ rtspPc' = "joinRtp" /\ UNCHANGED crashed
    /\ UNCHANGED <<guiVars, running, lastStatus, pollRet, promise, sent, rtpPc,
                   rtpPromise, stopped, streamVars>>

JoinRtp ==
    /\ rtspPc = "joinRtp" /\ rtpPc \in Ended
    /\ rtpPc' = "joined" /\ rtspPc' = "teardown"
    /\ UNCHANGED <<guiVars, running, lastStatus, pollRet, promise, sent, rtpRunning,
                   rtpPromise, stopped, streamVars, crashed>>

(* ... and sendTEARDOWN(), whose answer nobody reads.                      *)
Teardown ==
    /\ rtspPc = "teardown"
    /\ sent' = sent \cup {"TEARDOWN"}
    /\ rtspPc' = "ended"
    /\ UNCHANGED <<guiVars, running, lastStatus, pollRet, promise, rtpVars, stopped,
                   streamVars, crashed>>

-----------------------------------------------------------------------------
(* RTPSession::execute.                                                    *)

RtpBind ==
    /\ rtpPc = "bind"
    /\ \/ rtpRunning' = TRUE /\ rtpPromise' = "true" /\ rtpPc' = "loop" /\ UNCHANGED stopped
       \/ rtpRunning' = FALSE /\ rtpPromise' = "false" /\ rtpPc' = "ended" /\ stopped' = TRUE
    /\ UNCHANGED <<guiVars, rtspVars, streamVars, crashed>>

RtpLoop ==
    /\ rtpPc = "loop"
    /\ IF rtpRunning THEN rtpPc' = "recv" /\ UNCHANGED stopped
                     ELSE rtpPc' = "ended" /\ stopped' = TRUE
    /\ UNCHANGED <<guiVars, rtspVars, rtpRunning, rtpPromise, streamVars, crashed>>

(* A datagram, which goes through the AudioBuffer, or an error of the      *)
(* socket, of whose -1 bytes recvfrom cannot make a string.                *)
RtpDatagram ==
    /\ rtpPc = "recv"
    /\ \/ rtpPc' = "loop" /\ UNCHANGED crashed
       \/ crashed' = "recvError" /\ UNCHANGED rtpPc
    /\ UNCHANGED <<guiVars, rtspVars, rtpRunning, rtpPromise, stopped, streamVars>>

(* Mutated RtpTimeout: the buffer is not told.                             *)
RtpTimeoutUnannounced ==
    /\ rtpPc = "recv"
    /\ \/ crashed' = "nullConfig" /\ UNCHANGED <<rtpRunning, rtpPc>>
       \/ rtpRunning' = FALSE /\ rtpPc' = "ended" /\ UNCHANGED crashed
    /\ UNCHANGED <<guiVars, rtspVars, rtpPromise, stopped, streamVars>>

(* No datagram within socket_read_wait_ms: recvfrom logs the wait from its *)
(* null m_pConfig and, if it survives that, the thread ends.               *)
RtpTimeout ==
    /\ rtpPc = "recv"
    /\ \/ crashed' = "nullConfig" /\ UNCHANGED <<rtpRunning, rtpPc, stopped>>
       \/ rtpRunning' = FALSE /\ rtpPc' = "ended" /\ stopped' = TRUE /\ UNCHANGED crashed
    /\ UNCHANGED <<guiVars, rtspVars, rtpPromise, streamVars>>

-----------------------------------------------------------------------------
(* The callback thread: RtAudio calls rtaudio_callback while the stream is *)
(* running and closeStream has not been called.                            *)

CallbackEnter ==
    /\ cbPc = "idle" /\ guiPc # "closing"
    /\ cbPc' = "inCallback"
    /\ UNCHANGED <<guiVars, rtspVars, rtpVars, stopped, stream, crashed>>

(* rtaudio_callback returns 2 if the buffer is stopped: abortStream.       *)
CallbackReturn ==
    /\ cbPc = "inCallback"
    /\ IF stopped THEN stream' = "stopped" /\ cbPc' = "parked"
                  ELSE cbPc' = "idle" /\ UNCHANGED stream
    /\ UNCHANGED <<guiVars, rtspVars, rtpVars, stopped, crashed>>

-----------------------------------------------------------------------------
(* What the GUI thread does in the course of a start or a stop; pressing   *)
(* the buttons (Start, StartNoDevice, Stop) is the user's choice.          *)
GuiThread == GetPromise \/ FailStop \/ OpenStream \/ StartReturned
                \/ StopSession \/ Notify \/ Join \/ CloseStream
RtspThread == Connect \/ (\E m \in Methods : Request(m)) \/ Uncaught \/ Evaluate
                \/ WaitRtp \/ JoinFailedRtp \/ KeepaliveLoop \/ EnterWait \/ WaitEnds \/ Woken
                \/ Keepalive \/ StopRtp \/ JoinRtp \/ Teardown
RtpThread  == RtpBind \/ RtpLoop \/ RtpDatagram \/ RtpTimeout
CallbackThread == CallbackEnter \/ CallbackReturn

Step == StartNoDevice \/ Start \/ Stop \/ GuiThread \/ RtspThread \/ RtpThread
            \/ CallbackThread

Next == \/ Alive /\ Step
        \/ ~Alive /\ UNCHANGED vars

(* Each thread is scheduled, every socket call returns within its poll     *)
(* timeout and the timed wait within its 40 seconds; the audio device goes *)
(* on asking for data.  The user need not do anything.                     *)
Fairness == /\ WF_vars(Alive /\ GuiThread) /\ WF_vars(Alive /\ RtspThread)
            /\ WF_vars(Alive /\ RtpThread) /\ WF_vars(Alive /\ CallbackThread)

Spec == Init /\ [][Next]_vars
FairSpec == Spec /\ Fairness

-----------------------------------------------------------------------------
GuiPcs  == {"ready", "waitPromise", "failStop", "openStream", "startReturned",
            "stopSession", "notify", "join", "closing"}
RtspPcs == Methods \cup Ended \cup
           {"connect", "evaluate", "waitRtp", "joinFailedRtp", "loop", "lock", "waiting",
            "woken", "keepalive", "stopRtp", "joinRtp", "teardown"}
RtpPcs  == Ended \cup {"bind", "loop", "recv"}

GuiTypeOK ==
    /\ guiPc \in GuiPcs /\ started \in BOOLEAN /\ connectionFail \in BOOLEAN
    /\ session \in 0..MaxSessions

RtspTypeOK ==
    /\ rtspPc \in RtspPcs /\ running \in BOOLEAN /\ lastStatus \in {"200", "other"}
    /\ pollRet \in {"SREADY", "STIMEOUT"} /\ promise \in {"unset", "true", "false"}
    /\ sent \subseteq Methods \cup {"KEEPALIVE", "TEARDOWN"}

RtpTypeOK ==
    /\ rtpPc \in RtpPcs /\ rtpRunning \in BOOLEAN
    /\ rtpPromise \in {"unset", "true", "false"}

AudioTypeOK ==
    /\ stopped \in BOOLEAN /\ stream \in {"closed", "stopped", "running"}
    /\ cbPc \in {"none", "parked", "idle", "inCallback"}
    /\ crashed \in {"no", "nullRtpSession", "nullConfig", "recvError", "uncaught"}

TypeOK == GuiTypeOK /\ RtspTypeOK /\ RtpTypeOK /\ AudioTypeOK

(* m_audio_buffer_ptr is rebound and the old RTSPSession destroyed only    *)
(* when nobody can be using them: the callback, which was given the        *)
(* address of m_audio_buffer_ptr, is gone with its stream, and no thread   *)
(* of the old session is still joinable (SC_RTaudio::start, line 47).      *)
ReplaceSafely ==
    [][session' # session =>
            /\ stream = "closed" /\ cbPc = "none"
            /\ rtspPc \in {"none", "joined"} /\ rtpPc \in {"none", "joined"}]_vars

(* When the frame is idle and the audio not started, nothing is left of    *)
(* the session: threads joined, stream closed; and if start() had reported *)
(* success the scanner has been sent TEARDOWN (stop, and the failures of   *)
(* start).                                                                 *)
StoppedIsQuiet ==
    Alive /\ guiPc = "ready" /\ ~started =>
        /\ rtspPc \in {"none", "joined"} /\ rtpPc \in {"none", "joined"}
        /\ stream = "closed" /\ cbPc = "none"
        /\ promise = "true" => "TEARDOWN" \in sent

(* The scanner is told to tear the session down only when no thread of     *)
(* ours expects its datagrams any more, and nothing follows the TEARDOWN.  *)
TeardownIsLast ==
    [][ /\ "TEARDOWN" \in sent' \ sent => rtpPc \notin {"bind", "loop", "recv"}
        /\ "TEARDOWN" \in sent /\ session' = session => sent' = sent]_vars

(* Nobody waits for what will not come.  The GUI thread waits for a promise*)
(* or a join of the RTSP thread, which waits for a promise or a join of the*)
(* RTP thread: whoever is waited for has done it, or is on the way to do it*)
(* with the flag cleared that could keep it in its loop.  And a device that*)
(* plays what is no longer received is told (SC_RTaudio::start and stop,   *)
(* RTSPSession::execute and stop, RTPSession::execute and stop).           *)
NobodyWaitsInVain ==
    /\ guiPc = "waitPromise" /\ promise = "unset" => rtspPc \notin Ended
    /\ guiPc = "failStop" => rtspPc = "ended"
    /\ guiPc \in {"notify", "join"} => rtspPc \in Ended \/ ~running
    /\ rtspPc = "waitRtp" /\ rtpPromise = "unset" => rtpPc = "bind"
    /\ rtspPc \in {"joinRtp", "joinFailedRtp"} =>
           \/ rtpPc \in Ended
           \/ rtpPc \in {"loop", "recv"} /\ ~rtpRunning
    /\ rtpPc \in {"ended", "joined"} => stopped

(* How many steps the RTSP thread, told to stop, and the RTP thread, told  *)
(* likewise, have at most before they end.                                 *)
RtspSteps == [connect |-> 18, OPTIONS |-> 17, DESCRIBE |-> 16, SETUP |-> 15, PLAY |-> 14,
              evaluate |-> 13, waitRtp |-> 12, joinFailedRtp |-> 11, lock |-> 10,
              waiting |-> 9, woken |-> 8, keepalive |-> 7, loop |-> 6, stopRtp |-> 5,
              joinRtp |-> 4, teardown |-> 3, ended |-> 2, joined |-> 1, none |-> 0]
RtpSteps  == [bind |-> 5, recv |-> 4, loop |-> 3, ended |-> 2, joined |-> 1, none |-> 0]

(* Whom the GUI thread is blocked on.                                      *)
AwaitsRtsp == \/ guiPc = "waitPromise" /\ promise = "unset"
              \/ guiPc \in {"notify", "join"}

(* Waiting brings the end nearer: while the GUI thread is blocked on the   *)
(* RTSP thread, no step of any thread, no timeout and no spurious wakeup   *)
(* sets that thread back, nor the RTP thread while the RTSP thread joins   *)
(* it; with NobodyWaitsInVain and threads that are scheduled, start() and  *)
(* stop() return within the steps that RtspSteps and RtpSteps count.       *)
CallsAdvance ==
    [][ /\ AwaitsRtsp /\ rtspPc' # rtspPc => RtspSteps[rtspPc'] < RtspSteps[rtspPc]
        /\ rtspPc \in {"joinRtp", "joinFailedRtp"} /\ rtpPc' # rtpPc =>
               RtpSteps[rtpPc'] < RtpSteps[rtpPc] ]_vars

(* start() and stop() return, a stop at the latest when the keepalive wait *)
(* has run out.                                                            *)
CallsReturn ==
    /\ guiPc = "waitPromise" ~> guiPc = "startReturned" \/ ~Alive
    /\ guiPc = "stopSession" ~> guiPc = "ready" \/ ~Alive

(* When the RTP thread ends by itself, a running stream is aborted: the    *)
(* device is not fed with silence for ever.                                *)
AudioEnds == rtpPc = "ended" /\ stream = "running" ~> stream # "running" \/ ~Alive

(* A session that has started is kept alive: the RTSP thread comes to send *)
(* a keepalive as long as nobody stops it and the scanner answers.         *)
KeptAlive == rtspPc = "waiting" /\ running ~> rtspPc = "keepalive" \/ ~running \/ ~Alive

(* The session as the frame sees it.                                       *)
Call == CASE guiPc = "ready" -> "none"
          [] guiPc \in {"waitPromise", "failStop", "openStream"} -> "start"
          [] guiPc = "startReturned" -> "returned"
          [] OTHER -> "stop"
Held == ~(rtspPc \in {"none", "joined"} /\ rtpPc \in {"none", "joined"} /\ stream = "closed")
Owed == promise = "true" /\ "TEARDOWN" \notin sent

Service == INSTANCE AudioService WITH call <- Call, held <- Held, owed <- Owed

(* The threads, promises and joins add up to what the frame is promised:   *)
(* start() and stop() come back only with a session that is up, or with    *)
(* nothing left of it, and m_started and m_connection_fail say which.      *)
ImplementsService == Service!Spec

(* The session as the scanner meets it: what RtspDialogue says of the      *)
(* thread, with the threads around it.  The test of line 59 is made at once*)
(* there, and in a step of its own here.                                   *)
TimedOut == rtspPc = "evaluate" /\ pollRet = "STIMEOUT"
Place == CASE rtspPc \in {"ended", "joined"} /\ "TEARDOWN" \in sent -> "tornDown"
           [] rtspPc \in {"ended", "joined"} /\ "TEARDOWN" \notin sent -> "gaveUp"
           [] TimedOut -> "gaveUp"
           [] rtspPc \in {"none", "connect"} \cup Methods -> rtspPc
           [] rtspPc \in {"joinRtp", "teardown"} -> "teardown"
           [] OTHER -> "loop"
At == IF crashed = "nullRtpSession" THEN "null"
      ELSE IF crashed = "uncaught" THEN "uncaught" ELSE Place
HasRtp == \/ rtpPc # "none"
          \/ rtspPc = "evaluate" /\ ~TimedOut /\ lastStatus = "200"

Dialogue == INSTANCE RtspDialogue WITH at <- At, rtp <- HasRtp

(* What the session does on its connection, whenever it is stopped, is     *)
(* what RtspExchange, too, does on its own: the outcomes of a request that *)
(* are taken as given here are those that are found out there.             *)
ImplementsDialogue == Dialogue!Spec

(* SC_RTaudio.cpp:52 says of RTSPSession::start that it "will start two    *)
(* threads, one for RTSP and one for RTP": a start that reports success    *)
(* has an RTP thread.                                                      *)
SuccessHasRtpThread == promise = "true" => rtpPc # "none"

(* RTSPSession.cpp:93 says of the keepalive wait "sleep for 40 seconds or  *)
(* until signaled to stop": a thread that has been signalled is not asleep.*)
SignalEndsSleep == guiPc = "join" => rtspPc # "waiting"

(* sc_test.cpp:179 says that OPTIONS "will hang the scanner if a           *)
(* subsequent TEARDOWN is not sent on the same session": a session that    *)
(* sent OPTIONS ends with TEARDOWN, also when the scanner does not answer. *)
OptionsThenTeardown ==
    rtspPc \in {"ended", "joined"} /\ "OPTIONS" \in sent => "TEARDOWN" \in sent

(* SCFrame.cpp:179 refuses a start because "A session is already running.":*)
(* while the audio counts as started, its session has not come to its end. *)
StartedIsRunning == Alive /\ guiPc = "ready" /\ started => rtspPc # "ended"
=============================================================================
