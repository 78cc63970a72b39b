# Verification of ScannerClient

ScannerClient is a desktop program (C++20, wxWidgets) that shows the status of a
Uniden SDS200 scanner and plays its audio over IP. This directory holds TLA+
models of it, TLC configurations that check them on small instances, and TLAPS
proofs for every value of the constants. `PROJECT.json` lists the components, the
runs, the lines of source each definition translates, the findings, the hazards
and the theorems.

Check a run with `tlc -config <cfg> <module>`, a proof with `tlapm <module>.tla`.
Source paths below are relative to `src/src/`.

## 1. The system

### Threads

| thread | code | made by | ends when |
|---|---|---|---|
| GUI | `SCFrame`, `SC_RTaudio::start/stop`, `ScannerStatus::start/stop` | wxWidgets | the program ends |
| RTSP | `RTSPSession::execute` | `RTSPSession::start` | a failure, or `m_running` false |
| RTP | `RTPSession::execute` | the RTSP thread | a receive timeout, or `m_running` false |
| callback | `rtaudio_callback` | RtAudio, at `openStream` | the callback returns 2, or `closeStream` |
| status | `ScannerStatus::execute` | `ScannerStatus::start` | no answer to PSI, or `m_running` false |

### Components

| component | state | operations | talks to |
|---|---|---|---|
| `audio/AudioBuffer` | two pools of free buffers, the pipe of resampled frames, two mutexes, `m_stopped` | `getBuf`, `pushAudio`, `getAudio`, `setStopped` | shared by the RTP thread and the callback |
| `audio/SC_RTaudio` | `m_started`, `m_connection_fail`, the RTSP session, the shared buffer, the RtAudio stream | `start`, `stop`, the callback | blocks on a promise of the RTSP thread; joins |
| `network/RTSPSession` | `m_running`, `m_last_status`, the TCP socket, a condition variable, its RTPSession | `execute`, `start`, `stop`, seven requests | the scanner over TCP; sets the promise; joins the RTP thread |
| `network/RTPSession` | `m_running`, the UDP socket | `execute`, `start`, `stop` | the scanner over UDP; feeds the AudioBuffer |
| `status/ScannerStatus` | `m_started`, `m_running`, the thread | `start`, `execute`, `stop`, `produceStatus` | the scanner over UDP; posts to the GUI with `CallAfter` |
| `gui/SCFrame`, `gui/scApp` | the labels and their colours; owns the other components | the constructor, `startScanner`, `stopScanner`, `editSettings`, `updateStatus`, `OnClose`, key buttons, `FilterEvent` | all of them |
| `network/Socket, TCPSocket, UDPSocket` | the descriptor, `m_pollret` | `connect`, `send`, `recv`, `sendto`, `recvfrom`, `setBlocking` | the kernel |
| `network/RTSPRequest, RTSPResponse, SessionDescription, MediaDescription` | header maps, the parsed SDP | format, parse | used by RTSPSession |
| `network/g711` | none | `ulaw_expand` | used by the RTP thread |
| `config/*`, `gui/SettingsDialog` | the persistent settings and the copies each component takes of them | load, save, `onOK` | read by every component |
| `control/SControl` | a UDP socket | one datagram per key; the weather key is held for 3 s | the scanner |

### What is hard in it

* **Sharing without a lock.** `audio_buf_pool.size()` is read without the mutex
  that the callback's `push_back` holds (`AudioBuffer.cpp:57`);
  `getAudio` nests one mutex in the other; each `m_running` is an atomic that two
  threads write.
* **Three nested hand-overs at start.** The GUI thread waits for a promise of the
  RTSP thread, which waits for a promise of the RTP thread; every failure on the
  way has to fulfil both.
* **Three nested joins at stop.** The GUI thread joins the RTSP thread, which
  joins the RTP thread; then `closeStream` joins the callback thread.
* **Objects replaced under threads.** A start replaces the RTSPSession and with it
  the AudioBuffer whose address the callback was given.
* **Timeouts.** Each receive ends after `socket_read_wait_ms`; the keepalive is due
  every 40 s; a status session asks again when messages stop coming, and by that
  may undo a stop.
* **Two sessions, one button.** A start starts the audio and then the status, and the
  first may fail; a stop, or the closing of the frame, stops them in that order, and the
  second may hang.
* **Snapshots of the settings.** One component reads the configuration at every start,
  two when the frame is made, and the dialog may write it between.
* **Stale state.** Buffers are used again and again and are only partly written by
  each use; `m_started` outlives the session; labels outlive the message that wrote
  them.

`PROJECT.json` lists each of these under `hazards`, at its line, with the properties
that cover it.

### What makes each component correct

* The client: whatever was clicked, failed or closed, both sessions are there or neither;
  an idle client has nothing left of either, here or at the scanner; both talk to the
  scanner that the settings name.
* AudioBuffer: a buffer is in one place at a time; what is handed out is clear; each
  frame is heard at most once, in order, with samples of its own datagram and of the end of
  the one before, and no other; nobody is blocked for ever.
* SC_RTaudio with RTSPSession and RTPSession: `start()` and `stop()` return whatever
  the network does; after a stop nothing is left running; objects are replaced only
  when nobody can reach them; the scanner is sent TEARDOWN last, when the RTP thread
  is gone; the session is kept alive; the stream ends when the RTP thread does.
* The RTSP conversation: audio is set up only with the channel, the session and the
  port the scanner answered; no answer is taken for another's.
* The decoder: every byte becomes the sample that G.711 means, within 16 bits.
* ScannerStatus: one thread at a time, none after a stop.
* The display: the labels show one message, the latest, with its holds and without a
  signal that is over (but for two labels that the code forgets, section 5); every message
  is shown; the frame outlives its updates.

## 2. The modules

| module | models | uses |
|---|---|---|
| `Client` | `SCFrame` with both sessions, the Settings dialog, the configuration, `SCApp::OnInit` | composes `AudioService` and `StatusSession` |
| `AudioService` | what `SC_RTaudio` promises the frame: calls that come back, and nothing left after a stop | |
| `AudioSession` | `SC_RTaudio`, `RTSPSession`, `RTPSession`, the RtAudio stream, and `SCFrame::startScanner/stopScanner` as far as they drive the audio | implements `AudioService` and `RtspDialogue` |
| `RtspDialogue` | the RTSP thread as the scanner meets it: the requests in their order, the outcomes each may have, how a session ends | |
| `FrameChannel` | what an AudioBuffer promises: a FIFO channel of frames, silence on underrun | |
| `AudioBuffer` | `AudioBuffer.cpp`, the receive loop of `RTPSession::execute` and `rtaudio_callback` | implements `FrameChannel` |
| `G711` | `itu_expand`, a pure function, against the intervals of G.711 | makes the samples that `AudioBuffer` counts; the two meet in `MCAudioBuffer` |
| `RtspExchange` | the conversation on one TCP connection: `TCPSocket`, `RTSPRequest`, `RTSPResponse`, `SessionDescription`, and the order of requests in `RTSPSession::execute` | implements `RtspDialogue` |
| `StatusFeed` | what a status session promises the display: messages come only between a start and the end of the stop that follows | |
| `StatusSession` | `ScannerStatus::start`, `execute`, `stop` and the events it posts | implements `StatusFeed` |
| `StatusDisplay` | `ScannerStatus::produceStatus` and the lambda of `SCFrame::updateStatus`, with the event queue between them and the closing of the frame | implements `StatusFeed` |
| `Client_proofs`, `AudioSession_proofs`, `AudioBuffer_proofs`, `G711_proofs`, `RtspExchange_proofs`, `StatusSession_proofs`, `StatusDisplay_proofs` | the theorems of section 4 | each extends its module; `Client_proofs` also `StatusSession_proofs` |
| `MC...` | instances for TLC | each extends its module |

How they fit: `AudioSession` is checked against `AudioService`, and `Client` is built on
`AudioService`, so that the client is small enough to be checked with everything a user
can do; `StatusSession` is small enough to be part of `Client` as it is. `AudioBuffer` and
`RtspExchange` look inside what `AudioSession` takes as one step: what a datagram becomes,
and where the outcome of a request comes from. `StatusDisplay` looks inside what
`StatusSession` counts as one event.

Two modules that look at the same thread from two sides are tied by a third that both implement.
`AudioSession` takes the outcomes of a request as given, `RtspExchange` finds them out;
`RtspDialogue` has the outcomes and what follows from each and is where the two agree.
`StatusDisplay` takes the status thread as given, `StatusSession` has it step by step;
`StatusFeed` is the interface: launches, stops, messages and the end of the thread.

### Client

*State.* `frame` is the handler that the GUI thread is in: a modal dialog or a message box
is one of them, which lets events through and buttons not. The state of the audio session
is that of `AudioService`, the state of the status session that of `StatusSession`; each
joint action takes a step of one of them. `config` is the IP address in the wxConfig
object, `address` and `audioAddress` the copies that were made of it.

*Correspondence.* `Construct` and `Build` are the constructor of `SCFrame`, with the dialog
of a first run between them (`SaveSettings`, `CancelSettings`), `BadKey` the key in that
dialog that `FilterEvent` passes on through `m_frame` before it is assigned. `RefuseStart`
to `UpdateStatus` are `startScanner` from top to bottom; `StopScanner` to `JoinStatus` are
`stopScanner` and `OnClose`, which are the same calls. `Destroy` is wxWidgets'.
`PressWeather` and `ReleaseWeather` are `send_weather_scan`, which keeps the GUI thread for 3 s
between two datagrams while the sessions' threads go on. What it sends, and what the buttons
send that are one datagram each, changes nothing in the client, and nothing answers it.

### AudioService

*State.* The call that the frame is in, the two flags it can ask for, and two facts about
what it cannot see: whether a thread or a stream is left (`held`), and whether the scanner
has an open session with us (`owed`). A start succeeds, fails or finds no device; a session
may end by itself, and may take the process with it. `AudioSession` maps its places and
flags to it (`Call`, `Held`, `Owed`).

### AudioBuffer

*State.* The pools are sets of buffer identities and the pipe a sequence of them;
`rtpContent` and `floatContent` say which datagrams have samples in a buffer. That
is the coarsest abstraction of audio that still shows a sample left over from an
earlier use. A pool is a vector used as a stack; any of its members may be taken in
the model, since clear buffers differ in nothing but their address. What is not
modelled: the samples, `audio_buf_pool_max` and the channel count, on which no
thread decides anything. A datagram has at most 320 samples, as `AudioBuffer.h:27`
assumes. `samplerate` is the converter of `libsamplerate` that the constructor makes, or
fails to make, once for the life of the buffer; `tail` is what it keeps of the samples it
was given, for the frame after.

*Steps.* A block under one lock in which nothing is waited for is one step. `getAudio` holds
`audio_pipe_mutex` from its first line to its last and takes `audio_buf_pool_mutex` inside it,
and is several steps, because the RTP thread's unlocked `size()` can fall between them;
`pushAudio` takes the pool's mutex in a step of its own (`LockToPop`) and gives it up with the
pop. The places of the threads give who holds what (`PipeLocked`, `CbHasPool`, `RtpHasPool`).
The unlocked read is a data race while `push_back` is under way, and may then answer
either way (`TestPool`). `ulaw_expand` fills all of a buffer, its first part, or nothing.

`Resample` is `src_process` with `end_of_input = 0`: a frame begins with the tail of the
datagram before and goes on with this one, whose own tail stays in the converter. So a frame
may hold two datagrams, in the program and in the model; that it holds no third, and no sample
of an earlier use of its buffer, is what `FrameChannel` says of it. It may also write part of
the frame only (while the converter fills), or, without a converter, nothing.

*Mutants.* An operator `X...` that precedes an operator `X` with the comment "Mutated
X" is `X` with a plausible mistake. No specification uses it; it documents what the
properties can tell.

### AudioSession

*State.* One program counter per thread; the flags `m_started`, `m_connection_fail`,
both `m_running`, `m_stopped`; the two promises; `m_last_status` and `m_pollret` as far
as `execute` looks at them; the requests sent on the current connection; the state of
the RtAudio stream. `session` counts the RTSPSession objects and identifies the current
one. `crashed` records a null pointer used as one: the RTPSession of a session that has
none (`RTSPSession.cpp:104`), and the configuration of the RTP socket, which is read to
log a timeout (`UDPSocket.cpp:67`) and is null for sockets made by the three-argument
constructor. The latter is undefined, and may also do no harm. A third way is the exception
that `RTSPResponse` throws at a header it does not know and nobody catches (`Uncaught`;
`RtspExchange` shows when), and a fourth the length -1 of a failed `recvfrom`, of which a
string is made (`UDPSocket.cpp:77`, in `RtpDatagram`). A crash freezes every thread.

*Steps.* What a thread does between two points where another can tell. A network call
is one step with all its outcomes: success, an answer that is not 200, a timeout. The
wait on the condition variable is entered, notified, timed out or spuriously woken as
the C++ standard says; `stop()` clears `m_running` and notifies without the mutex, so
the two are separate steps of the GUI thread.

*Correspondence.* `Connect`, `Request(m)`, `Uncaught`, `Evaluate`, `WaitRtp`, `JoinFailedRtp`,
`KeepaliveLoop`, `EnterWait`, `WaitEnds`, `Woken`, `Keepalive`, `StopRtp`, `JoinRtp` and
`Teardown` are `RTSPSession::execute` from top to bottom; `GiveUp` is what its failures
have in common. `RtpBind`, `RtpLoop`, `RtpDatagram` and `RtpTimeout` are
`RTPSession::execute`. `Start` to `StartReturned` are `SC_RTaudio::start` and its caller
`startScanner`; `Stop` to `CloseStream` are `SC_RTaudio::stop`.

In `OpenStream`, the branch in which a stream is already open is never taken: `stop()`
closes what `start()` opened, which `ReplaceSafely` relies on and checks. It is there
because the code has it.

### G711

Exponent, mantissa and step as the code takes a byte apart, the magnitude, and its
narrowing to `unsigned short` and back to `short`. The reference is the other way round: the
interval of 14 bit values that G.711's encoder maps to that byte.

### RtspExchange

*State.* The socket (`nonblocking`, `pollret`), what `RTSPSession` remembers of the
answers (`channel`, `session`, `port`), the requests on their way, and the stream of
answers, cut by the network into what is still `coming` and what has `arrived`. A line
is a name and the CSeq of the request it answers; what the client takes from a line is
that number, so that a value taken from a wrong answer, from none, or from
uninitialised memory can be told from the right one. Lines are the smallest pieces: an
answer cut inside a line is not modelled. The recorded answers of
`tests/response_test_data.h` say which lines an answer has.

*Steps.* `Recv` is `TCPSocket::recv`, the parsing, and what `execute` does next (`Continue`).
`Throws` is the `at()` that no one catches; `LeaveLoop` without an RTPSession is the null
pointer of `RTSPSession.cpp:104`. AudioSession takes the outcome of a request as given (200,
another status, a timeout, an exception); this module says where those outcomes come from, and
`At` maps its places to those of `RtspDialogue`. A `Stop` here is the thread's reaction to it,
and the failure to bind the RTP port is left to AudioSession.

### StatusSession

The thread's restart label, request, loop test and receive are steps of their own,
because `m_running = true` at the restart (`ScannerStatus.cpp:38`) races with `stop()`; so is
the construction of the socket, which reads the configuration on that thread.
`pending` counts the events posted with `CallAfter` and not yet handled.

### RtspDialogue and StatusFeed

Two small interfaces, with one action for each thing that the other side can notice.
`AudioSession` maps its program counter to `at` through `Place`, with the crashes apart, and
`RtspExchange` through the request it is about to send or waits for. In `StatusFeed` a
restart of the status thread, the loop test and a lost message are no steps at all, and the
end of the thread may come by itself or for a stop.

### StatusDisplay

*State.* A text is where it comes from: the field it shows, and the number of the
message it was read from. `labels` is what the frame shows, `background` the colours of
the large labels, `queue` the events, `shown` the status that was handled last.

*Correspondence.* `ProduceStatus` is `produceStatus`: which elements it looks for on each
screen (`ElementsRead`), which fields an element fills (`FieldsOf`), when a hold counts.
`Layout` is what the lambda of `updateStatus` writes for each screen (`Conventional`,
`Trunk`, `Weather`, nothing otherwise), `Text` is `getAttribute` (an absent attribute is an
empty text), `Backgrounds` the colours. Fields that share a label with another go by one
name. The three left labels that never get a text are left out. `DeleteFrame` is
wxWidgets', which deletes a closed frame when its pending events are done.

## 3. What TLC checks

| run | bounds | question |
|---|---|---|
| `client` | 3 starts, 2 scanners and the empty address, 2 pending events | both sessions or neither; nothing left; one scanner; the order of a stop, and that it gets done; one status thread; refinement of `StatusFeed` under everything that a user can do |
| `audio_buffer` | 4 datagrams of 64 codes each, all 256 between them; 1 + 1 starting buffers | ownership, clear buffers, the unlocked test, no deadlock of the two mutexes, refinement of `FrameChannel`; frames are played; what is heard was decoded right |
| `audio_session` | 3 sessions | refinement of `AudioService` and of `RtspDialogue`; a stopped client is quiet; safe replacement; TEARDOWN last; every wait has someone who can end it, every step brings a call nearer to its return, and `start()` and `stop()` return; the stream ends; keepalives go out |
| `rtsp_exchange` | 2 requests after the four of the set-up | what an RTPSession is made from; whose answer is accepted; what TEARDOWN names; whole answers are understood; refinement of `RtspDialogue` |
| `status_display` | 3 messages, 2 waiting, 3 element sets, 2 complementary hold sets | labels and holds of one message, no signal that is over but for two labels; in order and none skipped; every message shown; the frame outlives its updates; refinement of `StatusFeed` |
| `success_without_rtp`, `lost_signal`, `missing_teardown`, `dead_but_started`, `lost_stop`, `blocking_connect`, `settings_half` | the smallest | the findings, section 5 |

*Why the bounds are enough.* The constructor of AudioBuffer makes five buffers per pool;
with one the pools run empty and fill again within four datagrams, which five
would only delay. The heap has a buffer for each datagram plus one, so an allocation
never fails, as in the program. A second session meets what the first left behind, and
a third what a replacement left behind; nothing in the state of a session depends on how
many came before. On the RTSP connection, one keepalive can be answered by what is left of
the answer to another, and TEARDOWN follows. On the display, three messages let a screen
be left and come back, and the newest can overtake only when two are waiting; each
message turns every hold around. The event queue matters only when it is empty or not. In the
client, three starts are enough for one that fails, one after it and one after a change of the
settings, and two addresses to change between. The proofs remove these bounds for the safety
properties.

*Fairness.* Each thread is weakly fair as a whole: the operating system schedules it, and its
blocking calls are bounded by the poll timeout of the sockets, by the kernel's patience in
`connect()`, and by the 40 s of the keepalive wait. The callback thread is fair because the
audio device asks for data as long as the stream is running. Nothing is assumed of the user, of
the scanner, or of what the outcomes of a network call are: they are chosen freely inside a
step. In StatusDisplay, handling an update is strongly fair: the event loop handles what is
pending before it waits for a click, so clicks cannot keep it from the queue for ever; that the
status thread leaves its loop when told to is assumed there, and StatusSession says when it
does. In Client a handler that has begun goes on: that the audio's calls come back is what
`CallsReturn` of AudioSession shows; the join of the status thread is fair only when that thread
has ended. In AudioBuffer, leaving the receive loop (`RtpExit`) and opening the stream
(`StartStream`) are not fair, and the bound on datagrams does not force the RTP thread to end: a
behaviour that stays before `Receive` stands for one that goes on receiving.

## 4. What is proved

All theorems hold for every value of the constants, under the assumptions the modules
name: in `AudioBuffer`, that the starting buffers come from the heap, that the null
pointer is no buffer, and that the number of datagrams is natural; in `AudioSession` and
`StatusSession`, that the bounds are positive; in `Client`, that the empty address is no
scanner's; in `RtspExchange` and `StatusDisplay`, that they
are natural and that messages have elements the code knows.

**Client_proofs.** A step of the client is a step of each of its sessions, or leaves it alone
(`StepOfStatus`, `StepOfAudio`). Hence `StatusInside` and `AudioInside`: a behaviour of the
client is a behaviour of `StatusSession` and one of `AudioService`, and what
`StatusSession_proofs` proves holds here (`OneThreadInClient`, `QuietInClient`, `FeedInClient`).
The rest is one invariant, in three parts: the status session's, the audio service's (a service
that is not started and not stopping has released everything), and `FrameInv`, which says of
each place of the frame which sessions it has. `NothingIsLeft`, for instance, needs all three.
As `AudioSession` implements `AudioService` (below), what is proved of the client holds of the
client with the real audio threads, for the part of the state that the frame sees.

**AudioBuffer_proofs.** `Invariance` proves the conjunction `IInv` of `TypeOK`,
`Exclusive`, `FreeBuffersClear`, `PopFindsBuffer` and `OwnAndLast` (what the converter keeps is
of the last datagram, and a buffer in the pipe has samples of its own and of the one before
only; `Implements`, which needs it, is what the run checks), with three that say what the RTP
thread has done where it is (`Unconverted`, `Unpushed`, `LockFindsBuffer`).
None of the named ones is inductive alone: that a buffer leaves the pool clear needs that it went in
clear, which needs that the thread that cleared it held it exclusively; that `back()`
finds a buffer needs that the test which found one cannot be overtaken, since only the
RTP thread takes buffers out. `Refinement` proves that AudioBuffer implements
`FrameChannel` under the mapping `Channel`: `PushPipe` maps to `Put` (`PushPuts`),
`TakeFrame` to `Get` (`TakeGets`), `Underrun` to `Underrun` or a stutter, every other step
to a stutter (`OthersStutter`). What a buffer in the pipe holds cannot change because
the pipe owns it, so each of these uses `IInv`.

**G711_proofs.** `Decodes`: the arithmetic of the decoder, by cases of the exponent
(`CodeParts`), the range of a magnitude (`MagnitudeRange`), which makes the narrowing to 16 bits
harmless (`SampleIsMagnitude`), and its order (`MagnitudeFalls`). It is a fact about a function.
`HeardAsEncoded`, which the run checks, says of the payloads that are heard what it says of
every code.

**AudioSession_proofs.** `StoppedIsQuiet` is far from inductive. Its strengthening says
how the promise tells the RTSP thread's progress (`PromiseTellsProgress`), that the RTP
thread lives inside the RTSP thread's life (`RtpInsideRtsp`), that TEARDOWN has been sent
exactly by sessions that were reported as started and have ended
(`TeardownEndsSuccess`), what the RTSP thread waits for and has done before it joins
(`RtspWaitsForRtp`), when the RTP thread's promise is kept (`RtpPromiseKept`), and what each
place of the GUI thread implies (`GuiKnows`). From it follow `StoppedQuiet`,
`ReplacedSafely`, `TeardownLast`, and two refinements, each step of the threads being a step
of the abstraction or a stutter: `SessionImplementsService` for what the frame sees of a
session, `SessionImplementsDialogue` for what the scanner sees.

That a call returns is liveness, but its safety core is proved. `NobodyWaits`: whoever is
waited for has done it, or is on the way to it with the flag cleared that could keep it in
a loop. `CallsComeNearer`: while the GUI thread is blocked, each move of the RTSP thread
lowers a rank (`RtspSteps`), as each move of the RTP thread does while it is joined
(`RtpSteps`), so that a call returns within a number of steps that no outcome of the network
can raise. What remains for TLC (`CallsReturn`) is that a thread which can move does, which is
the fairness.

**StatusSession_proofs.** One conjunct, that a stopped session has no thread, is
inductive with the types and gives `OneThreadAtATime`, `NothingPostedAfterStop` and
`SessionImplementsFeed`: without it a start would not find the last thread gone, as
`StatusFeed` has it.

**RtspExchange_proofs.** `IInv` says that client and scanner take turns while a session is set
up or plays (`InTurn`): the stream is empty, or is the answer to the request just sent,
or begins with the rest of an answer that was read in part (`Debt`), which no status line
begins, so that the next `recv` refuses it. Hence whatever was learnt from a part is never
used (`Learnt`). From it follow `RtpLearnt`, `SessionNamed` and, an action property,
`AnswersOwn`: that CSeq is never compared does no harm. `WholeUnderstood` has an invariant of its
own: while no answer was read in part, what is in the stream is a row of whole answers
(`WholeInv`), which the parser understands line by line (`AnswerWhole`, `WholeConcat`, `WholeCut`).
`TypeCorrect` rests on `InTurn` as well: that the numbers of the requests stay in range depends on
how far the conversation has come. `ExchangeImplementsDialogue` rests on
`InTurn` too, which says of each place which requests it may be at: whatever is read, in part,
late or not at all, the outcome is one that `RtspDialogue` has, at the request it has it for.

**StatusDisplay_proofs.** `Invariance` proves `DisplayInv`: the types, and that messages wait in
the order they were posted, numbered without a gap from the one shown last to the one posted
last, and that no label is newer than the one shown last (`InOrder`). That the labels are of one
message follows from what a layout writes (`LayoutWritesAll`: all the labels that the screens
share, or none); a hold is current because its label is among them; a quiet screen writes each
label that can show a signal, save `left4` and, on a conventional screen, `right1`
(`QuietLayout`). These give `OneMessage`, `HoldCurrent`, `QuietNoSignal`, `TypeCorrect` and, an
action property, `Forward`, which is the safety half of `EveryUpdateShown`: each message that is
shown is the next one. `FrameOutlives` has an invariant of its own (`FrameInv`): a stopped
session, and a closing frame whose join is done, have no status thread, so none can post to the
frame when it is deleted; with `InOrder`, it is also deleted only when all that was posted has
been shown. `DisplayImplementsFeed` rests on the same invariant.

*Only model-checked.* The six liveness properties (`EveryFramePlayed`, `CallsReturn`,
`AudioEnds`, `KeptAlive`, `StopGetsThrough`, `EveryUpdateShown`): fairness and ENABLED are beyond
the prover. Every safety property, action property and refinement of the passing runs is
proved, but for `HeardAsEncoded`, whose payloads are those of the instance: `Decodes` has every
code. The findings are counterexamples of TLC.

## 5. Findings

1. `SuccessHasRtpThread`. `SC_RTaudio.cpp:52` says that the session starts two threads.
   After an answer that is not 200 and no timeout there is no RTPSession, `start()`
   succeeds nevertheless, and the end of that session calls `stop()` through a null
   pointer (`RTSPSession.cpp:69`, `:104`).
2. `SignalEndsSleep`. `RTSPSession.cpp:93` says "sleep for 40 seconds or until signaled to
   stop". A stop between the loop test and the wait is signalled to nobody, and the GUI
   waits up to 40 s in `join()`.
3. `OptionsThenTeardown`. `sc_test.cpp:179` says that OPTIONS hangs the scanner without a
   later TEARDOWN. When OPTIONS itself times out, as in the run's trace, or a request after it,
   or when the bind fails after PLAY, the session ends without one (`RTSPSession.cpp:59`, `:75`).
4. `StartedIsRunning`. `SCFrame.cpp:179` refuses a start because "A session is already
   running." After a failed keepalive the RTSP thread stops the RTP thread, sends TEARDOWN and
   ends, and `m_started` is still true. The invariant is of a process that is alive, and so not
   of finding 1's null pointer.
5. `StopDisconnects`. `README.md:32` says that Stop disconnects. The status thread sets
   `m_running` itself (`ScannerStatus.cpp:38`), when it starts and at every restart. A Stop that
   comes before the thread has reached that line is overwritten, as in the run's trace, where the
   thread is on its first pass; a restart after a receive timeout does the same. If the scanner
   answers PSI, the GUI thread never returns from `join()`.
6. `ConnectIsAsync`. `TCPSocket.cpp:32` says "make socket non-blocking". In the POSIX build
   `setBlocking(false)` clears `O_NONBLOCK` (`Socket.cpp:134`): `connect()` blocks for as long
   as the kernel tries, with the GUI thread waiting for it.
7. `StartReachesScanner`. `README.md:30` says to update the scanner's address in the settings, and
   `README.md:31` that Start connects to the scanner. `ScannerStatus` and `SControl` keep the address
   read when the frame was made, `RTSPSession` reads it at every start: after a change, the audio is
   the new scanner's, the display and the keys are the old one's, until the program is started again.

Two observations of which no document speaks. The display of a quiet scanner keeps the unit
(`left4`) and, on a conventional screen, the site frequency of an earlier trunk message
(`right1`): `updateStatus` does not write them there (`SCFrame.cpp:249-257`, `:282-290`).
`OneMessageShown` and `QuietShowsNoSignal` except these two labels by name and say that there is
no third. And `rtsp_exchange` shows an answer to DESCRIBE whose session description arrives
after its headers end the program, by an exception in the RTSP thread (`RTSPResponse.cpp:45`).
`WholeAnswersUnderstood` says that answers that arrive whole never do; that the others do is
among the outcomes that `ImplementsDialogue` allows, and `AudioSession` has it as a crash.

## 6. Not modelled

* What a test shows as well: the layout of the frame, the About box, the buttons and keys that
  send one datagram without an answer, the text of the status bar, logging, string utilities
  (`utils`), the manual tests.
* The other settings. They are read and written where the IP address is. Their defaults differ,
  which no property is about: the dialog offers 3000 ms for both timeouts
  (`SettingsDialog.cpp:113`), and until it is saved the program uses 1000 and 2000 ms
  (`WX_ConfigImpl.cpp:39`).
* What undefined behaviour does beyond its outcomes in the models. `BadKey` ends the behaviour: a
  control or space key in the dialog of a first run is passed on through an uninitialised
  `m_frame` (`scApp.cpp:61`, `:66`); CTRL+V is such a key. In the other dialogs the same keys reach
  the scanner, a space in a text field included. (The comment at line 58 speaks of the escape
  key; the code tests the control key, as `README.md:41` has it.)
* A torn read of the wxConfig object by the status thread, whose socket reads it
  (`ScannerStatus.cpp:33`) while the GUI thread may be in `SettingsDialog::onOK`.
* The condition `V_Screen.find("_scan")` (`ScannerStatus.cpp:133`), a position used as a truth value,
  is in `FindScan` as it is: it lets every screen through whose name does not begin with `_scan`.
  No screen shows the difference.
* Answers cut inside a line, and the Windows build's polls.
* Errors of the sockets that have a path of their own in the code. A failed `recvfrom` makes a
  string of length -1, which throws (`UDPSocket.cpp:77`): `AudioSession` has it, `StatusSession`
  (`RequestStatus`, `ReceiveMessage`) does not. A poll that fails (`Socket.cpp:81-84`) is not a
  timeout for `TCPSocket::recv`, which goes on to a `recv` that may block (`TCPSocket.cpp:83-90`).
  A `::send` on a connection that the scanner has closed (`TCPSocket.cpp:72`) raises SIGPIPE on
  POSIX systems, which ends the program.
* What the scanner makes of a key. A datagram is not answered: when the release of the weather key
  (`SControl.cpp:43`) is lost, the key stays held, and nothing in the client can tell.
* What a stop does to updates already queued: they are shown, in order (`ShownInOrder`); that the
  labels then change once more after the stop is how the program works.
* The vendored libraries, except for what `src/src` sees of them. RtAudio's stream appears in
  `AudioSession` as `stream` and `cbPc`, and its callback in `AudioBuffer`.

The plan, in order: the composition of `Client` with `AudioSession` itself in the place of
`AudioService`, so that `NothingLeft` is stated of the real threads; and `StopGetsThrough`
without its exception, once finding 5 is repaired.
