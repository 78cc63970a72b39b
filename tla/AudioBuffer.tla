---------------------------- MODULE AudioBuffer -----------------------------
(***************************************************************************)
(* AudioBuffer (audio/AudioBuffer.cpp), with the two threads that share    *)
(* it: the RTP thread (RTPSession::execute), which turns each datagram     *)
(* into a resampled audio frame, and the callback thread of RtAudio        *)
(* (rtaudio_callback), which plays one frame per call.                     *)
(*                                                                         *)
(* Buffers are heap objects that circulate between two free pools, the     *)
(* pipe and the threads' hands; what a buffer holds is abstracted to the   *)
(* set of the datagrams whose samples are in it, so that a sample left     *)
(* over from an earlier use is visible.  A pool is a set: the code takes   *)
(* the last buffer of the vector, here any of them may be taken, since     *)
(* free buffers differ in nothing but their address.                       *)
(*                                                                         *)
(* getAudio keeps audio_pipe_mutex from its first line to its last and     *)
(* takes audio_buf_pool_mutex inside it; pushAudio takes the two one after *)
(* the other.  Who holds which follows from where the threads are:         *)
(* PipeLocked, CbHasPool and RtpHasPool say it.  A block that takes one    *)
(* mutex and waits for nothing inside is one step.                         *)
(***************************************************************************)
EXTENDS Integers, Sequences, FiniteSets

CONSTANTS
    RtpBufs,        \* identities of the rtpbuf objects the heap can provide
    FloatBufs,      \* identities of the float_buf objects
    StartRtpBufs,   \* those the constructor creates (starting_buffers of them)
    StartFloatBufs,
    NoBuf,          \* a null shared_ptr
    MaxFrames       \* bound: datagrams received in a behaviour

ASSUME StartAssumption ==
    /\ StartRtpBufs \subseteq RtpBufs
    /\ StartFloatBufs \subseteq FloatBufs

ASSUME NoBufAssumption == NoBuf \notin RtpBufs /\ NoBuf \notin FloatBufs

ASSUME FramesAssumption == MaxFrames \in Nat

VARIABLES
    rtpBufPool,     \* rtp_buf_pool
    audioPipe,      \* audio_pipe
    audioBufPool,   \* audio_buf_pool
    rtpContent,     \* rtpbuf |-> datagrams whose samples it holds
    floatContent,   \* float_buf |-> datagrams whose samples it holds
    samplerate,     \* m_samplerate: "made" by src_new, or "null"
    tail,           \* datagrams whose last samples the converter still holds
    stopped,        \* m_stopped
    rtpPc,          \* where the RTP thread is
    rtpBuf,         \* its buf_ptr / pcm_out_ptr
    floatBuf,       \* its float_buf_ptr
    frame,          \* number of datagrams received
    cbPc,           \* where the callback thread is
    cbBuf,          \* its buf_ptr in getAudio
    played          \* what the last buf_out held

srcVars == <<samplerate, tail>>
rtpVars == <<rtpPc, rtpBuf, floatBuf, frame, srcVars>>
cbVars  == <<cbPc, cbBuf, played>>
bufVars == <<rtpBufPool, audioPipe, audioBufPool, rtpContent, floatContent, stopped>>
vars    == <<bufVars, rtpVars, cbVars>>

Datagrams == 1..MaxFrames
Piped     == {audioPipe[i] : i \in 1..Len(audioPipe)}
InHand(b) == {b} \ {NoBuf}

PipedFrames == [i \in 1..Len(audioPipe) |-> floatContent[audioPipe[i]]]

LiveRtp   == rtpBufPool \cup InHand(rtpBuf)
LiveFloat == audioBufPool \cup Piped \cup InHand(floatBuf) \cup InHand(cbBuf)

PipeLocked == cbPc \in {"recycle", "pushing"}
CbHasPool  == cbPc = "pushing"
RtpHasPool == rtpPc = "popFloat"

-----------------------------------------------------------------------------
Init ==
    /\ rtpBufPool = StartRtpBufs /\ audioBufPool = StartFloatBufs
    /\ audioPipe = <<>>
    /\ rtpContent = [b \in RtpBufs |-> {}]
    /\ floatContent = [b \in FloatBufs |-> {}]
    /\ samplerate \in {"made", "null"} /\ tail = {}
    /\ stopped = FALSE
    /\ rtpPc = "getBuf" /\ rtpBuf = NoBuf /\ floatBuf = NoBuf /\ frame = 0
    /\ cbPc = "closed" /\ cbBuf = NoBuf /\ played = {}

-----------------------------------------------------------------------------
(* The RTP thread.                                                         *)

(* getBuf: only this thread uses rtp_buf_pool, so the unlocked size test   *)
(* and the locked pop are one step.                                        *)
GetBuf ==
    /\ rtpPc = "getBuf"
    /\ \/ /\ rtpBufPool # {}
          /\ rtpBuf' \in rtpBufPool
          /\ rtpBufPool' = rtpBufPool \ {rtpBuf'}
          /\ UNCHANGED rtpContent
       \/ /\ rtpBufPool = {}
          /\ rtpBuf' \in RtpBufs \ LiveRtp
          /\ rtpContent' = [rtpContent EXCEPT ![rtpBuf'] = {}]
          /\ UNCHANGED rtpBufPool
    /\ rtpPc' = "recv"
    /\ UNCHANGED <<audioPipe, audioBufPool, floatContent, stopped, floatBuf, frame, srcVars, cbVars>>

(* A datagram arrives and ulaw_expand writes its samples: over the whole   *)
(* buffer, over the first part of it, or nowhere if it has no payload.     *)
Receive ==
    /\ rtpPc = "recv" /\ frame < MaxFrames
    /\ frame' = frame + 1
    /\ \E samples \in {{frame'}, rtpContent[rtpBuf] \cup {frame'}, rtpContent[rtpBuf]} :
            rtpContent' = [rtpContent EXCEPT ![rtpBuf] = samples]
    /\ rtpPc' = "testPool"
    /\ UNCHANGED <<rtpBufPool, audioPipe, audioBufPool, floatContent, stopped,
                   rtpBuf, floatBuf, srcVars, cbVars>>

(* Mutated TestPool: an off-by-one, size() >= 0.                           *)
TestPoolAlways ==
    /\ rtpPc = "testPool"
    /\ rtpPc' = "lockPool"
    /\ UNCHANGED <<bufVars, rtpBuf, floatBuf, frame, srcVars, cbVars>>

(* pushAudio: audio_buf_pool.size() > 0 is read without the mutex.  While  *)
(* the callback is inside push_back the read races with it, and returns    *)
(* the size from before or after, or a difference of pointers into two     *)
(* different arrays.                                                       *)
TestPool ==
    /\ rtpPc = "testPool"
    /\ rtpPc' \in IF CbHasPool THEN {"lockPool", "newFloat"}
                  ELSE IF audioBufPool # {} THEN {"lockPool"} ELSE {"newFloat"}
    /\ UNCHANGED <<bufVars, rtpBuf, floatBuf, frame, srcVars, cbVars>>

LockToPop ==
    /\ rtpPc = "lockPool" /\ ~CbHasPool
    /\ rtpPc' = "popFloat"
    /\ UNCHANGED <<bufVars, rtpBuf, floatBuf, frame, srcVars, cbVars>>

(* Mutated PopFloat: back() without pop_back().                            *)
PopFloatShared ==
    /\ rtpPc = "popFloat"
    /\ floatBuf' \in audioBufPool
    /\ rtpPc' = "resample"
    /\ UNCHANGED <<bufVars, rtpBuf, frame, srcVars, cbVars>>

(* The pop, after which the block ends and the mutex is free.              *)
PopFloat ==
    /\ rtpPc = "popFloat"
    /\ floatBuf' \in audioBufPool
    /\ audioBufPool' = audioBufPool \ {floatBuf'}
    /\ rtpPc' = "resample"
    /\ UNCHANGED <<rtpBufPool, audioPipe, rtpContent, floatContent, stopped,
                   rtpBuf, frame, srcVars, cbVars>>

NewFloat ==
    /\ rtpPc = "newFloat"
    /\ floatBuf' \in FloatBufs \ LiveFloat
    /\ floatContent' = [floatContent EXCEPT ![floatBuf'] = {}]
    /\ rtpPc' = "resample"
    /\ UNCHANGED <<rtpBufPool, audioPipe, audioBufPool, rtpContent, stopped,
                   rtpBuf, frame, srcVars, cbVars>>

(* src_process, with the one converter of the buffer and end_of_input = 0: *)
(* the frame begins with what the converter kept of the datagram before    *)
(* and goes on with this one, whose last samples it keeps in turn (they    *)
(* may be silence).  It writes all 1764 samples or, until it has samples   *)
(* to look ahead to, fewer.  A converter that could not be made writes     *)
(* nothing, which pushAudio does not look at.                              *)
Resample ==
    /\ rtpPc = "resample"
    /\ \/ /\ samplerate = "made"
          /\ \E unwritten \in {{}, floatContent[floatBuf]} :
                floatContent' = [floatContent EXCEPT ![floatBuf] =
                                    tail \cup rtpContent[rtpBuf] \cup unwritten]
          /\ tail' \in {rtpContent[rtpBuf], {}}
       \/ samplerate = "null" /\ UNCHANGED <<floatContent, tail>>
    /\ rtpPc' = "push"
    /\ UNCHANGED <<rtpBufPool, audioPipe, audioBufPool, rtpContent, stopped,
                   rtpBuf, floatBuf, frame, samplerate, cbVars>>

PushPipe ==
    /\ rtpPc = "push" /\ ~PipeLocked
    /\ audioPipe' = Append(audioPipe, floatBuf)
    /\ floatBuf' = NoBuf
    /\ rtpPc' = "return"
    /\ UNCHANGED <<rtpBufPool, audioBufPool, rtpContent, floatContent, stopped,
                   rtpBuf, frame, srcVars, cbVars>>

(* Mutated ReturnBuf: the caller's pointer goes on owning the buffer.      *)
ReturnBufKept ==
    /\ rtpPc = "return"
    /\ rtpContent' = [rtpContent EXCEPT ![rtpBuf] = {}]
    /\ rtpBufPool' = rtpBufPool \cup {rtpBuf}
    /\ rtpPc' = "getBuf"
    /\ UNCHANGED <<audioPipe, audioBufPool, floatContent, stopped, rtpBuf, floatBuf,
                   frame, srcVars, cbVars>>

ReturnBuf ==
    /\ rtpPc = "return"
    /\ rtpContent' = [rtpContent EXCEPT ![rtpBuf] = {}]
    /\ rtpBufPool' = rtpBufPool \cup {rtpBuf}
    /\ rtpBuf' = NoBuf
    /\ rtpPc' = "getBuf"
    /\ UNCHANGED <<audioPipe, audioBufPool, floatContent, stopped, floatBuf, frame, srcVars, cbVars>>

(* The receive loop is left: RTPSession::stop was called and the loop test *)
(* sees it, or recvfrom timed out.  A buffer in hand is freed.             *)
RtpExit ==
    /\ rtpPc \in {"getBuf", "recv"}
    /\ stopped' = TRUE
    /\ rtpBuf' = NoBuf
    /\ rtpPc' = "ended"
    /\ UNCHANGED <<rtpBufPool, audioPipe, audioBufPool, rtpContent, floatContent,
                   floatBuf, frame, srcVars, cbVars>>

-----------------------------------------------------------------------------
(* The callback thread.                                                    *)

(* openStream and startStream: from here on RtAudio calls back.            *)
StartStream ==
    /\ cbPc = "closed"
    /\ cbPc' = "idle"
    /\ UNCHANGED <<bufVars, rtpVars, cbBuf, played>>

(* getAudio finds the pipe empty: silence.                                 *)
Underrun ==
    /\ cbPc = "idle" /\ audioPipe = <<>>
    /\ played' = {}
    /\ cbPc' = "check"
    /\ UNCHANGED <<bufVars, rtpVars, cbBuf>>

(* Mutated TakeFrame: the newest frame instead of the oldest.              *)
TakeNewestFrame ==
    /\ cbPc = "idle" /\ audioPipe # <<>>
    /\ cbBuf' = audioPipe[Len(audioPipe)]
    /\ played' = floatContent[cbBuf']
    /\ audioPipe' = SubSeq(audioPipe, 1, Len(audioPipe) - 1)
    /\ floatContent' = [floatContent EXCEPT ![cbBuf'] = {}]
    /\ cbPc' = "recycle"
    /\ UNCHANGED <<rtpBufPool, audioBufPool, rtpContent, stopped, rtpVars>>

(* Mutated TakeFrame: no fill(0).                                          *)
TakeFrameDirty ==
    /\ cbPc = "idle" /\ audioPipe # <<>>
    /\ cbBuf' = Head(audioPipe)
    /\ played' = floatContent[cbBuf']
    /\ audioPipe' = Tail(audioPipe)
    /\ cbPc' = "recycle"
    /\ UNCHANGED <<rtpBufPool, audioBufPool, rtpContent, floatContent, stopped, rtpVars>>

(* getAudio copies the oldest frame out, unlinks it and clears it.         *)
TakeFrame ==
    /\ cbPc = "idle" /\ audioPipe # <<>>
    /\ cbBuf' = Head(audioPipe)
    /\ played' = floatContent[cbBuf']
    /\ audioPipe' = Tail(audioPipe)
    /\ floatContent' = [floatContent EXCEPT ![cbBuf'] = {}]
    /\ cbPc' = "recycle"
    /\ UNCHANGED <<rtpBufPool, audioBufPool, rtpContent, stopped, rtpVars>>

LockPool ==
    /\ cbPc = "recycle" /\ ~RtpHasPool
    /\ cbPc' = "pushing"
    /\ UNCHANGED <<bufVars, rtpVars, cbBuf, played>>

RecycleBuf ==
    /\ cbPc = "pushing"
    /\ audioBufPool' = audioBufPool \cup {cbBuf}
    /\ cbBuf' = NoBuf
    /\ cbPc' = "check"
    /\ UNCHANGED <<rtpBufPool, audioPipe, rtpContent, floatContent, stopped, rtpVars, played>>

(* Mutated CheckStopped: an underrun is taken for the end of the audio.    *)
CheckStoppedOrSilent ==
    /\ cbPc = "check"
    /\ cbPc' = IF stopped \/ audioPipe = <<>> THEN "aborted" ELSE "idle"
    /\ UNCHANGED <<bufVars, rtpVars, cbBuf, played>>

(* rtaudio_callback returns 2, which aborts the stream, or 0.              *)
CheckStopped ==
    /\ cbPc = "check"
    /\ cbPc' = IF stopped THEN "aborted" ELSE "idle"
    /\ UNCHANGED <<bufVars, rtpVars, cbBuf, played>>

-----------------------------------------------------------------------------
RtpWork == GetBuf \/ Receive \/ TestPool \/ LockToPop \/ PopFloat \/ NewFloat
                \/ Resample \/ PushPipe \/ ReturnBuf
RtpThread == RtpWork \/ RtpExit
CallbackThread == Underrun \/ TakeFrame \/ LockPool \/ RecycleBuf \/ CheckStopped

Terminated == rtpPc = "ended" /\ cbPc = "aborted" /\ UNCHANGED vars

Next == RtpThread \/ StartStream \/ CallbackThread \/ Terminated

(* The RTP thread does not rest while it has a datagram to process, and    *)
(* the audio device keeps asking for data.  Nothing says that the stream   *)
(* is ever opened (openStream may throw), nor that the datagrams end: a    *)
(* behaviour that stays in Receive after MaxFrames stands for one that     *)
(* goes on receiving.                                                      *)
Fairness == WF_vars(RtpWork) /\ WF_vars(CallbackThread)

Spec == Init /\ [][Next]_vars
FairSpec == Spec /\ Fairness

-----------------------------------------------------------------------------
(* Every variable has its type, and a hand is full exactly where the code  *)
(* has a buffer in a local shared_ptr.                                     *)
TypeOK ==
    /\ rtpBufPool \in SUBSET RtpBufs /\ audioBufPool \in SUBSET FloatBufs
    /\ audioPipe \in Seq(FloatBufs)
    /\ rtpContent \in [RtpBufs -> SUBSET Datagrams]
    /\ floatContent \in [FloatBufs -> SUBSET Datagrams]
    /\ stopped \in BOOLEAN /\ frame \in 0..MaxFrames
    /\ samplerate \in {"made", "null"} /\ tail \in SUBSET Datagrams
    /\ rtpPc \in {"getBuf", "recv", "testPool", "lockPool", "popFloat", "newFloat",
                  "resample", "push", "return", "ended"}
    /\ rtpBuf \in IF rtpPc \in {"getBuf", "ended"} THEN {NoBuf} ELSE RtpBufs
    /\ floatBuf \in IF rtpPc \in {"resample", "push"} THEN FloatBufs ELSE {NoBuf}
    /\ cbPc \in {"closed", "idle", "recycle", "pushing", "check", "aborted"}
    /\ cbBuf \in IF PipeLocked THEN FloatBufs ELSE {NoBuf}
    /\ played \in SUBSET Datagrams

(* A buffer is in one place at a time: free in its pool, or once in the    *)
(* pipe, or in the hand of one thread.  The shared_ptrs that getBuf,       *)
(* pushAudio and getAudio pass around never give two users one buffer.     *)
Exclusive ==
    /\ rtpBuf \notin rtpBufPool
    /\ \A i, j \in 1..Len(audioPipe) : audioPipe[i] = audioPipe[j] => i = j
    /\ \A i \in 1..Len(audioPipe) : audioPipe[i] \notin audioBufPool \cup {floatBuf, cbBuf}
    /\ floatBuf \notin audioBufPool
    /\ cbBuf \notin audioBufPool
    /\ floatBuf = cbBuf => floatBuf = NoBuf

(* A buffer handed out holds nothing of what it held before: whoever gets  *)
(* one from getBuf or from audio_buf_pool relies on the fill(0) that its   *)
(* previous user made before giving it back.                               *)
FreeBuffersClear ==
    /\ \A b \in rtpBufPool : rtpContent[b] = {}
    /\ rtpPc = "recv" => rtpContent[rtpBuf] = {}
    /\ \A b \in audioBufPool : floatContent[b] = {}
    /\ rtpPc = "resample" => floatContent[floatBuf] = {}
    /\ PipeLocked => floatContent[cbBuf] = {}

(* back() is never called on an empty audio_buf_pool, although the test    *)
(* that guards it in pushAudio is made before the mutex is taken and may   *)
(* race with the callback's push_back.                                     *)
PopFindsBuffer == rtpPc = "popFloat" => audioBufPool # {}

(* The AudioBuffer is a FIFO channel of frames: each frame pushed is heard *)
(* at most once, in order, with samples of its own datagram and of the end *)
(* of the one before and of no other, and a callback that finds none plays *)
(* silence (pushAudio and getAudio).                                       *)
Channel == INSTANCE FrameChannel WITH
    sent  <- IF rtpPc \in {"testPool", "lockPool", "popFloat", "newFloat",
                           "resample", "push"}
             THEN frame - 1 ELSE frame,
    chan  <- PipedFrames,
    heard <- played

Implements == Channel!Spec

(* A frame in the pipe of an open stream is played, unless the audio is    *)
(* stopped first: neither the nested mutexes of getAudio nor an underrun   *)
(* keep the callback from reaching it.                                     *)
EveryFramePlayed ==
    \A k \in Datagrams :
        (\E b \in Piped : k \in floatContent[b]) /\ cbPc # "closed"
            ~> k \in played \/ stopped
=============================================================================
