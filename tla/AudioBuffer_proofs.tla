-------------------------- MODULE AudioBuffer_proofs ------------------------
(***************************************************************************)
(* What the AudioBuffer guarantees for any number of buffers in the heap,  *)
(* of starting buffers and of datagrams: no buffer is ever in two places,  *)
(* free buffers are clear, the pools are never popped empty, and the whole *)
(* implements a FIFO channel of frames.                                    *)
(***************************************************************************)
EXTENDS AudioBuffer, SequenceTheorems, TLAPS

(* The places of the RTP thread between a datagram and the converter, and  *)
(* those between a datagram and the pipe.                                  *)
Unconverted == {"testPool", "lockPool", "popFloat", "newFloat", "resample"}
Unpushed == Unconverted \cup {"push"}

(* A frame on its way to the pipe has samples of the datagram just         *)
(* received and of the end of the one before, or of neither: what          *)
(* ulaw_expand or src_process leave unwritten is silence, and the          *)
(* converter goes no further back than one datagram.                       *)
OwnAndLast ==
    /\ rtpPc \in Unpushed => frame > 0 /\ rtpContent[rtpBuf] \subseteq {frame}
    /\ tail \subseteq IF rtpPc \in Unconverted THEN {frame - 1} ELSE {frame}
    /\ samplerate = "null" => tail = {}
    /\ rtpPc = "push" => floatContent[floatBuf] \subseteq {frame - 1, frame}

(* The callback waits for audio_buf_pool_mutex, or has it, when the test   *)
(* of the pool was wrong: by the time the pop has the mutex the buffer     *)
(* that was being put back is there.                                       *)
LockFindsBuffer == rtpPc = "lockPool" /\ ~CbHasPool => audioBufPool # {}

(* The inductive invariant.  That free buffers are clear depends on no     *)
(* buffer being in two places, that a piped frame has samples of two       *)
(* datagrams at most depends on both.                                      *)
IInv == TypeOK /\ Exclusive /\ FreeBuffersClear /\ PopFindsBuffer /\ LockFindsBuffer
            /\ OwnAndLast

(* The first state: the constructor gives each starting buffer, cleared,   *)
(* to one of the two pools.                                                *)
LEMMA InitInv == Init => IInv
  <1> SUFFICES ASSUME Init PROVE IInv
    OBVIOUS
  <1>1. Len(audioPipe) = 0 /\ audioPipe \in Seq(FloatBufs)
    BY DEF Init
  <1>2. TypeOK
    <2>1. frame \in 0..MaxFrames
      BY FramesAssumption DEF Init
    <2> QED
      BY <1>1, <2>1, StartAssumption DEF Init, TypeOK, PipeLocked
  <1>3. Exclusive
    BY StartAssumption, NoBufAssumption DEF Init, Exclusive
  <1>4. FreeBuffersClear /\ PopFindsBuffer /\ LockFindsBuffer /\ OwnAndLast
    BY StartAssumption DEF Init, FreeBuffersClear, PopFindsBuffer, LockFindsBuffer,
       OwnAndLast, Unpushed, Unconverted,
       PipeLocked
  <1> QED
    BY <1>2, <1>3, <1>4 DEF IInv

(* Every step of the RTP thread and of the audio callback preserves the    *)
(* invariant.                                                              *)
LEMMA NextInv == IInv /\ [Next]_vars => IInv'
  <1> SUFFICES ASSUME IInv, [Next]_vars PROVE IInv'
    OBVIOUS
  <1> USE NoBufAssumption, FramesAssumption DEF IInv, Datagrams, Unpushed, Unconverted
  <1>1. CASE GetBuf
    <2>1. TypeOK'
      BY <1>1 DEF GetBuf, cbVars, srcVars, TypeOK, PipeLocked
    <2>2. Exclusive'
      BY <1>1 DEF GetBuf, cbVars, srcVars, Exclusive
    <2>3. FreeBuffersClear'
      BY <1>1 DEF GetBuf, cbVars, srcVars, TypeOK, FreeBuffersClear, PipeLocked
    <2>4. PopFindsBuffer' /\ LockFindsBuffer'
      BY <1>1 DEF GetBuf, PopFindsBuffer, LockFindsBuffer, CbHasPool
    <2>5. OwnAndLast'
      BY <1>1 DEF GetBuf, srcVars, OwnAndLast
    <2> QED
      BY <2>1, <2>2, <2>3, <2>4, <2>5
  <1>2. CASE Receive
    <2>1. TypeOK'
      BY <1>2 DEF Receive, cbVars, srcVars, TypeOK, PipeLocked
    <2>2. Exclusive'
      BY <1>2 DEF Receive, cbVars, srcVars, Exclusive
    <2>3. FreeBuffersClear'
      BY <1>2 DEF Receive, cbVars, srcVars, Exclusive, FreeBuffersClear, PipeLocked
    <2>4. PopFindsBuffer' /\ LockFindsBuffer'
      BY <1>2 DEF Receive, PopFindsBuffer, LockFindsBuffer, CbHasPool
    <2>5. OwnAndLast'
      BY <1>2 DEF Receive, srcVars, TypeOK, FreeBuffersClear, OwnAndLast
    <2> QED
      BY <2>1, <2>2, <2>3, <2>4, <2>5
  <1>3. CASE TestPool
    <2>1. TypeOK'
      BY <1>3 DEF TestPool, bufVars, cbVars, srcVars, TypeOK, PipeLocked
    <2>2. Exclusive'
      BY <1>3 DEF TestPool, bufVars, cbVars, srcVars, Exclusive
    <2>3. FreeBuffersClear'
      BY <1>3 DEF TestPool, bufVars, cbVars, srcVars, FreeBuffersClear, PipeLocked
    <2>4. PopFindsBuffer' /\ LockFindsBuffer'
      BY <1>3 DEF TestPool, bufVars, cbVars, srcVars, PopFindsBuffer, LockFindsBuffer, CbHasPool
    <2>5. OwnAndLast'
      BY <1>3 DEF TestPool, bufVars, srcVars, OwnAndLast
    <2> QED
      BY <2>1, <2>2, <2>3, <2>4, <2>5
  <1>4. CASE PopFloat
    <2>1. TypeOK'
      BY <1>4 DEF PopFloat, cbVars, srcVars, TypeOK, PipeLocked
    <2>2. Exclusive'
      BY <1>4 DEF PopFloat, cbVars, srcVars, Exclusive
    <2>3. FreeBuffersClear'
      BY <1>4 DEF PopFloat, cbVars, srcVars, FreeBuffersClear, PipeLocked
    <2>4. PopFindsBuffer' /\ LockFindsBuffer'
      BY <1>4 DEF PopFloat, PopFindsBuffer, LockFindsBuffer, CbHasPool
    <2>5. OwnAndLast'
      BY <1>4 DEF PopFloat, srcVars, OwnAndLast
    <2> QED
      BY <2>1, <2>2, <2>3, <2>4, <2>5
  <1>5. CASE NewFloat
    <2>1. TypeOK'
      BY <1>5 DEF NewFloat, cbVars, srcVars, TypeOK, PipeLocked
    <2>2. Exclusive'
      BY <1>5 DEF NewFloat, cbVars, srcVars, Exclusive, Piped, InHand, LiveFloat
    <2>3. FreeBuffersClear'
      BY <1>5 DEF NewFloat, cbVars, srcVars, TypeOK, FreeBuffersClear, PipeLocked
    <2>4. PopFindsBuffer' /\ LockFindsBuffer'
      BY <1>5 DEF NewFloat, PopFindsBuffer, LockFindsBuffer, CbHasPool
    <2>5. OwnAndLast'
      BY <1>5 DEF NewFloat, srcVars, OwnAndLast
    <2> QED
      BY <2>1, <2>2, <2>3, <2>4, <2>5
  <1>6. CASE Resample
    <2>1. TypeOK'
      <3>1. /\ floatContent' \in [FloatBufs -> SUBSET Datagrams]
            /\ tail' \in SUBSET Datagrams
        <4>1. CASE samplerate = "made"
          <5>1. /\ floatBuf \in FloatBufs /\ rtpBuf \in RtpBufs
                /\ floatContent[floatBuf] \in SUBSET Datagrams
                /\ rtpContent[rtpBuf] \in SUBSET Datagrams
            BY <1>6 DEF Resample, TypeOK
          <5>2. PICK unwritten \in {{}, floatContent[floatBuf]} :
                    floatContent' = [floatContent EXCEPT ![floatBuf] =
                                        tail \cup rtpContent[rtpBuf] \cup unwritten]
            BY <1>6, <4>1 DEF Resample
          <5>3. tail \cup rtpContent[rtpBuf] \cup unwritten \in SUBSET Datagrams
            BY <5>1 DEF TypeOK
          <5>4. tail' \in SUBSET Datagrams
            BY <1>6, <4>1, <5>1 DEF Resample
          <5> QED
            BY <5>2, <5>3, <5>4 DEF TypeOK
        <4>2. CASE samplerate = "null"
          BY <1>6, <4>2 DEF Resample, TypeOK
        <4> QED
          BY <1>6, <4>1, <4>2 DEF Resample
      <3> QED
        BY <1>6, <3>1 DEF Resample, cbVars, TypeOK, PipeLocked
    <2>2. Exclusive'
      BY <1>6 DEF Resample, cbVars, srcVars, Exclusive
    <2>3. FreeBuffersClear'
      BY <1>6 DEF Resample, cbVars, srcVars, TypeOK, Exclusive, FreeBuffersClear,
         PipeLocked
    <2>4. PopFindsBuffer' /\ LockFindsBuffer'
      BY <1>6 DEF Resample, PopFindsBuffer, LockFindsBuffer, CbHasPool
    <2>5. OwnAndLast'
      <3>1. CASE samplerate = "made"
        <4>1. floatContent'[floatBuf] \subseteq tail \cup rtpContent[rtpBuf]
          BY <1>6, <3>1 DEF Resample, TypeOK, FreeBuffersClear
        <4>2. tail' \subseteq rtpContent[rtpBuf]
          BY <1>6, <3>1 DEF Resample
        <4>3. /\ rtpContent[rtpBuf] \subseteq {frame} /\ tail \subseteq {frame - 1}
              /\ frame > 0
          BY <1>6 DEF Resample, OwnAndLast
        <4> QED
          BY <1>6, <4>1, <4>2, <4>3 DEF Resample, OwnAndLast
      <3>2. CASE samplerate = "null"
        BY <1>6, <3>2 DEF Resample, FreeBuffersClear, OwnAndLast
      <3> QED
        BY <1>6, <3>1, <3>2 DEF Resample
    <2> QED
      BY <2>1, <2>2, <2>3, <2>4, <2>5
  <1>7. CASE PushPipe
    <2>1. TypeOK'
      BY <1>7 DEF PushPipe, cbVars, srcVars, TypeOK, PipeLocked
    <2>2. Exclusive'
      BY <1>7 DEF PushPipe, cbVars, srcVars, TypeOK, Exclusive
    <2>3. FreeBuffersClear'
      BY <1>7 DEF PushPipe, cbVars, srcVars, FreeBuffersClear, PipeLocked
    <2>4. PopFindsBuffer' /\ LockFindsBuffer'
      BY <1>7 DEF PushPipe, PopFindsBuffer, LockFindsBuffer, CbHasPool
    <2>5. OwnAndLast'
      BY <1>7 DEF PushPipe, srcVars, OwnAndLast
    <2> QED
      BY <2>1, <2>2, <2>3, <2>4, <2>5
  <1>8. CASE ReturnBuf
    <2>1. TypeOK'
      BY <1>8 DEF ReturnBuf, cbVars, srcVars, TypeOK, PipeLocked
    <2>2. Exclusive'
      BY <1>8 DEF ReturnBuf, cbVars, srcVars, TypeOK, Exclusive
    <2>3. FreeBuffersClear'
      BY <1>8 DEF ReturnBuf, cbVars, srcVars, TypeOK, FreeBuffersClear, PipeLocked
    <2>4. PopFindsBuffer' /\ LockFindsBuffer'
      BY <1>8 DEF ReturnBuf, PopFindsBuffer, LockFindsBuffer, CbHasPool
    <2>5. OwnAndLast'
      BY <1>8 DEF ReturnBuf, srcVars, OwnAndLast
    <2> QED
      BY <2>1, <2>2, <2>3, <2>4, <2>5
  <1>9. CASE RtpExit
    <2>1. TypeOK'
      BY <1>9 DEF RtpExit, cbVars, srcVars, TypeOK, PipeLocked
    <2>2. Exclusive'
      BY <1>9 DEF RtpExit, cbVars, srcVars, TypeOK, Exclusive
    <2>3. FreeBuffersClear'
      BY <1>9 DEF RtpExit, cbVars, srcVars, FreeBuffersClear, PipeLocked
    <2>4. PopFindsBuffer' /\ LockFindsBuffer'
      BY <1>9 DEF RtpExit, PopFindsBuffer, LockFindsBuffer, CbHasPool
    <2>5. OwnAndLast'
      BY <1>9 DEF RtpExit, srcVars, OwnAndLast
    <2> QED
      BY <2>1, <2>2, <2>3, <2>4, <2>5
  <1>10. CASE StartStream
    <2>1. TypeOK'
      BY <1>10 DEF StartStream, bufVars, rtpVars, srcVars, TypeOK, PipeLocked
    <2>2. Exclusive'
      BY <1>10 DEF StartStream, bufVars, rtpVars, srcVars, Exclusive
    <2>3. FreeBuffersClear'
      BY <1>10 DEF StartStream, bufVars, rtpVars, srcVars, FreeBuffersClear, PipeLocked
    <2>4. PopFindsBuffer' /\ LockFindsBuffer'
      BY <1>10 DEF StartStream, bufVars, rtpVars, srcVars, PopFindsBuffer, LockFindsBuffer, CbHasPool
    <2>5. OwnAndLast'
      BY <1>10 DEF StartStream, bufVars, rtpVars, srcVars, OwnAndLast
    <2> QED
      BY <2>1, <2>2, <2>3, <2>4, <2>5
  <1>11. CASE Underrun
    <2>1. TypeOK'
      BY <1>11 DEF Underrun, bufVars, rtpVars, srcVars, TypeOK, PipeLocked
    <2>2. Exclusive'
      BY <1>11 DEF Underrun, bufVars, rtpVars, srcVars, Exclusive
    <2>3. FreeBuffersClear'
      BY <1>11 DEF Underrun, bufVars, rtpVars, srcVars, FreeBuffersClear, PipeLocked
    <2>4. PopFindsBuffer' /\ LockFindsBuffer'
      BY <1>11 DEF Underrun, bufVars, rtpVars, srcVars, PopFindsBuffer, LockFindsBuffer, CbHasPool
    <2>5. OwnAndLast'
      BY <1>11 DEF Underrun, bufVars, rtpVars, srcVars, OwnAndLast
    <2> QED
      BY <2>1, <2>2, <2>3, <2>4, <2>5
  <1>12. CASE TakeFrame
    <2>1. TypeOK'
      BY <1>12 DEF TakeFrame, rtpVars, srcVars, TypeOK, PipeLocked
    <2>2. Exclusive'
      <3>1. /\ audioPipe \in Seq(FloatBufs) /\ audioPipe # <<>>
            /\ cbBuf' = audioPipe[1] /\ audioPipe' = Tail(audioPipe)
            /\ UNCHANGED <<rtpBuf, rtpBufPool, floatBuf, audioBufPool>>
        BY <1>12 DEF TakeFrame, rtpVars, TypeOK
      <3>2. /\ Len(audioPipe) \in Nat /\ Len(audioPipe) > 0
            /\ Len(audioPipe') = Len(audioPipe) - 1
            /\ \A i \in 1..Len(audioPipe') : audioPipe'[i] = audioPipe[i + 1]
        BY <3>1
      <3> QED
        BY <3>1, <3>2 DEF Exclusive
    <2>3. FreeBuffersClear'
      BY <1>12 DEF TakeFrame, rtpVars, srcVars, TypeOK, FreeBuffersClear
    <2>4. PopFindsBuffer' /\ LockFindsBuffer'
      BY <1>12 DEF TakeFrame, rtpVars, srcVars, PopFindsBuffer, LockFindsBuffer, CbHasPool
    <2>5. OwnAndLast'
      BY <1>12 DEF TakeFrame, rtpVars, srcVars, OwnAndLast
    <2> QED
      BY <2>1, <2>2, <2>3, <2>4, <2>5
  <1>13. CASE LockPool
    <2>1. TypeOK'
      BY <1>13 DEF LockPool, bufVars, rtpVars, srcVars, TypeOK, PipeLocked
    <2>2. Exclusive'
      BY <1>13 DEF LockPool, bufVars, rtpVars, srcVars, Exclusive
    <2>3. FreeBuffersClear'
      BY <1>13 DEF LockPool, bufVars, rtpVars, srcVars, FreeBuffersClear, PipeLocked
    <2>4. PopFindsBuffer' /\ LockFindsBuffer'
      BY <1>13 DEF LockPool, bufVars, rtpVars, PopFindsBuffer, LockFindsBuffer, CbHasPool
    <2>5. OwnAndLast'
      BY <1>13 DEF LockPool, bufVars, rtpVars, srcVars, OwnAndLast
    <2> QED
      BY <2>1, <2>2, <2>3, <2>4, <2>5
  <1>14. CASE RecycleBuf
    <2>1. TypeOK'
      BY <1>14 DEF RecycleBuf, rtpVars, srcVars, TypeOK, PipeLocked
    <2>2. Exclusive'
      BY <1>14 DEF RecycleBuf, rtpVars, srcVars, TypeOK, Exclusive, PipeLocked
    <2>3. FreeBuffersClear'
      BY <1>14 DEF RecycleBuf, rtpVars, srcVars, FreeBuffersClear, PipeLocked
    <2>4. PopFindsBuffer' /\ LockFindsBuffer'
      BY <1>14 DEF RecycleBuf, PopFindsBuffer, LockFindsBuffer, CbHasPool
    <2>5. OwnAndLast'
      BY <1>14 DEF RecycleBuf, rtpVars, srcVars, OwnAndLast
    <2> QED
      BY <2>1, <2>2, <2>3, <2>4, <2>5
  <1>15. CASE CheckStopped
    <2>1. TypeOK'
      BY <1>15 DEF CheckStopped, bufVars, rtpVars, srcVars, TypeOK, PipeLocked
    <2>2. Exclusive'
      BY <1>15 DEF CheckStopped, bufVars, rtpVars, srcVars, Exclusive
    <2>3. FreeBuffersClear'
      BY <1>15 DEF CheckStopped, bufVars, rtpVars, srcVars, FreeBuffersClear, PipeLocked
    <2>4. PopFindsBuffer' /\ LockFindsBuffer'
      BY <1>15 DEF CheckStopped, bufVars, rtpVars, srcVars, PopFindsBuffer, LockFindsBuffer, CbHasPool
    <2>5. OwnAndLast'
      BY <1>15 DEF CheckStopped, bufVars, rtpVars, srcVars, OwnAndLast
    <2> QED
      BY <2>1, <2>2, <2>3, <2>4, <2>5
  <1>17. CASE LockToPop
    <2>1. TypeOK'
      BY <1>17 DEF LockToPop, bufVars, cbVars, srcVars, TypeOK, PipeLocked
    <2>2. Exclusive'
      BY <1>17 DEF LockToPop, bufVars, cbVars, srcVars, Exclusive
    <2>3. FreeBuffersClear'
      BY <1>17 DEF LockToPop, bufVars, cbVars, srcVars, FreeBuffersClear, PipeLocked
    <2>4. PopFindsBuffer' /\ LockFindsBuffer'
      BY <1>17 DEF LockToPop, bufVars, PopFindsBuffer, LockFindsBuffer, CbHasPool
    <2>5. OwnAndLast'
      BY <1>17 DEF LockToPop, bufVars, srcVars, OwnAndLast
    <2> QED
      BY <2>1, <2>2, <2>3, <2>4, <2>5
  <1>16. CASE UNCHANGED vars
    BY <1>16 DEF vars, bufVars, rtpVars, srcVars, cbVars, srcVars, TypeOK, Exclusive,
       FreeBuffersClear, PopFindsBuffer, LockFindsBuffer, OwnAndLast, PipeLocked,
       CbHasPool
  <1> QED
    BY <1>1, <1>2, <1>3, <1>4, <1>5, <1>6, <1>7, <1>8, <1>9, <1>10, <1>11,
       <1>12, <1>13, <1>14, <1>15, <1>16, <1>17 DEF Next, RtpThread, RtpWork, CallbackThread,
       Terminated

(* AudioBuffer's type invariant, buffer ownership, clear free buffers and  *)
(* the guarded pop of pushAudio, for every heap, constructor argument and  *)
(* number of datagrams.                                                    *)
THEOREM Invariance == Spec => []IInv
  BY InitInv, NextInv, PTL DEF Spec

(* Every variable of AudioBuffer keeps its type.                           *)
THEOREM TypeCorrect == Spec => []TypeOK
  BY Invariance, PTL DEF IInv

(* No buffer is ever in two of the pools, the pipe and the hands of the    *)
(* two threads at once.                                                    *)
THEOREM ExclusiveBuffers == Spec => []Exclusive
  BY Invariance, PTL DEF IInv

(* Every buffer handed out, by getBuf or from audio_buf_pool, was cleared  *)
(* by the user before.                                                     *)
THEOREM FreeBuffersAreClear == Spec => []FreeBuffersClear
  BY Invariance, PTL DEF IInv

(* The size test of pushAudio, made without the mutex, never lets it pop   *)
(* an empty audio_buf_pool: the callback only adds to it.                  *)
THEOREM PopSafe == Spec => []PopFindsBuffer
  BY Invariance, PTL DEF IInv

(* A frame on its way to the pipe has samples of its own datagram and of   *)
(* the end of the one before, and of no other.                             *)
THEOREM OwnAndLastEach == Spec => []OwnAndLast
  BY Invariance, PTL DEF IInv

-----------------------------------------------------------------------------
(* The refinement of FrameChannel.                                         *)

(* The frames in the pipe form a sequence, as long as the pipe.            *)
PipedFramesOK ==
    /\ PipedFrames \in Seq(SUBSET Datagrams)
    /\ Len(audioPipe) \in Nat
    /\ Len(PipedFrames) = Len(audioPipe)
    /\ \A i \in 1..Len(audioPipe) : /\ audioPipe[i] \in FloatBufs
                                    /\ PipedFrames[i] = floatContent[audioPipe[i]]

(* The frames in the pipe, as the sequence the mapping gives the channel,  *)
(* have the entries of the pipe.                                           *)
LEMMA PipedFramesSeq == TypeOK => PipedFramesOK
  <1> SUFFICES ASSUME TypeOK PROVE PipedFramesOK
    OBVIOUS
  <1>1. audioPipe \in Seq(FloatBufs) /\ floatContent \in [FloatBufs -> SUBSET Datagrams]
    BY DEF TypeOK
  <1>2. Len(audioPipe) \in Nat /\ \A i \in 1..Len(audioPipe) : audioPipe[i] \in FloatBufs
    BY <1>1
  <1>3. PipedFrames \in [1..Len(audioPipe) -> SUBSET Datagrams]
    BY <1>1 DEF PipedFrames
  <1>4. PipedFrames \in Seq(SUBSET Datagrams)
    BY <1>3
  <1>5. Len(PipedFrames) = Len(audioPipe)
    BY <1>3
  <1> QED
    BY <1>2, <1>4 DEF PipedFrames, PipedFramesOK

(* The same, in the next state.                                            *)
LEMMA PipedFramesSeqNext == TypeOK' => PipedFramesOK'
  BY PipedFramesSeq, PTL

(* An empty pipe is an empty channel.                                      *)
LEMMA InitRefines == Init => Channel!Init
  BY DEF Init, Channel!Init, Channel!Silence, PipedFrames

(* The pipe untouched and the content of the piped buffers too: the        *)
(* channel holds what it held.                                             *)
LEMMA SamePipe ==
    ASSUME TypeOK, UNCHANGED audioPipe,
           \A i \in 1..Len(audioPipe) :
                floatContent'[audioPipe[i]] = floatContent[audioPipe[i]]
    PROVE  PipedFrames' = PipedFrames
  BY DEF PipedFrames

(* pushAudio puts the frame it resampled at the end of the channel.        *)
LEMMA PushPuts == IInv /\ PushPipe => Channel!Put
  <1> SUFFICES ASSUME IInv, IInv', PushPipe PROVE Channel!Put
    BY NextInv DEF Next, RtpThread, RtpWork
  <1>1. PipedFrames' = Append(PipedFrames, floatContent[floatBuf])
    <2>1. floatBuf \in FloatBufs /\ floatContent[floatBuf] \in SUBSET Datagrams
      BY DEF IInv, TypeOK, PushPipe
    <2>2. /\ Len(PipedFrames') = Len(PipedFrames) + 1
          /\ PipedFrames' \in Seq(SUBSET Datagrams)
      BY PipedFramesSeq, PipedFramesSeqNext DEF PipedFramesOK, IInv, PushPipe
    <2>3. ASSUME NEW i \in 1..Len(PipedFrames')
          PROVE  PipedFrames'[i] = Append(PipedFrames, floatContent[floatBuf])[i]
      <3>1. PipedFrames'[i] = floatContent[audioPipe'[i]]
        BY PipedFramesSeqNext DEF PipedFramesOK, IInv, PushPipe
      <3>2. CASE i \in 1..Len(PipedFrames)
        BY <3>1, <3>2, PipedFramesSeq DEF PipedFramesOK, IInv, PushPipe
      <3>3. CASE i = Len(PipedFrames) + 1
        BY <3>1, <3>3, PipedFramesSeq DEF PipedFramesOK, IInv, PushPipe
      <3> QED
        BY <2>2, <3>2, <3>3
    <2> QED
      BY <2>2, <2>3
  <1>2. floatContent[floatBuf] \in SUBSET ({frame - 1, frame - 1 + 1} \ {0})
    BY DEF IInv, TypeOK, OwnAndLast, Datagrams, PushPipe
  <1>3. frame - 1 + 1 = frame
    BY DEF IInv, TypeOK
  <1> QED
    BY <1>1, <1>2, <1>3 DEF PushPipe, Channel!Put, cbVars

(* getAudio takes the frame that has been in the channel longest.          *)
LEMMA TakeGets == IInv /\ TakeFrame => Channel!Get
  <1> SUFFICES ASSUME IInv, IInv', TakeFrame PROVE Channel!Get
    BY NextInv DEF Next, CallbackThread
  <1>1. /\ PipedFrames # <<>>
        /\ Head(PipedFrames) = floatContent[Head(audioPipe)]
        /\ PipedFrames' = Tail(PipedFrames)
    <2>1. PipedFrames # <<>>
      BY PipedFramesSeq DEF PipedFramesOK, IInv, TakeFrame
    <2>2. Head(PipedFrames) = floatContent[Head(audioPipe)]
      BY <2>1, PipedFramesSeq DEF PipedFramesOK, IInv
    <2>3. /\ Len(PipedFrames') = Len(Tail(PipedFrames))
          /\ PipedFrames' \in Seq(SUBSET Datagrams)
          /\ Tail(PipedFrames) \in Seq(SUBSET Datagrams)
      BY PipedFramesSeq, PipedFramesSeqNext DEF PipedFramesOK, IInv, TakeFrame
    <2>4. \A i \in 1..Len(PipedFrames') : PipedFrames'[i] = Tail(PipedFrames)[i]
      <3> TAKE i \in 1..Len(PipedFrames')
      <3>1. i \in 1..Len(audioPipe) - 1 /\ i + 1 \in 1..Len(audioPipe)
        BY <2>3, PipedFramesSeq DEF PipedFramesOK, IInv
      <3>2. audioPipe'[i] = audioPipe[i + 1] /\ Tail(PipedFrames)[i] = PipedFrames[i + 1]
        BY <3>1, PipedFramesSeq DEF PipedFramesOK, IInv, TakeFrame
      <3>3. audioPipe[i + 1] # cbBuf'
        BY <3>1 DEF IInv, Exclusive, TakeFrame
      <3> QED
        <4>1. /\ PipedFrames'[i] = floatContent'[audioPipe'[i]]
              /\ PipedFrames[i + 1] = floatContent[audioPipe[i + 1]]
          BY <3>1, PipedFramesSeq, PipedFramesSeqNext DEF PipedFramesOK, IInv
        <4>2. floatContent'[audioPipe[i + 1]] = floatContent[audioPipe[i + 1]]
          BY <3>1, <3>3 DEF IInv, TypeOK, TakeFrame
        <4> QED
          BY <3>2, <4>1, <4>2
    <2> QED
      BY <2>1, <2>2, <2>3, <2>4, SeqEqual
  <1> QED
    BY <1>1 DEF TakeFrame, Channel!Get, rtpVars, srcVars

(* getAudio gives silence only when the channel is empty.                  *)
LEMMA UnderrunRefines == IInv /\ Underrun => Channel!Underrun
  <1> SUFFICES ASSUME IInv, Underrun PROVE Channel!Underrun
    OBVIOUS
  <1>1. PipedFrames = <<>>
    BY PipedFramesSeq DEF PipedFramesOK, IInv, Underrun
  <1>2. PipedFrames' = PipedFrames
    BY SamePipe DEF IInv, Underrun, bufVars
  <1> QED
    BY <1>1, <1>2 DEF Underrun, Channel!Underrun, Channel!Silence, rtpVars, srcVars

(* Every other step of the two threads leaves the channel as it is.        *)
LEMMA OthersStutter ==
    ASSUME IInv,
           \/ GetBuf \/ Receive \/ TestPool \/ LockToPop \/ PopFloat \/ NewFloat \/ Resample
           \/ ReturnBuf \/ RtpExit \/ StartStream \/ LockPool \/ RecycleBuf
           \/ CheckStopped \/ UNCHANGED vars
    PROVE  UNCHANGED Channel!vars
  <1>1. UNCHANGED <<audioPipe, played>>
    BY DEF GetBuf, Receive, TestPool, LockToPop, PopFloat, NewFloat, Resample, ReturnBuf,
       RtpExit, StartStream, LockPool, RecycleBuf, CheckStopped, vars, bufVars,
       cbVars, srcVars
  <1>2. \A i \in 1..Len(audioPipe) :
            floatContent'[audioPipe[i]] = floatContent[audioPipe[i]]
    <2>1. CASE NewFloat
      BY <2>1 DEF NewFloat, LiveFloat, Piped
    <2>2. CASE Resample
      <3>1. CASE samplerate = "made"
        <4>1. \A i \in 1..Len(audioPipe) : audioPipe[i] # floatBuf
          BY DEF IInv, Exclusive
        <4>2. PICK unwritten \in {{}, floatContent[floatBuf]} :
                  floatContent' = [floatContent EXCEPT ![floatBuf] =
                                      tail \cup rtpContent[rtpBuf] \cup unwritten]
          BY <2>2, <3>1 DEF Resample
        <4>3. \A i \in 1..Len(audioPipe) : audioPipe[i] \in FloatBufs
          BY DEF IInv, TypeOK
        <4> QED
          BY <4>1, <4>2, <4>3 DEF IInv, TypeOK
      <3>2. CASE samplerate = "null"
        BY <2>2, <3>2 DEF Resample
      <3> QED
        BY <2>2, <3>1, <3>2 DEF Resample
    <2>3. CASE ~(NewFloat \/ Resample)
      BY <2>3 DEF GetBuf, Receive, TestPool, LockToPop, PopFloat, ReturnBuf, RtpExit,
         StartStream, LockPool, RecycleBuf, CheckStopped, vars, bufVars
    <2> QED
      BY <2>1, <2>2, <2>3
  <1>3. UNCHANGED (IF rtpPc \in {"testPool", "lockPool", "popFloat", "newFloat",
                                 "resample", "push"}
                   THEN frame - 1 ELSE frame)
    BY DEF IInv, TypeOK, GetBuf, Receive, TestPool, LockToPop, PopFloat, NewFloat,
       Resample, ReturnBuf, RtpExit, StartStream, LockPool, RecycleBuf,
       CheckStopped, vars, rtpVars, srcVars
  <1> QED
    BY <1>1, <1>2, <1>3, SamePipe DEF IInv, Channel!vars

(* AudioBuffer implements the FIFO channel of frames: what the audio       *)
(* device is given is what the scanner sent, in order, or silence.         *)
THEOREM Refinement == Spec => Implements
  <1>1. IInv /\ [Next]_vars => [Channel!Next]_(Channel!vars)
    BY PushPuts, TakeGets, UnderrunRefines, OthersStutter DEF Next, RtpThread, RtpWork,
       CallbackThread, Terminated, Channel!Next
  <1> QED
    BY InitRefines, Invariance, <1>1, PTL DEF Spec, Implements, Channel!Spec

=============================================================================
