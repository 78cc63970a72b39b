------------------------- MODULE AudioSession_proofs -------------------------
(***************************************************************************)
(* Proofs about AudioSession for every number of sessions: its type        *)
(* invariant, StoppedIsQuiet, ReplaceSafely and TeardownIsLast; that nobody*)
(* waits in vain and that calls advance, which is all of their return that *)
(* is safety; and that it implements AudioService and RtspDialogue.        *)
(*                                                                         *)
(* None of these is inductive: that the frame is idle says nothing of      *)
(* the threads unless one knows how the promise, the RTSP thread's         *)
(* progress and the GUI thread's progress go together.  The conjuncts of   *)
(* IInv say just that.                                                     *)
(***************************************************************************)
EXTENDS AudioSession, TLAPS

(* Nothing of the old session is left that a new one could collide with.   *)
Quiet == rtspPc \in {"none", "joined"} /\ stream = "closed" /\ cbPc = "none"

(* The callback thread exists exactly as long as the stream is open.       *)
StreamHasThread == stream = "closed" <=> cbPc = "none"

(* A promise is kept where the RTSP thread decides its outcome, and not    *)
(* before: false means that it has ended, true that it is in, or has left, *)
(* the keepalive loop.                                                     *)
PromiseTellsProgress ==
    /\ promise = "unset" <=>
           rtspPc \in {"none", "connect", "evaluate", "waitRtp", "joinFailedRtp"} \cup Methods
    /\ promise = "false" => rtspPc \in {"ended", "joined"}

(* TEARDOWN has been sent exactly by the sessions that started and ended.  *)
TeardownEndsSuccess ==
    "TEARDOWN" \in sent <=> promise = "true" /\ rtspPc \in {"ended", "joined"}

(* The RTP thread lives only inside its RTSP thread's life, and is joined  *)
(* before the TEARDOWN.                                                    *)
RtpInsideRtsp ==
    /\ rtspPc \in {"none", "connect", "evaluate"} \cup Methods => rtpPc = "none"
    /\ rtspPc \in {"teardown", "ended", "joined"} => rtpPc \in {"none", "joined"}
    /\ rtpPc = "bind" => rtspPc = "waitRtp"
    /\ rtpPc = "joined" => rtspPc \in {"teardown", "ended", "joined"}

(* What the RTSP thread waits for, and what it has done before it joins.   *)
RtspWaitsForRtp ==
    /\ rtspPc \in {"waitRtp", "joinFailedRtp", "joinRtp", "teardown"} => rtpPc # "none"
    /\ rtspPc = "joinFailedRtp" => rtpPc = "ended"
    /\ rtspPc = "joinRtp" => ~rtpRunning

(* The promise of the RTP thread is kept when it leaves bind, and an RTP   *)
(* thread that is over has told the buffer.                                *)
RtpPromiseKept ==
    /\ rtpPromise = "unset" <=> rtpPc \in {"none", "bind"}
    /\ rtpPromise = "false" => rtpPc \in {"ended", "joined"}
    /\ rtpPc \in {"ended", "joined"} => stopped

(* What each place of the GUI thread says of the rest.                     *)
GuiKnows ==
    /\ guiPc \in {"waitPromise", "failStop", "openStream"} =>
           stream = "closed" /\ cbPc = "none"
    /\ promise = "unset" => guiPc = "waitPromise" \/ rtspPc = "none"
    /\ guiPc = "failStop" => promise = "false"
    /\ guiPc = "closing" => rtspPc \in {"none", "joined"}
    /\ guiPc \in {"notify", "join"} => ~running
    /\ guiPc \in {"waitPromise", "failStop", "openStream"} =>
           started /\ rtspPc \notin {"none", "joined"}
    /\ guiPc \in {"ready", "startReturned"} /\ ~started => Quiet

IInv == TypeOK /\ StreamHasThread /\ PromiseTellsProgress /\ TeardownEndsSuccess
            /\ RtpInsideRtsp /\ RtspWaitsForRtp /\ RtpPromiseKept /\ GuiKnows

-----------------------------------------------------------------------------
(* The state before the first start satisfies the invariant.               *)
LEMMA InitInv == Init => IInv
  <1> SUFFICES ASSUME Init PROVE IInv
    OBVIOUS
  <1>0. session \in 0..MaxSessions
    BY MaxSessionsAssumption DEF Init
  <1>1. GuiTypeOK
    BY <1>0, Zenon DEF Init, GuiTypeOK, GuiPcs
  <1>2. RtspTypeOK /\ RtpTypeOK /\ AudioTypeOK
    BY DEF Init, RtspTypeOK, RtspPcs, RtpTypeOK, RtpPcs, Ended, AudioTypeOK
  <1>3. /\ StreamHasThread /\ PromiseTellsProgress /\ TeardownEndsSuccess
        /\ RtpInsideRtsp /\ RtspWaitsForRtp /\ RtpPromiseKept
    BY DEF Init, StreamHasThread, PromiseTellsProgress, TeardownEndsSuccess, RtpInsideRtsp,
           RtspWaitsForRtp, RtpPromiseKept, Methods
  <1>4. GuiKnows
    BY DEF Init, GuiKnows, Quiet
  <1> QED
    BY <1>1, <1>2, <1>3, <1>4 DEF IInv, TypeOK

(* Every step of every thread preserves the types of the variables.        *)
LEMMA NextType == TypeOK /\ [Next]_vars => TypeOK'
  <1> SUFFICES ASSUME TypeOK, [Next]_vars PROVE TypeOK'
    OBVIOUS
  <1> USE DEF TypeOK, GuiTypeOK, RtspTypeOK, RtpTypeOK, AudioTypeOK,
              guiVars, rtspVars, rtpVars, streamVars
  <1>1. CASE StartNoDevice
    BY <1>1 DEF StartNoDevice, GuiPcs, RtspPcs, RtpPcs, Ended
  <1>2. CASE Start
    <2>1. session' \in 0..MaxSessions
      BY <1>2, MaxSessionsAssumption DEF Start
    <2> QED
      BY <1>2, <2>1, Zenon DEF Start, GuiPcs, RtspPcs, RtpPcs, Ended
  <1>3. CASE Stop
    <2>1. GuiTypeOK'
      BY <1>3, Zenon DEF Stop, GuiPcs
    <2>2. RtspTypeOK' /\ RtpTypeOK' /\ AudioTypeOK'
      BY <1>3 DEF Stop
    <2> QED
      BY <2>1, <2>2
  <1>4. CASE GetPromise
    BY <1>4 DEF GetPromise, GuiPcs, RtspPcs, RtpPcs, Ended
  <1>5. CASE FailStop
    <2>1. GuiTypeOK'
      BY <1>5, Zenon DEF FailStop, GuiPcs
    <2>2. RtspTypeOK'
      BY <1>5, Zenon DEF FailStop, RtspPcs, Ended
    <2>3. RtpTypeOK' /\ AudioTypeOK'
      BY <1>5 DEF FailStop
    <2> QED
      BY <2>1, <2>2, <2>3
  <1>6. CASE OpenStream
    BY <1>6 DEF OpenStream, GuiPcs, RtspPcs, RtpPcs, Ended
  <1>7. CASE StartReturned
    <2>1. GuiTypeOK'
      BY <1>7, Zenon DEF StartReturned, GuiPcs
    <2>2. RtspTypeOK' /\ RtpTypeOK' /\ AudioTypeOK'
      BY <1>7 DEF StartReturned
    <2> QED
      BY <2>1, <2>2
  <1>8. CASE StopSession
    <2>1. GuiTypeOK'
      BY <1>8, Zenon DEF StopSession, GuiPcs
    <2>2. RtspTypeOK'
      BY <1>8, Zenon DEF StopSession, RtspPcs, Ended
    <2>3. RtpTypeOK' /\ AudioTypeOK'
      BY <1>8 DEF StopSession
    <2> QED
      BY <2>1, <2>2, <2>3
  <1>9. CASE Notify
    BY <1>9 DEF Notify, GuiPcs, RtspPcs, RtpPcs, Ended
  <1>10. CASE Join
    BY <1>10 DEF Join, GuiPcs, RtspPcs, RtpPcs, Ended
  <1>11. CASE CloseStream
    BY <1>11 DEF CloseStream, GuiPcs, RtspPcs, RtpPcs, Ended
  <1>12. CASE Connect
    <2>1. RtspTypeOK'
      <3>1. rtspPc' \in RtspPcs
        BY <1>12 DEF Connect, GiveUp, RtspPcs, Ended, Methods
      <3>2. running' \in BOOLEAN
        BY <1>12, Zenon DEF Connect, GiveUp
      <3>3. pollRet' \in {"SREADY", "STIMEOUT"} /\ promise' \in {"unset", "true", "false"}
        BY <1>12 DEF Connect, GiveUp
      <3>4. UNCHANGED <<lastStatus, sent>>
        BY <1>12 DEF Connect
      <3> QED
        BY <3>1, <3>2, <3>3, <3>4
    <2>2. AudioTypeOK'
      BY <1>12, Zenon DEF Connect, GiveUp
    <2>3. GuiTypeOK' /\ RtpTypeOK'
      BY <1>12 DEF Connect
    <2> QED
      BY <2>1, <2>2, <2>3
  <1>13. ASSUME NEW m \in Methods, Request(m) PROVE TypeOK'
    BY <1>13 DEF Request, After, Methods, GuiPcs, RtspPcs, RtpPcs, Ended
  <1>32. CASE Uncaught
    BY <1>32 DEF Uncaught, Methods, GuiPcs, RtspPcs, RtpPcs, Ended
  <1>14. CASE Evaluate
    <2>1. RtspTypeOK'
      BY <1>14, Zenon DEF Evaluate, GiveUp, RtspPcs, Ended
    <2>2. RtpTypeOK'
      BY <1>14, Zenon DEF Evaluate, GiveUp, RtpPcs, Ended
    <2>3. AudioTypeOK'
      BY <1>14, Zenon DEF Evaluate, GiveUp
    <2>4. GuiTypeOK'
      BY <1>14 DEF Evaluate
    <2> QED
      BY <2>1, <2>2, <2>3, <2>4
  <1>15. CASE WaitRtp
    <2>1. RtspTypeOK'
      BY <1>15, Zenon DEF WaitRtp, RtspPcs, Ended
    <2>2. RtpTypeOK'
      BY <1>15, Zenon DEF WaitRtp, RtpPcs, Ended
    <2>3. GuiTypeOK' /\ AudioTypeOK'
      BY <1>15 DEF WaitRtp
    <2> QED
      BY <2>1, <2>2, <2>3
  <1>16. CASE JoinFailedRtp
    <2>1. RtspTypeOK'
      BY <1>16, Zenon DEF JoinFailedRtp, GiveUp, RtspPcs, Ended
    <2>2. RtpTypeOK'
      BY <1>16, Zenon DEF JoinFailedRtp, GiveUp, RtpPcs, Ended
    <2>3. AudioTypeOK'
      BY <1>16, Zenon DEF JoinFailedRtp, GiveUp
    <2>4. GuiTypeOK'
      BY <1>16 DEF JoinFailedRtp
    <2> QED
      BY <2>1, <2>2, <2>3, <2>4
  <1>17. CASE KeepaliveLoop
    BY <1>17 DEF KeepaliveLoop, GuiPcs, RtspPcs, RtpPcs, Ended
  <1>18. CASE EnterWait
    BY <1>18 DEF EnterWait, GuiPcs, RtspPcs, RtpPcs, Ended
  <1>19. CASE WaitEnds
    BY <1>19 DEF WaitEnds, GuiPcs, RtspPcs, RtpPcs, Ended
  <1>20. CASE Woken
    BY <1>20 DEF Woken, GuiPcs, RtspPcs, RtpPcs, Ended
  <1>21. CASE Keepalive
    <2>1. RtspTypeOK'
      BY <1>21, Zenon DEF Keepalive, RtspPcs, Ended
    <2>2. GuiTypeOK' /\ RtpTypeOK' /\ AudioTypeOK'
      BY <1>21 DEF Keepalive
    <2> QED
      BY <2>1, <2>2
  <1>22. CASE StopRtp
    <2>1. RtspTypeOK'
      BY <1>22, Zenon DEF StopRtp, RtspPcs, Ended
    <2>2. RtpTypeOK'
      BY <1>22, Zenon DEF StopRtp, RtpPcs, Ended
    <2>3. AudioTypeOK'
      BY <1>22, Zenon DEF StopRtp
    <2>4. GuiTypeOK'
      BY <1>22 DEF StopRtp
    <2> QED
      BY <2>1, <2>2, <2>3, <2>4
  <1>23. CASE JoinRtp
    BY <1>23 DEF JoinRtp, GuiPcs, RtspPcs, RtpPcs, Ended
  <1>24. CASE Teardown
    BY <1>24 DEF Teardown, GuiPcs, RtspPcs, RtpPcs, Ended
  <1>25. CASE RtpBind
    <2>1. RtpTypeOK'
      BY <1>25, Zenon DEF RtpBind, RtpPcs, Ended
    <2>2. AudioTypeOK'
      BY <1>25, Zenon DEF RtpBind
    <2>3. GuiTypeOK' /\ RtspTypeOK'
      BY <1>25 DEF RtpBind
    <2> QED
      BY <2>1, <2>2, <2>3
  <1>26. CASE RtpLoop
    <2>1. RtpTypeOK'
      BY <1>26, Zenon DEF RtpLoop, RtpPcs, Ended
    <2>2. AudioTypeOK'
      BY <1>26, Zenon DEF RtpLoop
    <2>3. GuiTypeOK' /\ RtspTypeOK'
      BY <1>26 DEF RtpLoop
    <2> QED
      BY <2>1, <2>2, <2>3
  <1>27. CASE RtpDatagram
    BY <1>27 DEF RtpDatagram, GuiPcs, RtspPcs, RtpPcs, Ended
  <1>28. CASE RtpTimeout
    <2>1. RtpTypeOK'
      BY <1>28, Zenon DEF RtpTimeout, RtpPcs, Ended
    <2>2. AudioTypeOK'
      BY <1>28, Zenon DEF RtpTimeout
    <2>3. GuiTypeOK' /\ RtspTypeOK'
      BY <1>28 DEF RtpTimeout
    <2> QED
      BY <2>1, <2>2, <2>3
  <1>29. CASE CallbackEnter
    BY <1>29 DEF CallbackEnter, GuiPcs, RtspPcs, RtpPcs, Ended
  <1>30. CASE CallbackReturn
    BY <1>30 DEF CallbackReturn, GuiPcs, RtspPcs, RtpPcs, Ended
  <1>31. CASE UNCHANGED vars
    BY <1>31 DEF vars
  <1> QED
    BY <1>1, <1>2, <1>3, <1>4, <1>5, <1>6, <1>7, <1>8, <1>9, <1>10, <1>11, <1>12, <1>13, <1>14, <1>15, <1>16, <1>17, <1>18, <1>19, <1>20, <1>21, <1>22, <1>23, <1>24, <1>25, <1>26, <1>27, <1>28, <1>29, <1>30, <1>31, <1>32
       DEF Next, Step, GuiThread, RtspThread, RtpThread, CallbackThread

(* Every step of every thread preserves the rest of the invariant.         *)
LEMMA NextInv == IInv /\ [Next]_vars => IInv'
  <1> SUFFICES ASSUME IInv, [Next]_vars PROVE IInv'
    OBVIOUS
  <1> DEFINE Rest == StreamHasThread /\ PromiseTellsProgress /\ TeardownEndsSuccess
                        /\ RtpInsideRtsp /\ RtspWaitsForRtp /\ RtpPromiseKept /\ GuiKnows
  <1> SUFFICES Rest'
    BY NextType DEF IInv
  <1>0. /\ Rest
        /\ promise \in {"unset", "true", "false"}
        /\ rtpPromise \in {"unset", "true", "false"}
    BY DEF IInv, TypeOK, RtspTypeOK, RtpTypeOK
  <1> USE DEF StreamHasThread, PromiseTellsProgress, TeardownEndsSuccess, RtpInsideRtsp,
              RtspWaitsForRtp, RtpPromiseKept, GuiKnows, Quiet, guiVars, rtspVars, rtpVars, streamVars
  <1>1. CASE StartNoDevice
    BY <1>0, <1>1 DEF StartNoDevice, Methods
  <1>2. CASE Start
    BY <1>0, <1>2 DEF Start, Methods
  <1>3. CASE Stop
    BY <1>0, <1>3 DEF Stop, Methods
  <1>4. CASE GetPromise
    BY <1>0, <1>4 DEF GetPromise, Methods
  <1>5. CASE FailStop
    BY <1>0, <1>5 DEF FailStop, Ended, Methods
  <1>6. CASE OpenStream
    BY <1>0, <1>6 DEF OpenStream, Methods
  <1>7. CASE StartReturned
    BY <1>0, <1>7 DEF StartReturned, Methods
  <1>8. CASE StopSession
    BY <1>0, <1>8 DEF StopSession, Methods
  <1>9. CASE Notify
    BY <1>0, <1>9 DEF Notify, Methods
  <1>10. CASE Join
    BY <1>0, <1>10 DEF Join, Ended, Methods
  <1>11. CASE CloseStream
    BY <1>0, <1>11 DEF CloseStream, Methods
  <1>12. CASE Connect
    BY <1>0, <1>12 DEF Connect, GiveUp, Methods
  <1>13. ASSUME NEW m \in Methods, Request(m) PROVE Rest'
    BY <1>0, <1>13 DEF Request, After, Methods
  <1>32. CASE Uncaught
    BY <1>0, <1>32 DEF Uncaught, Methods
  <1>14. CASE Evaluate
    BY <1>0, <1>14 DEF Evaluate, GiveUp, Methods
  <1>15. CASE WaitRtp
    BY <1>0, <1>15 DEF WaitRtp, Methods
  <1>16. CASE JoinFailedRtp
    BY <1>0, <1>16 DEF JoinFailedRtp, GiveUp, Ended, Methods
  <1>17. CASE KeepaliveLoop
    BY <1>0, <1>17 DEF KeepaliveLoop, Methods
  <1>18. CASE EnterWait
    BY <1>0, <1>18 DEF EnterWait, Methods
  <1>19. CASE WaitEnds
    BY <1>0, <1>19 DEF WaitEnds, Methods
  <1>20. CASE Woken
    BY <1>0, <1>20 DEF Woken, Methods
  <1>21. CASE Keepalive
    BY <1>0, <1>21 DEF Keepalive, Methods
  <1>22. CASE StopRtp
    BY <1>0, <1>22 DEF StopRtp, Methods
  <1>23. CASE JoinRtp
    BY <1>0, <1>23 DEF JoinRtp, Ended, Methods
  <1>24. CASE Teardown
    BY <1>0, <1>24 DEF Teardown, Methods
  <1>25. CASE RtpBind
    BY <1>0, <1>25 DEF RtpBind, Methods
  <1>26. CASE RtpLoop
    BY <1>0, <1>26 DEF RtpLoop, Methods
  <1>27. CASE RtpDatagram
    BY <1>0, <1>27 DEF RtpDatagram, Methods
  <1>28. CASE RtpTimeout
    BY <1>0, <1>28 DEF RtpTimeout, Methods
  <1>29. CASE CallbackEnter
    BY <1>0, <1>29 DEF CallbackEnter, Methods
  <1>30. CASE CallbackReturn
    BY <1>0, <1>30 DEF CallbackReturn, Methods
  <1>31. CASE UNCHANGED vars
    BY <1>0, <1>31 DEF vars
  <1> QED
    BY <1>1, <1>2, <1>3, <1>4, <1>5, <1>6, <1>7, <1>8, <1>9, <1>10, <1>11, <1>12, <1>13, <1>14, <1>15, <1>16, <1>17, <1>18, <1>19, <1>20, <1>21, <1>22, <1>23, <1>24, <1>25, <1>26, <1>27, <1>28, <1>29, <1>30, <1>31, <1>32
       DEF Next, Step, GuiThread, RtspThread, RtpThread, CallbackThread

(* The inductive invariant holds in every reachable state.                 *)
THEOREM Invariance == Spec => []IInv
  <1> QED
    BY InitInv, NextInv, PTL DEF Spec

(* The type invariant, for every number of sessions.                       *)
THEOREM TypeCorrect == Spec => []TypeOK
  <1>1. IInv => TypeOK
    BY DEF IInv
  <1> QED
    BY <1>1, Invariance, PTL

(* Whatever failed on the way, when the frame is idle and the audio is not *)
(* started, the threads are joined, the stream is closed, and a session    *)
(* that was reported as started has sent its TEARDOWN.                     *)
THEOREM StoppedQuiet == Spec => []StoppedIsQuiet
  <1>1. IInv => StoppedIsQuiet
    BY DEF IInv, GuiKnows, Quiet, RtpInsideRtsp, PromiseTellsProgress, TeardownEndsSuccess,
           StoppedIsQuiet
  <1> QED
    BY <1>1, Invariance, PTL

(* A session is replaced by Start alone.                                   *)
LEMMA OnlyStartReplaces == [Next]_vars /\ session' # session => Start
  BY DEF Next, Step, GuiThread, RtspThread, RtpThread, CallbackThread, vars,
         guiVars, rtspVars, rtpVars, streamVars, StartNoDevice, Stop, GetPromise, FailStop,
         OpenStream, StartReturned, StopSession, Notify, Join, CloseStream, Connect,
         Request, Uncaught, Evaluate, WaitRtp, JoinFailedRtp, KeepaliveLoop, EnterWait, WaitEnds,
         Woken, Keepalive, StopRtp, JoinRtp, Teardown, RtpBind, RtpLoop, RtpDatagram,
         RtpTimeout, CallbackEnter, CallbackReturn

(* No start replaces a session that a thread or a callback can still see.  *)
THEOREM ReplacedSafely == Spec => ReplaceSafely
  <1>1. ASSUME IInv, [Next]_vars, session' # session
        PROVE  /\ stream = "closed" /\ cbPc = "none"
               /\ rtspPc \in {"none", "joined"} /\ rtpPc \in {"none", "joined"}
    <2>1. Quiet
      BY <1>1, OnlyStartReplaces DEF Start, IInv, GuiKnows
    <2> QED
      BY <1>1, <2>1 DEF Quiet, IInv, RtpInsideRtsp
  <1> QED
    BY <1>1, Invariance, PTL DEF Spec, ReplaceSafely

(* Requests are sent by the four steps of the handshake, the keepalive and *)
(* the TEARDOWN, and one whose answer is not survived is sent all the same;*)
(* a start begins a connection on which none has been sent.                *)
LEMMA WhoSends ==
    [Next]_vars /\ sent' # sent =>
        Start \/ (\E m \in Methods : Request(m)) \/ Uncaught \/ Keepalive \/ Teardown
  BY DEF Next, Step, GuiThread, RtspThread, RtpThread, CallbackThread, vars,
         guiVars, rtspVars, rtpVars, streamVars, StartNoDevice, Stop, GetPromise, FailStop,
         OpenStream, StartReturned, StopSession, Notify, Join, CloseStream, Connect,
         Evaluate, WaitRtp, JoinFailedRtp, KeepaliveLoop, EnterWait, WaitEnds,
         Woken, StopRtp, JoinRtp, RtpBind, RtpLoop, RtpDatagram,
         RtpTimeout, CallbackEnter, CallbackReturn

(* TEARDOWN goes out when the RTP thread is gone, and nothing after it.    *)
THEOREM TeardownLast == Spec => TeardownIsLast
  <1>1. ASSUME IInv, [Next]_vars, "TEARDOWN" \in sent' \ sent
        PROVE  rtpPc \notin {"bind", "loop", "recv"}
    <2>1. Teardown
      BY <1>1, WhoSends DEF Start, Request, Uncaught, Keepalive, Methods
    <2> QED
      BY <1>1, <2>1 DEF Teardown, IInv, RtpInsideRtsp
  <1>2. ASSUME IInv, [Next]_vars, "TEARDOWN" \in sent, session' = session
        PROVE  sent' = sent
    <2>1. rtspPc \in {"ended", "joined"}
      BY <1>2 DEF IInv, TeardownEndsSuccess
    <2>2. ~Start
      BY <1>2 DEF Start, IInv, TypeOK, GuiTypeOK
    <2> QED
      BY <1>2, <2>1, <2>2, WhoSends DEF Request, Uncaught, Keepalive, Teardown, Methods
  <1> QED
    BY <1>1, <1>2, Invariance, PTL DEF Spec, TeardownIsLast

(* Whoever a thread waits for has done it or is on the way, with the flag  *)
(* cleared that could keep it from getting there.                          *)
THEOREM NobodyWaits == Spec => []NobodyWaitsInVain
  <1>1. ASSUME IInv PROVE NobodyWaitsInVain
    <2> USE <1>1 DEF IInv
    <2>1. guiPc = "waitPromise" /\ promise = "unset" => rtspPc \notin Ended
      BY DEF PromiseTellsProgress, GuiKnows, Ended, Methods
    <2>2. guiPc = "failStop" => rtspPc = "ended"
      BY DEF PromiseTellsProgress, GuiKnows
    <2>3. guiPc \in {"notify", "join"} => rtspPc \in Ended \/ ~running
      BY DEF GuiKnows
    <2>4. rtspPc = "waitRtp" /\ rtpPromise = "unset" => rtpPc = "bind"
      BY DEF RtspWaitsForRtp, RtpPromiseKept
    <2>5. rtspPc \in {"joinRtp", "joinFailedRtp"} =>
              rtpPc \in Ended \/ (rtpPc \in {"loop", "recv"} /\ ~rtpRunning)
      BY DEF RtspWaitsForRtp, RtpInsideRtsp, TypeOK, RtpTypeOK, RtpPcs, Ended
    <2>6. rtpPc \in {"ended", "joined"} => stopped
      BY DEF RtpPromiseKept
    <2> QED
      BY <2>1, <2>2, <2>3, <2>4, <2>5, <2>6 DEF NobodyWaitsInVain
  <1> QED
    BY <1>1, Invariance, PTL

(* The steps that the counts give each place.                              *)
LEMMA StepCounts ==
    /\ RtspSteps["connect"] = 18 /\ RtspSteps["OPTIONS"] = 17 /\ RtspSteps["DESCRIBE"] = 16
    /\ RtspSteps["SETUP"] = 15 /\ RtspSteps["PLAY"] = 14 /\ RtspSteps["evaluate"] = 13
    /\ RtspSteps["waitRtp"] = 12 /\ RtspSteps["joinFailedRtp"] = 11 /\ RtspSteps["lock"] = 10
    /\ RtspSteps["waiting"] = 9 /\ RtspSteps["woken"] = 8 /\ RtspSteps["keepalive"] = 7
    /\ RtspSteps["loop"] = 6 /\ RtspSteps["stopRtp"] = 5 /\ RtspSteps["joinRtp"] = 4
    /\ RtspSteps["teardown"] = 3 /\ RtspSteps["ended"] = 2 /\ RtspSteps["joined"] = 1
    /\ RtpSteps["bind"] = 5 /\ RtpSteps["recv"] = 4 /\ RtpSteps["loop"] = 3
    /\ RtpSteps["ended"] = 2 /\ RtpSteps["joined"] = 1
  BY DEF RtspSteps, RtpSteps

(* Only the joins and the RTP thread itself move the RTP thread while the  *)
(* RTSP thread joins it.                                                   *)
LEMMA JoinAdvances ==
    IInv /\ [Next]_vars /\ rtspPc \in {"joinRtp", "joinFailedRtp"} /\ rtpPc' # rtpPc =>
        RtpSteps[rtpPc'] < RtpSteps[rtpPc]
  <1> SUFFICES ASSUME IInv, [Next]_vars, rtspPc \in {"joinRtp", "joinFailedRtp"},
                      rtpPc' # rtpPc
               PROVE  RtpSteps[rtpPc'] < RtpSteps[rtpPc]
    OBVIOUS
  <1>0. /\ rtpPc \notin {"none", "bind", "joined"}
        /\ rtspPc = "joinFailedRtp" => rtpPc = "ended"
        /\ rtspPc = "joinRtp" => ~rtpRunning
    BY DEF IInv, RtpInsideRtsp, RtspWaitsForRtp
  <1>1. CASE JoinFailedRtp \/ JoinRtp
    BY <1>0, <1>1, StepCounts DEF JoinFailedRtp, JoinRtp, Ended
  <1>2. CASE RtpLoop \/ RtpDatagram \/ RtpTimeout
    BY <1>0, <1>2, StepCounts DEF RtpLoop, RtpDatagram, RtpTimeout
  <1>3. JoinFailedRtp \/ JoinRtp \/ RtpLoop \/ RtpDatagram \/ RtpTimeout
    <2>1. ~Start
      BY DEF Start, IInv, GuiKnows, Quiet
    <2> QED
      BY <1>0, <2>1
      DEF Next, Step, GuiThread, RtspThread, RtpThread, CallbackThread, vars,
          guiVars, rtspVars, rtpVars, streamVars, StartNoDevice, Stop, GetPromise, FailStop,
          OpenStream, StartReturned, StopSession, Notify, Join, CloseStream, Connect,
          Request, Uncaught, Evaluate, WaitRtp, KeepaliveLoop, EnterWait, WaitEnds,
          Woken, Keepalive, StopRtp, Teardown, RtpBind, CallbackEnter, CallbackReturn
  <1> QED
    BY <1>1, <1>2, <1>3

(* While the GUI thread is blocked on it, the RTSP thread moves only       *)
(* towards its end: the flag is cleared that could send it round its loop. *)
LEMMA WaitAdvances ==
    IInv /\ [Next]_vars /\ AwaitsRtsp /\ rtspPc' # rtspPc =>
        RtspSteps[rtspPc'] < RtspSteps[rtspPc]
  <1> SUFFICES ASSUME IInv, [Next]_vars, AwaitsRtsp, rtspPc' # rtspPc
               PROVE  RtspSteps[rtspPc'] < RtspSteps[rtspPc]
    OBVIOUS
  <1>0. /\ guiPc \in {"notify", "join"} => ~running
        /\ guiPc = "waitPromise" =>
               rtspPc \in {"connect", "evaluate", "waitRtp", "joinFailedRtp"} \cup Methods
        /\ guiPc \in {"waitPromise", "notify", "join"}
    BY DEF AwaitsRtsp, IInv, GuiKnows, PromiseTellsProgress
  <1> USE DEF guiVars, rtspVars, rtpVars, streamVars
  <1>1. CASE StartNoDevice \/ Start \/ Stop \/ GuiThread
    <2>1. Notify \/ Join
      BY <1>0, <1>1 DEF GuiThread, StartNoDevice, Start, Stop, GetPromise, FailStop, OpenStream,
                        StartReturned, StopSession, CloseStream
    <2> QED
      BY <2>1, StepCounts DEF Notify, Join, Ended
  <1>2. CASE RtspThread
    <2>1. CASE Connect
      BY <2>1, StepCounts DEF Connect, GiveUp
    <2>2. ASSUME NEW m \in Methods, Request(m)
          PROVE  RtspSteps[rtspPc'] < RtspSteps[rtspPc]
      BY <2>2, StepCounts DEF Request, After, Methods
    <2>3. CASE Uncaught \/ StopRtp
      BY <2>3, StepCounts DEF Uncaught, StopRtp
    <2>4. CASE Evaluate \/ WaitRtp \/ JoinFailedRtp
      BY <2>4, StepCounts DEF Evaluate, WaitRtp, JoinFailedRtp, GiveUp
    <2>5. CASE KeepaliveLoop \/ Woken
      BY <1>0, <2>5, StepCounts DEF KeepaliveLoop, Woken, Methods
    <2>6. CASE EnterWait \/ WaitEnds \/ Keepalive
      BY <2>6, StepCounts DEF EnterWait, WaitEnds, Keepalive
    <2>7. CASE JoinRtp \/ Teardown
      BY <2>7, StepCounts DEF JoinRtp, Teardown
    <2> QED
      BY <1>2, <2>1, <2>2, <2>3, <2>4, <2>5, <2>6, <2>7 DEF RtspThread
  <1>3. CASE RtpThread \/ CallbackThread \/ UNCHANGED vars
    BY <1>3 DEF RtpThread, CallbackThread, RtpBind, RtpLoop, RtpDatagram, RtpTimeout,
                CallbackEnter, CallbackReturn, vars
  <1> QED
    BY <1>1, <1>2, <1>3 DEF Next, Step

(* No step sets back a thread that is waited for: with NobodyWaits, all    *)
(* that start() and stop() need in order to return is that the threads are *)
(* scheduled.                                                              *)
THEOREM CallsComeNearer == Spec => CallsAdvance
  <1> QED
    BY Invariance, WaitAdvances, JoinAdvances, PTL DEF Spec, CallsAdvance

-----------------------------------------------------------------------------
(* The session implements the service: each step of a thread is a step of  *)
(* AudioService, seen through Call, Held and Owed, or changes nothing that *)
(* the frame can tell.                                                     *)

(* The mapping's primed values, for the steps that leave the call alone.   *)
LEMMA SameCall == guiPc' = guiPc => Call' = Call
  BY DEF Call

(* The frame's call, at each place of the GUI thread.                      *)
LEMMA CallAt ==
    /\ guiPc = "ready" => Call = "none"
    /\ guiPc \in {"waitPromise", "failStop", "openStream"} => Call = "start"
    /\ guiPc = "startReturned" => Call = "returned"
    /\ guiPc \in {"stopSession", "notify", "join", "closing"} => Call = "stop"
  BY DEF Call

(* The same of the next state.                                             *)
LEMMA NextCallAt ==
    /\ guiPc' = "ready" => Call' = "none"
    /\ guiPc' \in {"waitPromise", "failStop", "openStream"} => Call' = "start"
    /\ guiPc' = "startReturned" => Call' = "returned"
    /\ guiPc' \in {"stopSession", "notify", "join", "closing"} => Call' = "stop"
  BY DEF Call

(* A scanner to which a TEARDOWN is owed has a live RTSP thread.           *)
LEMMA OwedHasThread == IInv /\ rtspPc \in Ended => ~Owed
  BY DEF IInv, PromiseTellsProgress, TeardownEndsSuccess, Owed, Ended, TypeOK, RtspTypeOK

(* The initial states map to the service's.                                *)
LEMMA InitService == Init => Service!Init
  BY CallAt DEF Init, Service!Init, Held, Owed

(* Every step maps to a step of the service or to a stutter.               *)
LEMMA NextService == IInv /\ [Next]_vars => [Service!Next]_(Service!vars)
  <1> SUFFICES ASSUME IInv, [Next]_vars PROVE [Service!Next]_(Service!vars)
    OBVIOUS
  <1> DEFINE Stutter == UNCHANGED <<Call, started, connectionFail, Held, Owed, crashed>>
  <1>0. CASE UNCHANGED vars
    BY <1>0 DEF vars, guiVars, rtspVars, rtpVars, streamVars, Service!vars, Call, Held, Owed
  <1> SUFFICES ASSUME Alive, Step PROVE Service!Next \/ Stutter
    BY <1>0 DEF Next, Service!vars
  <1>a. Service!Alive
    BY DEF Alive, Service!Alive
  <1>b. /\ StreamHasThread /\ PromiseTellsProgress /\ TeardownEndsSuccess
        /\ RtpInsideRtsp /\ GuiKnows
        /\ promise \in {"unset", "true", "false"}
    BY DEF IInv, TypeOK, RtspTypeOK
  <1> USE DEF guiVars, rtspVars, rtpVars, streamVars
  <1>1. CASE StartNoDevice
    <2>1. Service!StartNoDevice
      BY <1>1, CallAt, NextCallAt DEF StartNoDevice, Service!StartNoDevice, Held, Owed
    <2> QED
      BY <1>a, <2>1 DEF Service!Next
  <1>2. CASE Start
    <2>1. Held' = TRUE /\ Owed' = FALSE
      BY <1>2 DEF Start, Held, Owed
    <2>2. Owed = FALSE
      BY <1>2, <1>b, OwedHasThread DEF Start, GuiKnows, Quiet, Ended, Owed
    <2>3. Service!Start
      BY <1>2, <2>1, <2>2, CallAt, NextCallAt DEF Start, Service!Start
    <2> QED
      BY <1>a, <2>3 DEF Service!Next
  <1>3. CASE Stop
    <2>1. Service!Stop
      BY <1>3, CallAt, NextCallAt DEF Stop, Service!Stop, Held, Owed
    <2> QED
      BY <1>a, <2>1 DEF Service!Next
  <1>4. CASE GetPromise
    <2> QED
      BY <1>4, CallAt, NextCallAt DEF GetPromise, Held, Owed
  <1>5. CASE FailStop
    <2>1. Held' = FALSE /\ Owed' = FALSE
      BY <1>5, <1>b, Zenon DEF FailStop, GuiKnows, RtpInsideRtsp, Ended, Held, Owed
    <2>2. Service!StartFails
      BY <1>5, <2>1, CallAt, NextCallAt DEF FailStop, Service!StartFails
    <2> QED
      BY <1>a, <2>2 DEF Service!Next, Service!Call
  <1>6. CASE OpenStream
    <2>1. Held' = Held /\ Owed' = Owed
      BY <1>6, <1>b DEF OpenStream, GuiKnows, Held, Owed
    <2>2. Service!StartSucceeds
      BY <1>6, <2>1, CallAt, NextCallAt DEF OpenStream, Service!StartSucceeds
    <2> QED
      BY <1>a, <2>2 DEF Service!Next, Service!Call
  <1>7. CASE StartReturned
    <2>1. Service!Returned
      BY <1>7, CallAt, NextCallAt DEF StartReturned, Service!Returned, Held, Owed
    <2> QED
      BY <1>a, <2>1 DEF Service!Next, Service!Call
  <1>8. CASE StopSession
    BY <1>8, CallAt, NextCallAt DEF StopSession, Held, Owed
  <1>9. CASE Notify
    BY <1>9, CallAt, NextCallAt DEF Notify, Held, Owed
  <1>10. CASE Join
    <2>1. Call = "stop" /\ Call' = "stop"
      BY <1>10, CallAt, NextCallAt DEF Join
    <2>2. Owed = FALSE /\ Owed' = FALSE
      BY <1>10, OwedHasThread DEF Join, Owed
    <2>3. CASE Held' = FALSE
      <3>1. Service!Released
        BY <1>10, <2>1, <2>2, <2>3 DEF Join, Service!Released
      <3> QED
        BY <1>a, <3>1 DEF Service!Next, Service!Session
    <2>4. CASE Held' # FALSE
      BY <1>10, <2>1, <2>2, <2>4 DEF Join, Held, Ended
    <2> QED
      BY <2>3, <2>4
  <1>11. CASE CloseStream
    <2>1. Owed' = FALSE
      BY <1>11, <1>b, OwedHasThread DEF CloseStream, GuiKnows, Ended, Owed
    <2>2. Held' = FALSE
      BY <1>11, <1>b DEF CloseStream, GuiKnows, RtpInsideRtsp, Held
    <2>3. Service!StopReturns
      BY <1>11, <2>1, <2>2, CallAt, NextCallAt DEF CloseStream, Service!StopReturns
    <2> QED
      BY <1>a, <2>3 DEF Service!Next, Service!Call
  <1>12. CASE Connect
    <2>1. Owed' = Owed
      BY <1>12, <1>b DEF Connect, GiveUp, PromiseTellsProgress, Owed
    <2> QED
      BY <1>12, <2>1, SameCall DEF Connect, GiveUp, Held
  <1>13. CASE \E m \in Methods : Request(m)
    <2>1. PICK m \in Methods : Request(m)
      BY <1>13
    <2>2. Owed' = Owed
      BY <2>1, <1>b DEF Request, PromiseTellsProgress, Methods, Owed
    <2> QED
      BY <2>1, <2>2, SameCall DEF Request, After, Methods, Held
  <1>31. CASE Uncaught
    <2>1. Held /\ Held' /\ Call' = Call
      BY <1>31, SameCall DEF Uncaught, Methods, Held
    <2>2. Owed' = Owed
      BY <1>31 DEF Uncaught, Methods, Owed
    <2>3. Service!Crash
      BY <1>31, <2>1, <2>2 DEF Uncaught, Service!Crash
    <2> QED
      BY <1>a, <2>3 DEF Service!Next, Service!Session
  <1>14. CASE Evaluate
    <2>1. Held /\ Held' /\ Call' = Call
      BY <1>14, SameCall DEF Evaluate, GiveUp, Held
    <2>2. Owed = FALSE
      BY <1>14, <1>b DEF Evaluate, PromiseTellsProgress, Owed
    <2>3. CASE Owed' = FALSE
      BY <1>14, <2>1, <2>2, <2>3 DEF Evaluate
    <2>4. CASE Owed' = TRUE
      <3>1. Service!ComesUp
        BY <1>14, <1>b, <2>1, <2>4, CallAt
           DEF Evaluate, GuiKnows, PromiseTellsProgress, Service!ComesUp, Held
      <3> QED
        BY <1>a, <3>1 DEF Service!Next, Service!Session
    <2> QED
      BY <2>3, <2>4 DEF Owed
  <1>15. CASE WaitRtp
    <2>1. Held /\ Held' /\ Call' = Call
      BY <1>15, SameCall DEF WaitRtp, Held
    <2>2. Owed = FALSE
      BY <1>15, <1>b DEF WaitRtp, PromiseTellsProgress, Owed
    <2>3. CASE Owed' = FALSE
      BY <1>15, <2>1, <2>2, <2>3 DEF WaitRtp
    <2>4. CASE Owed' = TRUE
      <3>1. Service!ComesUp
        BY <1>15, <1>b, <2>1, <2>4, CallAt
           DEF WaitRtp, GuiKnows, PromiseTellsProgress, Service!ComesUp, Held
      <3> QED
        BY <1>a, <3>1 DEF Service!Next, Service!Session
    <2> QED
      BY <2>3, <2>4 DEF Owed
  <1>16. CASE JoinFailedRtp
    <2>1. Owed' = Owed
      BY <1>16, <1>b DEF JoinFailedRtp, GiveUp, PromiseTellsProgress, Owed
    <2> QED
      BY <1>16, <2>1, SameCall DEF JoinFailedRtp, GiveUp, Held
  <1>17. CASE KeepaliveLoop
    BY <1>17, SameCall DEF KeepaliveLoop, Held, Owed
  <1>18. CASE EnterWait
    BY <1>18, SameCall DEF EnterWait, Held, Owed
  <1>19. CASE WaitEnds
    BY <1>19, SameCall DEF WaitEnds, Held, Owed
  <1>20. CASE Woken
    BY <1>20, SameCall DEF Woken, Held, Owed
  <1>21. CASE Keepalive
    BY <1>21, SameCall DEF Keepalive, Held, Owed
  <1>22. CASE StopRtp
    <2>1. Held /\ Held' /\ Call' = Call /\ Owed' = Owed
      BY <1>22, SameCall DEF StopRtp, Held, Owed
    <2>2. CASE crashed' = crashed
      BY <1>22, <2>1, <2>2 DEF StopRtp
    <2>3. CASE crashed' = "nullRtpSession"
      <3>1. Service!Crash
        BY <1>22, <2>1, <2>3 DEF StopRtp, Service!Crash
      <3> QED
        BY <1>a, <3>1 DEF Service!Next, Service!Session
    <2> QED
      BY <1>22, <2>2, <2>3 DEF StopRtp
  <1>23. CASE JoinRtp
    BY <1>23, SameCall DEF JoinRtp, Held, Owed
  <1>24. CASE Teardown
    <2>1. Held /\ Held' /\ Call' = Call /\ Owed' = FALSE
      BY <1>24, SameCall DEF Teardown, Held, Owed
    <2>2. Service!TearsDown
      BY <1>24, <2>1 DEF Teardown, Service!TearsDown
    <2> QED
      BY <1>a, <2>2 DEF Service!Next, Service!Session
  <1>25. CASE RtpBind
    BY <1>25, SameCall DEF RtpBind, Held, Owed
  <1>26. CASE RtpLoop
    BY <1>26, SameCall DEF RtpLoop, Held, Owed
  <1>27. CASE RtpDatagram
    <2>1. Held /\ Held' /\ Call' = Call /\ Owed' = Owed
      BY <1>27, SameCall DEF RtpDatagram, Held, Owed
    <2>2. CASE crashed' = crashed
      BY <1>27, <2>1, <2>2 DEF RtpDatagram
    <2>3. CASE crashed' = "recvError"
      <3>1. Service!Crash
        BY <1>27, <2>1, <2>3 DEF RtpDatagram, Service!Crash
      <3> QED
        BY <1>a, <3>1 DEF Service!Next, Service!Session
    <2> QED
      BY <1>27, <2>2, <2>3 DEF RtpDatagram
  <1>28. CASE RtpTimeout
    <2>1. Held /\ Held' /\ Call' = Call /\ Owed' = Owed
      BY <1>28, SameCall DEF RtpTimeout, Held, Owed
    <2>2. CASE crashed' = crashed
      BY <1>28, <2>1, <2>2 DEF RtpTimeout
    <2>3. CASE crashed' = "nullConfig"
      <3>1. Service!Crash
        BY <1>28, <2>1, <2>3 DEF RtpTimeout, Service!Crash
      <3> QED
        BY <1>a, <3>1 DEF Service!Next, Service!Session
    <2> QED
      BY <1>28, <2>2, <2>3 DEF RtpTimeout
  <1>29. CASE CallbackEnter
    BY <1>29, SameCall DEF CallbackEnter, Held, Owed
  <1>30. CASE CallbackReturn
    BY <1>30, <1>b, SameCall DEF CallbackReturn, StreamHasThread, Held, Owed
  <1> QED
    BY <1>1, <1>2, <1>3, <1>4, <1>5, <1>6, <1>7, <1>8, <1>9, <1>10, <1>11, <1>12, <1>13,
       <1>14, <1>15, <1>16, <1>17, <1>18, <1>19, <1>20, <1>21, <1>22, <1>23, <1>24, <1>25,
       <1>26, <1>27, <1>28, <1>29, <1>30, <1>31
       DEF Step, GuiThread, RtspThread, RtpThread, CallbackThread

(* Whatever the three threads, the network and the device do, the frame    *)
(* gets from start() and stop() what AudioService promises.                *)
THEOREM SessionImplementsService == Spec => ImplementsService
  <1> QED
    BY InitService, NextService, Invariance, PTL DEF Spec, Service!Spec, ImplementsService

-----------------------------------------------------------------------------
(* The session implements the dialogue: on its connection it goes the way  *)
(* of RtspDialogue, seen through At and HasRtp, whatever the other threads *)
(* do.                                                                     *)

Alone == UNCHANGED <<At, HasRtp>>

(* A session whose thread is over has been torn down or given up.          *)
LEMMA AtAnEnd ==
    Alive /\ rtspPc \in {"ended", "joined"} =>
        At = IF "TEARDOWN" \in sent THEN "tornDown" ELSE "gaveUp"
  BY DEF At, Place, Alive, TimedOut, Methods, Ended

(* The next request, at each place of the RTSP thread before the loop.     *)
LEMMA AtAMethod ==
    Alive /\ rtspPc \in {"none", "connect"} \cup Methods => At = rtspPc
  BY DEF At, Place, Alive, TimedOut, Methods, Ended

(* The same of the next state.                                             *)
LEMMA NextAtAMethod ==
    Alive' /\ rtspPc' \in {"none", "connect"} \cup Methods => At' = rtspPc'
  BY DEF At, Place, Alive, TimedOut, Methods, Ended

(* The loop begins with the answer that ends the handshake and lasts until *)
(* the RTP thread is stopped, or found not to have started.                *)
LEMMA AtTheLoop ==
    Alive /\ rtspPc \in {"waitRtp", "joinFailedRtp", "loop", "lock", "waiting", "woken",
                         "keepalive", "stopRtp"} => At = "loop"
  BY DEF At, Place, Alive, TimedOut, Ended, Methods

(* The same of the next state.                                             *)
LEMMA NextAtTheLoop ==
    Alive' /\ rtspPc' \in {"waitRtp", "joinFailedRtp", "loop", "lock", "waiting", "woken",
                          "keepalive", "stopRtp"} => At' = "loop"
  BY DEF At, Place, Alive, TimedOut, Ended, Methods

(* The initial states map to the dialogue's.                               *)
LEMMA InitDialogue == Init => Dialogue!Init
  BY DEF Init, Dialogue!Init, At, Place, HasRtp, TimedOut, Methods, Ended

(* A start begins a dialogue where none is going on.                       *)
LEMMA StartDialogue == IInv /\ Alive /\ Start => Dialogue!Begin
  <1> SUFFICES ASSUME IInv, Alive, Start PROVE Dialogue!Begin
    OBVIOUS
  <1>1. At \in {"none", "gaveUp", "tornDown"}
    BY AtAnEnd, AtAMethod DEF Start, IInv, GuiKnows, Quiet
  <1>2. At' = "connect" /\ HasRtp' = FALSE
    BY NextAtAMethod DEF Start, Alive, HasRtp
  <1> QED
    BY <1>1, <1>2 DEF Dialogue!Begin

(* A connection is made, or the session given up.                          *)
LEMMA ConnectDialogue == IInv /\ Alive /\ Connect => Dialogue!Connects \/ Dialogue!ConnectFails
  <1> SUFFICES ASSUME IInv, Alive, Connect PROVE Dialogue!Connects \/ Dialogue!ConnectFails
    OBVIOUS
  <1>1. At = "connect" /\ HasRtp' = HasRtp
    BY AtAMethod DEF Connect, GiveUp, HasRtp, rtpVars
  <1>2. Alive' /\ "TEARDOWN" \notin sent'
    BY DEF Connect, Alive, IInv, TeardownEndsSuccess
  <1>3. CASE rtspPc' = "OPTIONS"
    BY <1>1, <1>2, <1>3, NextAtAMethod DEF Methods, Dialogue!Connects
  <1>4. CASE rtspPc' = "ended"
    <2>1. At' = "gaveUp"
      BY <1>2, <1>4 DEF At, Place, Alive, TimedOut, Methods, Ended
    <2> QED
      BY <1>1, <2>1 DEF Dialogue!ConnectFails
  <1> QED
    BY <1>3, <1>4 DEF Connect, GiveUp

(* A request is accepted, refused or not answered in time.                 *)
LEMMA RequestDialogue ==
    ASSUME IInv, Alive, NEW m \in Methods, Request(m)
    PROVE  Dialogue!Accepted \/ Dialogue!Refused \/ Dialogue!TimesOut
  <1>1. At = m /\ m \in Dialogue!SetUp
    BY AtAMethod DEF Request, Methods, Dialogue!SetUp
  <1>2. Alive' /\ rtpPc = "none" /\ rtpPc' = "none" /\ ~HasRtp
    BY DEF Request, Alive, IInv, RtpInsideRtsp, rtpVars, HasRtp, Methods
  <1>3. CASE rtspPc' \in Methods
    <2>1. At' = rtspPc' /\ HasRtp' = HasRtp
      BY <1>2, <1>3, NextAtAMethod DEF HasRtp, Methods
    <2>2. m # "PLAY" /\ rtspPc' = Dialogue!Following[m]
      BY <1>3 DEF Request, After, Methods, Dialogue!Following
    <2> QED
      BY <1>1, <2>1, <2>2 DEF Dialogue!Accepted
  <1>4. CASE rtspPc' = "evaluate" /\ lastStatus' = "200"
    <2>1. m = "PLAY" /\ ~TimedOut'
      BY <1>4 DEF Request, After, Methods, TimedOut
    <2>2. At' = "loop" /\ HasRtp' = TRUE
      BY <1>2, <1>4, <2>1 DEF At, Place, Alive, HasRtp, Ended, Methods
    <2> QED
      BY <1>1, <2>1, <2>2 DEF Dialogue!Accepted
  <1>5. CASE rtspPc' = "evaluate" /\ lastStatus' # "200"
    <2>1. HasRtp' = HasRtp
      BY <1>2, <1>5 DEF HasRtp
    <2>2. At' = IF TimedOut' THEN "gaveUp" ELSE "loop"
      BY <1>2, <1>5 DEF At, Place, Alive, Ended, Methods
    <2> QED
      BY <1>1, <2>1, <2>2 DEF Dialogue!Refused, Dialogue!TimesOut
  <1> QED
    BY <1>3, <1>4, <1>5 DEF Request, After, Methods

(* An answer that throws ends the dialogue and the process.                *)
LEMMA UncaughtDialogue == Alive /\ Uncaught => Dialogue!Uncaught
  <1> SUFFICES ASSUME Alive, Uncaught PROVE Dialogue!Uncaught
    OBVIOUS
  <1>1. At \in Dialogue!SetUp \cup {"loop"}
    BY AtAMethod, AtTheLoop DEF Uncaught, Methods, Dialogue!SetUp
  <1>2. At' = "uncaught" /\ HasRtp' = HasRtp
    BY DEF Uncaught, At, Place, HasRtp, TimedOut, Methods, rtpVars, Ended
  <1> QED
    BY <1>1, <1>2 DEF Dialogue!Uncaught

(* What execute makes of the last answer has been said with that answer.   *)
LEMMA EvaluateDialogue == IInv /\ Alive /\ Evaluate => Alone
  <1> SUFFICES ASSUME IInv, Alive, Evaluate PROVE Alone
    OBVIOUS
  <1>0. Alive' /\ "TEARDOWN" \notin sent' /\ rtpPc = "none"
    BY DEF Evaluate, Alive, IInv, TeardownEndsSuccess, PromiseTellsProgress, RtpInsideRtsp
  <1>1. CASE pollRet = "STIMEOUT"
    <2>1. At = "gaveUp" /\ ~HasRtp
      BY <1>0, <1>1 DEF Evaluate, Alive, At, Place, TimedOut, HasRtp, Ended, Methods
    <2>2. At' = "gaveUp" /\ ~HasRtp'
      BY <1>0, <1>1 DEF Evaluate, GiveUp, Alive, At, Place, TimedOut, HasRtp, Ended, Methods
    <2> QED
      BY <2>1, <2>2 DEF Alone, HasRtp
  <1>2. CASE pollRet # "STIMEOUT"
    <2>1. At = "loop" /\ (HasRtp <=> lastStatus = "200")
      BY <1>0, <1>2 DEF Evaluate, Alive, At, Place, TimedOut, HasRtp, Ended, Methods
    <2>2. At' = "loop"
      BY <1>0, <1>2, NextAtTheLoop DEF Evaluate
    <2>3. HasRtp' <=> lastStatus = "200"
      BY <1>0, <1>2 DEF Evaluate, HasRtp
    <2> QED
      BY <2>1, <2>2, <2>3 DEF Alone, HasRtp
  <1> QED
    BY <1>1, <1>2

(* The RTP thread could not bind: the session is given up.                 *)
LEMMA JoinFailedDialogue == IInv /\ Alive /\ JoinFailedRtp => Dialogue!BindFails
  <1> SUFFICES ASSUME IInv, Alive, JoinFailedRtp PROVE Dialogue!BindFails
    OBVIOUS
  <1>1. At = "loop" /\ HasRtp
    BY AtTheLoop DEF JoinFailedRtp, IInv, RtspWaitsForRtp, HasRtp
  <1>2. At' = "gaveUp"
    BY DEF JoinFailedRtp, GiveUp, IInv, TeardownEndsSuccess, Alive, At, Place, TimedOut,
           Methods, Ended
  <1>3. HasRtp'
    BY DEF JoinFailedRtp, HasRtp
  <1> QED
    BY <1>1, <1>2, <1>3 DEF Dialogue!BindFails, HasRtp

(* The loop is over: there is an RTP thread to stop, or a null pointer.    *)
LEMMA StopRtpDialogue == Alive /\ StopRtp => Dialogue!LeavesLoop
  <1> SUFFICES ASSUME Alive, StopRtp PROVE Dialogue!LeavesLoop
    OBVIOUS
  <1>1. At = "loop" /\ (HasRtp <=> rtpPc # "none")
    BY AtTheLoop DEF StopRtp, HasRtp
  <1>2. HasRtp' <=> rtpPc # "none"
    BY DEF StopRtp, HasRtp
  <1>3. CASE rtpPc = "none"
    <2>1. At' = "null"
      BY <1>3 DEF StopRtp, At, Place, Methods, Ended
    <2> QED
      BY <1>1, <1>2, <1>3, <2>1 DEF Dialogue!LeavesLoop, HasRtp
  <1>4. CASE rtpPc # "none"
    <2>1. At' = "teardown"
      BY <1>4 DEF StopRtp, Alive, At, Place, TimedOut, Ended, Methods
    <2> QED
      BY <1>1, <1>2, <1>4, <2>1 DEF Dialogue!LeavesLoop, HasRtp
  <1> QED
    BY <1>3, <1>4

(* TEARDOWN ends the dialogue.                                             *)
LEMMA TeardownDialogue == Alive /\ Teardown => Dialogue!TearsDown
  <1> SUFFICES ASSUME Alive, Teardown PROVE Dialogue!TearsDown
    OBVIOUS
  <1>1. At = "teardown"
    BY DEF Teardown, Alive, At, Place, TimedOut, Ended, Methods
  <1>2. At' = "tornDown" /\ HasRtp' = HasRtp
    BY DEF Teardown, Alive, At, Place, TimedOut, HasRtp, rtpVars, Methods, Ended
  <1> QED
    BY <1>1, <1>2 DEF Dialogue!TearsDown

(* Going round the loop sends keepalives alone, which the dialogue ignores.*)
LEMMA LoopDialogue ==
    ASSUME IInv, Alive,
           WaitRtp \/ KeepaliveLoop \/ EnterWait \/ WaitEnds \/ Woken \/ Keepalive
    PROVE  Alone
  <1>1. At = "loop"
    BY AtTheLoop DEF WaitRtp, KeepaliveLoop, EnterWait, WaitEnds, Woken, Keepalive
  <1>2. At' = "loop"
    BY NextAtTheLoop DEF Alive, WaitRtp, KeepaliveLoop, EnterWait, WaitEnds, Woken, Keepalive
  <1>3. HasRtp' = HasRtp
    BY DEF WaitRtp, KeepaliveLoop, EnterWait, WaitEnds, Woken, Keepalive, HasRtp, rtpVars
  <1> QED
    BY <1>1, <1>2, <1>3 DEF Alone

(* A join changes nothing that the scanner can tell.                       *)
LEMMA JoinsDialogue == IInv /\ Alive /\ (FailStop \/ Join \/ JoinRtp) => Alone
  <1>1. ASSUME IInv, Alive, JoinRtp PROVE Alone
    <2>1. At = "teardown" /\ At' = "teardown"
      BY <1>1 DEF JoinRtp, Alive, At, Place, TimedOut, Ended, Methods
    <2>2. HasRtp /\ HasRtp'
      BY <1>1 DEF JoinRtp, HasRtp, IInv, RtspWaitsForRtp
    <2> QED
      BY <2>1, <2>2 DEF Alone, HasRtp
  <1>2. ASSUME IInv, Alive, FailStop \/ Join PROVE Alone
    <2>1. HasRtp' = HasRtp
      BY <1>2 DEF FailStop, Join, Ended, HasRtp, rtpVars
    <2>2. CASE rtspPc = "none" /\ Join
      BY <1>2, <2>1, <2>2 DEF Join, Alive, At, Place, TimedOut, Methods, Ended, Alone
    <2>3. CASE rtspPc \in {"ended", "joined"}
      <3>1. sent' = sent /\ Alive' /\ rtspPc' \in {"ended", "joined"}
        BY <1>2, <2>3 DEF FailStop, Join, Alive, Ended
      <3>2. At' = IF "TEARDOWN" \in sent THEN "tornDown" ELSE "gaveUp"
        BY <3>1 DEF At, Place, Alive, TimedOut, Methods, Ended
      <3> QED
        BY <1>2, <2>1, <2>3, <3>2, AtAnEnd DEF Alone
    <2>4. FailStop => rtspPc # "none"
      BY <1>2 DEF FailStop, IInv, GuiKnows
    <2> QED
      BY <1>2, <2>2, <2>3, <2>4 DEF FailStop, Join, Ended
  <1> QED
    BY <1>1, <1>2

(* The other threads say nothing to the scanner.                           *)
LEMMA OthersDialogue ==
    ASSUME Alive,
           \/ StartNoDevice \/ Stop \/ GetPromise \/ OpenStream \/ StartReturned \/ StopSession
           \/ CloseStream \/ RtpThread \/ CallbackThread
    PROVE  Alone
  <1>1. /\ UNCHANGED <<rtspPc, sent, lastStatus, pollRet>>
        /\ crashed' # crashed => crashed = "no" /\ crashed' \in {"nullConfig", "recvError"}
        /\ rtpPc = "none" <=> rtpPc' = "none"
    BY DEF StartNoDevice, Stop, GetPromise, OpenStream, StartReturned, StopSession, CloseStream,
           RtpThread, RtpBind, RtpLoop, RtpDatagram, RtpTimeout, CallbackThread, CallbackEnter,
           CallbackReturn, guiVars, rtspVars, rtpVars, streamVars, Alive
  <1> QED
    BY <1>1 DEF At, Place, HasRtp, TimedOut, Alone, Methods, Ended

(* A notification wakes a thread that is in its loop.                      *)
LEMMA NotifyDialogue == Alive /\ Notify => Alone
  <1> SUFFICES ASSUME Alive, Notify PROVE Alone
    OBVIOUS
  <1>1. CASE rtspPc = "waiting"
    BY <1>1, AtTheLoop, NextAtTheLoop DEF Notify, Alive, HasRtp, Alone, rtpVars
  <1>2. CASE rtspPc # "waiting"
    BY <1>2 DEF Notify, At, Place, HasRtp, TimedOut, Alone, rtpVars, Methods, Ended
  <1> QED
    BY <1>1, <1>2

(* Every step maps to a step of the dialogue or to a stutter.              *)
LEMMA NextDialogue == IInv /\ [Next]_vars => [Dialogue!Next]_(Dialogue!vars)
  <1> SUFFICES ASSUME IInv, [Next]_vars PROVE Dialogue!Next \/ Alone
    BY DEF Dialogue!vars, Alone
  <1>1. CASE UNCHANGED vars
    BY <1>1 DEF vars, rtspVars, rtpVars, At, Place, HasRtp, TimedOut, Alone, Methods, Ended
  <1>2. CASE Alive /\ Step
    <2>1. CASE StartNoDevice \/ Start \/ Stop \/ GuiThread
      BY <1>2, <2>1, StartDialogue, OthersDialogue, JoinsDialogue, NotifyDialogue
         DEF GuiThread, Dialogue!Next
    <2>2. CASE RtspThread
      BY <1>2, <2>2, ConnectDialogue, RequestDialogue, UncaughtDialogue, EvaluateDialogue,
         JoinFailedDialogue, StopRtpDialogue, TeardownDialogue, LoopDialogue, JoinsDialogue
         DEF RtspThread, Dialogue!Next
    <2>3. CASE RtpThread \/ CallbackThread
      BY <1>2, <2>3, OthersDialogue
    <2> QED
      BY <1>2, <2>1, <2>2, <2>3 DEF Step
  <1> QED
    BY <1>1, <1>2 DEF Next

(* Whenever it is stopped and whatever its RTP thread does, the session    *)
(* says to the scanner what RtspDialogue allows.                           *)
THEOREM SessionImplementsDialogue == Spec => ImplementsDialogue
  <1> QED
    BY InitDialogue, NextDialogue, Invariance, PTL DEF Spec, Dialogue!Spec, ImplementsDialogue
=============================================================================
