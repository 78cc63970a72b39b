----------------------------- MODULE RtspExchange ----------------------------
(***************************************************************************)
(* The conversation of RTSPSession with the scanner over one TCP           *)
(* connection: TCPSocket::connect, send and recv, the requests of          *)
(* RTSPRequest, and what RTSPResponse and SessionDescription understand of *)
(* the answers.                                                            *)
(*                                                                         *)
(* TCP carries a stream.  An answer is sent as a sequence of lines, and    *)
(* recv returns whatever lines have arrived: a part of an answer, or the   *)
(* rest of one with the beginning of the next.  A line is abstracted to    *)
(* its name and the CSeq of the request it answers; what the client takes  *)
(* from a line is remembered as that number.  AudioSession has the threads *)
(* around this one; here a stop is a choice of the thread.                 *)
(***************************************************************************)
EXTENDS Integers, Sequences, FiniteSets

CONSTANT MaxKeepalives   \* bound: requests after the four of the set-up
ASSUME MaxKeepalivesAssumption == MaxKeepalives \in Nat

Methods == {"OPTIONS", "DESCRIBE", "SETUP", "PLAY", "KEEPALIVE", "TEARDOWN"}

(* Mutated NextMethod: SETUP before the channel is known.                  *)
SetupFirst == [OPTIONS |-> "SETUP", SETUP |-> "DESCRIBE", DESCRIBE |-> "PLAY"]

(* The order of the set-up, and the CSeq that each of its requests has.    *)
NextMethod == [OPTIONS |-> "DESCRIBE", DESCRIBE |-> "SETUP", SETUP |-> "PLAY"]
SeqOf      == [OPTIONS |-> 2, DESCRIBE |-> 3, SETUP |-> 4, PLAY |-> 5]

FirstSeq == 2
LastSeq  == FirstSeq + 4 + MaxKeepalives

None     == 0     \* an empty string; a port that was never set
Garbage  == -1    \* an int that was never initialised

VARIABLES
    nonblocking,  \* O_NONBLOCK of the socket
    pollret,      \* Socket::m_pollret
    pc,           \* where RTSPSession::execute is
    method,       \* the request it is at
    seq,          \* RTSPSession::m_seq
    status,       \* the status of the last answer
    channel,      \* m_audio_channel, m_current_sessionID, m_actual_rtp_port:
    session,      \*   the CSeq of the answer they were read from
    port,
    rtp,          \* an RTPSession was made
    requests,     \* requests on the way to the scanner
    coming,       \* lines of answers on the way to the client
    arrived,      \* lines in the client's receive buffer
    closed,       \* the scanner has closed the connection
    split         \* an answer was read before all of it had arrived

socketVars  == <<nonblocking, pollret>>
learnt      == <<channel, session, port>>
streamVars  == <<coming, arrived, closed>>
vars == <<socketVars, pc, method, seq, status, learnt, rtp, requests, streamVars, split>>

-----------------------------------------------------------------------------
(* The scanner's answers, as far as the client looks at their lines: one   *)
(* for each request, in order.                                             *)
Lines(n, names) == [i \in 1..Len(names) |-> [name |-> names[i], of |-> n]]

Answers(m, n) ==
    {Lines(n, <<"404", "CSeq">>),
     Lines(n, CASE m = "DESCRIBE" ->
                     <<"200", "CSeq", "Content-Type", "attribute", "media", "control">>
                [] m = "SETUP" -> <<"200", "CSeq", "Session", "Transport">>
                [] m = "PLAY"  -> <<"200", "CSeq", "Session">>
                [] OTHER       -> <<"200", "CSeq">>)}

StatusLines == {"200", "404"}

-----------------------------------------------------------------------------
(* RTSPResponse::parse.                                                    *)

(* Mutated Status: the status line wherever it is in the text.             *)
StatusAnywhere(text) ==
    CASE \E i \in 1..Len(text) : text[i].name = "200" -> 200
      [] \E i \in 1..Len(text) : text[i].name = "404" -> 404
      [] OTHER -> -1

(* The first line must be a status line.                                   *)
Status(text) ==
    CASE text # <<>> /\ text[1].name = "200" -> 200
      [] text # <<>> /\ text[1].name = "404" -> 404
      [] OTHER -> -1

(* Mutated Headers: header lines do not end at Content-Type.               *)
HeadersToTheEnd(text) == 2..Len(text)

(* The lines after the first are header lines, up to a Content-Type, which *)
(* is always application/sdp.                                              *)
Headers(text) ==
    {i \in 2..Len(text) : \A j \in 2..(i - 1) : text[j].name # "Content-Type"}

(* m_hdr_fld_map.at() throws for a line with a colon whose name is not in  *)
(* the map; of our lines these are the attributes of a session description.*)
Throws(text) == \E i \in Headers(text) : text[i].name \in {"attribute", "control"}

(* The last header line of a name, or an empty string.                     *)
HeaderField(text, name) ==
    LET found == {i \in Headers(text) : text[i].name = name}
    IN  IF found = {} THEN None
        ELSE text[CHOOSE i \in found : \A j \in found : j <= i].of

(* The channel is the control attribute of the audio description.          *)
AudioChannel(text) ==
    LET found == {i \in 2..Len(text) \ Headers(text) :
                     text[i].name = "control" /\ text[i - 1].name = "media"}
    IN  IF found = {} THEN None ELSE text[CHOOSE i \in found : TRUE].of

(* Without a Transport line m_RTP_port is left uninitialised.              *)
RTPPort(text) ==
    IF HeaderField(text, "Transport") = None THEN Garbage ELSE HeaderField(text, "Transport")

-----------------------------------------------------------------------------
Init ==
    /\ nonblocking = FALSE /\ pollret = "SREADY"
    /\ pc = "start" /\ method = "OPTIONS" /\ seq = 0 /\ status = 0
    /\ channel = None /\ session = None /\ port = None /\ rtp = FALSE
    /\ requests = <<>> /\ coming = <<>> /\ arrived = <<>>
    /\ closed = FALSE /\ split = FALSE

(* Socket::setBlocking as the POSIX build has it: the new O_NONBLOCK.      *)
SetBlocking(blocking) == IF blocking THEN nonblocking ELSE FALSE

Connect ==
    /\ pc = "start"
    /\ nonblocking' = SetBlocking(FALSE) /\ pc' = "connecting"
    /\ UNCHANGED <<pollret, method, seq, status, learnt, rtp, requests, streamVars, split>>

(* Mutated Connected: the count starts one early.                          *)
ConnectedEarly ==
    /\ pc = "connecting"
    /\ pollret' \in {"SREADY", "SERROR"}
    /\ nonblocking' = SetBlocking(TRUE)
    /\ pc' = "send" /\ seq' = FirstSeq - 1
    /\ UNCHANGED <<method, status, learnt, rtp, requests, streamVars, split>>

(* Connected, and the poll for writing says ready or (ignored) error.      *)
Connected ==
    /\ pc = "connecting"
    /\ pollret' \in {"SREADY", "SERROR"}
    /\ nonblocking' = SetBlocking(TRUE)
    /\ pc' = "send" /\ seq' = FirstSeq
    /\ UNCHANGED <<method, status, learnt, rtp, requests, streamVars, split>>

(* Refused, or the poll timed out.                                         *)
ConnectFails ==
    /\ pc = "connecting"
    /\ pollret' \in {"SREADY", "STIMEOUT"} /\ pc' = "over"
    /\ UNCHANGED <<nonblocking, method, seq, status, learnt, rtp, requests, streamVars, split>>

(* Mutated Request: TEARDOWN without a session.                            *)
RequestForgetful(m) ==
    [method |-> m, seq |-> seq,
     channel |-> IF m = "SETUP" THEN channel ELSE None,
     session |-> IF m \in {"PLAY", "KEEPALIVE"} THEN session ELSE None]

(* RTSPRequest::getString: what a request names.                           *)
Request(m) ==
    [method |-> m, seq |-> seq,
     channel |-> IF m = "SETUP" THEN channel ELSE None,
     session |-> IF m \in {"PLAY", "KEEPALIVE", "TEARDOWN"} THEN session ELSE None]

Send ==
    /\ pc = "send" /\ (method = "KEEPALIVE" => seq < LastSeq)
    /\ requests' = Append(requests, Request(method))
    /\ seq' = seq + 1
    /\ pc' = IF method = "TEARDOWN" THEN "over" ELSE "recv"
    /\ UNCHANGED <<socketVars, method, status, learnt, rtp, streamVars, split>>

(* The end of the loop: m_rtp_session_ptr->stop(), then TEARDOWN.          *)
LeaveLoop ==
    /\ IF rtp THEN pc' = "send" /\ method' = "TEARDOWN"
              ELSE pc' = "null" /\ UNCHANGED method
    /\ UNCHANGED rtp

(* Stopped between two keepalives.                                         *)
Stop ==
    /\ pc = "send" /\ method = "KEEPALIVE"
    /\ LeaveLoop
    /\ UNCHANGED <<socketVars, seq, status, learnt, requests, streamVars, split>>

(* Mutated Continue: a request that timed out is sent again.               *)
ContinueRetrying ==
    CASE pollret' = "STIMEOUT" -> pc' = "send" /\ UNCHANGED <<method, rtp>>
      [] method = "KEEPALIVE" /\ status' = 200 -> pc' = "send" /\ UNCHANGED <<method, rtp>>
      [] method = "KEEPALIVE" /\ status' # 200 -> LeaveLoop
      [] method # "KEEPALIVE" /\ status' # 200 ->
            pc' = "send" /\ method' = "KEEPALIVE" /\ UNCHANGED rtp
      [] method = "PLAY" /\ status' = 200 ->
            pc' = "send" /\ method' = "KEEPALIVE" /\ rtp' = TRUE
      [] OTHER ->
            pc' = "send" /\ method' = NextMethod[method] /\ UNCHANGED rtp

(* What execute does with an answer: the next request, the loop, or the    *)
(* end.  An answer that is not 200 leads to the loop without RTPSession.   *)
Continue ==
    CASE method = "KEEPALIVE" /\ status' = 200 -> pc' = "send" /\ UNCHANGED <<method, rtp>>
      [] method = "KEEPALIVE" /\ status' # 200 -> LeaveLoop
      [] method # "KEEPALIVE" /\ pollret' = "STIMEOUT" -> pc' = "over" /\ UNCHANGED <<method, rtp>>
      [] method # "KEEPALIVE" /\ pollret' # "STIMEOUT" /\ status' # 200 ->
            pc' = "send" /\ method' = "KEEPALIVE" /\ UNCHANGED rtp
      [] method = "PLAY" /\ status' = 200 ->
            pc' = "send" /\ method' = "KEEPALIVE" /\ rtp' = TRUE
      [] OTHER ->
            pc' = "send" /\ method' = NextMethod[method] /\ UNCHANGED rtp

(* One recv, and the parsing of what it returned.                          *)
Recv ==
    /\ pc = "recv" /\ arrived # <<>>
    /\ pollret' = "SREADY" /\ arrived' = <<>>
    /\ split' = (split \/ (coming # <<>> /\ Head(coming).of = arrived[Len(arrived)].of))
    /\ IF Throws(arrived)
       THEN pc' = "uncaught" /\ UNCHANGED <<method, status, learnt, rtp>>
       ELSE /\ status' = Status(arrived)
            /\ channel' = IF method = "DESCRIBE" THEN AudioChannel(arrived) ELSE channel
            /\ session' = IF method = "SETUP" THEN HeaderField(arrived, "Session") ELSE session
            /\ port' = IF method = "SETUP" THEN RTPPort(arrived) ELSE port
            /\ Continue
    /\ UNCHANGED <<nonblocking, seq, requests, coming, closed>>

(* recv without a byte: after a timeout, or from a closed connection.  The *)
(* empty answer leaves what it should have told empty.                     *)
RecvNothing ==
    /\ pc = "recv" /\ arrived = <<>>
    /\ pollret' \in {"STIMEOUT"} \cup (IF closed /\ coming = <<>> THEN {"SREADY"} ELSE {})
    /\ status' = -1
    /\ channel' = IF method = "DESCRIBE" THEN None ELSE channel
    /\ session' = IF method = "SETUP" THEN None ELSE session
    /\ port' = IF method = "SETUP" THEN Garbage ELSE port
    /\ Continue
    /\ UNCHANGED <<nonblocking, seq, requests, streamVars, split>>

(* The scanner takes a request and answers it.                             *)
Answer ==
    /\ requests # <<>> /\ ~closed
    /\ requests' = Tail(requests)
    /\ \E answer \in Answers(Head(requests).method, Head(requests).seq) : coming' = coming \o answer
    /\ UNCHANGED <<socketVars, pc, method, seq, status, learnt, rtp, arrived, closed, split>>

(* Lines arrive, in order, in pieces that the network chooses.             *)
Arrive ==
    /\ \E n \in 1..Len(coming) :
          /\ arrived' = arrived \o SubSeq(coming, 1, n)
          /\ coming' = SubSeq(coming, n + 1, Len(coming))
    /\ UNCHANGED <<socketVars, pc, method, seq, status, learnt, rtp, requests, closed, split>>

Close ==
    /\ pc \notin {"start", "connecting"} /\ ~closed
    /\ closed' = TRUE
    /\ UNCHANGED <<socketVars, pc, method, seq, status, learnt, rtp, requests, coming, arrived, split>>

Terminated == pc \in {"over", "null", "uncaught"} /\ UNCHANGED vars

Next ==
    \/ Connect \/ Connected \/ ConnectFails \/ Send \/ Stop \/ Recv \/ RecvNothing
    \/ Answer \/ Arrive \/ Close \/ Terminated

Spec == Init /\ [][Next]_vars

-----------------------------------------------------------------------------
LineNames == StatusLines \cup
    {"CSeq", "Content-Type", "Session", "Transport", "attribute", "media", "control"}
Numbers   == FirstSeq..(LastSeq + 1)
Text      == Seq([name : LineNames, of : Numbers])

TypeOK ==
    /\ nonblocking \in BOOLEAN /\ pollret \in {"SREADY", "STIMEOUT", "SERROR"}
    /\ pc \in {"start", "connecting", "send", "recv", "over", "null", "uncaught"}
    /\ method \in Methods /\ seq \in {0} \cup Numbers /\ status \in {-1, 0, 200, 404}
    /\ channel \in {None} \cup Numbers /\ session \in {None} \cup Numbers
    /\ port \in {None, Garbage} \cup Numbers
    /\ rtp \in BOOLEAN /\ closed \in BOOLEAN /\ split \in BOOLEAN
    /\ coming \in Text /\ arrived \in Text
    /\ requests \in Seq([method : Methods, seq : Numbers,
                         channel : {None} \cup Numbers, session : {None} \cup Numbers])

(* An RTPSession is made for the channel, the session and the port that    *)
(* the scanner answered with, however its answers were cut: a recv that    *)
(* gets only part of DESCRIBE's or SETUP's answer learns nothing wrong     *)
(* that the next recv, which gets the rest, would not refuse (execute,     *)
(* lines 54 to 70).                                                        *)
RtpLearntAll ==
    rtp => /\ channel = SeqOf.DESCRIBE
           /\ session = SeqOf.SETUP /\ port = SeqOf.SETUP

(* CSeq is never compared (getCSeq has no caller), and yet an answer of    *)
(* 200 that counts is the answer to the request just sent: an answer that  *)
(* is late or cut is never taken for that of a later request, while the    *)
(* session is set up and while its audio plays.                            *)
AcceptedIsOwn ==
    [][pc = "recv" /\ arrived # <<>> /\ pc' = "send" /\ status' = 200
            /\ (method = "KEEPALIVE" => rtp)
       => arrived[1].of = seq - 1]_vars

(* The keepalives of a session that plays, and every TEARDOWN, name the    *)
(* scanner's session.                                                      *)
RequestsNameSession ==
    \A i \in 1..Len(requests) :
        requests[i].method = "TEARDOWN" \/ (requests[i].method = "KEEPALIVE" /\ rtp)
            => requests[i].session = SeqOf.SETUP

(* A scanner whose answers arrive whole is understood: no exception ends   *)
(* the program, and the status -1 stands for a timeout or a closed         *)
(* connection only.                                                        *)
WholeAnswersUnderstood ==
    ~split => /\ pc # "uncaught"
              /\ (status = -1 => pollret = "STIMEOUT" \/ closed)

(* The conversation without the network: where the thread is, and how it   *)
(* ended.                                                                  *)
At == CASE pc = "start" -> "none"
        [] pc = "connecting" -> "connect"
        [] pc = "over" -> IF method = "TEARDOWN" THEN "tornDown" ELSE "gaveUp"
        [] pc \in {"null", "uncaught"} -> pc
        [] pc \in {"send", "recv"} ->
              CASE method = "KEEPALIVE" -> "loop"
                [] method = "TEARDOWN" -> "teardown"
                [] OTHER -> method

Dialogue == INSTANCE RtspDialogue WITH at <- At

(* However its answers arrive, the scanner gets the requests in the order  *)
(* that RtspDialogue has them, and the session ends in one of its ways; so *)
(* does the thread of AudioSession.                                        *)
ImplementsDialogue == Dialogue!Spec

(* TCPSocket.cpp:32 says "make socket non-blocking" and line 40 "attempt   *)
(* to async connect": the socket does not block in connect().              *)
ConnectIsAsync == pc = "connecting" => nonblocking
=============================================================================
