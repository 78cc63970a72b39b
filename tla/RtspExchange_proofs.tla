-------------------------- MODULE RtspExchange_proofs ------------------------
(***************************************************************************)
(* What RTSPSession learns from the scanner, for any number of requests    *)
(* and however TCP cuts the answers.  The argument: a recv that gets a     *)
(* part of an answer leaves the rest at the head of the stream, and a text *)
(* that does not begin with a status line is refused by the next recv, so  *)
(* that the set-up stops before anything made of a part is used.           *)
(***************************************************************************)
EXTENDS RtspExchange, SequenceTheorems, WellFoundedInduction, TLAPS

Line     == [name : LineNames, of : Nat]
Requests == [method : Methods, seq : Nat, channel : Int, session : Int]

(* What the client has still to read of what has been sent.                *)
Stream == arrived \o coming

(* The rest of an answer that was read in part is in the way.              *)
Debt == Stream # <<>> /\ Stream[1].name \notin StatusLines

SettingUp == pc \in {"send", "recv"} /\ method \in DOMAIN SeqOf
Talking   == pc \in {"send", "recv"} /\ (method \in DOMAIN SeqOf \/ (rtp /\ method = "KEEPALIVE"))

Types ==
    /\ arrived \in Seq(Line) /\ coming \in Seq(Line) /\ requests \in Seq(Requests)
    /\ pc \in {"start", "connecting", "send", "recv", "over", "null", "uncaught"}
    /\ method \in Methods /\ seq \in Nat /\ rtp \in BOOLEAN
    /\ channel \in Int /\ session \in Int /\ port \in Int

(* Client and scanner take turns while the session is set up and while it  *)
(* plays: either a part of an answer is in the way, or the request just    *)
(* sent is on its way and nothing else is, or its answer.                  *)
InTurn ==
    /\ pc \in {"start", "connecting"} =>
          method = "OPTIONS" /\ ~rtp /\ requests = <<>> /\ arrived = <<>> /\ coming = <<>>
    /\ pc = "recv" => method # "TEARDOWN"
    /\ pc = "send" /\ method = "TEARDOWN" => rtp
    /\ SettingUp => ~rtp /\ seq = SeqOf[method] + (IF pc = "recv" THEN 1 ELSE 0)
    /\ Talking /\ pc = "send" => Debt \/ (Stream = <<>> /\ requests = <<>>)
    /\ Talking /\ pc = "recv" =>
          \/ Debt
          \/ requests = <<>> /\ Stream \in Answers(method, seq - 1)
          \/ /\ Stream = <<>> /\ requests # <<>> /\ Tail(requests) = <<>>
             /\ Head(requests).method = method /\ Head(requests).seq = seq - 1
    /\ pc = "recv" => seq > 0

(* What has been learnt at each request, unless an answer is in the way.   *)
Learnt ==
    /\ SettingUp /\ method \in {"SETUP", "PLAY"} => Debt \/ channel = SeqOf.DESCRIBE
    /\ SettingUp /\ method = "PLAY" => Debt \/ (session = SeqOf.SETUP /\ port = SeqOf.SETUP)
    /\ rtp => method \in {"KEEPALIVE", "TEARDOWN"}
    /\ RtpLearntAll

IInv == Types /\ InTurn /\ Learnt /\ RequestsNameSession

-----------------------------------------------------------------------------
(* The shape of an answer: its first line, and only its first line, is a   *)
(* status line.                                                            *)
LEMMA AnswerShape ==
    ASSUME NEW m \in Methods, NEW n \in Nat, NEW a \in Answers(m, n)
    PROVE  /\ a \in Seq(Line) /\ a # <<>>
           /\ a[1].name \in StatusLines
           /\ \A i \in 2..Len(a) : a[i].name \notin StatusLines
           /\ \A i \in 1..Len(a) : a[i].of = n
           /\ a[1].of = n
  <1> DEFINE names == {<<"404", "CSeq">>, <<"200", "CSeq">>,
                       <<"200", "CSeq", "Content-Type", "attribute", "media", "control">>,
                       <<"200", "CSeq", "Session", "Transport">>, <<"200", "CSeq", "Session">>}
  <1>1. PICK s \in names : a = Lines(n, s)
    BY DEF Answers
  <1>2. /\ s \in Seq(LineNames) /\ Len(s) >= 1 /\ s[1] \in StatusLines
        /\ \A i \in 2..Len(s) : s[i] \notin StatusLines
    <2> USE DEF LineNames, StatusLines
    <2>1. CASE s = <<"404", "CSeq">>
      BY <2>1
    <2>2. CASE s = <<"200", "CSeq">>
      BY <2>2
    <2>3. CASE s = <<"200", "CSeq", "Content-Type", "attribute", "media", "control">>
      <3>1. s \in Seq(LineNames) /\ Len(s) = 6 /\ s[1] \in StatusLines
        BY <2>3
      <3>2. \A i \in 2..6 : s[i] \notin StatusLines
        BY <2>3
      <3> QED
        BY <3>1, <3>2
    <2>4. CASE s = <<"200", "CSeq", "Session", "Transport">>
      BY <2>4
    <2>5. CASE s = <<"200", "CSeq", "Session">>
      BY <2>5
    <2> QED
      BY <2>1, <2>2, <2>3, <2>4, <2>5
  <1>3. /\ Len(s) \in Nat
        /\ \A i \in 1..Len(s) : s[i] \in LineNames
    BY <1>2
  <1>4. \A i \in 1..Len(s) : [name |-> s[i], of |-> n] \in Line
    BY <1>3 DEF Line
  <1>5. a \in Seq(Line) /\ Len(a) = Len(s)
    BY <1>1, <1>3, <1>4, IsASeq DEF Lines
  <1>6. \A i \in 1..Len(a) : a[i].name = s[i] /\ a[i].of = n
    BY <1>1, <1>5 DEF Lines
  <1> QED
    BY <1>2, <1>3, <1>5, <1>6

(* A whole answer of 200 to DESCRIBE gives the channel.                    *)
LEMMA DescribeLearns ==
    ASSUME NEW n \in Nat, NEW a \in Answers("DESCRIBE", n), a[1].name = "200"
    PROVE  AudioChannel(a) = n
  <1> DEFINE s == <<"200", "CSeq", "Content-Type", "attribute", "media", "control">>
  <1>1. a = Lines(n, s)
    BY DEF Answers, Lines
  <1>2. /\ Len(a) = 6
        /\ \A i \in 1..6 : a[i].name = s[i] /\ a[i].of = n
    BY <1>1 DEF Lines
  <1>3. /\ a[2].name = "CSeq" /\ a[3].name = "Content-Type" /\ a[4].name = "attribute"
        /\ a[5].name = "media" /\ a[6].name = "control" /\ a[6].of = n
    BY <1>2
  <1>4. Headers(a) = {2, 3}
    BY <1>2, <1>3 DEF Headers
  <1>5. {i \in 2..Len(a) \ Headers(a) : a[i].name = "control" /\ a[i - 1].name = "media"} = {6}
    BY <1>2, <1>3, <1>4
  <1> QED
    BY <1>3, <1>5 DEF AudioChannel

(* A whole answer of 200 to SETUP gives the session and the port.          *)
LEMMA SetupLearns ==
    ASSUME NEW n \in Nat \ {0}, NEW a \in Answers("SETUP", n), a[1].name = "200"
    PROVE  HeaderField(a, "Session") = n /\ RTPPort(a) = n
  <1> DEFINE s == <<"200", "CSeq", "Session", "Transport">>
  <1>1. a = Lines(n, s)
    BY DEF Answers, Lines
  <1>2. /\ Len(a) = 4
        /\ \A i \in 1..4 : a[i].name = s[i] /\ a[i].of = n
    BY <1>1 DEF Lines
  <1>3. /\ a[2].name = "CSeq" /\ a[3].name = "Session" /\ a[4].name = "Transport"
        /\ a[3].of = n /\ a[4].of = n
    BY <1>2
  <1>4. Headers(a) = {2, 3, 4}
    BY <1>2, <1>3 DEF Headers
  <1>5. HeaderField(a, "Session") = n
    <2>1. {i \in Headers(a) : a[i].name = "Session"} = {3}
      BY <1>3, <1>4
    <2> QED
      BY <2>1, <1>3 DEF HeaderField
  <1>6. HeaderField(a, "Transport") = n
    <2>1. {i \in Headers(a) : a[i].name = "Transport"} = {4}
      BY <1>3, <1>4
    <2> QED
      BY <2>1, <1>3 DEF HeaderField
  <1> QED
    BY <1>5, <1>6 DEF RTPPort, None

-----------------------------------------------------------------------------
(* The stream as the two sequences it consists of.                         *)
LEMMA StreamFacts ==
    ASSUME Types
    PROVE  /\ Stream \in Seq(Line)
           /\ arrived = <<>> => Stream = coming
           /\ coming = <<>> => Stream = arrived
           /\ arrived # <<>> => Stream # <<>> /\ Stream[1] = arrived[1] /\ arrived[1] \in Line
           /\ Stream = <<>> => arrived = <<>> /\ coming = <<>>
           /\ coming # <<>> =>
                 /\ Len(arrived) + 1 \in 1..Len(Stream)
                 /\ coming[1] = Stream[Len(arrived) + 1]
           /\ Len(arrived) \in Nat
  <1> USE DEF Types, Stream
  <1>1. /\ Stream \in Seq(Line) /\ Len(Stream) = Len(arrived) + Len(coming)
        /\ \A i \in 1..Len(arrived) + Len(coming) :
              Stream[i] = IF i <= Len(arrived) THEN arrived[i] ELSE coming[i - Len(arrived)]
    BY ConcatProperties
  <1>2. (arrived = <<>> => Stream = coming) /\ (coming = <<>> => Stream = arrived)
    BY ConcatEmptySeq
  <1>3. Len(arrived) \in Nat /\ Len(coming) \in Nat
    BY LenProperties
  <1>4. (arrived # <<>> => Len(arrived) > 0) /\ (coming # <<>> => Len(coming) > 0)
    BY <1>3, EmptySeq
  <1>5. Stream = <<>> => arrived = <<>> /\ coming = <<>>
    BY ConcatEqualIffEmpty
  <1>6. arrived # <<>> => Stream[1] = arrived[1] /\ arrived[1] \in Line
    BY <1>1, <1>3, <1>4, ElementOfSeq
  <1>7. coming # <<>> => /\ Len(arrived) + 1 \in 1..Len(Stream)
                        /\ coming[1] = Stream[Len(arrived) + 1]
    <2> SUFFICES ASSUME coming # <<>>
                 PROVE  /\ Len(arrived) + 1 \in 1..Len(Stream)
                        /\ coming[1] = Stream[Len(arrived) + 1]
      OBVIOUS
    <2>1. Len(arrived) + 1 \in 1..Len(arrived) + Len(coming)
      BY <1>3, <1>4
    <2>2. (Len(arrived) + 1) - Len(arrived) = 1 /\ ~(Len(arrived) + 1 <= Len(arrived))
      BY <1>3
    <2> QED
      BY <1>1, <2>1, <2>2
  <1>8. arrived # <<>> => Stream # <<>>
    BY <1>5
  <1> QED
    BY <1>1, <1>2, <1>3, <1>5, <1>6, <1>7, <1>8

(* An answer of 200 that is read while the session is set up or plays is   *)
(* that to the request just sent, and if it was not read to its end, the   *)
(* rest is in the way.                                                     *)
LEMMA AcceptedFacts ==
    ASSUME IInv, Talking, pc = "recv", arrived # <<>>, Status(arrived) = 200
    PROVE  /\ requests = <<>> /\ Stream \in Answers(method, seq - 1)
           /\ arrived[1].name = "200" /\ arrived[1].of = seq - 1
           /\ coming = <<>> => arrived = Stream
           /\ coming # <<>> => coming[1].name \notin StatusLines
  <1>1. arrived[1].name = "200"
    BY DEF Status
  <1>2. ~Debt /\ Stream # <<>>
    BY <1>1, StreamFacts DEF IInv, Debt, StatusLines
  <1>3. requests = <<>> /\ Stream \in Answers(method, seq - 1)
    BY <1>2 DEF IInv, InTurn
  <1>4. seq - 1 \in Nat /\ method \in Methods
    BY DEF IInv, InTurn, Types
  <1>5. coming # <<>> => coming[1].name \notin StatusLines
    <2> SUFFICES ASSUME coming # <<>> PROVE coming[1].name \notin StatusLines
      OBVIOUS
    <2>1. Len(arrived) + 1 \in 2..Len(Stream) /\ coming[1] = Stream[Len(arrived) + 1]
      BY StreamFacts, EmptySeq DEF IInv, Types
    <2> QED
      BY <2>1, <1>3, <1>4, AnswerShape
  <1>6. Stream[1].of = seq - 1
    BY <1>3, <1>4, AnswerShape
  <1> QED
    BY <1>1, <1>3, <1>5, <1>6, StreamFacts DEF IInv

-----------------------------------------------------------------------------
(* The steps one by one.  A request is sent when the stream is empty or a  *)
(* part of an answer is in the way.                                        *)
LEMMA SendInv == IInv /\ Send => IInv'
  <1> SUFFICES ASSUME IInv, Send PROVE IInv'
    OBVIOUS
  <1> USE DEF IInv, Send, socketVars, learnt, streamVars
  <1> DEFINE r == Request(method)
  <1>1. /\ r \in Requests /\ r.method = method /\ r.seq = seq
        /\ method = "TEARDOWN" \/ method = "KEEPALIVE" => r.session = session
    BY DEF Request, Requests, Types, None
  <1>2. requests \in Seq(Requests) /\ requests' = Append(requests, r)
    BY DEF Types
  <1>3. /\ requests' \in Seq(Requests) /\ requests' # <<>>
        /\ Len(requests') = Len(requests) + 1 /\ Len(requests) \in Nat
        /\ \A i \in 1..Len(requests) : requests'[i] = requests[i]
        /\ requests'[Len(requests) + 1] = r
    BY <1>1, <1>2, AppendProperties, LenProperties
  <1>4. requests = <<>> => Head(requests') = r /\ Tail(requests') = <<>>
    BY <1>2, HeadTailAppend
  <1>5. Types'
    BY <1>3 DEF Types
  <1>6. Stream' = Stream /\ (Debt' <=> Debt)
    BY DEF Stream, Debt
  <1>7. InTurn'
    <2>1. Talking' => Talking
      BY DEF Talking
    <2>2. SettingUp' => SettingUp
      BY DEF SettingUp
    <2>3. SettingUp' => ~rtp' /\ seq' = SeqOf[method'] + 1 /\ pc' = "recv"
      BY <2>2 DEF InTurn, SettingUp, SeqOf
    <2>4. Talking' /\ ~Debt' => /\ Stream' = <<>> /\ requests' # <<>> /\ Tail(requests') = <<>>
                               /\ Head(requests').method = method' /\ Head(requests').seq = seq' - 1
      BY <2>1, <1>1, <1>3, <1>4, <1>6 DEF InTurn, Types
    <2>5. pc' # "send" /\ (pc' = "recv" => method' # "TEARDOWN" /\ seq' > 0)
      BY DEF Types
    <2> QED
      BY <2>3, <2>4, <2>5 DEF InTurn
  <1>8. Learnt'
    BY <1>6 DEF Learnt, RtpLearntAll, SettingUp
  <1>9. RequestsNameSession'
    <2> SUFFICES ASSUME NEW i \in 1..Len(requests'),
                        requests'[i].method = "TEARDOWN" \/ (requests'[i].method = "KEEPALIVE" /\ rtp)
                 PROVE  requests'[i].session = SeqOf.SETUP
      BY DEF RequestsNameSession
    <2>1. CASE i \in 1..Len(requests)
      BY <2>1, <1>3 DEF RequestsNameSession
    <2>2. CASE i = Len(requests) + 1
      <3>1. method = "TEARDOWN" \/ (method = "KEEPALIVE" /\ rtp)
        BY <2>2, <1>1, <1>3
      <3>2. rtp
        BY <3>1 DEF InTurn
      <3> QED
        BY <2>2, <3>1, <3>2, <1>1, <1>3 DEF Learnt, RtpLearntAll
    <2> QED
      BY <2>1, <2>2, <1>3
  <1> QED
    BY <1>5, <1>7, <1>8, <1>9

(* A stream is the same however it is cut in three.                        *)
LEMMA StreamAssociative ==
    \A s, t, u \in Seq(Line) : (s \o t) \o u = s \o (t \o u)
  BY ConcatAssociative

(* What has arrived and what is coming make the same stream.               *)
LEMMA ArriveKeepsStream ==
    ASSUME Types, Arrive
    PROVE  /\ Stream' = Stream /\ coming # <<>>
           /\ arrived' \in Seq(Line) /\ coming' \in Seq(Line)
  <1>1. PICK n \in 1..Len(coming) : /\ arrived' = arrived \o SubSeq(coming, 1, n)
                                   /\ coming' = SubSeq(coming, n + 1, Len(coming))
    BY DEF Arrive
  <1> DEFINE front == SubSeq(coming, 1, n)
             rest  == SubSeq(coming, n + 1, Len(coming))
  <1>2. arrived \in Seq(Line) /\ coming \in Seq(Line) /\ Len(coming) \in Nat
    BY LenProperties DEF Types
  <1>3. front \in Seq(Line) /\ rest \in Seq(Line)
    BY <1>2, SubSeqProperties, ElementOfSeq
  <1>4. front \o rest = coming
    <2>1. SubSeq(coming, 1, n) \o SubSeq(coming, n + 1, Len(coming)) = SubSeq(coming, 1, Len(coming))
      BY <1>2, ConcatAdjacentSubSeq
    <2> QED
      BY <2>1, <1>2, SubSeqFull
  <1>5. arrived' \in Seq(Line) /\ coming' \in Seq(Line)
    BY <1>1, <1>2, <1>3, ConcatProperties
  <1>6. Stream' = Stream
    <2>1. (arrived \o front) \o rest = arrived \o (front \o rest)
      BY <1>2, <1>3, StreamAssociative
    <2> QED
      BY <2>1, <1>1, <1>4 DEF Stream
  <1>7. coming # <<>>
    BY <1>2, EmptySeq
  <1> QED
    BY <1>5, <1>6, <1>7

(* So nothing is learnt or lost by it.                                     *)
LEMMA ArriveInv == IInv /\ Arrive => IInv'
  <1> SUFFICES ASSUME IInv, Arrive PROVE IInv'
    OBVIOUS
  <1> USE DEF IInv, socketVars, learnt
  <1>1. /\ Stream' = Stream /\ coming # <<>>
        /\ arrived' \in Seq(Line) /\ coming' \in Seq(Line)
    BY ArriveKeepsStream
  <1>2. Types'
    BY <1>1 DEF Types, Arrive
  <1>3. InTurn' /\ Learnt' /\ RequestsNameSession'
    BY <1>1 DEF Arrive, InTurn, Learnt, Debt, SettingUp, Talking, RtpLearntAll, RequestsNameSession
  <1> QED
    BY <1>2, <1>3

(* An answer is sent to the one request there is, or behind what is in the *)
(* way.                                                                    *)
LEMMA AnswerInv == IInv /\ Answer => IInv'
  <1> SUFFICES ASSUME IInv, Answer PROVE IInv'
    OBVIOUS
  <1> USE DEF IInv, socketVars, learnt
  <1>1. PICK a \in Answers(Head(requests).method, Head(requests).seq) : coming' = coming \o a
    BY DEF Answer
  <1>2. /\ requests # <<>> /\ requests \in Seq(Requests) /\ requests' = Tail(requests)
        /\ arrived' = arrived
    BY DEF Answer, Types
  <1>3. Head(requests).method \in Methods /\ Head(requests).seq \in Nat
    <2>1. Head(requests) \in Requests
      BY <1>2, HeadTailProperties
    <2> QED
      BY <2>1 DEF Requests
  <1>4. a \in Seq(Line)
    BY <1>1, <1>3, AnswerShape
  <1>5. Types'
    <2>1. coming' \in Seq(Line)
      BY <1>1, <1>4, ConcatProperties DEF Types
    <2>2. requests' \in Seq(Requests)
      BY <1>2, HeadTailProperties
    <2> QED
      BY <2>1, <2>2 DEF Types, Answer
  <1>6. Stream' = Stream \o a /\ Stream \in Seq(Line)
    <2>1. arrived \in Seq(Line) /\ coming \in Seq(Line)
      BY DEF Types
    <2>2. arrived \o (coming \o a) = (arrived \o coming) \o a
      BY <2>1, <1>4, StreamAssociative
    <2>3. Stream \in Seq(Line)
      BY StreamFacts
    <2> QED
      BY <2>2, <2>3, <1>1, <1>2 DEF Stream
  <1>7. Debt => Debt'
    <2> SUFFICES ASSUME Debt PROVE Debt'
      OBVIOUS
    <2>1. Stream # <<>> /\ Len(Stream) \in Nat /\ Len(a) \in Nat /\ Len(Stream) > 0
      BY <1>4, <1>6, LenProperties, EmptySeq DEF Debt
    <2>2. Stream' # <<>> /\ Stream'[1] = Stream[1]
      BY <2>1, <1>4, <1>6, ConcatProperties, ConcatEqualIffEmpty
    <2> QED
      BY <2>2 DEF Debt
  <1>8. Stream = <<>> => Stream' = a
    BY <1>4, <1>6, ConcatEmptySeq
  <1>9. InTurn'
    <2>1. pc \notin {"start", "connecting"}
      BY <1>2 DEF InTurn
    <2>2. (Talking' <=> Talking) /\ (SettingUp' <=> SettingUp)
      BY DEF Answer, Talking, SettingUp
    <2>3. Talking /\ pc = "recv" /\ ~Debt => requests' = <<>> /\ Stream' \in Answers(method, seq - 1)
      BY <1>1, <1>2, <1>8 DEF InTurn
    <2>4. Talking /\ pc = "send" => Debt
      BY <1>2 DEF InTurn
    <2> QED
      BY <2>1, <2>2, <2>3, <2>4, <1>7 DEF Answer, InTurn
  <1>10. Learnt'
    BY <1>7 DEF Answer, Learnt, SettingUp, RtpLearntAll
  <1>11. RequestsNameSession'
    <2>1. \A i \in 1..Len(requests') : i + 1 \in 1..Len(requests) /\ requests'[i] = requests[i + 1]
      BY <1>2, HeadTailProperties, LenProperties
    <2> QED
      BY <2>1 DEF Answer, RequestsNameSession
  <1> QED
    BY <1>5, <1>9, <1>10, <1>11

(* Of some header lines there is a last one.                               *)
LEMMA LastExists ==
    ASSUME NEW n \in Nat, NEW found \in SUBSET (1..n), found # {}
    PROVE  \E i \in found : \A j \in found : j <= i
  <1> DEFINE T == {n - i : i \in found}
  <1>1. \A i \in found : i \in Nat /\ n - i \in Nat /\ n - i \in T
    OBVIOUS
  <1>2. T \subseteq Nat /\ T # {}
    <2>1. PICK i \in found : TRUE
      OBVIOUS
    <2> QED
      BY <1>1, <2>1
  <1>3. PICK x \in T : \A y \in T : ~ (<<y, x>> \in OpToRel(<, Nat))
    BY <1>2, NatLessThanWellFounded, WFMin
  <1>4. \A y \in T : ~(y < x)
    BY <1>2, <1>3 DEF OpToRel
  <1>5. PICK i \in found : x = n - i
    OBVIOUS
  <1> HIDE DEF T
  <1>6. ASSUME NEW j \in found PROVE j <= i
    <2>1. ~(n - j < n - i)
      BY <1>1, <1>4, <1>5
    <2> QED
      BY <2>1, <1>1, <1>5
  <1> QED
    BY <1>6

(* What is understood of a text comes from its lines.                      *)
LEMMA UnderstoodOf ==
    ASSUME NEW S \in SUBSET Int, NEW text \in Seq([name : LineNames, of : S])
    PROVE  /\ Status(text) \in {-1, 200, 404} /\ AudioChannel(text) \in {None} \cup S
           /\ HeaderField(text, "Session") \in {None} \cup S
           /\ RTPPort(text) \in {Garbage} \cup S
  <1>1. Len(text) \in Nat /\ \A i \in 1..Len(text) : text[i].of \in S
    <2>1. Len(text) \in Nat /\ \A i \in 1..Len(text) : text[i] \in [name : LineNames, of : S]
      BY LenProperties, ElementOfSeq
    <2> QED
      BY <2>1
  <1>2. Status(text) \in {-1, 200, 404}
    BY DEF Status
  <1>3. AudioChannel(text) \in {None} \cup S
    <2> DEFINE found == {i \in 2..Len(text) \ Headers(text) :
                            text[i].name = "control" /\ text[i - 1].name = "media"}
    <2>1. found \subseteq 1..Len(text)
      BY <1>1
    <2>2. found # {} => (CHOOSE i \in found : TRUE) \in found
      OBVIOUS
    <2> QED
      BY <1>1, <2>1, <2>2 DEF AudioChannel
  <1>4. ASSUME NEW name PROVE HeaderField(text, name) \in {None} \cup S
    <2> DEFINE found == {i \in Headers(text) : text[i].name = name}
    <2>1. found \subseteq 1..Len(text)
      BY <1>1 DEF Headers
    <2>2. found # {} => \E i \in found : \A j \in found : j <= i
      BY <1>1, <2>1, LastExists
    <2>3. found # {} => (CHOOSE i \in found : \A j \in found : j <= i) \in found
      BY <2>2
    <2> QED
      BY <1>1, <2>1, <2>3 DEF HeaderField
  <1> QED
    BY <1>2, <1>3, <1>4 DEF RTPPort

(* A 200 in the set-up: what there was to learn is learnt, or the rest of  *)
(* the answer is in the way.                                               *)
LEMMA RecvSetup ==
    ASSUME IInv, SettingUp, Recv, ~Throws(arrived), Status(arrived) = 200
    PROVE  InTurn' /\ Learnt'
  <1> USE DEF IInv, SettingUp, Recv
  <1>1. Talking /\ pc = "recv" /\ arrived # <<>>
    BY DEF Talking
  <1>2. /\ requests = <<>> /\ Stream \in Answers(method, seq - 1)
        /\ arrived[1].name = "200"
        /\ coming = <<>> => arrived = Stream
        /\ coming # <<>> => coming[1].name \notin StatusLines
    BY <1>1, AcceptedFacts
  <1>3. /\ arrived' = <<>> /\ coming' = coming /\ requests' = <<>> /\ seq' = seq
        /\ status' = 200 /\ pollret' = "SREADY"
    BY <1>2
  <1>4. Stream' = coming
    BY <1>3, ConcatEmptySeq DEF Stream, Types
  <1>5. coming # <<>> => Debt'
    BY <1>2, <1>4 DEF Debt
  <1>6. coming = <<>> => Stream' = <<>>
    BY <1>4
  <1>7. seq - 1 = SeqOf[method] /\ ~rtp /\ seq \in Nat
    BY <1>1 DEF InTurn, Types, SeqOf
  <1>8. /\ channel' = IF method = "DESCRIBE" THEN AudioChannel(arrived) ELSE channel
        /\ session' = IF method = "SETUP" THEN HeaderField(arrived, "Session") ELSE session
        /\ port' = IF method = "SETUP" THEN RTPPort(arrived) ELSE port
    OBVIOUS
  <1>9. ~Debt
    BY <1>1, <1>2, StreamFacts DEF Debt, StatusLines
  <1>10. /\ method = "DESCRIBE" => Debt' \/ channel' = SeqOf.DESCRIBE
         /\ method = "SETUP" => Debt' \/ (session' = SeqOf.SETUP /\ port' = SeqOf.SETUP)
    BY <1>2, <1>5, <1>7, <1>8, DescribeLearns, SetupLearns DEF SeqOf
  <1>11. CASE method = "PLAY"
    <2>1. pc' = "send" /\ method' = "KEEPALIVE" /\ rtp'
      BY <1>3, <1>11 DEF Continue
    <2>2. Learnt'
      BY <2>1, <1>8, <1>9, <1>11 DEF Learnt, RtpLearntAll, SeqOf
    <2> QED
      BY <2>1, <2>2, <1>3, <1>5, <1>6 DEF InTurn, SeqOf
  <1>12. CASE method \in {"OPTIONS", "DESCRIBE", "SETUP"}
    <2>1. pc' = "send" /\ method' = NextMethod[method] /\ ~rtp'
      BY <1>3, <1>7, <1>12 DEF Continue
    <2>2. seq' = SeqOf[method']
      <3>1. CASE method = "OPTIONS"
        BY <3>1, <2>1, <1>3, <1>7 DEF SeqOf, NextMethod
      <3>2. CASE method = "DESCRIBE"
        BY <3>2, <2>1, <1>3, <1>7 DEF SeqOf, NextMethod
      <3>3. CASE method = "SETUP"
        BY <3>3, <2>1, <1>3, <1>7 DEF SeqOf, NextMethod
      <3> QED
        BY <3>1, <3>2, <3>3, <1>12
    <2>3. Learnt'
      <3>1. method = "SETUP" => channel' = SeqOf.DESCRIBE
        BY <1>8, <1>9 DEF Learnt
      <3> QED
        BY <3>1, <2>1, <1>10, <1>12 DEF Learnt, RtpLearntAll, NextMethod
    <2>4. method' \in {"DESCRIBE", "SETUP", "PLAY"}
      BY <2>1, <1>12 DEF NextMethod
    <2> QED
      BY <2>1, <2>2, <2>3, <2>4, <1>3, <1>5, <1>6, <1>7 DEF InTurn
  <1> QED
    BY <1>11, <1>12 DEF SeqOf

(* What is read while nothing is at stake, a text that is refused, and an  *)
(* exception.                                                              *)
LEMMA RecvInv == IInv /\ Recv => IInv'
  <1> SUFFICES ASSUME IInv, Recv PROVE IInv'
    OBVIOUS
  <1> USE DEF IInv
  <1>1. Types'
    <2>1. /\ Status(arrived) \in {-1, 200, 404} /\ AudioChannel(arrived) \in Int
          /\ HeaderField(arrived, "Session") \in Int /\ RTPPort(arrived) \in Int
      <3>1. Nat \in SUBSET Int /\ arrived \in Seq([name : LineNames, of : Nat])
        BY DEF Types, Line
      <3>2. /\ Status(arrived) \in {-1, 200, 404} /\ AudioChannel(arrived) \in {None} \cup Nat
            /\ HeaderField(arrived, "Session") \in {None} \cup Nat
            /\ RTPPort(arrived) \in {Garbage} \cup Nat
        BY <3>1, UnderstoodOf
      <3> QED
        BY <3>2 DEF None, Garbage
    <2>2. channel' \in Int /\ session' \in Int /\ port' \in Int
      BY <2>1 DEF Recv, Types, learnt
    <2>3. /\ pc' \in {"send", "null", "over", "uncaught"}
          /\ method' \in Methods /\ rtp' \in BOOLEAN
      <3> USE DEF Types, Methods
      <3>1. CASE Throws(arrived)
        BY <3>1 DEF Recv
      <3>2. CASE ~Throws(arrived) /\ method = "KEEPALIVE"
        BY <3>2 DEF Recv, Continue, LeaveLoop
      <3>3. CASE ~Throws(arrived) /\ method \in {"OPTIONS", "DESCRIBE", "SETUP", "PLAY"}
        <4>1. NextMethod.OPTIONS \in Methods /\ NextMethod.DESCRIBE \in Methods
              /\ NextMethod.SETUP \in Methods
          BY DEF NextMethod
        <4>2. pc' \in {"send", "over"} /\ rtp' \in BOOLEAN
          BY <3>3 DEF Recv, Continue
        <4>3. method' \in {method, "KEEPALIVE"} \/ (method # "PLAY" /\ method' = NextMethod[method])
          BY <3>3 DEF Recv, Continue
        <4> QED
          BY <4>1, <4>2, <4>3, <3>3
      <3> QED
        BY <3>1, <3>2, <3>3 DEF Recv, InTurn
    <2>4. arrived' \in Seq(Line)
      BY DEF Recv
    <2> QED
      BY <2>2, <2>3, <2>4 DEF Recv, Types
  <1>2. RequestsNameSession' /\ InTurn' /\ Learnt'
    <2>1. CASE Throws(arrived)
      BY <2>1 DEF Recv, InTurn, Learnt, RtpLearntAll, SettingUp, Talking, RequestsNameSession, learnt
    <2>2. CASE ~Throws(arrived) /\ method = "KEEPALIVE"
      <3>1. UNCHANGED <<learnt, rtp, requests, seq>> /\ arrived' = <<>> /\ coming' = coming
        BY <2>2 DEF Recv, Continue, LeaveLoop, learnt
      <3>2. RequestsNameSession'
        BY <3>1 DEF RequestsNameSession
      <3>3. pc' \in {"send", "null"} /\ method' \in {"KEEPALIVE", "TEARDOWN"}
            /\ (method' = "TEARDOWN" => rtp')
        BY <2>2 DEF Recv, Continue, LeaveLoop
      <3>4. Learnt'
        BY <3>1, <3>3 DEF Learnt, RtpLearntAll, SettingUp, learnt, SeqOf
      <3>5. Talking' => Debt' \/ (Stream' = <<>> /\ requests' = <<>>)
        <4> SUFFICES ASSUME Talking' PROVE Debt' \/ (Stream' = <<>> /\ requests' = <<>>)
          OBVIOUS
        <4>1. method' = "KEEPALIVE" /\ rtp
          BY <3>1, <3>3 DEF Talking, SeqOf
        <4>2. Talking /\ pc = "recv" /\ arrived # <<>> /\ Status(arrived) = 200
          BY <4>1, <2>2 DEF Talking, Recv, Continue, LeaveLoop
        <4>3. requests = <<>> /\ (coming # <<>> => coming[1].name \notin StatusLines)
          BY <4>2, AcceptedFacts
        <4>4. Stream' = coming
          BY <3>1, ConcatEmptySeq DEF Stream, Types
        <4> QED
          BY <4>3, <4>4, <3>1 DEF Debt
      <3> QED
        BY <3>1, <3>2, <3>3, <3>4, <3>5 DEF InTurn, SettingUp, SeqOf
    <2>3. CASE ~Throws(arrived) /\ method # "KEEPALIVE" /\ Status(arrived) # 200
      <3>1. SettingUp /\ ~rtp
        BY <2>3 DEF Recv, InTurn, SettingUp, Types, Methods, SeqOf
      <3>2. pc' = "send" /\ method' = "KEEPALIVE" /\ ~rtp'
        BY <2>3, <3>1 DEF Recv, Continue
      <3> QED
        BY <3>1, <3>2 DEF Recv, InTurn, Learnt, RtpLearntAll, SettingUp, Talking, RequestsNameSession, SeqOf
    <2>4. CASE ~Throws(arrived) /\ method # "KEEPALIVE" /\ Status(arrived) = 200
      <3>1. SettingUp /\ pc = "recv" /\ arrived # <<>>
        BY <2>4 DEF Recv, InTurn, SettingUp, Types, Methods, SeqOf
      <3>2. requests = <<>> /\ requests' = <<>>
        BY <3>1, <2>4, AcceptedFacts DEF SettingUp, Talking, Recv
      <3>3. RequestsNameSession'
        BY <3>2 DEF RequestsNameSession
      <3> QED
        BY <3>1, <3>3, <2>4, RecvSetup
    <2> QED
      BY <2>1, <2>2, <2>3, <2>4
  <1> QED
    BY <1>1, <1>2

(* Nothing read is refused too.                                            *)
LEMMA RecvNothingInv == IInv /\ RecvNothing => IInv'
  <1> SUFFICES ASSUME IInv, RecvNothing PROVE IInv'
    OBVIOUS
  <1> USE DEF IInv
  <1>1. /\ pc' \in {"send", "null", "over"} /\ method' \in Methods /\ rtp' = rtp
        /\ ~(pc' = "send" /\ method' \in DOMAIN SeqOf)
        /\ ~(pc' = "send" /\ rtp' /\ method' = "KEEPALIVE")
        /\ (pc' = "send" /\ method' = "TEARDOWN" => rtp')
        /\ (rtp' => method' \in {"KEEPALIVE", "TEARDOWN"})
    <2>1. CASE method = "KEEPALIVE"
      BY <2>1 DEF RecvNothing, Continue, LeaveLoop, SeqOf, Methods
    <2>2. CASE method # "KEEPALIVE"
      <3>1. method \in {"OPTIONS", "DESCRIBE", "SETUP", "PLAY"} /\ ~rtp
        BY <2>2 DEF RecvNothing, InTurn, Learnt, Types, Methods
      <3> QED
        BY <2>2, <3>1 DEF RecvNothing, Continue, SeqOf, Methods
    <2> QED
      BY <2>1, <2>2
  <1>2. ~SettingUp' /\ ~Talking'
    BY <1>1 DEF SettingUp, Talking
  <1>3. rtp => UNCHANGED <<channel, session, port>>
    BY DEF RecvNothing, Learnt
  <1>4. Types'
    BY <1>1 DEF RecvNothing, Types, streamVars, None, Garbage
  <1>5. InTurn'
    BY <1>1, <1>2 DEF InTurn
  <1>6. Learnt' /\ RequestsNameSession'
    BY <1>1, <1>2, <1>3 DEF Learnt, RtpLearntAll, RequestsNameSession, RecvNothing
  <1> QED
    BY <1>4, <1>5, <1>6

(* The socket is made, connected or not, and the set-up begins.            *)
LEMMA ConnectInv == IInv /\ (Connect \/ Connected \/ ConnectFails) => IInv'
  <1> SUFFICES ASSUME IInv, Connect \/ Connected \/ ConnectFails PROVE IInv'
    OBVIOUS
  <1> USE DEF IInv, learnt, streamVars
  <1>1. method = "OPTIONS" /\ ~rtp /\ requests = <<>> /\ arrived = <<>> /\ coming = <<>>
    BY DEF InTurn, Connect, Connected, ConnectFails
  <1>2. UNCHANGED <<method, channel, session, port, rtp, requests, arrived, coming>>
    BY DEF Connect, Connected, ConnectFails
  <1>3. /\ pc' \in {"connecting", "send", "over"} /\ seq' \in Nat
        /\ (pc' = "send" => seq' = 2)
    <2>1. seq \in Nat
      BY DEF Types
    <2>2. CASE Connect
      BY <2>1, <2>2 DEF Connect
    <2>3. CASE Connected
      BY <2>3 DEF Connected, FirstSeq
    <2>4. CASE ConnectFails
      BY <2>1, <2>4 DEF ConnectFails
    <2> QED
      BY <2>2, <2>3, <2>4
  <1>4. Types'
    BY <1>2, <1>3 DEF Types
  <1>5. Stream' = <<>>
    BY <1>1, <1>2, ConcatEmptySeq DEF Stream, Types
  <1>6. InTurn'
    BY <1>1, <1>2, <1>3, <1>5 DEF InTurn, SettingUp, SeqOf
  <1>7. Learnt' /\ RequestsNameSession'
    BY <1>1, <1>2 DEF Learnt, SettingUp, RtpLearntAll, RequestsNameSession
  <1> QED
    BY <1>4, <1>6, <1>7

-----------------------------------------------------------------------------
(* The first state satisfies the invariant.                                *)
LEMMA InitInv == Init => IInv
  <1> SUFFICES ASSUME Init PROVE IInv
    OBVIOUS
  <1>1. Types
    <2>1. arrived \in Seq(Line) /\ coming \in Seq(Line) /\ requests \in Seq(Requests)
      BY EmptySeq DEF Init
    <2>2. rtp \in BOOLEAN /\ pc = "start" /\ method = "OPTIONS"
      BY DEF Init
    <2>3. seq \in Nat /\ channel \in Int /\ session \in Int /\ port \in Int
      BY DEF Init, None
    <2>4. method \in Methods
      BY <2>2 DEF Methods
    <2> QED
      BY <2>1, <2>2, <2>3, <2>4 DEF Types
  <1>2. InTurn /\ Learnt /\ RequestsNameSession
    BY DEF Init, InTurn, Learnt, SettingUp, Talking, RtpLearntAll, RequestsNameSession
  <1> QED
    BY <1>1, <1>2 DEF IInv

(* Every step preserves it.                                                *)
LEMMA NextInv == IInv /\ [Next]_vars => IInv'
  <1> SUFFICES ASSUME IInv, [Next]_vars PROVE IInv'
    OBVIOUS
  <1>1. CASE Connect \/ Connected \/ ConnectFails
    BY <1>1, ConnectInv
  <1>2. CASE Send
    BY <1>2, SendInv
  <1>3. CASE Recv
    BY <1>3, RecvInv
  <1>4. CASE RecvNothing
    BY <1>4, RecvNothingInv
  <1>5. CASE Answer
    BY <1>5, AnswerInv
  <1>6. CASE Arrive
    BY <1>6, ArriveInv
  <1> USE DEF IInv, Types, InTurn, Learnt, SettingUp, Talking, Debt, Stream,
              RtpLearntAll, RequestsNameSession, learnt, streamVars
  <1>7. CASE Stop
    BY <1>7 DEF Stop, LeaveLoop, SeqOf, Methods
  <1>8. CASE Close
    BY <1>8 DEF Close
  <1>9. CASE UNCHANGED vars
    BY <1>9 DEF vars
  <1> QED
    BY <1>1, <1>2, <1>3, <1>4, <1>5, <1>6, <1>7, <1>8, <1>9 DEF Next, Terminated

-----------------------------------------------------------------------------
(* The invariant above holds throughout.                                   *)
THEOREM Invariance == Spec => []IInv
  BY InitInv, NextInv, PTL DEF Spec

(* An RTPSession is made for the channel, the session and the port that    *)
(* the scanner answered with, however TCP cut its answers (execute, lines  *)
(* 54 to 70).                                                              *)
THEOREM RtpLearnt == Spec => []RtpLearntAll
  BY Invariance, PTL DEF IInv, Learnt

(* The keepalives of a session that plays, and every TEARDOWN, name the    *)
(* scanner's session.                                                      *)
THEOREM SessionNamed == Spec => []RequestsNameSession
  BY Invariance, PTL DEF IInv

(* An answer of 200 that counts answers the request just sent, although    *)
(* the client never compares CSeq.                                         *)
THEOREM AnswersOwn == Spec => AcceptedIsOwn
  <1>1. ASSUME IInv, [Next]_vars,
               pc = "recv", arrived # <<>>, pc' = "send", status' = 200,
               method = "KEEPALIVE" => rtp
        PROVE  arrived[1].of = seq - 1
    <2>1. Talking
      BY <1>1 DEF IInv, InTurn, Types, Talking, Methods, SeqOf
    <2>2. Recv
      BY <1>1 DEF Next, vars, Terminated, Connect, Connected, ConnectFails, Send, Stop,
                  RecvNothing, Answer, Arrive, Close
    <2>3. Status(arrived) = 200
      BY <1>1, <2>2 DEF Recv
    <2> QED
      BY <1>1, <2>1, <2>3, AcceptedFacts
  <1> QED
    BY <1>1, Invariance, PTL DEF Spec, AcceptedIsOwn

-----------------------------------------------------------------------------
(* Answers that arrive whole.  The stream of a client that has not cut an  *)
(* answer yet begins with a status line, changes from one answer to the    *)
(* next only at a status line, and has a session description only behind   *)
(* its Content-Type, where RTSPResponse::parse no longer looks for headers.*)

Follows == [attribute |-> "Content-Type", media |-> "attribute", control |-> "media"]

Described(text) ==
    \A i \in 2..Len(text) :
        text[i].name \in DOMAIN Follows => text[i - 1].name = Follows[text[i].name]

WholeAnswers(text) ==
    /\ text # <<>> => text[1].name \in StatusLines
    /\ \A i \in 2..Len(text) : text[i].name \in StatusLines \/ text[i].of = text[i - 1].of
    /\ Described(text)

WholeInv ==
    ~split => /\ WholeAnswers(Stream)
              /\ pc # "uncaught"
              /\ status = -1 => pollret = "STIMEOUT" \/ closed
              /\ pc \in {"start", "connecting"} => status # -1

(* A text that begins with a status line and has descriptions only behind  *)
(* their Content-Type does not make at() throw.                            *)
LEMMA NoThrow ==
    ASSUME NEW text \in Seq(Line), text # <<>>, text[1].name \in StatusLines, Described(text)
    PROVE  ~Throws(text)
  <1> SUFFICES ASSUME NEW i \in Headers(text), text[i].name \in {"attribute", "control"}
               PROVE  FALSE
    BY DEF Throws
  <1>0. Len(text) \in Nat
    BY LenProperties
  <1>1. i \in 2..Len(text) /\ \A j \in 2..(i - 1) : text[j].name # "Content-Type"
    BY DEF Headers
  <1>2. ASSUME NEW k \in 2..i, text[k].name \in DOMAIN Follows
        PROVE  k - 1 \in 2..(i - 1) /\ text[k - 1].name = Follows[text[k].name]
    <2>1. k \in 2..Len(text)
      BY <1>0, <1>1
    <2>2. text[k - 1].name = Follows[text[k].name]
      BY <1>2, <2>1 DEF Described
    <2>3. Follows[text[k].name] \notin StatusLines
      BY <1>2 DEF Follows, StatusLines
    <2>4. k - 1 # 1
      BY <2>2, <2>3
    <2> QED
      BY <2>1, <2>2, <2>4, <1>1
  <1>3. ASSUME NEW k \in 2..i, text[k].name = "attribute" PROVE FALSE
    <2>1. k - 1 \in 2..(i - 1) /\ text[k - 1].name = "Content-Type"
      BY <1>2, <1>3 DEF Follows
    <2> QED
      BY <1>1, <2>1
  <1>4. ASSUME NEW k \in 2..i, text[k].name = "media" PROVE FALSE
    <2>1. k - 1 \in 2..i /\ text[k - 1].name = "attribute"
      BY <1>1, <1>2, <1>4 DEF Follows
    <2> QED
      BY <1>3, <2>1
  <1>5. text[i].name # "control"
    <2> SUFFICES ASSUME text[i].name = "control" PROVE FALSE
      OBVIOUS
    <2>1. i - 1 \in 2..i /\ text[i - 1].name = "media"
      BY <1>0, <1>1, <1>2 DEF Follows
    <2> QED
      BY <1>4, <2>1
  <1> QED
    BY <1>1, <1>3, <1>5

(* Every answer of the scanner is such a text.                             *)
LEMMA AnswerWhole ==
    ASSUME NEW m \in Methods, NEW n \in Nat, NEW a \in Answers(m, n)
    PROVE  WholeAnswers(a)
  <1>1. /\ a \in Seq(Line) /\ a # <<>> /\ a[1].name \in StatusLines
        /\ \A i \in 1..Len(a) : a[i].of = n
    BY AnswerShape
  <1>2. \A i \in 2..Len(a) : a[i].of = a[i - 1].of
    <2>1. Len(a) \in Nat
      BY <1>1, LenProperties
    <2>2. \A i \in 2..Len(a) : i \in 1..Len(a) /\ i - 1 \in 1..Len(a)
      BY <2>1
    <2> QED
      BY <1>1, <2>2
  <1>3. Described(a)
    <2> DEFINE d == <<"200", "CSeq", "Content-Type", "attribute", "media", "control">>
    <2>1. CASE a = Lines(n, d)
      <3>1. Len(a) = 6 /\ \A i \in 1..6 : a[i].name = d[i]
        BY <2>1 DEF Lines
      <3>2. /\ a[1].name = "200" /\ a[2].name = "CSeq" /\ a[3].name = "Content-Type"
            /\ a[4].name = "attribute" /\ a[5].name = "media" /\ a[6].name = "control"
        BY <3>1
      <3>3. \A i \in 2..6 : i \in {2, 3, 4, 5, 6}
        OBVIOUS
      <3> HIDE DEF d
      <3> QED
        BY <3>1, <3>2, <3>3 DEF Described, Follows
    <2>2. ASSUME NEW t \in {<<"404", "CSeq">>, <<"200", "CSeq", "Session", "Transport">>,
                            <<"200", "CSeq", "Session">>, <<"200", "CSeq">>},
                 a = Lines(n, t)
          PROVE  Described(a)
      <3>1. Len(a) = Len(t) /\ \A i \in 1..Len(t) : a[i].name = t[i]
        BY <2>2 DEF Lines
      <3>2. \A i \in 1..Len(t) : t[i] \notin DOMAIN Follows
        BY DEF Follows
      <3> QED
        BY <3>1, <3>2 DEF Described
    <2> QED
      BY <2>1, <2>2 DEF Answers
  <1> QED
    BY <1>1, <1>2, <1>3 DEF WholeAnswers

(* The lines of two texts, one behind the other.                           *)
LEMMA LinesOfConcat ==
    ASSUME NEW s \in Seq(Line), NEW t \in Seq(Line)
    PROVE  /\ Len(s) \in Nat /\ Len(t) \in Nat /\ Len(s \o t) = Len(s) + Len(t)
           /\ \A i \in 1..Len(s) : (s \o t)[i] = s[i]
           /\ \A i \in 1..Len(t) : (s \o t)[i + Len(s)] = t[i]
  <1>1. Len(s) \in Nat /\ Len(t) \in Nat
    BY LenProperties
  <1>2. /\ Len(s \o t) = Len(s) + Len(t)
        /\ \A i \in 1..Len(s) + Len(t) :
              (s \o t)[i] = IF i <= Len(s) THEN s[i] ELSE t[i - Len(s)]
    BY ConcatProperties
  <1>3. ASSUME NEW i \in 1..Len(s) PROVE (s \o t)[i] = s[i]
    <2>1. i \in 1..Len(s) + Len(t) /\ i <= Len(s)
      BY <1>1
    <2> QED
      BY <1>2, <2>1
  <1>4. ASSUME NEW i \in 1..Len(t) PROVE (s \o t)[i + Len(s)] = t[i]
    <2>1. i + Len(s) \in 1..Len(s) + Len(t) /\ ~(i + Len(s) <= Len(s)) /\ (i + Len(s)) - Len(s) = i
      BY <1>1
    <2> QED
      BY <1>2, <2>1
  <1> QED
    BY <1>1, <1>2, <1>3, <1>4

(* One behind the other they make such a text again.                       *)
LEMMA WholeConcat ==
    ASSUME NEW s \in Seq(Line), NEW t \in Seq(Line), WholeAnswers(s), WholeAnswers(t)
    PROVE  WholeAnswers(s \o t)
  <1> DEFINE u == s \o t
  <1>1. /\ Len(u) = Len(s) + Len(t)
        /\ \A i \in 1..Len(s) : u[i] = s[i]
        /\ \A i \in 1..Len(t) : u[i + Len(s)] = t[i]
    BY LinesOfConcat
  <1>2. Len(s) \in Nat /\ Len(t) \in Nat
    BY LinesOfConcat
  <1>3. s = <<>> \/ t = <<>> => WholeAnswers(u)
    BY ConcatEmptySeq
  <1>4. CASE s # <<>> /\ t # <<>>
    <2>1. Len(s) > 0 /\ Len(t) > 0
      BY <1>2, <1>4, EmptySeq
    <2> HIDE DEF u
    <2>2. u[1].name \in StatusLines
      BY <1>1, <1>2, <1>4, <2>1 DEF WholeAnswers
    <2>3. ASSUME NEW i \in 2..Len(u)
          PROVE  /\ u[i].name \in StatusLines \/ u[i].of = u[i - 1].of
                 /\ u[i].name \in DOMAIN Follows => u[i - 1].name = Follows[u[i].name]
      <3>1. CASE i \in 2..Len(s)
        <4>1. u[i] = s[i] /\ u[i - 1] = s[i - 1]
          <5>1. i \in 1..Len(s) /\ i - 1 \in 1..Len(s)
            BY <1>2, <3>1
          <5> QED
            BY <1>1, <5>1
        <4> QED
          BY <4>1, <3>1, <1>4 DEF WholeAnswers, Described
      <3>2. CASE i = Len(s) + 1
        <4>1. u[i] = t[1]
          <5>1. 1 \in 1..Len(t) /\ i = 1 + Len(s)
            BY <1>2, <2>1, <3>2
          <5> QED
            BY <1>1, <5>1
        <4>2. t[1].name \in StatusLines
          BY <1>4 DEF WholeAnswers
        <4>3. t[1].name \notin DOMAIN Follows
          BY <4>2 DEF StatusLines, Follows
        <4> QED
          BY <4>1, <4>2, <4>3
      <3>3. ASSUME NEW k \in 2..Len(t), i = k + Len(s)
            PROVE  /\ u[i].name \in StatusLines \/ u[i].of = u[i - 1].of
                   /\ u[i].name \in DOMAIN Follows => u[i - 1].name = Follows[u[i].name]
        <4>1. u[i] = t[k] /\ u[i - 1] = t[k - 1]
          <5>1. k \in 1..Len(t) /\ k - 1 \in 1..Len(t) /\ i - 1 = (k - 1) + Len(s)
            BY <1>2, <3>3
          <5> QED
            BY <1>1, <3>3, <5>1
        <4> QED
          BY <4>1 DEF WholeAnswers, Described
      <3>4. i \in 2..Len(s) \/ i = Len(s) + 1 \/ \E k \in 2..Len(t) : i = k + Len(s)
        <4>1. CASE i > Len(s) + 1
          <5>1. i - Len(s) \in 2..Len(t) /\ i = (i - Len(s)) + Len(s)
            BY <1>1, <1>2, <4>1
          <5> QED
            BY <5>1
        <4> QED
          BY <1>2, <4>1
      <3> QED
        BY <3>1, <3>2, <3>3, <3>4
    <2>4. WholeAnswers(u)
      BY <2>2, <2>3 DEF WholeAnswers, Described
    <2> QED
      BY <2>4 DEF u
  <1> QED
    BY <1>3, <1>4 DEF u

(* Cut in two, the front begins with a status line, and so does the rest,  *)
(* if its first line is of another answer than the front's last.           *)
LEMMA WholeCut ==
    ASSUME NEW s \in Seq(Line), NEW t \in Seq(Line), s # <<>>, WholeAnswers(s \o t)
    PROVE  /\ s[1].name \in StatusLines /\ Described(s)
           /\ (t # <<>> => t[1].of # s[Len(s)].of) => WholeAnswers(t)
  <1> DEFINE u == s \o t
  <1>1. /\ Len(u) = Len(s) + Len(t)
        /\ \A i \in 1..Len(s) : u[i] = s[i]
        /\ \A i \in 1..Len(t) : u[i + Len(s)] = t[i]
    BY LinesOfConcat
  <1>2. Len(s) \in Nat /\ Len(t) \in Nat /\ Len(s) > 0
    BY LinesOfConcat, EmptySeq
  <1>3. u # <<>>
    BY ConcatEqualIffEmpty
  <1> HIDE DEF u
  <1>4. s[1].name \in StatusLines
    BY <1>1, <1>2, <1>3 DEF WholeAnswers, u
  <1>5. Described(s)
    <2> SUFFICES ASSUME NEW i \in 2..Len(s), s[i].name \in DOMAIN Follows
                 PROVE  s[i - 1].name = Follows[s[i].name]
      BY DEF Described
    <2>1. i \in 2..Len(u) /\ u[i] = s[i] /\ u[i - 1] = s[i - 1]
      <3>1. i \in 1..Len(s) /\ i - 1 \in 1..Len(s) /\ i \in 2..Len(s) + Len(t)
        BY <1>2
      <3> QED
        BY <1>1, <3>1
    <2> QED
      BY <2>1 DEF WholeAnswers, Described, u
  <1>6. ASSUME t # <<>> => t[1].of # s[Len(s)].of PROVE WholeAnswers(t)
    <2>1. ASSUME t # <<>> PROVE t[1].name \in StatusLines
      <3>1. Len(t) > 0
        BY <1>2, <2>1, EmptySeq
      <3>2. Len(s) + 1 \in 2..Len(u) /\ u[Len(s) + 1] = t[1] /\ u[(Len(s) + 1) - 1] = s[Len(s)]
        <4>1. /\ 1 \in 1..Len(t) /\ Len(s) \in 1..Len(s) /\ Len(s) + 1 = 1 + Len(s)
              /\ (Len(s) + 1) - 1 = Len(s) /\ Len(s) + 1 \in 2..Len(s) + Len(t)
          BY <1>2, <3>1
        <4> QED
          BY <1>1, <4>1
      <3> QED
        BY <1>6, <2>1, <3>2 DEF WholeAnswers, u
    <2>2. ASSUME NEW i \in 2..Len(t)
          PROVE  /\ t[i].name \in StatusLines \/ t[i].of = t[i - 1].of
                 /\ t[i].name \in DOMAIN Follows => t[i - 1].name = Follows[t[i].name]
      <3>1. /\ i + Len(s) \in 2..Len(u) /\ u[i + Len(s)] = t[i]
            /\ u[(i + Len(s)) - 1] = t[i - 1]
        <4>1. /\ i \in 1..Len(t) /\ i - 1 \in 1..Len(t) /\ i + Len(s) \in 2..Len(s) + Len(t)
              /\ (i + Len(s)) - 1 = (i - 1) + Len(s)
          BY <1>2
        <4> QED
          BY <1>1, <4>1
      <3> QED
        BY <3>1 DEF WholeAnswers, Described, u
    <2> QED
      BY <2>1, <2>2 DEF WholeAnswers, Described
  <1> QED
    BY <1>4, <1>5, <1>6

(* What is in the stream after an answer was sent.                         *)
LEMMA AnswerAppends ==
    ASSUME IInv, Answer
    PROVE  \E m \in Methods, n \in Nat : \E a \in Answers(m, n) : Stream' = Stream \o a
  <1>1. PICK a \in Answers(Head(requests).method, Head(requests).seq) :
            coming' = coming \o a /\ arrived' = arrived
    BY DEF Answer
  <1>2. Head(requests).method \in Methods /\ Head(requests).seq \in Nat
    <2>1. Head(requests) \in Requests
      BY HeadTailProperties DEF IInv, Types, Answer
    <2> QED
      BY <2>1 DEF Requests
  <1>3. Stream' = Stream \o a
    <2>1. a \in Seq(Line) /\ arrived \in Seq(Line) /\ coming \in Seq(Line)
      BY <1>2, AnswerShape DEF IInv, Types
    <2>2. arrived \o (coming \o a) = (arrived \o coming) \o a
      BY <2>1, StreamAssociative
    <2>3. Stream' = arrived' \o coming' /\ Stream = arrived \o coming
      BY DEF Stream
    <2> QED
      BY <1>1, <2>2, <2>3
  <1> QED
    BY <1>2, <1>3

(* A text that is read before any was cut is understood, and leaves such a *)
(* stream behind unless this read cuts it.                                 *)
LEMMA RecvWhole == IInv /\ WholeInv /\ Recv => WholeInv'
  <1> SUFFICES ASSUME IInv, WholeInv, Recv, ~split' PROVE WholeInv'
    BY DEF WholeInv
  <1>1. /\ arrived # <<>> /\ arrived' = <<>> /\ coming' = coming /\ pollret' = "SREADY"
        /\ ~split /\ (coming # <<>> => coming[1].of # arrived[Len(arrived)].of)
    <2>1. /\ arrived # <<>> /\ arrived' = <<>> /\ coming' = coming /\ pollret' = "SREADY"
          /\ ~split /\ (coming # <<>> => Head(coming).of # arrived[Len(arrived)].of)
      BY DEF Recv
    <2>2. coming # <<>> => Head(coming) = coming[1]
      BY HeadTailProperties DEF IInv, Types
    <2> QED
      BY <2>1, <2>2
  <1>2. arrived \in Seq(Line) /\ coming \in Seq(Line) /\ WholeAnswers(arrived \o coming)
    BY <1>1 DEF IInv, Types, WholeInv, Stream
  <1>3. arrived[1].name \in StatusLines /\ Described(arrived) /\ WholeAnswers(coming)
    BY <1>1, <1>2, WholeCut
  <1>4. ~Throws(arrived)
    BY <1>1, <1>2, <1>3, NoThrow
  <1>5. status' # -1
    BY <1>1, <1>3, <1>4 DEF Recv, Status, StatusLines
  <1>6. pc' \in {"send", "over", "null"}
    BY <1>4 DEF Recv, Continue, LeaveLoop
  <1>7. Stream' = coming
    BY <1>1, <1>2, ConcatEmptySeq DEF Stream
  <1> QED
    BY <1>3, <1>5, <1>6, <1>7 DEF WholeInv

(* The other steps either leave the stream alone or append to it.          *)
LEMMA NextWhole == IInv /\ WholeInv /\ [Next]_vars => WholeInv'
  <1> SUFFICES ASSUME IInv, WholeInv, [Next]_vars PROVE WholeInv'
    OBVIOUS
  <1> USE DEF WholeInv
  <1>1. CASE Recv
    BY <1>1, RecvWhole
  <1>2. CASE RecvNothing
    <2>1. UNCHANGED <<arrived, coming, closed, split>> /\ status' = -1
          /\ (pollret' = "STIMEOUT" \/ closed)
      BY <1>2 DEF RecvNothing, streamVars
    <2>2. pc' \in {"send", "over", "null"}
      BY <1>2 DEF RecvNothing, Continue, LeaveLoop
    <2> QED
      BY <2>1, <2>2 DEF Stream
  <1>3. CASE Arrive
    <2>1. Stream' = Stream
      BY <1>3, ArriveKeepsStream DEF IInv
    <2> QED
      BY <1>3, <2>1 DEF Arrive, socketVars
  <1>4. CASE Answer
    <2>1. PICK m \in Methods, n \in Nat : \E a \in Answers(m, n) : Stream' = Stream \o a
      BY <1>4, AnswerAppends
    <2>2. PICK a \in Answers(m, n) : Stream' = Stream \o a
      BY <2>1
    <2>3. WholeAnswers(Stream) => WholeAnswers(Stream')
      BY <2>2, AnswerShape, AnswerWhole, StreamFacts, WholeConcat DEF IInv
    <2> QED
      BY <1>4, <2>3 DEF Answer, socketVars
  <1>5. CASE Connect \/ Connected \/ ConnectFails
    <2>1. /\ UNCHANGED <<arrived, coming, closed, split, status>>
          /\ pc \in {"start", "connecting"} /\ pc' # "uncaught"
      BY <1>5 DEF Connect, Connected, ConnectFails, streamVars
    <2> QED
      BY <2>1 DEF Stream
  <1>6. CASE Send \/ Stop \/ Close
    <2>1. /\ UNCHANGED <<arrived, coming, split, status, pollret>> /\ (closed => closed')
          /\ pc' \in {pc, "send", "recv", "over", "null"}
      BY <1>6 DEF Send, Stop, LeaveLoop, Close, streamVars, socketVars
    <2> QED
      BY <2>1 DEF Stream
  <1>7. CASE UNCHANGED vars
    BY <1>7 DEF vars, streamVars, socketVars, Stream
  <1> QED
    BY <1>1, <1>2, <1>3, <1>4, <1>5, <1>6, <1>7 DEF Next, Terminated

(* A scanner whose answers arrive whole, however many of them at once, is  *)
(* understood: no exception ends the program, and the status -1 stands for *)
(* a timeout or a closed connection only (RTSPResponse::parse).            *)
THEOREM WholeUnderstood == Spec => []WholeAnswersUnderstood
  <1>1. Init => WholeInv
    <2> SUFFICES ASSUME Init PROVE WholeInv
      OBVIOUS
    <2>1. Stream = <<>>
      BY ConcatEmptySeq, EmptySeq DEF Init, Stream
    <2>2. WholeAnswers(<<>>)
      BY DEF WholeAnswers, Described
    <2> QED
      BY <2>1, <2>2 DEF Init, WholeInv
  <1>2. WholeInv => WholeAnswersUnderstood
    BY DEF WholeInv, WholeAnswersUnderstood
  <1> QED
    BY <1>1, <1>2, Invariance, NextWhole, PTL DEF Spec

-----------------------------------------------------------------------------
(* The type invariant.  Its numbers are bounded by the keepalives there    *)
(* may be, so it rests on the turns that the invariant above describes.    *)

NumberedLine    == [name : LineNames, of : Numbers]
NumberedRequest == [method : Methods, seq : Numbers,
                    channel : {None} \cup Numbers, session : {None} \cup Numbers]

SocketTypeOK ==
    /\ nonblocking \in BOOLEAN /\ pollret \in {"SREADY", "STIMEOUT", "SERROR"}
    /\ closed \in BOOLEAN /\ split \in BOOLEAN

LearntTypeOK ==
    /\ status \in {-1, 0, 200, 404}
    /\ channel \in {None} \cup Numbers /\ session \in {None} \cup Numbers
    /\ port \in {None, Garbage} \cup Numbers

StreamTypeOK ==
    coming \in Seq(NumberedLine) /\ arrived \in Seq(NumberedLine) /\ requests \in Seq(NumberedRequest)

SeqInRange ==
    /\ seq \in {0} \cup Numbers
    /\ pc \in {"send", "recv"} => seq \in FirstSeq..LastSeq

TypeInv == SocketTypeOK /\ LearntTypeOK /\ StreamTypeOK /\ SeqInRange

(* The bounds of the numbers.                                              *)
LEMMA NumberRange ==
    /\ Numbers \in SUBSET Int /\ Numbers \subseteq Nat
    /\ FirstSeq = 2 /\ LastSeq \in Nat /\ LastSeq >= 6 /\ Numbers = 2..(LastSeq + 1)
  BY MaxKeepalivesAssumption DEF Numbers, FirstSeq, LastSeq

(* The first state.                                                        *)
LEMMA InitTypes == Init => TypeInv
  <1> SUFFICES ASSUME Init PROVE TypeInv
    OBVIOUS
  <1>1. StreamTypeOK
    BY EmptySeq DEF Init, StreamTypeOK
  <1>2. SocketTypeOK /\ LearntTypeOK /\ SeqInRange
    BY DEF Init, SocketTypeOK, LearntTypeOK, SeqInRange, None
  <1> QED
    BY <1>1, <1>2 DEF TypeInv

(* A request is numbered within the bounds: by the order of the set-up, or *)
(* because no more keepalives are counted.                                 *)
LEMMA SendTypes == IInv /\ TypeInv /\ Send => TypeInv'
  <1> SUFFICES ASSUME IInv, TypeInv, Send PROVE TypeInv'
    OBVIOUS
  <1>1. /\ method \in Methods /\ seq \in FirstSeq..LastSeq /\ seq' = seq + 1 /\ pc = "send"
        /\ pc' = IF method = "TEARDOWN" THEN "over" ELSE "recv"
    BY DEF IInv, Types, Send, TypeInv, SeqInRange
  <1>2. method # "TEARDOWN" => seq < LastSeq
    <2>1. CASE method = "KEEPALIVE"
      BY <2>1 DEF Send
    <2>2. CASE method \in {"OPTIONS", "DESCRIBE", "SETUP", "PLAY"}
      <3>1. seq = SeqOf[method]
        BY <1>1, <2>2 DEF IInv, InTurn, SettingUp, SeqOf
      <3>2. SeqOf[method] <= 5
        BY <2>2 DEF SeqOf
      <3> QED
        BY <3>1, <3>2, <1>1, NumberRange
    <2> QED
      BY <1>1, <2>1, <2>2 DEF Methods
  <1>3. SeqInRange'
    BY <1>1, <1>2, NumberRange DEF SeqInRange
  <1>4. Request(method) \in NumberedRequest
    BY <1>1, NumberRange DEF Request, NumberedRequest, TypeInv, LearntTypeOK
  <1>5. requests' \in Seq(NumberedRequest)
    BY <1>4, AppendProperties DEF Send, TypeInv, StreamTypeOK
  <1> QED
    BY <1>3, <1>5 DEF Send, TypeInv, SocketTypeOK, LearntTypeOK, StreamTypeOK, socketVars, streamVars, learnt

(* What is read, or not read, is numbered like the lines it is from.       *)
LEMMA ReadTypes == IInv /\ TypeInv /\ (Recv \/ RecvNothing) => TypeInv'
  <1> SUFFICES ASSUME IInv, TypeInv, Recv \/ RecvNothing PROVE TypeInv'
    OBVIOUS
  <1>1. SeqInRange'
    <2>1. pc = "recv" /\ seq' = seq
      BY DEF Recv, RecvNothing
    <2> QED
      BY <2>1 DEF TypeInv, SeqInRange
  <1>2. StreamTypeOK'
    <2>1. /\ coming' = coming /\ requests' = requests /\ arrived' \in {arrived, <<>>}
      BY DEF Recv, RecvNothing, streamVars
    <2> QED
      BY <2>1, EmptySeq DEF TypeInv, StreamTypeOK
  <1>3. SocketTypeOK'
    BY DEF Recv, RecvNothing, streamVars, TypeInv, SocketTypeOK
  <1>4. LearntTypeOK'
    <2>1. CASE Recv
      <3>1. arrived \in Seq([name : LineNames, of : Numbers])
        BY DEF TypeInv, StreamTypeOK, NumberedLine
      <3>2. /\ Status(arrived) \in {-1, 200, 404} /\ AudioChannel(arrived) \in {None} \cup Numbers
            /\ HeaderField(arrived, "Session") \in {None} \cup Numbers
            /\ RTPPort(arrived) \in {Garbage} \cup Numbers
        <4>1. Numbers \in SUBSET Int
          BY NumberRange
        <4> QED
          BY <3>1, <4>1, UnderstoodOf
      <3>3. status' \in {status, Status(arrived)} /\ channel' \in {channel, AudioChannel(arrived)}
        BY <2>1 DEF Recv, learnt
      <3>4. /\ session' \in {session, HeaderField(arrived, "Session")}
            /\ port' \in {port, RTPPort(arrived)}
        BY <2>1 DEF Recv, learnt
      <3> QED
        BY <3>2, <3>3, <3>4 DEF TypeInv, LearntTypeOK
    <2>2. CASE RecvNothing
      BY <2>2 DEF RecvNothing, TypeInv, LearntTypeOK
    <2> QED
      BY <2>1, <2>2
  <1> QED
    BY <1>1, <1>2, <1>3, <1>4 DEF TypeInv

(* The scanner numbers its answers like the requests.                      *)
LEMMA AnswerTypes == TypeInv /\ Answer => TypeInv'
  <1> SUFFICES ASSUME TypeInv, Answer PROVE TypeInv'
    OBVIOUS
  <1>1. PICK a \in Answers(Head(requests).method, Head(requests).seq) : coming' = coming \o a
    BY DEF Answer
  <1>2. Head(requests) \in NumberedRequest /\ requests' \in Seq(NumberedRequest)
    BY HeadTailProperties DEF Answer, TypeInv, StreamTypeOK
  <1>3. Head(requests).method \in Methods /\ Head(requests).seq \in Numbers
    BY <1>2 DEF NumberedRequest
  <1>4. /\ a \in Seq(Line) /\ \A i \in 1..Len(a) : a[i].of = Head(requests).seq
    BY <1>1, <1>3, AnswerShape, NumberRange
  <1>5. a \in Seq(NumberedLine)
    <2>1. Len(a) \in Nat /\ a = [i \in 1..Len(a) |-> a[i]] /\ \A i \in 1..Len(a) : a[i] \in Line
      BY <1>4, SeqDef, LenProperties, ElementOfSeq
    <2>2. \A i \in 1..Len(a) : a[i] \in NumberedLine
      BY <1>3, <1>4, <2>1 DEF Line, NumberedLine
    <2> QED
      BY <2>1, <2>2, IsASeq
  <1>6. coming' \in Seq(NumberedLine)
    BY <1>1, <1>5, ConcatProperties DEF TypeInv, StreamTypeOK
  <1> QED
    BY <1>2, <1>6 DEF Answer, TypeInv, SocketTypeOK, LearntTypeOK, StreamTypeOK, SeqInRange, socketVars, learnt

(* And TCP does not change them.                                           *)
LEMMA ArriveTypes == TypeInv /\ Arrive => TypeInv'
  <1> SUFFICES ASSUME TypeInv, Arrive PROVE TypeInv'
    OBVIOUS
  <1>1. PICK n \in 1..Len(coming) : /\ arrived' = arrived \o SubSeq(coming, 1, n)
                                   /\ coming' = SubSeq(coming, n + 1, Len(coming))
    BY DEF Arrive
  <1>2. coming \in Seq(NumberedLine) /\ Len(coming) \in Nat
    BY LenProperties DEF TypeInv, StreamTypeOK
  <1>3. SubSeq(coming, 1, n) \in Seq(NumberedLine) /\ coming' \in Seq(NumberedLine)
    BY <1>1, <1>2, SubSeqProperties, ElementOfSeq
  <1>4. arrived' \in Seq(NumberedLine)
    BY <1>1, <1>3, ConcatProperties DEF TypeInv, StreamTypeOK
  <1> QED
    BY <1>3, <1>4 DEF Arrive, TypeInv, SocketTypeOK, LearntTypeOK, StreamTypeOK, SeqInRange, socketVars, learnt

(* Every step keeps the types.                                             *)
LEMMA NextTypes == IInv /\ TypeInv /\ [Next]_vars => TypeInv'
  <1> SUFFICES ASSUME IInv, TypeInv, [Next]_vars PROVE TypeInv'
    OBVIOUS
  <1>1. CASE Send
    BY <1>1, SendTypes
  <1>2. CASE Recv \/ RecvNothing
    BY <1>2, ReadTypes
  <1>3. CASE Answer
    BY <1>3, AnswerTypes
  <1>4. CASE Arrive
    BY <1>4, ArriveTypes
  <1>5. CASE Connect \/ ConnectFails
    <2>1. UNCHANGED <<seq, status, learnt, requests, streamVars, split>>
      BY <1>5 DEF Connect, ConnectFails
    <2>2. pc' \in {"connecting", "over"} /\ nonblocking' \in BOOLEAN
      BY <1>5 DEF Connect, ConnectFails, SetBlocking, TypeInv, SocketTypeOK
    <2>3. pollret' \in {pollret, "SREADY", "STIMEOUT"}
      BY <1>5 DEF Connect, ConnectFails
    <2> QED
      BY <2>1, <2>2, <2>3 DEF TypeInv, SocketTypeOK, LearntTypeOK, StreamTypeOK, SeqInRange, learnt, streamVars
  <1>6. CASE Connected
    <2>1. UNCHANGED <<status, learnt, requests, streamVars, split>> /\ seq' = FirstSeq
      BY <1>6 DEF Connected
    <2>2. nonblocking' \in BOOLEAN /\ pollret' \in {"SREADY", "SERROR"}
      BY <1>6 DEF Connected, SetBlocking, TypeInv, SocketTypeOK
    <2>3. SeqInRange'
      BY <2>1, NumberRange DEF SeqInRange
    <2> QED
      BY <2>1, <2>2, <2>3 DEF TypeInv, SocketTypeOK, LearntTypeOK, StreamTypeOK, learnt, streamVars
  <1>7. CASE Stop
    <2>1. pc = "send" /\ UNCHANGED <<socketVars, seq, status, learnt, requests, streamVars, split>>
      BY <1>7 DEF Stop
    <2> QED
      BY <2>1 DEF TypeInv, SocketTypeOK, LearntTypeOK, StreamTypeOK, SeqInRange, socketVars, learnt, streamVars
  <1>8. CASE Close
    <2>1. closed' = TRUE /\ UNCHANGED <<socketVars, pc, seq, status, learnt, requests, coming, arrived, split>>
      BY <1>8 DEF Close
    <2> QED
      BY <2>1 DEF TypeInv, SocketTypeOK, LearntTypeOK, StreamTypeOK, SeqInRange, socketVars, learnt
  <1>9. CASE UNCHANGED vars
    BY <1>9 DEF vars, TypeInv, SocketTypeOK, LearntTypeOK, StreamTypeOK, SeqInRange, socketVars, learnt, streamVars
  <1> QED
    BY <1>1, <1>2, <1>3, <1>4, <1>5, <1>6, <1>7, <1>8, <1>9 DEF Next, Terminated

(* The type invariant, for every number of keepalives.                     *)
THEOREM TypeCorrect == Spec => []TypeOK
  <1>1. IInv /\ TypeInv => TypeOK
    BY DEF IInv, Types, TypeInv, SocketTypeOK, LearntTypeOK, StreamTypeOK, SeqInRange, NumberedLine,
           NumberedRequest, TypeOK, Text
  <1>2. Spec => []TypeInv
    BY InitTypes, Invariance, NextTypes, PTL DEF Spec
  <1> QED
    BY <1>1, <1>2, Invariance, PTL

-----------------------------------------------------------------------------
(* The conversation implements the dialogue: what the network does to the  *)
(* answers decides between the outcomes that RtspDialogue allows, and never*)
(* adds one.                                                               *)

(* Where the thread is, by its request.                                    *)
LEMMA AtTheRequest ==
    /\ pc = "start" => At = "none"
    /\ pc = "connecting" => At = "connect"
    /\ pc \in {"send", "recv"} /\ method \in Dialogue!SetUp => At = method
    /\ pc \in {"send", "recv"} /\ method = "KEEPALIVE" => At = "loop"
    /\ pc \in {"send", "recv"} /\ method = "TEARDOWN" => At = "teardown"
  BY DEF At, Dialogue!SetUp

(* The same of the next state, with the ways in which a session ends.      *)
LEMMA NextAtTheRequest ==
    /\ pc' = "connecting" => At' = "connect"
    /\ pc' \in {"send", "recv"} /\ method' \in Dialogue!SetUp => At' = method'
    /\ pc' \in {"send", "recv"} /\ method' = "KEEPALIVE" => At' = "loop"
    /\ pc' \in {"send", "recv"} /\ method' = "TEARDOWN" => At' = "teardown"
    /\ pc' = "over" => At' = IF method' = "TEARDOWN" THEN "tornDown" ELSE "gaveUp"
    /\ pc' \in {"null", "uncaught"} => At' = pc'
  BY DEF At, Dialogue!SetUp

(* What execute does with an answer, or with none, is in the dialogue.     *)
LEMMA ContinueDialogue ==
    ASSUME Types, InTurn, pc = "recv", Continue, pollret' = "STIMEOUT" => status' # 200
    PROVE  Dialogue!Next \/ UNCHANGED <<At, rtp>>
  <1>0. method = "KEEPALIVE" \/ method \in Dialogue!SetUp
    BY DEF Types, InTurn, Methods, Dialogue!SetUp
  <1>1. CASE method = "KEEPALIVE" /\ status' = 200
    BY <1>1, AtTheRequest, NextAtTheRequest DEF Continue
  <1>2. CASE method = "KEEPALIVE" /\ status' # 200
    <2>1. LeaveLoop
      BY <1>2 DEF Continue
    <2>2. Dialogue!LeavesLoop
      BY <1>2, <2>1, AtTheRequest, NextAtTheRequest DEF LeaveLoop, Dialogue!LeavesLoop
    <2> QED
      BY <2>2 DEF Dialogue!Next
  <1>3. CASE method \in Dialogue!SetUp /\ pollret' = "STIMEOUT"
    <2>1. pc' = "over" /\ method' = method /\ rtp' = rtp
      BY <1>3 DEF Continue, Dialogue!SetUp
    <2>2. Dialogue!TimesOut
      BY <1>3, <2>1, AtTheRequest, NextAtTheRequest DEF Dialogue!TimesOut, Dialogue!SetUp
    <2> QED
      BY <2>2 DEF Dialogue!Next
  <1>4. CASE method \in Dialogue!SetUp /\ pollret' # "STIMEOUT" /\ status' # 200
    <2>1. pc' = "send" /\ method' = "KEEPALIVE" /\ rtp' = rtp
      BY <1>4 DEF Continue, Dialogue!SetUp
    <2>2. Dialogue!Refused
      BY <1>4, <2>1, AtTheRequest, NextAtTheRequest DEF Dialogue!Refused
    <2> QED
      BY <2>2 DEF Dialogue!Next
  <1>5. CASE method = "PLAY" /\ status' = 200
    <2>1. pc' = "send" /\ method' = "KEEPALIVE" /\ rtp' = TRUE
      BY <1>5 DEF Continue
    <2>2. Dialogue!Accepted
      BY <1>5, <2>1, AtTheRequest, NextAtTheRequest DEF Dialogue!Accepted, Dialogue!SetUp
    <2> QED
      BY <2>2 DEF Dialogue!Next
  <1>6. CASE method \in Dialogue!SetUp \ {"PLAY"} /\ status' = 200
    <2>1. pc' = "send" /\ method' = NextMethod[method] /\ rtp' = rtp
      BY <1>6 DEF Continue, Dialogue!SetUp
    <2>2. NextMethod[method] \in Dialogue!SetUp /\ NextMethod[method] = Dialogue!Following[method]
      BY <1>6 DEF NextMethod, Dialogue!Following, Dialogue!SetUp
    <2>3. Dialogue!Accepted
      BY <1>6, <2>1, <2>2, AtTheRequest, NextAtTheRequest DEF Dialogue!Accepted
    <2> QED
      BY <2>3 DEF Dialogue!Next
  <1> QED
    BY <1>0, <1>1, <1>2, <1>3, <1>4, <1>5, <1>6

(* A recv ends in what execute does with its answer, or in an exception.   *)
LEMMA ReadDialogue ==
    ASSUME IInv, Recv \/ RecvNothing
    PROVE  Dialogue!Next \/ UNCHANGED <<At, rtp>>
  <1>0. Types /\ InTurn /\ pc = "recv"
    BY DEF IInv, Recv, RecvNothing
  <1>1. CASE Recv /\ Throws(arrived)
    <2>1. pc' = "uncaught" /\ rtp' = rtp /\ (method = "KEEPALIVE" \/ method \in Dialogue!SetUp)
      BY <1>0, <1>1 DEF Recv, Types, InTurn, Methods, Dialogue!SetUp
    <2>2. Dialogue!Uncaught
      BY <1>0, <2>1, AtTheRequest, NextAtTheRequest DEF Dialogue!Uncaught
    <2> QED
      BY <2>2 DEF Dialogue!Next
  <1>2. CASE Recv /\ ~Throws(arrived)
    <2>1. Continue /\ pollret' = "SREADY"
      BY <1>2 DEF Recv
    <2> QED
      BY <1>0, <2>1, ContinueDialogue
  <1>3. CASE RecvNothing
    <2>1. Continue /\ status' # 200
      BY <1>3 DEF RecvNothing
    <2> QED
      BY <1>0, <2>1, ContinueDialogue
  <1> QED
    BY <1>1, <1>2, <1>3

(* A request that is sent is not yet answered, but TEARDOWN's answer is not*)
(* waited for.                                                             *)
LEMMA SendDialogue == IInv /\ Send => Dialogue!Next \/ UNCHANGED <<At, rtp>>
  <1> SUFFICES ASSUME IInv, Send PROVE Dialogue!Next \/ UNCHANGED <<At, rtp>>
    OBVIOUS
  <1>1. pc = "send" /\ method' = method /\ rtp' = rtp /\ method \in Methods
    BY DEF Send, IInv, Types
  <1>2. CASE method = "TEARDOWN"
    <2>1. Dialogue!TearsDown
      BY <1>1, <1>2, AtTheRequest, NextAtTheRequest DEF Send, Dialogue!TearsDown
    <2> QED
      BY <2>1 DEF Dialogue!Next
  <1>3. CASE method # "TEARDOWN"
    BY <1>1, <1>3, AtTheRequest, NextAtTheRequest DEF Send, Methods, Dialogue!SetUp
  <1> QED
    BY <1>2, <1>3

(* Every step maps to a step of the dialogue or to a stutter.              *)
LEMMA NextDialogue == IInv /\ [Next]_vars => [Dialogue!Next]_(Dialogue!vars)
  <1> SUFFICES ASSUME IInv, [Next]_vars PROVE Dialogue!Next \/ UNCHANGED <<At, rtp>>
    BY DEF Dialogue!vars
  <1>1. CASE Connect
    <2>1. Dialogue!Begin
      BY <1>1, AtTheRequest, NextAtTheRequest DEF Connect, IInv, InTurn, Dialogue!Begin
    <2> QED
      BY <2>1 DEF Dialogue!Next
  <1>2. CASE Connected
    <2>1. pc = "connecting" /\ pc' = "send" /\ method' = "OPTIONS" /\ rtp' = rtp
      BY <1>2 DEF Connected, IInv, InTurn
    <2>2. Dialogue!Connects
      BY <2>1, AtTheRequest, NextAtTheRequest DEF Dialogue!Connects, Dialogue!SetUp
    <2> QED
      BY <2>2 DEF Dialogue!Next
  <1>3. CASE ConnectFails
    <2>1. pc = "connecting" /\ pc' = "over" /\ method' = "OPTIONS" /\ rtp' = rtp
      BY <1>3 DEF ConnectFails, IInv, InTurn
    <2>2. Dialogue!ConnectFails
      BY <2>1, AtTheRequest, NextAtTheRequest DEF Dialogue!ConnectFails
    <2> QED
      BY <2>2 DEF Dialogue!Next
  <1>4. CASE Stop
    <2>1. Dialogue!LeavesLoop
      BY <1>4, AtTheRequest, NextAtTheRequest DEF Stop, LeaveLoop, Dialogue!LeavesLoop
    <2> QED
      BY <2>1 DEF Dialogue!Next
  <1>5. CASE Send
    BY <1>5, SendDialogue
  <1>6. CASE Recv \/ RecvNothing
    BY <1>6, ReadDialogue
  <1>7. CASE Answer \/ Arrive \/ Close \/ UNCHANGED vars
    BY <1>7 DEF Answer, Arrive, Close, vars, At
  <1> QED
    BY <1>1, <1>2, <1>3, <1>4, <1>5, <1>6, <1>7 DEF Next, Terminated

(* However the network cuts and delays the answers, and whenever the       *)
(* scanner closes, the thread goes the way of RtspDialogue, as does        *)
(* AudioSession's, with any number of keepalives.                          *)
THEOREM ExchangeImplementsDialogue == Spec => ImplementsDialogue
  <1>1. Init => Dialogue!Init
    BY DEF Init, Dialogue!Init, At
  <1> QED
    BY <1>1, NextDialogue, Invariance, PTL DEF Spec, Dialogue!Spec, ImplementsDialogue
=============================================================================
