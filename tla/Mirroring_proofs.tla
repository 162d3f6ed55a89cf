---------------------------- MODULE Mirroring_proofs ----------------------------
(***************************************************************************)
(* Proofs about two parts of mirroring that share no state: MirrorSession, *)
(* for every size of the connection's and the socket's buffers, and        *)
(* H264Parser, for every stream of well-made units and every way to cut    *)
(* it.                                                                     *)
(*                                                                         *)
(* MirrorSession: what was asked of the receiver is a function of the      *)
(* sender's step, of its order and of the receiver's wish to skip RECORD:  *)
(* Asked says which, and no failure in between leads from one step to      *)
(* another.  The dump of a dropped session is bounded because the thread   *)
(* that may still dump has not yet done so (Dumps).                        *)
(* A connection accepted and not closed is the one that its listener's     *)
(* thread is at (Serving), and the set-up's step bounds how many           *)
(* connections there are (Made): with the types these two are inductive.   *)
(*                                                                         *)
(* H264Parser: a state is described by what was pushed alone.  The units   *)
(* given are the first ones due, as many as show their end, and the buffer *)
(* is the stream from there on (Kept).  A turn of either loop takes the    *)
(* next unit when its end is seen and nothing else (Cut), so that the loop *)
(* takes all of these (LoopTakes), by induction over its turns.  The       *)
(* induction theorems of the library take an operator as a parameter; here *)
(* the induction is over a set of numbers (SetInduction), of which the one *)
(* that is smallest is found by the well-founded order of Nat.             *)
(***************************************************************************)
EXTENDS MirrorSession, H264Parser, SequenceTheorems, WellFoundedInduction, TLAPS

\* What has been answered when the sender is at a step.
Asked ==
    /\ pc = "ports" => asked = <<>>
    /\ pc = "control" => modern /\ asked = <<>>
    /\ pc = "event1" => asked = IF modern THEN <<"control">> ELSE <<"audio">>
    /\ pc = "record" => ~skip /\ asked = IF modern THEN <<"control">> ELSE <<"audio", "video">>
    /\ pc = "audio" => asked = IF ~modern THEN <<>>
                               ELSE IF skip THEN <<"control">> ELSE <<"control", "RECORD">>
    /\ pc = "video" => asked = IF ~modern THEN <<"audio">>
                               ELSE IF skip THEN <<"control", "audio">>
                               ELSE <<"control", "RECORD", "audio">>
    /\ pc \in {"event2", "data"} =>
           asked = IF ~modern THEN <<"audio", "video">>
                   ELSE IF skip THEN <<"control", "audio", "video">>
                   ELSE <<"control", "RECORD", "audio", "video">>
    /\ pc = "stream" =>
           asked = IF modern THEN IF skip THEN <<"control", "audio", "video">>
                                  ELSE <<"control", "RECORD", "audio", "video">>
                   ELSE IF skip THEN <<"audio", "video">> ELSE <<"audio", "video", "RECORD">>

\* The sender's variables, as far as Asked needs their types.
SenderTyped == modern \in BOOLEAN /\ skip \in BOOLEAN /\ evPort \in BOOLEAN

\* The thread of the audio socket, and what it has dumped too late.
Dumps ==
    /\ rtp \in [at : {"none", "check", "pass", "recv", "gone"}, timed : BOOLEAN]
    /\ late \in 0..1
    /\ media # "dropped" => late = 0
    /\ rtp.at \in {"pass", "recv"} => late = 0
--------------------------------------------------------------------------------
\* A request appended to those before it: two, three, one or none.
LEMMA AppendToTwo ==
    ASSUME NEW S, NEW a \in S, NEW b \in S, NEW x \in S
    PROVE  Append(<<a, b>>, x) = <<a, b, x>>
<1> DEFINE before == <<a, b>>
           after == <<a, b, x>>
<1>1. before \in Seq(S) /\ after \in Seq(S) OBVIOUS
<1>2. Append(before, x) \in Seq(S) /\ Len(Append(before, x)) = 3
  BY <1>1, AppendProperties
<1>3. \A i \in 1..3 : Append(before, x)[i] = after[i] OBVIOUS
<1> QED BY <1>1, <1>2, <1>3, SeqEqual

LEMMA AppendToThree ==
    ASSUME NEW S, NEW a \in S, NEW b \in S, NEW c \in S, NEW x \in S
    PROVE  Append(<<a, b, c>>, x) = <<a, b, c, x>>
<1> DEFINE before == <<a, b, c>>
           after == <<a, b, c, x>>
<1>1. before \in Seq(S) /\ after \in Seq(S) OBVIOUS
<1>2. Append(before, x) \in Seq(S) /\ Len(Append(before, x)) = 4
  BY <1>1, AppendProperties
<1>3. \A i \in 1..4 : Append(before, x)[i] = after[i] OBVIOUS
<1> QED BY <1>1, <1>2, <1>3, SeqEqual

LEMMA AppendToOne ==
    ASSUME NEW S, NEW a \in S, NEW x \in S
    PROVE  Append(<<a>>, x) = <<a, x>>
<1> DEFINE before == <<a>>
           after == <<a, x>>
<1>1. before \in Seq(S) /\ after \in Seq(S) OBVIOUS
<1>2. Append(before, x) \in Seq(S) /\ Len(Append(before, x)) = 2
  BY <1>1, AppendProperties
<1>3. \A i \in 1..2 : Append(before, x)[i] = after[i] OBVIOUS
<1> QED BY <1>1, <1>2, <1>3, SeqEqual

LEMMA AppendToNone == ASSUME NEW S, NEW x \in S PROVE Append(<<>>, x) = <<x>>
<1> DEFINE after == <<x>>
<1>1. after \in Seq(S) /\ <<>> \in Seq(S) OBVIOUS
<1>2. Append(<<>>, x) \in Seq(S) /\ Len(Append(<<>>, x)) = 1
  BY <1>1, AppendProperties
<1>3. \A i \in 1..1 : Append(<<>>, x)[i] = after[i] OBVIOUS
<1> QED BY <1>1, <1>2, <1>3, SeqEqual

\* What every request of the two orders makes of the requests before it.
LEMMA RequestsAppend ==
    /\ Append(<<>>, "control") = <<"control">>
    /\ Append(<<>>, "audio") = <<"audio">>
    /\ Append(<<"control">>, "RECORD") = <<"control", "RECORD">>
    /\ Append(<<"control">>, "audio") = <<"control", "audio">>
    /\ Append(<<"audio">>, "video") = <<"audio", "video">>
    /\ Append(<<"control", "RECORD">>, "audio") = <<"control", "RECORD", "audio">>
    /\ Append(<<"control", "audio">>, "video") = <<"control", "audio", "video">>
    /\ Append(<<"audio", "video">>, "RECORD") = <<"audio", "video", "RECORD">>
    /\ Append(<<"control", "RECORD", "audio">>, "video") = <<"control", "RECORD", "audio", "video">>
<1> DEFINE S == Phases \cup {"RECORD"}
<1>1. "control" \in S /\ "RECORD" \in S /\ "audio" \in S /\ "video" \in S
  BY DEF Phases
<1> HIDE DEF S
<1>2. Append(<<>>, "control") = <<"control">>
  BY <1>1, AppendToNone, Zenon
<1>3. Append(<<>>, "audio") = <<"audio">>
  BY <1>1, AppendToNone, Zenon
<1>4. Append(<<"control">>, "RECORD") = <<"control", "RECORD">>
  BY <1>1, AppendToOne, Zenon
<1>5. Append(<<"control">>, "audio") = <<"control", "audio">>
  BY <1>1, AppendToOne, Zenon
<1>6. Append(<<"audio">>, "video") = <<"audio", "video">>
  BY <1>1, AppendToOne, Zenon
<1>7. Append(<<"control", "RECORD">>, "audio") = <<"control", "RECORD", "audio">>
  BY <1>1, AppendToTwo, Zenon
<1>8. Append(<<"control", "audio">>, "video") = <<"control", "audio", "video">>
  BY <1>1, AppendToTwo, Zenon
<1>9. Append(<<"audio", "video">>, "RECORD") = <<"audio", "video", "RECORD">>
  BY <1>1, AppendToTwo, Zenon
<1>10. Append(<<"control", "RECORD", "audio">>, "video") = <<"control", "RECORD", "audio", "video">>
  BY <1>1, AppendToThree
<1> QED BY <1>2, <1>3, <1>4, <1>5, <1>6, <1>7, <1>8, <1>9, <1>10, Zenon

(* At the start nothing was asked, opened or dumped. *)
LEMMA InitEstablishes == Init => SenderTyped /\ Asked /\ Dumps
<1> SUFFICES ASSUME Init PROVE SenderTyped /\ Asked /\ Dumps OBVIOUS
<1>1. SenderTyped BY DEF Init, SenderTyped
<1>2. Asked BY DEF Init, Asked
<1>3. Dumps BY DEF Init, Dumps
<1> QED BY <1>1, <1>2, <1>3

(* The order and the receiver's wish keep their types. *)
LEMMA StepTyped == SenderTyped /\ [Next]_vars => SenderTyped'
<1> SUFFICES ASSUME SenderTyped, [Next]_vars PROVE SenderTyped'
  OBVIOUS
<1> USE DEF SenderTyped, senderVars, receiverVars
<1>1. CASE FindPorts BY <1>1 DEF FindPorts
<1>2. ASSUME NEW phase \in Phases, Setup(phase) PROVE SenderTyped'
  BY <1>2 DEF Setup, Tells
<1>3. CASE ConnectEvent BY <1>3 DEF ConnectEvent
<1>4. CASE ConnectData BY <1>4 DEF ConnectData
<1>5. CASE Record BY <1>5 DEF Record
<1>6. CASE WriteFrame \/ SendDatagram \/ EventTimeout \/ Teardown \/ Exit
  BY <1>6 DEF WriteFrame, SendDatagram, EventTimeout, Teardown, Exit
<1>7. ASSUME NEW t \in Listeners, Drain(t) PROVE SenderTyped'
  BY <1>7 DEF Drain, Accept, CheckStop, Read
<1>8. CASE DrainCheck \/ DrainBegin \/ DrainRecv \/ DropMedia
  BY <1>8 DEF DrainCheck, DrainBegin, DrainRecv, DropMedia
<1>9. CASE UNCHANGED vars BY <1>9 DEF vars
<1> QED BY <1>1, <1>2, <1>3, <1>4, <1>5, <1>6, <1>7, <1>8, <1>9 DEF Next, Sender

\* An answered SETUP leads to the step of the next request.
LEMMA SetupAsks ==
    ASSUME SenderTyped, Asked, NEW phase \in Phases, Setup(phase)
    PROVE  Asked'
<1>0. /\ pc = phase /\ modern' = modern
      /\ SenderTyped'
  BY DEF Setup, SenderTyped, Tells
<1>1. CASE pc' = "failed"
  BY <1>1 DEF Asked
<1>2. CASE /\ asked' = Append(asked, phase)
           /\ pc' = AfterSetup(phase)
           /\ Tells(phase) \/ skip' = skip
  <2>1. CASE phase = "control"
    <3>1. asked = <<>> /\ modern BY <1>0, <2>1 DEF Asked
    <3>2. asked' = <<"control">> BY <1>2, <2>1, <3>1, RequestsAppend, Zenon
    <3>3. pc' \in {"event1", IF skip' THEN "audio" ELSE "record"}
      BY <1>2, <2>1 DEF AfterSetup, RecordNext, Tells
    <3> QED BY <1>0, <3>1, <3>2, <3>3 DEF Asked, SenderTyped
  <2>2. CASE phase = "audio"
    <3>1. pc' \in IF modern THEN {"video"} ELSE {"event1", "video"}
      BY <1>0, <1>2, <2>2 DEF AfterSetup, Tells
    <3>2. CASE modern
      <4>1. skip' = skip BY <1>2, <2>2, <3>2 DEF Tells
      <4>2. CASE skip
        <5>1. asked' = <<"control", "audio">>
          <6>1. asked = <<"control">> BY <1>0, <1>2, <2>2, <3>2, <4>2 DEF Asked
          <6>2. asked' = Append(<<"control">>, "audio") BY <1>0, <1>2, <2>2, <3>2, <4>2, <6>1
          <6> QED BY <6>1, <6>2, RequestsAppend, Zenon
        <5> QED BY <1>0, <3>1, <3>2, <4>1, <4>2, <5>1 DEF Asked
      <4>3. CASE ~skip
        <5>1. asked' = <<"control", "RECORD", "audio">>
          <6>1. asked = <<"control", "RECORD">> BY <1>0, <1>2, <2>2, <3>2, <4>3 DEF Asked
          <6>2. asked' = Append(<<"control", "RECORD">>, "audio") BY <1>0, <1>2, <2>2, <3>2, <4>3, <6>1
          <6> QED BY <6>1, <6>2, RequestsAppend, Zenon
        <5> QED BY <1>0, <3>1, <3>2, <4>1, <4>3, <5>1 DEF Asked
      <4> QED BY <4>2, <4>3
    <3>3. CASE ~modern
      <4>1. asked' = <<"audio">>
        <5>1. asked = <<>> BY <1>0, <1>2, <2>2, <3>3 DEF Asked
        <5>2. asked' = Append(<<>>, "audio") BY <1>0, <1>2, <2>2, <3>3, <5>1
        <5> QED BY <5>1, <5>2, RequestsAppend, Zenon
      <4> QED BY <1>0, <3>1, <3>3, <4>1 DEF Asked
    <3> QED BY <3>2, <3>3
  <2>3. CASE phase = "video"
    <3>1. pc' \in {"event2", "data"} /\ skip' = skip
      BY <1>2, <2>3 DEF AfterSetup, Tells
    <3>2. CASE ~modern
      <4>1. asked' = <<"audio", "video">>
        <5>1. asked = <<"audio">> BY <1>0, <1>2, <2>3, <3>2 DEF Asked
        <5>2. asked' = Append(<<"audio">>, "video") BY <1>0, <1>2, <2>3, <3>2, <5>1
        <5> QED BY <5>1, <5>2, RequestsAppend, Zenon
      <4> QED BY <1>0, <3>1, <3>2, <4>1 DEF Asked
    <3>3. CASE modern /\ skip
      <4>1. asked' = <<"control", "audio", "video">>
        <5>1. asked = <<"control", "audio">> BY <1>0, <1>2, <2>3, <3>3 DEF Asked
        <5>2. asked' = Append(<<"control", "audio">>, "video") BY <1>0, <1>2, <2>3, <3>3, <5>1
        <5> QED BY <5>1, <5>2, RequestsAppend, Zenon
      <4> QED BY <1>0, <3>1, <3>3, <4>1 DEF Asked
    <3>4. CASE modern /\ ~skip
      <4>1. asked' = <<"control", "RECORD", "audio", "video">>
        <5>1. asked = <<"control", "RECORD", "audio">> BY <1>0, <1>2, <2>3, <3>4 DEF Asked
        <5>2. asked' = Append(<<"control", "RECORD", "audio">>, "video") BY <1>0, <1>2, <2>3, <3>4, <5>1
        <5> QED BY <5>1, <5>2, RequestsAppend, Zenon
      <4> QED BY <1>0, <3>1, <3>4, <4>1 DEF Asked
    <3> QED BY <3>2, <3>3, <3>4
  <2> QED BY <2>1, <2>2, <2>3 DEF Phases
<1> QED BY <1>1, <1>2 DEF Setup

(* RECORD is asked at its place in either order. *)
LEMMA RecordAsks ==
    ASSUME SenderTyped, Asked, Record
    PROVE  Asked'
<1>1. pc = "record" /\ modern' = modern /\ skip' = skip /\ ~skip
  BY DEF Record, Asked
<1>2. CASE pc' = "failed" BY <1>2 DEF Asked
<1>3. CASE asked' = Append(asked, "RECORD") /\ pc' = IF modern THEN "audio" ELSE "stream"
  <2>1. CASE modern
    <3>1. asked' = <<"control", "RECORD">>
      <4>1. asked = <<"control">> BY <1>1, <1>3, <2>1 DEF Asked
      <4>2. asked' = Append(<<"control">>, "RECORD") BY <1>1, <1>3, <2>1, <4>1
      <4> QED BY <4>1, <4>2, RequestsAppend, Zenon
    <3> QED BY <1>1, <1>3, <2>1, <3>1 DEF Asked
  <2>2. CASE ~modern
    <3>1. asked' = <<"audio", "video", "RECORD">>
      <4>1. asked = <<"audio", "video">> BY <1>1, <1>3, <2>2 DEF Asked
      <4>2. asked' = Append(<<"audio", "video">>, "RECORD") BY <1>1, <1>3, <2>2, <4>1
      <4> QED BY <4>1, <4>2, RequestsAppend, Zenon
    <3> QED BY <1>1, <1>3, <2>2, <3>1 DEF Asked
  <2> QED BY <2>1, <2>2
<1> QED BY <1>2, <1>3 DEF Record

(* Every step asks what Asked says. *)
LEMMA StepAsks == SenderTyped /\ Asked /\ [Next]_vars => Asked'
<1> SUFFICES ASSUME SenderTyped, Asked, [Next]_vars PROVE Asked'
  OBVIOUS
<1>1. CASE FindPorts
  BY <1>1 DEF FindPorts, Asked, SenderTyped
<1>2. ASSUME NEW phase \in Phases, Setup(phase) PROVE Asked'
  BY <1>2, SetupAsks
<1>3. CASE ConnectEvent
  BY <1>3 DEF ConnectEvent, Connect, Asked, SenderTyped
<1>4. CASE ConnectData
  BY <1>4 DEF ConnectData, Connect, AfterData, Asked, SenderTyped
<1>5. CASE Record
  BY <1>5, RecordAsks
<1>6. CASE Teardown \/ Exit
  BY <1>6 DEF Teardown, Exit, Asked
<1>7. CASE UNCHANGED senderVars
  BY <1>7 DEF senderVars, Asked
<1>8. ASSUME NEW t \in Listeners, Drain(t) PROVE UNCHANGED senderVars
  BY <1>8 DEF Drain, Accept, CheckStop, Read
<1>9. ASSUME \/ WriteFrame \/ SendDatagram \/ EventTimeout
             \/ DrainCheck \/ DrainBegin \/ DrainRecv \/ DropMedia \/ UNCHANGED vars
      PROVE  UNCHANGED senderVars
  BY <1>9 DEF WriteFrame, SendDatagram, EventTimeout, DrainCheck, DrainBegin, DrainRecv, DropMedia, vars
<1> QED BY <1>1, <1>2, <1>3, <1>4, <1>5, <1>6, <1>7, <1>8, <1>9 DEF Next, Sender

(* A thread that has dumped too late never does again. *)
LEMMA StepDumps == Dumps /\ [Next]_vars => Dumps'
<1> SUFFICES ASSUME Dumps, [Next]_vars PROVE Dumps'
  OBVIOUS
<1> DEFINE Same == UNCHANGED <<media, rtp, late>>
<1>1. ASSUME NEW phase \in Phases, Setup(phase) PROVE Dumps'
  <2>1. late' = late BY <1>1 DEF Setup
  <2>2. CASE media # "dropped" /\ OpenMedia
    BY <2>1, <2>2 DEF OpenMedia, Dumps
  <2>3. CASE UNCHANGED <<media, loops, rtp>>
    BY <2>1, <2>3 DEF Dumps
  <2> QED BY <1>1, <2>2, <2>3 DEF Setup
<1>2. CASE DrainCheck BY <1>2 DEF DrainCheck, Dumps
<1>3. CASE DrainBegin BY <1>3 DEF DrainBegin, Dumps
<1>4. CASE DrainRecv BY <1>4 DEF DrainRecv, Dumps
<1>5. CASE DropMedia BY <1>5 DEF DropMedia, Dumps
<1>6. CASE Same BY <1>6 DEF Dumps
<1>7. ASSUME \/ FindPorts \/ ConnectEvent \/ ConnectData \/ Record \/ WriteFrame
             \/ SendDatagram \/ EventTimeout \/ Teardown \/ Exit \/ UNCHANGED vars
      PROVE  Same
  BY <1>7 DEF FindPorts, ConnectEvent, ConnectData, Record, WriteFrame, SendDatagram,
              EventTimeout, Teardown, Exit, vars, receiverVars
<1>8. ASSUME NEW t \in Listeners, Drain(t) PROVE Same
  BY <1>8 DEF Drain, Accept, CheckStop, Read
<1> QED BY <1>1, <1>2, <1>3, <1>4, <1>5, <1>6, <1>7, <1>8 DEF Next, Sender
--------------------------------------------------------------------------------
\* A session that streams was recorded exactly once and at its place, in both orders,
\* whatever failed or was answered on the way.
THEOREM StreamsAreRecorded == Spec => []Recorded
<1>1. Init => SenderTyped /\ Asked BY InitEstablishes
<1>2. SenderTyped /\ Asked /\ [Next]_vars => (SenderTyped /\ Asked)'
  BY StepTyped, StepAsks
<1>3. SenderTyped /\ Asked => Recorded BY DEF SenderTyped, Asked, Recorded
<1> QED BY <1>1, <1>2, <1>3, PTL DEF Spec

\* The audio thread of a dropped session dumps one datagram at most, however large
\* the socket's buffer is.
THEOREM DumpEnds == Spec => []DumpStops
<1>1. Init => Dumps BY InitEstablishes
<1>2. Dumps /\ [Next]_vars => Dumps' BY StepDumps
<1>3. Dumps => DumpStops BY DEF Dumps, DumpStops
<1> QED BY <1>1, <1>2, <1>3, PTL DEF Spec
--------------------------------------------------------------------------------
(* MirrorSession: types, and which connection a thread serves                      *)

AConn == [to : Listeners, up : BOOLEAN, place : {"queue", "accepted", "closed"}, unread : 0..Buffer]
AThread == [at : {"none", "accept", "check", "read", "gone"}, conn : 0..3]

\* The connections made so far are as many as the step of the set-up allows.
Made ==
    /\ pc \in {"ports", "control", "event1"} => conns = <<>>
    /\ pc = "audio" /\ ~modern => conns = <<>>
    /\ pc \in {"audio", "video", "event2"} => Len(conns) <= 1
    /\ pc = "record" /\ modern => Len(conns) <= 1
    /\ pc = "data" => Len(conns) <= 2

\* The connections accepted and not closed are those a thread of their listener is at.
Serving ==
    /\ media = "none" => \A t \in Listeners : loops[t].at = "none"
    /\ \A t \in Listeners : loops[t].at \in {"check", "read"} =>
          /\ loops[t].conn \in DOMAIN conns
          /\ conns[loops[t].conn].to = t /\ conns[loops[t].conn].place = "accepted"
    /\ \A k \in DOMAIN conns : conns[k].place = "accepted" =>
          loops[conns[k].to].at \in {"check", "read"} /\ loops[conns[k].to].conn = k

\* TypeOK by the parts that steps change together.
SenderIs ==
    /\ modern \in BOOLEAN /\ evPort \in BOOLEAN /\ skip \in BOOLEAN
    /\ pc \in Phases \cup {"ports", "event1", "event2", "record", "data", "stream", "done",
                           "failed", "gone"}
    /\ asked \in Seq(Phases \cup {"RECORD"})

ThreadsAre ==
    /\ conns \in Seq(AConn) /\ Len(conns) <= 3
    /\ media \in {"none", "open", "dropped"}
    /\ loops \in [Listeners -> AThread]

SocketIs ==
    /\ rtp \in [at : {"none", "check", "pass", "recv", "gone"}, timed : BOOLEAN]
    /\ heard \in 0..Backlog /\ late \in Nat

SessionInv == SenderIs /\ ThreadsAre /\ SocketIs /\ Made /\ Serving
--------------------------------------------------------------------------------
\* A session that has asked nothing has made no connection and started no thread.
LEMMA SessionStarts == Init => SessionInv
<1> SUFFICES ASSUME Init PROVE SessionInv  OBVIOUS
<1>0. asked \in Seq(Phases \cup {"RECORD"})  BY EmptySeq DEF Init
<1>1. SenderIs  BY <1>0, Zenon DEF Init, SenderIs, Phases
<1>2. conns = <<>> /\ Len(conns) = 0 /\ DOMAIN conns = {}  BY DEF Init
<1>3. ThreadsAre  BY <1>2 DEF Init, ThreadsAre, AThread
<1>4. SocketIs  BY BoundsAreNat DEF Init, SocketIs
<1>5. Made  BY <1>2 DEF Init, Made
<1>6. Serving  BY <1>2 DEF Init, Serving
<1> QED  BY <1>1, <1>3, <1>4, <1>5, <1>6 DEF SessionInv

\* The sender's own variables, and the socket's.
LEMMA SenderStays == SenderIs /\ [Next]_vars => SenderIs'
<1> SUFFICES ASSUME SenderIs, [Next]_vars PROVE SenderIs'  OBVIOUS
<1> USE DEF SenderIs, Phases
<1>1. CASE UNCHANGED vars  BY <1>1 DEF vars, senderVars
<1>2. CASE FindPorts  BY <1>2 DEF FindPorts
<1>3. ASSUME NEW phase \in Phases, Setup(phase) PROVE SenderIs'
  <2>1. /\ evPort' \in BOOLEAN /\ skip' \in BOOLEAN /\ modern' = modern
    BY <1>3 DEF Setup
  <2>2. AfterSetup(phase) \in {"event1", "event2", "data", "audio", "record", "video"}
    BY <1>3 DEF AfterSetup, RecordNext
  <2>3. pc' = "failed" \/ pc' = AfterSetup(phase)
    BY <1>3 DEF Setup
  <2>4. asked' = asked \/ asked' = Append(asked, phase)
    BY <1>3 DEF Setup
  <2> QED  BY <2>1, <2>2, <2>3, <2>4
<1>4. CASE ConnectEvent  BY <1>4 DEF ConnectEvent, Connect
<1>5. CASE ConnectData  BY <1>5 DEF ConnectData, Connect, AfterData
<1>6. CASE Record  BY <1>6 DEF Record
<1>7. CASE WriteFrame \/ SendDatagram \/ EventTimeout
  BY <1>7 DEF WriteFrame, SendDatagram, EventTimeout, senderVars
<1>8. CASE Teardown \/ Exit  BY <1>8 DEF Teardown, Exit
<1>9. ASSUME NEW t \in Listeners, Drain(t) PROVE SenderIs'
  BY <1>9 DEF Drain, Accept, CheckStop, Read, senderVars
<1>10. CASE DrainCheck \/ DrainBegin \/ DrainRecv \/ DropMedia
  BY <1>10 DEF DrainCheck, DrainBegin, DrainRecv, DropMedia, senderVars
<1> QED
  BY <1>1, <1>2, <1>3, <1>4, <1>5, <1>6, <1>7, <1>8, <1>9, <1>10 DEF Next, Sender

\* The socket's own: what is buffered in it and what comes late.
LEMMA SocketStays == SocketIs /\ [Next]_vars => SocketIs'
<1> SUFFICES ASSUME SocketIs, [Next]_vars PROVE SocketIs'  OBVIOUS
<1> USE BoundsAreNat DEF SocketIs, receiverVars
<1>1. CASE UNCHANGED vars  BY <1>1 DEF vars
<1>2. CASE FindPorts \/ ConnectEvent \/ ConnectData \/ Record
  BY <1>2 DEF FindPorts, ConnectEvent, ConnectData, Record
<1>3. ASSUME NEW phase \in Phases, Setup(phase) PROVE SocketIs'
  BY <1>3 DEF Setup, OpenMedia
<1>4. CASE WriteFrame \/ EventTimeout \/ Teardown \/ Exit
  BY <1>4 DEF WriteFrame, EventTimeout, Teardown, Exit
<1>5. CASE SendDatagram  BY <1>5 DEF SendDatagram
<1>6. ASSUME NEW t \in Listeners, Drain(t) PROVE SocketIs'
  BY <1>6 DEF Drain, Accept, CheckStop, Read
<1>7. CASE DrainCheck  BY <1>7 DEF DrainCheck
<1>8. CASE DrainBegin  BY <1>8 DEF DrainBegin
<1>9. CASE DrainRecv  BY <1>9 DEF DrainRecv
<1>10. CASE DropMedia  BY <1>10 DEF DropMedia
<1> QED  BY <1>1, <1>2, <1>3, <1>4, <1>5, <1>6, <1>7, <1>8, <1>9, <1>10 DEF Next, Sender
--------------------------------------------------------------------------------
\* A connection replaced by another.
LEMMA Replaced ==
    ASSUME NEW S, NEW s \in Seq(S), NEW k \in DOMAIN s, NEW c \in S,
           NEW d, d = [s EXCEPT ![k] = c]
    PROVE  /\ d \in Seq(S) /\ Len(d) = Len(s) /\ DOMAIN d = DOMAIN s
           /\ d[k] = c /\ \A j \in DOMAIN s : j # k => d[j] = s[j]
<1>1. DOMAIN s = 1..Len(s) /\ Len(s) \in Nat  BY LenProperties
<1>2. DOMAIN d = DOMAIN s  OBVIOUS
<1>3. d[k] = c /\ \A j \in DOMAIN s : j # k => d[j] = s[j]  OBVIOUS
<1>4. \A j \in DOMAIN s : s[j] \in S  BY <1>1, ElementOfSeq
<1>5. \A j \in DOMAIN s : d[j] \in S  BY <1>3, <1>4
<1>6. d \in [1..Len(s) -> S]  BY <1>1, <1>5
<1>7. d \in Seq(S) /\ Len(d) = Len(s)  BY <1>1, <1>6
<1> QED  BY <1>2, <1>3, <1>7

\* Connections that stay where they are: their threads still serve them.
StayPlaced(d) ==
    /\ d \in Seq(AConn) /\ Len(d) = Len(conns)
    /\ \A k \in DOMAIN conns : d[k].to = conns[k].to /\ d[k].place = conns[k].place

\* A step that moves neither a connection nor a listener's thread.
LEMMA PlacesServed ==
    ASSUME ThreadsAre, Serving, StayPlaced(conns'), loops' = loops,
           media' \in {media, "dropped"}, media = "none" => media' = "none"
    PROVE  ThreadsAre' /\ Serving' /\ Len(conns') = Len(conns)
<1>1. DOMAIN conns' = DOMAIN conns  BY LenProperties DEF StayPlaced, ThreadsAre
<1>2. ThreadsAre'  BY DEF StayPlaced, ThreadsAre
<1>3. \A k \in DOMAIN conns : conns'[k].to = conns[k].to /\ conns'[k].place = conns[k].place
  BY DEF StayPlaced
<1>4. media' = "none" => media = "none"  OBVIOUS
<1>5. Serving'  BY <1>1, <1>3, <1>4 DEF Serving
<1> QED  BY <1>2, <1>5 DEF StayPlaced

\* The connections as they are.
LEMMA ConnsStay == ASSUME ThreadsAre PROVE StayPlaced(conns)
BY DEF ThreadsAre, StayPlaced

\* One connection changes, and stays where it is.
LEMMA OneStays ==
    ASSUME ThreadsAre, NEW k \in DOMAIN conns, NEW c \in AConn,
           c.to = conns[k].to, c.place = conns[k].place
    PROVE  StayPlaced([conns EXCEPT ![k] = c])
<1> DEFINE d == [conns EXCEPT ![k] = c]
<1>1. conns \in Seq(AConn)  BY DEF ThreadsAre
<1>2. d \in Seq(AConn) /\ Len(d) = Len(conns) /\ d[k] = c
      /\ \A j \in DOMAIN conns : j # k => d[j] = conns[j]
  BY <1>1, Replaced
<1> HIDE DEF d
<1>3. \A j \in DOMAIN conns : d[j].to = conns[j].to /\ d[j].place = conns[j].place
  BY <1>2
<1>4. StayPlaced(d)  BY <1>2, <1>3 DEF StayPlaced
<1> QED  BY <1>4 DEF d

\* All of them change, and stay where they are.
LEMMA AllStay ==
    ASSUME ThreadsAre, NEW d, d = [k \in DOMAIN conns |-> d[k]],
           \A k \in DOMAIN conns : d[k] \in AConn /\ d[k].to = conns[k].to
                                   /\ d[k].place = conns[k].place
    PROVE  StayPlaced(d)
<1>1. DOMAIN conns = 1..Len(conns) /\ Len(conns) \in Nat  BY LenProperties DEF ThreadsAre
<1>2. d \in [1..Len(conns) -> AConn]  BY <1>1
<1>3. d \in Seq(AConn) /\ Len(d) = Len(conns)  BY <1>1, <1>2
<1> QED  BY <1>3 DEF StayPlaced

\* A connection joins the queue: no thread is at it.
LEMMA QueuedServed ==
    ASSUME ThreadsAre, Serving, NEW t \in Listeners, Len(conns) <= 2,
           conns' = Append(conns, Connection(t)), loops' = loops, media' = media
    PROVE  ThreadsAre' /\ Serving' /\ Len(conns') = Len(conns) + 1
<1> DEFINE c == Connection(t)
           n == Len(conns)
<1>1. c \in AConn /\ c.place = "queue"  BY BoundsAreNat DEF Connection, AConn
<1>2. conns \in Seq(AConn) /\ n \in Nat /\ DOMAIN conns = 1..n
  BY LenProperties DEF ThreadsAre
<1> HIDE DEF c
<1>3. conns' = Append(conns, c)  BY DEF c
<1>4. /\ conns' \in Seq(AConn) /\ Len(conns') = n + 1 /\ DOMAIN conns' = 1..(n + 1)
      /\ \A i \in 1..n : conns'[i] = conns[i]
      /\ conns'[n + 1] = c
  BY <1>1, <1>2, <1>3, AppendProperties, LenProperties
<1>5. ThreadsAre'  BY <1>4 DEF ThreadsAre
<1>6. \A k \in DOMAIN conns' : conns'[k].place = "accepted" =>
         k \in DOMAIN conns /\ conns'[k] = conns[k]
  BY <1>1, <1>2, <1>4
<1>7. \A k \in DOMAIN conns : k \in DOMAIN conns' /\ conns'[k] = conns[k]
  BY <1>2, <1>4
<1>8. Serving'  BY <1>6, <1>7 DEF Serving
<1> QED  BY <1>4, <1>5, <1>8

\* What is known of any one connection.
LEMMA ConnsAre ==
    ASSUME ThreadsAre, NEW k \in DOMAIN conns
    PROVE  conns[k] \in AConn /\ conns[k].to \in Listeners
<1>1. conns \in Seq(AConn)  BY DEF ThreadsAre
<1>2. k \in 1..Len(conns)  BY <1>1, LenProperties
<1>3. conns[k] \in AConn  BY <1>1, <1>2, ElementOfSeq
<1>4. conns[k].to \in Listeners  BY <1>3 DEF AConn
<1> QED  BY <1>3, <1>4

\* The first SETUP starts the threads; none was at a connection before.
LEMMA OpenServed ==
    ASSUME ThreadsAre, Serving, OpenMedia, conns' = conns
    PROVE  ThreadsAre' /\ Serving'
<1>1. CASE media = "none"
  <2>1. loops' = [t \in Listeners |-> [at |-> "accept", conn |-> 0]] /\ media' = "open"
    BY <1>1 DEF OpenMedia
  <2>2. ThreadsAre'  BY <2>1 DEF ThreadsAre, AThread
  <2>3. \A k \in DOMAIN conns : conns[k].to \in Listeners
    BY ConnsAre
  <2>4. \A k \in DOMAIN conns : conns[k].place # "accepted"
    BY <1>1, <2>3 DEF Serving
  <2>5. Serving'  BY <2>1, <2>4 DEF Serving
  <2> QED  BY <2>2, <2>5
<1>2. CASE media # "none"
  <2>1. loops' = loops /\ media' = "open"  BY <1>2 DEF OpenMedia
  <2>2. ThreadsAre'  BY <2>1 DEF ThreadsAre
  <2>3. Serving'  BY <2>1 DEF Serving
  <2> QED  BY <2>2, <2>3
<1> QED  BY <1>1, <1>2

\* A step of a listener's thread: it comes to a connection, stays at it or leaves it.
LEMMA ThreadMoves ==
    ASSUME ThreadsAre, Serving, media # "none", media' = media,
           NEW t \in Listeners, NEW k \in DOMAIN conns, conns[k].to = t,
           NEW c \in AConn, c.to = t, conns' = [conns EXCEPT ![k] = c],
           NEW h \in AThread, loops' = [loops EXCEPT ![t] = h],
           loops[t].at \in {"check", "read"} => loops[t].conn = k,
           h.at \in {"check", "read"} => h.conn = k,
           h.at \in {"check", "read"} <=> c.place = "accepted"
    PROVE  ThreadsAre' /\ Serving' /\ Len(conns') = Len(conns)
<1>1. conns \in Seq(AConn) /\ Len(conns) <= 3 /\ loops \in [Listeners -> AThread]
  BY DEF ThreadsAre
<1>2. /\ conns' \in Seq(AConn) /\ Len(conns') = Len(conns) /\ DOMAIN conns' = DOMAIN conns
      /\ conns'[k] = c /\ \A j \in DOMAIN conns : j # k => conns'[j] = conns[j]
  BY <1>1, Replaced
<1>3. /\ loops' \in [Listeners -> AThread] /\ loops'[t] = h
      /\ \A u \in Listeners : u # t => loops'[u] = loops[u]
  BY <1>1
<1>4. ThreadsAre'  BY <1>2, <1>3 DEF ThreadsAre
<1>5. ASSUME NEW u \in Listeners, loops'[u].at \in {"check", "read"}
      PROVE  /\ loops'[u].conn \in DOMAIN conns'
             /\ conns'[loops'[u].conn].to = u /\ conns'[loops'[u].conn].place = "accepted"
  <2>1. CASE u = t  BY <1>2, <1>3, <1>5, <2>1
  <2>2. CASE u # t
    <3>1. loops'[u] = loops[u]  BY <1>3, <2>2
    <3>2. /\ loops[u].conn \in DOMAIN conns /\ conns[loops[u].conn].to = u
          /\ conns[loops[u].conn].place = "accepted"
      BY <1>5, <3>1 DEF Serving
    <3>3. loops[u].conn # k  BY <2>2, <3>2
    <3> QED  BY <1>2, <3>1, <3>2, <3>3
  <2> QED  BY <2>1, <2>2
<1>6. ASSUME NEW j \in DOMAIN conns', conns'[j].place = "accepted"
      PROVE  loops'[conns'[j].to].at \in {"check", "read"} /\ loops'[conns'[j].to].conn = j
  <2>1. CASE j = k  BY <1>2, <1>3, <1>6, <2>1
  <2>2. CASE j # k
    <3>1. j \in DOMAIN conns /\ conns'[j] = conns[j]  BY <1>2, <2>2
    <3>2. loops[conns[j].to].at \in {"check", "read"} /\ loops[conns[j].to].conn = j
      BY <1>6, <3>1 DEF Serving
    <3>3. conns[j].to # t  BY <2>2, <3>2
    <3>4. conns[j].to \in Listeners
      BY <3>1, ConnsAre
    <3> QED  BY <1>3, <3>1, <3>2, <3>3, <3>4
  <2> QED  BY <2>1, <2>2
<1>7. Serving'  BY <1>5, <1>6 DEF Serving
<1> QED  BY <1>2, <1>4, <1>7

\* A listener's thread accepts, looks at the flag or reads.
LEMMA DrainServes ==
    ASSUME ThreadsAre, Serving, NEW t \in Listeners, Drain(t)
    PROVE  ThreadsAre' /\ Serving' /\ Len(conns') = Len(conns)
<1>1. /\ conns \in Seq(AConn) /\ Len(conns) <= 3 /\ Len(conns) \in Nat
      /\ DOMAIN conns = 1..Len(conns) /\ loops \in [Listeners -> AThread]
  BY LenProperties DEF ThreadsAre
<1>2. \A k \in DOMAIN conns : conns[k] \in AConn /\ k \in 0..3
  BY <1>1, ElementOfSeq
<1>3. media' = media  BY DEF Drain, Accept, CheckStop, Read
<1>4. media # "none"
  BY DEF Serving, Drain, Accept, CheckStop, Read
<1>5. loops[t] \in AThread  BY <1>1
<1>6. CASE Accept(t)
  <2>1. PICK k \in DOMAIN conns :
          /\ conns[k].to = t /\ conns[k].place = "queue"
          /\ IF media = "dropped"
             THEN /\ loops' = [loops EXCEPT ![t].at = "gone"]
                  /\ conns' = [conns EXCEPT ![k].place = "closed"]
             ELSE /\ loops' = [loops EXCEPT ![t] = [at |-> "check", conn |-> k]]
                  /\ conns' = [conns EXCEPT ![k].place = "accepted"]
    BY <1>6 DEF Accept
  <2>2. loops[t].at = "accept"  BY <1>6 DEF Accept
  <2>3. CASE media = "dropped"
    <3> DEFINE c == [conns[k] EXCEPT !.place = "closed"]
               h == [loops[t] EXCEPT !.at = "gone"]
    <3>1. c \in AConn /\ c.to = t /\ c.place = "closed"  BY <1>2, <2>1 DEF AConn
    <3>2. h \in AThread /\ h.at = "gone"  BY <1>5 DEF AThread
    <3>3. conns' = [conns EXCEPT ![k] = c] /\ loops' = [loops EXCEPT ![t] = h]
      BY <2>1, <2>3
    <3> HIDE DEF c, h
    <3> QED  BY <1>3, <1>4, <2>1, <2>2, <3>1, <3>2, <3>3, ThreadMoves, Zenon
  <2>4. CASE media # "dropped"
    <3> DEFINE c == [conns[k] EXCEPT !.place = "accepted"]
               h == [at |-> "check", conn |-> k]
    <3>1. c \in AConn /\ c.to = t /\ c.place = "accepted"  BY <1>2, <2>1 DEF AConn
    <3>2. h \in AThread /\ h.at = "check" /\ h.conn = k  BY <1>2, <2>1 DEF AThread
    <3>3. conns' = [conns EXCEPT ![k] = c] /\ loops' = [loops EXCEPT ![t] = h]
      BY <2>1, <2>4
    <3> HIDE DEF c, h
    <3> QED  BY <1>3, <1>4, <2>1, <2>2, <3>1, <3>2, <3>3, ThreadMoves, Zenon
  <2> QED  BY <2>3, <2>4
<1>7. CASE loops[t].at \in {"check", "read"}
  <2>1. PICK k \in DOMAIN conns :
          loops[t].conn = k /\ conns[k].to = t /\ conns[k].place = "accepted"
    BY <1>7 DEF Serving
  <2>2. CASE CloseConn(t)
    <3> DEFINE c == [conns[k] EXCEPT !.place = "closed"]
               h == [at |-> "accept", conn |-> 0]
    <3>1. c \in AConn /\ c.to = t /\ c.place = "closed"  BY <1>2, <2>1 DEF AConn
    <3>2. h \in AThread /\ h.at = "accept"  BY DEF AThread
    <3>3. conns' = [conns EXCEPT ![k] = c] /\ loops' = [loops EXCEPT ![t] = h]
      BY <2>1, <2>2 DEF CloseConn
    <3> HIDE DEF c, h
    <3> QED  BY <1>3, <1>4, <2>1, <3>1, <3>2, <3>3, ThreadMoves, Zenon
  <2>3. CASE conns' = conns /\ loops' = [loops EXCEPT ![t].at = "read"]
    <3> DEFINE h == [loops[t] EXCEPT !.at = "read"]
    <3>1. conns' = [conns EXCEPT ![k] = conns[k]]  BY <1>1, <2>3
    <3>2. h \in AThread /\ h.at = "read" /\ h.conn = k  BY <1>5, <2>1 DEF AThread
    <3>3. loops' = [loops EXCEPT ![t] = h]  BY <2>3
    <3> HIDE DEF h
    <3> QED  BY <1>2, <1>3, <1>4, <2>1, <3>1, <3>2, <3>3, ThreadMoves, Zenon
  <2>4. CASE conns' = [conns EXCEPT ![k].unread = 0] /\ loops' = [loops EXCEPT ![t].at = "check"]
    <3> DEFINE c == [conns[k] EXCEPT !.unread = 0]
               h == [loops[t] EXCEPT !.at = "check"]
    <3>1. c \in AConn /\ c.to = t /\ c.place = "accepted"
      BY <1>2, <2>1, BoundsAreNat DEF AConn
    <3>2. h \in AThread /\ h.at = "check" /\ h.conn = k  BY <1>5, <2>1 DEF AThread
    <3>3. conns' = [conns EXCEPT ![k] = c] /\ loops' = [loops EXCEPT ![t] = h]
      BY <2>4
    <3> HIDE DEF c, h
    <3> QED  BY <1>3, <1>4, <2>1, <3>1, <3>2, <3>3, ThreadMoves, Zenon
  <2>5. CASE CheckStop(t)  BY <2>2, <2>3, <2>5 DEF CheckStop
  <2>6. CASE Read(t)  BY <2>1, <2>2, <2>4, <2>6 DEF Read
  <2>7. ~Accept(t)  BY <1>7 DEF Accept
  <2> QED  BY <2>5, <2>6, <2>7 DEF Drain
<1>8. Accept(t) \/ loops[t].at \in {"check", "read"}  BY DEF Drain, CheckStop, Read
<1> QED  BY <1>6, <1>7, <1>8

\* The steps that are neither an accept nor a connect.
LEMMA OthersServe ==
    ASSUME SenderIs, ThreadsAre, Serving,
           \/ FindPorts \/ Record \/ WriteFrame \/ SendDatagram \/ EventTimeout \/ Teardown \/ Exit
           \/ DrainCheck \/ DrainBegin \/ DrainRecv \/ DropMedia \/ UNCHANGED vars
    PROVE  ThreadsAre' /\ Serving' /\ Len(conns') = Len(conns)
<1>1. loops' = loops /\ media' \in {media, "dropped"} /\ (media = "none" => media' = "none")
  BY DEF FindPorts, Record, WriteFrame, SendDatagram, EventTimeout, Teardown, Exit,
         DrainCheck, DrainBegin, DrainRecv, DropMedia, vars, receiverVars
<1>2. CASE conns' = conns
  <2>1. StayPlaced(conns')  BY <1>2, ConnsStay
  <2> QED  BY <1>1, <2>1, PlacesServed
<1>3. CASE WriteFrame
  <2>1. PICK k \in DOMAIN conns :
          conns[k].unread < Buffer /\ conns' = [conns EXCEPT ![k].unread = @ + 1]
    BY <1>3, Zenon DEF WriteFrame
  <2> DEFINE c == [conns[k] EXCEPT !.unread = @ + 1]
  <2>2. conns[k] \in AConn  BY ConnsAre
  <2>3. c \in AConn /\ c.to = conns[k].to /\ c.place = conns[k].place
    BY <2>1, <2>2, BoundsAreNat DEF AConn
  <2>4. conns' = [conns EXCEPT ![k] = c]  BY <2>1
  <2> HIDE DEF c
  <2>5. StayPlaced(conns')  BY <2>3, <2>4, OneStays, Zenon
  <2> QED  BY <1>1, <2>5, PlacesServed
<1>4. CASE EventTimeout
  <2>1. PICK k \in DOMAIN conns : conns' = [conns EXCEPT ![k].up = FALSE]
    BY <1>4, Zenon DEF EventTimeout
  <2> DEFINE c == [conns[k] EXCEPT !.up = FALSE]
  <2>2. conns[k] \in AConn  BY ConnsAre
  <2>3. c \in AConn /\ c.to = conns[k].to /\ c.place = conns[k].place
    BY <2>2, Zenon DEF AConn
  <2>4. conns' = [conns EXCEPT ![k] = c]  BY <2>1
  <2> HIDE DEF c
  <2>5. StayPlaced(conns')  BY <2>3, <2>4, OneStays, Zenon
  <2> QED  BY <1>1, <2>5, PlacesServed
<1>5. CASE Teardown \/ Exit
  <2>1. conns' = [k \in DOMAIN conns |-> conns'[k]]  BY <1>5 DEF Teardown, Exit
  <2>2. ASSUME NEW k \in DOMAIN conns
        PROVE  conns'[k] \in AConn /\ conns'[k].to = conns[k].to
               /\ conns'[k].place = conns[k].place
    <3>1. conns'[k] = conns[k] \/ conns'[k] = [conns[k] EXCEPT !.up = FALSE]
      BY <1>5, Zenon DEF Teardown, Exit
    <3>2. conns[k] \in AConn  BY ConnsAre
    <3> QED  BY <3>1, <3>2, Zenon DEF AConn
  <2>3. StayPlaced(conns')  BY <2>1, <2>2, AllStay
  <2> QED  BY <1>1, <2>3, PlacesServed
<1>6. conns' = conns \/ WriteFrame \/ EventTimeout \/ Teardown \/ Exit
  BY DEF FindPorts, Record, SendDatagram, DrainCheck, DrainBegin, DrainRecv, DropMedia, vars
<1> QED  BY <1>2, <1>3, <1>4, <1>5, <1>6

\* A step of the set-up that makes a connection or none.
LEMMA ConnectServes ==
    ASSUME ThreadsAre, Serving, loops' = loops, media' = media,
           NEW t \in Listeners, NEW next, Connect(t, next), Len(conns) <= 2
    PROVE  /\ ThreadsAre' /\ Serving'
           /\ (pc' = next /\ Len(conns') = Len(conns) + 1) \/ pc' = "failed"
<1>1. CASE conns' = Append(conns, Connection(t)) /\ pc' = next
  <2>1. ThreadsAre' /\ Serving' /\ Len(conns') = Len(conns) + 1  BY <1>1, QueuedServed
  <2> QED  BY <1>1, <2>1
<1>2. CASE conns' = conns /\ pc' = "failed"
  <2>1. StayPlaced(conns')  BY <1>2, ConnsStay
  <2>2. media' \in {media, "dropped"} /\ (media = "none" => media' = "none")  OBVIOUS
  <2>3. ThreadsAre' /\ Serving'  BY <2>1, <2>2, PlacesServed
  <2> QED  BY <1>2, <2>3
<1> QED  BY <1>1, <1>2 DEF Connect

\* Each step keeps the threads at the connections they serve, and makes no connection
\* more than its place in the set-up allows.
LEMMA ThreadsStay == SessionInv /\ [Next]_vars => ThreadsAre' /\ Serving' /\ Made'
<1> SUFFICES ASSUME SenderIs, ThreadsAre, Made, Serving, [Next]_vars
             PROVE  ThreadsAre' /\ Serving' /\ Made'
  BY DEF SessionInv
<1>0. Len(conns) \in Nat /\ Len(conns) <= 3 /\ ((conns = <<>>) <=> (Len(conns) = 0))
  BY EmptySeq, LenProperties DEF ThreadsAre
<1>a. ASSUME ThreadsAre' PROVE (conns' = <<>>) <=> (Len(conns') = 0)
  BY <1>a, EmptySeq, LenProperties DEF ThreadsAre
<1>1. ASSUME Len(conns') = Len(conns), ThreadsAre', modern' = modern,
             pc' = pc \/ pc' \in {"failed", "stream", "done", "gone"}
      PROVE  Made'
  BY <1>0, <1>1, <1>a DEF Made
<1>2. CASE FindPorts
  <2>1. ThreadsAre' /\ Serving' /\ Len(conns') = Len(conns)  BY <1>2, OthersServe
  <2>2. conns = <<>> /\ pc' \in {"control", "audio", "failed"} /\ modern' = modern
    BY <1>2 DEF FindPorts, Made
  <2>3. Made'  BY <1>0, <1>a, <2>1, <2>2 DEF Made
  <2> QED  BY <2>1, <2>3
<1>3. ASSUME NEW phase \in Phases, Setup(phase) PROVE ThreadsAre' /\ Serving' /\ Made'
  <2>1. conns' = conns /\ modern' = modern /\ pc = phase  BY <1>3 DEF Setup
  <2>2. OpenMedia \/ UNCHANGED <<media, loops>>  BY <1>3 DEF Setup
  <2>3. ASSUME OpenMedia PROVE ThreadsAre' /\ Serving'
    BY <2>1, <2>3, OpenServed
  <2>4. ASSUME UNCHANGED <<media, loops>> PROVE ThreadsAre' /\ Serving'
    <3>1. StayPlaced(conns')  BY <2>1, ConnsStay
    <3>2. loops' = loops /\ media' \in {media, "dropped"} /\ (media = "none" => media' = "none")
      BY <2>4
    <3> QED  BY <3>1, <3>2, PlacesServed
  <2>5. ThreadsAre' /\ Serving'  BY <2>2, <2>3, <2>4
  <2>6. pc' = "failed" \/ pc' = AfterSetup(phase)  BY <1>3 DEF Setup
  <2>7. CASE pc' = "failed"  BY <1>1, <2>1, <2>5, <2>7
  <2>8. CASE pc' = AfterSetup(phase)
    <3>1. CASE phase = "control"
      <4>1. conns = <<>>  BY <2>1, <3>1 DEF Made
      <4>2. pc' \in {"event1", "audio", "record"}
        BY <2>8, <3>1 DEF AfterSetup, RecordNext, Tells
      <4> QED  BY <1>0, <2>1, <2>5, <4>1, <4>2 DEF Made
    <3>2. CASE phase = "audio"
      <4>1. Len(conns) <= 1 /\ (~modern => conns = <<>>)  BY <2>1, <3>2 DEF Made
      <4>2. pc' = "video" \/ (pc' = "event1" /\ ~modern)
        BY <2>8, <3>2 DEF AfterSetup, Tells
      <4> QED  BY <1>0, <2>1, <2>5, <4>1, <4>2 DEF Made
    <3>3. CASE phase = "video"
      <4>1. Len(conns) <= 1  BY <2>1, <3>3 DEF Made
      <4>2. pc' \in {"event2", "data"}
        BY <2>8, <3>3 DEF AfterSetup, Tells
      <4> QED  BY <1>0, <2>1, <2>5, <4>1, <4>2 DEF Made
    <3> QED  BY <3>1, <3>2, <3>3 DEF Phases
  <2> QED  BY <2>6, <2>7, <2>8
<1>4. CASE ConnectEvent
  <2>1. loops' = loops /\ media' = media /\ modern' = modern
    BY <1>4 DEF ConnectEvent, receiverVars
  <2>2. Len(conns) <= 1 /\ (pc = "event1" => Len(conns) = 0)
    BY <1>0, <1>4 DEF ConnectEvent, Made
  <2>3. PICK next : /\ Connect("event", next)
                    /\ \/ pc = "event1" /\ next = IF ~modern THEN "video"
                                                  ELSE IF skip THEN "audio" ELSE "record"
                       \/ pc = "event2" /\ next = "data"
    BY <1>4 DEF ConnectEvent
  <2>4. /\ ThreadsAre' /\ Serving'
        /\ (pc' = next /\ Len(conns') = Len(conns) + 1) \/ pc' = "failed"
    BY <1>0, <2>1, <2>2, <2>3, ConnectServes DEF Listeners
  <2>5. Made'
    BY <1>0, <2>1, <2>2, <2>3, <2>4 DEF Made
  <2> QED  BY <2>4, <2>5
<1>5. CASE ConnectData
  <2>1. loops' = loops /\ media' = media /\ modern' = modern
    BY <1>5 DEF ConnectData, receiverVars
  <2>2. Len(conns) <= 2 /\ Connect("video", AfterData)
    BY <1>0, <1>5 DEF ConnectData, Made
  <2>3. /\ ThreadsAre' /\ Serving'
        /\ pc' = AfterData \/ pc' = "failed"
    BY <2>1, <2>2, ConnectServes DEF Listeners
  <2>4. pc' \in {"stream", "failed"} \/ (pc' = "record" /\ ~modern)
    BY <2>3 DEF AfterData
  <2>5. Made'  BY <2>1, <2>4 DEF Made
  <2> QED  BY <2>3, <2>5
<1>6. CASE Record
  <2>1. ThreadsAre' /\ Serving' /\ Len(conns') = Len(conns)  BY <1>6, OthersServe
  <2>2. /\ modern' = modern /\ pc = "record"
        /\ pc' \in {"stream", "failed"} \/ (pc' = "audio" /\ modern)
    BY <1>6 DEF Record
  <2>3. Made'  BY <1>0, <2>1, <2>2 DEF Made
  <2> QED  BY <2>1, <2>3
<1>7. CASE \/ WriteFrame \/ SendDatagram \/ EventTimeout \/ Teardown \/ Exit
           \/ DrainCheck \/ DrainBegin \/ DrainRecv \/ DropMedia \/ UNCHANGED vars
  <2>1. ThreadsAre' /\ Serving' /\ Len(conns') = Len(conns)  BY <1>7, OthersServe
  <2>2. modern' = modern /\ (pc' = pc \/ pc' \in {"failed", "stream", "done", "gone"})
    BY <1>7 DEF WriteFrame, SendDatagram, EventTimeout, Teardown, Exit,
                DrainCheck, DrainBegin, DrainRecv, DropMedia, vars, senderVars
  <2> QED  BY <1>1, <2>1, <2>2
<1>8. ASSUME NEW t \in Listeners, Drain(t) PROVE ThreadsAre' /\ Serving' /\ Made'
  <2>1. ThreadsAre' /\ Serving' /\ Len(conns') = Len(conns)  BY <1>8, DrainServes
  <2>2. modern' = modern /\ pc' = pc
    BY <1>8 DEF Drain, Accept, CheckStop, Read, senderVars
  <2> QED  BY <1>1, <2>1, <2>2
<1> QED  BY <1>2, <1>3, <1>4, <1>5, <1>6, <1>7, <1>8 DEF Next, Sender

\* The inductive invariant of the session.
LEMMA SessionHolds == Spec => []SessionInv
<1>1. SessionInv /\ [Next]_vars => SessionInv'
  BY SenderStays, SocketStays, ThreadsStay DEF SessionInv
<1> QED  BY <1>1, SessionStarts, PTL DEF Spec

\* Every variable of a session keeps its type; three connections are made at most, the
\* number the set-up has, whatever fails.
THEOREM SessionTypeCorrect == Spec => []TypeOK
<1>1. SessionInv => TypeOK
  BY DEF SessionInv, SenderIs, ThreadsAre, SocketIs, TypeOK, AConn, AThread
<1> QED  BY <1>1, SessionHolds, PTL

\* A connection that a listener has accepted is served by that listener's thread until it
\* closes it: none is forgotten when the session is dropped, no thread is at another's.
THEOREM AcceptedAreServed == Spec => []Serving
<1>1. SessionInv => Serving  BY DEF SessionInv
<1> QED  BY <1>1, SessionHolds, PTL
--------------------------------------------------------------------------------
(* H264Parser: the units of a stream, given whole, in order and in time *)

(* Two sequences in one, place by place. *)
LEMMA Joined ==
    ASSUME NEW X, NEW s \in Seq(X), NEW t \in Seq(X)
    PROVE  /\ s \o t \in Seq(X) /\ Len(s \o t) = Len(s) + Len(t)
           /\ \A i \in 1..Len(s) : (s \o t)[i] = s[i]
           /\ \A i \in (Len(s) + 1)..(Len(s) + Len(t)) : (s \o t)[i] = t[i - Len(s)]
BY ConcatProperties

(* The first elements of a sequence. *)
LEMMA Firsts ==
    ASSUME NEW X, NEW s \in Seq(X), NEW k \in 0..Len(s)
    PROVE  /\ SubSeq(s, 1, k) \in Seq(X) /\ Len(SubSeq(s, 1, k)) = k
           /\ \A i \in 1..k : SubSeq(s, 1, k)[i] = s[i]
BY SubSeqProperties

(* An element behind the others. *)
LEMMA Appended ==
    ASSUME NEW X, NEW s \in Seq(X), NEW x \in X
    PROVE  /\ Append(s, x) \in Seq(X) /\ Len(Append(s, x)) = Len(s) + 1
           /\ \A i \in 1..Len(s) : Append(s, x)[i] = s[i]
           /\ Append(s, x)[Len(s) + 1] = x
BY AppendProperties

(* Of a set of numbers one is the smallest. *)
LEMMA SmallestOf ==
    ASSUME NEW S, S \subseteq Nat, S # {}
    PROVE  \E n \in S : \A m \in S : n <= m
<1> DEFINE R == OpToRel(<, Nat)
<1>1. IsWellFoundedOn(R, Nat)
  BY NatLessThanWellFounded
<1>2. \A x, y \in Nat : x < y => <<x, y>> \in R
  BY DEF OpToRel
<1> HIDE DEF R
<1>3. PICK n \in S : \A y \in S : ~(<<y, n>> \in R)
  BY <1>1, WFMin
<1>4. ASSUME NEW m \in S PROVE n <= m
  <2>1. ~(m < n)
    BY <1>2, <1>3
  <2> QED
    BY <2>1
<1> QED
  BY <1>4

(* A set that holds 0, and the next number with every one, holds all of them. *)
LEMMA SetInduction ==
    ASSUME NEW S, 0 \in S, \A n \in Nat : n \in S => n + 1 \in S
    PROVE  Nat \subseteq S
<1> SUFFICES ASSUME NEW k \in Nat \ S PROVE FALSE
  OBVIOUS
<1>1. PICK n \in Nat \ S : \A m \in Nat \ S : n <= m
  BY SmallestOf
<1>2. n # 0 /\ n - 1 \in Nat /\ (n - 1) + 1 = n
  BY <1>1
<1>3. n - 1 \in S
  BY <1>1, <1>2
<1> QED
  BY <1>1, <1>2, <1>3

\* A turn of either loop.
Turn(annexB, q) == IF annexB THEN TakeCoded(q) ELSE TakeSized(q)

\* The first L turns, from q on.
AreTurns(f, annexB, q, L) ==
    f = [n \in 0..L |-> IF n = 0 THEN q ELSE Turn(annexB, f[n - 1])]

(* The turns of a loop are a function, whatever a turn does. *)
LEMMA TurnsExist ==
    ASSUME NEW annexB, NEW q, NEW L \in Nat
    PROVE  \E f : AreTurns(f, annexB, q, L)
<1> DEFINE Is(f, k) == f = [n \in 0..k |-> IF n = 0 THEN q ELSE Turn(annexB, f[n - 1])]
           S == {k \in Nat : \E f : Is(f, k)}
<1>1. 0 \in S
  <2> DEFINE f == [n \in 0..0 |-> q]
  <2>1. Is(f, 0)
    OBVIOUS
  <2> QED
    BY <2>1, Zenon
<1>2. ASSUME NEW k \in Nat, k \in S PROVE k + 1 \in S
  <2>1. PICK f : Is(f, k)
    BY <1>2
  <2> DEFINE g == [n \in 0..(k + 1) |-> IF n = k + 1 THEN Turn(annexB, f[k]) ELSE f[n]]
  <2>2. ASSUME NEW n \in 0..(k + 1)
        PROVE  g[n] = IF n = 0 THEN q ELSE Turn(annexB, g[n - 1])
    <3>1. CASE n = 0
      <4>1. 0 # k + 1 /\ 0 \in 0..k
        OBVIOUS
      <4>2. f[0] = q
        BY <2>1, <4>1, Zenon
      <4> QED
        BY <3>1, <4>1, <4>2
    <3>2. CASE n # 0
      <4>1. n - 1 \in 0..(k + 1) /\ n - 1 # k + 1 /\ n - 1 \in 0..k
        BY <3>2
      <4>2. g[n - 1] = f[n - 1]
        BY <4>1, Zenon
      <4>3. CASE n = k + 1
        <5>1. n - 1 = k
          BY <4>3
        <5> QED
          BY <3>2, <4>2, <4>3, <5>1, Zenon
      <4>4. CASE n # k + 1
        <5>1. n \in 0..k
          BY <4>4
        <5>2. f[n] = Turn(annexB, f[n - 1])
          BY <2>1, <3>2, <5>1, Zenon
        <5> QED
          BY <3>2, <4>2, <4>4, <5>2, Zenon
      <4> QED
        BY <4>3, <4>4
    <3> QED
      BY <3>1, <3>2
  <2>3. Is(g, k + 1)
    BY <2>2, Zenon
  <2> HIDE DEF g
  <2>4. k + 1 \in Nat /\ \E h : Is(h, k + 1)
    BY <2>3
  <2> HIDE DEF Is
  <2> QED
    BY <2>4, Zenon
<1> HIDE DEF S
<1>3. L \in S
  BY <1>1, <1>2, SetInduction
<1> QED
  BY <1>3 DEF S, AreTurns

\* The turns of the loop on m bytes, and what it gives.
IsLoop(f, annexB, b, m) ==
    /\ Taken(annexB, b) = f[m] /\ f[0].nals = <<>> /\ f[0].rest = b
    /\ \A n \in 1..m : f[n] = Turn(annexB, f[n - 1])

(* The loop gives the last of its turns. *)
LEMMA Loop ==
    ASSUME NEW annexB, NEW b, NEW m \in Nat, m = Len(b)
    PROVE  \E f : IsLoop(f, annexB, b, m)
<1> DEFINE q0 == [nals |-> <<>>, rest |-> b]
           f == CHOOSE g : AreTurns(g, annexB, q0, m)
<1>1. AreTurns(f, annexB, q0, m)
  BY TurnsExist, Zenon
<1>2. Taken(annexB, b) = f[m]
  BY Zenon DEF Taken, Turn, AreTurns
<1>3. q0.nals = <<>> /\ q0.rest = b
  OBVIOUS
<1> HIDE DEF q0
<1>4. \A n \in 0..m : f[n] = IF n = 0 THEN q0 ELSE Turn(annexB, f[n - 1])
  BY <1>1, Zenon DEF AreTurns
<1> HIDE DEF f
<1>5. 0 \in 0..m /\ \A n \in 1..m : n \in 0..m /\ n # 0
  OBVIOUS
<1>6. f[0] = q0 /\ \A n \in 1..m : f[n] = Turn(annexB, f[n - 1])
  BY <1>4, <1>5, Zenon
<1> QED
  BY <1>2, <1>3, <1>6, Zenon DEF IsLoop

--------------------------------------------------------------------------------
\* The first L units of s joined, for every number of them.
AreJoined(f, s, L) ==
    f = [i \in 1..L |-> IF i = 1 THEN s[i] ELSE f[i - 1] \o s[i]]

(* The joined units are a function, as the turns of a loop are. *)
LEMMA JoinedExist ==
    ASSUME NEW s, NEW L \in Nat
    PROVE  \E f : AreJoined(f, s, L)
<1> DEFINE S == {k \in Nat : \E f : AreJoined(f, s, k)}
<1>1. 0 \in S
  <2> DEFINE f == [i \in 1..0 |-> s[i]]
  <2>1. AreJoined(f, s, 0)
    BY DEF AreJoined
  <2> QED
    BY <2>1, Zenon
<1>2. ASSUME NEW k \in Nat, k \in S PROVE k + 1 \in S
  <2>1. PICK f : AreJoined(f, s, k)
    BY <1>2
  <2> DEFINE g == [i \in 1..(k + 1) |-> IF i = k + 1
                                        THEN IF i = 1 THEN s[i] ELSE f[k] \o s[i]
                                        ELSE f[i]]
  <2>2. ASSUME NEW i \in 1..(k + 1)
        PROVE  g[i] = IF i = 1 THEN s[i] ELSE g[i - 1] \o s[i]
    <3>1. CASE i = k + 1
      <4>1. CASE i = 1
        BY <3>1, <4>1
      <4>2. CASE i # 1
        <5>1. i - 1 = k /\ k \in 1..(k + 1) /\ k # k + 1
          BY <3>1, <4>2
        <5>2. g[k] = f[k]
          BY <5>1, Zenon
        <5> QED
          BY <3>1, <4>2, <5>1, <5>2, Zenon
      <4> QED
        BY <4>1, <4>2
    <3>2. CASE i # k + 1
      <4>1. i \in 1..k
        BY <3>2
      <4>2. g[i] = f[i] /\ f[i] = IF i = 1 THEN s[i] ELSE f[i - 1] \o s[i]
        BY <2>1, <3>2, <4>1, Zenon DEF AreJoined
      <4>3. CASE i = 1
        BY <4>2, <4>3, Zenon
      <4>4. CASE i # 1
        <5>1. i - 1 \in 1..(k + 1) /\ i - 1 # k + 1
          BY <4>1, <4>4
        <5>2. g[i - 1] = f[i - 1]
          BY <5>1, Zenon
        <5> QED
          BY <4>2, <4>4, <5>2, Zenon
      <4> QED
        BY <4>3, <4>4
    <3> QED
      BY <3>1, <3>2
  <2>3. AreJoined(g, s, k + 1)
    BY <2>2, Zenon DEF AreJoined
  <2> HIDE DEF g
  <2> QED
    BY <2>3
<1> HIDE DEF S
<1>3. L \in S
  BY <1>1, <1>2, SetInduction
<1> QED
  BY <1>3 DEF S

(* FlattenSeq is the last of those. *)
LEMMA FlattenIsJoined ==
    ASSUME NEW s, Len(s) \in Nat, Len(s) # 0
    PROVE  \E f : AreJoined(f, s, Len(s)) /\ FlattenSeq(s) = f[Len(s)]
<1> DEFINE f == CHOOSE g : AreJoined(g, s, Len(s))
<1>1. AreJoined(f, s, Len(s))
  BY JoinedExist, Zenon
<1>2. FlattenSeq(s) = f[Len(s)]
  BY DEF FlattenSeq, AreJoined
<1> HIDE DEF f
<1> QED
  BY <1>1, <1>2, Zenon

(* Units of the same beginning are joined alike. *)
LEMMA JoinedAlike ==
    ASSUME NEW L \in Nat, NEW M \in 0..L,
           NEW s, NEW f, AreJoined(f, s, L), NEW t, NEW g, AreJoined(g, t, M),
           \A i \in 1..M : s[i] = t[i]
    PROVE  \A i \in 1..M : f[i] = g[i]
<1> DEFINE S == {n \in Nat : n + 1 <= M => f[n + 1] = g[n + 1]}
<1>0. /\ \A i \in 1..M : i \in 1..L
      /\ \A i \in 1..L : f[i] = IF i = 1 THEN s[i] ELSE f[i - 1] \o s[i]
      /\ \A i \in 1..M : g[i] = IF i = 1 THEN t[i] ELSE g[i - 1] \o t[i]
  <2>1. \A i \in 1..M : i \in 1..L
    OBVIOUS
  <2> QED
    BY <2>1, Zenon DEF AreJoined
<1>1. 0 \in S
  <2>1. ASSUME 1 <= M PROVE f[1] = g[1]
    <3>1. 1 \in 1..M
      BY <2>1
    <3> QED
      BY <1>0, <3>1, Zenon
  <2> QED
    BY <2>1
<1>2. ASSUME NEW n \in Nat, n \in S PROVE n + 1 \in S
  <2>1. ASSUME (n + 1) + 1 <= M PROVE f[(n + 1) + 1] = g[(n + 1) + 1]
    <3>1. /\ (n + 1) + 1 \in 1..M /\ (n + 1) + 1 # 1 /\ ((n + 1) + 1) - 1 = n + 1
          /\ n + 1 <= M
      BY <2>1
    <3>2. f[n + 1] = g[n + 1]
      BY <1>2, <3>1
    <3>3. PICK j : j = (n + 1) + 1
      OBVIOUS
    <3>4. j \in 1..M /\ j \in 1..L /\ j # 1 /\ j - 1 = n + 1
      BY <1>0, <3>1, <3>3, Zenon
    <3>5. f[j] = f[j - 1] \o s[j] /\ g[j] = g[j - 1] \o t[j] /\ s[j] = t[j]
      BY <1>0, <3>4, Zenon
    <3> QED
      BY <3>2, <3>3, <3>4, <3>5, Zenon
  <2> QED
    BY <2>1
<1> HIDE DEF S
<1>3. Nat \subseteq S
  BY <1>1, <1>2, SetInduction
<1>4. ASSUME NEW i \in 1..M PROVE f[i] = g[i]
  <2>1. i - 1 \in Nat /\ (i - 1) + 1 = i /\ i <= M
    OBVIOUS
  <2>2. i - 1 \in S
    BY <1>3, <2>1
  <2> QED
    BY <2>1, <2>2 DEF S
<1> QED
  BY <1>4

\* Units src laid out in str, the k-th ending at w[k].
Laid(src, str, w) ==
    /\ str \in Seq(Nat)
    /\ \A k \in 0..Len(src) : w[k] \in Nat
    /\ w[0] = 0 /\ w[Len(src)] = Len(str)
    /\ \A k \in 1..Len(src) :
          /\ w[k] = w[k - 1] + Len(src[k])
          /\ \A i \in 1..Len(src[k]) : str[w[k - 1] + i] = src[k][i]

(* The joined units are laid out one behind the other. *)
LEMMA FlattenLays ==
    ASSUME NEW src \in Seq(Seq(Nat))
    PROVE  \E w : /\ Laid(src, FlattenSeq(src), w)
                  /\ \A k \in 0..Len(src) : w[k] = Len(FlattenSeq(SubSeq(src, 1, k)))
<1>0. PICK N : N = Len(src)
  OBVIOUS
<1>1. N \in Nat /\ \A k \in 1..N : src[k] \in Seq(Nat)
  BY <1>0, LenProperties, ElementOfSeq
<1>2. PICK f : AreJoined(f, src, N)
  BY <1>1, JoinedExist
<1> DEFINE w == [k \in 0..N |-> IF k = 0 THEN 0 ELSE Len(f[k])]
           Stands(n) == /\ f[n] \in Seq(Nat) /\ Len(f[n]) = w[n - 1] + Len(src[n])
                        /\ \A k \in 1..n : \A i \in 1..Len(src[k]) :
                              /\ w[k - 1] \in Nat /\ w[k - 1] + i <= Len(f[n])
                              /\ f[n][w[k - 1] + i] = src[k][i]
           S == {n \in Nat : n + 1 <= N => Stands(n + 1)}
<1>3. /\ w[0] = 0 /\ \A k \in 1..N : w[k] = Len(f[k])
      /\ \A i \in 1..N : f[i] = IF i = 1 THEN src[i] ELSE f[i - 1] \o src[i]
  <2>1. 0 \in 0..N /\ \A k \in 1..N : k \in 0..N /\ k # 0
    BY <1>1
  <2> QED
    BY <1>2, <2>1, Zenon DEF AreJoined
<1> HIDE DEF w
<1>4. 0 \in S
  <2>1. ASSUME 1 <= N PROVE Stands(0 + 1)
    <3>1. 1 \in 1..N /\ 1 - 1 = 0 /\ 0 + 1 = 1
      BY <1>1, <2>1
    <3>2. f[1] = src[1] /\ src[1] \in Seq(Nat) /\ Len(src[1]) \in Nat
      BY <1>1, <1>3, <3>1, LenProperties
    <3>3. ASSUME NEW k \in 1..1, NEW i \in 1..Len(src[k])
          PROVE  /\ w[k - 1] \in Nat /\ w[k - 1] + i <= Len(f[1])
                 /\ f[1][w[k - 1] + i] = src[k][i]
      <4>1. k = 1 /\ k - 1 = 0 /\ 0 + i = i /\ 0 \in Nat
        OBVIOUS
      <4> QED
        BY <1>3, <3>2, <4>1
    <3>4. Len(f[1]) = w[1 - 1] + Len(src[1])
      BY <1>3, <3>1, <3>2
    <3>5. Stands(1)
      BY <3>1, <3>2, <3>3, <3>4, Zenon
    <3> QED
      BY <3>1, <3>5, Zenon
  <2> HIDE DEF Stands
  <2> QED
    BY <2>1
<1>5. ASSUME NEW n \in Nat, n \in S PROVE n + 1 \in S
  <2>1. ASSUME (n + 1) + 1 <= N PROVE Stands((n + 1) + 1)
    <3>0. PICK m : m = n + 1
      OBVIOUS
    <3>1. m \in Nat /\ m \in 1..N /\ m + 1 \in 1..N /\ m + 1 # 1 /\ (m + 1) - 1 = m
      BY <1>1, <2>1, <3>0
    <3>2. Stands(m)
      BY <1>5, <3>0, <3>1
    <3>3. PICK a, u : a = f[m] /\ u = src[m + 1]
      OBVIOUS
    <3>4. a \in Seq(Nat) /\ u \in Seq(Nat) /\ f[m + 1] = a \o u /\ w[m] = Len(a)
      BY <1>1, <1>3, <3>1, <3>2, <3>3
    <3>5. /\ a \o u \in Seq(Nat) /\ Len(a \o u) = Len(a) + Len(u) /\ Len(a) \in Nat /\ Len(u) \in Nat
          /\ \A i \in 1..Len(a) : (a \o u)[i] = a[i]
          /\ \A i \in 1..Len(u) : (a \o u)[Len(a) + i] = u[i]
      <4>1. PICK p, l : p = Len(a) /\ l = Len(u)
        OBVIOUS
      <4>2. p \in Nat /\ l \in Nat
        BY <3>4, <4>1, LenProperties
      <4>3. /\ a \o u \in Seq(Nat) /\ Len(a \o u) = Len(a) + Len(u)
            /\ \A i \in 1..Len(a) : (a \o u)[i] = a[i]
            /\ \A i \in (Len(a) + 1)..(Len(a) + Len(u)) : (a \o u)[i] = u[i - Len(a)]
        <5>1. a \in Seq(Nat) /\ u \in Seq(Nat)
          BY <3>4, Zenon
        <5> QED
          BY <5>1, Joined, Zenon
      <4>4. ASSUME NEW i \in 1..l PROVE (a \o u)[p + i] = u[i]
        <5>1. p + i \in (p + 1)..(p + l) /\ (p + i) - p = i
          BY <4>2
        <5> QED
          BY <4>1, <4>3, <5>1, Zenon
      <4> QED
        BY <4>1, <4>2, <4>3, <4>4, Zenon
    <3>6. ASSUME NEW k \in 1..(m + 1), NEW i \in 1..Len(src[k])
          PROVE  /\ w[k - 1] \in Nat /\ w[k - 1] + i <= Len(a \o u)
                 /\ (a \o u)[w[k - 1] + i] = src[k][i]
      <4>1. CASE k <= m
        <5>1. w[k - 1] \in Nat /\ w[k - 1] + i <= Len(a) /\ a[w[k - 1] + i] = src[k][i]
          BY <3>1, <3>2, <3>3, <4>1
        <5>2. w[k - 1] + i \in 1..Len(a) /\ w[k - 1] + i <= Len(a) + Len(u)
          <6>1. PICK x, y, z : x = w[k - 1] /\ y = Len(a) /\ z = Len(u)
            OBVIOUS
          <6>2. x \in Nat /\ y \in Nat /\ z \in Nat /\ x + i <= y /\ i \in 1..Len(src[k])
            BY <3>5, <5>1, <6>1, Zenon
          <6>3. x + i \in 1..y /\ x + i <= y + z
            BY <6>2
          <6> QED
            BY <6>1, <6>3, Zenon
        <5> QED
          BY <3>5, <5>1, <5>2, Zenon
      <4>2. CASE k > m
        <5>1. k = m + 1
          BY <3>1, <4>2
        <5>2. i \in 1..Len(u) /\ src[k] = u /\ w[k - 1] = Len(a)
          BY <3>1, <3>3, <3>4, <5>1
        <5>3. Len(a) + i <= Len(a) + Len(u)
          BY <3>5, <5>2
        <5> QED
          BY <3>5, <5>2, <5>3, Zenon
      <4>3. k <= m \/ k > m
        BY <3>1
      <4> QED
        BY <4>1, <4>2, <4>3, Zenon
    <3>7. Stands(m + 1)
      <4>1. /\ f[m + 1] \in Seq(Nat) /\ Len(f[m + 1]) = w[(m + 1) - 1] + Len(src[m + 1])
            /\ f[m + 1] = a \o u
        BY <3>1, <3>3, <3>4, <3>5, Zenon
      <4> QED
        BY <3>6, <4>1, Zenon
    <3> QED
      BY <3>0, <3>7
  <2> QED
    BY <2>1
<1> HIDE DEF S
<1>6. \A k \in 1..N : Stands(k)
  <2>1. Nat \subseteq S
    BY <1>4, <1>5, SetInduction
  <2> TAKE k \in 1..N
  <2>2. k - 1 \in Nat /\ (k - 1) + 1 = k /\ k <= N
    BY <1>1
  <2>3. k - 1 \in S
    BY <2>1, <2>2
  <2> QED
    BY <2>2, <2>3 DEF S
<1>7. ASSUME NEW k \in 0..N PROVE w[k] = Len(FlattenSeq(SubSeq(src, 1, k)))
  <2>1. PICK t : t = SubSeq(src, 1, k)
    OBVIOUS
  <2>2. Len(t) = k /\ k \in Nat /\ \A i \in 1..k : src[i] = t[i]
    BY <1>0, <1>1, <2>1, SubSeqProperties
  <2>3. CASE k = 0
    <3>1. FlattenSeq(t) = t
      BY <2>2, <2>3 DEF FlattenSeq
    <3> QED
      BY <1>3, <2>1, <2>2, <2>3, <3>1
  <2>4. CASE k # 0
    <3>1. PICK g : AreJoined(g, t, k) /\ FlattenSeq(t) = g[k]
      BY <2>2, <2>4, FlattenIsJoined
    <3>2. k \in 1..N /\ k \in 1..k
      BY <2>2, <2>4
    <3>3. f[k] = g[k]
      <4>1. \A i \in 1..k : src[i] = t[i]
        BY <2>2
      <4>2. N \in Nat /\ AreJoined(g, t, k)
        BY <1>1, <3>1, Zenon
      <4>3. \A i \in 1..k : f[i] = g[i]
        BY <1>2, <4>1, <4>2, JoinedAlike
      <4> QED
        BY <3>2, <4>3, Zenon
    <3> QED
      BY <1>3, <2>1, <3>1, <3>2, <3>3
  <2> QED
    BY <2>3, <2>4
<1>8. Laid(src, FlattenSeq(src), w)
  <2>1. CASE N = 0
    <3>1. FlattenSeq(src) = src /\ Len(src) = 0 /\ src = <<>> /\ src \in Seq(Nat)
      BY <1>0, <2>1, EmptySeq DEF FlattenSeq
    <3> QED
      BY <1>3, <3>1 DEF Laid
  <2>2. CASE N # 0
    <3>1. PICK g : AreJoined(g, src, N) /\ FlattenSeq(src) = g[N]
      BY <1>0, <1>1, <2>2, FlattenIsJoined
    <3>2. N \in 1..N
      BY <1>1, <2>2
    <3>3. f[N] = g[N]
      BY <1>1, <1>2, <3>1, <3>2, JoinedAlike
    <3>4. Stands(N)
      BY <1>6, <3>2
    <3>5. ASSUME NEW k \in 1..N PROVE w[k] = w[k - 1] + Len(src[k]) /\ w[k] \in Nat
      <4>1. Stands(k)
        BY <1>6
      <4>2. Len(f[k]) \in Nat
        BY <4>1, LenProperties
      <4> QED
        BY <1>3, <4>1, <4>2
    <3>6. \A k \in 0..N : w[k] \in Nat
      BY <1>1, <1>3, <3>5
    <3>7. w[N] = Len(f[N])
      BY <1>3, <3>2
    <3> QED
      BY <1>0, <1>3, <3>1, <3>3, <3>4, <3>5, <3>6, <3>7 DEF Laid
  <2> QED
    BY <2>1, <2>2
<1> QED
  BY <1>0, <1>7, <1>8

(* The smallest of a set is what Lowest gives. *)
LEMMA LowestIs ==
    ASSUME NEW S, NEW x \in S, S \subseteq Int, \A y \in S : x <= y
    PROVE  Lowest(S) = x
<1>1. \E i \in S : \A j \in S : i <= j
  BY Zenon
<1>2. Lowest(S) \in S /\ \A j \in S : Lowest(S) <= j
  BY <1>1, Zenon DEF Lowest
<1>3. PICK m : m = Lowest(S)
  OBVIOUS
<1>4. m \in Int /\ x \in Int /\ m <= x /\ x <= m
  BY <1>2, <1>3
<1>5. m = x
  BY <1>4
<1> QED
  BY <1>3, <1>5, Zenon

\* The bytes of str behind the p-th, to the q-th.
IsPart(b, str, p, q) ==
    b \in Seq(Nat) /\ Len(b) = q - p /\ \A i \in 1..(q - p) : b[i] = str[p + i]

\* A unit with its code, behind which is no other.
NoCodeIn(u) ==
    /\ u \in Seq(Nat) /\ Len(u) >= 4 /\ 1 \in StartCodes(u, 1)
    /\ \A i \in 3..(Len(u) - 2) : ~(u[i] = 0 /\ u[i + 1] = 0 /\ u[i + 2] = 1)

\* Units whose codes can be told from their bytes: only the last may end in zero.
CodedRun(src) ==
    \A k \in 1..Len(src) : NoCodeIn(src[k]) /\ (k < Len(src) => src[k][Len(src[k])] # 0)

(* Each unit ends behind the one before. *)
LEMMA Grows ==
    ASSUME NEW src \in Seq(Seq(Nat)), NEW str, NEW w, Laid(src, str, w),
           \A k \in 1..Len(src) : Len(src[k]) > 0
    PROVE  \A k \in 0..Len(src) : \A j \in 0..k : w[j] + (k - j) <= w[k]
<1>0. PICK N : N = Len(src)
  OBVIOUS
<1>1. /\ N \in Nat /\ \A k \in 0..N : w[k] \in Nat
      /\ \A k \in 1..N : w[k] = w[k - 1] + Len(src[k]) /\ Len(src[k]) > 0
  BY <1>0, LenProperties DEF Laid
<1>2. ASSUME NEW k \in 1..N PROVE w[k] >= w[k - 1] + 1
  <2>1. PICK a, b, c : a = w[k] /\ b = w[k - 1] /\ c = Len(src[k])
    OBVIOUS
  <2>2. b \in Nat /\ a \in Nat /\ a = b + c /\ c > 0 /\ c \in Nat
    <3>1. k \in 0..N /\ k - 1 \in 0..N
      BY <1>1
    <3>2. src[k] \in Seq(Nat)
      BY <1>0, ElementOfSeq
    <3>3. Len(src[k]) \in Nat
      BY <3>2, LenProperties
    <3> QED
      BY <1>1, <2>1, <3>1, <3>3, Zenon
  <2>3. a >= b + 1
    BY <2>2
  <2> QED
    BY <2>1, <2>3, Zenon
<1> DEFINE S == {k \in Nat : k <= N => \A j \in 0..k : w[j] + (k - j) <= w[k]}
<1>3. 0 \in S
  BY <1>1
<1>4. ASSUME NEW k \in Nat, k \in S PROVE k + 1 \in S
  <2>1. ASSUME k + 1 <= N, NEW j \in 0..(k + 1) PROVE w[j] + ((k + 1) - j) <= w[k + 1]
    <3>1. k + 1 \in 1..N /\ (k + 1) - 1 = k /\ k <= N /\ k \in 0..N /\ k + 1 \in 0..N /\ j \in 0..N
      BY <1>1, <2>1
    <3>2. w[k + 1] >= w[k] + 1
      BY <1>2, <3>1
    <3>3. CASE j = k + 1
      BY <1>1, <3>1, <3>3
    <3>4. CASE j \in 0..k
      <4>1. w[j] + (k - j) <= w[k]
        BY <1>4, <3>1, <3>4
      <4>2. PICK x, y, z : x = w[j] /\ y = w[k] /\ z = w[k + 1]
        OBVIOUS
      <4>3. x \in Nat /\ y \in Nat /\ z \in Nat /\ x + (k - j) <= y /\ z >= y + 1
        BY <1>1, <3>1, <3>2, <4>1, <4>2, Zenon
      <4>4. x + ((k + 1) - j) <= z
        BY <3>4, <4>3
      <4> QED
        BY <4>2, <4>4, Zenon
    <3>5. j = k + 1 \/ j \in 0..k
      OBVIOUS
    <3> QED
      BY <3>3, <3>4, <3>5, Zenon
  <2> QED
    BY <2>1
<1> HIDE DEF S
<1>5. Nat \subseteq S
  BY <1>3, <1>4, SetInduction
<1>6. ASSUME NEW k \in 0..N, NEW j \in 0..k PROVE w[j] + (k - j) <= w[k]
  <2>1. k \in Nat /\ k <= N
    BY <1>1
  <2>2. k \in S
    BY <1>5, <2>1
  <2> QED
    BY <2>1, <2>2 DEF S
<1> QED
  BY <1>0, <1>6

(* In bytes that begin with a unit, the next code is behind it. *)
LEMMA NextCode ==
    ASSUME NEW b \in Seq(Nat), NEW u, NoCodeIn(u),
           \A i \in 1..Len(u) : i <= Len(b) => b[i] = u[i],
           Len(b) > Len(u) => u[Len(u)] # 0,
           NEW i \in StartCodes(b, 4)
    PROVE  i > Len(u)
<1>0. PICK l, m : l = Len(u) /\ m = Len(b)
  OBVIOUS
<1>1. l \in Nat /\ m \in Nat /\ l >= 4
  BY <1>0, LenProperties DEF NoCodeIn
<1>2. /\ i \in 4..(m - 3) /\ b[i] = 0 /\ b[i + 1] = 0
      /\ b[i + 2] = 1 \/ (b[i + 2] = 0 /\ b[i + 3] = 1)
  BY <1>0 DEF StartCodes
<1>3. \A n \in 1..l : n <= m => b[n] = u[n]
  BY <1>0
<1>4. \A n \in 3..(l - 2) : ~(u[n] = 0 /\ u[n + 1] = 0 /\ u[n + 2] = 1)
  BY <1>0 DEF NoCodeIn
<1> SUFFICES ASSUME i <= l PROVE FALSE
  BY <1>0, <1>1, <1>2
<1>5. i \in Int /\ i >= 4 /\ i + 3 <= m
  BY <1>1, <1>2
<1>6. CASE i + 3 <= l
  <2>1. /\ i \in 1..l /\ i + 1 \in 1..l /\ i + 2 \in 1..l /\ i + 3 \in 1..l
        /\ i <= m /\ i + 1 <= m /\ i + 2 <= m /\ i + 3 <= m
        /\ i \in 3..(l - 2) /\ i + 1 \in 3..(l - 2) /\ (i + 1) + 1 = i + 2 /\ (i + 1) + 2 = i + 3
    BY <1>1, <1>5, <1>6
  <2>2. u[i] = 0 /\ u[i + 1] = 0 /\ (u[i + 2] = 1 \/ (u[i + 2] = 0 /\ u[i + 3] = 1))
    BY <1>2, <1>3, <2>1, Zenon
  <2> QED
    BY <1>4, <2>1, <2>2, Zenon
<1>7. CASE i + 3 > l
  <2>1. u[l] # 0
    BY <1>0, <1>1, <1>5, <1>7
  <2>2. l = i \/ l = i + 1 \/ l = i + 2
    BY <1>1, <1>5, <1>7
  <2>3. l \in 1..l /\ l <= m
    BY <1>1, <1>5, <1>7
  <2>4. b[l] = u[l]
    BY <1>3, <2>3, Zenon
  <2>5. CASE l = i \/ l = i + 1
    BY <1>2, <2>1, <2>4, <2>5, Zenon
  <2>6. CASE l = i + 2
    <3>1. b[i + 2] = 1
      BY <1>2, <2>1, <2>4, <2>6, Zenon
    <3>2. /\ i \in 1..l /\ i + 1 \in 1..l /\ i + 2 \in 1..l
          /\ i <= m /\ i + 1 <= m /\ i + 2 <= m /\ i \in 3..(l - 2)
      BY <1>1, <1>5, <2>6
    <3>3. u[i] = 0 /\ u[i + 1] = 0 /\ u[i + 2] = 1
      BY <1>2, <1>3, <3>1, <3>2, Zenon
    <3> QED
      BY <1>4, <3>2, <3>3, Zenon
  <2> QED
    BY <2>2, <2>5, <2>6, Zenon
<1> QED
  BY <1>1, <1>5, <1>6, <1>7

\* Bytes and a unit have the same beginning.
Agree(b, u) == \A i \in 1..Len(u) : i <= Len(b) => b[i] = u[i]

(* Bytes of at least four that begin like a unit begin with its code. *)
LEMMA StartsWithCode ==
    ASSUME NEW b \in Seq(Nat), NEW u, NoCodeIn(u), Agree(b, u), Len(b) >= 4
    PROVE  StartCodes(b, 1) # {} /\ Lowest(StartCodes(b, 1)) = 1
<1>0. PICK l, m : l = Len(u) /\ m = Len(b)
  OBVIOUS
<1>1. l \in Nat /\ m \in Nat /\ l >= 4 /\ m >= 4
  BY <1>0, LenProperties DEF NoCodeIn
<1>2. 1 \in StartCodes(u, 1)
  BY DEF NoCodeIn
<1>3. u[1] = 0 /\ u[1 + 1] = 0 /\ (u[1 + 2] = 1 \/ (u[1 + 2] = 0 /\ u[1 + 3] = 1))
  BY <1>2, Zenon DEF StartCodes
<1>4. \A n \in {1, 1 + 1, 1 + 2, 1 + 3} : n \in 1..l /\ n <= m
  BY <1>1
<1>5. \A n \in {1, 1 + 1, 1 + 2, 1 + 3} : b[n] = u[n]
  BY <1>0, <1>4, Zenon DEF Agree
<1>6. 1 \in 1..(m - 3)
  BY <1>1
<1>7. 1 \in StartCodes(b, 1)
  BY <1>0, <1>3, <1>5, <1>6, Zenon DEF StartCodes
<1>8. \A n \in StartCodes(b, 1) : n \in 1..(m - 3)
  BY <1>0, Zenon DEF StartCodes
<1>9. StartCodes(b, 1) \subseteq Int /\ \A n \in StartCodes(b, 1) : 1 <= n
  BY <1>1, <1>8
<1>10. Lowest(StartCodes(b, 1)) = 1
  BY <1>7, <1>9, LowestIs
<1> QED
  BY <1>7, <1>10, Zenon

(* The end of a part is a part. *)
LEMMA EndOfPart ==
    ASSUME NEW b, NEW str, NEW p \in Nat, NEW P \in Nat, p <= P, IsPart(b, str, p, P),
           NEW n \in Nat, n <= P - p
    PROVE  IsPart(From(b, n + 1), str, p + n, P)
<1>1. b \in Seq(Nat) /\ Len(b) = P - p /\ \A i \in 1..(P - p) : b[i] = str[p + i]
  BY Zenon DEF IsPart
<1> DEFINE c == SubSeq(b, n + 1, P - p)
<1>2. /\ c \in Seq(Nat) /\ Len(c) = (P - p) - n
      /\ \A i \in 1..((P - p) - n) : c[i] = b[n + i]
  <2>1. \A i \in (n + 1)..(P - p) : i \in 1..Len(b)
    BY <1>1
  <2>2. \A i \in (n + 1)..(P - p) : b[i] \in Nat
    BY <1>1, <2>1, ElementOfSeq
  <2> QED
    BY <1>1, <2>2
<1> HIDE DEF c
<1>3. \A i \in 1..(P - (p + n)) : c[i] = str[(p + n) + i]
  <2> TAKE i \in 1..(P - (p + n))
  <2>1. i \in 1..((P - p) - n) /\ n + i \in 1..(P - p) /\ p + (n + i) = (p + n) + i
    OBVIOUS
  <2> QED
    BY <1>1, <1>2, <2>1
<1>4. Len(c) = P - (p + n)
  BY <1>2
<1>5. From(b, n + 1) = c
  BY <1>1 DEF From, c
<1> QED
  BY <1>2, <1>3, <1>4, <1>5, Zenon DEF IsPart

(* All of the bytes is what is from the first on. *)
LEMMA AllOfIt ==
    ASSUME NEW b \in Seq(Nat)
    PROVE  From(b, 1) = b
BY SubSeqProperties, LenProperties DEF From

(* As many bytes as the unit has are the unit. *)
LEMMA UnitOfPart ==
    ASSUME NEW b \in Seq(Nat), NEW u \in Seq(Nat), Agree(b, u), Len(u) <= Len(b)
    PROVE  SubSeq(b, 1, Len(u)) = u
<1>0. PICK l, m : l = Len(u) /\ m = Len(b)
  OBVIOUS
<1>1. l \in Nat /\ m \in Nat /\ l <= m
  BY <1>0, LenProperties
<1>2. ASSUME NEW i \in 1..l PROVE b[i] = u[i] /\ b[i] \in Nat /\ i \in 1..m
  <2>1. i \in 1..m /\ i <= m
    BY <1>1
  <2> QED
    BY <1>0, <2>1, ElementOfSeq DEF Agree
<1> DEFINE c == SubSeq(b, 1, l)
<1>3. c \in Seq(Nat) /\ Len(c) = l /\ \A i \in 1..l : c[i] = b[i]
  BY <1>1, <1>2
<1> HIDE DEF c
<1>4. c = u
  BY <1>0, <1>2, <1>3, SeqEqual
<1> QED
  BY <1>0, <1>4 DEF c

(* What is behind k units begins like the next. *)
LEMMA BeginsLikeNext ==
    ASSUME NEW src \in Seq(Seq(Nat)), NEW str, NEW w, Laid(src, str, w),
           NEW k \in 0..(Len(src) - 1), NEW P \in Nat, w[k] <= P, NEW b, IsPart(b, str, w[k], P)
    PROVE  /\ Agree(b, src[k + 1]) /\ b \in Seq(Nat) /\ src[k + 1] \in Seq(Nat)
           /\ Len(b) = P - w[k] /\ w[k + 1] = w[k] + Len(src[k + 1]) /\ w[k] \in Nat
           /\ k + 1 \in 1..Len(src)
<1>1. k + 1 \in 1..Len(src) /\ (k + 1) - 1 = k /\ k \in 0..Len(src)
  BY LenProperties
<1>2. PICK n, u : n = k + 1 /\ u = src[k + 1]
  OBVIOUS
<1>3. /\ w[n] = w[k] + Len(u) /\ w[k] \in Nat
      /\ \A i \in 1..Len(u) : str[w[k] + i] = u[i]
  BY <1>1, <1>2, Zenon DEF Laid
<1>4. u \in Seq(Nat) /\ Len(u) \in Nat
  BY <1>1, <1>2, ElementOfSeq, LenProperties
<1>5. /\ b \in Seq(Nat) /\ Len(b) = P - w[k]
      /\ \A i \in 1..(P - w[k]) : b[i] = str[w[k] + i]
  BY Zenon DEF IsPart
<1>6. ASSUME NEW i \in 1..Len(u), i <= Len(b) PROVE b[i] = u[i]
  <2>1. i \in 1..(P - w[k])
    BY <1>3, <1>4, <1>5, <1>6
  <2> QED
    BY <1>3, <1>5, <2>1, Zenon
<1> QED
  BY <1>1, <1>2, <1>3, <1>4, <1>5, <1>6, Zenon DEF Agree

\* The end of the next unit is not seen yet.
Done(due, w, P, e, k) == ~(k < Len(due) /\ P >= w[k + 1] + e)

\* A turn from q to t takes the next unit out when its end is seen, and nothing else.
Cut(t, q, due, str, w, P, e, k) ==
    /\ ~Done(due, w, P, e, k) =>
           t.nals = Append(q.nals, due[k + 1]) /\ IsPart(t.rest, str, w[k + 1], P)
    /\ Done(due, w, P, e, k) => t.nals = q.nals /\ t.rest = q.rest

(* A turn of push_annex_b takes the next unit when its end is seen, and nothing else. *)
LEMMA CodedTurn ==
    ASSUME NEW src \in Seq(Seq(Nat)), NEW str, NEW w, Laid(src, str, w), CodedRun(src),
           NEW P \in Nat, P <= Len(str), NEW k \in 0..Len(src), w[k] <= P,
           NEW q, IsPart(q.rest, str, w[k], P)
    PROVE  Cut(TakeCoded(q), q, src, str, w, P, 4, k)
<1>0. PICK N, b, m : N = Len(src) /\ b = q.rest /\ m = Len(b)
  OBVIOUS
<1>1. /\ N \in Nat /\ b \in Seq(Nat) /\ m \in Nat /\ w[k] \in Nat /\ m = P - w[k]
      /\ \A i \in 1..m : b[i] = str[w[k] + i]
  <2>1. b \in Seq(Nat) /\ m = P - w[k] /\ \A i \in 1..(P - w[k]) : b[i] = str[w[k] + i]
    BY <1>0, Zenon DEF IsPart
  <2> QED
    BY <1>0, <2>1, LenProperties, Zenon DEF Laid
<1>2. CASE m < 4
  <2>1. StartCodes(b, 1) = {}
    BY <1>0, <1>1, <1>2 DEF StartCodes
  <2>2. TakeCoded(q) = q
    BY <1>0, <2>1, Zenon DEF TakeCoded
  <2>3. ASSUME k < N PROVE ~(P >= w[k + 1] + 4)
    <3>1. k \in 0..(N - 1)
      BY <1>1, <2>3
    <3>2. w[k + 1] = w[k] + Len(src[k + 1]) /\ src[k + 1] \in Seq(Nat)
      BY <1>0, <3>1, BeginsLikeNext
    <3>3. PICK x, y, z : x = w[k] /\ y = w[k + 1] /\ z = Len(src[k + 1])
      OBVIOUS
    <3>4. x \in Nat /\ m = P - x /\ y = x + z /\ z \in Nat
      BY <1>1, <3>2, <3>3, LenProperties, Zenon
    <3>5. ~(P >= y + 4)
      BY <1>1, <1>2, <3>4
    <3> QED
      BY <3>3, <3>5, Zenon
  <2> QED
    BY <1>0, <2>2, <2>3, Zenon DEF Cut, Done
<1>3. CASE m >= 4
  <2>1. w[N] = Len(str)
    BY <1>0, Zenon DEF Laid
  <2>2. k < N /\ k \in 0..(N - 1) /\ k + 1 \in 1..N
    <3>1. k # N
      BY <1>0, <1>1, <1>3, <2>1
    <3> QED
      BY <1>0, <1>1, <3>1
  <2>3. PICK u, l, n : u = src[k + 1] /\ l = Len(u) /\ n = k + 1
    OBVIOUS
  <2>4. Agree(b, u) /\ u \in Seq(Nat) /\ w[n] = w[k] + l
    BY <1>0, <2>2, <2>3, BeginsLikeNext
  <2>5. NoCodeIn(u) /\ (n < N => u[l] # 0)
    BY <1>0, <2>2, <2>3, Zenon DEF CodedRun
  <2>6. l \in Nat /\ l >= 4
    BY <2>3, <2>4, <2>5, LenProperties DEF NoCodeIn
  <2>7. StartCodes(b, 1) # {} /\ Lowest(StartCodes(b, 1)) = 1
    BY <1>0, <1>1, <1>3, <2>4, <2>5, StartsWithCode
  <2>8. CodesBehind(b) = StartCodes(b, 4)
    <3>1. 1 + 3 = 4
      OBVIOUS
    <3> QED
      BY <2>7, <3>1, Zenon DEF CodesBehind
  <2>9. m > l => u[l] # 0
    <3>1. ASSUME m > l, n = N PROVE FALSE
      <4>1. PICK x, y, L : x = w[k] /\ y = w[n] /\ L = Len(str)
        OBVIOUS
      <4>2. x \in Nat /\ m = P - x /\ y = x + l /\ y = L /\ P <= L
        BY <1>1, <2>1, <2>4, <3>1, <4>1, Zenon
      <4> QED
        BY <2>6, <3>1, <4>2
    <3>2. n < N \/ n = N
      BY <1>1, <2>2, <2>3
    <3> QED
      BY <2>5, <3>1, <3>2, Zenon
  <2>10. \A i \in StartCodes(b, 4) : i > l /\ i \in 4..(m - 3)
    <3> TAKE i \in StartCodes(b, 4)
    <3>1. Agree(b, u) => \A x \in 1..Len(u) : x <= Len(b) => b[x] = u[x]
      BY Zenon DEF Agree
    <3>2. i > l
      BY <1>0, <1>1, <2>3, <2>4, <2>5, <2>9, <3>1, NextCode
    <3>3. i \in 4..(m - 3)
      BY <1>0, Zenon DEF StartCodes
    <3> QED
      BY <3>2, <3>3
  <2>11. PICK W0, W1 : W0 = w[k] /\ W1 = w[n]
    OBVIOUS
  <2>12. W0 \in Nat /\ m = P - W0 /\ W1 = W0 + l
    BY <1>1, <2>4, <2>11, Zenon
  <2>13. CASE P >= w[n] + 4
    <3>1. n < N /\ n \in 0..(N - 1)
      <4>1. n # N
        <5> SUFFICES ASSUME n = N PROVE FALSE
          OBVIOUS
        <5>1. PICK L : L = Len(str)
          OBVIOUS
        <5>2. W1 = L /\ P <= L /\ P >= W1 + 4
          BY <2>1, <2>11, <2>13, <5>1, Zenon
        <5>3. W1 \in Nat
          BY <2>6, <2>12
        <5> QED
          BY <5>2, <5>3
      <4>2. N \in Nat
        BY <1>1, Zenon
      <4> QED
        BY <2>2, <2>3, <4>1, <4>2
    <3>2. w[n] \in Nat
      <4>1. W1 \in Nat
        BY <2>6, <2>12
      <4> QED
        BY <2>11, <4>1, Zenon
    <3> DEFINE c == From(b, l + 1)
    <3>3. /\ l <= P - W0 /\ W0 + l = W1 /\ W1 <= P /\ l <= m /\ P - W1 >= 4
          /\ W0 \in Nat /\ m = P - W0 /\ W1 \in Nat
      <4>1. P >= W1 + 4
        BY <2>11, <2>13, Zenon
      <4>2. W1 \in Nat /\ W1 <= P /\ P - W1 >= 4
        BY <2>6, <2>12, <4>1
      <4>3. l <= P - W0 /\ l <= m
        BY <2>6, <2>12, <4>2
      <4> QED
        BY <2>12, <4>2, <4>3, Zenon
    <3>4. l <= P - w[k] /\ w[k] + l = w[n] /\ w[n] <= P /\ l <= m /\ P - w[n] >= 4
      BY <2>11, <3>3, Zenon
    <3>5. IsPart(b, str, w[k], P)
      BY <1>0
    <3>6. IsPart(c, str, w[n], P)
      <4>1. IsPart(From(b, l + 1), str, w[k] + l, P)
        BY <1>1, <2>6, <3>4, <3>5, EndOfPart
      <4> QED
        BY <3>4, <4>1, Zenon
    <3> HIDE DEF c
    <3>7. PICK v : v = src[n + 1]
      OBVIOUS
    <3>8. Agree(c, v) /\ c \in Seq(Nat) /\ Len(c) = P - w[n] /\ n + 1 \in 1..N
      <4>1. n \in 0..(Len(src) - 1) /\ w[n] <= P
        BY <1>0, <3>1, <3>4, Zenon
      <4>2. /\ Agree(c, src[n + 1]) /\ c \in Seq(Nat)
            /\ Len(c) = P - w[n] /\ n + 1 \in 1..Len(src)
        BY <3>6, <4>1, BeginsLikeNext
      <4> QED
        BY <1>0, <3>7, <4>2, Zenon
    <3>9. NoCodeIn(v)
      BY <1>0, <3>7, <3>8, Zenon DEF CodedRun
    <3>10. PICK x : x = l + 1
      OBVIOUS
    <3>11. x \in StartCodes(b, 4)
      <4>1. 1 \in StartCodes(c, 1)
        <5>1. 1 \in StartCodes(v, 1)
          BY <3>9 DEF NoCodeIn
        <5>2. v[1] = 0 /\ v[1 + 1] = 0 /\ (v[1 + 2] = 1 \/ (v[1 + 2] = 0 /\ v[1 + 3] = 1))
          BY <5>1, Zenon DEF StartCodes
        <5>3. Len(v) >= 4 /\ Len(v) \in Nat
          BY <3>9, LenProperties DEF NoCodeIn
        <5>4. \A y \in {1, 1 + 1, 1 + 2, 1 + 3} : y \in 1..Len(v) /\ y <= Len(c)
          <6>1. PICK h : h = Len(c)
            OBVIOUS
          <6>2. h = P - W1
            BY <2>11, <3>8, <6>1, Zenon
          <6>3. h >= 4 /\ h \in Nat
            BY <3>3, <6>2
          <6> QED
            BY <5>3, <6>1, <6>3
        <5>5. \A y \in {1, 1 + 1, 1 + 2, 1 + 3} : c[y] = v[y]
          BY <3>8, <5>4, Zenon DEF Agree
        <5>6. 1 \in 1..(Len(c) - 3)
          BY <3>4, <3>8
        <5> QED
          BY <5>2, <5>5, <5>6, Zenon DEF StartCodes
      <4>2. c[1] = 0 /\ c[1 + 1] = 0 /\ (c[1 + 2] = 1 \/ (c[1 + 2] = 0 /\ c[1 + 3] = 1))
        BY <4>1, Zenon DEF StartCodes
      <4>3. \A i \in 1..(P - w[n]) : c[i] = str[w[n] + i]
        BY <3>6, Zenon DEF IsPart
      <4>4. \A i \in 1..4 : c[i] = b[l + i]
        <5> TAKE i \in 1..4
        <5>1. i \in 1..(P - W1) /\ l + i \in 1..m /\ W0 + (l + i) = W1 + i
          BY <2>6, <3>3
        <5>2. i \in 1..(P - w[n]) /\ w[k] + (l + i) = w[n] + i
          BY <2>11, <5>1, Zenon
        <5> QED
          BY <1>1, <4>3, <5>1, <5>2, Zenon
      <4>5. c[1] = b[x] /\ c[1 + 1] = b[x + 1] /\ c[1 + 2] = b[x + 2] /\ c[1 + 3] = b[x + 3]
        <5>1. /\ l + 1 = x /\ l + (1 + 1) = x + 1 /\ l + (1 + 2) = x + 2 /\ l + (1 + 3) = x + 3
              /\ \A i \in {1, 1 + 1, 1 + 2, 1 + 3} : i \in 1..4
          BY <2>6, <3>10
        <5> QED
          BY <4>4, <5>1, Zenon
      <4>6. x \in 4..(m - 3)
        BY <2>6, <3>3, <3>10
      <4> QED
        BY <1>0, <4>2, <4>5, <4>6, Zenon DEF StartCodes
    <3>12. Lowest(StartCodes(b, 4)) = x
      <4>1. StartCodes(b, 4) \subseteq Int /\ \A i \in StartCodes(b, 4) : x <= i
        BY <2>6, <2>10, <3>10
      <4> QED
        BY <3>11, <4>1, LowestIs
    <3>13. SubSeq(b, 1, x - 1) = u
      <4>1. x - 1 = l
        BY <2>6, <3>10
      <4>2. SubSeq(b, 1, Len(u)) = u
        BY <1>0, <1>1, <2>3, <2>4, <3>4, UnitOfPart
      <4> QED
        BY <2>3, <4>1, <4>2, Zenon
    <3>14. TakeCoded(q) = [nals |-> Append(q.nals, SubSeq(b, 1, x - 1)), rest |-> From(b, x)]
      <4>1. StartCodes(b, 4) # {}
        BY <3>11
      <4> QED
        BY <1>0, <2>7, <2>8, <3>12, <4>1, Zenon DEF TakeCoded
    <3>15. TakeCoded(q).nals = Append(q.nals, u) /\ TakeCoded(q).rest = c
      BY <3>10, <3>13, <3>14 DEF c
    <3> QED
      BY <1>0, <2>2, <2>3, <2>13, <3>6, <3>15, Zenon DEF Cut, Done
  <2>14. CASE ~(P >= w[n] + 4)
    <3>1. StartCodes(b, 4) = {}
      <4> SUFFICES ASSUME NEW i \in StartCodes(b, 4) PROVE FALSE
        OBVIOUS
      <4>1. i > l /\ i \in 4..(m - 3)
        BY <2>10
      <4>2. ~(P >= W1 + 4)
        BY <2>11, <2>14, Zenon
      <4> QED
        BY <2>6, <2>12, <4>1, <4>2
    <3>2. From(b, 1) = b
      BY <1>1, AllOfIt
    <3>3. TakeCoded(q) = [nals |-> q.nals, rest |-> From(b, 1)]
      BY <1>0, <2>7, <2>8, <3>1, Zenon DEF TakeCoded
    <3>4. TakeCoded(q).nals = q.nals /\ TakeCoded(q).rest = b
      BY <3>2, <3>3
    <3> QED
      BY <1>0, <2>3, <2>14, <3>4, Zenon DEF Cut, Done
  <2> QED
    BY <2>13, <2>14, Zenon
<1> QED
  BY <1>1, <1>2, <1>3

\* Units that say their lengths.
SizedRun(src) == \A k \in 1..Len(src) : Sized(src[k])

(* A turn of push_avcc takes the next unit when all of it is there, and nothing else. *)
LEMMA SizedTurn ==
    ASSUME NEW src \in Seq(Seq(Nat)), NEW str, NEW w, Laid(src, str, w), SizedRun(src),
           NEW due, Len(due) = Len(src), \A i \in 1..Len(src) : due[i] = Recoded(src[i]),
           NEW P \in Nat, P <= Len(str), NEW k \in 0..Len(src), w[k] <= P,
           NEW q, IsPart(q.rest, str, w[k], P)
    PROVE  Cut(TakeSized(q), q, due, str, w, P, 0, k)
<1>0. PICK N, b, m, W0 : N = Len(src) /\ b = q.rest /\ m = Len(b) /\ W0 = w[k]
  OBVIOUS
<1>1. N \in Nat /\ b \in Seq(Nat) /\ m \in Nat /\ W0 \in Nat /\ m = P - W0
  <2>1. b \in Seq(Nat) /\ m = P - w[k]
    BY <1>0, Zenon DEF IsPart
  <2> QED
    BY <1>0, <2>1, LenProperties, Zenon DEF Laid
<1>2. CASE k = N
  <2>1. W0 = Len(str)
    BY <1>0, <1>2, Zenon DEF Laid
  <2>2. m < 4
    BY <1>0, <1>1, <2>1
  <2>3. TakeSized(q) = q
    BY <1>0, <2>2, Zenon DEF TakeSized
  <2>4. ~(k < N)
    BY <1>1, <1>2
  <2> QED
    BY <1>0, <2>3, <2>4, Zenon DEF Cut, Done
<1>3. CASE k # N
  <2>1. k < N /\ k \in 0..(N - 1)
    BY <1>0, <1>1, <1>3
  <2>2. PICK u, l, n, W1 : u = src[k + 1] /\ l = Len(u) /\ n = k + 1 /\ W1 = w[n]
    OBVIOUS
  <2>3. Agree(b, u) /\ u \in Seq(Nat) /\ W1 = W0 + l /\ n \in 1..N
    BY <1>0, <2>1, <2>2, BeginsLikeNext
  <2>4. Sized(u)
    BY <1>0, <2>2, <2>3, Zenon DEF SizedRun
  <2>5. PICK z : z = NalLen(u)
    OBVIOUS
  <2>6. l \in Nat /\ l > 4 /\ l = 4 + z /\ z <= MaxNal
    BY <2>2, <2>4, <2>5, LenProperties, Zenon DEF Sized
  <2>7. ASSUME m >= 4 PROVE NalLen(b) = z
    <3>1. \A i \in {1, 2, 3, 4} : i \in 1..l /\ i <= m
      BY <1>1, <2>6, <2>7
    <3>2. \A i \in {1, 2, 3, 4} : b[i] = u[i]
      BY <1>0, <2>2, <2>3, <3>1, Zenon DEF Agree
    <3>3. b[1] = u[1] /\ b[2] = u[2] /\ b[3] = u[3] /\ b[4] = u[4]
      BY <3>2
    <3>4. NalLen(b) = ((u[1] * 256 + u[2]) * 256 + u[3]) * 256 + u[4]
      BY <3>3 DEF NalLen
    <3> QED
      BY <2>5, <3>4, Zenon DEF NalLen
  <2>8. l # 4 /\ ~(l > 4 + MaxNal)
    <3>1. PICK x : x = MaxNal
      OBVIOUS
    <3>2. x \in Nat
      BY <3>1 DEF MaxNal
    <3>3. z \in Int /\ z <= x
      <4>1. u[1] \in Nat /\ u[2] \in Nat /\ u[3] \in Nat /\ u[4] \in Nat
        <5>1. \A i \in {1, 2, 3, 4} : i \in 1..l
          BY <2>6
        <5>2. \A i \in 1..Len(u) : u[i] \in Nat
          BY <2>3, ElementOfSeq
        <5>3. 1 \in {1, 2, 3, 4} /\ 2 \in {1, 2, 3, 4} /\ 3 \in {1, 2, 3, 4} /\ 4 \in {1, 2, 3, 4}
          OBVIOUS
        <5> QED
          BY <2>2, <5>1, <5>2, <5>3, Zenon
      <4>2. NalLen(u) \in Int
        <5>1. PICK p0, p1, p2, p3 : p0 = u[1] /\ p1 = u[2] /\ p2 = u[3] /\ p3 = u[4]
          OBVIOUS
        <5>2. p0 \in Nat /\ p1 \in Nat /\ p2 \in Nat /\ p3 \in Nat
          BY <4>1, <5>1, Zenon
        <5>3. ((p0 * 256 + p1) * 256 + p2) * 256 + p3 \in Int
          BY <5>2
        <5> QED
          BY <5>1, <5>3, Zenon DEF NalLen
      <4> QED
        BY <2>5, <2>6, <3>1, <4>2, Zenon
    <3>4. l # 4 /\ ~(l > 4 + x)
      BY <2>6, <3>2, <3>3
    <3> QED
      BY <3>1, <3>4, Zenon
  <2>9. CASE P >= W1 + 0
    <3>1. m >= 4 /\ ~(m < 4) /\ ~(m < l) /\ l <= m /\ l <= P - W0 /\ W0 + l = W1 /\ W0 <= P
      BY <1>1, <2>3, <2>6, <2>9
    <3> DEFINE c == From(b, l + 1)
    <3>2. IsPart(c, str, W1, P)
      <4>1. IsPart(b, str, W0, P)
        BY <1>0
      <4>2. IsPart(From(b, l + 1), str, W0 + l, P)
        BY <1>1, <2>6, <3>1, <4>1, EndOfPart
      <4> QED
        BY <3>1, <4>2, Zenon
    <3>3. SubSeq(b, 1, l) = u
      BY <1>0, <1>1, <2>2, <2>3, <3>1, UnitOfPart
    <3>4. TakeSized(q) = [nals |-> Append(q.nals, Recoded(SubSeq(b, 1, l))), rest |-> c]
      <4>1. 4 + NalLen(b) = l
        BY <2>6, <2>7, <3>1, Zenon
      <4> QED
        BY <1>0, <2>8, <3>1, <4>1, Zenon DEF TakeSized
    <3> HIDE DEF c
    <3>5. TakeSized(q).nals = Append(q.nals, Recoded(u)) /\ TakeSized(q).rest = c
      <4>1. TakeSized(q) = [nals |-> Append(q.nals, Recoded(u)), rest |-> c]
        BY <3>3, <3>4, Zenon
      <4> QED
        <5>1. PICK x, y : x = Append(q.nals, Recoded(u)) /\ y = TakeSized(q)
          OBVIOUS
        <5>2. y = [nals |-> x, rest |-> c]
          BY <4>1, <5>1, Zenon
        <5>3. y.nals = x /\ y.rest = c
          BY <5>2
        <5> QED
          BY <5>1, <5>3, Zenon
    <3>6. due[k + 1] = Recoded(u)
      BY <1>0, <2>2, <2>3, Zenon
    <3> QED
      BY <1>0, <2>1, <2>2, <2>9, <3>2, <3>5, <3>6, Zenon DEF Cut, Done
  <2>10. CASE ~(P >= W1 + 0)
    <3>1. TakeSized(q) = q
      <4>1. CASE m < 4
        BY <1>0, <4>1, Zenon DEF TakeSized
      <4>2. CASE ~(m < 4)
        <5>1. m >= 4 /\ m < l
          BY <1>1, <2>3, <2>6, <2>10, <4>2
        <5>2. 4 + NalLen(b) = l
          BY <2>6, <2>7, <5>1, Zenon
        <5> QED
          BY <1>0, <2>8, <4>2, <5>1, <5>2, Zenon DEF TakeSized
      <4> QED
        BY <4>1, <4>2, Zenon
    <3> QED
      BY <1>0, <2>2, <2>10, <3>1, Zenon DEF Cut, Done
  <2> QED
    BY <2>9, <2>10, Zenon
<1> QED
  BY <1>2, <1>3, Zenon

(* A buffer too short for a code is left alone. *)
LEMMA ShortStays ==
    ASSUME NEW b \in Seq(Nat), Len(b) < 4, NEW annexB,
           \A q : Turn(annexB, q) = TakeSized(q)
    PROVE  Taken(annexB, b).nals = <<>> /\ Taken(annexB, b).rest = b
<1>1. PICK m : m = Len(b)
  OBVIOUS
<1>2. m \in Nat
  BY <1>1, LenProperties
<1>3. PICK f : IsLoop(f, annexB, b, m)
  BY <1>1, <1>2, Loop, Zenon
<1>4. /\ Taken(annexB, b) = f[m] /\ f[0].nals = <<>> /\ f[0].rest = b
      /\ \A n \in 1..m : f[n] = Turn(annexB, f[n - 1])
  BY <1>3, Zenon DEF IsLoop
<1> DEFINE S == {n \in Nat : n <= m => f[n] = f[0]}
<1>5. 0 \in S
  OBVIOUS
<1>6. ASSUME NEW n \in Nat, n \in S PROVE n + 1 \in S
  <2>1. ASSUME n + 1 <= m PROVE f[n + 1] = f[0]
    <3>1. n <= m /\ n + 1 \in 1..m /\ (n + 1) - 1 = n
      BY <1>2, <2>1
    <3>2. f[n + 1] = Turn(annexB, f[0])
      BY <1>4, <1>6, <3>1
    <3>3. Turn(annexB, f[0]) = f[0]
      BY <1>4, Zenon DEF TakeSized
    <3> QED
      BY <3>2, <3>3
  <2> QED
    BY <2>1
<1> HIDE DEF S
<1>7. m \in S
  BY <1>2, <1>5, <1>6, SetInduction
<1>8. f[m] = f[0]
  BY <1>2, <1>7 DEF S
<1> QED
  BY <1>4, <1>8, Zenon

\* After k of the units due, from the j-th on: what was taken out, and what is left.
Got(nals, rest, due, str, w, P, e, j, k) ==
    /\ nals \in Seq(Seq(Nat)) /\ Len(nals) = k - j
    /\ \A i \in 1..(k - j) : nals[i] = due[j + i]
    /\ w[k] <= P /\ IsPart(rest, str, w[k], P)
    /\ k = j \/ P >= w[k] + e

\* Every turn cuts so.
Cuts(annexB, due, str, w, P, e) ==
    \A q : \A k \in 0..Len(due) :
        w[k] <= P /\ IsPart(q.rest, str, w[k], P) => Cut(Turn(annexB, q), q, due, str, w, P, e, k)

(* The loop takes every unit out whose end is seen. *)
LEMMA LoopTakes ==
    ASSUME NEW annexB, NEW e \in Nat, NEW due \in Seq(Seq(Nat)), NEW str, NEW w, NEW P \in Nat,
           NEW j \in 0..Len(due), \A k \in 0..Len(due) : w[k] \in Nat,
           \A k \in 0..Len(due) : \A i \in 0..k : w[i] + (k - i) <= w[k],
           w[j] <= P, NEW b, IsPart(b, str, w[j], P), Cuts(annexB, due, str, w, P, e)
    PROVE  \E k \in j..Len(due) :
              /\ Got(Taken(annexB, b).nals, Taken(annexB, b).rest, due, str, w, P, e, j, k)
              /\ Done(due, w, P, e, k)
<1>0. PICK N, m, W0 : N = Len(due) /\ m = Len(b) /\ W0 = w[j]
  OBVIOUS
<1>1. N \in Nat /\ m \in Nat /\ W0 \in Nat /\ m = P - W0 /\ b \in Seq(Nat) /\ j \in 0..N
  <2>1. b \in Seq(Nat) /\ Len(b) = P - w[j]
    BY Zenon DEF IsPart
  <2> QED
    BY <1>0, <2>1, LenProperties, Zenon
<1>9. PICK f : IsLoop(f, annexB, b, m)
  BY <1>0, <1>1, Loop, Zenon
<1>2. /\ Taken(annexB, b) = f[m] /\ f[0].nals = <<>> /\ f[0].rest = b
      /\ \A n \in 1..m : f[n] = Turn(annexB, f[n - 1])
  BY <1>9, Zenon DEF IsLoop
<1> DEFINE Have(n, k) == /\ Got(f[n].nals, f[n].rest, due, str, w, P, e, j, k)
                         /\ k = j + n \/ Done(due, w, P, e, k)
           S == {n \in Nat : n <= m => \E k \in j..N : Have(n, k)}
<1>3. 0 \in S
  <2>1. <<>> \in Seq(Seq(Nat)) /\ Len(<<>>) = j - j /\ j = j + 0 /\ j \in j..N
    BY <1>1, EmptySeq
  <2>2. \A i \in 1..(j - j) : FALSE
    BY <1>1
  <2>3. Got(f[0].nals, f[0].rest, due, str, w, P, e, j, j)
    BY <1>2, <2>1, <2>2, Zenon DEF Got
  <2>4. Have(0, j)
    BY <2>1, <2>3, Zenon
  <2>5. \E k \in j..N : Have(0, k)
    BY <2>1, <2>4, Zenon
  <2> HIDE DEF Have
  <2> QED
    BY <2>5
<1>4. ASSUME NEW n \in Nat, n \in S PROVE n + 1 \in S
  <2>1. ASSUME n + 1 <= m PROVE \E k \in j..N : Have(n + 1, k)
    <3>1. n <= m /\ n + 1 \in 1..m /\ (n + 1) - 1 = n
      BY <1>1, <2>1
    <3>2. PICK k \in j..N : Have(n, k)
      BY <1>4, <3>1
    <3>3. f[n + 1] = Turn(annexB, f[n])
      BY <1>2, <3>1, Zenon
    <3>4. k \in 0..N /\ k \in Nat
      BY <1>1
    <3>5. /\ ~Done(due, w, P, e, k) =>
                 /\ f[n + 1].nals = Append(f[n].nals, due[k + 1])
                 /\ IsPart(f[n + 1].rest, str, w[k + 1], P)
          /\ Done(due, w, P, e, k) =>
                 f[n + 1].nals = f[n].nals /\ f[n + 1].rest = f[n].rest
      <4>1. w[k] <= P /\ IsPart(f[n].rest, str, w[k], P)
        BY <3>2, Zenon DEF Got
      <4>2. k \in 0..Len(due)
        BY <1>0, <3>4, Zenon
      <4>3. Cut(Turn(annexB, f[n]), f[n], due, str, w, P, e, k)
        BY <4>1, <4>2, Zenon DEF Cuts
      <4>4. Cut(f[n + 1], f[n], due, str, w, P, e, k)
        BY <3>3, <4>3, Zenon
      <4> QED
        BY <4>4, Zenon DEF Cut
    <3>6. CASE Done(due, w, P, e, k)
      <4>1. Have(n + 1, k)
        BY <3>2, <3>5, <3>6, Zenon
      <4> QED
        BY <4>1, Zenon
    <3>7. CASE ~Done(due, w, P, e, k)
      <4>1. k = j + n /\ k < N /\ P >= w[k + 1] + e
        BY <1>0, <3>2, <3>7, Zenon DEF Done
      <4>2. PICK x, s, t, v : x = k + 1 /\ s = f[n].nals /\ t = f[n + 1].nals /\ v = due[x]
        OBVIOUS
      <4>3. x \in j..N /\ x = j + (n + 1) /\ x - j = (k - j) + 1 /\ x \in 1..N /\ x \in 0..N
        BY <1>1, <3>4, <4>1, <4>2
      <4>4. v \in Seq(Nat)
        BY <1>0, <4>2, <4>3, ElementOfSeq
      <4>5. s \in Seq(Seq(Nat)) /\ Len(s) = k - j /\ \A i \in 1..(k - j) : s[i] = due[j + i]
        BY <3>2, <4>2, Zenon DEF Got
      <4>6. t = Append(s, v)
        BY <3>5, <3>7, <4>2, Zenon
      <4>7. t \in Seq(Seq(Nat)) /\ Len(t) = x - j /\ \A i \in 1..(x - j) : t[i] = due[j + i]
        <5>1. /\ t \in Seq(Seq(Nat)) /\ Len(t) = Len(s) + 1
              /\ \A i \in 1..Len(s) : t[i] = s[i]
              /\ t[Len(s) + 1] = v
          <6>1. s \in Seq(Seq(Nat)) /\ v \in Seq(Nat)
            BY <4>4, <4>5, Zenon
          <6>2. /\ Append(s, v) \in Seq(Seq(Nat)) /\ Len(Append(s, v)) = Len(s) + 1
                /\ \A i \in 1..Len(s) : Append(s, v)[i] = s[i]
                /\ Append(s, v)[Len(s) + 1] = v
            BY <6>1, Appended
          <6> QED
            BY <4>6, <6>2, Zenon
        <5>2. ASSUME NEW i \in 1..(x - j) PROVE t[i] = due[j + i]
          <6>1. i \in 1..(k - j) \/ (i = (k - j) + 1 /\ j + i = x)
            BY <1>1, <3>4, <4>2, <4>3
          <6> QED
            BY <4>2, <4>5, <5>1, <6>1, Zenon
        <5> QED
          BY <4>3, <4>5, <5>1, <5>2, Zenon
      <4>8. w[x] <= P /\ P >= w[x] + e
        <5>1. PICK y : y = w[x]
          OBVIOUS
        <5>2. y \in Nat /\ P >= y + e
          BY <1>0, <4>1, <4>2, <4>3, <5>1, Zenon
        <5>3. y <= P
          BY <5>2
        <5> QED
          BY <5>1, <5>2, <5>3, Zenon
      <4>9. Got(f[n + 1].nals, f[n + 1].rest, due, str, w, P, e, j, x)
        BY <3>5, <3>7, <4>2, <4>7, <4>8, Zenon DEF Got
      <4>10. Have(n + 1, x)
        BY <4>3, <4>9, Zenon
      <4> QED
        BY <4>3, <4>10, Zenon
    <3> QED
      BY <3>6, <3>7, Zenon
  <2> HIDE DEF Have
  <2> QED
    BY <2>1
<1> HIDE DEF S
<1>5. m \in S
  BY <1>1, <1>3, <1>4, SetInduction
<1>6. PICK k \in j..N : Have(m, k)
  <2> HIDE DEF Have
  <2>1. m <= m
    BY <1>1
  <2> QED
    BY <1>5, <2>1, Zenon DEF S
<1>7. Done(due, w, P, e, k)
  <2>1. ASSUME k = j + m, k < N, P >= w[k + 1] + e PROVE FALSE
    <3>1. PICK x, y : x = w[k] /\ y = w[k + 1]
      OBVIOUS
    <3>2. /\ k \in 0..N /\ j \in 0..k /\ k + 1 \in 0..N /\ k \in 0..(k + 1) /\ (k + 1) - k = 1
          /\ k - j = m
      BY <1>1, <2>1
    <3>3. W0 + m <= x /\ x + 1 <= y /\ x \in Nat /\ y \in Nat
      BY <1>0, <3>1, <3>2, Zenon
    <3>4. P >= y + e
      BY <2>1, <3>1, Zenon
    <3> QED
      BY <1>1, <3>3, <3>4
  <2>2. k = j + m \/ Done(due, w, P, e, k)
    BY <1>6, Zenon
  <2> QED
    BY <1>0, <2>1, <2>2, Zenon DEF Done
<1> QED
  BY <1>0, <1>2, <1>6, <1>7, Zenon

(* What CodedTurn says, for every number of units. *)
LEMMA CodedCuts ==
    ASSUME NEW src \in Seq(Seq(Nat)), NEW str, NEW w, Laid(src, str, w), CodedRun(src),
           NEW P \in Nat, P <= Len(str), NEW annexB, \A q : Turn(annexB, q) = TakeCoded(q)
    PROVE  Cuts(annexB, src, str, w, P, 4)
<1>1. ASSUME NEW k \in 0..Len(src), NEW q, w[k] <= P, IsPart(q.rest, str, w[k], P)
      PROVE  Cut(Turn(annexB, q), q, src, str, w, P, 4, k)
  <2>1. Cut(TakeCoded(q), q, src, str, w, P, 4, k)
    BY <1>1, CodedTurn
  <2> QED
    BY <2>1, Zenon
<1> QED
  BY <1>1, Zenon DEF Cuts

(* What SizedTurn says, for every number of units. *)
LEMMA SizedCuts ==
    ASSUME NEW src \in Seq(Seq(Nat)), NEW str, NEW w, Laid(src, str, w), SizedRun(src),
           NEW due, Len(due) = Len(src), \A i \in 1..Len(src) : due[i] = Recoded(src[i]),
           NEW P \in Nat, P <= Len(str), NEW annexB, \A q : Turn(annexB, q) = TakeSized(q)
    PROVE  Cuts(annexB, due, str, w, P, 0)
<1>1. ASSUME NEW k \in 0..Len(src), NEW q, w[k] <= P, IsPart(q.rest, str, w[k], P)
      PROVE  Cut(Turn(annexB, q), q, due, str, w, P, 0, k)
  <2>1. Cut(TakeSized(q), q, due, str, w, P, 0, k)
    BY <1>1, SizedTurn
  <2> QED
    BY <2>1, Zenon
<1> QED
  BY <1>1, Zenon DEF Cuts

(* What push gives of units with start codes. *)
LEMMA CodedParse ==
    ASSUME NEW src \in Seq(Seq(Nat)), NEW str, NEW w, Laid(src, str, w), CodedRun(src),
           NEW P \in Nat, P <= Len(str), NEW j \in 0..Len(src), w[j] <= P,
           NEW b, IsPart(b, str, w[j], P)
    PROVE  \E k \in j..Len(src) :
              /\ Got(Parse(b).nals, Parse(b).rest, src, str, w, P, 4, j, k)
              /\ Done(src, w, P, 4, k)
<1>0. PICK annexB : annexB = (StartCodes(b, 1) # {})
  OBVIOUS
<1>1. Parse(b) = Taken(annexB, b)
  BY <1>0, Zenon DEF Parse
<1>2. PICK N, m, W0 : N = Len(src) /\ m = Len(b) /\ W0 = w[j]
  OBVIOUS
<1>3. N \in Nat /\ m \in Nat /\ W0 \in Nat /\ m = P - W0 /\ b \in Seq(Nat) /\ j \in 0..N
  <2>1. b \in Seq(Nat) /\ Len(b) = P - w[j]
    BY Zenon DEF IsPart
  <2>2. w[j] \in Nat
    BY Zenon DEF Laid
  <2> QED
    BY <1>2, <2>1, <2>2, LenProperties, Zenon
<1>4. /\ \A k \in 0..Len(src) : w[k] \in Nat
      /\ \A k \in 0..Len(src) : \A i \in 0..k : w[i] + (k - i) <= w[k]
  <2>1. \A k \in 1..Len(src) : Len(src[k]) > 0
    <3> TAKE k \in 1..Len(src)
    <3>1. NoCodeIn(src[k])
      BY Zenon DEF CodedRun
    <3>2. Len(src[k]) >= 4 /\ Len(src[k]) \in Nat
      BY <3>1, LenProperties DEF NoCodeIn
    <3> QED
      BY <3>2
  <2> QED
    BY <2>1, Grows, Zenon DEF Laid
<1>5. CASE StartCodes(b, 1) # {}
  <2>1. \A q : Turn(annexB, q) = TakeCoded(q)
    BY <1>0, <1>5, Zenon DEF Turn
  <2>2. Cuts(annexB, src, str, w, P, 4)
    BY <2>1, CodedCuts
  <2>3. 4 \in Nat
    OBVIOUS
  <2> QED
    BY <1>1, <1>4, <2>2, <2>3, LoopTakes
<1>6. CASE StartCodes(b, 1) = {}
  <2>1. \A q : Turn(annexB, q) = TakeSized(q)
    BY <1>0, <1>6, Zenon DEF Turn
  <2>2. ASSUME j < N PROVE m < 4 /\ P < w[j + 1] + 4
    <3>1. j \in 0..(N - 1) /\ j + 1 \in 1..N
      BY <1>3, <2>2
    <3>2. /\ Agree(b, src[j + 1]) /\ src[j + 1] \in Seq(Nat)
          /\ w[j + 1] = w[j] + Len(src[j + 1])
      BY <1>2, <3>1, BeginsLikeNext
    <3>3. NoCodeIn(src[j + 1])
      BY <1>2, <3>1, Zenon DEF CodedRun
    <3>4. m < 4
      <4>1. ASSUME m >= 4 PROVE FALSE
        <5>1. Len(b) >= 4 /\ b \in Seq(Nat)
          BY <1>2, <1>3, <4>1, Zenon
        <5> QED
          BY <1>6, <3>2, <3>3, <5>1, StartsWithCode
      <4> QED
        BY <1>3, <4>1
    <3>5. PICK x, l : x = w[j + 1] /\ l = Len(src[j + 1])
      OBVIOUS
    <3>6. x = W0 + l /\ l \in Nat
      BY <1>2, <3>2, <3>5, LenProperties
    <3>7. P < x + 4
      BY <1>3, <3>4, <3>6
    <3> QED
      BY <3>4, <3>5, <3>7, Zenon
  <2>3. m < 4
    <3>1. j = N => W0 = Len(str)
      BY <1>2, Zenon DEF Laid
    <3>2. j = N \/ j < N
      BY <1>3
    <3>3. j = N => m < 4
      BY <1>3, <3>1
    <3> QED
      BY <2>2, <3>2, <3>3, Zenon
  <2>4. Parse(b).nals = <<>> /\ Parse(b).rest = b
    BY <1>1, <1>2, <1>3, <2>1, <2>3, ShortStays
  <2>5. Got(<<>>, b, src, str, w, P, 4, j, j)
    <3>1. <<>> \in Seq(Seq(Nat)) /\ Len(<<>>) = j - j
      BY <1>3, EmptySeq
    <3>2. \A i \in 1..(j - j) : FALSE
      BY <1>3
    <3> QED
      BY <3>1, <3>2, Zenon DEF Got
  <2>6. Done(src, w, P, 4, j)
    <3>1. ASSUME j < N, P >= w[j + 1] + 4 PROVE FALSE
      <4>1. PICK x : x = w[j + 1]
        OBVIOUS
      <4>2. P < x + 4 /\ P >= x + 4
        BY <2>2, <3>1, <4>1, Zenon
      <4>3. x \in Nat
        <5>1. j + 1 \in 0..N
          BY <1>3, <3>1
        <5> QED
          BY <1>2, <1>4, <4>1, <5>1, Zenon
      <4> QED
        BY <4>2, <4>3
    <3> QED
      BY <1>2, <3>1, Zenon DEF Done
  <2>7. j \in j..N
    BY <1>3
  <2> QED
    BY <1>2, <2>4, <2>5, <2>6, <2>7, Zenon
<1> QED
  BY <1>5, <1>6, Zenon

\* No code begins in a unit, in a length nor across two units.
PlainRun(src) == \A i, j \in 1..Len(src) : StartCodes(src[i] \o src[j], 1) = {}

(* Units with lengths are never taken for units with start codes. *)
LEMMA NoCodesSeen ==
    ASSUME NEW src \in Seq(Seq(Nat)), NEW str, NEW w, Laid(src, str, w),
           SizedRun(src), PlainRun(src),
           NEW P \in Nat, P <= Len(str), NEW k \in 0..Len(src), w[k] <= P,
           NEW b, IsPart(b, str, w[k], P)
    PROVE  StartCodes(b, 1) = {}
<1> SUFFICES ASSUME NEW i \in StartCodes(b, 1) PROVE FALSE
  OBVIOUS
<1>1. PICK N, W0, L, m : N = Len(src) /\ W0 = w[k] /\ L = Len(str) /\ m = Len(b)
  OBVIOUS
<1>2. /\ N \in Nat /\ W0 \in Nat /\ m = P - W0 /\ L \in Nat /\ P <= L
      /\ \A n \in 1..m : b[n] = str[W0 + n]
  <2>1. m = P - W0 /\ \A n \in 1..(P - W0) : b[n] = str[W0 + n]
    BY <1>1, Zenon DEF IsPart
  <2>2. W0 \in Nat /\ str \in Seq(Nat)
    BY <1>1, Zenon DEF Laid
  <2> QED
    BY <1>1, <2>1, <2>2, LenProperties, Zenon
<1>3. /\ \A n \in 0..N : w[n] \in Nat
      /\ w[0] = 0 /\ w[N] = L
      /\ \A n \in 1..N : w[n] = w[n - 1] + Len(src[n])
      /\ \A n \in 1..N : \A y \in 1..Len(src[n]) : str[w[n - 1] + y] = src[n][y]
  BY <1>1, Zenon DEF Laid
<1>4. /\ i \in 1..(m - 3) /\ b[i] = 0 /\ b[i + 1] = 0
      /\ b[i + 2] = 1 \/ (b[i + 2] = 0 /\ b[i + 3] = 1)
  BY <1>1, Zenon DEF StartCodes
<1>5. PICK p : p = W0 + i
  OBVIOUS
<1>6. p \in Nat /\ p >= 1 /\ p + 3 <= L
  BY <1>2, <1>4, <1>5
<1>7. \A d \in 0..3 : b[i + d] = str[p + d]
  <2> TAKE d \in 0..3
  <2>1. i + d \in 1..m /\ W0 + (i + d) = p + d
    BY <1>2, <1>4, <1>5
  <2> QED
    BY <1>2, <2>1, Zenon
<1> DEFINE T == {n \in 1..N : w[n] >= p}
<1>8. T \subseteq Nat /\ T # {}
  <2>1. N # 0
    BY <1>3, <1>6
  <2>2. N \in 1..N /\ L >= p
    BY <1>2, <1>6, <2>1
  <2> QED
    BY <1>3, <2>2
<1>9. PICK n \in T : \A y \in T : n <= y
  <2> HIDE DEF T
  <2> QED
    BY <1>8, SmallestOf
<1>10. PICK u, l, V0, V1 : u = src[n] /\ l = Len(u) /\ V0 = w[n - 1] /\ V1 = w[n]
  OBVIOUS
<1>11. n \in 1..N /\ V1 >= p /\ V1 = V0 + l /\ V0 < p /\ V0 \in Nat /\ V1 \in Nat
  <2>1. n \in 1..N /\ V1 >= p /\ n - 1 \in 0..N /\ n \in 0..N
    BY <1>2, <1>9, <1>10
  <2>2. V0 \in Nat /\ V1 \in Nat /\ V1 = V0 + l
    BY <1>3, <1>10, <2>1, Zenon
  <2>3. CASE n = 1
    <3>1. V0 = 0
      BY <1>3, <1>10, <2>3
    <3> QED
      BY <1>6, <2>1, <2>2, <3>1
  <2>4. CASE n # 1
    <3>1. n - 1 \in 1..N /\ ~(n <= n - 1)
      BY <2>1, <2>4
    <3>2. ~(V0 >= p)
      BY <1>9, <1>10, <3>1
    <3> QED
      BY <1>6, <2>1, <2>2, <3>2
  <2> QED
    BY <2>3, <2>4, Zenon
<1>12. u \in Seq(Nat) /\ l \in Nat /\ l > 4
  <2>1. Sized(u)
    BY <1>1, <1>10, <1>11, Zenon DEF SizedRun
  <2> QED
    BY <1>10, <2>1, LenProperties DEF Sized
<1>13. PICK v : v = IF n < N THEN src[n + 1] ELSE u
  OBVIOUS
<1>14. /\ v \in Seq(Nat) /\ Len(v) \in Nat /\ Len(v) > 4 /\ StartCodes(u \o v, 1) = {}
       /\ n < N => \A y \in 1..Len(v) : str[V1 + y] = v[y]
  <2>1. CASE n < N
    <3>1. PICK x : x = n + 1
      OBVIOUS
    <3>2. x \in 1..N /\ x - 1 = n
      BY <1>2, <1>11, <2>1, <3>1
    <3>3. v = src[x]
      BY <1>13, <2>1, <3>1, Zenon
    <3>4. Sized(v)
      BY <1>1, <3>2, <3>3, Zenon DEF SizedRun
    <3>5. v \in Seq(Nat) /\ Len(v) \in Nat /\ Len(v) > 4
      BY <3>4, LenProperties DEF Sized
    <3>6. \A y \in 1..Len(v) : str[V1 + y] = v[y]
      BY <1>3, <1>10, <3>2, <3>3, Zenon
    <3> QED
      BY <1>1, <1>10, <1>11, <3>2, <3>3, <3>5, <3>6, Zenon DEF PlainRun
  <2>2. CASE ~(n < N)
    <3>1. v = u
      BY <1>13, <2>2, Zenon
    <3> QED
      BY <1>1, <1>10, <1>11, <1>12, <2>2, <3>1, Zenon DEF PlainRun
  <2> QED
    BY <2>1, <2>2, Zenon
<1>15. PICK x, h, z : x = p - V0 /\ h = Len(v) /\ z = u \o v
  OBVIOUS
<1>16. x \in 1..l /\ h \in Nat /\ h > 4
  BY <1>6, <1>11, <1>12, <1>14, <1>15
<1>17. /\ Len(z) = l + h
       /\ \A y \in 1..l : z[y] = u[y]
       /\ \A y \in (l + 1)..(l + h) : z[y] = v[y - l]
  <2>1. /\ Len(u \o v) = Len(u) + Len(v)
        /\ \A y \in 1..Len(u) : (u \o v)[y] = u[y]
        /\ \A y \in (Len(u) + 1)..(Len(u) + Len(v)) : (u \o v)[y] = v[y - Len(u)]
    <3>1. u \in Seq(Nat) /\ v \in Seq(Nat)
      BY <1>12, <1>14, Zenon
    <3> QED
      BY <3>1, Joined, Zenon
  <2> QED
    BY <1>10, <1>15, <2>1, Zenon
<1>18. \A d \in 0..3 : z[x + d] = str[p + d]
  <2> TAKE d \in 0..3
  <2>1. CASE x + d <= l
    <3>1. x + d \in 1..l /\ V0 + (x + d) = p + d
      BY <1>6, <1>11, <1>12, <1>15, <1>16, <2>1
    <3>2. str[V0 + (x + d)] = u[x + d]
      BY <1>3, <1>10, <1>11, <3>1, Zenon
    <3> QED
      BY <1>17, <3>1, <3>2, Zenon
  <2>2. CASE x + d > l
    <3>1. x + d \in (l + 1)..(l + h) /\ (x + d) - l \in 1..h /\ V1 + ((x + d) - l) = p + d
      BY <1>6, <1>11, <1>12, <1>15, <1>16, <2>2
    <3>2. n < N
      <4>1. V1 < L
        BY <1>2, <1>6, <1>11, <1>12, <1>16, <2>2, <3>1
      <4>2. n # N
        <5>1. L # V1
          BY <1>2, <1>11, <4>1
        <5> QED
          BY <1>3, <1>10, <5>1, Zenon
      <4> QED
        BY <1>2, <1>11, <4>2
    <3>3. str[V1 + ((x + d) - l)] = v[(x + d) - l]
      BY <1>14, <1>15, <3>1, <3>2, Zenon
    <3> QED
      BY <1>17, <3>1, <3>3, Zenon
  <2> QED
    BY <1>12, <1>16, <2>1, <2>2
<1>19. x \in StartCodes(z, 1)
  <2>1. x \in 1..(Len(z) - 3)
    BY <1>12, <1>16, <1>17
  <2>2. \A d \in 0..3 : z[x + d] = b[i + d]
    BY <1>7, <1>18, Zenon
  <2>3. /\ z[x] = b[i] /\ z[x + 1] = b[i + 1]
        /\ z[x + 2] = b[i + 2] /\ z[x + 3] = b[i + 3]
    <3>1. x + 0 = x /\ i + 0 = i /\ \A d \in {0, 1, 2, 3} : d \in 0..3
      BY <1>4, <1>16
    <3>2. z[x + 0] = b[i + 0] /\ z[x + 1] = b[i + 1] /\ z[x + 2] = b[i + 2] /\ z[x + 3] = b[i + 3]
      BY <2>2, <3>1, Zenon
    <3> QED
      BY <3>1, <3>2, Zenon
  <2> QED
    BY <1>4, <2>1, <2>3, Zenon DEF StartCodes
<1> QED
  BY <1>14, <1>15, <1>19

(* A unit behind its new start code is bytes. *)
LEMMA RecodedType ==
    ASSUME NEW u \in Seq(Nat), Len(u) > 4
    PROVE  Recoded(u) \in Seq(Nat)
<1>1. <<0, 0, 0, 1>> \in Seq(Nat)
  OBVIOUS
<1>2. From(u, 5) \in Seq(Nat)
  <2>1. \A i \in 5..Len(u) : u[i] \in Nat
    BY ElementOfSeq, LenProperties
  <2> QED
    BY <2>1, LenProperties DEF From
<1> QED
  BY <1>1, <1>2, ConcatProperties DEF Recoded

(* What push gives of units with lengths. *)
LEMMA SizedParse ==
    ASSUME NEW src \in Seq(Seq(Nat)), NEW str, NEW w, Laid(src, str, w),
           SizedRun(src), PlainRun(src),
           NEW due \in Seq(Seq(Nat)), Len(due) = Len(src),
           \A i \in 1..Len(src) : due[i] = Recoded(src[i]),
           NEW P \in Nat, P <= Len(str), NEW j \in 0..Len(src), w[j] <= P,
           NEW b, IsPart(b, str, w[j], P)
    PROVE  \E k \in j..Len(due) :
              /\ Got(Parse(b).nals, Parse(b).rest, due, str, w, P, 0, j, k)
              /\ Done(due, w, P, 0, k)
<1>1. PICK annexB : annexB = (StartCodes(b, 1) # {})
  OBVIOUS
<1>2. Parse(b) = Taken(annexB, b)
  BY <1>1, Zenon DEF Parse
<1>3. StartCodes(b, 1) = {}
  BY NoCodesSeen
<1>4. \A q : Turn(annexB, q) = TakeSized(q)
  BY <1>1, <1>3, Zenon DEF Turn
<1>5. Cuts(annexB, due, str, w, P, 0)
  BY <1>4, SizedCuts
<1>6. /\ \A k \in 0..Len(src) : w[k] \in Nat
      /\ \A k \in 0..Len(src) : \A i \in 0..k : w[i] + (k - i) <= w[k]
  <2>1. \A k \in 1..Len(src) : Len(src[k]) > 0
    <3> TAKE k \in 1..Len(src)
    <3>1. Sized(src[k])
      BY Zenon DEF SizedRun
    <3>2. Len(src[k]) > 4 /\ Len(src[k]) \in Nat
      BY <3>1, LenProperties DEF Sized
    <3> QED
      BY <3>2
  <2> QED
    BY <2>1, Grows, Zenon DEF Laid
<1>7. 0 \in Nat
  OBVIOUS
<1>8. j \in 0..Len(due)
  BY Zenon
<1>9. /\ \A k \in 0..Len(due) : w[k] \in Nat
      /\ \A k \in 0..Len(due) : \A i \in 0..k : w[i] + (k - i) <= w[k]
  BY <1>6, Zenon
<1>10. \E k \in j..Len(due) :
              /\ Got(Taken(annexB, b).nals, Taken(annexB, b).rest, due, str, w, P, 0, j, k)
              /\ Done(due, w, P, 0, k)
  BY <1>5, <1>7, <1>8, <1>9, LoopTakes
<1> QED
  BY <1>2, <1>10, Zenon

(* A part with the bytes behind it is a longer part. *)
LEMMA PartGrows ==
    ASSUME NEW str \in Seq(Nat), NEW p \in Nat, NEW P \in Nat, p <= P, NEW n \in Nat,
           P + n <= Len(str), NEW b, IsPart(b, str, p, P)
    PROVE  IsPart(b \o SubSeq(str, P + 1, P + n), str, p, P + n)
<1>1. PICK c, L : c = SubSeq(str, P + 1, P + n) /\ L = Len(str)
  OBVIOUS
<1>2. L \in Nat /\ P + n <= L
  BY <1>1, LenProperties
<1>3. \A i \in (P + 1)..(P + n) : str[i] \in Nat
  <2> TAKE i \in (P + 1)..(P + n)
  <2>1. i \in 1..L
    BY <1>2
  <2> QED
    BY <1>1, <2>1, ElementOfSeq
<1>4. c \in Seq(Nat) /\ Len(c) = n /\ \A i \in 1..n : c[i] = str[P + i]
  BY <1>1, <1>3
<1>5. PICK m : m = P - p
  OBVIOUS
<1>6. /\ m \in Nat /\ b \in Seq(Nat) /\ Len(b) = m /\ \A i \in 1..m : b[i] = str[p + i]
      /\ p + m = P /\ (P + n) - p = m + n
  <2>1. m \in Nat /\ p + m = P /\ (P + n) - p = m + n
    BY <1>5
  <2>2. b \in Seq(Nat) /\ Len(b) = m /\ \A i \in 1..m : b[i] = str[p + i]
    BY <1>5, Zenon DEF IsPart
  <2> QED
    BY <2>1, <2>2
<1>7. /\ b \o c \in Seq(Nat) /\ Len(b \o c) = Len(b) + Len(c)
      /\ \A i \in 1..Len(b) : (b \o c)[i] = b[i]
      /\ \A i \in (Len(b) + 1)..(Len(b) + Len(c)) : (b \o c)[i] = c[i - Len(b)]
  <2>1. b \in Seq(Nat) /\ c \in Seq(Nat)
    BY <1>4, <1>6, Zenon
  <2> QED
    BY <2>1, Joined, Zenon
<1>8. PICK d : d = b \o c
  OBVIOUS
<1>9. /\ d \in Seq(Nat) /\ Len(d) = m + n
      /\ \A i \in 1..m : d[i] = b[i]
      /\ \A i \in (m + 1)..(m + n) : d[i] = c[i - m]
  BY <1>4, <1>6, <1>7, <1>8, Zenon
<1>10. \A i \in 1..(m + n) : d[i] = str[p + i]
  <2> TAKE i \in 1..(m + n)
  <2>1. CASE i <= m
    <3>1. i \in 1..m
      BY <1>6, <2>1
    <3> QED
      BY <1>6, <1>9, <3>1, Zenon
  <2>2. CASE ~(i <= m)
    <3>1. i \in (m + 1)..(m + n) /\ i - m \in 1..n /\ P + (i - m) = p + i
      BY <1>6, <2>2
    <3> QED
      BY <1>4, <1>9, <3>1, Zenon
  <2> QED
    BY <2>1, <2>2, Zenon
<1>11. Len(d) = (P + n) - p /\ \A i \in 1..((P + n) - p) : d[i] = str[p + i]
  BY <1>6, <1>9, <1>10, Zenon
<1>12. d \in Seq(Nat)
  BY <1>9, Zenon
<1>13. IsPart(d, str, p, P + n)
  BY <1>11, <1>12, Zenon DEF IsPart
<1> QED
  BY <1>1, <1>8, <1>13, Zenon

\* What the parser has given out, and what it keeps: of P bytes pushed, of which F were
\* there at the last flush, it has given every unit whose end it has seen.
Kept(due, str, w, e, P, F, rest, given) ==
    /\ P \in Nat /\ P <= Len(str)
    /\ given \in Seq(Seq(Nat)) /\ Len(given) <= Len(due)
    /\ \A i \in 1..Len(given) : given[i] = due[i]
    /\ w[Len(given)] <= P /\ IsPart(rest, str, w[Len(given)], P)
    /\ Done(due, w, P, e, Len(given))
    /\ \A k \in 0..Len(due) : F >= w[k] => Len(given) >= k

\* The first k units due, and nothing else.
FirstOnes(given, due, k) ==
    given \in Seq(Seq(Nat)) /\ Len(given) = k /\ \A i \in 1..k : given[i] = due[i]

(* The next units behind the first ones are the first ones of more. *)
LEMMA GivenOn ==
    ASSUME NEW due, NEW given, NEW j \in Nat, FirstOnes(given, due, j),
           NEW k \in Nat, j <= k,
           NEW nals \in Seq(Seq(Nat)), Len(nals) = k - j,
           \A i \in 1..(k - j) : nals[i] = due[j + i]
    PROVE  FirstOnes(given \o nals, due, k)
<1>0. given \in Seq(Seq(Nat)) /\ Len(given) = j /\ \A i \in 1..j : given[i] = due[i]
  BY Zenon DEF FirstOnes
<1>1. /\ given \o nals \in Seq(Seq(Nat)) /\ Len(given \o nals) = Len(given) + Len(nals)
      /\ \A i \in 1..Len(given) : (given \o nals)[i] = given[i]
      /\ \A i \in (Len(given) + 1)..(Len(given) + Len(nals)) :
            (given \o nals)[i] = nals[i - Len(given)]
  <2>1. given \in Seq(Seq(Nat)) /\ nals \in Seq(Seq(Nat))
    BY <1>0, Zenon
  <2> QED
    BY <2>1, Joined, Zenon
<1>2. PICK d, n : d = given \o nals /\ n = k - j
  OBVIOUS
<1>3. n \in Nat /\ j + n = k
  BY <1>2
<1>4. /\ d \in Seq(Seq(Nat)) /\ Len(d) = j + n
      /\ \A i \in 1..j : d[i] = given[i]
      /\ \A i \in (j + 1)..(j + n) : d[i] = nals[i - j]
  BY <1>0, <1>1, <1>2, Zenon
<1>5. \A i \in 1..n : nals[i] = due[j + i]
  BY <1>2, Zenon
<1>6. \A i \in 1..k : d[i] = due[i]
  <2> TAKE i \in 1..k
  <2>1. CASE i <= j
    <3>1. i \in 1..j
      BY <2>1
    <3> QED
      BY <1>0, <1>4, <3>1, Zenon
  <2>2. CASE ~(i <= j)
    <3>1. i \in (j + 1)..(j + n) /\ i - j \in 1..n /\ j + (i - j) = i
      BY <1>3, <2>2
    <3> QED
      BY <1>4, <1>5, <3>1, Zenon
  <2> QED
    BY <2>1, <2>2, Zenon
<1>7. d \in Seq(Seq(Nat)) /\ Len(d) = k
  BY <1>3, <1>4, Zenon
<1> QED
  BY <1>2, <1>6, <1>7, Zenon DEF FirstOnes

(* A push keeps it so. *)
LEMMA KeptByPush ==
    ASSUME NEW due, NEW N \in Nat, Len(due) = N, NEW str, NEW w, NEW e, NEW P, NEW F, NEW rest,
           NEW given, Kept(due, str, w, e, P, F, rest, given),
           NEW Q \in Nat, Q <= Len(str), NEW j, j = Len(given), NEW k \in j..N,
           NEW nals, NEW left,
           Got(nals, left, due, str, w, Q, e, j, k), Done(due, w, Q, e, k)
    PROVE  Kept(due, str, w, e, Q, F, left, given \o nals)
<1>1. /\ given \in Seq(Seq(Nat)) /\ j <= N
      /\ \A i \in 1..j : given[i] = due[i]
      /\ \A n \in 0..N : F >= w[n] => j >= n
  BY Zenon DEF Kept
<1>2. j \in Nat /\ k \in Nat /\ j <= k /\ k <= N
  <2>1. j \in Nat
    BY <1>1, LenProperties
  <2> QED
    BY <2>1
<1>3. /\ nals \in Seq(Seq(Nat)) /\ Len(nals) = k - j
      /\ \A i \in 1..(k - j) : nals[i] = due[j + i]
      /\ w[k] <= Q /\ IsPart(left, str, w[k], Q)
  BY Zenon DEF Got
<1>4. FirstOnes(given \o nals, due, k)
  <2>1. FirstOnes(given, due, j)
    BY <1>1, Zenon DEF FirstOnes
  <2>2. /\ nals \in Seq(Seq(Nat)) /\ Len(nals) = k - j
        /\ \A i \in 1..(k - j) : nals[i] = due[j + i]
    BY <1>3, Zenon
  <2> QED
    BY <1>2, <2>1, <2>2, GivenOn, Zenon
<1>5. PICK d : d = given \o nals
  OBVIOUS
<1>6. d \in Seq(Seq(Nat)) /\ Len(d) = k /\ \A i \in 1..k : d[i] = due[i]
  BY <1>4, <1>5, Zenon DEF FirstOnes
<1>7. \A n \in 0..N : F >= w[n] => k >= n
  <2> TAKE n \in 0..N
  <2>1. F >= w[n] => j >= n
    BY <1>1, Zenon
  <2>2. j >= n => k >= n
    BY <1>2
  <2> QED
    BY <2>1, <2>2, Zenon
<1>8. Kept(due, str, w, e, Q, F, left, d)
  BY <1>2, <1>3, <1>6, <1>7, Zenon DEF Kept
<1> QED
  BY <1>5, <1>8, Zenon

(* What flush pushes: a start code and a byte. *)
LEMMA SentinelIs ==
    /\ Sentinel \in Seq(Nat) /\ Len(Sentinel) = 4
    /\ Sentinel[1] = 0 /\ Sentinel[2] = 0 /\ Sentinel[3] = 1
BY DEF Sentinel

\* The first K units with the sentinel behind them, as units and as bytes.
SentinelBehind(src, str, w, K, units, bytes, ends) ==
    /\ units \in Seq(Seq(Nat)) /\ Len(units) = K + 1 /\ units[K + 1] = Sentinel
    /\ \A i \in 1..K : units[i] = src[i]
    /\ bytes \in Seq(Nat) /\ Len(bytes) = w[K] + 4
    /\ \A i \in 1..w[K] : bytes[i] = str[i]
    /\ \A i \in 1..4 : bytes[w[K] + i] = Sentinel[i]
    /\ \A i \in 0..K : ends[i] = w[i]
    /\ ends[K + 1] = w[K] + 4

(* There are such. *)
LEMMA SentinelFits ==
    ASSUME NEW src \in Seq(Seq(Nat)), NEW str, NEW w, Laid(src, str, w),
           NEW K \in 0..Len(src), w[K] <= Len(str)
    PROVE  \E units, bytes, ends : SentinelBehind(src, str, w, K, units, bytes, ends)
<1>1. PICK s, W : s = Sentinel /\ W = w[K]
  OBVIOUS
<1>2. s \in Seq(Nat) /\ Len(s) = 4
  BY <1>1, SentinelIs, Zenon
<1>3. W \in Nat /\ str \in Seq(Nat) /\ W \in 0..Len(str) /\ K \in Nat
  <2>1. W \in Nat /\ str \in Seq(Nat) /\ W <= Len(str)
    BY <1>1, Zenon DEF Laid
  <2> QED
    BY <2>1, LenProperties
<1>4. PICK a, c : a = SubSeq(src, 1, K) /\ c = SubSeq(str, 1, W)
  OBVIOUS
<1>5. a \in Seq(Seq(Nat)) /\ Len(a) = K /\ \A i \in 1..K : a[i] = src[i]
  BY <1>4, Firsts, Zenon
<1>6. c \in Seq(Nat) /\ Len(c) = W /\ \A i \in 1..W : c[i] = str[i]
  BY <1>3, <1>4, Firsts, Zenon
<1>7. PICK units : units = Append(a, s)
  OBVIOUS
<1>8. /\ units \in Seq(Seq(Nat)) /\ Len(units) = K + 1 /\ units[K + 1] = s
      /\ \A i \in 1..K : units[i] = src[i]
  <2>1. /\ Append(a, s) \in Seq(Seq(Nat)) /\ Len(Append(a, s)) = Len(a) + 1
        /\ \A i \in 1..Len(a) : Append(a, s)[i] = a[i]
        /\ Append(a, s)[Len(a) + 1] = s
    <3>1. a \in Seq(Seq(Nat)) /\ s \in Seq(Nat)
      BY <1>2, <1>5, Zenon
    <3> QED
      BY <3>1, Appended, Zenon
  <2> QED
    BY <1>5, <1>7, <2>1, Zenon
<1>9. PICK bytes : bytes = c \o s
  OBVIOUS
<1>10. /\ bytes \in Seq(Nat) /\ Len(bytes) = W + 4
       /\ \A i \in 1..W : bytes[i] = c[i]
       /\ \A i \in (W + 1)..(W + 4) : bytes[i] = s[i - W]
  <2>1. /\ c \o s \in Seq(Nat) /\ Len(c \o s) = Len(c) + Len(s)
        /\ \A i \in 1..Len(c) : (c \o s)[i] = c[i]
        /\ \A i \in (Len(c) + 1)..(Len(c) + Len(s)) : (c \o s)[i] = s[i - Len(c)]
    <3>1. c \in Seq(Nat) /\ s \in Seq(Nat)
      BY <1>2, <1>6, Zenon
    <3> QED
      BY <3>1, Joined, Zenon
  <2> QED
    BY <1>2, <1>6, <1>9, <2>1, Zenon
<1>11. \A i \in 1..4 : bytes[W + i] = s[i]
  <2> TAKE i \in 1..4
  <2>1. W + i \in (W + 1)..(W + 4) /\ (W + i) - W = i
    BY <1>3
  <2> QED
    BY <1>10, <2>1, Zenon
<1>12. \A i \in 1..W : bytes[i] = str[i]
  BY <1>6, <1>10, Zenon
<1>13. PICK ends : ends = [i \in 0..(K + 1) |-> IF i = K + 1 THEN W + 4 ELSE w[i]]
  OBVIOUS
<1>14. ends[K + 1] = W + 4
  <2>1. K + 1 \in 0..(K + 1)
    BY <1>3
  <2> QED
    BY <1>13, <2>1, Zenon
<1>15. \A i \in 0..K : ends[i] = w[i]
  <2> TAKE i \in 0..K
  <2>1. i \in 0..(K + 1) /\ i # K + 1
    BY <1>3
  <2> QED
    BY <1>13, <2>1, Zenon
<1>16. SentinelBehind(src, str, w, K, units, bytes, ends)
  BY <1>1, <1>8, <1>10, <1>11, <1>12, <1>14, <1>15, Zenon DEF SentinelBehind
<1> QED
  BY <1>16, Zenon

\* The encoder pads no unit with zeros.
NoneEndsInZero(src) == \A k \in 1..Len(src) : src[k][Len(src[k])] # 0

(* The sentinel has a code where a code may be. *)
LEMMA SentinelCoded == NoCodeIn(Sentinel)
<1>1. PICK s : s = Sentinel
  OBVIOUS
<1>2. s \in Seq(Nat) /\ Len(s) = 4 /\ s[1] = 0 /\ s[2] = 0 /\ s[3] = 1
  BY <1>1, SentinelIs, Zenon
<1>3. 1 \in StartCodes(s, 1)
  BY <1>2 DEF StartCodes
<1>4. \A i \in 3..(Len(s) - 2) : FALSE
  BY <1>2
<1>5. Len(s) >= 4
  BY <1>2
<1>6. NoCodeIn(s)
  BY <1>2, <1>3, <1>4, <1>5, Zenon DEF NoCodeIn
<1> QED
  BY <1>1, <1>6, Zenon

(* The first units keep their codes apart with the sentinel behind them. *)
LEMMA SentinelRun ==
    ASSUME NEW src, NEW N \in Nat, Len(src) = N, CodedRun(src), NoneEndsInZero(src),
           NEW K \in 0..N, NEW units, Len(units) = K + 1, units[K + 1] = Sentinel,
           \A i \in 1..K : units[i] = src[i]
    PROVE  CodedRun(units)
<1>1. \A k \in 1..N : NoCodeIn(src[k]) /\ src[k][Len(src[k])] # 0
  BY Zenon DEF CodedRun, NoneEndsInZero
<1>2. ASSUME NEW k \in 1..(K + 1)
      PROVE  NoCodeIn(units[k]) /\ (k < K + 1 => units[k][Len(units[k])] # 0)
  <2>1. CASE k = K + 1
    <3>1. ~(k < K + 1)
      BY <2>1
    <3> QED
      BY <2>1, <3>1, SentinelCoded, Zenon
  <2>2. CASE k # K + 1
    <3>1. k \in 1..K /\ k \in 1..N
      BY <2>2
    <3> QED
      BY <1>1, <3>1, Zenon
  <2> QED
    BY <2>1, <2>2, Zenon
<1> QED
  BY <1>2, Zenon DEF CodedRun

(* The first bytes with the sentinel behind them are its units one behind the other. *)
LEMMA SentinelLaid ==
    ASSUME NEW src \in Seq(Seq(Nat)), NEW str, NEW w, Laid(src, str, w),
           NEW K \in 0..Len(src), NEW W, W = w[K],
           \A i \in 0..K : w[i] <= W,
           NEW units, NEW bytes, NEW ends, SentinelBehind(src, str, w, K, units, bytes, ends)
    PROVE  Laid(units, bytes, ends)
<1>1. PICK s, N : s = Sentinel /\ N = Len(src)
  OBVIOUS
<1>2. /\ Len(units) = K + 1 /\ units[K + 1] = s
      /\ \A i \in 1..K : units[i] = src[i]
      /\ bytes \in Seq(Nat) /\ Len(bytes) = W + 4
      /\ \A i \in 1..W : bytes[i] = str[i]
      /\ \A i \in 1..4 : bytes[W + i] = s[i]
      /\ \A i \in 0..K : ends[i] = w[i]
      /\ ends[K + 1] = W + 4
  BY <1>1, Zenon DEF SentinelBehind
<1>3. /\ \A i \in 0..N : w[i] \in Nat
      /\ w[0] = 0
      /\ \A i \in 1..N : w[i] = w[i - 1] + Len(src[i])
      /\ \A i \in 1..N : \A y \in 1..Len(src[i]) : str[w[i - 1] + y] = src[i][y]
  BY <1>1, Zenon DEF Laid
<1>4. N \in Nat /\ K \in Nat /\ K <= N /\ W \in Nat /\ Len(s) = 4
  <2>1. N \in Nat /\ K \in Nat /\ K <= N
    BY <1>1, LenProperties
  <2>2. W \in Nat
    BY <1>1, <1>3, Zenon
  <2> QED
    BY <1>1, <2>1, <2>2, SentinelIs, Zenon
<1>5. \A i \in 0..(K + 1) : ends[i] \in Nat
  <2> TAKE i \in 0..(K + 1)
  <2>1. CASE i = K + 1
    <3>1. W + 4 \in Nat
      BY <1>4
    <3> QED
      BY <1>2, <2>1, <3>1, Zenon
  <2>2. CASE i # K + 1
    <3>1. i \in 0..K /\ i \in 0..N
      BY <1>4, <2>2
    <3> QED
      BY <1>2, <1>3, <3>1, Zenon
  <2> QED
    BY <2>1, <2>2, Zenon
<1>6. ends[0] = 0
  <2>1. 0 \in 0..K
    BY <1>4
  <2> QED
    BY <1>2, <1>3, <2>1, Zenon
<1>7. ASSUME NEW i \in 1..(K + 1)
      PROVE  /\ ends[i] = ends[i - 1] + Len(units[i])
             /\ \A y \in 1..Len(units[i]) : bytes[ends[i - 1] + y] = units[i][y]
  <2>1. CASE i = K + 1
    <3>1. i - 1 = K /\ K \in 0..K
      BY <1>4, <2>1
    <3>2. ends[i - 1] = W
      BY <1>2, <3>1, Zenon
    <3>3. units[i] = s /\ Len(units[i]) = 4 /\ ends[i] = W + 4
      BY <1>2, <1>4, <2>1, Zenon
    <3> QED
      BY <1>2, <3>2, <3>3, Zenon
  <2>2. CASE i # K + 1
    <3>1. i \in 1..K /\ i \in 1..N /\ i \in 0..K /\ i - 1 \in 0..K /\ i \in 0..N /\ i - 1 \in 0..N
      BY <1>4, <2>2
    <3>2. PICK u, V, V0, l : u = src[i] /\ V = w[i] /\ V0 = w[i - 1] /\ l = Len(src[i])
      OBVIOUS
    <3>3. ends[i] = V /\ ends[i - 1] = V0 /\ units[i] = u /\ V <= W
      BY <1>2, <3>1, <3>2, Zenon
    <3>4. V = V0 + l /\ V0 \in Nat /\ V \in Nat
      BY <1>3, <3>1, <3>2, Zenon
    <3>5. u \in Seq(Nat) /\ l \in Nat
      <4>1. u \in Seq(Nat)
        BY <1>1, <3>1, <3>2, ElementOfSeq, Zenon
      <4> QED
        BY <3>2, <4>1, LenProperties
    <3>6. ASSUME NEW y \in 1..l PROVE bytes[V0 + y] = u[y]
      <4>1. V0 + y \in 1..W
        BY <1>4, <3>3, <3>4, <3>5
      <4>2. str[V0 + y] = u[y]
        BY <1>3, <3>1, <3>2, Zenon
      <4> QED
        BY <1>2, <4>1, <4>2, Zenon
    <3> QED
      BY <3>2, <3>3, <3>4, <3>6, Zenon
  <2> QED
    BY <2>1, <2>2, Zenon
<1>8. /\ bytes \in Seq(Nat)
      /\ \A i \in 0..Len(units) : ends[i] \in Nat
      /\ ends[0] = 0 /\ ends[Len(units)] = Len(bytes)
  BY <1>2, <1>5, <1>6, Zenon
<1>9. \A i \in 1..Len(units) :
         /\ ends[i] = ends[i - 1] + Len(units[i])
         /\ \A y \in 1..Len(units[i]) : bytes[ends[i - 1] + y] = units[i][y]
  BY <1>2, <1>7, Zenon
<1> QED
  BY <1>8, <1>9, Zenon DEF Laid

\* Each of N units ends behind the one before.
Growing(w, N) ==
    /\ \A k \in 0..N : w[k] \in Nat
    /\ \A k \in 0..N : \A i \in 0..k : w[i] + (k - i) <= w[k]

(* Units with codes are not empty. *)
LEMMA CodedGrows ==
    ASSUME NEW src \in Seq(Seq(Nat)), NEW str, NEW w, Laid(src, str, w), CodedRun(src)
    PROVE  Growing(w, Len(src))
<1>1. \A k \in 1..Len(src) : Len(src[k]) > 0
  <2> TAKE k \in 1..Len(src)
  <2>1. NoCodeIn(src[k])
    BY Zenon DEF CodedRun
  <2>2. Len(src[k]) >= 4 /\ Len(src[k]) \in Nat
    BY <2>1, LenProperties DEF NoCodeIn
  <2> QED
    BY <2>2
<1>2. \A k \in 0..Len(src) : \A j \in 0..k : w[j] + (k - j) <= w[k]
  BY <1>1, Grows, Zenon
<1>3. \A k \in 0..Len(src) : w[k] \in Nat
  BY Zenon DEF Laid
<1> QED
  BY <1>2, <1>3, Zenon DEF Growing

(* Neither are units with lengths. *)
LEMMA SizedGrows ==
    ASSUME NEW src \in Seq(Seq(Nat)), NEW str, NEW w, Laid(src, str, w), SizedRun(src)
    PROVE  Growing(w, Len(src))
<1>1. \A k \in 1..Len(src) : Len(src[k]) > 0
  <2> TAKE k \in 1..Len(src)
  <2>1. Sized(src[k])
    BY Zenon DEF SizedRun
  <2>2. Len(src[k]) > 4 /\ Len(src[k]) \in Nat
    BY <2>1, LenProperties DEF Sized
  <2> QED
    BY <2>2
<1>2. \A k \in 0..Len(src) : \A j \in 0..k : w[j] + (k - j) <= w[k]
  BY <1>1, Grows, Zenon
<1>3. \A k \in 0..Len(src) : w[k] \in Nat
  BY Zenon DEF Laid
<1> QED
  BY <1>2, <1>3, Zenon DEF Growing

(* At the end of a unit, all that is pushed may have been given. *)
LEMMA AllGiven ==
    ASSUME NEW due, NEW N \in Nat, Len(due) = N, NEW str, NEW w, Growing(w, N), NEW e \in Nat,
           NEW P \in Nat, P <= Len(str), NEW K \in 0..N, w[K] = P,
           NEW all, FirstOnes(all, due, K)
    PROVE  Kept(due, str, w, e, P, P, <<>>, all)
<1>1. /\ all \in Seq(Seq(Nat)) /\ Len(all) = K
      /\ \A i \in 1..K : all[i] = due[i]
  BY Zenon DEF FirstOnes
<1>2. K <= N /\ P <= P /\ P - P = 0 /\ K \in Nat
  OBVIOUS
<1>3. \A k \in 0..N : P >= w[k] => K >= k
  <2> SUFFICES ASSUME NEW k \in 0..N, P >= w[k], ~(K >= k) PROVE FALSE
    OBVIOUS
  <2>1. PICK v : v = w[k]
    OBVIOUS
  <2>2. K \in 0..k
    OBVIOUS
  <2>3. v \in Nat /\ P + (k - K) <= v
    BY <2>1, <2>2, Zenon DEF Growing
  <2>4. P >= v
    BY <2>1, Zenon
  <2> QED
    BY <2>3, <2>4
<1>4. Done(due, w, P, e, K)
  <2> SUFFICES ASSUME K < N, P >= w[K + 1] + e PROVE FALSE
    BY Zenon DEF Done
  <2>1. K + 1 \in 0..N /\ ~(K >= K + 1)
    OBVIOUS
  <2>2. PICK v : v = w[K + 1]
    OBVIOUS
  <2>3. v \in Nat
    BY <2>1, <2>2, Zenon DEF Growing
  <2>4. ~(P >= v)
    BY <1>3, <2>1, <2>2, Zenon
  <2>5. P >= v + e
    BY <2>2, Zenon
  <2> QED
    BY <2>3, <2>4, <2>5
<1>5. IsPart(<<>>, str, P, P)
  <2>1. <<>> \in Seq(Nat) /\ Len(<<>>) = 0 /\ \A i \in 1..0 : FALSE
    OBVIOUS
  <2> QED
    BY <1>2, <2>1, Zenon DEF IsPart
<1> QED
  BY <1>1, <1>2, <1>3, <1>4, <1>5, Zenon DEF Kept

(* Behind the bytes pushed comes the sentinel. *)
LEMMA SentinelPart ==
    ASSUME NEW src, NEW str, NEW w, NEW K \in Nat, NEW P \in Nat, w[K] = P,
           NEW units, NEW bytes, NEW ends, SentinelBehind(src, str, w, K, units, bytes, ends),
           NEW j \in 0..K, NEW W \in Nat, w[j] = W, W <= P, NEW rest, IsPart(rest, str, W, P)
    PROVE  IsPart(rest \o Sentinel, bytes, W, P + 4)
<1>1. PICK s, m : s = Sentinel /\ m = P - W
  OBVIOUS
<1>2. /\ m \in Nat /\ W + m = P /\ (P + 4) - W = m + 4
  BY <1>1
<1>3. /\ rest \in Seq(Nat) /\ Len(rest) = m /\ \A i \in 1..m : rest[i] = str[W + i]
  BY <1>1, Zenon DEF IsPart
<1>4. s \in Seq(Nat) /\ Len(s) = 4
  BY <1>1, SentinelIs, Zenon
<1>5. PICK d : d = rest \o s
  OBVIOUS
<1>6. /\ d \in Seq(Nat) /\ Len(d) = m + 4
      /\ \A i \in 1..m : d[i] = rest[i]
      /\ \A i \in (m + 1)..(m + 4) : d[i] = s[i - m]
  <2>1. /\ rest \o s \in Seq(Nat) /\ Len(rest \o s) = Len(rest) + Len(s)
        /\ \A i \in 1..Len(rest) : (rest \o s)[i] = rest[i]
        /\ \A i \in (Len(rest) + 1)..(Len(rest) + Len(s)) : (rest \o s)[i] = s[i - Len(rest)]
    <3>1. rest \in Seq(Nat) /\ s \in Seq(Nat)
      BY <1>3, <1>4, Zenon
    <3> QED
      BY <3>1, Joined, Zenon
  <2> QED
    BY <1>3, <1>4, <1>5, <2>1, Zenon
<1>7. /\ \A i \in 1..P : bytes[i] = str[i]
      /\ \A i \in 1..4 : bytes[P + i] = s[i]
  BY <1>1, Zenon DEF SentinelBehind
<1>8. \A i \in 1..(m + 4) : d[i] = bytes[W + i]
  <2> TAKE i \in 1..(m + 4)
  <2>1. CASE i <= m
    <3>1. i \in 1..m /\ W + i \in 1..P
      BY <1>2, <2>1
    <3> QED
      BY <1>3, <1>6, <1>7, <3>1, Zenon
  <2>2. CASE ~(i <= m)
    <3>1. i \in (m + 1)..(m + 4) /\ i - m \in 1..4 /\ P + (i - m) = W + i
      BY <1>2, <2>2
    <3> QED
      BY <1>6, <1>7, <3>1, Zenon
  <2> QED
    BY <2>1, <2>2, Zenon
<1>9. Len(d) = (P + 4) - W /\ \A i \in 1..((P + 4) - W) : d[i] = bytes[W + i]
  BY <1>2, <1>6, <1>8, Zenon
<1>10. IsPart(d, bytes, W, P + 4)
  <2>1. d \in Seq(Nat)
    BY <1>6, Zenon
  <2> QED
    BY <1>9, <2>1, Zenon DEF IsPart
<1> QED
  BY <1>1, <1>5, <1>10, Zenon

\* A flush gave the units behind the first j, up to the K-th, and left the sentinel.
LastTaken(t, src, j, K) ==
    /\ j <= K /\ t.rest = Sentinel
    /\ t.nals \in Seq(Seq(Nat)) /\ Len(t.nals) = K - j
    /\ \A i \in 1..(K - j) : t.nals[i] = src[j + i]

(* A flush gives out the units left in the buffer, and leaves the sentinel. *)
LEMMA FlushTakes ==
    ASSUME NEW src \in Seq(Seq(Nat)), NEW N \in Nat, Len(src) = N,
           NEW str, NEW w, Laid(src, str, w), CodedRun(src), NoneEndsInZero(src),
           NEW P \in Nat, P <= Len(str), NEW K \in 0..N, w[K] = P,
           NEW j \in 0..N, w[j] <= P, NEW rest, IsPart(rest, str, w[j], P), rest # <<>>,
           NEW annexB, \A q : Turn(annexB, q) = TakeCoded(q),
           NEW t, t = Taken(annexB, rest \o Sentinel)
    PROVE  LastTaken(t, src, j, K)
<1>1. Growing(w, N)
  BY CodedGrows, Zenon
<1>2. PICK W, L : W = w[j] /\ L = Len(str)
  OBVIOUS
<1>3. W \in Nat /\ W <= P /\ IsPart(rest, str, W, P)
  BY <1>1, <1>2, Zenon DEF Growing
<1>4. W # P
  <2> SUFFICES ASSUME W = P PROVE FALSE
    OBVIOUS
  <2>1. P - P = 0
    OBVIOUS
  <2>2. rest \in Seq(Nat) /\ Len(rest) = 0
    BY <1>3, <2>1, Zenon DEF IsPart
  <2>3. rest = <<>>
    BY <2>2, EmptySeq
  <2> QED
    BY <2>3
<1>5. j < K
  <2> SUFFICES ASSUME ~(j < K) PROVE FALSE
    OBVIOUS
  <2>1. K \in 0..j
    OBVIOUS
  <2>2. P + (j - K) <= W
    BY <1>1, <1>2, <2>1, Zenon DEF Growing
  <2> QED
    BY <1>3, <1>4, <2>2
<1>6. PICK units, bytes, ends : SentinelBehind(src, str, w, K, units, bytes, ends)
  BY SentinelFits, Zenon
<1>7. /\ units \in Seq(Seq(Nat)) /\ Len(units) = K + 1 /\ units[K + 1] = Sentinel
      /\ \A i \in 1..K : units[i] = src[i]
      /\ bytes \in Seq(Nat) /\ Len(bytes) = P + 4
      /\ \A i \in 1..4 : bytes[P + i] = Sentinel[i]
      /\ \A i \in 0..K : ends[i] = w[i]
      /\ ends[K + 1] = P + 4
  BY <1>6, Zenon DEF SentinelBehind
<1>8. \A i \in 0..K : w[i] <= P
  <2> TAKE i \in 0..K
  <2>1. PICK v : v = w[i]
    OBVIOUS
  <2>2. i \in 0..N
    OBVIOUS
  <2>3. v \in Nat /\ v + (K - i) <= P
    BY <1>1, <2>1, <2>2, Zenon DEF Growing
  <2>4. v <= P
    BY <2>3
  <2> QED
    BY <2>1, <2>4, Zenon
<1>9. Laid(units, bytes, ends)
  BY <1>6, <1>8, SentinelLaid, Zenon
<1>10. CodedRun(units)
  BY <1>7, SentinelRun, Zenon
<1>11. Growing(ends, K + 1)
  BY <1>7, <1>9, <1>10, CodedGrows, Zenon
<1>12. PICK Q, M, s : Q = P + 4 /\ M = K + 1 /\ s = Sentinel
  OBVIOUS
<1>13. Q \in Nat /\ M \in Nat /\ j \in 0..M /\ j \in 0..K /\ K \in Nat
  BY <1>5, <1>12
<1>14. PICK b : b = rest \o s
  OBVIOUS
<1>15. IsPart(b, bytes, W, Q)
  BY <1>2, <1>3, <1>6, <1>12, <1>13, <1>14, SentinelPart, Zenon
<1>16. Cuts(annexB, units, bytes, ends, Q, 4)
  <2>1. Q <= Len(bytes)
    BY <1>7, <1>12
  <2> QED
    BY <1>7, <1>9, <1>10, <1>13, <2>1, CodedCuts, Zenon
<1>17. ends[j] = W
  BY <1>2, <1>7, <1>13, Zenon
<1>18. PICK k \in j..M : /\ Got(t.nals, t.rest, units, bytes, ends, Q, 4, j, k)
                         /\ Done(units, ends, Q, 4, k)
  <2>1. W <= Q
    BY <1>3, <1>12
  <2>2. /\ ends[j] <= Q /\ IsPart(b, bytes, ends[j], Q)
        /\ \A n \in 0..Len(units) : ends[n] \in Nat
        /\ \A n \in 0..Len(units) : \A i \in 0..n : ends[i] + (n - i) <= ends[n]
        /\ Len(units) = M
    BY <1>7, <1>11, <1>12, <1>15, <1>17, <2>1, Zenon DEF Growing
  <2>3. units \in Seq(Seq(Nat)) /\ j \in 0..Len(units) /\ 4 \in Nat
    BY <1>7, <1>13, <2>2
  <2>4. \E k \in j..Len(units) :
           /\ Got(Taken(annexB, b).nals, Taken(annexB, b).rest, units, bytes, ends, Q, 4, j, k)
           /\ Done(units, ends, Q, 4, k)
    BY <1>13, <1>16, <2>2, <2>3, LoopTakes, Zenon
  <2> QED
    BY <1>12, <1>14, <2>2, <2>4, Zenon
<1>19. k = K
  <2>1. k # M
    <3> SUFFICES ASSUME k = M PROVE FALSE
      OBVIOUS
    <3>1. k # j
      BY <1>5, <1>12
    <3>2. Q >= Q + 4
      BY <1>7, <1>12, <1>18, <3>1, Zenon DEF Got
    <3> QED
      BY <1>13, <3>2
  <2>2. ~(k < K)
    <3> SUFFICES ASSUME k < K PROVE FALSE
      OBVIOUS
    <3>1. k + 1 \in 0..K /\ k < M
      BY <1>12, <1>13
    <3>2. PICK v : v = w[k + 1]
      OBVIOUS
    <3>3. v <= P /\ ends[k + 1] = v
      BY <1>7, <1>8, <3>1, <3>2, Zenon
    <3>4. ~(Q >= v + 4)
      BY <1>7, <1>12, <1>18, <3>1, <3>3, Zenon DEF Done
    <3>5. v \in Nat
      BY <1>1, <1>13, <3>1, <3>2 DEF Growing
    <3> QED
      BY <1>12, <3>3, <3>4, <3>5
  <2> QED
    BY <1>12, <1>13, <2>1, <2>2
<1>20. /\ t.nals \in Seq(Seq(Nat)) /\ Len(t.nals) = K - j
       /\ \A i \in 1..(K - j) : t.nals[i] = units[j + i]
       /\ IsPart(t.rest, bytes, ends[K], Q)
  BY <1>18, <1>19, Zenon DEF Got
<1>21. t.rest = Sentinel
  <2>1. PICK r : r = t.rest
    OBVIOUS
  <2>2. K \in 0..K /\ Q - P = 4
    BY <1>12, <1>13
  <2>3. ends[K] = P
    BY <1>7, <2>2, Zenon
  <2>4. r \in Seq(Nat) /\ Len(r) = 4 /\ \A i \in 1..4 : r[i] = bytes[P + i]
    BY <1>20, <2>1, <2>2, <2>3, Zenon DEF IsPart
  <2>5. s \in Seq(Nat) /\ Len(s) = 4 /\ \A i \in 1..4 : r[i] = s[i]
    BY <1>7, <1>12, <2>4, SentinelIs, Zenon
  <2>6. r = s
    BY <2>4, <2>5, SeqEqual
  <2> QED
    BY <1>12, <2>1, <2>6, Zenon
<1>22. \A i \in 1..(K - j) : t.nals[i] = src[j + i]
  <2> TAKE i \in 1..(K - j)
  <2>1. j + i \in 1..K
    OBVIOUS
  <2> QED
    BY <1>7, <1>20, <2>1, Zenon
<1>23. j <= K
  BY <1>5
<1> QED
  BY <1>20, <1>21, <1>22, <1>23, Zenon DEF LastTaken

(* A push keeps it so, with units with start codes ... *)
LEMMA CodedPush ==
    ASSUME NEW src \in Seq(Seq(Nat)), NEW str, NEW w, Laid(src, str, w), CodedRun(src),
           NEW P, NEW F, NEW rest, NEW given, Kept(src, str, w, 4, P, F, rest, given),
           NEW n \in Nat, P + n <= Len(str),
           NEW b, b = rest \o SubSeq(str, P + 1, P + n)
    PROVE  Kept(src, str, w, 4, P + n, F, Parse(b).rest, given \o Parse(b).nals)
<1>1. PICK N, j, Q : N = Len(src) /\ j = Len(given) /\ Q = P + n
  OBVIOUS
<1>2. /\ P \in Nat /\ given \in Seq(Seq(Nat)) /\ j <= N
      /\ w[j] <= P /\ IsPart(rest, str, w[j], P)
  BY <1>1, Zenon DEF Kept
<1>3. N \in Nat /\ j \in Nat /\ j \in 0..N /\ Q \in Nat
  BY <1>1, <1>2, LenProperties
<1>4. w[j] \in Nat /\ str \in Seq(Nat)
  BY <1>1, <1>3, Zenon DEF Laid
<1>5. w[j] <= Q
  BY <1>1, <1>2, <1>4
<1>6. IsPart(b, str, w[j], Q)
  BY <1>1, <1>2, <1>4, PartGrows, Zenon
<1>7. Q <= Len(str) /\ j \in 0..Len(src)
  BY <1>1, <1>3, Zenon
<1>8. PICK k \in j..N : /\ Got(Parse(b).nals, Parse(b).rest, src, str, w, Q, 4, j, k)
                        /\ Done(src, w, Q, 4, k)
  <2>1. \E k \in j..Len(src) : /\ Got(Parse(b).nals, Parse(b).rest, src, str, w, Q, 4, j, k)
                               /\ Done(src, w, Q, 4, k)
    BY <1>3, <1>5, <1>6, <1>7, CodedParse, Zenon
  <2> QED
    BY <1>1, <2>1, Zenon
<1>9. Kept(src, str, w, 4, Q, F, Parse(b).rest, given \o Parse(b).nals)
  BY <1>1, <1>3, <1>7, <1>8, KeptByPush, Zenon
<1> QED
  BY <1>1, <1>9, Zenon

(* ... and with units with lengths. *)
LEMMA SizedPush ==
    ASSUME NEW src \in Seq(Seq(Nat)), NEW str, NEW w, Laid(src, str, w),
           SizedRun(src), PlainRun(src),
           NEW due \in Seq(Seq(Nat)), Len(due) = Len(src),
           \A i \in 1..Len(src) : due[i] = Recoded(src[i]),
           NEW P, NEW F, NEW rest, NEW given, Kept(due, str, w, 0, P, F, rest, given),
           NEW n \in Nat, P + n <= Len(str),
           NEW b, b = rest \o SubSeq(str, P + 1, P + n)
    PROVE  Kept(due, str, w, 0, P + n, F, Parse(b).rest, given \o Parse(b).nals)
<1>1. PICK N, j, Q : N = Len(src) /\ j = Len(given) /\ Q = P + n
  OBVIOUS
<1>2. /\ P \in Nat /\ given \in Seq(Seq(Nat)) /\ j <= N
      /\ w[j] <= P /\ IsPart(rest, str, w[j], P)
  BY <1>1, Zenon DEF Kept
<1>3. N \in Nat /\ j \in Nat /\ j \in 0..N /\ Q \in Nat
  BY <1>1, <1>2, LenProperties
<1>4. w[j] \in Nat /\ str \in Seq(Nat)
  BY <1>1, <1>3, Zenon DEF Laid
<1>5. w[j] <= Q
  BY <1>1, <1>2, <1>4
<1>6. IsPart(b, str, w[j], Q)
  BY <1>1, <1>2, <1>4, PartGrows, Zenon
<1>7. Q <= Len(str) /\ j \in 0..Len(src)
  BY <1>1, <1>3, Zenon
<1>8. PICK k \in j..N : /\ Got(Parse(b).nals, Parse(b).rest, due, str, w, Q, 0, j, k)
                        /\ Done(due, w, Q, 0, k)
  <2>1. \E k \in j..Len(due) : /\ Got(Parse(b).nals, Parse(b).rest, due, str, w, Q, 0, j, k)
                               /\ Done(due, w, Q, 0, k)
    BY <1>3, <1>5, <1>6, <1>7, SizedParse, Zenon
  <2> QED
    BY <1>1, <2>1, Zenon
<1>9. Kept(due, str, w, 0, Q, F, Parse(b).rest, given \o Parse(b).nals)
  BY <1>1, <1>3, <1>7, <1>8, KeptByPush, Zenon
<1> QED
  BY <1>1, <1>9, Zenon

(* A unit ends where no other does. *)
LEMMA SameEnd ==
    ASSUME NEW N \in Nat, NEW w, Growing(w, N), NEW j \in 0..N, NEW k \in 0..N, w[j] <= w[k]
    PROVE  j <= k
<1> SUFFICES ASSUME ~(j <= k) PROVE FALSE
  OBVIOUS
<1>1. PICK V, W : V = w[j] /\ W = w[k]
  OBVIOUS
<1>2. k \in 0..j
  OBVIOUS
<1>3. V \in Nat /\ W \in Nat /\ W + (j - k) <= V
  BY <1>1, <1>2, Zenon DEF Growing
<1>4. V <= W
  BY <1>1, Zenon
<1> QED
  BY <1>3, <1>4

(* A flush keeps it so, with units with start codes ... *)
LEMMA CodedFlush ==
    ASSUME NEW src \in Seq(Seq(Nat)), NEW str, NEW w, Laid(src, str, w), CodedRun(src),
           NoneEndsInZero(src),
           NEW P, NEW F, NEW rest, NEW given, Kept(src, str, w, 4, P, F, rest, given),
           NEW K \in 0..Len(src), w[K] = P
    PROVE  /\ rest = <<>> => Kept(src, str, w, 4, P, P, rest, given)
           /\ rest # <<>> =>
                 /\ Taken(TRUE, rest \o Sentinel).rest = Sentinel
                 /\ Kept(src, str, w, 4, P, P, <<>>, given \o Taken(TRUE, rest \o Sentinel).nals)
<1>1. PICK N, j, W : N = Len(src) /\ j = Len(given) /\ W = w[j]
  OBVIOUS
<1>2. /\ P \in Nat /\ P <= Len(str) /\ given \in Seq(Seq(Nat)) /\ j <= N
      /\ \A i \in 1..j : given[i] = src[i]
      /\ W <= P /\ IsPart(rest, str, W, P)
  BY <1>1, Zenon DEF Kept
<1>3. N \in Nat /\ j \in Nat /\ j \in 0..N /\ K \in 0..N /\ K \in Nat
  BY <1>1, <1>2, LenProperties
<1>4. Growing(w, N)
  BY <1>1, CodedGrows, Zenon
<1>5. FirstOnes(given, src, j)
  BY <1>1, <1>2, Zenon DEF FirstOnes
<1>6. ASSUME rest = <<>> PROVE Kept(src, str, w, 4, P, P, rest, given)
  <2>1. Len(rest) = P - W /\ W \in Nat
    BY <1>1, <1>2, <1>3, <1>4, Zenon DEF IsPart, Growing
  <2>2. Len(rest) = 0
    BY <1>6
  <2>3. W = P
    BY <1>2, <2>1, <2>2
  <2>4. w[j] <= w[K] /\ w[K] <= w[j]
    <3>1. P <= P
      BY <1>2
    <3> QED
      BY <1>1, <2>3, <3>1, Zenon
  <2>5. j <= K /\ K <= j
    BY <1>3, <1>4, <2>4, SameEnd, Zenon
  <2>6. j = K
    BY <1>3, <2>5
  <2>7. Kept(src, str, w, 4, P, P, <<>>, given)
    BY <1>1, <1>2, <1>3, <1>4, <1>5, <2>6, AllGiven
  <2> QED
    BY <1>6, <2>7, Zenon
<1>7. ASSUME rest # <<>>
      PROVE  /\ Taken(TRUE, rest \o Sentinel).rest = Sentinel
             /\ Kept(src, str, w, 4, P, P, <<>>, given \o Taken(TRUE, rest \o Sentinel).nals)
  <2>1. PICK annexB : annexB = TRUE
    OBVIOUS
  <2>2. \A q : Turn(annexB, q) = TakeCoded(q)
    BY <2>1, Zenon DEF Turn
  <2>3. PICK t : t = Taken(annexB, rest \o Sentinel)
    OBVIOUS
  <2>4. Taken(TRUE, rest \o Sentinel) = t
    BY <2>1, <2>3
  <2>5. w[j] <= P /\ IsPart(rest, str, w[j], P)
    BY <1>1, <1>2, Zenon
  <2>6. /\ j <= K /\ t.rest = Sentinel
        /\ t.nals \in Seq(Seq(Nat)) /\ Len(t.nals) = K - j
        /\ \A i \in 1..(K - j) : t.nals[i] = src[j + i]
    <3>1. /\ Len(src) = N /\ N \in Nat /\ P \in Nat /\ P <= Len(str) /\ K \in 0..N
          /\ j \in 0..N /\ rest # <<>>
      BY <1>1, <1>2, <1>3, <1>7, Zenon
    <3>2. LastTaken(t, src, j, K)
      BY <2>2, <2>3, <2>5, <3>1, FlushTakes, Zenon
    <3> QED
      BY <3>2, Zenon DEF LastTaken
  <2>7. FirstOnes(given \o t.nals, src, K)
    BY <1>3, <1>5, <2>6, GivenOn, Zenon
  <2>8. 4 \in Nat /\ N = Len(src)
    BY <1>1
  <2>9. Kept(src, str, w, 4, P, P, <<>>, given \o t.nals)
    BY <1>2, <1>3, <1>4, <2>7, <2>8, AllGiven, Zenon
  <2> QED
    BY <2>4, <2>6, <2>9, Zenon
<1> QED
  BY <1>6, <1>7, Zenon

(* ... and with units with lengths, of which nothing is left. *)
LEMMA SizedFlush ==
    ASSUME NEW due, NEW N \in Nat, Len(due) = N, NEW str, NEW w, Growing(w, N),
           NEW P, NEW F, NEW rest, NEW given, Kept(due, str, w, 0, P, F, rest, given),
           NEW K \in 0..N, w[K] = P
    PROVE  rest = <<>> /\ Kept(due, str, w, 0, P, P, rest, given)
<1>1. PICK j, W : j = Len(given) /\ W = w[j]
  OBVIOUS
<1>2. /\ P \in Nat /\ P <= Len(str) /\ given \in Seq(Seq(Nat)) /\ j <= N
      /\ \A i \in 1..j : given[i] = due[i]
      /\ W <= P /\ IsPart(rest, str, W, P) /\ Done(due, w, P, 0, j)
  BY <1>1, Zenon DEF Kept
<1>3. j \in Nat /\ j \in 0..N /\ K \in Nat
  BY <1>1, <1>2, LenProperties
<1>4. j <= K
  BY <1>1, <1>2, <1>3, SameEnd, Zenon
<1>5. ~(j < K)
  <2> SUFFICES ASSUME j < K PROVE FALSE
    OBVIOUS
  <2>1. j < N /\ j + 1 \in 0..N /\ j + 1 \in 0..K
    BY <1>3
  <2>2. PICK V : V = w[j + 1]
    OBVIOUS
  <2>3. V \in Nat /\ V + (K - (j + 1)) <= P
    BY <2>1, <2>2, Zenon DEF Growing
  <2>4. ~(P >= V + 0)
    BY <1>2, <2>1, <2>2, Zenon DEF Done
  <2> QED
    BY <1>2, <1>3, <2>1, <2>3, <2>4
<1>6. j = K
  BY <1>3, <1>4, <1>5
<1>7. W = P
  BY <1>1, <1>6, Zenon
<1>8. rest = <<>>
  <2>1. P - P = 0
    BY <1>2
  <2>2. rest \in Seq(Nat) /\ Len(rest) = 0
    BY <1>2, <1>7, <2>1, Zenon DEF IsPart
  <2> QED
    BY <2>2, EmptySeq
<1>9. FirstOnes(given, due, K)
  BY <1>1, <1>2, <1>6, Zenon DEF FirstOnes
<1>10. Kept(due, str, w, 0, P, P, <<>>, given)
  <2>1. 0 \in Nat
    OBVIOUS
  <2> QED
    BY <1>2, <1>9, <2>1, AllGiven, Zenon
<1> QED
  BY <1>8, <1>10, Zenon

\* Where the units end.
UnitEnds(src) == [k \in 0..Len(src) |-> Len(FlattenSeq(SubSeq(src, 1, k)))]

\* What is due for units with lengths.
DueOf(src) == [k \in DOMAIN src |-> Recoded(src[k])]

(* The stream lays its units out. *)
LEMMA UnitEndsLaid ==
    ASSUME NEW src \in Seq(Seq(Nat))
    PROVE  Laid(src, FlattenSeq(src), UnitEnds(src))
<1>1. PICK w : /\ Laid(src, FlattenSeq(src), w)
               /\ \A k \in 0..Len(src) : w[k] = Len(FlattenSeq(SubSeq(src, 1, k)))
  BY FlattenLays, Zenon
<1>2. PICK N, e, str : N = Len(src) /\ e = UnitEnds(src) /\ str = FlattenSeq(src)
  OBVIOUS
<1>3. N \in Nat
  BY <1>2, LenProperties
<1>4. \A k \in 0..N : e[k] = w[k]
  <2> TAKE k \in 0..N
  <2>1. e[k] = Len(FlattenSeq(SubSeq(src, 1, k)))
    BY <1>2, Zenon DEF UnitEnds
  <2> QED
    BY <1>1, <1>2, <2>1, Zenon
<1>5. 0 \in 0..N /\ N \in 0..N /\ \A k \in 1..N : k \in 0..N /\ k - 1 \in 0..N
  BY <1>3
<1>6. /\ str \in Seq(Nat)
      /\ \A k \in 0..N : w[k] \in Nat
      /\ w[0] = 0 /\ w[N] = Len(str)
      /\ \A k \in 1..N : /\ w[k] = w[k - 1] + Len(src[k])
                         /\ \A i \in 1..Len(src[k]) : str[w[k - 1] + i] = src[k][i]
  BY <1>1, <1>2, Zenon DEF Laid
<1>7. \A k \in 1..N : /\ e[k] = e[k - 1] + Len(src[k])
                      /\ \A i \in 1..Len(src[k]) : str[e[k - 1] + i] = src[k][i]
  <2> TAKE k \in 1..N
  <2>1. e[k] = w[k] /\ e[k - 1] = w[k - 1]
    BY <1>4, <1>5, Zenon
  <2> QED
    BY <1>6, <2>1, Zenon
<1>8. /\ \A k \in 0..N : e[k] \in Nat
      /\ e[0] = 0 /\ e[N] = Len(str)
  BY <1>4, <1>5, <1>6, Zenon
<1>9. Laid(src, str, e)
  BY <1>2, <1>6, <1>7, <1>8, Zenon DEF Laid
<1> QED
  BY <1>2, <1>9, Zenon

(* What WellMade says of a stream with start codes ... *)
LEMMA CodedStream ==
    ASSUME WellMade, NEW src \in Seq(AnnexBUnits)
    PROVE  src \in Seq(Seq(Nat)) /\ CodedRun(src) /\ NoneEndsInZero(src)
<1>1. PICK N : N = Len(src)
  OBVIOUS
<1>2. N \in Nat /\ DOMAIN src = 1..N /\ \A k \in 1..N : src[k] \in AnnexBUnits
  BY <1>1, LenProperties, ElementOfSeq
<1>3. \A k \in 1..N : Coded(src[k])
  BY <1>2, Zenon DEF WellMade
<1>4. \A k \in 1..N : NoCodeIn(src[k]) /\ src[k][Len(src[k])] # 0
  BY <1>3, Zenon DEF Coded, NoCodeIn
<1>5. \A k \in 1..N : src[k] \in Seq(Nat)
  BY <1>4, Zenon DEF NoCodeIn
<1>6. src \in Seq(Seq(Nat))
  BY <1>1, <1>2, <1>5
<1>7. CodedRun(src)
  BY <1>1, <1>4, Zenon DEF CodedRun
<1>8. NoneEndsInZero(src)
  BY <1>1, <1>4, Zenon DEF NoneEndsInZero
<1> QED
  BY <1>6, <1>7, <1>8

(* ... and of one with lengths. *)
LEMMA SizedStream ==
    ASSUME WellMade, NEW src \in Seq(AvccUnits)
    PROVE  /\ src \in Seq(Seq(Nat)) /\ SizedRun(src) /\ PlainRun(src)
           /\ DueOf(src) \in Seq(Seq(Nat)) /\ Len(DueOf(src)) = Len(src)
           /\ \A k \in 1..Len(src) : DueOf(src)[k] = Recoded(src[k])
<1>1. PICK N, d : N = Len(src) /\ d = DueOf(src)
  OBVIOUS
<1>2. N \in Nat /\ DOMAIN src = 1..N /\ \A k \in 1..N : src[k] \in AvccUnits
  BY <1>1, LenProperties, ElementOfSeq
<1>3. \A i, k \in 1..N : Sized(src[i]) /\ StartCodes(src[i] \o src[k], 1) = {}
  BY <1>2, Zenon DEF WellMade
<1>4. \A k \in 1..N : src[k] \in Seq(Nat) /\ Len(src[k]) > 4
  BY <1>3, Zenon DEF Sized
<1>5. \A k \in 1..N : Recoded(src[k]) \in Seq(Nat)
  BY <1>4, RecodedType, Zenon
<1>6. src \in Seq(Seq(Nat))
  BY <1>1, <1>2, <1>4
<1>7. SizedRun(src) /\ PlainRun(src)
  BY <1>1, <1>3, Zenon DEF SizedRun, PlainRun
<1>8. d = [k \in 1..N |-> Recoded(src[k])]
  BY <1>1, <1>2, Zenon DEF DueOf
<1>9. \A k \in 1..N : d[k] = Recoded(src[k])
  BY <1>8, Zenon
<1>10. d \in Seq(Seq(Nat)) /\ Len(d) = N
  BY <1>2, <1>5, <1>8
<1> QED
  BY <1>1, <1>6, <1>7, <1>9, <1>10, Zenon

(* No unit has both a start code and a length. *)
LEMMA UnitsApart ==
    ASSUME WellMade
    PROVE  AnnexBUnits \cap AvccUnits = {}
<1> SUFFICES ASSUME NEW u \in AnnexBUnits, u \in AvccUnits PROVE FALSE
  OBVIOUS
<1>1. u \in Seq(Nat) /\ 1 \in StartCodes(u, 1)
  BY Zenon DEF WellMade, Coded
<1>2. StartCodes(u \o u, 1) = {} /\ Sized(u)
  BY Zenon DEF WellMade
<1>3. PICK l, v : l = Len(u) /\ v = u \o u
  OBVIOUS
<1>4. l \in Nat /\ l > 4
  BY <1>1, <1>2, <1>3, LenProperties DEF Sized
<1>5. u[1] = 0 /\ u[1 + 1] = 0 /\ (u[1 + 2] = 1 \/ (u[1 + 2] = 0 /\ u[1 + 3] = 1))
  BY <1>1, Zenon DEF StartCodes
<1>6. Len(v) = l + l /\ \A i \in 1..l : v[i] = u[i]
  BY <1>1, <1>3, Joined, Zenon
<1>7. \A n \in {1, 1 + 1, 1 + 2, 1 + 3} : n \in 1..l
  BY <1>4
<1>8. \A n \in {1, 1 + 1, 1 + 2, 1 + 3} : v[n] = u[n]
  BY <1>6, <1>7, Zenon
<1>9. 1 \in 1..(Len(v) - 3)
  BY <1>4, <1>6
<1>10. 1 \in StartCodes(v, 1)
  BY <1>5, <1>8, <1>9, Zenon DEF StartCodes
<1> QED
  BY <1>2, <1>3, <1>10, Zenon

\* The parser keeps every byte it owes and has given every unit it could.
Keeps(src, P, F, b, given) ==
    \/ /\ src \in Seq(AnnexBUnits)
       /\ Kept(src, FlattenSeq(src), UnitEnds(src), 4, P, F, b, given)
    \/ /\ src \in Seq(AvccUnits) /\ src # <<>>
       /\ Kept(DueOf(src), FlattenSeq(src), UnitEnds(src), 0, P, F, b, given)

(* It does at the start. *)
LEMMA KeepsAtStart ==
    ASSUME WellMade, NEW src, src \in Seq(AnnexBUnits) \cup Seq(AvccUnits)
    PROVE  Keeps(src, 0, 0, <<>>, <<>>)
<1>1. /\ <<>> \in Seq(Seq(Nat)) /\ Len(<<>>) = 0 /\ \A i \in 1..0 : FALSE
      /\ 0 \in Nat /\ 4 \in Nat
  OBVIOUS
<1>2. ASSUME NEW due, FirstOnes(<<>>, due, 0), NEW N \in Nat, Len(due) = N,
             NEW str, str \in Seq(Nat), NEW w, Growing(w, N), w[0] = 0, NEW e \in Nat
      PROVE  Kept(due, str, w, e, 0, 0, <<>>, <<>>)
  <2>1. 0 <= Len(str) /\ 0 \in 0..N
    BY <1>2, LenProperties
  <2> QED
    BY <1>1, <1>2, <2>1, AllGiven, Zenon
<1>3. CASE src \in Seq(AnnexBUnits)
  <2>1. src \in Seq(Seq(Nat)) /\ CodedRun(src)
    BY <1>3, CodedStream, Zenon
  <2>2. Laid(src, FlattenSeq(src), UnitEnds(src))
    BY <2>1, UnitEndsLaid, Zenon
  <2>3. Growing(UnitEnds(src), Len(src)) /\ UnitEnds(src)[0] = 0 /\ FlattenSeq(src) \in Seq(Nat)
    BY <2>1, <2>2, CodedGrows, Zenon DEF Laid
  <2>4. FirstOnes(<<>>, src, 0)
    BY <1>1, Zenon DEF FirstOnes
  <2>5. Len(src) \in Nat
    BY <2>1, LenProperties
  <2>6. Kept(src, FlattenSeq(src), UnitEnds(src), 4, 0, 0, <<>>, <<>>)
    BY <1>1, <1>2, <2>3, <2>4, <2>5, Zenon
  <2> QED
    BY <1>3, <2>6, Zenon DEF Keeps
<1>4. CASE src \in Seq(AvccUnits) /\ src # <<>>
  <2>1. src \in Seq(Seq(Nat)) /\ SizedRun(src) /\ Len(DueOf(src)) = Len(src)
    BY <1>4, SizedStream, Zenon
  <2>2. Laid(src, FlattenSeq(src), UnitEnds(src))
    BY <2>1, UnitEndsLaid, Zenon
  <2>3. Growing(UnitEnds(src), Len(src)) /\ UnitEnds(src)[0] = 0 /\ FlattenSeq(src) \in Seq(Nat)
    BY <2>1, <2>2, SizedGrows, Zenon DEF Laid
  <2>4. FirstOnes(<<>>, DueOf(src), 0)
    BY <1>1, Zenon DEF FirstOnes
  <2>5. Len(src) \in Nat
    BY <2>1, LenProperties
  <2>6. Kept(DueOf(src), FlattenSeq(src), UnitEnds(src), 0, 0, 0, <<>>, <<>>)
    BY <1>1, <1>2, <2>1, <2>3, <2>4, <2>5, Zenon
  <2> QED
    BY <1>4, <2>6, Zenon DEF Keeps
<1>5. src \in Seq(AvccUnits) /\ src = <<>> => src \in Seq(AnnexBUnits)
  OBVIOUS
<1> QED
  BY <1>3, <1>4, <1>5, Zenon

(* And so it does after a push, however the stream is cut ... *)
LEMMA PushKeeps ==
    ASSUME WellMade, NEW src, NEW P, NEW F, NEW b, NEW given, Keeps(src, P, F, b, given),
           NEW n \in Nat, P + n <= Len(FlattenSeq(src)),
           NEW c, c = b \o SubSeq(FlattenSeq(src), P + 1, P + n)
    PROVE  Keeps(src, P + n, F, Parse(c).rest, given \o Parse(c).nals)
<1>1. CASE /\ src \in Seq(AnnexBUnits)
           /\ Kept(src, FlattenSeq(src), UnitEnds(src), 4, P, F, b, given)
  <2>1. src \in Seq(Seq(Nat)) /\ CodedRun(src)
    BY <1>1, CodedStream, Zenon
  <2>2. Laid(src, FlattenSeq(src), UnitEnds(src))
    BY <2>1, UnitEndsLaid, Zenon
  <2>3. Kept(src, FlattenSeq(src), UnitEnds(src), 4, P + n, F, Parse(c).rest, given \o Parse(c).nals)
    BY <1>1, <2>1, <2>2, CodedPush, Zenon
  <2> QED
    BY <1>1, <2>3, Zenon DEF Keeps
<1>2. CASE /\ src \in Seq(AvccUnits) /\ src # <<>>
           /\ Kept(DueOf(src), FlattenSeq(src), UnitEnds(src), 0, P, F, b, given)
  <2>1. /\ src \in Seq(Seq(Nat)) /\ SizedRun(src) /\ PlainRun(src)
        /\ DueOf(src) \in Seq(Seq(Nat)) /\ Len(DueOf(src)) = Len(src)
        /\ \A k \in 1..Len(src) : DueOf(src)[k] = Recoded(src[k])
    BY <1>2, SizedStream, Zenon
  <2>2. Laid(src, FlattenSeq(src), UnitEnds(src))
    BY <2>1, UnitEndsLaid, Zenon
  <2>3. Kept(DueOf(src), FlattenSeq(src), UnitEnds(src), 0, P + n, F, Parse(c).rest,
             given \o Parse(c).nals)
    BY <1>2, <2>1, <2>2, SizedPush, Zenon
  <2> QED
    BY <1>2, <2>3, Zenon DEF Keeps
<1> QED
  BY <1>1, <1>2, Zenon DEF Keeps

(* ... and after a flush. *)
LEMMA FlushKeeps ==
    ASSUME WellMade, NEW src, NEW P, NEW F, NEW b, NEW given, Keeps(src, P, F, b, given),
           NEW k \in DOMAIN src, P = Len(FlattenSeq(SubSeq(src, 1, k)))
    PROVE  /\ b = <<>> => Keeps(src, P, P, b, given)
           /\ b # <<>> =>
                 /\ Taken(TRUE, b \o Sentinel).rest = Sentinel
                 /\ Keeps(src, P, P, <<>>, given \o Taken(TRUE, b \o Sentinel).nals)
<1>1. ASSUME src \in Seq(Seq(Nat)) PROVE k \in 0..Len(src) /\ UnitEnds(src)[k] = P
  <2>1. k \in 0..Len(src)
    BY <1>1, LenProperties
  <2> QED
    BY <2>1, Zenon DEF UnitEnds
<1>2. CASE /\ src \in Seq(AnnexBUnits)
           /\ Kept(src, FlattenSeq(src), UnitEnds(src), 4, P, F, b, given)
  <2>1. src \in Seq(Seq(Nat)) /\ CodedRun(src) /\ NoneEndsInZero(src)
    BY <1>2, CodedStream, Zenon
  <2>2. Laid(src, FlattenSeq(src), UnitEnds(src)) /\ k \in 0..Len(src) /\ UnitEnds(src)[k] = P
    BY <1>1, <2>1, UnitEndsLaid, Zenon
  <2>3. /\ b = <<>> => Kept(src, FlattenSeq(src), UnitEnds(src), 4, P, P, b, given)
        /\ b # <<>> =>
              /\ Taken(TRUE, b \o Sentinel).rest = Sentinel
              /\ Kept(src, FlattenSeq(src), UnitEnds(src), 4, P, P, <<>>,
                      given \o Taken(TRUE, b \o Sentinel).nals)
    BY <1>2, <2>1, <2>2, CodedFlush, Zenon
  <2> QED
    BY <1>2, <2>3, Zenon DEF Keeps
<1>3. CASE /\ src \in Seq(AvccUnits) /\ src # <<>>
           /\ Kept(DueOf(src), FlattenSeq(src), UnitEnds(src), 0, P, F, b, given)
  <2>1. /\ src \in Seq(Seq(Nat)) /\ SizedRun(src) /\ Len(DueOf(src)) = Len(src)
    BY <1>3, SizedStream, Zenon
  <2>2. Growing(UnitEnds(src), Len(src)) /\ k \in 0..Len(src) /\ UnitEnds(src)[k] = P
    BY <1>1, <2>1, UnitEndsLaid, SizedGrows, Zenon
  <2>3. Len(src) \in Nat
    BY <2>1, LenProperties
  <2>4. b = <<>> /\ Kept(DueOf(src), FlattenSeq(src), UnitEnds(src), 0, P, P, b, given)
    BY <1>3, <2>1, <2>2, <2>3, SizedFlush, Zenon
  <2> QED
    BY <1>3, <2>4, Zenon DEF Keeps
<1> QED
  BY <1>2, <1>3, Zenon DEF Keeps

\* Of the parser's variables.
ParserInv == Keeps(source, pushed, flushed, buf, out)

(* What the parser keeps is counted. *)
LEMMA KeepsType ==
    ASSUME WellMade, NEW src, NEW P, NEW F, NEW b, NEW given, Keeps(src, P, F, b, given)
    PROVE  P \in Nat /\ P <= Len(FlattenSeq(src)) /\ Len(FlattenSeq(src)) \in Nat
<1>1. P \in Nat /\ P <= Len(FlattenSeq(src))
  BY Zenon DEF Keeps, Kept
<1>2. src \in Seq(Seq(Nat))
  BY CodedStream, SizedStream, Zenon DEF Keeps
<1>3. FlattenSeq(src) \in Seq(Nat)
  BY <1>2, UnitEndsLaid, Zenon DEF Laid
<1> QED
  BY <1>1, <1>3, LenProperties, Zenon

(* The parser has, in every state, given every unit whose end it has seen and kept the  *)
(* bytes behind them.                                                                   *)
LEMMA ParserKeeps == WellMade => (ParserSpec => []ParserInv)
<1> SUFFICES ASSUME WellMade PROVE ParserSpec => []ParserInv
  OBVIOUS
<1>1. ParserInit => ParserInv
  <2> SUFFICES ASSUME ParserInit PROVE ParserInv
    OBVIOUS
  <2>1. /\ source \in SeqOf(AnnexBUnits, MaxUnits) \cup SeqOf(AvccUnits, MaxUnits)
        /\ pushed = 0 /\ flushed = 0 /\ buf = <<>> /\ out = <<>>
    BY Zenon DEF ParserInit
  <2>2. ASSUME NEW S, NEW n, NEW s \in SeqOf(S, n) PROVE s \in Seq(S)
    <3>1. PICK m \in 0..n : s \in [1..m -> S]
      BY Zenon DEF SeqOf
    <3>2. m \in Nat
      OBVIOUS
    <3> QED
      BY <3>1, <3>2
  <2>3. source \in Seq(AnnexBUnits) \cup Seq(AvccUnits)
    BY <2>1, <2>2, Zenon
  <2> QED
    BY <2>1, <2>3, KeepsAtStart, Zenon DEF ParserInv
<1>2. ParserInv /\ [ParserNext]_parserVars => ParserInv'
  <2> SUFFICES ASSUME ParserInv, [ParserNext]_parserVars PROVE ParserInv'
    OBVIOUS
  <2>0. Keeps(source, pushed, flushed, buf, out)
    BY Zenon DEF ParserInv
  <2>1. CASE Push
    <3>1. PICK n \in 1..(Len(Bytes) - pushed) :
             /\ pushed' = pushed + n
             /\ buf' = Parse(buf \o SubSeq(Bytes, pushed + 1, pushed + n)).rest
             /\ out' = out \o Parse(buf \o SubSeq(Bytes, pushed + 1, pushed + n)).nals
      BY <2>1, Zenon DEF Push
    <3>2. source' = source /\ flushed' = flushed
      BY <2>1, Zenon DEF Push
    <3>3. n \in Nat /\ pushed + n <= Len(FlattenSeq(source))
      <4>1. PICK P, L : P = pushed /\ L = Len(FlattenSeq(source))
        OBVIOUS
      <4>2. P \in Nat /\ L \in Nat
        BY <2>0, <4>1, KeepsType, Zenon
      <4>3. n \in 1..(L - P)
        BY <4>1, Zenon DEF Bytes
      <4>4. n \in Nat /\ P + n <= L
        BY <4>2, <4>3
      <4> QED
        BY <4>1, <4>4, Zenon
    <3>4. PICK c : c = buf \o SubSeq(FlattenSeq(source), pushed + 1, pushed + n)
      OBVIOUS
    <3>5. Keeps(source, pushed + n, flushed, Parse(c).rest, out \o Parse(c).nals)
      BY <2>0, <3>3, <3>4, PushKeeps, Zenon
    <3>6. pushed' = pushed + n /\ buf' = Parse(c).rest /\ out' = out \o Parse(c).nals
      BY <3>1, <3>4, Zenon DEF Bytes
    <3>7. Keeps(source', pushed', flushed', buf', out')
      BY <3>2, <3>5, <3>6, Zenon
    <3> QED
      BY <3>7, Zenon DEF ParserInv
  <2>2. CASE Flush
    <3>1. PICK k \in DOMAIN source : pushed = Len(FlattenSeq(SubSeq(source, 1, k)))
      BY <2>2, Zenon DEF Flush, Whole
    <3>2. source' = source /\ pushed' = pushed /\ flushed' = pushed
      BY <2>2, Zenon DEF Flush
    <3>3. /\ buf = <<>> => Keeps(source, pushed, pushed, buf, out)
          /\ buf # <<>> =>
                /\ Taken(TRUE, buf \o Sentinel).rest = Sentinel
                /\ Keeps(source, pushed, pushed, <<>>, out \o Taken(TRUE, buf \o Sentinel).nals)
      BY <2>0, <3>1, FlushKeeps, Zenon
    <3>4. CASE buf = <<>>
      <4>1. buf' = buf /\ out' = out
        BY <2>2, <3>4, Zenon DEF Flush
      <4>2. Keeps(source', pushed', flushed', buf', out')
        BY <3>2, <3>3, <3>4, <4>1, Zenon
      <4> QED
        BY <4>2, Zenon DEF ParserInv
    <3>5. CASE buf # <<>>
      <4>1. /\ buf' = IF Taken(TRUE, buf \o Sentinel).rest = Sentinel THEN <<>>
                      ELSE Taken(TRUE, buf \o Sentinel).rest
            /\ out' = out \o Taken(TRUE, buf \o Sentinel).nals
        BY <2>2, <3>5, Zenon DEF Flush
      <4>2. buf' = <<>>
        BY <3>3, <3>5, <4>1, Zenon
      <4>3. Keeps(source', pushed', flushed', buf', out')
        BY <3>2, <3>3, <3>5, <4>1, <4>2, Zenon
      <4> QED
        BY <4>3, Zenon DEF ParserInv
    <3> QED
      BY <3>4, <3>5, Zenon
  <2>3. CASE UNCHANGED parserVars
    <3>1. /\ source' = source /\ pushed' = pushed /\ flushed' = flushed
          /\ buf' = buf /\ out' = out
      BY <2>3, Zenon DEF parserVars
    <3>2. Keeps(source', pushed', flushed', buf', out')
      BY <2>0, <3>1, Zenon
    <3> QED
      BY <3>2, Zenon DEF ParserInv
  <2> QED
    BY <2>1, <2>2, <2>3, Zenon DEF ParserNext
<1> QED
  BY <1>1, <1>2, PTL DEF ParserSpec

(* Units given that are the first ones due are their beginning. *)
LEMMA FirstOnesArePrefix ==
    ASSUME NEW s \in Seq(Seq(Nat)), NEW t \in Seq(Seq(Nat)), Len(s) <= Len(t),
           \A i \in 1..Len(s) : s[i] = t[i]
    PROVE  IsPrefix(s, t)
<1>1. PICK k, a, b : k = Len(s) /\ a = SubSeq(s, 1, k) /\ b = SubSeq(t, 1, k)
  OBVIOUS
<1>2. k \in 0..Len(s) /\ k \in 0..Len(t) /\ k \in Nat /\ k <= Len(t)
  BY <1>1, LenProperties
<1>3. a \in Seq(Seq(Nat)) /\ Len(a) = k /\ \A i \in 1..k : a[i] = s[i]
  BY <1>1, <1>2, Firsts, Zenon
<1>4. b \in Seq(Seq(Nat)) /\ Len(b) = k /\ \A i \in 1..k : b[i] = t[i]
  BY <1>1, <1>2, Firsts, Zenon
<1>5. \A i \in 1..k : a[i] = b[i]
  BY <1>1, <1>3, <1>4, Zenon
<1>6. a = b
  BY <1>3, <1>4, <1>5, SeqEqual
<1> QED
  BY <1>1, <1>2, <1>6, Zenon DEF IsPrefix

\* The units due in their order, and the kept bytes up to the last one pushed.
InOrder(src, due, P, b, given) ==
    IsPrefix(given, due) /\ Len(FlattenSeq(SubSeq(src, 1, Len(given)))) + Len(b) = P

(* What is kept is in order. *)
LEMMA KeptInOrder ==
    ASSUME NEW src \in Seq(Seq(Nat)), NEW due \in Seq(Seq(Nat)), Len(due) = Len(src),
           NEW e, NEW P, NEW F, NEW b, NEW given,
           Kept(due, FlattenSeq(src), UnitEnds(src), e, P, F, b, given)
    PROVE  InOrder(src, due, P, b, given)
<1>1. PICK j, w, W : j = Len(given) /\ w = UnitEnds(src) /\ W = w[j]
  OBVIOUS
<1>2. /\ P \in Nat /\ given \in Seq(Seq(Nat)) /\ j <= Len(due)
      /\ \A i \in 1..j : given[i] = due[i]
      /\ IsPart(b, FlattenSeq(src), W, P)
  BY <1>1, Zenon DEF Kept
<1>3. IsPrefix(given, due)
  BY <1>1, <1>2, FirstOnesArePrefix, Zenon
<1>4. j \in 0..Len(src)
  BY <1>1, <1>2, LenProperties
<1>5. W = Len(FlattenSeq(SubSeq(src, 1, j)))
  BY <1>1, <1>4, Zenon DEF UnitEnds
<1>6. W \in Nat
  BY <1>1, <1>4, UnitEndsLaid, Zenon DEF Laid
<1>7. Len(b) = P - W
  BY <1>2, Zenon DEF IsPart
<1>8. W + Len(b) = P
  BY <1>2, <1>6, <1>7
<1> QED
  BY <1>1, <1>3, <1>5, <1>8, Zenon DEF InOrder

(* NalsInOrder: however the encoder's stream is cut and flushed, the parser has given the *)
(* stream's units, whole and in order, and kept all other bytes, for every stream of      *)
(* well-made units, with start codes or with lengths.                                     *)
THEOREM NalsAreInOrder == WellMade => (ParserSpec => []NalsInOrder)
<1> SUFFICES ASSUME WellMade PROVE ParserSpec => []NalsInOrder
  OBVIOUS
<1>1. ParserInv => NalsInOrder
  <2> SUFFICES ASSUME ParserInv PROVE NalsInOrder
    OBVIOUS
  <2>1. CASE /\ source \in Seq(AnnexBUnits)
             /\ Kept(source, FlattenSeq(source), UnitEnds(source), 4, pushed, flushed, buf, out)
    <3>1. source \in Seq(Seq(Nat))
      BY <2>1, CodedStream, Zenon
    <3>2. InOrder(source, source, pushed, buf, out)
      BY <2>1, <3>1, KeptInOrder, Zenon
    <3>3. Owed = source
      <4>1. IsAnnexB
        BY <2>1, ElementOfSeq, LenProperties DEF IsAnnexB
      <4>2. Owed = [k \in DOMAIN source |-> source[k]]
        BY <4>1, Zenon DEF Owed
      <4>3. source = [k \in DOMAIN source |-> source[k]]
        BY <3>1
      <4> QED
        BY <4>2, <4>3, Zenon
    <3> QED
      BY <3>2, <3>3, Zenon DEF InOrder, NalsInOrder, Whole
  <2>2. CASE /\ source \in Seq(AvccUnits) /\ source # <<>>
             /\ Kept(DueOf(source), FlattenSeq(source), UnitEnds(source), 0, pushed, flushed, buf, out)
    <3>1. /\ source \in Seq(Seq(Nat))
          /\ DueOf(source) \in Seq(Seq(Nat)) /\ Len(DueOf(source)) = Len(source)
      BY <2>2, SizedStream, Zenon
    <3>2. InOrder(source, DueOf(source), pushed, buf, out)
      BY <2>2, <3>1, KeptInOrder, Zenon
    <3>3. Owed = DueOf(source)
      <4>1. ~IsAnnexB
        <5>1. 1 \in DOMAIN source /\ source[1] \in AvccUnits
          BY <2>2, ElementOfSeq, LenProperties, EmptySeq
        <5> QED
          BY <5>1, UnitsApart, Zenon DEF IsAnnexB
      <4> QED
        BY <4>1, Zenon DEF Owed, DueOf
    <3> QED
      BY <3>2, <3>3, Zenon DEF InOrder, NalsInOrder, Whole
  <2> QED
    BY <2>1, <2>2, Zenon DEF ParserInv, Keeps
<1> QED
  BY <1>1, ParserKeeps, PTL

(* A unit is given by the time its end is seen. *)
LEMMA KeptInTime ==
    ASSUME NEW src \in Seq(Seq(Nat)), NEW due \in Seq(Seq(Nat)), Len(due) = Len(src),
           Growing(UnitEnds(src), Len(src)), NEW e \in Nat, NEW P, NEW F, NEW b, NEW given,
           Kept(due, FlattenSeq(src), UnitEnds(src), e, P, F, b, given),
           NEW k \in DOMAIN src,
           \/ P >= Len(FlattenSeq(SubSeq(src, 1, k))) + e
           \/ F >= Len(FlattenSeq(SubSeq(src, 1, k)))
    PROVE  Len(given) >= k
<1>1. PICK N, j, w : N = Len(src) /\ j = Len(given) /\ w = UnitEnds(src)
  OBVIOUS
<1>2. /\ P \in Nat /\ given \in Seq(Seq(Nat)) /\ j <= N
      /\ Done(due, w, P, e, j)
      /\ \A n \in 0..N : F >= w[n] => j >= n
  BY <1>1, Zenon DEF Kept
<1>3. j \in Nat /\ N \in Nat /\ k \in 0..N /\ k \in 1..N
  BY <1>1, <1>2, LenProperties
<1>4. w[k] = Len(FlattenSeq(SubSeq(src, 1, k)))
  BY <1>1, <1>3, Zenon DEF UnitEnds
<1>5. CASE F >= w[k]
  <2>1. j >= k
    BY <1>2, <1>3, <1>5, Zenon
  <2> QED
    BY <1>1, <2>1, Zenon
<1>6. CASE P >= w[k] + e
  <2> SUFFICES ASSUME ~(j >= k) PROVE FALSE
    BY <1>1, Zenon
  <2>1. j < N /\ j + 1 \in 0..N /\ j + 1 \in 0..k
    BY <1>3
  <2>2. PICK V, W : V = w[k] /\ W = w[j + 1]
    OBVIOUS
  <2>3. V \in Nat /\ W \in Nat /\ W + (k - (j + 1)) <= V
    BY <1>1, <1>3, <2>1, <2>2, Zenon DEF Growing
  <2>4. P >= V + e
    BY <1>6, <2>2, Zenon
  <2>5. ~(P >= W + e)
    BY <1>1, <1>2, <2>1, <2>2, Zenon DEF Done
  <2> QED
    BY <1>2, <1>3, <2>1, <2>3, <2>4, <2>5
<1> QED
  BY <1>4, <1>5, <1>6, Zenon

(* NalsGivenInTime: the parser gives a unit as soon as the stream shows its end, and at a *)
(* flush gives all there is; no frame waits for the one after the next, for every stream  *)
(* of well-made units.                                                                    *)
THEOREM NalsAreInTime == WellMade => (ParserSpec => []NalsGivenInTime)
<1> SUFFICES ASSUME WellMade PROVE ParserSpec => []NalsGivenInTime
  OBVIOUS
<1>1. ParserInv => NalsGivenInTime
  <2> SUFFICES ASSUME ParserInv, NEW k \in DOMAIN source,
                      \/ pushed >= Whole(k) + (IF IsAnnexB THEN 4 ELSE 0)
                      \/ flushed >= Whole(k)
               PROVE  Len(out) >= k
    BY Zenon DEF NalsGivenInTime
  <2>1. CASE /\ source \in Seq(AnnexBUnits)
             /\ Kept(source, FlattenSeq(source), UnitEnds(source), 4, pushed, flushed, buf, out)
    <3>1. source \in Seq(Seq(Nat)) /\ CodedRun(source)
      BY <2>1, CodedStream, Zenon
    <3>2. Growing(UnitEnds(source), Len(source))
      BY <3>1, UnitEndsLaid, CodedGrows, Zenon
    <3>3. IsAnnexB
      BY <2>1, ElementOfSeq, LenProperties DEF IsAnnexB
    <3>4. pushed >= Whole(k) + 4 \/ flushed >= Whole(k)
      BY <3>3, Zenon
    <3>5. 4 \in Nat
      OBVIOUS
    <3> QED
      BY <2>1, <3>1, <3>2, <3>4, <3>5, KeptInTime, Zenon DEF Whole
  <2>2. CASE /\ source \in Seq(AvccUnits) /\ source # <<>>
             /\ Kept(DueOf(source), FlattenSeq(source), UnitEnds(source), 0, pushed, flushed, buf, out)
    <3>1. /\ source \in Seq(Seq(Nat)) /\ SizedRun(source)
          /\ DueOf(source) \in Seq(Seq(Nat)) /\ Len(DueOf(source)) = Len(source)
      BY <2>2, SizedStream, Zenon
    <3>2. Growing(UnitEnds(source), Len(source))
      BY <3>1, UnitEndsLaid, SizedGrows, Zenon
    <3>3. ~IsAnnexB
      <4>1. 1 \in DOMAIN source /\ source[1] \in AvccUnits
        BY <2>2, ElementOfSeq, LenProperties, EmptySeq
      <4> QED
        BY <4>1, UnitsApart, Zenon DEF IsAnnexB
    <3>4. pushed >= Whole(k) + 0 \/ flushed >= Whole(k)
      BY <3>3, Zenon
    <3>5. 0 \in Nat
      OBVIOUS
    <3> QED
      BY <2>2, <3>1, <3>2, <3>4, <3>5, KeptInTime, Zenon DEF Whole
  <2> QED
    BY <2>1, <2>2, Zenon DEF ParserInv, Keeps
<1> QED
  BY <1>1, ParserKeeps, PTL
================================================================================
