----------------------------- MODULE MirrorSession -----------------------------
(***************************************************************************)
(* The life of a mirror session: setup_mirror_session on the sender's side *)
(* (its ports, the SETUPs, RECORD, the event and data connections), and on *)
(* the receiver's side ReceiverMedia, whose threads accept and drain them, *)
(* until the program ends and the receiver drops the session.              *)
(*                                                                         *)
(* A request and its answer are one step: the sender waits for it, and the *)
(* receiver's control thread touches nothing the drain threads use but     *)
(* their stop flag and timeouts.  ControlChannel has what may go wrong in  *)
(* between.  An answer may or may not carry an event port, skipRecord and  *)
(* a data port.                                                            *)
(***************************************************************************)
EXTENDS Integers, Sequences

CONSTANTS Buffer,        \* frames the data connection holds
          Backlog        \* datagrams the audio socket holds, the others are lost

ASSUME BoundsAreNat == Buffer \in Nat /\ Backlog \in Nat

VARIABLES modern,  \* modern_control_setup
          pc,      \* the sender: the step it is at
          evPort,  \* receiver_event_port is not 0
          skip,    \* skip_record
          asked,   \* requests answered
          conns,   \* event and data connections, oldest first
          media,   \* ReceiverSession::media: none, open, dropped (stop is set)
          loops,   \* accept_drain_tcp of the event and of the video listener
          rtp,     \* drain_audio: where it is, whether its recv will time out
          heard,   \* datagrams in the audio socket of the receiver
          late     \* datagrams dumped after the session was dropped

senderVars == <<modern, pc, evPort, skip, asked>>
receiverVars == <<media, loops, rtp, late>>
vars == <<senderVars, conns, receiverVars, heard>>

Phases == {"control", "audio", "video"}
Listeners == {"event", "video"}
--------------------------------------------------------------------------------
Init ==
    /\ modern \in BOOLEAN
    /\ pc = "ports" /\ evPort = FALSE /\ skip = FALSE /\ asked = <<>>
    /\ conns = <<>>
    /\ media = "none" /\ loops = [t \in Listeners |-> [at |-> "none", conn |-> 0]]
    /\ rtp = [at |-> "none", timed |-> FALSE]
    /\ heard = 0 /\ late = 0
--------------------------------------------------------------------------------
(* setup_mirror_session                                                    *)

\* Three ports in a row (UdpPorts) come before anything is asked of the receiver.
FindPorts ==
    /\ pc = "ports" /\ pc' \in {IF modern THEN "control" ELSE "audio", "failed"}
    /\ UNCHANGED <<modern, evPort, skip, asked, conns, receiverVars, heard>>

\* The receiver opens its media with the first SETUP; without sockets it answers 500.
OpenMedia ==
    /\ media' = "open"
    /\ loops' = IF media = "none" THEN [t \in Listeners |-> [at |-> "accept", conn |-> 0]] ELSE loops
    /\ rtp' = IF media = "none" THEN [rtp EXCEPT !.at = "check"] ELSE rtp

\* Legacy receivers name the event port with the first stream, modern ones
\* before it; either may with the video stream.
Tells(phase) == phase = "control" \/ (phase = "audio" /\ ~modern)

RecordNext == IF skip' THEN "audio" ELSE "record"

AfterSetup(phase) ==
    CASE Tells(phase) /\ evPort' -> "event1"
      [] phase = "control" -> RecordNext
      [] phase = "audio" -> "video"
      [] phase = "video" -> IF evPort' THEN "event2" ELSE "data"

Setup(phase) ==
    /\ pc = phase
    /\ \/ \E port, skips \in BOOLEAN :
             /\ media # "dropped" /\ OpenMedia
             /\ evPort' = IF Tells(phase) THEN port ELSE evPort \/ (phase = "video" /\ port)
             /\ skip' = IF Tells(phase) THEN skips ELSE skip
             /\ asked' = Append(asked, phase)
             /\ pc' = AfterSetup(phase)
       \/ /\ pc' = "failed" /\ UNCHANGED <<evPort, skip, asked>>
          /\ \/ media # "dropped" /\ OpenMedia
             \/ UNCHANGED <<media, loops, rtp>>
    /\ UNCHANGED <<modern, conns, late, heard>>

Connection(t) == [to |-> t, up |-> TRUE, place |-> "queue", unread |-> 0]

\* A TCP connection is made by the listener's queue, accepted or not; its
\* failure ends the set-up.
Connect(t, next) ==
    \/ loops[t].at # "gone" /\ conns' = Append(conns, Connection(t)) /\ pc' = next
    \/ conns' = conns /\ pc' = "failed"

ConnectEvent ==
    /\ \/ pc = "event1" /\ Connect("event", IF ~modern THEN "video"
                                            ELSE IF skip THEN "audio" ELSE "record")
       \/ pc = "event2" /\ Connect("event", "data")
    /\ UNCHANGED <<modern, evPort, skip, asked, receiverVars, heard>>

\* Mutant of AfterData: a legacy session is not recorded.
AfterDataStreams == "stream"

\* Legacy receivers start the session only after both streams exist.
AfterData == IF modern \/ skip THEN "stream" ELSE "record"

\* An answer without a data port ends the set-up as a refused connection does.
ConnectData ==
    /\ pc = "data" /\ Connect("video", AfterData)
    /\ UNCHANGED <<modern, evPort, skip, asked, receiverVars, heard>>

Record ==
    /\ pc = "record"
    /\ \/ /\ media # "dropped" /\ asked' = Append(asked, "RECORD")
          /\ pc' = IF modern THEN "audio" ELSE "stream"
       \/ pc' = "failed" /\ UNCHANGED asked
    /\ UNCHANGED <<modern, evPort, skip, conns, receiverVars, heard>>
--------------------------------------------------------------------------------
(* The session                                                             *)

WriteFrame ==
    /\ pc = "stream"
    /\ \E k \in DOMAIN conns :
          /\ conns[k].to = "video" /\ conns[k].up /\ conns[k].unread < Buffer
          /\ conns' = [conns EXCEPT ![k].unread = @ + 1]
    /\ UNCHANGED <<senderVars, receiverVars, heard>>

SendDatagram ==
    /\ pc = "stream" /\ heard < Backlog /\ heard' = heard + 1
    /\ UNCHANGED <<senderVars, conns, receiverVars>>

\* Mutant of EventTimeout: the event connection is read without a timeout.
EventWaits == FALSE /\ UNCHANGED vars

\* serve_event_channel: 30 seconds without a command are an error, which ends it.
\* This receiver never sends one.
EventTimeout ==
    /\ \E k \in DOMAIN conns :
          /\ conns[k].to = "event" /\ conns[k].up
          /\ conns' = [conns EXCEPT ![k].up = FALSE]
    /\ UNCHANGED <<senderVars, receiverVars, heard>>

\* teardown asks for TEARDOWN and shuts the data connection, whatever the answer.
Teardown ==
    /\ pc = "stream" /\ pc' \in {"done", "failed"}
    /\ conns' = [k \in DOMAIN conns |->
                    IF conns[k].to = "video" THEN [conns[k] EXCEPT !.up = FALSE] ELSE conns[k]]
    /\ UNCHANGED <<modern, evPort, skip, asked, receiverVars, heard>>

\* The program ends, and with it every connection of its own.
Exit ==
    /\ pc \in {"done", "failed"} /\ pc' = "gone"
    /\ conns' = [k \in DOMAIN conns |-> [conns[k] EXCEPT !.up = FALSE]]
    /\ UNCHANGED <<modern, evPort, skip, asked, receiverVars, heard>>
--------------------------------------------------------------------------------
(* ReceiverMedia                                                           *)

\* accept_drain_tcp: the oldest connection of the queue, whose thread it is then.
Accept(t) ==
    /\ loops[t].at = "accept"
    /\ \E k \in DOMAIN conns :
          /\ conns[k].to = t /\ conns[k].place = "queue"
          /\ \A j \in 1..(k - 1) : conns[j].to = t => conns[j].place # "queue"
          /\ IF media = "dropped"
             THEN /\ loops' = [loops EXCEPT ![t].at = "gone"]
                  /\ conns' = [conns EXCEPT ![k].place = "closed"]
             ELSE /\ loops' = [loops EXCEPT ![t] = [at |-> "check", conn |-> k]]
                  /\ conns' = [conns EXCEPT ![k].place = "accepted"]
    /\ UNCHANGED <<senderVars, media, rtp, late, heard>>

CloseConn(t) ==
    /\ conns' = [conns EXCEPT ![loops[t].conn].place = "closed"]
    /\ loops' = [loops EXCEPT ![t] = [at |-> "accept", conn |-> 0]]

CheckStop(t) ==
    /\ loops[t].at = "check"
    /\ IF media = "dropped" THEN CloseConn(t)
       ELSE loops' = [loops EXCEPT ![t].at = "read"] /\ UNCHANGED conns
    /\ UNCHANGED <<senderVars, media, rtp, late, heard>>

\* Without a timeout: what was sent, or the end of the connection.
Read(t) ==
    /\ loops[t].at = "read"
    /\ LET c == conns[loops[t].conn]
       IN \/ /\ c.unread > 0
             /\ conns' = [conns EXCEPT ![loops[t].conn].unread = 0]
             /\ loops' = [loops EXCEPT ![t].at = "check"]
          \/ c.unread = 0 /\ ~c.up /\ CloseConn(t)
    /\ UNCHANGED <<senderVars, media, rtp, late, heard>>

\* Mutant of DrainCheck: the audio thread never looks at the flag.
DrainOn ==
    /\ rtp.at = "check" /\ rtp' = [at |-> "recv", timed |-> media = "dropped"]
    /\ UNCHANGED <<senderVars, conns, media, loops, late, heard>>

\* drain_audio looks at the flag; a recv that begins after the drop times out.
DrainCheck ==
    /\ rtp.at = "check"
    /\ rtp' = IF media = "dropped" THEN [rtp EXCEPT !.at = "gone"]
              ELSE [rtp EXCEPT !.at = "pass"]
    /\ UNCHANGED <<senderVars, conns, media, loops, late, heard>>

DrainBegin ==
    /\ rtp.at = "pass" /\ rtp' = [at |-> "recv", timed |-> media = "dropped"]
    /\ UNCHANGED <<senderVars, conns, media, loops, late, heard>>

DrainRecv ==
    /\ rtp.at = "recv" /\ rtp' = [rtp EXCEPT !.at = "check"]
    /\ \/ /\ heard > 0 /\ heard' = heard - 1
          /\ late' = IF media = "dropped" THEN late + 1 ELSE late
       \/ rtp.timed /\ heard = 0 /\ UNCHANGED <<heard, late>>
    /\ UNCHANGED <<senderVars, conns, media, loops>>

\* The control connection ends or is lost: serve_control returns and drops the
\* session, which sets the flag and the timeouts of the UDP sockets.
DropMedia ==
    /\ media = "open" /\ media' = "dropped"
    /\ UNCHANGED <<senderVars, conns, loops, rtp, late, heard>>
--------------------------------------------------------------------------------
Sender == FindPorts \/ (\E phase \in Phases : Setup(phase)) \/ ConnectEvent \/ ConnectData \/ Record

Drain(t) == Accept(t) \/ CheckStop(t) \/ Read(t)

Next ==
    \/ Sender \/ WriteFrame \/ SendDatagram \/ EventTimeout \/ Teardown \/ Exit
    \/ \E t \in Listeners : Drain(t)
    \/ DrainCheck \/ DrainBegin \/ DrainRecv \/ DropMedia

\* The threads are scheduled, a program that is over ends, and the read timeout
\* of an event connection runs out.
Fairness ==
    /\ WF_vars(Sender) /\ WF_vars(Exit) /\ WF_vars(EventTimeout)
    /\ WF_vars(DropMedia /\ pc = "gone")
    /\ \A t \in Listeners : WF_vars(Drain(t))

Spec == Init /\ [][Next]_vars /\ Fairness
--------------------------------------------------------------------------------
(* Properties                                                              *)

\* Every variable of the session ranges over what the code can store in it.
TypeOK ==
    /\ modern \in BOOLEAN /\ evPort \in BOOLEAN /\ skip \in BOOLEAN
    /\ pc \in Phases \cup {"ports", "event1", "event2", "record", "data", "stream", "done",
                           "failed", "gone"}
    /\ asked \in Seq(Phases \cup {"RECORD"})
    /\ conns \in Seq([to : Listeners, up : BOOLEAN, place : {"queue", "accepted", "closed"},
                      unread : 0..Buffer])
    /\ Len(conns) <= 3
    /\ media \in {"none", "open", "dropped"}
    /\ loops \in [Listeners -> [at : {"none", "accept", "check", "read", "gone"}, conn : 0..3]]
    /\ rtp \in [at : {"none", "check", "pass", "recv", "gone"}, timed : BOOLEAN]
    /\ heard \in 0..Backlog /\ late \in Nat

\* A session that streams was recorded once, before its streams in the modern
\* order and after both in the legacy one, unless the receiver said to skip it.
Recorded ==
    pc = "stream" =>
        asked = CASE modern /\ skip -> <<"control", "audio", "video">>
                  [] modern /\ ~skip -> <<"control", "RECORD", "audio", "video">>
                  [] ~modern /\ skip -> <<"audio", "video">>
                  [] ~modern /\ ~skip -> <<"audio", "video", "RECORD">>

\* No connection waits for ever behind another, and nothing sent on one stays
\* unread, while the session lasts: a listener's thread serves one connection at
\* a time, and the sender makes two event connections.
Queued(k) == k \in DOMAIN conns /\ conns[k].place = "queue"
SomeUnread == \E k \in DOMAIN conns : conns[k].unread > 0
ConnectionsServed ==
    /\ \A k \in 1..3 : Queued(k) ~> ~Queued(k) \/ media = "dropped"
    /\ SomeUnread ~> ~SomeUnread \/ media = "dropped"

\* Once the session is dropped its thread dumps no datagram but the one it was
\* waiting for, however many are in the socket.
DumpStops == late <= 1
================================================================================
