----------------------------- MODULE VideoStreamer -----------------------------
(***************************************************************************)
(* The streaming loop of mirror_desktop: desktop frames are captured,      *)
(* encoded, cut into NAL units (H264Parser), gathered into access units    *)
(* (H264Streamer) and written to the receiver's data connection            *)
(* (MirrorSession), until Ctrl+C or an error.                              *)
(*                                                                         *)
(* A frame is named by the desktop change it shows.  An encoder gives each *)
(* frame as Annex B: a delimiter or none, parameter sets before a key      *)
(* frame, one or more slices.  Writes to the data connection may time out  *)
(* after two seconds or find the connection reset.                         *)
(***************************************************************************)
EXTENDS Integers, Sequences

CONSTANTS MaxChanges,    \* bound: desktop changes
          MaxClock,      \* bound: readings of the clock behind the timestamps
          MaxFaults,     \* bound: writes that fail while the connection is up
          MaxSlices,     \* slices of a frame
          EncoderSkips   \* the encoder may give nothing for a frame

ASSUME BoundsAreNat == MaxChanges \in Nat /\ MaxClock \in Nat /\ MaxFaults \in Nat
ASSUME SlicesAreSome == MaxSlices \in Nat \ {0}
ASSUME SkipsIsBoolean == EncoderSkips \in BOOLEAN

VARIABLES shape,    \* what the encoder's frames look like
          screen,   \* desktop changes so far
          captured, \* the change shown by the frame acquired last
          encoded,  \* frames the encoder gave, in order
          tail,     \* H264Parser::buf: the NAL whose end is not known yet
          todo,     \* NALs process_nals still has before it
          st,       \* the fields of H264Streamer and MirrorSession
          clock,    \* what ntp_time_now or the media clock reads
          idle,     \* idle_flushed
          stop,     \* Ctrl+C was pressed, or the time given is over
          pc,       \* loop, push or flush_idle (in or after the loop), the end
          wire,     \* frames sealed and handed to data_conn, whole or not
          conn,     \* data_conn
          faults

vars == <<shape, screen, captured, encoded, tail, todo, st, clock, idle, stop, pc, wire, conn, faults>>
--------------------------------------------------------------------------------
Nal(type, frame, first) == [type |-> type, frame |-> frame, first |-> first]

SlicesOf(f) ==
    [i \in 1..shape.slices |-> Nal(IF f.key THEN "idr" ELSE "slice", f.n, i = 1)]

AccessUnit(f) ==
    (IF shape.aud THEN <<Nal("aud", f.n, FALSE)>> ELSE <<>>)
    \o (IF f.key THEN <<Nal("sps", f.n, FALSE), Nal("pps", f.n, FALSE)>> ELSE <<>>)
    \o SlicesOf(f)

Init ==
    /\ shape \in [aud : BOOLEAN, slices : 1..MaxSlices]
    /\ screen = 1 /\ captured = 0 /\ encoded = <<>>
    /\ tail = <<>> /\ todo = <<>>
    /\ st = [sps |-> 0, pps |-> 0, vcl |-> <<>>, key |-> FALSE, codec |-> FALSE,
             sent |-> 0, nonce |-> 0, last |-> 0]
    /\ clock = 0 /\ idle = FALSE /\ stop = FALSE /\ pc = "loop"
    /\ wire = <<>> /\ conn = "up" /\ faults = 0
--------------------------------------------------------------------------------
(* flush_vcl                                                               *)

\* Mutant of FrameTime: the clock's reading as it is.
RawFrameTime(s) == clock

\* monotonic_frame_time: later than the last one, wherever the clock was moved.
FrameTime(s) == IF clock <= s.last THEN s.last + 1 ELSE clock

\* Mutant of WantsCodec: codec_sent is never reset.
WantsCodecOnce(s) == s.key /\ ~s.codec /\ s.sent = 0 /\ s.sps # 0 /\ s.pps # 0

\* send_codec_frame comes before a key frame, once both parameter sets are known.
WantsCodec(s) == s.key /\ ~s.codec /\ s.sps # 0 /\ s.pps # 0

Codec(s, ok) ==
    [kind |-> "codec", ok |-> ok, ts |-> FrameTime(s), key |-> FALSE, nonce |-> 0,
     slices |-> <<>>, sps |-> s.sps, pps |-> s.pps]

Frame(s, ok) ==
    [kind |-> "vcl", ok |-> ok, ts |-> FrameTime(s), key |-> s.key, nonce |-> s.nonce,
     slices |-> s.vcl, sps |-> 0, pps |-> 0]

Stamped(s) == [s EXCEPT !.last = FrameTime(s)]

\* Mutant of Sealed: the nonce is counted for frames that were written.
SealedLate(s, written) ==
    [Stamped(s) EXCEPT !.vcl = <<>>, !.codec = @ \/ WantsCodec(s),
                       !.nonce = IF written THEN @ + 1 ELSE @]

\* send_frame has taken the buffer and sealed it, whether or not it is written.
Sealed(s, written) ==
    [Stamped(s) EXCEPT !.vcl = <<>>, !.codec = @ \/ WantsCodec(s), !.nonce = @ + 1]

\* What one flush_vcl may leave behind: nothing to do; the frame, and before a
\* key frame its parameter sets, written; the write of either failed.
Flushed(s) ==
    LET config == IF WantsCodec(s) THEN <<Codec(s, TRUE)>> ELSE <<>>
    IN IF s.vcl = <<>>
       THEN {[st |-> s, out |-> <<>>, ok |-> TRUE]}
       ELSE {[st |-> [Sealed(s, TRUE) EXCEPT !.key = FALSE, !.codec = FALSE, !.sent = @ + 1],
              out |-> config \o <<Frame(s, TRUE)>>, ok |-> TRUE],
             [st |-> Sealed(s, FALSE), out |-> config \o <<Frame(s, FALSE)>>, ok |-> FALSE]}
            \cup {[st |-> Stamped(s), out |-> <<Codec(s, FALSE)>>, ok |-> FALSE] :
                    x \in IF WantsCodec(s) THEN {s} ELSE {}}

\* A reset connection fails every write; one that timed out may recover.
Writes(r) ==
    /\ wire' = wire \o r.out
    /\ IF r.ok
       THEN (conn = "up" \/ r.out = <<>>) /\ UNCHANGED <<conn, faults>>
       ELSE \/ conn = "down" /\ ~r.out[1].ok /\ UNCHANGED <<conn, faults>>
            \/ conn = "up" /\ faults < MaxFaults /\ faults' = faults + 1
               /\ conn' \in {"up", "down"}
--------------------------------------------------------------------------------
(* process_nals                                                            *)

\* Mutant of StartsUnit: slices of one frame are told apart by their type only.
StartsOtherType(s, x) ==
    /\ s.vcl # <<>>
    /\ \/ x.type \in {"aud", "sps"}
       \/ x.type = "idr" /\ ~s.key
       \/ x.type = "slice" /\ s.key

\* The NAL that says that the access unit gathered so far is complete.
StartsUnit(s, x) ==
    /\ s.vcl # <<>>
    /\ \/ x.type \in {"aud", "sps"}
       \/ x.type = "idr" /\ ~s.key
       \/ x.type = "slice" /\ (s.key \/ x.first)

Taken(s, x) ==
    CASE x.type = "sps" -> [s EXCEPT !.sps = x.frame]
      [] x.type = "pps" -> [s EXCEPT !.pps = x.frame]
      [] x.type = "idr" -> [s EXCEPT !.key = TRUE, !.vcl = Append(@, x)]
      [] x.type = "slice" -> [s EXCEPT !.vcl = Append(@, x)]
      [] OTHER -> s

\* The result of flush_vcl is dropped here: the loop goes on after a failed write.
ProcessNal ==
    /\ todo # <<>>
    /\ LET x == Head(todo)
       IN \E r \in IF StartsUnit(st, x) THEN Flushed(st)
                   ELSE {[st |-> st, out |-> <<>>, ok |-> TRUE]} :
             Writes(r) /\ st' = Taken(r.st, x)
    /\ todo' = Tail(todo)
    /\ UNCHANGED <<shape, screen, captured, encoded, tail, clock, idle, stop, pc>>

Pushed ==
    /\ pc = "push" /\ todo = <<>>
    /\ pc' = "loop"
    /\ UNCHANGED <<shape, screen, captured, encoded, tail, todo, st, clock, idle, stop,
                   wire, conn, faults>>

\* flush_idle ends with a flush_vcl whose error ends the program.
FinishFlush ==
    /\ pc \in {"flush", "last"} /\ todo = <<>>
    /\ \E r \in Flushed(st) :
          /\ Writes(r) /\ st' = r.st
          /\ pc' = IF ~r.ok THEN "failed" ELSE IF pc = "flush" THEN "loop" ELSE "done"
    /\ UNCHANGED <<shape, screen, captured, encoded, tail, todo, clock, idle, stop>>

Streamer == ProcessNal \/ Pushed \/ FinishFlush
--------------------------------------------------------------------------------
(* The loop                                                                *)

\* Within a frame period of the frame encoded last: acquired and dropped.
SkipFrame == encoded # <<>> /\ UNCHANGED <<encoded, tail, todo, idle, pc>>

\* Mutant of Rearm: one idle flush for the whole run.
RearmNever == UNCHANGED idle

Rearm == idle' = FALSE

\* The encoder's first frame is a key frame, later ones where it or
\* `frames_sent == 0` asks for one.  The parser keeps the last NAL back.
EncodeFrame ==
    /\ Rearm
    /\ \/ EncoderSkips /\ encoded # <<>> /\ UNCHANGED <<encoded, tail, todo, pc>>
       \/ \E key \in IF encoded = <<>> THEN {TRUE} ELSE BOOLEAN :
             LET f == [n |-> captured', key |-> key]
                 nals == tail \o AccessUnit(f)
             IN /\ encoded' = Append(encoded, f)
                /\ todo' = SubSeq(nals, 1, Len(nals) - 1)
                /\ tail' = <<nals[Len(nals)]>>
                /\ pc' = "push"

Capture ==
    /\ pc = "loop" /\ ~stop /\ screen > captured
    /\ captured' = screen
    /\ SkipFrame \/ EncodeFrame
    /\ UNCHANGED <<shape, screen, st, clock, stop, wire, conn, faults>>

StartFlush == todo' = tail /\ tail' = <<>>

\* 50 ms without a new frame, and not flushed since the last.
FlushIdle ==
    /\ pc = "loop" /\ ~stop /\ screen = captured /\ ~idle
    /\ StartFlush /\ idle' = TRUE /\ pc' = "flush"
    /\ UNCHANGED <<shape, screen, captured, encoded, st, clock, stop, wire, conn, faults>>

\* Mutant of HeartbeatFails: a failed heartbeat is ignored.
HeartbeatIgnored == FALSE

HeartbeatFails == conn = "down" \/ faults < MaxFaults

\* Once a second on a static desktop; it changes nothing unless it fails.
Heartbeat ==
    /\ pc = "loop" /\ ~stop /\ screen = captured
    /\ HeartbeatFails
    /\ pc' = "failed"
    /\ UNCHANGED <<shape, screen, captured, encoded, tail, todo, st, clock, idle, stop,
                   wire, conn, faults>>

\* Every five seconds; its answer moves the media clock to the receiver's.
Feedback ==
    /\ pc = "loop" /\ ~stop
    /\ clock' \in 0..MaxClock
    /\ UNCHANGED <<shape, screen, captured, encoded, tail, todo, st, idle, stop, pc,
                   wire, conn, faults>>

\* An error of the capture, of the encoder or of feedback ends the program.
Abort ==
    /\ pc = "loop" /\ ~stop
    /\ pc' = "failed"
    /\ UNCHANGED <<shape, screen, captured, encoded, tail, todo, st, clock, idle, stop,
                   wire, conn, faults>>

LeaveLoop ==
    /\ pc = "loop" /\ stop
    /\ StartFlush /\ pc' = "last"
    /\ UNCHANGED <<shape, screen, captured, encoded, st, clock, idle, stop, wire, conn, faults>>

Desktop ==
    /\ screen < MaxChanges /\ screen' = screen + 1
    /\ UNCHANGED <<shape, captured, encoded, tail, todo, st, clock, idle, stop, pc, wire, conn, faults>>

Tick ==
    /\ clock < MaxClock /\ clock' = clock + 1
    /\ UNCHANGED <<shape, screen, captured, encoded, tail, todo, st, idle, stop, pc, wire, conn, faults>>

CtrlC ==
    /\ ~stop /\ stop' = TRUE
    /\ UNCHANGED <<shape, screen, captured, encoded, tail, todo, st, clock, idle, pc, wire, conn, faults>>

\* The receiver closes the connection, or is gone.
Reset ==
    /\ conn = "up" /\ faults < MaxFaults
    /\ conn' = "down" /\ faults' = faults + 1
    /\ UNCHANGED <<shape, screen, captured, encoded, tail, todo, st, clock, idle, stop, pc, wire>>

Next ==
    \/ Streamer \/ Capture \/ FlushIdle \/ Heartbeat \/ Feedback \/ Abort \/ LeaveLoop
    \/ Desktop \/ Tick \/ CtrlC \/ Reset

\* The loop never blocks for long: a capture waits 20 ms, a write two seconds,
\* and its timers run out whatever else it does.
Fairness ==
    /\ WF_vars(Streamer) /\ WF_vars(Capture) /\ WF_vars(FlushIdle)
    /\ WF_vars(Heartbeat /\ conn = "down") /\ WF_vars(LeaveLoop)

Spec == Init /\ [][Next]_vars /\ Fairness
--------------------------------------------------------------------------------
(* Properties                                                              *)

Nals == [type : {"aud", "sps", "pps", "idr", "slice"}, frame : Nat, first : BOOLEAN]
Seals == [kind : {"codec", "vcl"}, ok : BOOLEAN, ts : Nat, key : BOOLEAN, nonce : Nat,
          slices : Seq(Nals), sps : Nat, pps : Nat]
Streams == [sps : Nat, pps : Nat, vcl : Seq(Nals), key : BOOLEAN, codec : BOOLEAN,
            sent : Nat, nonce : Nat, last : Nat]
Ended == pc \in {"done", "failed"}

\* Every variable of the loop ranges over what the code can store in it; the
\* parser never holds more than the NAL it cannot end yet.
TypeOK ==
    /\ shape \in [aud : BOOLEAN, slices : 1..MaxSlices]
    /\ screen \in Nat /\ captured \in Nat /\ captured <= screen
    /\ encoded \in Seq([n : Nat, key : BOOLEAN])
    /\ tail \in Seq(Nals) /\ Len(tail) <= 1 /\ todo \in Seq(Nals)
    /\ st \in Streams
    /\ clock \in 0..MaxClock /\ idle \in BOOLEAN /\ stop \in BOOLEAN
    /\ pc \in {"loop", "push", "flush", "last", "done", "failed"}
    /\ wire \in Seq(Seals)
    /\ conn \in {"up", "down"} /\ faults \in Nat

IsFrame(w) == w.kind = "vcl"
Frames == SelectSeq(wire, IsFrame)
Intact == \A i \in DOMAIN wire : wire[i].ok

\* Until a write fails, what the receiver gets is the encoder's output: the frame
\* sealed with nonce n is the encoder's frame n + 1, one whole access unit with its
\* key flag, and comes after those with the nonces before it, each once, however
\* slices, parser and idle flushes fall together.
WholeAccessUnits ==
    Intact =>
        \A i \in DOMAIN wire : IsFrame(wire[i]) =>
            LET n == wire[i].nonce + 1
            IN /\ n <= Len(encoded)
               /\ wire[i].slices = SlicesOf(encoded[n])
               /\ wire[i].key = encoded[n].key
               /\ \A m \in 0..(n - 2) :
                     \E j \in 1..(i - 1) : IsFrame(wire[j]) /\ wire[j].nonce = m
               /\ \A j \in 1..(i - 1) : IsFrame(wire[j]) => wire[j].nonce < n - 1

\* Until a write fails, every key frame comes right after a codec frame that
\* carries its own parameter sets, never a predecessor's or a successor's.
CodecLeadsKeyFrame ==
    Intact =>
        \A i \in DOMAIN wire : wire[i].key =>
            /\ i > 1 /\ wire[i - 1].kind = "codec"
            /\ wire[i - 1].sps = wire[i].slices[1].frame
            /\ wire[i - 1].pps = wire[i].slices[1].frame

\* No nonce seals two frames, the ones whose write failed included.
SealedOnce ==
    \A i, j \in DOMAIN wire :
        i < j /\ IsFrame(wire[i]) /\ IsFrame(wire[j]) => wire[i].nonce < wire[j].nonce

\* Timestamps of frames increase, though feedback may put the clock back and
\* writes may fail in between.
TimestampsIncrease ==
    \A i, j \in DOMAIN wire :
        i < j /\ IsFrame(wire[i]) /\ IsFrame(wire[j]) => wire[i].ts < wire[j].ts

\* What was encoded is sent, without a further change of the desktop: neither
\* the parser nor the streamer keeps a frame back for good.
EncodedIsSent ==
    \A k \in 1..MaxChanges : Len(encoded) >= k ~> Len(Frames) >= k \/ faults > 0 \/ Ended

\* A lost data connection ends the program once the desktop is static, though
\* process_nals drops the errors of its writes.
LossIsNoticed == conn = "down" /\ screen = MaxChanges ~> Ended

\* As flush_idle has it: the last captured frame reaches the receiver without
\* waiting for the next desktop change.
LastCapturedIsSent ==
    \A k \in 1..MaxChanges :
        captured = k ~> \/ captured > k \/ faults > 0 \/ Ended
                        \/ \E i \in DOMAIN Frames : Frames[i].slices[1].frame = k
================================================================================
