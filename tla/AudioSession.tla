----------------------------- MODULE AudioSession -----------------------------
(***************************************************************************)
(* The audio of a mirror session: the WASAPI capture thread cuts what it   *)
(* hears into frames and sends them over a channel to the audio thread     *)
(* (run_audio), which waits for the first video frame, drops what was      *)
(* heard until then and sends RTP packets with their retransmissions and   *)
(* sync packets until Ctrl+C or an error.                                  *)
(*                                                                         *)
(* Sound is a sequence of chunks named by their numbers, a frame as many   *)
(* of them as FrameLen.  Counters of 16 and 32 bits are counted modulo     *)
(* SeqWrap and RtpWrap.                                                      *)
(***************************************************************************)
EXTENDS Integers, FiniteSets, SequencesExt

CONSTANTS FrameLen,      \* chunks of a frame: FRAME_SAMPLES, and SPF of the RTP clock
          Depth,         \* DEPTH: frames between a packet and its retransmission
          SeqWrap,        \* 2^16 in the code
          RtpWrap,        \* 2^32 in the code
          Epochs,        \* RTP times a stream may begin at
          Packets,       \* sizes of the packets the audio engine gives
          MaxChunks,     \* bound: chunks the engine gives
          MaxFaults      \* bound: sends that fail

ASSUME SizesArePositive == FrameLen \in Nat \ {0} /\ Depth \in Nat \ {0}
ASSUME ModuliArePositive == SeqWrap \in Nat \ {0} /\ RtpWrap \in Nat \ {0}
ASSUME WindowIsShort == Depth * FrameLen < RtpWrap \div 2
ASSUME EpochsAreTimes == Epochs \subseteq 0..(RtpWrap - 1)
ASSUME PacketsArePositive == Packets \subseteq Nat \ {0}
ASSUME BoundsAreNat == MaxChunks \in Nat /\ MaxFaults \in Nat

VARIABLES
    queue,     \* sizes of the packets in the engine's buffer
    event,     \* the auto-reset event of engine and Drop
    heard,     \* chunks read from the engine
    out,       \* out_frames: chunks not handed over yet
    channel,   \* frames between the threads
    cpc,       \* the capture thread: open, check, wait, read, push, gone
    capStop,   \* LoopbackCapture::stop
    first,     \* first_frame_sent
    fresh,     \* chunks handed over when the first video frame was sent
    stop,      \* Ctrl+C
    pc,        \* the audio thread
    encrypted, \* chacha_key is some
    rtpTime,   \* the local rtp_time, of the next frame
    clock,     \* AudioStream::rtp_time
    seq,
    counter,   \* chacha_counter
    saved,     \* retransmit: the frames kept, by index
    idx,
    burst,     \* burst_done
    wire,      \* packets sent
    faults

captureVars == <<queue, event, heard, out, cpc>>
sendVars == <<rtpTime, clock, seq, counter, saved, idx, burst, wire, faults>>
vars == <<captureVars, channel, capStop, first, fresh, stop, pc, encrypted, sendVars>>
--------------------------------------------------------------------------------
Init ==
    /\ queue = <<>> /\ event = FALSE /\ heard = 0 /\ out = <<>> /\ channel = <<>>
    /\ cpc = "open" /\ capStop = FALSE
    /\ first = FALSE /\ fresh = 0 /\ stop = FALSE
    /\ pc = "poll" /\ encrypted \in BOOLEAN
    /\ rtpTime \in Epochs /\ clock = rtpTime /\ seq = 1 % SeqWrap /\ counter = 0
    /\ saved = <<>> /\ idx = 0 /\ burst = FALSE
    /\ wire = <<>> /\ faults = 0
--------------------------------------------------------------------------------
(* The capture thread                                                      *)

\* The device is opened by the thread; an error ends it.
OpenDevice ==
    /\ cpc = "open" /\ cpc' \in {"check", "gone"}
    /\ UNCHANGED <<queue, event, heard, out, channel>>

CheckStop ==
    /\ cpc = "check"
    /\ cpc' = IF capStop THEN "gone" ELSE "wait"
    /\ UNCHANGED <<queue, event, heard, out, channel>>

\* WaitForSingleObject takes the signal.
Woken ==
    /\ cpc = "wait" /\ event
    /\ event' = FALSE /\ cpc' = "read"
    /\ UNCHANGED <<queue, heard, out, channel>>

\* GetBuffer and the conversion: the thread has the packet in its hands.
GetBuffer ==
    /\ cpc = "read" /\ queue # <<>>
    /\ out' = out \o [i \in 1..Head(queue) |-> heard + i]
    /\ heard' = heard + Head(queue) /\ queue' = Tail(queue)
    /\ cpc' = "push"
    /\ UNCHANGED <<event, channel>>

\* push_frames hands over the whole frames one by one.
PushFrame ==
    /\ cpc = "push" /\ Len(out) >= FrameLen
    /\ channel' = Append(channel, SubSeq(out, 1, FrameLen))
    /\ out' = SubSeq(out, FrameLen + 1, Len(out))
    /\ UNCHANGED <<queue, event, heard, cpc>>

\* Mutant of ReleaseBuffer: what is left of the packet is thrown away.
ReleaseRest ==
    /\ cpc = "push" /\ Len(out) < FrameLen /\ cpc' \in {"read", "gone"}
    /\ out' = <<>> /\ UNCHANGED <<queue, event, heard, channel>>

\* The rest stays for the next packet; an error of ReleaseBuffer ends the thread.
ReleaseBuffer ==
    /\ cpc = "push" /\ Len(out) < FrameLen /\ cpc' \in {"read", "gone"}
    /\ UNCHANGED <<queue, event, heard, out, channel>>

\* No packet, or an error of GetBuffer, which is taken for none.
NoPacket ==
    /\ cpc = "read" /\ cpc' = "check"
    /\ UNCHANGED <<queue, event, heard, out, channel>>

Capture ==
    /\ \/ OpenDevice \/ CheckStop \/ Woken \/ NoPacket
       \/ GetBuffer \/ PushFrame \/ ReleaseBuffer
    /\ UNCHANGED <<capStop, first, fresh, stop, pc, encrypted, sendVars>>
--------------------------------------------------------------------------------
(* AudioStream: each operation gives the clock and the packets it leaves.  *)

Packet(frame, s, rtp, nonce) ==
    [kind |-> "rtp", frame |-> frame, seq |-> s, rtp |-> rtp, nonce |-> nonce]

\* Mutant of Advanced: times are compared as numbers.
AdvancedUnsigned(old, rtp) == IF rtp >= old THEN rtp ELSE old

\* send_frame moves the clock only forward, modulo 2^32.
Advanced(old, rtp) == IF (rtp - old) % RtpWrap < RtpWrap \div 2 THEN rtp ELSE old

Sync == [kind |-> "sync", frame |-> <<>>, seq |-> 0, rtp |-> clock, nonce |-> 0]

Fails == faults < MaxFaults /\ faults' = faults + 1

\* The packets of one iteration, oldest first, each [frame, seq, rtp].
New(frame) == [frame |-> frame, seq |-> seq, rtp |-> rtpTime]

\* Mutant of Older: retransmission of the frame just kept.
OlderLatest == IF burst THEN <<saved[((idx + Depth - 1) % Depth) + 1]>> ELSE <<>>

Older == IF burst THEN <<saved[idx + 1]>> ELSE <<>>

ToSend(frame) == (IF encrypted THEN <<>> ELSE Older) \o <<New(frame)>>

Sealed(ps) ==
    [i \in DOMAIN ps |-> Packet(ps[i].frame, ps[i].seq, ps[i].rtp,
                                IF encrypted THEN counter ELSE 0)]

\* Each of the one or two packets moves the clock.
Clocked(ps) ==
    IF Len(ps) = 1 THEN Advanced(clock, ps[1].rtp)
    ELSE Advanced(Advanced(clock, ps[1].rtp), ps[2].rtp)

\* The frame takes its place among those to be sent again.
Keep(frame) ==
    IF encrypted THEN UNCHANGED <<saved, idx, burst>>
    ELSE /\ saved' = IF burst THEN [saved EXCEPT ![idx + 1] = New(frame)]
                     ELSE Append(saved, New(frame))
         /\ idx' = (idx + 1) % Depth
         /\ burst' = (burst \/ idx + 1 >= Depth)
--------------------------------------------------------------------------------
(* run_audio                                                               *)

\* Polls every 10 ms; Ctrl+C comes first.
Poll ==
    /\ pc = "poll" /\ (stop \/ first)
    /\ pc' = IF stop THEN "drop" ELSE "drain"
    /\ UNCHANGED <<channel, sendVars>>

\* Mutant of Drain: the backlog is kept.
DrainNone ==
    /\ pc = "drain" /\ pc' = "announce" /\ UNCHANGED <<channel, sendVars>>

Drain ==
    /\ pc = "drain"
    /\ IF channel # <<>> THEN channel' = Tail(channel) /\ pc' = pc
       ELSE channel' = channel /\ pc' = "announce"
    /\ UNCHANGED sendVars

SendSync(next) ==
    \/ wire' = Append(wire, Sync) /\ pc' = next /\ UNCHANGED faults
    \/ Fails /\ pc' = "drop" /\ UNCHANGED wire

Announce ==
    /\ pc = "announce" /\ SendSync("loop")
    /\ UNCHANGED <<channel, rtpTime, clock, seq, counter, saved, idx, burst>>

\* The head of the loop: Ctrl+C, then a sync packet where a second has passed.
LoopHead ==
    /\ pc = "loop"
    /\ \/ stop /\ pc' = "drop" /\ UNCHANGED <<wire, faults>>
       \/ ~stop /\ pc' = "recv" /\ UNCHANGED <<wire, faults>>
       \/ ~stop /\ SendSync("recv")
    /\ UNCHANGED <<channel, rtpTime, clock, seq, counter, saved, idx, burst>>

\* A frame of the channel: what is due for retransmission, then the frame.
SendFrame ==
    /\ pc = "recv" /\ channel # <<>>
    /\ channel' = Tail(channel)
    /\ LET ps == ToSend(Head(channel))
       IN \/ /\ wire' = wire \o Sealed(ps)
             /\ clock' = Clocked(ps)
             /\ counter' = IF encrypted THEN counter + 1 ELSE counter
             /\ Keep(Head(channel))
             /\ seq' = (seq + 1) % SeqWrap /\ rtpTime' = (rtpTime + FrameLen) % RtpWrap
             /\ pc' = "loop" /\ UNCHANGED faults
          \/ \E sent \in 0..(Len(ps) - 1) :
                /\ Fails
                /\ wire' = wire \o SubSeq(Sealed(ps), 1, sent) /\ pc' = "drop"
                /\ UNCHANGED <<rtpTime, clock, seq, counter, saved, idx, burst>>

\* The channel has lost its sender: the capture thread is gone.
CaptureGone ==
    /\ pc = "recv" /\ channel = <<>> /\ cpc = "gone"
    /\ pc' = "drop" /\ UNCHANGED <<channel, sendVars>>

RunAudio ==
    /\ Poll \/ Drain \/ Announce \/ LoopHead \/ SendFrame \/ CaptureGone
    /\ UNCHANGED <<captureVars, capStop, first, fresh, stop, encrypted>>

\* Mutant of DropStop: the capture thread is woken before it is told to stop.
DropWake ==
    \/ pc = "drop" /\ event' = TRUE /\ pc' = "signal" /\ UNCHANGED capStop
    \/ pc = "signal" /\ capStop' = TRUE /\ pc' = "join" /\ UNCHANGED event

\* LoopbackCapture::drop: the flag, then the event.
DropStop ==
    \/ pc = "drop" /\ capStop' = TRUE /\ pc' = "signal" /\ UNCHANGED event
    \/ pc = "signal" /\ event' = TRUE /\ pc' = "join" /\ UNCHANGED capStop

\* ... and the join, with which run_audio ends.
DropCapture ==
    /\ \/ DropStop
       \/ pc = "join" /\ cpc = "gone" /\ pc' = "done" /\ UNCHANGED <<event, capStop>>
    /\ UNCHANGED <<queue, heard, out, cpc, channel, first, fresh, stop, encrypted, sendVars>>
--------------------------------------------------------------------------------
(* The engine, the video thread and the user                               *)

Deliver(p) ==
    /\ cpc \notin {"open", "gone"}
    /\ heard + FoldLeft(+, 0, queue) + p <= MaxChunks
    /\ queue' = Append(queue, p) /\ event' = TRUE
    /\ UNCHANGED <<heard, out, cpc, channel, capStop, first, fresh, stop, pc, encrypted, sendVars>>

\* send_codec_frame of the video loop.
FirstFrame ==
    /\ ~first /\ first' = TRUE /\ fresh' = heard - Len(out)
    /\ UNCHANGED <<captureVars, channel, capStop, stop, pc, encrypted, sendVars>>

CtrlC ==
    /\ ~stop /\ stop' = TRUE
    /\ UNCHANGED <<captureVars, channel, capStop, first, fresh, pc, encrypted, sendVars>>

Next ==
    \/ Capture \/ RunAudio \/ DropCapture
    \/ \E p \in Packets : Deliver(p)
    \/ FirstFrame \/ CtrlC

\* Two threads that are scheduled; nothing is assumed of the engine.
Fairness == WF_vars(Capture) /\ WF_vars(RunAudio) /\ WF_vars(DropCapture)

Spec == Init /\ [][Next]_vars /\ Fairness
--------------------------------------------------------------------------------
(* Properties                                                              *)

Frames == Seq(1..MaxChunks)
Kept == [frame : Frames, seq : 0..(SeqWrap - 1), rtp : 0..(RtpWrap - 1)]
IsRtp(w) == w.kind = "rtp"

\* The threads' variables range over what the code can store in them; but for the
\* packet being pushed less than a frame is held back, and at most Depth are kept.
TypeOK ==
    /\ queue \in Seq(Packets) /\ event \in BOOLEAN
    /\ heard \in 0..MaxChunks
    /\ out \in Frames /\ (Len(out) < FrameLen \/ cpc = "push")
    /\ \A i \in DOMAIN channel : channel[i] \in Frames /\ Len(channel[i]) = FrameLen
    /\ cpc \in {"open", "check", "wait", "read", "push", "gone"} /\ capStop \in BOOLEAN
    /\ first \in BOOLEAN /\ fresh \in 0..MaxChunks /\ stop \in BOOLEAN /\ encrypted \in BOOLEAN
    /\ pc \in {"poll", "drain", "announce", "loop", "recv", "drop", "signal", "join", "done"}
    /\ rtpTime \in 0..(RtpWrap - 1) /\ clock \in 0..(RtpWrap - 1) /\ seq \in 0..(SeqWrap - 1)
    /\ counter \in Nat
    /\ saved \in Seq(Kept) /\ Len(saved) <= Depth /\ idx \in 0..(Depth - 1)
    /\ burst \in BOOLEAN
    /\ \A i \in DOMAIN wire :
          wire[i] \in [kind : {"rtp", "sync"}, frame : Frames, seq : 0..(SeqWrap - 1),
                       rtp : 0..(RtpWrap - 1), nonce : Nat]
    /\ faults \in 0..MaxFaults

\* No frame handed over before the first video frame was sent is streamed, whatever
\* the capture adds to the backlog while it is dropped.  Of what was heard by then only
\* what the capture thread still had in its hands can follow: the beginning of a frame,
\* and the packet it was about to push.
StartsFresh == \A i \in DOMAIN wire : IsRtp(wire[i]) => wire[i].frame[1] > fresh

\* A packet that carries its frame for the first time, and two of them with none between.
IsNew(i) ==
    IsRtp(wire[i]) /\ \A j \in 1..(i - 1) : ~(IsRtp(wire[j]) /\ wire[j].frame = wire[i].frame)
NextNew(i, j) == i < j /\ IsNew(i) /\ IsNew(j) /\ \A k \in (i + 1)..(j - 1) : ~IsNew(k)

\* The stream is gapless: each frame continues the one before, in sound, in
\* sequence number, in RTP time and, if encrypted, in nonce, over both wraps.
StreamIsGapless ==
    \A i, j \in DOMAIN wire : NextNew(i, j) =>
        /\ \A c \in 1..FrameLen : wire[j].frame[c] = wire[i].frame[c] + FrameLen
        /\ wire[j].seq = (wire[i].seq + 1) % SeqWrap
        /\ wire[j].rtp = (wire[i].rtp + FrameLen) % RtpWrap
        /\ encrypted => wire[j].nonce = wire[i].nonce + 1

\* The RTP packets from i to j, and the frames sent behind the packet at i.
RtpIn(i, j) == {k \in i..j : IsRtp(wire[k])}
Newer(i) == {k \in (i + 1)..Len(wire) : IsNew(k)}

\* A retransmission is the packet it repeats, and it comes so late that no loss of Depth
\* packets in a row takes both; a frame with Depth newer ones behind it has had its own.
BurstLossRepaired ==
    /\ \A i, j \in DOMAIN wire :
          IsRtp(wire[i]) /\ IsRtp(wire[j]) /\ wire[i].frame = wire[j].frame => wire[i] = wire[j]
    /\ ~encrypted =>
          \A i \in DOMAIN wire : IsNew(i) /\ Cardinality(Newer(i)) >= Depth =>
              \E j \in (i + 1)..Len(wire) :
                  /\ IsRtp(wire[j]) /\ wire[j].frame = wire[i].frame
                  /\ Cardinality(RtpIn(i, j)) > Depth

\* A sync packet announces the time of the newest frame sent before it, never
\* that of a retransmission, also after the RTP time has wrapped.
SyncTracksNewest ==
    \A i \in DOMAIN wire : wire[i].kind = "sync" /\ i > 1 /\ wire[i - 1].kind = "rtp" =>
        wire[i].rtp = wire[i - 1].rtp

\* Leaving run_audio ends: the capture thread is woken wherever it is and
\* joined, also when the engine is silent.
LeavingEnds == pc = "drop" ~> pc = "done"
================================================================================
