---------------------------- MODULE SoundConversion ----------------------------
(***************************************************************************)
(* The capture thread's conversion of sound to 44.1 kHz stereo: the format *)
(* it captures in, the samples it reads from a packet of the engine, and   *)
(* the linear resampler that runs on from packet to packet.                *)
(*                                                                         *)
(* Positions in the source count in parts of a frame, Rate of them; the    *)
(* ratio of the resampler is then the rate of the source.  A sample is its *)
(* number in the packet, frame by frame, and so is a place in its memory.  *)
(* Values, their width, clamping and the rounding of f64 are left out; the *)
(* cutting into frames of 352 samples is a matter of AudioSession.  A      *)
(* device whose own format has the rate and channels asked for is read as  *)
(* 16 bits, whatever its width: nothing is said of it here.                *)
(***************************************************************************)
EXTENDS Integers, Sequences

CONSTANTS Rate,        \* the rate asked for, 44100 in the code
          Mixes,       \* mix formats of devices, [rate, channels]
          Packets,     \* sizes of packets, in frames
          MaxPackets   \* bound: packets

ASSUME RatesArePositive ==
    /\ Rate \in Nat \ {0}
    /\ Mixes \subseteq [rate : Nat \ {0}, channels : Nat \ {0}]
ASSUME PacketsAreSizes == Packets \subseteq Nat

VARIABLES format,      \* what the engine gives
          accepted,    \* it took the preferred format
          packet,      \* packets taken
          before,      \* frames before the next packet
          phase,       \* of the resampler
          tail,        \* it has the last frame of the packet before
          samples,     \* the samples read from the packet
          outputs      \* what is made: the packet they are made in, where they lie in
                       \* the source and in the buffer, and the end of the buffer

soundVars == <<format, accepted, packet, before, phase, tail, samples, outputs>>

Preferred == [rate |-> Rate, channels |-> 2]

\* 44.1 kHz stereo in 16 bits, or where the engine refuses it the device's own.
SoundInit ==
    /\ accepted \in BOOLEAN
    /\ format \in IF accepted THEN {Preferred} ELSE Mixes
    /\ packet = 0 /\ before = 0 /\ phase = 0 /\ tail = FALSE
    /\ samples = <<>> /\ outputs = <<>>

Resample == format # Preferred

\* read_sample: the sample found for a channel of a frame.
ReadSample(frame, channel) == frame + channel

\* The packet as the resampler is given it.
Interleaved(n) ==
    [k \in 1..(n * format.channels) |->
        ReadSample((k - 1) \div format.channels, (k - 1) % format.channels)]

\* Frames of the buffer: the packet behind the frame kept of the last one.
Frames(n) == IF tail THEN n + 1 ELSE n

\* Outputs while both frames around the next one are in the buffer.
Outputs(n) ==
    LET room == (Frames(n) - 2) * Rate - phase
    IN IF room <= 0 THEN 0 ELSE (room + format.rate - 1) \div format.rate

\* Where an output lies in the buffer, and the beginning of the buffer in the source.
InBuffer(j) == phase + Rate + (j - 1) * format.rate
Beginning == IF tail THEN (before - 1) * Rate ELSE before * Rate

\* Mutant of Rephase: the frame kept is counted with the packet.
RephaseByBuffer(n) == phase + Outputs(n) * format.rate - Frames(n) * Rate

Rephase(n) == phase + Outputs(n) * format.rate - n * Rate

\* process_stereo of the packet's samples; other channels than two are left out.
Process(n) ==
    /\ outputs' = outputs \o [j \in 1..Outputs(n) |->
                         [packet |-> packet + 1, at |-> Beginning + InBuffer(j),
                          inBuffer |-> InBuffer(j), end |-> (Frames(n) - 1) * Rate]]
    /\ phase' = Rephase(n) /\ tail' = TRUE

Capture(n) ==
    /\ packet < MaxPackets /\ packet' = packet + 1 /\ before' = before + n
    /\ IF Resample
       THEN samples' = Interleaved(n) /\ Process(n)
       ELSE samples' = [k \in 1..(2 * n) |-> k - 1] /\ UNCHANGED <<phase, tail, outputs>>
    /\ UNCHANGED <<format, accepted>>

SoundNext == \E n \in Packets : Capture(n)

SoundSpec == SoundInit /\ [][SoundNext]_soundVars
--------------------------------------------------------------------------------
(* Properties                                                              *)

\* "`samples` is interleaved with `src_channels`": what the resampler is given are the
\* packet's samples in their order.
SamplesInterleaved == \A k \in DOMAIN samples : samples[k] = k - 1

\* Outputs follow each other by the ratio.
Follows(k) == outputs[k + 1].at = outputs[k].at + format.rate

\* From the second packet on the resampler runs through the boundaries of packets of any
\* size: its outputs follow each other by the ratio, none is lost or made twice, and from
\* the third on each lies between two frames of the buffer.  The second packet begins a
\* frame early: the first output of the first lies a frame into it, as if a tail were
\* before it, and `phase` is not corrected for that.
RunsOn ==
    /\ \A k \in 1..(Len(outputs) - 1) : outputs[k].packet > 1 \/ outputs[k + 1].packet = 1 => Follows(k)
    /\ \A k \in DOMAIN outputs : outputs[k].packet > 2 => outputs[k].inBuffer \in 0..(outputs[k].end - 1)
================================================================================
