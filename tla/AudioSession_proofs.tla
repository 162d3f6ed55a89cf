------------------------- MODULE AudioSession_proofs -------------------------
(***************************************************************************)
(* Proofs about AudioSession: no frame handed over before the first video  *)
(* frame is streamed, the stream has no gap in sound or in any of its      *)
(* counters, sync packets announce the newest frame, and every frame is    *)
(* sent again late enough to survive a burst, for frames, retransmission   *)
(* windows, moduli and packets of every size and any number of faults.     *)
(***************************************************************************)
EXTENDS AudioSession, SequenceTheorems, FiniteSetTheorems, TLAPS

\* A sequence, of whatever.
IsSeq(s) == \E S : s \in Seq(S)

\* The states in which frames are sent.
Streaming == {"loop", "recv"}

\* The number of the chunk before the next frame to be taken from the channel.
Pos == heard - Len(out) - Len(channel) * FrameLen

\* What the variables the proof reasons about can hold.
Shapes ==
    /\ queue \in Seq(Packets) /\ heard \in Nat /\ fresh \in Int
    /\ IsSeq(out) /\ IsSeq(channel) /\ IsSeq(saved) /\ IsSeq(wire)
    /\ encrypted \in BOOLEAN /\ burst \in BOOLEAN
    /\ rtpTime \in 0..(RtpWrap - 1) /\ clock \in 0..(RtpWrap - 1)
    /\ \A s \in DOMAIN saved : saved[s].rtp \in 0..(RtpWrap - 1)
    /\ idx \in 0..(Depth - 1)

\* What was heard and not sent is cut into frames without gap or overlap.
Cut ==
    /\ \A c \in DOMAIN out : out[c] = heard - Len(out) + c
    /\ \A i \in DOMAIN channel, c \in 1..FrameLen :
          channel[i][c] = Pos + (i - 1) * FrameLen + c

\* Nothing is sent before the first video frame and the end of the drain.
Begun ==
    /\ fresh <= heard - Len(out)
    /\ pc \in {"poll", "drain", "announce"} => wire = <<>>
    /\ pc \in {"drain", "announce", "loop", "recv"} => first
    /\ ~first => wire = <<>>
    /\ pc \in {"announce", "loop", "recv"} => fresh <= Pos

\* Frames sent were heard before those of the channel.
Heard == \A i \in DOMAIN wire : IsRtp(wire[i]) => wire[i].frame[1] \in (fresh + 1)..Pos

\* The newest packet that is not a retransmission.
LastNew(i) == IsNew(i) /\ \A k \in (i + 1)..Len(wire) : ~IsNew(k)

\* The local counters follow the newest frame sent.
Newest ==
    pc \in Streaming => \A i \in DOMAIN wire : LastNew(i) =>
        /\ \A c \in 1..FrameLen : wire[i].frame[c] = Pos - FrameLen + c
        /\ seq = (wire[i].seq + 1) % SeqWrap
        /\ rtpTime = (wire[i].rtp + FrameLen) % RtpWrap
        /\ encrypted => counter = wire[i].nonce + 1

\* How many frames ago the frame at s was kept.
Age(s) == IF s <= idx THEN (idx + 1) - s ELSE ((idx + 1) - s) + Depth

\* The circular buffer holds the last frames sent, each as old as its place says.
Buffered ==
    /\ Len(saved) = IF burst THEN Depth ELSE idx
    /\ encrypted => saved = <<>> /\ ~burst
    /\ \A s \in DOMAIN saved : (saved[s].rtp + Age(s) * FrameLen) % RtpWrap = rtpTime
    /\ \A s \in DOMAIN saved : \E i \in DOMAIN wire : IsRtp(wire[i]) /\ wire[i].frame = saved[s].frame

\* AudioStream's clock is at the newest frame sent.
Clocks ==
    /\ (clock = rtpTime /\ saved = <<>>) \/ (clock + FrameLen) % RtpWrap = rtpTime
    /\ pc \in Streaming /\ wire # <<>> /\ IsRtp(wire[Len(wire)]) => clock = wire[Len(wire)].rtp

\* The inductive invariant.
AInv == /\ Shapes /\ Cut /\ Begun /\ Heard /\ Newest /\ Buffered /\ Clocks
        /\ StreamIsGapless /\ SyncTracksNewest
--------------------------------------------------------------------------------
(* Numbers                                                                 *)

LEMMA Divides ==
    ASSUME NEW b \in Nat \ {0}, NEW a \in Nat
    PROVE  /\ (a \div b) \in Nat /\ (a % b) \in 0..(b - 1) /\ (a \div b) * b \in Nat
           /\ a = (a \div b) * b + (a % b)
<1> DEFINE q == a \div b
<1>1. q \in Int /\ q >= 0 /\ (a % b) \in 0..(b - 1) /\ a = b * q + (a % b)  OBVIOUS
<1> HIDE DEF q
<1>2. b * q = q * b /\ q * b \in Nat  BY <1>1
<1> QED  BY <1>1, <1>2 DEF q

\* Quotient and remainder are unique.
LEMMA Remainder ==
    ASSUME NEW W \in Nat \ {0}, NEW k \in Nat, NEW y \in Int, NEW x \in 0..(W - 1), k = W * y + x
    PROVE  (k % W) = x
<1> DEFINE q == k \div W
           r == k % W
<1>1. q \in Int /\ r \in 0..(W - 1) /\ k = W * q + r  OBVIOUS
<1> HIDE DEF q, r
<1>2. W * y + x = W * q + r  BY <1>1
<1>3. CASE q >= y + 1
  <2>1. W * q >= W * (y + 1)  BY <1>1, <1>3
  <2>2. W * (y + 1) = W * y + W  OBVIOUS
  <2>3. W * y \in Int /\ W * q \in Int  BY <1>1
  <2> QED  BY <1>1, <1>2, <2>1, <2>2, <2>3
<1>4. CASE y >= q + 1
  <2>1. W * y >= W * (q + 1)  BY <1>1, <1>4
  <2>2. W * (q + 1) = W * q + W  BY <1>1
  <2>3. W * y \in Int /\ W * q \in Int  BY <1>1
  <2> QED  BY <1>1, <1>2, <2>1, <2>2, <2>3
<1>5. CASE q = y
  <2>1. W * y \in Int  OBVIOUS
  <2>2. r = x  BY <1>1, <1>2, <1>5, <2>1
  <2> QED  BY <2>2 DEF r
<1> QED  BY <1>1, <1>3, <1>4, <1>5

LEMMA AddedAfter ==
    ASSUME NEW W \in Nat \ {0}, NEW k \in Nat, NEW f \in Nat
    PROVE  (((k % W) + f) % W) = ((k + f) % W)
<1> DEFINE q == k \div W
           r == k % W
           p == (r + f) \div W
           s == (r + f) % W
<1>1. q \in Int /\ r \in 0..(W - 1) /\ k = W * q + r  OBVIOUS
<1> HIDE DEF q, r
<1>2. p \in Int /\ s \in 0..(W - 1) /\ r + f = W * p + s  BY <1>1
<1> HIDE DEF p, s
<1>3. W * (q + p) = W * q + W * p /\ W * q \in Int /\ W * p \in Int  BY <1>1, <1>2
<1>4. k + f = W * (q + p) + s  BY <1>1, <1>2, <1>3
<1>5. q + p \in Int /\ k + f \in Nat  BY <1>1, <1>2
<1>6. ((k + f) % W) = s  BY <1>2, <1>4, <1>5, Remainder
<1> QED  BY <1>6 DEF r, s

\* A sum of two remainders, and a difference.
LEMMA Around ==
    ASSUME NEW W \in Nat \ {0}, NEW x \in 0..(W - 1), NEW y \in 0..(W - 1)
    PROVE  /\ ((x + y) % W) = IF x + y < W THEN x + y ELSE (x + y) - W
           /\ ((x - y) % W) = IF x >= y THEN x - y ELSE (x - y) + W
OBVIOUS

LEMMA HalfOf == ASSUME NEW W \in Nat PROVE (W \div 2) \in Nat /\ 2 * (W \div 2) <= W
OBVIOUS

USE SizesArePositive, ModuliArePositive

LEMMA Window == /\ FrameLen \in 1..(RtpWrap - 1) /\ FrameLen < RtpWrap \div 2
                /\ Depth * FrameLen \in Nat /\ FrameLen <= Depth * FrameLen
                /\ RtpWrap \div 2 \in Nat /\ 2 * (RtpWrap \div 2) <= RtpWrap
<1>1. Depth * FrameLen \in Nat /\ FrameLen <= Depth * FrameLen
  <2>1. Depth = 1 \/ Depth - 1 \in Nat \ {0}  OBVIOUS
  <2>2. Depth * FrameLen = FrameLen + (Depth - 1) * FrameLen  OBVIOUS
  <2>3. (Depth - 1) * FrameLen \in Nat  BY <2>1
  <2> QED  BY <2>2, <2>3
<1>2. RtpWrap \div 2 \in Nat /\ 2 * (RtpWrap \div 2) <= RtpWrap  BY HalfOf
<1> QED  BY <1>1, <1>2, WindowIsShort

\* The clock follows the frame that comes next ...
LEMMA MovesOn ==
    ASSUME NEW t \in 0..(RtpWrap - 1), NEW n \in 0..(RtpWrap - 1),
           n = t \/ (t + FrameLen) % RtpWrap = n
    PROVE  Advanced(t, n) = n
<1>1. CASE n = t
  <2>1. (n - t) % RtpWrap = 0  BY <1>1, Around
  <2>2. 0 < RtpWrap \div 2  BY Window
  <2> QED  BY <2>1, <2>2 DEF Advanced
<1>2. CASE (t + FrameLen) % RtpWrap = n
  <2>1. n = t + FrameLen \/ n = (t + FrameLen) - RtpWrap  BY <1>2, Window, Around
  <2>2. (n - t) % RtpWrap = FrameLen  BY <2>1, Window, Around
  <2> QED  BY <2>2, Window DEF Advanced
<1> QED  BY <1>1, <1>2

\* ... and stays for one that was sent before.
LEMMA StaysPut ==
    ASSUME NEW t \in 0..(RtpWrap - 1), NEW n \in 0..(RtpWrap - 1), NEW o \in 0..(RtpWrap - 1),
           (t + FrameLen) % RtpWrap = n, (o + Depth * FrameLen) % RtpWrap = n
    PROVE  Advanced(t, o) = t
<1> DEFINE A == Depth * FrameLen
           H == RtpWrap \div 2
<1>1. A \in Nat /\ A < H /\ H \in Nat /\ 2 * H <= RtpWrap /\ FrameLen <= A  BY Window, WindowIsShort
<1>2. n = t + FrameLen \/ n = (t + FrameLen) - RtpWrap  BY Window, Around
<1>3. (o + A) % RtpWrap = n  OBVIOUS
<1> HIDE DEF A
<1>4. n = o + A \/ n = (o + A) - RtpWrap  BY <1>1, <1>3, Around
<1>5. CASE A = FrameLen
  <2>1. o = t  BY <1>2, <1>4, <1>5
  <2> QED  BY <2>1 DEF Advanced
<1>6. CASE A > FrameLen
  <2>1. (o - t) % RtpWrap = RtpWrap - (A - FrameLen)  BY <1>1, <1>2, <1>4, <1>6, Around
  <2>2. ~((o - t) % RtpWrap < H)  BY <1>1, <1>6, <2>1
  <2> QED  BY <2>2 DEF Advanced
<1> QED  BY <1>1, <1>5, <1>6

--------------------------------------------------------------------------------
(* Sequences                                                               *)

LEMMA SeqFacts ==
    ASSUME NEW s, IsSeq(s)
    PROVE  /\ Len(s) \in Nat /\ DOMAIN s = 1..Len(s)
           /\ (s = <<>>) <=> (Len(s) = 0)
           /\ s # <<>> => Head(s) = s[1] /\ 1 \in DOMAIN s
<1>1. PICK S : s \in Seq(S)  BY DEF IsSeq
<1>2. Len(s) \in Nat /\ DOMAIN s = 1..Len(s)  BY <1>1, LenProperties
<1>3. (s = <<>>) <=> (Len(s) = 0)  BY <1>1, EmptySeq
<1>4. s # <<>> => Head(s) = s[1] /\ 1 \in DOMAIN s  BY <1>1, <1>2, <1>3, HeadTailProperties
<1> QED  BY <1>2, <1>3, <1>4

LEMMA Appended ==
    ASSUME NEW s, IsSeq(s), NEW e
    PROVE  /\ IsSeq(Append(s, e))
           /\ Len(Append(s, e)) = Len(s) + 1
           /\ \A i \in DOMAIN s : Append(s, e)[i] = s[i]
           /\ Append(s, e)[Len(s) + 1] = e
<1>1. PICK S : s \in Seq(S)  BY DEF IsSeq
<1>2. s \in Seq(S \cup {e})  BY <1>1
<1>3. Append(s, e) \in Seq(S \cup {e})  BY <1>2, AppendProperties
<1>4. Len(Append(s, e)) = Len(s) + 1  BY <1>2, AppendProperties
<1>5. \A i \in DOMAIN s : Append(s, e)[i] = s[i]  BY <1>2, AppendProperties, SeqFacts
<1>6. Append(s, e)[Len(s) + 1] = e  BY <1>2, AppendProperties
<1> QED  BY <1>3, <1>4, <1>5, <1>6 DEF IsSeq

LEMMA Shortened ==
    ASSUME NEW s, IsSeq(s), s # <<>>
    PROVE  /\ IsSeq(Tail(s))
           /\ Len(Tail(s)) = Len(s) - 1
           /\ \A i \in DOMAIN Tail(s) : i + 1 \in DOMAIN s /\ Tail(s)[i] = s[i + 1]
<1>1. PICK S : s \in Seq(S)  BY DEF IsSeq
<1>2. Tail(s) \in Seq(S) /\ Len(Tail(s)) = Len(s) - 1  BY <1>1, HeadTailProperties
<1>3. \A i \in 1 .. Len(Tail(s)) : Tail(s)[i] = s[i + 1]  BY <1>1, HeadTailProperties
<1>4. DOMAIN Tail(s) = 1 .. Len(Tail(s)) /\ DOMAIN s = 1 .. Len(s) /\ Len(s) \in Nat
  BY <1>1, <1>2, LenProperties
<1>5. \A i \in DOMAIN Tail(s) : i + 1 \in DOMAIN s /\ Tail(s)[i] = s[i + 1]  BY <1>2, <1>3, <1>4
<1> QED  BY <1>2, <1>5 DEF IsSeq

LEMMA Joined ==
    ASSUME NEW s, IsSeq(s), NEW t, IsSeq(t)
    PROVE  /\ IsSeq(s \o t)
           /\ Len(s \o t) = Len(s) + Len(t)
           /\ \A i \in DOMAIN (s \o t) :
                \/ i \in DOMAIN s /\ (s \o t)[i] = s[i]
                \/ i - Len(s) \in DOMAIN t /\ (s \o t)[i] = t[i - Len(s)]
           /\ s = <<>> => s \o t = t
<1>1. PICK S : s \in Seq(S)  BY DEF IsSeq
<1>2. PICK T : t \in Seq(T)  BY DEF IsSeq
<1>3. s \in Seq(S \cup T) /\ t \in Seq(S \cup T)  BY <1>1, <1>2
<1>4. s \o t \in Seq(S \cup T) /\ Len(s \o t) = Len(s) + Len(t)  BY <1>3, ConcatProperties
<1>5. \A i \in 1 .. Len(s) + Len(t) : (s \o t)[i] = IF i <= Len(s) THEN s[i] ELSE t[i - Len(s)]
  BY <1>3, ConcatProperties
<1>6. DOMAIN (s \o t) = 1 .. Len(s) + Len(t)  BY <1>4, LenProperties
<1>7. ASSUME NEW i \in DOMAIN (s \o t)
      PROVE  \/ i \in DOMAIN s /\ (s \o t)[i] = s[i]
             \/ i - Len(s) \in DOMAIN t /\ (s \o t)[i] = t[i - Len(s)]
  <2>1. i \in 1 .. Len(s) + Len(t) /\ Len(s) \in Nat /\ Len(t) \in Nat /\ DOMAIN s = 1 .. Len(s)
        /\ DOMAIN t = 1 .. Len(t)
    BY <1>3, <1>6, <1>7, LenProperties
  <2>2. (s \o t)[i] = IF i <= Len(s) THEN s[i] ELSE t[i - Len(s)]  BY <2>1, <1>5
  <2>3. CASE i <= Len(s)  BY <2>1, <2>2, <2>3
  <2>4. CASE ~(i <= Len(s))
    <3>1. i - Len(s) \in 1 .. Len(t)  BY <2>1, <2>4
    <3> QED  BY <2>1, <2>2, <2>4, <3>1
  <2> QED  BY <2>3, <2>4
<1>8. s = <<>> => s \o t = t  BY <1>3, ConcatEmptySeq
<1> QED  BY <1>4, <1>7, <1>8 DEF IsSeq


LEMMA Replaced ==
    ASSUME NEW s, IsSeq(s), NEW n \in DOMAIN s, NEW e
    PROVE  /\ IsSeq([s EXCEPT ![n] = e])
           /\ DOMAIN [s EXCEPT ![n] = e] = DOMAIN s
           /\ Len([s EXCEPT ![n] = e]) = Len(s)
           /\ \A i \in DOMAIN s : [s EXCEPT ![n] = e][i] = IF i = n THEN e ELSE s[i]
<1>1. PICK S : s \in Seq(S)  BY DEF IsSeq
<1>2. s \in Seq(S \cup {e}) /\ e \in S \cup {e} /\ n \in 1..Len(s)  BY <1>1
<1>3. [s EXCEPT ![n] = e] \in Seq(S \cup {e})  BY <1>2, ExceptSeq
<1>4. DOMAIN [s EXCEPT ![n] = e] = DOMAIN s  OBVIOUS
<1>5. Len([s EXCEPT ![n] = e]) = Len(s)  BY <1>2, <1>3, <1>4, LenProperties
<1>6. \A i \in DOMAIN s : [s EXCEPT ![n] = e][i] = IF i = n THEN e ELSE s[i]  OBVIOUS
<1> QED  BY <1>3, <1>4, <1>5, <1>6 DEF IsSeq

LEMMA OneMore ==
    ASSUME NEW s, IsSeq(s), NEW e
    PROVE  s \o <<e>> = Append(s, e)
<1>1. PICK S : s \in Seq(S)  BY DEF IsSeq
<1>2. s \in Seq(S \cup {e}) /\ e \in S \cup {e}  BY <1>1
<1> QED  BY <1>2, AppendIsConcat

LEMMA Pair ==
    ASSUME NEW d, NEW e
    PROVE  /\ <<d>> \o <<e>> = <<d, e>>
           /\ SubSeq(<<d, e>>, 1, 1) = <<d>>
<1> DEFINE T == {d, e}
<1>1. <<d>> \in Seq(T) /\ <<e>> \in Seq(T) /\ <<d, e>> \in Seq(T)  OBVIOUS
<1>2. Len(<<d, e>>) = 2 /\ <<d, e>>[1] = d /\ <<d, e>>[2] = e  OBVIOUS
<1>3. <<d>> \o <<e>> = <<d, e>>
  <2>1. Append(<<d>>, e) = <<d>> \o <<e>>  BY <1>1, AppendIsConcat
  <2>2. /\ Append(<<d>>, e) \in Seq(T) /\ Len(Append(<<d>>, e)) = 2
        /\ Append(<<d>>, e)[1] = d /\ Append(<<d>>, e)[2] = e
    BY <1>1, AppendProperties
  <2>3. \A i \in 1..2 : Append(<<d>>, e)[i] = <<d, e>>[i]  BY <1>2, <2>2
  <2>4. Append(<<d>>, e) = <<d, e>>  BY <1>1, <1>2, <2>2, <2>3, SeqEqual
  <2> QED  BY <2>1, <2>4
<1>4. SubSeq(<<d, e>>, 1, 1) = <<d>>
  <2> DEFINE s == SubSeq(<<d, e>>, 1, 1)
             p == <<d, e>>
  <2>1. p \in Seq(T) /\ Len(p) = 2 /\ p[1] = d  BY <1>1
  <2> HIDE DEF p
  <2>2. s = SubSeq(p, 1, 1)  BY DEF p
  <2> HIDE DEF s
  <2>3. \A i \in 1..1 : p[i] \in T  BY <2>1
  <2>4. s \in Seq(T) /\ Len(s) = 1 /\ s[1] = p[1]  BY <2>1, <2>2, <2>3, SubSeqProperties
  <2>5. \A i \in 1..1 : s[i] = <<d>>[i]  BY <2>1, <2>4
  <2>6. s = <<d>>  BY <1>1, <2>4, <2>5, SeqEqual
  <2> QED  BY <2>6 DEF s
<1> QED  BY <1>3, <1>4

LEMMA TwoMore ==
    ASSUME NEW s, IsSeq(s), NEW d, NEW e
    PROVE  s \o <<d, e>> = Append(Append(s, d), e)
<1>1. PICK S : s \in Seq(S)  BY DEF IsSeq
<1> DEFINE T == S \cup {d, e}
<1>2. s \in Seq(T) /\ d \in T /\ e \in T  BY <1>1
<1>3. <<d>> \in Seq(T) /\ <<e>> \in Seq(T)  BY <1>2
<1>4. <<d, e>> = <<d>> \o <<e>>  BY Pair
<1>5. (s \o <<d>>) \o <<e>> = s \o (<<d>> \o <<e>>)  BY <1>2, <1>3, ConcatAssociative
<1>6. s \o <<d>> = Append(s, d)  BY <1>2, AppendIsConcat
<1>7. Append(s, d) \in Seq(T)  BY <1>2, AppendProperties
<1>8. Append(s, d) \o <<e>> = Append(Append(s, d), e)  BY <1>2, <1>7, AppendIsConcat
<1> QED  BY <1>4, <1>5, <1>6, <1>8

--------------------------------------------------------------------------------
(* The wire: which packets are new, and steps that send none               *)

\* Whether a packet is new depends on those before it only.
LEMMA Prefix ==
    ASSUME IsSeq(wire), IsSeq(wire'), Len(wire) <= Len(wire'),
           \A i \in DOMAIN wire : wire'[i] = wire[i],
           NEW i \in DOMAIN wire
    PROVE  i \in DOMAIN wire' /\ IsNew(i)' = IsNew(i)
<1>1. Len(wire) \in Nat /\ DOMAIN wire = 1..Len(wire) /\ Len(wire') \in Nat /\ DOMAIN wire' = 1..Len(wire')
  BY SeqFacts
<1>2. \A j \in 1..(i - 1) : j \in DOMAIN wire /\ wire'[j] = wire[j]  BY <1>1
<1>3. wire'[i] = wire[i] /\ i \in DOMAIN wire'  BY <1>1
<1> QED  BY <1>2, <1>3 DEF IsNew

\* Packets that are not new leave the order of the new ones.
LEMMA Quiet ==
    ASSUME IsSeq(wire), IsSeq(wire'), Len(wire) <= Len(wire'), StreamIsGapless, encrypted' = encrypted,
           \A i \in DOMAIN wire : wire'[i] = wire[i],
           \A i \in DOMAIN wire' : Len(wire) < i => ~IsNew(i)'
    PROVE  /\ StreamIsGapless'
           /\ \A i \in DOMAIN wire' : LastNew(i)' => i \in DOMAIN wire /\ LastNew(i)
<1>1. Len(wire) \in Nat /\ DOMAIN wire = 1..Len(wire) /\ Len(wire') \in Nat /\ DOMAIN wire' = 1..Len(wire')
  BY SeqFacts
<1>2. \A i \in DOMAIN wire : IsNew(i)' = IsNew(i)  BY Prefix
<1>3. ASSUME NEW i \in DOMAIN wire', IsNew(i)'  PROVE i \in DOMAIN wire  BY <1>1, <1>3
<1>4. StreamIsGapless'
  <2> SUFFICES ASSUME NEW i \in DOMAIN wire', NEW j \in DOMAIN wire', NextNew(i, j)'
               PROVE  /\ \A c \in 1..FrameLen : wire'[j].frame[c] = wire'[i].frame[c] + FrameLen
                      /\ wire'[j].seq = (wire'[i].seq + 1) % SeqWrap
                      /\ wire'[j].rtp = (wire'[i].rtp + FrameLen) % RtpWrap
                      /\ encrypted => wire'[j].nonce = wire'[i].nonce + 1
    BY DEF StreamIsGapless
  <2>1. i < j /\ IsNew(i)' /\ IsNew(j)' /\ \A k \in (i + 1)..(j - 1) : ~IsNew(k)'  BY DEF NextNew
  <2>2. i \in DOMAIN wire /\ j \in DOMAIN wire  BY <2>1, <1>3
  <2>3. \A k \in (i + 1)..(j - 1) : k \in DOMAIN wire  BY <1>1, <2>2
  <2>4. NextNew(i, j)  BY <1>2, <2>1, <2>2, <2>3 DEF NextNew
  <2>5. wire'[i] = wire[i] /\ wire'[j] = wire[j]  BY <2>2
  <2> QED  BY <2>2, <2>4, <2>5 DEF StreamIsGapless
<1>5. ASSUME NEW i \in DOMAIN wire', LastNew(i)'  PROVE i \in DOMAIN wire /\ LastNew(i)
  <2>1. IsNew(i)' /\ \A k \in (i + 1)..Len(wire') : ~IsNew(k)'  BY <1>5 DEF LastNew
  <2>2. i \in DOMAIN wire  BY <2>1, <1>3
  <2>3. \A k \in (i + 1)..Len(wire) : k \in DOMAIN wire /\ k \in (i + 1)..Len(wire')  BY <1>1, <2>2
  <2> QED  BY <1>2, <2>1, <2>2, <2>3 DEF LastNew
<1> QED  BY <1>4, <1>5

\* What a step that sends nothing leaves alone.
sentVars == <<rtpTime, clock, seq, counter, saved, idx, burst, wire>>

\* A step that neither sends nor takes a frame.
LEMMA Idle ==
    ASSUME AInv, UNCHANGED <<heard, out, channel, fresh, encrypted, sentVars>>,
           queue' \in Seq(Packets), pc' \in Streaming => pc \in Streaming, Begun'
    PROVE  AInv'
<1> USE DEF sentVars
<1>1. Shapes'  BY DEF AInv, Shapes
<1>2. Pos' = Pos  BY DEF Pos
<1>3. Cut'  BY <1>2 DEF AInv, Cut
<1>4. Heard'  BY <1>2 DEF AInv, Heard
<1>5. Newest'  BY <1>2 DEF AInv, Newest, LastNew, IsNew
<1>6. Buffered'  BY DEF AInv, Buffered, Age
<1>7. Clocks'  BY DEF AInv, Clocks
<1>8. StreamIsGapless'  BY DEF AInv, StreamIsGapless, NextNew, IsNew
<1>9. SyncTracksNewest'  BY DEF AInv, SyncTracksNewest
<1> QED  BY <1>1, <1>3, <1>4, <1>5, <1>6, <1>7, <1>8, <1>9 DEF AInv

\* A frame taken from the channel is the next one heard.
LEMMA Taken ==
    ASSUME Shapes, Cut, channel # <<>>, channel' = Tail(channel), UNCHANGED <<heard, out>>
    PROVE  /\ Cut' /\ IsSeq(channel') /\ Pos \in Int /\ Pos' = Pos + FrameLen
           /\ \A c \in 1..FrameLen : Head(channel)[c] = Pos + c
<1> DEFINE n == Len(channel)
<1>1. n \in Nat /\ Len(out) \in Nat /\ heard \in Nat /\ n # 0  BY SeqFacts DEF Shapes
<1>2. IsSeq(channel') /\ Len(channel') = n - 1  BY Shortened DEF Shapes
<1>3. \A i \in DOMAIN channel' : i + 1 \in DOMAIN channel /\ channel'[i] = channel[i + 1]
  BY Shortened DEF Shapes
<1>4. DOMAIN channel' = 1..(n - 1)  BY <1>2, SeqFacts
<1>5. Head(channel) = channel[1] /\ 1 \in DOMAIN channel  BY SeqFacts DEF Shapes
<1>6. n * FrameLen \in Int /\ (n - 1) * FrameLen = n * FrameLen - FrameLen  BY <1>1
<1>7. Pos' = heard - Len(out) - (n - 1) * FrameLen  BY <1>2 DEF Pos
<1>8. Pos \in Int /\ Pos' = Pos + FrameLen  BY <1>1, <1>6, <1>7 DEF Pos
<1>9. \A c \in 1..FrameLen : Head(channel)[c] = Pos + c
  <2> TAKE c \in 1..FrameLen
  <2>1. channel[1][c] = Pos + (1 - 1) * FrameLen + c  BY <1>5 DEF Cut
  <2>2. (1 - 1) * FrameLen = 0  OBVIOUS
  <2> QED  BY <1>5, <1>8, <2>1, <2>2
<1>10. ASSUME NEW i \in DOMAIN channel', NEW c \in 1..FrameLen
       PROVE  channel'[i][c] = Pos' + (i - 1) * FrameLen + c
  <2>1. PICK k \in DOMAIN channel : k = i + 1 /\ channel'[i] = channel[k]  BY <1>3
  <2>2. channel[k][c] = Pos + (k - 1) * FrameLen + c  BY DEF Cut
  <2>3. i \in Int  BY <1>4
  <2>4. PICK j \in Int : j = i - 1  BY <2>3
  <2>5. k - 1 = j + 1  BY <2>1, <2>3, <2>4
  <2>6. (j + 1) * FrameLen = j * FrameLen + FrameLen /\ j * FrameLen \in Int  OBVIOUS
  <2> QED  BY <1>8, <2>1, <2>2, <2>4, <2>5, <2>6
<1> QED  BY <1>2, <1>8, <1>9, <1>10 DEF Cut

--------------------------------------------------------------------------------
(* The capture thread cuts what it hears into frames                       *)

\* A packet goes behind what was held back.
LEMMA GetKeeps ==
    ASSUME AInv, GetBuffer, UNCHANGED <<capStop, first, fresh, stop, pc, encrypted, sendVars>>
    PROVE  AInv'
<1> DEFINE h == Head(queue)
           n == Len(out)
           l == Len(channel)
           heardNow == [i \in 1..h |-> heard + i]
<1> USE DEF sendVars, GetBuffer
<1>1. h \in Nat \ {0} /\ queue' \in Seq(Packets)
  BY PacketsArePositive, HeadTailProperties DEF AInv, Shapes
<1>2. heard \in Nat /\ n \in Nat /\ l \in Nat /\ DOMAIN out = 1..n  BY SeqFacts DEF AInv, Shapes
<1>3. heardNow \in Seq(Int) /\ Len(heardNow) = h /\ DOMAIN heardNow = 1..h
  <2>1. heardNow \in [1..h -> Int] /\ h \in Nat  BY <1>1, <1>2
  <2> HIDE DEF heardNow, h
  <2>2. heardNow \in Seq(Int)  BY <2>1
  <2>3. Len(heardNow) = h  BY <2>1, <2>2, LenProperties
  <2> QED  BY <2>1, <2>2, <2>3
<1>4. IsSeq(heardNow) /\ IsSeq(out)  BY <1>3 DEF IsSeq, AInv, Shapes
<1>5. out' = out \o heardNow  OBVIOUS
<1>6. IsSeq(out') /\ Len(out') = n + h  BY <1>3, <1>4, <1>5, Joined
<1>7. DOMAIN out' = 1..(n + h)  BY <1>6, SeqFacts
<1>8. heard' = heard + h /\ channel' = channel  OBVIOUS
<1>9. Pos' = Pos
  <2>1. l * FrameLen \in Int  BY <1>2
  <2>2. Pos' = (heard + h) - (n + h) - l * FrameLen  BY <1>6, <1>8 DEF Pos
  <2> QED  BY <1>1, <1>2, <2>1, <2>2 DEF Pos
<1>10. ASSUME NEW i \in DOMAIN out'  PROVE out'[i] = heard' - Len(out') + i
  <2>1. i \in 1..(n + h)  BY <1>7
  <2>2. CASE i \in DOMAIN out /\ out'[i] = out[i]
    <3>1. out[i] = heard - n + i  BY <2>2 DEF AInv, Cut
    <3> QED  BY <1>1, <1>2, <1>6, <1>8, <2>1, <2>2, <3>1
  <2>3. CASE i - n \in DOMAIN heardNow /\ out'[i] = heardNow[i - n]
    <3>1. i - n \in 1..h  BY <2>3, <1>3
    <3>2. heardNow[i - n] = heard + (i - n)  BY <3>1
    <3>3. out'[i] = heard + (i - n)  BY <2>3, <3>2
    <3> QED  BY <1>1, <1>2, <1>6, <1>8, <2>1, <3>3
  <2> QED  BY <1>4, <1>5, <2>2, <2>3, Joined
<1>11. heard' - Len(out') = heard - n /\ heard' \in Nat  BY <1>1, <1>2, <1>6, <1>8
<1> HIDE DEF h, heardNow, GetBuffer
<1>12. UNCHANGED <<channel, fresh, first, pc, encrypted, sendVars>>  BY DEF GetBuffer
<1>13. Shapes'  BY <1>1, <1>6, <1>11, <1>12 DEF AInv, Shapes
<1>14. Cut'  BY <1>9, <1>10, <1>12 DEF AInv, Cut
<1>15. Begun'  BY <1>9, <1>11, <1>12 DEF AInv, Begun
<1>16. Heard'  BY <1>9, <1>12 DEF AInv, Heard
<1>17. Newest'  BY <1>9, <1>12 DEF AInv, Newest, LastNew, IsNew
<1>18. Buffered' /\ Clocks'  BY <1>12 DEF AInv, Buffered, Age, Clocks
<1>19. StreamIsGapless' /\ SyncTracksNewest'
  BY <1>12 DEF AInv, StreamIsGapless, NextNew, IsNew, SyncTracksNewest
<1> QED  BY <1>13, <1>14, <1>15, <1>16, <1>17, <1>18, <1>19 DEF AInv

\* The front of a sequence and the rest of it.
LEMMA Split ==
    ASSUME NEW s, IsSeq(s), NEW k \in Nat, k <= Len(s)
    PROVE  /\ \A c \in 1..k : SubSeq(s, 1, k)[c] = s[c]
           /\ IsSeq(SubSeq(s, k + 1, Len(s))) /\ Len(SubSeq(s, k + 1, Len(s))) = Len(s) - k
           /\ \A c \in 1..(Len(s) - k) : SubSeq(s, k + 1, Len(s))[c] = s[k + c]
<1>1. PICK S : s \in Seq(S)  BY DEF IsSeq
<1>2. Len(s) \in Nat /\ DOMAIN s = 1..Len(s)  BY SeqFacts
<1>3. \A i \in 1..Len(s) : s[i] \in S  BY <1>1, <1>2
<1>4. \A c \in 1..k : SubSeq(s, 1, k)[c] = s[c]
  <2>1. 1 \in 1..(Len(s) + 1)  BY <1>2
  <2> QED  BY <1>1, <1>2, <2>1, SubSeqProperties
<1> DEFINE r == SubSeq(s, k + 1, Len(s))
<1>5. r \in Seq(S) /\ Len(r) = Len(s) - k
  <2>1. k + 1 \in 1..(Len(s) + 1)  BY <1>2
  <2> DEFINE a == k + 1
  <2>2. Len(s) - a + 1 = Len(s) - k  BY <1>2
  <2>3. \A i \in a..Len(s) : s[i] \in S  BY <1>2, <1>3
  <2>4. r = SubSeq(s, a, Len(s))  OBVIOUS
  <2>5. a \in 1..(Len(s) + 1)  BY <2>1
  <2> HIDE DEF a, r
  <2>6. r \in Seq(S) /\ Len(r) = IF a <= Len(s) THEN Len(s) - a + 1 ELSE 0
    BY <1>1, <1>2, <2>4, <2>5, SubSeqProperties
  <2>7. Len(r) = Len(s) - a + 1  BY <1>2, <2>5, <2>6
  <2> QED  BY <2>2, <2>6, <2>7
<1>6. ASSUME NEW c \in 1..(Len(s) - k)  PROVE r[c] = s[k + c]
  <2> HIDE DEF r
  <2>1. r = SubSeq(s, k + 1, Len(s)) /\ k + 1 \in 1..(Len(s) + 1)  BY <1>2 DEF r
  <2> QED  BY <1>1, <1>2, <2>1, <1>6, SubSeqProperties
<1> QED  BY <1>4, <1>5, <1>6 DEF IsSeq

\* A frame handed over is the next behind those of the channel.
LEMMA PushKeeps ==
    ASSUME AInv, PushFrame, UNCHANGED <<capStop, first, fresh, stop, pc, encrypted, sendVars>>
    PROVE  AInv'
<1> DEFINE f == SubSeq(out, 1, FrameLen)
           n == Len(out)
           l == Len(channel)
<1>1. /\ heard \in Nat /\ n \in Nat /\ l \in Nat /\ DOMAIN out = 1..n /\ DOMAIN channel = 1..l
      /\ IsSeq(out) /\ IsSeq(channel) /\ fresh \in Int
  BY SeqFacts DEF AInv, Shapes
<1>2. FrameLen \in Nat \ {0} /\ FrameLen <= n  BY <1>1, SizesArePositive DEF PushFrame
<1>3. /\ out' = SubSeq(out, FrameLen + 1, n) /\ channel' = Append(channel, f)
      /\ UNCHANGED <<queue, heard, fresh, first, pc, encrypted, sendVars>>
  BY DEF PushFrame
<1>4. /\ \A c \in 1..FrameLen : f[c] = out[c]
      /\ IsSeq(out') /\ Len(out') = n - FrameLen
      /\ \A c \in 1..(n - FrameLen) : out'[c] = out[FrameLen + c]
  BY <1>1, <1>2, <1>3, Split
<1> HIDE DEF f
<1>5. /\ IsSeq(channel') /\ Len(channel') = l + 1 /\ channel'[l + 1] = f
      /\ \A i \in DOMAIN channel : channel'[i] = channel[i]
  BY <1>1, <1>3, Appended
<1>6. DOMAIN channel' = 1..(l + 1) /\ DOMAIN out' = 1..(n - FrameLen)  BY <1>4, <1>5, SeqFacts
<1>7. l * FrameLen \in Int /\ (l + 1) * FrameLen = l * FrameLen + FrameLen  BY <1>1, <1>2
<1>8. Pos = heard - n - l * FrameLen /\ Pos \in Int  BY <1>1, <1>7 DEF Pos
<1>9. Pos' = Pos
  <2>1. Pos' = heard - (n - FrameLen) - (l + 1) * FrameLen  BY <1>3, <1>4, <1>5 DEF Pos
  <2> QED  BY <1>1, <1>2, <1>7, <1>8, <2>1
<1>10. ASSUME NEW c \in DOMAIN out'  PROVE out'[c] = heard' - Len(out') + c
  <2>1. c \in 1..(n - FrameLen) /\ FrameLen + c \in DOMAIN out  BY <1>1, <1>2, <1>6
  <2>2. out[FrameLen + c] = heard - Len(out) + (FrameLen + c)  BY <2>1 DEF AInv, Cut
  <2>3. out'[c] = out[FrameLen + c]  BY <1>4, <2>1
  <2>4. heard' = heard /\ Len(out') = n - FrameLen  BY <1>3, <1>4
  <2>5. n = Len(out)  OBVIOUS
  <2> HIDE DEF n
  <2> QED  BY <1>1, <1>2, <2>1, <2>2, <2>3, <2>4, <2>5
<1>11. ASSUME NEW i \in DOMAIN channel', NEW c \in 1..FrameLen
       PROVE  channel'[i][c] = Pos + (i - 1) * FrameLen + c
  <2>1. CASE i \in DOMAIN channel  BY <1>5, <2>1 DEF AInv, Cut
  <2>2. CASE i = l + 1
    <3>1. c \in DOMAIN out  BY <1>1, <1>2
    <3>2. f[c] = heard - n + c  BY <1>4, <3>1 DEF AInv, Cut
    <3>3. i - 1 = l  BY <1>1, <2>2
    <3> QED  BY <1>1, <1>2, <1>5, <1>7, <1>8, <2>2, <3>2, <3>3
  <2> QED  BY <1>1, <1>6, <2>1, <2>2
<1>12. Shapes'  BY <1>3, <1>4, <1>5 DEF AInv, Shapes, sendVars
<1>13. Cut'  BY <1>9, <1>10, <1>11 DEF Cut
<1>14. Begun'
  <2>1. fresh' <= heard' - Len(out')  BY <1>1, <1>2, <1>3, <1>4 DEF AInv, Begun
  <2> QED  BY <1>3, <1>9, <2>1 DEF AInv, Begun, sendVars
<1>15. Heard'  BY <1>3, <1>9 DEF AInv, Heard, sendVars
<1>16. Newest'  BY <1>3, <1>9 DEF AInv, Newest, LastNew, IsNew, sendVars
<1>17. Buffered' /\ Clocks'  BY <1>3 DEF AInv, Buffered, Age, Clocks, sendVars
<1>18. StreamIsGapless' /\ SyncTracksNewest'
  BY <1>3 DEF AInv, StreamIsGapless, NextNew, IsNew, SyncTracksNewest, sendVars
<1> QED  BY <1>12, <1>13, <1>14, <1>15, <1>16, <1>17, <1>18 DEF AInv

--------------------------------------------------------------------------------
(* Packets go out                                                          *)

\* A sync packet, sent where the clock is that of the newest frame.
LEMMA Synced ==
    ASSUME AInv, pc \in {"announce", "loop"}, pc' \in Streaming, wire' = Append(wire, Sync), faults' = faults,
           UNCHANGED <<queue, heard, out, channel, first, fresh, encrypted, rtpTime, clock, seq, counter,
                       saved, idx, burst>>
    PROVE  AInv'
<1> DEFINE n == Len(wire)
<1>1. n \in Nat /\ DOMAIN wire = 1..n /\ IsSeq(wire) /\ (wire = <<>> <=> n = 0)
  BY SeqFacts DEF AInv, Shapes
<1>2. /\ IsSeq(wire') /\ Len(wire') = n + 1 /\ wire'[n + 1] = Sync
      /\ \A i \in DOMAIN wire : wire'[i] = wire[i]
  BY <1>1, Appended
<1>3. DOMAIN wire' = 1..(n + 1)  BY <1>2, SeqFacts
<1>4. ~IsRtp(Sync) /\ Sync.rtp = clock  BY DEF IsRtp, Sync
<1> HIDE DEF n
<1>5. \A i \in DOMAIN wire' : i \in DOMAIN wire \/ i = n + 1  BY <1>1, <1>3
<1>6. \A i \in DOMAIN wire' : n < i => ~IsNew(i)'  BY <1>1, <1>2, <1>4, <1>5 DEF IsNew
<1>7. n <= Len(wire')  BY <1>1, <1>2
<1>8. StreamIsGapless' /\ \A i \in DOMAIN wire' : LastNew(i)' => i \in DOMAIN wire /\ LastNew(i)
  BY <1>1, <1>2, <1>6, <1>7, Quiet DEF n, AInv
<1>9. Pos' = Pos  BY DEF Pos
<1>10. Shapes'  BY <1>2 DEF AInv, Shapes
<1>11. Cut'  BY <1>9 DEF AInv, Cut
<1>12. Begun'  BY <1>9 DEF AInv, Begun, Streaming
<1>13. Heard'  BY <1>2, <1>4, <1>5, <1>9 DEF AInv, Heard
<1>14. Newest'
  <2>1. CASE pc = "announce"
    <3>1. DOMAIN wire = {}  BY <1>1, <2>1 DEF AInv, Begun
    <3> QED  BY <1>8, <3>1 DEF Newest
  <2>2. CASE pc = "loop"
    <3>1. Newest /\ pc \in Streaming  BY <2>2 DEF AInv, Streaming
    <3> QED  BY <1>2, <1>8, <1>9, <3>1 DEF Newest
  <2> QED  BY <2>1, <2>2
<1>15. Buffered'
  <2>1. \A i \in DOMAIN wire : i \in DOMAIN wire' /\ wire'[i] = wire[i]  BY <1>1, <1>2, <1>3
  <2>2. ASSUME NEW s \in DOMAIN saved'
        PROVE  \E i \in DOMAIN wire' : IsRtp(wire'[i]) /\ wire'[i].frame = saved'[s].frame
    <3>1. PICK i \in DOMAIN wire : IsRtp(wire[i]) /\ wire[i].frame = saved[s].frame  BY DEF AInv, Buffered
    <3> QED  BY <2>1, <3>1
  <2> QED  BY <2>2 DEF AInv, Buffered, Age
<1>16. Clocks'  BY <1>2, <1>4 DEF AInv, Clocks, n
<1>17. SyncTracksNewest'
  <2> SUFFICES ASSUME NEW i \in DOMAIN wire', wire'[i].kind = "sync", i > 1, wire'[i - 1].kind = "rtp"
               PROVE  wire'[i].rtp = wire'[i - 1].rtp
    BY DEF SyncTracksNewest
  <2>1. i \in 1..(n + 1) /\ i - 1 \in DOMAIN wire /\ wire'[i - 1] = wire[i - 1]  BY <1>1, <1>2, <1>3
  <2>2. CASE i \in DOMAIN wire
    <3>1. wire'[i] = wire[i]  BY <1>2, <2>2
    <3> QED  BY <2>1, <2>2, <3>1 DEF AInv, SyncTracksNewest
  <2>3. CASE i = n + 1
    <3>1. i - 1 = n /\ n # 0  BY <1>1, <2>1, <2>3
    <3>2. wire[n].kind = "rtp" /\ wire # <<>>  BY <1>1, <2>1, <3>1
    <3>3. pc \in Streaming  BY <3>2 DEF AInv, Begun, Streaming
    <3>4. clock = wire[n].rtp  BY <3>2, <3>3 DEF AInv, Clocks, IsRtp, n
    <3> QED  BY <1>2, <1>4, <2>1, <2>3, <3>1, <3>4
  <2> QED  BY <1>5, <2>2, <2>3
<1> QED  BY <1>8, <1>10, <1>11, <1>12, <1>13, <1>14, <1>15, <1>16, <1>17 DEF AInv

\* The packet that is sent again, and the one that carries the frame.
Again == Packet(saved[idx + 1].frame, saved[idx + 1].seq, saved[idx + 1].rtp, 0)
Fresh(f) == Packet(f, seq, rtpTime, IF encrypted THEN counter ELSE 0)

\* One packet or two go out, and the clock moves to the frame's time.
LEMMA SendFacts ==
    ASSUME AInv, NEW f
    PROVE  /\ ~burst => /\ ToSend(f) = <<New(f)>> /\ Len(ToSend(f)) = 1
                        /\ wire \o Sealed(ToSend(f)) = Append(wire, Fresh(f))
           /\ burst => /\ Len(ToSend(f)) = 2 /\ ~encrypted /\ idx + 1 \in DOMAIN saved
                       /\ wire \o Sealed(ToSend(f)) = Append(Append(wire, Again), Fresh(f))
                       /\ SubSeq(Sealed(ToSend(f)), 1, 1) = <<Again>>
           /\ Len(ToSend(f)) = Len(Sealed(ToSend(f)))
           /\ SubSeq(Sealed(ToSend(f)), 1, 0) = <<>>
           /\ Clocked(ToSend(f)) = rtpTime
<1> DEFINE ps == ToSend(f)
<1>1. /\ IsSeq(wire) /\ encrypted \in BOOLEAN /\ burst \in BOOLEAN
      /\ rtpTime \in 0..(RtpWrap - 1) /\ clock \in 0..(RtpWrap - 1) /\ idx \in 0..(Depth - 1)
      /\ Len(saved) = (IF burst THEN Depth ELSE idx) /\ IsSeq(saved)
      /\ encrypted => ~burst
  BY DEF AInv, Shapes, Buffered
<1>2. New(f).rtp = rtpTime  BY DEF New
<1>3. Advanced(clock, rtpTime) = rtpTime  BY <1>1, MovesOn DEF AInv, Clocks
<1>4. CASE ~burst
  <2>1. ps = <<New(f)>>  BY <1>4 DEF ToSend, Older
  <2>2. Sealed(ps) = <<Fresh(f)>>  BY <2>1 DEF Sealed, Fresh, New
  <2>3. Clocked(ps) = rtpTime  BY <1>2, <1>3, <2>1 DEF Clocked
  <2>4. wire \o Sealed(ps) = Append(wire, Fresh(f))  BY <1>1, <2>2, OneMore
  <2>5. SubSeq(Sealed(ps), 1, 0) = <<>>  BY SubSeqEmpty
  <2> QED  BY <1>4, <2>1, <2>2, <2>3, <2>4, <2>5
<1>5. CASE burst
  <2> DEFINE o == saved[idx + 1]
  <2>1. ~encrypted /\ idx + 1 \in DOMAIN saved  BY <1>1, <1>5, SeqFacts
  <2>2. ps = <<o, New(f)>>
    <3>1. ps = Older \o <<New(f)>> /\ Older = <<o>>  BY <1>5, <2>1 DEF ToSend, Older
    <3> QED  BY <3>1, Pair
  <2>3. Sealed(ps) = <<Again, Fresh(f)>>  BY <2>1, <2>2 DEF Sealed, Fresh, New, Again
  <2>4. o.rtp \in 0..(RtpWrap - 1)  BY <2>1 DEF AInv, Shapes
  <2>5. Age(idx + 1) = Depth
    <3>1. ~(idx + 1 <= idx) /\ ((idx + 1) - (idx + 1)) + Depth = Depth  BY <1>1
    <3> QED  BY <3>1 DEF Age
  <2>6. (o.rtp + Depth * FrameLen) % RtpWrap = rtpTime  BY <2>1, <2>5 DEF AInv, Buffered
  <2>7. (clock + FrameLen) % RtpWrap = rtpTime
    <3>1. saved # <<>>  BY <1>1, <1>5, SeqFacts
    <3> QED  BY <3>1 DEF AInv, Clocks
  <2>8. Advanced(clock, o.rtp) = clock  BY <1>1, <2>4, <2>6, <2>7, StaysPut
  <2>9. ps[1].rtp = o.rtp /\ ps[2].rtp = rtpTime /\ Len(ps) = 2  BY <1>2, <2>2
  <2>10. Clocked(ps) = rtpTime  BY <1>3, <2>8, <2>9 DEF Clocked
  <2>11. wire \o Sealed(ps) = Append(Append(wire, Again), Fresh(f))  BY <1>1, <2>3, TwoMore
  <2>12. SubSeq(Sealed(ps), 1, 0) = <<>> /\ SubSeq(Sealed(ps), 1, 1) = <<Again>>
    <3>1. SubSeq(Sealed(ps), 1, 0) = <<>>  BY SubSeqEmpty
    <3>2. SubSeq(Sealed(ps), 1, 1) = <<Again>>  BY <2>3, Pair
    <3> QED  BY <3>1, <3>2
  <2>13. Len(Sealed(ps)) = 2  BY <2>3
  <2> QED  BY <1>5, <2>1, <2>9, <2>10, <2>11, <2>12, <2>13
<1> QED  BY <1>1, <1>4, <1>5

\* What is sent again is on the wire already.
LEMMA Repeats ==
    ASSUME AInv, burst
    PROVE  /\ IsRtp(Again)
           /\ \E i \in DOMAIN wire : IsRtp(wire[i]) /\ wire[i].frame = Again.frame
<1>1. idx + 1 \in DOMAIN saved
  BY SeqFacts DEF AInv, Buffered, Shapes
<1>2. Again.kind = "rtp" /\ Again.frame = saved[idx + 1].frame  BY DEF Again, Packet
<1> QED  BY <1>1, <1>2 DEF IsRtp, AInv, Buffered

\* A send that fails leaves at most the packet sent again.
LEMMA FailureKeeps ==
    ASSUME AInv, channel # <<>>, channel' = Tail(channel), pc' = "drop",
           pc = "recv",
           wire' = wire \/ (burst /\ wire' = Append(wire, Again)),
           UNCHANGED <<queue, heard, out, first, fresh, encrypted, rtpTime, clock, seq, counter,
                       saved, idx, burst>>
    PROVE  AInv'
<1> DEFINE n == Len(wire)
<1>1. n \in Nat /\ DOMAIN wire = 1..n /\ IsSeq(wire)  BY SeqFacts DEF AInv, Shapes
<1>2. /\ IsSeq(wire') /\ n <= Len(wire')
      /\ \A i \in DOMAIN wire : i \in DOMAIN wire' /\ wire'[i] = wire[i]
      /\ \A i \in DOMAIN wire' : i \in DOMAIN wire \/ (burst /\ i = n + 1 /\ wire'[i] = Again)
  <2>1. CASE wire' = wire  BY <1>1, <2>1
  <2>2. CASE burst /\ wire' = Append(wire, Again)
    <3>1. /\ IsSeq(wire') /\ Len(wire') = n + 1 /\ wire'[n + 1] = Again
          /\ \A i \in DOMAIN wire : wire'[i] = wire[i]
      BY <1>1, <2>2, Appended
    <3>2. DOMAIN wire' = 1..(n + 1)  BY <3>1, SeqFacts
    <3> QED  BY <1>1, <2>2, <3>1, <3>2
  <2> QED  BY <2>1, <2>2
<1>3. \A i \in DOMAIN wire' : n < i => ~IsNew(i)'
  <2> SUFFICES ASSUME NEW i \in DOMAIN wire', n < i  PROVE ~IsNew(i)'  OBVIOUS
  <2>1. burst /\ i = n + 1 /\ wire'[i] = Again  BY <1>1, <1>2
  <2>2. PICK j \in DOMAIN wire : IsRtp(wire[j]) /\ wire[j].frame = Again.frame  BY <2>1, Repeats
  <2>3. j \in 1..(i - 1) /\ wire'[j] = wire[j]  BY <1>1, <1>2, <2>1
  <2> QED  BY <2>1, <2>2, <2>3 DEF IsNew
<1>4. StreamIsGapless'  BY <1>1, <1>2, <1>3, Quiet DEF AInv
<1>5. Cut' /\ IsSeq(channel') /\ Pos \in Int /\ Pos' = Pos + FrameLen  BY Taken DEF AInv
<1>6. Shapes'  BY <1>2, <1>5 DEF AInv, Shapes
<1>7. Begun'
  <2>1. first  BY DEF AInv, Begun
  <2> QED  BY <2>1 DEF AInv, Begun
<1>8. Heard'
  <2> SUFFICES ASSUME NEW i \in DOMAIN wire', IsRtp(wire'[i])
               PROVE  wire'[i].frame[1] \in (fresh + 1)..Pos'
    BY DEF Heard
  <2>1. PICK j \in DOMAIN wire : IsRtp(wire[j]) /\ wire[j].frame = wire'[i].frame  BY <1>2, Repeats
  <2>2. wire[j].frame[1] \in (fresh + 1)..Pos  BY <2>1 DEF AInv, Heard
  <2>3. fresh \in Int  BY DEF AInv, Shapes
  <2> QED  BY <1>5, <2>1, <2>2, <2>3
<1>9. Newest'  BY DEF Newest, Streaming
<1>10. Buffered'
  <2>1. \A s \in DOMAIN saved' : \E i \in DOMAIN wire' : IsRtp(wire'[i]) /\ wire'[i].frame = saved'[s].frame
    BY <1>2 DEF AInv, Buffered
  <2> QED  BY <2>1 DEF AInv, Buffered, Age
<1>11. Clocks'  BY DEF AInv, Clocks, Streaming
<1>12. SyncTracksNewest'
  <2> SUFFICES ASSUME NEW i \in DOMAIN wire', wire'[i].kind = "sync", i > 1, wire'[i - 1].kind = "rtp"
               PROVE  wire'[i].rtp = wire'[i - 1].rtp
    BY DEF SyncTracksNewest
  <2>1. i \in DOMAIN wire /\ wire'[i] = wire[i]  BY <1>2, Repeats DEF IsRtp
  <2>2. i - 1 \in DOMAIN wire  BY <1>1, <2>1
  <2> QED  BY <1>2, <2>1, <2>2 DEF AInv, SyncTracksNewest
<1> QED  BY <1>4, <1>5, <1>6, <1>7, <1>8, <1>9, <1>10, <1>11, <1>12 DEF AInv

\* The frame takes its place: those kept are one frame older.
LEMMA KeepFacts ==
    ASSUME Shapes, Buffered, NEW f, Keep(f), rtpTime' = (rtpTime + FrameLen) % RtpWrap,
           encrypted' = encrypted
    PROVE  /\ IsSeq(saved') /\ burst' \in BOOLEAN /\ idx' \in 0..(Depth - 1)
           /\ Len(saved') = IF burst' THEN Depth ELSE idx'
           /\ encrypted => saved' = <<>> /\ ~burst'
           /\ \A s \in DOMAIN saved' : saved'[s].rtp \in 0..(RtpWrap - 1)
           /\ \A s \in DOMAIN saved' : (saved'[s].rtp + Age(s)' * FrameLen) % RtpWrap = rtpTime'
           /\ \A s \in DOMAIN saved' : saved'[s] = New(f) \/ (s \in DOMAIN saved /\ saved'[s] = saved[s])
<1>1. /\ IsSeq(saved) /\ idx \in 0..(Depth - 1) /\ burst \in BOOLEAN /\ encrypted \in BOOLEAN
      /\ Len(saved) = (IF burst THEN Depth ELSE idx) /\ DOMAIN saved = 1..Len(saved)
      /\ rtpTime \in 0..(RtpWrap - 1)
  BY SeqFacts DEF Shapes, Buffered
<1>2. CASE encrypted
  <2>1. saved = <<>> /\ ~burst /\ UNCHANGED <<saved, idx, burst>>  BY <1>2 DEF Keep, Buffered
  <2>2. DOMAIN saved' = {}  BY <1>1, <2>1
  <2> QED  BY <1>1, <1>2, <2>1, <2>2
<1>3. CASE ~encrypted
  <2> DEFINE m == Len(saved')
  <2>1. /\ saved' = IF burst THEN [saved EXCEPT ![idx + 1] = New(f)] ELSE Append(saved, New(f))
        /\ idx' = (idx + 1) % Depth /\ burst' = (burst \/ idx + 1 >= Depth)
    BY <1>3 DEF Keep
  <2>2. idx' = IF idx + 1 = Depth THEN 0 ELSE idx + 1
    BY <1>1, <2>1
  <2>3. /\ IsSeq(saved') /\ m = (IF burst THEN Depth ELSE idx + 1)
        /\ saved'[idx + 1] = New(f)
        /\ \A s \in DOMAIN saved' : s # idx + 1 => s \in DOMAIN saved /\ saved'[s] = saved[s]
    <3>1. CASE burst
      <4>1. idx + 1 \in DOMAIN saved  BY <1>1, <3>1
      <4>2. saved' = [saved EXCEPT ![idx + 1] = New(f)]  BY <2>1, <3>1
      <4> QED  BY <1>1, <3>1, <4>1, <4>2, Replaced
    <3>2. CASE ~burst
      <4>1. saved' = Append(saved, New(f)) /\ Len(saved) = idx  BY <1>1, <2>1, <3>2
      <4>2. IsSeq(saved') /\ m = idx + 1 /\ saved'[idx + 1] = New(f)
            /\ \A s \in DOMAIN saved : saved'[s] = saved[s]
        BY <1>1, <4>1, Appended
      <4>3. DOMAIN saved' = 1..(idx + 1)  BY <4>2, SeqFacts
      <4> QED  BY <1>1, <3>2, <4>1, <4>2, <4>3
    <3> QED  BY <1>1, <3>1, <3>2
  <2>4. DOMAIN saved' = 1..m  BY <2>3, SeqFacts
  <2>5. burst' \in BOOLEAN /\ idx' \in 0..(Depth - 1) /\ m = (IF burst' THEN Depth ELSE idx')
    <3>1. burst' \in BOOLEAN  BY <1>1, <2>1
    <3>2. idx' \in 0..(Depth - 1)  BY <1>1, <2>2
    <3>3. CASE burst
      <4>1. burst' /\ m = Depth  BY <2>1, <2>3, <3>3
      <4> QED  BY <3>1, <3>2, <4>1
    <3>4. CASE ~burst
      <4>1. m = idx + 1  BY <2>3, <3>4
      <4>2. CASE idx + 1 = Depth
        <5>1. idx + 1 >= Depth  BY <1>1, <4>2
        <5>2. burst'  BY <2>1, <5>1
        <5> QED  BY <3>1, <3>2, <4>1, <4>2, <5>2
      <4>3. CASE idx + 1 # Depth
        <5>1. ~(idx + 1 >= Depth) /\ idx' = idx + 1  BY <1>1, <2>2, <4>3
        <5>2. ~burst'  BY <2>1, <3>4, <5>1
        <5> QED  BY <3>1, <3>2, <4>1, <5>1, <5>2
      <4> QED  BY <4>2, <4>3
    <3> QED  BY <3>3, <3>4
  <2>6. New(f).rtp = rtpTime  BY DEF New
  <2>7. \A s \in DOMAIN saved' : saved'[s].rtp \in 0..(RtpWrap - 1)
    BY <1>1, <2>3, <2>6 DEF Shapes
  <2>8. ASSUME NEW s \in DOMAIN saved'
        PROVE  (saved'[s].rtp + Age(s)' * FrameLen) % RtpWrap = rtpTime'
    <3>1. s \in 1..m /\ m <= Depth  BY <1>1, <2>3, <2>4
    <3>2. Age(s)' = IF s <= idx' THEN (idx' + 1) - s ELSE ((idx' + 1) - s) + Depth  BY DEF Age
    <3>3. CASE s = idx + 1
      <4>1. Age(s)' = 1  BY <1>1, <2>2, <3>1, <3>2, <3>3
      <4>2. 1 * FrameLen = FrameLen  OBVIOUS
      <4> QED  BY <2>3, <2>6, <3>3, <4>1, <4>2
    <3>4. CASE s # idx + 1
      <4>1. s \in DOMAIN saved /\ saved'[s] = saved[s]  BY <2>3, <3>4
      <4>2. s \in 1..Len(saved)  BY <1>1, <4>1
      <4>3. Age(s) \in Nat /\ Age(s)' = Age(s) + 1
        <5>1. Age(s) = IF s <= idx THEN (idx + 1) - s ELSE ((idx + 1) - s) + Depth  BY DEF Age
        <5>2. idx \in 0..(Depth - 1) /\ s \in Int  BY <1>1, <3>1
        <5>3. s <= Depth /\ 1 <= s  BY <3>1, <1>1
        <5>4. CASE idx + 1 = Depth
          <6>1. idx' = 0  BY <2>2, <5>4
          <6> QED  BY <3>2, <3>4, <5>1, <5>2, <5>3, <5>4, <6>1
        <5>5. CASE idx + 1 # Depth
          <6>1. idx' = idx + 1  BY <2>2, <5>5
          <6> QED  BY <3>2, <3>4, <5>1, <5>2, <5>3, <5>5, <6>1
        <5> QED  BY <5>4, <5>5
      <4> DEFINE a == Age(s)
                 r == saved[s].rtp
      <4>4. (r + a * FrameLen) % RtpWrap = rtpTime /\ r \in 0..(RtpWrap - 1)
        BY <4>1 DEF Buffered, Shapes
      <4>5. a \in Nat  BY <4>3
      <4> HIDE DEF a, r
      <4>6. a * FrameLen \in Nat /\ (a + 1) * FrameLen = a * FrameLen + FrameLen  BY <4>5
      <4>7. r + a * FrameLen \in Nat  BY <4>4, <4>6
      <4>8. (((r + a * FrameLen) % RtpWrap) + FrameLen) % RtpWrap
              = ((r + a * FrameLen) + FrameLen) % RtpWrap
        BY <4>7, AddedAfter
      <4>9. (r + a * FrameLen) + FrameLen = r + (a + 1) * FrameLen  BY <4>4, <4>6
      <4>10. (r + (a + 1) * FrameLen) % RtpWrap = rtpTime'  BY <4>4, <4>8, <4>9
      <4>11. saved'[s].rtp = r /\ Age(s)' = a + 1  BY <4>1, <4>3 DEF a, r
      <4> QED  BY <4>10, <4>11
    <3> QED  BY <3>3, <3>4
  <2>9. ASSUME NEW s \in DOMAIN saved'
        PROVE  saved'[s] = New(f) \/ (s \in DOMAIN saved /\ saved'[s] = saved[s])
    <3>1. CASE s = idx + 1  BY <2>3, <3>1
    <3>2. CASE s # idx + 1  BY <2>3, <3>2
    <3> QED  BY <3>1, <3>2
  <2> QED  BY <1>3, <2>3, <2>5, <2>7, <2>8, <2>9
<1> QED  BY <1>1, <1>2, <1>3

\* What goes out is the frame, which is new, after one packet that is not.
LEMMA Sent ==
    ASSUME AInv, channel # <<>>, channel' = Tail(channel), UNCHANGED <<heard, out>>,
           ~burst => wire' = Append(wire, Fresh(Head(channel))),
           burst => wire' = Append(Append(wire, Again), Fresh(Head(channel)))
    PROVE  \E n, m \in Nat :
              /\ n = Len(wire) /\ m = Len(wire') /\ m = IF burst THEN n + 2 ELSE n + 1
              /\ IsSeq(wire') /\ wire'[m] = Fresh(Head(channel))
              /\ \A i \in DOMAIN wire : wire'[i] = wire[i]
              /\ m = n + 2 => burst /\ wire'[n + 1] = Again
              /\ IsNew(m)' /\ \A i \in DOMAIN wire : IsNew(i)' = IsNew(i)
              /\ \A i \in DOMAIN wire' : IsNew(i)' /\ i # m => i \in DOMAIN wire /\ IsNew(i)
<1> DEFINE n == Len(wire)
           f == Head(channel)
           q == Fresh(f)
<1>1. n \in Nat /\ DOMAIN wire = 1..n /\ IsSeq(wire)  BY SeqFacts DEF AInv, Shapes
<1>2. IsSeq(wire')
  <2>1. IsSeq(Append(wire, q))  BY <1>1, Appended
  <2>2. IsSeq(Append(wire, Again))  BY <1>1, Appended
  <2>3. IsSeq(Append(Append(wire, Again), q))  BY <2>2, Appended
  <2> QED  BY <2>1, <2>3
<1>3. PICK m \in Nat : m = Len(wire')  BY <1>2, SeqFacts
<1>4. /\ IsSeq(wire') /\ m \in {n + 1, n + 2} /\ wire'[m] = q /\ m = IF burst THEN n + 2 ELSE n + 1
      /\ \A i \in DOMAIN wire : wire'[i] = wire[i]
      /\ m = n + 2 => burst /\ wire'[n + 1] = Again
  <2>1. CASE ~burst
    <3>1. wire' = Append(wire, q)  BY <2>1
    <3> QED  BY <1>1, <1>3, <2>1, <3>1, Appended
  <2>2. CASE burst
    <3> DEFINE w == Append(wire, Again)
    <3>1. /\ IsSeq(w) /\ Len(w) = n + 1 /\ w[n + 1] = Again /\ \A i \in DOMAIN wire : w[i] = wire[i]
      BY <1>1, Appended
    <3>2. DOMAIN w = 1..(n + 1)  BY <3>1, SeqFacts
    <3>3. wire' = Append(w, q)  BY <2>2
    <3> HIDE DEF w, q
    <3>4. /\ IsSeq(wire') /\ m = (n + 1) + 1 /\ wire'[(n + 1) + 1] = q
          /\ \A i \in DOMAIN w : wire'[i] = w[i]
      BY <1>3, <3>1, <3>3, Appended
    <3>5. (n + 1) + 1 = n + 2  BY <1>1
    <3>6. \A i \in DOMAIN wire : i \in DOMAIN w  BY <1>1, <3>2
    <3>7. n + 1 \in DOMAIN w  BY <1>1, <3>2
    <3> QED  BY <2>2, <3>1, <3>4, <3>5, <3>6, <3>7
  <2> QED  BY <2>1, <2>2
<1>5. DOMAIN wire' = 1..m /\ m \in Nat /\ m > n  BY <1>1, <1>4, <1>3, SeqFacts
<1>6. n = Len(wire) /\ m = Len(wire')  BY <1>3
<1> HIDE DEF n
<1>7. /\ Cut' /\ IsSeq(channel') /\ Pos \in Int /\ Pos' = Pos + FrameLen
      /\ \A c \in 1..FrameLen : f[c] = Pos + c
  BY Taken DEF AInv
<1>8. /\ IsRtp(q) /\ q.frame = f /\ q.seq = seq /\ q.rtp = rtpTime
      /\ encrypted => q.nonce = counter
  BY DEF Fresh, Packet, IsRtp
<1>9. q.frame[1] = Pos + 1  BY <1>7, <1>8, SizesArePositive
<1> HIDE DEF q, f
<1>10. \A i \in DOMAIN wire' : i \in DOMAIN wire \/ i = m \/ (m = n + 2 /\ i = n + 1)
  BY <1>1, <1>4, <1>5
\* What stands before the new packet was on the wire.
<1>11. ASSUME NEW i \in DOMAIN wire', i # m, IsRtp(wire'[i])
      PROVE  \E j \in DOMAIN wire : IsRtp(wire[j]) /\ wire[j].frame = wire'[i].frame
  <2>1. CASE i \in DOMAIN wire  BY <1>4, <1>11, <2>1
  <2>2. CASE m = n + 2 /\ i = n + 1
    <3>1. burst /\ wire'[i] = Again  BY <1>4, <2>2
    <3> QED  BY <3>1, Repeats
  <2> QED  BY <1>10, <1>11, <2>1, <2>2
<1>12. fresh \in Int  BY DEF AInv, Shapes
<1>13. IsNew(m)'
  <2>1. ASSUME NEW i \in 1..(m - 1), IsRtp(wire'[i]), wire'[i].frame = q.frame  PROVE FALSE
    <3>1. i \in DOMAIN wire' /\ i # m  BY <1>5
    <3>2. PICK j \in DOMAIN wire : IsRtp(wire[j]) /\ wire[j].frame = q.frame  BY <2>1, <3>1, <1>11
    <3>3. q.frame[1] \in (fresh + 1)..Pos  BY <3>2 DEF AInv, Heard
    <3> QED  BY <3>3, <1>7, <1>9, <1>12
  <2> QED  BY <2>1, <1>4, <1>8 DEF IsNew
<1>14. \A i \in DOMAIN wire : IsNew(i)' = IsNew(i)
  <2>1. n <= m  BY <1>1, <1>5
  <2> QED  BY <1>1, <1>4, <1>6, <2>1, Prefix
<1>15. ASSUME NEW i \in DOMAIN wire', IsNew(i)', i # m  PROVE i \in DOMAIN wire /\ IsNew(i)
  <2>1. CASE m = n + 2 /\ i = n + 1
    <3>1. burst /\ wire'[i] = Again  BY <1>4, <2>1
    <3>2. PICK j \in DOMAIN wire : IsRtp(wire[j]) /\ wire[j].frame = wire'[i].frame  BY <3>1, Repeats
    <3>3. j \in 1..(i - 1) /\ wire'[j] = wire[j]  BY <1>1, <1>4, <2>1
    <3> QED  BY <1>15, <3>2, <3>3 DEF IsNew
  <2> QED  BY <1>10, <1>14, <1>15, <2>1
<1>16. Fresh(Head(channel)) = q  BY DEF f, q
<1> QED  BY <1>1, <1>4, <1>5, <1>6, <1>13, <1>14, <1>15, <1>16

\* A frame that is sent is the next new one, right after the last.
LEMMA SuccessKeeps ==
    ASSUME AInv, pc = "recv", channel # <<>>, channel' = Tail(channel), pc' = "loop",
           ~burst => wire' = Append(wire, Fresh(Head(channel))),
           burst => wire' = Append(Append(wire, Again), Fresh(Head(channel))),
           clock' = rtpTime, counter' = IF encrypted THEN counter + 1 ELSE counter,
           Keep(Head(channel)), seq' = (seq + 1) % SeqWrap, rtpTime' = (rtpTime + FrameLen) % RtpWrap,
           UNCHANGED <<queue, heard, out, first, fresh, encrypted>>
    PROVE  AInv'
<1> DEFINE f == Head(channel)
           q == Fresh(f)
<1>1. PICK n \in Nat, m \in Nat :
         /\ n = Len(wire) /\ m = Len(wire') /\ m = IF burst THEN n + 2 ELSE n + 1
         /\ IsSeq(wire') /\ wire'[m] = q
         /\ \A i \in DOMAIN wire : wire'[i] = wire[i]
         /\ m = n + 2 => burst /\ wire'[n + 1] = Again
         /\ IsNew(m)' /\ \A i \in DOMAIN wire : IsNew(i)' = IsNew(i)
         /\ \A i \in DOMAIN wire' : IsNew(i)' /\ i # m => i \in DOMAIN wire /\ IsNew(i)
  BY Sent
<1>2. DOMAIN wire = 1..n /\ IsSeq(wire)  BY <1>1, SeqFacts DEF AInv, Shapes
<1>3. m \in {n + 1, n + 2}  BY <1>1
<1>4. DOMAIN wire' = 1..m /\ m > n  BY <1>1, <1>3, SeqFacts
<1>5. /\ Cut' /\ IsSeq(channel') /\ Pos \in Int /\ Pos' = Pos + FrameLen
      /\ \A c \in 1..FrameLen : f[c] = Pos + c
  BY Taken DEF AInv
<1>6. /\ IsRtp(q) /\ q.frame = f /\ q.seq = seq /\ q.rtp = rtpTime
      /\ encrypted => q.nonce = counter
  BY DEF Fresh, Packet, IsRtp
<1>7. q.frame[1] = Pos + 1  BY <1>5, <1>6, SizesArePositive
<1> HIDE DEF q, f
<1>8. \A i \in DOMAIN wire' : i \in DOMAIN wire \/ i = m \/ (m = n + 2 /\ i = n + 1)
  BY <1>1, <1>4
\* What stands before the new packet was on the wire.
<1>9. ASSUME NEW i \in DOMAIN wire', i # m, IsRtp(wire'[i])
      PROVE  \E j \in DOMAIN wire : IsRtp(wire[j]) /\ wire[j].frame = wire'[i].frame
  <2>1. CASE i \in DOMAIN wire  BY <1>1, <1>9, <2>1
  <2>2. CASE m = n + 2 /\ i = n + 1
    <3>1. burst /\ wire'[i] = Again  BY <1>1, <2>2
    <3> QED  BY <3>1, Repeats
  <2> QED  BY <1>8, <1>9, <2>1, <2>2
<1>10. fresh \in Int  BY DEF AInv, Shapes
<1>11. m \in DOMAIN wire'  BY <1>1, <1>4
<1>12. Newest
  BY DEF AInv
<1>13. StreamIsGapless'
  <2> SUFFICES ASSUME NEW i \in DOMAIN wire', NEW j \in DOMAIN wire', NextNew(i, j)'
               PROVE  /\ \A c \in 1..FrameLen : wire'[j].frame[c] = wire'[i].frame[c] + FrameLen
                      /\ wire'[j].seq = (wire'[i].seq + 1) % SeqWrap
                      /\ wire'[j].rtp = (wire'[i].rtp + FrameLen) % RtpWrap
                      /\ encrypted => wire'[j].nonce = wire'[i].nonce + 1
    BY DEF StreamIsGapless
  <2>1. i < j /\ IsNew(i)' /\ IsNew(j)' /\ \A k \in (i + 1)..(j - 1) : ~IsNew(k)'  BY DEF NextNew
  <2>2. i # m  BY <2>1, <1>4
  <2>3. i \in DOMAIN wire /\ IsNew(i) /\ wire'[i] = wire[i]  BY <2>1, <2>2, <1>1
  <2>4. CASE j # m
    <3>1. j \in DOMAIN wire /\ IsNew(j) /\ wire'[j] = wire[j]  BY <2>1, <2>4, <1>1
    <3>2. \A k \in (i + 1)..(j - 1) : k \in DOMAIN wire  BY <1>1, <1>2, <2>3, <3>1
    <3>3. NextNew(i, j)  BY <1>1, <2>1, <2>3, <3>1, <3>2 DEF NextNew
    <3> QED  BY <2>3, <3>1, <3>3 DEF AInv, StreamIsGapless
  <2>5. CASE j = m
    <3>1. \A k \in (i + 1)..n : k \in (i + 1)..(j - 1) /\ k \in DOMAIN wire
      BY <1>1, <1>2, <1>4, <2>3, <2>5
    <3>2. LastNew(i)  BY <1>1, <2>1, <2>3, <3>1 DEF LastNew
    <3>3. /\ \A c \in 1..FrameLen : wire[i].frame[c] = Pos - FrameLen + c
          /\ seq = (wire[i].seq + 1) % SeqWrap
          /\ rtpTime = (wire[i].rtp + FrameLen) % RtpWrap
          /\ encrypted => counter = wire[i].nonce + 1
      BY <1>12, <2>3, <3>2 DEF Newest, Streaming
    <3>4. ASSUME NEW c \in 1..FrameLen  PROVE q.frame[c] = wire[i].frame[c] + FrameLen
      <4>1. q.frame[c] = Pos + c  BY <1>5, <1>6
      <4>2. wire[i].frame[c] = (Pos - FrameLen) + c  BY <3>3
      <4> QED  BY <4>1, <4>2, <1>5
    <3> QED  BY <1>1, <1>6, <2>3, <2>5, <3>3, <3>4
  <2> QED  BY <2>4, <2>5
<1>14. Newest'
  <2> SUFFICES ASSUME NEW i \in DOMAIN wire', LastNew(i)'
               PROVE  /\ \A c \in 1..FrameLen : wire'[i].frame[c] = Pos' - FrameLen + c
                      /\ seq' = (wire'[i].seq + 1) % SeqWrap
                      /\ rtpTime' = (wire'[i].rtp + FrameLen) % RtpWrap
                      /\ encrypted => counter' = wire'[i].nonce + 1
    BY DEF Newest
  <2>1. i = m
    <3>1. \A k \in (i + 1)..m : ~IsNew(k)'  BY <1>1 DEF LastNew
    <3>2. i \in 1..m  BY <1>4
    <3>3. IsNew(m)' /\ m \in Nat  BY <1>1
    <3>4. m \notin (i + 1)..m  BY <3>1, <3>3
    <3> QED  BY <3>2, <3>3, <3>4
  <2>2. ASSUME NEW c \in 1..FrameLen  PROVE q.frame[c] = Pos' - FrameLen + c
    <3>1. q.frame[c] = Pos + c  BY <1>5, <1>6
    <3> QED  BY <3>1, <1>5
  <2> QED  BY <1>1, <1>6, <2>1, <2>2
<1>15. /\ IsSeq(saved') /\ burst' \in BOOLEAN /\ idx' \in 0..(Depth - 1)
       /\ Len(saved') = IF burst' THEN Depth ELSE idx'
       /\ encrypted => saved' = <<>> /\ ~burst'
       /\ \A s \in DOMAIN saved' : saved'[s].rtp \in 0..(RtpWrap - 1)
       /\ \A s \in DOMAIN saved' : (saved'[s].rtp + Age(s)' * FrameLen) % RtpWrap = rtpTime'
       /\ \A s \in DOMAIN saved' : saved'[s] = New(f) \/ (s \in DOMAIN saved /\ saved'[s] = saved[s])
  BY KeepFacts DEF AInv, f
<1>16. Buffered'
  <2>1. ASSUME NEW s \in DOMAIN saved'
        PROVE  \E i \in DOMAIN wire' : IsRtp(wire'[i]) /\ wire'[i].frame = saved'[s].frame
    <3>1. CASE saved'[s] = New(f)
      <4>1. saved'[s].frame = f  BY <3>1 DEF New
      <4> QED  BY <4>1, <1>1, <1>6, <1>11
    <3>2. CASE s \in DOMAIN saved /\ saved'[s] = saved[s]
      <4>1. PICK i \in DOMAIN wire : IsRtp(wire[i]) /\ wire[i].frame = saved[s].frame
        BY <3>2 DEF AInv, Buffered
      <4>2. i \in DOMAIN wire' /\ wire'[i] = wire[i]  BY <1>1, <1>2, <1>4
      <4> QED  BY <3>2, <4>1, <4>2
    <3> QED  BY <1>15, <3>1, <3>2
  <2> QED  BY <1>15, <2>1 DEF Buffered
<1>17. Shapes'
  <2>1. rtpTime' \in 0..(RtpWrap - 1)
    <3>1. rtpTime + FrameLen \in Nat  BY DEF AInv, Shapes
    <3> QED  BY <3>1, Divides
  <2> QED  BY <1>1, <1>5, <1>15, <2>1 DEF AInv, Shapes
<1>18. Begun'
  <2>1. first /\ fresh <= Pos /\ fresh <= heard - Len(out)  BY DEF AInv, Begun
  <2> QED  BY <1>5, <1>10, <2>1, SizesArePositive DEF Begun
<1>19. Heard'
  <2> SUFFICES ASSUME NEW i \in DOMAIN wire', IsRtp(wire'[i])
               PROVE  wire'[i].frame[1] \in (fresh + 1)..Pos'
    BY DEF Heard
  <2>1. fresh <= Pos  BY DEF AInv, Begun
  <2>2. CASE i = m
    <3>1. wire'[i].frame[1] = Pos + 1  BY <1>1, <1>7, <2>2
    <3> QED  BY <1>5, <1>10, <2>1, <3>1, SizesArePositive
  <2>3. CASE i # m
    <3>1. PICK j \in DOMAIN wire : IsRtp(wire[j]) /\ wire[j].frame = wire'[i].frame
      BY <1>9, <2>3
    <3>2. wire[j].frame[1] \in (fresh + 1)..Pos  BY <3>1 DEF AInv, Heard
    <3>3. wire'[i].frame[1] \in (fresh + 1)..Pos  BY <3>1, <3>2
    <3>4. \A v \in (fresh + 1)..Pos : v \in (fresh + 1)..Pos'  BY <1>5, <1>10
    <3> QED  BY <3>3, <3>4
  <2> QED  BY <2>2, <2>3
<1>20. Clocks'
  <2>1. (clock' + FrameLen) % RtpWrap = rtpTime'  OBVIOUS
  <2>2. clock' = wire'[m].rtp  BY <1>1, <1>6
  <2> QED  BY <1>1, <2>1, <2>2 DEF Clocks
<1>21. SyncTracksNewest'
  <2> SUFFICES ASSUME NEW i \in DOMAIN wire', wire'[i].kind = "sync", i > 1, wire'[i - 1].kind = "rtp"
               PROVE  wire'[i].rtp = wire'[i - 1].rtp
    BY DEF SyncTracksNewest
  <2>1. i \in DOMAIN wire /\ wire'[i] = wire[i]  BY <1>1, <1>6, <1>8, Repeats DEF IsRtp
  <2>2. i - 1 \in DOMAIN wire
    <3>1. i \in 1..n /\ n \in Nat  BY <1>1, <1>2, <2>1
    <3>2. PICK k \in Int : k = i - 1  BY <3>1
    <3>3. k \in 1..n  BY <3>1, <3>2
    <3> QED  BY <1>2, <3>2, <3>3
  <2> QED  BY <1>1, <2>1, <2>2 DEF AInv, SyncTracksNewest
<1> QED  BY <1>5, <1>13, <1>14, <1>16, <1>17, <1>18, <1>19, <1>20, <1>21 DEF AInv

--------------------------------------------------------------------------------
(* The steps, and the theorems                                             *)

LEMMA CaptureKeeps == ASSUME AInv, Capture PROVE AInv'
<1>1. CASE GetBuffer  BY <1>1, GetKeeps DEF Capture
<1>2. CASE PushFrame  BY <1>2, PushKeeps DEF Capture
<1>3. CASE OpenDevice \/ CheckStop \/ Woken \/ NoPacket \/ ReleaseBuffer
  <2>1. UNCHANGED <<queue, heard, out, channel, first, fresh, pc, encrypted, sendVars>>
    BY <1>3 DEF Capture, OpenDevice, CheckStop, Woken, NoPacket, ReleaseBuffer
  <2>2. Begun'  BY <2>1 DEF AInv, Begun, Pos, sendVars
  <2>3. queue' \in Seq(Packets)  BY <2>1 DEF AInv, Shapes
  <2> QED  BY <2>1, <2>2, <2>3, Idle DEF sendVars, sentVars, Streaming
<1> QED  BY <1>1, <1>2, <1>3 DEF Capture

LEMMA SendKeeps ==
    ASSUME AInv, SendFrame, UNCHANGED <<captureVars, capStop, first, fresh, stop, encrypted>>
    PROVE  AInv'
<1> DEFINE f == Head(channel)
           ps == ToSend(f)
<1> USE DEF captureVars
<1>1. pc = "recv" /\ channel # <<>> /\ channel' = Tail(channel)  BY DEF SendFrame
<1>2. burst \in BOOLEAN  BY DEF AInv, Shapes
<1>3. CASE /\ wire' = wire \o Sealed(ps)
           /\ clock' = Clocked(ps)
           /\ counter' = IF encrypted THEN counter + 1 ELSE counter
           /\ Keep(f)
           /\ seq' = (seq + 1) % SeqWrap /\ rtpTime' = (rtpTime + FrameLen) % RtpWrap
           /\ pc' = "loop" /\ UNCHANGED faults
  <2>1. clock' = rtpTime  BY <1>3, SendFacts
  <2>2. /\ ~burst => wire' = Append(wire, Fresh(f))
        /\ burst => wire' = Append(Append(wire, Again), Fresh(f))
    BY <1>3, SendFacts
  <2> QED  BY <1>1, <1>3, <2>1, <2>2, SuccessKeeps
<1>4. ASSUME NEW sent \in 0..(Len(ps) - 1), wire' = wire \o SubSeq(Sealed(ps), 1, sent),
             pc' = "drop", UNCHANGED <<rtpTime, clock, seq, counter, saved, idx, burst>>
      PROVE  AInv'
  <2>1. wire' = wire \/ (burst /\ wire' = Append(wire, Again))
    <3>1. IsSeq(wire) /\ \A S : wire \in Seq(S) => wire \o <<>> = wire
      BY ConcatEmptySeq DEF AInv, Shapes
    <3>2. wire \o <<>> = wire  BY <3>1 DEF IsSeq
    <3>3. CASE sent = 0  BY <1>4, <3>2, <3>3, SendFacts
    <3>4. CASE sent # 0
      <4>1. burst /\ Len(ps) = 2  BY <1>2, <3>4, SendFacts
      <4>2. SubSeq(Sealed(ps), 1, 1) = <<Again>>  BY <4>1, SendFacts
      <4>3. sent \in 0..(Len(ps) - 1)  OBVIOUS
      <4> HIDE DEF ps
      <4>4. sent = 1  BY <3>4, <4>1, <4>3
      <4>5. wire' = wire \o <<Again>>  BY <1>4, <4>4, <4>2
      <4> QED  BY <3>1, <4>1, <4>5, OneMore
    <3> QED  BY <3>3, <3>4
  <2> QED  BY <1>1, <1>4, <2>1, FailureKeeps
<1> QED  BY <1>3, <1>4 DEF SendFrame

LEMMA RunKeeps == ASSUME AInv, RunAudio PROVE AInv'
<1> USE DEF captureVars
<1>1. UNCHANGED <<queue, heard, out, first, fresh, encrypted>>  BY DEF RunAudio
<1>2. queue' \in Seq(Packets)  BY <1>1 DEF AInv, Shapes
<1>3. CASE Poll
  <2>1. Begun'  BY <1>1, <1>3 DEF Poll, AInv, Begun, sendVars
  <2>2. pc' \in {"drop", "drain"}  BY <1>3 DEF Poll
  <2> QED  BY <1>1, <1>2, <1>3, <2>1, <2>2, Idle DEF Poll, Streaming, sendVars, sentVars
<1>4. CASE Drain
  <2>1. CASE channel # <<>>
    <3>1. pc = "drain" /\ pc' = "drain" /\ channel' = Tail(channel) /\ UNCHANGED sendVars
      BY <1>4, <2>1 DEF Drain
    <3>2. Cut' /\ IsSeq(channel')  BY <1>1, <2>1, <3>1, Taken DEF AInv
    <3>3. wire = <<>> /\ wire' = <<>> /\ IsSeq(wire')  BY <3>1 DEF AInv, Shapes, Begun, sendVars
    <3>4. DOMAIN wire = {} /\ DOMAIN wire' = {}  BY <3>3
    <3>5. Shapes'  BY <1>1, <1>2, <3>1, <3>2 DEF AInv, Shapes, sendVars
    <3>6. Begun'  BY <1>1, <3>1, <3>3 DEF AInv, Begun
    <3>7. Heard' /\ StreamIsGapless' /\ SyncTracksNewest'
      BY <3>4 DEF Heard, StreamIsGapless, SyncTracksNewest
    <3>8. Newest'  BY <3>1 DEF Newest, Streaming
    <3>9. Buffered' /\ Clocks'  BY <1>1, <3>1 DEF AInv, Buffered, Clocks, Age, Streaming, sendVars
    <3> QED  BY <3>2, <3>5, <3>6, <3>7, <3>8, <3>9 DEF AInv
  <2>2. CASE channel = <<>>
    <3>1. pc = "drain" /\ pc' = "announce" /\ channel' = channel /\ UNCHANGED sendVars
      BY <1>4, <2>2 DEF Drain
    <3>2. Len(channel) = 0 /\ Len(out) \in Nat /\ heard \in Nat /\ fresh \in Int
      BY <2>2, SeqFacts DEF AInv, Shapes
    <3>3. 0 * FrameLen = 0  OBVIOUS
    <3>4. Pos = heard - Len(out)  BY <3>2, <3>3 DEF Pos
    <3>5. fresh <= Pos  BY <3>4 DEF AInv, Begun
    <3>6. Pos' = Pos  BY <1>1, <3>1 DEF Pos
    <3>7. Begun'  BY <1>1, <3>1, <3>5, <3>6 DEF AInv, Begun, sendVars
    <3> QED  BY <1>1, <1>2, <3>1, <3>7, Idle DEF Streaming, sendVars, sentVars
  <2> QED  BY <2>1, <2>2
<1>5. CASE Announce
  <2>1. pc = "announce" /\ UNCHANGED <<channel, rtpTime, clock, seq, counter, saved, idx, burst>>
    BY <1>5 DEF Announce
  <2>2. CASE wire' = Append(wire, Sync) /\ pc' = "loop" /\ UNCHANGED faults
    BY <1>1, <2>1, <2>2, Synced DEF Streaming
  <2>3. CASE pc' = "drop" /\ UNCHANGED wire /\ Fails
    <3>1. first  BY <2>1 DEF AInv, Begun
    <3>2. Begun'  BY <1>1, <2>3, <3>1 DEF AInv, Begun
    <3> QED  BY <1>1, <1>2, <2>1, <2>3, <3>2, Idle DEF Streaming, sentVars
  <2> QED  BY <1>5, <2>2, <2>3 DEF Announce, SendSync
<1>6. CASE LoopHead
  <2>1. pc = "loop" /\ UNCHANGED <<channel, rtpTime, clock, seq, counter, saved, idx, burst>>
    BY <1>6 DEF LoopHead
  <2>2. CASE wire' = Append(wire, Sync) /\ pc' = "recv" /\ UNCHANGED faults
    BY <1>1, <2>1, <2>2, Synced DEF Streaming
  <2>3. CASE pc' \in {"drop", "recv"} /\ UNCHANGED wire
    <3>1. Pos' = Pos  BY <1>1, <2>1 DEF Pos
    <3>2. Begun'  BY <1>1, <2>1, <2>3, <3>1 DEF AInv, Begun
    <3> QED  BY <1>1, <1>2, <2>1, <2>3, <3>2, Idle DEF Streaming, sentVars
  <2> QED  BY <1>6, <2>2, <2>3 DEF LoopHead, SendSync
<1>7. CASE SendFrame  BY <1>7, SendKeeps DEF RunAudio
<1>8. CASE CaptureGone
  <2>1. pc = "recv" /\ pc' = "drop" /\ UNCHANGED <<channel, sendVars>>  BY <1>8 DEF CaptureGone
  <2>2. first  BY <2>1 DEF AInv, Begun
  <2>3. Begun'  BY <1>1, <2>1, <2>2 DEF AInv, Begun, sendVars
  <2> QED  BY <1>1, <1>2, <2>1, <2>3, Idle DEF Streaming, sendVars, sentVars
<1> QED  BY <1>3, <1>4, <1>5, <1>6, <1>7, <1>8 DEF RunAudio

LEMMA OthersKeep ==
    ASSUME AInv, DropCapture \/ FirstFrame \/ CtrlC \/ (\E p \in Packets : Deliver(p)) \/ UNCHANGED vars
    PROVE  AInv'
<1> USE DEF captureVars, sendVars
<1>1. CASE DropCapture
  <2>1. UNCHANGED <<queue, heard, out, channel, first, fresh, encrypted, sendVars>>
        /\ pc' \in {"signal", "join", "done"}
    BY <1>1 DEF DropCapture, DropStop
  <2>2. Begun'  BY <2>1 DEF AInv, Begun
  <2> QED  BY <2>1, <2>2, Idle DEF AInv, Shapes, Streaming, sentVars
<1>2. CASE FirstFrame
  <2>1. ~first /\ first' /\ fresh' = heard - Len(out)
        /\ UNCHANGED <<queue, heard, out, channel, pc, encrypted, sendVars>>
    BY <1>2 DEF FirstFrame
  <2>2. wire = <<>> /\ wire' = <<>> /\ pc \notin {"drain", "announce", "loop", "recv"}
    BY <2>1 DEF AInv, Begun
  <2>3. DOMAIN wire = {} /\ DOMAIN wire' = {} /\ heard \in Nat /\ Len(out) \in Nat
    BY <2>2, SeqFacts DEF AInv, Shapes
  <2>4. Pos' = Pos  BY <2>1 DEF Pos
  <2>5. Shapes' /\ Cut'  BY <2>1, <2>3, <2>4 DEF AInv, Shapes, Cut
  <2>6. Begun'  BY <2>1, <2>2, <2>3 DEF Begun
  <2>7. Heard' /\ StreamIsGapless' /\ SyncTracksNewest'
    BY <2>3 DEF Heard, StreamIsGapless, SyncTracksNewest
  <2>8. Newest'  BY <2>3 DEF Newest
  <2>9. Buffered' /\ Clocks'  BY <2>1 DEF AInv, Buffered, Clocks, Age, Streaming
  <2> QED  BY <2>5, <2>6, <2>7, <2>8, <2>9 DEF AInv
<1>3. CASE CtrlC
  <2>1. UNCHANGED <<queue, heard, out, channel, first, fresh, encrypted, pc, sendVars>>
    BY <1>3 DEF CtrlC
  <2>2. Begun'  BY <2>1 DEF AInv, Begun, Pos
  <2> QED  BY <2>1, <2>2, Idle DEF AInv, Shapes, sentVars
<1>4. CASE \E p \in Packets : Deliver(p)
  <2>1. PICK p \in Packets : Deliver(p)  BY <1>4
  <2>2. UNCHANGED <<heard, out, channel, first, fresh, encrypted, pc, sendVars>>
        /\ queue' = Append(queue, p)
    BY <2>1 DEF Deliver
  <2>3. queue' \in Seq(Packets)  BY <2>1, <2>2, AppendProperties DEF AInv, Shapes
  <2>4. Begun'  BY <2>2 DEF AInv, Begun, Pos
  <2> QED  BY <2>2, <2>3, <2>4, Idle DEF sentVars
<1>5. CASE UNCHANGED vars
  <2>1. UNCHANGED <<queue, heard, out, channel, first, fresh, encrypted, pc, sendVars>>
    BY <1>5 DEF vars
  <2>2. Begun'  BY <2>1 DEF AInv, Begun, Pos
  <2> QED  BY <2>1, <2>2, Idle DEF AInv, Shapes, sentVars
<1> QED  BY <1>1, <1>2, <1>3, <1>4, <1>5

LEMMA InitHolds == ASSUME Init PROVE AInv
<1>1. /\ queue = <<>> /\ out = <<>> /\ channel = <<>> /\ saved = <<>> /\ wire = <<>>
      /\ heard = 0 /\ fresh = 0 /\ first = FALSE /\ pc = "poll" /\ idx = 0 /\ burst = FALSE
      /\ encrypted \in BOOLEAN /\ rtpTime \in 0..(RtpWrap - 1) /\ clock = rtpTime
  BY EpochsAreTimes DEF Init
<1>2. IsSeq(<<>>) /\ Len(<<>>) = 0 /\ DOMAIN <<>> = {}
  <2>1. <<>> \in Seq({})  OBVIOUS
  <2> QED  BY <2>1 DEF IsSeq
<1>3. <<>> \in Seq(Packets)  OBVIOUS
<1>4. Shapes
  <2>1. queue \in Seq(Packets) /\ heard \in Nat /\ fresh \in Int /\ idx \in 0..(Depth - 1)
    BY <1>1, <1>3
  <2>2. IsSeq(out) /\ IsSeq(channel) /\ IsSeq(saved) /\ IsSeq(wire) /\ burst \in BOOLEAN
    BY <1>1, <1>2
  <2>3. rtpTime \in 0..(RtpWrap - 1) /\ clock \in 0..(RtpWrap - 1)  BY <1>1
  <2>4. \A s \in DOMAIN saved : saved[s].rtp \in 0..(RtpWrap - 1)  BY <1>1, <1>2
  <2> QED  BY <1>1, <2>1, <2>2, <2>3, <2>4 DEF Shapes
<1>5. Cut  BY <1>1, <1>2 DEF Cut
<1>6. Begun  BY <1>1 DEF Begun
<1>7. Heard /\ StreamIsGapless /\ SyncTracksNewest  BY <1>1, <1>2 DEF Heard, StreamIsGapless, SyncTracksNewest
<1>8. Newest  BY <1>1 DEF Newest, Streaming
<1>9. Buffered /\ Clocks  BY <1>1, <1>2 DEF Buffered, Clocks, Streaming
<1> QED  BY <1>4, <1>5, <1>6, <1>7, <1>8, <1>9 DEF AInv

\* The inductive invariant holds in every state: what frame, ring, wire, counters and
\* sync timer have to do with each other.
THEOREM Invariant == Spec => []AInv
<1>1. Init => AInv  BY InitHolds
<1>2. AInv /\ [Next]_vars => AInv'  BY CaptureKeeps, RunKeeps, OthersKeep DEF Next
<1> QED  BY <1>1, <1>2, PTL DEF Spec

\* No frame handed over before the first video frame was sent is streamed, wherever the
\* capture thread and the drain stand in their packets.
THEOREM FreshFromTheStart == Spec => []StartsFresh
<1>1. AInv => StartsFresh
  <2> SUFFICES ASSUME AInv, NEW i \in DOMAIN wire, IsRtp(wire[i])
               PROVE  wire[i].frame[1] > fresh
    BY DEF StartsFresh
  <2>1. wire[i].frame[1] \in (fresh + 1)..Pos  BY DEF AInv, Heard
  <2>2. fresh \in Int  BY DEF AInv, Shapes
  <2> QED  BY <2>1, <2>2
<1> QED  BY <1>1, Invariant, PTL

\* From the first frame on the stream is gapless, whatever fails to be sent, and its
\* sequence numbers and times are those of the samples, over every wrap.
THEOREM Gapless == Spec => []StreamIsGapless
<1>1. AInv => StreamIsGapless  BY DEF AInv
<1> QED  BY <1>1, Invariant, PTL

\* A sync packet announces the newest frame, never one that was sent again or that is
\* on the other side of a wrap.
THEOREM SyncsAreCurrent == Spec => []SyncTracksNewest
<1>1. AInv => SyncTracksNewest  BY DEF AInv
<1> QED  BY <1>1, Invariant, PTL

--------------------------------------------------------------------------------
(* Counting *)

\* A finite set with one more element, and one with at most one more.
LEMMA Counts ==
    ASSUME NEW S, NEW T, IsFiniteSet(S), IsFiniteSet(T), NEW x
    PROVE  /\ Cardinality(S) \in Nat /\ Cardinality(T) \in Nat
           /\ S \subseteq T => Cardinality(S) <= Cardinality(T)
           /\ S \subseteq T /\ x \in T /\ x \notin S => Cardinality(S) + 1 <= Cardinality(T)
           /\ T \subseteq S \cup {x} => Cardinality(T) <= Cardinality(S) + 1
<1>1. Cardinality(S) \in Nat /\ Cardinality(T) \in Nat  BY FS_CardinalityType
<1>2. /\ IsFiniteSet(S \cup {x})
      /\ Cardinality(S \cup {x}) = IF x \in S THEN Cardinality(S) ELSE Cardinality(S) + 1
  BY FS_AddElement
<1>3. S \subseteq T => Cardinality(S) <= Cardinality(T)  BY FS_Subset
<1>4. ASSUME S \subseteq T, x \in T, x \notin S  PROVE Cardinality(S) + 1 <= Cardinality(T)
  <2>1. S \cup {x} \in SUBSET T  BY <1>4
  <2>2. Cardinality(S \cup {x}) <= Cardinality(T)  BY <2>1, FS_Subset
  <2> QED  BY <1>2, <1>4, <2>2
<1>5. ASSUME T \subseteq S \cup {x}  PROVE Cardinality(T) <= Cardinality(S) + 1
  <2>1. Cardinality(T) <= Cardinality(S \cup {x})  BY <1>2, <1>5, FS_Subset
  <2> QED  BY <1>1, <1>2, <2>1
<1> QED  BY <1>1, <1>3, <1>4, <1>5

\* The packets counted are finitely many.
LEMMA Finite ==
    ASSUME NEW i \in Int, NEW j \in Int
    PROVE  IsFiniteSet(RtpIn(i, j)) /\ IsFiniteSet(RtpIn(i, j)')
<1>1. IsFiniteSet(i..j)  BY FS_Interval
<1>2. RtpIn(i, j) \in SUBSET (i..j) /\ RtpIn(i, j)' \in SUBSET (i..j)  BY DEF RtpIn
<1> QED  BY <1>1, <1>2, FS_Subset

LEMMA FiniteNewer ==
    ASSUME IsSeq(wire), IsSeq(wire'), NEW i \in Int
    PROVE  IsFiniteSet(Newer(i)) /\ IsFiniteSet(Newer(i)')
<1>1. PICK n \in Int, m \in Int : n = Len(wire) /\ m = Len(wire')  BY SeqFacts
<1>2. IsFiniteSet((i + 1)..n) /\ IsFiniteSet((i + 1)..m)  BY FS_Interval
<1>3. Newer(i) \in SUBSET ((i + 1)..n) /\ Newer(i)' \in SUBSET ((i + 1)..m)  BY <1>1 DEF Newer
<1> QED  BY <1>2, <1>3, FS_Subset

--------------------------------------------------------------------------------
(* The repair of bursts *)

\* A frame kept to be sent again: at most as many are newer as its age says, and it
\* was sent at least as many packets ago.
Held(i) ==
    \E s \in DOMAIN saved :
        /\ saved[s].frame = wire[i].frame
        /\ Cardinality(Newer(i)) < Age(s) /\ Age(s) <= Cardinality(RtpIn(i, Len(wire)))

\* A frame that was sent again, Depth packets behind the first time.
Repaired(i) ==
    \E j \in (i + 1)..Len(wire) :
        /\ IsRtp(wire[j]) /\ wire[j].frame = wire[i].frame
        /\ Cardinality(RtpIn(i, j)) > Depth

\* Every packet with a frame is the same, those kept among them.
Same ==
    /\ \A i, j \in DOMAIN wire :
          IsRtp(wire[i]) /\ IsRtp(wire[j]) /\ wire[i].frame = wire[j].frame => wire[i] = wire[j]
    /\ ~encrypted => \A s \in DOMAIN saved : \E i \in DOMAIN wire :
          wire[i] = Packet(saved[s].frame, saved[s].seq, saved[s].rtp, 0)

\* Every frame was sent again or will be in time.
Cared == ~encrypted => \A i \in DOMAIN wire : IsNew(i) => Held(i) \/ Repaired(i)

Repairs == Same /\ Cared

\* How old the frames kept are: the one that makes room is Depth frames old.
LEMMA Ages ==
    ASSUME Shapes, Buffered, NEW s \in DOMAIN saved
    PROVE  Age(s) \in 1..Depth /\ (s = idx + 1 => burst /\ Age(s) = Depth)
<1>1. /\ idx \in 0..(Depth - 1) /\ burst \in BOOLEAN /\ IsSeq(saved)
      /\ Len(saved) = (IF burst THEN Depth ELSE idx)
  BY DEF Shapes, Buffered
<1>2. s \in 1..Len(saved)  BY <1>1, SeqFacts
<1> QED  BY <1>1, <1>2 DEF Age

\* A frame that is kept takes the place of the oldest, and the others are a frame older.
LEMMA Places ==
    ASSUME Shapes, Buffered, ~encrypted, NEW f, Keep(f)
    PROVE  /\ \A s : s = idx + 1 => s \in DOMAIN saved' /\ saved'[s] = New(f) /\ Age(s)' = 1
           /\ \A s \in DOMAIN saved : s # idx + 1 =>
                 s \in DOMAIN saved' /\ saved'[s] = saved[s] /\ Age(s)' = Age(s) + 1
           /\ \A s \in DOMAIN saved' : s # idx + 1 => s \in DOMAIN saved
<1>1. /\ IsSeq(saved) /\ idx \in 0..(Depth - 1) /\ burst \in BOOLEAN
      /\ Len(saved) = (IF burst THEN Depth ELSE idx) /\ DOMAIN saved = 1..Len(saved)
  BY SeqFacts DEF Shapes, Buffered
<1>2. /\ saved' = IF burst THEN [saved EXCEPT ![idx + 1] = New(f)] ELSE Append(saved, New(f))
      /\ idx' = (idx + 1) % Depth
  BY DEF Keep
<1>3. idx' = IF idx + 1 = Depth THEN 0 ELSE idx + 1  BY <1>1, <1>2
<1>4. PICK i \in 1..Depth : i = idx + 1  BY <1>1
<1>5. PICK m \in 1..Depth : m = IF burst THEN Depth ELSE i  BY <1>4
<1>6. /\ DOMAIN saved' = 1..m /\ saved'[i] = New(f)
      /\ \A s \in DOMAIN saved : s # i => saved'[s] = saved[s]
  <2>1. CASE burst
    <3>1. i \in DOMAIN saved /\ saved' = [saved EXCEPT ![i] = New(f)]  BY <1>1, <1>2, <1>4, <2>1
    <3>2. DOMAIN saved' = DOMAIN saved  BY <3>1
    <3> QED  BY <1>1, <1>5, <2>1, <3>1, <3>2
  <2>2. CASE ~burst
    <3>1. saved' = Append(saved, New(f)) /\ Len(saved) = idx  BY <1>1, <1>2, <2>2
    <3>2. IsSeq(saved') /\ Len(saved') = idx + 1 /\ saved'[idx + 1] = New(f)
          /\ \A s \in DOMAIN saved : saved'[s] = saved[s]
      BY <1>1, <3>1, Appended
    <3>3. DOMAIN saved' = 1..(idx + 1)  BY <3>2, SeqFacts
    <3> QED  BY <1>4, <1>5, <2>2, <3>2, <3>3
  <2> QED  BY <1>1, <2>1, <2>2
<1>7. DOMAIN saved = 1..(IF burst THEN Depth ELSE i - 1)  BY <1>1, <1>4
<1>8. \A s : Age(s)' = IF s <= idx' THEN (idx' + 1) - s ELSE ((idx' + 1) - s) + Depth  BY DEF Age
<1>9. i \in DOMAIN saved' /\ Age(i)' = 1
  <2>1. i \in DOMAIN saved'  BY <1>4, <1>5, <1>6
  <2> QED  BY <1>1, <1>3, <1>4, <1>8, <2>1
<1>10. ASSUME NEW s \in DOMAIN saved, s # i
       PROVE  s \in DOMAIN saved' /\ Age(s)' = Age(s) + 1
  <2>1. s \in 1..Depth /\ s \in DOMAIN saved'  BY <1>5, <1>6, <1>7
  <2>2. ASSUME ~burst  PROVE s <= idx
    <3>1. s \in 1..(i - 1)  BY <1>7, <2>2
    <3> QED  BY <1>1, <1>4, <3>1
  <2> QED  BY <1>1, <1>3, <1>4, <1>8, <1>10, <2>1, <2>2 DEF Age
<1>11. \A s \in DOMAIN saved' : s # i => s \in DOMAIN saved  BY <1>5, <1>6, <1>7
<1> QED  BY <1>4, <1>6, <1>9, <1>10, <1>11

\* What stands on the wire stays, and what was repaired is.
LEMMA Grows ==
    ASSUME IsSeq(wire), IsSeq(wire'), Len(wire) <= Len(wire'),
           \A i \in DOMAIN wire : wire'[i] = wire[i],
           NEW i \in DOMAIN wire
    PROVE  /\ \A j \in DOMAIN wire : RtpIn(i, j)' = RtpIn(i, j)
           /\ Repaired(i) => Repaired(i)'
<1>1. PICK n \in Nat, m \in Nat : n = Len(wire) /\ m = Len(wire') /\ DOMAIN wire = 1..n /\ DOMAIN wire' = 1..m
  BY SeqFacts
<1>2. n <= m /\ i \in 1..n  BY <1>1
<1>3. ASSUME NEW j \in DOMAIN wire  PROVE RtpIn(i, j)' = RtpIn(i, j)
  <2>1. \A k \in i..j : wire'[k] = wire[k]  BY <1>1
  <2> QED  BY <2>1 DEF RtpIn
<1>4. ASSUME Repaired(i)  PROVE Repaired(i)'
  <2>1. PICK j \in (i + 1)..n : /\ IsRtp(wire[j]) /\ wire[j].frame = wire[i].frame
                                /\ Cardinality(RtpIn(i, j)) > Depth
    BY <1>1, <1>4 DEF Repaired
  <2>2. j \in DOMAIN wire /\ j \in (i + 1)..m  BY <1>1, <1>2
  <2>3. wire'[j] = wire[j] /\ wire'[i] = wire[i] /\ RtpIn(i, j)' = RtpIn(i, j)  BY <1>3, <2>2
  <2> QED  BY <1>1, <2>1, <2>2, <2>3 DEF Repaired
<1> QED  BY <1>3, <1>4

\* A packet that is not new repairs nothing and takes nothing away.
LEMMA QuietRepairs ==
    ASSUME Shapes, Buffered, Repairs, NEW q, wire' = Append(wire, q),
           IsRtp(q) => \E p \in DOMAIN wire : wire[p] = q,
           UNCHANGED <<saved, idx, encrypted>>
    PROVE  Repairs'
<1>1. PICK n \in Nat : n = Len(wire) /\ DOMAIN wire = 1..n  BY SeqFacts DEF Shapes
<1>2. /\ IsSeq(wire') /\ Len(wire') = n + 1 /\ wire'[n + 1] = q
      /\ \A i \in DOMAIN wire : wire'[i] = wire[i]
  BY <1>1, Appended DEF Shapes
<1>3. DOMAIN wire' = 1..(n + 1) /\ Len(wire) <= Len(wire')  BY <1>1, <1>2, SeqFacts
<1>4. \A i \in DOMAIN wire' : i \in DOMAIN wire \/ i = n + 1  BY <1>1, <1>3
<1>5. \A i \in DOMAIN wire : i \in DOMAIN wire'  BY <1>1, <1>3
<1>6. ~IsNew(n + 1)'
  <2> SUFFICES ASSUME IsNew(n + 1)'  PROVE FALSE  OBVIOUS
  <2>1. PICK p \in DOMAIN wire : wire[p] = q  BY <1>2 DEF IsNew
  <2>2. p \in 1..((n + 1) - 1) /\ wire'[p] = q  BY <1>1, <1>2, <2>1
  <2> QED  BY <1>2, <2>2 DEF IsNew
<1>7. \A i \in DOMAIN wire : IsNew(i)' = IsNew(i)  BY <1>2, <1>3, Prefix DEF Shapes
<1>8. ASSUME NEW i \in DOMAIN wire', IsRtp(wire'[i])
      PROVE  \E p \in DOMAIN wire : wire[p] = wire'[i]
  BY <1>2, <1>4, <1>8
<1>9. Same'
  <2>1. ASSUME NEW i \in DOMAIN wire', NEW j \in DOMAIN wire',
               IsRtp(wire'[i]), IsRtp(wire'[j]), wire'[i].frame = wire'[j].frame
        PROVE  wire'[i] = wire'[j]
    <3>1. PICK p \in DOMAIN wire, r \in DOMAIN wire : wire[p] = wire'[i] /\ wire[r] = wire'[j]
      BY <1>8, <2>1
    <3> QED  BY <2>1, <3>1 DEF Repairs, Same
  <2>2. ASSUME ~encrypted, NEW s \in DOMAIN saved
        PROVE  \E i \in DOMAIN wire' : wire'[i] = Packet(saved[s].frame, saved[s].seq, saved[s].rtp, 0)
    BY <1>2, <1>5, <2>2 DEF Repairs, Same
  <2> QED  BY <2>1, <2>2 DEF Same
<1>10. ASSUME ~encrypted, NEW i \in DOMAIN wire', IsNew(i)'
       PROVE  Held(i)' \/ Repaired(i)'
  <2>1. i \in DOMAIN wire /\ IsNew(i) /\ wire'[i] = wire[i] /\ i \in 1..n
    BY <1>1, <1>2, <1>4, <1>6, <1>7, <1>10
  <2>2. CASE Repaired(i)  BY <1>2, <1>3, <2>1, <2>2, Grows DEF Shapes
  <2>3. CASE Held(i)
    <3>1. PICK s \in DOMAIN saved :
             /\ saved[s].frame = wire[i].frame
             /\ Cardinality(Newer(i)) < Age(s) /\ Age(s) <= Cardinality(RtpIn(i, n))
      BY <1>1, <2>3 DEF Held
    <3>2. Newer(i)' = Newer(i)
      <4>1. \A k : k \in (i + 1)..(n + 1) /\ IsNew(k)' <=> k \in (i + 1)..n /\ IsNew(k)
        BY <1>1, <1>6, <1>7, <2>1
      <4> QED  BY <1>1, <1>2, <4>1 DEF Newer
    <3>3. RtpIn(i, n) \subseteq RtpIn(i, n + 1)'
      <4>1. \A k \in i..n : k \in i..(n + 1) /\ wire'[k] = wire[k]  BY <1>1, <1>2, <2>1
      <4> QED  BY <4>1 DEF RtpIn
    <3>4. IsFiniteSet(RtpIn(i, n)) /\ IsFiniteSet(RtpIn(i, n + 1)')  BY <2>1, Finite
    <3>5. /\ Cardinality(RtpIn(i, n)) \in Nat /\ Cardinality(RtpIn(i, n + 1)') \in Nat
          /\ Cardinality(RtpIn(i, n)) <= Cardinality(RtpIn(i, n + 1)') /\ Age(s) \in Int
      <4>1. Age(s) \in Int  BY Ages
      <4> QED  BY <3>3, <3>4, <4>1, FS_CardinalityType, FS_Subset
    <3>6. Age(s) <= Cardinality(RtpIn(i, n + 1)')  BY <3>1, <3>5
    <3>7. Age(s)' = Age(s) /\ saved' = saved  BY DEF Age
    <3> QED  BY <1>2, <2>1, <3>1, <3>2, <3>6, <3>7 DEF Held
  <2> QED  BY <1>10, <2>1, <2>2, <2>3 DEF Repairs, Cared
<1> QED  BY <1>9, <1>10 DEF Repairs, Cared

\* Nor does a step that sends nothing.
LEMMA StillRepairs ==
    ASSUME Repairs, UNCHANGED <<wire, saved, idx, encrypted>>
    PROVE  Repairs'
<1>1. \A i : IsNew(i)' = IsNew(i)  BY DEF IsNew
<1>2. \A i, j : RtpIn(i, j)' = RtpIn(i, j)  BY DEF RtpIn
<1>3. \A i : Newer(i)' = Newer(i)  BY <1>1 DEF Newer
<1>4. \A s : Age(s)' = Age(s)  BY DEF Age
<1>5. ASSUME NEW i  PROVE Held(i) => Held(i)'  BY <1>2, <1>3, <1>4 DEF Held
<1>6. ASSUME NEW i  PROVE Repaired(i) => Repaired(i)'  BY <1>2 DEF Repaired
<1> QED  BY <1>1, <1>5, <1>6 DEF Repairs, Same, Cared

\* What is sent again is a packet of the wire.
LEMMA RepeatsAll ==
    ASSUME AInv, Repairs, burst
    PROVE  /\ ~encrypted /\ idx + 1 \in DOMAIN saved /\ Again.frame = saved[idx + 1].frame
           /\ \E p \in DOMAIN wire : wire[p] = Again
<1>1. ~encrypted /\ idx + 1 \in DOMAIN saved
  BY SeqFacts DEF AInv, Buffered, Shapes
<1>2. Again.frame = saved[idx + 1].frame  BY DEF Again, Packet
<1> QED  BY <1>1, <1>2 DEF Repairs, Same, Again

\* A frame that is sent takes the place of the one sent again, and the others are a frame
\* older, with a newer frame behind them and with one packet more.
LEMMA SentRepairs ==
    ASSUME AInv, Repairs, channel # <<>>, channel' = Tail(channel), UNCHANGED <<heard, out>>,
           ~burst => wire' = Append(wire, Fresh(Head(channel))),
           burst => wire' = Append(Append(wire, Again), Fresh(Head(channel))),
           Keep(Head(channel)), encrypted' = encrypted
    PROVE  Repairs'
<1> DEFINE f == Head(channel)
           q == Fresh(f)
<1>1. PICK n \in Nat, m \in Nat :
         /\ n = Len(wire) /\ m = Len(wire') /\ m = IF burst THEN n + 2 ELSE n + 1
         /\ IsSeq(wire') /\ wire'[m] = q
         /\ \A i \in DOMAIN wire : wire'[i] = wire[i]
         /\ m = n + 2 => burst /\ wire'[n + 1] = Again
         /\ IsNew(m)' /\ \A i \in DOMAIN wire : IsNew(i)' = IsNew(i)
         /\ \A i \in DOMAIN wire' : IsNew(i)' /\ i # m => i \in DOMAIN wire /\ IsNew(i)
  BY Sent
<1>2. DOMAIN wire = 1..n /\ DOMAIN wire' = 1..m /\ m \in {n + 1, n + 2} /\ IsSeq(wire)
  BY <1>1, SeqFacts DEF AInv, Shapes
<1>3. q.kind = "rtp" /\ q.frame = f /\ (~encrypted => q = Packet(f, seq, rtpTime, 0))
  BY DEF Fresh, Packet
<1> HIDE DEF q
<1>4. New(f).frame = f /\ New(f).seq = seq /\ New(f).rtp = rtpTime  BY DEF New
<1>5. Shapes /\ Buffered /\ Keep(f)  BY DEF AInv
<1> HIDE DEF f
<1>6. ASSUME NEW i \in DOMAIN wire', i # m
      PROVE  \E p \in DOMAIN wire : wire[p] = wire'[i]
  <2>1. CASE i \in DOMAIN wire  BY <1>1, <2>1
  <2>2. CASE i \notin DOMAIN wire
    <3>1. m = n + 2 /\ i = n + 1  BY <1>2, <1>6, <2>2
    <3>2. burst /\ wire'[i] = Again  BY <1>1, <3>1
    <3> QED  BY <3>2, RepeatsAll
  <2> QED  BY <2>1, <2>2
<1>7. Same'
  <2>1. ASSUME NEW i \in DOMAIN wire', NEW j \in DOMAIN wire',
               IsRtp(wire'[i]), IsRtp(wire'[j]), wire'[i].frame = wire'[j].frame
        PROVE  wire'[i] = wire'[j]
    <3>1. CASE i # m /\ j # m
      <4>1. PICK p \in DOMAIN wire, r \in DOMAIN wire : wire[p] = wire'[i] /\ wire[r] = wire'[j]
        BY <1>6, <3>1
      <4> QED  BY <2>1, <4>1 DEF Repairs, Same
    <3>2. \A k \in 1..(m - 1) : ~(IsRtp(wire'[k]) /\ wire'[k].frame = wire'[m].frame)
      BY <1>1 DEF IsNew
    <3>3. CASE i = m /\ j # m
      <4>1. j \in 1..(m - 1)  BY <1>2, <3>3
      <4> QED  BY <2>1, <3>2, <3>3, <4>1
    <3>4. CASE i # m /\ j = m
      <4>1. i \in 1..(m - 1)  BY <1>2, <3>4
      <4> QED  BY <2>1, <3>2, <3>4, <4>1
    <3> QED  BY <3>1, <3>3, <3>4
  <2>2. ASSUME ~encrypted, NEW s \in DOMAIN saved'
        PROVE  \E i \in DOMAIN wire' : wire'[i] = Packet(saved'[s].frame, saved'[s].seq, saved'[s].rtp, 0)
    <3>1. CASE s = idx + 1
      <4>1. saved'[s] = New(f)  BY <1>5, <2>2, <3>1, Places
      <4>2. m \in DOMAIN wire'  BY <1>2
      <4> QED  BY <1>1, <1>3, <1>4, <2>2, <4>1, <4>2
    <3>2. CASE s # idx + 1
      <4>1. s \in DOMAIN saved /\ saved'[s] = saved[s]  BY <1>5, <2>2, <3>2, Places
      <4>2. PICK i \in DOMAIN wire : wire[i] = Packet(saved[s].frame, saved[s].seq, saved[s].rtp, 0)
        BY <2>2, <4>1 DEF Repairs, Same
      <4>3. i \in DOMAIN wire' /\ wire'[i] = wire[i]  BY <1>1, <1>2
      <4> QED  BY <4>1, <4>2, <4>3
    <3> QED  BY <3>1, <3>2
  <2> QED  BY <2>1, <2>2 DEF Same
<1>8. ASSUME ~encrypted  PROVE Held(m)'
  <2>1. PICK s \in DOMAIN saved' : saved'[s] = New(f) /\ Age(s)' = 1  BY <1>5, <1>8, Places
  <2>2. Newer(m)' = {}
    <3>1. (m + 1)..m = {}  OBVIOUS
    <3> QED  BY <1>1, <3>1 DEF Newer
  <2>3. RtpIn(m, m)' = {m}
    <3>1. m..m = {m}  OBVIOUS
    <3> QED  BY <1>1, <1>3, <3>1 DEF RtpIn, IsRtp
  <2>4. Cardinality({}) = 0 /\ Cardinality({m}) = 1  BY FS_EmptySet, FS_Singleton
  <2>5. saved'[s].frame = wire'[m].frame  BY <1>1, <1>3, <1>4, <2>1
  <2>6. Cardinality(Newer(m)') < Age(s)' /\ Age(s)' <= Cardinality(RtpIn(m, m)')
    BY <2>1, <2>2, <2>3, <2>4
  <2> QED  BY <1>1, <2>5, <2>6 DEF Held
<1>9. ASSUME ~encrypted, NEW i \in DOMAIN wire, IsNew(i), Held(i)
      PROVE  Held(i)' \/ Repaired(i)'
  <2>1. PICK s \in DOMAIN saved :
           /\ saved[s].frame = wire[i].frame
           /\ Cardinality(Newer(i)) < Age(s) /\ Age(s) <= Cardinality(RtpIn(i, n))
    BY <1>1, <1>9 DEF Held
  <2>2. Age(s) \in Nat /\ i \in 1..n /\ i \in DOMAIN wire' /\ wire'[i] = wire[i]  BY <1>1, <1>2, <1>5, Ages
  \* One packet more is counted from i than before.
  <2>3. ASSUME NEW k \in {n + 1, n + 2}, k <= m, IsRtp(wire'[k])
        PROVE  Cardinality(RtpIn(i, k)') \in Nat /\ Age(s) + 1 <= Cardinality(RtpIn(i, k)')
    <3>1. RtpIn(i, n) \subseteq RtpIn(i, k)'
      <4>1. \A r \in i..n : r \in i..k /\ wire'[r] = wire[r]  BY <1>1, <1>2, <2>2
      <4> QED  BY <4>1 DEF RtpIn
    <3>2. k \in RtpIn(i, k)' /\ k \notin RtpIn(i, n)
      <4>1. k \in i..k /\ k \notin i..n  BY <2>2
      <4> QED  BY <2>3, <4>1 DEF RtpIn
    <3>3. IsFiniteSet(RtpIn(i, n)) /\ IsFiniteSet(RtpIn(i, k)')  BY <2>2, Finite
    <3>4. /\ Cardinality(RtpIn(i, n)) \in Nat /\ Cardinality(RtpIn(i, k)') \in Nat
          /\ Cardinality(RtpIn(i, n)) + 1 <= Cardinality(RtpIn(i, k)')
      BY <3>1, <3>2, <3>3, Counts
    <3> QED  BY <2>1, <2>2, <3>4
  <2>4. CASE s # idx + 1
    <3>1. s \in DOMAIN saved' /\ saved'[s] = saved[s] /\ Age(s)' = Age(s) + 1  BY <1>5, <1>9, <2>4, Places
    <3>2. Newer(i)' \subseteq Newer(i) \cup {m}
      <4>1. ASSUME NEW k \in (i + 1)..m, IsNew(k)', k # m  PROVE k \in (i + 1)..n /\ IsNew(k)
        <5>1. k \in DOMAIN wire'  BY <1>2, <2>2
        <5>2. k \in DOMAIN wire /\ IsNew(k)  BY <1>1, <4>1, <5>1
        <5> QED  BY <1>2, <5>2
      <4> QED  BY <1>1, <4>1 DEF Newer
    <3>3. IsFiniteSet(Newer(i)) /\ IsFiniteSet(Newer(i)')  BY <1>1, <1>2, <2>2, FiniteNewer
    <3>4. /\ Cardinality(Newer(i)) \in Nat /\ Cardinality(Newer(i)') \in Nat
          /\ Cardinality(Newer(i)') <= Cardinality(Newer(i)) + 1
      BY <3>2, <3>3, Counts
    <3>5. Age(s) + 1 <= Cardinality(RtpIn(i, m)')
      <4>1. m \in {n + 1, n + 2} /\ m <= m /\ IsRtp(wire'[m])  BY <1>1, <1>2, <1>3 DEF IsRtp
      <4> QED  BY <2>3, <4>1
    <3>6. Cardinality(Newer(i)') < Age(s)' /\ Age(s)' <= Cardinality(RtpIn(i, m)')
      BY <2>1, <2>2, <3>1, <3>4, <3>5
    <3>7. saved'[s].frame = wire'[i].frame  BY <2>1, <2>2, <3>1
    <3>8. Held(i)'  BY <1>1, <3>1, <3>6, <3>7 DEF Held
    <3> QED  BY <3>8
  <2>5. CASE s = idx + 1
    <3>1. burst /\ Age(s) = Depth  BY <1>5, <2>5, Ages
    <3>2. m = n + 2 /\ wire'[n + 1] = Again /\ Again.frame = wire'[i].frame
      BY <1>1, <2>1, <2>2, <2>5, <3>1, RepeatsAll
    <3>3. IsRtp(wire'[n + 1])  BY <3>1, <3>2, Repeats
    <3>4. n + 1 \in {n + 1, n + 2} /\ n + 1 <= m  BY <3>2
    <3>5. Cardinality(RtpIn(i, n + 1)') > Depth  BY <2>3, <3>1, <3>3, <3>4
    <3>6. n + 1 \in (i + 1)..m  BY <2>2, <3>2
    <3>7. Repaired(i)'  BY <1>1, <3>2, <3>3, <3>5, <3>6 DEF Repaired
    <3> QED  BY <3>7
  <2> QED  BY <2>4, <2>5
<1>10. ASSUME ~encrypted, NEW i \in DOMAIN wire', IsNew(i)'
       PROVE  Held(i)' \/ Repaired(i)'
  <2>1. CASE i = m  BY <1>8, <1>10, <2>1
  <2>2. CASE i # m
    <3>1. i \in DOMAIN wire /\ IsNew(i)  BY <1>1, <1>10, <2>2
    <3>2. Held(i) \/ Repaired(i)  BY <1>10, <3>1 DEF Repairs, Cared
    <3>3. Repaired(i) => Repaired(i)'
      <4>1. Len(wire) <= Len(wire')  BY <1>1
      <4> QED  BY <1>1, <1>2, <3>1, <4>1, Grows
    <3> QED  BY <1>9, <1>10, <3>1, <3>2, <3>3
  <2> QED  BY <2>1, <2>2
<1> QED  BY <1>7, <1>10 DEF Repairs, Cared

LEMMA SendStepRepairs ==
    ASSUME AInv, Repairs, SendFrame, UNCHANGED <<heard, out, encrypted>>
    PROVE  Repairs'
<1> DEFINE f == Head(channel)
           ps == ToSend(f)
<1>1. channel # <<>> /\ channel' = Tail(channel)  BY DEF SendFrame
<1>2. burst \in BOOLEAN /\ IsSeq(wire)  BY DEF AInv, Shapes
<1>3. CASE wire' = wire \o Sealed(ps) /\ Keep(f)
  <2>1. /\ ~burst => wire' = Append(wire, Fresh(f))
        /\ burst => wire' = Append(Append(wire, Again), Fresh(f))
    BY <1>3, SendFacts
  <2> QED  BY <1>1, <1>3, <2>1, SentRepairs
<1>4. ASSUME NEW sent \in 0..(Len(ps) - 1), wire' = wire \o SubSeq(Sealed(ps), 1, sent),
             UNCHANGED <<saved, idx>>
      PROVE  Repairs'
  <2>1. wire \o <<>> = wire
    <3>1. \A S : wire \in Seq(S) => wire \o <<>> = wire  BY ConcatEmptySeq
    <3> QED  BY <1>2, <3>1 DEF IsSeq
  <2>2. CASE sent = 0
    <3>1. wire' = wire  BY <1>4, <2>1, <2>2, SendFacts
    <3> QED  BY <1>4, <3>1, StillRepairs
  <2>3. CASE sent # 0
    <3>1. burst /\ Len(ps) = 2  BY <1>2, <2>3, SendFacts
    <3>2. SubSeq(Sealed(ps), 1, 1) = <<Again>>  BY <3>1, SendFacts
    <3>3. sent \in 0..(Len(ps) - 1)  OBVIOUS
    <3> HIDE DEF ps
    <3>4. sent = 1  BY <2>3, <3>1, <3>3
    <3>5. wire' = wire \o <<Again>>  BY <1>4, <3>2, <3>4
    <3>6. wire' = Append(wire, Again)  BY <1>2, <3>5, OneMore
    <3>7. \E p \in DOMAIN wire : wire[p] = Again  BY <3>1, RepeatsAll
    <3> QED  BY <1>4, <3>6, <3>7, QuietRepairs DEF AInv
  <2> QED  BY <2>2, <2>3
<1> QED  BY <1>3, <1>4 DEF SendFrame

LEMMA StepRepairs == ASSUME AInv, Repairs, [Next]_vars PROVE Repairs'
<1> USE DEF captureVars, sendVars
<1>1. CASE UNCHANGED <<wire, saved, idx, encrypted>>  BY <1>1, StillRepairs
<1>2. CASE wire' = Append(wire, Sync) /\ UNCHANGED <<saved, idx, encrypted>>
  <2>1. ~IsRtp(Sync)  BY DEF Sync, IsRtp
  <2> QED  BY <1>2, <2>1, QuietRepairs DEF AInv
<1>3. CASE RunAudio
  <2>1. UNCHANGED <<heard, out, encrypted>>  BY <1>3 DEF RunAudio
  <2>2. CASE SendFrame  BY <2>1, <2>2, SendStepRepairs
  <2>3. CASE Poll \/ Drain \/ CaptureGone
    BY <1>1, <2>1, <2>3 DEF Poll, Drain, CaptureGone
  <2>4. CASE Announce \/ LoopHead
    BY <1>1, <1>2, <2>1, <2>4 DEF Announce, LoopHead, SendSync
  <2> QED  BY <1>3, <2>2, <2>3, <2>4 DEF RunAudio
<1>4. CASE Capture  BY <1>1, <1>4 DEF Capture
<1>5. CASE DropCapture  BY <1>1, <1>5 DEF DropCapture
<1>6. CASE \E p \in Packets : Deliver(p)  BY <1>1, <1>6 DEF Deliver
<1>7. CASE FirstFrame \/ CtrlC  BY <1>1, <1>7 DEF FirstFrame, CtrlC
<1>8. CASE UNCHANGED vars  BY <1>1, <1>8 DEF vars
<1> QED  BY <1>3, <1>4, <1>5, <1>6, <1>7, <1>8 DEF Next

\* No loss of Depth packets in a row takes a frame and its repetition, and each frame with
\* Depth newer ones behind it has been sent again, whatever fails and wherever it wraps.
THEOREM BurstsAreRepaired == Spec => []BurstLossRepaired
<1>1. Init => Repairs
  <2> SUFFICES ASSUME Init  PROVE Repairs  OBVIOUS
  <2>1. DOMAIN wire = {} /\ DOMAIN saved = {}
    <3>1. wire = <<>> /\ saved = <<>>  BY DEF Init
    <3> QED  BY <3>1
  <2> QED  BY <2>1 DEF Repairs, Same, Cared
<1>2. AInv /\ Repairs /\ [Next]_vars => Repairs'  BY StepRepairs
<1>3. AInv /\ Repairs => BurstLossRepaired
  <2> SUFFICES ASSUME AInv, Repairs  PROVE BurstLossRepaired  OBVIOUS
  <2>1. ASSUME ~encrypted, NEW i \in DOMAIN wire, IsNew(i), Cardinality(Newer(i)) >= Depth
        PROVE  \E j \in (i + 1)..Len(wire) :
                  /\ IsRtp(wire[j]) /\ wire[j].frame = wire[i].frame
                  /\ Cardinality(RtpIn(i, j)) > Depth
    <3>1. ASSUME Held(i)  PROVE FALSE
      <4>1. PICK s \in DOMAIN saved : Cardinality(Newer(i)) < Age(s)  BY <3>1 DEF Held
      <4>2. Age(s) \in 1..Depth  BY Ages DEF AInv
      <4>3. IsSeq(wire) /\ i \in Int
        <5>1. IsSeq(wire)  BY DEF AInv, Shapes
        <5>2. DOMAIN wire = 1..Len(wire)  BY <5>1, SeqFacts
        <5> QED  BY <5>1, <5>2
      <4>4. IsFiniteSet({k \in (i + 1)..Len(wire) : IsNew(k)})
        <5>1. IsFiniteSet((i + 1)..Len(wire))
          <6>1. Len(wire) \in Int /\ i + 1 \in Int  BY <4>3, SeqFacts
          <6> QED  BY <6>1, FS_Interval
        <5> QED  BY <5>1, FS_Subset
      <4>5. Cardinality(Newer(i)) \in Nat  BY <4>4, FS_CardinalityType DEF Newer
      <4> QED  BY <2>1, <4>1, <4>2, <4>5
    <3>2. Repaired(i)  BY <2>1, <3>1 DEF Repairs, Cared
    <3> QED  BY <3>2 DEF Repaired
  <2>2. \A i, j \in DOMAIN wire :
           IsRtp(wire[i]) /\ IsRtp(wire[j]) /\ wire[i].frame = wire[j].frame => wire[i] = wire[j]
    BY DEF Repairs, Same
  <2> QED  BY <2>1, <2>2 DEF BurstLossRepaired
<1> QED  BY <1>1, <1>2, <1>3, Invariant, PTL DEF Spec
================================================================================
