-------------------------- MODULE VideoStreamer_proofs --------------------------
(***************************************************************************)
(* Proofs about VideoStreamer for any number of desktop changes, failed    *)
(* writes and slices: type correctness; that neither a nonce nor a         *)
(* timestamp is ever used for a second frame, whatever writes fail and     *)
(* wherever feedback puts the clock; and that, until a write fails, whole  *)
(* access units arrive in order, key frames behind their parameter sets.   *)
(***************************************************************************)
EXTENDS VideoStreamer, SequenceTheorems, TLAPS

Shapes == [aud : BOOLEAN, slices : 1..MaxSlices]
Outcomes == [st : Streams, out : Seq(Seals), ok : BOOLEAN]

(* A frame on the wire used a nonce and a time that st has left behind. *)
Behind(w, s) == IsFrame(w) => w.nonce < s.nonce /\ w.ts <= s.last

Used == \A i \in DOMAIN wire : Behind(wire[i], st)

IInv == TypeOK /\ Used /\ SealedOnce /\ TimestampsIncrease
--------------------------------------------------------------------------------
(* Short sequences, and a sequence that ends in y and else holds x. *)
LEMMA ShortSeqs ==
    ASSUME NEW S, NEW x \in S, NEW y \in S
    PROVE  <<>> \in Seq(S) /\ <<x>> \in Seq(S) /\ <<x, y>> \in Seq(S)
  OBVIOUS

LEMMA OptionalSeq ==
    ASSUME NEW S, NEW P, NEW c \in Seq(S)
    PROVE  (IF P THEN c ELSE <<>>) \in Seq(S)
<1>1. CASE P
  BY <1>1
<1>2. CASE ~P
  BY <1>2
<1> QED
  BY <1>1, <1>2

LEMMA LedSeq ==
    ASSUME NEW x, NEW y, NEW c, c = <<>> \/ c = <<x>>
    PROVE  \A i \in DOMAIN (c \o <<y>>) :
              \/ i = Len(c) + 1 /\ (c \o <<y>>)[i] = y
              \/ (c \o <<y>>)[i] = x
<1>1. CASE c = <<>>
  BY <1>1
<1>2. CASE c = <<x>>
  BY <1>2
<1> QED
  BY <1>1, <1>2

(* A frame is named by a change and has slices of its shape. *)
LEMMA UnitType ==
    ASSUME shape \in Shapes, NEW f \in [n : Nat, key : BOOLEAN]
    PROVE  AccessUnit(f) \in Seq(Nals) /\ Len(AccessUnit(f)) > 0
<1> DEFINE Delimiter == IF shape.aud THEN <<Nal("aud", f.n, FALSE)>> ELSE <<>>
           Params == IF f.key THEN <<Nal("sps", f.n, FALSE), Nal("pps", f.n, FALSE)>> ELSE <<>>
<1>1. shape.slices \in Nat \ {0}
  BY SlicesAreSome DEF Shapes
<1>2. \A i \in 1..shape.slices : SlicesOf(f)[i] \in Nals
  BY <1>1 DEF SlicesOf, Nal, Nals
<1>3. SlicesOf(f) \in Seq(Nals) /\ Len(SlicesOf(f)) = shape.slices
  <2>1. SlicesOf(f) \in [1..shape.slices -> Nals]
    BY <1>2 DEF SlicesOf
  <2> QED
    BY <2>1, <1>1, SeqDef, LenProperties
<1>4. Delimiter \in Seq(Nals)
  <2>1. Nal("aud", f.n, FALSE) \in Nals
    BY DEF Nal, Nals
  <2>2. <<Nal("aud", f.n, FALSE)>> \in Seq(Nals)
    BY <2>1, ShortSeqs
  <2> QED
    BY <2>2, OptionalSeq
<1>5. Params \in Seq(Nals)
  <2>1. Nal("sps", f.n, FALSE) \in Nals /\ Nal("pps", f.n, FALSE) \in Nals
    BY DEF Nal, Nals
  <2>2. <<Nal("sps", f.n, FALSE), Nal("pps", f.n, FALSE)>> \in Seq(Nals)
    BY <2>1, ShortSeqs
  <2> QED
    BY <2>2, OptionalSeq
<1> HIDE DEF Delimiter, Params
<1>6. /\ (Delimiter \o Params) \o SlicesOf(f) \in Seq(Nals)
      /\ Len((Delimiter \o Params) \o SlicesOf(f)) > 0
  BY <1>1, <1>3, <1>4, <1>5, ConcatProperties
<1>7. AccessUnit(f) = (Delimiter \o Params) \o SlicesOf(f)
  BY <1>3, <1>4, <1>5 DEF AccessUnit, Delimiter, Params
<1> QED
  BY <1>6, <1>7

(* The updates flush_vcl makes after a whole write. *)
LEMMA DoneUpdate ==
    ASSUME NEW s \in Streams, NEW flag \in BOOLEAN, NEW n \in Nat
    PROVE  /\ [s EXCEPT !.key = flag, !.codec = flag, !.sent = n] \in Streams
           /\ [s EXCEPT !.key = flag, !.codec = flag, !.sent = n].last = s.last
           /\ [s EXCEPT !.key = flag, !.codec = flag, !.sent = n].nonce = s.nonce
<1>1. [s EXCEPT !.key = flag, !.codec = flag, !.sent = n] \in Streams
  BY DEF Streams
<1>2. /\ [s EXCEPT !.key = flag, !.codec = flag, !.sent = n].last = s.last
      /\ [s EXCEPT !.key = flag, !.codec = flag, !.sent = n].nonce = s.nonce
  BY DEF Streams
<1> QED
  BY <1>1, <1>2, Zenon

(* send_frame's fields, one by one. *)
LEMMA SealedFields ==
    ASSUME NEW s \in Streams, clock \in Nat, NEW w \in BOOLEAN
    PROVE  /\ Sealed(s, w) \in Streams
           /\ Sealed(s, w).last = FrameTime(s) /\ Sealed(s, w).nonce = s.nonce + 1
<1> DEFINE flag == s.codec \/ WantsCodec(s)
<1>1. FrameTime(s) \in Nat
  BY DEF FrameTime, Streams
<1>2. flag \in BOOLEAN
  OBVIOUS
<1>3. Stamped(s) \in Streams /\ Stamped(s).last = FrameTime(s) /\ Stamped(s).nonce = s.nonce
  BY <1>1 DEF Stamped, Streams
<1>4. Stamped(s).codec = s.codec
  BY DEF Stamped, Streams
<1>5. Sealed(s, w) = [Stamped(s) EXCEPT !.vcl = <<>>, !.codec = flag, !.nonce = @ + 1]
  BY <1>4 DEF Sealed
<1> DEFINE n == s.nonce + 1
<1>6. n \in Nat /\ <<>> \in Seq(Nals)
  BY DEF Streams
<1>7. Sealed(s, w) = [Stamped(s) EXCEPT !.vcl = <<>>, !.codec = flag, !.nonce = n]
  BY <1>3, <1>5, Zenon
<1> DEFINE a == Stamped(s)
           v == <<>>
           b == [a EXCEPT !.vcl = v, !.codec = flag, !.nonce = n]
<1>8. a \in Streams /\ flag \in BOOLEAN /\ v \in Seq(Nals) /\ n \in Nat
  BY <1>2, <1>3, <1>6, Zenon
<1> HIDE DEF flag, n, a, v
<1>9. b \in Streams
  BY <1>8 DEF Streams
<1>10. b.last = a.last /\ b.nonce = n
  BY <1>8 DEF Streams
<1> QED
  BY <1>3, <1>7, <1>9, <1>10, Zenon DEF n, a, v

(* flush_vcl's own updates after a whole write. *)
LEMMA DoneFields ==
    ASSUME NEW s \in Streams
    PROVE  /\ [s EXCEPT !.key = FALSE, !.codec = FALSE, !.sent = @ + 1] \in Streams
           /\ [s EXCEPT !.key = FALSE, !.codec = FALSE, !.sent = @ + 1].last = s.last
           /\ [s EXCEPT !.key = FALSE, !.codec = FALSE, !.sent = @ + 1].nonce = s.nonce
<1> DEFINE n == s.sent + 1
<1>1. n \in Nat /\ FALSE \in BOOLEAN /\ <<>> \in Seq(Nals)
  BY DEF Streams
<1> HIDE DEF n
<1>2. /\ [s EXCEPT !.key = FALSE, !.codec = FALSE, !.sent = n] \in Streams
      /\ [s EXCEPT !.key = FALSE, !.codec = FALSE, !.sent = n].last = s.last
      /\ [s EXCEPT !.key = FALSE, !.codec = FALSE, !.sent = n].nonce = s.nonce
  BY <1>1, DoneUpdate, Zenon
<1> QED
  BY <1>2, Zenon DEF n

(* What flush_vcl leaves is well typed. *)
LEMMA FlushedType ==
    ASSUME NEW s \in Streams, clock \in Nat, NEW r \in Flushed(s)
    PROVE  r \in Outcomes
<1> DEFINE Done == [Sealed(s, TRUE) EXCEPT !.key = FALSE, !.codec = FALSE, !.sent = @ + 1]
           Config == IF WantsCodec(s) THEN <<Codec(s, TRUE)>> ELSE <<>>
<1>1. FrameTime(s) \in Nat
  BY DEF FrameTime, Streams
<1>2. \A ok \in BOOLEAN : Codec(s, ok) \in Seals /\ Frame(s, ok) \in Seals
  BY <1>1 DEF Codec, Frame, Seals, Streams
<1>3. Stamped(s) \in Streams
  BY <1>1 DEF Stamped, Streams
<1>4. Sealed(s, TRUE) \in Streams /\ Sealed(s, FALSE) \in Streams
  BY SealedFields
<1>5. Done \in Streams
  BY <1>4, DoneFields, Zenon
<1>6. Config \in Seq(Seals)
  <2>1. <<Codec(s, TRUE)>> \in Seq(Seals)
    BY <1>2, ShortSeqs
  <2> QED
    BY <2>1, OptionalSeq
<1>7. \A ok \in BOOLEAN : <<Frame(s, ok)>> \in Seq(Seals) /\ <<Codec(s, ok)>> \in Seq(Seals)
  BY <1>2, ShortSeqs
<1>8. \A ok \in BOOLEAN : Config \o <<Frame(s, ok)>> \in Seq(Seals)
  BY <1>6, <1>7, ConcatProperties
<1>9. \/ r = [st |-> s, out |-> <<>>, ok |-> TRUE]
      \/ r = [st |-> Done, out |-> Config \o <<Frame(s, TRUE)>>, ok |-> TRUE]
      \/ r = [st |-> Sealed(s, FALSE), out |-> Config \o <<Frame(s, FALSE)>>, ok |-> FALSE]
      \/ r = [st |-> Stamped(s), out |-> <<Codec(s, FALSE)>>, ok |-> FALSE]
  BY DEF Flushed
<1> HIDE DEF Done, Config
<1>10. <<>> \in Seq(Seals)
  OBVIOUS
<1>11. \A a \in Streams, b \in Seq(Seals), c \in BOOLEAN : [st |-> a, out |-> b, ok |-> c] \in Outcomes
  BY DEF Outcomes
<1> QED
  BY <1>3, <1>4, <1>5, <1>7, <1>8, <1>9, <1>10, <1>11

(* A flush seals at most one frame, with a nonce and a time that are new and  *)
(* that it leaves behind.                                                     *)
LEMMA FlushedFresh ==
    ASSUME NEW s \in Streams, clock \in Nat, NEW r \in Flushed(s)
    PROVE  /\ s.nonce <= r.st.nonce /\ s.last <= r.st.last
           /\ \A i \in DOMAIN r.out :
                 /\ Behind(r.out[i], r.st)
                 /\ IsFrame(r.out[i]) => s.nonce <= r.out[i].nonce /\ s.last < r.out[i].ts
           /\ \A i, j \in DOMAIN r.out : IsFrame(r.out[i]) /\ IsFrame(r.out[j]) => i = j
<1> DEFINE Done == [Sealed(s, TRUE) EXCEPT !.key = FALSE, !.codec = FALSE, !.sent = @ + 1]
           Config == IF WantsCodec(s) THEN <<Codec(s, TRUE)>> ELSE <<>>
<1>1. FrameTime(s) \in Nat /\ s.last < FrameTime(s) /\ s.nonce \in Nat /\ s.last \in Nat
  BY DEF FrameTime, Streams
<1>2. Stamped(s).last = FrameTime(s) /\ Stamped(s).nonce = s.nonce
  BY DEF Stamped, Streams
<1>3. /\ Sealed(s, FALSE).last = FrameTime(s) /\ Sealed(s, FALSE).nonce = s.nonce + 1
      /\ Done.last = FrameTime(s) /\ Done.nonce = s.nonce + 1
  <2>1. /\ Sealed(s, TRUE) \in Streams
        /\ Sealed(s, TRUE).last = FrameTime(s) /\ Sealed(s, TRUE).nonce = s.nonce + 1
        /\ Sealed(s, FALSE).last = FrameTime(s) /\ Sealed(s, FALSE).nonce = s.nonce + 1
    BY SealedFields
  <2>2. Done.last = Sealed(s, TRUE).last /\ Done.nonce = Sealed(s, TRUE).nonce
    BY <2>1, DoneFields, Zenon
  <2> QED
    BY <2>1, <2>2, Zenon
<1>4. \A ok \in BOOLEAN :
        /\ ~IsFrame(Codec(s, ok))
        /\ IsFrame(Frame(s, ok)) /\ Frame(s, ok).nonce = s.nonce /\ Frame(s, ok).ts = FrameTime(s)
  BY DEF Codec, Frame, IsFrame
<1>5. Config = <<>> \/ Config = <<Codec(s, TRUE)>>
  OBVIOUS
<1> HIDE DEF Config
<1>7. ASSUME NEW ok \in BOOLEAN, NEW i \in DOMAIN (Config \o <<Frame(s, ok)>>),
             IsFrame((Config \o <<Frame(s, ok)>>)[i])
      PROVE  i = Len(Config) + 1 /\ (Config \o <<Frame(s, ok)>>)[i] = Frame(s, ok)
  <2>1. \/ i = Len(Config) + 1 /\ (Config \o <<Frame(s, ok)>>)[i] = Frame(s, ok)
        \/ (Config \o <<Frame(s, ok)>>)[i] = Codec(s, TRUE)
    <3> DEFINE x == Codec(s, TRUE)
               y == Frame(s, ok)
    <3>1. Config = <<>> \/ Config = <<x>>
      BY <1>5
    <3> HIDE DEF x, y
    <3>2. \A k \in DOMAIN (Config \o <<y>>) :
              \/ k = Len(Config) + 1 /\ (Config \o <<y>>)[k] = y
              \/ (Config \o <<y>>)[k] = x
      BY <3>1, LedSeq, Zenon
    <3> QED
      BY <3>2, <1>7, Zenon DEF x, y
  <2> QED
    BY <2>1, <1>4, <1>7
<1>8. CASE r = [st |-> s, out |-> <<>>, ok |-> TRUE]
  BY <1>8, <1>1
<1>9. CASE r = [st |-> Done, out |-> Config \o <<Frame(s, TRUE)>>, ok |-> TRUE]
  <2>1. r.st.last = FrameTime(s) /\ r.st.nonce = s.nonce + 1
    BY <1>9, <1>3
  <2>2. \A i \in DOMAIN r.out : IsFrame(r.out[i]) => i = Len(Config) + 1 /\ r.out[i] = Frame(s, TRUE)
    BY <1>9, <1>7
  <2>3. IsFrame(Frame(s, TRUE)) /\ Frame(s, TRUE).nonce = s.nonce /\ Frame(s, TRUE).ts = FrameTime(s)
    BY <1>4
  <2> DEFINE w == Frame(s, TRUE)
             p == Len(Config) + 1
             time == FrameTime(s)
             after == r.st
             sealed == r.out
  <2>4. /\ time \in Nat /\ s.nonce \in Nat /\ s.last \in Nat /\ s.last < time
        /\ after.nonce = s.nonce + 1 /\ after.last = time /\ w.nonce = s.nonce /\ w.ts = time
        /\ \A i \in DOMAIN sealed : IsFrame(sealed[i]) => i = p /\ sealed[i] = w
    BY <2>1, <2>2, <2>3, <1>1, Zenon
  <2> HIDE DEF w, p, time, after, sealed
  <2>5. /\ s.nonce <= after.nonce /\ s.last <= after.last
        /\ \A i \in DOMAIN sealed :
              /\ Behind(sealed[i], after)
              /\ IsFrame(sealed[i]) => s.nonce <= sealed[i].nonce /\ s.last < sealed[i].ts
        /\ \A i, j \in DOMAIN sealed : IsFrame(sealed[i]) /\ IsFrame(sealed[j]) => i = j
    <3>1. ASSUME NEW i \in DOMAIN sealed, IsFrame(sealed[i])
          PROVE  /\ sealed[i].nonce < after.nonce /\ sealed[i].ts <= after.last
                 /\ s.nonce <= sealed[i].nonce /\ s.last < sealed[i].ts
      BY <2>4, <3>1
    <3>2. \A i, j \in DOMAIN sealed : IsFrame(sealed[i]) /\ IsFrame(sealed[j]) => i = j
      BY <2>4, Zenon
    <3>3. s.nonce <= after.nonce /\ s.last <= after.last
      BY <2>4
    <3> QED
      BY <3>1, <3>2, <3>3 DEF Behind
  <2> QED
    BY <2>5, Zenon DEF after, sealed
<1>10. CASE r = [st |-> Sealed(s, FALSE), out |-> Config \o <<Frame(s, FALSE)>>, ok |-> FALSE]
  <2>1. r.st.last = FrameTime(s) /\ r.st.nonce = s.nonce + 1
    BY <1>10, <1>3
  <2>2. \A i \in DOMAIN r.out : IsFrame(r.out[i]) => i = Len(Config) + 1 /\ r.out[i] = Frame(s, FALSE)
    BY <1>10, <1>7
  <2>3. IsFrame(Frame(s, FALSE)) /\ Frame(s, FALSE).nonce = s.nonce /\ Frame(s, FALSE).ts = FrameTime(s)
    BY <1>4
  <2> DEFINE w == Frame(s, FALSE)
             p == Len(Config) + 1
             time == FrameTime(s)
             after == r.st
             sealed == r.out
  <2>4. /\ time \in Nat /\ s.nonce \in Nat /\ s.last \in Nat /\ s.last < time
        /\ after.nonce = s.nonce + 1 /\ after.last = time /\ w.nonce = s.nonce /\ w.ts = time
        /\ \A i \in DOMAIN sealed : IsFrame(sealed[i]) => i = p /\ sealed[i] = w
    BY <2>1, <2>2, <2>3, <1>1, Zenon
  <2> HIDE DEF w, p, time, after, sealed
  <2>5. /\ s.nonce <= after.nonce /\ s.last <= after.last
        /\ \A i \in DOMAIN sealed :
              /\ Behind(sealed[i], after)
              /\ IsFrame(sealed[i]) => s.nonce <= sealed[i].nonce /\ s.last < sealed[i].ts
        /\ \A i, j \in DOMAIN sealed : IsFrame(sealed[i]) /\ IsFrame(sealed[j]) => i = j
    <3>1. ASSUME NEW i \in DOMAIN sealed, IsFrame(sealed[i])
          PROVE  /\ sealed[i].nonce < after.nonce /\ sealed[i].ts <= after.last
                 /\ s.nonce <= sealed[i].nonce /\ s.last < sealed[i].ts
      BY <2>4, <3>1
    <3>2. \A i, j \in DOMAIN sealed : IsFrame(sealed[i]) /\ IsFrame(sealed[j]) => i = j
      BY <2>4, Zenon
    <3>3. s.nonce <= after.nonce /\ s.last <= after.last
      BY <2>4
    <3> QED
      BY <3>1, <3>2, <3>3 DEF Behind
  <2> QED
    BY <2>5, Zenon DEF after, sealed
<1>11. CASE r = [st |-> Stamped(s), out |-> <<Codec(s, FALSE)>>, ok |-> FALSE]
  <2>1. r.st.last = FrameTime(s) /\ r.st.nonce = s.nonce
    BY <1>11, <1>2
  <2>2. \A i \in DOMAIN r.out : ~IsFrame(r.out[i])
    <3>1. r.out = <<Codec(s, FALSE)>> /\ ~IsFrame(Codec(s, FALSE))
      BY <1>11, <1>4
    <3>2. \A x : DOMAIN <<x>> = {1} /\ <<x>>[1] = x
      OBVIOUS
    <3> QED
      BY <3>1, <3>2
  <2> QED
    BY <2>1, <2>2, <1>1 DEF Behind
<1> QED
  BY <1>8, <1>9, <1>10, <1>11 DEF Flushed, Config
--------------------------------------------------------------------------------
(* Gathering a NAL touches neither nonce nor time. *)
LEMMA TakenType ==
    ASSUME NEW s \in Streams, NEW x \in Nals
    PROVE  Taken(s, x) \in Streams /\ Taken(s, x).nonce = s.nonce /\ Taken(s, x).last = s.last
<1>1. Append(s.vcl, x) \in Seq(Nals)
  BY DEF Streams
<1> QED
  BY <1>1 DEF Taken, Streams, Nals

(* Nothing flushed is an outcome too. *)
LEMMA QuietType ==
    ASSUME NEW s \in Streams
    PROVE  [st |-> s, out |-> <<>>, ok |-> TRUE] \in Outcomes
  BY DEF Outcomes

(* Writing an outcome keeps the types of wire, conn and faults. *)
LEMMA WritesType ==
    ASSUME TypeOK, NEW r \in Outcomes, Writes(r)
    PROVE  wire' \in Seq(Seals) /\ conn' \in {"up", "down"} /\ faults' \in Nat
  BY DEF TypeOK, Outcomes, Writes

LEMMA InitType == Init => TypeOK
<1>1. /\ <<>> \in Seq(Nals) /\ <<>> \in Seq(Seals) /\ Len(<<>>) = 0
      /\ <<>> \in Seq([n : Nat, key : BOOLEAN]) /\ 0 \in 0..MaxClock
  BY BoundsAreNat
<1>2. [sps |-> 0, pps |-> 0, vcl |-> <<>>, key |-> FALSE, codec |-> FALSE,
       sent |-> 0, nonce |-> 0, last |-> 0] \in Streams
  BY <1>1 DEF Streams
<1>3. SUFFICES ASSUME Init PROVE TypeOK
  OBVIOUS
<1>4. /\ encoded = <<>> /\ tail = <<>> /\ todo = <<>> /\ wire = <<>>
      /\ st \in Streams /\ screen = 1 /\ captured = 0 /\ clock = 0 /\ faults = 0
  BY <1>2, <1>3 DEF Init
<1>5. /\ shape \in [aud : BOOLEAN, slices : 1..MaxSlices] /\ idle \in BOOLEAN /\ stop \in BOOLEAN
      /\ pc = "loop" /\ conn = "up"
  BY <1>3, Zenon DEF Init
<1>6. /\ shape \in [aud : BOOLEAN, slices : 1..MaxSlices] /\ st \in Streams
      /\ encoded \in Seq([n : Nat, key : BOOLEAN]) /\ wire \in Seq(Seals)
      /\ tail \in Seq(Nals) /\ Len(tail) = 0 /\ todo \in Seq(Nals)
      /\ clock \in 0..MaxClock /\ idle \in BOOLEAN /\ stop \in BOOLEAN
  BY <1>1, <1>4, <1>5, Zenon
<1>7. screen \in Nat /\ captured \in Nat /\ captured <= screen /\ faults \in Nat
  BY <1>4
<1> QED
  BY <1>5, <1>6, <1>7 DEF TypeOK

(* Every step keeps the variables in their types. *)
LEMMA TypeStep == TypeOK /\ [Next]_vars => TypeOK'
<1> SUFFICES ASSUME TypeOK, [Next]_vars PROVE TypeOK'
  OBVIOUS
<1> USE DEF TypeOK
<1>0. clock \in Nat
  BY BoundsAreNat
<1>1. CASE ProcessNal
  <2>1. Head(todo) \in Nals /\ Tail(todo) \in Seq(Nals)
    BY <1>1 DEF ProcessNal
  <2>2. PICK r \in IF StartsUnit(st, Head(todo)) THEN Flushed(st)
                   ELSE {[st |-> st, out |-> <<>>, ok |-> TRUE]} :
               Writes(r) /\ st' = Taken(r.st, Head(todo))
    BY <1>1 DEF ProcessNal
  <2>3. r \in Outcomes
    BY <2>2, <1>0, FlushedType, QuietType
  <2>4. st' \in Streams
    BY <2>1, <2>2, <2>3, TakenType DEF Outcomes
  <2> QED
    BY <1>1, <2>1, <2>2, <2>3, <2>4, WritesType DEF ProcessNal
<1>2. CASE Pushed
  BY <1>2 DEF Pushed
<1>3. CASE FinishFlush
  <2>1. PICK r \in Flushed(st) :
            /\ Writes(r) /\ st' = r.st
            /\ pc' = IF ~r.ok THEN "failed" ELSE IF pc = "flush" THEN "loop" ELSE "done"
    BY <1>3 DEF FinishFlush
  <2>2. r \in Outcomes
    BY <1>0, <2>1, FlushedType
  <2>3. st' \in Streams /\ pc' \in {"loop", "done", "failed"}
    BY <2>1, <2>2 DEF Outcomes
  <2> QED
    BY <1>3, <2>1, <2>2, <2>3, WritesType DEF FinishFlush
<1>4. CASE Capture
  <2>1. captured' \in Nat /\ captured' <= screen /\ UNCHANGED <<shape, screen, st, clock, stop, wire, conn, faults>>
    BY <1>4 DEF Capture
  <2>2. CASE SkipFrame
    BY <2>1, <2>2 DEF SkipFrame
  <2>3. CASE EncodeFrame
    <3>1. idle' \in BOOLEAN
      BY <2>3 DEF EncodeFrame, Rearm
    <3>2. CASE UNCHANGED <<encoded, tail, todo, pc>>
      BY <2>1, <3>1, <3>2
    <3>3. CASE ~UNCHANGED <<encoded, tail, todo, pc>>
      <4>1. PICK key \in BOOLEAN :
              LET f == [n |-> captured', key |-> key]
                  nals == tail \o AccessUnit(f)
              IN /\ encoded' = Append(encoded, f)
                 /\ todo' = SubSeq(nals, 1, Len(nals) - 1)
                 /\ tail' = <<nals[Len(nals)]>>
                 /\ pc' = "push"
        <5>1. (IF encoded = <<>> THEN {TRUE} ELSE BOOLEAN) \subseteq BOOLEAN
          OBVIOUS
        <5> QED
          BY <2>3, <3>3, <5>1 DEF EncodeFrame
      <4> DEFINE f == [n |-> captured', key |-> key]
                 nals == tail \o AccessUnit(f)
      <4>2. f \in [n : Nat, key : BOOLEAN]
        BY <2>1
      <4>3. AccessUnit(f) \in Seq(Nals) /\ Len(AccessUnit(f)) > 0
        BY <4>2, UnitType DEF Shapes
      <4>4. nals \in Seq(Nals) /\ Len(nals) \in Nat /\ Len(nals) > 0
        BY <4>3, ConcatProperties, LenProperties
      <4>5. nals[Len(nals)] \in Nals
        BY <4>4, ElementOfSeq
      <4>6. SubSeq(nals, 1, Len(nals) - 1) \in Seq(Nals)
        BY <4>4, SubSeqProperties
      <4>7. /\ encoded' = Append(encoded, f) /\ pc' = "push"
            /\ todo' = SubSeq(nals, 1, Len(nals) - 1) /\ tail' = <<nals[Len(nals)]>>
        BY <4>1
      <4> HIDE DEF nals
      <4>8. encoded' \in Seq([n : Nat, key : BOOLEAN])
        BY <4>2, <4>7
      <4>9. tail' \in Seq(Nals) /\ Len(tail') <= 1 /\ todo' \in Seq(Nals)
        BY <4>5, <4>6, <4>7
      <4> QED
        BY <2>1, <3>1, <4>7, <4>8, <4>9
    <3> QED
      BY <3>2, <3>3
  <2> QED
    BY <1>4, <2>2, <2>3 DEF Capture
<1>5. CASE FlushIdle \/ LeaveLoop
  <2>1. todo' = tail /\ tail' = <<>>
    BY <1>5 DEF FlushIdle, LeaveLoop, StartFlush
  <2>2. tail' \in Seq(Nals) /\ Len(tail') = 0 /\ todo' \in Seq(Nals)
    BY <2>1
  <2>3. idle' \in BOOLEAN /\ pc' \in {"flush", "last"}
    BY <1>5 DEF FlushIdle, LeaveLoop
  <2> QED
    BY <1>5, <2>2, <2>3 DEF FlushIdle, LeaveLoop
<1>6. CASE Heartbeat \/ Feedback \/ Abort
  BY <1>6 DEF Heartbeat, Feedback, Abort
<1>7. CASE Desktop \/ Tick \/ CtrlC \/ Reset
  <2>1. CASE Desktop
    BY <2>1, BoundsAreNat DEF Desktop
  <2>2. CASE Tick
    BY <2>2, BoundsAreNat DEF Tick
  <2>3. CASE CtrlC
    BY <2>3 DEF CtrlC
  <2>4. CASE Reset
    BY <2>4 DEF Reset
  <2> QED
    BY <1>7, <2>1, <2>2, <2>3, <2>4
<1>8. CASE UNCHANGED vars
  BY <1>8 DEF vars
<1> QED
  BY <1>1, <1>2, <1>3, <1>4, <1>5, <1>6, <1>7, <1>8 DEF Next, Streamer
--------------------------------------------------------------------------------
(* Writing what a flush sealed keeps nonces and times apart. *)
LEMMA WritesFresh ==
    ASSUME IInv, NEW r \in Flushed(st), Writes(r),
           st'.nonce = r.st.nonce, st'.last = r.st.last, st' \in Streams
    PROVE  Used' /\ SealedOnce' /\ TimestampsIncrease'
<1>0. st \in Streams /\ clock \in Nat /\ wire \in Seq(Seals)
  BY BoundsAreNat DEF IInv, TypeOK
<1>1. r \in Outcomes /\ r.out \in Seq(Seals) /\ r.st \in Streams
  BY <1>0, FlushedType DEF Outcomes
<1>2. wire' = wire \o r.out
  BY DEF Writes
<1>3. /\ st.nonce <= r.st.nonce /\ st.last <= r.st.last
      /\ \A i \in DOMAIN r.out :
            /\ Behind(r.out[i], r.st)
            /\ IsFrame(r.out[i]) => st.nonce <= r.out[i].nonce /\ st.last < r.out[i].ts
      /\ \A i, j \in DOMAIN r.out : IsFrame(r.out[i]) /\ IsFrame(r.out[j]) => i = j
  BY <1>0, FlushedFresh
<1>4. /\ Len(wire) \in Nat /\ DOMAIN wire = 1..Len(wire)
      /\ Len(r.out) \in Nat /\ DOMAIN r.out = 1..Len(r.out)
      /\ DOMAIN wire' = 1..(Len(wire) + Len(r.out))
      /\ \A i \in 1..Len(wire) : wire'[i] = wire[i]
      /\ \A i \in (Len(wire) + 1)..(Len(wire) + Len(r.out)) : wire'[i] = r.out[i - Len(wire)]
  BY <1>0, <1>1, <1>2, ConcatProperties, LenProperties
<1>5. \A i \in DOMAIN wire' :
        \/ i \in DOMAIN wire /\ wire'[i] = wire[i]
        \/ i > Len(wire) /\ i - Len(wire) \in DOMAIN r.out /\ wire'[i] = r.out[i - Len(wire)]
  BY <1>4
<1>6. /\ st.nonce \in Nat /\ st.last \in Nat /\ r.st.nonce \in Nat /\ r.st.last \in Nat
      /\ \A i \in DOMAIN wire : wire[i].nonce \in Nat /\ wire[i].ts \in Nat
      /\ \A i \in DOMAIN r.out : r.out[i].nonce \in Nat /\ r.out[i].ts \in Nat
  <2>1. \A w \in Seals : w.nonce \in Nat /\ w.ts \in Nat
    BY DEF Seals
  <2>2. \A i \in 1..Len(wire) : wire[i] \in Seals
    BY <1>0, ElementOfSeq
  <2>3. \A i \in 1..Len(r.out) : r.out[i] \in Seals
    BY <1>1, ElementOfSeq
  <2> QED
    BY <1>0, <1>1, <1>4, <2>1, <2>2, <2>3 DEF Streams
<1>7. \A i \in DOMAIN wire : IsFrame(wire[i]) => wire[i].nonce < st.nonce /\ wire[i].ts <= st.last
  BY DEF IInv, Used, Behind
<1>8. Used'
  <2>1. \A i \in DOMAIN wire : Behind(wire[i], r.st)
    BY <1>3, <1>6, <1>7 DEF Behind
  <2>2. \A i \in DOMAIN wire' : Behind(wire'[i], r.st)
    BY <1>3, <1>5, <2>1
  <2>3. \A w : Behind(w, st') <=> Behind(w, r.st)
    BY DEF Behind
  <2> QED
    BY <2>2, <2>3 DEF Used
<1>9. ASSUME NEW i \in DOMAIN wire', NEW j \in DOMAIN wire', i < j,
             IsFrame(wire'[i]), IsFrame(wire'[j])
      PROVE  wire'[i].nonce < wire'[j].nonce /\ wire'[i].ts < wire'[j].ts
  <2>1. CASE i \in DOMAIN wire /\ wire'[i] = wire[i] /\ j \in DOMAIN wire /\ wire'[j] = wire[j]
    BY <2>1, <1>9 DEF IInv, SealedOnce, TimestampsIncrease
  <2>2. CASE /\ i \in DOMAIN wire /\ wire'[i] = wire[i]
             /\ j - Len(wire) \in DOMAIN r.out /\ wire'[j] = r.out[j - Len(wire)]
    BY <2>2, <1>9, <1>3, <1>6, <1>7
  <2>3. CASE /\ i - Len(wire) \in DOMAIN r.out /\ wire'[i] = r.out[i - Len(wire)]
             /\ j - Len(wire) \in DOMAIN r.out /\ wire'[j] = r.out[j - Len(wire)]
    <3>1. i - Len(wire) = j - Len(wire)
      BY <2>3, <1>9, <1>3
    <3> QED
      BY <3>1, <1>4, <1>9
  <2>4. i > Len(wire) => j \notin DOMAIN wire
    BY <1>4, <1>9
  <2> QED
    BY <1>5, <1>9, <2>1, <2>2, <2>3, <2>4
<1> QED
  BY <1>8, <1>9 DEF SealedOnce, TimestampsIncrease

(* A step that leaves the wire, the nonce and the time alone keeps them apart. *)
LEMMA QuietFresh ==
    ASSUME IInv, wire' = wire, st'.nonce = st.nonce, st'.last = st.last
    PROVE  Used' /\ SealedOnce' /\ TimestampsIncrease'
  BY DEF IInv, Used, Behind, SealedOnce, TimestampsIncrease

LEMMA InvStep == IInv /\ [Next]_vars => IInv'
<1> SUFFICES ASSUME IInv, [Next]_vars PROVE IInv'
  OBVIOUS
<1>1. TypeOK'
  BY TypeStep DEF IInv
<1>2. st \in Streams /\ clock \in Nat /\ wire \in Seq(Seals) /\ st' \in Streams
  BY <1>1, BoundsAreNat DEF IInv, TypeOK
<1>3. CASE ProcessNal
  <2>1. Head(todo) \in Nals
    BY <1>3 DEF ProcessNal, IInv, TypeOK
  <2>2. PICK r \in IF StartsUnit(st, Head(todo)) THEN Flushed(st)
                   ELSE {[st |-> st, out |-> <<>>, ok |-> TRUE]} :
               Writes(r) /\ st' = Taken(r.st, Head(todo))
    BY <1>3 DEF ProcessNal
  <2>3. CASE StartsUnit(st, Head(todo))
    <3>1. r \in Flushed(st) /\ r.st \in Streams
      BY <1>2, <2>2, <2>3, FlushedType DEF Outcomes
    <3>2. st'.nonce = r.st.nonce /\ st'.last = r.st.last
      BY <2>1, <2>2, <3>1, TakenType
    <3> QED
      BY <1>1, <1>2, <2>2, <3>1, <3>2, WritesFresh DEF IInv
  <2>4. CASE ~StartsUnit(st, Head(todo))
    <3>1. r = [st |-> st, out |-> <<>>, ok |-> TRUE]
      BY <2>2, <2>4
    <3>2. wire' = wire
      BY <1>2, <2>2, <3>1, ConcatEmptySeq DEF Writes
    <3>3. st'.nonce = st.nonce /\ st'.last = st.last
      BY <1>2, <2>1, <2>2, <3>1, TakenType
    <3> QED
      BY <1>1, <3>2, <3>3, QuietFresh DEF IInv
  <2> QED
    BY <2>3, <2>4
<1>4. CASE FinishFlush
  <2>1. PICK r \in Flushed(st) : Writes(r) /\ st' = r.st
    BY <1>4 DEF FinishFlush
  <2> QED
    BY <1>1, <1>2, <2>1, WritesFresh DEF IInv
<1>5. CASE \/ Pushed \/ Capture \/ FlushIdle \/ LeaveLoop \/ Heartbeat \/ Feedback \/ Abort
           \/ Desktop \/ Tick \/ CtrlC \/ Reset \/ UNCHANGED vars
  <2>1. wire' = wire /\ st' = st
    BY <1>5 DEF Pushed, Capture, FlushIdle, LeaveLoop, Heartbeat, Feedback, Abort,
                Desktop, Tick, CtrlC, Reset, vars
  <2> QED
    BY <1>1, <2>1, QuietFresh DEF IInv
<1> QED
  BY <1>3, <1>4, <1>5 DEF Next, Streamer
--------------------------------------------------------------------------------
(* Where the pipeline stands.  The NALs of the frames encoded are taken in    *)
(* order; pos of a unit's NALs taken, the streamer holds what At says.        *)

Delimiters == IF shape.aud THEN 1 ELSE 0
Header(f) == Delimiters + (IF f.key THEN 2 ELSE 0)
UnitLen(f) == Header(f) + shape.slices

(* Frames up to the j-th were sealed, and nothing of the next is held. *)
Empty(s, j) == s.vcl = <<>> /\ s.nonce = j /\ ~s.key

(* Frames before the j-th were sealed, and its first m slices are held, with *)
(* the parameter sets that belong to it if it is a key frame.                *)
Holds(s, j, m) ==
    /\ j \in DOMAIN encoded /\ s.nonce = j - 1 /\ s.key = encoded[j].key
    /\ Len(s.vcl) = m /\ m > 0
    /\ \A i \in 1..m : s.vcl[i] = SlicesOf(encoded[j])[i]
    /\ s.key => s.sps = encoded[j].n /\ s.pps = encoded[j].n

Params(s, f, pos) ==
    f.key => (pos > Delimiters => s.sps = f.n) /\ (pos > Delimiters + 1 => s.pps = f.n)

At(s, j, pos) ==
    /\ j \in DOMAIN encoded /\ pos \in 0..UnitLen(encoded[j]) /\ ~s.codec
    /\ pos = 0 => Empty(s, j - 1) \/ Holds(s, j - 1, shape.slices)
    /\ pos > 0 /\ pos <= Header(encoded[j]) => Empty(s, j - 1) /\ Params(s, encoded[j], pos)
    /\ pos > Header(encoded[j]) => \/ Holds(s, j, pos - Header(encoded[j]))
                                   \/ pos = UnitLen(encoded[j]) /\ Empty(s, j)

Pending == todo \o tail
Newest == Len(encoded)

(* What is still to be taken is the newest unit's rest ...                    *)
InNewest(pos) ==
    /\ At(st, Newest, pos)
    /\ Len(Pending) = UnitLen(encoded[Newest]) - pos
    /\ \A i \in 1..Len(Pending) : Pending[i] = AccessUnit(encoded[Newest])[pos + i]

(* ... or the last NAL of the unit before, kept back by the parser, and all of *)
(* the newest.                                                                 *)
KeptBack ==
    /\ Newest > 1 /\ At(st, Newest - 1, UnitLen(encoded[Newest - 1]) - 1)
    /\ Len(Pending) = 1 + UnitLen(encoded[Newest])
    /\ Pending[1] = AccessUnit(encoded[Newest - 1])[UnitLen(encoded[Newest - 1])]
    /\ \A i \in 1..UnitLen(encoded[Newest]) :
          Pending[i + 1] = AccessUnit(encoded[Newest])[i]

Pipe ==
    \/ Newest = 0 /\ Len(Pending) = 0 /\ Empty(st, 0) /\ ~st.codec
    \/ Newest > 0 /\ \E pos \in 0..UnitLen(encoded[Newest]) : InNewest(pos)
    \/ KeptBack

(* What is given to the parser or the streamer at each place of the loop. *)
Turns == (pc = "loop" => todo = <<>>) /\ (pc \in {"flush", "last"} => tail = <<>>)

(* Frames are named by desktop changes, of which the first is 1. *)
Named == \A i \in DOMAIN encoded : encoded[i].n > 0

(* Frame n of the encoder is what nonce n - 1 sealed, after all those before. *)
SealsUnit(i) ==
    IsFrame(wire[i]) =>
        LET n == wire[i].nonce + 1
        IN /\ n <= Len(encoded)
           /\ wire[i].slices = SlicesOf(encoded[n])
           /\ wire[i].key = encoded[n].key
           /\ \A m \in 0..(n - 2) : \E j \in 1..(i - 1) : IsFrame(wire[j]) /\ wire[j].nonce = m

LedByCodec(i) ==
    wire[i].key =>
        /\ i > 1 /\ wire[i - 1].kind = "codec"
        /\ wire[i - 1].sps = wire[i].slices[1].frame
        /\ wire[i - 1].pps = wire[i].slices[1].frame

Complete == \A m \in 0..(st.nonce - 1) : \E j \in DOMAIN wire : IsFrame(wire[j]) /\ wire[j].nonce = m

Sent == \A i \in DOMAIN wire : SealsUnit(i) /\ LedByCodec(i)

PipeInv == IInv /\ Turns /\ Named /\ (Intact => Pipe /\ Complete /\ Sent)
--------------------------------------------------------------------------------
LEMMA ShapeFacts ==
    ASSUME TypeOK
    PROVE  /\ shape \in Shapes /\ shape.slices \in Nat /\ shape.slices > 0
           /\ Delimiters \in {0, 1}
           /\ \A f : Header(f) \in 0..3 /\ Header(f) >= Delimiters
           /\ \A f : UnitLen(f) \in Nat /\ UnitLen(f) = Header(f) + shape.slices
           /\ \A f : f.key => Header(f) = Delimiters + 2
           /\ \A f : ~f.key => Header(f) = Delimiters
<1>1. shape \in Shapes
  BY DEF TypeOK, Shapes
<1>2. shape.slices \in Nat /\ shape.slices > 0
  BY <1>1, SlicesAreSome DEF Shapes
<1>3. Delimiters \in {0, 1}
  BY DEF Delimiters
<1>4. \A f : (f.key => Header(f) = Delimiters + 2) /\ (~f.key => Header(f) = Delimiters)
  BY <1>3 DEF Header
<1>5. \A f : Header(f) \in 0..3 /\ Header(f) >= Delimiters
  BY <1>3, <1>4
<1>6. \A f : UnitLen(f) \in Nat /\ UnitLen(f) = Header(f) + shape.slices
  BY <1>2, <1>5 DEF UnitLen
<1> QED
  BY <1>1, <1>2, <1>3, <1>4, <1>5, <1>6

LEMMA SlicesFacts ==
    ASSUME TypeOK, NEW f \in [n : Nat, key : BOOLEAN]
    PROVE  /\ SlicesOf(f) \in Seq(Nals) /\ Len(SlicesOf(f)) = shape.slices
           /\ \A i \in 1..shape.slices :
                 SlicesOf(f)[i] = [type |-> IF f.key THEN "idr" ELSE "slice", frame |-> f.n,
                                   first |-> i = 1]
<1>1. shape.slices \in Nat /\ shape.slices > 0
  BY ShapeFacts
<1>2. ASSUME NEW i \in 1..shape.slices
      PROVE  /\ SlicesOf(f)[i] = [type |-> IF f.key THEN "idr" ELSE "slice", frame |-> f.n,
                                  first |-> i = 1]
             /\ SlicesOf(f)[i] \in Nals
  BY <1>1 DEF SlicesOf, Nal, Nals
<1>3. SlicesOf(f) \in [1..shape.slices -> Nals]
  BY <1>2 DEF SlicesOf
<1>4. SlicesOf(f) \in Seq(Nals) /\ Len(SlicesOf(f)) = shape.slices
  BY <1>3, <1>1, SeqDef, LenProperties
<1> QED
  BY <1>2, <1>4

(* Three sequences end to end. *)
LEMMA Concat3 ==
    \A T : \A d \in Seq(T), p \in Seq(T), s \in Seq(T) : \A dl, hl, ul :
        dl = Len(d) /\ hl = dl + Len(p) /\ ul = hl + Len(s) =>
            /\ (d \o p) \o s \in Seq(T) /\ Len((d \o p) \o s) = ul
            /\ \A i \in 1..ul :
                  /\ i <= dl => ((d \o p) \o s)[i] = d[i]
                  /\ i > dl /\ i <= hl => ((d \o p) \o s)[i] = p[i - dl]
                  /\ i > hl => ((d \o p) \o s)[i] = s[i - hl]
<1> SUFFICES ASSUME NEW T, NEW d \in Seq(T), NEW p \in Seq(T), NEW s \in Seq(T),
                    NEW dl, NEW hl, NEW ul,
                    dl = Len(d) /\ hl = dl + Len(p) /\ ul = hl + Len(s)
             PROVE  /\ (d \o p) \o s \in Seq(T) /\ Len((d \o p) \o s) = ul
                    /\ \A i \in 1..ul :
                          /\ i <= dl => ((d \o p) \o s)[i] = d[i]
                          /\ i > dl /\ i <= hl => ((d \o p) \o s)[i] = p[i - dl]
                          /\ i > hl => ((d \o p) \o s)[i] = s[i - hl]
  BY Zenon
<1> DEFINE H == d \o p
<1>1. dl \in Nat /\ hl \in Nat /\ ul \in Nat /\ dl <= hl /\ hl <= ul
  BY LenProperties
<1>2. /\ H \in Seq(T) /\ Len(H) = hl
      /\ \A i \in 1..dl : H[i] = d[i]
      /\ \A i \in (dl + 1)..hl : H[i] = p[i - dl]
  BY ConcatProperties
<1> HIDE DEF H
<1> DEFINE U == H \o s
<1>3. /\ U \in Seq(T) /\ Len(U) = ul
      /\ \A i \in 1..hl : U[i] = H[i]
      /\ \A i \in (hl + 1)..ul : U[i] = s[i - hl]
  BY <1>2, ConcatProperties
<1> HIDE DEF U
<1>4. ASSUME NEW i \in 1..ul
      PROVE  /\ i <= dl => U[i] = d[i]
             /\ i > dl /\ i <= hl => U[i] = p[i - dl]
             /\ i > hl => U[i] = s[i - hl]
  <2>1. i <= hl => U[i] = H[i]
    <3>1. i <= hl => i \in 1..hl
      BY <1>1
    <3> QED
      BY <1>3, <3>1, Zenon
  <2>2. i <= dl => H[i] = d[i]
    <3>1. i <= dl => i \in 1..dl
      BY <1>1
    <3> QED
      BY <1>2, <3>1
  <2>3. i > dl /\ i <= hl => H[i] = p[i - dl]
    <3>1. i > dl /\ i <= hl => i \in (dl + 1)..hl
      BY <1>1
    <3> QED
      BY <1>2, <3>1
  <2>4. i > hl => U[i] = s[i - hl]
    <3>1. i > hl => i \in (hl + 1)..ul
      BY <1>1
    <3> QED
      BY <1>3, <3>1, Zenon
  <2>5. i <= dl => i <= hl
    BY <1>1
  <2> QED
    BY <2>1, <2>2, <2>3, <2>4, <2>5
<1> QED
  BY <1>3, <1>4 DEF U, H

(* A unit, NAL by NAL: its delimiter, its parameter sets, its slices. *)
LEMMA UnitNals ==
    ASSUME TypeOK, NEW f \in [n : Nat, key : BOOLEAN]
    PROVE  /\ AccessUnit(f) \in Seq(Nals) /\ Len(AccessUnit(f)) = UnitLen(f)
           /\ \A i \in 1..UnitLen(f) :
                 /\ i <= Delimiters => AccessUnit(f)[i] = Nal("aud", f.n, FALSE)
                 /\ f.key /\ i = Delimiters + 1 => AccessUnit(f)[i] = Nal("sps", f.n, FALSE)
                 /\ f.key /\ i = Delimiters + 2 => AccessUnit(f)[i] = Nal("pps", f.n, FALSE)
                 /\ i > Header(f) => AccessUnit(f)[i] = SlicesOf(f)[i - Header(f)]
<1> DEFINE D == IF shape.aud THEN <<Nal("aud", f.n, FALSE)>> ELSE <<>>
           P == IF f.key THEN <<Nal("sps", f.n, FALSE), Nal("pps", f.n, FALSE)>> ELSE <<>>
           S == SlicesOf(f)
<1>1. S \in Seq(Nals) /\ Len(S) = shape.slices /\ shape.slices \in Nat
  BY SlicesFacts, ShapeFacts
<1>2. D \in Seq(Nals) /\ Len(D) = Delimiters /\ \A i \in 1..Delimiters : D[i] = Nal("aud", f.n, FALSE)
  <2>1. Nal("aud", f.n, FALSE) \in Nals
    BY DEF Nal, Nals
  <2>2. CASE shape.aud
    <3> DEFINE p == Nal("aud", f.n, FALSE)
    <3>1. p \in Nals
      BY <2>1
    <3> HIDE DEF p
    <3>2. <<p>> \in Seq(Nals) /\ Len(<<p>>) = 1 /\ \A i \in 1..1 : <<p>>[i] = p
      BY <3>1
    <3>3. D = <<p>> /\ Delimiters = 1
      BY <2>2, Zenon DEF p, Delimiters
    <3> QED
      BY <3>2, <3>3 DEF p
  <2>3. CASE ~shape.aud
    BY <2>3, ShortSeqs DEF Delimiters
  <2> QED
    BY <2>2, <2>3
<1>3. /\ P \in Seq(Nals) /\ Delimiters + Len(P) = Header(f)
      /\ f.key => Len(P) = 2 /\ P[1] = Nal("sps", f.n, FALSE) /\ P[2] = Nal("pps", f.n, FALSE)
  <2>1. Nal("sps", f.n, FALSE) \in Nals /\ Nal("pps", f.n, FALSE) \in Nals
    BY DEF Nal, Nals
  <2>2. CASE f.key
    <3> DEFINE p == Nal("sps", f.n, FALSE)
               q == Nal("pps", f.n, FALSE)
    <3>1. p \in Nals /\ q \in Nals
      BY <2>1
    <3> HIDE DEF p, q
    <3>2. <<p, q>> \in Seq(Nals) /\ Len(<<p, q>>) = 2 /\ <<p, q>>[1] = p /\ <<p, q>>[2] = q
      BY <3>1
    <3>3. P = <<p, q>>
      BY <2>2, Zenon DEF p, q
    <3> QED
      BY <2>2, <3>2, <3>3, ShapeFacts DEF p, q
  <2>3. CASE ~f.key
    BY <2>3, ShapeFacts
  <2> QED
    BY <2>2, <2>3
<1>5. AccessUnit(f) = (D \o P) \o S
  BY DEF AccessUnit
<1> DEFINE U == (D \o P) \o S
<1>8. Delimiters \in Nat /\ Header(f) \in Nat /\ UnitLen(f) \in Nat /\ Delimiters <= Header(f)
  BY ShapeFacts
<1>6. Len(D) = Delimiters /\ Header(f) = Delimiters + Len(P) /\ UnitLen(f) = Header(f) + Len(S)
  BY <1>1, <1>2, <1>3, ShapeFacts
<1> HIDE DEF D, P, S
<1>7. /\ U \in Seq(Nals) /\ Len(U) = UnitLen(f)
      /\ \A i \in 1..UnitLen(f) :
            /\ i <= Delimiters => U[i] = D[i]
            /\ i > Delimiters /\ i <= Header(f) => U[i] = P[i - Delimiters]
            /\ i > Header(f) => U[i] = S[i - Header(f)]
  <2> DEFINE dl == Delimiters
             hl == Header(f)
             ul == UnitLen(f)
  <2>1. /\ D \in Seq(Nals) /\ P \in Seq(Nals) /\ S \in Seq(Nals)
        /\ dl = Len(D) /\ hl = dl + Len(P) /\ ul = hl + Len(S)
    BY <1>1, <1>2, <1>3, <1>6
  <2> HIDE DEF dl, hl, ul
  <2>2. U = (D \o P) \o S
    BY DEF U
  <2>3. U \in Seq(Nals) /\ Len(U) = ul
    BY <2>1, <2>2, Concat3
  <2>4. ASSUME NEW i \in 1..ul PROVE i <= dl => U[i] = D[i]
    BY <2>1, <2>2, Concat3
  <2>5. ASSUME NEW i \in 1..ul PROVE i > dl /\ i <= hl => U[i] = P[i - dl]
    BY <2>1, <2>2, Concat3
  <2>6. ASSUME NEW i \in 1..ul PROVE i > hl => U[i] = S[i - hl]
    BY <2>1, <2>2, Concat3
  <2> QED
    BY <2>3, <2>4, <2>5, <2>6, Zenon DEF dl, hl, ul
<1> HIDE DEF U
<1>9. f.key => Header(f) = Delimiters + 2
  BY ShapeFacts
<1>10. ASSUME NEW i \in 1..UnitLen(f)
       PROVE  /\ i <= Delimiters => U[i] = Nal("aud", f.n, FALSE)
              /\ f.key /\ i = Delimiters + 1 => U[i] = Nal("sps", f.n, FALSE)
              /\ f.key /\ i = Delimiters + 2 => U[i] = Nal("pps", f.n, FALSE)
              /\ i > Header(f) => U[i] = S[i - Header(f)]
  <2>5. ASSUME f.key, i = Delimiters + 1
        PROVE  U[i] = Nal("sps", f.n, FALSE)
    <3>1. i <= Header(f) /\ i > Delimiters /\ i - Delimiters = 1
      BY <2>5, <1>8, <1>9
    <3> QED
      BY <2>5, <3>1, <1>3, <1>7
  <2>6. ASSUME f.key, i = Delimiters + 2
        PROVE  U[i] = Nal("pps", f.n, FALSE)
    <3>1. i <= Header(f) /\ i > Delimiters /\ i - Delimiters = 2
      BY <2>6, <1>8, <1>9
    <3> QED
      BY <2>6, <3>1, <1>3, <1>7
  <2>7. i <= Delimiters => U[i] = Nal("aud", f.n, FALSE)
    <3>1. i <= Delimiters => i \in 1..Delimiters
      BY <1>8
    <3> QED
      BY <1>2, <1>7, <3>1
  <2> QED
    BY <1>7, <2>5, <2>6, <2>7
<1> QED
  BY <1>5, <1>7, <1>10, Zenon DEF U, S
--------------------------------------------------------------------------------
LEMMA TakenFields ==
    ASSUME NEW s \in Streams, NEW x \in Nals, NEW t, t = Taken(s, x)
    PROVE  /\ t \in Streams /\ t.nonce = s.nonce /\ t.codec = s.codec
           /\ x.type = "sps" => t.sps = x.frame /\ t.pps = s.pps
           /\ x.type = "pps" => t.pps = x.frame /\ t.sps = s.sps
           /\ x.type \in {"idr", "slice"} => t.vcl = Append(s.vcl, x) /\ t.sps = s.sps /\ t.pps = s.pps
           /\ x.type \in {"aud", "sps", "pps"} => t.vcl = s.vcl
           /\ x.type = "aud" => t.sps = s.sps /\ t.pps = s.pps
           /\ x.type = "idr" => t.key
           /\ x.type # "idr" => t.key = s.key
<1>0. t \in Streams
  BY TakenType
<1>1. CASE x.type = "sps"
  <2>1. t = [s EXCEPT !.sps = x.frame]
    BY <1>1 DEF Taken
  <2> QED
    BY <1>0, <1>1, <2>1 DEF Streams
<1>2. CASE x.type = "pps"
  <2>1. t = [s EXCEPT !.pps = x.frame]
    BY <1>2 DEF Taken
  <2> QED
    BY <1>0, <1>2, <2>1 DEF Streams
<1>3. CASE x.type = "idr"
  <2>1. t = [s EXCEPT !.key = TRUE, !.vcl = Append(s.vcl, x)]
    BY <1>3 DEF Taken
  <2> QED
    BY <1>0, <1>3, <2>1 DEF Streams
<1>4. CASE x.type = "slice"
  <2>1. t = [s EXCEPT !.vcl = Append(s.vcl, x)]
    BY <1>4 DEF Taken
  <2> QED
    BY <1>0, <1>4, <2>1 DEF Streams
<1>5. CASE x.type = "aud"
  <2>1. t = s
    BY <1>5 DEF Taken
  <2> QED
    BY <1>0, <1>5, <2>1 DEF Streams
<1> QED
  BY <1>1, <1>2, <1>3, <1>4, <1>5 DEF Nals

(* send_frame's other fields. *)
LEMMA SealedRest ==
    ASSUME NEW s \in Streams, clock \in Nat
    PROVE  LET done == [Sealed(s, TRUE) EXCEPT !.key = FALSE, !.codec = FALSE, !.sent = @ + 1]
           IN /\ done.vcl = <<>> /\ ~done.key /\ ~done.codec
              /\ done.sps = s.sps /\ done.pps = s.pps /\ done.nonce = s.nonce + 1
<1> DEFINE a == Stamped(s)
           b == Sealed(s, TRUE)
           done == [b EXCEPT !.key = FALSE, !.codec = FALSE, !.sent = @ + 1]
<1>1. FrameTime(s) \in Nat
  BY DEF FrameTime, Streams
<1>2. a \in Streams /\ a.sps = s.sps /\ a.pps = s.pps
  BY <1>1 DEF Stamped, Streams
<1>3. b \in Streams /\ b.nonce = s.nonce + 1
  BY SealedFields
<1>4. b.vcl = <<>> /\ b.sps = a.sps /\ b.pps = a.pps
  <2> HIDE DEF a
  <2> DEFINE flag == a.codec \/ WantsCodec(s)
             n == a.nonce + 1
  <2>1. b = [a EXCEPT !.vcl = <<>>, !.codec = flag, !.nonce = n]
    BY Zenon DEF Sealed, a
  <2> HIDE DEF flag, n, b
  <2> QED
    BY <1>2, <2>1 DEF Streams
<1>5. done.vcl = b.vcl /\ ~done.key /\ ~done.codec /\ done.sps = b.sps /\ done.pps = b.pps /\ done.nonce = b.nonce
  <2> HIDE DEF b
  <2> QED
    BY <1>3 DEF Streams
<1> QED
  BY <1>2, <1>3, <1>4, <1>5

(* A whole unit that is flushed without an error: its codec frame if it is a *)
(* key frame, the frame, and nothing held any more.                          *)
LEMMA FlushedWhole ==
    ASSUME TypeOK, Named, NEW s \in Streams, ~s.codec, NEW j, Holds(s, j, shape.slices),
           NEW r \in Flushed(s), \A i \in DOMAIN r.out : r.out[i].ok
    PROVE  /\ Empty(r.st, j) /\ ~r.st.codec /\ r.st.sps = s.sps /\ r.st.pps = s.pps /\ r.ok
           /\ s.vcl = SlicesOf(encoded[j])
           /\ r.out = (IF s.key THEN <<Codec(s, TRUE)>> ELSE <<>>) \o <<Frame(s, TRUE)>>
<1> DEFINE done == [Sealed(s, TRUE) EXCEPT !.key = FALSE, !.codec = FALSE, !.sent = @ + 1]
           config == IF WantsCodec(s) THEN <<Codec(s, TRUE)>> ELSE <<>>
<1>0. clock \in Nat /\ shape.slices \in Nat /\ shape.slices > 0
  BY BoundsAreNat, ShapeFacts DEF TypeOK
<1>1. j \in DOMAIN encoded /\ encoded[j] \in [n : Nat, key : BOOLEAN] /\ encoded[j].n > 0
  <2>1. j \in DOMAIN encoded
    BY DEF Holds
  <2>2. encoded \in Seq([n : Nat, key : BOOLEAN])
    BY DEF TypeOK
  <2>3. j \in 1..Len(encoded)
    BY <2>1, <2>2, LenProperties
  <2> QED
    BY <2>1, <2>2, <2>3, ElementOfSeq DEF Named
<1>2. s.vcl = SlicesOf(encoded[j])
  <2>1. SlicesOf(encoded[j]) \in Seq(Nals) /\ Len(SlicesOf(encoded[j])) = shape.slices
    BY <1>1, SlicesFacts
  <2>2. s.vcl \in Seq(Nals) /\ Len(s.vcl) = shape.slices
    BY DEF Holds, Streams
  <2>3. \A i \in 1..shape.slices : s.vcl[i] = SlicesOf(encoded[j])[i]
    BY DEF Holds
  <2> QED
    BY <2>1, <2>2, <2>3, SeqEqual
<1>3. s.vcl # <<>>
  BY <1>0 DEF Holds
<1>4. WantsCodec(s) <=> s.key
  BY <1>1 DEF WantsCodec, Holds
<1>5. \/ r = [st |-> done, out |-> config \o <<Frame(s, TRUE)>>, ok |-> TRUE]
      \/ r = [st |-> Sealed(s, FALSE), out |-> config \o <<Frame(s, FALSE)>>, ok |-> FALSE]
      \/ r = [st |-> Stamped(s), out |-> <<Codec(s, FALSE)>>, ok |-> FALSE]
  BY <1>3 DEF Flushed
<1>6. ~Frame(s, FALSE).ok /\ ~Codec(s, FALSE).ok
  BY DEF Frame, Codec
<1> HIDE DEF done, config
<1>7. config = <<>> \/ config = <<Codec(s, TRUE)>>
  BY DEF config
<1>8. r # [st |-> Sealed(s, FALSE), out |-> config \o <<Frame(s, FALSE)>>, ok |-> FALSE]
  <2> DEFINE x == Codec(s, TRUE)
             y == Frame(s, FALSE)
  <2>1. ~y.ok /\ (config = <<>> \/ config = <<x>>)
    BY <1>6, <1>7
  <2> HIDE DEF x, y
  <2>2. \E i \in DOMAIN (config \o <<y>>) : (config \o <<y>>)[i] = y
    <3>1. CASE config = <<>>
      BY <3>1
    <3>2. CASE config = <<x>>
      BY <3>2
    <3> QED
      BY <2>1, <3>1, <3>2
  <2>3. r = [st |-> Sealed(s, FALSE), out |-> config \o <<y>>, ok |-> FALSE] => r.out = config \o <<y>>
    OBVIOUS
  <2> QED
    BY <2>1, <2>2, <2>3, Zenon DEF y
<1>9. r # [st |-> Stamped(s), out |-> <<Codec(s, FALSE)>>, ok |-> FALSE]
  <2> DEFINE y == Codec(s, FALSE)
  <2>1. ~y.ok
    BY <1>6
  <2> HIDE DEF y
  <2>2. 1 \in DOMAIN <<y>> /\ <<y>>[1] = y
    OBVIOUS
  <2>3. r = [st |-> Stamped(s), out |-> <<y>>, ok |-> FALSE] => r.out = <<y>>
    OBVIOUS
  <2> QED
    BY <2>1, <2>2, <2>3, Zenon DEF y
<1>10. r.st = done /\ r.out = config \o <<Frame(s, TRUE)>> /\ r.ok
  <2>1. r = [st |-> done, out |-> config \o <<Frame(s, TRUE)>>, ok |-> TRUE]
    BY <1>5, <1>8, <1>9, Zenon
  <2> DEFINE o == config \o <<Frame(s, TRUE)>>
  <2>2. r = [st |-> done, out |-> o, ok |-> TRUE]
    BY <2>1
  <2> HIDE DEF o
  <2>3. r.st = done /\ r.out = o /\ r.ok
    BY <2>2
  <2> QED
    BY <2>3 DEF o
<1>11. /\ done.vcl = <<>> /\ ~done.key /\ ~done.codec
       /\ done.sps = s.sps /\ done.pps = s.pps /\ done.nonce = s.nonce + 1
  BY <1>0, SealedRest DEF done
<1>12. j \in Nat /\ s.nonce + 1 = j
  <2>1. j \in 1..Len(encoded) /\ Len(encoded) \in Nat
    BY <1>1, LenProperties DEF TypeOK
  <2> QED
    BY <2>1 DEF Holds
<1>13. config = IF s.key THEN <<Codec(s, TRUE)>> ELSE <<>>
  BY <1>4 DEF config
<1> QED
  BY <1>2, <1>10, <1>11, <1>12, <1>13, Zenon DEF Empty

(* When a unit's pos-th NAL was taken, all before is done with.              *)
Ready(s, j, pos) ==
    /\ pos <= Header(encoded[j]) => Empty(s, j - 1) /\ Params(s, encoded[j], pos)
    /\ pos > Header(encoded[j]) => Holds(s, j, pos - Header(encoded[j]))

LEMMA UnitFacts ==
    ASSUME TypeOK, NEW j \in DOMAIN encoded
    PROVE  /\ encoded[j] \in [n : Nat, key : BOOLEAN] /\ j \in Nat /\ j > 0 /\ j <= Len(encoded)
           /\ Len(encoded) \in Nat
           /\ Delimiters \in {0, 1} /\ shape.slices \in Nat /\ shape.slices > 0
           /\ Header(encoded[j]) \in Nat /\ Delimiters <= Header(encoded[j])
           /\ UnitLen(encoded[j]) \in Nat /\ UnitLen(encoded[j]) = Header(encoded[j]) + shape.slices
           /\ encoded[j].key => Header(encoded[j]) = Delimiters + 2
           /\ ~encoded[j].key => Header(encoded[j]) = Delimiters
<1>1. encoded \in Seq([n : Nat, key : BOOLEAN])
  BY DEF TypeOK
<1>2. j \in 1..Len(encoded) /\ Len(encoded) \in Nat
  BY <1>1, LenProperties
<1>3. encoded[j] \in [n : Nat, key : BOOLEAN]
  BY <1>1, <1>2, ElementOfSeq
<1>4. /\ Delimiters \in {0, 1} /\ shape.slices \in Nat /\ shape.slices > 0
      /\ Header(encoded[j]) \in 0..3 /\ Delimiters <= Header(encoded[j])
      /\ UnitLen(encoded[j]) \in Nat /\ UnitLen(encoded[j]) = Header(encoded[j]) + shape.slices
      /\ encoded[j].key => Header(encoded[j]) = Delimiters + 2
      /\ ~encoded[j].key => Header(encoded[j]) = Delimiters
  BY ShapeFacts
<1> QED
  BY <1>2, <1>3, <1>4

(* The NAL after the pos-th, by kind. *)
LEMMA NextNal ==
    ASSUME TypeOK, NEW j \in DOMAIN encoded, NEW pos \in Nat, pos < UnitLen(encoded[j]),
           NEW x, x = AccessUnit(encoded[j])[pos + 1]
    PROVE  /\ x \in Nals
           /\ \/ pos + 1 <= Delimiters /\ x.type = "aud"
              \/ encoded[j].key /\ pos = Delimiters /\ x.type = "sps" /\ x.frame = encoded[j].n
              \/ encoded[j].key /\ pos = Delimiters + 1 /\ x.type = "pps" /\ x.frame = encoded[j].n
              \/ /\ pos >= Header(encoded[j]) /\ x = SlicesOf(encoded[j])[(pos + 1) - Header(encoded[j])]
                 /\ x.type = IF encoded[j].key THEN "idr" ELSE "slice"
                 /\ x.first <=> pos = Header(encoded[j])
<1> DEFINE f == encoded[j]
           h == Header(f)
<1>1. /\ f \in [n : Nat, key : BOOLEAN] /\ Delimiters \in {0, 1}
      /\ shape.slices \in Nat /\ h \in Nat /\ Delimiters <= h
      /\ UnitLen(f) \in Nat /\ UnitLen(f) = h + shape.slices
      /\ f.key => h = Delimiters + 2
      /\ ~f.key => h = Delimiters
  BY UnitFacts
<1>2. pos + 1 \in 1..UnitLen(f)
  BY <1>1
<1>3. /\ AccessUnit(f) \in Seq(Nals) /\ Len(AccessUnit(f)) = UnitLen(f)
      /\ pos + 1 <= Delimiters => x = Nal("aud", f.n, FALSE)
      /\ f.key /\ pos + 1 = Delimiters + 1 => x = Nal("sps", f.n, FALSE)
      /\ f.key /\ pos + 1 = Delimiters + 2 => x = Nal("pps", f.n, FALSE)
      /\ pos + 1 > h => x = SlicesOf(f)[(pos + 1) - h]
  <2> DEFINE u == AccessUnit(f)
             sl == SlicesOf(f)
             aud == Nal("aud", f.n, FALSE)
             sps == Nal("sps", f.n, FALSE)
             pps == Nal("pps", f.n, FALSE)
  <2>1. /\ u \in Seq(Nals) /\ Len(u) = UnitLen(f)
        /\ \A i \in 1..UnitLen(f) :
              /\ i <= Delimiters => u[i] = aud
              /\ f.key /\ i = Delimiters + 1 => u[i] = sps
              /\ f.key /\ i = Delimiters + 2 => u[i] = pps
              /\ i > h => u[i] = sl[i - h]
    BY <1>1, UnitNals
  <2>2. x = u[pos + 1]
    OBVIOUS
  <2> HIDE DEF u, sl, aud, sps, pps
  <2>3. /\ pos + 1 <= Delimiters => x = aud
        /\ f.key /\ pos + 1 = Delimiters + 1 => x = sps
        /\ f.key /\ pos + 1 = Delimiters + 2 => x = pps
        /\ pos + 1 > h => x = sl[(pos + 1) - h]
    <3> DEFINE q == pos + 1
    <3>1. q \in 1..UnitLen(f) /\ x = u[q]
      BY <1>2, <2>2
    <3> HIDE DEF q
    <3>2. /\ q <= Delimiters => x = aud
          /\ f.key /\ q = Delimiters + 1 => x = sps
          /\ f.key /\ q = Delimiters + 2 => x = pps
          /\ q > h => x = sl[q - h]
      BY <2>1, <3>1, Zenon
    <3> QED
      BY <3>2, Zenon DEF q
  <2> QED
    BY <2>1, <2>3, Zenon DEF u, sl, aud, sps, pps
<1>4. x \in Nals
  BY <1>2, <1>3, ElementOfSeq
<1>5. CASE pos + 1 <= Delimiters
  BY <1>3, <1>4, <1>5 DEF Nal
<1>6. CASE pos >= h
  <2>1. (pos + 1) - h \in 1..shape.slices /\ x = SlicesOf(f)[(pos + 1) - h]
    BY <1>1, <1>3, <1>6
  <2>2. x = [type |-> IF f.key THEN "idr" ELSE "slice", frame |-> f.n, first |-> (pos + 1) - h = 1]
    BY <2>1, <1>1, SlicesFacts
  <2>3. (pos + 1) - h = 1 <=> pos = h
    BY <1>1
  <2> DEFINE t == IF f.key THEN "idr" ELSE "slice"
             b == (pos + 1) - h = 1
  <2>4. x = [type |-> t, frame |-> f.n, first |-> b] /\ (b <=> pos = h)
    BY <2>2, <2>3
  <2>5. x.type = t
    <3> HIDE DEF t, b
    <3> QED
      BY <2>4
  <2>6. x.first <=> pos = h
    <3> HIDE DEF t, b
    <3>1. x.first = b
      BY <2>4
    <3> QED
      BY <2>4, <3>1, Zenon
  <2> QED
    BY <1>4, <1>6, <2>1, <2>5, <2>6
<1>7. CASE Delimiters <= pos /\ pos < h
  <2>1. f.key /\ (pos = Delimiters \/ pos = Delimiters + 1)
    BY <1>1, <1>7
  <2>2. pos = Delimiters => x = Nal("sps", f.n, FALSE)
    BY <1>1, <1>3, <2>1
  <2>3. pos = Delimiters + 1 => x = Nal("pps", f.n, FALSE)
    <3>1. pos = Delimiters + 1 => pos + 1 = Delimiters + 2
      BY <1>1
    <3> QED
      BY <1>3, <2>1, <3>1, Zenon
  <2> QED
    BY <1>4, <2>1, <2>2, <2>3 DEF Nal
<1> QED
  BY <1>1, <1>5, <1>6, <1>7

(* The unit held is ended by the next unit's first NAL and by no other. *)
LEMMA StartsOnce ==
    ASSUME TypeOK, NEW j \in DOMAIN encoded, NEW pos \in Nat, pos < UnitLen(encoded[j]),
           NEW s \in Streams, At(s, j, pos), NEW x, x = AccessUnit(encoded[j])[pos + 1]
    PROVE  /\ StartsUnit(s, x) <=> pos = 0 /\ s.vcl # <<>>
           /\ StartsUnit(s, x) => Holds(s, j - 1, shape.slices)
           /\ ~StartsUnit(s, x) => Ready(s, j, pos)
<1> DEFINE f == encoded[j]
           h == Header(f)
<1>1. /\ f \in [n : Nat, key : BOOLEAN] /\ Delimiters \in {0, 1}
      /\ shape.slices \in Nat /\ shape.slices > 0 /\ h \in Nat /\ Delimiters <= h
      /\ UnitLen(f) \in Nat /\ UnitLen(f) = h + shape.slices
      /\ f.key => h = Delimiters + 2
      /\ ~f.key => h = Delimiters
  BY UnitFacts
<1>2. /\ x \in Nals
      /\ \/ pos + 1 <= Delimiters /\ x.type = "aud"
         \/ f.key /\ pos = Delimiters /\ x.type = "sps" /\ x.frame = f.n
         \/ f.key /\ pos = Delimiters + 1 /\ x.type = "pps" /\ x.frame = f.n
         \/ /\ pos >= h /\ x = SlicesOf(f)[(pos + 1) - h]
            /\ x.type = IF f.key THEN "idr" ELSE "slice"
            /\ x.first <=> pos = h
  BY NextNal
<1>3. CASE pos = 0 /\ s.vcl # <<>>
  <2>1. Holds(s, j - 1, shape.slices)
    BY <1>3 DEF At, Empty
  <2>2. x.type \in {"aud", "sps"} \/ (x.type = "slice" /\ x.first)
    BY <1>1, <1>2, <1>3
  <2> QED
    BY <1>3, <2>1, <2>2 DEF StartsUnit
<1>4. CASE pos = 0 /\ s.vcl = <<>>
  <2>1. Empty(s, j - 1)
    BY <1>1, <1>4 DEF At, Holds
  <2>2. Params(s, f, pos) /\ ~(pos > h)
    BY <1>1, <1>4 DEF Params
  <2> QED
    BY <1>4, <2>1, <2>2 DEF StartsUnit, Ready
<1>5. CASE pos > 0 /\ pos <= h
  BY <1>1, <1>5 DEF At, Empty, StartsUnit, Ready
<1>6. CASE pos > h
  <2>1. Holds(s, j, pos - h)
    BY <1>1, <1>6 DEF At
  <2>2. /\ pos >= h /\ x.type = IF f.key THEN "idr" ELSE "slice"
        /\ ~x.first
    BY <1>1, <1>2, <1>6
  <2>3. s.key = f.key
    BY <2>1 DEF Holds
  <2>4. ~StartsUnit(s, x)
    BY <2>2, <2>3, <1>1 DEF StartsUnit
  <2> QED
    BY <1>1, <1>6, <2>1, <2>4 DEF Ready
<1> QED
  BY <1>1, <1>3, <1>4, <1>5, <1>6

(* Taking the next NAL moves on by one place. *)
LEMMA TakeNext ==
    ASSUME TypeOK, NEW j \in DOMAIN encoded, NEW pos \in Nat, pos < UnitLen(encoded[j]),
           NEW s \in Streams, ~s.codec, Ready(s, j, pos),
           NEW x, x = AccessUnit(encoded[j])[pos + 1]
    PROVE  At(Taken(s, x), j, pos + 1)
<1> DEFINE f == encoded[j]
           h == Header(f)
           t == Taken(s, x)
<1>1. /\ f \in [n : Nat, key : BOOLEAN] /\ Delimiters \in {0, 1} /\ j \in Nat
      /\ shape.slices \in Nat /\ shape.slices > 0 /\ h \in Nat /\ Delimiters <= h
      /\ UnitLen(f) \in Nat /\ UnitLen(f) = h + shape.slices
      /\ f.key => h = Delimiters + 2
      /\ ~f.key => h = Delimiters
  BY UnitFacts
<1>2. /\ x \in Nals
      /\ \/ pos + 1 <= Delimiters /\ x.type = "aud"
         \/ f.key /\ pos = Delimiters /\ x.type = "sps" /\ x.frame = f.n
         \/ f.key /\ pos = Delimiters + 1 /\ x.type = "pps" /\ x.frame = f.n
         \/ /\ pos >= h /\ x = SlicesOf(f)[(pos + 1) - h]
            /\ x.type = IF f.key THEN "idr" ELSE "slice"
            /\ x.first <=> pos = h
  BY NextNal
<1>3. /\ t \in Streams /\ t.nonce = s.nonce /\ t.codec = s.codec
      /\ x.type = "sps" => t.sps = x.frame /\ t.pps = s.pps
      /\ x.type = "pps" => t.pps = x.frame /\ t.sps = s.sps
      /\ x.type \in {"idr", "slice"} => t.vcl = Append(s.vcl, x) /\ t.sps = s.sps /\ t.pps = s.pps
      /\ x.type \in {"aud", "sps", "pps"} => t.vcl = s.vcl
      /\ x.type = "aud" => t.sps = s.sps /\ t.pps = s.pps
      /\ x.type = "idr" => t.key
      /\ x.type # "idr" => t.key = s.key
  BY <1>2, TakenFields
<1> HIDE DEF t
<1>4. pos + 1 \in 0..UnitLen(f) /\ pos + 1 > 0
  BY <1>1
<1>5. CASE pos + 1 <= h
  <2>1. Empty(s, j - 1) /\ Params(s, f, pos)
    BY <1>1, <1>5 DEF Ready
  <2>2. x.type \in {"aud", "sps", "pps"}
    BY <1>1, <1>2, <1>5
  <2>3. Empty(t, j - 1)
    BY <1>3, <2>1, <2>2 DEF Empty
  <2>4. Params(t, f, pos + 1)
    BY <1>1, <1>2, <1>3, <1>5, <2>1 DEF Params
  <2> QED
    <3>1. At(t, j, pos + 1)
      BY <1>1, <1>3, <1>4, <1>5, <2>3, <2>4 DEF At
    <3> QED
      BY <3>1 DEF t
<1>6. CASE pos >= h
  <2> DEFINE m == (pos + 1) - h
  <2>1. /\ x = SlicesOf(f)[m] /\ x.type = IF f.key THEN "idr" ELSE "slice"
        /\ m \in Nat /\ m > 0 /\ m <= shape.slices
    BY <1>1, <1>2, <1>6
  <2>2. /\ s.nonce = j - 1 /\ s.vcl \in Seq(Nals) /\ Len(s.vcl) = m - 1
        /\ \A i \in 1..(m - 1) : s.vcl[i] = SlicesOf(f)[i]
        /\ f.key => s.sps = f.n /\ s.pps = f.n
        /\ s.key => f.key
        /\ ~f.key => ~s.key
    <3>1. s.vcl \in Seq(Nals)
      BY DEF Streams
    <3>2. CASE pos = h
      <4>1. Empty(s, j - 1) /\ Params(s, f, pos)
        BY <1>1, <3>2 DEF Ready
      <4>2. m - 1 = 0
        BY <1>1, <3>2
      <4>3. f.key => s.sps = f.n /\ s.pps = f.n
        BY <1>1, <3>2, <4>1 DEF Params
      <4> QED
        BY <3>1, <4>1, <4>2, <4>3 DEF Empty
    <3>3. CASE pos > h
      <4>1. Holds(s, j, pos - h)
        BY <1>1, <3>3 DEF Ready
      <4>2. m - 1 = pos - h
        BY <1>1
      <4> QED
        BY <3>1, <4>1, <4>2 DEF Holds
    <3> QED
      BY <1>1, <1>6, <3>2, <3>3
  <2>3. t.vcl = Append(s.vcl, x) /\ t.sps = s.sps /\ t.pps = s.pps
    BY <1>3, <2>1
  <2>4. t.key = f.key
    <3>1. CASE f.key
      BY <1>1, <1>3, <2>1, <3>1 DEF Streams
    <3>2. CASE ~f.key
      BY <1>1, <1>3, <2>1, <2>2, <3>2 DEF Streams
    <3> QED
      BY <3>1, <3>2
  <2> HIDE DEF m
  <2>5. Len(t.vcl) = m /\ \A i \in 1..m : t.vcl[i] = SlicesOf(f)[i]
    <3> DEFINE v == s.vcl
               sl == SlicesOf(f)
    <3>1. v \in Seq(Nals) /\ Len(v) = m - 1 /\ x = sl[m] /\ \A i \in 1..(m - 1) : v[i] = sl[i]
      BY <2>1, <2>2
    <3> HIDE DEF v, sl
    <3>2. Len(Append(v, x)) = m /\ \A i \in 1..m : Append(v, x)[i] = sl[i]
      BY <1>2, <2>1, <3>1, AppendProperties
    <3> QED
      BY <2>3, <3>2 DEF v, sl
  <2>6. Holds(t, j, m)
    BY <1>3, <2>1, <2>2, <2>3, <2>4, <2>5 DEF Holds
  <2> QED
    <3>1. At(t, j, pos + 1)
      BY <1>1, <1>3, <1>4, <1>6, <2>6 DEF At, m
    <3> QED
      BY <3>1 DEF t
<1> QED
  BY <1>1, <1>5, <1>6
--------------------------------------------------------------------------------
(* What Sent and Complete say of the wire survives a step that leaves the   *)
(* wire and the nonce alone.                                                *)
LEMMA QuietSent ==
    ASSUME TypeOK, Complete, Sent, wire' = wire, st'.nonce = st.nonce, shape' = shape,
           \/ encoded' = encoded
           \/ \E f : encoded' = Append(encoded, f)
    PROVE  Complete' /\ Sent'
<1>1. encoded \in Seq([n : Nat, key : BOOLEAN]) /\ Len(encoded) \in Nat
  BY LenProperties DEF TypeOK
<1>2. Len(encoded) <= Len(encoded)' /\ Len(encoded)' \in Nat
  BY <1>1
<1>3. \A n \in 1..Len(encoded) : encoded'[n] = encoded[n]
  BY <1>1
<1>4. \A f : SlicesOf(f)' = SlicesOf(f)
  BY DEF SlicesOf
<1>5. ASSUME NEW i \in DOMAIN wire PROVE SealsUnit(i)' /\ LedByCodec(i)'
  <2>1. SealsUnit(i) /\ LedByCodec(i)
    BY <1>5 DEF Sent
  <2>2. LedByCodec(i)'
    BY <2>1 DEF LedByCodec
  <2>3. CASE IsFrame(wire[i])
    <3> DEFINE n == wire[i].nonce + 1
    <3>1. /\ n <= Len(encoded) /\ wire[i].slices = SlicesOf(encoded[n])
          /\ wire[i].key = encoded[n].key
          /\ \A m \in 0..(n - 2) : \E k \in 1..(i - 1) : IsFrame(wire[k]) /\ wire[k].nonce = m
      BY <2>1, <2>3 DEF SealsUnit
    <3>2. n \in 1..Len(encoded)
      <4>1. wire[i].nonce \in Nat
        <5>1. wire \in Seq(Seals)
          BY DEF TypeOK
        <5>2. wire[i] \in Seals
          BY <1>5, <5>1, ElementOfSeq, LenProperties
        <5> QED
          BY <5>2 DEF Seals
      <4> QED
        BY <1>1, <3>1, <4>1
    <3>3. encoded'[n] = encoded[n] /\ n <= Len(encoded)'
      BY <1>1, <1>2, <1>3, <3>1, <3>2
    <3> QED
      BY <1>4, <2>2, <3>1, <3>3 DEF SealsUnit, IsFrame
  <2>4. CASE ~IsFrame(wire[i])
    BY <2>2, <2>4 DEF SealsUnit, IsFrame
  <2> QED
    BY <2>3, <2>4
<1>6. Complete'
  BY DEF Complete, IsFrame
<1> QED
  BY <1>5, <1>6 DEF Sent

(* The wire after a write: the old seals, then the new. *)
LEMMA WrittenAt ==
    ASSUME TypeOK, NEW o \in Seq(Seals), wire' = wire \o o
    PROVE  /\ Len(wire) \in Nat /\ Len(o) \in Nat /\ DOMAIN wire = 1..Len(wire) /\ DOMAIN o = 1..Len(o)
           /\ DOMAIN wire' = 1..(Len(wire) + Len(o))
           /\ \A i \in 1..Len(wire) : wire'[i] = wire[i]
           /\ \A i \in 1..Len(o) : wire'[Len(wire) + i] = o[i]
<1>1. wire \in Seq(Seals)
  BY DEF TypeOK
<1> QED
  BY <1>1, ConcatProperties, LenProperties

LEMMA IntactSplit ==
    ASSUME TypeOK, NEW o \in Seq(Seals), wire' = wire \o o, Intact'
    PROVE  Intact /\ \A i \in DOMAIN o : o[i].ok
<1>1. \A i \in 1..Len(wire) : wire'[i] = wire[i] /\ i \in DOMAIN wire'
  BY WrittenAt
<1>2. \A i \in 1..Len(o) : wire'[Len(wire) + i] = o[i] /\ Len(wire) + i \in DOMAIN wire'
  BY WrittenAt
<1>3. DOMAIN wire = 1..Len(wire) /\ DOMAIN o = 1..Len(o)
  BY WrittenAt
<1> QED
  BY <1>1, <1>2, <1>3 DEF Intact

LEMMA FlushedSent ==
    ASSUME TypeOK, Named, Complete, Sent, ~st.codec, NEW j, Holds(st, j, shape.slices),
           NEW r \in Flushed(st), Writes(r), Intact', st'.nonce = r.st.nonce,
           encoded' = encoded, shape' = shape
    PROVE  /\ Complete' /\ Sent'
           /\ Empty(r.st, j) /\ ~r.st.codec /\ r.st.sps = st.sps /\ r.st.pps = st.pps /\ r.ok
<1> DEFINE C == Codec(st, TRUE)
           F == Frame(st, TRUE)
           L == Len(wire)
           o == r.out
<1>1. st \in Streams /\ clock \in Nat
  BY BoundsAreNat DEF TypeOK
<1>2. o \in Seq(Seals) /\ wire' = wire \o o
  BY <1>1, FlushedType DEF Outcomes, Writes
<1>3. \A i \in DOMAIN o : o[i].ok
  BY <1>2, IntactSplit
<1>4. /\ Empty(r.st, j) /\ ~r.st.codec /\ r.st.sps = st.sps /\ r.st.pps = st.pps /\ r.ok
      /\ st.vcl = SlicesOf(encoded[j])
      /\ o = (IF st.key THEN <<C>> ELSE <<>>) \o <<F>>
  BY <1>1, <1>3, FlushedWhole
<1>5. /\ L \in Nat /\ DOMAIN wire = 1..L /\ DOMAIN wire' = 1..(L + Len(o))
      /\ \A i \in 1..L : wire'[i] = wire[i]
      /\ \A i \in 1..Len(o) : wire'[L + i] = o[i]
  BY <1>2, WrittenAt
<1>6. j \in DOMAIN encoded /\ st.nonce = j - 1 /\ st.key = encoded[j].key /\ (st.key => st.sps = encoded[j].n /\ st.pps = encoded[j].n)
  BY DEF Holds
<1>7. /\ encoded[j] \in [n : Nat, key : BOOLEAN] /\ j \in Nat /\ j > 0 /\ j <= Len(encoded)
      /\ shape.slices \in Nat /\ shape.slices > 0 /\ Len(encoded) \in Nat
  BY <1>6, UnitFacts
<1>8. /\ F.kind = "vcl" /\ F.nonce = j - 1 /\ F.slices = SlicesOf(encoded[j]) /\ F.key = encoded[j].key
      /\ C.kind = "codec" /\ C.sps = st.sps /\ C.pps = st.pps /\ ~C.key
  BY <1>4, <1>6 DEF Frame, Codec
<1>9. SlicesOf(encoded[j])[1].frame = encoded[j].n
  <2>1. 1 \in 1..shape.slices
    BY <1>7
  <2> QED
    <3>1. \A i \in 1..shape.slices :
             SlicesOf(encoded[j])[i] = [type |-> IF encoded[j].key THEN "idr" ELSE "slice",
                                        frame |-> encoded[j].n, first |-> i = 1]
      BY <1>7, SlicesFacts
    <3> DEFINE t == IF encoded[j].key THEN "idr" ELSE "slice"
               b == 1 = 1
               x == SlicesOf(encoded[j])[1]
    <3>2. x = [type |-> t, frame |-> encoded[j].n, first |-> b]
      BY <2>1, <3>1, Zenon
    <3> HIDE DEF t, b, x
    <3>3. x.frame = encoded[j].n
      BY <3>2
    <3> QED
      BY <3>3 DEF x
<1>10. \A f : SlicesOf(f)' = SlicesOf(f)
  BY DEF SlicesOf
<1> HIDE DEF C, F, L, o
(* The position of the new frame, and what precedes it. *)
<1>11. \E p \in Nat :
          /\ p >= 1 /\ Len(o) = p /\ wire'[L + p] = F
          /\ \A i \in 1..(p - 1) : wire'[L + i] = C
          /\ F.key => p = 2
  <2>1. CASE st.key
    <3>1. o = <<C>> \o <<F>>
      BY <1>4, <2>1
    <3>2. Len(o) = 2 /\ o[1] = C /\ o[2] = F
      BY <3>1
    <3>3. wire'[L + 1] = C /\ wire'[L + 2] = F
      BY <1>5, <3>2
    <3>4. \A i \in 1..(2 - 1) : i = 1
      OBVIOUS
    <3> QED
      BY <3>2, <3>3, <3>4
  <2>2. CASE ~st.key
    <3>1. o = <<>> \o <<F>>
      BY <1>4, <2>2
    <3>2. Len(o) = 1 /\ o[1] = F
      BY <3>1
    <3>3. wire'[L + 1] = F
      BY <1>5, <3>2
    <3>4. ~F.key /\ \A i \in 1..(1 - 1) : FALSE
      BY <1>6, <1>8, <2>2
    <3> QED
      BY <3>2, <3>3, <3>4
  <2> QED
    BY <2>1, <2>2
<1>12. PICK p \in Nat :
          /\ p >= 1 /\ Len(o) = p /\ wire'[L + p] = F
          /\ \A i \in 1..(p - 1) : wire'[L + i] = C
          /\ F.key => p = 2
  BY <1>11
<1>13. L + p \in DOMAIN wire' /\ L + p > L /\ \A i \in DOMAIN wire' : i \in 1..L \/ i = L + p \/ i - L \in 1..(p - 1)
  <2>1. L + p \in DOMAIN wire' /\ L + p > L
    BY <1>5, <1>12
  <2>2. ASSUME NEW i \in DOMAIN wire' PROVE i \in 1..L \/ i = L + p \/ i - L \in 1..(p - 1)
    <3>1. i \in 1..(L + p)
      BY <1>5, <1>12
    <3>2. L \in Nat /\ p \in Nat
      BY <1>5, <1>12
    <3> QED
      BY <3>1, <3>2
  <2> QED
    BY <2>1, <2>2
<1>14. \A m \in 0..(j - 2) : \E k \in 1..L : IsFrame(wire'[k]) /\ wire'[k].nonce = m
  <2>1. \A m \in 0..(j - 2) : m \in 0..(st.nonce - 1)
    BY <1>6, <1>7
  <2> QED
    BY <1>5, <2>1 DEF Complete
<1>15. ASSUME NEW i \in DOMAIN wire' PROVE SealsUnit(i)'
  <2>1. CASE i \in 1..L
    <3>1. SealsUnit(i)
      BY <1>5, <2>1 DEF Sent
    <3>2. \A k \in 1..i : wire'[k] = wire[k]
      BY <1>5, <2>1
    <3>3. wire'[i] = wire[i] /\ \A k \in 1..(i - 1) : wire'[k] = wire[k]
      BY <2>1, <1>5
    <3> QED
      BY <1>10, <3>1, <3>3 DEF SealsUnit, IsFrame
  <2>2. CASE i = L + p
    <3>1. wire'[i] = F /\ F.nonce + 1 = j
      BY <1>7, <1>8, <1>12, <2>2
    <3>2. \A m \in 0..(j - 2) : \E k \in 1..(i - 1) : IsFrame(wire'[k]) /\ wire'[k].nonce = m
      <4>1. \A k \in 1..L : k \in 1..(i - 1)
        BY <1>5, <1>12, <2>2
      <4> QED
        BY <1>14, <4>1
    <3> QED
      BY <1>7, <1>8, <1>10, <3>1, <3>2 DEF SealsUnit, IsFrame
  <2>3. CASE i - L \in 1..(p - 1)
    <3>1. wire'[i] = C
      <4>1. L + (i - L) = i
        BY <1>5, <1>13
      <4> QED
        BY <1>12, <2>3, <4>1
    <3> QED
      BY <1>8, <3>1 DEF SealsUnit, IsFrame
  <2> QED
    BY <1>13, <2>1, <2>2, <2>3
<1>16. ASSUME NEW i \in DOMAIN wire' PROVE LedByCodec(i)'
  <2>1. CASE i \in 1..L
    <3>1. LedByCodec(i)
      BY <1>5, <2>1 DEF Sent
    <3>2. wire'[i] = wire[i] /\ (i > 1 => wire'[i - 1] = wire[i - 1])
      BY <1>5, <2>1
    <3> QED
      BY <3>1, <3>2 DEF LedByCodec
  <2>2. CASE i = L + p
    <3>1. wire'[i] = F
      BY <1>12, <2>2
    <3>2. ASSUME F.key PROVE /\ i > 1 /\ wire'[i - 1] = C
                             /\ C.sps = F.slices[1].frame /\ C.pps = F.slices[1].frame
      <4>1. p = 2 /\ i - 1 = L + 1 /\ 1 \in 1..(p - 1) /\ i > 1
        BY <1>5, <1>12, <2>2, <3>2
      <4>2. wire'[i - 1] = C
        BY <1>12, <4>1
      <4> QED
        BY <1>6, <1>8, <1>9, <3>2, <4>1, <4>2
    <3> QED
      BY <1>8, <3>1, <3>2 DEF LedByCodec
  <2>3. CASE i - L \in 1..(p - 1)
    <3>1. wire'[i] = C
      <4>1. L + (i - L) = i
        BY <1>5, <1>13
      <4> QED
        BY <1>12, <2>3, <4>1
    <3> QED
      BY <1>8, <3>1 DEF LedByCodec
  <2> QED
    BY <1>13, <2>1, <2>2, <2>3
<1>17. Complete'
  <2>1. st'.nonce = j
    BY <1>4 DEF Empty
  <2>2. ASSUME NEW m \in 0..(j - 1)
        PROVE  \E k \in DOMAIN wire' : IsFrame(wire'[k]) /\ wire'[k].nonce = m
    <3>1. CASE m \in 0..(j - 2)
      <4>1. \A k \in 1..L : k \in DOMAIN wire'
        BY <1>5, <1>12
      <4> QED
        BY <1>14, <3>1, <4>1
    <3>2. CASE m = j - 1
      BY <1>8, <1>12, <1>13, <3>2 DEF IsFrame
    <3> QED
      BY <1>7, <3>1, <3>2
  <2> QED
    BY <2>1, <2>2 DEF Complete, IsFrame
<1> QED
  BY <1>4, <1>15, <1>16, <1>17 DEF Sent
--------------------------------------------------------------------------------
(* Where the streamer stands does not depend on frames encoded later. *)
LEMMA AtGrows ==
    ASSUME TypeOK, shape' = shape, NEW s, NEW j \in DOMAIN encoded, NEW pos, At(s, j, pos),
           \/ encoded' = encoded
           \/ \E f : encoded' = Append(encoded, f),
           st' = s
    PROVE  At(st, j, pos)'
<1>1. /\ encoded \in Seq([n : Nat, key : BOOLEAN]) /\ Len(encoded) \in Nat
      /\ DOMAIN encoded = 1..Len(encoded)
  BY LenProperties DEF TypeOK
<1>2. /\ \A i \in DOMAIN encoded : i \in DOMAIN encoded' /\ encoded'[i] = encoded[i]
  BY <1>1
<1>3. Delimiters' = Delimiters
  BY DEF Delimiters
<1>4. \A f : Header(f)' = Header(f) /\ UnitLen(f)' = UnitLen(f) /\ SlicesOf(f)' = SlicesOf(f)
  BY <1>3 DEF Header, UnitLen, SlicesOf
<1>5. \A i, m : Holds(s, i, m) => Holds(st, i, m)'
  BY <1>2, <1>4 DEF Holds
<1>6. \A i : Empty(s, i) => Empty(st, i)'
  BY DEF Empty
<1>7. \A f : Params(s, f, pos) => Params(st, f, pos)'
  BY <1>3 DEF Params
<1>8. encoded'[j] = encoded[j] /\ j \in DOMAIN encoded'
  BY <1>2
<1>9. st'.codec = s.codec
  OBVIOUS
<1> QED
  BY <1>4, <1>5, <1>6, <1>7, <1>8, <1>9 DEF At

(* At a unit's end stands what stands before the next unit. *)
LEMMA AtNext ==
    ASSUME TypeOK, NEW s, NEW j \in DOMAIN encoded, At(s, j, UnitLen(encoded[j]))
    PROVE  ~s.codec /\ (Empty(s, j) \/ Holds(s, j, shape.slices))
<1>1. /\ Header(encoded[j]) \in Nat /\ shape.slices \in Nat /\ shape.slices > 0
      /\ UnitLen(encoded[j]) = Header(encoded[j]) + shape.slices
  BY UnitFacts
<1>2. UnitLen(encoded[j]) > Header(encoded[j]) /\ UnitLen(encoded[j]) - Header(encoded[j]) = shape.slices
  BY <1>1
<1> QED
  BY <1>2 DEF At

LEMMA AtStart ==
    ASSUME TypeOK, NEW s, NEW j \in DOMAIN encoded, ~s.codec,
           Empty(s, j - 1) \/ Holds(s, j - 1, shape.slices)
    PROVE  At(s, j, 0)
  BY UnitFacts DEF At

(* Taking one NAL. *)
LEMMA TakeStep ==
    ASSUME TypeOK, Named, ProcessNal, Intact', Complete, Sent,
           NEW j \in DOMAIN encoded, NEW pos \in Nat, pos < UnitLen(encoded[j]),
           At(st, j, pos), Head(todo) = AccessUnit(encoded[j])[pos + 1]
    PROVE  At(st', j, pos + 1) /\ Complete' /\ Sent'
<1> DEFINE x == Head(todo)
<1>1. st \in Streams /\ clock \in Nat /\ wire \in Seq(Seals)
  BY BoundsAreNat DEF TypeOK
<1>2. x \in Nals
  BY DEF ProcessNal, TypeOK
<1>3. PICK r \in IF StartsUnit(st, x) THEN Flushed(st)
                 ELSE {[st |-> st, out |-> <<>>, ok |-> TRUE]} :
             Writes(r) /\ st' = Taken(r.st, x)
  BY DEF ProcessNal
<1>4. encoded' = encoded /\ shape' = shape
  BY DEF ProcessNal
<1>5. /\ StartsUnit(st, x) <=> pos = 0 /\ st.vcl # <<>>
      /\ StartsUnit(st, x) => Holds(st, j - 1, shape.slices)
      /\ ~StartsUnit(st, x) => Ready(st, j, pos)
  BY <1>1, StartsOnce
<1>6. ~st.codec
  BY DEF At
<1>7. CASE StartsUnit(st, x)
  <2>1. r \in Flushed(st) /\ r.st \in Streams
    BY <1>1, <1>3, <1>7, FlushedType DEF Outcomes
  <2>2. st'.nonce = r.st.nonce
    BY <1>2, <1>3, <2>1, TakenType
  <2>3. Holds(st, j - 1, shape.slices) /\ pos = 0
    BY <1>5, <1>7
  <2>4. Complete' /\ Sent' /\ Empty(r.st, j - 1) /\ ~r.st.codec
    BY <1>3, <1>4, <1>6, <2>1, <2>2, <2>3, FlushedSent
  <2>5. Ready(r.st, j, pos)
    BY <2>3, <2>4, UnitFacts DEF Ready, Params
  <2>6. At(Taken(r.st, x), j, pos + 1)
    BY <2>1, <2>4, <2>5, TakeNext
  <2> QED
    BY <1>3, <2>4, <2>6
<1>8. CASE ~StartsUnit(st, x)
  <2>1. r = [st |-> st, out |-> <<>>, ok |-> TRUE]
    BY <1>3, <1>8
  <2>2. wire' = wire
    BY <1>1, <1>3, <2>1, ConcatEmptySeq DEF Writes
  <2>3. st' = Taken(st, x) /\ st'.nonce = st.nonce
    BY <1>1, <1>2, <1>3, <2>1, TakenType
  <2>4. Complete' /\ Sent'
    BY <1>4, <2>2, <2>3, QuietSent
  <2>5. At(Taken(st, x), j, pos + 1)
    BY <1>1, <1>5, <1>6, <1>8, TakeNext
  <2> QED
    BY <2>3, <2>4, <2>5
<1> QED
  BY <1>7, <1>8

(* What is pending loses its first NAL to the streamer, and no other way. *)
LEMMA PendingTaken ==
    ASSUME TypeOK, ProcessNal
    PROVE  /\ Len(Pending) \in Nat /\ Len(Pending) > 0 /\ Pending[1] = Head(todo)
           /\ Len(Pending)' = Len(Pending) - 1
           /\ \A i \in 1..(Len(Pending) - 1) : Pending'[i] = Pending[i + 1]
<1> DEFINE d == todo
           l == tail
           e == Tail(todo)
<1>1. d \in Seq(Nals) /\ l \in Seq(Nals) /\ d # <<>> /\ todo' = e /\ tail' = l
  BY DEF TypeOK, ProcessNal
<1>2. /\ e \in Seq(Nals) /\ Len(d) \in Nat /\ Len(d) > 0 /\ Len(e) = Len(d) - 1 /\ Head(d) = d[1]
      /\ \A i \in 1..(Len(d) - 1) : e[i] = d[i + 1]
  BY <1>1, HeadTailProperties, LenProperties, EmptySeq
<1>3. Pending = d \o l /\ Pending' = e \o l
  BY <1>1 DEF Pending
<1> HIDE DEF d, e, l
<1> DEFINE p == d \o l
           q == e \o l
<1>4. /\ Len(p) = Len(d) + Len(l) /\ Len(l) \in Nat
      /\ \A i \in 1..Len(d) : p[i] = d[i]
      /\ \A i \in (Len(d) + 1)..(Len(d) + Len(l)) : p[i] = l[i - Len(d)]
  BY <1>1, ConcatProperties, LenProperties
<1>5. /\ Len(q) = Len(e) + Len(l)
      /\ \A i \in 1..Len(e) : q[i] = e[i]
      /\ \A i \in (Len(e) + 1)..(Len(e) + Len(l)) : q[i] = l[i - Len(e)]
  <2>1. e \in Seq(Nals) /\ Len(e) \in Nat /\ l \in Seq(Nals) /\ Len(l) \in Nat
    BY <1>1, <1>2, LenProperties
  <2> QED
    BY <2>1, ConcatProperties
<1> HIDE DEF p, q
<1>6. Len(p) \in Nat /\ Len(p) > 0 /\ p[1] = d[1] /\ Len(q) = Len(p) - 1
  BY <1>2, <1>4, <1>5
<1>7. ASSUME NEW i \in 1..(Len(p) - 1) PROVE q[i] = p[i + 1]
  <2>1. CASE i <= Len(e)
    <3>1. i \in 1..Len(e) /\ i \in 1..(Len(d) - 1) /\ i + 1 \in 1..Len(d)
      BY <1>2, <2>1
    <3> QED
      BY <1>2, <1>4, <1>5, <3>1
  <2>2. CASE i > Len(e)
    <3>1. /\ i \in (Len(e) + 1)..(Len(e) + Len(l)) /\ i + 1 \in (Len(d) + 1)..(Len(d) + Len(l))
          /\ (i + 1) - Len(d) = i - Len(e)
      BY <1>2, <1>4, <1>6, <2>2
    <3> QED
      BY <1>4, <1>5, <3>1
  <2> QED
    BY <1>2, <2>1, <2>2
<1>8. Pending = p /\ Pending' = q
  BY <1>3 DEF p, q
<1>9. Head(todo) = d[1]
  BY <1>2 DEF d
<1> QED
  BY <1>6, <1>7, <1>8, <1>9
--------------------------------------------------------------------------------
(* The place in the pipeline that a step which takes nothing leaves. *)
LEMMA PipeKept ==
    ASSUME TypeOK, Pipe, shape' = shape, encoded' = encoded, st' = st, Pending' = Pending
    PROVE  Pipe'
<1>1. Newest' = Newest
  BY DEF Newest
<1>2. Delimiters' = Delimiters
  BY DEF Delimiters
<1>3. \A f : UnitLen(f)' = UnitLen(f) /\ AccessUnit(f)' = AccessUnit(f)
  BY <1>2 DEF UnitLen, Header, AccessUnit, SlicesOf
<1>4. \A j, pos : j \in DOMAIN encoded /\ At(st, j, pos) => At(st, j, pos)'
  BY AtGrows
<1>5. \A j, pos : At(st, j, pos) => j \in DOMAIN encoded
  BY DEF At
<1>6. \A pos : InNewest(pos) => InNewest(pos)'
  BY <1>1, <1>3, <1>4, <1>5 DEF InNewest
<1>7. KeptBack => KeptBack'
  BY <1>1, <1>3, <1>4, <1>5 DEF KeptBack
<1>8. Empty(st, 0) => Empty(st, 0)'
  BY DEF Empty
<1> QED
  BY <1>1, <1>3, <1>6, <1>7, <1>8 DEF Pipe

LEMMA PipeTaken ==
    ASSUME TypeOK, Named, Pipe, ProcessNal, Intact', Complete, Sent
    PROVE  Pipe' /\ Complete' /\ Sent'
<1>1. /\ Len(Pending) \in Nat /\ Len(Pending) > 0 /\ Pending[1] = Head(todo)
      /\ Len(Pending)' = Len(Pending) - 1
      /\ \A i \in 1..(Len(Pending) - 1) : Pending'[i] = Pending[i + 1]
  BY PendingTaken
<1>2. encoded' = encoded /\ shape' = shape /\ Newest' = Newest
  BY DEF ProcessNal, Newest
<1>3. Delimiters' = Delimiters
  BY <1>2 DEF Delimiters
<1>4. \A f : UnitLen(f)' = UnitLen(f) /\ AccessUnit(f)' = AccessUnit(f)
  BY <1>2, <1>3 DEF UnitLen, Header, AccessUnit, SlicesOf
<1>5. \A j, pos : j \in DOMAIN encoded /\ At(st', j, pos) => At(st, j, pos)'
  BY <1>2, AtGrows
<1>6. CASE Newest > 0 /\ \E pos \in 0..UnitLen(encoded[Newest]) : InNewest(pos)
  <2>1. PICK pos \in 0..UnitLen(encoded[Newest]) : InNewest(pos)
    BY <1>6
  <2>2. /\ At(st, Newest, pos) /\ Newest \in DOMAIN encoded
        /\ Len(Pending) = UnitLen(encoded[Newest]) - pos
        /\ \A i \in 1..Len(Pending) : Pending[i] = AccessUnit(encoded[Newest])[pos + i]
    BY <2>1 DEF InNewest, At
  <2> DEFINE E == encoded[Newest]
             u == AccessUnit(E)
             n == UnitLen(E)
  <2>3. n \in Nat /\ pos \in Nat /\ pos < n
    BY <1>1, <2>2, UnitFacts
  <2>4. Head(todo) = u[pos + 1]
    BY <1>1, <2>2
  <2>5. At(st', Newest, pos + 1) /\ Complete' /\ Sent'
    BY <2>2, <2>3, <2>4, TakeStep
  <2>6. At(st, Newest, pos + 1)'
    BY <1>2, <1>5, <2>2, <2>5
  <2>7. Len(Pending)' = n - (pos + 1)
    BY <1>1, <2>2, <2>3
  <2>8. ASSUME NEW i \in 1..(n - (pos + 1)) PROVE Pending'[i] = u[(pos + 1) + i]
    <3>1. i \in 1..(Len(Pending) - 1) /\ i + 1 \in 1..Len(Pending) /\ pos + (i + 1) = (pos + 1) + i
      BY <2>2, <2>3
    <3>2. Pending'[i] = Pending[i + 1] /\ Pending[i + 1] = u[pos + (i + 1)]
      BY <1>1, <2>2, <3>1
    <3> QED
      BY <3>1, <3>2
  <2>9. InNewest(pos + 1)'
    BY <1>2, <1>4, <2>6, <2>7, <2>8 DEF InNewest
  <2>10. pos + 1 \in 0..n
    BY <2>3
  <2>11. Newest' > 0 /\ \E p \in 0..UnitLen(encoded[Newest])' : InNewest(p)'
    BY <1>2, <1>4, <1>6, <2>9, <2>10
  <2> QED
    BY <2>5, <2>11 DEF Pipe
<1>7. CASE KeptBack
  <2> DEFINE j == Newest - 1
             E == encoded[j]
             u == AccessUnit(encoded[Newest])
             n == UnitLen(encoded[Newest])
             l == UnitLen(E)
  <2>1. /\ Newest > 1 /\ At(st, j, l - 1) /\ j \in DOMAIN encoded
        /\ Len(Pending) = 1 + n
        /\ Pending[1] = AccessUnit(E)[l]
        /\ \A i \in 1..n : Pending[i + 1] = u[i]
    BY <1>7 DEF KeptBack, At
  <2>2. Newest \in Nat /\ Newest \in DOMAIN encoded
    BY <2>1, LenProperties DEF TypeOK, Newest
  <2>3. l \in Nat /\ l > 0 /\ n \in Nat
    <3>1. l \in Nat /\ l > 0
      <4>1. ASSUME NEW k \in DOMAIN encoded
            PROVE  UnitLen(encoded[k]) \in Nat /\ UnitLen(encoded[k]) > 0
        <5>1. PICK h, z, q : h = Header(encoded[k]) /\ z = shape.slices /\ q = UnitLen(encoded[k])
          OBVIOUS
        <5>2. h \in Nat /\ z \in Nat /\ z > 0 /\ q = h + z
          BY <5>1, UnitFacts, Zenon
        <5>3. q \in Nat /\ q > 0
          BY <5>2
        <5> QED
          BY <5>1, <5>3, Zenon
      <4> QED
        BY <2>1, <4>1, Zenon
    <3>2. n \in Nat
      BY <2>2, UnitFacts
    <3> QED
      BY <3>1, <3>2
  <2>4. l - 1 \in Nat /\ l - 1 < l /\ (l - 1) + 1 = l
    BY <2>3
  <2>5. At(st', j, l) /\ Complete' /\ Sent'
    <3>1. Head(todo) = AccessUnit(E)[(l - 1) + 1]
      BY <1>1, <2>1, <2>4
    <3>2. At(st', j, (l - 1) + 1) /\ Complete' /\ Sent'
      BY <2>1, <2>4, <3>1, TakeStep
    <3> QED
      BY <2>4, <3>2
  <2>6. At(st', Newest, 0)
    <3>1. ~st'.codec /\ (Empty(st', j) \/ Holds(st', j, shape.slices))
      BY <2>1, <2>5, AtNext
    <3> QED
      BY <2>2, <3>1, AtStart
  <2>7. At(st, Newest, 0)'
    BY <1>2, <1>5, <2>2, <2>6
  <2>8. Len(Pending)' = n - 0
    BY <1>1, <2>1, <2>3
  <2>9. \A i \in 1..n : Pending'[i] = u[0 + i]
    BY <1>1, <2>1, <2>3
  <2>10. InNewest(0)'
    BY <1>2, <1>4, <2>3, <2>7, <2>8, <2>9 DEF InNewest
  <2>11. Newest' > 0 /\ \E p \in 0..UnitLen(encoded[Newest])' : InNewest(p)'
    BY <1>2, <1>4, <2>1, <2>2, <2>3, <2>10
  <2> QED
    BY <2>5, <2>11 DEF Pipe
<1>8. ~(Newest = 0 /\ Len(Pending) = 0)
  BY <1>1
<1> QED
  BY <1>6, <1>7, <1>8 DEF Pipe

(* A sequence behind a single element. *)
LEMMA BehindOne ==
    ASSUME NEW T, NEW x \in Seq(T), Len(x) = 1, NEW u \in Seq(T)
    PROVE  (x \o u)[1] = x[1] /\ \A i \in 1..Len(u) : (x \o u)[i + 1] = u[i]
<1>1. Len(u) \in Nat
  BY LenProperties
<1>2. (x \o u)[1] = x[1]
  <2>1. 1 \in 1..Len(x) + Len(u) /\ 1 <= Len(x)
    BY <1>1
  <2> QED
    BY <2>1, ConcatProperties
<1>3. ASSUME NEW i \in 1..Len(u) PROVE (x \o u)[i + 1] = u[i]
  <2> DEFINE k == i + 1
  <2>1. k \in 1..Len(x) + Len(u) /\ ~(k <= Len(x)) /\ k - Len(x) = i
    BY <1>1
  <2> HIDE DEF k
  <2>2. (x \o u)[k] = u[k - Len(x)]
    BY <2>1, ConcatProperties
  <2> QED
    BY <2>1, <2>2 DEF k
<1> QED
  BY <1>2, <1>3

(* A frame encoded goes behind what the parser kept back. *)
LEMMA PipeEncoded ==
    ASSUME TypeOK, Pipe, todo = <<>>, shape' = shape, st' = st,
           NEW f \in [n : Nat, key : BOOLEAN], encoded' = Append(encoded, f),
           Pending' = tail \o AccessUnit(f)
    PROVE  Pipe'
<1>0. PICK L, u, n : L = Len(encoded) /\ u = AccessUnit(f) /\ n = UnitLen(f)
  OBVIOUS
<1>1. /\ encoded \in Seq([n : Nat, key : BOOLEAN]) /\ L \in Nat /\ DOMAIN encoded = 1..L
      /\ tail \in Seq(Nals) /\ Len(tail) \in Nat /\ Len(tail) <= 1
  BY <1>0, LenProperties DEF TypeOK
<1>2. u \in Seq(Nals) /\ Len(u) = n /\ n \in Nat /\ n > 0
  <2>1. u \in Seq(Nals) /\ Len(u) = n
    BY <1>0, UnitNals
  <2>2. /\ \A g : Header(g) \in 0..3 /\ UnitLen(g) \in Nat /\ UnitLen(g) = Header(g) + shape.slices
        /\ shape.slices \in Nat /\ shape.slices > 0
    BY ShapeFacts
  <2> QED
    BY <1>0, <2>1, <2>2
<1>3. /\ Newest' = L + 1 /\ encoded'[L + 1] = f
      /\ \A i \in 1..L : encoded'[i] = encoded[i]
      /\ DOMAIN encoded' = 1..(L + 1)
  BY <1>0, <1>1 DEF Newest
<1>4. Delimiters' = Delimiters
  BY DEF Delimiters
<1>5. \A e : UnitLen(e)' = UnitLen(e) /\ AccessUnit(e)' = AccessUnit(e) /\ SlicesOf(e)' = SlicesOf(e) /\ Header(e)' = Header(e)
  BY <1>4 DEF UnitLen, Header, AccessUnit, SlicesOf
<1>6. \A j, pos : j \in DOMAIN encoded /\ At(st, j, pos) => At(st, j, pos)'
  BY AtGrows
<1>7. Pending = tail
  BY <1>1, ConcatEmptySeq DEF Pending
<1>8. ASSUME Len(tail) = 0, ~st.codec, Empty(st, L) \/ Holds(st, L, shape.slices)
      PROVE  Pipe'
  <2>1. Pending' = u
    <3>1. tail = <<>>
      BY <1>1, <1>8, EmptySeq
    <3> QED
      BY <1>0, <1>2, <3>1, ConcatEmptySeq
  <2>2. At(st, L + 1, 0)'
    <3>1. Holds(st, L, shape.slices) => Holds(st, L, shape.slices)'
      BY <1>1, <1>3, <1>5 DEF Holds
    <3>2. Empty(st, L) => Empty(st, L)'
      BY DEF Empty
    <3>3. (L + 1) - 1 = L
      BY <1>1
    <3>4. UnitLen(encoded[L + 1])' = n /\ ~(0 > Header(encoded[L + 1])')
      BY <1>0, <1>3, <1>5, ShapeFacts
    <3>5. 0 \in 0..n /\ L + 1 \in DOMAIN encoded'
      BY <1>1, <1>2, <1>3
    <3>6. Empty(st, (L + 1) - 1)' \/ Holds(st, (L + 1) - 1, shape.slices)'
      BY <1>8, <3>1, <3>2, <3>3
    <3> QED
      BY <1>8, <3>4, <3>5, <3>6 DEF At
  <2>3. InNewest(0)'
    <3>1. Len(Pending)' = n - 0
      BY <1>2, <2>1
    <3>2. \A i \in 1..n : Pending'[i] = u[0 + i]
      BY <1>2, <2>1
    <3> QED
      BY <1>0, <1>2, <1>3, <1>5, <2>1, <2>2, <3>1, <3>2 DEF InNewest
  <2>4. Newest' > 0 /\ \E p \in 0..UnitLen(encoded[Newest])' : InNewest(p)'
    BY <1>0, <1>1, <1>2, <1>3, <1>5, <2>3
  <2> QED
    BY <2>4 DEF Pipe
<1>9. CASE Newest = 0 /\ Len(Pending) = 0 /\ Empty(st, 0) /\ ~st.codec
  BY <1>0, <1>7, <1>8, <1>9 DEF Newest
<1>10. CASE Newest > 0 /\ \E pos \in 0..UnitLen(encoded[Newest]) : InNewest(pos)
  <2>0. PICK e, l : e = encoded[L] /\ l = UnitLen(e)
    OBVIOUS
  <2>1. PICK pos \in 0..l : InNewest(pos)
    BY <1>0, <1>10, <2>0 DEF Newest
  <2>2. /\ At(st, L, pos) /\ L \in DOMAIN encoded
        /\ Len(tail) = l - pos
        /\ \A i \in 1..Len(tail) : tail[i] = AccessUnit(e)[pos + i]
    BY <1>0, <1>7, <2>0, <2>1 DEF InNewest, Newest, At
  <2>3. l \in Nat /\ L > 0 /\ e \in [n : Nat, key : BOOLEAN]
    BY <1>1, <2>0, <2>2, UnitFacts
  <2>4. CASE Len(tail) = 0
    <3>1. pos = l
      BY <2>2, <2>3, <2>4
    <3>2. ~st.codec /\ (Empty(st, L) \/ Holds(st, L, shape.slices))
      BY <2>0, <2>2, <3>1, AtNext
    <3> QED
      BY <1>8, <2>4, <3>2
  <2>5. CASE Len(tail) = 1
    <3>1. pos = l - 1
      <4>1. l - pos = 1 /\ pos \in 0..l
        BY <2>2, <2>5, Zenon
      <4> QED
        BY <2>3, <4>1
    <3>2. tail[1] = AccessUnit(e)[l]
      BY <2>2, <2>3, <2>5, <3>1
    <3>3. Len(Pending)' = 1 + n
      <4>1. Len(tail \o u) = Len(tail) + Len(u)
        <5>1. ASSUME NEW x \in Seq(Nals), NEW y \in Seq(Nals)
              PROVE  Len(x \o y) = Len(x) + Len(y)
          BY ConcatProperties, Zenon
        <5> QED
          BY <1>1, <1>2, <5>1, Zenon
      <4>2. Len(tail \o u) = 1 + n
        BY <1>2, <2>5, <4>1, Zenon
      <4>3. Pending' = tail \o u
        BY <1>0, Zenon
      <4> QED
        BY <4>2, <4>3, Zenon
    <3>4. Pending'[1] = tail[1] /\ \A i \in 1..n : Pending'[i + 1] = u[i]
      <4>1. /\ (tail \o u)[1] = tail[1]
            /\ \A i \in 1..Len(u) : (tail \o u)[i + 1] = u[i]
        <5>1. tail \in Seq(Nals) /\ u \in Seq(Nals) /\ Len(tail) = 1
          BY <1>1, <1>2, <2>5
        <5>2. (tail \o u)[1] = tail[1]
          BY <5>1, BehindOne
        <5>3. \A i \in 1..Len(u) : (tail \o u)[i + 1] = u[i]
          BY <5>1, BehindOne
        <5> QED
          BY <5>2, <5>3
      <4> QED
        BY <1>0, <1>2, <4>1
    <3>5. At(st, L, l - 1)'
      BY <1>6, <2>2, <3>1
    <3>6. /\ Newest' > 1 /\ Newest' - 1 = L /\ encoded'[Newest' - 1] = e /\ encoded'[Newest'] = f
      BY <1>1, <1>3, <2>0, <2>2, <2>3
    <3>7. UnitLen(e)' = l /\ AccessUnit(e)' = AccessUnit(e) /\ UnitLen(f)' = n /\ AccessUnit(f)' = u
      BY <1>0, <1>5, <2>0
    <3>8. KeptBack'
      BY <3>2, <3>3, <3>4, <3>5, <3>6, <3>7 DEF KeptBack
    <3> QED
      BY <3>8 DEF Pipe
  <2> QED
    <3>1. Len(tail) = 0 \/ Len(tail) = 1
      <4> DEFINE a == Len(tail)
      <4>1. a \in Nat /\ a <= 1
        BY <1>1
      <4> HIDE DEF a
      <4>2. a = 0 \/ a = 1
        BY <4>1
      <4> QED
        BY <4>2 DEF a
    <3> QED
      BY <2>4, <2>5, <3>1
<1>11. ~KeptBack
  <2>1. ASSUME KeptBack PROVE FALSE
    <3>1. Newest > 1 /\ Len(tail) = 1 + UnitLen(encoded[Newest])
      BY <1>7, <2>1 DEF KeptBack
    <3>2. Newest \in DOMAIN encoded
      BY <1>1, <3>1 DEF Newest
    <3>3. UnitLen(encoded[Newest]) \in Nat /\ UnitLen(encoded[Newest]) > 0
      BY <3>2, UnitFacts
    <3> QED
      BY <1>1, <3>1, <3>3
  <2> QED
    BY <2>1
<1> QED
  BY <1>9, <1>10, <1>11 DEF Pipe

(* flush_idle's flush finds all that was given taken. *)
LEMMA PipeFlushed ==
    ASSUME TypeOK, Named, Turns, Pipe, FinishFlush, Intact', Complete, Sent
    PROVE  Pipe' /\ Complete' /\ Sent'
<1>1. encoded' = encoded /\ shape' = shape /\ todo' = todo /\ tail' = tail /\ todo = <<>> /\ tail = <<>>
  BY DEF FinishFlush, Turns
<1>2. Pending = <<>> /\ Pending' = Pending /\ Len(Pending) = 0 /\ Newest' = Newest
  BY <1>1 DEF Pending, Newest
<1>3. PICK r \in Flushed(st) : Writes(r) /\ st' = r.st
  BY DEF FinishFlush
<1>4. st \in Streams /\ clock \in Nat /\ wire \in Seq(Seals) /\ encoded \in Seq([n : Nat, key : BOOLEAN])
  BY BoundsAreNat DEF TypeOK
<1>5. CASE st.vcl = <<>>
  <2>1. r = [st |-> st, out |-> <<>>, ok |-> TRUE]
    BY <1>3, <1>5 DEF Flushed
  <2>2. wire' = wire
    BY <1>3, <1>4, <2>1, ConcatEmptySeq DEF Writes
  <2>3. st' = st
    BY <1>3, <2>1
  <2> QED
    BY <1>1, <1>2, <2>2, <2>3, PipeKept, QuietSent
<1>6. CASE st.vcl # <<>>
  <2>1. Newest > 0 /\ \E pos \in 0..UnitLen(encoded[Newest]) : InNewest(pos)
    <3>1. ~KeptBack
      <4>1. ASSUME KeptBack PROVE FALSE
        <5>1. Newest > 1 /\ 0 = 1 + UnitLen(encoded[Newest])
          BY <1>2, <4>1 DEF KeptBack
        <5>2. Newest \in DOMAIN encoded
          BY <1>4, <5>1, LenProperties DEF Newest
        <5>3. UnitLen(encoded[Newest]) \in Nat
          BY <5>2, UnitFacts
        <5> QED
          BY <5>1, <5>3
      <4> QED
        BY <4>1
    <3>2. ~Empty(st, 0)
      BY <1>6 DEF Empty
    <3> QED
      BY <3>1, <3>2 DEF Pipe
  <2>0. PICK k, l : k = Newest /\ l = UnitLen(encoded[Newest])
    OBVIOUS
  <2>2. PICK pos \in 0..l : InNewest(pos)
    BY <2>0, <2>1
  <2>3. At(st, k, pos) /\ k \in DOMAIN encoded /\ 0 = l - pos
    BY <1>2, <2>0, <2>2 DEF InNewest, At
  <2>4. pos = l /\ l \in Nat /\ l > Header(encoded[k]) /\ l = UnitLen(encoded[k])
    BY <2>0, <2>3, UnitFacts
  <2>5. Holds(st, k, shape.slices) /\ ~st.codec
    BY <1>6, <2>3, <2>4, AtNext DEF Empty
  <2>6. Complete' /\ Sent' /\ Empty(r.st, k) /\ ~r.st.codec
    BY <1>1, <1>3, <2>5, FlushedSent
  <2>7. At(st', k, l)
    <3>1. l \in 0..UnitLen(encoded[k]) /\ l > 0 /\ ~(l <= Header(encoded[k]))
      BY <2>3, <2>4, UnitFacts
    <3> QED
      BY <1>3, <2>3, <2>4, <2>6, <3>1 DEF At
  <2>8. At(st, k, l)'
    BY <1>1, <2>3, <2>7, AtGrows
  <2>9. UnitLen(encoded[Newest])' = l
    BY <1>1, <1>2, <2>0 DEF UnitLen, Header, Delimiters
  <2>10. InNewest(l)'
    <3>1. Len(Pending)' = l - l
      BY <1>2, <2>4
    <3>2. \A i \in 1..Len(Pending)' : FALSE
      BY <1>2
    <3> QED
      BY <1>2, <2>0, <2>8, <2>9, <3>1, <3>2 DEF InNewest
  <2>11. Newest' > 0 /\ \E p \in 0..UnitLen(encoded[Newest])' : InNewest(p)'
    BY <1>2, <2>1, <2>4, <2>9, <2>10
  <2> QED
    BY <2>6, <2>11 DEF Pipe
<1> QED
  BY <1>5, <1>6
--------------------------------------------------------------------------------
LEMMA PipeInit == Init => PipeInv
<1> SUFFICES ASSUME Init PROVE PipeInv
  OBVIOUS
<1>1. IInv
  BY InitType DEF Init, IInv, Used, SealedOnce, TimestampsIncrease
<1>2. todo = <<>> /\ tail = <<>> /\ encoded = <<>> /\ wire = <<>> /\ pc = "loop"
  BY DEF Init
<1>3. st.vcl = <<>> /\ st.nonce = 0 /\ ~st.key /\ ~st.codec
  BY DEF Init
<1>4. Turns /\ Named
  BY <1>2 DEF Turns, Named
<1>5. Pipe
  <2>1. Len(Pending) = 0 /\ Newest = 0
    BY <1>2 DEF Pending, Newest
  <2> QED
    BY <1>3, <2>1 DEF Pipe, Empty
<1>6. Complete /\ Sent
  BY <1>2, <1>3 DEF Complete, Sent
<1> QED
  BY <1>1, <1>4, <1>5, <1>6 DEF PipeInv

(* A sequence is its front and its last element. *)
LEMMA FrontThenLast ==
    ASSUME NEW S, NEW s \in Seq(S), Len(s) > 0
    PROVE  SubSeq(s, 1, Len(s) - 1) \o <<s[Len(s)]>> = s
<1>1. Len(s) \in Nat /\ 1 \in 1..Len(s) /\ Len(s) \in 1..Len(s)
  BY LenProperties
<1>2. SubSeq(s, 1, Len(s)) = SubSeq(s, 1, Len(s) - 1) \o <<s[Len(s)]>>
  BY <1>1, SubSeqRecursiveSecond
<1>3. SubSeq(s, 1, Len(s)) = s
  BY SubSeqFull
<1> QED
  BY <1>2, <1>3

(* A new frame, by what it does to encoded, todo and tail. *)
LEMMA Encoding ==
    ASSUME TypeOK, Capture
    PROVE  /\ shape' = shape /\ st' = st /\ wire' = wire /\ pc = "loop"
           /\ \/ encoded' = encoded /\ tail' = tail /\ todo' = todo /\ pc' = pc
              \/ \E f \in [n : Nat, key : BOOLEAN] :
                    /\ f.n > 0 /\ encoded' = Append(encoded, f) /\ pc' = "push"
                    /\ todo' \o tail' = tail \o AccessUnit(f)
<1>1. shape' = shape /\ st' = st /\ wire' = wire /\ pc = "loop" /\ captured' = screen /\ screen > captured
  BY DEF Capture
<1>2. captured' \in Nat /\ captured' > 0
  BY <1>1 DEF TypeOK
<1>3. \/ encoded' = encoded /\ tail' = tail /\ todo' = todo /\ pc' = pc
      \/ \E key \in BOOLEAN :
              LET f == [n |-> captured', key |-> key]
                  nals == tail \o AccessUnit(f)
              IN /\ encoded' = Append(encoded, f)
                 /\ todo' = SubSeq(nals, 1, Len(nals) - 1)
                 /\ tail' = <<nals[Len(nals)]>>
                 /\ pc' = "push"
  <2>1. (IF encoded = <<>> THEN {TRUE} ELSE BOOLEAN) \subseteq BOOLEAN
    OBVIOUS
  <2> QED
    BY <2>1 DEF Capture, SkipFrame, EncodeFrame
<1>4. ASSUME NEW key \in BOOLEAN,
             LET f == [n |-> captured', key |-> key]
                 nals == tail \o AccessUnit(f)
             IN /\ encoded' = Append(encoded, f)
                /\ todo' = SubSeq(nals, 1, Len(nals) - 1)
                /\ tail' = <<nals[Len(nals)]>>
                /\ pc' = "push"
      PROVE  \E f \in [n : Nat, key : BOOLEAN] :
                    /\ f.n > 0 /\ encoded' = Append(encoded, f) /\ pc' = "push"
                    /\ todo' \o tail' = tail \o AccessUnit(f)
  <2> DEFINE f == [n |-> captured', key |-> key]
             nals == tail \o AccessUnit(f)
  <2>1. f \in [n : Nat, key : BOOLEAN] /\ f.n > 0
    BY <1>2
  <2>2. tail \in Seq(Nals)
    BY DEF TypeOK
  <2>3. AccessUnit(f) \in Seq(Nals) /\ Len(AccessUnit(f)) > 0
    BY <2>1, UnitType DEF TypeOK, Shapes
  <2>4. nals \in Seq(Nals) /\ Len(nals) \in Nat /\ Len(nals) > 0
    BY <2>2, <2>3, ConcatProperties, LenProperties
  <2>5. todo' = SubSeq(nals, 1, Len(nals) - 1) /\ tail' = <<nals[Len(nals)]>>
    BY <1>4
  <2>6. \A n \in Seq(Nals) : Len(n) > 0 => SubSeq(n, 1, Len(n) - 1) \o <<n[Len(n)]>> = n
    BY FrontThenLast
  <2>7. todo' \o tail' = nals
    <3> HIDE DEF nals
    <3> QED
      BY <2>4, <2>5, <2>6
  <2> QED
    BY <1>4, <2>1, <2>7
<1> QED
  BY <1>1, <1>3, <1>4

LEMMA PlacesStep == PipeInv /\ [Next]_vars => Turns' /\ Named'
<1> SUFFICES ASSUME PipeInv, [Next]_vars PROVE Turns' /\ Named'
  OBVIOUS
<1>1. TypeOK /\ Turns /\ Named /\ encoded \in Seq([n : Nat, key : BOOLEAN])
  BY DEF PipeInv, IInv, TypeOK
<1>2. CASE Capture
  <2>1. CASE encoded' = encoded /\ tail' = tail /\ todo' = todo /\ pc' = pc
    BY <1>1, <2>1 DEF Turns, Named
  <2>2. CASE \E f \in [n : Nat, key : BOOLEAN] :
                /\ f.n > 0 /\ encoded' = Append(encoded, f) /\ pc' = "push"
                /\ todo' \o tail' = tail \o AccessUnit(f)
    BY <1>1, <2>2 DEF Turns, Named
  <2> QED
    BY <1>1, <1>2, <2>1, <2>2, Encoding
<1>3. CASE ProcessNal
  <2>1. todo # <<>> /\ tail' = tail /\ pc' = pc /\ encoded' = encoded
    BY <1>3 DEF ProcessNal
  <2> QED
    BY <1>1, <2>1 DEF Turns, Named
<1>4. CASE Pushed
  BY <1>1, <1>4 DEF Pushed, Turns, Named
<1>5. CASE FinishFlush
  <2>1. todo' = <<>> /\ encoded' = encoded /\ pc' \in {"failed", "loop", "done"}
    BY <1>5 DEF FinishFlush
  <2> QED
    BY <1>1, <2>1 DEF Turns, Named
<1>6. CASE FlushIdle \/ LeaveLoop
  BY <1>1, <1>6 DEF FlushIdle, LeaveLoop, StartFlush, Turns, Named
<1>7. CASE Heartbeat \/ Abort
  BY <1>1, <1>7 DEF Heartbeat, Abort, Turns, Named
<1>8. CASE Feedback \/ Desktop \/ Tick \/ CtrlC \/ Reset \/ UNCHANGED vars
  BY <1>1, <1>8 DEF Feedback, Desktop, Tick, CtrlC, Reset, vars, Turns, Named
<1> QED
  BY <1>2, <1>3, <1>4, <1>5, <1>6, <1>7, <1>8 DEF Next, Streamer

(* While every write succeeds, each step moves the pipeline on by one place *)
(* or leaves it where it is.                                                *)
LEMMA PipeStep == PipeInv /\ [Next]_vars => PipeInv'
<1> SUFFICES ASSUME PipeInv, [Next]_vars PROVE PipeInv'
  OBVIOUS
<1>1. IInv' /\ Turns' /\ Named'
  BY InvStep, PlacesStep DEF PipeInv
<1>2. /\ TypeOK /\ Turns /\ Named /\ st \in Streams /\ clock \in Nat /\ wire \in Seq(Seals)
      /\ tail \in Seq(Nals) /\ todo \in Seq(Nals)
  BY BoundsAreNat DEF PipeInv, IInv, TypeOK
<1>3. SUFFICES ASSUME Intact' PROVE Pipe' /\ Complete' /\ Sent'
  BY <1>1 DEF PipeInv
<1>4. ASSUME wire' = wire PROVE Intact
  BY <1>3, <1>4 DEF Intact
<1>5. CASE ProcessNal
  <2>1. Intact
    <3>1. PICK r \in IF StartsUnit(st, Head(todo)) THEN Flushed(st)
                     ELSE {[st |-> st, out |-> <<>>, ok |-> TRUE]} : Writes(r)
      BY <1>5 DEF ProcessNal
    <3>2. r.out \in Seq(Seals)
      BY <1>2, <3>1, FlushedType, QuietType DEF Outcomes
    <3>3. wire' = wire \o r.out
      BY <3>1 DEF Writes
    <3> QED
      BY <1>2, <1>3, <3>2, <3>3, IntactSplit
  <2> QED
    BY <1>2, <1>3, <1>5, <2>1, PipeTaken DEF PipeInv
<1>6. CASE FinishFlush
  <2>1. Intact
    <3>1. PICK r \in Flushed(st) : Writes(r)
      BY <1>6 DEF FinishFlush
    <3>2. r.out \in Seq(Seals)
      BY <1>2, <3>1, FlushedType DEF Outcomes
    <3>3. wire' = wire \o r.out
      BY <3>1 DEF Writes
    <3> QED
      BY <1>2, <1>3, <3>2, <3>3, IntactSplit
  <2> QED
    BY <1>2, <1>3, <1>6, <2>1, PipeFlushed DEF PipeInv
<1>7. CASE Capture
  <2>1. /\ shape' = shape /\ st' = st /\ wire' = wire /\ pc = "loop"
        /\ \/ encoded' = encoded /\ tail' = tail /\ todo' = todo /\ pc' = pc
           \/ \E f \in [n : Nat, key : BOOLEAN] :
                    /\ f.n > 0 /\ encoded' = Append(encoded, f) /\ pc' = "push"
                    /\ todo' \o tail' = tail \o AccessUnit(f)
    BY <1>2, <1>7, Encoding
  <2>2. Pipe /\ Complete /\ Sent /\ todo = <<>>
    BY <1>2, <1>4, <2>1 DEF PipeInv, Turns
  <2>3. Complete' /\ Sent'
    BY <1>2, <2>1, <2>2, QuietSent
  <2>4. CASE encoded' = encoded /\ tail' = tail /\ todo' = todo
    BY <1>2, <2>1, <2>2, <2>3, <2>4, PipeKept DEF Pending
  <2>5. CASE \E f \in [n : Nat, key : BOOLEAN] :
                    /\ encoded' = Append(encoded, f)
                    /\ todo' \o tail' = tail \o AccessUnit(f)
    BY <1>2, <2>1, <2>2, <2>3, <2>5, PipeEncoded DEF Pending
  <2> QED
    BY <2>1, <2>4, <2>5
<1>8. CASE FlushIdle \/ LeaveLoop
  <2>1. /\ shape' = shape /\ st' = st /\ wire' = wire /\ encoded' = encoded /\ pc = "loop"
        /\ todo' = tail /\ tail' = <<>>
    BY <1>8 DEF FlushIdle, LeaveLoop, StartFlush
  <2>2. Pipe /\ Complete /\ Sent /\ todo = <<>>
    BY <1>2, <1>4, <2>1 DEF PipeInv, Turns
  <2>3. Pending = tail /\ Pending' = tail
    BY <1>2, <2>1, <2>2, ConcatEmptySeq DEF Pending
  <2> QED
    BY <1>2, <2>1, <2>2, <2>3, PipeKept, QuietSent
<1>9. CASE Pushed \/ Heartbeat \/ Feedback \/ Abort \/ Desktop \/ Tick \/ CtrlC \/ Reset \/ UNCHANGED vars
  <2>1. /\ shape' = shape /\ st' = st /\ wire' = wire /\ encoded' = encoded
        /\ todo' = todo /\ tail' = tail
    BY <1>9 DEF Pushed, Heartbeat, Feedback, Abort, Desktop, Tick, CtrlC, Reset, vars
  <2>2. Pipe /\ Complete /\ Sent
    BY <1>4, <2>1 DEF PipeInv
  <2> QED
    BY <1>2, <2>1, <2>2, PipeKept, QuietSent DEF Pending
<1> QED
  BY <1>5, <1>6, <1>7, <1>8, <1>9 DEF Next, Streamer
--------------------------------------------------------------------------------
(* The loop's variables keep their types for every value of the bounds. *)
THEOREM TypeCorrect == Spec => []TypeOK
  BY InitType, TypeStep, PTL DEF Spec

(* No nonce ever seals two frames: it is counted before the write that may fail. *)
THEOREM NoncesAreFresh == Spec => []SealedOnce
<1>1. Init => IInv
  BY InitType DEF Init, IInv, Used, SealedOnce, TimestampsIncrease
<1>2. IInv => SealedOnce
  BY DEF IInv
<1> QED
  BY <1>1, <1>2, InvStep, PTL DEF Spec

(* Frame timestamps increase, whatever feedback does to the clock. *)
THEOREM TimesIncrease == Spec => []TimestampsIncrease
<1>1. Init => IInv
  BY InitType DEF Init, IInv, Used, SealedOnce, TimestampsIncrease
<1>2. IInv => TimestampsIncrease
  BY DEF IInv
<1> QED
  BY <1>1, <1>2, InvStep, PTL DEF Spec

(* Until a write fails, the frame sealed with nonce n is the encoder's frame   *)
(* n + 1: one whole access unit, in order, none left out and none twice, for  *)
(* any number of frames and slices and however idle flushes cut in.           *)
THEOREM UnitsAreWhole == Spec => []WholeAccessUnits
<1>1. PipeInv => WholeAccessUnits
  <2> SUFFICES ASSUME PipeInv, Intact, NEW i \in DOMAIN wire, IsFrame(wire[i])
               PROVE  LET n == wire[i].nonce + 1
                      IN /\ n <= Len(encoded)
                         /\ wire[i].slices = SlicesOf(encoded[n])
                         /\ wire[i].key = encoded[n].key
                         /\ \A m \in 0..(n - 2) :
                               \E j \in 1..(i - 1) : IsFrame(wire[j]) /\ wire[j].nonce = m
                         /\ \A j \in 1..(i - 1) : IsFrame(wire[j]) => wire[j].nonce < n - 1
    BY DEF WholeAccessUnits
  <2>1. SealsUnit(i) /\ SealedOnce /\ wire \in Seq(Seals)
    BY DEF PipeInv, IInv, TypeOK, Sent
  <2>2. i \in Nat /\ DOMAIN wire = 1..Len(wire) /\ Len(wire) \in Nat /\ wire[i].nonce \in Nat
    <3>1. wire[i] \in Seals /\ i \in 1..Len(wire) /\ Len(wire) \in Nat
      BY <2>1, ElementOfSeq, LenProperties
    <3> QED
      BY <2>1, <3>1, LenProperties DEF Seals
  <2>3. ASSUME NEW j \in 1..(i - 1), IsFrame(wire[j])
        PROVE  wire[j].nonce < (wire[i].nonce + 1) - 1
    <3>1. j \in DOMAIN wire /\ j < i
      BY <2>2
    <3>2. wire[j].nonce < wire[i].nonce
      BY <2>1, <2>3, <3>1 DEF SealedOnce
    <3> QED
      BY <2>2, <3>2
  <2> QED
    BY <2>1, <2>3 DEF SealsUnit
<1> QED
  BY <1>1, PipeInit, PipeStep, PTL DEF Spec

(* Until a write fails, a key frame follows a codec frame with its own sets. *)
THEOREM KeyFramesAreLed == Spec => []CodecLeadsKeyFrame
<1>1. PipeInv => CodecLeadsKeyFrame
  BY DEF PipeInv, Sent, LedByCodec, CodecLeadsKeyFrame
<1> QED
  BY <1>1, PipeInit, PipeStep, PTL DEF Spec
================================================================================
