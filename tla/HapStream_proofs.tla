---------------------------- MODULE HapStream_proofs ----------------------------
(***************************************************************************)
(* Proofs about HapStream for every size of frame: it implements           *)
(* ByteStream, and its reader's nonce is that of every frame it opens.     *)
(***************************************************************************)
EXTENDS HapStream, SequenceTheorems, TLAPS

Part == [first : Nat, last : Nat]
Frame == [n : Nat, first : Nat, last : Nat]

TypeOK ==
    s \in [secure : BOOLEAN, wn : Nat, rn : Nat, wire : Seq(Frame), torn : BOOLEAN,
           buf : Part, written : Nat, got : Seq(Nat)]

(* Where the bytes on the wire begin. *)
Behind == IF s.wire = <<>> THEN s.written + 1 ELSE s.wire[1].first

(* The frames on the wire hold bytes, the next begins where one ends, and their *)
(* nonces follow from the reader's to the writer's.                             *)
Wire ==
    /\ \A i \in 1..Len(s.wire) :
          /\ s.wire[i].n = s.rn + i - 1
          /\ s.wire[i].first <= s.wire[i].last /\ s.wire[i].last <= s.written
          /\ i < Len(s.wire) => s.wire[i + 1].first = s.wire[i].last + 1
    /\ s.wire # <<>> => s.wire[Len(s.wire)].last = s.written
    /\ s.wn = s.rn + Len(s.wire)

(* What was handed out, read_buf and the wire are the bytes written, in order. *)
InOrder ==
    /\ \A i \in 1..Len(s.got) : s.got[i] = i
    /\ s.buf.first = Len(s.got) + 1
    /\ s.buf.last + 1 = Behind
    /\ s.buf.first <= s.buf.last + 1

IInv == TypeOK /\ Wire /\ InOrder
--------------------------------------------------------------------------------
LEMMA InitInv == Init => IInv
<1> SUFFICES ASSUME NEW secure \in BOOLEAN, InitAs(secure)
             PROVE  IInv
  BY DEF Init
<1> QED
  BY DEF InitAs, IInv, TypeOK, Wire, InOrder, Behind, Part, Frame

(* A run of numbers is a sequence of as many. *)
LEMMA RunIsSeq ==
    ASSUME NEW p \in Nat, NEW n \in Nat
    PROVE  [i \in 1..n |-> p + i - 1] \in Seq(Nat) /\ Len([i \in 1..n |-> p + i - 1]) = n
  OBVIOUS

(* A write puts one frame behind the others. *)
LEMMA WriteInv ==
    ASSUME IInv, NEW k \in Nat \ {0}, Write(k)
    PROVE  IInv'
<1> DEFINE f == [n |-> s.wn, first |-> s.written + 1, last |-> s.written + k]
<1>1. s.wire \in Seq(Frame) /\ s.wn \in Nat /\ s.rn \in Nat /\ s.written \in Nat
      /\ s.buf \in Part /\ s.got \in Seq(Nat)
  BY DEF IInv, TypeOK
<1>2. f \in Frame /\ f.n = s.wn /\ f.first = s.written + 1 /\ f.last = s.written + k
  BY <1>1 DEF Frame
<1> HIDE DEF f
<1>3. /\ s' = [s EXCEPT !.wire = Append(@, f), !.wn = @ + 1, !.written = @ + k]
  BY DEF Write, f
<1>4. /\ s'.wire = Append(s.wire, f) /\ s'.wn = s.wn + 1 /\ s'.written = s.written + k
      /\ s'.rn = s.rn /\ s'.buf = s.buf /\ s'.got = s.got
  BY <1>3 DEF IInv, TypeOK
<1>5. /\ s'.wire \in Seq(Frame) /\ Len(s'.wire) = Len(s.wire) + 1
      /\ s'.wire[Len(s.wire) + 1] = f
      /\ \A i \in 1..Len(s.wire) : s'.wire[i] = s.wire[i]
  BY <1>1, <1>2, <1>4, AppendProperties
<1>6. TypeOK'
  <2>1. s' = [s EXCEPT !.wire = s'.wire, !.wn = s'.wn, !.written = s'.written]
    BY <1>3 DEF IInv, TypeOK
  <2>2. s'.wn \in Nat /\ s'.written \in Nat
    BY <1>1, <1>4
  <2> QED
    BY <1>5, <2>1, <2>2 DEF IInv, TypeOK
<1>7. Wire'
  <2>1. ASSUME NEW i \in 1..Len(s'.wire)
        PROVE  /\ s'.wire[i].n = s'.rn + i - 1
               /\ s'.wire[i].first <= s'.wire[i].last /\ s'.wire[i].last <= s'.written
               /\ i < Len(s'.wire) => s'.wire[i + 1].first = s'.wire[i].last + 1
    <3>0. Len(s.wire) \in Nat /\ (i <= Len(s.wire) => s.wire[i] \in Frame)
      BY <1>1, <1>5
    <3>1. CASE i < Len(s.wire)
      <4>1. i \in 1..Len(s.wire) /\ i + 1 \in 1..Len(s.wire)
        BY <1>5, <3>0, <3>1
      <4>2. s'.wire[i] = s.wire[i] /\ s'.wire[i + 1] = s.wire[i + 1]
        BY <1>5, <4>1
      <4>3. /\ s.wire[i].n = s.rn + i - 1
            /\ s.wire[i].first <= s.wire[i].last /\ s.wire[i].last <= s.written
            /\ s.wire[i + 1].first = s.wire[i].last + 1
            /\ s.wire[i].last \in Nat
        BY <3>0, <3>1, <4>1 DEF IInv, Wire, Frame
      <4>4. s.wire[i].last <= s'.written
        BY <1>1, <1>4, <4>3
      <4>5. s'.rn = s.rn
        BY <1>4, Zenon
      <4> QED
        BY <4>2, <4>3, <4>4, <4>5, Zenon
    <3>2. CASE i = Len(s.wire)
      <4>1. i \in 1..Len(s.wire) /\ s.wire # <<>> /\ s.wire[i] \in Frame
        BY <1>1, <1>5, <3>0, <3>2
      <4>2. s'.wire[i] = s.wire[i] /\ s'.wire[i + 1] = f
        BY <1>5, <3>2, <4>1
      <4>3. /\ s.wire[i].n = s.rn + i - 1
            /\ s.wire[i].first <= s.wire[i].last /\ s.wire[i].last = s.written
        BY <3>2, <4>1 DEF IInv, Wire
      <4>4. s.wire[i].last <= s'.written /\ f.first = s.wire[i].last + 1
        BY <1>1, <1>2, <1>4, <4>3
      <4>5. s'.rn = s.rn
        BY <1>4, Zenon
      <4> QED
        BY <4>2, <4>3, <4>4, <4>5, Zenon
    <3>3. CASE i = Len(s.wire) + 1
      <4>1. s.wn = s.rn + Len(s.wire)
        BY DEF IInv, Wire
      <4>2. s'.wire[i] = f
        BY <1>5, <3>3, Zenon
      <4>3. f.n = s'.rn + i - 1
        <5>1. PICK m, r, w : m = Len(s.wire) /\ r = s.rn /\ w = s.wn
          OBVIOUS
        <5>2. m \in Nat /\ r \in Nat /\ w = r + m /\ i = m + 1
          BY <1>1, <3>0, <3>3, <4>1, <5>1, Zenon
        <5>3. w = r + i - 1
          BY <5>2
        <5> QED
          BY <1>2, <1>4, <5>1, <5>3, Zenon
      <4>4. f.first <= f.last /\ f.last <= s'.written
        BY <1>1, <1>2, <1>4
      <4>5. ~(i < Len(s'.wire))
        BY <1>5, <3>0, <3>3
      <4> QED
        BY <4>2, <4>3, <4>4, <4>5, Zenon
    <3> QED
      BY <1>5, <3>0, <3>1, <3>2, <3>3
  <2>2. s'.wire[Len(s'.wire)].last = s'.written
    BY <1>2, <1>4, <1>5
  <2>3. s'.wn = s'.rn + Len(s'.wire)
    BY <1>1, <1>4, <1>5 DEF IInv, Wire
  <2> QED
    BY <2>1, <2>2, <2>3 DEF Wire
<1>8. InOrder'
  <2>1. Behind' = Behind
    <3>1. CASE s.wire = <<>>
      BY <1>2, <1>5, <3>1 DEF Behind
    <3>2. CASE s.wire # <<>>
      <4>1. 1 \in 1..Len(s.wire) /\ s'.wire # <<>>
        BY <1>1, <1>5, <3>2
      <4> QED
        BY <1>5, <3>2, <4>1 DEF Behind
    <3> QED
      BY <3>1, <3>2
  <2> QED
    BY <1>4, <2>1 DEF IInv, InOrder
<1> QED
  BY <1>6, <1>7, <1>8 DEF IInv

(* What is to be handed out: the bytes of `b`, the next ones of those written. *)
IsNext(b) ==
    /\ b \in Part /\ b.first = Len(s.got) + 1 /\ b.first <= b.last /\ b.last <= s.written

(* Handing out is a delivery of the next bytes. *)
LEMMA HandDelivers ==
    ASSUME IInv, NEW b, IsNext(b), NEW max \in Nat \ {0}, Hand(b, max)
    PROVE  /\ Stream!Deliver
           /\ s'.got \in Seq(Nat) /\ \A i \in 1..Len(s'.got) : s'.got[i] = i
           /\ s'.buf \in Part /\ s'.buf.first = Len(s'.got) + 1 /\ s'.buf.last = b.last
           /\ s'.buf.first <= s'.buf.last + 1
           /\ s'.written = s.written
<1> DEFINE n == IF max < b.last - b.first + 1 THEN max ELSE b.last - b.first + 1
           run == [i \in 1..n |-> b.first + i - 1]
<1>1. b.first \in Nat /\ b.last \in Nat /\ s.got \in Seq(Nat) /\ s.written \in Nat
  BY DEF IInv, TypeOK, IsNext, Part
<1>2. n \in Nat \ {0} /\ b.first + n <= b.last + 1 /\ n <= s.written - Len(s.got)
  <2>1. /\ Len(s.got) \in Nat /\ b.first = Len(s.got) + 1
        /\ b.first <= b.last /\ b.last <= s.written
    BY <1>1 DEF IsNext
  <2>2. n \in Nat \ {0} /\ b.first + n <= b.last + 1
    BY <1>1, <2>1
  <2> HIDE DEF n
  <2> QED
    BY <1>1, <2>1, <2>2
<1>3. /\ s'.got = s.got \o run /\ s'.written = s.written
      /\ s'.buf = [first |-> b.first + n, last |-> b.last]
  BY DEF Hand, IInv, TypeOK
<1> HIDE DEF n
<1>4. run \in Seq(Nat) /\ Len(run) = n /\ \A i \in 1..n : run[i] = b.first + i - 1
  BY <1>1, <1>2
<1>5. run = [i \in 1..n |-> Len(s.got) + i]
  BY <1>1, <1>2 DEF IsNext
<1>6. Stream!Deliver
  <2>1. n \in 1..(s.written - Len(s.got))
    BY <1>1, <1>2
  <2> QED
    BY <1>3, <1>5, <2>1 DEF Stream!Deliver
<1> HIDE DEF run
<1>7. s'.got \in Seq(Nat) /\ Len(s'.got) = Len(s.got) + n
  <2>1. ASSUME NEW x \in Seq(Nat), NEW y \in Seq(Nat)
        PROVE  x \o y \in Seq(Nat) /\ Len(x \o y) = Len(x) + Len(y)
    BY ConcatProperties, Zenon
  <2> QED
    BY <1>1, <1>3, <1>4, <2>1, Zenon
<1>8. ASSUME NEW i \in 1..Len(s'.got)
      PROVE  s'.got[i] = i
  <2>1. CASE i <= Len(s.got)
    BY <1>1, <1>3, <1>4, <1>7, <2>1 DEF IInv, InOrder
  <2>2. CASE i > Len(s.got)
    <3>1. s'.got[i] = run[i - Len(s.got)] /\ i - Len(s.got) \in 1..n
      BY <1>1, <1>2, <1>3, <1>4, <1>7, <2>2
    <3> QED
      BY <1>1, <1>4, <3>1 DEF IsNext
  <2> QED
    BY <1>1, <1>7, <2>1, <2>2
<1>9. s'.buf.first = b.first + n /\ s'.buf.last = b.last
  BY <1>3
<1>10. s'.buf \in Part
  BY <1>1, <1>2, <1>3 DEF Part
<1>11. b.first + n = Len(s'.got) + 1
  <2>1. PICK g : g = Len(s.got)
    OBVIOUS
  <2>2. g \in Nat /\ b.first = g + 1 /\ Len(s'.got) = g + n
    BY <1>1, <1>7, <2>1 DEF IsNext
  <2> QED
    BY <1>2, <2>2
<1> QED
  BY <1>2, <1>3, <1>6, <1>7, <1>8, <1>9, <1>10, <1>11, Zenon

(* read_buf holds the next bytes, and where it is empty the first frame does. *)
LEMMA NextBytes ==
    ASSUME IInv
    PROVE  /\ ~Empty(s.buf) => IsNext(s.buf)
           /\ Empty(s.buf) /\ s.wire # <<>> =>
                  IsNext([first |-> Head(s.wire).first, last |-> Head(s.wire).last])
<1>1. /\ s.wire \in Seq(Frame) /\ s.written \in Nat /\ s.got \in Seq(Nat)
      /\ s.buf \in Part /\ s.buf.first \in Nat /\ s.buf.last \in Nat
  BY DEF IInv, TypeOK, Part
<1>2. ASSUME s.wire # <<>>
      PROVE  /\ Head(s.wire) = s.wire[1] /\ s.wire[1] \in Frame
             /\ s.wire[1].first \in Nat /\ s.wire[1].last \in Nat
             /\ s.wire[1].first <= s.wire[1].last /\ s.wire[1].last <= s.written
             /\ Behind = s.wire[1].first
  <2>1. 1 \in 1..Len(s.wire)
    BY <1>1, <1>2
  <2>2. Head(s.wire) = s.wire[1] /\ s.wire[1] \in Frame
    BY <1>1, <1>2, <2>1
  <2> QED
    BY <1>2, <2>1, <2>2 DEF IInv, Wire, Behind, Frame
<1>3. CASE ~Empty(s.buf)
  <2>1. s.buf.last <= s.written
    BY <1>1, <1>2 DEF IInv, InOrder, Behind
  <2> QED
    BY <1>1, <1>3, <2>1 DEF IInv, InOrder, Empty, IsNext
<1>4. CASE Empty(s.buf) /\ s.wire # <<>>
  <2>1. s.wire[1].first = Len(s.got) + 1
    BY <1>1, <1>2, <1>4 DEF IInv, InOrder, Empty
  <2> QED
    BY <1>2, <1>4, <2>1 DEF IsNext, Part
<1> QED
  BY <1>3, <1>4

(* A read of what is left in read_buf. *)
LEMMA ReadBufInv ==
    ASSUME IInv, NEW max \in Nat \ {0}, ~Empty(s.buf), Hand(s.buf, max)
    PROVE  IInv'
<1>1. /\ s'.got \in Seq(Nat) /\ \A i \in 1..Len(s'.got) : s'.got[i] = i
      /\ s'.buf \in Part /\ s'.buf.first = Len(s'.got) + 1 /\ s'.buf.last = s.buf.last
      /\ s'.buf.first <= s'.buf.last + 1
      /\ s'.written = s.written
  BY NextBytes, HandDelivers
<1>2. s'.wire = s.wire /\ s'.rn = s.rn /\ s'.wn = s.wn /\ s'.secure = s.secure /\ s'.torn = s.torn
  BY DEF Hand, IInv, TypeOK
<1>3. TypeOK'
  <2>1. s' = [s EXCEPT !.buf = s'.buf, !.wire = s'.wire, !.rn = s'.rn, !.got = s'.got]
    BY DEF Hand, IInv, TypeOK
  <2> QED
    BY <1>1, <1>2, <2>1 DEF IInv, TypeOK
<1> QED
  BY <1>1, <1>2, <1>3 DEF IInv, Wire, InOrder, Behind

(* A read that opens the next frame. *)
LEMMA ReadFrameInv ==
    ASSUME IInv, NEW max \in Nat \ {0}, Empty(s.buf), Opens,
           Hand([first |-> Head(s.wire).first, last |-> Head(s.wire).last], max)
    PROVE  IInv'
<1> DEFINE b == [first |-> Head(s.wire).first, last |-> Head(s.wire).last]
<1>0. s.wire # <<>> /\ s.wire \in Seq(Frame) /\ s.rn \in Nat /\ s.wn \in Nat /\ s.written \in Nat
  BY DEF IInv, TypeOK, Opens
<1>1. b.last = s.wire[1].last
  BY <1>0
<1>2. /\ s'.got \in Seq(Nat) /\ \A i \in 1..Len(s'.got) : s'.got[i] = i
      /\ s'.buf \in Part /\ s'.buf.first = Len(s'.got) + 1 /\ s'.buf.last = b.last
      /\ s'.buf.first <= s'.buf.last + 1
      /\ s'.written = s.written
  <2>1. IsNext(b) /\ Hand(b, max)
    BY <1>0, NextBytes
  <2> HIDE DEF b
  <2> QED
    BY <2>1, HandDelivers
<1>3. s'.wire = Tail(s.wire) /\ s'.rn = s.rn + 1 /\ s'.wn = s.wn
  BY DEF Hand, IInv, TypeOK
<1>4. /\ s'.wire \in Seq(Frame) /\ Len(s'.wire) = Len(s.wire) - 1
      /\ \A i \in 1..Len(s'.wire) : s'.wire[i] = s.wire[i + 1]
      /\ Len(s.wire) \in Nat \ {0}
  BY <1>0, <1>3
<1>5. TypeOK'
  <2>1. s' = [s EXCEPT !.buf = s'.buf, !.wire = s'.wire, !.rn = s'.rn, !.got = s'.got]
    BY DEF Hand, IInv, TypeOK
  <2>2. s'.rn \in Nat
    BY <1>0, <1>3
  <2> QED
    BY <1>2, <1>4, <2>1, <2>2 DEF IInv, TypeOK
<1>6. Wire'
  <2>1. ASSUME NEW i \in 1..Len(s'.wire)
        PROVE  /\ s'.wire[i].n = s'.rn + i - 1
               /\ s'.wire[i].first <= s'.wire[i].last /\ s'.wire[i].last <= s'.written
               /\ i < Len(s'.wire) => s'.wire[i + 1].first = s'.wire[i].last + 1
    <3>1. i + 1 \in 1..Len(s.wire) /\ (i < Len(s'.wire) => i + 1 \in 1..Len(s'.wire))
      BY <1>4
    <3>2. s'.wire[i] = s.wire[i + 1]
      BY <1>4
    <3>3. i < Len(s'.wire) => s'.wire[i + 1] = s.wire[i + 1 + 1] /\ i + 1 < Len(s.wire)
      BY <1>4, <3>1
    <3>4. /\ s.wire[i + 1].n = s.rn + (i + 1) - 1
          /\ s.wire[i + 1].first <= s.wire[i + 1].last /\ s.wire[i + 1].last <= s.written
          /\ i + 1 < Len(s.wire) => s.wire[i + 1 + 1].first = s.wire[i + 1].last + 1
      BY <3>1 DEF IInv, Wire
    <3>5. s.rn + (i + 1) - 1 = s'.rn + i - 1
      BY <1>0, <1>3
    <3>6. s'.written = s.written
      BY <1>2, Zenon
    <3> QED
      BY <3>2, <3>3, <3>4, <3>5, <3>6, Zenon
  <2>2. ASSUME s'.wire # <<>>
        PROVE  s'.wire[Len(s'.wire)].last = s'.written
    <3>1. Len(s'.wire) \in 1..Len(s'.wire) /\ Len(s'.wire) + 1 = Len(s.wire)
      BY <1>4, <2>2
    <3>2. s'.wire[Len(s'.wire)] = s.wire[Len(s.wire)]
      BY <1>4, <3>1
    <3> QED
      BY <1>0, <1>2, <3>2 DEF IInv, Wire
  <2>3. s'.wn = s'.rn + Len(s'.wire)
    BY <1>0, <1>3, <1>4 DEF IInv, Wire
  <2> QED
    BY <2>1, <2>2, <2>3 DEF Wire
<1>7. s'.buf.last + 1 = Behind'
  <2>1. CASE s'.wire = <<>>
    <3>1. Len(s.wire) = 1
      BY <1>4, <2>1
    <3>2. s.wire[1].last = s.written
      BY <1>0, <3>1 DEF IInv, Wire
    <3> QED
      BY <1>1, <1>2, <2>1, <3>2 DEF Behind
  <2>2. CASE s'.wire # <<>>
    <3>1. 1 \in 1..Len(s'.wire) /\ 1 \in 1..Len(s.wire) /\ 1 < Len(s.wire)
      BY <1>4, <2>2
    <3>2. s.wire[1 + 1].first = s.wire[1].last + 1
      BY <3>1 DEF IInv, Wire
    <3>3. s'.wire[1] = s.wire[1 + 1]
      BY <1>4, <3>1
    <3> QED
      BY <1>1, <1>2, <2>2, <3>2, <3>3 DEF Behind
  <2> QED
    BY <2>1, <2>2
<1> QED
  BY <1>2, <1>5, <1>6, <1>7 DEF IInv, InOrder

LEMMA StepInv == IInv /\ [Next]_s => IInv'
<1> SUFFICES ASSUME IInv, [Next]_s
             PROVE  IInv'
  OBVIOUS
<1>1. CASE \E k \in Nat \ {0} : Write(k)
  BY <1>1, WriteInv
<1>2. CASE \E k \in Nat \ {0} : Read(k)
  BY <1>2, ReadBufInv, ReadFrameInv DEF Read
<1>3. CASE Tear
  <2>1. s' = [s EXCEPT !.torn = TRUE]
    BY <1>3 DEF Tear
  <2> QED
    BY <2>1 DEF IInv, TypeOK, Wire, InOrder, Behind
<1>4. CASE UNCHANGED s
  BY <1>4 DEF IInv, TypeOK, Wire, InOrder, Behind
<1> QED
  BY <1>1, <1>2, <1>3, <1>4 DEF Next
--------------------------------------------------------------------------------
(* The reader's nonce is that of the next frame: a frame is refused only behind a *)
(* beginning that was lost.                                                       *)
THEOREM NoncesAgree == Spec => [](s.wire # <<>> /\ ~s.torn => Opens)
<1>1. IInv => (s.wire # <<>> /\ ~s.torn => Opens)
  <2> SUFFICES ASSUME IInv, s.wire # <<>>, ~s.torn
               PROVE  Opens
    OBVIOUS
  <2>1. s.wire \in Seq(Frame) /\ s.rn \in Nat
    BY DEF IInv, TypeOK
  <2>2. 1 \in 1..Len(s.wire) /\ Head(s.wire) = s.wire[1]
    BY <2>1
  <2> QED
    BY <2>1, <2>2 DEF IInv, Wire, Opens
<1> QED
  BY <1>1, InitInv, StepInv, PTL DEF Spec

(* Every step writes, or hands out bytes, or is none of the stream. *)
LEMMA StepStream == IInv /\ [Next]_s => [Stream!Next]_(Stream!vars)
<1> SUFFICES ASSUME IInv, [Next]_s
             PROVE  [Stream!Next]_(Stream!vars)
  OBVIOUS
<1>1. ASSUME NEW k \in Nat \ {0}, Write(k)
      PROVE  Stream!Write
  BY <1>1 DEF Write, Stream!Write, IInv, TypeOK
<1>2. ASSUME NEW k \in Nat \ {0}, Read(k)
      PROVE  Stream!Deliver
  <2>1. CASE ~Empty(s.buf) /\ Hand(s.buf, k)
    BY <2>1, NextBytes, HandDelivers
  <2>2. CASE /\ Empty(s.buf) /\ Opens
             /\ Hand([first |-> Head(s.wire).first, last |-> Head(s.wire).last], k)
    <3>1. IsNext([first |-> Head(s.wire).first, last |-> Head(s.wire).last])
      BY <2>2, NextBytes DEF Opens
    <3> QED
      BY <2>2, <3>1, HandDelivers
  <2> QED
    BY <1>2, <2>1, <2>2 DEF Read
<1>3. CASE Tear \/ UNCHANGED s
  BY <1>3 DEF Tear, Stream!vars, IInv, TypeOK
<1> QED
  BY <1>1, <1>2, <1>3 DEF Next, Stream!Next

(* HapStream implements ByteStream: the reader gets the bytes written, each once *)
(* and in order, for every size of frame, write and read.                        *)
THEOREM ImplementsByteStream == Spec => StreamSpec
<1>1. Init => Stream!Init
  BY DEF Init, InitAs, Stream!Init
<1> QED
  BY <1>1, InitInv, StepInv, StepStream, PTL DEF Spec, StreamSpec, Stream!Spec
================================================================================
