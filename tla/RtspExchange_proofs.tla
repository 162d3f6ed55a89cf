-------------------------- MODULE RtspExchange_proofs --------------------------
(***************************************************************************)
(* Proofs about RtspExchange for every frame size, every set of bodies and *)
(* any number of requests: its client and server use both directions as    *)
(* HapStream allows, so that requests and answers arrive as streams of     *)
(* bytes; nothing is served behind a frame that was torn; a call that      *)
(* begins with an answer returns it, and one behind a call given up inside *)
(* of an answer returns with the next at the latest; and the server serves *)
(* the requests that were sent, whatever their bodies hold and however the *)
(* text is cut.                                                            *)
(***************************************************************************)
EXTENDS RtspExchange, SequenceTheorems, WellFoundedInduction, TLAPS

P == INSTANCE HapStream_proofs WITH s <- up

(* What the server knows of a request: a body it still reads is longer than what it *)
(* has of it.                                                                       *)
Known ==
    /\ req = [at |-> req.at, len |-> req.len, body |-> req.body]
    /\ req.len \in Nat /\ req.body \in Seq(Nat)
    /\ phase \in {"request", "headers", "answer"} => req.body = <<>>
    /\ phase = "body" => Len(req.body) < req.len

IInv == P!IInv /\ text \in Seq(Tokens) /\ Known /\ up.secure = secure

(* Behind a torn frame the reader holds no byte, and the server no part of a line. *)
Torn == up.torn => secure /\ P!Empty(up.buf) /\ (line = <<>> \/ phase = "ended")
--------------------------------------------------------------------------------
(* The actions of Up are those of HapStream. *)
LEMMA SameActions ==
    /\ \A k : Up!Write(k) => P!Write(k)
    /\ \A k : Up!Read(k) => P!Read(k)
    /\ Up!Tear => P!Tear
  BY DEF Up!Write, P!Write, Up!Read, P!Read, Up!Tear, P!Tear, Up!Hand, P!Hand,
         Up!Opens, P!Opens, Up!Empty, P!Empty

LEMMA InitInv == Init => IInv /\ Torn
<1> SUFFICES ASSUME Init
             PROVE  IInv /\ Torn
  OBVIOUS
<1>1. P!IInv
  <2>1. P!Init
    BY DEF Init, Up!InitAs, P!Init, P!InitAs
  <2> QED
    BY <2>1, P!InitInv
<1>2. text \in Seq(Tokens)
  BY DEF Init
<1>3. Known
  BY DEF Init, Known, Fresh
<1>4. up.secure = secure /\ ~up.torn
  BY DEF Init, Up!InitAs
<1> QED
  BY <1>1, <1>2, <1>3, <1>4 DEF IInv, Torn

(* The text of a request is one of tokens. *)
LEMMA TextIsTokens ==
    ASSUME NEW body \in Bodies
    PROVE  Headers(body) \in Seq(Tokens) /\ body \in Seq(Tokens)
<1>1. body \in Seq(Tokens) /\ Len(body) \in Nat
  BY BodiesAreTokens
<1>2. <<"0">> \in Seq(Tokens)
  BY DEF Tokens
<1>3. ASSUME NEW n \in Nat
      PROVE  [i \in 1..n |-> "1"] \in Seq(Tokens)
  BY DEF Tokens
<1>4. Digits(Len(body)) \in Seq(Tokens)
  BY <1>1, <1>2, <1>3 DEF Digits
<1>5. <<"Q", "V", "r", "n", "C", ":", "1", "r", "n", "L", ":">> \in Seq(Tokens)
  BY DEF Tokens
<1>6. <<"r", "n", "r", "n">> \in Seq(Tokens)
  BY DEF Tokens
<1>7. ASSUME NEW a \in Seq(Tokens), NEW b \in Seq(Tokens)
      PROVE  a \o b \in Seq(Tokens)
  BY <1>7, ConcatProperties
<1> QED
  BY <1>1, <1>4, <1>5, <1>6, <1>7 DEF Headers

(* A read hands out at least a byte and at most as many as it was asked for. *)
LEMMA ReadTakes ==
    ASSUME P!IInv, NEW max \in Nat \ {0}, Up!Read(max)
    PROVE  /\ up.got \in Seq(Nat) /\ up'.got \in Seq(Nat)
           /\ Len(up.got) < Len(up'.got) /\ Len(up'.got) <= Len(up.got) + max
           /\ up'.torn = up.torn /\ up'.secure = up.secure
<1>1. up.got \in Seq(Nat) /\ P!Read(max)
  BY SameActions DEF P!IInv, P!TypeOK
<1>2. ASSUME NEW b, P!IsNext(b), P!Hand(b, max)
      PROVE  /\ up'.got \in Seq(Nat)
             /\ Len(up.got) < Len(up'.got) /\ Len(up'.got) <= Len(up.got) + max
             /\ up'.torn = up.torn /\ up'.secure = up.secure
  <2> DEFINE n == IF max < b.last - b.first + 1 THEN max ELSE b.last - b.first + 1
             run == [i \in 1..n |-> b.first + i - 1]
  <2>1. b.first \in Nat /\ b.last \in Nat /\ b.first <= b.last
    BY <1>2 DEF P!IsNext, P!Part
  <2>2. n \in Nat \ {0} /\ n <= max
    BY <2>1
  <2>3. up'.got = up.got \o run /\ up'.torn = up.torn /\ up'.secure = up.secure
    BY <1>2 DEF P!Hand, P!IInv, P!TypeOK
  <2> HIDE DEF n
  <2>4. run \in Seq(Nat) /\ Len(run) = n
    BY <2>1, <2>2
  <2> HIDE DEF run
  <2>5. up'.got \in Seq(Nat) /\ Len(up'.got) = Len(up.got) + n
    BY <1>1, <2>3, <2>4, ConcatProperties
  <2> QED
    BY <1>1, <2>2, <2>3, <2>5
<1>3. CASE ~P!Empty(up.buf) /\ P!Hand(up.buf, max)
  BY <1>1, <1>2, <1>3, P!NextBytes
<1>4. CASE /\ P!Empty(up.buf) /\ P!Opens
           /\ P!Hand([first |-> Head(up.wire).first, last |-> Head(up.wire).last], max)
  <2>1. P!IsNext([first |-> Head(up.wire).first, last |-> Head(up.wire).last])
    BY <1>4, P!NextBytes DEF P!Opens
  <2> QED
    BY <1>1, <1>2, <1>4, <2>1
<1> QED
  BY <1>1, <1>3, <1>4 DEF P!Read

(* Nothing is read behind a torn frame. *)
LEMMA TornReadsNothing ==
    ASSUME up.torn, P!Empty(up.buf)
    PROVE  \A max : ~Up!Read(max)
  BY DEF P!Empty, Up!Empty, Up!Read, Up!Opens
--------------------------------------------------------------------------------
LEMMA EndKnown == Known /\ End => Known'
  BY DEF Known, End

LEMMA ServeKnown == ASSUME NEW r, Serve(r) PROVE Known' /\ line' = <<>> /\ phase' = "answer"
  BY DEF Known, Serve, Fresh

(* The end of the headers, and each line of a request. *)
LEMMA BodyKnown ==
    ASSUME Known, phase = "headers", NEW cut, Body(cut)
    PROVE  Known' /\ (line' = <<>> \/ phase' = "ended")
<1>1. CASE End
  BY <1>1, EndKnown DEF End
<1>2. CASE Serve(req)
  BY <1>2, ServeKnown
<1>3. CASE /\ req.len # 0
           /\ phase' = "body" /\ line' = <<>>
           /\ req' = [req EXCEPT !.len = Lesser(@, BodyLimit)]
  <2>1. Lesser(req.len, BodyLimit) \in Nat \ {0}
    BY <1>3, LimitsArePositive DEF Lesser, Known
  <2>2. req' = [at |-> req.at, len |-> Lesser(req.len, BodyLimit), body |-> req.body]
    BY <1>3 DEF Known
  <2>3. req.body = <<>> /\ req.body \in Seq(Nat) /\ Len(req.body) = 0
    BY DEF Known
  <2> DEFINE len == Lesser(req.len, BodyLimit)
  <2> HIDE DEF len
  <2>4. /\ req'.at = req.at /\ req'.len = len /\ req'.body = req.body
        /\ req' = [at |-> req'.at, len |-> req'.len, body |-> req'.body]
        /\ len \in Nat \ {0} /\ phase' = "body"
    BY <1>3, <2>1, <2>2 DEF len
  <2>5. Len(req'.body) < req'.len
    BY <2>3, <2>4
  <2> QED
    BY <1>3, <2>3, <2>4, <2>5 DEF Known
<1> QED
  BY <1>1, <1>2, <1>3 DEF Body

LEMMA LineKnown ==
    ASSUME Known, phase \in {"request", "headers"}, NEW l, NEW cut, TakeLine(l, cut)
    PROVE  Known' /\ (line' = <<>> \/ phase' = "ended")
<1>1. CASE phase = "request"
  <2>1. CASE IsRequest(l)
    BY <1>1, <2>1 DEF TakeLine, Known
  <2>2. CASE ~IsRequest(l)
    BY <1>1, <2>2, EndKnown DEF TakeLine, End
  <2> QED
    BY <2>1, <2>2
<1>2. CASE phase = "headers" /\ l = <<>>
  <2>1. Body(cut)
    BY <1>2 DEF TakeLine
  <2> QED
    BY <1>2, <2>1, BodyKnown
<1>3. CASE phase = "headers" /\ l # <<>> /\ HeaderTaken(l)
  <2> DEFINE len == IF HasColon(l) /\ Name(l) = <<"L">> THEN Number(Value(l)) ELSE req.len
             cseq == IF HasColon(l) /\ Name(l) = <<"C">> THEN ByteRead ELSE req.at
  <2>1. line' = <<>> /\ phase' = phase /\ req' = [req EXCEPT !.len = len, !.at = cseq]
    BY <1>3 DEF TakeLine
  <2>2. len \in Nat
    <3>1. CASE HasColon(l) /\ Name(l) = <<"L">>
      <4>1. Value(l) \in Seq({"0", "1"})
        BY <1>3, <3>1 DEF HeaderTaken, IsNumber
      <4>2. Len(Value(l)) \in Nat
        BY <4>1
      <4> QED
        BY <3>1, <4>2 DEF Number
    <3>2. CASE ~(HasColon(l) /\ Name(l) = <<"L">>)
      BY <3>2 DEF Known
    <3> QED
      BY <3>1, <3>2
  <2> HIDE DEF len, cseq
  <2>3. req' = [at |-> cseq, len |-> len, body |-> req.body]
    BY <2>1 DEF Known
  <2> QED
    BY <1>3, <2>1, <2>2, <2>3 DEF Known
<1>4. CASE phase = "headers" /\ l # <<>> /\ ~HeaderTaken(l)
  BY <1>4, EndKnown DEF TakeLine, End
<1> QED
  BY <1>1, <1>2, <1>3, <1>4
--------------------------------------------------------------------------------
(* A write of the client is one of HapStream. *)
LEMMA PieceIsPositive ==
    ASSUME IInv, up.written < Len(text)
    PROVE  Piece(Len(text) - up.written) \in Nat \ {0}
<1>1. Len(text) \in Nat /\ up.written \in Nat
  BY DEF IInv, P!IInv, P!TypeOK
<1> QED
  BY <1>1, LimitsArePositive DEF Piece, Lesser

(* Every step keeps to HapStream. *)
LEMMA StepUp ==
    ASSUME IInv, [Next]_vars
    PROVE  [P!Next]_up
<1>1. CASE SendRequest
  <2>1. Up!Write(Piece(Len(text) - up.written)) /\ Piece(Len(text) - up.written) \in Nat \ {0}
    BY <1>1, PieceIsPositive DEF SendRequest
  <2> QED
    BY <2>1, SameActions DEF P!Next
<1>2. CASE ReadByte
  BY <1>2, SameActions DEF ReadByte, P!Next
<1>3. CASE ReadBody
  <2>1. req.len - Len(req.body) \in Nat \ {0}
    BY <1>3 DEF ReadBody, IInv, Known
  <2>2. P!Read(req.len - Len(req.body))
    BY <1>3, SameActions DEF ReadBody
  <2> QED
    BY <2>1, <2>2 DEF P!Next
<1>4. CASE ReadFails
  BY <1>4, SameActions DEF ReadFails, P!Next
<1>5. CASE \E body \in Bodies : Ask(body)
  BY <1>5 DEF Ask
<1>6. CASE ReadAnswer
  BY <1>6 DEF ReadAnswer
<1>7. CASE SendAnswer \/ GiveUp \/ BodyEnds \/ UNCHANGED vars
  BY <1>7 DEF SendAnswer, GiveUp, BodyEnds, vars
<1> QED
  BY <1>1, <1>2, <1>3, <1>4, <1>5, <1>6, <1>7 DEF Next, Client, Server

LEMMA StepText ==
    ASSUME IInv, [Next]_vars
    PROVE  text' \in Seq(Tokens)
<1>1. CASE \E body \in Bodies : Ask(body)
  <2>1. PICK body \in Bodies : text' = text \o Headers(body) \o body
    BY <1>1 DEF Ask
  <2>2. Headers(body) \in Seq(Tokens) /\ body \in Seq(Tokens) /\ text \in Seq(Tokens)
    BY TextIsTokens DEF IInv
  <2>3. text \o Headers(body) \in Seq(Tokens)
    BY <2>2, ConcatProperties
  <2> QED
    BY <2>1, <2>2, <2>3, ConcatProperties
<1>2. CASE ~\E body \in Bodies : Ask(body)
  <2>1. text' = text
    BY <1>2 DEF Next, Client, Server, SendRequest, ReadAnswer, ReadByte, ReadBody, SendAnswer,
                GiveUp, ReadFails, BodyEnds, client, vars
  <2> QED
    BY <2>1 DEF IInv
<1> QED
  BY <1>1, <1>2

(* The elements of a sequence behind its first m. *)
LEMMA RestOfSeq ==
    ASSUME NEW a \in Seq(Nat), NEW m \in Nat, m <= Len(a)
    PROVE  SubSeq(a, m + 1, Len(a)) \in Seq(Nat) /\ Len(SubSeq(a, m + 1, Len(a))) = Len(a) - m
<1>1. m + 1 \in Int /\ Len(a) \in Int /\ \A i \in (m + 1)..Len(a) : a[i] \in Nat
  OBVIOUS
<1>2. /\ SubSeq(a, m + 1, Len(a)) \in Seq(Nat)
      /\ Len(SubSeq(a, m + 1, Len(a))) = IF m + 1 <= Len(a) THEN Len(a) - (m + 1) + 1 ELSE 0
  BY <1>1, SubSeqProperties
<1> QED
  BY <1>2

(* Every step keeps what the server knows, and whether it has lost a frame. *)
LEMMA StepKnown ==
    ASSUME IInv, [Next]_vars
    PROVE  Known' /\ up'.secure = secure'
<1>1. up.secure = secure /\ Known /\ P!IInv
  BY DEF IInv
<1>2. CASE SendRequest
  <2>1. up'.secure = up.secure
    BY <1>1, <1>2 DEF SendRequest, Up!Write, P!IInv, P!TypeOK
  <2> QED
    BY <1>1, <1>2, <2>1 DEF SendRequest, server, Known
<1>3. CASE ReadByte
  <2>1. up'.secure = up.secure
    BY <1>1, <1>3, ReadTakes DEF ReadByte
  <2>2. CASE \E l, cut : TakeLine(l, cut)
    BY <1>1, <1>3, <2>1, <2>2, LineKnown DEF ReadByte
  <2>3. CASE ~\E l, cut : TakeLine(l, cut)
    BY <1>1, <1>3, <2>1, <2>3 DEF ReadByte, Known
  <2> QED
    BY <2>2, <2>3
<1>4. CASE ReadBody
  <2> DEFINE part == SubSeq(up'.got, Len(up.got) + 1, Len(up'.got))
             body == req.body \o part
  <2>1. req.len - Len(req.body) \in Nat \ {0} /\ req.body \in Seq(Nat) /\ req.len \in Nat
    BY <1>1, <1>4 DEF ReadBody, Known
  <2>2. /\ up.got \in Seq(Nat) /\ up'.got \in Seq(Nat)
        /\ Len(up.got) < Len(up'.got)
        /\ Len(up'.got) <= Len(up.got) + (req.len - Len(req.body))
        /\ up'.secure = up.secure
    BY <1>1, <1>4, <2>1, ReadTakes DEF ReadBody
  <2>3. part \in Seq(Nat) /\ Len(part) = Len(up'.got) - Len(up.got)
    <3>1. Len(up.got) \in Nat /\ Len(up.got) <= Len(up'.got)
      BY <2>2
    <3> QED
      BY <2>2, <3>1, RestOfSeq
  <2> HIDE DEF part
  <2>4. body \in Seq(Nat) /\ Len(body) = Len(req.body) + Len(part)
    BY <2>1, <2>3, ConcatProperties
  <2>5. Len(body) <= req.len
    <3>1. /\ Len(req.body) \in Nat /\ Len(part) \in Nat /\ Len(body) \in Nat
          /\ Len(up.got) \in Nat /\ Len(up'.got) \in Nat
      <4>1. body \in Seq(Nat) /\ part \in Seq(Nat) /\ req.body \in Seq(Nat)
        BY <2>1, <2>3, <2>4
      <4> HIDE DEF body
      <4> QED
        BY <2>2, <4>1
    <3>2. ASSUME NEW a \in Nat, NEW b \in Nat, NEW c \in Nat, NEW g \in Nat, NEW h \in Nat,
                 NEW n \in Nat, a = b + c, c = h - g, h <= g + (n - b)
          PROVE  a <= n
      BY <3>2
    <3> HIDE DEF body
    <3> QED
      BY <2>1, <2>2, <2>3, <2>4, <3>1, <3>2, Zenon
  <2> HIDE DEF body
  <2>6. CASE BodyRead(body)
    <3>1. Serve([req EXCEPT !.body = body])
      BY <1>4, <2>6 DEF ReadBody, body, part
    <3> QED
      BY <1>1, <1>4, <2>2, <3>1, ServeKnown DEF ReadBody
  <2>7. CASE ~BodyRead(body)
    <3>1. req' = [req EXCEPT !.body = body] /\ phase' = phase /\ phase = "body"
      BY <1>4, <2>7 DEF ReadBody, body, part
    <3>2. req' = [at |-> req.at, len |-> req.len, body |-> body]
      BY <1>1, <3>1 DEF Known
    <3>3. Len(body) < req.len
      <4>1. Len(body) \in Nat /\ Len(body) # req.len
        BY <2>4, <2>7 DEF BodyRead
      <4> QED
        BY <2>1, <2>5, <4>1
    <3>4. Known'
      BY <2>1, <2>4, <3>1, <3>2, <3>3 DEF Known
    <3> QED
      BY <1>1, <1>4, <2>2, <3>4 DEF ReadBody
  <2> QED
    BY <2>6, <2>7
<1>5. CASE ReadFails
  <2>1. up'.secure = up.secure
    BY <1>1, <1>5 DEF ReadFails, Up!Tear, P!IInv, P!TypeOK
  <2>2. CASE End
    BY <1>1, <1>5, <2>1, <2>2, EndKnown DEF ReadFails
  <2>3. CASE phase # "body" /\ TakeLine(Trim(line), TRUE)
    BY <1>1, <1>5, <2>1, <2>3, LineKnown DEF ReadFails
  <2> QED
    BY <1>5, <2>2, <2>3 DEF ReadFails
<1>6. CASE BodyEnds
  BY <1>1, <1>6, ServeKnown DEF BodyEnds
<1>7. CASE SendAnswer
  <2>1. phase = "answer" /\ phase' \in {"request", "answer"} /\ req' = req
        /\ up' = up /\ secure' = secure
    BY <1>7 DEF SendAnswer
  <2> QED
    BY <1>1, <2>1 DEF Known
<1>8. CASE \E body \in Bodies : Ask(body)
  BY <1>1, <1>8 DEF Ask, server, Known
<1>9. CASE ReadAnswer \/ GiveUp \/ UNCHANGED vars
  BY <1>1, <1>9 DEF ReadAnswer, GiveUp, server, vars, Known
<1> QED
  BY <1>2, <1>3, <1>4, <1>5, <1>6, <1>7, <1>8, <1>9 DEF Next, Client, Server

LEMMA StepInv == IInv /\ [Next]_vars => IInv'
  BY StepUp, StepText, StepKnown, P!StepInv DEF IInv

(* Behind a torn frame the line stays empty: what is read of one is taken for the   *)
(* line, or the connection ends, and nothing more is read.                          *)
LEMMA StepTorn == IInv /\ Torn /\ [Next]_vars => Torn'
<1> SUFFICES ASSUME IInv, Torn, [Next]_vars
             PROVE  Torn'
  OBVIOUS
<1>1. up.secure = secure /\ Known /\ P!IInv /\ P!TypeOK
  BY DEF IInv, P!IInv
<1>2. CASE SendRequest
  <2>1. up'.torn = up.torn /\ up'.buf = up.buf
    BY <1>1, <1>2 DEF SendRequest, Up!Write, P!TypeOK
  <2> QED
    BY <1>2, <2>1 DEF SendRequest, server, Torn, P!Empty
<1>3. CASE ReadByte
  <2>1. ~up.torn
    BY <1>3, TornReadsNothing DEF ReadByte, Torn
  <2>2. ~up'.torn
    BY <1>1, <1>3, <2>1, ReadTakes DEF ReadByte
  <2> QED
    BY <2>2 DEF Torn
<1>4. CASE ReadBody
  <2>1. ~up.torn
    BY <1>4, TornReadsNothing DEF ReadBody, Torn
  <2>2. req.len - Len(req.body) \in Nat \ {0}
    BY <1>1, <1>4 DEF ReadBody, Known
  <2>3. ~up'.torn
    BY <1>1, <1>4, <2>1, <2>2, ReadTakes DEF ReadBody
  <2> QED
    BY <2>3 DEF Torn
<1>5. CASE ReadFails
  <2>1. line' = <<>> \/ phase' = "ended"
    <3>1. CASE phase # "body" /\ line # <<>> /\ TakeLine(Trim(line), TRUE)
      BY <1>1, <1>5, <3>1, LineKnown DEF ReadFails
    <3>2. CASE End
      BY <3>2 DEF End
    <3> QED
      BY <1>5, <3>1, <3>2 DEF ReadFails
  <2>2. secure' = secure
    BY <1>5 DEF ReadFails
  <2>3. CASE Up!Tear
    <3>1. secure /\ P!Empty(up.buf) /\ up'.buf = up.buf
      BY <1>1, <2>3 DEF Up!Tear, P!TypeOK, P!Empty, Up!Empty
    <3> QED
      BY <2>1, <2>2, <3>1 DEF Torn, P!Empty
  <2>4. CASE up' = up
    BY <2>1, <2>2, <2>4 DEF Torn
  <2> QED
    BY <1>5, <2>3, <2>4 DEF ReadFails
<1>6. CASE BodyEnds
  <2>1. up' = up /\ secure' = secure /\ Serve(req)
    BY <1>6 DEF BodyEnds
  <2> QED
    BY <2>1, ServeKnown DEF Torn
<1>7. CASE SendAnswer
  <2>1. phase # "ended" /\ line' = line /\ up' = up /\ secure' = secure
    BY <1>7 DEF SendAnswer
  <2> QED
    BY <2>1 DEF Torn
<1>8. CASE \E body \in Bodies : Ask(body)
  BY <1>8 DEF Ask, server, Torn
<1>9. CASE ReadAnswer \/ GiveUp \/ UNCHANGED vars
  BY <1>9 DEF ReadAnswer, GiveUp, server, vars, Torn
<1> QED
  BY <1>2, <1>3, <1>4, <1>5, <1>6, <1>7, <1>8, <1>9 DEF Next, Client, Server

LEMMA Inductive == Spec => [](IInv /\ Torn)
<1>1. IInv /\ Torn /\ [Next]_vars => (IInv /\ Torn)'
  BY StepInv, StepTorn
<1> QED
  BY InitInv, <1>1, PTL DEF Spec
--------------------------------------------------------------------------------
(* However the requests are cut into frames, and whatever the server asks for at a  *)
(* time - a byte of a line, the rest of a body - the text of the requests reaches   *)
(* it as a stream: each byte once, in order, none lost behind a read that took only *)
(* part of a frame (the read_buf of HapStream, receiver/pairing.rs).                *)
THEOREM ImplementsUp == Spec => UpIsAStream
<1>1. Init => Up!Stream!Init
  BY DEF Init, Up!InitAs, Up!Stream!Init
<1>2. IInv /\ [Next]_vars => [Up!Stream!Next]_(Up!Stream!vars)
  <2> SUFFICES ASSUME IInv, [Next]_vars
               PROVE  [Up!Stream!Next]_(Up!Stream!vars)
    OBVIOUS
  <2>1. P!IInv /\ [P!Next]_up
    BY StepUp DEF IInv
  <2>2. [P!Stream!Next]_(P!Stream!vars)
    BY <2>1, P!StepStream
  <2> QED
    BY <2>2 DEF P!Stream!Next, P!Stream!vars, P!Stream!Write, P!Stream!Deliver,
                Up!Stream!Next, Up!Stream!vars, Up!Stream!Write, Up!Stream!Deliver
<1> QED
  BY <1>1, <1>2, Inductive, PTL DEF Spec, UpIsAStream, Up!StreamSpec, Up!Stream!Spec

(* A server that has timed out inside a frame reads nothing behind it and answers   *)
(* no request, not even with bytes it had read before: what it holds is empty.      *)
THEOREM NothingBehindTorn == Spec => TornServesNothing
<1>1. IInv /\ Torn /\ [Next]_vars => [up.torn => up'.got = up.got /\ served' = served]_vars
  <2> SUFFICES ASSUME IInv, Torn, [Next]_vars, up.torn
               PROVE  up'.got = up.got /\ served' = served
    OBVIOUS
  <2>1. secure /\ P!TypeOK /\ Known
    BY DEF IInv, P!IInv, Torn
  <2>2. ~ReadByte /\ ~ReadBody
    BY TornReadsNothing DEF Torn, ReadByte, ReadBody
  <2>3. CASE SendRequest
    BY <2>1, <2>3 DEF SendRequest, Up!Write, P!TypeOK, server
  <2>4. CASE ReadFails
    <3>1. phase # "body" /\ line # <<>> => phase = "ended"
      BY DEF Torn
    <3>2. End
      BY <2>4, <3>1 DEF ReadFails
    <3>3. up'.got = up.got
      BY <2>1, <2>4 DEF ReadFails, Up!Tear
    <3> QED
      BY <3>2, <3>3 DEF End
  <2>5. CASE BodyEnds
    BY <2>1, <2>5 DEF BodyEnds
  <2>6. CASE \E body \in Bodies : Ask(body)
    BY <2>6 DEF Ask, server
  <2>7. CASE ReadAnswer \/ GiveUp \/ SendAnswer \/ UNCHANGED vars
    BY <2>7 DEF ReadAnswer, GiveUp, SendAnswer, server, vars
  <2> QED
    BY <2>2, <2>3, <2>4, <2>5, <2>6, <2>7 DEF Next, Client, Server
<1> QED
  BY <1>1, Inductive, PTL DEF Spec, TornServesNothing
--------------------------------------------------------------------------------
D == INSTANCE HapStream_proofs WITH s <- down
--------------------------------------------------------------------------------
(* Answers and the direction they take. *)
Answer == [begin : Nat, body : Nat]

AnswersTyped ==
    /\ D!IInv /\ down.secure = secure
    /\ answers \in Seq(Answer)
    /\ at \in Nat /\ at <= Len(down.got) /\ lost \in BOOLEAN

(* Each answer begins where the one before it ends, and all but the last are written. *)
Contiguous ==
    /\ \A i \in 1..Len(answers) : answers[i].begin = Place(i - 1)
    /\ \A i \in 0..(Len(answers) - 1) : Place(i) <= down.written
    /\ \A i \in 0..Len(answers), j \in 1..Len(answers) : i < j => Place(i) <= answers[j].begin

(* What the server owes is what is missing of its last answer, header and body apart. *)
Owed ==
    LET p == Place(Len(answers))
        h == HeaderEnd(Len(answers))
    IN IF phase = "answer"
       THEN /\ answers # <<>>
            /\ \/ \E a \in Nat \ {0} :
                     due = <<a>> /\ down.written + a = p /\ (h <= down.written \/ h = p)
               \/ \E a, b \in Nat \ {0} :
                     due = <<a, b>> /\ down.written + a = h /\ down.written + a + b = p
       ELSE due = <<>> /\ down.written = p

(* The client has not read what ends its response, nor what would end a later one. *)
Unread == \A i \in Ahead : Len(down.got) < HeaderEnd(i) + BodyOf(i)

(* A client that has given up nothing begins with an answer or with a body. *)
Placed ==
    \/ lost
    \/ \E i \in 0..Len(answers) : at = Place(i)
    \/ \E i \in 1..Len(answers) : at = HeaderEnd(i)

(* A frame holds bytes of one answer, and of its header or its body, and is read whole. *)
Apart ==
    secure =>
        /\ D!Empty(down.buf)
        /\ \A n \in 1..Len(down.wire) :
              /\ down.wire[n].last - down.wire[n].first < Limit
              /\ \A i \in 0..Len(answers) :
                    Place(i) < down.wire[n].first \/ down.wire[n].last <= Place(i)
              /\ \A i \in 1..Len(answers) :
                    HeaderEnd(i) < down.wire[n].first \/ down.wire[n].last <= HeaderEnd(i)

DInv == AnswersTyped /\ Contiguous /\ Owed /\ Unread /\ Placed /\ Apart
--------------------------------------------------------------------------------
(* So are those of Down. *)
LEMMA SameActionsDown ==
    /\ \A k : Down!Write(k) => D!Write(k)
    /\ \A k : Down!Read(k) => D!Read(k)
    /\ Down!Tear => D!Tear
  BY DEF Down!Write, D!Write, Down!Read, D!Read, Down!Tear, D!Tear, Down!Hand, D!Hand,
         Down!Opens, D!Opens, Down!Empty, D!Empty

(* A place in the answers is a number of bytes. *)
LEMMA PlaceIsNat ==
    ASSUME answers \in Seq(Answer)
    PROVE  /\ Len(answers) \in Nat
           /\ \A i \in 0..Len(answers) : Place(i) \in Nat
           /\ \A i \in 1..Len(answers) :
                 /\ answers[i].begin \in Nat /\ answers[i].body \in Nat /\ HeaderEnd(i) \in Nat
                 /\ HeaderEnd(i) = answers[i].begin + AnswerHeader
                 /\ Place(i) = HeaderEnd(i) + answers[i].body
<1>1. Len(answers) \in Nat /\ AnswerHeader \in Nat
  BY AnswersAreSizes
<1>2. ASSUME NEW i \in 1..Len(answers)
      PROVE  /\ answers[i].begin \in Nat /\ answers[i].body \in Nat /\ HeaderEnd(i) \in Nat
             /\ HeaderEnd(i) = answers[i].begin + AnswerHeader
             /\ Place(i) = HeaderEnd(i) + answers[i].body /\ Place(i) \in Nat
  <2>1. answers[i] \in Answer
    BY <1>2
  <2>2. answers[i].begin \in Nat /\ answers[i].body \in Nat
    BY <2>1 DEF Answer
  <2>3. HeaderEnd(i) = answers[i].begin + AnswerHeader /\ HeaderEnd(i) \in Nat
    BY <1>1, <2>2 DEF HeaderEnd
  <2>4. Place(i) = HeaderEnd(i) + answers[i].body
    BY <1>2 DEF Place
  <2> QED
    BY <2>2, <2>3, <2>4
<1>3. ASSUME NEW i \in 0..Len(answers)
      PROVE  Place(i) \in Nat
  <2>1. CASE i = 0
    BY <2>1 DEF Place
  <2>2. CASE i # 0
    <3>1. i \in 1..Len(answers)
      BY <2>2
    <3> QED
      BY <1>2, <3>1
  <2> QED
    BY <2>1, <2>2
<1> QED
  BY <1>1, <1>2, <1>3

(* Nothing has been answered at first. *)
LEMMA InitAnswers == Init => DInv
<1> SUFFICES ASSUME Init
             PROVE  DInv
  OBVIOUS
<1>1. D!IInv
  <2>1. D!Init
    BY DEF Init, Down!InitAs, D!Init, D!InitAs
  <2> QED
    BY <2>1, D!InitInv
<1>2. /\ down.secure = secure /\ down.written = 0 /\ down.got = <<>>
      /\ down.wire = <<>> /\ D!Empty(down.buf)
  BY DEF Init, Down!InitAs, D!Empty
<1>3. /\ answers = <<>> /\ at = 0 /\ lost = FALSE /\ phase = "request" /\ due = <<>>
      /\ Place(0) = 0
  BY DEF Init, Place
<1>4. Len(answers) = 0 /\ answers \in Seq(Answer) /\ Len(down.got) = 0 /\ Len(down.wire) = 0
  BY <1>2, <1>3
<1>5. AnswersTyped
  <2>1. at \in Nat /\ at <= Len(down.got)
    BY <1>3, <1>4
  <2>2. lost \in BOOLEAN
    BY <1>3, Zenon
  <2> QED
    BY <1>1, <1>2, <1>4, <2>1, <2>2, Zenon DEF AnswersTyped
<1>6. Contiguous
  BY <1>4 DEF Contiguous
<1>7. Owed /\ Unread /\ Placed
  BY <1>2, <1>3, <1>4 DEF Owed, Unread, Ahead, Placed
<1>8. Apart
  BY <1>2, <1>4 DEF Apart
<1> QED
  BY <1>5, <1>6, <1>7, <1>8 DEF DInv

(* Steps that touch none of it. *)
LEMMA AnswersStay ==
    ASSUME DInv, UNCHANGED <<down, secure, answers, at, lost, due>>,
           phase' = "answer" <=> phase = "answer"
    PROVE  DInv'
<1>1. AnswersTyped'
  BY DEF DInv, AnswersTyped, D!IInv, D!TypeOK, D!Wire, D!InOrder, D!Behind
<1>2. \A i : Place(i)' = Place(i) /\ HeaderEnd(i)' = HeaderEnd(i) /\ BodyOf(i)' = BodyOf(i)
  BY DEF Place, HeaderEnd, BodyOf
<1>3. Contiguous'
  BY <1>2 DEF DInv, Contiguous
<1>4. Owed'
  BY <1>2 DEF DInv, Owed
<1>5. Unread' /\ Placed'
  BY <1>2 DEF DInv, Unread, Ahead, Placed
<1>6. Apart'
  BY <1>2 DEF DInv, Apart, D!Empty
<1> QED
  BY <1>1, <1>3, <1>4, <1>5, <1>6 DEF DInv

(* No more is handed out than was written. *)
LEMMA NoMoreThanWritten == D!IInv => Len(down.got) <= down.written
<1> SUFFICES ASSUME D!IInv
             PROVE  Len(down.got) <= down.written
  OBVIOUS
<1>1. /\ down.got \in Seq(Nat) /\ down.written \in Nat /\ down.wire \in Seq(D!Frame)
      /\ down.buf.first \in Nat /\ down.buf.last \in Nat
      /\ down.buf.first = Len(down.got) + 1 /\ down.buf.last + 1 = D!Behind
      /\ down.buf.first <= down.buf.last + 1
  BY DEF D!IInv, D!TypeOK, D!InOrder, D!Part
<1>2. D!Behind \in Nat /\ D!Behind <= down.written + 1
  <2>1. CASE down.wire = <<>>
    BY <1>1, <2>1 DEF D!Behind
  <2>2. CASE down.wire # <<>>
    <3>1. 1 \in 1..Len(down.wire) /\ down.wire[1] \in D!Frame
      BY <1>1, <2>2
    <3>2. /\ down.wire[1].first \in Nat /\ down.wire[1].last \in Nat
          /\ down.wire[1].first <= down.wire[1].last /\ down.wire[1].last <= down.written
      BY <3>1 DEF D!IInv, D!Wire, D!Frame
    <3> QED
      BY <1>1, <2>2, <3>2 DEF D!Behind
  <2> QED
    BY <2>1, <2>2
<1> QED
  BY <1>1, <1>2

(* An answer is begun where everything before it has been written. *)
LEMMA ServeKeeps ==
    ASSUME DInv, phase # "answer", NEW r, Serve(r), UNCHANGED <<down, secure, at, lost>>
    PROVE  DInv'
<1>1. PICK n \in Nat : /\ answers' = Append(answers, [begin |-> down.written, body |-> n])
                       /\ due' = IF n > 0 THEN <<AnswerHeader, n>> ELSE <<AnswerHeader>>
  BY AnswersAreSizes DEF Serve
<1> DEFINE new == [begin |-> down.written, body |-> n]
<1>2. Len(answers) \in Nat
  BY DEF DInv, AnswersTyped
<1>3. PICK m \in Nat : m = Len(answers)
  BY <1>2
<1>4. /\ D!IInv /\ answers \in Seq(Answer) /\ down.secure = secure /\ down.written \in Nat
      /\ down.got \in Seq(Nat) /\ at \in Nat /\ at <= Len(down.got) /\ lost \in BOOLEAN
      /\ AnswerHeader \in Nat \ {0}
  BY <1>3, AnswersAreSizes DEF DInv, AnswersTyped, D!IInv, D!TypeOK
<1>5. m \in Nat /\ \A i \in 0..m : Place(i) \in Nat
  BY <1>4, <1>3, PlaceIsNat
<1>6. due = <<>> /\ down.written = Place(m)
  BY <1>3 DEF DInv, Owed
<1>7. new \in Answer /\ new.begin = down.written /\ new.body = n
  BY <1>4 DEF Answer
<1> HIDE DEF new
<1>8. answers' = Append(answers, new)
  BY <1>1 DEF new
<1>9. /\ answers' \in Seq(Answer) /\ Len(answers') = m + 1 /\ answers'[m + 1] = new
      /\ \A i \in 1..m : answers'[i] = answers[i]
  BY <1>4, <1>7, <1>8, <1>3, AppendProperties
<1>10. \A i \in 0..m : Place(i)' = Place(i)
  <2> SUFFICES ASSUME NEW i \in 0..m
               PROVE  Place(i)' = Place(i)
    OBVIOUS
  <2>1. CASE i = 0
    BY <2>1 DEF Place
  <2>2. CASE i # 0
    <3>1. i \in 1..m
      BY <1>5, <2>2
    <3> QED
      BY <1>9, <2>2, <3>1 DEF Place, HeaderEnd
  <2> QED
    BY <2>1, <2>2
<1>11. /\ HeaderEnd(m + 1)' = down.written + AnswerHeader
       /\ Place(m + 1)' = down.written + AnswerHeader + n /\ Place(m + 1)' \in Nat
       /\ \A i \in 1..m : HeaderEnd(i)' = HeaderEnd(i) /\ BodyOf(i)' = BodyOf(i)
  BY <1>4, <1>5, <1>7, <1>9 DEF Place, HeaderEnd, BodyOf
<1>12. AnswersTyped'
  <2>1. D!IInv' /\ down'.secure = secure'
    BY <1>4 DEF D!IInv, D!TypeOK, D!Wire, D!InOrder, D!Behind
  <2> QED
    BY <1>4, <1>5, <1>9, <2>1 DEF AnswersTyped
<1>13. Contiguous'
  <2>1. ASSUME NEW i \in 1..(m + 1)
        PROVE  answers'[i].begin = Place(i - 1)'
    <3>1. CASE i = m + 1
      <4>1. Place(m)' = Place(m)
        BY <1>5, <1>10
      <4>2. i - 1 = m
        BY <1>5, <3>1
      <4> QED
        BY <1>6, <1>7, <1>9, <3>1, <4>1, <4>2
    <3>2. CASE i # m + 1
      <4>1. i \in 1..m /\ i - 1 \in 0..m
        BY <1>5, <3>2
      <4>2. answers[i].begin = Place(i - 1)
        BY <1>3, <4>1 DEF DInv, Contiguous
      <4> QED
        BY <1>9, <1>10, <4>1, <4>2
    <3> QED
      BY <3>1, <3>2
  <2>2. ASSUME NEW i \in 0..m
        PROVE  Place(i)' <= down'.written
    <3>1. CASE i = m
      BY <1>5, <1>6, <1>10, <3>1
    <3>2. CASE i # m
      <4>1. i \in 0..(m - 1)
        BY <1>5, <3>2
      <4> QED
        BY <1>3, <1>10, <4>1 DEF DInv, Contiguous
    <3> QED
      BY <3>1, <3>2
  <2>3. Len(answers') - 1 = m
    BY <1>5, <1>9
  <2>4. ASSUME NEW i \in 0..(m + 1), NEW j \in 1..(m + 1), i < j
        PROVE  Place(i)' <= answers'[j].begin
    <3>1. i \in 0..m
      BY <1>5, <2>4
    <3>2. CASE j = m + 1
      <4>1. Place(i)' <= down.written
        BY <2>2, <3>1
      <4> QED
        BY <1>7, <1>9, <3>2, <4>1
    <3>3. CASE j # m + 1
      <4>1. j \in 1..m
        BY <1>5, <3>3
      <4>2. Place(i) <= answers[j].begin
        BY <1>3, <2>4, <3>1, <4>1 DEF DInv, Contiguous
      <4> QED
        BY <1>9, <1>10, <3>1, <4>1, <4>2
    <3> QED
      BY <3>2, <3>3
  <2> QED
    BY <1>9, <2>1, <2>2, <2>3, <2>4 DEF Contiguous
<1>14. Owed'
  <2>1. phase' = "answer" /\ answers' # <<>> /\ Len(answers') = m + 1
    <3>1. phase' = "answer"
      BY DEF Serve
    <3>2. answers' # <<>>
      BY <1>5, <1>9
    <3> QED
      BY <1>9, <3>1, <3>2
  <2>2. CASE n > 0
    <3>1. due' = <<AnswerHeader, n>> /\ n \in Nat \ {0}
      BY <1>1, <2>2
    <3>2. /\ down'.written + AnswerHeader + n = Place(m + 1)'
          /\ down'.written + AnswerHeader = HeaderEnd(m + 1)'
      BY <1>11
    <3> QED
      BY <1>4, <2>1, <3>1, <3>2 DEF Owed
  <2>3. CASE ~(n > 0)
    <3>1. due' = <<AnswerHeader>> /\ n = 0
      BY <1>1, <2>3
    <3>2. /\ down'.written + AnswerHeader = Place(m + 1)'
          /\ HeaderEnd(m + 1)' = Place(m + 1)'
      BY <1>4, <1>11, <3>1
    <3> QED
      BY <1>4, <2>1, <3>1, <3>2 DEF Owed
  <2> QED
    BY <2>2, <2>3
<1>15. Unread' /\ Placed'
  <2>1. ASSUME NEW i \in 1..(m + 1), at + 4 <= HeaderEnd(i)'
        PROVE  Len(down.got) < HeaderEnd(i)' + BodyOf(i)'
    <3>1. CASE i = m + 1
      <4>1. HeaderEnd(i)' = down.written + AnswerHeader /\ BodyOf(i)' \in Nat
        BY <1>4, <1>7, <1>9, <1>11, <3>1 DEF BodyOf
      <4>2. Len(down.got) <= down.written
        BY <1>4, NoMoreThanWritten
      <4> QED
        BY <1>4, <4>1, <4>2
    <3>2. CASE i # m + 1
      <4>1. i \in 1..m
        BY <1>5, <3>2
      <4>2. i \in Ahead
        BY <1>3, <1>4, <1>11, <2>1, <4>1 DEF Ahead
      <4> QED
        BY <1>11, <4>1, <4>2 DEF DInv, Unread
    <3> QED
      BY <3>1, <3>2
  <2>2. Unread'
    BY <1>9, <2>1 DEF Unread, Ahead
  <2>3. Placed'
    <3>1. CASE lost
      BY <3>1 DEF Placed
    <3>2. CASE \E i \in 0..m : at = Place(i)
      BY <1>5, <1>9, <1>10, <3>2 DEF Placed
    <3>3. CASE \E i \in 1..m : at = HeaderEnd(i)
      BY <1>5, <1>9, <1>11, <3>3 DEF Placed
    <3> QED
      BY <1>3, <3>1, <3>2, <3>3 DEF DInv, Placed
  <2> QED
    BY <2>2, <2>3
<1>16. Apart'
  <2> SUFFICES ASSUME secure
               PROVE  /\ D!Empty(down.buf)
                      /\ \A k \in 1..Len(down.wire) :
                            /\ down.wire[k].last - down.wire[k].first < Limit
                            /\ \A i \in 0..(m + 1) :
                                  Place(i)' < down.wire[k].first \/ down.wire[k].last <= Place(i)'
                            /\ \A i \in 1..(m + 1) :
                                  HeaderEnd(i)' < down.wire[k].first \/ down.wire[k].last <= HeaderEnd(i)'
    BY <1>9 DEF Apart, D!Empty
  <2>1. D!Empty(down.buf)
    BY DEF DInv, Apart
  <2>2. ASSUME NEW k \in 1..Len(down.wire)
        PROVE  /\ down.wire[k].last <= Place(m + 1)'
               /\ down.wire[k].last <= HeaderEnd(m + 1)'
    <3>1. down.wire \in Seq(D!Frame)
      BY <1>4 DEF D!IInv, D!TypeOK
    <3>2. down.wire[k] \in D!Frame
      BY <3>1
    <3>3. down.wire[k].last \in Nat
      BY <3>2 DEF D!Frame
    <3>4. down.wire[k].last <= down.written
      BY <1>4 DEF D!IInv, D!Wire
    <3>5. ASSUME NEW l \in Nat, l <= down.written
          PROVE  l <= down.written + AnswerHeader + n /\ l <= down.written + AnswerHeader
      BY <1>4, <3>5
    <3> QED
      BY <1>11, <3>3, <3>4, <3>5
  <2>3. ASSUME NEW k \in 1..Len(down.wire), NEW i \in 0..(m + 1)
        PROVE  Place(i)' < down.wire[k].first \/ down.wire[k].last <= Place(i)'
    <3>1. CASE i = m + 1
      BY <2>2, <3>1
    <3>2. CASE i # m + 1
      <4>1. i \in 0..m
        BY <1>5, <3>2
      <4> QED
        BY <1>3, <1>10, <4>1 DEF DInv, Apart
    <3> QED
      BY <3>1, <3>2
  <2>4. ASSUME NEW k \in 1..Len(down.wire), NEW i \in 1..(m + 1)
        PROVE  HeaderEnd(i)' < down.wire[k].first \/ down.wire[k].last <= HeaderEnd(i)'
    <3>1. CASE i = m + 1
      BY <2>2, <3>1
    <3>2. CASE i # m + 1
      <4>1. i \in 1..m
        BY <1>5, <3>2
      <4> QED
        BY <1>3, <1>11, <4>1 DEF DInv, Apart
    <3> QED
      BY <3>1, <3>2
  <2> QED
    BY <2>1, <2>3, <2>4 DEF DInv, Apart
<1> QED
  BY <1>12, <1>13, <1>14, <1>15, <1>16 DEF DInv

(* One write behind another, or none. *)
LEMMA Joins ==
    ASSUME NEW a \in Nat, NEW b \in Nat
    PROVE  /\ <<>> \o <<>> = <<>> /\ <<a>> \o <<>> = <<a>> /\ <<>> \o <<b>> = <<b>>
           /\ <<a>> \o <<b>> = <<a, b>>
<1>1. <<a>> \in Seq(Nat) /\ <<b>> \in Seq(Nat) /\ <<>> \in Seq(Nat)
  OBVIOUS
<1>2. <<>> \o <<>> = <<>> /\ <<a>> \o <<>> = <<a>> /\ <<>> \o <<b>> = <<b>>
  BY <1>1, ConcatEmptySeq
<1>3. <<a>> \o <<b>> = <<a, b>>
  <2>1. Append(<<a>>, b) = <<a>> \o <<b>>
    BY <1>1, AppendIsConcat
  <2>2. <<a, b>> \in Seq(Nat) /\ Len(<<a, b>>) = 2 /\ <<a, b>>[1] = a /\ <<a, b>>[2] = b
    OBVIOUS
  <2>3. /\ Append(<<a>>, b) \in Seq(Nat) /\ Len(Append(<<a>>, b)) = 2
        /\ Append(<<a>>, b)[1] = a /\ Append(<<a>>, b)[2] = b
    BY <1>1, AppendProperties
  <2>4. \A i \in 1..2 : Append(<<a>>, b)[i] = <<a, b>>[i]
    BY <2>2, <2>3
  <2> QED
    BY <2>1, <2>2, <2>3, <2>4, SeqEqual
<1> QED
  BY <1>2, <1>3

(* A write takes bytes of the answer, of its header or its body: what is owed becomes *)
(* as much less.                                                                        *)
LEMMA WriteTakes ==
    ASSUME DInv, phase = "answer"
    PROVE  LET n == Piece(Head(due))
               p == Place(Len(answers))
               h == HeaderEnd(Len(answers))
           IN /\ n \in Nat \ {0} /\ (secure => n <= Limit)
              /\ down.written + n <= p /\ (h <= down.written \/ down.written + n <= h)
              /\ \/ AnswerLeft(n) = <<>> /\ down.written + n = p
                 \/ \E a \in Nat \ {0} :
                       /\ AnswerLeft(n) = <<a>> /\ down.written + n + a = p
                       /\ h <= down.written + n \/ h = p
                 \/ \E a, b \in Nat \ {0} :
                       /\ AnswerLeft(n) = <<a, b>> /\ down.written + n + a = h
                       /\ down.written + n + a + b = p
<1> DEFINE p == Place(Len(answers))
           h == HeaderEnd(Len(answers))
<1>1. down.written \in Nat /\ Limit \in Nat \ {0}
  BY LimitsArePositive DEF DInv, AnswersTyped, D!IInv, D!TypeOK
<1>2. p \in Nat /\ h \in Nat
  <2>1. answers \in Seq(Answer) /\ answers # <<>>
    BY DEF DInv, AnswersTyped, Owed
  <2>2. Len(answers) \in 1..Len(answers)
    BY <2>1
  <2> QED
    BY <2>1, <2>2, PlaceIsNat
<1>3. ASSUME NEW a \in Nat \ {0}
      PROVE  Piece(a) \in 1..a /\ (secure => Piece(a) <= Limit)
  BY <1>1 DEF Piece, Lesser
<1>4. CASE \E a \in Nat \ {0} :
              due = <<a>> /\ down.written + a = p /\ (h <= down.written \/ h = p)
  <2>1. PICK a \in Nat \ {0} :
           due = <<a>> /\ down.written + a = p /\ (h <= down.written \/ h = p)
    BY <1>4
  <2>2. Head(due) = a /\ Tail(due) = <<>>
    BY <2>1
  <2>3. PICK n \in 1..a : n = Piece(a) /\ (secure => n <= Limit)
    BY <1>3
  <2>4. CASE n < a
    <3>1. PICK c \in Nat \ {0} : c = a - n
      BY <2>4
    <3>2. AnswerLeft(n) = <<c>>
      BY <2>2, <2>4, <3>1, Joins DEF AnswerLeft
    <3> HIDE DEF p, h
    <3>3. /\ down.written + n + c = p /\ down.written + n <= p
          /\ h <= down.written \/ down.written + n <= h
          /\ h <= down.written + n \/ h = p
      BY <1>1, <1>2, <2>1, <2>4, <3>1
    <3> QED
      BY <1>1, <1>2, <2>2, <2>3, <3>2, <3>3 DEF p, h
  <2>5. CASE ~(n < a)
    <3>1. AnswerLeft(n) = <<>>
      BY <2>2, <2>5, Joins DEF AnswerLeft
    <3> HIDE DEF p, h
    <3>2. /\ n = a /\ down.written + n = p /\ down.written + n <= p
          /\ h <= down.written \/ down.written + n <= h
      BY <1>1, <1>2, <2>1, <2>5
    <3> QED
      BY <1>1, <1>2, <2>2, <2>3, <3>1, <3>2 DEF p, h
  <2> QED
    BY <2>4, <2>5
<1>5. CASE \E a, b \in Nat \ {0} :
              due = <<a, b>> /\ down.written + a = h /\ down.written + a + b = p
  <2>1. PICK a \in Nat \ {0}, b \in Nat \ {0} :
           due = <<a, b>> /\ down.written + a = h /\ down.written + a + b = p
    BY <1>5
  <2>2. Head(due) = a /\ Tail(due) = <<b>>
    BY <2>1
  <2>3. PICK n \in 1..a : n = Piece(a) /\ (secure => n <= Limit)
    BY <1>3
  <2>4. CASE n < a
    <3>1. PICK c \in Nat \ {0} : c = a - n
      BY <2>4
    <3>2. AnswerLeft(n) = <<a - n>> \o <<b>>
      BY <2>2, <2>4 DEF AnswerLeft
    <3>3. AnswerLeft(n) = <<c, b>>
      BY <3>2, <3>1, Joins
    <3> HIDE DEF p, h
    <3>4. /\ down.written + n + c = h /\ down.written + n + c + b = p
          /\ down.written + n <= p /\ down.written + n <= h
      BY <1>1, <1>2, <2>1, <2>4, <3>1
    <3> QED
      BY <1>1, <1>2, <2>2, <2>3, <3>3, <3>4 DEF p, h
  <2>5. CASE ~(n < a)
    <3>1. AnswerLeft(n) = <<b>>
      BY <2>2, <2>5, Joins DEF AnswerLeft
    <3> HIDE DEF p, h
    <3>2. /\ n = a /\ down.written + n + b = p /\ down.written + n <= p
          /\ down.written + n <= h /\ h <= down.written + n
      BY <1>1, <1>2, <2>1, <2>5
    <3> QED
      BY <1>1, <1>2, <2>2, <2>3, <3>1, <3>2 DEF p, h
  <2> QED
    BY <2>4, <2>5
<1> QED
  BY <1>4, <1>5 DEF DInv, Owed

(* A write of the server stays inside its answer. *)
LEMMA SendKeeps == ASSUME DInv, SendAnswer PROVE DInv'
<1> DEFINE piece == Piece(Head(due))
<1>1. /\ phase = "answer" /\ Down!Write(piece) /\ due' = AnswerLeft(piece)
      /\ phase' = IF due' = <<>> THEN "request" ELSE "answer"
      /\ UNCHANGED <<secure, at, lost, answers>>
  BY DEF SendAnswer, client
<1>2. /\ piece \in Nat \ {0} /\ (secure => piece <= Limit)
      /\ down.written + piece <= Place(Len(answers))
      /\ \/ HeaderEnd(Len(answers)) <= down.written
         \/ down.written + piece <= HeaderEnd(Len(answers))
      /\ \/ due' = <<>> /\ down.written + piece = Place(Len(answers))
         \/ \E a \in Nat \ {0} :
               /\ due' = <<a>> /\ down.written + piece + a = Place(Len(answers))
               /\ \/ HeaderEnd(Len(answers)) <= down.written + piece
                  \/ HeaderEnd(Len(answers)) = Place(Len(answers))
         \/ \E a, b \in Nat \ {0} :
               /\ due' = <<a, b>> /\ down.written + piece + a = HeaderEnd(Len(answers))
               /\ down.written + piece + a + b = Place(Len(answers))
  BY <1>1, WriteTakes
<1> HIDE DEF piece
<1>3. PICK n \in Nat \ {0} : n = piece
  BY <1>2
<1>4. PICK m \in Nat : m = Len(answers)
  BY DEF DInv, AnswersTyped
<1>5. /\ D!IInv /\ D!TypeOK /\ answers \in Seq(Answer) /\ at \in Nat /\ at <= Len(down.got)
      /\ lost \in BOOLEAN /\ down.secure = secure /\ down.written \in Nat
      /\ down.wire \in Seq(D!Frame) /\ down.wn \in Nat
  BY <1>4 DEF DInv, AnswersTyped, D!IInv, D!TypeOK
<1> DEFINE f == [n |-> down.wn, first |-> down.written + 1, last |-> down.written + n]
<1>6. /\ down'.wire = Append(down.wire, f) /\ down'.written = down.written + n
      /\ down'.buf = down.buf /\ down'.got = down.got
      /\ down'.torn = down.torn /\ down'.secure = down.secure
  BY <1>1, <1>3, <1>5 DEF Down!Write, D!TypeOK
<1>7. f \in D!Frame /\ f.first = down.written + 1 /\ f.last = down.written + n
  BY <1>5 DEF D!Frame
<1> HIDE DEF f
<1>8. \A i : Place(i)' = Place(i) /\ HeaderEnd(i)' = HeaderEnd(i) /\ BodyOf(i)' = BodyOf(i)
  BY <1>1 DEF Place, HeaderEnd, BodyOf
<1>9. /\ \A i \in 0..m : Place(i) \in Nat
      /\ \A i \in 1..m : HeaderEnd(i) \in Nat /\ HeaderEnd(i) <= Place(i)
  <2>1. /\ \A i \in 0..m : Place(i) \in Nat
        /\ \A i \in 1..m : /\ HeaderEnd(i) \in Nat /\ answers[i].body \in Nat
                          /\ Place(i) = HeaderEnd(i) + answers[i].body
    BY <1>4, <1>5, PlaceIsNat
  <2> QED
    BY <2>1
<1>10. AnswersTyped'
  <2>1. D!IInv'
    BY <1>1, <1>3, <1>5, SameActionsDown, D!WriteInv
  <2> QED
    BY <1>1, <1>4, <1>5, <1>6, <2>1 DEF AnswersTyped
<1>11. Contiguous'
  <2>1. /\ \A i \in 1..m : answers[i].begin = Place(i - 1)
        /\ \A i \in 0..m, j \in 1..m : i < j => Place(i) <= answers[j].begin
    BY <1>4 DEF DInv, Contiguous
  <2>2. ASSUME NEW i \in 0..(m - 1)
        PROVE  Place(i) <= down.written + n
    <3>1. Place(i) <= down.written /\ Place(i) \in Nat
      BY <1>4, <1>9 DEF DInv, Contiguous
    <3> QED
      BY <1>5, <3>1
  <2> QED
    BY <1>1, <1>4, <1>6, <1>8, <2>1, <2>2 DEF Contiguous
<1>12. Owed'
  <2>1. answers' # <<>> /\ Len(answers') = m
    BY <1>1, <1>4 DEF DInv, Owed
  <2>2. CASE due' = <<>> /\ down.written + n = Place(m)
    BY <1>1, <1>6, <1>8, <2>1, <2>2 DEF Owed
  <2>3. CASE \E a \in Nat \ {0} :
                /\ due' = <<a>> /\ down.written + n + a = Place(m)
                /\ HeaderEnd(m) <= down.written + n \/ HeaderEnd(m) = Place(m)
    BY <1>1, <1>6, <1>8, <2>1, <2>3 DEF Owed
  <2>4. CASE \E a, b \in Nat \ {0} :
                /\ due' = <<a, b>> /\ down.written + n + a = HeaderEnd(m)
                /\ down.written + n + a + b = Place(m)
    BY <1>1, <1>6, <1>8, <2>1, <2>4 DEF Owed
  <2> QED
    BY <1>2, <1>3, <1>4, <2>2, <2>3, <2>4
<1>13. Unread' /\ Placed'
  BY <1>1, <1>6, <1>8 DEF DInv, Unread, Ahead, Placed
<1>14. Apart'
  <2> SUFFICES ASSUME secure
               PROVE  /\ D!Empty(down.buf)
                      /\ \A k \in 1..Len(down'.wire) :
                            /\ down'.wire[k].last - down'.wire[k].first < Limit
                            /\ \A i \in 0..m :
                                  Place(i) < down'.wire[k].first \/ down'.wire[k].last <= Place(i)
                            /\ \A i \in 1..m :
                                  HeaderEnd(i) < down'.wire[k].first \/ down'.wire[k].last <= HeaderEnd(i)
    BY <1>1, <1>4, <1>6, <1>8 DEF Apart, D!Empty
  <2>1. D!Empty(down.buf)
    BY DEF DInv, Apart
  <2>2. /\ Len(down.wire) \in Nat /\ Len(down'.wire) = Len(down.wire) + 1
        /\ down'.wire[Len(down.wire) + 1] = f
        /\ \A k \in 1..Len(down.wire) : down'.wire[k] = down.wire[k]
    BY <1>5, <1>6, <1>7, AppendProperties
  <2>3. ASSUME NEW k \in 1..Len(down'.wire)
        PROVE  /\ down'.wire[k].last - down'.wire[k].first < Limit
               /\ \A i \in 0..m :
                     Place(i) < down'.wire[k].first \/ down'.wire[k].last <= Place(i)
               /\ \A i \in 1..m :
                     HeaderEnd(i) < down'.wire[k].first \/ down'.wire[k].last <= HeaderEnd(i)
    <3>1. CASE k \in 1..Len(down.wire)
      BY <1>4, <2>2, <3>1 DEF DInv, Apart
    <3>2. CASE k = Len(down.wire) + 1
      <4>1. down'.wire[k] = f
        BY <2>2, <3>2
      <4>2. n <= Limit /\ down.written + n <= Place(m)
        BY <1>2, <1>3, <1>4
      <4>3. f.last - f.first < Limit
        BY <1>5, <1>7, <4>2, LimitsArePositive
      <4>4. ASSUME NEW i \in 0..m
            PROVE  Place(i) < f.first \/ f.last <= Place(i)
        <5>1. CASE i = m
          BY <1>7, <4>2, <5>1
        <5>2. CASE i # m
          <6>1. i \in 0..(m - 1)
            BY <5>2
          <6>2. Place(i) <= down.written /\ Place(i) \in Nat
            BY <1>4, <1>9, <6>1 DEF DInv, Contiguous
          <6> QED
            BY <1>5, <1>7, <6>2
        <5> QED
          BY <5>1, <5>2
      <4>5. ASSUME NEW i \in 1..m
            PROVE  HeaderEnd(i) < f.first \/ f.last <= HeaderEnd(i)
        <5>1. CASE i = m
          <6>1. HeaderEnd(m) <= down.written \/ down.written + n <= HeaderEnd(m)
            BY <1>2, <1>3, <1>4
          <6>2. HeaderEnd(m) \in Nat
            BY <1>9, <5>1
          <6> QED
            BY <1>5, <1>7, <5>1, <6>1, <6>2
        <5>2. CASE i # m
          <6>1. i \in 0..(m - 1)
            BY <5>2
          <6>2. /\ Place(i) <= down.written /\ Place(i) \in Nat
                /\ HeaderEnd(i) <= Place(i) /\ HeaderEnd(i) \in Nat
            BY <1>4, <1>9, <6>1 DEF DInv, Contiguous
          <6> QED
            BY <1>5, <1>7, <6>2
        <5> QED
          BY <5>1, <5>2
      <4> QED
        BY <4>1, <4>3, <4>4, <4>5
    <3> QED
      BY <2>2, <3>1, <3>2
  <2> QED
    BY <2>1, <2>3
<1> QED
  BY <1>10, <1>11, <1>12, <1>13, <1>14 DEF DInv

(* n bytes behind g others, of a part f..l of the w that were written. *)
LEMMA BytesHanded ==
    ASSUME NEW g \in Nat, NEW max \in Nat \ {0}, NEW f \in Nat, NEW l \in Nat, NEW w \in Nat,
           NEW n \in Nat \ {0}, f = g + 1, l <= w, n <= max, n <= l - f + 1
    PROVE  /\ g < g + n /\ g + n <= g + max /\ g + n <= l /\ g + n <= w
           /\ f + n = l + 1 => g + n = l
  OBVIOUS

(* A read gives bytes that were written, a whole frame if that is no longer than asked. *)
LEMMA ReadGives ==
    ASSUME D!IInv, NEW max \in Nat \ {0}, Down!Read(max)
    PROVE  /\ D!IInv'
           /\ down.got \in Seq(Nat) /\ down'.got \in Seq(Nat) /\ down.written \in Nat
           /\ Len(down.got) < Len(down'.got) /\ Len(down'.got) <= Len(down.got) + max
           /\ Len(down'.got) <= down.written /\ down'.written = down.written
           /\ down'.torn = down.torn /\ down'.secure = down.secure
           /\ D!Empty(down.buf) =>
                 /\ down.wire \in Seq(D!Frame) /\ down.wire # <<>>
                 /\ down'.wire = Tail(down.wire)
                 /\ down.wire[1] \in D!Frame /\ down.wire[1].first = Len(down.got) + 1
                 /\ Len(down'.got) <= down.wire[1].last
                 /\ down.wire[1].last - down.wire[1].first < max =>
                       Len(down'.got) = down.wire[1].last /\ D!Empty(down'.buf)
<1>1. down.got \in Seq(Nat) /\ down.written \in Nat /\ down.wire \in Seq(D!Frame) /\ D!Read(max)
  BY SameActionsDown DEF D!IInv, D!TypeOK
<1>2. D!IInv'
  BY <1>1, D!StepInv DEF D!Next
<1>3. ASSUME NEW b, D!IsNext(b), D!Hand(b, max)
      PROVE  /\ down'.got \in Seq(Nat)
             /\ Len(down.got) < Len(down'.got) /\ Len(down'.got) <= Len(down.got) + max
             /\ Len(down'.got) <= down.written /\ down'.written = down.written
             /\ down'.torn = down.torn /\ down'.secure = down.secure
             /\ Len(down'.got) <= b.last
             /\ b.last - b.first < max => Len(down'.got) = b.last /\ D!Empty(down'.buf)
             /\ D!Empty(down.buf) => down'.wire = Tail(down.wire)
  <2> DEFINE n == IF max < b.last - b.first + 1 THEN max ELSE b.last - b.first + 1
             run == [i \in 1..n |-> b.first + i - 1]
  <2>1. /\ b.first \in Nat /\ b.last \in Nat /\ b.first <= b.last
        /\ b.first = Len(down.got) + 1 /\ b.last <= down.written
    BY <1>3 DEF D!IsNext, D!Part
  <2>2. n \in Nat \ {0} /\ n <= max /\ n <= b.last - b.first + 1
    BY <2>1
  <2>3. b.last - b.first < max => n = b.last - b.first + 1
    BY <2>1
  <2>4. /\ down'.got = down.got \o run /\ down'.torn = down.torn /\ down'.secure = down.secure
        /\ down'.written = down.written
        /\ down'.buf = [first |-> b.first + n, last |-> b.last]
        /\ D!Empty(down.buf) => down'.wire = Tail(down.wire)
    BY <1>3 DEF D!Hand, D!IInv, D!TypeOK
  <2> HIDE DEF n
  <2>5. run \in Seq(Nat) /\ Len(run) = n
    BY <2>1, <2>2
  <2> HIDE DEF run
  <2>6. down'.got \in Seq(Nat) /\ Len(down'.got) = Len(down.got) + n /\ Len(down.got) \in Nat
    <3>1. down'.got = down.got \o run
      BY <2>4
    <3>2. down.got \o run \in Seq(Nat) /\ Len(down.got \o run) = Len(down.got) + Len(run)
      BY <1>1, <2>5, ConcatProperties
    <3> QED
      BY <1>1, <2>5, <3>1, <3>2
  <2>7. PICK f \in Nat, l \in Nat, g \in Nat, w \in Nat :
           f = b.first /\ l = b.last /\ g = Len(down.got) /\ w = down.written
    BY <1>1, <2>1, <2>6
  <2>8. f = g + 1 /\ l <= w
    BY <2>1, <2>7, Zenon
  <2>9. n \in Nat \ {0} /\ n <= max /\ n <= l - f + 1
    BY <2>2, <2>7, Zenon
  <2>10. /\ g < g + n /\ g + n <= g + max /\ g + n <= l /\ g + n <= w
         /\ f + n = l + 1 => g + n = l
    BY <2>8, <2>9, BytesHanded
  <2>11. /\ Len(down.got) < Len(down'.got) /\ Len(down'.got) <= Len(down.got) + max
        /\ Len(down'.got) <= b.last /\ Len(down'.got) <= down.written
    BY <2>6, <2>7, <2>10, Zenon
  <2>12. ASSUME b.last - b.first < max
        PROVE  Len(down'.got) = b.last /\ D!Empty(down'.buf)
    <3>1. b.first + n = b.last + 1
      BY <2>1, <2>2, <2>3, <2>12
    <3>2. D!Empty(down'.buf)
      BY <2>1, <2>4, <3>1 DEF D!Empty
    <3>3. Len(down'.got) = b.last
      BY <2>6, <2>7, <2>10, <3>1, Zenon
    <3> QED
      BY <3>2, <3>3
  <2> QED
    BY <2>4, <2>6, <2>11, <2>12
<1>4. CASE ~D!Empty(down.buf)
  <2>1. D!IsNext(down.buf) /\ D!Hand(down.buf, max)
    BY <1>1, <1>4, D!NextBytes DEF D!Read
  <2> QED
    BY <1>1, <1>2, <1>3, <1>4, <2>1
<1>5. CASE D!Empty(down.buf)
  <2> DEFINE b == [first |-> Head(down.wire).first, last |-> Head(down.wire).last]
  <2>1. down.wire # <<>> /\ D!Hand(b, max)
    BY <1>1, <1>5 DEF D!Read, D!Opens
  <2>2. D!IsNext(b)
    BY <1>5, <2>1, D!NextBytes
  <2>3. Head(down.wire) = down.wire[1] /\ down.wire[1] \in D!Frame
    BY <1>1, <2>1
  <2>4. b.first = down.wire[1].first /\ b.last = down.wire[1].last
    BY <2>3
  <2>5. b.first = Len(down.got) + 1
    BY <2>2 DEF D!IsNext
  <2> HIDE DEF b
  <2> QED
    BY <1>1, <1>2, <1>3, <1>5, <2>1, <2>2, <2>3, <2>4, <2>5
<1> QED
  BY <1>4, <1>5

(* Of a set of numbers one is the smallest. *)
LEMMA SmallestOf ==
    ASSUME NEW S, S \subseteq Nat, S # {}
    PROVE  \E n \in S : \A m \in S : n <= m
<1> DEFINE R == OpToRel(<, Nat)
<1>1. IsWellFoundedOn(R, Nat)
  BY NatLessThanWellFounded
<1>2. \A x, y \in Nat : x < y => <<x, y>> \in R
  BY DEF OpToRel
<1> HIDE DEF R
<1>3. PICK n \in S : \A y \in S : ~(<<y, n>> \in R)
  BY <1>1, WFMin
<1>4. ASSUME NEW m \in S
      PROVE  n <= m
  <2>1. ~(m < n)
    BY <1>2, <1>3
  <2> QED
    BY <2>1
<1> QED
  BY <1>4

(* Of the answers with a mark ahead one is the first. *)
LEMMA HeadingIs ==
    ASSUME answers \in Seq(Answer), Ahead # {}
    PROVE  Heading \in Ahead /\ \A j \in Ahead : Heading <= j
<1>1. Ahead \subseteq Nat
  BY DEF Ahead
<1>2. PICK S : S = Ahead
  OBVIOUS
<1>3. \E n \in S : \A m \in S : n <= m
  BY <1>1, <1>2, SmallestOf
<1> QED
  BY <1>2, <1>3 DEF Heading

(* Where the response ends: with the answer that gives it the header, or with that    *)
(* header; of the answers before it less than a mark is ahead.                         *)
LEMMA ResponseIs ==
    ASSUME DInv, Ahead # {}
    PROVE  /\ Heading \in 1..Len(answers) /\ at + 4 <= HeaderEnd(Heading)
           /\ \A j \in 1..Len(answers) : at + 4 <= HeaderEnd(j) => Heading <= j
           /\ ResponseEnd \in Nat /\ ResponseEnd = HeaderEnd(Heading) + BodyOf(Heading)
           /\ HeaderEnd(Heading) <= ResponseEnd /\ ResponseEnd <= Place(Heading)
           /\ IF at <= answers[Heading].begin + LengthAt THEN ResponseEnd = Place(Heading)
                                                         ELSE ResponseEnd = HeaderEnd(Heading)
           /\ Len(down.got) < ResponseEnd
<1>1. answers \in Seq(Answer)
  BY DEF DInv, AnswersTyped
<1>2. DOMAIN answers = 1..Len(answers)
  BY <1>1
<1>3. PICK i \in 1..Len(answers) : /\ i = Heading /\ i \in Ahead /\ at + 4 <= HeaderEnd(i)
                                  /\ \A j \in 1..Len(answers) : at + 4 <= HeaderEnd(j) => i <= j
  BY <1>1, <1>2, HeadingIs DEF Ahead
<1>4. /\ HeaderEnd(i) \in Nat /\ answers[i].body \in Nat /\ Place(i) \in Nat
      /\ Place(i) = HeaderEnd(i) + answers[i].body
  BY <1>1, PlaceIsNat
<1>5. BodyOf(i) = IF at <= answers[i].begin + LengthAt THEN answers[i].body ELSE 0
  BY DEF BodyOf
<1>6. ResponseEnd = HeaderEnd(i) + BodyOf(i)
  BY <1>3 DEF ResponseEnd
<1>7. Len(down.got) < ResponseEnd
  BY <1>3, <1>6 DEF DInv, Unread
<1> QED
  BY <1>3, <1>4, <1>5, <1>6, <1>7

(* What the client asks for: a frame, or no more than the rest of the response. *)
LEMMA AnswerAsked ==
    ASSUME DInv, ReadAnswer
    PROVE  \E max \in Nat \ {0} :
              /\ Down!Read(max) /\ (secure => max = Limit)
              /\ ~secure /\ Ahead # {} => Len(down.got) + max <= ResponseEnd
<1>1. PICK n \in Nat : n = Len(down.got)
  BY DEF DInv, AnswersTyped, D!IInv, D!TypeOK
<1>2. Limit \in Nat \ {0}
  BY LimitsArePositive
<1>3. CASE secure
  BY <1>2, <1>3 DEF ReadAnswer
<1>4. CASE ~secure /\ ~HeaderRead(n)
  <2>1. Down!Read(1)
    BY <1>1, <1>4 DEF ReadAnswer
  <2>2. Ahead # {} => n + 1 <= ResponseEnd
    BY <1>1, ResponseIs
  <2> QED
    BY <1>1, <1>4, <2>1, <2>2
<1>5. CASE ~secure /\ HeaderRead(n)
  <2>1. PICK k \in 1..(ResponseEnd - n) : Down!Read(k)
    BY <1>1, <1>5 DEF ReadAnswer
  <2>2. ResponseEnd \in Nat
    BY <1>5, ResponseIs DEF HeaderRead
  <2>3. k \in Nat \ {0} /\ n + k <= ResponseEnd
    BY <2>1, <2>2
  <2> QED
    BY <1>1, <1>5, <2>1, <2>3
<1> QED
  BY <1>3, <1>4, <1>5

(* A read of the client stays inside the response: in the clear because it asks for no *)
(* more, in frames because no frame goes beyond.                                        *)
LEMMA ReadStays ==
    ASSUME DInv, ReadAnswer
    PROVE  /\ D!IInv' /\ down'.secure = secure' /\ secure' = secure
           /\ answers' = answers /\ due' = due /\ phase' = phase
           /\ down'.written = down.written
           /\ Len(down'.got) \in Nat /\ Len(down.got) <= Len(down'.got)
           /\ Ahead # {} => Len(down'.got) <= ResponseEnd
           /\ Apart'
<1>1. PICK max \in Nat \ {0} :
              /\ Down!Read(max) /\ (secure => max = Limit)
              /\ ~secure /\ Ahead # {} => Len(down.got) + max <= ResponseEnd
  BY AnswerAsked
<1>2. UNCHANGED <<secure, answers, due, phase>>
  BY DEF ReadAnswer, server
<1>3. D!IInv /\ answers \in Seq(Answer) /\ down.secure = secure
  BY DEF DInv, AnswersTyped
<1>4. /\ D!IInv'
      /\ down.got \in Seq(Nat) /\ down'.got \in Seq(Nat) /\ down.written \in Nat
      /\ Len(down.got) < Len(down'.got) /\ Len(down'.got) <= Len(down.got) + max
      /\ Len(down'.got) <= down.written /\ down'.written = down.written
      /\ down'.secure = down.secure
      /\ D!Empty(down.buf) =>
            /\ down.wire \in Seq(D!Frame) /\ down.wire # <<>>
            /\ down'.wire = Tail(down.wire)
            /\ down.wire[1] \in D!Frame /\ down.wire[1].first = Len(down.got) + 1
            /\ Len(down'.got) <= down.wire[1].last
            /\ down.wire[1].last - down.wire[1].first < max =>
                  Len(down'.got) = down.wire[1].last /\ D!Empty(down'.buf)
  BY <1>1, <1>3, ReadGives
<1>5. PICK g \in Nat, h \in Nat : g = Len(down.got) /\ h = Len(down'.got) /\ g < h /\ h <= g + max
  BY <1>4
<1>6. ASSUME Ahead # {}
      PROVE  h <= ResponseEnd
  <2>1. PICK r \in Nat : r = ResponseEnd
    BY <1>6, ResponseIs
  <2>2. /\ Heading \in 1..Len(answers) /\ g < r
        /\ r = Place(Heading) \/ r = HeaderEnd(Heading)
    BY <1>5, <1>6, <2>1, ResponseIs
  <2>3. CASE secure
    <3>1. D!Empty(down.buf)
      BY <2>3 DEF DInv, Apart
    <3>2. /\ down.wire[1].first = g + 1 /\ h <= down.wire[1].last
          /\ down.wire[1].last \in Nat /\ 1 \in 1..Len(down.wire)
      BY <1>4, <1>5, <3>1 DEF D!Frame
    <3>3. /\ Place(Heading) < down.wire[1].first \/ down.wire[1].last <= Place(Heading)
          /\ HeaderEnd(Heading) < down.wire[1].first \/ down.wire[1].last <= HeaderEnd(Heading)
      BY <2>2, <2>3, <3>2 DEF DInv, Apart
    <3>4. r < down.wire[1].first \/ down.wire[1].last <= r
      BY <2>2, <3>3
    <3> QED
      BY <2>1, <2>2, <3>2, <3>4
  <2>4. CASE ~secure
    BY <1>1, <1>5, <1>6, <2>1, <2>4
  <2> QED
    BY <2>3, <2>4
<1>7. \A i : Place(i)' = Place(i) /\ HeaderEnd(i)' = HeaderEnd(i)
  BY <1>2 DEF Place, HeaderEnd
<1>8. Apart'
  <2> SUFFICES ASSUME secure
               PROVE  /\ D!Empty(down'.buf)
                      /\ \A k \in 1..Len(down'.wire) :
                            /\ down'.wire[k].last - down'.wire[k].first < Limit
                            /\ \A i \in 0..Len(answers) :
                                  Place(i) < down'.wire[k].first \/ down'.wire[k].last <= Place(i)
                            /\ \A i \in 1..Len(answers) :
                                  HeaderEnd(i) < down'.wire[k].first \/ down'.wire[k].last <= HeaderEnd(i)
    BY <1>2, <1>7 DEF Apart, D!Empty
  <2>1. D!Empty(down.buf) /\ max = Limit
    BY <1>1 DEF DInv, Apart
  <2>2. down.wire \in Seq(D!Frame) /\ down.wire # <<>> /\ down'.wire = Tail(down.wire)
    BY <1>4, <2>1
  <2>3. D!Empty(down'.buf)
    <3>1. 1 \in 1..Len(down.wire)
      BY <2>2
    <3>2. down.wire[1].last - down.wire[1].first < Limit
      BY <3>1 DEF DInv, Apart
    <3> QED
      BY <1>4, <2>1, <3>2
  <2>4. ASSUME NEW k \in 1..Len(down'.wire)
        PROVE  down'.wire[k] = down.wire[k + 1] /\ k + 1 \in 1..Len(down.wire)
    BY <2>2
  <2> QED
    BY <2>3, <2>4 DEF DInv, Apart
<1> QED
  BY <1>2, <1>3, <1>4, <1>5, <1>6, <1>8

(* Where a response ends no later one has been read. *)
LEMMA BodyIsNat ==
    ASSUME answers \in Seq(Answer), NEW i \in 1..Len(answers)
    PROVE  BodyOf(i) \in Nat
  BY PlaceIsNat DEF BodyOf

LEMMA ReadKeeps == ASSUME DInv, ReadAnswer PROVE DInv'
<1>1. /\ D!IInv' /\ down'.secure = secure' /\ secure' = secure
      /\ answers' = answers /\ due' = due /\ phase' = phase
      /\ down'.written = down.written
      /\ Len(down'.got) \in Nat /\ Len(down.got) <= Len(down'.got)
      /\ Ahead # {} => Len(down'.got) <= ResponseEnd
      /\ Apart'
  BY ReadStays
<1>2. PICK h \in Nat : h = Len(down'.got)
  BY <1>1
<1>3. /\ D!IInv /\ answers \in Seq(Answer) /\ DOMAIN answers = 1..Len(answers)
      /\ at \in Nat /\ at <= Len(down.got) /\ Len(down.got) \in Nat /\ lost \in BOOLEAN
  BY DEF DInv, AnswersTyped, D!IInv, D!TypeOK
<1>4. \/ HeaderRead(h) /\ h >= ResponseEnd /\ at' = h /\ lost' = FALSE
      \/ ~(HeaderRead(h) /\ h >= ResponseEnd) /\ at' = at /\ lost' = lost
  BY <1>2 DEF ReadAnswer, Return
<1>5. \A i : Place(i)' = Place(i) /\ HeaderEnd(i)' = HeaderEnd(i)
  BY <1>1 DEF Place, HeaderEnd
<1>6. AnswersTyped'
  <2>1. at' \in Nat /\ at' <= Len(down'.got)
    BY <1>1, <1>2, <1>3, <1>4
  <2>2. lost' \in BOOLEAN
    BY <1>3, <1>4, Zenon
  <2>3. D!IInv' /\ down'.secure = secure' /\ answers' \in Seq(Answer)
    BY <1>1, <1>3
  <2> QED
    BY <2>1, <2>2, <2>3, Zenon DEF AnswersTyped
<1>7. Contiguous'
  BY <1>1, <1>5 DEF DInv, Contiguous
<1>8. Owed'
  BY <1>1, <1>5 DEF DInv, Owed
<1>9. Unread' /\ Placed'
  <2>1. CASE HeaderRead(h) /\ h >= ResponseEnd /\ at' = h /\ lost' = FALSE
    <3>1. /\ Heading \in 1..Len(answers) /\ ResponseEnd \in Nat
          /\ ResponseEnd = Place(Heading) \/ ResponseEnd = HeaderEnd(Heading)
      BY <2>1, ResponseIs DEF HeaderRead
    <3>2. h = ResponseEnd
      BY <1>1, <1>2, <2>1, <3>1 DEF HeaderRead
    <3>3. Placed'
      <4>1. Heading \in 0..Len(answers)
        BY <3>1
      <4>2. PICK i \in 0..Len(answers) : i = Heading /\ i # 0
        BY <3>1, <4>1
      <4>3. at' = Place(i)' \/ at' = HeaderEnd(i)'
        BY <1>5, <2>1, <3>1, <3>2, <4>2
      <4>4. i \in 1..Len(answers) /\ Len(answers') = Len(answers)
        BY <1>1, <4>2
      <4> QED
        BY <4>3, <4>4 DEF Placed
    <3>4. ASSUME NEW i \in 1..Len(answers), h + 4 <= HeaderEnd(i)
          PROVE  h < HeaderEnd(i) + BodyOf(i)'
      <4>1. HeaderEnd(i) \in Nat /\ answers[i].body \in Nat
        BY <1>3, PlaceIsNat
      <4>2. BodyOf(i)' \in Nat
        BY <1>1, <4>1 DEF BodyOf
      <4> QED
        BY <3>4, <4>1, <4>2
    <3>5. Unread'
      BY <1>1, <1>2, <1>3, <1>5, <2>1, <3>4 DEF Unread, Ahead
    <3> QED
      BY <3>3, <3>5
  <2>2. CASE ~(HeaderRead(h) /\ h >= ResponseEnd) /\ at' = at /\ lost' = lost
    <3>1. Ahead' = Ahead /\ \A i : BodyOf(i)' = BodyOf(i)
      BY <1>1, <1>5, <2>2 DEF Ahead, BodyOf
    <3>2. ASSUME NEW i \in Ahead
          PROVE  h < HeaderEnd(i) + BodyOf(i)
      <4>1. /\ Heading \in 1..Len(answers) /\ ResponseEnd \in Nat
            /\ ResponseEnd = HeaderEnd(Heading) + BodyOf(Heading)
            /\ HeaderEnd(Heading) <= ResponseEnd /\ ResponseEnd <= Place(Heading)
        BY ResponseIs
      <4>2. PICK j \in 1..Len(answers) : j = Heading
        BY <4>1
      <4>3. i \in 1..Len(answers) /\ j <= i
        BY <1>3, <4>2, HeadingIs DEF Ahead
      <4>4. h < ResponseEnd
        <5>1. HeaderEnd(j) \in Nat
          BY <1>3, PlaceIsNat
        <5> QED
          BY <2>2, <4>1, <4>2, <5>1 DEF HeaderRead
      <4>5. CASE i = j
        BY <4>1, <4>2, <4>4, <4>5
      <4>6. CASE i # j
        <5>1. Place(j) <= answers[i].begin
          BY <4>3, <4>6 DEF DInv, Contiguous
        <5>2. /\ answers[i].begin \in Nat /\ Place(j) \in Nat /\ BodyOf(i) \in Nat
              /\ HeaderEnd(i) = answers[i].begin + AnswerHeader /\ AnswerHeader \in Nat
          BY <1>3, <4>3, PlaceIsNat, BodyIsNat, AnswersAreSizes
        <5> QED
          BY <4>1, <4>2, <4>4, <5>1, <5>2
      <4> QED
        BY <4>5, <4>6
    <3>3. Unread'
      BY <1>2, <1>5, <3>1, <3>2 DEF Unread
    <3>4. Placed'
      BY <1>1, <1>5, <2>2 DEF DInv, Placed
    <3> QED
      BY <3>3, <3>4
  <2> QED
    BY <1>4, <2>1, <2>2
<1> QED
  BY <1>1, <1>6, <1>7, <1>8, <1>9 DEF DInv

(* A call given up leaves the connection where it is, torn or not, and the next one *)
(* begins there.                                                                    *)
LEMMA GiveUpKeeps == ASSUME DInv, GiveUp PROVE DInv'
<1>1. /\ UNCHANGED <<secure, answers, due, phase>>
      /\ Down!Tear \/ down' = down
      /\ at' = Len(down'.got) /\ lost' = TRUE
  BY DEF GiveUp, Return, server
<1>2. D!IInv /\ D!TypeOK /\ answers \in Seq(Answer) /\ down.secure = secure
  BY DEF DInv, AnswersTyped, D!IInv
<1>3. /\ D!IInv' /\ down'.secure = down.secure /\ down'.written = down.written
      /\ down'.got = down.got /\ down'.wire = down.wire /\ down'.buf = down.buf
  <2>1. CASE Down!Tear
    <3>1. D!IInv'
      BY <1>2, <2>1, SameActionsDown, D!StepInv DEF D!Next
    <3> QED
      BY <1>2, <2>1, <3>1 DEF Down!Tear, D!TypeOK
  <2>2. CASE down' = down
    BY <1>2, <2>2 DEF D!IInv, D!TypeOK, D!Wire, D!InOrder, D!Behind
  <2> QED
    BY <1>1, <2>1, <2>2
<1>4. PICK g \in Nat : g = Len(down.got)
  BY <1>2 DEF D!TypeOK
<1>5. \A i : Place(i)' = Place(i) /\ HeaderEnd(i)' = HeaderEnd(i)
  BY <1>1 DEF Place, HeaderEnd
<1>6. AnswersTyped'
  BY <1>1, <1>2, <1>3, <1>4 DEF AnswersTyped
<1>7. Contiguous'
  BY <1>1, <1>3, <1>5 DEF DInv, Contiguous
<1>8. Owed'
  BY <1>1, <1>3, <1>5 DEF DInv, Owed
<1>9. Unread'
  <2>1. ASSUME NEW i \in 1..Len(answers), g + 4 <= HeaderEnd(i)
        PROVE  g < HeaderEnd(i) + BodyOf(i)'
    <3>1. HeaderEnd(i) \in Nat /\ answers[i].body \in Nat
      BY <1>2, PlaceIsNat
    <3>2. BodyOf(i)' \in Nat
      BY <1>1, <3>1 DEF BodyOf
    <3> QED
      BY <2>1, <3>1, <3>2
  <2>2. DOMAIN answers' = 1..Len(answers)
    BY <1>1, <1>2
  <2> QED
    BY <1>1, <1>3, <1>4, <1>5, <2>1, <2>2 DEF Unread, Ahead
<1>10. Placed'
  BY <1>1 DEF Placed
<1>11. Apart'
  BY <1>1, <1>3, <1>5 DEF DInv, Apart, D!Empty
<1> QED
  BY <1>6, <1>7, <1>8, <1>9, <1>10, <1>11 DEF DInv

(* A step of the server other than a write begins an answer or leaves the answers be. *)
LEMMA LineServes ==
    ASSUME phase # "answer", NEW l, NEW cut, TakeLine(l, cut)
    PROVE  Serve(req) \/ (UNCHANGED <<answers, due>> /\ phase' # "answer")
  BY DEF TakeLine, Body, End

LEMMA ServerReads ==
    ASSUME ReadByte \/ ReadBody \/ ReadFails \/ BodyEnds
    PROVE  /\ phase # "answer" /\ UNCHANGED <<down, secure, at, lost>>
           /\ (\E r : Serve(r)) \/ (UNCHANGED <<answers, due>> /\ phase' # "answer")
<1>1. CASE ReadByte
  <2>1. phase # "answer" /\ UNCHANGED <<down, secure, at, lost>>
    BY <1>1 DEF ReadByte, client
  <2>2. (\E l : TakeLine(l, damaged)) \/ UNCHANGED <<phase, answers, due>>
    BY <1>1 DEF ReadByte
  <2> QED
    BY <2>1, <2>2, LineServes
<1>2. CASE ReadBody
  BY <1>2 DEF ReadBody, client
<1>3. CASE ReadFails
  <2>1. phase # "answer" /\ UNCHANGED <<down, secure, at, lost>>
    BY <1>3 DEF ReadFails, client
  <2>2. TakeLine(Trim(line), TRUE) \/ End
    BY <1>3 DEF ReadFails
  <2>3. CASE TakeLine(Trim(line), TRUE)
    BY <2>1, <2>3, LineServes
  <2>4. CASE End
    BY <2>1, <2>4 DEF End
  <2> QED
    BY <2>2, <2>3, <2>4
<1>4. CASE BodyEnds
  BY <1>4 DEF BodyEnds, client
<1> QED
  BY <1>1, <1>2, <1>3, <1>4

LEMMA StepAnswers == DInv /\ [Next]_vars => DInv'
<1> SUFFICES ASSUME DInv, [Next]_vars
             PROVE  DInv'
  OBVIOUS
<1>1. CASE ReadByte \/ ReadBody \/ ReadFails \/ BodyEnds
  <2>1. CASE \E r : Serve(r)
    BY <1>1, <2>1, ServerReads, ServeKeeps
  <2>2. CASE UNCHANGED <<answers, due>> /\ phase' # "answer"
    BY <1>1, <2>2, ServerReads, AnswersStay
  <2> QED
    BY <1>1, <2>1, <2>2, ServerReads
<1>2. CASE SendAnswer
  BY <1>2, SendKeeps
<1>3. CASE ReadAnswer
  BY <1>3, ReadKeeps
<1>4. CASE GiveUp
  BY <1>4, GiveUpKeeps
<1>5. CASE (\E body \in Bodies : Ask(body)) \/ SendRequest \/ UNCHANGED vars
  <2>1. UNCHANGED <<down, secure, answers, at, lost, due, phase>>
    BY <1>5 DEF Ask, SendRequest, client, server, vars
  <2> QED
    BY <2>1, AnswersStay
<1> QED
  BY <1>1, <1>2, <1>3, <1>4, <1>5 DEF Next, Client, Server

(* Where a call returns that began where it did. *)
LEMMA ReturnIsInOrder ==
    ASSUME DInv, ReadAnswer, waiting, ~waiting'
    PROVE  \E i \in DOMAIN answers :
              \/ at = Place(i - 1) /\ at' = Place(i)
              \/ /\ Inside(at, i)
                 /\ \/ at' = Place(i)
                    \/ i < Len(answers) /\ at' = Place(i + 1)
                    \/ lost /\ at' = HeaderEnd(i)
<1>1. PICK h \in Nat : h = Len(down'.got)
  BY ReadStays
<1>2. HeaderRead(h) /\ h >= ResponseEnd /\ at' = h
  BY <1>1 DEF ReadAnswer, Return
<1>3. Ahead # {}
  BY <1>2 DEF HeaderRead
<1>4. /\ Heading \in 1..Len(answers) /\ at + 4 <= HeaderEnd(Heading)
      /\ \A j \in 1..Len(answers) : at + 4 <= HeaderEnd(j) => Heading <= j
      /\ ResponseEnd \in Nat
      /\ IF at <= answers[Heading].begin + LengthAt THEN ResponseEnd = Place(Heading)
                                                    ELSE ResponseEnd = HeaderEnd(Heading)
  BY <1>3, ResponseIs
<1>5. at' = ResponseEnd
  BY <1>1, <1>2, <1>3, <1>4, ReadStays
<1>6. PICK i \in 1..Len(answers) : i = Heading
  BY <1>4
<1>7. /\ answers \in Seq(Answer) /\ DOMAIN answers = 1..Len(answers) /\ at \in Nat
      /\ LengthAt \in Nat /\ AnswerHeader \in Nat /\ LengthAt + 4 <= AnswerHeader
  BY LengthIsTold, AnswersAreSizes DEF DInv, AnswersTyped
<1>8. \A j \in 1..Len(answers) :
         /\ answers[j].begin \in Nat /\ answers[j].body \in Nat /\ HeaderEnd(j) \in Nat
         /\ HeaderEnd(j) = answers[j].begin + AnswerHeader
         /\ Place(j) = HeaderEnd(j) + answers[j].body /\ Place(j) \in Nat
         /\ answers[j].begin = Place(j - 1)
  BY <1>7, PlaceIsNat DEF DInv, Contiguous
<1>9. PICK b \in Nat, e \in Nat, p \in Nat, n \in Nat, x \in Nat, l \in Nat :
         /\ b = answers[i].begin /\ e = HeaderEnd(i) /\ p = Place(i) /\ b = Place(i - 1)
         /\ e = b + AnswerHeader /\ p = e + n /\ x = at /\ l = LengthAt /\ x + 4 <= e
  BY <1>4, <1>6, <1>7, <1>8
<1>10. /\ \A j \in 0..Len(answers) : j < i => Place(j) \in Nat /\ Place(j) <= b
       /\ \A j \in 1..Len(answers) : /\ HeaderEnd(j) \in Nat /\ HeaderEnd(j) <= Place(j)
                                     /\ j > i => p <= HeaderEnd(j)
  <2>1. ASSUME NEW j \in 0..Len(answers), j < i
        PROVE  Place(j) \in Nat /\ Place(j) <= b
    BY <1>7, <1>9, <2>1, PlaceIsNat DEF DInv, Contiguous
  <2>2. ASSUME NEW j \in 1..Len(answers)
        PROVE  /\ HeaderEnd(j) \in Nat /\ HeaderEnd(j) <= Place(j)
               /\ j > i => p <= HeaderEnd(j)
    <3>1. /\ answers[j].begin \in Nat /\ answers[j].body \in Nat /\ AnswerHeader \in Nat
          /\ HeaderEnd(j) = answers[j].begin + AnswerHeader
          /\ Place(j) = HeaderEnd(j) + answers[j].body
      BY <1>7, <1>8
    <3>2. j > i => Place(i) <= answers[j].begin
      <4>1. i \in 0..Len(answers)
        OBVIOUS
      <4>2. i < j => Place(i) <= answers[j].begin
        BY <4>1 DEF DInv, Contiguous
      <4> QED
        BY <4>2
    <3>3. PICK c \in Nat, d \in Nat, k \in Nat :
             c = answers[j].begin /\ d = answers[j].body /\ k = AnswerHeader
      BY <3>1
    <3>4. /\ HeaderEnd(j) = c + k /\ Place(j) = (c + k) + d /\ (j > i => p <= c)
      BY <1>9, <3>1, <3>2, <3>3, Zenon
    <3> QED
      BY <3>4
  <2> QED
    BY <2>1, <2>2
<1>11. CASE ~(x <= b + l)
  <2>1. at' = HeaderEnd(i)
    BY <1>4, <1>5, <1>6, <1>9, <1>11
  <2>2. b < x /\ x < e /\ e <= p
    BY <1>9, <1>11
  <2>3. Inside(at, i)
    BY <1>9, <2>2 DEF Inside
  <2>4. ASSUME NEW j \in 1..Len(answers)
        PROVE  at # HeaderEnd(j) /\ at # Place(j)
    <3>1. CASE j < i
      <4>1. j \in 0..Len(answers)
        OBVIOUS
      <4>2. /\ HeaderEnd(j) \in Nat /\ Place(j) \in Nat
            /\ HeaderEnd(j) <= Place(j) /\ Place(j) <= b
        BY <1>8, <1>10, <3>1, <4>1
      <4>3. HeaderEnd(j) <= b
        BY <1>9, <4>2
      <4>4. \A q \in Nat : q <= b => x # q
        BY <2>2
      <4> QED
        BY <1>9, <4>2, <4>3, <4>4, Zenon
    <3>2. CASE j = i
      <4>1. HeaderEnd(j) = e /\ Place(j) = p
        BY <1>9, <3>2, Zenon
      <4>2. x # e /\ x # p
        BY <2>2
      <4> QED
        BY <1>9, <4>1, <4>2, Zenon
    <3>3. CASE j > i
      <4>1. PICK f \in Nat, q \in Nat : f = HeaderEnd(j) /\ q = Place(j) /\ f <= q /\ p <= f
        BY <1>8, <1>10, <3>3
      <4> QED
        BY <1>9, <2>2, <4>1
    <3> QED
      BY <3>1, <3>2, <3>3
  <2>5. at # Place(0)
    BY <1>9, <2>2 DEF Place
  <2>6. lost
    BY <2>4, <2>5 DEF DInv, Placed
  <2> QED
    BY <1>7, <2>1, <2>3, <2>6
<1>12. CASE x <= b + l
  <2>1. at' = Place(i)
    BY <1>4, <1>5, <1>6, <1>9, <1>12
  <2>2. CASE x = b
    BY <1>7, <1>9, <2>1, <2>2
  <2>3. CASE x > b
    <3>1. b < x /\ x < p
      BY <1>9, <2>3
    <3>2. Inside(at, i)
      BY <1>9, <3>1 DEF Inside
    <3> QED
      BY <1>7, <2>1, <3>2
  <2>4. CASE x < b
    <3>1. i # 1
      BY <1>9, <2>4 DEF Place
    <3>2. PICK j \in 1..Len(answers) : j = i - 1 /\ i = j + 1 /\ j < i /\ j < Len(answers)
      BY <3>1
    <3>3. /\ answers[j].begin \in Nat /\ AnswerHeader \in Nat /\ 4 <= AnswerHeader
          /\ HeaderEnd(j) = answers[j].begin + AnswerHeader /\ answers[j].begin = Place(j - 1)
      BY <1>7, <1>8
    <3>4. PICK c \in Nat, k \in Nat : c = answers[j].begin /\ k = AnswerHeader
      BY <3>3
    <3>5. ~(x + 4 <= c + k) /\ 4 <= k /\ c = Place(j - 1)
      <4>1. ~(at + 4 <= HeaderEnd(j))
        BY <1>4, <1>6, <3>2
      <4> QED
        BY <1>9, <3>3, <3>4, <4>1, Zenon
    <3>6. c < x
      BY <3>5
    <3>7. Inside(at, j)
      BY <1>9, <2>4, <3>2, <3>5, <3>6 DEF Inside
    <3> QED
      BY <1>7, <2>1, <3>2, <3>7
  <2> QED
    BY <2>2, <2>3, <2>4
<1> QED
  BY <1>11, <1>12

(* However writes, frames and reads cut the answers, and wherever a call is given up,  *)
(* in a header, in a body, in a frame or before the answer came: a call that begins    *)
(* with an answer returns that answer; one that begins inside of an answer, behind a   *)
(* call given up, returns the next at the latest, and the one after it is in step, but *)
(* for a header that lost its length, which only a call directly behind takes so.       *)
THEOREM AnswersTakenInOrder == Spec => AnswersInOrder
<1>1. DInv /\ [Next]_vars =>
         [waiting /\ ~waiting' /\ ~lost' =>
             \E i \in DOMAIN answers :
                \/ at = Place(i - 1) /\ at' = Place(i)
                \/ /\ Inside(at, i)
                   /\ \/ at' = Place(i)
                      \/ i < Len(answers) /\ at' = Place(i + 1)
                      \/ lost /\ at' = HeaderEnd(i)]_vars
  <2> SUFFICES ASSUME DInv, Next, waiting, ~waiting', ~lost'
               PROVE  \E i \in DOMAIN answers :
                         \/ at = Place(i - 1) /\ at' = Place(i)
                         \/ /\ Inside(at, i)
                            /\ \/ at' = Place(i)
                               \/ i < Len(answers) /\ at' = Place(i + 1)
                               \/ lost /\ at' = HeaderEnd(i)
    OBVIOUS
  <2>1. CASE ReadAnswer
    BY <2>1, ReturnIsInOrder
  <2>2. CASE GiveUp
    BY <2>2 DEF GiveUp
  <2>3. CASE ~ReadAnswer /\ ~GiveUp
    BY <2>3 DEF Next, Client, Server, Ask, SendRequest, ReadByte, ReadBody, SendAnswer,
                ReadFails, BodyEnds, client
  <2> QED
    BY <2>1, <2>2, <2>3
<1> QED
  BY <1>1, InitAnswers, StepAnswers, PTL DEF Spec, AnswersInOrder

(* Every step keeps Down to HapStream. *)
LEMMA StepDown ==
    ASSUME DInv, [Next]_vars
    PROVE  [D!Next]_down
<1>1. CASE SendAnswer
  <2>1. Down!Write(Piece(Head(due))) /\ Piece(Head(due)) \in Nat \ {0}
    BY <1>1, WriteTakes DEF SendAnswer
  <2> QED
    BY <2>1, SameActionsDown DEF D!Next
<1>2. CASE ReadAnswer
  <2>1. PICK k \in Nat \ {0} : Down!Read(k)
    BY <1>2, AnswerAsked DEF ReadAnswer
  <2> QED
    BY <2>1, SameActionsDown DEF D!Next
<1>3. CASE GiveUp
  BY <1>3, SameActionsDown DEF GiveUp, D!Next
<1>4. CASE ~SendAnswer /\ ~ReadAnswer /\ ~GiveUp
  BY <1>4, ServerReads DEF Next, Client, Server, Ask, SendRequest, vars
<1> QED
  BY <1>1, <1>2, <1>3, <1>4

(* Answers arrive as a stream of bytes, as requests do. *)
THEOREM ImplementsDown == Spec => Down!StreamSpec
<1>1. Init => Down!Stream!Init
  BY DEF Init, Down!InitAs, Down!Stream!Init
<1>2. DInv /\ [Next]_vars => [Down!Stream!Next]_(Down!Stream!vars)
  <2> SUFFICES ASSUME DInv, [Next]_vars
               PROVE  [Down!Stream!Next]_(Down!Stream!vars)
    OBVIOUS
  <2>1. D!IInv /\ [D!Next]_down
    BY StepDown DEF DInv, AnswersTyped
  <2>2. [D!Stream!Next]_(D!Stream!vars)
    BY <2>1, D!StepStream
  <2> QED
    BY <2>2 DEF D!Stream!Next, D!Stream!vars, D!Stream!Write, D!Stream!Deliver,
                Down!Stream!Next, Down!Stream!vars, Down!Stream!Write, Down!Stream!Deliver
<1> QED
  BY <1>1, <1>2, InitAnswers, StepAnswers, PTL DEF Spec, Down!StreamSpec, Down!Stream!Spec
--------------------------------------------------------------------------------
HeaderLen(b) == Len(Headers(b))

(* Digits of a length. *)
Width(b) == IF b = <<>> THEN 1 ELSE Len(b)

(* The tokens of a header h, line by line: the digits, d of them, stand behind eleven others. *)
FirstTokens(h) == h[1] = "Q" /\ h[2] = "V" /\ h[3] = "r" /\ h[4] = "n"

CSeqTokens(h) == h[5] = "C" /\ h[6] = ":" /\ h[7] = "1" /\ h[8] = "r" /\ h[9] = "n"

LengthTokens(h, d, digit) ==
    /\ h[10] = "L" /\ h[11] = ":"
    /\ \A k \in 1..d : h[11 + k] = digit
    /\ h[12 + d] = "r" /\ h[13 + d] = "n"

LastTokens(h, d) == h[14 + d] = "r" /\ h[15 + d] = "n"

Digit(b) == IF b = <<>> THEN "0" ELSE "1"

(* The header is these lines. *)
LEMMA HeaderTokens ==
    ASSUME NEW b \in Bodies
    PROVE  /\ Width(b) \in Nat \ {0} /\ HeaderLen(b) = Width(b) + 15
           /\ Headers(b) \in Seq(Tokens)
           /\ FirstTokens(Headers(b)) /\ CSeqTokens(Headers(b))
           /\ LengthTokens(Headers(b), Width(b), Digit(b)) /\ LastTokens(Headers(b), Width(b))
<1> DEFINE A == <<"Q", "V", "r", "n", "C", ":", "1", "r", "n", "L", ":">>
           Ds == Digits(Len(b))
           Z == <<"r", "n", "r", "n">>
           d == Width(b)
<1>1. b \in Seq(Tokens) /\ Len(b) \in Nat /\ (b = <<>> <=> Len(b) = 0)
  BY BodiesAreTokens
<1>2. d \in Nat \ {0}
  BY <1>1 DEF Width
<1>3. Ds \in Seq(Tokens) /\ Len(Ds) = d /\ \A k \in 1..d : Ds[k] = IF b = <<>> THEN "0" ELSE "1"
  <2>1. CASE b = <<>>
    <3>1. <<"0">> \in Seq(Tokens) /\ Len(<<"0">>) = 1 /\ <<"0">>[1] = "0"
      BY DEF Tokens
    <3> QED
      BY <1>1, <2>1, <3>1 DEF Digits, Width
  <2>2. CASE b # <<>>
    <3>1. Ds = [i \in 1..Len(b) |-> "1"] /\ d = Len(b)
      BY <1>1, <2>2 DEF Digits, Width
    <3>2. ASSUME NEW n \in Nat
          PROVE  [i \in 1..n |-> "1"] \in Seq(Tokens) /\ Len([i \in 1..n |-> "1"]) = n
      BY DEF Tokens
    <3> QED
      BY <1>1, <2>2, <3>1, <3>2
  <2> QED
    BY <2>1, <2>2
<1>4. A \in Seq(Tokens) /\ Len(A) = 11 /\ Z \in Seq(Tokens) /\ Len(Z) = 4
  BY DEF Tokens
<1>5. /\ A[1] = "Q" /\ A[2] = "V" /\ A[3] = "r" /\ A[4] = "n" /\ A[5] = "C" /\ A[6] = ":"
      /\ A[7] = "1" /\ A[8] = "r" /\ A[9] = "n" /\ A[10] = "L" /\ A[11] = ":"
      /\ Z[1] = "r" /\ Z[2] = "n" /\ Z[3] = "r" /\ Z[4] = "n"
  OBVIOUS
<1>6. Headers(b) = A \o (Ds \o Z)
  <2>1. Headers(b) = A \o Ds \o Z
    BY DEF Headers
  <2>2. ASSUME NEW x \in Seq(Tokens), NEW y \in Seq(Tokens), NEW z \in Seq(Tokens)
        PROVE  x \o y \o z = x \o (y \o z)
    BY ConcatAssociative
  <2> HIDE DEF A, Ds, Z
  <2>3. (A \o Ds) \o Z = A \o (Ds \o Z)
    BY <1>3, <1>4, <2>2, Zenon
  <2> QED
    BY <2>1, <2>3
<1> HIDE DEF A, Ds, Z, d
<1>7. /\ Ds \o Z \in Seq(Tokens) /\ Len(Ds \o Z) = d + 4
      /\ \A k \in 1..(d + 4) : (Ds \o Z)[k] = IF k <= d THEN Ds[k] ELSE Z[k - d]
  <2>1. \A k \in 1..(Len(Ds) + Len(Z)) : (Ds \o Z)[k] = IF k <= Len(Ds) THEN Ds[k] ELSE Z[k - Len(Ds)]
    BY <1>3, <1>4, ConcatProperties
  <2>2. Ds \o Z \in Seq(Tokens) /\ Len(Ds \o Z) = Len(Ds) + Len(Z)
    BY <1>3, <1>4, ConcatProperties
  <2> QED
    BY <1>3, <1>4, <2>1, <2>2
<1>8. /\ Headers(b) \in Seq(Tokens) /\ Len(Headers(b)) = 11 + (d + 4)
      /\ \A k \in 1..(11 + (d + 4)) : Headers(b)[k] = IF k <= 11 THEN A[k] ELSE (Ds \o Z)[k - 11]
  <2> DEFINE E == Ds \o Z
  <2>1. E \in Seq(Tokens) /\ Len(E) = d + 4
    BY <1>7
  <2> HIDE DEF E
  <2>2. A \o E \in Seq(Tokens) /\ Len(A \o E) = Len(A) + Len(E)
    BY <1>4, <2>1, ConcatProperties
  <2>3. \A k \in 1..(Len(A) + Len(E)) : (A \o E)[k] = IF k <= Len(A) THEN A[k] ELSE E[k - Len(A)]
    <3>1. ASSUME NEW x \in Seq(Tokens), NEW y \in Seq(Tokens)
          PROVE  \A k \in 1..(Len(x) + Len(y)) : (x \o y)[k] = IF k <= Len(x) THEN x[k] ELSE y[k - Len(x)]
      BY ConcatProperties
    <3> QED
      BY <1>4, <2>1, <3>1
  <2>4. Headers(b) = A \o E
    BY <1>6 DEF E
  <2>5. \A k \in 1..(11 + (d + 4)) : Headers(b)[k] = IF k <= 11 THEN A[k] ELSE E[k - 11]
    BY <1>4, <2>1, <2>3, <2>4
  <2> QED
    BY <1>4, <2>1, <2>2, <2>4, <2>5 DEF E
<1>9. ASSUME NEW k \in 1..11 PROVE Headers(b)[k] = A[k]
  BY <1>2, <1>8
<1>10. ASSUME NEW k \in 1..d PROVE Headers(b)[11 + k] = Ds[k]
  <2>1. /\ 11 + k \in 1..(11 + (d + 4)) /\ ~(11 + k <= 11) /\ (11 + k) - 11 = k
        /\ k \in 1..(d + 4) /\ k <= d
    BY <1>2
  <2> QED
    BY <1>7, <1>8, <2>1
<1>11. ASSUME NEW k \in 1..4 PROVE Headers(b)[11 + (d + k)] = Z[k]
  <2>1. /\ 11 + (d + k) \in 1..(11 + (d + 4)) /\ ~(11 + (d + k) <= 11)
        /\ (11 + (d + k)) - 11 = d + k
        /\ d + k \in 1..(d + 4) /\ ~(d + k <= d) /\ (d + k) - d = k
    BY <1>2
  <2> QED
    BY <1>7, <1>8, <2>1
<1>12. /\ Headers(b)[12 + d] = "r" /\ Headers(b)[13 + d] = "n"
       /\ Headers(b)[14 + d] = "r" /\ Headers(b)[15 + d] = "n"
  <2>1. /\ 11 + (d + 1) = 12 + d /\ 11 + (d + 2) = 13 + d
        /\ 11 + (d + 3) = 14 + d /\ 11 + (d + 4) = 15 + d
    BY <1>2
  <2>2. 1 \in 1..4 /\ 2 \in 1..4 /\ 3 \in 1..4 /\ 4 \in 1..4
    OBVIOUS
  <2> QED
    BY <1>5, <1>11, <2>1, <2>2
<1>13. \A k \in 1..d : Headers(b)[11 + k] = IF b = <<>> THEN "0" ELSE "1"
  BY <1>3, <1>10
<1>14. HeaderLen(b) = d + 15
  BY <1>2, <1>8 DEF HeaderLen
<1> DEFINE h == Headers(b)
<1>15. /\ h[1] = A[1] /\ h[2] = A[2] /\ h[3] = A[3] /\ h[4] = A[4] /\ h[5] = A[5] /\ h[6] = A[6]
       /\ h[7] = A[7] /\ h[8] = A[8] /\ h[9] = A[9] /\ h[10] = A[10] /\ h[11] = A[11]
  BY <1>9
<1>16. LengthTokens(h, d, Digit(b))
  <2>1. h[10] = "L" /\ h[11] = ":"
    BY <1>5, <1>15
  <2>2. \A k \in 1..d : h[11 + k] = Digit(b)
    BY <1>13 DEF Digit
  <2>3. h[12 + d] = "r" /\ h[13 + d] = "n"
    BY <1>12
  <2> QED
    BY <2>1, <2>2, <2>3 DEF LengthTokens
<1>17. LastTokens(h, d)
  BY <1>12 DEF LastTokens
<1> HIDE DEF h
<1>18. FirstTokens(h) /\ CSeqTokens(h)
  BY <1>5, <1>15 DEF FirstTokens, CSeqTokens
<1>19. h \in Seq(Tokens)
  BY <1>8 DEF h
<1> QED
  BY <1>2, <1>14, <1>16, <1>17, <1>18, <1>19 DEF d, h

LEMMA HeaderLength ==
    ASSUME NEW b \in Bodies
    PROVE  Width(b) \in Nat \ {0} /\ HeaderLen(b) = Width(b) + 15 /\ Headers(b) \in Seq(Tokens)
  BY HeaderTokens

(* A line without its end. *)
LEMMA TrimEnds ==
    ASSUME NEW l \in Seq(Tokens), NEW n \in 0..Len(l),
           n > 0 => l[n] \notin {"r", "n"},
           \A i \in (n + 1)..Len(l) : l[i] \in {"r", "n"}
    PROVE  Trim(l) = SubSeq(l, 1, n)
<1> DEFINE Short == {SubSeq(l, 1, k) : k \in 0..Len(l)}
           Good(t) == /\ t # <<>> => t[Len(t)] \notin {"r", "n"}
                      /\ \A i \in (Len(t) + 1)..Len(l) : l[i] \in {"r", "n"}
<1>1. ASSUME NEW k \in 0..Len(l)
      PROVE  /\ Len(SubSeq(l, 1, k)) = k /\ SubSeq(l, 1, k) \in Seq(Tokens)
             /\ k > 0 => SubSeq(l, 1, k)[k] = l[k]
  <2>1. 1 \in Int /\ k \in Int /\ \A i \in 1..k : l[i] \in Tokens
    OBVIOUS
  <2>2. /\ SubSeq(l, 1, k) \in Seq(Tokens)
        /\ Len(SubSeq(l, 1, k)) = IF 1 <= k THEN k - 1 + 1 ELSE 0
        /\ \A i \in 1..(k - 1 + 1) : SubSeq(l, 1, k)[i] = l[1 + i - 1]
    BY <2>1, SubSeqProperties
  <2>3. Len(SubSeq(l, 1, k)) = k
    BY <2>2
  <2>4. ASSUME k > 0 PROVE SubSeq(l, 1, k)[k] = l[k]
    <3>1. k \in 1..(k - 1 + 1) /\ 1 + k - 1 = k
      BY <2>4
    <3> QED
      BY <2>2, <3>1
  <2> QED
    BY <2>2, <2>3, <2>4
<1>2. SubSeq(l, 1, n) \in Short /\ Good(SubSeq(l, 1, n))
  <2>1. SubSeq(l, 1, n) # <<>> => n > 0
    BY <1>1
  <2> QED
    BY <1>1, <2>1
<1>3. ASSUME NEW t \in Short, Good(t)
      PROVE  t = SubSeq(l, 1, n)
  <2>1. PICK k \in 0..Len(l) : t = SubSeq(l, 1, k)
    OBVIOUS
  <2>2. Len(t) = k /\ (k > 0 => t[k] = l[k]) /\ (k > 0 => t # <<>>)
    BY <1>1, <2>1
  <2>3. ~(k < n)
    <3> SUFFICES ASSUME k < n PROVE FALSE
      OBVIOUS
    <3>1. n \in (k + 1)..Len(l) /\ n > 0
      OBVIOUS
    <3> QED
      BY <1>3, <2>2, <3>1
  <2>4. ~(k > n)
    <3> SUFFICES ASSUME k > n PROVE FALSE
      OBVIOUS
    <3>1. k \in (n + 1)..Len(l) /\ k > 0
      OBVIOUS
    <3> QED
      BY <1>3, <2>2, <3>1
  <2> QED
    BY <2>1, <2>3, <2>4
<1>4. Trim(l) = CHOOSE t \in Short : Good(t)
  BY DEF Trim
<1> HIDE DEF Short, Good
<1> QED
  BY <1>2, <1>3, <1>4

(* The name and the value of a line with a colon. *)
LEMMA ColonIs ==
    ASSUME NEW l \in Seq(Tokens), Len(l) >= 2, l[1] # ":", l[2] = ":"
    PROVE  /\ HasColon(l) /\ Colon(l) = 2 /\ Name(l) = <<l[1]>> /\ Name(l)[1] = l[1]
           /\ Value(l) \in Seq(Tokens) /\ Len(Value(l)) = Len(l) - 2
           /\ \A i \in 1..(Len(l) - 2) : Value(l)[i] = l[i + 2]
<1>1. 2 \in DOMAIN l
  OBVIOUS
<1>2. HasColon(l)
  BY <1>1 DEF HasColon
<1>3. /\ \A j \in 1..(2 - 1) : l[j] # ":"
      /\ \A i \in DOMAIN l : l[i] = ":" /\ (\A j \in 1..(i - 1) : l[j] # ":") => i = 2
  <2>1. ASSUME NEW i \in DOMAIN l, l[i] = ":", \A j \in 1..(i - 1) : l[j] # ":"
        PROVE  i = 2
    <3>1. i \in 1..Len(l) /\ i # 1
      BY <2>1
    <3>2. i > 2 => 2 \in 1..(i - 1)
      BY <3>1
    <3> QED
      BY <2>1, <3>1, <3>2
  <2> QED
    BY <2>1
<1>4. Colon(l) = 2
  BY <1>1, <1>3 DEF Colon
<1>5. Name(l) = <<l[1]>> /\ Name(l)[1] = l[1]
  <2>1. Name(l) = SubSeq(l, 1, 1)
    BY <1>4 DEF Name
  <2>2. /\ SubSeq(l, 1, 1) \in Seq(Tokens) /\ Len(SubSeq(l, 1, 1)) = 1
        /\ SubSeq(l, 1, 1)[1] = l[1]
    <3>1. 1 \in Int /\ \A i \in 1..1 : l[i] \in Tokens
      OBVIOUS
    <3>2. /\ SubSeq(l, 1, 1) \in Seq(Tokens)
          /\ Len(SubSeq(l, 1, 1)) = IF 1 <= 1 THEN 1 - 1 + 1 ELSE 0
          /\ \A i \in 1..(1 - 1 + 1) : SubSeq(l, 1, 1)[i] = l[1 + i - 1]
      BY <3>1, SubSeqProperties
    <3> QED
      BY <3>2
  <2>3. <<l[1]>> \in Seq(Tokens) /\ Len(<<l[1]>>) = 1 /\ <<l[1]>>[1] = l[1]
    BY <1>1
  <2>4. \A i \in 1..1 : SubSeq(l, 1, 1)[i] = <<l[1]>>[i]
    BY <2>2, <2>3
  <2>5. SubSeq(l, 1, 1) = <<l[1]>>
    BY <2>2, <2>3, <2>4, SeqEqual
  <2> QED
    BY <2>1, <2>2, <2>5
<1>6. Value(l) = SubSeq(l, 3, Len(l))
  BY <1>4 DEF Value
<1>7. /\ SubSeq(l, 3, Len(l)) \in Seq(Tokens) /\ Len(SubSeq(l, 3, Len(l))) = Len(l) - 2
      /\ \A i \in 1..(Len(l) - 2) : SubSeq(l, 3, Len(l))[i] = l[i + 2]
  <2>1. 3 \in Int /\ Len(l) \in Int /\ \A i \in 3..Len(l) : l[i] \in Tokens
    OBVIOUS
  <2>2. /\ SubSeq(l, 3, Len(l)) \in Seq(Tokens)
        /\ Len(SubSeq(l, 3, Len(l))) = IF 3 <= Len(l) THEN Len(l) - 3 + 1 ELSE 0
        /\ \A i \in 1..(Len(l) - 3 + 1) : SubSeq(l, 3, Len(l))[i] = l[3 + i - 1]
    BY <2>1, SubSeqProperties
  <2>3. ASSUME NEW i \in 1..(Len(l) - 2) PROVE SubSeq(l, 3, Len(l))[i] = l[i + 2]
    <3>1. i \in 1..(Len(l) - 3 + 1) /\ 3 + i - 1 = i + 2
      OBVIOUS
    <3> QED
      BY <2>2, <3>1
  <2>4. Len(SubSeq(l, 3, Len(l))) = Len(l) - 2
    <3>1. PICK n \in Nat : n = Len(l) /\ n >= 2
      OBVIOUS
    <3>2. Len(SubSeq(l, 3, n)) = IF 3 <= n THEN n - 3 + 1 ELSE 0
      BY <2>2, <3>1
    <3> QED
      BY <3>1, <3>2
  <2> QED
    BY <2>2, <2>3, <2>4
<1> QED
  BY <1>2, <1>4, <1>5, <1>6, <1>7

(* The first line: a method, a path and the version. *)
LEMMA FirstLine ==
    ASSUME NEW b \in Bodies, NEW l \in Seq(Tokens), Len(l) \in 1..4,
           \A k \in 1..Len(l) : l[k] = Headers(b)[k]
    PROVE  /\ EndsLine(l) <=> Len(l) = 4
           /\ Len(l) = 4 => IsRequest(Trim(l))
<1>1. PICK n \in 1..4 : n = Len(l)
  OBVIOUS
<1>2. /\ l[1] = "Q"
      /\ n >= 2 => l[2] = "V"
      /\ n >= 3 => l[3] = "r"
      /\ n = 4 => l[4] = "n"
  <2>1. PICK h : h = Headers(b)
    OBVIOUS
  <2>2. \A k \in 1..n : l[k] = h[k]
    BY <1>1, <2>1
  <2>3. /\ l[1] = h[1]
        /\ n >= 2 => l[2] = h[2]
        /\ n >= 3 => l[3] = h[3]
        /\ n = 4 => l[4] = h[4]
    BY <2>2
  <2>4. h[1] = "Q" /\ h[2] = "V" /\ h[3] = "r" /\ h[4] = "n"
    BY <2>1, HeaderTokens DEF FirstTokens
  <2> QED
    BY <2>3, <2>4
<1>3. EndsLine(l) <=> Len(l) = 4
  <2>1. EndsLine(l) <=> l[n] = "n" /\ (kind = "event" => n > 1 /\ l[n - 1] = "r")
    BY <1>1 DEF EndsLine, Last
  <2>2. n = 4 => n - 1 = 3
    OBVIOUS
  <2>3. l[n] = "n" <=> n = 4
    BY <1>2
  <2> QED
    BY <1>1, <1>2, <2>1, <2>2, <2>3
<1>4. ASSUME Len(l) = 4 PROVE IsRequest(Trim(l))
  <2>1. Trim(l) = SubSeq(l, 1, 2)
    <3>1. 2 \in 0..Len(l) /\ \A i \in (2 + 1)..Len(l) : i = 3 \/ i = 4
      BY <1>4
    <3>2. l[2] \notin {"r", "n"} /\ \A i \in (2 + 1)..Len(l) : l[i] \in {"r", "n"}
      BY <1>1, <1>2, <1>4, <3>1
    <3> QED
      BY <3>1, <3>2, TrimEnds
  <2>2. /\ Len(SubSeq(l, 1, 2)) = 2
        /\ SubSeq(l, 1, 2)[1] = "Q" /\ SubSeq(l, 1, 2)[2] = "V"
    <3>1. 1 \in Int /\ 2 \in Int /\ \A i \in 1..2 : l[i] \in Tokens
      <4>1. \A i \in 1..2 : i \in 1..Len(l)
        BY <1>4
      <4> QED
        BY <4>1, ElementOfSeq
    <3>2. /\ Len(SubSeq(l, 1, 2)) = IF 1 <= 2 THEN 2 - 1 + 1 ELSE 0
          /\ \A i \in 1..(2 - 1 + 1) : SubSeq(l, 1, 2)[i] = l[1 + i - 1]
      BY <3>1, SubSeqProperties
    <3> QED
      BY <1>1, <1>2, <1>4, <3>2
  <2> QED
    BY <2>1, <2>2 DEF IsRequest
<1> QED
  BY <1>3, <1>4

(* The line of the CSeq. *)
LEMMA CSeqLine ==
    ASSUME NEW b \in Bodies, NEW l \in Seq(Tokens), Len(l) \in 1..5,
           \A k \in 1..Len(l) : l[k] = Headers(b)[4 + k]
    PROVE  /\ EndsLine(l) <=> Len(l) = 5
           /\ Len(l) = 5 =>
                 /\ Trim(l) # <<>> /\ HasColon(Trim(l))
                 /\ Name(Trim(l)) = <<"C">> /\ Name(Trim(l)) # <<"L">>
<1>1. PICK n \in 1..5 : n = Len(l)
  OBVIOUS
<1>2. /\ l[1] = "C"
      /\ n >= 2 => l[2] = ":"
      /\ n >= 3 => l[3] = "1"
      /\ n >= 4 => l[4] = "r"
      /\ n = 5 => l[5] = "n"
  <2>1. PICK h : h = Headers(b)
    OBVIOUS
  <2>2. \A k \in 1..n : l[k] = h[4 + k]
    BY <1>1, <2>1
  <2>3. /\ l[1] = h[5]
        /\ n >= 2 => l[2] = h[6]
        /\ n >= 3 => l[3] = h[7]
        /\ n >= 4 => l[4] = h[8]
        /\ n = 5 => l[5] = h[9]
    BY <2>2
  <2>4. h[5] = "C" /\ h[6] = ":" /\ h[7] = "1" /\ h[8] = "r" /\ h[9] = "n"
    BY <2>1, HeaderTokens DEF CSeqTokens
  <2> QED
    BY <2>3, <2>4
<1>3. EndsLine(l) <=> Len(l) = 5
  <2>1. EndsLine(l) <=> l[n] = "n" /\ (kind = "event" => n > 1 /\ l[n - 1] = "r")
    BY <1>1 DEF EndsLine, Last
  <2>2. n = 5 => n - 1 = 4
    OBVIOUS
  <2>3. l[n] = "n" <=> n = 5
    BY <1>2
  <2> QED
    BY <1>1, <1>2, <2>1, <2>2, <2>3
<1>4. ASSUME Len(l) = 5
      PROVE  /\ Trim(l) # <<>> /\ HasColon(Trim(l))
             /\ Name(Trim(l)) = <<"C">> /\ Name(Trim(l)) # <<"L">>
  <2> DEFINE t == SubSeq(l, 1, 3)
  <2>1. Trim(l) = t
    <3>1. 3 \in 0..Len(l) /\ \A i \in (3 + 1)..Len(l) : i = 4 \/ i = 5
      BY <1>4
    <3>2. l[3] \notin {"r", "n"} /\ \A i \in (3 + 1)..Len(l) : l[i] \in {"r", "n"}
      BY <1>1, <1>2, <1>4, <3>1
    <3> QED
      BY <3>1, <3>2, TrimEnds
  <2>2. t \in Seq(Tokens) /\ Len(t) = 3 /\ t[1] = "C" /\ t[2] = ":"
    <3>1. 1 \in Int /\ 3 \in Int /\ \A i \in 1..3 : l[i] \in Tokens
      <4>1. \A i \in 1..3 : i \in 1..Len(l)
        BY <1>4
      <4> QED
        BY <4>1, ElementOfSeq
    <3>2. /\ t \in Seq(Tokens) /\ Len(t) = IF 1 <= 3 THEN 3 - 1 + 1 ELSE 0
          /\ \A i \in 1..(3 - 1 + 1) : t[i] = l[1 + i - 1]
      BY <3>1, SubSeqProperties
    <3> HIDE DEF t
    <3>3. Len(t) = 3 /\ t[1] = l[1] /\ t[2] = l[2]
      BY <3>2
    <3> QED
      BY <1>1, <1>2, <1>4, <3>2, <3>3
  <2> HIDE DEF t
  <2>3. HasColon(t) /\ Name(t) = <<"C">> /\ Name(t)[1] = "C"
    BY <2>2, ColonIs
  <2>4. Name(t) # <<"L">>
    BY <2>3
  <2>5. t # <<>>
    <3>1. Len(<<>>) = 0 /\ 3 # 0
      OBVIOUS
    <3> QED
      BY <2>2, <3>1, Zenon
  <2> QED
    BY <2>1, <2>3, <2>4, <2>5
<1> QED
  BY <1>3, <1>4

(* The line of the length. *)
LEMMA LengthLine ==
    ASSUME NEW b \in Bodies, NEW l \in Seq(Tokens), Len(l) \in 1..(4 + Width(b)),
           \A k \in 1..Len(l) : l[k] = Headers(b)[9 + k]
    PROVE  /\ EndsLine(l) <=> Len(l) = 4 + Width(b)
           /\ Len(l) = 4 + Width(b) =>
                 /\ Trim(l) # <<>> /\ HasColon(Trim(l)) /\ Name(Trim(l)) = <<"L">>
                 /\ Name(Trim(l)) # <<"C">>
                 /\ IsNumber(Value(Trim(l))) /\ Number(Value(Trim(l))) = Len(b)
<1>1. PICK d \in Nat \ {0} : d = Width(b)
  BY HeaderLength
<1>2. /\ l[1] = "L"
      /\ Len(l) >= 2 => l[2] = ":"
      /\ \A k \in 1..d : Len(l) >= 2 + k => l[2 + k] = IF b = <<>> THEN "0" ELSE "1"
      /\ Len(l) >= 3 + d => l[3 + d] = "r"
      /\ Len(l) = 4 + d => l[4 + d] = "n"
  <2>1. PICK h : h = Headers(b)
    OBVIOUS
  <2>2. LengthTokens(h, d, Digit(b))
    BY <1>1, <2>1, HeaderTokens
  <2>3. \A k \in 1..Len(l) : l[k] = h[9 + k]
    BY <2>1
  <2>4. l[1] = "L" /\ (Len(l) >= 2 => l[2] = ":")
    <3>1. 1 \in 1..Len(l) /\ (Len(l) >= 2 => 2 \in 1..Len(l)) /\ 9 + 1 = 10 /\ 9 + 2 = 11
      OBVIOUS
    <3>2. l[1] = h[10] /\ (Len(l) >= 2 => l[2] = h[11])
      BY <3>1, <2>3
    <3> QED
      BY <3>2, <2>2 DEF LengthTokens
  <2>5. ASSUME NEW k \in 1..d, Len(l) >= 2 + k
        PROVE  l[2 + k] = IF b = <<>> THEN "0" ELSE "1"
    <3>1. PICK n \in Nat : n = Len(l) /\ 2 + k <= n
      BY <1>1, <2>5
    <3>2. 2 + k \in 1..Len(l) /\ 9 + (2 + k) = 11 + k
      BY <3>1
    <3> QED
      BY <3>2, <2>3, <2>2 DEF LengthTokens, Digit
  <2>6. ASSUME Len(l) >= 3 + d PROVE l[3 + d] = "r"
    <3>1. 3 + d \in 1..Len(l) /\ 9 + (3 + d) = 12 + d
      BY <2>6
    <3> QED
      BY <3>1, <2>3, <2>2 DEF LengthTokens, Digit
  <2>7. ASSUME Len(l) = 4 + d PROVE l[4 + d] = "n"
    <3>1. 4 + d \in 1..Len(l) /\ 9 + (4 + d) = 13 + d
      BY <2>7
    <3> QED
      BY <3>1, <2>3, <2>2 DEF LengthTokens, Digit
  <2> QED
    BY <2>4, <2>5, <2>6, <2>7
<1>3. EndsLine(l) <=> Len(l) = 4 + d
  <2>1. CASE Len(l) = 4 + d
    <3>1. Len(l) - 1 = 3 + d /\ Len(l) >= 3 + d
      BY <2>1
    <3> QED
      BY <1>2, <2>1, <3>1 DEF EndsLine, Last
  <2>2. CASE Len(l) # 4 + d
    <3>1. l[Len(l)] # "n"
      <4>1. PICK n \in 1..(4 + d) : n = Len(l)
        BY <1>1
      <4>2. CASE n = 1 \/ n = 2
        BY <1>2, <4>1, <4>2
      <4>3. CASE n = 3 + d
        BY <1>2, <4>1, <4>3
      <4>4. CASE n \in 3..(2 + d)
        <5>1. PICK k \in 1..d : n = 2 + k
          BY <4>4
        <5>2. l[2 + k] = IF b = <<>> THEN "0" ELSE "1"
          BY <1>2, <4>1, <5>1
        <5> QED
          BY <4>1, <5>1, <5>2
      <4> QED
        BY <2>2, <4>1, <4>2, <4>3, <4>4
    <3> QED
      BY <2>2, <3>1 DEF EndsLine, Last
  <2> QED
    BY <2>1, <2>2
<1>4. ASSUME Len(l) = 4 + d
      PROVE  /\ Trim(l) # <<>> /\ HasColon(Trim(l)) /\ Name(Trim(l)) = <<"L">>
             /\ Name(Trim(l)) # <<"C">>
             /\ IsNumber(Value(Trim(l))) /\ Number(Value(Trim(l))) = Len(b)
  <2> DEFINE t == SubSeq(l, 1, 2 + d)
             v == Value(t)
  <2>1. Trim(l) = t
    <3>1. /\ 2 + d \in 0..Len(l) /\ \A i \in ((2 + d) + 1)..Len(l) : i = 3 + d \/ i = 4 + d
      BY <1>4
    <3>2. l[2 + d] \notin {"r", "n"}
      <4>1. d \in 1..d /\ Len(l) >= 2 + d
        BY <1>4
      <4> QED
        BY <1>2, <4>1
    <3>3. \A i \in ((2 + d) + 1)..Len(l) : l[i] \in {"r", "n"}
      BY <1>2, <1>4, <3>1
    <3> QED
      BY <3>1, <3>2, <3>3, TrimEnds
  <2>2. /\ t \in Seq(Tokens) /\ Len(t) = 2 + d /\ t[1] = "L" /\ t[2] = ":"
        /\ \A k \in 1..d : t[k + 2] = IF b = <<>> THEN "0" ELSE "1"
    <3>1. 1 \in Int /\ 2 + d \in Int /\ \A i \in 1..(2 + d) : l[i] \in Tokens
      BY <1>4
    <3>2. /\ t \in Seq(Tokens) /\ Len(t) = IF 1 <= 2 + d THEN (2 + d) - 1 + 1 ELSE 0
          /\ \A i \in 1..((2 + d) - 1 + 1) : t[i] = l[1 + i - 1]
      BY <3>1, SubSeqProperties
    <3> HIDE DEF t
    <3>3. \A i \in 1..(2 + d) : t[i] = l[i]
      <4> SUFFICES ASSUME NEW i \in 1..(2 + d) PROVE t[i] = l[i]
        OBVIOUS
      <4>1. i \in 1..((2 + d) - 1 + 1) /\ 1 + i - 1 = i
        OBVIOUS
      <4> QED
        BY <3>2, <4>1
    <3>4. ASSUME NEW k \in 1..d PROVE t[k + 2] = IF b = <<>> THEN "0" ELSE "1"
      <4>1. k + 2 \in 1..(2 + d) /\ k + 2 = 2 + k /\ Len(l) >= 2 + k
        BY <1>4
      <4> QED
        BY <1>2, <3>3, <4>1
    <3>5. 1 \in 1..(2 + d) /\ 2 \in 1..(2 + d) /\ Len(l) >= 2
      BY <1>4
    <3>6. t[1] = l[1] /\ t[2] = l[2]
      BY <3>3, <3>5
    <3>7. Len(t) = 2 + d
      BY <3>2
    <3> QED
      BY <1>2, <3>2, <3>4, <3>5, <3>6, <3>7
  <2> HIDE DEF t
  <2>3. /\ HasColon(t) /\ Name(t) = <<"L">> /\ Name(t)[1] = "L"
        /\ v \in Seq(Tokens) /\ Len(v) = d
        /\ \A i \in 1..d : v[i] = IF b = <<>> THEN "0" ELSE "1"
    <3>1. Len(t) >= 2 /\ Len(t) - 2 = d
      BY <2>2
    <3>2. /\ HasColon(t) /\ Name(t) = <<t[1]>> /\ Name(t)[1] = t[1]
          /\ v \in Seq(Tokens) /\ Len(v) = Len(t) - 2
          /\ \A i \in 1..(Len(t) - 2) : v[i] = t[i + 2]
      BY <2>2, <3>1, ColonIs
    <3> QED
      BY <2>2, <3>1, <3>2
  <2>4. Name(t) # <<"C">>
    BY <2>3
  <2>5. t # <<>>
    <3>1. Len(<<>>) = 0 /\ 2 + d # 0
      OBVIOUS
    <3> QED
      BY <2>2, <3>1, Zenon
  <2> HIDE DEF v
  <2>6. v \in Seq({"0", "1"}) /\ v # <<>>
    <3>1. v \in [1..d -> Tokens]
      BY <2>3
    <3>2. v \in [1..d -> {"0", "1"}]
      BY <2>3, <3>1
    <3> QED
      BY <2>3, <3>2
  <2>7. Number(v) = Len(b)
    <3>1. b \in Seq(Tokens) /\ 1 \in 1..d
      BY BodiesAreTokens
    <3>2. CASE b = <<>>
      <4>1. d = 1 /\ Len(b) = 0
        BY <1>1, <3>2 DEF Width
      <4>2. <<"0">> \in Seq({"0", "1"}) /\ Len(<<"0">>) = 1 /\ <<"0">>[1] = "0"
        OBVIOUS
      <4>3. \A i \in 1..1 : v[i] = <<"0">>[i]
        BY <2>3, <3>2, <4>1, <4>2
      <4>4. v = <<"0">>
        BY <2>3, <2>6, <4>1, <4>2, <4>3, SeqEqual
      <4> QED
        BY <4>1, <4>4 DEF Number
    <3>3. CASE b # <<>>
      <4>1. v[1] = "1" /\ d = Len(b)
        BY <1>1, <2>3, <3>1, <3>3 DEF Width
      <4>2. v # <<"0">>
        BY <4>1
      <4> QED
        BY <2>3, <4>1, <4>2 DEF Number
    <3> QED
      BY <3>2, <3>3
  <2> QED
    BY <2>1, <2>3, <2>4, <2>5, <2>6, <2>7 DEF IsNumber, v
<1> QED
  BY <1>1, <1>3, <1>4

(* The empty line behind the headers. *)
LEMMA EmptyLine ==
    ASSUME NEW b \in Bodies, NEW l \in Seq(Tokens), Len(l) \in 1..2,
           \A k \in 1..Len(l) : l[k] = Headers(b)[(13 + Width(b)) + k]
    PROVE  /\ EndsLine(l) <=> Len(l) = 2
           /\ Len(l) = 2 => Trim(l) = <<>>
<1>1. PICK d \in Nat \ {0} : d = Width(b)
  BY HeaderLength
<1>2. l[1] = "r" /\ (Len(l) = 2 => l[2] = "n")
  <2>1. (13 + d) + 1 = 14 + d /\ (13 + d) + 2 = 15 + d
    OBVIOUS
  <2>2. PICK h : h = Headers(b)
    OBVIOUS
  <2>3. \A k \in 1..Len(l) : l[k] = h[(13 + d) + k]
    BY <1>1, <2>2
  <2>4. l[1] = h[(13 + d) + 1] /\ (Len(l) = 2 => l[2] = h[(13 + d) + 2])
    BY <2>3
  <2>5. h[14 + d] = "r" /\ h[15 + d] = "n"
    BY <1>1, <2>2, HeaderTokens DEF LastTokens
  <2> QED
    BY <2>1, <2>4, <2>5
<1>3. EndsLine(l) <=> Len(l) = 2
  BY <1>2 DEF EndsLine, Last
<1>4. ASSUME Len(l) = 2 PROVE Trim(l) = <<>>
  <2>1. 0 \in 0..Len(l) /\ \A i \in (0 + 1)..Len(l) : i = 1 \/ i = 2
    BY <1>4
  <2>2. Trim(l) = SubSeq(l, 1, 0)
    BY <1>2, <1>4, <2>1, TrimEnds
  <2> QED
    BY <2>2, SubSeqEmpty
<1> QED
  BY <1>3, <1>4

Asked == [begin : Nat, body : Bodies]
Request == [at : Nat, len : Nat, body : Seq(Nat)]

(* Where the i-th request ends. *)
Edge(i) == IF i = 0 THEN 0 ELSE msgs[i].begin + HeaderLen(msgs[i].body) + Len(msgs[i].body)

(* The text is the requests, one behind the other. *)
Layout ==
    /\ kind \in {"control", "event"} /\ msgs \in Seq(Asked) /\ line \in Seq(Tokens)
    /\ \A i \in 1..Len(msgs) :
          /\ msgs[i].begin = Edge(i - 1) /\ Edge(i) <= Len(text)
          /\ \A k \in 1..HeaderLen(msgs[i].body) :
                text[msgs[i].begin + k] = Headers(msgs[i].body)[k]
    /\ Len(text) = Edge(Len(msgs)) /\ up.written <= Len(text)

(* Where the request begins that the server reads, how far it has read it, and which *)
(* it is.                                                                            *)
Start == Edge(Len(served))
Pos == Len(up.got) - Start
Current == msgs[Len(served) + 1]

(* The line is the text read last. *)
InLine == \A i \in 1..Len(line) : line[i] = text[Len(up.got) - Len(line) + i]

AtRequest ==
    /\ Pos \in 0..3 /\ Len(line) = Pos /\ req = Fresh
    /\ Pos > 0 => Len(served) < Len(msgs)

AtCSeq == Pos \in 4..8 /\ Len(line) = Pos - 4 /\ req = Fresh

AtLength ==
    /\ Pos \in 9..(12 + Width(Current.body)) /\ Len(line) = Pos - 9
    /\ req = [at |-> Current.begin + 9, len |-> 0, body |-> <<>>]

AtEmpty ==
    /\ Pos \in {13 + Width(Current.body), 14 + Width(Current.body)}
    /\ Len(line) = Pos - (13 + Width(Current.body))
    /\ req = [at |-> Current.begin + 9, len |-> Len(Current.body), body |-> <<>>]
    /\ kind = "event" => Len(Current.body) <= BodyLimit

AtHeaders == Len(served) < Len(msgs) /\ (AtCSeq \/ AtLength \/ AtEmpty)

AtBody ==
    /\ Len(served) < Len(msgs)
    /\ req.at = Current.begin + 9 /\ req.len = Len(Current.body)
    /\ Pos = HeaderLen(Current.body) + Len(req.body)
    /\ \A k \in 1..Len(req.body) : req.body[k] = Current.begin + HeaderLen(Current.body) + k

(* What the phase and req say of the text that has been read. *)
Stands ==
    /\ phase = "request" => AtRequest
    /\ phase = "headers" => AtHeaders
    /\ phase = "body" => AtBody
    /\ phase = "answer" => Pos = 0 /\ line = <<>> /\ req = Fresh
    /\ phase \in {"request", "headers"} => InLine

(* Until a request is cut, the server knows where it stands, and serves what was sent. *)
Parsed ==
    ~damaged =>
        /\ served \in Seq(Request) /\ ServedAsSent
        /\ gone => kind = "event" /\ phase \in {"answer", "request", "ended"}
        /\ ~gone => Stands

SInv == IInv /\ Layout /\ Parsed
--------------------------------------------------------------------------------
LEMMA EdgeIsNat ==
    ASSUME msgs \in Seq(Asked)
    PROVE  /\ Len(msgs) \in Nat
           /\ \A i \in 0..Len(msgs) : Edge(i) \in Nat
           /\ \A i \in 1..Len(msgs) :
                 /\ msgs[i].begin \in Nat /\ msgs[i].body \in Bodies
                 /\ HeaderLen(msgs[i].body) \in Nat /\ Len(msgs[i].body) \in Nat
                 /\ msgs[i].body \in Seq(Tokens)
<1>1. Len(msgs) \in Nat
  OBVIOUS
<1>2. ASSUME NEW i \in 1..Len(msgs)
      PROVE  /\ msgs[i].begin \in Nat /\ msgs[i].body \in Bodies
             /\ HeaderLen(msgs[i].body) \in Nat /\ Len(msgs[i].body) \in Nat
             /\ msgs[i].body \in Seq(Tokens)
  <2>1. msgs[i] \in Asked
    BY ElementOfSeq
  <2>2. PICK b \in Bodies : b = msgs[i].body
    BY <2>1 DEF Asked
  <2>3. HeaderLen(b) \in Nat
    BY HeaderLength
  <2>4. b \in Seq(Tokens)
    BY BodiesAreTokens
  <2>5. Len(b) \in Nat
    BY <2>4
  <2> QED
    BY <2>1, <2>2, <2>3, <2>4, <2>5 DEF Asked
<1>3. ASSUME NEW i \in 0..Len(msgs) PROVE Edge(i) \in Nat
  <2>1. CASE i = 0
    BY <2>1 DEF Edge
  <2>2. CASE i # 0
    <3>1. i \in 1..Len(msgs)
      BY <1>1, <2>2
    <3> QED
      BY <1>2, <2>2, <3>1 DEF Edge
  <2> QED
    BY <2>1, <2>2
<1> QED
  BY <1>1, <1>2, <1>3

(* What was handed out was written. *)
LEMMA GotIsWritten ==
    ASSUME P!IInv
    PROVE  /\ up.got \in Seq(Nat) /\ Len(up.got) \in Nat /\ up.written \in Nat
           /\ Len(up.got) <= up.written /\ \A i \in 1..Len(up.got) : up.got[i] = i
<1>1. /\ up.got \in Seq(Nat) /\ Len(up.got) \in Nat /\ up.written \in Nat
      /\ up.wire \in Seq(P!Frame) /\ up.buf \in P!Part
  BY DEF P!IInv, P!TypeOK
<1>2. P!Behind <= up.written + 1 /\ P!Behind \in Int
  <2>1. CASE up.wire = <<>>
    BY <1>1, <2>1 DEF P!Behind
  <2>2. CASE up.wire # <<>>
    <3>1. 1 \in 1..Len(up.wire) /\ up.wire[1] \in P!Frame
      BY <1>1, <2>2
    <3>2. up.wire[1].first <= up.wire[1].last /\ up.wire[1].last <= up.written
      BY <3>1 DEF P!IInv, P!Wire
    <3> QED
      BY <1>1, <2>2, <3>1, <3>2 DEF P!Behind, P!Frame
  <2> QED
    BY <2>1, <2>2
<1>3. /\ up.buf.first = Len(up.got) + 1 /\ up.buf.last + 1 = P!Behind
      /\ up.buf.first <= up.buf.last + 1
      /\ up.buf.first \in Nat /\ up.buf.last \in Nat
      /\ \A i \in 1..Len(up.got) : up.got[i] = i
  BY <1>1 DEF P!IInv, P!InOrder, P!Part
<1> QED
  BY <1>1, <1>2, <1>3

(* The request the server reads, where there is one. *)
LEMMA CurrentIs ==
    ASSUME Layout, Len(served) \in Nat, Len(served) < Len(msgs)
    PROVE  /\ Current.begin = Start /\ Start \in Nat /\ Current.body \in Bodies
           /\ HeaderLen(Current.body) \in Nat /\ Len(Current.body) \in Nat
           /\ Current.body \in Seq(Tokens)
           /\ \A k \in 1..HeaderLen(Current.body) :
                 text[Start + k] = Headers(Current.body)[k]
           /\ Edge(Len(served) + 1) = Start + HeaderLen(Current.body) + Len(Current.body)
<1>1. msgs \in Seq(Asked)
  BY DEF Layout
<1>2. PICK i \in 1..Len(msgs) : i = Len(served) + 1 /\ i - 1 = Len(served) /\ i # 0
  BY <1>1, EdgeIsNat
<1>3. /\ msgs[i].begin = Edge(i - 1)
      /\ \A k \in 1..HeaderLen(msgs[i].body) :
            text[msgs[i].begin + k] = Headers(msgs[i].body)[k]
  BY DEF Layout
<1>4. Current = msgs[i] /\ Start = Edge(i - 1)
  BY <1>2 DEF Current, Start
<1>5. Edge(i) = msgs[i].begin + HeaderLen(msgs[i].body) + Len(msgs[i].body)
  BY <1>2 DEF Edge
<1>6. /\ msgs[i].begin \in Nat /\ msgs[i].body \in Bodies
      /\ HeaderLen(msgs[i].body) \in Nat /\ Len(msgs[i].body) \in Nat
      /\ msgs[i].body \in Seq(Tokens)
  BY <1>1, EdgeIsNat
<1> QED
  BY <1>2, <1>3, <1>4, <1>5, <1>6

(* Requests that were served had been sent. *)
LEMMA ServedAreAsked ==
    ASSUME ~damaged, served \in Seq(Request), ServedAsSent, msgs \in Seq(Asked)
    PROVE  Len(served) \in 0..Len(msgs)
<1>1. Len(served) \in Nat /\ Len(msgs) \in Nat
  OBVIOUS
<1>2. CASE Len(served) = 0
  BY <1>1, <1>2
<1>3. CASE Len(served) # 0
  <2>1. Len(served) \in DOMAIN served
    BY <1>1, <1>3
  <2> QED
    BY <1>1, <2>1 DEF ServedAsSent
<1> QED
  BY <1>2, <1>3
--------------------------------------------------------------------------------
(* The k-th of n places behind a, with m more behind them. *)
LEMMA Between ==
    ASSUME NEW a \in Nat, NEW n \in Nat, NEW m \in Nat, NEW l \in Nat, a + n + m <= l, NEW k \in 1..n
    PROVE  a + k \in 1..l
  OBVIOUS

(* A request that is asked is put behind the others. *)
LEMMA AskLays ==
    ASSUME IInv, Layout, NEW body \in Bodies, Ask(body)
    PROVE  /\ Layout' /\ Len(msgs') = Len(msgs) + 1
           /\ \A i \in 1..Len(msgs) : msgs'[i] = msgs[i]
           /\ \A k \in 1..Len(text) : text'[k] = text[k]
<1> DEFINE m == [begin |-> Len(text), body |-> body]
<1>1. /\ msgs \in Seq(Asked) /\ text \in Seq(Tokens) /\ Len(text) \in Nat
      /\ Len(text) = Edge(Len(msgs)) /\ Len(msgs) \in Nat
  BY EdgeIsNat DEF Layout, IInv
<1>2. m \in Asked /\ m.begin = Len(text) /\ m.body = body
  BY <1>1 DEF Asked
<1>3. msgs' = Append(msgs, m) /\ text' = text \o Headers(body) \o body
      /\ up' = up /\ line' = line /\ up.written = Len(text)
  BY DEF Ask, server
<1> HIDE DEF m
<1>4. /\ msgs' \in Seq(Asked) /\ Len(msgs') = Len(msgs) + 1
      /\ \A i \in 1..Len(msgs) : msgs'[i] = msgs[i]
      /\ msgs'[Len(msgs) + 1] = m
  BY <1>1, <1>2, <1>3, AppendProperties
<1>5. /\ Headers(body) \in Seq(Tokens) /\ body \in Seq(Tokens) /\ Len(body) \in Nat
      /\ HeaderLen(body) \in Nat
  <2>1. body \in Seq(Tokens)
    BY BodiesAreTokens
  <2> QED
    BY <2>1, HeaderLength
<1>6. /\ Len(text') = Len(text) + HeaderLen(body) + Len(body)
      /\ \A k \in 1..Len(text) : text'[k] = text[k]
      /\ \A k \in 1..HeaderLen(body) : text'[Len(text) + k] = Headers(body)[k]
  <2> DEFINE t == text \o Headers(body)
  <2>1. PICK h \in Seq(Tokens) : h = Headers(body) /\ Len(h) = HeaderLen(body)
    BY <1>5 DEF HeaderLen
  <2>2. ASSUME NEW x \in Seq(Tokens), NEW y \in Seq(Tokens)
        PROVE  /\ x \o y \in Seq(Tokens) /\ Len(x \o y) = Len(x) + Len(y)
               /\ \A k \in 1..Len(x) : (x \o y)[k] = x[k]
               /\ \A k \in 1..Len(y) : (x \o y)[Len(x) + k] = y[k]
    <3>1. PICK p \in Nat, q \in Nat : p = Len(x) /\ q = Len(y)
      OBVIOUS
    <3>2. /\ x \o y \in Seq(Tokens) /\ Len(x \o y) = Len(x) + Len(y)
          /\ \A k \in 1..(Len(x) + Len(y)) : (x \o y)[k] = IF k <= Len(x) THEN x[k] ELSE y[k - Len(x)]
      BY ConcatProperties
    <3>3. ASSUME NEW k \in 1..Len(x) PROVE (x \o y)[k] = x[k]
      BY <3>1, <3>2
    <3>4. ASSUME NEW k \in 1..Len(y) PROVE (x \o y)[Len(x) + k] = y[k]
      <4>1. p + k \in 1..(p + q) /\ ~(p + k <= p) /\ (p + k) - p = k
        BY <3>1
      <4> QED
        BY <3>1, <3>2, <4>1
    <3> QED
      BY <3>2, <3>3, <3>4
  <2>3. /\ t \in Seq(Tokens) /\ Len(t) = Len(text) + Len(h)
        /\ \A k \in 1..Len(text) : t[k] = text[k]
        /\ \A k \in 1..Len(h) : t[Len(text) + k] = h[k]
    BY <1>1, <2>1, <2>2, Zenon
  <2> HIDE DEF t
  <2>4. /\ Len(t \o body) = Len(t) + Len(body)
        /\ \A k \in 1..Len(t) : (t \o body)[k] = t[k]
    BY <1>5, <2>2, <2>3
  <2>5. text' = t \o body
    BY <1>3 DEF t
  <2>6. ASSUME NEW k \in 1..Len(text) PROVE text'[k] = text[k]
    <3>1. k \in 1..Len(t)
      BY <1>1, <1>5, <2>1, <2>3
    <3> QED
      BY <2>3, <2>4, <2>5, <3>1
  <2>7. ASSUME NEW k \in 1..HeaderLen(body) PROVE text'[Len(text) + k] = Headers(body)[k]
    <3>1. Len(text) + k \in 1..Len(t) /\ k \in 1..Len(h)
      BY <1>1, <1>5, <2>1, <2>3
    <3> QED
      BY <2>1, <2>3, <2>4, <2>5, <3>1
  <2> QED
    BY <1>1, <1>5, <2>1, <2>3, <2>4, <2>5, <2>6, <2>7
<1>7. PICK n \in Nat : n = Len(msgs)
  BY <1>1
<1>8. ASSUME NEW i \in 0..n PROVE Edge(i)' = Edge(i)
  BY <1>4, <1>7 DEF Edge
<1>9. Edge(n + 1)' = Len(text') /\ n + 1 # 0
  <2>1. n + 1 # 0
    OBVIOUS
  <2> QED
    BY <1>2, <1>4, <1>6, <1>7, <2>1 DEF Edge
<1>10. ASSUME NEW i \in 1..(n + 1)
       PROVE  /\ msgs'[i].begin = Edge(i - 1)' /\ Edge(i)' <= Len(text')
              /\ \A k \in 1..HeaderLen(msgs'[i].body) :
                    text'[msgs'[i].begin + k] = Headers(msgs'[i].body)[k]
  <2>1. CASE i \in 1..n
    <3>1. i - 1 \in 0..n /\ i \in 0..n
      BY <2>1
    <3>2. /\ msgs[i].begin = Edge(i - 1) /\ Edge(i) <= Len(text)
          /\ \A k \in 1..HeaderLen(msgs[i].body) :
                text[msgs[i].begin + k] = Headers(msgs[i].body)[k]
      BY <1>7, <2>1 DEF Layout
    <3>3. /\ msgs[i].begin \in Nat /\ HeaderLen(msgs[i].body) \in Nat
          /\ Len(msgs[i].body) \in Nat
          /\ Edge(i) = msgs[i].begin + HeaderLen(msgs[i].body) + Len(msgs[i].body)
      <4>1. i # 0
        BY <2>1
      <4> QED
        BY <1>1, <1>7, <2>1, <4>1, EdgeIsNat DEF Edge
    <3>4. ASSUME NEW k \in 1..HeaderLen(msgs[i].body)
          PROVE  text'[msgs[i].begin + k] = text[msgs[i].begin + k]
      <4>1. msgs[i].begin + HeaderLen(msgs[i].body) + Len(msgs[i].body) <= Len(text)
        BY <3>2, <3>3
      <4>2. msgs[i].begin + k \in 1..Len(text)
        BY <1>1, <3>3, <4>1, Between, Zenon
      <4> QED
        BY <1>6, <4>2
    <3>5. Edge(i)' <= Len(text')
      <4>1. Edge(i)' = Edge(i) /\ Edge(i) <= Len(text) /\ Edge(i) \in Nat
        BY <1>8, <3>1, <3>2, <3>3
      <4>2. Len(text) <= Len(text') /\ Len(text') \in Nat
        BY <1>1, <1>5, <1>6
      <4> QED
        BY <1>1, <4>1, <4>2
    <3> QED
      BY <1>4, <1>7, <1>8, <2>1, <3>1, <3>2, <3>4, <3>5
  <2>2. CASE i = n + 1
    <3>1. i - 1 = n /\ n \in 0..n
      BY <2>2
    <3>2. msgs'[i] = m
      BY <1>4, <1>7, <2>2
    <3>3. msgs'[i].begin = Edge(i - 1)'
      BY <1>1, <1>2, <1>7, <1>8, <3>1, <3>2
    <3>4. Edge(i)' <= Len(text')
      BY <1>1, <1>5, <1>6, <1>9, <2>2
    <3> QED
      BY <1>2, <1>6, <3>2, <3>3, <3>4
  <2> QED
    BY <2>1, <2>2
<1>11. Len(text') = (Edge(Len(msgs)))'
  <2>1. Len(msgs') = n + 1
    BY <1>4, <1>7
  <2>2. PICK j : j = n + 1
    OBVIOUS
  <2>3. Len(text') = Edge(j)' /\ Len(msgs') = j
    BY <1>9, <2>1, <2>2
  <2> QED
    BY <2>3 DEF Edge
<1>12. up'.written <= Len(text') /\ line' \in Seq(Tokens)
  BY <1>1, <1>3, <1>5, <1>6 DEF Layout
<1>13. kind' \in {"control", "event"}
  BY DEF Ask, Layout
<1> QED
  BY <1>4, <1>6, <1>7, <1>10, <1>11, <1>12, <1>13 DEF Layout

(* No request has been cut, and the peer is there. *)
Here == ~damaged /\ ~gone /\ served \in Seq(Request) /\ ServedAsSent /\ Stands

LEMMA HereIs == Parsed /\ ~damaged /\ ~gone => Here
  BY DEF Parsed, Here

LEMMA LayoutStays ==
    ASSUME Layout, UNCHANGED <<kind, msgs, text>>, line' \in Seq(Tokens), up'.written <= Len(text)
    PROVE  Layout'
  BY DEF Layout, Edge

(* A step that serves nothing. *)
LEMMA NotServed ==
    ASSUME Here, UNCHANGED <<served, msgs, gone>>
    PROVE  /\ Start' = Start /\ Current' = Current
           /\ Stands' => Parsed'
<1>1. Start' = Start /\ Current' = Current
  BY DEF Start, Current, Edge
<1>2. ServedAsSent'
  BY DEF Here, ServedAsSent, Sent
<1> QED
  BY <1>1, <1>2 DEF Here, Parsed

(* A request is served as it was sent. *)
LEMMA ServeSent ==
    ASSUME Layout, Here, Len(served) < Len(msgs), UNCHANGED <<msgs, gone>>,
           NEW r \in Request, Serve(r),
           r.at = Current.begin + 9, r.len = Len(Current.body), Len(r.body) = Len(Current.body),
           \A k \in 1..Len(r.body) : r.body[k] = Current.begin + HeaderLen(Current.body) + k,
           Len(up'.got) = Start + HeaderLen(Current.body) + Len(Current.body)
    PROVE  Parsed'
<1>1. /\ served' = Append(served, r) /\ phase' = "answer" /\ line' = <<>> /\ req' = Fresh
  BY DEF Serve
<1>2. PICK n \in Nat : n = Len(served)
  BY DEF Here
<1>3. /\ served \in Seq(Request) /\ served' \in Seq(Request) /\ Len(served') = n + 1
      /\ \A i \in 1..n : served'[i] = served[i]
      /\ served'[n + 1] = r
  BY <1>1, <1>2, AppendProperties DEF Here
<1>4. PICK j \in 1..Len(msgs) : j = n + 1
  <2>1. msgs \in Seq(Asked)
    BY DEF Layout
  <2> QED
    BY <1>2, <2>1, EdgeIsNat
<1>5. Current = msgs[j]
  BY <1>2, <1>4 DEF Current
<1>6. r = Sent(j)
  <2>1. PICK b \in Seq(Tokens) : b = Current.body
    BY <1>2, CurrentIs
  <2>2. PICK e \in Nat : e = Current.begin + HeaderLen(b)
    BY <1>2, <2>1, CurrentIs
  <2>3. PICK l \in Nat : l = Len(b)
    BY <2>1
  <2>4. r.body \in Seq(Nat) /\ Len(r.body) = l /\ \A k \in 1..l : r.body[k] = e + k
    BY <2>1, <2>2, <2>3 DEF Request
  <2>5. [k \in 1..l |-> e + k] \in Seq(Nat) /\ Len([k \in 1..l |-> e + k]) = l
    OBVIOUS
  <2>6. r.body = [k \in 1..l |-> e + k]
    <3> DEFINE z == [k \in 1..l |-> e + k]
    <3>1. z \in Seq(Nat) /\ Len(z) = l /\ \A k \in 1..l : z[k] = e + k
      BY <2>5
    <3> HIDE DEF z
    <3>2. \A k \in 1..l : r.body[k] = z[k]
      BY <2>4, <3>1
    <3>3. r.body = z
      BY <2>4, <3>1, <3>2, SeqEqual
    <3> QED
      BY <3>3 DEF z
  <2>7. Sent(j) = [at |-> Current.begin + 9, len |-> l, body |-> [k \in 1..l |-> e + k]]
    <3>1. DOMAIN b = 1..l
      BY <2>3
    <3> QED
      BY <1>5, <2>1, <2>2, <2>3, <3>1 DEF Sent, HeaderLen
  <2>8. r = [at |-> r.at, len |-> r.len, body |-> r.body]
    BY DEF Request
  <2> QED
    BY <2>1, <2>3, <2>6, <2>7, <2>8
<1>7. \A i : Sent(i)' = Sent(i)
  BY DEF Sent
<1>8. ServedAsSent'
  <2> SUFFICES ASSUME NEW i \in 1..(n + 1)
               PROVE  i <= Len(msgs) /\ served'[i] = Sent(i)
    BY <1>3, <1>7 DEF ServedAsSent
  <2>1. CASE i = n + 1
    BY <1>3, <1>4, <1>6, <2>1
  <2>2. CASE i # n + 1
    <3>1. i \in 1..n /\ i \in DOMAIN served
      BY <1>2, <1>3, <2>2
    <3> QED
      BY <1>3, <3>1 DEF Here, ServedAsSent
  <2> QED
    BY <2>1, <2>2
<1>9. Start' = Len(up'.got)
  <2>1. Edge(j) = Len(up'.got)
    BY <1>2, <1>4, CurrentIs
  <2>2. Len(served') = j /\ j # 0
    BY <1>3, <1>4
  <2> QED
    BY <2>1, <2>2 DEF Start, Edge
<1>10. Pos' = 0
  <2>1. Len(up'.got) \in Int
    BY <1>2, CurrentIs
  <2> QED
    BY <1>9, <2>1 DEF Pos
<1>11. Stands'
  BY <1>1, <1>10 DEF Stands
<1> QED
  BY <1>3, <1>8, <1>11 DEF Parsed, Here
--------------------------------------------------------------------------------
(* A read hands out what is behind what was handed out, from the text. *)
LEMMA ReadOfText ==
    ASSUME IInv, Layout, NEW max \in Nat \ {0}, Up!Read(max)
    PROVE  /\ P!IInv' /\ Len(up.got) \in Nat /\ Len(up'.got) \in Nat
           /\ up'.got \in Seq(Nat)
           /\ Len(up.got) < Len(up'.got) /\ Len(up'.got) <= Len(up.got) + max
           /\ \A i \in 1..Len(up'.got) : up'.got[i] = i
           /\ up'.written = up.written
           /\ Len(up'.got) <= Len(text) /\ Len(text) \in Nat
<1>1. P!IInv
  BY DEF IInv
<1>2. P!Read(max)
  BY SameActions
<1>3. P!IInv'
  <2>1. [P!Next]_up
    BY <1>2 DEF P!Next
  <2> QED
    BY <1>1, <2>1, P!StepInv
<1>4. /\ Len(up.got) < Len(up'.got) /\ Len(up'.got) <= Len(up.got) + max
  BY <1>1, ReadTakes
<1>5. up'.written = up.written
  <2>1. up' = [up EXCEPT !.buf = up'.buf, !.wire = up'.wire, !.rn = up'.rn, !.got = up'.got]
    BY <1>1, <1>2 DEF P!Read, P!Hand, P!IInv, P!TypeOK
  <2> QED
    BY <1>1, <2>1 DEF P!IInv, P!TypeOK
<1>6. Len(up.got) \in Nat
  BY <1>1, GotIsWritten
<1>7. /\ up'.got \in Seq(Nat) /\ Len(up'.got) \in Nat /\ up'.written \in Nat
      /\ Len(up'.got) <= up'.written /\ \A i \in 1..Len(up'.got) : up'.got[i] = i
  <2>1. (P!IInv => /\ up.got \in Seq(Nat) /\ Len(up.got) \in Nat /\ up.written \in Nat
                   /\ Len(up.got) <= up.written /\ \A i \in 1..Len(up.got) : up.got[i] = i)'
    BY GotIsWritten, PTL
  <2> QED
    BY <1>3, <2>1
<1>8. up.written <= Len(text) /\ Len(text) \in Nat
  BY DEF Layout, IInv
<1> QED
  BY <1>3, <1>4, <1>5, <1>6, <1>7, <1>8

Seen == Append(line, text[ByteRead])

(* The byte read is the next of the request that the server reads, and the line with *)
(* it is that of the text.                                                           *)
LEMMA ByteIsNext ==
    ASSUME IInv, Layout, Here, ReadByte, Pos \in Nat, InLine, Len(line) <= Pos
    PROVE  /\ Len(served) \in Nat /\ Len(served) < Len(msgs)
           /\ Len(up.got) = Start + Pos /\ Start \in Nat
           /\ Len(up'.got) = Start + (Pos + 1) /\ ByteRead = Start + (Pos + 1)
           /\ Seen \in Seq(Tokens) /\ Len(Seen) = Len(line) + 1
           /\ line \in Seq(Tokens) /\ text \in Seq(Tokens)
           /\ \A k \in 1..Len(Seen) : Seen[k] = text[Start + (Pos + 1) - Len(Seen) + k]
<1>1. /\ Len(up'.got) = Len(up.got) + 1 /\ Len(up.got) \in Nat
      /\ Len(up'.got) \in Nat /\ Len(up'.got) \in 1..Len(up'.got)
      /\ up'.got[Len(up'.got)] = Len(up'.got) /\ Len(up'.got) <= Len(text)
      /\ Len(text) \in Nat
  <2>1. 1 \in Nat \ {0} /\ Up!Read(1)
    BY DEF ReadByte
  <2>2. /\ Len(up.got) \in Nat /\ Len(up'.got) \in Nat
        /\ Len(up.got) < Len(up'.got) /\ Len(up'.got) <= Len(up.got) + 1
        /\ \A i \in 1..Len(up'.got) : up'.got[i] = i
        /\ Len(up'.got) <= Len(text) /\ Len(text) \in Nat
    BY <2>1, ReadOfText
  <2> QED
    BY <2>2
<1>2. msgs \in Seq(Asked) /\ line \in Seq(Tokens) /\ text \in Seq(Tokens)
  BY DEF Layout, IInv
<1>3. Len(served) \in 0..Len(msgs) /\ Len(msgs) \in Nat
  BY <1>2, ServedAreAsked, EdgeIsNat DEF Here
<1>4. Start \in Nat
  <2>1. PICK n \in 0..Len(msgs) : n = Len(served)
    BY <1>3
  <2> QED
    BY <1>2, <2>1, EdgeIsNat DEF Start
<1>5. Len(up.got) = Start + Pos
  BY <1>1, <1>4 DEF Pos
<1>6. Len(served) < Len(msgs)
  <2> SUFFICES ASSUME Len(served) = Len(msgs) PROVE FALSE
    BY <1>3
  <2>1. Start = Len(text)
    BY DEF Layout, Start
  <2> QED
    BY <1>1, <1>4, <1>5, <2>1
<1>7. ByteRead = Len(up'.got)
  BY <1>1 DEF ByteRead, Last
<1>8. PICK q \in 1..Len(text) : q = ByteRead /\ q = Start + (Pos + 1)
  BY <1>1, <1>4, <1>5, <1>7
<1>9. text[q] \in Tokens
  BY <1>2
<1>10. PICK n \in Nat : n = Len(line)
  BY <1>2
<1>11. /\ Seen \in Seq(Tokens) /\ Len(Seen) = n + 1
       /\ \A k \in 1..n : Seen[k] = line[k]
       /\ Seen[n + 1] = text[q]
  <2>1. Seen = Append(line, text[q])
    BY <1>8 DEF Seen
  <2> QED
    BY <1>2, <1>9, <1>10, <2>1, AppendProperties
<1>12. ASSUME NEW k \in 1..(n + 1)
       PROVE  Seen[k] = text[q - (n + 1) + k]
  <2>1. CASE k = n + 1
    <3>1. q - (n + 1) + k = q
      BY <2>1
    <3> QED
      BY <1>11, <2>1, <3>1
  <2>2. CASE k # n + 1
    <3>1. PICK g \in Nat : g = Len(up.got)
      BY <1>1
    <3>2. k \in 1..n /\ q - (n + 1) + k = Len(up.got) - n + k
      <4>1. q = g + 1
        BY <1>4, <1>5, <1>8, <3>1
      <4>2. k \in 1..n
        BY <2>2
      <4> QED
        BY <3>1, <4>1, <4>2
    <3>3. line[k] = text[Len(up.got) - n + k]
      BY <1>10, <3>2 DEF InLine
    <3> QED
      BY <1>11, <3>2, <3>3
  <2> QED
    BY <2>1, <2>2
<1>13. Len(up'.got) = Start + (Pos + 1) /\ ByteRead = Start + (Pos + 1)
  BY <1>7, <1>8
<1>14. Len(Seen) = Len(line) + 1 /\ \A k \in 1..Len(Seen) : Seen[k] = text[Start + (Pos + 1) - Len(Seen) + k]
  <2>1. PICK s : s = Seen
    OBVIOUS
  <2>2. Len(s) = n + 1
    BY <1>11, <2>1
  <2>3. ASSUME NEW k \in 1..(n + 1) PROVE s[k] = text[Start + (Pos + 1) - (n + 1) + k]
    <3>1. s[k] = text[q - (n + 1) + k]
      BY <1>12, <2>1
    <3>2. q - (n + 1) + k = Start + (Pos + 1) - (n + 1) + k
      BY <1>4, <1>8
    <3> QED
      BY <3>1, <3>2, Zenon
  <2>4. \A k \in 1..Len(s) : s[k] = text[Start + (Pos + 1) - Len(s) + k]
    BY <2>2, <2>3
  <2> QED
    BY <1>10, <2>1, <2>2, <2>4
<1>15. Len(served) \in Nat
  BY <1>3
<1> QED
  BY <1>2, <1>4, <1>5, <1>6, <1>11, <1>13, <1>14, <1>15

(* A line that begins at a place of the header goes on with the header. *)
LEMMA SeenIsHeader ==
    ASSUME IInv, Layout, Here, ReadByte, Pos \in Nat, InLine,
           NEW a \in Nat, a <= Pos, Len(line) = Pos - a, Pos + 1 <= HeaderLen(Current.body)
    PROVE  /\ Seen \in Seq(Tokens) /\ Len(Seen) = (Pos + 1) - a
           /\ \A k \in 1..Len(Seen) : Seen[k] = Headers(Current.body)[a + k]
<1>1. Len(line) <= Pos
  OBVIOUS
<1>2. /\ Len(served) \in Nat /\ Len(served) < Len(msgs)
      /\ Start \in Nat /\ Seen \in Seq(Tokens) /\ Len(Seen) = Len(line) + 1
      /\ \A k \in 1..Len(Seen) : Seen[k] = text[Start + (Pos + 1) - Len(Seen) + k]
  BY <1>1, ByteIsNext
<1>3. PICK n \in Nat : n = Len(Seen) /\ n = (Pos + 1) - a
  BY <1>2
<1>4. /\ HeaderLen(Current.body) \in Nat
      /\ \A k \in 1..HeaderLen(Current.body) : text[Start + k] = Headers(Current.body)[k]
  BY <1>2, CurrentIs
<1>5. ASSUME NEW k \in 1..n
      PROVE  Seen[k] = Headers(Current.body)[a + k]
  <2>1. /\ a + k \in 1..HeaderLen(Current.body)
        /\ Start + (Pos + 1) - n + k = Start + (a + k)
    BY <1>2, <1>3, <1>4
  <2>2. Seen[k] = text[Start + (Pos + 1) - n + k]
    BY <1>2, <1>3
  <2>3. text[Start + (a + k)] = Headers(Current.body)[a + k]
    BY <1>4, <2>1, Zenon
  <2> QED
    BY <2>1, <2>2, <2>3, Zenon
<1> QED
  BY <1>2, <1>3, <1>5

LEMMA LineGoesOn ==
    ASSUME ReadByte
    PROVE  /\ ~gone /\ phase \in {"request", "headers"}
           /\ UNCHANGED <<kind, msgs, text, gone>>
           /\ EndsLine(Seen) => TakeLine(Trim(Seen), damaged)
           /\ ~EndsLine(Seen) => line' = Seen /\ UNCHANGED <<phase, req, served, damaged>>
  BY DEF ReadByte, Seen, client

(* Where the server stands behind a byte of a request it has not served. *)
LEMMA ByteMoves ==
    ASSUME IInv, Layout, Here, ReadByte, Pos \in Nat, InLine, Len(line) <= Pos,
           served' = served
    PROVE  /\ Pos' = Pos + 1 /\ Current' = Current /\ Len(served') < Len(msgs')
           /\ line' = Seen \/ line' = <<>> => InLine'
           /\ Stands' => Parsed'
<1>1. /\ Len(served) < Len(msgs) /\ Len(up'.got) = Start + (Pos + 1) /\ Start \in Nat
      /\ Seen \in Seq(Tokens)
      /\ \A k \in 1..Len(Seen) : Seen[k] = text[Start + (Pos + 1) - Len(Seen) + k]
  BY ByteIsNext
<1>2. UNCHANGED <<msgs, text, gone>>
  BY LineGoesOn
<1>3. Start' = Start /\ Current' = Current /\ (Stands' => Parsed')
  BY <1>2, NotServed
<1>4. Pos' = Pos + 1
  BY <1>1, <1>3 DEF Pos
<1>5. ASSUME line' = Seen PROVE InLine'
  BY <1>1, <1>2, <1>5 DEF InLine
<1>6. ASSUME line' = <<>> PROVE InLine'
  BY <1>6 DEF InLine
<1> QED
  BY <1>1, <1>2, <1>3, <1>4, <1>5, <1>6

(* The first line. *)
LEMMA FirstRead ==
    ASSUME IInv, Layout, Here, ReadByte, phase = "request"
    PROVE  Parsed'
<1>1. Pos \in 0..3 /\ Len(line) = Pos /\ req = Fresh /\ InLine
  BY DEF Here, Stands, AtRequest
<1>2. Pos \in Nat /\ Len(line) <= Pos /\ Len(line) = Pos - 0
  BY <1>1
<1>3. /\ Len(served) \in Nat /\ Len(served) < Len(msgs)
  BY <1>1, <1>2, ByteIsNext
<1>4. PICK b \in Bodies : b = Current.body
  BY <1>3, CurrentIs
<1>5. Pos + 1 <= HeaderLen(b)
  BY <1>1, HeaderLength
<1>6. /\ Seen \in Seq(Tokens) /\ Len(Seen) = (Pos + 1) - 0
      /\ \A k \in 1..Len(Seen) : Seen[k] = Headers(b)[0 + k]
  <2>1. 0 \in Nat /\ 0 <= Pos
    BY <1>1
  <2> QED
    BY <1>1, <1>2, <1>4, <1>5, <2>1, SeenIsHeader
<1>7. /\ Len(Seen) = Pos + 1 /\ Len(Seen) \in 1..4
      /\ \A k \in 1..Len(Seen) : Seen[k] = Headers(b)[k]
  BY <1>1, <1>6
<1>8. /\ EndsLine(Seen) <=> Pos + 1 = 4
      /\ Pos + 1 = 4 => IsRequest(Trim(Seen))
  BY <1>6, <1>7, FirstLine
<1>9. CASE Pos + 1 = 4
  <2>1. /\ phase' = "headers" /\ line' = <<>> /\ req' = req /\ served' = served
    BY <1>8, <1>9, LineGoesOn DEF TakeLine
  <2>2. /\ Pos' = 4 /\ Len(served') < Len(msgs') /\ InLine' /\ (Stands' => Parsed')
    BY <1>1, <1>2, <1>9, <2>1, ByteMoves
  <2>3. AtCSeq'
    BY <1>1, <2>1, <2>2 DEF AtCSeq, Fresh
  <2> QED
    BY <2>1, <2>2, <2>3 DEF Stands, AtHeaders
<1>10. CASE Pos + 1 # 4
  <2>1. /\ phase' = "request" /\ line' = Seen /\ req' = req /\ served' = served
    BY <1>8, <1>10, LineGoesOn
  <2>2. /\ Pos' = Pos + 1 /\ Len(served') < Len(msgs') /\ InLine' /\ (Stands' => Parsed')
    BY <1>1, <1>2, <2>1, ByteMoves
  <2>3. AtRequest'
    BY <1>1, <1>7, <1>10, <2>1, <2>2 DEF AtRequest, Fresh
  <2> QED
    BY <2>1, <2>2, <2>3 DEF Stands
<1> QED
  BY <1>9, <1>10

(* The line of the CSeq. *)
LEMMA CSeqRead ==
    ASSUME IInv, Layout, Here, ReadByte, phase = "headers", AtCSeq
    PROVE  Parsed'
<1>1. Pos \in 4..8 /\ Len(line) = Pos - 4 /\ req = Fresh /\ InLine
  BY DEF Here, Stands, AtCSeq
<1>2. Pos \in Nat /\ Len(line) <= Pos /\ 4 \in Nat /\ 4 <= Pos
  BY <1>1
<1>3. /\ Len(served) \in Nat /\ Len(served) < Len(msgs)
      /\ ByteRead = Start + (Pos + 1)
  BY <1>1, <1>2, ByteIsNext
<1>4. PICK b \in Bodies : b = Current.body /\ Current.begin = Start
  BY <1>3, CurrentIs
<1>5. Pos + 1 <= HeaderLen(b) /\ Width(b) \in Nat \ {0}
  BY <1>1, HeaderLength
<1>6. /\ Seen \in Seq(Tokens) /\ Len(Seen) = (Pos + 1) - 4
      /\ \A k \in 1..Len(Seen) : Seen[k] = Headers(b)[4 + k]
  BY <1>1, <1>2, <1>4, <1>5, SeenIsHeader
<1>7. Len(Seen) \in 1..5 /\ (Len(Seen) = 5 <=> Pos = 8)
  BY <1>1, <1>6
<1>8. /\ EndsLine(Seen) <=> Pos = 8
      /\ Pos = 8 =>
            /\ Trim(Seen) # <<>> /\ HasColon(Trim(Seen))
            /\ Name(Trim(Seen)) = <<"C">> /\ Name(Trim(Seen)) # <<"L">>
  BY <1>6, <1>7, CSeqLine
<1>9. CASE Pos = 8
  <2>1. TakeLine(Trim(Seen), damaged)
    BY <1>8, <1>9, LineGoesOn
  <2>2. HeaderTaken(Trim(Seen))
    BY <1>8, <1>9 DEF HeaderTaken
  <2>3. /\ line' = <<>> /\ phase' = "headers" /\ served' = served
        /\ req' = [req EXCEPT !.len = req.len, !.at = ByteRead]
    BY <1>8, <1>9, <2>1, <2>2 DEF TakeLine
  <2>4. req' = [at |-> Start + 9, len |-> 0, body |-> <<>>]
    <3>1. ByteRead = Start + 9
      BY <1>3, <1>9
    <3> QED
      BY <1>1, <2>3, <3>1 DEF Fresh
  <2>5. /\ Pos' = 9 /\ Current' = Current /\ Len(served') < Len(msgs') /\ InLine'
        /\ (Stands' => Parsed')
    BY <1>1, <1>2, <1>9, <2>3, ByteMoves
  <2>6. AtLength'
    <3>1. PICK d \in Nat \ {0} : d = Width(b)
      BY <1>5
    <3>2. Pos' \in 9..(12 + d) /\ Len(line') = Pos' - 9
      BY <2>3, <2>5
    <3>3. Current'.body = b /\ Current'.begin = Start
      BY <1>4, <2>5
    <3> QED
      BY <2>4, <3>1, <3>2, <3>3 DEF AtLength
  <2> QED
    BY <2>3, <2>5, <2>6 DEF Stands, AtHeaders
<1>10. CASE Pos # 8
  <2>1. /\ phase' = "headers" /\ line' = Seen /\ req' = req /\ served' = served
    BY <1>8, <1>10, LineGoesOn
  <2>2. /\ Pos' = Pos + 1 /\ Len(served') < Len(msgs') /\ InLine' /\ (Stands' => Parsed')
    BY <1>1, <1>2, <2>1, ByteMoves
  <2>3. AtCSeq'
    BY <1>1, <1>6, <1>10, <2>1, <2>2 DEF AtCSeq, Fresh
  <2> QED
    BY <2>1, <2>2, <2>3 DEF Stands, AtHeaders
<1> QED
  BY <1>9, <1>10

(* The line of the length: the sender ends the connection for a body over its limit. *)
LEMMA LengthRead ==
    ASSUME IInv, Layout, Here, ReadByte, phase = "headers", AtLength, Len(served) < Len(msgs)
    PROVE  Parsed'
<1>1. PICK b \in Bodies : b = Current.body /\ Current.begin = Start /\ Start \in Nat
  BY CurrentIs DEF Here
<1>2. PICK d \in Nat \ {0} : d = Width(b) /\ HeaderLen(b) = d + 15
  BY HeaderLength
<1>3. /\ Pos \in 9..(12 + d) /\ Len(line) = Pos - 9 /\ InLine
      /\ req = [at |-> Start + 9, len |-> 0, body |-> <<>>]
  BY <1>1, <1>2 DEF Here, Stands, AtLength
<1>4. Pos \in Nat /\ Len(line) <= Pos /\ 9 \in Nat /\ 9 <= Pos
  BY <1>3
<1>5. Pos + 1 <= HeaderLen(b)
  BY <1>2, <1>3
<1>6. /\ Seen \in Seq(Tokens) /\ Len(Seen) = (Pos + 1) - 9
      /\ \A k \in 1..Len(Seen) : Seen[k] = Headers(b)[9 + k]
  BY <1>1, <1>3, <1>4, <1>5, SeenIsHeader
<1>7. Len(Seen) \in 1..(4 + d) /\ (Len(Seen) = 4 + d <=> Pos = 12 + d)
  BY <1>3, <1>6
<1>8. /\ EndsLine(Seen) <=> Pos = 12 + d
      /\ Pos = 12 + d =>
            /\ Trim(Seen) # <<>> /\ HasColon(Trim(Seen)) /\ Name(Trim(Seen)) = <<"L">>
            /\ Name(Trim(Seen)) # <<"C">>
            /\ IsNumber(Value(Trim(Seen))) /\ Number(Value(Trim(Seen))) = Len(b)
  BY <1>2, <1>6, <1>7, LengthLine
<1>9. CASE Pos = 12 + d
  <2>1. TakeLine(Trim(Seen), damaged)
    BY <1>8, <1>9, LineGoesOn
  <2>2. CASE HeaderTaken(Trim(Seen))
    <3>1. kind = "event" => Len(b) <= BodyLimit
      BY <1>8, <1>9, <2>2 DEF HeaderTaken
    <3>2. /\ line' = <<>> /\ phase' = "headers" /\ served' = served
          /\ req' = [req EXCEPT !.len = Len(b), !.at = req.at]
      BY <1>8, <1>9, <2>1, <2>2 DEF TakeLine
    <3>3. req' = [at |-> Start + 9, len |-> Len(b), body |-> <<>>]
      BY <1>3, <3>2
    <3>4. /\ Pos' = 13 + d /\ Current' = Current /\ Len(served') < Len(msgs') /\ InLine'
          /\ (Stands' => Parsed')
      <4>1. Pos + 1 = 13 + d
        BY <1>9
      <4> QED
        BY <1>3, <1>4, <3>2, <4>1, ByteMoves
    <3>5. AtEmpty'
      <4>1. Len(line') = 0 /\ kind' = kind
        BY <3>2, LineGoesOn
      <4>2. Current'.body = b /\ Current'.begin = Start /\ Width(b) = d
        BY <1>1, <1>2, <3>4
      <4>3. Pos' = 13 + d /\ Len(line') = Pos' - (13 + d)
        BY <3>4, <4>1
      <4>4. kind' = "event" => Len(b) <= BodyLimit
        BY <3>1, <4>1
      <4> QED
        BY <3>3, <4>2, <4>3, <4>4 DEF AtEmpty
    <3> QED
      BY <3>2, <3>4, <3>5 DEF Stands, AtHeaders
  <2>3. CASE ~HeaderTaken(Trim(Seen))
    <3>1. phase' = "ended" /\ served' = served
      BY <1>8, <1>9, <2>1, <2>3 DEF TakeLine, End
    <3>2. Stands' => Parsed'
      BY <1>3, <1>4, <3>1, ByteMoves
    <3> QED
      BY <3>1, <3>2 DEF Stands
  <2> QED
    BY <2>2, <2>3
<1>10. CASE Pos # 12 + d
  <2>1. /\ phase' = "headers" /\ line' = Seen /\ req' = req /\ served' = served
    BY <1>8, <1>10, LineGoesOn
  <2>2. /\ Pos' = Pos + 1 /\ Current' = Current /\ Len(served') < Len(msgs') /\ InLine'
        /\ (Stands' => Parsed')
    BY <1>3, <1>4, <2>1, ByteMoves
  <2>3. AtLength'
    <3>1. Current'.body = b /\ Current'.begin = Start /\ Width(b) = d
      BY <1>1, <1>2, <2>2
    <3>2. Pos' \in 9..(12 + d) /\ Len(line') = Pos' - 9
      BY <1>3, <1>6, <1>10, <2>1, <2>2
    <3>3. req' = [at |-> Start + 9, len |-> 0, body |-> <<>>]
      BY <1>3, <2>1
    <3> QED
      BY <3>1, <3>2, <3>3 DEF AtLength
  <2> QED
    BY <2>1, <2>2, <2>3 DEF Stands, AtHeaders
<1> QED
  BY <1>9, <1>10

(* The empty line, behind which the body begins, or the request is served. *)
LEMMA EmptyRead ==
    ASSUME IInv, Layout, Here, ReadByte, phase = "headers", AtEmpty, Len(served) < Len(msgs)
    PROVE  Parsed'
<1>1. PICK b \in Bodies : b = Current.body /\ Current.begin = Start /\ Start \in Nat
  BY CurrentIs DEF Here
<1>2. PICK d \in Nat \ {0} : d = Width(b) /\ HeaderLen(b) = d + 15
  BY HeaderLength
<1>3. PICK n \in Nat : n = Len(b)
  BY BodiesAreTokens
<1>4. /\ Pos \in {13 + d, 14 + d} /\ Len(line) = Pos - (13 + d) /\ InLine
      /\ req = [at |-> Start + 9, len |-> n, body |-> <<>>]
      /\ kind = "event" => n <= BodyLimit
  BY <1>1, <1>2, <1>3 DEF Here, Stands, AtEmpty
<1>5. Pos \in Nat /\ Len(line) <= Pos /\ 13 + d \in Nat /\ 13 + d <= Pos
  BY <1>4
<1>6. Pos + 1 <= HeaderLen(b)
  BY <1>2, <1>4
<1>7. /\ Seen \in Seq(Tokens) /\ Len(Seen) = (Pos + 1) - (13 + d)
      /\ \A k \in 1..Len(Seen) : Seen[k] = Headers(b)[(13 + d) + k]
  BY <1>1, <1>4, <1>5, <1>6, SeenIsHeader
<1>8. Len(Seen) \in 1..2 /\ (Len(Seen) = 2 <=> Pos = 14 + d)
  BY <1>4, <1>7
<1>9. /\ EndsLine(Seen) <=> Pos = 14 + d
      /\ Pos = 14 + d => Trim(Seen) = <<>>
  BY <1>2, <1>7, <1>8, EmptyLine
<1>10. CASE Pos = 14 + d
  <2>1. Body(damaged)
    BY <1>9, <1>10, LineGoesOn DEF TakeLine
  <2>2. SUFFICES ASSUME ~damaged'
                 PROVE  Parsed'
    BY DEF Parsed
  <2>3. req.at # 0 /\ req.len = n
    BY <1>1, <1>4
  <2>4. /\ ~(kind = "control" /\ n > BodyLimit)
        /\ IF n = 0 THEN Serve(req)
           ELSE /\ phase' = "body" /\ line' = <<>> /\ served' = served
                /\ req' = [req EXCEPT !.len = Lesser(n, BodyLimit)]
    BY <2>1, <2>2, <2>3 DEF Body
  <2>5. Len(up'.got) = Start + (Pos + 1)
    BY <1>4, <1>5, ByteIsNext
  <2>6. CASE n = 0
    <3>1. req \in Request /\ Len(req.body) = n /\ req.at = Start + 9
      <4>1. <<>> \in Seq(Nat) /\ Len(<<>>) = 0
        OBVIOUS
      <4> QED
        BY <1>1, <1>4, <2>6, <4>1 DEF Request
    <3>2. Len(up'.got) = Start + HeaderLen(b) + n
      BY <1>1, <1>2, <1>10, <2>5, <2>6
    <3>3. \A k \in 1..Len(req.body) : req.body[k] = Current.begin + HeaderLen(Current.body) + k
      BY <2>6, <3>1
    <3>4. UNCHANGED <<msgs, gone>>
      BY LineGoesOn
    <3> QED
      BY <1>1, <1>3, <2>3, <2>4, <2>6, <3>1, <3>2, <3>3, <3>4, ServeSent
  <2>7. CASE n # 0
    <3>1. Lesser(n, BodyLimit) = n
      <4>1. kind = "event" \/ kind = "control"
        BY DEF Layout
      <4> QED
        BY <1>4, <2>4, <4>1, LimitsArePositive DEF Lesser
    <3>2. /\ phase' = "body" /\ line' = <<>> /\ served' = served
          /\ req' = [at |-> Start + 9, len |-> n, body |-> <<>>]
      BY <1>4, <2>4, <2>7, <3>1
    <3>3. /\ Pos' = Pos + 1 /\ Current' = Current /\ Len(served') < Len(msgs')
          /\ (Stands' => Parsed')
      BY <1>4, <1>5, <3>2, ByteMoves
    <3>4. AtBody'
      <4>1. Len(req'.body) = 0 /\ Pos' = HeaderLen(b) + Len(req'.body)
        BY <1>2, <1>10, <3>2, <3>3
      <4> QED
        BY <1>1, <1>3, <3>2, <3>3, <4>1 DEF AtBody
    <3> QED
      BY <3>2, <3>3, <3>4 DEF Stands
  <2> QED
    BY <2>6, <2>7
<1>11. CASE Pos # 14 + d
  <2>1. /\ phase' = "headers" /\ line' = Seen /\ req' = req /\ served' = served
    BY <1>9, <1>11, LineGoesOn
  <2>2. /\ Pos' = Pos + 1 /\ Current' = Current /\ Len(served') < Len(msgs') /\ InLine'
        /\ (Stands' => Parsed')
    BY <1>4, <1>5, <2>1, ByteMoves
  <2>3. AtEmpty'
    <3>1. kind' = kind /\ Pos' = 14 + d /\ Len(line') = Pos' - (13 + d)
      BY <1>4, <1>7, <1>11, <2>1, <2>2, LineGoesOn
    <3>2. Current'.body = b /\ Current'.begin = Start
      BY <1>1, <2>2
    <3>3. req' = [at |-> Start + 9, len |-> n, body |-> <<>>]
      BY <1>4, <2>1
    <3> QED
      BY <1>2, <1>3, <1>4, <3>1, <3>2, <3>3 DEF AtEmpty
  <2> QED
    BY <2>1, <2>2, <2>3 DEF Stands, AtHeaders
<1> QED
  BY <1>10, <1>11

(* A line of the receiver that is cut cuts the request. *)
LEMMA CutStays ==
    ASSUME kind = "control", NEW l, TakeLine(l, TRUE)
    PROVE  damaged'
<1>1. CASE phase = "request"
  BY <1>1 DEF TakeLine
<1>2. CASE phase # "request" /\ l = <<>>
  <2>1. Body(TRUE)
    BY <1>2 DEF TakeLine
  <2> QED
    BY <2>1 DEF Body
<1>3. CASE phase # "request" /\ l # <<>>
  BY <1>3 DEF TakeLine
<1> QED
  BY <1>1, <1>2, <1>3

LEMMA ByteKeeps ==
    ASSUME IInv, Layout, Parsed, ReadByte
    PROVE  Parsed'
<1>1. CASE damaged
  <2>1. damaged'
    BY <1>1 DEF ReadByte, TakeLine, Body
  <2> QED
    BY <2>1 DEF Parsed
<1>2. CASE ~damaged
  <2>1. Here /\ phase \in {"request", "headers"}
    BY <1>2, HereIs, LineGoesOn
  <2>2. phase = "headers" => Len(served) < Len(msgs) /\ (AtCSeq \/ AtLength \/ AtEmpty)
    BY <2>1 DEF Here, Stands, AtHeaders
  <2> QED
    BY <2>1, <2>2, FirstRead, CSeqRead, LengthRead, EmptyRead
<1> QED
  BY <1>1, <1>2

LEMMA BodyKeeps ==
    ASSUME IInv, Layout, Parsed, ReadBody
    PROVE  Parsed'
<1> DEFINE max == req.len - Len(req.body)
           part == SubSeq(up'.got, Len(up.got) + 1, Len(up'.got))
           body == req.body \o part
<1>1. /\ phase = "body" /\ ~gone /\ Up!Read(max)
      /\ UNCHANGED <<kind, msgs, text, gone, damaged>>
      /\ IF BodyRead(body) THEN Serve([req EXCEPT !.body = body])
         ELSE req' = [req EXCEPT !.body = body] /\ phase' = phase /\ served' = served
  BY DEF ReadBody, client
<1>2. SUFFICES ASSUME ~damaged
               PROVE  Parsed'
  BY <1>1 DEF Parsed
<1>3. Here
  BY <1>1, <1>2, HereIs
<1>4. /\ Len(served) < Len(msgs)
      /\ req.at = Current.begin + 9 /\ req.len = Len(Current.body)
      /\ Pos = HeaderLen(Current.body) + Len(req.body)
      /\ \A k \in 1..Len(req.body) : req.body[k] = Current.begin + HeaderLen(Current.body) + k
  BY <1>1, <1>3 DEF Here, Stands, AtBody
<1>5. /\ Start \in Nat /\ Current.begin = Start /\ HeaderLen(Current.body) \in Nat
      /\ Len(Current.body) \in Nat
  BY <1>3, <1>4, CurrentIs DEF Here
<1>6. PICK h \in Nat : h = HeaderLen(Current.body)
  BY <1>5
<1>7. PICK n \in Nat : n = Len(Current.body)
  BY <1>5
<1>8. /\ req.body \in Seq(Nat) /\ Len(req.body) < n /\ req.len = n
      /\ req = [at |-> req.at, len |-> req.len, body |-> req.body]
  BY <1>1, <1>4, <1>7 DEF IInv, Known
<1>9. PICK r \in Nat : r = Len(req.body)
  BY <1>8
<1>10. max \in Nat \ {0} /\ max = n - r
  BY <1>8, <1>9
<1> HIDE DEF max
<1>11. /\ Len(up.got) \in Nat /\ Len(up'.got) \in Nat /\ up'.got \in Seq(Nat)
       /\ Len(up.got) < Len(up'.got) /\ Len(up'.got) <= Len(up.got) + max
       /\ \A i \in 1..Len(up'.got) : up'.got[i] = i
  BY <1>1, <1>10, ReadOfText
<1>12. PICK g \in Nat, m \in Nat \ {0} : g = Len(up.got) /\ Len(up'.got) = g + m /\ m <= n - r
  <2>1. PICK g \in Nat, q \in Nat : g = Len(up.got) /\ q = Len(up'.got)
    BY <1>11
  <2>2. q - g \in Nat \ {0} /\ q = g + (q - g) /\ q - g <= n - r
    BY <1>10, <1>11, <2>1
  <2> QED
    BY <2>1, <2>2
<1>13. g = Start + h + r
  <2>1. g - Start = h + r
    BY <1>4, <1>6, <1>9, <1>12 DEF Pos
  <2> QED
    BY <1>5, <2>1
<1>14. part \in Seq(Nat) /\ Len(part) = m /\ \A k \in 1..m : part[k] = g + k
  <2>1. g + 1 \in Int /\ g + m \in Int /\ \A i \in (g + 1)..(g + m) : up'.got[i] \in Nat
    BY <1>11, <1>12
  <2>2. part = SubSeq(up'.got, g + 1, g + m)
    BY <1>12
  <2>3. /\ part \in Seq(Nat)
        /\ Len(part) = IF g + 1 <= g + m THEN (g + m) - (g + 1) + 1 ELSE 0
        /\ \A i \in 1..((g + m) - (g + 1) + 1) : part[i] = up'.got[(g + 1) + i - 1]
    <3>1. ASSUME NEW s, NEW a \in Int, NEW c \in Int, \A i \in a..c : s[i] \in Nat
          PROVE  /\ SubSeq(s, a, c) \in Seq(Nat)
                 /\ Len(SubSeq(s, a, c)) = IF a <= c THEN c - a + 1 ELSE 0
                 /\ \A i \in 1..(c - a + 1) : SubSeq(s, a, c)[i] = s[a + i - 1]
      BY <3>1, SubSeqProperties
    <3> HIDE DEF part
    <3>2. PICK a \in Int, c \in Int : a = g + 1 /\ c = g + m
      OBVIOUS
    <3>3. part = SubSeq(up'.got, a, c) /\ \A i \in a..c : up'.got[i] \in Nat
      BY <2>1, <2>2, <3>2
    <3> QED
      BY <3>1, <3>2, <3>3
  <2> HIDE DEF part
  <2>4. ASSUME NEW k \in 1..m PROVE part[k] = g + k
    <3>1. k \in 1..((g + m) - (g + 1) + 1) /\ (g + 1) + k - 1 = g + k /\ g + k \in 1..(g + m)
      OBVIOUS
    <3> QED
      BY <1>11, <1>12, <2>3, <3>1
  <2>5. Len(part) = m
    BY <2>3
  <2> QED
    BY <2>3, <2>4, <2>5
<1> HIDE DEF part
<1>15. /\ body \in Seq(Nat) /\ Len(body) = r + m
       /\ \A k \in 1..(r + m) : body[k] = Start + h + k
  <2>1. /\ body \in Seq(Nat) /\ Len(body) = Len(req.body) + Len(part)
        /\ \A k \in 1..(Len(req.body) + Len(part)) :
              body[k] = IF k <= Len(req.body) THEN req.body[k] ELSE part[k - Len(req.body)]
    BY <1>8, <1>14, ConcatProperties
  <2> HIDE DEF body
  <2>2. ASSUME NEW k \in 1..(r + m) PROVE body[k] = Start + h + k
    <3>1. body[k] = IF k <= r THEN req.body[k] ELSE part[k - r]
      BY <1>9, <1>14, <2>1
    <3>2. CASE k <= r
      BY <1>4, <1>5, <1>6, <1>9, <3>1, <3>2
    <3>3. CASE ~(k <= r)
      <4>1. k - r \in 1..m
        BY <3>3
      <4>2. body[k] = g + (k - r)
        BY <1>14, <3>1, <3>3, <4>1
      <4> QED
        BY <1>5, <1>13, <4>2
    <3> QED
      BY <3>2, <3>3
  <2> QED
    BY <1>9, <1>14, <2>1, <2>2
<1> HIDE DEF body
<1>16. [req EXCEPT !.body = body] = [at |-> Start + 9, len |-> n, body |-> body]
  <2>1. req.at = Start + 9
    BY <1>4, <1>5
  <2>2. req = [at |-> Start + 9, len |-> n, body |-> req.body]
    BY <1>8, <2>1
  <2> QED
    BY <2>2
<1>17. CASE BodyRead(body)
  <2> DEFINE rq == [at |-> Start + 9, len |-> n, body |-> body]
  <2>1. Serve(rq) /\ r + m = n
    BY <1>1, <1>8, <1>15, <1>16, <1>17 DEF BodyRead
  <2>2. rq \in Request /\ rq.at = Start + 9 /\ rq.len = n /\ rq.body = body
    BY <1>5, <1>15 DEF Request
  <2> HIDE DEF rq
  <2>3. Len(up'.got) = Start + HeaderLen(Current.body) + Len(Current.body)
    BY <1>5, <1>6, <1>7, <1>12, <1>13, <2>1
  <2>4. \A k \in 1..Len(rq.body) : rq.body[k] = Current.begin + HeaderLen(Current.body) + k
    BY <1>5, <1>6, <1>15, <2>2
  <2>5. Len(rq.body) = Len(Current.body)
    BY <1>7, <1>15, <2>1, <2>2
  <2> QED
    BY <1>1, <1>3, <1>4, <1>5, <1>7, <2>1, <2>2, <2>3, <2>4, <2>5, ServeSent
<1>18. CASE ~BodyRead(body)
  <2>1. /\ phase' = "body" /\ served' = served
        /\ req' = [at |-> Start + 9, len |-> n, body |-> body]
    BY <1>1, <1>16, <1>18
  <2>2. Start' = Start /\ Current' = Current /\ (Stands' => Parsed')
    BY <1>1, <1>3, <2>1, NotServed
  <2>3. Pos' = h + (r + m)
    BY <1>5, <1>12, <1>13, <2>2 DEF Pos
  <2>4. AtBody'
    BY <1>1, <1>4, <1>5, <1>6, <1>7, <1>15, <2>1, <2>2, <2>3 DEF AtBody
  <2> QED
    BY <2>1, <2>2, <2>4 DEF Stands
<1> QED
  BY <1>17, <1>18

(* What was served stays as it was sent. *)
LEMMA ServedStays ==
    ASSUME ~damaged, served \in Seq(Request), ServedAsSent, UNCHANGED <<served, gone>>,
           msgs \in Seq(Asked), Len(msgs') \in Nat, Len(msgs) <= Len(msgs'),
           \A i \in 1..Len(msgs) : msgs'[i] = msgs[i]
    PROVE  served' \in Seq(Request) /\ ServedAsSent'
<1>1. Len(msgs) \in Nat /\ Len(served) \in Nat /\ DOMAIN served = 1..Len(served)
  BY EdgeIsNat
<1>2. ASSUME NEW i \in DOMAIN served
      PROVE  i \in 1..Len(msgs) /\ Sent(i)' = Sent(i)
  <2>1. i \in 1..Len(msgs)
    BY <1>1 DEF ServedAsSent
  <2> QED
    BY <2>1 DEF Sent
<1>3. ASSUME NEW i \in DOMAIN served
      PROVE  /\ i <= Len(msgs')
             /\ \/ served'[i] = Sent(i)'
                \/ gone' /\ i = Len(served') /\ IsPrefix(served'[i].body, Sent(i)'.body)
  <2>1. i \in 1..Len(msgs) /\ Sent(i)' = Sent(i)
    BY <1>2
  <2>2. \/ served[i] = Sent(i)
        \/ gone /\ i = Len(served) /\ IsPrefix(served[i].body, Sent(i).body)
    BY DEF ServedAsSent
  <2>3. i <= Len(msgs')
    BY <1>1, <2>1
  <2> QED
    BY <2>1, <2>2, <2>3
<1> QED
  BY <1>3 DEF ServedAsSent

(* A read that fails cuts a request, or ends the connection. *)
LEMMA FailKeeps ==
    ASSUME Layout, Parsed, ReadFails
    PROVE  Parsed'
<1>1. CASE kind = "control" /\ TakeLine(Trim(line), TRUE)
  <2>1. damaged'
    BY <1>1, CutStays
  <2> QED
    BY <2>1 DEF Parsed
<1>2. CASE End /\ UNCHANGED damaged
  <2>1. SUFFICES ASSUME ~damaged
                 PROVE  Parsed'
    BY <1>2 DEF Parsed
  <2>2. UNCHANGED <<kind, served, msgs, gone>> /\ phase' = "ended"
    BY <1>2 DEF ReadFails, client, End
  <2>3. served' \in Seq(Request) /\ ServedAsSent'
    <3>1. msgs \in Seq(Asked) /\ Len(msgs) \in Nat
      BY EdgeIsNat DEF Layout
    <3> QED
      BY <2>1, <2>2, <3>1, ServedStays DEF Parsed
  <2> QED
    BY <2>1, <2>2, <2>3 DEF Parsed, Stands
<1> QED
  BY <1>1, <1>2 DEF ReadFails

(* The body that the end of the connection cuts is the beginning of the one sent. *)
LEMMA EndKeeps ==
    ASSUME IInv, Layout, Parsed, BodyEnds
    PROVE  Parsed'
<1>1. /\ kind = "event" /\ phase = "body" /\ ~gone /\ gone' = TRUE /\ Serve(req)
      /\ UNCHANGED <<kind, msgs, damaged>>
  BY DEF BodyEnds, client
<1>2. SUFFICES ASSUME ~damaged
               PROVE  Parsed'
  BY <1>1 DEF Parsed
<1>3. Here
  BY <1>1, <1>2, HereIs
<1>4. /\ Len(served) < Len(msgs)
      /\ req.at = Current.begin + 9 /\ req.len = Len(Current.body)
      /\ \A k \in 1..Len(req.body) : req.body[k] = Current.begin + HeaderLen(Current.body) + k
  BY <1>1, <1>3 DEF Here, Stands, AtBody
<1>5. PICK n \in Nat : n = Len(served)
  BY <1>3 DEF Here
<1>6. PICK j \in 1..Len(msgs) : j = n + 1
  <2>1. Len(msgs) \in Nat
    BY EdgeIsNat DEF Layout
  <2> QED
    BY <1>4, <1>5, <2>1
<1>7. Current = msgs[j]
  BY <1>5, <1>6 DEF Current
<1>8. PICK e \in Nat, b \in Seq(Tokens) :
         e = Current.begin + HeaderLen(Current.body) /\ b = Current.body /\ Current.begin \in Nat
  BY <1>4, <1>5, CurrentIs
<1>9. /\ req \in Request /\ req.body \in Seq(Nat) /\ Len(req.body) < Len(b)
  <2>1. /\ req = [at |-> req.at, len |-> req.len, body |-> req.body]
        /\ req.len \in Nat /\ req.body \in Seq(Nat) /\ Len(req.body) < req.len
    BY <1>1 DEF IInv, Known
  <2>2. req.at \in Nat
    BY <1>4, <1>8
  <2>3. [at |-> req.at, len |-> req.len, body |-> req.body] \in Request
    BY <2>1, <2>2 DEF Request
  <2> QED
    BY <1>4, <1>8, <2>1, <2>3
<1>10. PICK l \in Nat, k \in Nat : l = Len(b) /\ k = Len(req.body) /\ k < l
  BY <1>8, <1>9
<1>11. IsPrefix(req.body, Sent(j).body)
  <2> DEFINE s == [i \in 1..l |-> e + i]
  <2>1. Sent(j).body = s
    <3>1. DOMAIN b = 1..l
      BY <1>10
    <3> QED
      BY <1>7, <1>8, <3>1 DEF Sent, HeaderLen
  <2>2. s \in Seq(Nat) /\ Len(s) = l /\ \A i \in 1..k : s[i] = e + i
    BY <1>10
  <2> HIDE DEF s
  <2>3. \A i \in 1..k : req.body[i] = e + i
    BY <1>4, <1>8, <1>10
  <2>4. ASSUME NEW x \in Seq(Nat), k <= Len(x)
        PROVE  /\ SubSeq(x, 1, k) \in Seq(Nat) /\ Len(SubSeq(x, 1, k)) = k
               /\ \A i \in 1..k : SubSeq(x, 1, k)[i] = x[i]
    <3>1. 1 \in Int /\ k \in Int /\ \A i \in 1..k : x[i] \in Nat
      BY <2>4
    <3>2. /\ SubSeq(x, 1, k) \in Seq(Nat)
          /\ Len(SubSeq(x, 1, k)) = IF 1 <= k THEN k - 1 + 1 ELSE 0
          /\ \A i \in 1..(k - 1 + 1) : SubSeq(x, 1, k)[i] = x[1 + i - 1]
      BY <3>1, SubSeqProperties
    <3>3. Len(SubSeq(x, 1, k)) = k
      BY <3>2
    <3>4. ASSUME NEW i \in 1..k PROVE SubSeq(x, 1, k)[i] = x[i]
      <4>1. i \in 1..(k - 1 + 1) /\ 1 + i - 1 = i
        OBVIOUS
      <4> QED
        BY <3>2, <4>1
    <3> QED
      BY <3>2, <3>3, <3>4
  <2>5. SubSeq(req.body, 1, k) = SubSeq(s, 1, k)
    <3>1. k <= Len(req.body) /\ k <= Len(s)
      BY <1>10, <2>2
    <3>2. /\ SubSeq(req.body, 1, k) \in Seq(Nat) /\ Len(SubSeq(req.body, 1, k)) = k
          /\ SubSeq(s, 1, k) \in Seq(Nat) /\ Len(SubSeq(s, 1, k)) = k
          /\ \A i \in 1..k : SubSeq(req.body, 1, k)[i] = SubSeq(s, 1, k)[i]
      BY <1>9, <2>2, <2>3, <2>4, <3>1
    <3> QED
      BY <3>2, SeqEqual
  <2> QED
    BY <1>10, <2>1, <2>2, <2>5 DEF IsPrefix
<1>12. /\ served' \in Seq(Request) /\ Len(served') = n + 1 /\ served'[n + 1] = req
       /\ \A i \in 1..n : served'[i] = served[i]
       /\ phase' = "answer"
  <2>1. served' = Append(served, req) /\ phase' = "answer"
    BY <1>1 DEF Serve
  <2> QED
    BY <1>3, <1>5, <1>9, <2>1, AppendProperties DEF Here
<1>13. ServedAsSent'
  <2>1. \A i : Sent(i)' = Sent(i)
    BY <1>1 DEF Sent
  <2>2. DOMAIN served' = 1..(n + 1)
    BY <1>12
  <2> SUFFICES ASSUME NEW i \in 1..(n + 1)
               PROVE  /\ i <= Len(msgs)
                      /\ \/ served'[i] = Sent(i)
                         \/ i = n + 1 /\ IsPrefix(served'[i].body, Sent(i).body)
    BY <1>1, <1>12, <2>1, <2>2 DEF ServedAsSent
  <2>3. CASE i = n + 1
    BY <1>6, <1>11, <1>12, <2>3
  <2>4. CASE i # n + 1
    <3>1. i \in 1..n /\ i \in DOMAIN served
      BY <1>3, <1>5, <2>4 DEF Here
    <3>2. i <= Len(msgs) /\ served[i] = Sent(i)
      BY <1>3, <3>1 DEF Here, ServedAsSent
    <3> QED
      BY <1>12, <3>1, <3>2
  <2> QED
    BY <2>3, <2>4
<1> QED
  BY <1>1, <1>12, <1>13 DEF Parsed

(* A step of the client, or a write of the answer, leaves the server where it is. *)
LEMMA ServerWaits ==
    ASSUME IInv, Layout, Parsed,
           UNCHANGED <<kind, phase, line, req, served, gone, damaged>>, up'.got = up.got,
           Len(msgs') \in Nat, Len(msgs) <= Len(msgs'),
           \A i \in 1..Len(msgs) : msgs'[i] = msgs[i],
           \A k \in 1..Len(text) : text'[k] = text[k]
    PROVE  Parsed'
<1>1. SUFFICES ASSUME ~damaged
               PROVE  Parsed'
  BY DEF Parsed
<1>2. msgs \in Seq(Asked) /\ Len(msgs) \in Nat
  BY EdgeIsNat DEF Layout
<1>3. served \in Seq(Request) /\ ServedAsSent
  BY <1>1 DEF Parsed
<1>4. served' \in Seq(Request) /\ ServedAsSent'
  BY <1>1, <1>2, <1>3, ServedStays
<1>5. PICK n \in 0..Len(msgs) : n = Len(served)
  BY <1>1, <1>2, <1>3, ServedAreAsked
<1>6. Start' = Start /\ Start \in Nat
  <2>1. n # 0 => msgs'[n] = msgs[n]
    BY <1>2
  <2>2. Edge(n) \in Nat
    BY <1>2, EdgeIsNat
  <2> QED
    BY <1>5, <2>1, <2>2 DEF Start, Edge
<1>7. Pos' = Pos
  BY <1>6 DEF Pos
<1>8. ASSUME n < Len(msgs)
      PROVE  Current' = Current /\ Len(served') < Len(msgs')
  <2>1. n + 1 \in 1..Len(msgs)
    BY <1>2, <1>8
  <2> QED
    BY <1>2, <1>5, <1>8, <2>1 DEF Current
<1>9. SUFFICES ASSUME ~gone, Stands
               PROVE  Stands'
  BY <1>1, <1>4 DEF Parsed
<1>10. ASSUME AtRequest PROVE AtRequest'
  BY <1>5, <1>7, <1>8, <1>10 DEF AtRequest, Fresh
<1>11. ASSUME AtHeaders PROVE AtHeaders'
  <2>1. n < Len(msgs) /\ Current' = Current /\ Len(served') < Len(msgs')
    BY <1>5, <1>8, <1>11 DEF AtHeaders
  <2>2. AtCSeq => AtCSeq'
    BY <1>7 DEF AtCSeq, Fresh
  <2>3. AtLength => AtLength'
    BY <1>7, <2>1 DEF AtLength
  <2>4. AtEmpty => AtEmpty'
    BY <1>7, <2>1 DEF AtEmpty
  <2> QED
    BY <1>11, <2>1, <2>2, <2>3, <2>4 DEF AtHeaders
<1>12. ASSUME AtBody PROVE AtBody'
  <2>1. n < Len(msgs) /\ Current' = Current /\ Len(served') < Len(msgs')
    BY <1>5, <1>8, <1>12 DEF AtBody
  <2> QED
    BY <1>7, <1>12, <2>1 DEF AtBody
<1>13. ASSUME InLine, phase \in {"request", "headers"} PROVE InLine'
  <2>1. Len(line) <= Pos /\ Pos \in Int
    <3>1. CASE phase = "request"
      BY <3>1, <1>9 DEF Stands, AtRequest
    <3>2. CASE phase = "headers" /\ AtCSeq
      BY <3>2 DEF AtCSeq
    <3>3. CASE phase = "headers" /\ AtLength
      BY <3>3, <1>5, <1>8, CurrentIs, HeaderLength, <1>9 DEF AtLength, AtHeaders, Stands
    <3>4. CASE phase = "headers" /\ AtEmpty
      <4>1. Current.body \in Bodies
        BY <1>2, <1>5, <3>4, <1>9, CurrentIs DEF AtHeaders, Stands
      <4>2. Width(Current.body) \in Nat
        BY <4>1, HeaderLength
      <4> QED
        BY <3>4, <4>2 DEF AtEmpty
    <3> QED
      BY <1>9, <1>13, <3>1, <3>2, <3>3, <3>4 DEF Stands, AtHeaders
  <2>2. PICK g \in Nat, m \in Nat, t \in Nat : g = Len(up.got) /\ m = Len(line) /\ t = Len(text) /\ g <= t
    <3>1. /\ Len(up.got) \in Nat /\ up.written \in Nat /\ Len(up.got) <= up.written
      BY GotIsWritten DEF IInv
    <3>2. /\ Len(line) \in Nat /\ Len(text) \in Nat /\ up.written <= Len(text)
      BY DEF Layout, IInv
    <3> QED
      BY <3>1, <3>2
  <2>3. m <= g
    BY <1>6, <2>1, <2>2 DEF Pos
  <2>4. ASSUME NEW i \in 1..m
        PROVE  line[i] = text'[g - m + i]
    <3>1. g - m + i \in 1..t
      BY <2>2, <2>3
    <3>2. line[i] = text[g - m + i]
      BY <1>13, <2>2 DEF InLine
    <3> QED
      BY <2>2, <3>1, <3>2
  <2> QED
    BY <2>2, <2>4 DEF InLine
<1> QED
  BY <1>7, <1>9, <1>10, <1>11, <1>12, <1>13 DEF Stands, Fresh

(* An answer is written. *)
LEMMA SendServed ==
    ASSUME Layout, Parsed, SendAnswer
    PROVE  Parsed'
<1>1. /\ phase = "answer" /\ phase' \in {"request", "answer"}
      /\ UNCHANGED <<kind, up, msgs, text, line, req, served, gone, damaged>>
  BY DEF SendAnswer, client
<1>2. SUFFICES ASSUME ~damaged
               PROVE  Parsed'
  BY <1>1 DEF Parsed
<1>3. msgs \in Seq(Asked) /\ Len(msgs) \in Nat /\ served \in Seq(Request) /\ ServedAsSent
  BY <1>2, EdgeIsNat DEF Layout, Parsed
<1>4. served' \in Seq(Request) /\ ServedAsSent'
  BY <1>1, <1>2, <1>3, ServedStays
<1>5. CASE gone
  BY <1>1, <1>2, <1>4, <1>5 DEF Parsed
<1>6. CASE ~gone
  <2>1. Pos = 0 /\ line = <<>> /\ req = Fresh
    BY <1>1, <1>2, <1>6 DEF Parsed, Stands
  <2>2. Pos' = 0
    BY <1>1, <2>1 DEF Pos, Start, Edge
  <2>3. AtRequest' /\ InLine'
    BY <1>1, <2>1, <2>2 DEF AtRequest, InLine, Fresh
  <2>4. Stands'
    BY <1>1, <2>1, <2>2, <2>3 DEF Stands, Fresh
  <2> QED
    BY <1>1, <1>4, <1>6, <2>4 DEF Parsed
<1> QED
  BY <1>5, <1>6

LEMMA TakeLineKeeps ==
    ASSUME NEW l, NEW cut, TakeLine(l, cut)
    PROVE  line' = <<>> \/ line' = line
  BY DEF TakeLine, Body, End, Serve

(* The text lies behind what was written of it, and the line is of its tokens. *)
LEMMA LayoutKeeps ==
    ASSUME IInv, Layout, [Next]_vars
    PROVE  Layout'
<1>1. /\ <<>> \in Seq(Tokens) /\ line \in Seq(Tokens) /\ text \in Seq(Tokens)
      /\ up.written \in Nat /\ up.written <= Len(text) /\ Len(text) \in Nat
  <2>1. up.written \in Nat
    BY GotIsWritten DEF IInv
  <2>2. <<>> \in Seq(Tokens)
    OBVIOUS
  <2> QED
    BY <2>1, <2>2 DEF IInv, Layout
<1>2. CASE \E body \in Bodies : Ask(body)
  BY <1>2, AskLays
<1>3. CASE SendRequest
  <2>1. UNCHANGED <<kind, msgs, text, line>> /\ up.written < Len(text)
        /\ Up!Write(Piece(Len(text) - up.written))
    BY <1>3 DEF SendRequest, client, server
  <2>2. PICK k \in Nat \ {0} : k = Piece(Len(text) - up.written)
    BY <2>1, PieceIsPositive
  <2>3. k <= Len(text) - up.written
    BY <1>1, <2>2, LimitsArePositive DEF Piece, Lesser
  <2>4. up'.written = up.written + k
    BY <2>1, <2>2 DEF Up!Write, IInv, P!IInv, P!TypeOK
  <2> QED
    BY <1>1, <2>1, <2>3, <2>4, LayoutStays
<1>4. CASE ReadByte
  <2>1. /\ UNCHANGED <<kind, msgs, text>> /\ Up!Read(1) /\ 1 \in Nat \ {0}
    BY <1>4 DEF ReadByte, client
  <2>2. /\ up'.written = up.written /\ Len(up'.got) \in 1..Len(text)
        /\ \A i \in 1..Len(up'.got) : up'.got[i] = i
        /\ Len(up'.got) \in 1..Len(up'.got)
    <3>1. /\ Len(up.got) \in Nat /\ Len(up'.got) \in Nat /\ Len(up.got) < Len(up'.got)
          /\ Len(up'.got) <= Len(text) /\ up'.written = up.written
          /\ \A i \in 1..Len(up'.got) : up'.got[i] = i
      BY <2>1, ReadOfText
    <3> QED
      BY <1>1, <3>1
  <2>3. PICK q \in 1..Len(text) : q = ByteRead
    BY <2>2 DEF ByteRead, Last
  <2>4. Seen \in Seq(Tokens)
    <3>1. text[q] \in Tokens
      BY <1>1
    <3> QED
      BY <1>1, <2>3, <3>1, AppendProperties DEF Seen
  <2>5. line' = Seen \/ line' = <<>> \/ line' = line
    BY <1>4, LineGoesOn, TakeLineKeeps
  <2> QED
    BY <1>1, <2>1, <2>2, <2>4, <2>5, LayoutStays
<1>5. CASE ReadBody
  <2>1. /\ UNCHANGED <<kind, msgs, text>> /\ Up!Read(req.len - Len(req.body))
        /\ line' = line \/ line' = <<>>
    BY <1>5 DEF ReadBody, client, Serve
  <2>2. req.len - Len(req.body) \in Nat \ {0}
    BY <1>5 DEF ReadBody, IInv, Known
  <2>3. up'.written = up.written
    BY <2>1, <2>2, ReadOfText
  <2> QED
    BY <1>1, <2>1, <2>3, LayoutStays
<1>6. CASE ReadFails
  <2>1. UNCHANGED <<kind, msgs, text>>
    BY <1>6 DEF ReadFails, client
  <2>2. up'.written = up.written
    BY <1>6 DEF ReadFails, Up!Tear, IInv, P!IInv, P!TypeOK
  <2>3. line' = <<>> \/ line' = line
    BY <1>6, TakeLineKeeps DEF ReadFails, End
  <2> QED
    BY <1>1, <2>1, <2>2, <2>3, LayoutStays
<1>7. CASE SendAnswer \/ BodyEnds
  <2>1. /\ UNCHANGED <<kind, msgs, text, up>>
        /\ line' = <<>> \/ line' = line
    BY <1>7 DEF SendAnswer, BodyEnds, client, Serve
  <2> QED
    BY <1>1, <2>1, LayoutStays
<1>8. CASE ReadAnswer \/ GiveUp \/ UNCHANGED vars
  <2>1. UNCHANGED <<kind, msgs, text, up, line>>
    BY <1>8 DEF ReadAnswer, GiveUp, client, server, vars
  <2> QED
    BY <1>1, <2>1, LayoutStays
<1> QED
  BY <1>2, <1>3, <1>4, <1>5, <1>6, <1>7, <1>8 DEF Next, Client, Server

LEMMA StepParsed == SInv /\ [Next]_vars => SInv'
<1> SUFFICES ASSUME IInv, Layout, Parsed, [Next]_vars
             PROVE  IInv' /\ Layout' /\ Parsed'
  BY DEF SInv
<1>1. IInv' /\ Layout'
  BY StepInv, LayoutKeeps
<1>2. CASE \E body \in Bodies : Ask(body)
  <2>1. PICK body \in Bodies : Ask(body)
    BY <1>2
  <2>2. /\ Len(msgs') = Len(msgs) + 1 /\ Len(msgs) \in Nat
        /\ \A i \in 1..Len(msgs) : msgs'[i] = msgs[i]
        /\ \A k \in 1..Len(text) : text'[k] = text[k]
    BY <2>1, AskLays, EdgeIsNat DEF Layout
  <2>3. UNCHANGED <<kind, up, phase, line, req, served, gone, damaged>>
    BY <2>1 DEF Ask, server
  <2>4. Len(msgs') \in Nat /\ Len(msgs) <= Len(msgs')
    BY <2>2
  <2>5. up'.got = up.got
    BY <2>3
  <2> QED
    BY <1>1, <2>2, <2>3, <2>4, <2>5, ServerWaits
<1>3. CASE SendRequest \/ ReadAnswer \/ GiveUp \/ UNCHANGED vars
  <2>1. UNCHANGED <<kind, msgs, text, phase, line, req, served, gone, damaged>>
    BY <1>3 DEF SendRequest, ReadAnswer, GiveUp, client, server, vars
  <2>2. up'.got = up.got
    BY <1>3 DEF SendRequest, ReadAnswer, GiveUp, vars, Up!Write, IInv, P!IInv, P!TypeOK
  <2>3. Len(msgs') \in Nat /\ Len(msgs) <= Len(msgs')
    BY <2>1, EdgeIsNat DEF Layout
  <2> QED
    BY <1>1, <2>1, <2>2, <2>3, ServerWaits
<1>4. CASE ReadByte
  BY <1>1, <1>4, ByteKeeps
<1>5. CASE ReadBody
  BY <1>1, <1>5, BodyKeeps
<1>6. CASE ReadFails
  BY <1>1, <1>6, FailKeeps
<1>7. CASE BodyEnds
  BY <1>1, <1>7, EndKeeps
<1>8. CASE SendAnswer
  BY <1>1, <1>8, SendServed
<1> QED
  BY <1>2, <1>3, <1>4, <1>5, <1>6, <1>7, <1>8 DEF Next, Client, Server

LEMMA InitParsed == Init => SInv
<1> SUFFICES ASSUME Init
             PROVE  SInv
  OBVIOUS
<1>1. IInv
  BY InitInv
<1>2. /\ kind \in {"control", "event"} /\ msgs = <<>> /\ text = <<>> /\ phase = "request"
      /\ line = <<>> /\ req = Fresh /\ served = <<>> /\ gone = FALSE
      /\ up.got = <<>> /\ up.written = 0
  BY DEF Init, Up!InitAs
<1>3. Layout
  BY <1>2 DEF Layout, Edge
<1>4. Stands
  <2>1. Pos = 0
    BY <1>2 DEF Pos, Start, Edge
  <2> QED
    BY <1>2, <2>1 DEF Stands, AtRequest, InLine
<1>5. ServedAsSent /\ served \in Seq(Request)
  BY <1>2 DEF ServedAsSent
<1> QED
  BY <1>1, <1>2, <1>3, <1>4, <1>5 DEF SInv, Parsed

(* The server serves the requests that were sent, in their order, whole: whatever   *)
(* the bodies hold, however the text is cut into writes, frames and reads, and      *)
(* however many bytes of a line or of a body each read gives.  What follows a       *)
(* request cut by a failed read or by BodyLimit is excepted, and of the last        *)
(* command of an event connection that ends inside its body only a beginning.       *)
THEOREM ServesAsSent == Spec => []ServedAsSent
<1>1. SInv => ServedAsSent
  BY DEF SInv, Parsed, ServedAsSent
<1> QED
  BY <1>1, InitParsed, StepParsed, PTL DEF Spec
================================================================================
