---------------------------- MODULE ControlChannel_proofs ----------------------------
(***************************************************************************)
(* Proofs about ControlChannel: the two ends of the control connection     *)
(* agree on the keys, no request is refused by the framing, credentials    *)
(* are saved only when registered, and the answer that is accepted is the  *)
(* answer to the request, whatever the numbers of faults and polls.        *)
(*                                                                         *)
(* The last part is about the receiver in it: what the sender writes are   *)
(* requests of ReceiverSession (TInv), so the receiver's steps here are    *)
(* steps of that module, and its theorems hold of it.                      *)
(***************************************************************************)
EXTENDS ControlChannel, SequenceTheorems, TLAPS

\* The requests after which an error ends or restarts the exchange, so that no
\* answer is ever in flight but the current one.
Guarded == {"info", "rV1", "rV3", "M3", "M5", "V1", "V3", "fp1", "fp3", "setupA", "setupV",
            "record", "feedback"}

\* Where the sender may be only when it encrypts.
Late == {"fp1", "fp3", "setupA", "setupV", "record", "feedback", "vol1", "vol2", "stream",
         "poll", "teardown", "done"}

\* Up to M1: late answers may be in flight, but none is an M2.
Loosely == {"info", "rV1", "rV3", "rRaw", "pin", "M1"}

\* What the sender asks in plaintext.
Opening == {"info", "V1", "V3", "badverify", "pinstart", "M1", "M3", "M5"}

IsSeq(s) == \E S : s \in Seq(S)

Framed(f) == "msg" \in DOMAIN f /\ "body" \in DOMAIN f.msg

Shapes ==
    /\ IsSeq(up) /\ IsSeq(down) /\ cseq \in Nat
    /\ nonce \in [sw : Nat, sr : Nat, rw : Nat, rr : Nat]
    /\ \A i \in DOMAIN down : Framed(down[i])

\* Only this sender's new key is ever registered, under its new identity.
Registered ==
    /\ transients = [c \in Ends |-> 0]
    /\ controllers \in [Ends -> {0, 2}] /\ controllers[1] = 0
    /\ setup = [id |-> setup.id, proved |-> setup.proved, transient |-> FALSE]

Waits == acc # "idle" => pc \in Requesting

\* The modes of the two ends: both plain; the receiver in HAP with its answer to V3
\* on the way, or lost to a failed sender; both in HAP under one secret.
Modes ==
    /\ ~enc.hap => enc = R!Plain /\ nonce.rr = 0 /\ pc \notin Late
    /\ enc.hap => /\ enc = io /\ pc \in Late \cup {"failed"}
                  /\ alive => nonce.sw = nonce.rr + Len(up)
    /\ ~io.hap => io = R!Plain /\ ~verified
    /\ io.hap => verified /\ session.who = 2 /\ controllers[2] = 2 /\ signing = 2
    /\ io.hap /\ ~enc.hap => /\ alive => up = <<>>
                             /\ pc \in {"V3", "failed"} /\ (pc = "V3" => acc # "idle")

\* The saved key signs until pair_with_pin makes a new one.
Signing ==
    /\ signing \in Ends
    /\ pc \in {"info", "rV1", "rV3", "rRaw", "pin"} => signing = 1
    /\ pc \in {"M3", "M5", "V1", "V3"} \cup Late => signing = 2
    /\ pc = "M1" /\ acc # "idle" => signing = 2

RightFrame(f, n) == f.hap = io.hap /\ f.id = io.id /\ f.eph = io.eph /\ (io.hap => f.n = n)

Asked(m) ==
    /\ m.op \in {"V1", "M1"} => m.good
    /\ m.op = "M5" => m.who = 2 /\ m.key = 2
    /\ m.op = "V3" => m.who = m.key /\ m.who \in Ends

\* Every request in flight opens when its turn comes, and the one that may verify,
\* V3 signed by the new key, is in flight alone.
UpOK ==
    alive => \A i \in DOMAIN up :
        /\ RightFrame(up[i], nonce.rr + i - 1)
        /\ io.hap => up[i].msg.op \in R!SessionOps
        /\ ~io.hap => up[i].msg.op \in Opening /\ Asked(up[i].msg)
        /\ up[i].msg.op = "V3" /\ up[i].msg.who = 2 =>
             /\ Len(up) = 1 /\ pc \in {"V3", "failed"} /\ signing = 2
             /\ pc = "V3" => acc # "idle"

EndsAnswer(f) == f.part = "body" \/ f.msg.body = "empty"

\* At a guarded request at most it or its answer is in flight, whole but for the
\* parts already read; a V3 of the saved key fails, and one of the new key that did
\* not fail left the receiver in HAP under the exchange the sender knows.
Sync ==
    pc \in Guarded =>
        /\ acc \in {"idle", "wait", "head"}
        /\ acc = "idle" => down = <<>> /\ (alive => up = <<>>)
        /\ acc = "head" => (alive => up = <<>>)
        /\ alive /\ up # <<>> => /\ Len(up) = 1 /\ up[1].seq = cseq
                                 /\ up[1].msg = RequestAt(pc) /\ down = <<>>
        /\ \A i \in DOMAIN down :
             /\ down[i].seq = cseq
             /\ down[i].part = IF acc = "wait" /\ i = 1 THEN "head" ELSE "body"
             /\ EndsAnswer(down[i]) <=> i = Len(down)
             /\ pc = "rV3" => down[i].msg.body = "err"
             /\ pc = "V3" /\ down[i].msg.body # "err" =>
                  io = [hap |-> TRUE, id |-> mem.vid, eph |-> mem.eph]

\* Before pair-setup late answers may pile up, but an M2 answers the current M1.
Loose ==
    pc \in Loosely =>
        /\ \A i \in DOMAIN down : down[i].msg.body = "M2" =>
             /\ pc = "M1" /\ acc # "idle" /\ down[i].seq = cseq /\ (alive => up = <<>>)
             /\ down[i].part = "body" => i = Len(down)
        /\ alive => \A i \in DOMAIN up : up[i].msg.op = "M1" =>
             pc = "M1" /\ acc # "idle" /\ i = Len(up) /\ up[i].seq = cseq

\* The inductive invariant.
CInv == Shapes /\ Registered /\ Waits /\ Modes /\ Signing /\ UpOK /\ Sync /\ Loose
--------------------------------------------------------------------------------
(* Sequences                                                               *)

LEMMA SeqFacts ==
    ASSUME NEW s, IsSeq(s)
    PROVE  /\ Len(s) \in Nat /\ DOMAIN s = 1..Len(s)
           /\ (s = <<>>) <=> (Len(s) = 0)
           /\ s # <<>> => Head(s) = s[1] /\ 1 \in DOMAIN s
<1>1. PICK S : s \in Seq(S)  BY DEF IsSeq
<1>2. Len(s) \in Nat /\ DOMAIN s = 1..Len(s)  BY <1>1, LenProperties
<1>3. (s = <<>>) <=> (Len(s) = 0)  BY <1>1, EmptySeq
<1>4. s # <<>> => Head(s) = s[1] /\ 1 \in DOMAIN s  BY <1>1, <1>2, <1>3, HeadTailProperties
<1> QED  BY <1>2, <1>3, <1>4

LEMMA Appended ==
    ASSUME NEW s, IsSeq(s), NEW e
    PROVE  /\ IsSeq(Append(s, e))
           /\ Len(Append(s, e)) = Len(s) + 1
           /\ \A i \in DOMAIN s : Append(s, e)[i] = s[i]
           /\ Append(s, e)[Len(s) + 1] = e
<1>1. PICK S : s \in Seq(S)  BY DEF IsSeq
<1>2. s \in Seq(S \cup {e})  BY <1>1
<1>3. Append(s, e) \in Seq(S \cup {e})  BY <1>2, AppendProperties
<1>4. Len(Append(s, e)) = Len(s) + 1  BY <1>2, AppendProperties
<1>5. \A i \in DOMAIN s : Append(s, e)[i] = s[i]  BY <1>2, AppendProperties, SeqFacts
<1>6. Append(s, e)[Len(s) + 1] = e  BY <1>2, AppendProperties
<1> QED  BY <1>3, <1>4, <1>5, <1>6 DEF IsSeq

LEMMA Shortened ==
    ASSUME NEW s, IsSeq(s), s # <<>>
    PROVE  /\ IsSeq(Tail(s))
           /\ Len(Tail(s)) = Len(s) - 1
           /\ \A i \in DOMAIN Tail(s) : i + 1 \in DOMAIN s /\ Tail(s)[i] = s[i + 1]
<1>1. PICK S : s \in Seq(S)  BY DEF IsSeq
<1>2. Tail(s) \in Seq(S) /\ Len(Tail(s)) = Len(s) - 1  BY <1>1, HeadTailProperties
<1>3. \A i \in 1 .. Len(Tail(s)) : Tail(s)[i] = s[i + 1]  BY <1>1, HeadTailProperties
<1>4. DOMAIN Tail(s) = 1 .. Len(Tail(s)) /\ DOMAIN s = 1 .. Len(s) /\ Len(s) \in Nat
  BY <1>1, <1>2, LenProperties
<1>5. \A i \in DOMAIN Tail(s) : i + 1 \in DOMAIN s /\ Tail(s)[i] = s[i + 1]  BY <1>2, <1>3, <1>4
<1> QED  BY <1>2, <1>5 DEF IsSeq

LEMMA Joined ==
    ASSUME NEW s, IsSeq(s), NEW t, IsSeq(t)
    PROVE  /\ IsSeq(s \o t)
           /\ Len(s \o t) = Len(s) + Len(t)
           /\ \A i \in DOMAIN (s \o t) :
                \/ i \in DOMAIN s /\ (s \o t)[i] = s[i]
                \/ i - Len(s) \in DOMAIN t /\ (s \o t)[i] = t[i - Len(s)]
           /\ s = <<>> => s \o t = t
<1>1. PICK S : s \in Seq(S)  BY DEF IsSeq
<1>2. PICK T : t \in Seq(T)  BY DEF IsSeq
<1>3. s \in Seq(S \cup T) /\ t \in Seq(S \cup T)  BY <1>1, <1>2
<1>4. s \o t \in Seq(S \cup T) /\ Len(s \o t) = Len(s) + Len(t)  BY <1>3, ConcatProperties
<1>5. \A i \in 1 .. Len(s) + Len(t) : (s \o t)[i] = IF i <= Len(s) THEN s[i] ELSE t[i - Len(s)]
  BY <1>3, ConcatProperties
<1>6. DOMAIN (s \o t) = 1 .. Len(s) + Len(t)  BY <1>4, LenProperties
<1>7. ASSUME NEW i \in DOMAIN (s \o t)
      PROVE  \/ i \in DOMAIN s /\ (s \o t)[i] = s[i]
             \/ i - Len(s) \in DOMAIN t /\ (s \o t)[i] = t[i - Len(s)]
  <2>1. i \in 1 .. Len(s) + Len(t) /\ Len(s) \in Nat /\ Len(t) \in Nat /\ DOMAIN s = 1 .. Len(s)
        /\ DOMAIN t = 1 .. Len(t)
    BY <1>3, <1>6, <1>7, LenProperties
  <2>2. (s \o t)[i] = IF i <= Len(s) THEN s[i] ELSE t[i - Len(s)]  BY <2>1, <1>5
  <2>3. CASE i <= Len(s)  BY <2>1, <2>2, <2>3
  <2>4. CASE ~(i <= Len(s))
    <3>1. i - Len(s) \in 1 .. Len(t)  BY <2>1, <2>4
    <3> QED  BY <2>1, <2>2, <2>4, <3>1
  <2> QED  BY <2>3, <2>4
<1>8. s = <<>> => s \o t = t  BY <1>3, ConcatEmptySeq
<1> QED  BY <1>4, <1>7, <1>8 DEF IsSeq

LEMMA Patched ==
    ASSUME NEW s, IsSeq(s), s # <<>>, NEW e
    PROVE  /\ IsSeq([s EXCEPT ![1] = e])
           /\ \A i \in DOMAIN [s EXCEPT ![1] = e] :
                /\ i \in DOMAIN s
                /\ [s EXCEPT ![1] = e][i] = s[i] \/ (i = 1 /\ [s EXCEPT ![1] = e][i] = e)
<1>1. PICK S : s \in Seq(S)  BY DEF IsSeq
<1>2. s \in Seq(S \cup {e})  BY <1>1
<1>3. [s EXCEPT ![1] = e] \in Seq(S \cup {e})  BY <1>2, ExceptSeq
<1>4. \A i \in DOMAIN [s EXCEPT ![1] = e] :
                /\ i \in DOMAIN s
                /\ [s EXCEPT ![1] = e][i] = s[i] \/ (i = 1 /\ [s EXCEPT ![1] = e][i] = e)
  OBVIOUS
<1> QED  BY <1>3, <1>4 DEF IsSeq

--------------------------------------------------------------------------------
(* Requests, answers and the frames that carry them                       *)

\* What the sender's requests carry.
LEMMA RequestFacts ==
    ASSUME NEW p \in Requesting, signing \in Ends
    PROVE  /\ p \in Late => RequestAt(p).op \in R!SessionOps
           /\ p \notin Late => RequestAt(p).op \in Opening
           /\ RequestAt(p).op \in {"V1", "M1"} => RequestAt(p).good
           /\ RequestAt(p).op = "M5" => p = "M5" /\ RequestAt(p).who = signing /\ RequestAt(p).key = signing
           /\ RequestAt(p).op = "V3" <=> p \in {"rV3", "V3"}
           /\ RequestAt(p).op = "V3" => RequestAt(p).who = signing /\ RequestAt(p).key = signing
           /\ RequestAt(p).op = "V3" => RequestAt(p).id = mem.vid /\ RequestAt(p).eph = mem.eph
           /\ RequestAt(p).op = "M1" <=> p = "M1"
<1> USE DEF Requesting, Late, Opening, R!Request, R!SessionOps, Ends
<1>1. CASE p \in {"rV1", "V1"}  BY <1>1 DEF RequestAt
<1>2. CASE p \in {"rV3", "V3"}  BY <1>2 DEF RequestAt
<1>3. CASE p \in {"rRaw", "pin"}  BY <1>3 DEF RequestAt
<1>4. CASE p \in {"M3", "M5"}  BY <1>4 DEF RequestAt
<1>5. CASE p \in {"setupA", "setupV", "record", "feedback", "poll"}  BY <1>5 DEF RequestAt
<1>6. CASE p \in {"vol1", "vol2", "teardown"}  BY <1>6 DEF RequestAt
<1>7. CASE p \in {"info", "M1", "fp1", "fp3"}
  <2>1. RequestAt(p) = R!Request(p)  BY <1>7 DEF RequestAt
  <2> QED  BY <1>7, <2>1
<1> QED  BY <1>1, <1>2, <1>3, <1>4, <1>5, <1>6, <1>7

PairVars == <<setup, transients, controllers, session, verified, io>>

\* The receiver outside of HAP: registrations stay the sender's own, and only the
\* V3 that its own key signs verifies.
LEMMA ServePlain ==
    ASSUME Registered, ~io.hap, io = R!Plain, ~verified,
           NEW m, m.op \in Opening, Asked(m), R!Serve(m)
    PROVE  /\ Registered'
           /\ controllers[2] = 2 => controllers'[2] = 2
           /\ reply'.body = "M2" => m.op = "M1"
           /\ \/ io' = io /\ ~verified' /\ (m.op = "V3" => reply'.body = "err")
              \/ /\ m.op = "V3" /\ m.who = 2
                 /\ io' = [hap |-> TRUE, id |-> m.id, eph |-> m.eph]
                 /\ verified' /\ session'.who = 2 /\ controllers'[2] = 2
<1> USE DEF R!Serve, R!Dispatch, R!EnableHap, R!pairingVars, R!Refuse, R!Answer
<1>1. m.op \notin R!SessionOps  BY DEF Opening, R!SessionOps
<1>2. ~R!RefuseSession(m) /\ ~R!FpSetup(m) /\ ~R!Setup(m) /\ ~R!OtherSession(m)
  BY <1>1 DEF R!RefuseSession, R!FpSetup, R!Setup, R!OtherSession, R!Admitted, R!SessionOps
<1>3. CASE m.op \in {"info", "pinstart"}
  <2>1. ~R!PairSetup(m) /\ ~R!PairVerify(m)
    BY <1>3 DEF R!PairSetup, R!RawPairSetup, R!RefuseM1, R!BeginSrpSetup, R!VerifySrpProof,
                R!FinishSrpSetup, R!PairVerify, R!BeginHapVerify, R!FinishHapVerify
  <2>2. R!Stateless(m) /\ UNCHANGED R!pairingVars /\ keys' = FALSE  BY <1>2, <2>1
  <2> QED  BY <1>3, <2>2 DEF R!Stateless, Registered
<1>4. CASE m.op \in {"M1", "M3", "M5"}
  <2>1. ~R!PairVerify(m) /\ ~R!Stateless(m)
    BY <1>4 DEF R!PairVerify, R!BeginHapVerify, R!FinishHapVerify, R!Stateless
  <2>2. R!PairSetup(m) /\ keys' = FALSE  BY <1>2, <2>1 DEF R!PairSetup
  <2>3. io' = io  BY <2>2
  <2>4. CASE m.op = "M1"
    <3>1. R!BeginSrpSetup(m)
      BY <2>2, <2>4 DEF R!PairSetup, R!RawPairSetup, R!RefuseM1, R!BeginSrpSetup, R!VerifySrpProof,
                R!FinishSrpSetup, Asked, R!NeedsPin
    <3>2. setup' = [id |-> draws', proved |-> FALSE, transient |-> FALSE]
          /\ UNCHANGED <<transients, controllers>> /\ ~verified'
      BY <3>1, <2>4 DEF R!BeginSrpSetup, R!ForgetSession
    <3> QED  BY <2>3, <2>4, <3>2 DEF Registered
  <2>5. CASE m.op = "M3"
    <3>1. R!VerifySrpProof(m)
      BY <2>2, <2>5 DEF R!PairSetup, R!RawPairSetup, R!RefuseM1, R!BeginSrpSetup, R!VerifySrpProof,
                R!FinishSrpSetup, Asked, R!NeedsPin
    <3>2. UNCHANGED <<transients, controllers, verified>> /\ reply'.body \in {"err", "M4"}
      BY <3>1, <2>5 DEF R!VerifySrpProof
    <3>3. setup' = [id |-> setup'.id, proved |-> setup'.proved, transient |-> FALSE]
      BY <3>1, <2>5 DEF R!VerifySrpProof, R!NoSetup, Registered
    <3> QED  BY <2>3, <2>5, <3>2, <3>3 DEF Registered
  <2>6. CASE m.op = "M5"
    <3>1. R!FinishSrpSetup(m)
      BY <2>2, <2>6 DEF R!PairSetup, R!RawPairSetup, R!RefuseM1, R!BeginSrpSetup, R!VerifySrpProof,
                R!FinishSrpSetup, Asked, R!NeedsPin
    <3>2. UNCHANGED <<transients, verified>> /\ reply'.body \in {"err", "M6"}
      BY <3>1, <2>6 DEF R!FinishSrpSetup, Registered
    <3>3. setup' = [id |-> setup'.id, proved |-> setup'.proved, transient |-> FALSE]
      BY <3>1, <2>6 DEF R!FinishSrpSetup, R!NoSetup, Registered
    <3>4. controllers' = controllers \/ controllers' = [controllers EXCEPT ![2] = 2]
      BY <3>1, <2>6 DEF R!FinishSrpSetup, Registered, Asked
    <3>5. controllers' \in [Ends -> {0, 2}] /\ controllers'[1] = 0
          /\ (controllers[2] = 2 => controllers'[2] = 2)
      BY <3>4 DEF Registered, Ends
    <3> QED  BY <2>3, <2>6, <3>2, <3>3, <3>5 DEF Registered
  <2> QED  BY <1>4, <2>4, <2>5, <2>6
<1>5. CASE m.op \in {"V1", "V3", "badverify"}
  <2>1. ~R!PairSetup(m) /\ ~R!Stateless(m)
    BY <1>5 DEF R!PairSetup, R!RawPairSetup, R!RefuseM1, R!BeginSrpSetup, R!VerifySrpProof,
                R!FinishSrpSetup, R!Stateless
  <2>2. R!PairVerify(m)  BY <1>2, <2>1
  <2>3. CASE m.op = "badverify"
    BY <2>2, <2>3 DEF R!PairVerify, R!BeginHapVerify, R!FinishHapVerify, Registered
  <2>4. CASE m.op = "V1"
    <3>1. UNCHANGED <<setup, transients, controllers>> /\ ~verified' /\ keys' = FALSE
          /\ reply'.body = "V2"
      BY <2>2, <2>4 DEF R!PairVerify, R!BeginHapVerify, R!FinishHapVerify, R!ForgetSession, Asked
    <3> QED  BY <2>4, <3>1 DEF Registered
  <2>5. CASE m.op = "V3"
    <3>1. R!FinishHapVerify(m)
      BY <2>2, <2>5 DEF R!PairVerify, R!BeginHapVerify
    <3>2. UNCHANGED <<setup, transients, controllers>> /\ keys' = verified'
          /\ reply'.body \in {"err", "V4"}
      BY <3>1, <2>5 DEF R!FinishHapVerify
    <3>3. CASE verify # R!NoVerify /\ R!ProvesIdentity(m)
      <4>1. session' = [id |-> verify.id, eph |-> verify.eph, who |-> m.who] /\ verified' = TRUE
        BY <3>1, <3>3 DEF R!FinishHapVerify
      <4>2. m.id = verify.id /\ m.eph = verify.eph /\ R!KeyOf(m.who) # 0 /\ R!KeyOf(m.who) = m.key
        BY <3>3 DEF R!ProvesIdentity
      <4>3. m.who = 2 /\ controllers[2] = 2
        BY <4>2, <2>5 DEF R!KeyOf, Registered, Asked, Ends
      <4>4. io' = [hap |-> TRUE, id |-> m.id, eph |-> m.eph]
        BY <3>2, <4>1, <4>2
      <4> QED  BY <2>5, <3>2, <4>1, <4>3, <4>4 DEF Registered
    <3>4. CASE ~(verify # R!NoVerify /\ R!ProvesIdentity(m))
      <4>1. verified' = verified /\ reply'.body = "err"
        BY <3>1, <3>4, <2>5 DEF R!FinishHapVerify
      <4> QED  BY <3>2, <4>1, <2>5 DEF Registered
    <3> QED  BY <3>3, <3>4
  <2> QED  BY <1>5, <2>3, <2>4, <2>5
<1> QED  BY <1>3, <1>4, <1>5 DEF Opening

\* The receiver in HAP: the requests of a session change no pairing state.
LEMMA ServeSession ==
    ASSUME verified, NEW m, m.op \in R!SessionOps, R!Serve(m)
    PROVE  UNCHANGED PairVars
<1>1. ~R!PairSetup(m) /\ ~R!PairVerify(m)
  BY DEF R!SessionOps, R!PairSetup, R!RawPairSetup, R!RefuseM1, R!BeginSrpSetup, R!VerifySrpProof,
              R!FinishSrpSetup, R!PairVerify, R!BeginHapVerify, R!FinishHapVerify
<1>2. UNCHANGED R!pairingVars /\ keys' = FALSE  BY <1>1 DEF R!Serve, R!Dispatch
<1> QED  BY <1>2 DEF R!Serve, R!EnableHap, R!pairingVars, PairVars

\* What a timeout leaves of a part still is a part, and of no other answer.
LEMMA CutFacts == ASSUME NEW g, Framed(g), NEW f, f \in Cuts(g) PROVE Framed(f) /\ (f.msg.body = "M2" => g.msg.body = "M2")
<1>1. CASE f = [g EXCEPT !.part = "torn"] \/ f = [g EXCEPT !.part = "cut"] \/ f = [g EXCEPT !.part = "body"]
  <2>1. DOMAIN f = DOMAIN g  BY <1>1
  <2>2. f.msg = g.msg  BY <1>1 DEF Framed
  <2> QED  BY <2>1, <2>2 DEF Framed
<1>2. CASE f = [g EXCEPT !.part = "cut", !.msg.body = "empty"]
  <2>1. f.msg = [g.msg EXCEPT !.body = "empty"] BY <1>2 DEF Framed
  <2>2. "body" \in DOMAIN f.msg /\ f.msg.body = "empty" BY <2>1 DEF Framed
  <2>3. "msg" \in DOMAIN f BY <1>2 DEF Framed
  <2> QED BY <2>2, <2>3 DEF Framed
<1> QED BY <1>1, <1>2 DEF Cuts

\* Every request gets an answer with a body.
LEMMA ReplyFramed == ASSUME NEW m, R!Serve(m) PROVE "body" \in DOMAIN reply'
<1> DEFINE Rec == \E s, b, i, e : reply' = [status |-> s, body |-> b, id |-> i, eph |-> e]
<1>1. R!PairSetup(m) => Rec
  BY DEF R!PairSetup, R!RawPairSetup, R!RefuseM1, R!BeginSrpSetup, R!VerifySrpProof,
              R!FinishSrpSetup, R!Refuse, R!Answer
<1>2. R!PairVerify(m) => Rec BY DEF R!PairVerify, R!BeginHapVerify, R!FinishHapVerify, R!Refuse, R!Answer
<1>3. R!RefuseSession(m) \/ R!FpSetup(m) \/ R!Setup(m) \/ R!OtherSession(m) \/ R!Stateless(m) => Rec
 BY DEF R!RefuseSession, R!FpSetup, R!Setup, R!OtherSession, R!Stateless, R!Answer
<1>4. Rec BY <1>1, <1>2, <1>3 DEF R!Serve, R!Dispatch
<1> QED BY <1>4
LEMMA SealFramed == ASSUME NEW m, NEW n, NEW p, NEW s, NEW r, "body" \in DOMAIN r PROVE Framed(Seal(m,n,p,s,r))
BY DEF Framed, Seal

--------------------------------------------------------------------------------
(* The steps                                                               *)

\* The sender gives up on a response.
LEMMA FailStep ==
    ASSUME CInv, acc # "idle", Fail,
           UNCHANGED <<receiverVars, run, cseq, signing, up, alive>>,
           UNCHANGED nonce \/ CountRead,
           IsSeq(down'), \A i \in DOMAIN down' : Framed(down'[i]),
           \A i \in DOMAIN down' : down'[i].msg.body = "M2" =>
                \E j \in DOMAIN down : down[j].msg.body = "M2"
    PROVE  CInv'
<1> USE DEF CInv, receiverVars
<1>1. pc \in Requesting /\ acc' = "idle" /\ pc' = AfterError(pc) /\ UNCHANGED <<mem, enc>>
  BY DEF Waits, Fail
<1>2. /\ pc \in {"rV1", "rV3"} => pc' = "rRaw"
      /\ pc = "rRaw" => pc' = "pin"
      /\ pc = "pin" => pc' = "M1"
      /\ pc = "vol1" => pc' = "vol2"
      /\ pc = "vol2" => pc' = "stream"
      /\ pc = "teardown" => pc' = "done"
      /\ pc \notin {"rV1", "rV3", "rRaw", "pin", "vol1", "vol2", "teardown"} => pc' = "failed"
  BY <1>1 DEF AfterError
<1>3. nonce' \in [sw : Nat, sr : Nat, rw : Nat, rr : Nat] /\ nonce'.sw = nonce.sw /\ nonce'.rr = nonce.rr
  BY DEF Shapes, CountRead
<1>4. Shapes'  BY <1>3 DEF Shapes, Framed
<1>5. Registered'  BY DEF Registered
<1>6. Waits'  BY <1>1 DEF Waits
<1>7. Modes'  BY <1>1, <1>2, <1>3 DEF Modes, Late, Requesting
<1>8. Signing'  BY <1>1, <1>2 DEF Signing, Late, Requesting
<1>9. UpOK'
  <2> QED  BY <1>1, <1>2, <1>3 DEF UpOK, RightFrame
<1>10. Sync'  BY <1>1, <1>2 DEF Sync, Guarded, Requesting
<1>11. Loose'
  <2> SUFFICES ASSUME pc' \in Loosely  PROVE Loose'  BY DEF Loose
  <2>1. pc \in Loosely /\ pc # "M1"  BY <1>1, <1>2 DEF Loosely, Requesting
  <2>2. \A i \in DOMAIN down' : down'[i].msg.body # "M2"  BY <2>1 DEF Loose
  <2>3. alive => \A i \in DOMAIN up : up[i].msg.op # "M1"  BY <2>1 DEF Loose
  <2> QED  BY <2>2, <2>3 DEF Loose
<1> QED  BY <1>4, <1>5, <1>6, <1>7, <1>8, <1>9, <1>10, <1>11

LEMMA SendStep == CInv /\ Send => CInv'
<1> SUFFICES ASSUME CInv, Send  PROVE CInv'  OBVIOUS
<1> USE DEF CInv, receiverVars
<1> DEFINE q == RequestAt(pc)
           f == Seal(enc, nonce.sw, "req", cseq', q)
<1>1. /\ pc \in Requesting /\ acc = "idle" /\ acc' = "wait" /\ cseq' = cseq + 1 /\ up' = Append(up, f)
      /\ UNCHANGED <<receiverVars, run, pc, enc, down, alive>>
      /\ signing' = (IF pc = "M1" THEN 2 ELSE signing)
  BY DEF Send
<1>2. /\ nonce' \in [sw : Nat, sr : Nat, rw : Nat, rr : Nat] /\ nonce'.rr = nonce.rr
      /\ enc.hap => nonce'.sw = nonce.sw + 1
  BY DEF Send, Shapes
<1>3. f.hap = enc.hap /\ f.id = enc.id /\ f.eph = enc.eph /\ (enc.hap => f.n = nonce.sw)
      /\ f.seq = cseq' /\ f.msg = q
  BY DEF Seal
<1> HIDE DEF f
<1>4. IsSeq(up) /\ IsSeq(up') /\ Len(up) \in Nat /\ Len(up') = Len(up) + 1 /\ DOMAIN up = 1..Len(up)
      /\ DOMAIN up' = 1..Len(up') /\ \A i \in DOMAIN up : up'[i] = up[i]
  BY <1>1, Appended, SeqFacts DEF Shapes
<1>5. up'[Len(up')] = f  BY <1>1, <1>4, Appended
<1>6. \A i \in DOMAIN up' : i \in DOMAIN up \/ i = Len(up')  BY <1>4
<1>7. io.hap => enc.hap  BY <1>1 DEF Modes, Requesting
<1>8. enc.hap \/ (enc = R!Plain /\ io = R!Plain)  BY <1>7 DEF Modes
<1>9. enc = io  BY <1>8 DEF Modes
<1>10. (enc.hap => pc \in Late) /\ (~enc.hap => pc \notin Late)  BY <1>1 DEF Modes, Requesting
<1>11. /\ signing \in Ends
       /\ enc.hap => q.op \in R!SessionOps
       /\ ~enc.hap => q.op \in Opening
       /\ q.op \in {"V1", "M1"} => q.good
       /\ q.op = "M5" => pc = "M5" /\ q.who = signing /\ q.key = signing
       /\ q.op = "V3" <=> pc \in {"rV3", "V3"}
       /\ q.op = "V3" => q.who = signing /\ q.key = signing
       /\ q.op = "M1" <=> pc = "M1"
  BY <1>1, <1>10, RequestFacts DEF Signing
<1>12. pc \in Guarded => RequestAt(pc)' = q
  BY <1>1 DEF Send, Guarded, RequestAt, Ephemeral
<1> HIDE DEF q
<1>20. Shapes'  BY <1>1, <1>2, <1>4 DEF Shapes, Framed
<1>21. Registered'  BY <1>1 DEF Registered
<1>22. Waits'  BY <1>1 DEF Waits
<1>23. Modes'
  <2>1. io.hap => signing' = 2  BY <1>1 DEF Modes
  <2>2. enc.hap => (alive => nonce'.sw = nonce'.rr + Len(up'))
    BY <1>2, <1>4 DEF Modes, Shapes
  <2> QED  BY <1>1, <1>2, <1>7, <1>9, <2>1, <2>2 DEF Modes
<1>24. Signing'  BY <1>1 DEF Signing, Ends
<1>25. UpOK'
  <2> SUFFICES ASSUME alive', NEW i \in DOMAIN up'
               PROVE  /\ RightFrame(up[i], nonce.rr + i - 1)'
                      /\ io'.hap => up'[i].msg.op \in R!SessionOps
                      /\ ~io'.hap => up'[i].msg.op \in Opening /\ Asked(up'[i].msg)
                      /\ up'[i].msg.op = "V3" /\ up'[i].msg.who = 2 =>
                          Len(up') = 1 /\ pc' \in {"V3", "failed"} /\ signing' = 2 /\ (pc' = "V3" => acc' # "idle")
    BY DEF UpOK
  <2>1. CASE i \in DOMAIN up
    <3>1. up'[i] = up[i] /\ alive /\ io' = io /\ nonce'.rr = nonce.rr  BY <1>1, <1>2, <1>4, <2>1
    <3>2. ~(up[i].msg.op = "V3" /\ up[i].msg.who = 2)
      BY <1>1, <2>1, <3>1 DEF UpOK, Requesting
    <3> QED  BY <2>1, <3>1, <3>2 DEF UpOK, RightFrame
  <2>2. CASE i = Len(up')
    <3>1. up'[i] = f /\ alive /\ io' = io  BY <1>1, <1>5, <2>2
    <3>2. enc.hap => f.n = nonce'.rr + i - 1
      <4>1. enc.hap => f.n = nonce.rr + Len(up)  BY <1>3, <3>1 DEF Modes
      <4> QED  BY <4>1, <1>2, <1>4, <2>2 DEF Shapes
    <3>3. RightFrame(up[i], nonce.rr + i - 1)'
      BY <3>1, <3>2, <1>3, <1>9 DEF RightFrame
    <3>4. Asked(q)  BY <1>11, <1>1 DEF Asked, Signing
    <3>5. q.op = "V3" /\ q.who = 2 => Len(up') = 1 /\ pc = "V3" /\ signing = 2
      <4> SUFFICES ASSUME q.op = "V3", q.who = 2  PROVE Len(up') = 1 /\ pc = "V3" /\ signing = 2
        OBVIOUS
      <4>1. signing = 2 /\ pc = "V3"  BY <1>11 DEF Signing
      <4>2. up = <<>>  BY <4>1, <1>1, <3>1 DEF Sync, Guarded
      <4> QED  BY <4>1, <4>2, <1>4, SeqFacts
    <3> QED  BY <3>1, <3>3, <3>4, <3>5, <1>1, <1>3, <1>9, <1>11
  <2> QED  BY <1>6, <2>1, <2>2
<1>26. Sync'
  <2> SUFFICES ASSUME pc' \in Guarded  PROVE Sync'  BY DEF Sync
  <2>1. pc \in Guarded /\ down' = <<>> /\ (alive => up = <<>>)  BY <1>1 DEF Sync
  <2>2. alive' => Len(up') = 1 /\ up'[1].seq = cseq' /\ up'[1].msg = RequestAt(pc)'
    BY <2>1, <1>1, <1>3, <1>4, <1>5, <1>12, SeqFacts
  <2> QED  BY <2>1, <2>2, <1>1 DEF Sync
<1>27. Loose'
  <2> SUFFICES ASSUME pc' \in Loosely  PROVE Loose'  BY DEF Loose
  <2>1. \A i \in DOMAIN down' : down'[i].msg.body # "M2"  BY <1>1 DEF Loose
  <2>2. ASSUME alive', NEW i \in DOMAIN up', up'[i].msg.op = "M1"
        PROVE  pc' = "M1" /\ acc' # "idle" /\ i = Len(up') /\ up'[i].seq = cseq'
    <3>1. i \notin DOMAIN up
      <4> SUFFICES ASSUME i \in DOMAIN up  PROVE FALSE  OBVIOUS
      <4> QED  BY <1>1, <1>4, <2>2 DEF Loose
    <3> QED  BY <3>1, <1>1, <1>3, <1>5, <1>6, <1>11, <2>2
  <2> QED  BY <2>1, <2>2 DEF Loose
<1> QED  BY <1>20, <1>21, <1>22, <1>23, <1>24, <1>25, <1>26, <1>27

\* A part is read that does not complete a response.
LEMMA HoldStep ==
    ASSUME CInv, acc # "idle", down # <<>>, down' = Tail(down),
           ~Completes(Head(down)), acc' = Holds(Head(down)), CountRead,
           UNCHANGED <<receiverVars, run, pc, cseq, mem, signing, enc, up, alive>>
    PROVE  CInv'
<1> USE DEF CInv, receiverVars
<1>1. IsSeq(down') /\ Len(down') = Len(down) - 1 /\ Len(down) \in Nat /\ Head(down) = down[1]
      /\ 1 \in DOMAIN down /\ DOMAIN down = 1..Len(down)
      /\ \A i \in DOMAIN down' : i + 1 \in DOMAIN down /\ down'[i] = down[i + 1]
  BY Shortened, SeqFacts DEF Shapes
<1>2. DOMAIN down' = 1..Len(down') /\ (down' = <<>> <=> Len(down') = 0)  BY <1>1, SeqFacts
<1>3. nonce' \in [sw : Nat, sr : Nat, rw : Nat, rr : Nat] /\ nonce'.sw = nonce.sw /\ nonce'.rr = nonce.rr
  BY DEF Shapes, CountRead
<1>4. /\ acc' \in {"head", "junk", "bad"}
      /\ acc = "wait" /\ down[1].part = "head" => acc' = "head"
  BY <1>1 DEF Holds
<1>5. /\ down[1].part = "body" => acc \notin {"head", "bad"}
      /\ down[1].part # "body" => down[1].msg.body # "empty"
  BY <1>1 DEF Completes
<1>10. Shapes'  BY <1>1, <1>3 DEF Shapes, Framed
<1>11. Registered'  BY DEF Registered
<1>12. Waits'  BY DEF Waits
<1>13. Modes'  BY <1>3, <1>4 DEF Modes
<1>14. Signing'  BY DEF Signing
<1>15. UpOK'  BY <1>3, <1>4 DEF UpOK, RightFrame
<1>16. Sync'
  <2> SUFFICES ASSUME pc' \in Guarded  PROVE Sync'  BY DEF Sync
  <2>1. acc \in {"wait", "head"} /\ down[1].part = (IF acc = "wait" THEN "head" ELSE "body")
        /\ (EndsAnswer(down[1]) <=> 1 = Len(down)) /\ (alive => up = <<>>)
    BY <1>1 DEF Sync
  <2>2. acc = "wait" /\ down[1].part = "head"  BY <2>1, <1>5
  <2>3. acc' = "head"  BY <2>2, <1>4
  <2>4. Len(down) # 1  BY <2>1, <2>2, <1>5 DEF EndsAnswer
  <2>5. ASSUME NEW i \in DOMAIN down'
        PROVE  /\ down'[i].seq = cseq'
               /\ down'[i].part = "body"
               /\ EndsAnswer(down'[i]) <=> i = Len(down')
               /\ pc' = "rV3" => down'[i].msg.body = "err"
               /\ pc' = "V3" /\ down'[i].msg.body # "err"
                    => io' = [hap |-> TRUE, id |-> mem'.vid, eph |-> mem'.eph]
    <3>1. i + 1 \in DOMAIN down /\ down'[i] = down[i + 1] /\ i \in Nat /\ i > 0  BY <1>1, <1>2
    <3>2. down[i + 1].seq = cseq /\ (pc = "rV3" => down[i + 1].msg.body = "err")
          /\ down[i + 1].part = (IF acc = "wait" /\ i + 1 = 1 THEN "head" ELSE "body")
          /\ (EndsAnswer(down[i + 1]) <=> i + 1 = Len(down))
          /\ (pc = "V3" /\ down[i + 1].msg.body # "err"
                    => io = [hap |-> TRUE, id |-> mem.vid, eph |-> mem.eph])
      BY <3>1 DEF Sync
    <3> QED  BY <1>1, <3>1, <3>2
  <2> QED  BY <2>1, <2>3, <2>5 DEF Sync
<1>17. Loose'
  <2> SUFFICES ASSUME pc' \in Loosely  PROVE Loose'  BY DEF Loose
  <2>1. ASSUME NEW i \in DOMAIN down', down'[i].msg.body = "M2"
        PROVE  /\ pc' = "M1" /\ acc' # "idle" /\ down'[i].seq = cseq' /\ (alive' => up' = <<>>)
               /\ down'[i].part = "body" => i = Len(down')
    <3>1. i + 1 \in DOMAIN down /\ down'[i] = down[i + 1] /\ i \in Nat  BY <1>1, <1>2
    <3>2. pc = "M1" /\ down[i + 1].seq = cseq /\ (alive => up = <<>>)
          /\ (down[i + 1].part = "body" => i + 1 = Len(down))
      BY <3>1, <2>1 DEF Loose
    <3> QED  BY <1>1, <1>4, <3>1, <3>2
  <2> QED  BY <2>1, <1>4 DEF Loose
<1> QED  BY <1>10, <1>11, <1>12, <1>13, <1>14, <1>15, <1>16, <1>17

\* The response that an accepted part completes, where the answers are in step.
LEMMA AcceptedPart ==
    ASSUME CInv, acc # "idle", down # <<>>, Completes(Head(down)), WellFormed(Head(down)),
           Accepts(pc, Head(down).msg), pc \in Guarded \cup {"M1"}
    PROVE  Head(down).seq = cseq /\ Tail(down) = <<>> /\ (alive => up = <<>>)
<1> USE DEF CInv
<1>1. IsSeq(Tail(down)) /\ Len(Tail(down)) = Len(down) - 1 /\ Len(down) \in Nat /\ Head(down) = down[1]
      /\ 1 \in DOMAIN down /\ DOMAIN down = 1..Len(down)
  BY Shortened, SeqFacts DEF Shapes
<1>9. 1 = Len(down) => Tail(down) = <<>>
  <2> SUFFICES ASSUME 1 = Len(down)  PROVE Tail(down) = <<>>  OBVIOUS
  <2>1. Len(Tail(down)) = 0  BY <1>1
  <2> QED  BY <1>1, <2>1, SeqFacts
<1>2. /\ acc \in {"wait", "head"}
      /\ down[1].part = "body" \/ down[1].msg.body = "empty"
  BY <1>1 DEF WellFormed, Completes
<1>3. CASE pc \in Guarded
  <2>1. down[1].seq = cseq /\ 1 = Len(down) /\ (alive => up = <<>>)
    BY <1>1, <1>2, <1>3 DEF Sync, EndsAnswer
  <2> QED  BY <1>1, <1>9, <2>1
<1>4. CASE pc = "M1"
  <2>1. down[1].msg.body = "M2"  BY <1>1, <1>4 DEF Accepts
  <2>2. down[1].seq = cseq /\ (alive => up = <<>>) /\ 1 = Len(down)
    BY <1>1, <1>2, <1>4, <2>1 DEF Loose, Loosely
  <2> QED  BY <1>1, <1>9, <2>2
<1> QED  BY <1>3, <1>4

LEMMA SucceedStep ==
    ASSUME CInv, acc # "idle", down # <<>>, down' = Tail(down),
           Completes(Head(down)), WellFormed(Head(down)), Accepts(pc, Head(down).msg),
           Succeed(Head(down).msg),
           UNCHANGED <<receiverVars, run, cseq, signing, up, alive>>
    PROVE  CInv'
<1> USE DEF CInv, receiverVars
<1>1. IsSeq(down') /\ Head(down) = down[1] /\ 1 \in DOMAIN down
      /\ \A i \in DOMAIN down' : i + 1 \in DOMAIN down /\ down'[i] = down[i + 1]
  BY Shortened, SeqFacts DEF Shapes
<1>2. pc \in Requesting /\ pc' \in After(pc) /\ acc' = "idle"  BY DEF Waits, Succeed
<1>3. pc # "rRaw"  BY DEF Accepts
<1>4. /\ pc = "info" => pc' \in {"rV1", "pin"}
      /\ pc = "rV1" => pc' = "rV3"
      /\ pc = "pin" => pc' = "M1"
      /\ pc = "M1" => pc' = "M3"
      /\ pc = "M3" => pc' = "M5"
      /\ pc = "M5" => pc' = "V1"
      /\ pc = "V1" => pc' = "V3"
      /\ pc \in {"rV3", "V3"} => pc' \in {"fp1", "setupA"}
      /\ pc \in Late => pc' \in Late
      /\ pc \in {"vol1", "vol2", "poll", "teardown"} => pc' \in {"vol2", "stream", "done"}
  <2>1. pc \in {"info", "rV1", "pin", "M1", "M3", "M5", "V1"} =>
          /\ pc = "info" => pc' \in {"rV1", "pin"}
          /\ pc = "rV1" => pc' = "rV3"
          /\ pc = "pin" => pc' = "M1"
          /\ pc = "M1" => pc' = "M3"
          /\ pc = "M3" => pc' = "M5"
          /\ pc = "M5" => pc' = "V1"
          /\ pc = "V1" => pc' = "V3"
    BY <1>2 DEF After
  <2>2. pc \in {"rV3", "V3"} => pc' \in {"fp1", "setupA"}  BY <1>2 DEF After, Media
  <2>3. pc \in {"vol1", "vol2", "poll", "teardown"} => pc' \in {"vol2", "stream", "done"}
    BY <1>2 DEF After
  <2>4. pc \in Late => pc' \in Late  BY <1>2 DEF After, Late
  <2> QED  BY <2>1, <2>2, <2>3, <2>4
<1>5. pc \in Guarded \cup {"M1"} => down' = <<>> /\ (alive => up = <<>>)
  BY AcceptedPart
<1>6. pc' \in Guarded => pc \in Guarded \cup {"M1"}
  BY <1>2, <1>3, <1>4 DEF Guarded, Requesting, Late
<1>7. pc # "rV3"
  <2> SUFFICES ASSUME pc = "rV3"  PROVE FALSE  OBVIOUS
  <2>1. down[1].msg.body = "err"  BY <1>1 DEF Sync, Guarded
  <2> QED  BY <1>1, <2>1 DEF Accepts
<1>8. pc = "V3" => io = [hap |-> TRUE, id |-> mem.vid, eph |-> mem.eph]
  <2> SUFFICES ASSUME pc = "V3"  PROVE io = [hap |-> TRUE, id |-> mem.vid, eph |-> mem.eph]
    OBVIOUS
  <2>1. down[1].msg.body # "err"  BY <1>1 DEF Accepts
  <2> QED  BY <1>1, <2>1 DEF Sync, Guarded
<1>9. /\ nonce' \in [sw : Nat, sr : Nat, rw : Nat, rr : Nat] /\ nonce'.rr = nonce.rr
      /\ pc = "V3" => enc' = [hap |-> TRUE, id |-> mem.vid, eph |-> mem.eph] /\ nonce'.sw = 0
      /\ pc # "V3" => enc' = enc /\ nonce'.sw = nonce.sw
  <2>1. CASE pc = "V3"
    <3>1. EnableEncryption  BY <2>1 DEF Succeed
    <3>2. nonce' = [nonce EXCEPT !.sw = 0, !.sr = 0]
          /\ enc' = [hap |-> TRUE, id |-> mem.vid, eph |-> mem.eph]
      BY <3>1 DEF EnableEncryption
    <3> QED  BY <2>1, <3>2 DEF Shapes
  <2>2. CASE pc # "V3"
    <3>1. enc' = enc /\ CountRead  BY <2>2, <1>7 DEF Succeed
    <3> QED  BY <2>2, <3>1 DEF CountRead, Shapes
  <2> QED  BY <2>1, <2>2
<1>20. Shapes'  BY <1>1, <1>9 DEF Shapes, Framed
<1>21. Registered'  BY DEF Registered
<1>22. Waits'  BY <1>2 DEF Waits
<1>23. Modes'
  <2>1. CASE pc = "V3"
    <3>1. ~enc.hap /\ nonce.rr = 0  BY <2>1 DEF Modes, Late
    <3>2. enc' = io' /\ enc'.hap
      <4>1. enc' = [hap |-> TRUE, id |-> mem.vid, eph |-> mem.eph]  BY <2>1, <1>9
      <4>2. enc'.hap  BY <4>1
      <4>3. io' = io  OBVIOUS
      <4> QED  BY <4>1, <4>2, <4>3, <2>1, <1>8
    <3>4. pc' \in Late  BY <2>1, <1>4 DEF Late
    <3>3. alive' => nonce'.sw = nonce'.rr + Len(up')
      BY <2>1, <3>1, <1>5, <1>9, SeqFacts DEF Guarded, Shapes
    <3> QED  BY <3>2, <3>3, <3>4 DEF Modes
  <2>2. CASE pc # "V3"
    <3>1. (pc \in Late => pc' \in Late) /\ (pc \notin Late => pc' \notin Late)
      BY <2>2, <1>2, <1>3, <1>4, <1>7 DEF Late, Requesting
    <3>2. pc # "failed"  BY <1>2 DEF Requesting
    <3> QED  BY <2>2, <3>1, <3>2, <1>9 DEF Modes
  <2> QED  BY <2>1, <2>2
<1>24. Signing'  BY <1>2, <1>3, <1>4, <1>7 DEF Signing, Late, Requesting
<1>25. UpOK'
  <2>1. ASSUME alive, NEW i \in DOMAIN up
        PROVE  ~(up[i].msg.op = "V3" /\ up[i].msg.who = 2)
    <3> SUFFICES ASSUME up[i].msg.op = "V3" /\ up[i].msg.who = 2  PROVE FALSE  OBVIOUS
    <3>1. pc = "V3"  BY <2>1, <1>2 DEF UpOK, Requesting
    <3>2. up = <<>>  BY <2>1, <3>1, <1>5 DEF Guarded
    <3> QED  BY <2>1, <3>2, SeqFacts DEF Shapes
  <2> QED  BY <2>1, <1>9 DEF UpOK, RightFrame
<1>26. Sync'
  <2>1. pc' \in Guarded => down' = <<>> /\ (alive => up = <<>>)  BY <1>5, <1>6
  <2> QED  BY <2>1, <1>2 DEF Sync
<1>27. Loose'
  <2> SUFFICES ASSUME pc' \in Loosely  PROVE Loose'  BY DEF Loose
  <2>1. pc \in Loosely /\ pc # "M1"
    BY <1>2, <1>3, <1>4, <1>7 DEF Loosely, Requesting, Late
  <2>2. \A i \in DOMAIN down' : down'[i].msg.body # "M2"  BY <2>1, <1>1 DEF Loose
  <2>3. alive => \A i \in DOMAIN up : up[i].msg.op # "M1"  BY <2>1 DEF Loose
  <2> QED  BY <2>2, <2>3 DEF Loose
<1> QED  BY <1>20, <1>21, <1>22, <1>23, <1>24, <1>25, <1>26, <1>27

LEMMA ReadPartStep == CInv /\ ReadPart => CInv'
<1> SUFFICES ASSUME CInv, ReadPart  PROVE CInv'  OBVIOUS
<1>1. acc # "idle" /\ down # <<>> /\ down' = Tail(down)
      /\ UNCHANGED <<receiverVars, run, cseq, signing, up, alive>>
  BY DEF ReadPart
<1>2. CASE ~Completes(Head(down)) /\ acc' = Holds(Head(down)) /\ CountRead /\ UNCHANGED <<pc, mem, enc>>
  BY <1>1, <1>2, HoldStep
<1>3. CASE /\ Completes(Head(down)) /\ WellFormed(Head(down)) /\ Accepts(pc, Head(down).msg)
           /\ Succeed(Head(down).msg)
  BY <1>1, <1>3, SucceedStep
<1>4. CASE Fail /\ CountRead
  <2>1. IsSeq(down') /\ \A i \in DOMAIN down' : i + 1 \in DOMAIN down /\ down'[i] = down[i + 1]
    BY <1>1, Shortened DEF CInv, Shapes
  <2>2. \A i \in DOMAIN down' : down'[i].msg.body = "M2" =>
                \E j \in DOMAIN down : down[j].msg.body = "M2"
    BY <2>1
  <2>3. \A i \in DOMAIN down' : Framed(down'[i])  BY <2>1 DEF CInv, Shapes
  <2> QED  BY <1>1, <1>4, <2>1, <2>2, <2>3, FailStep
<1> QED  BY <1>2, <1>3, <1>4 DEF ReadPart

LEMMA TimeoutStep == CInv /\ Timeout => CInv'
<1> SUFFICES ASSUME CInv, Timeout  PROVE CInv'  OBVIOUS
<1>1. acc # "idle" /\ Fail /\ UNCHANGED <<receiverVars, run, cseq, signing, nonce, up, alive>>
  BY DEF Timeout
<1>2. CASE down' = down
  <2>1. IsSeq(down') /\ \A i \in DOMAIN down' : Framed(down'[i])  BY <1>2 DEF CInv, Shapes
  <2> QED  BY <1>1, <1>2, <2>1, FailStep
<1>3. ASSUME down # <<>>, NEW f \in Cuts(Head(down)), down' = [down EXCEPT ![1] = f]
      PROVE  CInv'
  <2>1. IsSeq(down) /\ Head(down) = down[1] /\ 1 \in DOMAIN down  BY <1>3, SeqFacts DEF CInv, Shapes
  <2>2. IsSeq(down') /\ \A i \in DOMAIN down' :
            i \in DOMAIN down /\ (down'[i] = down[i] \/ (i = 1 /\ down'[i] = f))
    BY <1>3, <2>1, Patched
  <2>3. Framed(f) /\ (f.msg.body = "M2" => down[1].msg.body = "M2")
    BY <1>3, <2>1, CutFacts DEF CInv, Shapes
  <2>5. \A i \in DOMAIN down' : Framed(down'[i])  BY <2>2, <2>3 DEF CInv, Shapes
  <2>4. \A i \in DOMAIN down' : down'[i].msg.body = "M2" =>
                \E j \in DOMAIN down : down[j].msg.body = "M2"
    BY <2>1, <2>2, <2>3
  <2> QED  BY <1>1, <2>2, <2>4, <2>5, FailStep
<1> QED  BY <1>2, <1>3 DEF Timeout

LEMMA TornOrEof == CInv /\ (ReadTorn \/ ReadEof) => CInv'
<1> SUFFICES ASSUME CInv, ReadTorn \/ ReadEof  PROVE CInv'  OBVIOUS
<1>1. acc # "idle" /\ Fail /\ UNCHANGED <<receiverVars, run, cseq, signing, nonce, up, alive, down>>
  BY DEF ReadTorn, ReadEof
<1>2. IsSeq(down') /\ \A i \in DOMAIN down' : Framed(down'[i])  BY <1>1 DEF CInv, Shapes
<1> QED  BY <1>1, <1>2, FailStep

LEMMA StreamStep == CInv /\ Stream => CInv'
<1> SUFFICES ASSUME CInv, Stream  PROVE CInv'  OBVIOUS
<1> USE DEF CInv, receiverVars
<1>1. pc = "stream" /\ pc' \in {"poll", "teardown", "failed"}
      /\ UNCHANGED <<receiverVars, run, cseq, acc, mem, signing, enc, nonce, up, down, alive>>
  BY DEF Stream
<1>2. acc = "idle"  BY <1>1 DEF Waits, Requesting
<1>3. Shapes' /\ Registered'  BY <1>1 DEF Shapes, Framed, Registered
<1>4. Waits' /\ Modes'  BY <1>1, <1>2 DEF Waits, Modes, Late
<1>5. Signing'  BY <1>1 DEF Signing, Late
<1>6. UpOK'  BY <1>1 DEF UpOK, RightFrame
<1>7. Sync' /\ Loose'  BY <1>1 DEF Sync, Loose, Guarded, Loosely
<1> QED  BY <1>3, <1>4, <1>5, <1>6, <1>7

\* What the answer to a request puts in flight.
LEMMA AnswerFrames ==
    ASSUME NEW m, NEW n, NEW seq, NEW r, "body" \in DOMAIN r,
           NEW fs, fs = ResponseFrames(m, n, seq, r)
    PROVE  /\ IsSeq(fs) /\ Len(fs) \in Nat
           /\ \A i \in DOMAIN fs :
                /\ Framed(fs[i]) /\ fs[i].seq = seq /\ fs[i].msg = r
                /\ fs[i].part = IF i = 1 THEN "head" ELSE "body"
                /\ EndsAnswer(fs[i]) <=> i = Len(fs)
                /\ fs[i].part = "body" => i = Len(fs)
<1> DEFINE h == Seal(m, n, "head", seq, r)
           b == Seal(m, n + 1, "body", seq, r)
<1>1. /\ Framed(h) /\ h.seq = seq /\ h.msg = r /\ h.part = "head"
      /\ Framed(b) /\ b.seq = seq /\ b.msg = r /\ b.part = "body"
  BY SealFramed DEF Seal
<1>2. CASE r.body = "empty"
  <2>1. fs = <<h>>  BY <1>2 DEF ResponseFrames
  <2> HIDE DEF h, b
  <2>2. IsSeq(fs)
    <3>1. fs \in Seq({h})  BY <2>1
    <3> QED  BY <3>1 DEF IsSeq
  <2>3. Len(fs) = 1 /\ DOMAIN fs = {1} /\ fs[1] = h  BY <2>1
  <2> QED  BY <1>1, <1>2, <2>2, <2>3 DEF EndsAnswer
<1>3. CASE r.body # "empty"
  <2>1. fs = <<h, b>>  BY <1>3 DEF ResponseFrames
  <2> HIDE DEF h, b
  <2>2. IsSeq(fs)
    <3>1. fs \in Seq({h, b})  BY <2>1
    <3> QED  BY <3>1 DEF IsSeq
  <2>3. Len(fs) = 2 /\ DOMAIN fs = {1, 2} /\ fs[1] = h /\ fs[2] = b  BY <2>1
  <2> QED  BY <1>1, <1>3, <2>2, <2>3 DEF EndsAnswer
<1> QED  BY <1>2, <1>3

\* No request is ever refused by the framing.
LEMMA HeadOpens ==
    ASSUME CInv, alive, up # <<>>
    PROVE  Opens(Head(up), io, nonce.rr)
<1>1. Head(up) = up[1] /\ 1 \in DOMAIN up  BY SeqFacts DEF CInv, Shapes
<1>2. RightFrame(up[1], nonce.rr + 1 - 1)  BY <1>1 DEF CInv, UpOK
<1>3. nonce.rr + 1 - 1 = nonce.rr  BY DEF CInv, Shapes
<1> QED  BY <1>1, <1>2, <1>3 DEF RightFrame, Opens

LEMMA ReceiverStep == CInv /\ Receiver => CInv'
<1> SUFFICES ASSUME CInv, Receiver  PROVE CInv'  OBVIOUS
<1> USE DEF CInv, senderVars
<1> DEFINE f == Head(up)
           m == f.msg
           fs == ResponseFrames(io, nonce.rw, f.seq, reply')
<1>1. /\ alive /\ alive' /\ up # <<>> /\ R!Serve(m) /\ up' = Tail(up) /\ down' = down \o fs
      /\ nonce' = (IF io.hap THEN [nonce EXCEPT !.rr = @ + 1, !.rw = @ + Len(fs)] ELSE nonce)
      /\ UNCHANGED senderVars
  BY HeadOpens DEF Receiver
<1>2. /\ "body" \in DOMAIN reply'
  BY <1>1, ReplyFramed
<1>3. /\ IsSeq(fs) /\ Len(fs) \in Nat
      /\ \A i \in DOMAIN fs :
                /\ Framed(fs[i]) /\ fs[i].seq = f.seq /\ fs[i].msg = reply'
                /\ fs[i].part = IF i = 1 THEN "head" ELSE "body"
                /\ EndsAnswer(fs[i]) <=> i = Len(fs)
                /\ fs[i].part = "body" => i = Len(fs)
  BY <1>2, AnswerFrames
<1> HIDE DEF fs
<1>4. /\ f = up[1] /\ 1 \in DOMAIN up /\ Len(up) \in Nat /\ DOMAIN up = 1..Len(up)
      /\ IsSeq(up') /\ Len(up') = Len(up) - 1 /\ DOMAIN up' = 1..Len(up')
      /\ \A i \in DOMAIN up' : i + 1 \in DOMAIN up /\ up'[i] = up[i + 1]
      /\ up' = <<>> <=> Len(up) = 1
  <2>1. f = up[1] /\ 1 \in DOMAIN up /\ Len(up) \in Nat /\ DOMAIN up = 1..Len(up)
    BY <1>1, SeqFacts DEF Shapes
  <2>2. IsSeq(up') /\ Len(up') = Len(up) - 1
        /\ \A i \in DOMAIN up' : i + 1 \in DOMAIN up /\ up'[i] = up[i + 1]
    BY <1>1, Shortened DEF Shapes
  <2>3. DOMAIN up' = 1..Len(up') /\ (up' = <<>> <=> Len(up') = 0)  BY <2>2, SeqFacts
  <2>4. Len(up') = 0 <=> Len(up) = 1  BY <2>1, <2>2
  <2> QED  BY <2>1, <2>2, <2>3, <2>4
<1> HIDE DEF f
<1>5. /\ IsSeq(down) /\ Len(down) \in Nat /\ IsSeq(down') /\ Len(down') = Len(down) + Len(fs)
      /\ \A i \in DOMAIN down' :
           \/ i \in DOMAIN down /\ down'[i] = down[i]
           \/ i - Len(down) \in DOMAIN fs /\ down'[i] = fs[i - Len(down)]
      /\ down = <<>> => down' = fs
      /\ DOMAIN down' = 1..Len(down')
  <2>1. IsSeq(down) /\ down' = down \o fs  BY <1>1 DEF Shapes
  <2>2. IsSeq(fs)  BY <1>3
  <2>3. Len(down) \in Nat  BY <2>1, SeqFacts
  <2>4. /\ IsSeq(down \o fs) /\ Len(down \o fs) = Len(down) + Len(fs)
        /\ \A i \in DOMAIN (down \o fs) :
             \/ i \in DOMAIN down /\ (down \o fs)[i] = down[i]
             \/ i - Len(down) \in DOMAIN fs /\ (down \o fs)[i] = fs[i - Len(down)]
        /\ down = <<>> => down \o fs = fs
    BY <2>1, <2>2, Joined
  <2>5. DOMAIN (down \o fs) = 1..Len(down \o fs)  BY <2>4, SeqFacts
  <2> QED  BY <2>1, <2>3, <2>4, <2>5
<1>6. /\ io.hap => m.op \in R!SessionOps
      /\ ~io.hap => m.op \in Opening /\ Asked(m)
      /\ m.op = "V3" /\ m.who = 2 =>
           Len(up) = 1 /\ pc \in {"V3", "failed"} /\ signing = 2 /\ (pc = "V3" => acc # "idle")
  BY <1>1, <1>4 DEF UpOK
<1>7. /\ nonce' \in [sw : Nat, sr : Nat, rw : Nat, rr : Nat]
      /\ nonce'.sw = nonce.sw
      /\ io.hap => nonce'.rr = nonce.rr + 1
      /\ ~io.hap => nonce'.rr = nonce.rr
  <2>1. CASE io.hap
    <3>1. PICK k \in Nat : k = Len(fs)  BY <1>3
    <3>2. nonce' = [nonce EXCEPT !.rr = @ + 1, !.rw = @ + k]  BY <1>1, <2>1, <3>1
    <3>3. nonce \in [sw : Nat, sr : Nat, rw : Nat, rr : Nat]  BY DEF Shapes
    <3>4. nonce.rr + 1 \in Nat /\ nonce.rw + k \in Nat  BY <3>1, <3>3
    <3>5. nonce' = [sw |-> nonce.sw, sr |-> nonce.sr, rw |-> nonce.rw + k, rr |-> nonce.rr + 1]
      BY <3>2, <3>3
    <3> QED  BY <2>1, <3>3, <3>4, <3>5
  <2>2. CASE ~io.hap  BY <1>1, <2>2 DEF Shapes
  <2> QED  BY <2>1, <2>2
<1>11. Shapes'
  <2>1. IsSeq(up') /\ IsSeq(down') /\ cseq' \in Nat  BY <1>1, <1>4, <1>5 DEF Shapes
  <2>2. ASSUME NEW i \in DOMAIN down'  PROVE Framed(down'[i])
    <3>1. CASE i \in DOMAIN down /\ down'[i] = down[i]  BY <3>1 DEF Shapes
    <3>2. CASE i - Len(down) \in DOMAIN fs /\ down'[i] = fs[i - Len(down)]  BY <1>3, <3>2
    <3> QED  BY <1>5, <2>2, <3>1, <3>2
  <2>3. \A i \in DOMAIN down' : Framed(down[i])'  BY <2>2 DEF Framed
  <2> QED  BY <2>1, <2>3, <1>7 DEF Shapes
<1>8. io.hap => enc.hap  BY <1>1 DEF Modes
<1>9. CASE io.hap
  <2>1. UNCHANGED PairVars  BY <1>1, <1>6, <1>9, ServeSession DEF Modes
  <2>2. pc \in Late \cup {"failed"} /\ enc.hap  BY <1>8, <1>9 DEF Modes
  <2>3. Shapes'  BY <1>11
  <2>4. Registered'  BY <2>1 DEF Registered, PairVars
  <2>5. Waits' /\ Signing'  BY <1>1 DEF Waits, Signing
  <2>6. Modes'
    <3>1. nonce'.sw = nonce'.rr + Len(up')  BY <1>1, <1>4, <1>7, <1>9, <2>2 DEF Modes, Shapes
    <3> QED  BY <1>1, <1>9, <2>1, <2>2, <3>1 DEF Modes, PairVars
  <2>7. UpOK'
    <3> SUFFICES ASSUME NEW i \in DOMAIN up'
                 PROVE  /\ RightFrame(up[i], nonce.rr + i - 1)'
                        /\ up'[i].msg.op \in R!SessionOps
      BY <1>9, <2>1 DEF UpOK, PairVars, R!SessionOps
    <3>1. i + 1 \in DOMAIN up /\ up'[i] = up[i + 1] /\ i \in Nat  BY <1>4
    <3>2. RightFrame(up[i + 1], nonce.rr + (i + 1) - 1) /\ up[i + 1].msg.op \in R!SessionOps
      BY <1>1, <1>9, <3>1 DEF UpOK
    <3>3. nonce'.rr + i - 1 = nonce.rr + (i + 1) - 1  BY <1>7, <1>9, <3>1 DEF Shapes
    <3> QED  BY <3>1, <3>2, <3>3, <2>1 DEF RightFrame, PairVars
  <2>8. Sync'
    <3> SUFFICES ASSUME pc' \in Guarded  PROVE Sync'  BY DEF Sync
    <3>1. pc = pc' /\ acc' = acc /\ cseq' = cseq /\ mem' = mem  BY <1>1
    <3>2. acc = "wait" /\ Len(up) = 1 /\ up[1].seq = cseq /\ down = <<>>
      BY <1>1, <3>1 DEF Sync
    <3>3. pc \notin {"rV3", "V3"}  BY <2>2 DEF Late
    <3>4. up' = <<>> /\ down' = fs  BY <3>2, <1>4, <1>5
    <3>5. \A i \in DOMAIN down' :
            /\ down'[i].seq = cseq'
            /\ down'[i].part = IF acc' = "wait" /\ i = 1 THEN "head" ELSE "body"
            /\ EndsAnswer(down'[i]) <=> i = Len(down')
      BY <1>3, <1>4, <3>1, <3>2, <3>4
    <3> QED  BY <3>1, <3>2, <3>3, <3>4, <3>5 DEF Sync
  <2>9. Loose'  BY <1>1, <2>2 DEF Loose, Loosely, Late
  <2> QED  BY <2>3, <2>4, <2>5, <2>6, <2>7, <2>8, <2>9
<1>10. CASE ~io.hap
  <2> DEFINE stays == io' = io /\ ~verified' /\ (m.op = "V3" => reply'.body = "err")
             turns == /\ m.op = "V3" /\ m.who = 2
                      /\ io' = [hap |-> TRUE, id |-> m.id, eph |-> m.eph]
                      /\ verified' /\ session'.who = 2 /\ controllers'[2] = 2
  <2>1. io = R!Plain /\ ~verified /\ ~enc.hap /\ pc \notin Late  BY <1>10 DEF Modes, R!Plain
  <2>2. Registered' /\ (reply'.body = "M2" => m.op = "M1") /\ (stays \/ turns)
    BY <1>1, <1>6, <1>10, <2>1, ServePlain
  <2>3. turns => io'.hap /\ up' = <<>> /\ pc \in {"V3", "failed"} /\ signing = 2 /\ (pc = "V3" => acc # "idle")
    <3> SUFFICES ASSUME turns
                 PROVE io'.hap /\ up' = <<>> /\ pc \in {"V3", "failed"} /\ signing = 2
                       /\ (pc = "V3" => acc # "idle")
      OBVIOUS
    <3>1. io' = [hap |-> TRUE, id |-> m.id, eph |-> m.eph]  OBVIOUS
    <3>2. io'.hap  BY <3>1
    <3> QED  BY <3>2, <1>4, <1>6
  <2>4. stays => ~io'.hap  BY <1>10
  <2> HIDE DEF stays, turns
  <2>10. Shapes'  BY <1>11
  <2>11. Registered'  BY <2>2
  <2>12. Waits' /\ Signing'  BY <1>1 DEF Waits, Signing
  <2>13. Modes'
    <3>1. nonce'.rr = 0 /\ enc' = enc /\ enc = R!Plain /\ pc' = pc
      BY <1>1, <1>7, <1>10, <2>1 DEF Modes
    <3>2. CASE stays  BY <3>1, <2>1, <2>4, <3>2 DEF Modes, stays
    <3>3. CASE turns  BY <1>1, <3>1, <2>1, <2>3, <3>3 DEF Modes, turns
    <3> QED  BY <2>2, <3>2, <3>3
  <2>14. UpOK'
    <3>1. CASE turns
      <4>1. up' = <<>>  BY <2>3, <3>1
      <4>2. DOMAIN up' = {}  BY <1>4, <4>1
      <4> QED  BY <4>2 DEF UpOK
    <3>2. CASE stays
      <4> SUFFICES ASSUME NEW i \in DOMAIN up'
               PROVE  /\ RightFrame(up[i], nonce.rr + i - 1)'
                      /\ up'[i].msg.op \in Opening /\ Asked(up'[i].msg)
                      /\ ~(up'[i].msg.op = "V3" /\ up'[i].msg.who = 2)
        BY <2>4, <3>2 DEF UpOK
      <4>1. i + 1 \in DOMAIN up /\ up'[i] = up[i + 1] /\ i \in Nat /\ i > 0  BY <1>4
      <4>2. RightFrame(up[i + 1], nonce.rr + (i + 1) - 1) /\ up[i + 1].msg.op \in Opening
            /\ Asked(up[i + 1].msg)
            /\ (up[i + 1].msg.op = "V3" /\ up[i + 1].msg.who = 2 => Len(up) = 1)
        BY <1>1, <1>10, <4>1 DEF UpOK
      <4>3. Len(up) # 1  BY <1>4, <4>1
      <4>4. io' = io  BY <3>2 DEF stays
      <4> QED  BY <1>10, <4>1, <4>2, <4>3, <4>4 DEF RightFrame
    <3> QED  BY <2>2, <3>1, <3>2
  <2>15. Sync'
    <3> SUFFICES ASSUME pc' \in Guarded  PROVE Sync'  BY DEF Sync
    <3>1. pc = pc' /\ acc' = acc /\ cseq' = cseq /\ mem' = mem /\ signing' = signing  BY <1>1
    <3>2. acc = "wait" /\ Len(up) = 1 /\ up[1].seq = cseq /\ up[1].msg = RequestAt(pc) /\ down = <<>>
      BY <1>1, <3>1 DEF Sync
    <3>3. up' = <<>> /\ down' = fs  BY <3>2, <1>4, <1>5
    <3>4. \A i \in DOMAIN down' :
            /\ down'[i].seq = cseq'
            /\ down'[i].part = IF acc' = "wait" /\ i = 1 THEN "head" ELSE "body"
            /\ EndsAnswer(down'[i]) <=> i = Len(down')
            /\ down'[i].msg = reply'
      BY <1>3, <1>4, <3>1, <3>2, <3>3
    <3>5. m = RequestAt(pc)  BY <1>4, <3>2
    <3>6. pc = "rV3" => reply'.body = "err"
      <4> SUFFICES ASSUME pc = "rV3"  PROVE reply'.body = "err"  OBVIOUS
      <4>1. pc \in Requesting /\ signing = 1  BY DEF Requesting, Signing
      <4>2. m.op = "V3" /\ m.who = 1  BY <3>5, <4>1, RequestFacts DEF Signing
      <4>3. ~turns  BY <4>2 DEF turns
      <4> QED  BY <4>2, <4>3, <2>2 DEF stays
    <3>7. pc = "V3" /\ reply'.body # "err" => io' = [hap |-> TRUE, id |-> mem.vid, eph |-> mem.eph]
      <4> SUFFICES ASSUME pc = "V3", reply'.body # "err"
                   PROVE  io' = [hap |-> TRUE, id |-> mem.vid, eph |-> mem.eph]
        OBVIOUS
      <4>1. pc \in Requesting  BY DEF Requesting
      <4>2. m.op = "V3" /\ m.id = mem.vid /\ m.eph = mem.eph
        BY <3>5, <4>1, RequestFacts DEF Signing
      <4>3. ~stays  BY <4>2 DEF stays
      <4> QED  BY <4>2, <4>3, <2>2 DEF turns
    <3> QED  BY <3>1, <3>2, <3>3, <3>4, <3>6, <3>7 DEF Sync
  <2>16. Loose'
    <3> SUFFICES ASSUME pc' \in Loosely  PROVE Loose'  BY DEF Loose
    <3>1. pc \in Loosely /\ acc' = acc /\ pc' = pc /\ cseq' = cseq  BY <1>1
    <3>2. \A i \in DOMAIN down : down[i].msg.body # "M2"  BY <1>1, <3>1 DEF Loose
    <3>3. m.op = "M1" => pc = "M1" /\ acc # "idle" /\ Len(up) = 1 /\ f.seq = cseq
      BY <1>1, <1>4, <3>1 DEF Loose
    <3>4. ASSUME NEW i \in DOMAIN down', down'[i].msg.body = "M2"
          PROVE  /\ pc' = "M1" /\ acc' # "idle" /\ down'[i].seq = cseq' /\ up' = <<>>
                 /\ down'[i].part = "body" => i = Len(down')
      <4>1. i - Len(down) \in DOMAIN fs /\ down'[i] = fs[i - Len(down)]  BY <1>5, <3>2, <3>4
      <4>2. m.op = "M1"  BY <1>3, <2>2, <3>4, <4>1
      <4>3. down'[i].seq = cseq' /\ (down'[i].part = "body" => i - Len(down) = Len(fs))
        BY <1>3, <3>1, <3>3, <4>1, <4>2
      <4>4. i \in Nat  BY <1>5
      <4>5. i - Len(down) = Len(fs) => i = Len(down')  BY <1>3, <1>5, <4>4
      <4>6. up' = <<>>  BY <1>4, <3>3, <4>2
      <4> QED  BY <3>1, <3>3, <4>2, <4>3, <4>5, <4>6
    <3>5. ASSUME NEW i \in DOMAIN up', up'[i].msg.op = "M1"
          PROVE  pc' = "M1" /\ acc' # "idle" /\ i = Len(up') /\ up'[i].seq = cseq'
      <4>1. i + 1 \in DOMAIN up /\ up'[i] = up[i + 1] /\ i \in Nat  BY <1>4
      <4>2. pc = "M1" /\ acc # "idle" /\ i + 1 = Len(up) /\ up[i + 1].seq = cseq
        BY <1>1, <3>1, <3>5, <4>1 DEF Loose
      <4> QED  BY <1>4, <3>1, <4>1, <4>2
    <3> QED  BY <3>4, <3>5 DEF Loose
  <2> QED  BY <2>10, <2>11, <2>12, <2>13, <2>14, <2>15, <2>16
<1> QED  BY <1>9, <1>10

\* The connection goes, with or without what is in flight.
LEMMA CloseStep == CInv /\ (IdleClose \/ Disconnect) => CInv'
<1> SUFFICES ASSUME CInv, IdleClose \/ Disconnect  PROVE CInv'  OBVIOUS
<1> USE DEF CInv, receiverVars, senderVars
<1>1. /\ ~alive' /\ up' \in {up, <<>>} /\ down' \in {down, <<>>}
      /\ UNCHANGED <<receiverVars, senderVars, nonce>>
  BY DEF IdleClose, Disconnect
<1>2. IsSeq(<<>>) /\ DOMAIN <<>> = {}
  <2>1. <<>> \in Seq({})  OBVIOUS
  <2> QED  BY <2>1 DEF IsSeq
<1>3. Shapes'  BY <1>1, <1>2 DEF Shapes
<1>4. Registered' /\ Waits' /\ Signing'  BY <1>1 DEF Registered, Waits, Signing
<1>5. Modes'  BY <1>1 DEF Modes
<1>6. UpOK'  BY <1>1 DEF UpOK
<1>7. Sync'
  <2>1. CASE down' = down  BY <1>1, <2>1 DEF Sync
  <2>2. CASE down' = <<>>  BY <1>1, <1>2, <2>2 DEF Sync
  <2> QED  BY <1>1, <2>1, <2>2
<1>8. Loose'
  <2>1. CASE down' = down  BY <1>1, <2>1 DEF Loose
  <2>2. CASE down' = <<>>  BY <1>1, <1>2, <2>2 DEF Loose
  <2> QED  BY <1>1, <2>1, <2>2
<1> QED  BY <1>3, <1>4, <1>5, <1>6, <1>7, <1>8

LEMMA CInvInit == Init => CInv
<1> SUFFICES ASSUME Init  PROVE CInv  OBVIOUS
<1>1. IsSeq(<<>>) /\ DOMAIN <<>> = {}
  <2>1. <<>> \in Seq({})  OBVIOUS
  <2> QED  BY <2>1 DEF IsSeq
<1>2. Shapes  BY <1>1 DEF Init, Shapes
<1>3. Registered  BY DEF Init, R!Init, R!NoSetup, Registered, Ends
<1>4. Waits  BY DEF Init, Waits
<1>5. Modes
  <2>1. ~enc.hap /\ ~io.hap  BY DEF Init, R!Init, R!Plain
  <2> QED  BY <2>1 DEF Init, R!Init, Modes, Late
<1>6. Signing  BY DEF Init, Signing, Ends, Late
<1>7. UpOK /\ Sync /\ Loose  BY <1>1 DEF Init, UpOK, Sync, Loose, Guarded
<1> QED  BY <1>2, <1>3, <1>4, <1>5, <1>6, <1>7 DEF CInv

LEMMA CInvNext == CInv /\ [Next]_vars => CInv'
<1> SUFFICES ASSUME CInv, [Next]_vars  PROVE CInv'  OBVIOUS
<1>1. CASE Send  BY <1>1, SendStep
<1>2. CASE ReadPart  BY <1>2, ReadPartStep
<1>3. CASE ReadTorn \/ ReadEof  BY <1>3, TornOrEof
<1>4. CASE Timeout  BY <1>4, TimeoutStep
<1>5. CASE Stream  BY <1>5, StreamStep
<1>6. CASE Receiver  BY <1>6, ReceiverStep
<1>7. CASE IdleClose \/ Disconnect  BY <1>7, CloseStep
<1>8. CASE UNCHANGED vars
  <2> USE <1>8 DEF vars, receiverVars, senderVars
  <2>1. Shapes' /\ Registered' /\ Waits'  BY DEF CInv, Shapes, Framed, Registered, Waits
  <2>2. Modes' /\ Signing'  BY DEF CInv, Modes, Signing
  <2>3. UpOK'  BY DEF CInv, UpOK, RightFrame
  <2>4. RequestAt(pc)' = RequestAt(pc)  BY DEF RequestAt
  <2>5. Sync' /\ Loose'  BY <2>4 DEF CInv, Sync, Loose
  <2> QED  BY <2>1, <2>2, <2>3, <2>5 DEF CInv
<1> QED  BY <1>1, <1>2, <1>3, <1>4, <1>5, <1>6, <1>7, <1>8 DEF Next, Sender, Finished

--------------------------------------------------------------------------------
(* Theorems                                                                *)

LEMMA CInvHolds == Spec => []CInv
<1> QED  BY CInvInit, CInvNext, PTL DEF Spec

\* The sender encrypts only under the secret of the receiver's stream, for the
\* identity it signs as (enable_hap_encryption against CtrlStream::enable_hap).
THEOREM SecretShared == Spec => []SameSecret
<1>1. CInv => SameSecret  BY DEF CInv, Modes, SameSecret
<1> QED  BY <1>1, CInvHolds, PTL

\* No request of the sender is refused by HapStream's framing, after any timeouts.
THEOREM AllRequestsOpen == Spec => []RequestsOpen
<1>1. CInv => RequestsOpen  BY HeadOpens DEF RequestsOpen
<1> QED  BY <1>1, CInvHolds, PTL

\* Past V3, where mirror_desktop saves its credentials, the receiver knows the key.
THEOREM SavedAreRegistered == Spec => []SavedMeansRegistered
<1>1. CInv => SavedMeansRegistered
  <2> SUFFICES ASSUME CInv, pc \in {"fp1", "fp3", "setupA", "setupV", "record", "feedback", "stream",
                                    "teardown"}
               PROVE  R!KeyOf(signing) = signing
    BY DEF SavedMeansRegistered
  <2>1. enc.hap  BY DEF CInv, Modes, Late
  <2>2. signing = 2 /\ controllers[2] = 2 /\ transients[2] = 0
    BY <2>1 DEF CInv, Modes, Registered, Ends
  <2> QED  BY <2>2 DEF R!KeyOf
<1> QED  BY <1>1, CInvHolds, PTL

\* From pair-setup to the streaming loop the response that Client accepts is the one
\* to its last request, though it never compares CSeq.
THEOREM AnswersAreCurrent == Spec => AnswerIsCurrent
<1> DEFINE A == (pc \in Guided /\ pc' \notin {pc, "failed"}) => Head(down).seq = cseq
<1>1. CInv /\ [Next]_vars => [A]_vars
  <2> SUFFICES ASSUME CInv, [Next]_vars, pc \in Guided, pc' \notin {pc, "failed"}
               PROVE  Head(down).seq = cseq
    OBVIOUS
  <2>1. ~Fail
    <3> SUFFICES ASSUME Fail  PROVE FALSE  OBVIOUS
    <3>1. pc' = AfterError(pc)  BY DEF Fail
    <3> QED  BY <3>1 DEF AfterError, Guided
  <2>2. ReadPart
    BY <2>1 DEF Next, Sender, Send, ReadTorn, ReadEof, Timeout, Stream, Receiver, IdleClose, Disconnect,
                Finished, vars, senderVars, Guided
  <2>3. acc # "idle" /\ down # <<>> /\ Completes(Head(down)) /\ WellFormed(Head(down))
        /\ Accepts(pc, Head(down).msg)
    BY <2>1, <2>2 DEF ReadPart
  <2>4. pc \in Guarded \cup {"M1"}  BY DEF Guided, Guarded
  <2> QED  BY <2>3, <2>4, AcceptedPart
<1> QED  BY <1>1, CInvHolds, PTL DEF Spec, AnswerIsCurrent

--------------------------------------------------------------------------------
(* The receiver's half is ReceiverSession                                  *)

RP == INSTANCE ReceiverSession_proofs WITH
         Ids <- Ends, Keys <- Ends, Ephs <- {1, 2}, None <- 0, MaxDraws <- 3

\* ControlChannel's instance of ReceiverSession and the one its theorems come from are
\* of the same constants: what they define is the same, definition by definition.
LEMMA SameTypes == R!TypeOK <=> RP!TypeOK
  BY DEF R!TypeOK, RP!TypeOK, R!Draws, RP!Draws, R!Replies, RP!Replies, R!Statuses, RP!Statuses,
         R!Bodies, RP!Bodies

\* The same requests.
LEMMA SameRequests == R!Requests = RP!Requests
  BY DEF R!Requests, RP!Requests, R!Draws, RP!Draws, R!Operations, RP!Operations,
         R!SessionOps, RP!SessionOps

\* The same initial states.
LEMMA SameInit == R!Init => RP!Init
  BY DEF R!Init, RP!Init, R!NoSetup, RP!NoSetup, R!NoVerify, RP!NoVerify,
         R!NoSession, RP!NoSession, R!Plain, RP!Plain

\* A request is served alike in both instances of the module.
LEMMA SameServe == ASSUME NEW m, R!Serve(m) PROVE RP!Serve(m)
<1> USE DEF R!Answer, RP!Answer, R!Refuse, RP!Refuse, R!pairingVars, RP!pairingVars
<1>1. R!PairSetup(m) => RP!PairSetup(m)
  <2> USE DEF R!NoSetup, RP!NoSetup, R!NoVerify, RP!NoVerify, R!NoSession, RP!NoSession,
              R!ForgetSession, RP!ForgetSession, R!NeedsPin, RP!NeedsPin
  <2>1. R!RawPairSetup(m) => RP!RawPairSetup(m)  BY DEF R!RawPairSetup, RP!RawPairSetup
  <2>2. R!RefuseM1(m) => RP!RefuseM1(m)  BY DEF R!RefuseM1, RP!RefuseM1
  <2>3. R!BeginSrpSetup(m) => RP!BeginSrpSetup(m)  BY DEF R!BeginSrpSetup, RP!BeginSrpSetup
  <2>4. R!VerifySrpProof(m) => RP!VerifySrpProof(m)  BY DEF R!VerifySrpProof, RP!VerifySrpProof
  <2>5. R!FinishSrpSetup(m) => RP!FinishSrpSetup(m)  BY DEF R!FinishSrpSetup, RP!FinishSrpSetup
  <2> QED  BY <2>1, <2>2, <2>3, <2>4, <2>5 DEF R!PairSetup, RP!PairSetup
<1>2. R!PairVerify(m) => RP!PairVerify(m)
  <2> USE DEF R!NoVerify, RP!NoVerify, R!NoSession, RP!NoSession,
              R!ForgetSession, RP!ForgetSession
  <2>1. R!BeginHapVerify(m) => RP!BeginHapVerify(m)  BY DEF R!BeginHapVerify, RP!BeginHapVerify
  <2>2. R!ProvesIdentity(m) <=> RP!ProvesIdentity(m)
    BY DEF R!ProvesIdentity, RP!ProvesIdentity, R!KeyOf, RP!KeyOf
  <2>3. R!FinishHapVerify(m) => RP!FinishHapVerify(m)
    BY <2>2 DEF R!FinishHapVerify, RP!FinishHapVerify
  <2> QED  BY <2>1, <2>3 DEF R!PairVerify, RP!PairVerify
<1>3. R!Admitted(m) <=> RP!Admitted(m)  BY DEF R!Admitted, RP!Admitted, R!SessionOps, RP!SessionOps
<1>4. R!FairPlayComplete <=> RP!FairPlayComplete  BY DEF R!FairPlayComplete, RP!FairPlayComplete
<1>5. R!RefuseSession(m) => RP!RefuseSession(m)  BY <1>3 DEF R!RefuseSession, RP!RefuseSession
<1>6. R!FpSetup(m) => RP!FpSetup(m)  BY <1>3, <1>4 DEF R!FpSetup, RP!FpSetup
<1>7. R!Setup(m) => RP!Setup(m)
  BY <1>3, <1>4 DEF R!Setup, RP!Setup, R!FairPlayPending, RP!FairPlayPending
<1>8. R!OtherSession(m) => RP!OtherSession(m)  BY <1>3 DEF R!OtherSession, RP!OtherSession
<1>9. R!Stateless(m) => RP!Stateless(m)  BY DEF R!Stateless, RP!Stateless
<1>10. R!EnableHap => RP!EnableHap  BY DEF R!EnableHap, RP!EnableHap
<1> QED
  BY <1>1, <1>2, <1>5, <1>6, <1>7, <1>8, <1>9, <1>10
  DEF R!Serve, RP!Serve, R!Dispatch, RP!Dispatch
--------------------------------------------------------------------------------
(* What is in flight                                                       *)

\* Every request in flight is one ReceiverSession takes, every answer one it gives.
Messages ==
    /\ \A i \in DOMAIN up : up[i].msg \in R!Requests
    /\ \A i \in DOMAIN down : down[i].msg \in R!Replies

\* What the sender's variables can hold; the nonces are among Shapes.
SenderTypes ==
    /\ run \in [saved : BOOLEAN, rightPin : BOOLEAN, shortA : BOOLEAN]
    /\ pc \in Requesting \cup Final \cup {"stream"}
    /\ acc \in {"idle", "wait", "head", "junk", "bad"}
    /\ polls \in 0..MaxPolls /\ faults \in 0..MaxFaults
    /\ mem \in [salt : R!Draws, eph : 0..2, vid : R!Draws]
    /\ alive \in BOOLEAN
    /\ enc \in [hap : BOOLEAN, id : R!Draws, eph : 0..2]

\* A V3 is sent under an ephemeral that was drawn for its V1.
Drawn == pc \in {"rV3", "V3"} \/ (pc \in {"rV1", "V1"} /\ acc # "idle") => mem.eph # 0

\* The types of both ends and of what is between them, inductive beside CInv.
TInv == R!TypeOK /\ SenderTypes /\ Messages /\ Drawn

\* Whatever the sender asks for is a request that ReceiverSession knows.
LEMMA RequestIsOne ==
    ASSUME NEW p \in Requesting, signing \in Ends, run \in [saved : BOOLEAN, rightPin : BOOLEAN, shortA : BOOLEAN],
           mem \in [salt : R!Draws, eph : 0..2, vid : R!Draws],
           p \in {"rV3", "V3"} => mem.eph # 0
    PROVE  RequestAt(p) \in R!Requests
<1> USE DEF Requesting, R!Request, R!Requests, R!Operations, R!SessionOps, Ends, R!Draws
<1>1. CASE p \in {"rV1", "V1"}
  <2>1. PICK e \in {1, 2} : e = Ephemeral(p)  BY DEF Ephemeral
  <2>2. RequestAt(p) = [op |-> "V1", id |-> 0, eph |-> e, who |-> 0, key |-> 0, good |-> TRUE]
    BY <1>1, <2>1, Zenon DEF RequestAt, R!Request
  <2> QED  BY <2>2
<1>2. CASE p \in {"rV3", "V3"}
  <2>1. RequestAt(p) = [op |-> "V3", id |-> mem.vid, eph |-> mem.eph, who |-> signing,
                        key |-> signing, good |-> TRUE]
    BY <1>2, Zenon DEF RequestAt, R!Request
  <2>2. mem.vid \in R!Draws /\ mem.eph \in {1, 2}  BY <1>2
  <2> QED  BY <2>1, <2>2
<1>3. CASE p \in {"rRaw", "pin"}  BY <1>3 DEF RequestAt
<1>4. CASE p = "M3"
  <2>1. RequestAt(p) = [op |-> "M3", id |-> mem.salt, eph |-> 0, who |-> 0,
                        key |-> 0, good |-> run.rightPin]
    BY <1>4, Zenon DEF RequestAt, R!Request
  <2> QED  BY <2>1
<1>5. CASE p = "M5"
  <2>1. RequestAt(p) = [op |-> "M5", id |-> mem.salt, eph |-> 0, who |-> signing,
                        key |-> signing, good |-> TRUE]
    BY <1>5, Zenon DEF RequestAt, R!Request
  <2> QED  BY <2>1
<1>6. CASE p \in {"setupA", "setupV", "record", "feedback", "poll"}  BY <1>6 DEF RequestAt
<1>7. CASE p \in {"vol1", "vol2", "teardown"}  BY <1>7 DEF RequestAt
<1>8. CASE p \in {"info", "M1", "fp1", "fp3"}
  <2>1. RequestAt(p) = R!Request(p)  BY <1>8 DEF RequestAt
  <2> QED  BY <1>8, <2>1
<1> QED  BY <1>1, <1>2, <1>3, <1>4, <1>5, <1>6, <1>7, <1>8

\* It holds before the first request.
LEMMA TInvStarts == Init => TInv
<1> SUFFICES ASSUME Init PROVE TInv  OBVIOUS
<1>1. R!TypeOK
  <2>1. RP!Init  BY SameInit DEF Init
  <2>2. RP!TypeOK  BY <2>1, RP!InitType DEF Ends
  <2> QED  BY <2>2, SameTypes
<1>2. 0 \in R!Draws  BY DEF R!Draws
<1>3. SenderTypes
  BY <1>2, BoundsAreNat DEF Init, SenderTypes, Requesting, R!Plain
<1>4. DOMAIN up = {} /\ DOMAIN down = {}  BY DEF Init
<1>5. Messages  BY <1>4 DEF Messages
<1>6. Drawn  BY DEF Init, Drawn
<1> QED  BY <1>1, <1>3, <1>5, <1>6 DEF TInv

\* The sender writes a request; a V1 or V3 has drawn its ephemeral.
LEMMA SendTyped == CInv /\ TInv /\ Send => TInv'
<1> SUFFICES ASSUME CInv, TInv, Send PROVE TInv'  OBVIOUS
<1> USE DEF TInv
<1>1. /\ pc \in Requesting /\ acc = "idle" /\ acc' = "wait"
      /\ up' = Append(up, Seal(enc, nonce.sw, "req", cseq', RequestAt(pc)))
      /\ mem' = IF pc \in {"rV1", "V1"} THEN [mem EXCEPT !.eph = Ephemeral(pc)] ELSE mem
      /\ UNCHANGED <<receiverVars, run, pc, enc, down, alive, faults, polls>>
  BY DEF Send
<1>2. R!TypeOK'
  BY <1>1 DEF R!TypeOK, receiverVars
<1>3. Ephemeral(pc) \in {1, 2}  BY DEF Ephemeral
<1>4. mem' \in [salt : R!Draws, eph : 0..2, vid : R!Draws]
      /\ (pc \in {"rV1", "V1"} => mem'.eph # 0) /\ (pc \notin {"rV1", "V1"} => mem' = mem)
  BY <1>1, <1>3 DEF SenderTypes
<1>5. SenderTypes'  BY <1>1, <1>4 DEF SenderTypes
<1>6. Drawn'  BY <1>1, <1>4 DEF Drawn
<1>7. RequestAt(pc) \in R!Requests
  <2>1. signing \in Ends  BY DEF CInv, Signing
  <2> QED  BY <1>1, <2>1, RequestIsOne DEF SenderTypes, Drawn
<1>8. Messages'
  <2> DEFINE f == Seal(enc, nonce.sw, "req", cseq', RequestAt(pc))
  <2>1. f.msg = RequestAt(pc)  BY DEF Seal
  <2>2. up' = Append(up, f)  BY <1>1
  <2> HIDE DEF f
  <2>3. /\ IsSeq(up) /\ IsSeq(up') /\ Len(up') = Len(up) + 1 /\ up'[Len(up) + 1] = f
        /\ \A i \in DOMAIN up : up'[i] = up[i]
    BY <2>2, Appended DEF CInv, Shapes
  <2>4. DOMAIN up = 1..Len(up) /\ DOMAIN up' = 1..Len(up') /\ Len(up) \in Nat
    BY <2>3, SeqFacts
  <2>5. \A i \in DOMAIN up' : i \in DOMAIN up \/ i = Len(up) + 1  BY <2>3, <2>4
  <2>6. \A i \in DOMAIN up' : up'[i].msg \in R!Requests
    BY <1>7, <2>1, <2>3, <2>5 DEF Messages
  <2>7. down' = down  BY <1>1
  <2> QED  BY <2>6, <2>7 DEF Messages
<1> QED  BY <1>2, <1>5, <1>6, <1>8

\* The sender gives a response up.
LEMMA FailTyped ==
    ASSUME TInv, Fail, UNCHANGED <<receiverVars, run, alive, polls>>, faults' \in 0..MaxFaults,
           pc \in Requesting
    PROVE  R!TypeOK' /\ SenderTypes' /\ Drawn'
<1>1. AfterError(pc) \in {"rRaw", "pin", "M1", "vol2", "stream", "done", "failed"}
  BY DEF AfterError
<1>2. pc' = AfterError(pc) /\ acc' = "idle" /\ mem' = mem /\ enc' = enc  BY DEF Fail
<1>3. R!TypeOK'  BY DEF TInv, R!TypeOK, receiverVars
<1>4. SenderTypes'
  BY <1>1, <1>2 DEF TInv, SenderTypes, Requesting, Final
<1>5. Drawn'  BY <1>1, <1>2 DEF Drawn
<1> QED  BY <1>3, <1>4, <1>5

\* What a successful stage goes on to, and the only way to a V3.
LEMMA AfterIs ==
    ASSUME NEW p \in Requesting, NEW q \in After(p)
    PROVE  /\ q \in Requesting \cup Final \cup {"stream"}
           /\ q \in {"rV3", "V3"} => p \in {"rV1", "V1"}
<1> USE DEF Requesting, Final, After, Media
<1>1. CASE p \in {"info", "rV1", "pin", "M1", "M3", "M5", "V1"}  BY <1>1
<1>2. CASE p \in {"rV3", "V3", "fp1", "fp3", "setupA", "setupV", "record", "feedback"}  BY <1>2
<1>3. CASE p \in {"vol1", "vol2", "poll", "teardown", "rRaw"}  BY <1>3
<1> QED  BY <1>1, <1>2, <1>3

\* The sender takes a part of an answer, and with the last part goes on.
LEMMA ReadPartTyped == CInv /\ TInv /\ ReadPart => TInv'
<1> SUFFICES ASSUME CInv, TInv, ReadPart PROVE TInv'  OBVIOUS
<1>1. /\ acc # "idle" /\ down # <<>> /\ down' = Tail(down)
      /\ UNCHANGED <<receiverVars, run, up, alive, faults, polls>>
  BY DEF ReadPart
<1>2. pc \in Requesting  BY <1>1 DEF CInv, Waits
<1>3. /\ IsSeq(down) /\ Head(down) = down[1] /\ 1 \in DOMAIN down
      /\ \A i \in DOMAIN down' : i + 1 \in DOMAIN down /\ down'[i] = down[i + 1]
  BY <1>1, Shortened, SeqFacts DEF CInv, Shapes
<1>4. Messages'  BY <1>1, <1>3 DEF TInv, Messages
<1>5. R!TypeOK'  BY <1>1 DEF TInv, R!TypeOK, receiverVars
<1>6. PICK f : f = Head(down)  OBVIOUS
<1>7. f.msg \in R!Replies  BY <1>3, <1>6 DEF TInv, Messages
<1>8. \/ acc' = Holds(f) /\ UNCHANGED <<pc, mem, enc>>
      \/ Succeed(f.msg)
      \/ Fail
  BY <1>6 DEF ReadPart
<1>9. CASE acc' = Holds(f) /\ UNCHANGED <<pc, mem, enc>>
  <2>1. acc' \in {"junk", "head", "bad"}  BY <1>9 DEF Holds
  <2>2. SenderTypes'  BY <1>1, <1>9, <2>1 DEF TInv, SenderTypes
  <2>3. Drawn'  BY <1>1, <1>9 DEF TInv, Drawn
  <2> QED  BY <1>4, <1>5, <2>2, <2>3 DEF TInv
<1>10. CASE Succeed(f.msg)
  <2>1. pc' \in After(pc) /\ acc' = "idle" /\ mem' = Learn(pc, f.msg)  BY <1>10 DEF Succeed
  <2>2. /\ pc' \in Requesting \cup Final \cup {"stream"}
        /\ pc' \in {"rV3", "V3"} => pc \in {"rV1", "V1"}
    BY <1>2, <2>1, AfterIs
  <2>3. f.msg.id \in R!Draws  BY <1>7 DEF R!Replies
  <2>4. mem' \in [salt : R!Draws, eph : 0..2, vid : R!Draws] /\ mem'.eph = mem.eph
    BY <2>1, <2>3 DEF Learn, TInv, SenderTypes
  <2>5. enc' = enc \/ enc' = [hap |-> TRUE, id |-> mem.vid, eph |-> mem.eph]
    BY <1>10 DEF Succeed, EnableEncryption
  <2>6. enc' \in [hap : BOOLEAN, id : R!Draws, eph : 0..2]
    <3>1. mem.vid \in R!Draws /\ mem.eph \in 0..2 BY DEF TInv, SenderTypes
    <3>2. enc \in [hap : BOOLEAN, id : R!Draws, eph : 0..2]  BY DEF TInv, SenderTypes
    <3>3. CASE enc' = enc  BY <3>2, <3>3
    <3>4. CASE enc' = [hap |-> TRUE, id |-> mem.vid, eph |-> mem.eph]  BY <3>1, <3>4
    <3> QED  BY <2>5, <3>3, <3>4
  <2>7. SenderTypes'  BY <1>1, <2>1, <2>2, <2>4, <2>6 DEF TInv, SenderTypes
  <2>8. Drawn'  BY <1>1, <2>1, <2>2, <2>4 DEF TInv, Drawn
  <2> QED  BY <1>4, <1>5, <2>7, <2>8 DEF TInv
<1>11. CASE Fail
  <2>1. faults' \in 0..MaxFaults  BY <1>1 DEF TInv, SenderTypes
  <2>2. SenderTypes' /\ Drawn'  BY <1>1, <1>2, <1>11, <2>1, FailTyped
  <2> QED  BY <1>4, <1>5, <2>2 DEF TInv
<1> QED  BY <1>8, <1>9, <1>10, <1>11

\* What is left of an answer that is cut is an answer, if an empty one.
LEMMA CutTyped ==
    ASSUME NEW g, Framed(g), g.msg \in R!Replies, NEW f \in Cuts(g)
    PROVE  f.msg \in R!Replies
<1>1. CASE f = [g EXCEPT !.part = "torn"] \/ f = [g EXCEPT !.part = "cut"] \/ f = [g EXCEPT !.part = "body"]
  <2>1. f.msg = g.msg  BY <1>1 DEF Framed
  <2> QED  BY <2>1
<1>2. CASE f = [g EXCEPT !.part = "cut", !.msg.body = "empty"]
  <2>1. f.msg = [g.msg EXCEPT !.body = "empty"]  BY <1>2 DEF Framed
  <2> QED  BY <2>1 DEF R!Replies, R!Bodies
<1> QED  BY <1>1, <1>2 DEF Cuts

\* The sender waits no longer.
LEMMA TimeoutTyped == CInv /\ TInv /\ Timeout => TInv'
<1> SUFFICES ASSUME CInv, TInv, Timeout PROVE TInv'  OBVIOUS
<1>1. /\ acc # "idle" /\ Fail /\ faults < MaxFaults /\ faults' = faults + 1
      /\ UNCHANGED <<receiverVars, run, up, alive, polls>>
  BY DEF Timeout
<1>2. pc \in Requesting  BY <1>1 DEF CInv, Waits
<1>3. faults' \in 0..MaxFaults  BY <1>1, BoundsAreNat DEF TInv, SenderTypes
<1>4. R!TypeOK' /\ SenderTypes' /\ Drawn'  BY <1>1, <1>2, <1>3, FailTyped
<1>5. CASE down' = down
  <2>1. Messages'  BY <1>1, <1>5 DEF TInv, Messages
  <2> QED  BY <1>4, <2>1 DEF TInv
<1>6. ASSUME down # <<>>, NEW f \in Cuts(Head(down)), down' = [down EXCEPT ![1] = f]
      PROVE  TInv'
  <2>1. IsSeq(down) /\ Head(down) = down[1] /\ 1 \in DOMAIN down
    BY <1>6, SeqFacts DEF CInv, Shapes
  <2>2. \A i \in DOMAIN down' :
            i \in DOMAIN down /\ (down'[i] = down[i] \/ (i = 1 /\ down'[i] = f))
    BY <1>6, <2>1, Patched
  <2>3. Framed(Head(down)) /\ Head(down).msg \in R!Replies
    BY <2>1 DEF CInv, Shapes, TInv, Messages
  <2>4. f.msg \in R!Replies  BY <1>6, <2>3, CutTyped
  <2>5. Messages'  BY <1>1, <2>2, <2>4 DEF TInv, Messages
  <2> QED  BY <1>4, <2>5 DEF TInv
<1> QED  BY <1>5, <1>6 DEF Timeout

\* A step of the receiver is one of ReceiverSession's, and the answer is one of its.
LEMMA ReceiverTyped == CInv /\ TInv /\ Receiver => TInv' /\ [R!Next]_(R!vars)
<1> SUFFICES ASSUME CInv, TInv, Receiver PROVE TInv' /\ [R!Next]_(R!vars)  OBVIOUS
<1>1. alive /\ up # <<>> /\ UNCHANGED <<senderVars, faults>>  BY DEF Receiver
<1>2. PICK f : f = Head(up)  OBVIOUS
<1>3. PICK fs : fs = ResponseFrames(io, nonce.rw, f.seq, reply')  OBVIOUS
<1>4. R!Serve(f.msg) /\ up' = Tail(up) /\ down' = down \o fs /\ alive' = alive
  BY <1>1, <1>2, <1>3, HeadOpens DEF Receiver
<1>5. /\ IsSeq(up) /\ f = up[1] /\ 1 \in DOMAIN up
      /\ \A i \in DOMAIN up' : i + 1 \in DOMAIN up /\ up'[i] = up[i + 1]
  BY <1>1, <1>2, <1>4, Shortened, SeqFacts DEF CInv, Shapes
<1>6. f.msg \in R!Requests  BY <1>5 DEF TInv, Messages
<1>7. R!Next  BY <1>4, <1>6 DEF R!Next
<1>8. R!TypeOK'
  <2>1. RP!Serve(f.msg) /\ f.msg \in RP!Requests  BY <1>4, <1>6, SameServe, SameRequests
  <2>2. RP!Next  BY <2>1 DEF RP!Next
  <2>3. RP!TypeOK  BY SameTypes DEF TInv
  <2>4. RP!TypeOK'  BY <2>2, <2>3, RP!TypeStep DEF Ends
  <2> QED  BY <2>4 DEF R!TypeOK, RP!TypeOK, R!Draws, RP!Draws, R!Replies, RP!Replies,
                        R!Statuses, RP!Statuses, R!Bodies, RP!Bodies
<1>9. SenderTypes' /\ Drawn'
  BY <1>1, <1>4 DEF TInv, SenderTypes, Drawn, senderVars
<1>10. reply' \in R!Replies  BY <1>8 DEF R!TypeOK
<1>11. \A i \in DOMAIN fs : fs[i].msg = reply'
  BY <1>3, <1>4, ReplyFramed, AnswerFrames
<1>12. IsSeq(fs) /\ IsSeq(down)
  BY <1>3, <1>4, ReplyFramed, AnswerFrames DEF CInv, Shapes
<1>13. \A i \in DOMAIN down' :
           \/ i \in DOMAIN down /\ down'[i] = down[i]
           \/ i - Len(down) \in DOMAIN fs /\ down'[i] = fs[i - Len(down)]
  BY <1>4, <1>12, Joined
<1>14. \A i \in DOMAIN down' : down'[i].msg \in R!Replies
  BY <1>10, <1>11, <1>13 DEF TInv, Messages
<1>15. \A i \in DOMAIN up' : up'[i].msg \in R!Requests
  BY <1>5 DEF TInv, Messages
<1>16. Messages'  BY <1>14, <1>15 DEF Messages
<1> QED  BY <1>7, <1>8, <1>9, <1>16 DEF TInv

\* The steps that neither ask nor answer.
LEMMA OthersTyped ==
    CInv /\ TInv /\ (ReadTorn \/ ReadEof \/ Stream \/ IdleClose \/ Disconnect \/ UNCHANGED vars)
        => TInv'
<1> SUFFICES ASSUME CInv, TInv,
                    ReadTorn \/ ReadEof \/ Stream \/ IdleClose \/ Disconnect \/ UNCHANGED vars
             PROVE  TInv'
  OBVIOUS
<1>1. UNCHANGED receiverVars
  BY DEF ReadTorn, ReadEof, Stream, IdleClose, Disconnect, vars
<1>2. R!TypeOK'  BY <1>1 DEF TInv, R!TypeOK, receiverVars
<1>3. up' = up \/ up' = <<>>
  BY DEF ReadTorn, ReadEof, Stream, IdleClose, Disconnect, vars
<1>4. down' = down \/ down' = <<>>
  BY DEF ReadTorn, ReadEof, Stream, IdleClose, Disconnect, vars
<1>5. DOMAIN <<>> = {}  OBVIOUS
<1>6. Messages'  BY <1>3, <1>4, <1>5 DEF TInv, Messages
<1>7. CASE ReadTorn \/ ReadEof
  <2>1. acc # "idle" /\ Fail /\ faults' = faults /\ UNCHANGED <<receiverVars, run, alive, polls>>
    BY <1>7 DEF ReadTorn, ReadEof
  <2>2. pc \in Requesting  BY <2>1 DEF CInv, Waits
  <2>3. faults' \in 0..MaxFaults  BY <2>1 DEF TInv, SenderTypes
  <2>4. SenderTypes' /\ Drawn'  BY <2>1, <2>2, <2>3, FailTyped
  <2> QED  BY <1>2, <1>6, <2>4 DEF TInv
<1>8. CASE Stream
  <2>1. /\ pc' \in {"poll", "teardown", "failed"} /\ polls' \in {polls, polls + 1}
        /\ polls' = polls \/ polls < MaxPolls
        /\ UNCHANGED <<run, acc, mem, enc, alive, faults>>
    BY <1>8 DEF Stream
  <2>2. polls' \in 0..MaxPolls  BY <2>1, BoundsAreNat DEF TInv, SenderTypes
  <2>3. SenderTypes'  BY <2>1, <2>2 DEF TInv, SenderTypes, Requesting, Final
  <2>4. Drawn'  BY <2>1 DEF Drawn
  <2> QED  BY <1>2, <1>6, <2>3, <2>4 DEF TInv
<1>9. CASE IdleClose \/ Disconnect \/ UNCHANGED vars
  <2>1. /\ UNCHANGED <<run, pc, acc, mem, enc, polls>>
        /\ alive' \in {alive, FALSE}
        /\ faults' = faults \/ (faults < MaxFaults /\ faults' = faults + 1)
    BY <1>9, Zenon DEF IdleClose, Disconnect, vars, senderVars
  <2>2. faults' \in 0..MaxFaults  BY <2>1, BoundsAreNat DEF TInv, SenderTypes
  <2>3. SenderTypes'  BY <2>1, <2>2, Zenon DEF TInv, SenderTypes
  <2>4. Drawn'  BY <2>1 DEF TInv, Drawn
  <2> QED  BY <1>2, <1>6, <2>3, <2>4 DEF TInv
<1> QED  BY <1>7, <1>8, <1>9

\* Every step keeps it, given what CInv says of the modes and of the answers in flight.
LEMMA TInvNext == CInv /\ TInv /\ [Next]_vars => TInv'
  BY SendTyped, ReadPartTyped, TimeoutTyped, ReceiverTyped, OthersTyped DEF Next, Sender, Finished

\* Both inductive invariants together.
LEMMA TInvHolds == Spec => [](CInv /\ TInv)
<1>1. Init => CInv /\ TInv  BY CInvInit, TInvStarts
<1>2. CInv /\ TInv /\ [Next]_vars => (CInv /\ TInv)'  BY CInvNext, TInvNext
<1> QED  BY <1>1, <1>2, PTL DEF Spec

\* Every variable of both ends keeps its type, whatever is late, cut or lost.
THEOREM TypeCorrect == Spec => []TypeOK
<1>1. CInv /\ TInv => TypeOK
  BY DEF TInv, SenderTypes, CInv, Shapes, Signing, TypeOK
<1> QED  BY <1>1, TInvHolds, PTL

\* The receiver that the sender drives is the one of ReceiverSession: all that the sender
\* ever writes, also after a timeout has left it with half an answer, are requests
\* that module accepts, and nothing else moves the receiver's state.
THEOREM ImplementsReceiver == Spec => R!Spec
<1>1. Init => R!Init  BY DEF Init
<1>2. CInv /\ TInv /\ [Next]_vars => [R!Next]_(R!vars)
  <2> SUFFICES ASSUME CInv, TInv, [Next]_vars PROVE [R!Next]_(R!vars)  OBVIOUS
  <2>1. CASE Receiver  BY <2>1, ReceiverTyped
  <2>2. CASE ~Receiver
    <3>1. UNCHANGED receiverVars
      BY <2>2 DEF Next, Sender, Send, ReadPart, ReadTorn, ReadEof, Stream, Timeout, IdleClose,
                  Disconnect, Finished, vars
    <3> QED  BY <3>1 DEF receiverVars, R!vars, R!pairingVars
  <2> QED  BY <2>1, <2>2
<1> QED  BY <1>1, <1>2, TInvHolds, PTL DEF Spec, R!Spec

\* What ReceiverSession promises of any client it promises of this sender: a session is
\* encrypted and registered, and no pairing or FairPlay is walked around.
THEOREM ReceiverKeepsItsPromises ==
    Spec => [](/\ R!VerifiedIsEncrypted /\ R!VerifiedIsRegistered /\ R!PendingExcludesVerified
               /\ R!SetupPredatesSession /\ R!PinGuardsRegistration /\ R!MediaBehindFairPlay)
<1>1. Init => RP!IInv
  BY SameInit, RP!InitInv DEF Init, Ends
<1>2. ASSUME R!Next PROVE RP!Next
  <2>1. PICK m \in R!Requests : R!Serve(m)  BY <1>2 DEF R!Next
  <2>2. m \in RP!Requests /\ RP!Serve(m)  BY <2>1, SameServe, SameRequests
  <2> QED  BY <2>2 DEF RP!Next
<1>3. RP!IInv /\ [RP!Next]_(RP!vars) => RP!IInv'
  BY RP!InvStep DEF Ends
<1>4. RP!IInv /\ [R!Next]_(R!vars) => RP!IInv'
  <2>1. CASE R!Next  BY <2>1, <1>2, <1>3
  <2>2. CASE UNCHANGED R!vars
    <3>1. UNCHANGED RP!vars
      BY <2>2 DEF R!vars, RP!vars, R!pairingVars, RP!pairingVars
    <3> QED  BY <3>1, <1>3
  <2> QED  BY <2>1, <2>2
<1>5. RP!IInv => /\ R!VerifiedIsEncrypted /\ R!VerifiedIsRegistered /\ R!PendingExcludesVerified
                 /\ R!SetupPredatesSession /\ R!PinGuardsRegistration /\ R!MediaBehindFairPlay
  BY DEF RP!IInv, R!VerifiedIsEncrypted, RP!VerifiedIsEncrypted,
         R!VerifiedIsRegistered, RP!VerifiedIsRegistered, R!KeyOf, RP!KeyOf,
         R!PendingExcludesVerified, RP!PendingExcludesVerified, R!NoVerify, RP!NoVerify,
         R!SetupPredatesSession, RP!SetupPredatesSession, R!NoSetup, RP!NoSetup,
         R!PinGuardsRegistration, RP!PinGuardsRegistration,
         R!MediaBehindFairPlay, RP!MediaBehindFairPlay
<1>6. Spec => R!Init /\ [][R!Next]_(R!vars)
  BY ImplementsReceiver DEF R!Spec
<1>7. Spec => Init  BY DEF Spec
<1> QED  BY <1>1, <1>4, <1>5, <1>6, <1>7, PTL
================================================================================
