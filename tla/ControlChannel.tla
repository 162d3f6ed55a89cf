----------------------------- MODULE ControlChannel -----------------------------
(***************************************************************************)
(* The control connection from both ends: the sender program (mirror_      *)
(* desktop driving Client, PairingSession, fairplay_setup and the mirror   *)
(* session's requests) against the receiver of ReceiverSession, over one   *)
(* TCP connection.                                                         *)
(*                                                                         *)
(* The sender is a single thread that writes a request and reads until it  *)
(* has a response, or until its 30 second read timeout strikes.  Responses *)
(* carry the CSeq of their request and the client never looks at it: after *)
(* a timeout the late response is what the next request reads.  A response *)
(* arrives in parts (its header, then its body), and a timeout between two *)
(* parts, or inside one, drops what was read so far.  A part stands for    *)
(* the run of HAP chunks that carries it.                                  *)
(***************************************************************************)
EXTENDS Integers, Sequences

CONSTANTS MaxFaults,  \* bound: read timeouts and lost connections in one run
          MaxPolls    \* bound: feedback requests of the streaming loop

ASSUME BoundsAreNat == MaxFaults \in Nat /\ MaxPolls \in Nat

VARIABLES cfg, setup, verify, transients, controllers, session, verified,
          fp, media, io, draws, reply, keys    \* the receiver's side

Ends == {1, 2}   \* saved identity and key; the ones pair_with_pin generates

R == INSTANCE ReceiverSession WITH
        Ids <- Ends, Keys <- Ends, Ephs <- {1, 2}, None <- 0, MaxDraws <- 3

VARIABLES run,       \* this run's circumstances: saved credentials, right PIN,
                     \* an SRP public key that begins with a zero byte
          pc,        \* the request the sender is at
          cseq,      \* Client::cseq
          acc,       \* what it holds of the response it waits for
          mem,       \* PairingSession: M2's exchange, own ephemeral, V2's draw
          signing,   \* PairingSession::keys, which Ed25519 key signs
          enc,       \* Client::encrypted and the secret behind its keys
          nonce,     \* enc_write_nonce, enc_read_nonce; HapStream's two
          up, down,  \* bytes in flight to the receiver, to the sender
          alive,     \* serve_control is still in its loop
          faults, polls

receiverVars == <<cfg, setup, verify, transients, controllers, session, verified,
                  fp, media, io, draws, reply, keys>>
senderVars == <<run, pc, cseq, acc, mem, signing, enc, polls>>
vars == <<receiverVars, senderVars, nonce, up, down, alive, faults>>

Final == {"done", "failed"}
Requesting == {"info", "rV1", "rV3", "rRaw", "pin", "M1", "M3", "M5", "V1", "V3", "fp1",
               "fp3", "setupA", "setupV", "record", "feedback", "vol1", "vol2", "poll",
               "teardown"}
--------------------------------------------------------------------------------
(* HAP framing: what an end in mode `m` (Plain, or the secret its keys come *)
(* from) seals, and what it can open with its next nonce.                   *)

Seal(m, n, part, seq, msg) ==
    [hap |-> m.hap, id |-> m.id, eph |-> m.eph, n |-> IF m.hap THEN n ELSE 0,
     part |-> part, seq |-> seq, msg |-> msg]

Opens(f, m, n) ==
    f.hap = m.hap /\ f.id = m.id /\ f.eph = m.eph /\ (m.hap => f.n = n)

\* write_response writes the header, then the body when there is one.
ResponseFrames(m, n, seq, r) ==
    IF r.body = "empty" THEN <<Seal(m, n, "head", seq, r)>>
    ELSE <<Seal(m, n, "head", seq, r), Seal(m, n + 1, "body", seq, r)>>
--------------------------------------------------------------------------------
Init ==
    /\ R!Init
    /\ run \in [saved : BOOLEAN, rightPin : BOOLEAN, shortA : BOOLEAN]
    /\ pc = "info" /\ acc = "idle" /\ cseq = 0 /\ polls = 0 /\ faults = 0
    /\ mem = [salt |-> 0, eph |-> 0, vid |-> 0]
    /\ signing = 1
    /\ enc = R!Plain
    /\ nonce = [sw |-> 0, sr |-> 0, rw |-> 0, rr |-> 0]
    /\ up = <<>> /\ down = <<>> /\ alive = TRUE
--------------------------------------------------------------------------------
(* The sender's requests                                                   *)

\* The ephemeral of each pair_verify is drawn afresh.
Ephemeral(p) == IF p = "rV1" THEN 1 ELSE 2

RequestAt(p) ==
    CASE p \in {"rV1", "V1"} -> [R!Request("V1") EXCEPT !.eph = Ephemeral(p)]
      [] p \in {"rV3", "V3"} -> [R!Request("V3") EXCEPT !.id = mem.vid, !.eph = mem.eph,
                                                       !.who = signing, !.key = signing]
      [] p = "rRaw" -> R!Request("badverify")
      [] p = "pin" -> R!Request("pinstart")
      [] p = "M3" -> [R!Request("M3") EXCEPT !.id = mem.salt, !.good = run.rightPin]
      [] p = "M5" -> [R!Request("M5") EXCEPT !.id = mem.salt, !.who = signing, !.key = signing]
      [] p \in {"setupA", "setupV"} -> R!Request("SETUP")
      [] p = "record" -> R!Request("RECORD")
      [] p \in {"feedback", "poll"} -> R!Request("feedback")
      [] p \in {"vol1", "vol2"} -> R!Request("SET_PARAMETER")
      [] p = "teardown" -> R!Request("TEARDOWN")
      [] OTHER -> R!Request(p)

\* request_once: count the request, seal it when encrypted, write it, then read.
\* pair_with_pin generates its key before M1, pair_verify its ephemeral before V1.
Send ==
    /\ pc \in Requesting /\ acc = "idle"
    /\ acc' = "wait" /\ cseq' = cseq + 1
    /\ up' = Append(up, Seal(enc, nonce.sw, "req", cseq', RequestAt(pc)))
    /\ nonce' = IF enc.hap THEN [nonce EXCEPT !.sw = @ + 1] ELSE nonce
    /\ signing' = IF pc = "M1" THEN 2 ELSE signing
    /\ mem' = IF pc \in {"rV1", "V1"} THEN [mem EXCEPT !.eph = Ephemeral(pc)] ELSE mem
    /\ UNCHANGED <<receiverVars, run, pc, enc, down, alive, faults, polls>>
--------------------------------------------------------------------------------
(* What the sender makes of a response                                     *)

\* The SRP proof of M4 hashes A as sent, padded; the sender expects it unpadded.
ProofMatches(r) == r.id = mem.salt /\ ~run.shortA

\* Mutant of Accepts: an error TLV in V4 goes unnoticed.
AcceptsAnyV4(p, r) ==
    r.status = 200 /\
    CASE p \in {"rV1", "V1"} -> r.body = "V2" /\ r.eph = mem.eph
      [] p = "rRaw" -> FALSE
      [] p = "M1" -> r.body = "M2"
      [] p \in {"rV3", "V3"} -> TRUE
      [] OTHER -> r.body # "err"

\* Mutant of Accepts: pair_setup goes on without the salt of M2.
AcceptsAnyM2(p, r) ==
    r.status = 200 /\
    CASE p \in {"rV1", "V1"} -> r.body = "V2" /\ r.eph = mem.eph
      [] p = "rRaw" -> FALSE
      [] OTHER -> r.body # "err"

Accepts(p, r) ==
    /\ r.status = 200 \/ (p = "pin" /\ r.status = 453)
    /\ CASE p = "info" -> r.body \in {"info", "plist"}
         [] p \in {"rV1", "V1"} -> r.body = "M2" \/ (r.body = "V2" /\ r.eph = mem.eph)
         [] p \in {"rV3", "V3", "M5"} -> r.body # "err"
         [] p = "rRaw" -> FALSE    \* never the 96 bytes of a raw pair-verify
         [] p = "M1" -> r.body = "M2"
         [] p = "M3" -> r.body # "err" /\ (r.body = "M4" => ProofMatches(r))
         [] p = "fp1" -> r.body = "fp2"
         [] p = "fp3" -> r.body = "fp4"
         [] p \in {"setupA", "setupV"} -> r.body = "plist"
         [] OTHER -> TRUE

\* FairPlay SAP runs where /info advertises it.
Media == IF cfg.fairplay THEN "fp1" ELSE "setupA"

After(p) ==
    CASE p = "info" -> {IF run.saved THEN "rV1" ELSE "pin"}
      [] p = "rV1" -> {"rV3"}
      [] p = "pin" -> {"M1"}
      [] p = "M1" -> {"M3"}
      [] p = "M3" -> {"M5"}
      [] p = "M5" -> {"V1"}
      [] p = "V1" -> {"V3"}
      [] p \in {"rV3", "V3"} -> {Media}
      [] p = "fp1" -> {"fp3"}
      [] p = "fp3" -> {"setupA"}
      [] p = "setupA" -> {"setupV"}
      [] p = "setupV" -> {"record"}
      [] p = "record" -> {"feedback"}
      [] p = "feedback" -> {"vol1", "stream"}
      [] p = "vol1" -> {"vol2"}
      [] p \in {"vol2", "poll"} -> {"stream"}
      [] OTHER -> {"done"}

\* Mutants of AfterError: a refused V3 is not survived; raw verify goes back to the
\* saved credentials.
FailOnRefusal(p) ==
    CASE p = "rV1" -> "rRaw"
      [] p = "rRaw" -> "pin"
      [] p = "pin" -> "M1"
      [] OTHER -> "failed"

RetryReconnect(p) ==
    CASE p \in {"rV1", "rV3"} -> "rRaw"
      [] p = "rRaw" -> "rV1"
      [] p = "pin" -> "M1"
      [] OTHER -> "failed"

\* Most errors end the program with `?`; these are swallowed.
AfterError(p) ==
    CASE p \in {"rV1", "rV3"} -> "rRaw"
      [] p = "rRaw" -> "pin"
      [] p = "pin" -> "M1"
      [] p = "vol1" -> "vol2"
      [] p = "vol2" -> "stream"
      [] p = "teardown" -> "done"
      [] OTHER -> "failed"

Learn(p, r) ==
    CASE p = "M1" -> [mem EXCEPT !.salt = r.id]
      [] p \in {"rV1", "V1"} -> [mem EXCEPT !.vid = r.id]
      [] OTHER -> mem

CountRead == nonce' = IF enc.hap THEN [nonce EXCEPT !.sr = @ + 1] ELSE nonce

\* enable_hap_encryption, once pair_verify is through: both nonces restart.
EnableEncryption ==
    /\ enc' = [hap |-> TRUE, id |-> mem.vid, eph |-> mem.eph]
    /\ nonce' = [nonce EXCEPT !.sw = 0, !.sr = 0]

\* Mutant of Succeed: the client encrypts from V2 on.
SucceedEarly(r) ==
    /\ pc' \in After(pc) /\ acc' = "idle"
    /\ mem' = Learn(pc, r)
    /\ IF pc \in {"rV1", "V1"} THEN EnableEncryption ELSE enc' = enc /\ CountRead

Succeed(r) ==
    /\ pc' \in After(pc) /\ acc' = "idle"
    /\ mem' = Learn(pc, r)
    /\ IF pc \in {"rV3", "V3"} THEN EnableEncryption ELSE enc' = enc /\ CountRead

\* Mutant of Fail: an error puts the client back to plaintext.
FailToPlain == pc' = AfterError(pc) /\ acc' = "idle" /\ enc' = R!Plain /\ UNCHANGED mem

Fail == pc' = AfterError(pc) /\ acc' = "idle" /\ UNCHANGED <<mem, enc>>

\* A body whose header was dropped waits for the header that follows it; a
\* header that was cut, or has such a body before it, has status 0.
Holds(f) == CASE f.part = "body" -> "junk"
              [] f.part = "head" /\ acc = "wait" -> "head"
              [] OTHER -> "bad"

Completes(f) == IF f.part = "body" THEN acc \in {"head", "bad"} ELSE f.msg.body = "empty"

WellFormed(f) == f.part # "cut" /\ acc \in {"wait", "head"}

\* One part of a response is read and, when encrypted, opened.
ReadPart ==
    /\ acc # "idle" /\ down # <<>> /\ Head(down).part # "torn"
    /\ down' = Tail(down)
    /\ LET f == Head(down)
       IN IF Opens(f, enc, nonce.sr) /\ ~Completes(f)
          THEN acc' = Holds(f) /\ CountRead /\ UNCHANGED <<pc, mem, enc>>
          ELSE IF Opens(f, enc, nonce.sr) /\ WellFormed(f) /\ Accepts(pc, f.msg)
          THEN Succeed(f.msg)
          ELSE Fail /\ CountRead
    /\ UNCHANGED <<receiverVars, run, cseq, signing, up, alive, faults, polls>>

\* Once encrypted, a part cut by a timeout misplaces every frame behind it.
ReadTorn ==
    /\ acc # "idle" /\ down # <<>> /\ Head(down).part = "torn"
    /\ Fail
    /\ UNCHANGED <<receiverVars, run, cseq, signing, nonce, up, down, alive, faults, polls>>

\* What a timeout inside a part leaves of it: of a header, its end with or
\* without the Content-Length line, or a bare line end; of a body, just a body.
Cuts(f) ==
    CASE f.hap -> {[f EXCEPT !.part = "torn"]}
      [] ~f.hap /\ f.part = "head" -> {[f EXCEPT !.part = "cut"], [f EXCEPT !.part = "body"],
                                       [f EXCEPT !.part = "cut", !.msg.body = "empty"]}
      [] OTHER -> {}

\* The 30 second read timeout, before the next part of the response or in it.
Timeout ==
    /\ acc # "idle" /\ faults < MaxFaults
    /\ faults' = faults + 1
    /\ Fail
    /\ \/ down' = down
       \/ down # <<>> /\ \E f \in Cuts(Head(down)) : down' = [down EXCEPT ![1] = f]
    /\ UNCHANGED <<receiverVars, run, cseq, signing, nonce, up, alive, polls>>

ReadEof ==
    /\ acc # "idle" /\ down = <<>> /\ ~alive
    /\ Fail
    /\ UNCHANGED <<receiverVars, run, cseq, signing, nonce, up, down, alive, faults, polls>>

\* The streaming loop: feedback every five seconds until Ctrl+C, or an error
\* of the capture, the encoder or the data connection.
Stream ==
    /\ pc = "stream"
    /\ \/ polls < MaxPolls /\ polls' = polls + 1 /\ pc' = "poll"
       \/ pc' \in {"teardown", "failed"} /\ UNCHANGED polls
    /\ UNCHANGED <<receiverVars, run, cseq, acc, mem, signing, enc, nonce, up, down, alive, faults>>

Sender == Send \/ ReadPart \/ ReadTorn \/ ReadEof \/ Stream
--------------------------------------------------------------------------------
(* The receiver: serve_control                                             *)

\* The response goes out in the mode the request came in; HAP starts after it.
\* A request that does not open ends the connection, unread bytes with it.
Receiver ==
    /\ alive /\ up # <<>>
    /\ LET f == Head(up)
       IN IF Opens(f, io, nonce.rr)
          THEN /\ R!Serve(f.msg)
               /\ up' = Tail(up)
               /\ LET fs == ResponseFrames(io, nonce.rw, f.seq, reply')
                  IN /\ down' = down \o fs
                     /\ nonce' = IF io.hap
                                 THEN [nonce EXCEPT !.rr = @ + 1, !.rw = @ + Len(fs)]
                                 ELSE nonce
               /\ UNCHANGED alive
          ELSE /\ alive' = FALSE /\ up' = <<>> /\ down' \in {down, <<>>}
               /\ UNCHANGED <<receiverVars, nonce>>
    /\ UNCHANGED <<senderVars, faults>>

\* 120 seconds without a request: the sender is waiting for its user's PIN.
IdleClose ==
    /\ alive /\ up = <<>> /\ pc = "M1" /\ acc = "idle"
    /\ alive' = FALSE
    /\ UNCHANGED <<receiverVars, senderVars, nonce, up, down, faults>>

\* The receiver's process or its network is gone.
Disconnect ==
    /\ alive /\ faults < MaxFaults /\ pc \notin Final
    /\ faults' = faults + 1 /\ alive' = FALSE
    /\ up' = <<>> /\ down' \in {down, <<>>}
    /\ UNCHANGED <<receiverVars, senderVars, nonce>>
--------------------------------------------------------------------------------
Finished == pc \in Final /\ UNCHANGED vars

Next == Sender \/ Timeout \/ Receiver \/ IdleClose \/ Disconnect \/ Finished

Fairness == WF_vars(Sender) /\ WF_vars(Receiver)

Spec == Init /\ [][Next]_vars /\ Fairness
--------------------------------------------------------------------------------
(* Properties                                                              *)

\* Every variable of the channel ranges over what the code can store in it.
TypeOK ==
    /\ R!TypeOK
    /\ run \in [saved : BOOLEAN, rightPin : BOOLEAN, shortA : BOOLEAN]
    /\ pc \in Requesting \cup Final \cup {"stream"}
    /\ acc \in {"idle", "wait", "head", "junk", "bad"}
    /\ cseq \in Nat /\ polls \in 0..MaxPolls /\ faults \in 0..MaxFaults
    /\ mem \in [salt : R!Draws, eph : 0..2, vid : R!Draws]
    /\ signing \in Ends /\ alive \in BOOLEAN
    /\ enc \in [hap : BOOLEAN, id : R!Draws, eph : 0..2]
    /\ nonce \in [sw : Nat, sr : Nat, rw : Nat, rr : Nat]

\* The sender encrypts only with the secret the receiver's stream took its keys
\* from, for the identity it signs as: the two switch to HAP independently, and
\* late, doubled or half-read answers never make them disagree.
SameSecret ==
    enc.hap => enc = io /\ verified /\ session.who = signing

\* No request of this sender is ever refused by the receiver's framing: each
\* arrives in the mode, under the keys and with the nonce the receiver expects
\* next, the requests written after a swallowed timeout included.
RequestsOpen ==
    alive /\ up # <<>> => Opens(Head(up), io, nonce.rr)

\* Credentials are saved (after V3) only when the receiver registered that key.
SavedMeansRegistered ==
    pc \in {"fp1", "fp3", "setupA", "setupV", "record", "feedback", "stream", "teardown"}
        => R!KeyOf(signing) = signing

\* Though nothing compares CSeq, an answer is accepted for the request it
\* answers, from pair-setup until the first request of the streaming loop, after
\* every timeout that reconnect, raw verify or pin start swallowed.
Guided == {"M1", "M3", "M5", "V1", "V3", "fp1", "fp3", "setupA", "setupV", "record", "feedback"}
AnswerIsCurrent ==
    [][(pc \in Guided /\ pc' \notin {pc, "failed"}) => Head(down).seq = cseq]_vars

\* The sender checks the receiver's proof as its comment says the receiver makes
\* it (over the unpadded A): an M4 that answers a right PIN is never refused.
ServerProofAccepted ==
    [][(pc = "M3" /\ pc' = "failed" /\ down' # down /\ faults' = faults)
          => Head(down).msg.body # "M4"]_vars

\* The program always comes to an end or to its streaming loop.
RunSettles == <>(pc \in Final \cup {"stream"})

\* With the right PIN, sockets for the receiver's media and no fault of the
\* network, every run reaches the streaming loop, through saved credentials
\* the receiver no longer knows as well.
HealthyRunStreams ==
    pc = "info" /\ run.rightPin /\ ~run.shortA
        ~> pc = "stream" \/ faults > 0 \/ ~alive \/ reply.status = 500
================================================================================
