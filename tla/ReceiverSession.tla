---------------------------- MODULE ReceiverSession ----------------------------
(***************************************************************************)
(* One control connection of the receiver: ReceiverPairing (pair-setup and *)
(* pair-verify), ReceiverFpsap (fp-setup), the gates of dispatch and the   *)
(* switch of the connection to HAP framing made by serve_control.          *)
(*                                                                         *)
(* Cryptography is symbolic.  Every pair-setup (salt, b) and every         *)
(* pair-verify (X25519 private key) the receiver draws is fresh, and is    *)
(* named by the number of the draw.  The shared secret of a pair-verify is *)
(* named by the pair of the receiver's draw and the client's ephemeral.    *)
(* A message sealed under, or proving, a secret names it: it opens exactly *)
(* when the names agree.                                                   *)
(***************************************************************************)
EXTENDS Naturals

CONSTANTS Ids,       \* controller identifiers (the client's pairing_id)
          Keys,      \* Ed25519 public keys of controllers
          Ephs,      \* X25519 public keys of clients
          None,      \* no identifier, no key, no ephemeral
          MaxDraws   \* bound: exchanges the receiver draws randomness for

ASSUME NoneIsNew == None \notin Ids /\ None \notin Keys /\ None \notin Ephs
ASSUME MaxDrawsNat == MaxDraws \in Nat

VARIABLES cfg,          \* the receiver's configuration, fixed for its life
          setup,        \* ReceiverPairing::setup, the SRP exchange in progress
          verify,       \* ReceiverPairing::verify, the pair-verify in progress
          transients,   \* keys registered by transient pair-setups
          controllers,  \* keys registered by PIN pair-setups
          session,      \* ReceiverPairing::session (SessionKeys)
          verified,     \* ReceiverPairing::verified
          fp,           \* ReceiverFpsap::phase
          media,        \* ReceiverSession::media is allocated
          io,           \* CtrlStream: Plain, or Hap under the secret it names
          draws,        \* exchanges drawn so far
          reply,        \* the Response dispatch returns
          keys          \* dispatch returns Some(SessionKeys)

pairingVars == <<setup, verify, transients, controllers, session, verified, draws>>
vars == <<cfg, pairingVars, fp, media, io, reply, keys>>
--------------------------------------------------------------------------------
NoSetup   == [id |-> 0, proved |-> FALSE, transient |-> FALSE]
NoVerify  == [id |-> 0, eph |-> None]
NoSession == [id |-> 0, eph |-> None, who |-> None]
Plain     == [hap |-> FALSE, id |-> 0, eph |-> None]

Draws == 0..MaxDraws
Statuses == {200, 400, 404, 453, 455, 500}
Bodies == {"empty", "text", "info", "err", "pk32", "M2", "M4", "M6", "V2", "V4",
           "fp2", "fp4", "plist"}
Replies == [status : Statuses, body : Bodies, id : Draws, eph : Ephs \cup {None}]

(* A request.  `good` says that the fields dispatch only parses are well   *)
(* formed: lengths and signatures of M5, the X25519 key of V1, the PIN     *)
(* behind the proof of M3, the FairPlay record and its X-Apple-ET header.  *)
Request(op) == [op |-> op, id |-> 0, eph |-> None, who |-> None, key |-> None, good |-> TRUE]

SessionOps == {"fp1", "fp3", "SETUP", "RECORD", "SET_PARAMETER", "feedback", "TEARDOWN"}

Operations == SessionOps \cup {"info", "pinstart", "raw", "M1", "M1t", "M3", "M5",
                               "V1", "V3", "badsetup", "badverify", "other"}

\* Each operation carries what its handler reads of it, and no more.
Requests ==
    {m \in [op : Operations, id : Draws, eph : Ephs \cup {None}, who : Ids \cup {None},
            key : Keys \cup {None}, good : BOOLEAN] :
        /\ m.id # 0 => m.op \in {"M3", "M5", "V3"}
        /\ m.eph # None <=> m.op = "V3" \/ (m.op = "V1" /\ m.good)
        /\ m.who # None <=> m.op \in {"M5", "V3"}
        /\ m.key # None <=> m.op \in {"M5", "V3"}
        /\ ~m.good => m.op \in {"M1", "M3", "M5", "V1", "fp1", "fp3"}}

Answer(status, body) == reply' = [status |-> status, body |-> body, id |-> 0, eph |-> None]
--------------------------------------------------------------------------------
Init ==
    /\ cfg \in [pin : BOOLEAN, authPin : BOOLEAN, fairplay : BOOLEAN]
    /\ setup = NoSetup /\ verify = NoVerify
    /\ session = NoSession /\ verified = FALSE
    /\ transients = [c \in Ids |-> None]
    /\ controllers = [c \in Ids |-> None]
    /\ fp = 0 /\ media = FALSE /\ io = Plain /\ draws = 0
    /\ reply = [status |-> 404, body |-> "empty", id |-> 0, eph |-> None]
    /\ keys = FALSE
--------------------------------------------------------------------------------
(* ReceiverPairing                                                         *)

\* Mutant of ForgetSession: reset_verify drops the exchange only.
KeepSession == UNCHANGED <<session, verified>>

\* ReceiverPairing::reset_verify forgets the session as well as the exchange.
ForgetSession == session' = NoSession /\ verified' = FALSE

Refuse == Answer(200, "err") /\ UNCHANGED pairingVars

\* The 32-byte body of the raw legacy exchange.
RawPairSetup(m) ==
    /\ m.op = "raw"
    /\ IF cfg.pin
       THEN Refuse
       ELSE /\ ForgetSession /\ verify' = NoVerify /\ setup' = NoSetup
            /\ Answer(200, "pk32")
            /\ UNCHANGED <<transients, controllers, draws>>

\* Mutant of NeedsPin: asks for the kind of authentication, not for the PIN.
NeedsPinAuth(m) == m.op = "M1t" /\ cfg.authPin

\* A transient pair-setup is not offered where a PIN is set.
NeedsPin(m) == m.op = "M1t" /\ cfg.pin

RefuseM1(m) ==
    /\ m.op \in {"M1", "M1t"}
    /\ ~m.good \/ NeedsPin(m)
    /\ Refuse

BeginSrpSetup(m) ==
    /\ m.op \in {"M1", "M1t"}
    /\ m.good /\ ~NeedsPin(m)
    /\ draws < MaxDraws
    /\ draws' = draws + 1
    /\ ForgetSession /\ verify' = NoVerify
    /\ setup' = [id |-> draws', proved |-> FALSE, transient |-> m.op = "M1t"]
    /\ reply' = [status |-> 200, body |-> "M2", id |-> draws', eph |-> None]
    /\ UNCHANGED <<transients, controllers>>

VerifySrpProof(m) ==
    /\ m.op = "M3"
    /\ \/ /\ setup = NoSetup \/ setup.proved
          /\ Refuse
       \/ /\ setup # NoSetup /\ ~setup.proved
          /\ IF m.good /\ m.id = setup.id
             THEN /\ setup' = [setup EXCEPT !.proved = TRUE]
                  /\ reply' = [status |-> 200, body |-> "M4", id |-> setup.id, eph |-> None]
             ELSE setup' = NoSetup /\ Answer(200, "err")
          /\ UNCHANGED <<verify, transients, controllers, session, verified, draws>>

FinishSrpSetup(m) ==
    /\ m.op = "M5"
    /\ \/ ~setup.proved /\ Refuse
       \/ /\ setup.proved
          /\ setup' = NoSetup
          /\ IF m.good /\ m.id = setup.id
             THEN /\ IF setup.transient
                     THEN /\ transients' = [transients EXCEPT ![m.who] = m.key]
                          /\ UNCHANGED controllers
                     ELSE /\ controllers' = [controllers EXCEPT ![m.who] = m.key]
                          /\ UNCHANGED transients
                  /\ reply' = [status |-> 200, body |-> "M6", id |-> setup.id, eph |-> None]
             ELSE Answer(200, "err") /\ UNCHANGED <<transients, controllers>>
          /\ UNCHANGED <<verify, session, verified, draws>>

PairSetup(m) ==
    /\ \/ RawPairSetup(m) \/ RefuseM1(m) \/ BeginSrpSetup(m)
       \/ VerifySrpProof(m) \/ FinishSrpSetup(m)
       \/ m.op = "badsetup" /\ Refuse
    /\ keys' = FALSE

BeginHapVerify(m) ==
    /\ m.op = "V1"
    /\ \/ ~m.good /\ Refuse
       \/ /\ m.good /\ draws < MaxDraws
          /\ draws' = draws + 1
          /\ verify' = [id |-> draws', eph |-> m.eph]
          /\ ForgetSession
          /\ reply' = [status |-> 200, body |-> "V2", id |-> draws', eph |-> m.eph]
          /\ UNCHANGED <<setup, transients, controllers>>
    /\ keys' = FALSE

\* A transient registration is looked up before a permanent one.
KeyOf(c) == IF transients[c] # None THEN transients[c] ELSE controllers[c]

\* Mutant of ProvesIdentity: the signature is not compared with the registered key.
ProvesExchange(m) == m.id = verify.id /\ m.eph = verify.eph

\* V3 opens under the pending exchange and is signed by the registered key.
ProvesIdentity(m) ==
    m.id = verify.id /\ m.eph = verify.eph /\ KeyOf(m.who) # None /\ KeyOf(m.who) = m.key

\* Whatever the outcome, keys go back to serve_control while `verified` is set.
FinishHapVerify(m) ==
    /\ m.op = "V3"
    /\ \/ verify = NoVerify /\ Refuse
       \/ /\ verify # NoVerify
          /\ verify' = NoVerify
          /\ IF ProvesIdentity(m)
             THEN /\ session' = [id |-> verify.id, eph |-> verify.eph, who |-> m.who]
                  /\ verified' = TRUE
                  /\ reply' = [status |-> 200, body |-> "V4", id |-> verify.id, eph |-> verify.eph]
             ELSE Answer(200, "err") /\ UNCHANGED <<session, verified>>
          /\ UNCHANGED <<setup, transients, controllers, draws>>
    /\ keys' = verified'

PairVerify(m) ==
    \/ BeginHapVerify(m)
    \/ FinishHapVerify(m)
    \/ m.op = "badverify" /\ Refuse /\ keys' = FALSE
--------------------------------------------------------------------------------
(* dispatch and serve_control                                              *)

\* Mutant of Admitted: SETUP is left out of the gated requests.
AdmittedButSetup(m) == m.op \in SessionOps \ {"SETUP"} => verified

\* Session-stage requests follow a completed pair-verify.
Admitted(m) == m.op \in SessionOps => verified

RefuseSession(m) == ~Admitted(m) /\ Answer(455, "text") /\ UNCHANGED <<fp, media>>

FairPlayComplete == fp = 2

FpSetup(m) ==
    /\ m.op \in {"fp1", "fp3"} /\ Admitted(m)
    /\ IF ~cfg.fairplay \/ FairPlayComplete
       THEN Answer(404, "text") /\ UNCHANGED fp
       ELSE IF m.good /\ m.op = (IF fp = 0 THEN "fp1" ELSE "fp3")
            THEN fp' = fp + 1 /\ Answer(200, IF fp = 0 THEN "fp2" ELSE "fp4")
            ELSE Answer(400, "text") /\ UNCHANGED fp
    /\ UNCHANGED media

FairPlayPending == cfg.fairplay /\ ~FairPlayComplete

\* The media endpoints are allocated on the first SETUP that finds sockets.
Setup(m) ==
    /\ m.op = "SETUP" /\ Admitted(m)
    /\ IF FairPlayPending
       THEN Answer(455, "text") /\ UNCHANGED media
       ELSE \/ Answer(200, "plist") /\ media' = TRUE
            \/ ~media /\ Answer(500, "text") /\ UNCHANGED media
    /\ UNCHANGED fp

OtherSession(m) ==
    /\ m.op \in {"RECORD", "SET_PARAMETER", "feedback", "TEARDOWN"} /\ Admitted(m)
    /\ Answer(200, IF m.op = "feedback" THEN "plist" ELSE "empty")
    /\ UNCHANGED <<fp, media>>

Stateless(m) ==
    /\ \/ m.op = "info" /\ Answer(200, "info")
       \/ m.op = "pinstart" /\ Answer(IF cfg.authPin THEN 200 ELSE 453, "empty")
       \/ m.op = "other" /\ Answer(404, "empty")
    /\ UNCHANGED <<fp, media>>

Dispatch(m) ==
    /\ UNCHANGED cfg
    /\ \/ (PairSetup(m) \/ PairVerify(m)) /\ UNCHANGED <<fp, media>>
       \/ /\ RefuseSession(m) \/ FpSetup(m) \/ Setup(m) \/ OtherSession(m) \/ Stateless(m)
          /\ UNCHANGED pairingVars /\ keys' = FALSE

\* Mutant of EnableHap: the switch is made one response late.
EnableHapLate ==
    io' = IF keys /\ ~io.hap
          THEN [hap |-> TRUE, id |-> session.id, eph |-> session.eph]
          ELSE io

\* CtrlStream::enable_hap, called after the response is written; keeps the
\* ciphers of a connection that already is HAP.
EnableHap ==
    io' = IF keys' /\ ~io.hap
          THEN [hap |-> TRUE, id |-> session'.id, eph |-> session'.eph]
          ELSE io

Serve(m) == Dispatch(m) /\ EnableHap

Next == \E m \in Requests : Serve(m)

Spec == Init /\ [][Next]_vars
--------------------------------------------------------------------------------
(* Properties                                                              *)

\* Every variable ranges over what the code can store in it.
TypeOK ==
    /\ cfg \in [pin : BOOLEAN, authPin : BOOLEAN, fairplay : BOOLEAN]
    /\ setup \in [id : Draws, proved : BOOLEAN, transient : BOOLEAN]
    /\ verify \in [id : Draws, eph : Ephs \cup {None}]
    /\ transients \in [Ids -> Keys \cup {None}]
    /\ controllers \in [Ids -> Keys \cup {None}]
    /\ session \in [id : Draws, eph : Ephs \cup {None}, who : Ids \cup {None}]
    /\ verified \in BOOLEAN /\ fp \in 0..2 /\ media \in BOOLEAN
    /\ io \in [hap : BOOLEAN, id : Draws, eph : Ephs \cup {None}]
    /\ draws \in Draws /\ reply \in Replies /\ keys \in BOOLEAN

\* dispatch (pairing.verified) and serve_control (the stream) are told of a
\* pair-verify separately; no request order leaves a verified session whose
\* connection still is plaintext, so no session request is served in the clear.
VerifiedIsEncrypted == verified => io.hap

\* A session always belongs to a controller that pair-setup registered on this
\* very connection, whatever resets and retries came between.
VerifiedIsRegistered == verified => session.who \in Ids /\ KeyOf(session.who) # None

\* An exchange in progress and a live session exclude each other: V1 closes
\* the session that its V3 is to replace, so a failed V3 leaves none behind.
PendingExcludesVerified == verify # NoVerify => ~verified

\* A pair-setup begun on a live session ends that session: one in progress
\* beside a session was begun before the session's own pair-verify.
SetupPredatesSession == verified /\ setup # NoSetup => setup.id < session.id

\* Where a PIN is set nobody is registered, or on the way to be, without it:
\* every transient entry point stays shut through every sequence of requests.
PinGuardsRegistration ==
    cfg.pin => ~setup.transient /\ \A c \in Ids : transients[c] = None

\* FairPlay and the media endpoints are reached over the encrypted connection
\* only, and the endpoints only once FairPlay, where present, is complete.
MediaBehindFairPlay ==
    /\ media \/ fp > 0 => io.hap
    /\ media /\ cfg.fairplay => fp = 2

\* Keys go back to serve_control with the answer that completes a pair-verify and
\* with no other, as the comment on pair_verify has it; a V3 sent once more while
\* the session is verified is answered with an error, and with the keys.
KeysOnlyOnFinalExchange == keys => reply.body = "V4"

\* What a connection promises (SessionGate), and its state in this module.
Gate == INSTANCE SessionGate WITH
            known  <- {c \in Ids : KeyOf(c) # None},
            owner  <- IF verified THEN session.who ELSE None,
            secure <- io.hap,
            media  <- media
GateSpec == Gate!Spec
================================================================================
