------------------------- MODULE ReceiverSession_proofs -------------------------
(***************************************************************************)
(* Proofs about ReceiverSession for every set of controllers, of keys and  *)
(* of ephemerals and every bound on the draws: type correctness, the       *)
(* safety invariants, and that a connection implements SessionGate.        *)
(***************************************************************************)
EXTENDS ReceiverSession, TLAPS

(***************************************************************************)
(* Draws are handed out in order, so what names one is not from the future *)
(* and a pending pair-verify is younger than a pending pair-setup: that is *)
(* what SetupPredatesSession needs at the moment V3 makes a session.       *)
(***************************************************************************)
DrawOrder ==
    /\ setup.id <= draws /\ verify.id <= draws
    /\ verify # NoVerify /\ setup # NoSetup => setup.id < verify.id

IInv ==
    /\ TypeOK
    /\ VerifiedIsEncrypted
    /\ VerifiedIsRegistered
    /\ PendingExcludesVerified
    /\ DrawOrder
    /\ SetupPredatesSession
    /\ PinGuardsRegistration
    /\ MediaBehindFairPlay
--------------------------------------------------------------------------------
(* What the requests carry, operation by operation. *)
LEMMA RequestFields ==
    ASSUME NEW m \in Requests
    PROVE  /\ m.op = "M5" => m.who \in Ids /\ m.key \in Keys
           /\ m.op = "V1" => m.eph \in Ephs \cup {None}
           /\ m.op = "V3" => m.who \in Ids
  BY DEF Requests

(* Draws are numbered from 1 up to their bound. *)
LEMMA DrawsInterval ==
    /\ 0 \in Draws /\ Draws \subseteq Nat
    /\ \A d \in Draws : d < MaxDraws => d + 1 \in Draws
  BY MaxDrawsNat DEF Draws

(* A reply always is one dispatch can give. *)
LEMMA AnswerIsReply ==
    ASSUME NEW status \in Statuses, NEW body \in Bodies, Answer(status, body)
    PROVE  reply' \in Replies
  BY DrawsInterval DEF Answer, Replies

(* A refused request changes nothing and is answered with an error. *)
LEMMA RefuseType ==
    ASSUME Refuse
    PROVE  UNCHANGED pairingVars /\ reply' \in Replies
<1>1. 200 \in Statuses /\ "err" \in Bodies
  BY DEF Statuses, Bodies
<1> QED
  BY <1>1, AnswerIsReply DEF Refuse

(* The switch to HAP is made once and never undone. *)
LEMMA HapStays ==
    ASSUME EnableHap, io \in [hap : BOOLEAN, id : Draws, eph : Ephs \cup {None}],
           session' \in [id : Draws, eph : Ephs \cup {None}, who : Ids \cup {None}],
           keys' \in BOOLEAN
    PROVE  /\ io' \in [hap : BOOLEAN, id : Draws, eph : Ephs \cup {None}]
           /\ io'.hap = (io.hap \/ keys')
  BY DEF EnableHap
--------------------------------------------------------------------------------
(* Type correctness. *)

(* What the pairing handlers may store. *)
PairingTypes ==
    /\ setup \in [id : Draws, proved : BOOLEAN, transient : BOOLEAN]
    /\ verify \in [id : Draws, eph : Ephs \cup {None}]
    /\ transients \in [Ids -> Keys \cup {None}]
    /\ controllers \in [Ids -> Keys \cup {None}]
    /\ session \in [id : Draws, eph : Ephs \cup {None}, who : Ids \cup {None}]
    /\ verified \in BOOLEAN /\ draws \in Draws

LEMMA InitType == Init => TypeOK
<1> SUFFICES ASSUME Init PROVE TypeOK
  OBVIOUS
<1>1. PairingTypes
  BY DrawsInterval DEF Init, PairingTypes, NoSetup, NoVerify, NoSession
<1>2. reply \in Replies
  BY DrawsInterval DEF Init, Replies, Statuses, Bodies
<1>3. io \in [hap : BOOLEAN, id : Draws, eph : Ephs \cup {None}]
  BY DrawsInterval DEF Init, Plain
<1>4. cfg \in [pin : BOOLEAN, authPin : BOOLEAN, fairplay : BOOLEAN]
  BY DEF Init
<1>5. fp \in 0..2
  BY DEF Init
<1>6. media \in BOOLEAN /\ keys \in BOOLEAN
  BY Zenon DEF Init
<1> QED
  BY <1>1, <1>2, <1>3, <1>4, <1>5, <1>6 DEF PairingTypes, TypeOK

(* What pair-setup and pair-verify store has its type. *)
LEMMA PairingType ==
    ASSUME TypeOK, NEW m \in Requests, PairSetup(m) \/ PairVerify(m)
    PROVE  PairingTypes' /\ reply' \in Replies /\ keys' \in BOOLEAN
<1> USE DrawsInterval
<1>t. PairingTypes /\ m.eph \in Ephs \cup {None}
  BY DEF TypeOK, PairingTypes, Requests
<1>0. ASSUME Refuse PROVE PairingTypes' /\ reply' \in Replies
  BY <1>t, <1>0, RefuseType DEF PairingTypes, pairingVars
<1>1. ASSUME RawPairSetup(m) PROVE PairingTypes' /\ reply' \in Replies
  <2>1. CASE cfg.pin
    BY <1>0, <1>1, <2>1 DEF RawPairSetup
  <2>2. CASE ~cfg.pin
    <3>1. reply' \in Replies
      BY <1>1, <2>2 DEF RawPairSetup, Answer, Replies, Statuses, Bodies
    <3>2. /\ setup' = NoSetup /\ verify' = NoVerify /\ session' = NoSession
          /\ verified' = FALSE /\ UNCHANGED <<transients, controllers, draws>>
      BY <1>1, <2>2 DEF RawPairSetup, ForgetSession
    <3> QED
      BY <1>t, <1>1, <3>1, <3>2 DEF PairingTypes, NoSetup, NoVerify, NoSession
  <2> QED BY <2>1, <2>2
<1>2. ASSUME RefuseM1(m) PROVE PairingTypes' /\ reply' \in Replies
  BY <1>0, <1>2 DEF RefuseM1
<1>3. ASSUME BeginSrpSetup(m) PROVE PairingTypes' /\ reply' \in Replies
  <2>1. reply' \in Replies
    BY <1>t, <1>3 DEF BeginSrpSetup, Replies, Statuses, Bodies, PairingTypes
  <2> QED
    BY <1>t, <1>3, <2>1 DEF BeginSrpSetup, ForgetSession, PairingTypes, NoVerify, NoSession
<1>4. ASSUME VerifySrpProof(m) PROVE PairingTypes' /\ reply' \in Replies
  <2>1. CASE Refuse
    BY <1>0, <1>4, <2>1
  <2>2. CASE ~Refuse
    <3>1. reply' \in Replies
      BY <1>t, <1>4, <2>2 DEF VerifySrpProof, Answer, Replies, Statuses, Bodies, PairingTypes
    <3>2. /\ setup' = [setup EXCEPT !.proved = TRUE] \/ setup' = NoSetup
          /\ UNCHANGED <<verify, transients, controllers, session, verified, draws>>
      BY <1>4, <2>2 DEF VerifySrpProof
    <3> QED
      <4>1. CASE setup' = NoSetup
        BY <1>t, <1>4, <3>1, <3>2, <4>1 DEF PairingTypes, NoSetup
      <4>2. CASE setup' = [setup EXCEPT !.proved = TRUE]
        BY <1>t, <1>4, <3>1, <3>2, <4>2 DEF PairingTypes
      <4> QED BY <3>2, <4>1, <4>2
  <2> QED BY <2>1, <2>2
<1>5. ASSUME FinishSrpSetup(m) PROVE PairingTypes' /\ reply' \in Replies
  <2>1. CASE Refuse
    BY <1>0, <1>5, <2>1
  <2>2. CASE ~Refuse
    <3>1. reply' \in Replies
      BY <1>t, <1>5, <2>2 DEF FinishSrpSetup, Answer, Replies, Statuses, Bodies, PairingTypes
    <3>2. /\ setup' = NoSetup /\ UNCHANGED <<verify, session, verified, draws>>
          /\ \/ transients' = [transients EXCEPT ![m.who] = m.key] /\ UNCHANGED controllers
             \/ controllers' = [controllers EXCEPT ![m.who] = m.key] /\ UNCHANGED transients
             \/ UNCHANGED <<transients, controllers>>
      BY <1>5, <2>2 DEF FinishSrpSetup
    <3>3. m.who \in Ids /\ m.key \in Keys
      BY <1>5, RequestFields DEF FinishSrpSetup
    <3> QED
      BY <1>t, <1>5, <3>1, <3>2, <3>3 DEF PairingTypes, NoSetup
  <2> QED BY <2>1, <2>2
<1>6. CASE BeginHapVerify(m)
  <2>1. CASE Refuse
    BY <1>0, <1>6, <2>1 DEF BeginHapVerify
  <2>2. CASE ~Refuse
    <3>1. reply' \in Replies
      BY <1>t, <1>6, <2>2 DEF BeginHapVerify, Replies, Statuses, Bodies, PairingTypes
    <3>2. /\ draws' \in Draws /\ verify' = [id |-> draws', eph |-> m.eph]
          /\ session' = NoSession /\ verified' = FALSE
          /\ UNCHANGED <<setup, transients, controllers>> /\ keys' = FALSE
      BY <1>t, <1>6, <2>2 DEF BeginHapVerify, ForgetSession, PairingTypes
    <3> QED
      BY <1>t, <3>1, <3>2 DEF PairingTypes, NoSession
  <2> QED BY <2>1, <2>2
<1>7. CASE FinishHapVerify(m)
  <2>1. CASE Refuse
    BY <1>0, <1>7, <2>1 DEF FinishHapVerify, PairingTypes
  <2>2. CASE ~Refuse
    <3>1. reply' \in Replies
      BY <1>t, <1>7, <2>2 DEF FinishHapVerify, Answer, Replies, Statuses, Bodies, PairingTypes
    <3>2. /\ verify' = NoVerify /\ keys' = verified'
          /\ UNCHANGED <<setup, transients, controllers, draws>>
          /\ \/ /\ session' = [id |-> verify.id, eph |-> verify.eph, who |-> m.who]
                /\ verified' = TRUE
             \/ UNCHANGED <<session, verified>>
      BY <1>7, <2>2 DEF FinishHapVerify
    <3>3. m.who \in Ids
      BY <1>7, RequestFields DEF FinishHapVerify
    <3>4. session' \in [id : Draws, eph : Ephs \cup {None}, who : Ids \cup {None}]
      BY <1>t, <3>2, <3>3 DEF PairingTypes
    <3> QED
      BY <1>t, <3>1, <3>2, <3>4 DEF PairingTypes, NoVerify
  <2> QED BY <2>1, <2>2
<1>8. CASE m.op = "badverify" /\ Refuse /\ keys' = FALSE
  BY <1>0, <1>8
<1> QED
  <2>1. CASE PairSetup(m)
    <3>1. PairingTypes' /\ reply' \in Replies
      BY <2>1, <1>0, <1>1, <1>2, <1>3, <1>4, <1>5, Zenon DEF PairSetup
    <3>2. keys' \in BOOLEAN
      BY <2>1 DEF PairSetup
    <3> QED BY <3>1, <3>2
  <2>2. CASE PairVerify(m)
    BY <2>2, <1>6, <1>7, <1>8 DEF PairVerify
  <2> QED BY <2>1, <2>2

(* What the other handlers store has its type. *)
LEMMA SessionType ==
    ASSUME TypeOK, NEW m \in Requests,
           RefuseSession(m) \/ FpSetup(m) \/ Setup(m) \/ OtherSession(m) \/ Stateless(m)
    PROVE  fp' \in 0..2 /\ media' \in BOOLEAN /\ reply' \in Replies
<1> USE AnswerIsReply DEF TypeOK, Statuses, Bodies
<1>1. CASE RefuseSession(m)
  BY <1>1 DEF RefuseSession
<1>2. CASE FpSetup(m)
  BY <1>2 DEF FpSetup, FairPlayComplete
<1>3. CASE Setup(m)
  <2>1. reply' \in Replies
    BY <1>3 DEF Setup
  <2>2. fp' = fp /\ (media' = TRUE \/ media' = media)
    BY <1>3 DEF Setup
  <2> QED
    BY <2>1, <2>2
<1>4. CASE OtherSession(m)
  BY <1>4 DEF OtherSession
<1>5. CASE Stateless(m)
  BY <1>5 DEF Stateless
<1> QED
  BY <1>1, <1>2, <1>3, <1>4, <1>5

LEMMA TypeStep == TypeOK /\ [Next]_vars => TypeOK'
<1>1. ASSUME TypeOK, UNCHANGED vars PROVE TypeOK'
  BY <1>1 DEF TypeOK, vars, pairingVars
<1>2. ASSUME TypeOK, NEW m \in Requests, Dispatch(m), EnableHap PROVE TypeOK'
  <2>1. CASE (PairSetup(m) \/ PairVerify(m)) /\ UNCHANGED <<fp, media>>
    <3>1. PairingTypes' /\ reply' \in Replies /\ keys' \in BOOLEAN
      BY <1>2, <2>1, PairingType
    <3>2. io' \in [hap : BOOLEAN, id : Draws, eph : Ephs \cup {None}]
      BY <1>2, <3>1, HapStays DEF TypeOK, PairingTypes
    <3> QED
      BY <1>2, <2>1, <3>1, <3>2 DEF Dispatch, TypeOK, PairingTypes
  <2>2. CASE /\ UNCHANGED pairingVars /\ keys' = FALSE
             /\ RefuseSession(m) \/ FpSetup(m) \/ Setup(m) \/ OtherSession(m) \/ Stateless(m)
    <3>1. fp' \in 0..2 /\ media' \in BOOLEAN /\ reply' \in Replies
      BY <1>2, <2>2, SessionType
    <3>2. io' = io /\ keys' = FALSE /\ cfg' = cfg
      BY <1>2, <2>2 DEF EnableHap, Dispatch
    <3>3. UNCHANGED <<setup, verify, transients, controllers, session, verified, draws>>
      BY <2>2 DEF pairingVars
    <3>4. PairingTypes'
      BY <1>2, <3>3 DEF TypeOK, PairingTypes
    <3>5. cfg' \in [pin : BOOLEAN, authPin : BOOLEAN, fairplay : BOOLEAN]
      BY <1>2, <3>2 DEF TypeOK
    <3>6. io' \in [hap : BOOLEAN, id : Draws, eph : Ephs \cup {None}]
      BY <1>2, <3>2 DEF TypeOK
    <3>7. keys' \in BOOLEAN
      BY <3>2
    <3> QED
      BY <3>1, <3>4, <3>5, <3>6, <3>7 DEF TypeOK, PairingTypes
  <2> QED BY <1>2, <2>1, <2>2 DEF Dispatch
<1> QED
  BY <1>1, <1>2 DEF Next, Serve

(***************************************************************************)
(* Every variable keeps its type, for every value of the constants.        *)
(***************************************************************************)
THEOREM TypeCorrect == Spec => []TypeOK
  BY InitType, TypeStep, PTL DEF Spec
--------------------------------------------------------------------------------
(* The safety invariants. *)

(* The part of IInv that speaks of ReceiverPairing alone. *)
PairingInv ==
    /\ VerifiedIsRegistered
    /\ PendingExcludesVerified
    /\ DrawOrder
    /\ SetupPredatesSession
    /\ PinGuardsRegistration

LEMMA InitInv == Init => IInv
<1> SUFFICES ASSUME Init PROVE IInv
  OBVIOUS
<1>1. TypeOK
  BY InitType
<1>2. verified = FALSE /\ verify = NoVerify /\ setup = NoSetup /\ media = FALSE /\ fp = 0
  BY DEF Init
<1>3. DrawOrder
  BY <1>2 DEF Init, DrawOrder, NoVerify, NoSetup
<1>4. PinGuardsRegistration
  BY <1>2 DEF Init, PinGuardsRegistration, NoSetup
<1> QED
  BY <1>1, <1>2, <1>3, <1>4 DEF IInv, VerifiedIsEncrypted, VerifiedIsRegistered,
     PendingExcludesVerified, SetupPredatesSession, MediaBehindFairPlay

(* An untouched ReceiverPairing keeps its part of the invariant. *)
LEMMA PairingInvStutter ==
    ASSUME PairingInv, UNCHANGED pairingVars, cfg' = cfg
    PROVE  PairingInv'
<1>1. DrawOrder' /\ SetupPredatesSession' /\ PendingExcludesVerified'
  BY DEF PairingInv, pairingVars, DrawOrder, SetupPredatesSession, PendingExcludesVerified
<1>2. VerifiedIsRegistered' /\ PinGuardsRegistration'
  BY DEF PairingInv, pairingVars, VerifiedIsRegistered, PinGuardsRegistration, KeyOf
<1> QED
  BY <1>1, <1>2 DEF PairingInv

(* Dropping the session and the exchanges keeps it. *)
LEMMA PairingInvForget ==
    ASSUME PairingInv, ForgetSession, DrawOrder', PinGuardsRegistration'
    PROVE  PairingInv'
  BY DEF PairingInv, ForgetSession, VerifiedIsRegistered, PendingExcludesVerified,
     SetupPredatesSession

(* pair-setup: a session survives M3 and M5, whose exchange is older than it. *)
LEMMA PairSetupInv ==
    ASSUME PairingInv, TypeOK, NEW m \in Requests, PairSetup(m), cfg' = cfg
    PROVE  PairingInv' /\ (verified' => verified)
<1>t. PairingTypes
  BY DEF TypeOK, PairingTypes
<1>0. ASSUME Refuse PROVE PairingInv' /\ (verified' => verified)
  BY <1>0, PairingInvStutter, RefuseType DEF pairingVars
<1>1. ASSUME RawPairSetup(m) PROVE PairingInv' /\ (verified' => verified)
  <2>1. CASE cfg.pin
    BY <1>0, <1>1, <2>1 DEF RawPairSetup
  <2>2. CASE ~cfg.pin
    <3>1. /\ ForgetSession /\ setup' = NoSetup /\ verify' = NoVerify
          /\ UNCHANGED <<transients, controllers, draws>>
      BY <1>1, <2>2 DEF RawPairSetup
    <3>2. DrawOrder'
      BY <1>t, <3>1, DrawsInterval DEF DrawOrder, NoSetup, NoVerify, PairingTypes
    <3>3. PinGuardsRegistration'
      BY <3>1, <2>2 DEF PinGuardsRegistration
    <3> QED
      BY <3>1, <3>2, <3>3, PairingInvForget DEF ForgetSession
  <2> QED BY <2>1, <2>2
<1>2. ASSUME RefuseM1(m) PROVE PairingInv' /\ (verified' => verified)
  BY <1>0, <1>2 DEF RefuseM1
<1>3. ASSUME BeginSrpSetup(m) PROVE PairingInv' /\ (verified' => verified)
  <2>1. /\ ForgetSession /\ verify' = NoVerify /\ draws' = draws + 1
        /\ setup' = [id |-> draws', proved |-> FALSE, transient |-> m.op = "M1t"]
        /\ UNCHANGED <<transients, controllers>>
        /\ cfg.pin => m.op # "M1t"
    BY <1>3 DEF BeginSrpSetup, NeedsPin
  <2>2. DrawOrder'
    BY <1>t, <2>1, DrawsInterval DEF DrawOrder, NoVerify, PairingTypes
  <2>3. PinGuardsRegistration'
    BY <2>1 DEF PairingInv, PinGuardsRegistration
  <2> QED
    BY <2>1, <2>2, <2>3, PairingInvForget DEF ForgetSession
<1>4. ASSUME VerifySrpProof(m) PROVE PairingInv' /\ (verified' => verified)
  <2>1. CASE Refuse
    BY <1>0, <2>1
  <2>2. CASE ~Refuse
    <3>1. /\ setup # NoSetup
          /\ setup' = [setup EXCEPT !.proved = TRUE] \/ setup' = NoSetup
          /\ UNCHANGED <<verify, transients, controllers, session, verified, draws>>
      BY <1>4, <2>2 DEF VerifySrpProof
    <3>2. /\ setup' # NoSetup => setup'.id = setup.id
          /\ setup'.id <= draws /\ (setup'.transient => setup.transient)
      BY <1>t, <3>1, DrawsInterval DEF PairingInv, DrawOrder, PairingTypes, NoSetup
    <3>3. DrawOrder' /\ SetupPredatesSession' /\ PendingExcludesVerified'
      BY <3>1, <3>2 DEF PairingInv, DrawOrder, SetupPredatesSession, PendingExcludesVerified,
         NoVerify
    <3>4. VerifiedIsRegistered' /\ PinGuardsRegistration'
      BY <3>1, <3>2 DEF PairingInv, VerifiedIsRegistered, PinGuardsRegistration, KeyOf
    <3> QED
      BY <3>1, <3>3, <3>4 DEF PairingInv
  <2> QED BY <2>1, <2>2
<1>5. ASSUME FinishSrpSetup(m) PROVE PairingInv' /\ (verified' => verified)
  <2>1. CASE Refuse
    BY <1>0, <2>1
  <2>2. CASE ~Refuse
    <3>1. /\ setup' = NoSetup /\ UNCHANGED <<verify, session, verified, draws>>
          /\ \/ /\ setup.transient /\ UNCHANGED controllers
                /\ transients' = [transients EXCEPT ![m.who] = m.key]
             \/ /\ controllers' = [controllers EXCEPT ![m.who] = m.key]
                /\ UNCHANGED transients
             \/ UNCHANGED <<transients, controllers>>
      BY <1>5, <2>2 DEF FinishSrpSetup
    <3>2. m.who \in Ids /\ m.key \in Keys /\ m.key # None
      BY <1>5, RequestFields, NoneIsNew DEF FinishSrpSetup
    <3>3. DrawOrder' /\ SetupPredatesSession' /\ PendingExcludesVerified'
      BY <1>t, <3>1, DrawsInterval DEF PairingInv, DrawOrder, SetupPredatesSession,
         PendingExcludesVerified, NoSetup, NoVerify, PairingTypes
    <3>4. \A c \in Ids : KeyOf(c) # None => KeyOf(c)' # None
      BY <1>t, <3>1, <3>2 DEF KeyOf, PairingTypes
    <3>5. VerifiedIsRegistered'
      BY <3>1, <3>4 DEF PairingInv, VerifiedIsRegistered
    <3>6. PinGuardsRegistration'
      BY <3>1 DEF PairingInv, PinGuardsRegistration, NoSetup
    <3> QED
      BY <3>1, <3>3, <3>5, <3>6 DEF PairingInv
  <2> QED BY <2>1, <2>2
<1> QED
  BY <1>0, <1>1, <1>2, <1>3, <1>4, <1>5, Zenon DEF PairSetup

(* pair-verify: V1 closes the session, V3 opens one of a registered controller. *)
LEMMA PairVerifyInv ==
    ASSUME PairingInv, TypeOK, NEW m \in Requests, PairVerify(m), cfg' = cfg
    PROVE  PairingInv' /\ (verified' => verified \/ keys')
<1>t. PairingTypes
  BY DEF TypeOK, PairingTypes
<1>0. ASSUME Refuse PROVE PairingInv' /\ (verified' => verified)
  BY <1>0, PairingInvStutter, RefuseType DEF pairingVars
<1>1. ASSUME BeginHapVerify(m) PROVE PairingInv' /\ (verified' => verified)
  <2>1. CASE Refuse
    BY <1>0, <2>1
  <2>2. CASE ~Refuse
    <3>1. /\ ForgetSession /\ draws' = draws + 1
          /\ verify' = [id |-> draws', eph |-> m.eph]
          /\ UNCHANGED <<setup, transients, controllers>>
      BY <1>1, <2>2 DEF BeginHapVerify
    <3>2. DrawOrder'
      <4>1. draws \in Nat /\ setup.id \in Nat /\ setup.id <= draws
        BY <1>t, DrawsInterval DEF PairingTypes, PairingInv, DrawOrder
      <4>2. verify'.id = draws + 1 /\ draws' = draws + 1 /\ setup' = setup
        BY <3>1
      <4> QED
        BY <4>1, <4>2 DEF DrawOrder
    <3>3. PinGuardsRegistration'
      BY <3>1 DEF PairingInv, PinGuardsRegistration
    <3> QED
      BY <3>1, <3>2, <3>3, PairingInvForget DEF ForgetSession
  <2> QED BY <2>1, <2>2
<1>2. ASSUME FinishHapVerify(m) PROVE PairingInv' /\ (verified' => verified \/ keys')
  <2>1. CASE Refuse
    BY <1>0, <2>1
  <2>2. CASE ~Refuse
    <3>1. /\ verify # NoVerify /\ verify' = NoVerify /\ keys' = verified'
          /\ UNCHANGED <<setup, transients, controllers, draws>>
          /\ \/ /\ session' = [id |-> verify.id, eph |-> verify.eph, who |-> m.who]
                /\ KeyOf(m.who) # None
             \/ UNCHANGED <<session, verified>>
      BY <1>2, <2>2 DEF FinishHapVerify, ProvesIdentity
    <3>2. m.who \in Ids
      BY <1>2, RequestFields DEF FinishHapVerify
    <3>3. DrawOrder'
      BY <1>t, <3>1, DrawsInterval DEF PairingInv, DrawOrder, NoVerify, PairingTypes
    <3>4. SetupPredatesSession'
      <4>1. CASE session' = [id |-> verify.id, eph |-> verify.eph, who |-> m.who]
        <5>1. session'.id = verify.id /\ setup' = setup
          BY <3>1, <4>1
        <5> QED
          BY <3>1, <5>1 DEF PairingInv, DrawOrder, SetupPredatesSession
      <4>2. CASE UNCHANGED <<session, verified>>
        BY <3>1, <4>2 DEF PairingInv, SetupPredatesSession
      <4> QED BY <3>1, <4>1, <4>2
    <3>5. PendingExcludesVerified' /\ PinGuardsRegistration'
      BY <3>1 DEF PairingInv, PendingExcludesVerified, PinGuardsRegistration, NoVerify
    <3>6. VerifiedIsRegistered'
      <4>1. CASE UNCHANGED <<session, verified>>
        BY <3>1, <4>1 DEF PairingInv, VerifiedIsRegistered, KeyOf
      <4>2. CASE ~UNCHANGED <<session, verified>>
        <5>1. session'.who = m.who /\ KeyOf(m.who) # None
          BY <3>1, <4>2
        <5> QED
          BY <3>1, <3>2, <5>1 DEF VerifiedIsRegistered, KeyOf
      <4> QED BY <4>1, <4>2
    <3> QED
      BY <3>1, <3>3, <3>4, <3>5, <3>6 DEF PairingInv
  <2> QED BY <2>1, <2>2
<1> QED
  BY <1>0, <1>1, <1>2, Zenon DEF PairVerify

(* The other handlers run only on a verified, hence encrypted, connection. *)
LEMMA SessionInv ==
    ASSUME IInv, NEW m, cfg' = cfg, io' = io,
           RefuseSession(m) \/ FpSetup(m) \/ Setup(m) \/ OtherSession(m) \/ Stateless(m)
    PROVE  MediaBehindFairPlay'
<1>0. (verified => io.hap) /\ MediaBehindFairPlay
  BY DEF IInv, VerifiedIsEncrypted
<1>1. CASE UNCHANGED <<fp, media>>
  BY <1>0, <1>1 DEF MediaBehindFairPlay
<1>2. CASE FpSetup(m)
  <2>1. verified /\ media' = media
    BY <1>2 DEF FpSetup, Admitted, SessionOps
  <2>2. fp' = fp \/ (fp # 2 /\ cfg.fairplay)
    BY <1>2 DEF FpSetup, FairPlayComplete
  <2> QED
    BY <1>0, <2>1, <2>2 DEF MediaBehindFairPlay
<1>3. CASE Setup(m)
  <2>1. verified /\ fp' = fp
    BY <1>3 DEF Setup, Admitted, SessionOps
  <2>2. media' = media \/ ~(cfg.fairplay /\ fp # 2)
    BY <1>3 DEF Setup, FairPlayPending, FairPlayComplete
  <2> QED
    BY <1>0, <2>1, <2>2 DEF MediaBehindFairPlay
<1> QED
  BY <1>1, <1>2, <1>3 DEF RefuseSession, OtherSession, Stateless

LEMMA InvStep == IInv /\ [Next]_vars => IInv'
<1>1. ASSUME IInv, UNCHANGED vars PROVE IInv'
  <2>1. TypeOK' /\ PairingInv'
    BY <1>1, TypeStep, PairingInvStutter DEF IInv, PairingInv, vars
  <2>2. VerifiedIsEncrypted' /\ MediaBehindFairPlay'
    BY <1>1 DEF IInv, vars, pairingVars, VerifiedIsEncrypted, MediaBehindFairPlay
  <2> QED
    BY <2>1, <2>2 DEF IInv, PairingInv
<1>2. ASSUME IInv, NEW m \in Requests, Dispatch(m), EnableHap PROVE IInv'
  <2>1. TypeOK' /\ cfg' = cfg
    BY <1>2, TypeStep DEF IInv, Next, Serve, Dispatch
  <2>2. PairingInv
    BY <1>2 DEF IInv, PairingInv
  <2>3. CASE (PairSetup(m) \/ PairVerify(m)) /\ UNCHANGED <<fp, media>>
    <3>1. PairingInv' /\ (verified' => verified \/ keys')
      BY <1>2, <2>1, <2>2, <2>3, PairSetupInv, PairVerifyInv DEF IInv
    <3>2. io'.hap = (io.hap \/ keys')
      BY <1>2, <2>1, HapStays DEF IInv, TypeOK
    <3>3. VerifiedIsEncrypted'
      BY <1>2, <3>1, <3>2 DEF IInv, VerifiedIsEncrypted
    <3>4. MediaBehindFairPlay'
      BY <1>2, <2>1, <2>3, <3>2 DEF IInv, MediaBehindFairPlay
    <3> QED
      BY <2>1, <3>1, <3>3, <3>4 DEF IInv, PairingInv
  <2>4. CASE /\ UNCHANGED pairingVars /\ keys' = FALSE
             /\ RefuseSession(m) \/ FpSetup(m) \/ Setup(m) \/ OtherSession(m) \/ Stateless(m)
    <3>1. io' = io
      BY <1>2, <2>4 DEF EnableHap
    <3>2. PairingInv'
      BY <2>1, <2>2, <2>4, PairingInvStutter
    <3>3. VerifiedIsEncrypted'
      BY <1>2, <2>4, <3>1 DEF IInv, VerifiedIsEncrypted, pairingVars
    <3>4. MediaBehindFairPlay'
      BY <1>2, <2>1, <2>4, <3>1, SessionInv
    <3> QED
      BY <2>1, <3>2, <3>3, <3>4 DEF IInv, PairingInv
  <2> QED
    BY <1>2, <2>3, <2>4 DEF Dispatch
<1> QED
  BY <1>1, <1>2 DEF Next, Serve

(***************************************************************************)
(* IInv is an invariant of the receiver's connection.                      *)
(***************************************************************************)
THEOREM Invariance == Spec => []IInv
  BY InitInv, InvStep, PTL DEF Spec

(***************************************************************************)
(* No request order leaves a verified session on a plaintext connection.   *)
(***************************************************************************)
THEOREM Encrypted == Spec => []VerifiedIsEncrypted
<1>1. IInv => VerifiedIsEncrypted
  BY DEF IInv
<1> QED BY <1>1, Invariance, PTL

(***************************************************************************)
(* A session belongs to a controller that pair-setup registered.           *)
(***************************************************************************)
THEOREM Registered == Spec => []VerifiedIsRegistered
<1>1. IInv => VerifiedIsRegistered
  BY DEF IInv
<1> QED BY <1>1, Invariance, PTL

(***************************************************************************)
(* A pair-verify or a pair-setup in progress never outlives, or slips in   *)
(* beside, the session it should have closed.                              *)
(***************************************************************************)
THEOREM ExchangesAndSession == Spec => [](PendingExcludesVerified /\ SetupPredatesSession)
<1>1. IInv => PendingExcludesVerified /\ SetupPredatesSession
  BY DEF IInv
<1> QED BY <1>1, Invariance, PTL

(***************************************************************************)
(* Where a PIN is set, no transient registration is made or begun.         *)
(***************************************************************************)
THEOREM PinGuarded == Spec => []PinGuardsRegistration
<1>1. IInv => PinGuardsRegistration
  BY DEF IInv
<1> QED BY <1>1, Invariance, PTL

(***************************************************************************)
(* FairPlay and media are reached on an encrypted connection only, and     *)
(* media, where FairPlay is present, only behind it.                       *)
(***************************************************************************)
THEOREM MediaGuarded == Spec => []MediaBehindFairPlay
<1>1. IInv => MediaBehindFairPlay
  BY DEF IInv
<1> QED BY <1>1, Invariance, PTL
--------------------------------------------------------------------------------
(* A connection implements SessionGate. *)

Known == {c \in Ids : KeyOf(c) # None}
Owner == IF verified THEN session.who ELSE None

(* What a pairing request may do to the state SessionGate sees. *)
LEMMA PairingEffect ==
    ASSUME IInv, NEW m \in Requests, PairSetup(m) \/ PairVerify(m)
    PROVE  \/ UNCHANGED <<Known, session, verified>> /\ (keys' => verified)
           \/ Known' = Known /\ verified' = FALSE /\ keys' = FALSE
           \/ /\ UNCHANGED <<session, verified>> /\ keys' = FALSE
              /\ \E c \in Ids : Known' = Known \cup {c}
           \/ /\ ~verified /\ verified' = TRUE /\ keys' = TRUE
              /\ Known' = Known /\ session'.who \in Known
<1>t. PairingTypes
  BY DEF IInv, TypeOK, PairingTypes
<1>0. ASSUME Refuse PROVE UNCHANGED <<Known, session, verified>>
  BY <1>0, RefuseType DEF pairingVars, Known, KeyOf
<1>1. ASSUME UNCHANGED <<transients, controllers>> PROVE Known' = Known
  BY <1>1 DEF Known, KeyOf
<1>2. CASE PairSetup(m)
  <2>0. keys' = FALSE
    BY <1>2 DEF PairSetup
  <2>1. CASE Refuse
    BY <1>0, <2>0, <2>1
  <2>2. CASE (RawPairSetup(m) \/ BeginSrpSetup(m)) /\ ~Refuse
    <3>1. UNCHANGED <<transients, controllers>> /\ verified' = FALSE
      BY <2>2 DEF RawPairSetup, BeginSrpSetup, ForgetSession
    <3> QED
      BY <1>1, <2>0, <3>1
  <2>3. CASE VerifySrpProof(m) /\ ~Refuse
    <3>1. UNCHANGED <<transients, controllers, session, verified>>
      BY <2>3 DEF VerifySrpProof
    <3> QED
      BY <1>1, <2>0, <3>1
  <2>4. CASE FinishSrpSetup(m) /\ ~Refuse
    <3>1. /\ UNCHANGED <<session, verified>>
          /\ \/ transients' = [transients EXCEPT ![m.who] = m.key] /\ UNCHANGED controllers
             \/ controllers' = [controllers EXCEPT ![m.who] = m.key] /\ UNCHANGED transients
             \/ UNCHANGED <<transients, controllers>>
      BY <2>4 DEF FinishSrpSetup
    <3>2. m.who \in Ids /\ m.key \in Keys /\ m.key # None
      BY <2>4, RequestFields, NoneIsNew DEF FinishSrpSetup
    <3>3. CASE UNCHANGED <<transients, controllers>>
      BY <1>1, <2>0, <3>1, <3>3
    <3>4. CASE transients' = [transients EXCEPT ![m.who] = m.key] /\ UNCHANGED controllers
      <4>1. Known' = Known \cup {m.who}
        BY <1>t, <3>2, <3>4 DEF Known, KeyOf, PairingTypes
      <4> QED BY <2>0, <3>1, <3>2, <4>1
    <3>5. CASE controllers' = [controllers EXCEPT ![m.who] = m.key] /\ UNCHANGED transients
      <4>1. Known' = Known \cup {m.who}
        BY <1>t, <3>2, <3>5 DEF Known, KeyOf, PairingTypes
      <4> QED BY <2>0, <3>1, <3>2, <4>1
    <3> QED BY <3>1, <3>3, <3>4, <3>5
  <2> QED
    BY <1>2, <2>1, <2>2, <2>3, <2>4, Zenon DEF PairSetup, RefuseM1
<1>3. CASE BeginHapVerify(m)
  <2>1. CASE Refuse
    BY <1>0, <1>3, <2>1 DEF BeginHapVerify
  <2>2. CASE ~Refuse
    <3>1. UNCHANGED <<transients, controllers>> /\ verified' = FALSE /\ keys' = FALSE
      BY <1>3, <2>2 DEF BeginHapVerify, ForgetSession
    <3> QED
      BY <1>1, <3>1
  <2> QED BY <2>1, <2>2
<1>4. CASE FinishHapVerify(m)
  <2>0. keys' = verified'
    BY <1>4 DEF FinishHapVerify
  <2>1. CASE Refuse
    BY <1>0, <2>0, <2>1
  <2>2. CASE ~Refuse
    <3>1. /\ verify # NoVerify /\ UNCHANGED <<transients, controllers>>
          /\ \/ UNCHANGED <<session, verified>>
             \/ /\ session' = [id |-> verify.id, eph |-> verify.eph, who |-> m.who]
                /\ verified' = TRUE /\ KeyOf(m.who) # None
      BY <1>4, <2>2 DEF FinishHapVerify, ProvesIdentity
    <3>2. ~verified /\ m.who \in Ids
      BY <1>4, <3>1, RequestFields DEF FinishHapVerify, IInv, PendingExcludesVerified
    <3>3. Known' = Known
      BY <1>1, <3>1
    <3>4. CASE UNCHANGED <<session, verified>>
      BY <2>0, <3>3, <3>4
    <3>5. CASE ~UNCHANGED <<session, verified>>
      <4>1. verified' = TRUE /\ session'.who = m.who /\ m.who \in Known
        BY <3>1, <3>2, <3>5 DEF Known
      <4> QED BY <2>0, <3>2, <3>3, <4>1
    <3> QED BY <3>4, <3>5
  <2> QED BY <2>1, <2>2
<1>5. CASE m.op = "badverify" /\ Refuse /\ keys' = FALSE
  BY <1>0, <1>5
<1> QED
  BY <1>2, <1>3, <1>4, <1>5, Zenon DEF PairVerify

(* Each step is one of SessionGate's, or one that it does not see. *)
LEMMA GateStep ==
    ASSUME IInv, [Next]_vars
    PROVE  [Gate!Next]_(Gate!vars)
<1> USE DEF Gate!vars, Gate!Next, Gate!Register, Gate!Open, Gate!Close, Gate!StartMedia
<1>o. /\ verified => session.who \in Ids /\ session.who # None /\ io.hap
      /\ verified \in BOOLEAN /\ io.hap \in BOOLEAN
  BY NoneIsNew DEF IInv, TypeOK, VerifiedIsRegistered, VerifiedIsEncrypted
<1>1. CASE UNCHANGED vars
  BY <1>1 DEF vars, pairingVars, KeyOf
<1>2. ASSUME NEW m \in Requests, Dispatch(m), EnableHap
      PROVE  [Gate!Next]_(Gate!vars)
  <2>1. io'.hap = (io.hap \/ keys')
    BY <1>2, TypeStep, HapStays DEF IInv, TypeOK, Next, Serve
  <2>2. CASE (PairSetup(m) \/ PairVerify(m)) /\ UNCHANGED <<fp, media>>
    <3>1. CASE UNCHANGED <<Known, session, verified>> /\ (keys' => verified)
      <4>1. Known' = Known /\ Owner' = Owner /\ media' = media
        BY <2>2, <3>1 DEF Owner
      <4>2. io'.hap = io.hap
        BY <1>o, <2>1, <3>1
      <4> QED
        BY <4>1, <4>2 DEF Known, Owner
    <3>2. CASE Known' = Known /\ verified' = FALSE /\ keys' = FALSE
      <4>1. Known' = Known /\ Owner' = None /\ media' = media /\ io'.hap = io.hap
        BY <1>o, <2>1, <2>2, <3>2 DEF Owner
      <4> QED
        BY <4>1 DEF Known, Owner
    <3>3. CASE /\ UNCHANGED <<session, verified>> /\ keys' = FALSE
               /\ \E c \in Ids : Known' = Known \cup {c}
      <4>1. Owner' = Owner /\ media' = media /\ io'.hap = io.hap
        BY <1>o, <2>1, <2>2, <3>3 DEF Owner
      <4>2. PICK c \in Ids : Known' = Known \cup {c}
        BY <3>3
      <4>3. Gate!Register(c)
        BY <4>1, <4>2 DEF Known, Owner
      <4> QED
        BY <4>3
    <3>4. CASE /\ ~verified /\ verified' = TRUE /\ keys' = TRUE
               /\ Known' = Known /\ session'.who \in Known
      BY <1>o, <2>1, <2>2, <3>4 DEF Known
    <3> QED
      BY <1>2, <2>2, <3>1, <3>2, <3>3, <3>4, PairingEffect
  <2>3. CASE /\ UNCHANGED pairingVars /\ keys' = FALSE
             /\ RefuseSession(m) \/ FpSetup(m) \/ Setup(m) \/ OtherSession(m) \/ Stateless(m)
    <3>1. Known' = Known /\ session' = session /\ verified' = verified /\ io'.hap = io.hap
      BY <2>1, <2>3, <1>o DEF pairingVars, Known, KeyOf, IInv, TypeOK
    <3>2. media' = media \/ (media' = TRUE /\ verified)
      BY <2>3 DEF RefuseSession, FpSetup, Setup, OtherSession, Stateless, Admitted, SessionOps
    <3> QED
      BY <1>o, <3>1, <3>2 DEF Known
  <2> QED
    BY <1>2, <2>2, <2>3 DEF Dispatch
<1> QED
  BY <1>1, <1>2 DEF Next, Serve

(***************************************************************************)
(* Every connection of the receiver implements SessionGate.                *)
(***************************************************************************)
THEOREM ImplementsGate == Spec => GateSpec
<1>1. Init => Gate!Init
  BY DEF Init, Gate!Init, KeyOf, Plain
<1>2. IInv /\ [Next]_vars => [Gate!Next]_(Gate!vars)
  BY GateStep
<1> QED
  BY <1>1, <1>2, Invariance, PTL DEF Spec, GateSpec, Gate!Spec
================================================================================
