---------------------------- MODULE SenderParts_proofs ----------------------------
(***************************************************************************)
(* Proofs about five parts of the sender that share no state: the cipher   *)
(* of the video stream, the credential store, the capture of the desktop,  *)
(* the conversion of sound and the search for UDP ports.  Each part has an *)
(* inductive invariant of its own and theorems about its own specification.*)
(***************************************************************************)
EXTENDS MirrorCipher, CredentialStore, DesktopCapture, SoundConversion, UdpPorts,
        SequenceTheorems, TLAPS

--------------------------------------------------------------------------------
(* MirrorCipher: no keystream byte lies under two bytes of the stream      *)

(* The first keystream byte not used yet. *)
Front == stream - cached

(* The keystream bytes from p on, one under each of len bytes. *)
Run(p, len) == [i \in 1..len |-> p + i - 1]

Behind(p) == \A f \in DOMAIN pads : \A i \in DOMAIN pads[f] : pads[f][i] < p

CipherInv == TypeOK /\ Behind(Front) /\ PadsAreFresh
--------------------------------------------------------------------------------
(* A run is a sequence of as many numbers. *)
LEMMA RunIsSeq ==
    ASSUME NEW p \in Nat, NEW len \in Nat
    PROVE  Run(p, len) \in Seq(Nat) /\ DOMAIN Run(p, len) = 1..len
  BY DEF Run

(* Two runs, the second where the first ends, are one. *)
LEMMA RunsJoin ==
    ASSUME NEW p \in Nat, NEW a \in Nat, NEW b \in Nat
    PROVE  Run(p, a) \o Run(p + a, b) = Run(p, a + b)
<1>0. p + a \in Nat /\ a + b \in Nat
  OBVIOUS
<1>1. Run(p, a) \in Seq(Nat) /\ Run(p + a, b) \in Seq(Nat) /\ Run(p, a + b) \in Seq(Nat)
  BY <1>0, RunIsSeq, Zenon
<1>2. Len(Run(p, a)) = a /\ Len(Run(p + a, b)) = b /\ Len(Run(p, a + b)) = a + b
  BY DEF Run
<1>3. ASSUME NEW i \in 1..(a + b)
      PROVE  (Run(p, a) \o Run(p + a, b))[i] = Run(p, a + b)[i]
  <2>1. CASE i <= a
    BY <1>1, <1>2, <2>1 DEF Run
  <2>2. CASE i > a
    BY <1>1, <1>2, <2>2 DEF Run
  <2>3. i <= a \/ i > a
    OBVIOUS
  <2> QED
    BY <2>1, <2>2, <2>3, Zenon
<1> DEFINE joined == Run(p, a) \o Run(p + a, b)
<1>4. joined \in Seq(Nat) /\ Len(joined) = a + b
  BY <1>1, <1>2, ConcatProperties
<1>5. \A i \in 1..Len(joined) : joined[i] = Run(p, a + b)[i]
  BY <1>3, <1>4
<1> HIDE DEF joined
<1>6. joined = Run(p, a + b)
  BY <1>1, <1>2, <1>4, <1>5, SeqEqual
<1> QED
  BY <1>6 DEF joined

(* What is left of a frame is whole blocks and less than one. *)
LEMMA Blocks ==
    ASSUME NEW r \in Nat
    PROVE  /\ (r \div Block) * Block \in Nat /\ r % Block \in 0..(Block - 1)
           /\ (r \div Block) * Block + (r % Block) = r
<1>1. Block \in Nat \ {0}
  BY BlockIsSome
<1>2. (r \div Block) * Block + (r % Block) = r
  BY <1>1
<1>3. r % Block \in 0..(Block - 1)
  BY <1>1
<1>4. (r \div Block) * Block \in Nat
  BY <1>1
<1> QED
  BY <1>2, <1>3, <1>4, Zenon

(* The bytes under a frame are the next ones in a row; a gap after it is less *)
(* than a block, and only where the frame was shorter than the cache.         *)
LEMMA FrameIsRun ==
    ASSUME TypeOK, NEW len \in Nat \ {0}, EncryptFrame(len)
    PROVE  /\ Front \in Nat /\ pads' = Append(pads, Run(Front, len))
           /\ Front' \in Nat /\ Front' >= Front + len
           /\ len >= Block - 1 => Front' = Front + len
           /\ Front' - (Front + len) <= Block - 2 \/ Front' = Front + len
           /\ stream' \in Nat /\ og' \in Nat /\ offset' = 0 /\ cached' \in 0..(Block - 1)
           /\ cached' > 0 => og' + Block = stream'
<1> DEFINE n == Lesser(cached, len)
           r == len - n
           full == (r \div Block) * Block
           rest == r % Block
<1>1. /\ Block \in Nat \ {0} /\ stream \in Nat /\ og \in Nat /\ offset = 0
      /\ cached \in 0..(Block - 1) /\ (cached > 0 => og + Block = stream)
  BY BlockIsSome DEF TypeOK
<1>2. n \in Nat /\ r \in Nat /\ n <= cached /\ (cached <= len => n = cached) /\ (len < cached => r = 0)
  BY <1>1 DEF Lesser
<1>3. full \in Nat /\ rest \in 0..(Block - 1) /\ full + rest = r
  <2> HIDE DEF r
  <2> QED
    BY <1>2, Blocks, Zenon
<1>4. Aligned = stream
  BY <1>1 DEF Aligned
<1>5. Front \in Nat
  BY <1>1 DEF Front
<1>6. Prefix(len) = Run(Front, n)
  <2>1. CASE cached > 0
    BY <1>1, <1>2, <2>1 DEF Prefix, Run, Front
  <2>2. CASE cached = 0
    BY <1>1, <1>2, <2>2 DEF Prefix, Run, Front
  <2> QED
    BY <1>1, <2>1, <2>2
<1>7. Body(len) = Run(stream, r)
  BY <1>4 DEF Body, Remaining, Run
<1>8. Prefix(len) \o Body(len) = Run(Front, len)
  <2>1. CASE cached <= len
    <3>1. n = cached /\ stream = Front + n /\ n + r = len
      BY <1>1, <1>2, <2>1 DEF Front
    <3>2. Run(Front, n) \o Run(Front + n, r) = Run(Front, n + r)
      BY <1>2, <1>5, RunsJoin
    <3> QED
      BY <1>6, <1>7, <3>1, <3>2
  <2>2. CASE len < cached
    <3>1. r = 0 /\ n = len
      BY <1>1, <1>2, <2>2 DEF Lesser
    <3>2. Run(stream, r) = <<>>
      BY <3>1 DEF Run
    <3>3. Run(Front, len) \in Seq(Nat)
      BY <1>5, RunIsSeq
    <3> QED
      BY <1>6, <1>7, <3>1, <3>2, <3>3
  <2> QED
    BY <1>1, <2>1, <2>2
<1>9. pads' = Append(pads, Run(Front, len)) /\ offset' = 0
  BY <1>8 DEF EncryptFrame
<1>10. cached' = IF rest > 0 THEN Block - rest ELSE 0
  BY DEF EncryptFrame, Leftover, Rest, Remaining
<1>11. IF rest > 0 THEN og' = stream + full /\ stream' = stream + full + Block
                   ELSE og' = og /\ stream' = stream + full
  BY <1>4 DEF EncryptFrame, Rest, Remaining
<1> HIDE DEF full, rest, r, n
<1>12. Front' = stream + r
  BY <1>1, <1>2, <1>3, <1>10, <1>11 DEF Front
<1>13. r = len - n
  BY DEF r
<1>14. /\ stream' \in Nat /\ og' \in Nat /\ cached' \in 0..(Block - 1)
       /\ cached' > 0 => og' + Block = stream'
  BY <1>1, <1>3, <1>10, <1>11
<1>15. Front' \in Nat /\ Front' >= Front + len
  BY <1>1, <1>2, <1>12, <1>13 DEF Front
<1>16. len >= Block - 1 => Front' = Front + len
  BY <1>1, <1>2, <1>12, <1>13 DEF Front
<1>17. Front' - (Front + len) <= Block - 2 \/ Front' = Front + len
  BY <1>1, <1>2, <1>12, <1>13 DEF Front
<1> QED
  BY <1>5, <1>9, <1>14, <1>15, <1>16, <1>17
--------------------------------------------------------------------------------
LEMMA CipherInitially == Init => CipherInv
  BY BlockIsSome DEF Init, CipherInv, TypeOK, Behind, PadsAreFresh

(* A run at the front is fresh, and behind the new front. *)
LEMMA RunIsFresh ==
    ASSUME CipherInv, NEW len \in Nat \ {0}, EncryptFrame(len)
    PROVE  (Behind(Front) /\ PadsAreFresh)'
<1> DEFINE k == Len(pads) + 1
<1>1. pads \in Seq(Seq(Nat)) /\ TypeOK
  BY DEF CipherInv, TypeOK
<1>2. /\ Front \in Nat /\ pads' = Append(pads, Run(Front, len))
      /\ Front' \in Nat /\ Front' >= Front + len
  BY <1>1, FrameIsRun
<1>3. DOMAIN pads' = 1..k /\ DOMAIN pads = 1..(k - 1) /\ k \in Nat
  BY <1>1, <1>2
<1>4. \A f \in 1..(k - 1) : pads'[f] = pads[f] /\ pads[f] \in Seq(Nat)
  BY <1>1, <1>2, <1>3
<1>5. pads'[k] = Run(Front, len)
  BY <1>1, <1>2
<1>6. DOMAIN Run(Front, len) = 1..len /\ \A i \in 1..len : Run(Front, len)[i] = Front + i - 1
  BY <1>2, RunIsSeq DEF Run
<1> HIDE DEF k
<1>7. \A f \in 1..(k - 1) : \A i \in DOMAIN pads[f] : pads[f][i] \in Nat /\ pads[f][i] < Front
  <2>1. \A f \in 1..(k - 1) : \A i \in DOMAIN pads[f] : pads[f][i] \in Nat
    BY <1>4
  <2>2. \A f \in 1..(k - 1) : \A i \in DOMAIN pads[f] : pads[f][i] < Front
    BY <1>3, Zenon DEF CipherInv, Behind
  <2> QED
    BY <2>1, <2>2, Zenon
<1>8. Behind(Front)'
  <2>1. SUFFICES ASSUME NEW f \in 1..k, NEW i \in DOMAIN pads'[f]
                 PROVE  pads'[f][i] < Front'
    BY <1>3 DEF Behind
  <2>2. CASE f = k
    <3>1. i \in 1..len /\ pads'[f][i] = Run(Front, len)[i]
      BY <1>5, <1>6, <2>1, <2>2, Zenon
    <3>2. pads'[f][i] = Front + i - 1
      BY <1>6, <3>1, Zenon
    <3> QED
      BY <1>2, <3>1, <3>2
  <2>3. CASE f # k
    BY <1>2, <1>3, <1>4, <1>7, <2>3
  <2> QED
    BY <2>2, <2>3
<1>9. PadsAreFresh'
  <2>1. SUFFICES ASSUME NEW f \in 1..k, NEW g \in 1..k,
                        NEW i \in DOMAIN pads'[f], NEW j \in DOMAIN pads'[g],
                        pads'[f][i] = pads'[g][j]
                 PROVE  f = g /\ i = j
    BY <1>3, Zenon DEF PadsAreFresh
  <2>2. CASE f = k /\ g = k
    <3>1. i \in 1..len /\ pads'[f][i] = Run(Front, len)[i]
      BY <1>5, <1>6, <2>1, <2>2, Zenon
    <3>2. j \in 1..len /\ pads'[g][j] = Run(Front, len)[j]
      BY <1>5, <1>6, <2>1, <2>2, Zenon
    <3>3. Front + i - 1 = Front + j - 1
      BY <1>6, <2>1, <3>1, <3>2, Zenon
    <3> QED
      BY <1>2, <2>2, <3>1, <3>2, <3>3
  <2>3. CASE f = k /\ g # k
    BY <1>2, <1>3, <1>4, <1>5, <1>6, <1>7, <2>1, <2>3
  <2>4. CASE f # k /\ g = k
    BY <1>2, <1>3, <1>4, <1>5, <1>6, <1>7, <2>1, <2>4
  <2>5. CASE f # k /\ g # k
    BY <1>3, <1>4, <2>1, <2>5 DEF CipherInv, PadsAreFresh
  <2> QED
    BY <2>2, <2>3, <2>4, <2>5
<1> QED
  BY <1>8, <1>9

LEMMA CipherStep == CipherInv /\ [Next]_vars => CipherInv'
<1> SUFFICES ASSUME CipherInv, [Next]_vars PROVE CipherInv'
  OBVIOUS
<1>1. ASSUME NEW len \in 1..MaxLen, EncryptFrame(len) PROVE CipherInv'
  <2>1. len \in Nat \ {0} /\ TypeOK
    BY BoundsAreNat DEF CipherInv
  <2>2. (Behind(Front) /\ PadsAreFresh)'
    BY <1>1, <2>1, RunIsFresh
  <2>3. /\ Front \in Nat /\ pads' = Append(pads, Run(Front, len))
        /\ stream' \in Nat /\ og' \in Nat /\ offset' = 0 /\ cached' \in 0..(Block - 1)
        /\ cached' > 0 => og' + Block = stream'
    BY <1>1, <2>1, FrameIsRun
  <2>4. pads' \in Seq(Seq(Nat))
    BY <2>1, <2>3, RunIsSeq DEF TypeOK
  <2>5. TypeOK'
    BY <2>3, <2>4 DEF TypeOK
  <2> QED
    BY <2>2, <2>5 DEF CipherInv
<1>2. CASE UNCHANGED vars
  BY <1>2 DEF vars, CipherInv, TypeOK, Behind, Front, PadsAreFresh
<1> QED
  BY <1>1, <1>2 DEF Next

(* The cache and the stream of encrypt_frame stay in step, whatever the lengths. *)
THEOREM CipherTypeCorrect == Spec => []TypeOK
<1>1. CipherInv => TypeOK
  BY DEF CipherInv
<1> QED
  BY <1>1, CipherInitially, CipherStep, PTL DEF Spec

(* encrypt_frame never uses a byte of the keystream twice. *)
THEOREM KeystreamIsFresh == Spec => []PadsAreFresh
<1>1. CipherInv => PadsAreFresh
  BY DEF CipherInv
<1> QED
  BY <1>1, CipherInitially, CipherStep, PTL DEF Spec

(* encrypt_frame is a CTR stream laid under the frames in a row, but for the *)
(* rest of a block thrown away after a frame shorter than that.              *)
THEOREM ImplementsCtrStream == Spec => StreamSpec
<1>1. Init => Stream!Init
  BY DEF Init, Stream!Init
<1>2. CipherInv /\ [Next]_vars => [Stream!Next]_(Stream!vars)
  <2> SUFFICES ASSUME CipherInv, [Next]_vars PROVE [Stream!Next]_(Stream!vars)
    OBVIOUS
  <2>1. ASSUME NEW len \in 1..MaxLen, EncryptFrame(len) PROVE Stream!Seal(len)
    <3>1. len \in Nat \ {0} /\ TypeOK /\ Block \in Nat \ {0}
      BY BoundsAreNat, BlockIsSome DEF CipherInv
    <3>2. /\ Front \in Nat /\ pads' = Append(pads, Run(Front, len))
          /\ Front' \in Nat /\ Front' >= Front + len
          /\ len >= Block - 1 => Front' = Front + len
          /\ Front' - (Front + len) <= Block - 2 \/ Front' = Front + len
      BY <2>1, <3>1, FrameIsRun
    <3> DEFINE gap == Front' - (Front + len)
    <3> DEFINE front == Front'
    <3>3. gap \in Nat /\ Front' = Front + len + gap /\ (len >= Block - 1 => gap = 0)
          /\ (gap <= Block - 2 \/ gap = 0)
      <4>1. /\ Front \in Nat /\ front \in Nat /\ front >= Front + len
            /\ len >= Block - 1 => front = Front + len
            /\ front - (Front + len) <= Block - 2 \/ front = Front + len
        BY <3>2
      <4> HIDE DEF front
      <4>2. /\ front - (Front + len) \in Nat
            /\ front = Front + len + (front - (Front + len))
            /\ (len >= Block - 1 => front - (Front + len) = 0)
            /\ (front - (Front + len) <= Block - 2 \/ front - (Front + len) = 0)
        BY <3>1, <4>1
      <4> QED
        BY <4>2 DEF front
    <3> HIDE DEF gap
    <3>4. gap \in Stream!Gap(len)
      BY <3>1, <3>3 DEF Stream!Gap
    <3>5. \E x \in Stream!Gap(len) : Front' = Front + len + x
      BY <3>3, <3>4
    <3> QED
      BY <3>2, <3>5 DEF Stream!Seal, Run, Front
  <2>2. CASE UNCHANGED vars
    BY <2>2 DEF vars, Stream!vars
  <2> QED
    BY <2>1, <2>2 DEF Next, Stream!Next
<1> QED
  BY <1>1, <1>2, CipherInitially, CipherStep, PTL DEF Spec, StreamSpec, Stream!Spec
--------------------------------------------------------------------------------
(* CredentialStore: a save that ended is lost only where the code says     *)

Entry == [pairing : Nat, token : Nat]

StoreTyped ==
    /\ file \in [is : {"absent", "torn", "whole"}, devices : [Receivers -> Entry]]
    /\ running \in [Programs -> {"off", "on", "writing"}]
    /\ devices \in [Programs -> [Receivers -> Entry]]
    /\ saves \in Nat /\ kept \in [Receivers -> Entry]
    /\ older \subseteq Programs /\ crossed \in BOOLEAN

(* Nothing is newer than the last change. *)
Below(f, n) == \A r \in Receivers : f[r].pairing <= n /\ f[r].token <= n

Numbered ==
    /\ Below(file.devices, saves) /\ Below(kept, saves)
    /\ \A p \in Programs : Below(devices[p], saves)

NoOlder(f, g) == \A r \in Receivers : g[r].pairing <= f[r].pairing /\ g[r].token <= f[r].token

(* A program that loaded the file after the last save holds what should be in it, *)
(* and while it writes, that and its own change.                                  *)
LoadedKept ==
    ~crossed => \A p \in Programs \ older :
                    /\ running[p] = "on" => devices[p] = kept
                    /\ running[p] = "writing" => NoOlder(devices[p], kept)

StoreInv == StoreTyped /\ Numbered /\ LoadedKept /\ PairingsKept
--------------------------------------------------------------------------------
LEMMA StoreInitially == StoreInit => StoreInv
<1> SUFFICES ASSUME StoreInit
             PROVE  StoreInv
  OBVIOUS
<1>1. None \in [Receivers -> Entry] /\ \A r \in Receivers : None[r].pairing = 0 /\ None[r].token = 0
  BY DEF None, NoEntry, Entry
<1>2. StoreTyped
  BY <1>1 DEF StoreInit, StoreTyped
<1>3. Numbered
  BY <1>1 DEF StoreInit, Numbered, Below
<1>4. LoadedKept /\ PairingsKept
  BY DEF StoreInit, LoadedKept, PairingsKept
<1> QED
  BY <1>2, <1>3, <1>4 DEF StoreInv

(* The later of two entries is an entry, and the first one where that is no older. *)
LEMMA LaterIs ==
    ASSUME NEW d \in Entry, NEW k \in Entry
    PROVE  /\ Later(d, k) \in Entry
           /\ k.pairing <= d.pairing /\ k.token <= d.token => Later(d, k) = d
           /\ \A n \in Nat : /\ d.pairing <= n /\ k.pairing <= n => Later(d, k).pairing <= n
                             /\ d.token <= n /\ k.token <= n => Later(d, k).token <= n
  BY DEF Later, Greater, Entry

(* A change makes one entry newer than every other. *)
LEMMA ChangeInv ==
    ASSUME StoreInv, NEW p \in Programs, NEW r \in Receivers, NEW e \in Entry,
           running[p] = "on", Persist(p),
           e.pairing \in {devices[p][r].pairing, saves + 1},
           e.token \in {devices[p][r].token, saves + 1},
           devices' = [devices EXCEPT ![p] = [devices[p] EXCEPT ![r] = e]]
    PROVE  StoreInv'
<1>1. /\ running' = [running EXCEPT ![p] = "writing"]
      /\ file' = [is |-> "torn", devices |-> None]
      /\ saves' = saves + 1 /\ kept' = kept /\ older' = older /\ crossed' = crossed
  BY DEF Persist, Torn
<1>2. saves \in Nat /\ devices \in [Programs -> [Receivers -> Entry]] /\ kept \in [Receivers -> Entry]
      /\ running \in [Programs -> {"off", "on", "writing"}]
  BY DEF StoreInv, StoreTyped
<1>3. devices' \in [Programs -> [Receivers -> Entry]]
      /\ \A q \in Programs : q # p => devices'[q] = devices[q]
      /\ \A x \in Receivers : devices'[p][x] = IF x = r THEN e ELSE devices[p][x]
  BY <1>2
<1>4. None \in [Receivers -> Entry] /\ \A x \in Receivers : None[x].pairing = 0 /\ None[x].token = 0
  BY DEF None, NoEntry, Entry
<1>5. StoreTyped'
  BY <1>1, <1>2, <1>3, <1>4 DEF StoreInv, StoreTyped
<1>6. /\ e.pairing \in Nat /\ e.token \in Nat /\ e.pairing <= saves + 1 /\ e.token <= saves + 1
      /\ devices[p][r].pairing <= e.pairing /\ devices[p][r].token <= e.token
  <2>1. devices[p][r] \in Entry
    BY <1>2
  <2>2. devices[p][r].pairing \in Nat /\ devices[p][r].token \in Nat
    BY <2>1 DEF Entry
  <2>3. devices[p][r].pairing <= saves /\ devices[p][r].token <= saves
    BY DEF StoreInv, Numbered, Below
  <2> QED
    BY <1>2, <2>2, <2>3
<1>7. Numbered'
  <2>1. ASSUME NEW f \in [Receivers -> Entry], Below(f, saves)
        PROVE  Below(f, saves + 1)
    BY <1>2, <2>1 DEF Below, Entry
  <2>2. Below(devices'[p], saves + 1)
    <3>1. Below(devices[p], saves + 1)
      BY <1>2, <2>1 DEF StoreInv, Numbered
    <3> QED
      BY <1>3, <1>6, <3>1 DEF Below
  <2>3. ASSUME NEW q \in Programs
        PROVE  Below(devices'[q], saves + 1)
    <3>1. CASE q = p
      BY <2>2, <3>1
    <3>2. CASE q # p
      BY <1>2, <1>3, <2>1, <3>2 DEF StoreInv, Numbered
    <3> QED
      BY <3>1, <3>2
  <2>4. Below(kept, saves + 1)
    BY <1>2, <2>1 DEF StoreInv, Numbered
  <2>5. Below(None, saves + 1)
    BY <1>2, <1>4 DEF Below
  <2> QED
    BY <1>1, <2>3, <2>4, <2>5 DEF Numbered
<1>8. LoadedKept'
  <2> SUFFICES ASSUME ~crossed, NEW q \in Programs \ older
               PROVE  /\ running'[q] = "on" => devices'[q] = kept
                      /\ running'[q] = "writing" => NoOlder(devices'[q], kept)
    BY <1>1 DEF LoadedKept
  <2>1. CASE q = p
    <3>1. devices[p] = kept
      BY <2>1 DEF StoreInv, LoadedKept
    <3>2. \A x \in Receivers : kept[x].pairing \in Nat /\ kept[x].token \in Nat
      BY <1>2 DEF Entry
    <3>3. NoOlder(devices'[p], kept)
      BY <1>3, <1>6, <3>1, <3>2 DEF NoOlder
    <3> QED
      BY <1>1, <1>2, <2>1, <3>3
  <2>2. CASE q # p
    BY <1>1, <1>2, <1>3, <2>2 DEF StoreInv, LoadedKept
  <2> QED
    BY <2>1, <2>2
<1>9. PairingsKept'
  BY <1>1 DEF PairingsKept
<1> QED
  BY <1>5, <1>7, <1>8, <1>9 DEF StoreInv

(* The end of a write makes every other running program older. *)
LEMMA WrittenInv ==
    ASSUME StoreInv, NEW p \in Programs, Written(p)
    PROVE  StoreInv'
<1>1. /\ running[p] = "writing" /\ running' = [running EXCEPT ![p] = "on"]
      /\ file' = [is |-> "whole", devices |-> devices[p]] \/ file' = Torn
      /\ kept' = [r \in Receivers |-> Later(devices[p][r], kept[r])]
      /\ older' = older \cup {q \in Programs \ {p} : running[q] # "off"}
      /\ (crossed' <=> crossed \/ p \in older)
      /\ devices' = devices /\ saves' = saves
  BY Zenon DEF Written
<1>2. saves \in Nat /\ devices \in [Programs -> [Receivers -> Entry]] /\ kept \in [Receivers -> Entry]
      /\ running \in [Programs -> {"off", "on", "writing"}]
  BY DEF StoreInv, StoreTyped
<1>3. crossed' \in BOOLEAN
  BY Zenon DEF Written, StoreInv, StoreTyped
<1>0. Torn = [is |-> "torn", devices |-> None] /\ None \in [Receivers -> Entry]
      /\ Below(None, saves)
  BY <1>2 DEF Torn, None, NoEntry, Entry, Below
<1>4. kept' \in [Receivers -> Entry]
  BY <1>1, <1>2, LaterIs
<1>5. StoreTyped'
  BY <1>0, <1>1, <1>2, <1>3, <1>4 DEF StoreInv, StoreTyped
<1>6. Numbered'
  <2>1. ASSUME NEW r \in Receivers
        PROVE  kept'[r].pairing <= saves /\ kept'[r].token <= saves
    <3>1. kept'[r] = Later(devices[p][r], kept[r]) /\ devices[p][r] \in Entry /\ kept[r] \in Entry
      BY <1>1, <1>2
    <3>2. /\ devices[p][r].pairing <= saves /\ kept[r].pairing <= saves
          /\ devices[p][r].token <= saves /\ kept[r].token <= saves
      BY DEF StoreInv, Numbered, Below
    <3> QED
      BY <1>2, <3>1, <3>2, LaterIs
  <2>2. Below(kept', saves)
    BY <2>1 DEF Below
  <2> QED
    BY <1>0, <1>1, <2>2 DEF StoreInv, Numbered
<1>7. ASSUME ~crossed'
      PROVE  kept' = devices[p]
  <2>1. NoOlder(devices[p], kept)
    BY <1>1, <1>7 DEF StoreInv, LoadedKept
  <2>2. ASSUME NEW r \in Receivers
        PROVE  Later(devices[p][r], kept[r]) = devices[p][r]
    <3>1. devices[p][r] \in Entry /\ kept[r] \in Entry
      BY <1>2
    <3> QED
      BY <2>1, <3>1, LaterIs DEF NoOlder
  <2> QED
    BY <1>1, <1>2, <2>2
<1>8. LoadedKept'
  <2> SUFFICES ASSUME ~crossed', NEW q \in Programs \ older'
               PROVE  /\ running'[q] = "on" => devices'[q] = kept'
                      /\ running'[q] = "writing" => NoOlder(devices'[q], kept')
    BY DEF LoadedKept
  <2>1. CASE q = p
    BY <1>1, <1>2, <1>7, <2>1
  <2>2. CASE q # p
    BY <1>1, <1>2, <2>2
  <2> QED
    BY <2>1, <2>2
<1>9. PairingsKept'
  BY <1>0, <1>1, <1>7 DEF PairingsKept
<1> QED
  BY <1>5, <1>6, <1>8, <1>9 DEF StoreInv

LEMMA StoreStep == StoreInv /\ [StoreNext]_storeVars => StoreInv'
<1> SUFFICES ASSUME StoreInv, [StoreNext]_storeVars
             PROVE  StoreInv'
  OBVIOUS
<1>0. /\ devices \in [Programs -> [Receivers -> Entry]] /\ saves \in Nat
      /\ running \in [Programs -> {"off", "on", "writing"}]
  BY DEF StoreInv, StoreTyped
<1>1. ASSUME NEW p \in Programs, Load(p)
      PROVE  StoreInv'
  <2>1. /\ running' = [running EXCEPT ![p] = "on"]
        /\ devices' = [devices EXCEPT ![p] = file.devices]
        /\ older' = older \ {p} /\ file.is # "torn"
        /\ file' = file /\ saves' = saves /\ kept' = kept /\ crossed' = crossed
    BY <1>1 DEF Load
  <2>2. file.devices \in [Receivers -> Entry]
    BY DEF StoreInv, StoreTyped
  <2>3. StoreTyped'
    BY <1>0, <2>1, <2>2 DEF StoreInv, StoreTyped
  <2>4. Numbered'
    BY <1>0, <2>1 DEF StoreInv, Numbered
  <2>5. LoadedKept'
    BY <1>0, <2>1 DEF StoreInv, LoadedKept, PairingsKept
  <2>6. PairingsKept'
    BY <2>1 DEF StoreInv, PairingsKept
  <2> QED
    BY <2>3, <2>4, <2>5, <2>6 DEF StoreInv
<1>2. ASSUME NEW p \in Programs, Leave(p)
      PROVE  StoreInv'
  <2>1. /\ running' = [running EXCEPT ![p] = "off"]
        /\ devices' = devices /\ saves' = saves /\ kept' = kept
        /\ older' = older /\ crossed' = crossed
        /\ file' = file \/ file' = [is |-> "torn", devices |-> None]
    BY <1>2 DEF Leave, Torn
  <2>2. None \in [Receivers -> Entry] /\ Below(None, saves)
    BY <1>0 DEF None, NoEntry, Entry, Below
  <2> QED
    BY <1>0, <2>1, <2>2 DEF StoreInv, StoreTyped, Numbered, LoadedKept, PairingsKept
<1>3. ASSUME NEW p \in Programs, NEW r \in Receivers, Save(p, r)
      PROVE  StoreInv'
  <2> DEFINE e == [devices[p][r] EXCEPT !.pairing = saves + 1]
  <2>1. devices[p][r] \in Entry
    BY <1>0
  <2>2. e \in Entry /\ e.pairing = saves + 1 /\ e.token = devices[p][r].token
    BY <1>0, <2>1 DEF Entry
  <2>3. devices' = [devices EXCEPT ![p] = [devices[p] EXCEPT ![r] = e]]
    BY <1>0, <1>3 DEF Save, Paired
  <2> HIDE DEF e
  <2> QED
    BY <1>3, <2>2, <2>3, ChangeInv DEF Save
<1>4. ASSUME NEW p \in Programs, NEW r \in Receivers, SaveRestoreToken(p, r)
      PROVE  StoreInv'
  <2> DEFINE e == [devices[p][r] EXCEPT !.token = saves + 1]
  <2>1. devices[p][r] \in Entry
    BY <1>0
  <2>2. e \in Entry /\ e.token = saves + 1 /\ e.pairing = devices[p][r].pairing
    BY <1>0, <2>1 DEF Entry
  <2>3. devices' = [devices EXCEPT ![p] = [devices[p] EXCEPT ![r] = e]]
    BY <1>0, <1>4 DEF SaveRestoreToken
  <2> HIDE DEF e
  <2> QED
    BY <1>4, <2>2, <2>3, ChangeInv DEF SaveRestoreToken
<1>5. CASE UNCHANGED storeVars
  BY <1>5 DEF storeVars, StoreInv, StoreTyped, Numbered, LoadedKept, PairingsKept
<1> QED
  BY <1>1, <1>2, <1>3, <1>4, <1>5, WrittenInv DEF StoreNext
--------------------------------------------------------------------------------
(* The file holds the last pairing and token of every receiver, unless a write was *)
(* cut by a crash or made by a program that had loaded the file before another's   *)
(* save: each writes the whole of what it holds.                                   *)
THEOREM SavesAreKept == StoreSpec => []PairingsKept
<1>1. StoreInv => PairingsKept
  BY DEF StoreInv
<1> QED
  BY <1>1, StoreInitially, StoreStep, PTL DEF StoreSpec
--------------------------------------------------------------------------------
(* DesktopCapture: frames are released, and show the cursor of their time  *)

\* A place on the desktop is found again from its number.
LEMMA ColumnAndRow ==
    ASSUME NEW W \in Nat \ {0}, NEW x \in 0..(W - 1), NEW y \in Nat
    PROVE  /\ (y * W + x) \in Nat
           /\ ((y * W + x) % W) = x
           /\ ((y * W + x) \div W) = y
<1> DEFINE k == y * W + x
           q == k \div W
           r == k % W
<1>1. y * W \in Nat /\ k \in Nat  OBVIOUS
<1> HIDE DEF k
<1>2. q \in Int /\ r \in 0..(W - 1) /\ k = W * q + r  BY <1>1
<1>3. q >= 0  BY <1>1
<1> HIDE DEF q, r
<1>4. k = y * W + x  BY DEF k
<1>5. W * y + x = W * q + r  BY <1>2, <1>4
<1>6. CASE q >= y + 1
  <2>1. W * q >= W * (y + 1)  BY <1>2, <1>6
  <2>2. W * (y + 1) = W * y + W  OBVIOUS
  <2>3. W * y \in Int /\ W * q \in Int  BY <1>2
  <2> QED  BY <1>2, <1>5, <2>1, <2>2, <2>3
<1>7. CASE y >= q + 1
  <2>1. W * y >= W * (q + 1)  BY <1>2, <1>7
  <2>2. W * (q + 1) = W * q + W  BY <1>2
  <2>3. W * y \in Int /\ W * q \in Int  BY <1>2
  <2> QED  BY <1>2, <1>5, <2>1, <2>2, <2>3
<1>8. CASE q = y
  <2>1. W * y \in Int  OBVIOUS
  <2>2. r = x  BY <1>2, <1>5, <1>8, <2>1
  <2> QED  BY <1>1, <1>4, <1>8, <2>2 DEF k, q, r
<1> QED  BY <1>2, <1>6, <1>7, <1>8

LEMMA OnDesktop ==
    ASSUME NEW W \in Nat \ {0}, NEW H \in Nat \ {0}, NEW x \in 0..(W - 1), NEW y \in 0..(H - 1)
    PROVE  (y * W + x) \in 0..(W * H - 1)
<1>1. y * W <= (H - 1) * W  OBVIOUS
<1>2. (H - 1) * W = W * H - W  OBVIOUS
<1>3. y * W \in Nat /\ W * H \in Int  OBVIOUS
<1> QED  BY <1>1, <1>2, <1>3

LEMMA FromNumber ==
    ASSUME NEW W \in Nat \ {0}, NEW H \in Nat \ {0}, NEW k \in 0..(W * H - 1)
    PROVE  /\ (k % W) \in 0..(W - 1) /\ (k \div W) \in 0..(H - 1)
           /\ k = (k \div W) * W + (k % W)
<1> DEFINE q == k \div W
           r == k % W
<1>1. q \in Int /\ q >= 0 /\ r \in 0..(W - 1) /\ k = W * q + r
  <2>1. W * H \in Int  OBVIOUS
  <2>2. k \in Nat  BY <2>1
  <2> QED  BY <2>2
<1> HIDE DEF q, r
<1>2. q <= H - 1
  <2> SUFFICES ASSUME q >= H  PROVE FALSE  BY <1>1
  <2>1. W * q >= W * H  BY <1>1
  <2>2. W * q \in Int /\ W * H \in Int  BY <1>1
  <2> QED  BY <1>1, <2>1, <2>2
<1>3. W * q = q * W  BY <1>1
<1> QED  BY <1>1, <1>2, <1>3 DEF q, r

\* What the system or the overlay holds of a pointer.
Pointers == [shape : Shapes \cup {NoShape}, position : Int \X Int, visible : BOOLEAN]

\* The cursor is drawn in the pixels under it.
LEMMA DrawnUnder ==
    ASSUME NEW o \in Pointers
    PROVE  Draw(o) = {k \in 0..(Width * Height - 1) : Under(o, k)}
<1> DEFINE left == o.position[1] - o.shape.hotX
           top == o.position[2] - o.shape.hotY
           seen == o.shape.seen
           K == {k \in 0..(Width * Height - 1) : Under(o, k)}
<1>1. left \in Int /\ top \in Int /\ seen \subseteq Int \X Int
  BY ShapesArePixels DEF Pointers, NoShape
<1>2. Width \in Nat \ {0} /\ Height \in Nat \ {0}  BY DesktopHasPixels
<1>3. \A k : Under(o, k) <=> o.visible /\ <<(k % Width) - left, (k \div Width) - top>> \in seen
  BY DEF Under
<1>4. Draw(o) = IF ~o.visible THEN {}
                ELSE {(top + p[2]) * Width + left + p[1] :
                        p \in {q \in seen : left + q[1] \in 0..(Width - 1) /\ top + q[2] \in 0..(Height - 1)}}
  BY DEF Draw
<1> HIDE DEF left, top, seen
<1>5. CASE ~o.visible  BY <1>3, <1>4, <1>5
<1>6. CASE o.visible
  <2>1. ASSUME NEW k \in Draw(o)  PROVE k \in K
    <3>1. PICK p \in seen : /\ left + p[1] \in 0..(Width - 1) /\ top + p[2] \in 0..(Height - 1)
                            /\ k = (top + p[2]) * Width + left + p[1]
      BY <1>4, <1>6, <2>1
    <3>2. p = <<p[1], p[2]>> /\ p[1] \in Int /\ p[2] \in Int  BY <1>1, <3>1
    <3> DEFINE x == left + p[1]
               y == top + p[2]
    <3>3. x \in 0..(Width - 1) /\ y \in 0..(Height - 1)  BY <3>1
    <3>4. k = y * Width + x
      <4>1. (top + p[2]) * Width \in Int  BY <1>1, <1>2, <3>2
      <4> QED  BY <1>1, <3>1, <3>2, <4>1
    <3>5. x - left = p[1] /\ y - top = p[2]  BY <1>1, <3>2
    <3> HIDE DEF x, y
    <3>6. (k % Width) = x /\ (k \div Width) = y  BY <1>2, <3>3, <3>4, ColumnAndRow
    <3>7. k \in 0..(Width * Height - 1)  BY <1>2, <3>3, <3>4, OnDesktop
    <3>8. <<(k % Width) - left, (k \div Width) - top>> = p  BY <3>2, <3>5, <3>6
    <3> QED  BY <1>3, <1>6, <3>1, <3>7, <3>8
  <2>2. ASSUME NEW k \in K  PROVE k \in Draw(o)
    <3> DEFINE x == k % Width
               y == k \div Width
               p == <<x - left, y - top>>
    <3>1. k \in 0..(Width * Height - 1) /\ p \in seen  BY <1>3, <2>2
    <3>2. x \in 0..(Width - 1) /\ y \in 0..(Height - 1) /\ k = y * Width + x
      BY <1>2, <3>1, FromNumber
    <3> HIDE DEF x, y
    <3>3. left + p[1] = x /\ top + p[2] = y  BY <1>1, <3>2
    <3>4. k = (top + p[2]) * Width + left + p[1]
      <4>1. p[1] \in Int /\ y * Width \in Int  BY <1>1, <1>2, <3>2
      <4> QED  BY <1>1, <3>2, <3>3, <4>1
    <3> QED  BY <1>4, <1>6, <3>1, <3>2, <3>3, <3>4
  <2> QED  BY <2>1, <2>2
<1> QED  BY <1>5, <1>6

\* What is out and registered at each step of the loop.
Released ==
    /\ step \in {"wait", "frame", "encode", "unregister", "release", "ended"}
    /\ step = "wait" => resources = {} /\ (held => bare)
    /\ bare => held /\ resources = {} /\ step \in {"wait", "ended"}
    /\ step = "frame" => resources = {} /\ (~nvenc => ~held)
    /\ step = "encode" => resources \subseteq {frames}
    /\ step = "release" => resources = {}

LEMMA OutInit == CaptureInit => Released
BY DEF CaptureInit, Released

LEMMA OutNext == Released /\ [CaptureNext]_captureVars => Released'
<1> SUFFICES ASSUME Released, [CaptureNext]_captureVars  PROVE Released'  OBVIOUS
<1> USE DEF Released, Quiet, Given
<1>1. CASE PointerChanges  BY <1>1 DEF PointerChanges
<1>2. CASE AcquireFrame  BY <1>2 DEF AcquireFrame
<1>3. CASE AcquireFrameCpu  BY <1>3 DEF AcquireFrameCpu
<1>4. CASE AcquireFails  BY <1>4 DEF AcquireFails
<1>5. CASE SkipFrame  BY <1>5 DEF SkipFrame
<1>6. CASE Register  BY <1>6 DEF Register
<1>7. CASE Encode  BY <1>7 DEF Encode
<1>8. CASE ReleaseFrame  BY <1>8 DEF ReleaseFrame
<1>9. CASE EncodeCpu  BY <1>9 DEF EncodeCpu
<1>10. CASE DropEncoder  BY <1>10 DEF DropEncoder
<1>11. CASE AcquireBare  BY <1>11 DEF AcquireBare
<1>12. CASE UNCHANGED captureVars  BY <1>12 DEF captureVars
<1> QED
  BY <1>1, <1>2, <1>3, <1>4, <1>5, <1>6, <1>7, <1>8, <1>9, <1>10, <1>11, <1>12 DEF CaptureNext

\* The loop asks the duplication for a frame with nothing registered with NVENC and the
\* last frame released, unless that came without a surface (acquire_with_info returns
\* none and keeps it): then it asks once more, and no frame follows.
THEOREM EverythingReleased == CaptureSpec => []NothingHeld
<1>1. Released => NothingHeld  BY DEF Released, NothingHeld
<1> QED  BY <1>1, OutInit, OutNext, PTL DEF CaptureSpec

\* What the next frame will tell, what the overlay holds and what the last frame
\* showed make up the pointer.
Told ==
    /\ pointer \in Pointers /\ asked \in Pointers /\ overlay \in Pointers
    /\ news \in [mouse : BOOLEAN, shape : BOOLEAN]
    /\ shapeLost \in BOOLEAN /\ nvenc \in BOOLEAN
    /\ news.shape => news.mouse
    /\ ~news.mouse => asked = pointer
    /\ ~news.shape => asked.shape = pointer.shape
    /\ bare => held /\ step \in {"wait", "ended"}
    /\ ~nvenc /\ step # "ended" /\ ~bare =>
         /\ overlay.position = asked.position /\ overlay.visible = asked.visible
         /\ ~shapeLost => overlay.shape = asked.shape
    /\ ~nvenc /\ step = "frame" => drawn = Draw(overlay)

LEMMA ToldInit == CaptureInit => Told
<1> SUFFICES ASSUME CaptureInit  PROVE Told  OBVIOUS
<1>1. pointer \in Pointers  BY PlacesArePoints DEF CaptureInit, Pointers
<1>2. overlay \in Pointers  BY DEF CaptureInit, Pointers
<1> QED  BY <1>1, <1>2 DEF CaptureInit, Told

LEMMA ToldNext == Told /\ [CaptureNext]_captureVars => Told'
<1> SUFFICES ASSUME Told, [CaptureNext]_captureVars  PROVE Told'  OBVIOUS
<1> USE DEF Told
<1>0. Draw(overlay)' = Draw(overlay')  BY DEF Draw
<1>1. CASE PointerChanges
  <2>0. UNCHANGED <<nvenc, step, held, bare, overlay, asked, drawn, shapeLost>>  BY <1>1 DEF PointerChanges
  <2>1. ASSUME NEW p \in Places, NEW v \in BOOLEAN,
               pointer' = [pointer EXCEPT !.position = p, !.visible = v],
               news' = [news EXCEPT !.mouse = TRUE]
        PROVE  Told'
    <3>1. pointer' \in Pointers /\ pointer'.shape = pointer.shape
      BY <2>1, PlacesArePoints DEF Pointers
    <3>2. news' \in [mouse : BOOLEAN, shape : BOOLEAN] /\ news'.mouse /\ news'.shape = news.shape
      BY <2>1
    <3> QED  BY <1>0, <2>0, <3>1, <3>2
  <2>2. ASSUME NEW s \in Shapes, pointer' = [pointer EXCEPT !.shape = s],
               news' = [mouse |-> TRUE, shape |-> TRUE]
        PROVE  Told'
    <3>1. pointer' \in Pointers  BY <2>2 DEF Pointers
    <3>2. news' \in [mouse : BOOLEAN, shape : BOOLEAN] /\ news'.mouse /\ news'.shape
      BY <2>2
    <3> QED  BY <1>0, <2>0, <3>1, <3>2
  <2> QED  BY <1>1, <2>1, <2>2 DEF PointerChanges
<1>2. CASE AcquireFrame
  <2>1. nvenc /\ nvenc' = nvenc /\ asked' = pointer /\ pointer' = pointer
        /\ news' = [mouse |-> FALSE, shape |-> FALSE] /\ UNCHANGED <<bare, overlay, shapeLost>>
        /\ ~bare
    BY <1>2 DEF AcquireFrame, Given
  <2>2. news' \in [mouse : BOOLEAN, shape : BOOLEAN] /\ ~news'.mouse /\ ~news'.shape  BY <2>1
  <2> QED  BY <2>1, <2>2
<1>3. CASE AcquireFrameCpu
  <2>1. ~nvenc /\ nvenc' = nvenc /\ asked' = pointer /\ pointer' = pointer /\ step = "wait"
        /\ ~bare /\ ~bare'
        /\ news' = [mouse |-> FALSE, shape |-> FALSE]
    BY <1>3 DEF AcquireFrameCpu, Given
  <2>2. news' \in [mouse : BOOLEAN, shape : BOOLEAN] /\ ~news'.mouse /\ ~news'.shape  BY <2>1
  <2>3. CASE step' = "ended" /\ UNCHANGED <<overlay, drawn, shapeLost>>  BY <2>1, <2>2, <2>3
  <2>4. ASSUME NEW fetched \in BOOLEAN, overlay' = Updated(fetched), drawn' = Draw(overlay'),
               shapeLost' = (IF news.shape THEN ~fetched ELSE shapeLost), step' = "frame"
        PROVE  Told'
    <3>1. CASE ~news.mouse
      <4>1. overlay' = overlay /\ asked' = asked /\ shapeLost' = shapeLost
        BY <2>1, <2>4, <3>1 DEF Updated
      <4> QED  BY <1>0, <2>1, <2>2, <2>4, <4>1
    <3>2. CASE news.mouse
      <4> DEFINE s == IF news.shape /\ fetched THEN pointer.shape ELSE overlay.shape
      <4>1. overlay' = [shape |-> s, position |-> pointer.position, visible |-> pointer.visible]
        BY <2>4, <3>2 DEF Updated
      <4>2. s \in Shapes \cup {NoShape} /\ pointer.position \in Int \X Int /\ pointer.visible \in BOOLEAN
        BY DEF Pointers
      <4>3. overlay' \in Pointers  BY <4>1, <4>2 DEF Pointers
      <4>4. overlay'.shape = s /\ overlay'.position = pointer.position
            /\ overlay'.visible = pointer.visible
        BY <4>1
      <4>5. ~shapeLost' => s = pointer.shape  BY <2>1, <2>4
      <4>6. shapeLost' \in BOOLEAN  BY <2>4
      <4> HIDE DEF s
      <4> QED  BY <1>0, <2>1, <2>2, <2>4, <4>3, <4>4, <4>5, <4>6
    <3> QED  BY <3>1, <3>2
  <2> QED  BY <1>3, <2>3, <2>4 DEF AcquireFrameCpu
<1>4. CASE AcquireFails  BY <1>4, <1>0 DEF AcquireFails
<1>5. CASE SkipFrame  BY <1>5 DEF SkipFrame, Quiet
<1>6. CASE Register  BY <1>6 DEF Register, Quiet
<1>7. CASE Encode  BY <1>7 DEF Encode, Quiet
<1>8. CASE ReleaseFrame  BY <1>8 DEF ReleaseFrame, Quiet
<1>9. CASE EncodeCpu  BY <1>9 DEF EncodeCpu, Quiet
<1>10. CASE DropEncoder  BY <1>10 DEF DropEncoder, Quiet
<1>11. CASE AcquireBare
  <2>1. /\ held' /\ bare' /\ step' \in {"wait", "ended"} /\ asked' = pointer /\ pointer' = pointer
        /\ nvenc' = nvenc /\ UNCHANGED <<overlay, shapeLost>>
        /\ news' = [mouse |-> FALSE, shape |-> FALSE]
    BY <1>11 DEF AcquireBare, Given
  <2>2. news' \in [mouse : BOOLEAN, shape : BOOLEAN] /\ ~news'.mouse /\ ~news'.shape  BY <2>1
  <2> QED  BY <2>1, <2>2
<1>12. CASE UNCHANGED captureVars  BY <1>12, <1>0 DEF captureVars
<1> QED
  BY <1>1, <1>2, <1>3, <1>4, <1>5, <1>6, <1>7, <1>8, <1>9, <1>10, <1>11, <1>12 DEF CaptureNext

\* Whatever the pointer does between frames, a frame read back has the cursor where
\* CursorOverlay::draw should put it, for every size of desktop and every shape.
THEOREM CursorIsDrawn == CaptureSpec => []CursorIsCurrent
<1>1. Told => CursorIsCurrent
  <2> SUFFICES ASSUME Told, ~nvenc, step = "frame", ~shapeLost
               PROVE  drawn = {k \in 0..(Width * Height - 1) : Under(asked, k)}
    BY DEF CursorIsCurrent
  <2>1. overlay = asked  BY DEF Told, Pointers
  <2> QED  BY <2>1, DrawnUnder DEF Told
<1> QED  BY <1>1, ToldInit, ToldNext, PTL DEF CaptureSpec
--------------------------------------------------------------------------------
(* SoundConversion: the resampler runs on from packet to packet            *)

\* How often r must be taken to cover the room.
LEMMA Covers ==
    ASSUME NEW r \in Nat \ {0}, NEW room \in Int, room > 0,
           NEW m, m = (room + r - 1) \div r
    PROVE  m \in Nat \ {0} /\ m * r >= room /\ (m - 1) * r < room
<1> DEFINE a == room + r - 1
           s == a % r
<1>1. a \in Nat /\ a >= r  OBVIOUS
<1>2. m = a \div r  OBVIOUS
<1> HIDE DEF a
<1>3. m \in Int /\ m >= 0 /\ s \in 0..(r - 1) /\ a = r * m + s  BY <1>1, <1>2
<1> HIDE DEF s
<1>4. m # 0
  <2> SUFFICES ASSUME m = 0  PROVE FALSE  OBVIOUS
  <2>1. a = s  BY <1>3
  <2> QED  BY <1>1, <1>3, <2>1
<1>5. r * m = m * r /\ (m - 1) * r = m * r - r /\ m * r \in Int  BY <1>3
<1>6. a = room + r - 1  BY DEF a
<1> QED  BY <1>3, <1>4, <1>5, <1>6

LEMMA Stays ==
    ASSUME NEW r \in Nat \ {0}, NEW m \in Nat, NEW j \in 1..m
    PROVE  (j - 1) * r >= 0 /\ (j - 1) * r <= (m - 1) * r /\ (j - 1) * r \in Int
<1>1. (j - 1) \in Nat /\ (m - 1) \in Nat /\ j - 1 <= m - 1  OBVIOUS
<1> QED  BY <1>1

\* An output.
Made == [packet : Nat, at : Int, inBuffer : Int, end : Int]

\* Where the next output would lie.
NextAt == Beginning + InBuffer(1)

SoundTyped ==
    /\ format \in [rate : Nat \ {0}, channels : Nat \ {0}]
    /\ packet \in Nat /\ before \in Nat /\ phase \in Int /\ tail \in BOOLEAN
    /\ outputs \in Seq(Made)

\* The resampler stands a frame before its buffer at most, two after the first packet,
\* and its next output follows the last one but for the one that ends that packet.
Running ==
    /\ tail => packet > 0
    /\ ~tail => outputs = <<>> /\ phase = 0
    /\ Resample /\ packet > 0 => tail
    /\ ~Resample => ~tail
    /\ packet > 1 => phase >= -Rate
    /\ \A k \in DOMAIN outputs : outputs[k].packet \in 1..packet
    /\ outputs # <<>> /\ outputs[Len(outputs)].packet > 1 =>
         NextAt = outputs[Len(outputs)].at + format.rate

SoundInv == SoundTyped /\ Running /\ RunsOn

\* The new outputs of a packet.
Fresh(n) == [j \in 1..Outputs(n) |->
                [packet |-> packet + 1, at |-> Beginning + InBuffer(j),
                 inBuffer |-> InBuffer(j), end |-> (Frames(n) - 1) * Rate]]

LEMMA FreshOutputs ==
    ASSUME SoundTyped, NEW n \in Nat
    PROVE  /\ Outputs(n) \in Nat
           /\ Beginning \in Int /\ Frames(n) \in Nat
           /\ Outputs(n) * format.rate >= (Frames(n) - 2) * Rate - phase
           /\ (Frames(n) - 1) * Rate \in Int
           /\ \A j \in 1..Outputs(n) :
                /\ InBuffer(j) \in Int
                /\ InBuffer(j) >= phase + Rate
                /\ InBuffer(j) < (Frames(n) - 1) * Rate
                /\ InBuffer(j) = InBuffer(1) + (j - 1) * format.rate
           /\ InBuffer(1) = phase + Rate
<1> DEFINE r == format.rate
           F == Frames(n)
           room == (F - 2) * Rate - phase
           m == Outputs(n)
<1>1. r \in Nat \ {0} /\ Rate \in Nat \ {0} /\ phase \in Int /\ before \in Nat  
  BY RatesArePositive DEF SoundTyped
<1>2. F \in Nat  BY DEF Frames, SoundTyped
<1>3. (F - 2) * Rate \in Int /\ (F - 1) * Rate = (F - 2) * Rate + Rate /\ (F - 1) * Rate \in Int
  BY <1>1, <1>2
<1>4. room \in Int  BY <1>1, <1>3
<1>5. m = IF room <= 0 THEN 0 ELSE (room + r - 1) \div r  BY DEF Outputs
<1>6. Beginning \in Int
  <2>1. (before - 1) * Rate \in Int /\ before * Rate \in Int  BY <1>1
  <2> QED  BY <2>1 DEF Beginning
<1>7. InBuffer(1) = phase + Rate
  <2>1. (1 - 1) * r = 0  BY <1>1
  <2> QED  BY <1>1, <2>1 DEF InBuffer
<1>8. \A j : InBuffer(j) = phase + Rate + (j - 1) * r  BY DEF InBuffer
<1>9. room = (F - 2) * Rate - phase  OBVIOUS
<1>12. phase \in Int  BY <1>1
<1> HIDE DEF room, r, F
<1>10. CASE room <= 0
  <2>1. m = 0  BY <1>5, <1>10
  <2>2. m * r = 0  BY <1>1, <2>1
  <2>3. 1..m = {}  BY <2>1
  <2> QED  BY <1>2, <1>3, <1>4, <1>6, <1>7, <1>9, <1>10, <2>1, <2>2, <2>3 DEF r, F
<1>11. CASE room > 0
  <2>1. m = (room + r - 1) \div r  BY <1>4, <1>5, <1>11
  <2>2. m \in Nat \ {0} /\ m * r >= room /\ (m - 1) * r < room  BY <1>1, <1>4, <1>11, <2>1, Covers
  <2>3. (m - 1) * r \in Int  BY <1>1, <2>2
  <2> HIDE DEF m
  <2>4. ASSUME NEW j \in 1..m
        PROVE  /\ InBuffer(j) \in Int
               /\ InBuffer(j) >= phase + Rate
               /\ InBuffer(j) < (F - 1) * Rate
               /\ InBuffer(j) = InBuffer(1) + (j - 1) * r
    <3>1. (j - 1) * r >= 0 /\ (j - 1) * r <= (m - 1) * r /\ (j - 1) * r \in Int
      BY <1>1, <2>2, Stays
    <3>2. InBuffer(j) = phase + Rate + (j - 1) * r  BY <1>8
    <3> HIDE DEF r
    <3> QED  BY <1>1, <1>3, <1>4, <1>7, <1>9, <2>2, <2>3, <3>1, <3>2
  <2> QED  BY <1>2, <1>3, <1>6, <1>7, <1>9, <2>2, <2>4 DEF r, F, m
<1> QED  BY <1>4, <1>10, <1>11

LEMMA SoundInitially == SoundInit => SoundInv
<1> SUFFICES ASSUME SoundInit  PROVE SoundInv  OBVIOUS
<1>1. format \in [rate : Nat \ {0}, channels : Nat \ {0}]
  BY RatesArePositive DEF SoundInit, Preferred
<1>2. SoundTyped
  <2>1. outputs \in Seq(Made)  BY DEF SoundInit
  <2>2. packet = 0 /\ before = 0 /\ phase = 0  BY DEF SoundInit
  <2>3. tail \in BOOLEAN  BY Zenon DEF SoundInit
  <2> QED  BY <1>1, <2>1, <2>2, <2>3 DEF SoundTyped
<1>3. outputs = <<>> /\ Len(outputs) = 0 /\ DOMAIN outputs = {}  BY DEF SoundInit
<1>4. Running  BY <1>3 DEF SoundInit, Running
<1>5. RunsOn  BY <1>3 DEF RunsOn
<1> QED  BY <1>2, <1>4, <1>5 DEF SoundInv

LEMMA ProcessStep ==
    ASSUME SoundInv, NEW n \in Nat, Resample, packet' = packet + 1, before' = before + n,
           Process(n), UNCHANGED <<format, accepted>>
    PROVE  SoundInv'
<1> DEFINE m == Outputs(n)
           new == Fresh(n)
           L == Len(outputs)
           r == format.rate
<1>1. SoundTyped  BY DEF SoundInv
<1>2. /\ m \in Nat /\ Beginning \in Int /\ Frames(n) \in Nat
      /\ m * r >= (Frames(n) - 2) * Rate - phase
      /\ (Frames(n) - 1) * Rate \in Int
      /\ InBuffer(1) = phase + Rate
  BY <1>1, FreshOutputs
<1>3. \A j \in 1..m : /\ InBuffer(j) \in Int /\ InBuffer(j) >= phase + Rate
                      /\ InBuffer(j) < (Frames(n) - 1) * Rate
                      /\ InBuffer(j) = InBuffer(1) + (j - 1) * r
  BY <1>1, FreshOutputs
<1>4. r \in Nat \ {0} /\ Rate \in Nat \ {0} /\ phase \in Int /\ before \in Nat /\ packet \in Nat
      /\ outputs \in Seq(Made) /\ L \in Nat
  BY <1>1, RatesArePositive DEF SoundTyped
<1>5. outputs' = outputs \o new /\ phase' = phase + m * r - n * Rate /\ tail' = TRUE
  BY DEF Process, Fresh, Rephase
<1>6. \A j \in 1..m : new[j] = [packet |-> packet + 1, at |-> Beginning + InBuffer(j),
                               inBuffer |-> InBuffer(j), end |-> (Frames(n) - 1) * Rate]
  BY DEF Fresh
<1>7. new \in Seq(Made) /\ Len(new) = m
  <2>1. \A j \in 1..m : new[j] \in Made
    <3> SUFFICES ASSUME NEW j \in 1..m  PROVE new[j] \in Made  OBVIOUS
    <3>1. InBuffer(j) \in Int  BY <1>3
    <3>2. packet + 1 \in Nat /\ Beginning + InBuffer(j) \in Int  BY <1>2, <1>4, <3>1
    <3>3. [packet |-> packet + 1, at |-> Beginning + InBuffer(j),
           inBuffer |-> InBuffer(j), end |-> (Frames(n) - 1) * Rate] \in Made
      BY <3>1, <3>2, <1>2 DEF Made
    <3> QED  BY <3>3, <1>6
  <2>2. new = [j \in 1..m |-> new[j]]  BY DEF Fresh
  <2> HIDE DEF new, m
  <2>3. new \in [1..m -> Made]  BY <2>1, <2>2
  <2> QED  BY <2>3, <1>2, SeqDef, LenProperties
<1> HIDE DEF new, m, L, r
<1>8. /\ outputs' \in Seq(Made) /\ Len(outputs') = L + m
      /\ \A k \in 1..L : outputs'[k] = outputs[k]
      /\ \A k \in (L + 1)..(L + m) : k - L \in 1..m /\ outputs'[k] = new[k - L]
  <2>1. outputs' \in Seq(Made) /\ Len(outputs') = L + m  BY <1>4, <1>5, <1>7, ConcatProperties DEF L
  <2>2. \A k \in 1..(L + m) : outputs'[k] = IF k <= L THEN outputs[k] ELSE new[k - L]
    BY <1>4, <1>5, <1>7, ConcatProperties DEF L
  <2>3. ASSUME NEW k \in 1..L  PROVE outputs'[k] = outputs[k]
    <3>1. k \in 1..(L + m) /\ k <= L  BY <1>2, <1>4
    <3> QED  BY <2>2, <3>1
  <2>4. ASSUME NEW k \in (L + 1)..(L + m)  PROVE k - L \in 1..m /\ outputs'[k] = new[k - L]
    <3>1. k \in 1..(L + m) /\ ~(k <= L) /\ k - L \in 1..m  BY <1>2, <1>4
    <3> QED  BY <2>2, <3>1
  <2> QED  BY <2>1, <2>3, <2>4
<1>9. DOMAIN outputs = 1..L /\ DOMAIN outputs' = 1..(L + m)  BY <1>4, <1>8, LenProperties DEF L
<1>10. \A k \in (L + 1)..(L + m) :
          /\ outputs'[k].packet = packet + 1
          /\ outputs'[k].at = Beginning + InBuffer(1) + (k - L - 1) * r
          /\ outputs'[k].inBuffer >= phase + Rate
          /\ outputs'[k].inBuffer \in Int
          /\ outputs'[k].inBuffer < outputs'[k].end
          /\ outputs'[k].end \in Int
  <2> SUFFICES ASSUME NEW k \in (L + 1)..(L + m)
               PROVE  /\ outputs'[k].packet = packet + 1
                      /\ outputs'[k].at = Beginning + InBuffer(1) + (k - L - 1) * r
                      /\ outputs'[k].inBuffer >= phase + Rate
                      /\ outputs'[k].inBuffer \in Int
                      /\ outputs'[k].inBuffer < outputs'[k].end
                      /\ outputs'[k].end \in Int
    OBVIOUS
  <2> DEFINE j == k - L
  <2>1. j \in 1..m /\ outputs'[k] = new[j]  BY <1>8
  <2> HIDE DEF j
  <2>2. outputs'[k] = [packet |-> packet + 1, at |-> Beginning + InBuffer(j),
                       inBuffer |-> InBuffer(j), end |-> (Frames(n) - 1) * Rate]
    BY <1>6, <2>1
  <2>3. InBuffer(j) = InBuffer(1) + (j - 1) * r  BY <1>3, <2>1
  <2>4. (j - 1) * r \in Int  BY <1>4, <2>1
  <2>5. Beginning + InBuffer(j) = Beginning + InBuffer(1) + (j - 1) * r
    BY <2>3, <2>4, <1>2, <1>4
  <2>6. /\ outputs'[k].packet = packet + 1 /\ outputs'[k].at = Beginning + InBuffer(j)
        /\ outputs'[k].inBuffer = InBuffer(j) /\ outputs'[k].end = (Frames(n) - 1) * Rate
    BY <2>2
  <2>7. InBuffer(j) \in Int /\ InBuffer(j) >= phase + Rate /\ InBuffer(j) < (Frames(n) - 1) * Rate
    BY <1>3, <2>1
  <2>8. Beginning + InBuffer(1) + (k - L - 1) * r = Beginning + InBuffer(1) + (j - 1) * r  BY DEF j
  <2> QED  BY <1>2, <2>5, <2>6, <2>7, <2>8
<1>11. m * r \in Int /\ n * Rate \in Int /\ phase' \in Int  BY <1>2, <1>4, <1>5
<1>12. SoundTyped'  BY <1>1, <1>4, <1>5, <1>8, <1>11 DEF SoundTyped, r
<1>13. packet' > 1 => tail
  BY <1>4 DEF SoundInv, Running
<1>14. packet' > 1 => phase' >= -Rate
  <2> SUFFICES ASSUME packet' > 1  PROVE phase' >= -Rate  OBVIOUS
  <2>1. Frames(n) = n + 1  BY <1>13 DEF Frames
  <2>2. (Frames(n) - 2) * Rate = n * Rate - Rate  BY <1>4, <2>1
  <2> QED  BY <1>2, <1>4, <1>5, <1>11, <2>2
\* Where the next output lies after this packet.
<1>15. NextAt' = (before + n - 1) * Rate + phase' + Rate
  <2>1. Beginning' = (before' - 1) * Rate  BY <1>5 DEF Beginning
  <2>2. InBuffer(1)' = phase' + Rate + (1 - 1) * r'  BY DEF InBuffer, r
  <2>3. r' = r  BY DEF r
  <2>4. (1 - 1) * r = 0  BY <1>4
  <2>5. (before + n - 1) * Rate \in Int  BY <1>4
  <2>6. NextAt' = Beginning' + InBuffer(1)'  BY DEF NextAt
  <2> QED  BY <1>4, <1>11, <2>1, <2>2, <2>3, <2>4, <2>5, <2>6
<1>16. tail => NextAt' = NextAt + m * r
  <2> SUFFICES ASSUME tail  PROVE NextAt' = NextAt + m * r  OBVIOUS
  <2>1. NextAt = (before - 1) * Rate + phase + Rate  BY <1>2, <1>4 DEF NextAt, Beginning
  <2>2. (before + n - 1) * Rate = (before - 1) * Rate + n * Rate  BY <1>4
  <2>3. (before - 1) * Rate \in Int  BY <1>4
  <2>4. PICK x \in Int, y \in Int, z \in Int, p \in Int, q \in Int :
             x = (before - 1) * Rate /\ y = n * Rate /\ z = m * r /\ p = phase /\ q = Rate
    BY <1>4, <1>11, <2>3
  <2>5. NextAt' = x + y + phase' + q  BY <1>15, <2>2, <2>4, Zenon
  <2>6. NextAt = x + p + q  BY <2>1, <2>4, Zenon
  <2>7. phase' = p + z - y  BY <1>5, <2>4, Zenon
  <2>8. NextAt' = (x + p + q) + z  BY <2>5, <2>7
  <2> QED  BY <2>4, <2>6, <2>8, Zenon
<1>17. m > 0 => outputs'[L + m].at + r = NextAt + m * r
  <2> SUFFICES ASSUME m > 0  PROVE outputs'[L + m].at + r = NextAt + m * r  OBVIOUS
  <2>1. L + m \in (L + 1)..(L + m)  BY <1>2, <1>4
  <2>2. outputs'[L + m].at = Beginning + InBuffer(1) + (L + m - L - 1) * r
    <3>1. PICK k : k = L + m  OBVIOUS
    <3>2. outputs'[k].at = Beginning + InBuffer(1) + (k - L - 1) * r  BY <1>10, <2>1, <3>1
    <3> QED  BY <3>1, <3>2, <1>2, <1>4
  <2>3. (L + m - L - 1) * r = m * r - r
    <3>1. L + m - L - 1 = m - 1  BY <1>2, <1>4
    <3>2. (m - 1) * r = m * r - r  BY <1>2, <1>4
    <3> QED  BY <3>1, <3>2
  <2>4. NextAt \in Int  BY <1>2, <1>4 DEF NextAt
  <2> QED  BY <1>4, <1>11, <2>2, <2>3, <2>4 DEF NextAt
<1>18. \A k \in DOMAIN outputs' : outputs'[k].packet \in 1..packet'
  <2> SUFFICES ASSUME NEW k \in 1..(L + m)  PROVE outputs'[k].packet \in 1..packet'  BY <1>9
  <2>1. CASE k <= L
    <3>1. outputs'[k] = outputs[k] /\ outputs[k].packet \in 1..packet
      BY <1>4, <1>8, <1>9, <2>1 DEF SoundInv, Running
    <3> QED  BY <1>4, <3>1
  <2>2. CASE k > L
    <3>1. outputs'[k].packet = packet + 1  BY <1>2, <1>4, <1>10, <2>2
    <3> QED  BY <1>4, <3>1
  <2> QED  BY <1>2, <1>4, <2>1, <2>2
<1>19. m = 0 => m * r = 0  BY <1>4
<1>20. Running'
  <2>1. outputs' # <<>> /\ outputs'[Len(outputs')].packet > 1 =>
           NextAt' = outputs'[Len(outputs')].at + r
    <3> SUFFICES ASSUME outputs' # <<>>, outputs'[L + m].packet > 1
                 PROVE  NextAt' = outputs'[L + m].at + r
      BY <1>8
    <3>1. L + m > 0  BY <1>2, <1>4, <1>8, EmptySeq
    <3>2. packet' > 1
      <4>1. L + m \in 1..(L + m)  BY <1>2, <1>4, <3>1
      <4>2. outputs'[L + m].packet \in 1..packet'  BY <1>9, <1>18, <4>1
      <4> QED  BY <1>4, <4>2
    <3>3. NextAt' = NextAt + m * r  BY <1>13, <1>16, <3>2
    <3>4. CASE m > 0  BY <1>17, <3>3, <3>4
    <3>5. CASE m = 0
      <4>1. L \in 1..L /\ L + m = L /\ outputs'[L] = outputs[L] /\ outputs # <<>>
        BY <1>4, <1>8, <3>1, <3>5, EmptySeq DEF L
      <4>2. NextAt = outputs[L].at + r  BY <4>1 DEF SoundInv, Running, L, r
      <4>3. NextAt \in Int  BY <1>2, <1>4 DEF NextAt
      <4> QED  BY <1>19, <3>3, <3>5, <4>1, <4>2, <4>3
    <3> QED  BY <1>2, <3>4, <3>5
  <2>2. r = format'.rate /\ Resample'  BY DEF r, Resample
  <2> QED  BY <1>4, <1>5, <1>14, <1>18, <2>1, <2>2 DEF Running
<1>21. RunsOn'
  <2>1. ASSUME NEW k \in 1..(L + m - 1), outputs'[k].packet > 1 \/ outputs'[k + 1].packet = 1
        PROVE  outputs'[k + 1].at = outputs'[k].at + r
    <3>0. k \in Nat /\ k >= 1  BY <1>2, <1>4
    <3>1. CASE k < L
      <4>1. k \in 1..(L - 1) /\ k \in 1..L /\ k + 1 \in 1..L  BY <1>4, <3>0, <3>1
      <4>2. outputs'[k] = outputs[k] /\ outputs'[k + 1] = outputs[k + 1]  BY <1>8, <4>1
      <4> QED  BY <2>1, <4>1, <4>2 DEF SoundInv, RunsOn, Follows, L, r
    <3>2. CASE k = L
      <4>1. m > 0 /\ L >= 1 /\ L + 1 \in (L + 1)..(L + m) /\ L \in 1..L  BY <1>2, <1>4, <3>0, <3>2
      <4>2. outputs'[L] = outputs[L] /\ outputs'[L + 1].packet = packet + 1
            /\ outputs'[L + 1].at = NextAt + (L + 1 - L - 1) * r
        BY <1>8, <1>10, <4>1 DEF NextAt
      <4>3. outputs[L].packet \in 1..packet  BY <1>9, <4>1 DEF SoundInv, Running
      <4>4. outputs[L].packet > 1  BY <1>4, <2>1, <3>2, <4>2, <4>3
      <4>5. outputs # <<>>  BY <1>4, <4>1, EmptySeq DEF L
      <4>6. NextAt = outputs[L].at + r  BY <4>4, <4>5 DEF SoundInv, Running, L, r
      <4>7. (L + 1 - L - 1) * r = 0  BY <1>4
      <4>8. NextAt \in Int  BY <1>2, <1>4 DEF NextAt
      <4> QED  BY <3>2, <4>2, <4>6, <4>7, <4>8
    <3>3. CASE k > L
      <4>1. k \in (L + 1)..(L + m) /\ k + 1 \in (L + 1)..(L + m)  BY <1>2, <1>4, <3>0, <3>3
      <4>2. outputs'[k].at = NextAt + (k - L - 1) * r
            /\ outputs'[k + 1].at = NextAt + (k + 1 - L - 1) * r
        <5>1. PICK i : i = k + 1  OBVIOUS
        <5>2. outputs'[i].at = Beginning + InBuffer(1) + (i - L - 1) * r  BY <1>10, <4>1, <5>1
        <5>3. outputs'[k].at = Beginning + InBuffer(1) + (k - L - 1) * r  BY <1>10, <4>1
        <5> QED  BY <5>1, <5>2, <5>3, <1>4, <3>0 DEF NextAt
      <4>3. (k + 1 - L - 1) * r = (k - L - 1) * r + r /\ (k - L - 1) * r \in Int
        BY <1>4, <3>0
      <4>4. NextAt \in Int  BY <1>2, <1>4 DEF NextAt
      <4> QED  BY <1>4, <4>2, <4>3, <4>4
    <3> QED  BY <1>4, <3>0, <3>1, <3>2, <3>3
  <2>2. ASSUME NEW k \in 1..(L + m), outputs'[k].packet > 2
        PROVE  outputs'[k].inBuffer \in 0..(outputs'[k].end - 1)
    <3>1. CASE k <= L
      <4>1. k \in DOMAIN outputs /\ outputs'[k] = outputs[k]  BY <1>4, <1>8, <1>9, <3>1
      <4> QED  BY <2>2, <4>1 DEF SoundInv, RunsOn
    <3>2. CASE k > L
      <4>1. k \in (L + 1)..(L + m)  BY <1>2, <1>4, <3>2
      <4>2. outputs'[k].packet = packet + 1 /\ outputs'[k].inBuffer >= phase + Rate
            /\ outputs'[k].inBuffer \in Int /\ outputs'[k].inBuffer < outputs'[k].end
            /\ outputs'[k].end \in Int
        BY <1>10, <4>1
      <4>3. phase >= -Rate  BY <1>4, <2>2, <4>2 DEF SoundInv, Running
      <4> QED  BY <1>4, <4>2, <4>3
    <3> QED  BY <1>2, <1>4, <3>1, <3>2
  <2>3. ASSUME NEW k \in 1..(Len(outputs') - 1), outputs'[k].packet > 1 \/ outputs'[k + 1].packet = 1
        PROVE  Follows(k)'
    <3>0. Len(outputs') = L + m  BY <1>8
    <3>1. k \in 1..(L + m - 1)  BY <3>0, <1>2, <1>4
    <3>2. outputs'[k + 1].at = outputs'[k].at + r  BY <2>1, <2>3, <3>1
    <3> QED  BY <3>2 DEF Follows, r
  <2>4. \A k \in DOMAIN outputs' : outputs'[k].packet > 2 =>
            outputs'[k].inBuffer \in 0..(outputs'[k].end - 1)
    BY <1>9, <2>2
  <2> QED  BY <2>3, <2>4 DEF RunsOn
<1> QED  BY <1>12, <1>20, <1>21 DEF SoundInv

LEMMA SoundStep == SoundInv /\ [SoundNext]_soundVars => SoundInv'
<1> SUFFICES ASSUME SoundInv, [SoundNext]_soundVars  PROVE SoundInv'  OBVIOUS
<1>1. ASSUME NEW n \in Packets, Capture(n)  PROVE SoundInv'
  <2>1. n \in Nat  BY PacketsAreSizes
  <2>2. CASE Resample  BY <1>1, <2>1, <2>2, ProcessStep DEF Capture
  <2>3. CASE ~Resample
    <3>1. UNCHANGED <<format, accepted, phase, tail, outputs>> /\ packet' = packet + 1
          /\ before' = before + n
      BY <1>1, <2>3 DEF Capture
    <3>2. ~Resample' /\ ~tail /\ outputs = <<>> /\ phase = 0
      BY <2>3, <3>1 DEF Resample, SoundInv, Running
    <3>3. Len(outputs) = 0 /\ DOMAIN outputs = {}  BY <3>2
    <3>4. SoundTyped'  BY <2>1, <3>1 DEF SoundInv, SoundTyped
    <3>5. Running'  BY <3>1, <3>2, <3>3, RatesArePositive DEF Running, SoundInv, SoundTyped
    <3>6. RunsOn'  BY <3>1, <3>3 DEF RunsOn
    <3> QED  BY <3>4, <3>5, <3>6 DEF SoundInv
  <2> QED  BY <2>2, <2>3
<1>2. CASE UNCHANGED soundVars
  <2> USE <1>2 DEF soundVars
  <2>1. SoundTyped'  BY DEF SoundInv, SoundTyped
  <2>2. NextAt' = NextAt  BY DEF NextAt, Beginning, InBuffer
  <2>3. Running'  BY <2>2 DEF SoundInv, Running, Resample
  <2>4. RunsOn'  BY DEF SoundInv, RunsOn, Follows
  <2> QED  BY <2>1, <2>3, <2>4 DEF SoundInv
<1> QED  BY <1>1, <1>2 DEF SoundNext

\* The linear resampler runs through the boundaries of packets, for every rate of the
\* source and every size of packet.
THEOREM ResamplerRunsOn == SoundSpec => []RunsOn
<1>1. SoundInv => RunsOn  BY DEF SoundInv
<1> QED  BY <1>1, SoundInitially, SoundStep, PTL DEF SoundSpec
--------------------------------------------------------------------------------
(* UdpPorts: the ports handed to the session                               *)

\* The ports bound so far are in a row, unless a sum wrapped.
Row ==
    socks # <<>> /\ socks[1] + Len(socks) <= Ports =>
        \A i \in DOMAIN socks : socks[i] = socks[1] + i - 1

\* Where the search is tells how many ports it holds and that it may try again.
Progress ==
    /\ at = "first" => socks = <<>> /\ tries < Attempts
    /\ at = "rest" => Len(socks) \in 1..(Count - 1) /\ tries < Attempts
    /\ at = "done" => Len(socks) = Count

Own == \A i \in DOMAIN socks : socks[i] \notin taken

PortsInv == PortsTyped /\ Progress /\ Own /\ Row

USE SizesArePositive, CountFits, EphemeralArePorts, RangesArePorts, OccupiedArePorts, MaxMovesNat
--------------------------------------------------------------------------------
LEMMA SmallMod ==
    ASSUME NEW b \in Nat \ {0}, NEW a \in Nat
    PROVE  (a % b) \in 0..(b - 1) /\ (a < b => (a % b) = a)
OBVIOUS

\* A bind gives a free port, and the one asked for unless that is 0.
LEMMA BoundIsFree ==
    ASSUME NEW q \in 0..(Ports - 1), NEW p \in Bound(q)
    PROVE  p \in 1..(Ports - 1) /\ p \notin taken /\ (q # 0 => p = q)
BY DEF Bound

\* The first port, whoever chose it, is a row of one.
LEMMA FirstStep ==
    ASSUME PortsInv, at = "first", NEW p \in 1..(Ports - 1), p \notin taken,
           socks' = <<p>>, at' = IF Count = 1 THEN "done" ELSE "rest",
           UNCHANGED <<checked, range, taken, moves, base, tries>>
    PROVE  PortsInv'
<1>1. socks' \in Seq(1..(Ports - 1)) /\ Len(socks') = 1 /\ DOMAIN socks' = 1..1 /\ socks'[1] = p
  OBVIOUS
<1>2. PortsTyped'
  BY <1>1 DEF PortsInv, PortsTyped, Ends
<1>3. Progress'
  BY <1>1 DEF PortsInv, Progress
<1>4. Own' /\ Row'
  BY <1>1 DEF Own, Row
<1> QED BY <1>2, <1>3, <1>4 DEF PortsInv

\* Giving up, in a panic or an error, leaves nothing to be in a row.
LEMMA Dropped ==
    ASSUME PortsInv, socks' = <<>>, at' \in {"first", "error", "panic"},
           base' \in 0..(Ports - 1), tries' \in 0..Attempts, at' = "first" => tries' < Attempts,
           UNCHANGED <<checked, range, taken, moves>>
    PROVE  PortsInv'
<1>1. socks' \in Seq(1..(Ports - 1)) /\ DOMAIN socks' = {}
  OBVIOUS
<1>2. PortsTyped'
  BY <1>1 DEF PortsInv, PortsTyped, Ends
<1>3. Progress' /\ Own' /\ Row'
  BY <1>1 DEF Progress, Own, Row
<1> QED BY <1>2, <1>3 DEF PortsInv

LEMMA FirstAnywhereStep ==
    ASSUME PortsInv, FirstAnywhere
    PROVE  PortsInv'
<1>1. at = "first" /\ socks = <<>> /\ tries < Attempts
  BY DEF PortsInv, Progress, FirstAnywhere
<1>2. CASE Bound(0) = {}
  <2>1. socks' = <<>> /\ at' = "error" /\ UNCHANGED <<checked, range, taken, moves, base, tries>>
    BY <1>1, <1>2 DEF FirstAnywhere
  <2> QED BY <2>1, Dropped DEF PortsInv, PortsTyped
<1>3. CASE Bound(0) # {}
  <2>1. PICK p \in Bound(0) : socks' = <<p>> /\ at' = IF Count = 1 THEN "done" ELSE "rest"
    BY <1>3 DEF FirstAnywhere
  <2>2. p \in 1..(Ports - 1) /\ p \notin taken
    BY BoundIsFree
  <2> QED BY <1>1, <2>1, <2>2, FirstStep DEF FirstAnywhere
<1> QED BY <1>2, <1>3

LEMMA FirstInRangeStep ==
    ASSUME PortsInv, FirstInRange
    PROVE  PortsInv'
<1>1. at = "first" /\ socks = <<>> /\ tries < Attempts
  BY DEF PortsInv, Progress, FirstInRange
<1>2. base \in 0..(Ports - 1) /\ (base + 1) % Ports \in 0..(Ports - 1)
  BY DEF PortsInv, PortsTyped
<1>3. CASE \E p \in Bound(base) : /\ socks' = <<p>>
                                  /\ at' = IF Count = 1 THEN "done" ELSE "rest"
                                  /\ UNCHANGED base
  <2>1. PICK p \in Bound(base) : /\ socks' = <<p>>
                                 /\ at' = IF Count = 1 THEN "done" ELSE "rest"
                                 /\ UNCHANGED base
    BY <1>3
  <2>2. p \in 1..(Ports - 1) /\ p \notin taken
    BY <1>2, BoundIsFree
  <2> QED BY <1>1, <2>1, <2>2, FirstStep DEF FirstInRange
<1>4. CASE /\ UNCHANGED socks /\ at' \in {"first", "error", "panic"}
           /\ base' \in {base, (base + 1) % Ports}
  <2>1. UNCHANGED <<checked, range, taken, moves, tries>>
    BY DEF FirstInRange
  <2> QED BY <1>1, <1>2, <1>4, <2>1, Dropped DEF PortsInv, PortsTyped
<1> QED BY <1>1, <1>3, <1>4 DEF FirstInRange

\* A follower that is bound lengthens the row by the next port.
LEMMA BindFollowerStep ==
    ASSUME PortsInv, BindFollower
    PROVE  PortsInv'
<1> DEFINE n == Len(socks)
           first == socks[1]
<1>1. /\ at = "rest" /\ n \in 1..(Count - 1) /\ tries \in 0..Attempts /\ tries < Attempts
      /\ socks \in Seq(1..(Ports - 1)) /\ DOMAIN socks = 1..n /\ socks # <<>>
      /\ first \in 1..(Ports - 1) /\ base \in 0..(Ports - 1)
  BY DEF PortsInv, Progress, PortsTyped, BindFollower
<1>2. UNCHANGED <<checked, range, taken, moves>>
  BY DEF BindFollower
<1>3. CASE at' = "panic" /\ socks' = <<>> /\ UNCHANGED <<base, tries>>
  BY <1>1, <1>2, <1>3, Dropped
<1>4. CASE Retry
  <2>1. socks' = <<>> /\ at' \in {"first", "error", "panic"}
    BY <1>4 DEF Retry
  <2>2. base' \in 0..(Ports - 1)
    BY <1>1, <1>4 DEF Retry
  <2>3. tries' \in 0..Attempts /\ (at' = "first" => tries' < Attempts)
    BY <1>1, <1>4 DEF Retry
  <2> QED BY <1>2, <2>1, <2>2, <2>3, Dropped
<1>5. ASSUME NEW p \in Bound(Follower), socks' = Append(socks, p),
             at' = IF n + 1 = Count THEN "done" ELSE "rest", UNCHANGED <<base, tries>>
      PROVE  PortsInv'
  <2>1. Follower \in 0..(Ports - 1) /\ (first + n < Ports => Follower = first + n)
    <3>1. first + n \in Nat
      BY <1>1
    <3>2. Follower = ((first + n) % Ports)
      BY Zenon DEF Follower
    <3> HIDE DEF n, first
    <3> QED BY <3>1, <3>2, SmallMod
  <2>2. p \in 1..(Ports - 1) /\ p \notin taken /\ (Follower # 0 => p = Follower)
    BY <2>1, BoundIsFree
  <2>3. /\ socks' \in Seq(1..(Ports - 1)) /\ Len(socks') = n + 1 /\ DOMAIN socks' = 1..(n + 1)
        /\ socks'[n + 1] = p /\ \A i \in 1..n : socks'[i] = socks[i]
    BY <1>1, <1>5, <2>2
  <2>4. PortsTyped'
    BY <1>1, <1>2, <1>5, <2>3 DEF PortsInv, PortsTyped, Ends
  <2>5. Progress'
    BY <1>1, <1>5, <2>3 DEF Progress
  <2>6. Own'
    BY <1>1, <1>2, <2>2, <2>3 DEF PortsInv, Own
  <2>7. Row'
    <3> SUFFICES ASSUME socks'[1] + Len(socks') <= Ports, NEW i \in 1..(n + 1)
                 PROVE  socks'[i] = socks'[1] + i - 1
      BY <2>3 DEF Row
    <3>1. socks'[1] = first /\ first + n < Ports /\ first + n # 0
      BY <1>1, <2>3
    <3>2. p = first + n
      BY <2>1, <2>2, <3>1
    <3>3. first + n <= Ports
      BY <1>1, <3>1
    <3>4. \A j \in 1..n : socks[j] = first + j - 1
      BY <1>1, <3>3 DEF PortsInv, Row
    <3>5. CASE i = n + 1
      BY <1>1, <2>3, <3>1, <3>2, <3>5
    <3>6. CASE i \in 1..n
      BY <1>1, <2>3, <3>1, <3>4, <3>6
    <3> QED BY <1>1, <3>5, <3>6
  <2> QED BY <2>4, <2>5, <2>6, <2>7 DEF PortsInv
<1> QED BY <1>3, <1>4, <1>5 DEF BindFollower

\* Other programs take no port the search holds.
LEMMA OthersStep ==
    ASSUME PortsInv, Others
    PROVE  PortsInv'
<1>1. UNCHANGED <<checked, range, at, base, socks, tries>> /\ moves' \in 0..MaxMoves
  BY DEF PortsInv, PortsTyped, Others
<1>2. taken' \subseteq 1..(Ports - 1) /\ \A i \in DOMAIN socks : socks[i] \notin taken'
  BY DEF PortsInv, PortsTyped, Own, Others
<1> QED BY <1>1, <1>2 DEF PortsInv, PortsTyped, Progress, Own, Row

LEMMA PortsStep == PortsInv /\ [SearchNext]_portVars => PortsInv'
<1> SUFFICES ASSUME PortsInv, [SearchNext]_portVars PROVE PortsInv'
  OBVIOUS
<1>1. CASE UNCHANGED portVars
  BY <1>1 DEF portVars, PortsInv, PortsTyped, Progress, Own, Row
<1> QED
  BY <1>1, FirstAnywhereStep, FirstInRangeStep, BindFollowerStep, OthersStep DEF SearchNext, Search

LEMMA PortsInitially == SearchInit => PortsInv
<1> SUFFICES ASSUME SearchInit PROVE PortsInv
  OBVIOUS
<1>1. socks \in Seq(1..(Ports - 1)) /\ DOMAIN socks = {} /\ socks = <<>>
  BY DEF SearchInit
<1>2. range[1] \in 0..(Ports - 1)
  BY DEF SearchInit
<1> QED BY <1>1, <1>2 DEF SearchInit, PortsInv, PortsTyped, Progress, Own, Row, Ends

\* The search keeps to its types: a first port is tried at most Attempts times.
THEOREM PortsTypeCorrect == SearchSpec => []PortsTyped
<1>1. PortsInv => PortsTyped
  BY DEF PortsInv
<1> QED BY <1>1, PortsInitially, PortsStep, PTL DEF SearchSpec

\* Whatever other programs do, the sockets of a search that succeeds are Count
\* ports in a row that nobody else holds, unless a sum of 16 bits wrapped.
THEOREM Consecutive == SearchSpec => []PortsInARow
<1>1. PortsInv => PortsInARow
  <2> SUFFICES ASSUME PortsInv, at = "done"
               PROVE  /\ Len(socks) = Count
                      /\ \A i \in 1..Count : socks[i] \notin taken
                      /\ socks[1] + Count <= Ports => \A i \in 1..Count : socks[i] = socks[1] + i - 1
    BY DEF PortsInARow
  <2>1. Len(socks) = Count /\ DOMAIN socks = 1..Count /\ socks # <<>>
    BY DEF PortsInv, PortsTyped, Progress
  <2> QED BY <2>1 DEF PortsInv, Own, Row
<1> QED BY <1>1, PortsInitially, PortsStep, PTL DEF SearchSpec
===================================================================================
