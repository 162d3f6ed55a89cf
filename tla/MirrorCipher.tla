----------------------------- MODULE MirrorCipher -----------------------------
(***************************************************************************)
(* MirrorCipher: AES-CTR over the frames of the video stream, with the     *)
(* rest of a frame's last block kept for the next frame.  A byte of the    *)
(* keystream is its position; what the cipher computes is which position   *)
(* lies under each byte of a frame.                                        *)
(***************************************************************************)
EXTENDS Integers, Sequences

CONSTANTS Block,         \* bytes of a block, 16 in the code
          MaxLen,        \* bound: bytes of a frame
          MaxFrames      \* bound: frames

ASSUME BlockIsSome == Block \in Nat \ {0}
ASSUME BoundsAreNat == MaxLen \in Nat /\ MaxFrames \in Nat

VARIABLES stream,        \* the CTR stream: keystream bytes drawn from it
          offset,        \* block_offset
          og,            \* the keystream position of og[0]
          cached,        \* next_crypt_count: bytes at the end of og still to use
          pads           \* of each frame, the keystream position under each byte

vars == <<stream, offset, og, cached, pads>>

Init == stream = 0 /\ offset = 0 /\ og = 0 /\ cached = 0 /\ pads = <<>>

Lesser(a, b) == IF a <= b THEN a ELSE b

\* Step 2 and the steps before it: where the whole blocks of a frame begin.
Aligned == IF offset > 0 THEN stream + Block - offset ELSE stream

\* Mutant of Prefix: the cached block is read from its beginning.
PrefixFromStart(len) == [i \in 1..Lesser(cached, len) |-> og + i - 1]

\* Step 1: the bytes of og not used by the frame before.
Prefix(len) == [i \in 1..Lesser(cached, len) |-> og + (Block - cached) + i - 1]

Remaining(len) == len - Lesser(cached, len)
Rest(len) == Remaining(len) % Block

\* Steps 3 and 4: whole blocks, then the beginning of one.
Body(len) == [i \in 1..Remaining(len) |-> Aligned + i - 1]

\* Mutant of Leftover: nothing is kept.
LeftoverNone(len) == 0

Leftover(len) == IF Rest(len) > 0 THEN Block - Rest(len) ELSE 0

EncryptFrame(len) ==
    LET full == (Remaining(len) \div Block) * Block
    IN /\ Len(pads) < MaxFrames
       /\ pads' = Append(pads, Prefix(len) \o Body(len))
       /\ offset' = 0
       /\ cached' = Leftover(len)
       /\ IF Rest(len) > 0
          THEN og' = Aligned + full /\ stream' = Aligned + full + Block
          ELSE og' = og /\ stream' = Aligned + full

Next == \E len \in 1..MaxLen : EncryptFrame(len)

Spec == Init /\ [][Next]_vars
--------------------------------------------------------------------------------
(* Properties                                                              *)

\* The cache holds less than a block, cut from the block drawn last, and the
\* stream is never left inside a block.
TypeOK ==
    /\ stream \in Nat /\ og \in Nat
    /\ offset = 0
    /\ cached \in 0..(Block - 1)
    /\ pads \in Seq(Seq(Nat))
    /\ cached > 0 => og + Block = stream

\* No byte of the keystream lies under two bytes, of one frame or of two.
PadsAreFresh ==
    \A f, g \in DOMAIN pads : \A i \in DOMAIN pads[f], j \in DOMAIN pads[g] :
        pads[f][i] = pads[g][j] => f = g /\ i = j

Stream == INSTANCE CtrStream WITH pos <- stream - cached

\* encrypt_frame is one keystream laid under the frames in a row, except after
\* a frame shorter than what was kept for it.
StreamSpec == Stream!Spec
================================================================================
