------------------------------- MODULE CtrStream -------------------------------
(***************************************************************************)
(* What MirrorCipher promises: the frames are sealed with the bytes of one *)
(* keystream, each frame with a run of its own, and frames of at least a   *)
(* block less one byte leave no gap.  A shorter frame may throw away less  *)
(* than a block after it.                                                  *)
(***************************************************************************)
EXTENDS Integers, Sequences

CONSTANTS Block,         \* bytes of a block of the cipher
          MaxLen         \* bound: bytes of a frame

VARIABLES pads,          \* of each frame, the keystream byte under each of its bytes
          pos            \* the first byte of the keystream not used yet

vars == <<pads, pos>>

Init == pads = <<>> /\ pos = 0

Gap(len) == IF len >= Block - 1 THEN {0} ELSE 0..(Block - 2)

Seal(len) ==
    /\ pads' = Append(pads, [i \in 1..len |-> pos + i - 1])
    /\ \E gap \in Gap(len) : pos' = pos + len + gap

Next == \E len \in 1..MaxLen : Seal(len)

Spec == Init /\ [][Next]_vars
================================================================================
