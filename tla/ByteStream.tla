------------------------------ MODULE ByteStream ------------------------------
(***************************************************************************)
(* What a connection promises its reader: the bytes written, each once and *)
(* in order.  A byte is its number in what was written.                    *)
(***************************************************************************)
EXTENDS Integers, Sequences

VARIABLES written,   \* bytes written
          got        \* the bytes read, in the order they were read

vars == <<written, got>>

Init == written = 0 /\ got = <<>>

Write == written' \in Nat /\ written' > written /\ UNCHANGED got

Deliver ==
    /\ \E k \in 1..(written - Len(got)) : got' = got \o [i \in 1..k |-> Len(got) + i]
    /\ UNCHANGED written

Next == Write \/ Deliver

Spec == Init /\ [][Next]_vars
================================================================================
