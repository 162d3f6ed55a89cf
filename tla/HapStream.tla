------------------------------- MODULE HapStream -------------------------------
(***************************************************************************)
(* One direction of a control or event connection: in the clear, or in     *)
(* frames of at most Limit bytes, each sealed under the next nonce and     *)
(* opened under the next nonce of the reader, who keeps what it has opened *)
(* and not yet handed out.                                                 *)
(*                                                                         *)
(* The bytes of a write in the clear stay together here as a frame does;   *)
(* its number is not looked at.  TCP neither loses nor reorders, but the   *)
(* rest of a frame may be late: the reader times out inside it and what it *)
(* had read of the frame is gone.                                          *)
(***************************************************************************)
EXTENDS Integers, Sequences

CONSTANT Limit       \* bytes of a frame: 1024 in the code

VARIABLE s           \* [secure,
                     \*  wn: write_nonce, rn: read_nonce,
                     \*  wire: the frames sent and not read,
                     \*  buf: the bytes of read_buf, first to last,
                     \*  torn: the reader has lost the beginning of a frame,
                     \*  written, got: bytes written, bytes handed out]

Empty(b) == b.first > b.last

InitAs(secure) ==
    s = [secure |-> secure, wn |-> 0, rn |-> 0, wire |-> <<>>, torn |-> FALSE,
         buf |-> [first |-> 1, last |-> 0], written |-> 0, got |-> <<>>]

Init == \E secure \in BOOLEAN : InitAs(secure)

\* A write of k bytes in the clear, or a frame of them.
Write(k) ==
    /\ s.secure => k <= Limit
    /\ s' = [s EXCEPT !.wire = Append(@, [n |-> s.wn, first |-> s.written + 1, last |-> s.written + k]),
                      !.wn = @ + 1, !.written = @ + k]

\* Mutant of Opens: the reader goes on behind a frame it has lost the beginning of.
OpensBehind == s.wire # <<>> /\ (s.secure => Head(s.wire).n = s.rn)

\* The next frame is there and opens under the nonce the reader has counted to.
Opens == s.wire # <<>> /\ ~s.torn /\ (s.secure => Head(s.wire).n = s.rn)

\* Mutant of Hand: what a reader leaves of a frame is thrown away.
HandAll(b, max) ==
    LET n == IF max < b.last - b.first + 1 THEN max ELSE b.last - b.first + 1
    IN s' = [s EXCEPT !.buf = [first |-> b.last + 1, last |-> b.last],
                      !.wire = IF Empty(s.buf) THEN Tail(@) ELSE @,
                      !.rn = IF Empty(s.buf) THEN @ + 1 ELSE @,
                      !.got = @ \o [i \in 1..n |-> b.first + i - 1]]

\* Hands out bytes of b, at most `max`, and keeps the others.
Hand(b, max) ==
    LET n == IF max < b.last - b.first + 1 THEN max ELSE b.last - b.first + 1
    IN s' = [s EXCEPT !.buf = [first |-> b.first + n, last |-> b.last],
                      !.wire = IF Empty(s.buf) THEN Tail(@) ELSE @,
                      !.rn = IF Empty(s.buf) THEN @ + 1 ELSE @,
                      !.got = @ \o [i \in 1..n |-> b.first + i - 1]]

Read(max) ==
    \/ ~Empty(s.buf) /\ Hand(s.buf, max)
    \/ /\ Empty(s.buf) /\ Opens
       /\ Hand([first |-> Head(s.wire).first, last |-> Head(s.wire).last], max)

\* A timeout inside the next frame.
Tear ==
    /\ s.secure /\ Empty(s.buf) /\ s.wire # <<>> /\ ~s.torn
    /\ s' = [s EXCEPT !.torn = TRUE]

Next == (\E k \in Nat \ {0} : Write(k) \/ Read(k)) \/ Tear

Spec == Init /\ [][Next]_s
--------------------------------------------------------------------------------
\* Frames carry a stream of bytes: whatever the sizes of the writes, the frames and
\* the reads, the reader gets the bytes written, each once and in order.
Stream == INSTANCE ByteStream WITH written <- s.written, got <- s.got

StreamSpec == Stream!Spec
================================================================================
