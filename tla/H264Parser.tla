------------------------------ MODULE H264Parser ------------------------------
(***************************************************************************)
(* H264Parser: cuts the byte stream of an encoder into NAL units, pushed   *)
(* in chunks of any size, and gives out the last one at a flush.  The      *)
(* stream is Annex B (start codes) or AVCC (lengths of four bytes); the    *)
(* parser tells them apart by finding a start code.                        *)
(*                                                                         *)
(* Chunks cut the stream anywhere, as reads of a pipe do; flush comes      *)
(* between access units, as in push_and_send.  The cap of 1 MiB is left    *)
(* out: push_annex_b never runs on a buffer without a start code.          *)
(***************************************************************************)
EXTENDS Integers, SequencesExt

CONSTANTS AnnexBUnits,  \* NAL units of an encoder, with their start codes
          AvccUnits,    \* and NAL units with their lengths
          MaxUnits      \* bound: units of a stream

VARIABLES source,   \* the units the encoder makes
          pushed,   \* bytes of them pushed
          flushed,  \* pushed at the last flush
          buf,
          out       \* units given out

parserVars == <<source, pushed, flushed, buf, out>>
--------------------------------------------------------------------------------
Bytes == FlattenSeq(source)

Lowest(S) == CHOOSE i \in S : \A j \in S : i <= j

\* find_start_code: where a code of three or four bytes begins, from `from` on.  A
\* code of three bytes at the very end is not seen before its next byte.
StartCodes(b, from) ==
    {i \in from..(Len(b) - 3) : /\ b[i] = 0 /\ b[i + 1] = 0
                                /\ b[i + 2] = 1 \/ (b[i + 2] = 0 /\ b[i + 3] = 1)}

From(b, i) == SubSeq(b, i, Len(b))

\* Mutant of CodesBehind: the search goes on behind the first byte.
CodesBehindByte(b) == StartCodes(b, Lowest(StartCodes(b, 1)) + 1)

\* The start codes behind the first one.
CodesBehind(b) == StartCodes(b, Lowest(StartCodes(b, 1)) + 3)

\* A turn of the loop of push_annex_b: q.nals were taken out, q.rest is in buf.
TakeCoded(q) ==
    LET start == Lowest(StartCodes(q.rest, 1))
        next == Lowest(CodesBehind(q.rest))
    IN IF StartCodes(q.rest, 1) = {} THEN q
       ELSE IF CodesBehind(q.rest) = {} THEN [nals |-> q.nals, rest |-> From(q.rest, start)]
       ELSE [nals |-> Append(q.nals, SubSeq(q.rest, start, next - 1)), rest |-> From(q.rest, next)]

MaxNal == 16 * 1024 * 1024

NalLen(b) == ((b[1] * 256 + b[2]) * 256 + b[3]) * 256 + b[4]

\* What push_avcc gives for a unit: a start code in place of its length.
Recoded(u) == <<0, 0, 0, 1>> \o From(u, 5)

\* A turn of the loop of push_avcc.
TakeSized(q) ==
    LET size == 4 + NalLen(q.rest)
    IN IF Len(q.rest) < 4 THEN q
       ELSE IF size = 4 \/ size > 4 + MaxNal THEN [nals |-> q.nals, rest |-> <<>>]
       ELSE IF Len(q.rest) < size THEN q
       ELSE [nals |-> Append(q.nals, Recoded(SubSeq(q.rest, 1, size))),
             rest |-> From(q.rest, size + 1)]

\* Either loop: a turn that takes nothing out ends it, one that does takes bytes.
Taken(annexB, b) ==
    LET turn[n \in 0..Len(b)] ==
            IF n = 0 THEN [nals |-> <<>>, rest |-> b]
            ELSE IF annexB THEN TakeCoded(turn[n - 1]) ELSE TakeSized(turn[n - 1])
    IN turn[Len(b)]

\* Mutant of Parse: lengths are not looked for.
ParseAnnexB(b) == Taken(TRUE, b)

\* push: units with lengths are what a buffer without a start code holds.
Parse(b) == Taken(StartCodes(b, 1) # {}, b)
--------------------------------------------------------------------------------
ParserInit ==
    /\ source \in SeqOf(AnnexBUnits, MaxUnits) \cup SeqOf(AvccUnits, MaxUnits)
    /\ pushed = 0 /\ flushed = 0 /\ buf = <<>> /\ out = <<>>

Push ==
    /\ \E n \in 1..(Len(Bytes) - pushed) :
          /\ pushed' = pushed + n
          /\ LET p == Parse(buf \o SubSeq(Bytes, pushed + 1, pushed + n))
             IN buf' = p.rest /\ out' = out \o p.nals
    /\ UNCHANGED <<source, flushed>>

\* Bytes of the first k units.
Whole(k) == Len(FlattenSeq(SubSeq(source, 1, k)))

Sentinel == <<0, 0, 1, 0>>

Flush ==
    /\ \E k \in DOMAIN source : pushed = Whole(k)
    /\ flushed # pushed /\ flushed' = pushed
    /\ IF buf = <<>> THEN UNCHANGED <<buf, out>>
       ELSE LET p == Taken(TRUE, buf \o Sentinel)
            IN /\ buf' = IF p.rest = Sentinel THEN <<>> ELSE p.rest
               /\ out' = out \o p.nals
    /\ UNCHANGED <<source, pushed>>

ParserNext == Push \/ Flush

ParserSpec == ParserInit /\ [][ParserNext]_parserVars
--------------------------------------------------------------------------------
(* What encoders make: no unit has a code inside, as emulation prevention sees to, *)
(* nor ends in zero; units with lengths have none in a length or across two either. *)

Coded(u) ==
    /\ u \in Seq(Nat) /\ Len(u) >= 4 /\ 1 \in StartCodes(u, 1)
    /\ \A i \in 3..(Len(u) - 2) : ~(u[i] = 0 /\ u[i + 1] = 0 /\ u[i + 2] = 1)
    /\ u[Len(u)] # 0

Sized(u) == u \in Seq(Nat) /\ Len(u) > 4 /\ Len(u) = 4 + NalLen(u) /\ NalLen(u) <= MaxNal

WellMade ==
    /\ \A u \in AnnexBUnits : Coded(u)
    /\ \A u, v \in AvccUnits : Sized(u) /\ StartCodes(u \o v, 1) = {}
--------------------------------------------------------------------------------
(* Properties                                                              *)

IsAnnexB == \A k \in DOMAIN source : source[k] \in AnnexBUnits

\* What the parser owes for a unit: itself, or its bytes behind a start code.
Owed ==
    [k \in DOMAIN source |-> IF IsAnnexB THEN source[k] ELSE Recoded(source[k])]

\* However the stream is cut and flushed, the parser gives the encoder's units,
\* whole and in order, and keeps every byte it has not given.
NalsInOrder ==
    /\ IsPrefix(out, Owed)
    /\ Whole(Len(out)) + Len(buf) = pushed

\* A unit is given as soon as the stream shows its end: the next unit's code and
\* a byte of it, or its own length; and a flush gives all there is.
NalsGivenInTime ==
    \A k \in DOMAIN source :
        (pushed >= Whole(k) + (IF IsAnnexB THEN 4 ELSE 0) \/ flushed >= Whole(k)) =>
            Len(out) >= k

\* "The sentinel is removed from the buffer afterwards": after a flush, before
\* the next push, the buffer is empty.
SentinelRemoved == pushed > 0 /\ flushed = pushed => buf = <<>>
================================================================================
