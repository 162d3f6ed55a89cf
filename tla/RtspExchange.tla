------------------------------ MODULE RtspExchange ------------------------------
(***************************************************************************)
(* Requests and answers as text on a connection, in both places the        *)
(* repository serves them: the receiver's control connection, asked by the *)
(* sender's client ("control"), and the sender's event connection, asked   *)
(* by a receiver ("event").  Up carries the requests, Down the answers,    *)
(* each in the clear or in frames.                                         *)
(*                                                                         *)
(* A request is a sequence of tokens: Q a method and a path, V the         *)
(* version, L and C the names of Content-Length and CSeq, digits that      *)
(* stand for the length in unary (0 for none), r and n the ends of a line, *)
(* and b any other byte.  The servers read it byte by byte, so that a      *)
(* failed read may come between any two tokens.  An answer is the number   *)
(* of its bytes: of a header, which tells the length of the body in its    *)
(* last line and ends with a mark of four bytes, and of a body that holds  *)
(* neither.  Sizes of headers are not limited.                             *)
(***************************************************************************)
EXTENDS Integers, SequencesExt

CONSTANTS Limit,          \* bytes of a frame
          Bodies,         \* bodies of requests
          BodyLimit,      \* bytes of a body a server takes, 8 MiB and 1 MiB in the code
          AnswerBodies,   \* sizes of the bodies of answers
          AnswerHeader,   \* and of their headers
          LengthAt,       \* bytes of a header before the line end in front of Content-Length
          MaxText         \* bound: bytes of the requests

Tokens == {"Q", "V", "C", "L", ":", "0", "1", "r", "n", "b"}

ASSUME LimitsArePositive == Limit \in Nat \ {0} /\ BodyLimit \in Nat \ {0}
ASSUME BodiesAreTokens == Bodies \subseteq Seq(Tokens)
ASSUME AnswersAreSizes == AnswerBodies \subseteq Nat /\ AnswerHeader \in Nat \ {0}
ASSUME LengthIsTold == LengthAt \in Nat /\ LengthAt + 4 <= AnswerHeader

VARIABLES kind, secure,
          up, down,       \* the two directions
          msgs,           \* its requests: [begin: bytes of text before it, body]
          text,           \* the requests as text
          waiting,        \* the client waits for an answer
          at,             \* bytes of the connection before the response it reads
          lost,           \* its last call was given up
          phase,          \* of the server: request, headers, body, answer, ended
          line,           \* bytes of the line it reads
          req,            \* what it knows of the request
          due,            \* writes of the answer it has not made
          served,         \* the requests it has answered
          answers,        \* and their answers: [begin: bytes written before it, body: its size]
          gone,           \* the peer has closed the event connection
          damaged         \* a request was cut by a failed read or by BodyLimit

server == <<phase, line, req, due, served, answers, gone, damaged>>
client == <<msgs, text, waiting, at, lost>>
vars == <<kind, secure, up, down, client, server>>

Up == INSTANCE HapStream WITH s <- up
Down == INSTANCE HapStream WITH s <- down
--------------------------------------------------------------------------------
(* The client                                                              *)

Digits(n) == IF n = 0 THEN <<"0">> ELSE [i \in 1..n |-> "1"]

Headers(body) ==
    <<"Q", "V", "r", "n", "C", ":", "1", "r", "n", "L", ":">> \o Digits(Len(body)) \o <<"r", "n", "r", "n">>

Lesser(a, b) == IF a <= b THEN a ELSE b

\* How much of n bytes the next write takes.
Piece(n) == IF secure THEN Lesser(Limit, n) ELSE n

\* request_once, up to the answer.
Ask(body) ==
    /\ ~waiting /\ up.written = Len(text) /\ Len(text) + Len(Headers(body) \o body) <= MaxText
    /\ msgs' = Append(msgs, [begin |-> Len(text), body |-> body])
    /\ text' = text \o Headers(body) \o body
    /\ waiting' = TRUE
    /\ UNCHANGED <<kind, secure, up, down, at, lost, server>>

SendRequest ==
    /\ up.written < Len(text)
    /\ Up!Write(Piece(Len(text) - up.written))
    /\ UNCHANGED <<kind, secure, down, client, server>>

\* Where the header of the i-th answer ends.
HeaderEnd(i) == answers[i].begin + AnswerHeader

\* The answers with a mark the client can find in what it reads, from `at` on; the
\* first of them gives the response its header.
Ahead == {i \in DOMAIN answers : at + 4 <= HeaderEnd(i)}
Heading == CHOOSE i \in Ahead : \A j \in Ahead : i <= j

\* Mutant of BodyOf: the length is not found.
BodyOfNone(i) == 0

\* parse_http_header takes the first line for the status: a client that begins inside
\* of a header finds the length only in a line that is whole.
BodyOf(i) == IF at <= answers[i].begin + LengthAt THEN answers[i].body ELSE 0

ResponseEnd == HeaderEnd(Heading) + BodyOf(Heading)

HeaderRead(n) == Ahead # {} /\ n >= HeaderEnd(Heading)

\* The call ends: what it has read and not returned is dropped with its buffer.
Return == at' = Len(down'.got) /\ waiting' = FALSE

\* A frame is taken whole, and what is left of it behind the response dropped; in the
\* clear the header is read byte by byte, and of the body no more than its length.
ReadAnswer ==
    /\ waiting /\ up.written = Len(text)
    /\ LET n == Len(down.got)
       IN IF secure THEN Down!Read(Limit)
          ELSE IF ~HeaderRead(n) THEN Down!Read(1)
          ELSE \E k \in 1..(ResponseEnd - n) : Down!Read(k)
    /\ LET n == Len(down'.got)
       IN IF HeaderRead(n) /\ n >= ResponseEnd THEN Return /\ lost' = FALSE
          ELSE UNCHANGED <<at, lost, waiting>>
    /\ UNCHANGED <<kind, secure, up, msgs, text, server>>

\* The timeout of 30 s, anywhere in an answer and in a frame, or another error of the
\* read, with which the call returns nothing; the caller goes on.
GiveUp ==
    /\ waiting /\ up.written = Len(text)
    /\ Down!Tear \/ UNCHANGED down
    /\ Return /\ lost' = TRUE
    /\ UNCHANGED <<kind, secure, up, msgs, text, server>>
--------------------------------------------------------------------------------
(* The server                                                              *)

Fresh == [at |-> 0, len |-> 0, body |-> <<>>]

End ==
    /\ phase' = "ended"
    /\ UNCHANGED <<line, req, due, served, answers>>

\* The answer: the receiver writes header and body apart, the sender writes once.
Serve(r) ==
    /\ served' = Append(served, r)
    /\ \E n \in IF kind = "control" THEN AnswerBodies ELSE {0} :
          /\ answers' = Append(answers, [begin |-> down.written, body |-> n])
          /\ due' = IF n > 0 THEN <<AnswerHeader, n>> ELSE <<AnswerHeader>>
    /\ phase' = "answer" /\ line' = <<>> /\ req' = Fresh

\* Three words, the last of them the version: bytes left of an earlier body are
\* read as the beginning of the method.
IsRequest(l) ==
    /\ Len(l) >= 2 /\ l[Len(l) - 1] = "Q" /\ l[Len(l)] = "V"
    /\ \A i \in 1..(Len(l) - 2) : l[i] \in {"b", "1", "0"}

HasColon(l) == \E i \in DOMAIN l : l[i] = ":"
Colon(l) == CHOOSE i \in DOMAIN l : l[i] = ":" /\ \A j \in 1..(i - 1) : l[j] # ":"
Name(l) == SubSeq(l, 1, Colon(l) - 1)
Value(l) == SubSeq(l, Colon(l) + 1, Len(l))
IsNumber(v) == v \in Seq({"0", "1"}) /\ v # <<>>
Number(v) == IF v = <<"0">> THEN 0 ELSE Len(v)

\* A line of the headers: the receiver skips one without a colon, the sender does
\* not, nor does it take a body longer than its limit.
HeaderTaken(l) ==
    \/ ~HasColon(l) /\ kind = "control"
    \/ /\ HasColon(l)
       /\ Name(l) = <<"L">> => /\ IsNumber(Value(l))
                               /\ kind = "event" => Number(Value(l)) <= BodyLimit

\* Behind the headers: the sender wants a CSeq, the receiver cuts the body it reads.
Body(cut) ==
    IF kind = "event" /\ req.at = 0 THEN End /\ damaged' = damaged
    ELSE /\ damaged' = (cut \/ (kind = "control" /\ req.len > BodyLimit))
         /\ IF req.len = 0 THEN Serve(req)
            ELSE /\ phase' = "body" /\ line' = <<>>
                 /\ req' = [req EXCEPT !.len = Lesser(@, BodyLimit)]
                 /\ UNCHANGED <<due, served, answers>>

\* The byte read in this step.
ByteRead == Last(up'.got)

\* The line l; `cut` is whether a request has been cut so far.
TakeLine(l, cut) ==
    IF phase = "request"
    THEN IF IsRequest(l)
         THEN /\ phase' = "headers" /\ line' = <<>> /\ damaged' = cut
              /\ UNCHANGED <<req, due, served, answers>>
         ELSE End /\ damaged' = cut
    ELSE IF l = <<>> THEN Body(cut)
    ELSE IF HeaderTaken(l)
    THEN /\ line' = <<>> /\ damaged' = cut
         /\ req' = [req EXCEPT !.len = IF HasColon(l) /\ Name(l) = <<"L">> THEN Number(Value(l)) ELSE @,
                               !.at = IF HasColon(l) /\ Name(l) = <<"C">> THEN ByteRead ELSE @]
         /\ UNCHANGED <<phase, due, served, answers>>
    ELSE End /\ damaged' = cut

\* The receiver's lines end with a line feed, the sender's with both.
EndsLine(l) ==
    /\ Last(l) = "n"
    /\ kind = "event" => Len(l) > 1 /\ l[Len(l) - 1] = "r"

\* The line without its end.
Trim(l) ==
    CHOOSE t \in {SubSeq(l, 1, n) : n \in 0..Len(l)} :
        /\ t # <<>> => t[Len(t)] \notin {"r", "n"}
        /\ \A i \in (Len(t) + 1)..Len(l) : l[i] \in {"r", "n"}

ReadByte ==
    /\ phase \in {"request", "headers"} /\ ~gone
    /\ Up!Read(1)
    /\ LET l == Append(line, text[ByteRead])
       IN IF EndsLine(l) THEN TakeLine(Trim(l), damaged)
          ELSE line' = l /\ UNCHANGED <<phase, req, due, served, answers, damaged>>
    /\ UNCHANGED <<kind, secure, down, client, gone>>

\* Mutant of BodyRead: one byte of the body is left.
BodyReadShort(body) == Len(body) + 1 >= req.len

BodyRead(body) == Len(body) = req.len

ReadBody ==
    /\ phase = "body" /\ ~gone
    /\ Up!Read(req.len - Len(req.body))
    /\ LET body == req.body \o SubSeq(up'.got, Len(up.got) + 1, Len(up'.got))
       IN IF BodyRead(body) THEN Serve([req EXCEPT !.body = body])
          ELSE req' = [req EXCEPT !.body = body] /\ UNCHANGED <<phase, line, due, served, answers>>
    /\ UNCHANGED <<kind, secure, down, client, gone, damaged>>

\* A read fails: a timeout, in a frame or outside of one, or the end of the
\* connection.  read_line of the receiver takes what it has of the line for the line;
\* everything else ends the connection.
ReadFails ==
    /\ phase \in {"request", "headers", "body"}
    /\ Up!Tear \/ UNCHANGED up
    /\ IF kind = "control" /\ phase # "body" /\ line # <<>>
       THEN TakeLine(Trim(line), TRUE)
       ELSE End /\ UNCHANGED damaged
    /\ UNCHANGED <<kind, secure, down, client, gone>>

\* The end of the stream inside a body: the sender in the clear answers as if the body
\* were whole.
BodyEnds ==
    /\ kind = "event" /\ ~secure /\ phase = "body" /\ ~gone
    /\ gone' = TRUE
    /\ Serve(req)
    /\ UNCHANGED <<kind, secure, up, down, client, damaged>>

\* Mutant of AnswerLeft: the body of an answer is not written.
AnswerLeftNone(n) == IF n < Head(due) THEN <<Head(due) - n>> ELSE <<>>

\* What is to be written behind n bytes.
AnswerLeft(n) == (IF n < Head(due) THEN <<Head(due) - n>> ELSE <<>>) \o Tail(due)

SendAnswer ==
    /\ phase = "answer"
    /\ LET n == Piece(Head(due))
       IN /\ Down!Write(n)
          /\ due' = AnswerLeft(n)
          /\ phase' = IF due' = <<>> THEN "request" ELSE "answer"
    /\ UNCHANGED <<kind, secure, up, client, line, req, served, answers, gone, damaged>>
--------------------------------------------------------------------------------
Init ==
    /\ kind \in {"control", "event"} /\ secure \in BOOLEAN
    /\ Up!InitAs(secure) /\ Down!InitAs(secure)
    /\ msgs = <<>> /\ text = <<>> /\ waiting = FALSE /\ at = 0 /\ lost = FALSE
    /\ phase = "request" /\ line = <<>> /\ req = Fresh /\ due = <<>>
    /\ served = <<>> /\ answers = <<>> /\ gone = FALSE /\ damaged = FALSE

Client == (\E body \in Bodies : Ask(body)) \/ SendRequest \/ ReadAnswer
Server == ReadByte \/ ReadBody \/ SendAnswer

Next == Client \/ Server \/ GiveUp \/ ReadFails \/ BodyEnds

\* Each end is a thread that goes on with what it has.  A read that can give nothing
\* more fails in the end, on either side: by its timeout, or with a frame that does not
\* open.
Spec ==
    /\ Init /\ [][Next]_vars
    /\ WF_vars(SendRequest \/ ReadAnswer \/ (down.torn /\ GiveUp))
    /\ WF_vars(Server \/ ((up.torn \/ gone) /\ ReadFails))
--------------------------------------------------------------------------------
(* Properties                                                              *)

\* The i-th request as it was sent: its CSeq, known by the byte that ends the header,
\* its length, and the bytes of its body.
Sent(i) ==
    LET m == msgs[i]
    IN [at |-> m.begin + 9, len |-> Len(m.body),
        body |-> [j \in DOMAIN m.body |-> m.begin + Len(Headers(m.body)) + j]]

\* However the text is cut into frames and writes, and whatever the bodies hold, the
\* server serves the requests that were sent, in their order, whole; but for what
\* follows a line of the receiver cut by a failed read or a body over its limit, and
\* but for the body of the last command before the sender's event connection ends.
ServedAsSent ==
    ~damaged =>
        \A i \in DOMAIN served :
            /\ i <= Len(msgs)
            /\ \/ served[i] = Sent(i)
               \/ gone /\ i = Len(served) /\ IsPrefix(served[i].body, Sent(i).body)

\* A reader that has lost the beginning of a frame never reads on behind it: nothing
\* it had not begun is served.
TornServesNothing == [][up.torn => up'.got = up.got /\ served' = served]_vars

\* Where the i-th answer ends, and a place inside of it.
Place(i) == IF i = 0 THEN 0 ELSE HeaderEnd(i) + answers[i].body
Inside(n, i) == Place(i - 1) < n /\ n < Place(i)

\* A call that begins with an answer returns that answer, however it is cut and
\* whenever it comes, and no byte behind it is dropped with the rest of a frame; so the
\* answers are taken in their order until a call is given up inside of one.  Behind it
\* a call returns no later than with the next answer, and two of them are in step
\* again: only directly behind a call given up does a response end with a header and
\* leave its body to the next.
AnswersInOrder ==
    [][waiting /\ ~waiting' /\ ~lost' =>
          \E i \in DOMAIN answers :
             \/ at = Place(i - 1) /\ at' = Place(i)
             \/ /\ Inside(at, i)
                /\ \/ at' = Place(i)
                   \/ i < Len(answers) /\ at' = Place(i + 1)
                   \/ lost /\ at' = HeaderEnd(i)]_vars

\* The text arrives as a stream of bytes.
UpIsAStream == Up!StreamSpec

\* A client that waits gets an answer, or the connection ends.
Answered == waiting ~> (~waiting \/ phase = "ended")
================================================================================
