# Verification of doubletake-rs

doubletake-rs mirrors a Windows desktop to an AirPlay receiver (an Apple TV or
the software receiver the repository has for tests). This directory holds TLA+
specifications of it, the configurations TLC checks them under, and proofs that
TLAPS checks. Every definition is translated from the source; `PROJECT.json`
names, for each, the file and the lines it stands for.

    tlc -config ReceiverSession.cfg ReceiverSession.tla     a run
    tlapm ReceiverSession_proofs.tla                        the proofs of a module

Paths below are relative to `src/`; `AP` is `lumen-airplay/src`, `DESK` is
`lumen-capture/examples/mirror_desktop.rs`.

## 1. The system

One program, `DESK`, pairs with a receiver, sets a mirror session up and streams
until Ctrl+C or an error. It owns three kinds of thread: the main thread (control
requests, then the video loop), an audio thread with a capture thread behind it,
and helper threads for the event channel and the NTP timing socket. The receiver
has one thread per control connection, which owns all of that connection's state,
and five threads that drain the media sockets of a session.

| Component | Code | State it keeps | Operations | What makes it correct |
| --- | --- | --- | --- | --- |
| Receiver control connection | `AP/receiver/{mod,pairing,fairplay}.rs` | pending pair-setup and pair-verify, registered controllers (transient and permanent), verified session, HAP ciphers, FairPlay phase, media endpoints | `dispatch` and a handler per request | a session is registered and encrypted; PIN and FairPlay cannot be walked around by any order of requests |
| Sender control connection | `AP/{client,pairing,transport}.rs` | CSeq, HAP keys and counters, the exchange in progress | `request_once`, `pair_with_pin`, `pair_verify`, `fairplay_setup`, reconnect | both ends change to the same keys on a quiet connection; an answer belongs to its request; a failure ends cleanly |
| Desktop sender program | `DESK` | the stage of the run; the credentials in hand | `main`, `run` | saved credentials are ones the receiver has; the run settles |
| Desktop streaming loop | `DESK`, `AP/mirror.rs` | parser, access unit under construction, parameter sets, frame timer, idle flush, heartbeat, nonce, last timestamp | capture, encode, `process_nals`, `flush_vcl`, `flush_idle`, heartbeat, feedback | what was encoded is sent whole, in order, under fresh nonces and increasing times; a lost connection is noticed |
| Video stream cipher | `AP/mirror_cipher.rs` | AES-CTR position, cached keystream | `encrypt_frame` | no keystream byte is used twice and the receiver can follow the position |
| Audio session | `DESK` `run_audio`, `lumen-audio/src/{wasapi,audio}.rs` | engine packets, remainder of a frame, channel, backlog ring, RTP sequence and time, sync timer | capture loop, `recv_frame`, `run_audio`, `Drop` | gapless from the first fresh frame; a lost burst is repaired; the threads end |
| Mirror session set-up | `AP/mirror.rs` | order of SETUP/RECORD, ports, channels, choice of cipher | `setup_mirror_session`, `connect_event_channel`, `teardown` | every connection the receiver offered is made once, and RECORD comes after what it starts |
| Media clock and timing | `AP/{mirror,latency}.rs` | anchor of the clock, NTP socket | `ntp_time`, feedback, the NTP responder | time sent never goes back |
| UDP port allocation | `AP/mirror.rs` | the range, the sockets bound so far | `allocate_consecutive_udp_ports` | the ports are consecutive and the search ends |
| Receiver media endpoints | `AP/receiver/media.rs` | sockets, five drain threads, stop flag, dump file | open, drain, `Drop` | dropping the endpoints ends the threads and frees the ports |
| Receiver server and discovery | `AP/receiver/mod.rs` | listener, mDNS records | accept, announce | — |
| Event channel | `AP/event_channel.rs` | HAP ciphers, line buffer | read and acknowledge commands | every command is read as it was sent and answered, or the connection ends |
| HTTP/RTSP exchange over HAP frames | `AP/{transport,client,event_channel}.rs`, `AP/receiver/{mod,pairing}.rs` | counters and read buffer of each direction, the line, request or answer being read | write, read, `request_once`, `read_request`, `read_line` | the reader gets the bytes written, each once and in order, and requests and answers are cut where they end |
| H.264 parser | `AP/h264.rs` | bytes of an unfinished NAL | `push`, `flush` | the NALs do not depend on how the bytes are cut |
| Credential store | `AP/credentials.rs` | a map and its file | `load`, `save`, `persist` | a pairing that was saved is found after a restart |
| TLV8 | `AP/tlv8.rs` | none | encode, decode | decode inverts encode, fragments included |
| Property lists | `AP/{plist_types,info,uuid}.rs` | none | format, parse | — |
| Cryptography | `AP/{fairplay,fairplay_sap,fairplay_md5,fairplay_message,fpsap,fp_tables_generated,digest}.rs` | none beyond counters | ciphers, hashes, tables | — |
| Sound conversion | `lumen-audio/src/wasapi.rs` | mix format, phase and last frame of the resampler | read samples, resample | the resampler runs on from packet to packet |
| Desktop capture | `lumen-capture/src/dxgi.rs` | whether a frame is out, reused surfaces | acquire, read back, release | every frame is released before the next, whatever fails |
| Mouse cursor overlay | `lumen-capture/src/cursor.rs` | shape, position, visibility | `update`, `draw` | the cursor in a frame is the one of its time |
| NVENC encoder | `lumen-encode/src/nvenc.rs` | driver session, registered surface | encode a surface, `Drop` | no surface stays registered |
| Other encoders | `lumen-encode` | driver sessions | foreign API calls | — |
| Probes, benchmarks, other example programs | `*/examples` | — | — | — |

**How they interact.** The sender and the receiver share one TCP control
connection that carries plaintext until pair-verify and HAP frames after it; a
video TCP connection; UDP sockets for audio and timing; and an event connection
the sender opens and the receiver writes to. In the sender the video loop calls
feedback on the control connection, and feedback moves the clock that timestamps
video and audio. The audio thread gets frames from the capture thread over an
unbounded channel, and a flag from the video loop that the first video frame is
out. In the receiver, the control thread makes the media endpoints and drops them.

**What is hard about it.** Responses are matched to requests by position alone,
and a read may time out between or inside them; the two ends change framing at
different moments; pair-setup, pair-verify and the session reset one another in
`handlers` that clients may call in any order; parser, streamer, timers and a
desktop that may go static decide together whether a frame is ever sent; writes
fail after counters moved; the audio threads meet over a channel, an event and two
flags; counters of 16 and 32 bits wrap. `PROJECT.json` lists these as hazards,
each at its line, with the properties that would catch it.

## 2. Modules

| Module | Models | Uses |
| --- | --- | --- |
| `SessionGate` | what a control connection promises: who is known, who owns the session, that it is secure, whether media are open | |
| `ReceiverSession` | the handlers of one control connection of the receiver | implements `SessionGate` |
| `ReceiverSession_proofs` | 8 theorems | |
| `ControlChannel` | the sender's run against one receiver, over a connection that delays and breaks | `R == INSTANCE ReceiverSession` |
| `ControlChannel_proofs` | 7 theorems | `RP == INSTANCE ReceiverSession_proofs` |
| `ByteStream` | what a connection promises its reader: the bytes written, each once and in order | |
| `HapStream` | one direction of a connection, in the clear or in HAP frames | implements `ByteStream` |
| `HapStream_proofs` | 2 theorems | |
| `RtspExchange` | requests and answers as text, on the control and on the event connection | `Up`, `Down == INSTANCE HapStream` |
| `RtspExchange_proofs` | 5 theorems | `P`, `D == INSTANCE HapStream_proofs` |
| `MCRtspExchange` | bodies for it | extends `RtspExchange` |
| `VideoStreamer` | capture, pacing, encoding, parsing, access units, video frames, timers | |
| `VideoStreamer_proofs` | 5 theorems | |
| `CtrStream` | a keystream handed out once, in order | |
| `MirrorCipher` | `encrypt_frame` | implements `CtrStream` |
| `AudioSession` | capture thread, channel, `run_audio`, shutdown | |
| `AudioSession_proofs` | 5 theorems | |
| `SoundConversion` | the format the capture thread gets, its reading of samples, the resampler | comes before the frames of `AudioSession` |
| `MCSoundConversion` | mix formats for it | extends `SoundConversion` |
| `MirrorSession` | set-up of a session, its connections, the receiver's drain threads, the end of both | |
| `UdpPorts` | `allocate_consecutive_udp_ports` | the first step of `MirrorSession`, `FindPorts`, stands for it |
| `H264Parser` | the incremental parser, byte by byte | what `VideoStreamer` takes from it by whole NALs |
| `MCH264Parser` | a stream with a zero behind a unit | extends `H264Parser` |
| `Mirroring_proofs` | 6 theorems, four about the session and two about the parser | extends `MirrorSession` and `H264Parser` |
| `CredentialStore` | the file of pairings, programs that load and rewrite it, crashes | what `ControlChannel` finds saved |
| `DesktopCapture` | frames acquired, encoded in place or read back with the cursor drawn in, released | `VideoStreamer` has the loop around it |
| `MCSenderParts` | six parts of the sender that share no state, in one run | `UdpPorts`, `MirrorCipher`, `CredentialStore`, `H264Parser`, `DesktopCapture`, `SoundConversion` |
| `SenderParts_proofs` | 9 theorems about all of them but the parser | extends those five |

### ReceiverSession
A step is one request, handled to its end: the thread of the connection handles
one at a time and nothing else touches its state. The variables are the fields of
the connection's pairing state (`setup`, `verify`, the registrations, the verified
session), of its FairPlay handler, the HAP ciphers and the media endpoints. Cryptography is symbolic: each exchange draws a number,
secrets are named by the draw, and a message opens only under the secret it was
sealed with. What a controller may send is every request with every identifier,
key and ephemeral, right or wrong proof, in any order, so the model speaks of any client,
not of this repository's. `Gates` of `dispatch` are guards of the actions;
a handler's error path is a disjunct that does the resets the code does before it answers.
`SessionGate` promises a verified session on an encrypted connection and media behind it; it says
nothing of FairPlay. That the media endpoints come after FairPlay is the theorem `MediaGuarded`.

### ControlChannel
The receiver's half is `ReceiverSession` itself, by INSTANCE: the composition
takes the receiver's actions and adds the connection. Responses travel in two
parts, header and body, because the sender reads them so and a timeout may fall
between. CSeq is written and never compared, as in the code. The sender's half
has a stage per request of `main`; each stage has an outcome for a right answer, an
error status, an answer of another request, a read timeout and a closed connection, taken
from the `?` and `match` of the source. A run begins with or without saved
credentials (`run.saved`; the receiver may or may not know them), with the right PIN
or a wrong one, and with an SRP public key that begins with a zero byte or not.
The receiver closes a connection for silence (`IdleClose`) only while
the sender waits for its user to type the PIN, the one wait of the program
longer than the receiver's 120 s. The media requests come in the legacy order (SETUP, SETUP, RECORD);
the modern one, with a control SETUP and RECORD first, is in `MirrorSession` only.

### ByteStream, HapStream
A direction of a connection is a record: both counters, the frames on the wire, the
reader's `read_buf`, and what was written and handed out so far. Bytes are numbered, so
that "each once and in order" can be said. A read hands out what is buffered, or
opens the next frame under the next nonce and keeps what the caller has no room for. A
timeout inside a frame (`Tear`) loses the part that `read_exact` had: from
then on nothing opens, because the reader takes the middle of a frame for its length.
In the clear the same record is used without nonces. `ByteStream` is what both promise.

### RtspExchange
A client asks, a server answers, over `Up` and `Down`, in either of the
two places the repository has both: the receiver's control connection (the sender's
`request_once` against `read_request`) and the sender's event connection (a receiver against
`serve_event_channel`), each in the clear or in frames (`kind`, `secure`). Text is a
sequence of tokens: the bytes that decide, `\r`, `\n`, the colon, digits and the names
of the two headers the code looks at; a length is in unary. Servers read a byte at
a time, as the code does, so that a failed read falls between any two tokens: the
receiver then takes what it has for the line, the sender ends the
connection. Both differ also in the end of a line, in lines without a
colon, in a missing CSeq and in what they do with a body over their limit; each is a guard of
the action that meets it. `GiveUp` is a call that times out, and whose caller drops the error and asks on:
before the answer, inside its header, its body or a frame (which is torn then), between the header and the
body. What the call had read goes with its buffer, so the next one begins where it stopped (`at`), perhaps in the
middle of an answer (`lost`: the last call was given up). It takes the first mark of a header it finds for
the end of its own, and knows the length of the body only if the line with it, the last of `write_response`'s
header, is whole. The limits on what a client takes (16 KiB of a header, `MAX_RESPONSE_BODY`) lie beyond any answer here.

### VideoStreamer
The loop of `DESK` in the order of its body: capture (a frame, none, or lost
access), pacing, encode, `push`, `process_nals`, then the timers. NAL
units are records of a kind (delimiter, parameter set, slice) and the frame they
belong to; bytes are left out, so the parser holds back *one* NAL, as it must until it sees the
next start code. A write has three outcomes: done, failed with nothing sent, failed after
part of the frame. Feedback puts the clock anywhere.

### MirrorCipher and CtrStream
Bytes of the keystream are numbered. `encrypt_frame` takes what is cached, whole
blocks from the cipher, and caches the rest of the last block; the model keeps
for each frame which keystream bytes lie under it. `CtrStream` says that a frame
gets bytes no earlier frame got, in order.

### AudioSession
Two threads, a channel and an engine. The engine's packets are not multiples of a
frame, so the model counts samples. Reading a packet (`GetBuffer`), each `tx.send` of a whole frame
(`PushFrame`) and `ReleaseBuffer` are steps of their own: the first video frame, the drain and `Drop` fall between
any two of them. RTP sequence and time wrap at small
numbers that stand for 2^16 and 2^32; the code's `wrapping_sub` tests are done
modulo them. Ctrl+C, device errors and failed sends come at any moment.

### MirrorSession
The sender goes through `setup_mirror_session` step by step: ports, SETUPs (the control
SETUP and RECORD first in the modern order, RECORD last in the legacy
one), event connections, data connection. An answer carries an event port or
not, skips RECORD or not; every request and connection may fail, and
a SETUP may fail after the receiver has acted on it. `conns` are the TCP connections, each in
a listener's queue, with its thread, or closed. A thread of `accept_drain_tcp` serves
one connection until its end; `drain_audio` looks at the stop flag, then waits in
a recv whose timeout is the one the socket had when it began.

### CredentialStore
A program loads the file once, holds its devices in memory, and writes them all when it
pairs or gets a token. A write empties the file first; a crash in between leaves it
torn, which `new` refuses. `kept` is a history variable: what the saves that have
ended should have left. `older` and `crossed` mark the write of a program that
had loaded before another's save.

### DesktopCapture
A turn of the loop is its calls: acquire, then either register, encode, unregister and
release (NVENC) or update the overlay, draw, release and encode. Any of them fails,
and what is held then is what the code still holds. `AcquireBare` is the frame without a surface, which
`acquire_with_info` takes for none, or with one that is no texture, which ends the program; neither is released, and
an acquire with a frame out only fails. The pointer changes between frames; a
frame tells whether position and shape have changed since the one before. A shape is the set of
pixels its alpha or masks let be seen; `Draw` clips them to the frame.

### SoundConversion
Positions count in parts of a source frame, so that the resampler's ratio and
phase are integers. `Process` is `process_stereo` of a packet: the frame kept of the last
packet before it, outputs while both neighbours are in the buffer, the phase
moved by the packet's length. `ReadSample` has the offsets of `read_sample` as they are.

### UdpPorts
One step is one bind, since other programs bind and release ports in between.
Ports are numbers below `Ports`, which stands for 2^16; a sum panics in a
build that checks overflow and wraps in one that does not.

### H264Parser
The parser is translated byte by byte: `find_start_code` with its bound, the sentinel of `flush`, and the
loops of `push_annex_b` and `push_avcc`: `TakeCoded` and `TakeSized` are a turn of each, which takes a unit
out or ends the loop, and `Taken` is a recursive function of the number of turns. The encoder's
units are constants; chunks cut their stream anywhere. `WellMade` says what encoders make: no unit
has a start code inside (emulation prevention) or ends in zero; lengths are right and hold no start
code. The last is a limit of the parser, not of encoders: units of one byte and of 256 to 511 have
lengths that read as a start code, and a stream with one is taken for Annex B.

### MCSenderParts
The port search, the cipher, the parser, the store, the capture and the sound conversion
know nothing of each other. One run checks them: a behaviour picks a part, which moves as its
own module says, while the others rest in a state of theirs without a step. So each
part is explored alone, not their product. All six are extended, so that their
properties here are the ones the theorems of `SenderParts_proofs` and `Mirroring_proofs` are about.

## 3. Runs

| Run | Asks | States |
| --- | --- | --- |
| `receiver_session` | can any sequence of requests of two controllers get a session that is unregistered, unencrypted, behind no PIN, or older than an exchange that should have ended it? Does the connection implement `SessionGate`? | 68,900 |
| `keys_on_final_exchange` | (violation) are keys handed out only on the final exchange, as the comment says? | |
| `control_channel` | do both ends agree on keys, framing, answers and credentials, and does the run settle, with two faults anywhere? | 57,888 |
| `server_proof` | (violation) is the receiver's proof accepted for the right PIN? | |
| `rtsp_exchange` | are requests and answers cut where they end, over writes, frames and reads of any size, with failures between any two bytes; does who waits get an answer? | 1,108,367 |
| `video_streamer` | does the receiver get the encoder's output whole, in order, fresh, and all of it? | 225,356 |
| `last_captured` | (violation) is the last captured frame sent when the desktop goes idle? | |
| `audio_session` | is the audio stream fresh, gapless, repaired after a lost burst, and does it end? | 435,510 |
| `interleaved_samples` | (violation) is the resampler given interleaved samples, as the comment says? | |
| `mirror_session` | is a session recorded once, in order; is every connection served; does a dropped session stop dumping? | 214,622 |
| `sender_parts` | ports, cipher, parser, credentials, capture and resampler, each alone: ten questions in the list below | 205,000 |
| `sentinel_removed` | (violation) is the buffer empty after a flush, as the comment says? | |

The properties, by what they would catch:

* **ReceiverSession.** `VerifiedIsEncrypted`: a session whose HAP keys are not the
  connection's. `VerifiedIsRegistered`: a session for an identifier and key nobody
  registered here. `SetupPredatesSession`: an
  exchange begun after a session leaves the old session alive beside it.
  `PinGuardsRegistration`: a transient registration where a PIN is set.
  `GateSpec`: refinement of `SessionGate`, where media open only behind a
  verified session on an encrypted connection.
* **ControlChannel.** `SameSecret`: after the switch both ends hold the same
  secret. `RequestsOpen`: the receiver can open each request in the mode it
  reads in. `SavedMeansRegistered`: what the sender saved, the receiver has.
  `AnswerIsCurrent`: no stage of pairing takes the answer of an earlier
  request for its own and goes on. `RunSettles`: the run ends or streams.
  `HealthyRunStreams`: with a right PIN and no zero byte the run
  streams, unless the network fails, the connection is closed or the receiver has no sockets (status 500).
* **RtspExchange.** `ServedAsSent`: a body's bytes read as a request, a length or a CSeq taken
  from another one, a request served twice or cut. It excepts what follows a
  line cut by a failed read or a body over the receiver's limit (`damaged`), and the
  last command of an event connection that is closed inside its body: there
  the code serves what it has, and the model shows it. `AnswersInOrder`: a call that begins
  with an answer and returns with less or more than that answer, or whose bytes are dropped with the rest of a
  frame; and a client that, behind a call given up inside an answer, does not get in step again: such a call
  returns at the end of that answer or of the next, or, only directly behind the one given up, at the end of a header
  whose length it lost. The code does get out of step there, since nothing compares CSeq; what the
  program makes of that is `ControlChannel`'s question. `TornServesNothing`: something is read behind a torn frame. `UpIsAStream`: refinement
  of `ByteStream`. `Answered`: a client waits for ever on a server that has
  stopped in the middle of a request.
* **VideoStreamer.** `WholeAccessUnits`: a unit cut across frames, one that is skipped, or one out of
  its order. `CodecLeadsKeyFrame`: a key frame behind the parameter sets of another. `SealedOnce`: a
  nonce used again after a failed write. `TimestampsIncrease`: a clock put back
  shows in the stream. `EncodedIsSent`: something held back for ever in the parser or
  the streamer. `LossIsNoticed`: the loop runs on over a dead connection.
* **AudioSession.** `StartsFresh`: a frame handed over before the first video frame is
  played. Of the sound heard by then, the beginning of a frame and the packet the capture thread has in its hands
  are played; the model shows it, and the property counts from what was handed over, which is what the drain can drop. `StreamIsGapless`: samples lost or shifted between engine and stream.
  `BurstLossRepaired`: a retransmission that differs from what it
  repeats, one so near to it that a burst of `Depth` packets takes both, or a frame that leaves the ring
  without its own. `SyncTracksNewest`: the announced time goes back with a
  retransmission or over a wrap. `LeavingEnds`: `Drop` joins a thread that sleeps.
* **MirrorSession.** `Recorded`: RECORD left out, doubled or out of its order.
  `ConnectionsServed`: the second event connection waits behind the first,
  which the sender never closes, or a frame is never read. `DumpStops`: a
  session that is gone goes on writing datagrams to the dump.
* **MirrorCipher**, in `sender_parts`. `PadsAreFresh`: a keystream byte used twice.
  `StreamSpec`: the receiver cannot follow the position.
* **UdpPorts**, in `sender_parts`. `PortsInARow`: a gap, or a port another program took in the
  meantime. `SearchEnds`: a search that tries the same port again and again.
* **H264Parser**, in `sender_parts`. `NalsInOrder`: a start code or a length cut by a chunk is missed or found
  twice, a byte lost or added. `NalsGivenInTime`: a unit is held back longer than it must be.
* **CredentialStore**, in `sender_parts`. `PairingsKept`: a pairing or a token that was saved is
  gone or an older one is back. It excepts the two ways the code has to
  lose one, a crash inside a write and a write by a program that had loaded
  before another's save: both are in the model, and it says there is no third.
* **DesktopCapture**, in `sender_parts`. `CursorIsCurrent`: the cursor is drawn where, or as, it
  was some frames ago, or outside its clip; but for a shape that could not be
  fetched, which is logged and never asked for again. `NothingHeld`: the loop asks for a
  frame with one still out or a surface still registered. It excepts the frame without a surface, which the code keeps
  (`dxgi.rs:168`) though `release_frame` is "required before the next acquire" (`dxgi.rs:175`); behind one, it says, no
  frame is taken or encoded. It is no finding, since whether the system ever gives one is not in this repository.
* **SoundConversion**, in `sender_parts`. `RunsOn`: the resampler loses or repeats a frame where two
  packets meet, or reads beyond its buffer. It is said from the second packet on:
  the model showed that the first one is followed by a jump of a frame, because the phase is
  not corrected for the missing tail.

The type invariants of `ReceiverSession`, `ControlChannel`, `VideoStreamer`, `MirrorSession`, `MirrorCipher`
and `UdpPorts` are theorems; `HapStream`, `CredentialStore`, `DesktopCapture` and `SoundConversion` have theirs as a
conjunct of the inductive invariant. That of `AudioSession` holds in its run's instance as well,
but no run asks for it: it documents the state, and the proofs about the module prove what they need of it.

### Bounds, and why they are enough
* `receiver_session`: two controllers, two keys, two ephemerals and three
  exchanges. A violation of its invariants needs at most a pair-setup, a session and one
  more exchange that should have reset one of them: three draws. Two identifiers
  with two keys each let one controller use another's identifier with its own
  key. Deadlock is checked.
* `control_channel`: `MaxFaults = 2` timeouts or disconnects, so that the retry
  after a fault can be hit by another; `MaxPolls = 1` feedback request of the streaming loop, which is enough
  to have one whose late answer is still in the stream at TEARDOWN. The program is
  finite otherwise.
* `video_streamer`: four changes of the desktop give a key frame, two other frames and one
  dropped or skipped one; two slices distinguish a cut inside a frame from one
  between frames; two faults distinguish the write that fails from the one that
  notices. `MaxClock = 1` lets the clock stand still, go forward and be put back.
* `rtsp_exchange`: 37 bytes of text, which is two requests, at most one of them with a body, so
  that what is left of one can be read as the other; bodies of none, at and over `BodyLimit = 2`, which hold a line
  feed; frames of three bytes are shorter than a header, so requests and answers are cut in the middle and one
  frame ends an answer's header and begins its body; answers with a body and without (the event
  connection's), with a header of seven bytes whose length a call misses that begins behind the second. That a third
  call is in step again needs three requests and is left to the theorem. The proofs hold for every frame size and any number of requests.
* Cipher: blocks of four in place of 16; frames of 1 to 10 bytes end in,
  at, before and one byte beyond a block, and are shorter than the cache; four frames give every cache
  length twice. The proofs hold for every block size and any number of frames.
* `audio_session`: frames of two samples and packets of three, so a remainder is left every
  other packet; `Depth = 2` so the slot retransmitted is neither the
  newest nor the only one; 12 chunks wrap a sequence of four and a time
  of 16 that starts at 14.

* `mirror_session`: one session has at most three connections; `Buffer = 1` makes a
  writer wait for the drain thread, `Backlog = 2` lets a second datagram wait
  behind the one a dropped session may still dump.
* Ports: eight ports and rows of three leave room for a search that fails at the first, second
  and third port and for one that wraps; three attempts for the code's twenty; three moves of
  other programs, one for each bind of a row. Ranges are valid, empty,
  half given, reversed, and reach the last port.
* Parser: streams of up to four units, with codes of three and four bytes,
  a payload of one byte, one that ends in what looks like a code; lengths of 2 to 4.
* Store: two programs and two receivers, three saves: one to lose, one that overwrites it and one that
  follows. The proof holds for any number of each.
* Capture: a desktop of three by two and pointers of up to two by two that lie inside, at
  a corner and over an edge; three frames and two changes of the pointer: changes before, between and behind frames.
* Sound: rates below, above and far above the one asked for (an output then skips a whole frame), one channel,
  two and six; packets of one to three frames, five of them, so a packet shorter than the ratio has neighbours.

Every bound is in a guard of an action, and is a CONSTANT of the module. The
runs with `CHECK_DEADLOCK FALSE` end: the program leaves or a bound is
reached.

### Fairness, and why the code justifies it
* `ControlChannel`: weak fairness of each end's next step. Each end is one thread
  that runs when it has something to do. Timeouts, disconnects, delays and the user's
  choices are never forced.
* `VideoStreamer`: weak fairness of the streamer's steps (plain sequential code);
  of `Capture` (it waits at most 20 ms); of `FlushIdle` and of the heartbeat when the
  connection is down (timers tested in every turn of the loop, writes have a 2 s
  timeout); of leaving the loop after an error. Nothing is assumed of the desktop, the encoder or the network.
* `AudioSession`: weak fairness of the two threads and of `Drop` once begun. Nothing is
  assumed of the engine or of the channel's other end, which is why `LeavingEnds`
  speaks only of a `Drop` that has begun.
* `MirrorSession`: weak fairness of the sender's set-up (sequential code whose
  every wait has a timeout or an answer), of the end of a program that is over and, after it, of
  the drop (the control connection closes, so `serve_control` returns), of
  each listener's thread, and of the event connection's 30 s read timeout: it is what
  `ConnectionsServed` hangs on. Nothing says that a session ever ends.
* `RtspExchange`: weak fairness of each end, one thread each: of the client's writes, reads and, behind a torn
  frame, the read that fails; of the server's steps and of its read that fails on a torn frame or a closed
  connection (a read has a timeout, a frame that does not open is an error). A `GiveUp` elsewhere, `Tear` and new
  requests are never forced.
* `UdpPorts`: weak fairness of the search, a loop of binds that return.
* `ReceiverSession`, `HapStream` and the other parts of `sender_parts`: safety only.

## 4. Proofs

The theorems hold for every value of the constants; TLC checked the same formulas
first.

* **`ReceiverSession_proofs`.** `Invariance` proves `Spec => []IInv`, where `IInv` is the type
  invariant, the six safety invariants and `DrawOrder`. The invariants support
  each other (that a session is registered needs that only one exchange is
  pending) and one thing more is needed: that draw numbers are handed out in order and a
  pending pair-verify is younger than a pending pair-setup. Without it
  `SetupPredatesSession` is not inductive: V3 turns the pending pair-verify into
  the session, and only its age says that the setup beside it is the older.
  `TypeCorrect`, `Encrypted`, `Registered`, `ExchangesAndSession`, `PinGuarded` and `MediaGuarded` follow
  from it. `ImplementsGate` proves the refinement: initial states map to initial states
  and every action maps to one of `SessionGate` or a stutter, under `IInv`.
* **`ControlChannel_proofs`.** `SecretShared`, `AllRequestsOpen`, `SavedAreRegistered` and
  `AnswersAreCurrent`, for any number of faults and polls. Nothing in the code compares an answer's CSeq with
  the request's, so the argument is about the stages: at every request whose failure ends or restarts the
  exchange (`Guarded`), at most that request or its answer is under way, whole but
  for the parts already read (`Sync`). The requests up to M1 are asked on after a
  timeout; there late answers pile up, but none of them is an M2, the one
  answer that M1 goes on with (`Loose`). `Modes` lists the three ways the two ends can stand: both in
  plaintext, the receiver in HAP with its answer to V3 on the way, both in HAP under one secret;
  `UpOK` says that a V3 that may verify is in flight alone, so the receiver changes its
  keys with nothing of the old mode behind. `Signing` and `Registered` tie the key the sender signs with to the
  controllers the receiver has, from which `SavedMeansRegistered` follows.
  `TInv` adds that the requests in flight are among those of `ReceiverSession` and the answers among
  its answers, also those that are cut; with the types of both ends it gives `TypeCorrect`. It needs
  `Drawn`: a V3 carries an ephemeral that the sender has drawn. So every step of
  the receiver here is one of `ReceiverSession` (`ImplementsReceiver`), and that module's six
  invariants hold of the composition (`ReceiverKeepsItsPromises`) with nothing proved again: the lemmas
  `SameTypes`, `SameRequests`, `SameInit` and `SameServe` say that `R` and `RP` define the same.
* **`VideoStreamer_proofs`.** `TypeCorrect`; `NoncesAreFresh` and
  `TimesIncrease` from `IInv`, which adds `Used`: every frame sealed so far used a
  nonce below the streamer's counter and a time not above its last one. The two
  properties compare frames with each other, and only their common bound by
  the state of the streamer is kept by a step. `UnitsAreWhole` and `KeyFramesAreLed` need to know
  where the pipeline stands: `PipeInv` says, until a write fails, that what lies in `todo` and `tail` is the rest of the
  newest unit the encoder gave (`InNewest`), or the last NAL of the one before, which the parser keeps back, and
  all of the newest (`KeptBack`); that the streamer holds just the slices and parameter sets already taken of
  that unit (`At`); and that every frame before is on the wire, sealed with its own number
  (`Complete`, `Sent`).
* **`AudioSession_proofs`.** `Invariant` proves `Spec => []AInv`; `FreshFromTheStart`, `Gapless` and
  `SyncsAreCurrent` follow. `Cut` says that channel and remainder are the sound heard last, cut without a gap;
  `Begun` says that `fresh` lies before what the capture thread still holds and, once the drain is over, before all
  that is left in the channel, and `Heard` that everything sent lies behind `fresh`; `Newest` ties sequence number, time and nonce to the newest new
  packet. The clock needs the ring: `Buffered` gives every frame kept its age, so a
  retransmission lies `Depth` frames behind, and as the window is shorter than half
  the RTP times, its time compares as older, also over a wrap (`MovesOn`, `StaysPut`).
  `BurstsAreRepaired` adds `Repairs`: packets with one frame are equal, those kept
  are on the wire, and every frame sent was sent again or is held. A held frame has fewer
  newer ones than its age and at least as many packets behind it as its age (`Held`),
  so when its turn comes it is more than `Depth` packets back.
* **`HapStream_proofs`.** `NoncesAgree`: the frame that comes next has the number its
  reader has counted to, for every frame size and every sequence of writes, reads and timeouts.
  `ImplementsByteStream`: the refinement. `IInv` adds to the types `Wire` (the frames under way
  have consecutive nonces from the reader's to the writer's, and adjoin) and `InOrder` (handed out,
  `read_buf` and wire are, end to end, the bytes written). What is handed out is in order only
  because what is buffered follows it, and that only because the wire follows the buffer.
* **`RtspExchange_proofs`.** `ImplementsUp` and `ImplementsDown`: the exchange uses both directions as `HapStream`
  allows, never writing more than a frame holds nor reading nothing, hence requests and answers arrive as streams
  of bytes; `HapStream`'s step lemmas are cited through instances of its proofs.
  `NothingBehindTorn`: after a torn frame nothing is handed out and nothing is served. It
  needs `Torn`, that the server holds no part of a line then: a part of a line may end
  in a served request by a read that fails, and a frame is torn only where the buffer is empty.
  `AnswersTakenInOrder`, for answers of every length and calls given up anywhere, is about steps: `DInv` says that answers
  adjoin (`Contiguous`), that what the server still owes is the rest of the last one, header and body apart (`Owed`),
  and that no frame holds bytes of two answers, or of a header and a body (`Apart`), so it is safe that the client
  throws the rest of a frame away. Of the client it says that what it has read ends before the response does
  (`Unread`) and where it began: at the start of an answer or of a body, or anywhere behind a call given up (`Placed`). `HeadingIs` and `ResponseIs` say which header a call finds, and where it then stops.
  `ServesAsSent`, for bodies of any tokens and any length: `SInv` adds to `IInv` `Layout` (the text
  is the requests, one behind the other) and, until a request is cut, `Stands`: the server knows where it is. The
  number of bytes handed out, less where the next request begins, says which line of that header it reads, how much
  of it `line` holds, and what `req` has of the CSeq and the length. That a body is never read
  as a header is this: behind the digits the body begins where `req.len` says it does, and the next request
  where it ends. The lemmas `FirstLine`, `CSeqLine`, `LengthLine` and `EmptyLine` say what the line operators make of
  each line. The sender's limit on a body belongs to the invariant (`AtEmpty`): a
  body over it has ended the connection before the empty line.
* **`Mirroring_proofs`**, two parts, each with a specification of its own.
  * `MirrorSession`: `StreamsAreRecorded`: `Asked` says, for every step of the
    set-up, what has been answered before it, in either order; `Recorded` speaks only of the
    last step. `DumpEnds`: `Dumps` adds that the audio thread between its look at the flag
    and its datagram has dumped nothing late. `AcceptedAreServed`: the connections accepted and not
    closed are just those a thread of their listener is at, which is what `ConnectionsServed` must
    start from; a thread holds the number of its connection, and `Serving` says that number is never
    stale. `SessionTypeCorrect` needs `Made`, how many connections there can be at each
    step of the set-up: three in all, of which a thread's `conn` is one.
  * `H264Parser`: `NalsAreInOrder` and `NalsAreInTime`, for every stream of units with `WellMade`,
    whatever their number, length and contents, and every way to cut and flush it. `ParserInv` says
    that the state depends on what was pushed alone: the units given are the first of the stream, as
    many as have shown their end or lain before a flush, and the buffer is the stream from there to
    the last byte pushed (`Kept`). The work lies in the loops. Where the units of a stream begin is
    where its start codes are, since none lies inside a unit or across two; hence a turn takes just
    the next unit if its end is in the buffer and nothing if it is not (`Cut`), and as many turns as
    there are bytes take them all (`LoopTakes`), with the sentinel of a flush for one more unit.
* **`SenderParts_proofs`**, five parts, each with an invariant and a specification of its own.
  * `MirrorCipher`: `CipherTypeCorrect`, `KeystreamIsFresh` and `ImplementsCtrStream`, for any
    block size. `CipherInv` adds that every keystream byte used lies
    behind the front, the position of the cipher less what is cached. The
    refinement maps the position of `CtrStream` to that front.
  * `CredentialStore`: `SavesAreKept`, for any number of programs, receivers and
    saves. `StoreInv` adds `Numbered` (nothing is newer than the last save) and `LoadedKept`: a program
    that loaded after the last save of another holds what the file should hold, so that its write loses nothing.
  * `DesktopCapture`: `EverythingReleased`, from what each step of a turn holds (`Released`; a frame without a surface is held for ever);
    `CursorIsDrawn`, for every desktop, pointer and place. `Told` relates the overlay to the pointer the last
    frame told of, and that to the pointer as it is: they may differ only in what is still to be told.
  * `SoundConversion`: `ResamplerRunsOn`, for every rate, number of channels and size of packets.
    `Running` says how far the resampler may stand before its buffer, and that its next
    output lies one step behind the last, though the buffer's beginning has moved.
  * `UdpPorts`: `PortsTypeCorrect` and `Consecutive`, for every number of
    ports, count, range and moves of other programs. `PortsInv` adds to the types
    `Progress` (how many sockets each stage holds, and that it may try again),
    `Own` (no socket's port is another program's) and `Row`: the sockets bound *so far* are in a row unless
    a sum has wrapped. `PortsInARow` speaks only of a finished search, and
    a bind keeps it only if the unfinished row was one.

**Assumptions.** The proofs use the named ASSUMEs of the modules and nothing else; TLC evaluates them in every run.
Bounds are naturals; `None` is no identifier; bodies are sequences of tokens. Sizes that the code fixes are positive, as they are there:
block (16), HAP frame (1024), body limit, the header of an answer (a status line), frame (352) and ring (8). An
answer's Content-Length stands before the mark of its header and behind a line end (`LengthIsTold`), and its body holds neither a
mark nor such a line, as the property lists the receivers send do not. The
retransmission window is shorter than half the RTP times: 8 frames of 352 against 2^31. A row of ports is
shorter than the port space. What comes from outside is positive where
the code relies on it or looks: an audio packet (one of none ends the read, which is `NoPacket`), rates and
channels of a mix format, the sides of a desktop. `WellMade` is a hypothesis of the two theorems about the parser
and not an assumption of its module, because the run `sentinel_removed` looks at a unit that is not
well made; `MCSenderParts` assumes it of its units (`UnitsAreWellMade`), so TLC evaluates it there.

**Only model-checked.** The type invariant of `AudioSession`: that `heard` keeps its bound follows from the sum
of what the device still queues, by induction over that sequence.
Liveness under fairness (`EncodedIsSent`, `LossIsNoticed`, `RunSettles`,
`HealthyRunStreams`, `LeavingEnds`, `ConnectionsServed`, `SearchEnds`, `Answered`) is out of the prover's reach, as is ENABLED;
so is what a RECURSIVE operator computes, which is why the modules proved about use sets and functions. The library's
induction theorems take an operator as a parameter and cannot be used; where a proof is by
induction over the turns of a loop, as the parser's is, it is over a *set* of numbers (`SetInduction`
in `Mirroring_proofs`, from the well-founded order of the naturals).

## 5. Findings

* `keys_on_final_exchange`. `AP/receiver/pairing.rs:337` says session keys are
  returned only on the final exchange; a V3 repeated on a verified session is
  answered with an error and returns them again. Harmless while `enable_hap` ignores a
  second call.
* `server_proof`. `AP/pairing.rs:558` verifies `H(A, M1, K)` with *unpadded* A; the
  receiver of this repository hashes A as it came, padded. When the public key
  begins with a zero byte, a pairing with the right PIN is refused.
* `last_captured`. `DESK:627` says the idle flush sends the last captured frame; a
  frame captured within a frame period of the one encoded before it is dropped
  (`DESK:404`) and forgotten, and the idle flush sends the earlier one.
* `sentinel_removed`. `AP/h264.rs:33` says the sentinel of `flush` is removed from the
  buffer. When the last unit is followed by a zero byte, as Annex B allows, that zero and
  the sentinel make a start code of four bytes: five bytes stay, and come out of the next
  push or flush as a unit of type 0.
* `interleaved_samples`. `lumen-audio/src/wasapi.rs:371` says that what the resampler is given is
  interleaved; `read_sample` leaves the number of channels out of a sample's offset, so of a packet
  of a device that refuses 44.1 kHz stereo only the first half is read, at half the speed.

## 6. Not modelled

Property lists, TLV8, JSON and the wording of HTTP and RTSP are formats, pixel work and
cryptographic primitives are pure data, and foreign APIs (surfaces, the NVENC driver, WASAPI beyond
its results) other people's code: the models take the outcomes the
handlers tell apart. Digest authentication, `pair_transient` and
`raw_pair_setup` are never reached from `DESK`; `ControlChannel` leaves out the modern order of the media requests; `save_restore_token` has no caller,
but the store's operation itself is modelled. The receiver's
accept loop shares only an identity key and counters between connections, so one
connection is modelled. Of `ReceiverMedia` one of three alike UDP threads is modelled, and not a
failure in the middle of its making. Also left out: the two writes of a dump (a length, then
a datagram) of two connections with one dump file; the NTP responder, which ends on the first
error of `recv`; a device whose own format has the rate and channels asked for but another
width, which is read as 16 bits; and that `run_audio` does not look at Ctrl+C while nothing
plays, where the code promises no more than that the process ends.

## 7. Plan

Done, in this order: `SessionGate`, `ReceiverSession` and its proofs;
`ControlChannel`; `VideoStreamer` and proofs; `CtrStream`, `MirrorCipher` and
proofs; `AudioSession`; `MirrorSession` and proofs; `UdpPorts` and proofs; `H264Parser` and proofs;
`ByteStream`, `HapStream`, `RtspExchange` and their proofs; `CredentialStore` and proof;
`SoundConversion`; `DesktopCapture`; the proofs of `ControlChannel`, `AudioSession`, `SoundConversion` and
`DesktopCapture`, of whole access units in `VideoStreamer` and of answers and requests in `RtspExchange`;
that `ControlChannel` implements `ReceiverSession`; whom the threads of `MirrorSession` serve.

1. `MediaClock`: anchors set from SETUP and feedback, and what of it
   `VideoStreamer` may assume of its clock; the NTP responder beside it.
2. `Tlv8`: fragments of 255 bytes, decode after encode.
3. The retry of `request_once` after a digest challenge, in `ControlChannel`.
4. Two connections on one dump file, in `MirrorSession`.
5. Proofs: type correctness of `AudioSession`.
