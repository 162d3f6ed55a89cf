----------------------------- MODULE MCSenderParts -----------------------------
(***************************************************************************)
(* Six parts of the sender that share no state, checked in one run: the    *)
(* search for UDP ports, the cipher of the video stream, the H.264 parser, *)
(* the credential store, the capture of the desktop and the conversion of  *)
(* sound.  A behaviour is one part's; the others rest in a state of their  *)
(* own in which they can do nothing.                                       *)
(***************************************************************************)
EXTENDS UdpPorts, MirrorCipher, CredentialStore, DesktopCapture, SoundConversion, H264Parser

VARIABLE part

parts == <<part, portVars, vars, parserVars, storeVars, captureVars, soundVars>>
--------------------------------------------------------------------------------
(* Units of an encoder, of one byte to four, with one that looks like a code but for *)
(* its last byte; lengths of one byte and of 256 to 511 hold a start code themselves. *)
Units(payloads) == {code \o p : code \in {<<0, 0, 1>>, <<0, 0, 0, 1>>}, p \in payloads}
Clean == Units({<<7>>, <<1, 0, 1>>, <<5, 0, 0, 3>>})
Lengths == {<<0, 0, 0, 2, 7, 1>>, <<0, 0, 0, 3, 5, 0, 0>>, <<0, 0, 0, 4, 5, 0, 2, 1>>}

\* Pointers, and places inside the desktop, at its corner and over its edge.
SomeShapes == {[hotX |-> 0, hotY |-> 0, seen |-> {<<0, 0>>, <<1, 0>>, <<0, 1>>}],
               [hotX |-> 1, hotY |-> 1, seen |-> (0..1) \X (0..1)]}
SomePlaces == {<<0, 0>>, <<2, 1>>, <<-1, 1>>}

\* Rates below and above the one asked for, one channel to six.
SomeMixes == [rate : {2, 4, 7}, channels : {1, 2, 6}]
--------------------------------------------------------------------------------
PortsRest ==
    /\ checked = FALSE /\ range = <<0, 0>> /\ taken = {} /\ moves = 0
    /\ at = "error" /\ base = 0 /\ socks = <<>> /\ tries = 0

ParserRest == source = <<>> /\ pushed = 0 /\ flushed = 0 /\ buf = <<>> /\ out = <<>>

StoreRest ==
    /\ file = [is |-> "torn", devices |-> None]
    /\ running = [p \in Programs |-> "off"] /\ devices = [p \in Programs |-> None]
    /\ saves = 0 /\ kept = None /\ older = {} /\ crossed = FALSE

CaptureRest ==
    /\ nvenc = FALSE /\ step = "ended" /\ held = FALSE /\ bare = FALSE /\ resources = {} /\ frames = 0
    /\ pointer = [shape |-> NoShape, position |-> <<0, 0>>, visible |-> FALSE]
    /\ news = [mouse |-> FALSE, shape |-> FALSE] /\ changes = MaxChanges
    /\ overlay = pointer /\ asked = pointer /\ drawn = {} /\ shapeLost = FALSE

SoundRest ==
    /\ accepted = TRUE /\ format = Preferred
    /\ packet = MaxPackets /\ before = 0 /\ phase = 0 /\ tail = FALSE
    /\ samples = <<>> /\ outputs = <<>>

ASSUME UnitsAreWellMade == WellMade

PartsInit ==
    /\ part \in {"ports", "cipher", "parser", "store", "capture", "sound"}
    /\ IF part = "ports" THEN SearchInit ELSE PortsRest
    /\ Init
    /\ IF part = "parser" THEN ParserInit ELSE ParserRest
    /\ IF part = "store" THEN StoreInit ELSE StoreRest
    /\ IF part = "capture" THEN CaptureInit ELSE CaptureRest
    /\ IF part = "sound" THEN SoundInit ELSE SoundRest

PartsNext ==
    /\ UNCHANGED part
    /\ \/ SearchNext
          /\ UNCHANGED <<vars, parserVars, storeVars, captureVars, soundVars>>
       \/ part = "cipher" /\ Next
          /\ UNCHANGED <<portVars, parserVars, storeVars, captureVars, soundVars>>
       \/ ParserNext
          /\ UNCHANGED <<portVars, vars, storeVars, captureVars, soundVars>>
       \/ StoreNext
          /\ UNCHANGED <<portVars, vars, parserVars, captureVars, soundVars>>
       \/ CaptureNext
          /\ UNCHANGED <<portVars, vars, parserVars, storeVars, soundVars>>
       \/ SoundNext
          /\ UNCHANGED <<portVars, vars, parserVars, storeVars, captureVars>>

PartsSpec == PartsInit /\ [][PartsNext]_parts /\ WF_portVars(Search)
================================================================================
