----------------------------- MODULE DesktopCapture -----------------------------
(***************************************************************************)
(* Desktop Duplication under the streaming loop of mirror_desktop: a frame *)
(* is acquired, encoded where it lies (NVENC) or read back with the mouse  *)
(* cursor drawn into it, and released before the next.  The pointer comes  *)
(* apart from the image: a frame tells what has changed of it since the    *)
(* frame before.                                                           *)
(*                                                                         *)
(* A shape is its hot spot and the pixels its alpha or its masks let be    *)
(* seen; the position told of the pointer is its hot spot's, as the code   *)
(* takes it.  Colours, the copy of the surface and a wait that times out,  *)
(* which changes nothing here, are left out.                               *)
(***************************************************************************)
EXTENDS Integers

CONSTANTS Width, Height,   \* of the desktop
          Shapes,          \* shapes of the pointer, [hotX, hotY, seen]
          Places,          \* positions of the pointer, <<x, y>>
          MaxChanges,      \* bound: changes of the pointer
          MaxCaptures      \* bound: frames

ASSUME DesktopHasPixels == Width \in Nat \ {0} /\ Height \in Nat \ {0}
ASSUME ShapesArePixels ==
    \A s \in Shapes : s.hotX \in Int /\ s.hotY \in Int /\ s.seen \subseteq Int \X Int
ASSUME PlacesArePoints == Places \subseteq Int \X Int

VARIABLES nvenc,           \* encode from the surface, without a cursor
          step,            \* wait, frame, encode, unregister, release, ended
          held,            \* the duplication has a frame out
          bare,            \* and its surface did not reach the loop
          resources,       \* surfaces registered with the encoder
          frames,          \* frames acquired
          pointer,         \* the pointer: shape, position, visible
          news,            \* what the next frame tells of it
          changes,
          overlay,         \* what CursorOverlay holds of it
          asked,           \* the pointer as of the last frame
          drawn,           \* the pixels of the frame the cursor was drawn in
          shapeLost        \* the last shape reported could not be fetched

captureVars ==
    <<nvenc, step, held, bare, resources, frames, pointer, news, changes, overlay, asked, drawn, shapeLost>>

NoShape == [hotX |-> 0, hotY |-> 0, seen |-> {}]

CaptureInit ==
    /\ nvenc \in BOOLEAN /\ step = "wait" /\ held = FALSE /\ bare = FALSE /\ resources = {} /\ frames = 0
    /\ pointer \in [shape : Shapes, position : Places, visible : BOOLEAN]
    /\ news = [mouse |-> TRUE, shape |-> TRUE] /\ changes = 0
    /\ overlay = [shape |-> NoShape, position |-> <<0, 0>>, visible |-> FALSE]
    /\ asked = overlay /\ drawn = {} /\ shapeLost = FALSE

\* The user moves, hides or shows the pointer, or its shape changes.
PointerChanges ==
    /\ changes < MaxChanges /\ changes' = changes + 1
    /\ \/ \E p \in Places, v \in BOOLEAN :
             /\ pointer' = [pointer EXCEPT !.position = p, !.visible = v]
             /\ news' = [news EXCEPT !.mouse = TRUE]
       \/ \E s \in Shapes \ {pointer.shape} :
             /\ pointer' = [pointer EXCEPT !.shape = s]
             /\ news' = [mouse |-> TRUE, shape |-> TRUE]
    /\ UNCHANGED <<nvenc, step, held, bare, resources, frames, overlay, asked, drawn, shapeLost>>
--------------------------------------------------------------------------------
(* The cursor                                                              *)

\* Mutant of Updated: where there is no new shape the overlay is left alone.
UpdatedWithShape(fetched) ==
    IF ~news.mouse \/ ~news.shape THEN overlay
    ELSE [shape |-> IF fetched THEN pointer.shape ELSE overlay.shape,
          position |-> pointer.position, visible |-> pointer.visible]

\* CursorOverlay::update; a shape that cannot be fetched is an error the caller logs.
Updated(fetched) ==
    IF ~news.mouse THEN overlay
    ELSE [shape |-> IF news.shape /\ fetched THEN pointer.shape ELSE overlay.shape,
          position |-> pointer.position, visible |-> pointer.visible]

\* draw: the pixels, by their place in the frame's rows, that o covers.
Draw(o) ==
    LET left == o.position[1] - o.shape.hotX
        top == o.position[2] - o.shape.hotY
    IN IF ~o.visible THEN {}
       ELSE {(top + p[2]) * Width + left + p[1] :
                p \in {q \in o.shape.seen : left + q[1] \in 0..(Width - 1) /\ top + q[2] \in 0..(Height - 1)}}
--------------------------------------------------------------------------------
(* The loop                                                                *)

\* AcquireNextFrame gives a frame and the news of the pointer.
Given ==
    /\ step = "wait" /\ ~held /\ frames < MaxCaptures
    /\ frames' = frames + 1
    /\ asked' = pointer /\ news' = [mouse |-> FALSE, shape |-> FALSE]
    /\ UNCHANGED <<nvenc, resources, pointer, changes>>

\* acquire_frame: the surface is the caller's to release.
AcquireFrame ==
    /\ nvenc /\ Given
    /\ held' = TRUE /\ step' = "frame"
    /\ UNCHANGED <<bare, overlay, drawn, shapeLost>>

\* Of either: a frame without a surface is taken for none, one whose surface is no
\* texture ends the program; nobody releases it, and what it tells is not looked at.
AcquireBare ==
    /\ Given
    /\ held' = TRUE /\ bare' = TRUE
    /\ step' \in {"wait", "ended"}
    /\ UNCHANGED <<overlay, drawn, shapeLost>>

\* acquire_frame_cpu: read back, updated, drawn and released, whatever fails.
AcquireFrameCpu ==
    /\ ~nvenc /\ Given
    /\ UNCHANGED <<held, bare>>
    /\ \/ step' = "ended" /\ UNCHANGED <<overlay, drawn, shapeLost>>
       \/ \E fetched \in BOOLEAN :
             /\ overlay' = Updated(fetched) /\ drawn' = Draw(overlay')
             /\ shapeLost' = IF news.shape THEN ~fetched ELSE shapeLost
             /\ step' = "frame"

\* Access to the desktop is lost, or a frame is still out: an error ends the program.
AcquireFails ==
    /\ step = "wait" /\ step' = "ended"
    /\ UNCHANGED <<nvenc, held, bare, resources, frames, pointer, news, changes, overlay, asked, drawn, shapeLost>>

Quiet == UNCHANGED <<nvenc, bare, frames, pointer, news, changes, overlay, asked, drawn, shapeLost>>

\* Mutant of SkipFrame: the frame is kept.
SkipKept == step = "frame" /\ step' = "wait" /\ UNCHANGED held /\ UNCHANGED resources /\ Quiet

\* A frame that comes before its time is dropped.
SkipFrame == step = "frame" /\ step' = "wait" /\ held' = FALSE /\ UNCHANGED resources /\ Quiet

\* encode_external_texture: the surface is registered for this frame.
Register ==
    /\ step = "frame" /\ nvenc
    /\ \/ resources' = resources \cup {frames} /\ step' = "encode"
       \/ resources' = resources /\ step' = "ended"
    /\ UNCHANGED held /\ Quiet

\* The picture is encoded; the resource is given back also when that fails, and then
\* the error ends the program.
Encode ==
    /\ step = "encode"
    /\ \E encoded, unregistered \in BOOLEAN :
          /\ resources' = IF unregistered THEN resources \ {frames} ELSE resources
          /\ step' = IF encoded /\ unregistered THEN "release" ELSE "ended"
    /\ UNCHANGED held /\ Quiet

ReleaseFrame == step = "release" /\ step' = "wait" /\ held' = FALSE /\ UNCHANGED resources /\ Quiet

\* Another encoder takes the pixels.
EncodeCpu ==
    /\ step = "frame" /\ ~nvenc
    /\ step' \in {"wait", "ended"}
    /\ UNCHANGED <<held, resources>> /\ Quiet

\* The encoder is dropped before the duplication: its session takes what is registered.
DropEncoder ==
    /\ step = "ended" /\ resources # {} /\ resources' = {}
    /\ UNCHANGED <<step, held>> /\ Quiet

CaptureNext ==
    \/ PointerChanges \/ AcquireFrame \/ AcquireFrameCpu \/ AcquireBare \/ AcquireFails
    \/ SkipFrame \/ Register \/ Encode \/ ReleaseFrame \/ EncodeCpu \/ DropEncoder

CaptureSpec == CaptureInit /\ [][CaptureNext]_captureVars
--------------------------------------------------------------------------------
(* Properties                                                              *)

\* A pixel of the frame, by its column and row, is under the pointer p.
Under(p, k) ==
    p.visible /\ <<(k % Width) - (p.position[1] - p.shape.hotX),
                   (k \div Width) - (p.position[2] - p.shape.hotY)>> \in p.shape.seen

\* A frame read back shows the pointer as it was when the frame was acquired, the part
\* of it on the desktop and nothing else, however often it changed between frames;
\* unless its last shape could not be fetched, which no later frame asks for again.
CursorIsCurrent ==
    ~nvenc /\ step = "frame" /\ ~shapeLost =>
        drawn = {k \in 0..(Width * Height - 1) : Under(asked, k)}

\* The loop asks for a frame with no surface of an earlier frame registered with the
\* encoder and, as release_frame says it must, with the one before released: but for a
\* frame that came without a surface, behind which no other is taken or encoded.
NothingHeld ==
    /\ step = "wait" => resources = {} /\ (held => bare)
    /\ bare => resources = {} /\ step \in {"wait", "ended"}
================================================================================
