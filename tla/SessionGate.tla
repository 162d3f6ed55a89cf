------------------------------ MODULE SessionGate ------------------------------
(***************************************************************************)
(* What one control connection of the receiver promises, without its       *)
(* messages: a session is opened for a registered controller only, opening *)
(* it makes the connection secure for good, and media starts only while a  *)
(* session is open.                                                        *)
(***************************************************************************)
CONSTANTS Ids, None

VARIABLES known,   \* controllers registered on the connection
          owner,   \* the controller whose session is open, or None
          secure,  \* the connection is encrypted
          media    \* the media endpoints exist

vars == <<known, owner, secure, media>>

Init == known = {} /\ owner = None /\ secure = FALSE /\ media = FALSE

Register(c) == known' = known \cup {c} /\ UNCHANGED <<owner, secure, media>>

Open(c) ==
    /\ c \in known /\ owner = None
    /\ owner' = c /\ secure' = TRUE
    /\ UNCHANGED <<known, media>>

Close == owner # None /\ owner' = None /\ UNCHANGED <<known, secure, media>>

StartMedia == owner # None /\ media' = TRUE /\ UNCHANGED <<known, owner, secure>>

Next == (\E c \in Ids : Register(c) \/ Open(c)) \/ Close \/ StartMedia

Spec == Init /\ [][Next]_vars
================================================================================
