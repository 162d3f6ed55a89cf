---------------------------- MODULE CredentialStore ----------------------------
(***************************************************************************)
(* CredentialStore: one file with the pairing of every receiver.  A        *)
(* program reads all of it at its start and writes all of it at every      *)
(* change, in place: the file is emptied first.  Programs do not know of   *)
(* each other, and may crash at any step.                                  *)
(*                                                                         *)
(* A pairing is a number, the keys and the identifier of one exchange; 0   *)
(* stands for none, and for no token.  JSON and base64 are left out.       *)
(***************************************************************************)
EXTENDS Integers

CONSTANTS Programs,    \* runs of mirror_desktop or pair_pin on one home
          Receivers,   \* device identifiers
          MaxSaves     \* bound: changes

VARIABLES file,        \* absent, torn, or whole with its devices
          running,     \* off, on, or writing
          devices,     \* of each program, what it holds in memory
          saves,       \* pairings and tokens made so far
          kept,        \* what the saves that have ended should have left
          older,       \* programs that loaded before another's save
          crossed      \* one of them has written

storeVars == <<file, running, devices, saves, kept, older, crossed>>

NoEntry == [pairing |-> 0, token |-> 0]
None == [r \in Receivers |-> NoEntry]

StoreInit ==
    /\ file = [is |-> "absent", devices |-> None]
    /\ running = [p \in Programs |-> "off"] /\ devices = [p \in Programs |-> None]
    /\ saves = 0 /\ kept = None /\ older = {} /\ crossed = FALSE

\* CredentialStore::new: a torn file ends the program, and nothing mends it.
Load(p) ==
    /\ running[p] = "off" /\ file.is # "torn"
    /\ running' = [running EXCEPT ![p] = "on"]
    /\ devices' = [devices EXCEPT ![p] = file.devices]
    /\ older' = older \ {p}
    /\ UNCHANGED <<file, saves, kept, crossed>>

Torn == [is |-> "torn", devices |-> None]

\* persist, up to the write: fs::write empties the file.
Persist(p) ==
    /\ running' = [running EXCEPT ![p] = "writing"]
    /\ file' = Torn
    /\ saves' = saves + 1
    /\ UNCHANGED <<kept, older, crossed>>

\* Mutant of Paired: the entry is replaced.
PairedAnew(e) == [NoEntry EXCEPT !.pairing = saves + 1]

Paired(e) == [e EXCEPT !.pairing = saves + 1]

Save(p, r) ==
    /\ running[p] = "on" /\ saves < MaxSaves
    /\ devices' = [devices EXCEPT ![p][r] = Paired(@)]
    /\ Persist(p)

\* save_restore_token with a token; an empty one changes nothing.
SaveRestoreToken(p, r) ==
    /\ running[p] = "on" /\ saves < MaxSaves
    /\ devices' = [devices EXCEPT ![p][r].token = saves + 1]
    /\ Persist(p)

Greater(a, b) == IF a > b THEN a ELSE b

Later(d, k) == [pairing |-> Greater(d.pairing, k.pairing), token |-> Greater(d.token, k.token)]

\* The write ends; two at a time may leave the end of one behind the other.
Written(p) ==
    /\ running[p] = "writing"
    /\ running' = [running EXCEPT ![p] = "on"]
    /\ \/ file' = [is |-> "whole", devices |-> devices[p]]
       \/ (\E q \in Programs \ {p} : running[q] = "writing") /\ file' = Torn
    /\ kept' = [r \in Receivers |-> Later(devices[p][r], kept[r])]
    /\ older' = older \cup {q \in Programs \ {p} : running[q] # "off"}
    /\ crossed' = (crossed \/ p \in older)
    /\ UNCHANGED <<devices, saves>>

\* The program ends, or crashes: in a write it leaves half a file.
Leave(p) ==
    /\ running[p] # "off"
    /\ running' = [running EXCEPT ![p] = "off"]
    /\ file' = file \/ (running[p] = "writing" /\ file' = Torn)
    /\ UNCHANGED <<devices, saves, kept, older, crossed>>

StoreNext == \E p \in Programs :
            Load(p) \/ Written(p) \/ Leave(p) \/ \E r \in Receivers : Save(p, r) \/ SaveRestoreToken(p, r)

StoreSpec == StoreInit /\ [][StoreNext]_storeVars
--------------------------------------------------------------------------------
(* Properties                                                              *)

\* The file holds the last pairing and the last token of every receiver, unless a
\* write was cut by a crash or ran into another, or a program wrote that had loaded the
\* file before another's save.
PairingsKept == file.is # "torn" /\ ~crossed => file.devices = kept
================================================================================
