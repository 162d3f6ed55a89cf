------------------------------- MODULE UdpPorts -------------------------------
(***************************************************************************)
(* allocate_consecutive_udp_ports: the sender's search for UDP ports in a  *)
(* row, for timing, audio control and audio data.  The first port is the   *)
(* system's choice or comes from a range; the others must follow it.       *)
(* Other programs bind and release ports meanwhile.                        *)
(*                                                                         *)
(* Ports are numbers of 16 bits in the code, here of Ports values.  Their  *)
(* sums panic in a build that checks overflow and wrap in one that does    *)
(* not; a bind to port 0 is a bind to a port of the system's choice.       *)
(***************************************************************************)
EXTENDS Integers, Sequences

CONSTANTS Ports,      \* 2^16 in the code
          Count,      \* ports asked for
          Attempts,   \* tries with a first port of the system's choice
          Ephemeral,  \* ports the system chooses from
          RangeMins,  \* port_min and
          RangeMaxs,  \* port_max the caller may give, both 0 for no range
          Occupied,   \* sets of ports other programs may hold at the start
          MaxMoves    \* bound: ports others bind or release during the search

ASSUME SizesArePositive == Ports \in Nat \ {0} /\ Count \in Nat \ {0} /\ Attempts \in Nat \ {0}
ASSUME CountFits == Count < Ports
ASSUME EphemeralArePorts == Ephemeral \subseteq 1..(Ports - 1)
ASSUME RangesArePorts == RangeMins \subseteq 0..(Ports - 1) /\ RangeMaxs \subseteq 0..(Ports - 1)
ASSUME OccupiedArePorts == \A s \in Occupied : s \subseteq 1..(Ports - 1)
ASSUME MaxMovesNat == MaxMoves \in Nat

VARIABLES checked,  \* the build checks overflow
          range,    \* port_min, port_max
          taken,    \* ports held by others
          moves,
          at,       \* first, rest, and the ends: done, error, panic
          base,     \* the port to begin with, in a range
          socks,    \* the ports bound so far, in the order of conns
          tries

portVars == <<checked, range, taken, moves, at, base, socks, tries>>
--------------------------------------------------------------------------------
Ends == {"done", "error", "panic"}
Ranged == range # <<0, 0>>

\* Ports a bind to `p` may give.
Bound(p) ==
    LET free == {q \in 1..(Ports - 1) : q \notin taken /\ \A i \in DOMAIN socks : socks[i] # q}
    IN IF p = 0 THEN Ephemeral \cap free ELSE {p} \cap free

Invalid == range[1] = 0 \/ range[2] = 0 \/ range[1] > range[2]

SearchInit ==
    /\ checked \in BOOLEAN
    /\ range \in RangeMins \X RangeMaxs /\ taken \in Occupied /\ moves = 0
    /\ at = IF Ranged /\ Invalid THEN "error" ELSE "first"
    /\ base = range[1] /\ socks = <<>> /\ tries = 0

\* The loop over a range goes on while the last port lies in it.
LastFits == (base + Count - 1) % Ports <= range[2]

\* base + count - 1 and base += 1 are sums of 16 bits.
Overflows(sum) == checked /\ sum >= Ports
--------------------------------------------------------------------------------
\* The first port: the system's, whose failure ends the search ...
FirstAnywhere ==
    /\ at = "first" /\ ~Ranged
    /\ IF Bound(0) = {}
       THEN at' = "error" /\ UNCHANGED socks
       ELSE \E p \in Bound(0) : socks' = <<p>> /\ at' = IF Count = 1 THEN "done" ELSE "rest"
    /\ UNCHANGED <<checked, range, taken, moves, base, tries>>

\* ... or the next of the range that is free.
FirstInRange ==
    /\ at = "first" /\ Ranged
    /\ IF Overflows(base + Count) THEN at' = "panic" /\ UNCHANGED <<base, socks>>
       ELSE IF ~LastFits THEN at' = "error" /\ UNCHANGED <<base, socks>>
       ELSE IF Bound(base) = {}
            THEN IF Overflows(base + 1) THEN at' = "panic" /\ UNCHANGED <<base, socks>>
                 ELSE base' = (base + 1) % Ports /\ UNCHANGED <<at, socks>>
       ELSE \E p \in Bound(base) : /\ socks' = <<p>>
                                   /\ at' = IF Count = 1 THEN "done" ELSE "rest"
                                   /\ UNCHANGED base
    /\ UNCHANGED <<checked, range, taken, moves, tries>>

\* Mutant of Follower: the count begins behind the first port.
FollowerSkips == (socks[1] + Len(socks) + 1) % Ports

\* base + i, actual + i.
Follower == (socks[1] + Len(socks)) % Ports

\* Mutant of Retry: a range is searched again from the same port.
RetrySame ==
    /\ socks' = <<>>
    /\ IF Ranged
       THEN tries' = tries /\ at' = "first" /\ base' = socks[1]
       ELSE /\ tries' = tries + 1 /\ UNCHANGED base
            /\ at' = IF tries' = Attempts THEN "error" ELSE "first"

\* A follower is taken: the sockets are dropped and the search begins again.
Retry ==
    /\ socks' = <<>>
    /\ IF Ranged
       THEN /\ tries' = tries
            /\ IF Overflows(socks[1] + 1) THEN at' = "panic" /\ UNCHANGED base
               ELSE at' = "first" /\ base' = (socks[1] + 1) % Ports
       ELSE /\ tries' = tries + 1 /\ UNCHANGED base
            /\ at' = IF tries' = Attempts THEN "error" ELSE "first"

BindFollower ==
    /\ at = "rest"
    /\ IF Overflows(socks[1] + Len(socks))
       THEN at' = "panic" /\ socks' = <<>> /\ UNCHANGED <<base, tries>>
       ELSE IF Bound(Follower) = {} THEN Retry
       ELSE \E p \in Bound(Follower) :
                /\ socks' = Append(socks, p)
                /\ at' = IF Len(socks) + 1 = Count THEN "done" ELSE "rest"
                /\ UNCHANGED <<base, tries>>
    /\ UNCHANGED <<checked, range, taken, moves>>

Search == FirstAnywhere \/ FirstInRange \/ BindFollower

\* Another program binds a port or releases one.
Others ==
    /\ at \notin Ends /\ moves < MaxMoves /\ moves' = moves + 1
    /\ \/ \E p \in 1..(Ports - 1) :
             (\A i \in DOMAIN socks : socks[i] # p) /\ taken' = taken \cup {p}
       \/ \E p \in taken : taken' = taken \ {p}
    /\ UNCHANGED <<checked, range, at, base, socks, tries>>

SearchNext == Search \/ Others

SearchSpec == SearchInit /\ [][SearchNext]_portVars /\ WF_portVars(Search)
--------------------------------------------------------------------------------
(* Properties                                                              *)

\* The search's variables range over what the code can store in them.
PortsTyped ==
    /\ checked \in BOOLEAN /\ range \in RangeMins \X RangeMaxs
    /\ taken \subseteq 1..(Ports - 1) /\ moves \in 0..MaxMoves
    /\ at \in {"first", "rest"} \cup Ends
    /\ base \in 0..(Ports - 1) /\ tries \in 0..Attempts
    /\ socks \in Seq(1..(Ports - 1))

\* The sockets handed to the session are Count, on ports in a row and no other
\* program's, unless a sum of 16 bits wrapped: then the first port is one of the
\* last Count - 1.
PortsInARow ==
    at = "done" =>
        /\ Len(socks) = Count
        /\ \A i \in 1..Count : socks[i] \notin taken
        /\ socks[1] + Count <= Ports => \A i \in 1..Count : socks[i] = socks[1] + i - 1

\* The search ends, unless the range reaches the last port: with an error or the
\* ports, whatever other programs do.
SearchEnds == (Ranged => range[2] < Ports - 1) => <>(at \in Ends)
================================================================================
