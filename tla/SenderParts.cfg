SPECIFICATION PartsSpec
CONSTANTS
    Ports = 8
    Count = 3
    Attempts = 3
    Ephemeral = {3, 5, 6, 7}
    RangeMins = {0, 1, 3}
    RangeMaxs = {0, 5, 7}
    Occupied = {{}, {4}, {2, 5}}
    MaxMoves = 3
    AnnexBUnits <- Clean
    AvccUnits <- Lengths
    MaxUnits = 4
    Programs = {1, 2}
    Receivers = {"a", "b"}
    MaxSaves = 3
    Width = 3
    Height = 2
    Shapes <- SomeShapes
    Places <- SomePlaces
    MaxChanges = 2
    MaxCaptures = 3
    Block = 4
    MaxLen = 10
    MaxFrames = 4
    Rate = 3
    Mixes <- SomeMixes
    Packets = {1, 2, 3}
    MaxPackets = 5
INVARIANTS
    PortsInARow
    NalsInOrder
    NalsGivenInTime
    PairingsKept
    CursorIsCurrent
    NothingHeld
    RunsOn
    PadsAreFresh
PROPERTIES
    SearchEnds
    StreamSpec
CHECK_DEADLOCK FALSE
