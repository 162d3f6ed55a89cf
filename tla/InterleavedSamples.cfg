SPECIFICATION SoundSpec
CONSTANTS
    Rate = 3
    Mixes <- SomeMixes
    Packets = {1, 2, 3}
    MaxPackets = 5
INVARIANT SamplesInterleaved
CHECK_DEADLOCK FALSE
