SPECIFICATION Spec
CONSTANTS
    FrameLen = 2
    Depth = 2
    SeqWrap = 4
    RtpWrap = 16
    Epochs = {14}
    Packets = {3}
    MaxChunks = 12
    MaxFaults = 1
INVARIANTS StartsFresh StreamIsGapless BurstLossRepaired SyncTracksNewest
PROPERTY LeavingEnds
CHECK_DEADLOCK FALSE
