SPECIFICATION Spec
CONSTANTS
    MaxChanges = 4
    MaxClock = 1
    MaxFaults = 2
    MaxSlices = 2
    EncoderSkips = TRUE
CHECK_DEADLOCK FALSE
INVARIANTS
    WholeAccessUnits
    CodecLeadsKeyFrame
    SealedOnce
    TimestampsIncrease
PROPERTIES
    EncodedIsSent
    LossIsNoticed
