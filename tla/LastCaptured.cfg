SPECIFICATION Spec
CONSTANTS
    MaxChanges = 2
    MaxClock = 0
    MaxFaults = 0
    MaxSlices = 1
    EncoderSkips = FALSE
CHECK_DEADLOCK FALSE
PROPERTY
    LastCapturedIsSent
