SPECIFICATION ParserSpec
CONSTANTS
    AnnexBUnits <- Padded
    AvccUnits = {}
    MaxUnits = 2
INVARIANT SentinelRemoved
CHECK_DEADLOCK FALSE
