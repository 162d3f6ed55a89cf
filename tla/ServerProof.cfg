SPECIFICATION Spec
CONSTANTS
    MaxFaults = 0
    MaxPolls = 0
PROPERTY
    ServerProofAccepted
