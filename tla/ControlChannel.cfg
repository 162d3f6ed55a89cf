SPECIFICATION Spec
CONSTANTS
    MaxFaults = 2
    MaxPolls = 1
INVARIANTS
    SameSecret
    RequestsOpen
    SavedMeansRegistered
PROPERTIES
    AnswerIsCurrent
    RunSettles
    HealthyRunStreams
