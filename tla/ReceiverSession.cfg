SPECIFICATION Spec
CONSTANTS
    Ids = {c1, c2}
    Keys = {k1, k2}
    Ephs = {e1, e2}
    None = None
    MaxDraws = 3
INVARIANTS
    VerifiedIsEncrypted
    VerifiedIsRegistered
    SetupPredatesSession
    PinGuardsRegistration
PROPERTY
    GateSpec
