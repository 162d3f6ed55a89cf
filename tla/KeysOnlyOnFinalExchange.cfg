SPECIFICATION Spec
CONSTANTS
    Ids = {c1}
    Keys = {k1}
    Ephs = {e1}
    None = None
    MaxDraws = 2
INVARIANT
    KeysOnlyOnFinalExchange
