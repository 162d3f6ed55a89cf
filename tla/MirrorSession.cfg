SPECIFICATION Spec
CONSTANTS
    Buffer = 1
    Backlog = 2
INVARIANTS Recorded DumpStops
PROPERTY ConnectionsServed
CHECK_DEADLOCK FALSE
