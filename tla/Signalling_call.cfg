SPECIFICATION Spec
CONSTANTS
    N = 3
    Granted = {1, 2}
    MaxLeaves = 1
INVARIANTS TypeOK OneInitiator CallerRelays
PROPERTY CallSetUp
CHECK_DEADLOCK FALSE
