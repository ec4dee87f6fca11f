SPECIFICATION Spec
CONSTANTS
    Host = {h1, h2}
    None = None
    ProbingTimeout = 1
    MaxRtt = 1
    MaxProbes = 1
    RegisterTimeout = 2
    MaxStops = 1
    MaxLosses = 1
INVARIANTS TypeOK SeenLately LastSeenHonest
SYMMETRY Alike
