SPECIFICATION Spec
CONSTANTS
    Host = {h1}
    None = None
    ProbingTimeout = 1
    MaxRtt = 1
    MaxProbes = 2
    RegisterTimeout = 2
    MaxStops = 1
    MaxLosses = 1
INVARIANT WindowBounded
SYMMETRY Alike
