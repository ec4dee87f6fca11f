SPECIFICATION Spec
CONSTANTS
    e1 = e1
    e2 = e2
    g1 = g1
    g2 = g2
    c1 = c1
    Stream = {e1, e2, g1, g2}
    Endpoint = {c1}
    General = General
    endpoint <- ByKind
    MaxOpens = 3
    MaxChanges = 3
    MaxValues = 3
INVARIANTS TypeOK ValueCurrent ListCurrent NoOrphanObservation
CHECK_DEADLOCK FALSE
SYMMETRY Alike
