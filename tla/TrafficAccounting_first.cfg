SPECIFICATION Spec
CONSTANTS
    s1 = s1
    s2 = s2
    Session = {s1}
    Chunk = 2
    Size = {1}
    MaxPackets <- LongAndShort
    MaxFaults = 0
    All = All
INVARIANT ReportedTrafficBilled
CHECK_DEADLOCK FALSE
