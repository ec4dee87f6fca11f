SPECIFICATION Spec
CONSTANTS
    s1 = s1
    s2 = s2
    Session = {s1, s2}
    Chunk = 2
    Size = {1}
    MaxPackets <- LongAndShort
    MaxFaults = 1
    All = All
INVARIANTS TypeOK NeverOverbilled OnlyEarlyReportsMissed
PROPERTIES SubscribedForGood ChannelDiscovered 
CHECK_DEADLOCK FALSE
