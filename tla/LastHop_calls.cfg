SPECIFICATION Spec
CONSTANTS
    Request = {r1, r2, r3}
    Info = Info
    None = None
    MaxCloses = 1
INVARIANTS TypeOK AnswerStillToCome
PROPERTIES RefinesRequestReply CallAnswered LastCallAnswered
CHECK_DEADLOCK FALSE
