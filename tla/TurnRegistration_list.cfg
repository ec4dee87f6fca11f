SPECIFICATION Spec
CONSTANTS
    Period = 4
    TTL = 7
    MaxDelay = 2
    MaxFaults = 3
    Swap = {TRUE, FALSE}
INVARIANTS TypeOK ListedWhileHealthy SelectFirst OneFaultBoundedAbsence
PROPERTIES RegistrationRecovers DeadServerForgottenUnlessHalved
CHECK_DEADLOCK FALSE
