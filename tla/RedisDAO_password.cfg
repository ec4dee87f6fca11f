SPECIFICATION Spec
CONSTANTS
    r1 = r1
    r2 = r2
    r3 = r3
    o1 = o1
    o2 = o2
    c1 = c1
    t1 = t1
    Request = {r1, r2}
    OldClient = {o1}
    OldOwner <- MCOldOwner
    Csp = {c1}
    NullCsp = NullCsp
    Turn = {}
    Quota = {1}
    NaN = NaN
    Bytes = {1}
    Workload <- CredentialsBesideQuotas
    None = None
INVARIANT PasswordReachesTurn
CHECK_DEADLOCK FALSE
