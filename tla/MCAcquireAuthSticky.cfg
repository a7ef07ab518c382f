CONSTANTS
    r1 = r1
    r2 = r2
    s1 = s1
    s2 = s2
    NoSession = NoSession
    NoSnap = NoSnap
    Requests = {r1, r2}
    SessionOf <- OneSession
    Keys = {1, 2}
    KeyRank <- MCKeyRank
    CodeRank <- MCCodeRank
    Strategy = "sticky"
    PidOffset = TRUE
    Pid = 1
    Order <- NoOrder
    Drain = {}
    MaxSessions = 2
    QuotaReset <- NoQuota
    Stored0 <- Found
    Meddling <- Everyone
    LeaseLength <- MCLeaseLength
    FailureCooldown = 1
    TokenLife = 99
    DueBuffer = 1
    MaxTime = 2
    MaxChanges = 1
SPECIFICATION Spec
SYMMETRY Alike
INVARIANTS
    TypeOK
    NoLeakedLease
PROPERTIES
    FailsOnlyWhenExhausted
    SessionKeepsAccount
CHECK_DEADLOCK FALSE
