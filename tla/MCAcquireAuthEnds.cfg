CONSTANTS
    r1 = r1
    r2 = r2
    s1 = s1
    s2 = s2
    NoSession = NoSession
    NoSnap = NoSnap
    Requests = {r1}
    SessionOf <- Single
    Keys = {1, 2}
    KeyRank <- MCKeyRank
    CodeRank <- MCCodeRank
    Strategy = "round_robin"
    PidOffset = FALSE
    Pid = 1
    Order <- NoOrder
    Drain = {}
    MaxSessions = 2
    QuotaReset <- NoQuota
    Stored0 <- FreshOrExpired
    Meddling <- Anything
    LeaseLength <- MCLeaseLength
    FailureCooldown = 1
    TokenLife = 99
    DueBuffer = 1
    MaxTime = 2
    MaxChanges = 2
SPECIFICATION Spec
PROPERTY
    Terminates
CHECK_DEADLOCK FALSE
