CONSTANTS
    r1 = r1
    r2 = r2
    s1 = s1
    s2 = s2
    NoSession = NoSession
    NoSnap = NoSnap
    Requests = {r1, r2}
    SessionOf <- TwoSessions
    Keys = {1, 2}
    KeyRank <- MCKeyRank
    CodeRank <- MCCodeRank
    Strategy = "hybrid"
    PidOffset = FALSE
    Pid = 1
    Order <- LastPreferred
    Drain <- FirstDrained
    MaxSessions = 2
    QuotaReset <- LastExhausted
    Stored0 <- FreshOrExpired
    Meddling <- Peers
    LeaseLength <- MCLeaseLength
    FailureCooldown = 1
    TokenLife = 99
    DueBuffer = 1
    MaxTime = 2
    MaxChanges = 1
SPECIFICATION Spec
PROPERTIES
    SessionKeepsAccount
    DrainsOnly
CHECK_DEADLOCK FALSE
