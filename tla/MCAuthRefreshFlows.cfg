CONSTANTS
    a1 = a1
    p1 = p1
    p2 = p2
    p3 = p3
    p4 = p4
    p5 = p5
    NoAccount = NoAccount
    Accounts = {a1}
    Proc = {p1, p2, p3, p4, p5}
    Kind <- EveryFlow
    LeaseLength <- MCLeaseLength
    FailureCooldown = 1
    TokenLife = 2
    DueBuffer = 1
    ClaimDelay = 1
    HttpTimeout = 1
    CommitDelay = 1
    MaxTime = 9
    MaxIssue = 3
SPECIFICATION Spec
INVARIANTS
    TypeOK
    OneRefreshPerToken
    NoTokenLost
PROPERTIES
    NeverRollsBack
    DisabledKeepsTokens
    NoSpuriousDisable
CHECK_DEADLOCK FALSE
