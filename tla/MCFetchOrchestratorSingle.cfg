CONSTANTS
    c1 = c1
    c2 = c2
    a1 = a1
    a2 = a2
    NoAuth = NoAuth
    Calls = {c1}
    Accounts = {a1, a2}
    MaxAttempts = 3
    FallbackCooldown = 1
    FailureCooldown = 1
    Seconds = {2}
    Dates = {2}
    Overlapping = FALSE
    SaveFails = TRUE
    Meddling = {"expire"}
    MaxTime = 3
    MaxToken = 3
    MaxChanges = 2
SPECIFICATION Spec
PROPERTIES
    SitsOutCooldowns
    Terminates
CHECK_DEADLOCK FALSE
