CONSTANTS
    c1 = c1
    c2 = c2
    a1 = a1
    a2 = a2
    NoAuth = NoAuth
    Calls = {c1, c2}
    Accounts = {a1, a2}
    MaxAttempts = 3
    FallbackCooldown = 1
    FailureCooldown = 1
    Seconds = {}
    Dates = {2}
    Overlapping = TRUE
    SaveFails = TRUE
    Meddling = {"expire", "toggle", "lease"}
    MaxTime = 1
    MaxToken = 2
    MaxChanges = 1
SPECIFICATION Spec
SYMMETRY Alike
INVARIANTS
    TypeOK
    NeverResendsRejected
PROPERTIES
    ChargedToItsToken
    ExpiresOnlyWithoutFallback
CHECK_DEADLOCK FALSE
