SPECIFICATION AccountsSpec
CHECK_DEADLOCK FALSE
CONSTANTS
    Audiences = {"admin"}
    TotpRequired = TRUE
    MaxAttempts = 2
    Tabs = {t}
    Clerks = {c}
    Links = {k1}
    MaxLinks = 1
    MaxSessions = 1
    MaxSecrets = 1
    MaxMoves = 1
INVARIANT LockHolds
