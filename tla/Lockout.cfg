\* Seven attempts, at most two being handled at once; an account is locked after
\* two failures within two ticks, for two ticks.
SPECIFICATION Spec
CONSTANTS
    MaxRequests = 7
    MaxAttempts = 2
    Window = 2
    LockFor = 2
    InFlight = 2
    MaxTime = 4
    MaxResets = 1
INVARIANTS TypeOK GuessesAreBounded LocksHaveCause
PROPERTY LocksHold
CHECK_DEADLOCK FALSE
