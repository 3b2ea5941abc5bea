\* The clients' clocks and the threads' pauses together stay within Slack.
SPECIFICATION Spec
CONSTANTS
    k1 = k1
    k2 = k2
    Requests = {r1, r2, r3}
    Nonces = {n1, n2}
    Tokens = {t1, t2}
    Keys = {k1, k2}
    Pinned <- MCPinned
    MaxAge = 1
    Slack = 2
    TokenTTL = 4
    Skew = 1
    Stall = 1
    MaxTime = 5
    MaxLives = 2
SYMMETRY MCSymmetry
INVARIANTS TypeOK ProofSingleUse AcceptedKeyIsPinned
PROPERTY ForgottenOnlyWhenUseless
CHECK_DEADLOCK FALSE
