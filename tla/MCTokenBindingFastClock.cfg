\* A client whose clock is ahead by more than Slack, as far as the age check
\* admits; the threads never pause.
SPECIFICATION Spec
CONSTANTS
    k1 = k1
    k2 = k2
    Requests = {r1, r2}
    Nonces = {n1}
    Tokens = {t1}
    Keys = {k1}
    Pinned <- MCPinned
    MaxAge = 2
    Slack = 1
    TokenTTL = 5
    Skew = 2
    Stall = 0
    MaxTime = 5
    MaxLives = 1
INVARIANT ProofSingleUse
CHECK_DEADLOCK FALSE
