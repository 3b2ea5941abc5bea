\* Two logins, two commands at once, one request, one unreadable file.
SPECIFICATION Spec
CONSTANTS
    Logins = {l1, l2}
    Accesses = {x1}
    Commands = {c1, c2}
    Users = {u1}
    Devices = {d1}
    TTL = 1
    MaxTime = 1
    MaxMisreads = 1
SYMMETRY MCSymmetry
INVARIANTS TypeOK FoundTokensStayCutOff LiveTokensAreRecorded AttestedUnboundHasCause
CHECK_DEADLOCK FALSE
