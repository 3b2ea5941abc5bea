\* Two runs of the agent on a device with a TPM, two logins; two events, which may be a second,
\* a restart, a writer for another device or a request from elsewhere (the first process counts too).
SPECIFICATION Spec
CONSTANTS
    Agents = {a1, a2}
    Logins = {l1, l2}
    SoftKeys = {s1, s2}
    Others = {o1}
    Strangers = {x1}
    HasTpm = TRUE
    TTL = 0
    MaxEvents = 3
SYMMETRY MCSymmetry
INVARIANTS TypeOK AttestedByApprovedKey UnattestedHasCause
PROPERTY ChallengeSingleUse
CHECK_DEADLOCK FALSE
