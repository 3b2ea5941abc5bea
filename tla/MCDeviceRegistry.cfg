\* Two enrollments and two commands, two devices, two keys, one unreadable file.
SPECIFICATION Spec
CONSTANTS
    Enrollments = {e1, e2}
    Commands = {c1, c2}
    Devices = {d1, d2}
    Keys = {k1, k2}
    ApprovalRequired = TRUE
    MaxMisreads = 1
SYMMETRY MCSymmetry
INVARIANTS TypeOK ApprovalBelongsToKey RevocationStands EnrollmentStands
CHECK_DEADLOCK FALSE
