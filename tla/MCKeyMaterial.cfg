\* One host: two logins, a request and a run of provision_certs during a rotation.
SPECIFICATION Spec
CONSTANTS
    Signers = {s1, s2}
    Verifiers = {v1}
    Provisions = {p1}
    Keys = {k1, k2, k3, k4}
    PerHost = FALSE
SYMMETRY MCSymmetry
INVARIANTS TypeOK EnsuredPairMatches RejectionHasCause RetiredKeysStayRetired
CHECK_DEADLOCK FALSE
