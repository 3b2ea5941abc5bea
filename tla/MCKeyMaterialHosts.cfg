\* Two hosts with their bundles: a login and a request.
SPECIFICATION Spec
CONSTANTS
    Signers = {s1, s2}
    Verifiers = {v1, v2}
    Provisions = {p1}
    Keys = {k1, k2, k3, k4}
    PerHost = TRUE
INVARIANT GatewayCannotSign
CHECK_DEADLOCK FALSE
