\* The Gateway and one resource; four starts or commands, two of them at a time; one of
\* the mishaps.  Behaviours are not followed once files have been mixed up.
SPECIFICATION CertSpec
CONSTANTS
    Services <- MCServices
    Gateway <- MCGateway
    MaxRuns = 4
    MaxTangled = 0
    MaxActive = 2
    MaxMishaps = 1
INVARIANTS CertTypeOK HandshakeFailureHasCause FailedStartHasCause
CHECK_DEADLOCK FALSE
