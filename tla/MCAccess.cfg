\* One request (requests do not meet), four contents of policies.json, two edits, two reloads.
SPECIFICATION Spec
CONSTANTS
    Requests = {r1}
    Defaults <- MCDefaults
    Files <- MCFiles
    Claims <- MCClaims
    EndOfDay = 3
    MaxTime = 2
    MaxEdits = 2
INVARIANTS TypeOK AllowFollowsPolicy AnswersAreRecorded FallbackHasCause
CHECK_DEADLOCK FALSE
