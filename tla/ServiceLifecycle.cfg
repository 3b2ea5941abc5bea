\* Four connections: a probe, two requests, and one that may hang; two ticks of grace.
SPECIFICATION FairSpec
CONSTANTS
    Conns = {p1, r1, r2, h1}
    Probes = {p1}
    Hung = {h1}
    Grace = 2
INVARIANTS ServiceTypeOK DrainedMeansIdle OnlyDeadlineAbandons
PROPERTIES DrainEnds OnlyTheHungDelayExit
CHECK_DEADLOCK FALSE
