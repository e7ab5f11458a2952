SPECIFICATION FairSpec
CONSTANTS
    j1 = j1  j2 = j2
    w1 = w1  w2 = w2
    d1 = d1
    e1 = e1
    Jobs = {j1, j2}
    Workers = {w1, w2}
    Definitions = {d1}
    Events = {e1}
    k1 = k1
    CallerKeys = {k1}
    AttemptLimits = {1, 2}
    DefaultLimit = 2
    DrainLimit = 2
    MaxMishaps = 2
INVARIANTS TypeOK ClaimsCurrent AttemptsHonest EmittedMeansQueued
PROPERTIES FinalIsFinal EveryJobSettles
CHECK_DEADLOCK FALSE
