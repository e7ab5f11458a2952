SPECIFICATION Spec
CONSTANTS
    Nil = Nil
    w1 = w1 w2 = w2 d1 = d1 d2 = d2
    Definitions <- Contended
    Workers = {w1, w2}
    Deciders = {d1, d2}
    MaxMishaps = 2
    DryRuns = {TRUE, FALSE}
INVARIANTS GuardedNeedsApproval EffectsHonest
PROPERTIES DoneOnce EndIsEnd
CHECK_DEADLOCK FALSE
