SPECIFICATION Spec
CONSTANTS
    Nil = Nil
    w1 = w1 w2 = w2 d1 = d1 d2 = d2
    Definitions <- OnlySignOff
    Workers = {w1, w2}
    Deciders = {d1}
    MaxMishaps = 0
    DryRuns = {FALSE}
INVARIANT AwaitsSomebody
CHECK_DEADLOCK FALSE
