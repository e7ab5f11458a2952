SPECIFICATION FairSpec
CONSTANTS
    Nil = Nil
    w1 = w1 w2 = w2 d1 = d1 d2 = d2
    Definitions <- Templates
    Workers = {w1}
    Deciders = {d1}
    MaxMishaps = 3
    DryRuns = {TRUE, FALSE}
INVARIANTS TypeOK StatusHonest
PROPERTY EverythingEnds
CHECK_DEADLOCK FALSE
