SPECIFICATION FairSpec
CONSTANTS
    Nil = Nil
    t1 = t1 res1 = res1 res2 = res2
    w1 = w1 w2 = w2
    Tenants = {t1}
    Resources = {res1, res2}
    Tenant <- OfOne
    Values = {0, 1}
    Writers = {w1, w2}
    MaxRows = 3
    MaxChanges = 2
INVARIANT ChainSound
PROPERTIES Implements TransactionEnds
