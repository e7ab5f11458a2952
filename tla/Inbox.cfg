SPECIFICATION FairSpec
CONSTANTS
    Nil = Nil
    t1 = t1 n1 = n1 c1 = c1 c2 = c2 m1 = m1 d1 = d1 d2 = d2 a1 = a1
    Threads = {t1}
    Number <- OneNumber
    Clients = {c1, c2}
    Messages = {m1}
    Thread <- OneThread
    WithFile = {m1}
    Deliveries = {d1, d2}
    Advisers = {a1}
    MaxWritten = 1
    MaxMishaps = 1
INVARIANTS TypeOK OnlyConfirmed OwedIsShown SentWasCarried HeldWasCleared
PROPERTY MessageArrives
CHECK_DEADLOCK FALSE
