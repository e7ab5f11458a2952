SPECIFICATION Spec
CONSTANTS
    Nil = Nil
    c1 = c1 c2 = c2 k1 = k1 k2 = k2 r1 = r1 r2 = r2
    p1 = p1 a1 = a1 a2 = a2
    Clients = {c1, c2}
    Consents = {k1}
    Records = {r1}
    Proposals = {p1}
    People = {a1, a2}
    MayAccept = {a1, a2}
    MayRecord = {a1, a2}
    Client <- OfOne
    Signal <- OneHealth
    MaxMishaps = 1
SYMMETRY Symmetry
INVARIANTS TypeOK RegisterJustified AcceptedIsRecorded
PROPERTIES ClosedStaysClosed DecisionStands
CHECK_DEADLOCK FALSE
