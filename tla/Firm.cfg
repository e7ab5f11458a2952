SPECIFICATION FirmSpec
CONSTANTS
    Nil = Nil
    Users = {u1, u2}
    Operators = {u2}
    Enrolled = {u1, u2}
    Required = {}
    Attempts = {p1, p2}
    SessionIds = {s1}
    MaxFailures = 2
    Keys = {k1, k2}
    Limit = 2
    Calls = {c1, c2}
    Endpoints = {e1, e2}
    Events = {v1, v2}
    Senders = {w1, w2}
    MaxAttempts = 2
    FailingAt = 2
    DisabledAt = 3
    Facts <- CaseFacts
    RolesOf <- Team
    Capabilities = {"duplicateDebt"}
    MaxInvocations = 1
    MaxProposals = 2
    Openers = {o1, o2, o3}
    MaxNumber = 4
    Savers = {q1, q2}
    Members = {m1}
    MaxVersions = 3
    MaxMishaps = 1
    Ids = {i1, i2}
    Plans <- SomePlans
    MaxRecords = 3
    MaxRuns = 1
    NoId = NoId
    Unplanned <- OneRecord
INVARIANTS FirmTypeOK LimitsHold AssistanceKept LocksSuffice BalancedIsComplete
PROPERTIES DeadStaysDead Implements
CHECK_DEADLOCK FALSE
