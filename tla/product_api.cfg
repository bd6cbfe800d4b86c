SPECIFICATION ApiSpec
CONSTANTS
    u1 = u1  u2 = u2  p1 = p1  p2 = p2
    Missions = {m1}
    Approvals = {a1}
    Projects = {p1, p2}
    MissionProject <- OfFirst
    ApprovalProject <- ApprovalsOfFirst
    Actors = {u1, u2}
    Member <- OneEach
    Keys = {k1}
    KeyedOps = {"review", "evaluate"}
    Admitted = {u1}
    Settings = {s1}
    NoKey = NoKey
    Watched = p1
    Limit = 1
    MaxRevision = 3
    MaxGeneration = 1
    MaxEvents = 2
CHECK_DEADLOCK FALSE
INVARIANTS  KeyRunsOnce PollSeesEachEventOnce
