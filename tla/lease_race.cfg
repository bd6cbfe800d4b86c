SPECIFICATION UnderWaySpec
CONSTANTS
    p1 = p1  m1 = m1  t1 = t1  t2 = t2
    Workers = {w1, w2}
    Projects = {p1}
    Caps = {}
    Missions = {m1}
    Tasks = {t1, t2}
    Leases = {l1, l2}
    Results = {r1}
    NoResult = NoResult
    ProjectOf <- OneProjectOf
    MissionOf <- OneMissionOf
    DependsOn <- SecondAfterFirst
    Needs <- NeedEverything
    Rank <- FirstBeforeSecond
    SpecStatuses = {"ready"}
    LeaseSeconds = 1
    Extensions = {2}
    Horizon = 2
    MaxClock = 1
    MaxGeneration = 2
    MaxCancel = 1
    MaxRevision = 2
    MaxInFlight = 2
SYMMETRY Interchangeable
CHECK_DEADLOCK FALSE
INVARIANTS OneLeasedAttemptPerTask 
PROPERTY WorkKeepsDependencies
