SPECIFICATION ProtocolSpec
CONSTANTS
    p1 = p1  m1 = m1  t1 = t1
    Workers = {w1}
    Projects = {p1}
    Caps = {}
    Missions = {m1}
    Tasks = {t1}
    Leases = {l1}
    Results = {r1, r2}
    NoResult = NoResult
    ProjectOf <- OneProjectOf
    MissionOf <- OneMissionOf
    DependsOn <- NoDependencies
    Needs <- NeedEverything
    Rank <- SameRank
    SpecStatuses = {"ready"}
    LeaseSeconds = 1
    Extensions = {3}
    Horizon = 2
    MaxClock = 1
    MaxGeneration = 2
    MaxCancel = 1
    MaxRevision = 1
    MaxInFlight = 2
SYMMETRY Interchangeable
CHECK_DEADLOCK FALSE
INVARIANTS AcceptedResultIsTheAttempts 
PROPERTIES  DispositionsFinal
