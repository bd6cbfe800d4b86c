SPECIFICATION Spec
CONSTANTS
    m1 = m1  t1 = t1  t2 = t2  t3 = t3  a1 = a1  a2 = a2
    east = east  west = west  l1 = l1  u1 = u1
    Sites = {east}
    Leases = {l1}
    Unknown = {u1}
    MaxEpoch = 2
    Attempts = {a1}
    Missions = {m1}
    Tasks = {t1, t2, t3}
    Specs <- AllSpecs
    Drafts <- Proposed
    k1 = k1  k2 = k2
    Schedulers = {k1, k2}
    MissionScopes = {"repo"}
    MaxGraphNodes = 3
    Slots <- Wide
    ControlReserve = 1
    CooldownTicks = 1
    MaxConcurrency = 8
    MinSlots = 1
    Home = east
    MaxProposals = 2
    MaxOverloads = 1
SYMMETRY Alike
CHECK_DEADLOCK FALSE
INVARIANTS GraphAcyclic 
PROPERTIES EpochsDispatchInOrder RevisionsAreOptimistic
