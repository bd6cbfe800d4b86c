SPECIFICATION Spec
CONSTANTS
    c1 = c1  c2 = c2  c3 = c3  r1 = r1  r2 = r2
    control = control  tokens = tokens
    InTokens <- One
    OutTokens <- One
    Dimension <- Dimensions
    Rank <- Order
    VerifiedFree = {r2}
    Control = control
    Benchmark = qb_benchmark
    Floor = 1
    Calls = {c1, c2}
    Routes = {r1}
    Buckets = {control, tokens}
    Purpose <- MissionThenPlanning
    Context <- AllFree
    BucketsOf <- AllBuckets
    Limit <- Limits
    Windowed = {tokens}
    Unobserved = {}
    FailureThreshold = 2
    Refusals = {"authentication"}
    MaxSends = 2
    Resent = {c1}
    MaxObserved = 3
CHECK_DEADLOCK FALSE
INVARIANTS HoldsFitRemaining HoldsAreTheTickets EveryKeyChargesOnce
PROPERTY FloorIsForControl
