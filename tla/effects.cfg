SPECIFICATION Spec
CONSTANTS
    k1 = k1  k2 = k2  k3 = k3
    Procs = {p1, p2}
    Keys = {k1, k2, k3}
    Approvals = {a1}
    NoApproval = NoApproval
    NeedsApproval = {k1, k2}
    AdapterOf <- OneOfEach
    Covers <- FirstTwo
    MaxUses <- OneShot
    MaxGeneration = 1
SYMMETRY Interchangeable
CHECK_DEADLOCK FALSE
INVARIANTS AtMostOneExecution UsesAreEffects 
PROPERTY TerminalIsFinal
