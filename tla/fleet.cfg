SPECIFICATION Spec
CONSTANTS
    w1 = w1  w2 = w2  k1 = k1  k2 = k2  t1 = t1  t2 = t2  p1 = p1  n1 = n1
    Workers = {w1, w2}
    Tokens = {k1, k2}
    Tasks = {t1, t2}
    Projects = {p1}
    Tenants = {n1}
    Leases <- Enrolments
    Annotations <- Ours
    Demands <- Asked
    Needs <- Wants
    MaxGeneration = 3
    MaxCycles = 3
SYMMETRY Alike
CHECK_DEADLOCK FALSE
INVARIANTS RevokedNeverAccepted  DrainingHasWork
