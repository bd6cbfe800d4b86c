SPECIFICATION SessionSpec
CONSTANTS
    a1 = a1  a2 = a2  a3 = a3  a4 = a4
    Attempts = {a1, a2, a3, a4}
    Registration <- TwoRoles
    MaxRegistrations = 1
    Waits = {a2}
    Deterministic = {a3}
    Capable = {a1, a4}
    MaxSessions = 1
    MaxRestarts = 1
CHECK_DEADLOCK FALSE
INVARIANTS SlotsAreTheAttempts CancelIsNotLost
