SPECIFICATION ScaleSpec
CONSTANTS
    p1 = p1  q1 = q1  q2 = q2
    Requests = {q1, q2}
    FairProjects = {p1}
    Project <- OneProject
    ToolUnits <- OneTool
    Provisioned <- Supply
    Floor = 0
    CurrentEpoch = 1
    CallerEpochs = {1}
    MaxDebt = 2
    Targets <- Files
    MaxQueue = 2
    MaxConcurrency = 3
    ControlReserve = 1
    MaxPerMinute = 1
    MaxWaves = 2
    Errors = {"e"}
CHECK_DEADLOCK FALSE
INVARIANTS CapacityBalances EveryLaneAccounted
PROPERTY RunReports
