SPECIFICATION EvidenceSpec
CONSTANTS
    Providers = {"ollama", "cerebras"}
    Local = {"ollama"}
    Ollama = "ollama"
    Retired = {}
    Deferred = {}
    PaidBlocked = {}
    Gated = {"cerebras"}
    Probed = {"ollama"}
    RawAccount <- Unverified
    Aliases = {"pa_one"}
    MaxChanges = 1
    Models <- TwoModels
    Preferred <- TwoModels
    Latency <- GemmaIsFaster
    Families = {2, 4}
    Roles <- FourRoles
    TaskToBenchmark <- RouterFamilies
    DefaultFallback = "gemma3"
    Cases = {"c1", "c2"}
    MinDistinct = 2
    MaxCommands = 3
CHECK_DEADLOCK FALSE
INVARIANTS  OfferedIsEarned GateOpensOnlyAudited
