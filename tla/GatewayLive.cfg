SPECIFICATION FairSpec
CONSTANTS
    Requests = {r1, r2}
    Orgs = {o1}
    Users = {u1}
    PromptSet <- OnePrompt
    ConfigSet <- AllConfigs
    MaxRiskEvents = 1
    MaxUpdates = 0
    RiskTTL = 1
    LockTTL = 2
    Failures = {"redis"}
PROPERTY EveryRequestAnswered
CHECK_DEADLOCK FALSE
