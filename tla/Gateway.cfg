SPECIFICATION Spec
CONSTANTS
    Requests = {r1, r2}
    Orgs = {o1, o2}
    Users = {u1}
    PromptSet <- OnePrompt
    ConfigSet <- AllConfigs
    MaxRiskEvents = 1
    MaxUpdates = 1
    RiskTTL = 1
    LockTTL = 2
    Failures = {"log", "redis"}
SYMMETRY Symmetry
INVARIANTS TypeOK VerdictsStayWithTheirTenant KeptVerdictsWereUnderWay
PROPERTY ImplementsContract
CHECK_DEADLOCK FALSE
