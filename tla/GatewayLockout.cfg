SPECIFICATION Spec
CONSTANTS
    Requests = {r1, r2, r3}
    Orgs = {o1}
    Users = {u1}
    PromptSet <- OnePrompt
    ConfigSet <- ThreeConfigs
    MaxRiskEvents = 1
    MaxUpdates = 1
    RiskTTL = 1
    LockTTL = 6
    Failures = {}
SYMMETRY Symmetry
INVARIANTS RepeatOffendersAreLocked ForwardedWasLogged
CHECK_DEADLOCK FALSE
