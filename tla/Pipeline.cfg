SPECIFICATION SimSpec
CONSTANTS
    PromptSet <- MCPrompts
    ConfigSet <- MCConfigs
    DependenciesFail = TRUE
    Thresholds = {0, 800}
INVARIANTS TypeOK NothingFoundIsReleased CertainThreatsAreRefused EvidenceNeverExcuses UnannouncedRefusalsAreExplained SimulatedPromptIsForwarded
CHECK_DEADLOCK FALSE
