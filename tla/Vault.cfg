SPECIFICATION Spec
CONSTANTS
    first = first
    second = second
    Prompts <- MCPrompts
    Replies <- MCReplies
    Configs <- MCConfigs
    Failures = {"presidio", "redis"}
INVARIANTS  OwnValuesOnly GeneratedLeaksAreCaught RoundTrip
CHECK_DEADLOCK FALSE
