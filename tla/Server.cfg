SPECIFICATION FairSpec
CONSTANTS
    u1 = u1
    u2 = u2
    Updates = {u1, u2}
    Bodies <- MCBodies
    Cold <- NoBody
    Failures = {"exists", "write", "lost"}
    MaxAttempts = 2
    MaxStarts = 2
INVARIANTS AcknowledgedUpdateSupersedes PolicyReadsBack
PROPERTIES AcceptedReloadIsHandled SignalStopsServer
CHECK_DEADLOCK FALSE
