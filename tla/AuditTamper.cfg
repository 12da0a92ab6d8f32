SPECIFICATION TamperSpec
CONSTANTS
    Workers = {w1, w2}
    Orgs = {o1}
    Requests = {r1, r2}
    Flagged = {r1}
    MaxEdited = 1
    MaxOpenConns = 2
    MaxTime = 2
    Retention = 0
    None = None
    EmptyHash = EmptyHash
SYMMETRY Symmetry
INVARIANTS ValidLogIsGenuine UntouchedLogVerifies
CHECK_DEADLOCK FALSE
