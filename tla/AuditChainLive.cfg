SPECIFICATION FairSpec
CONSTANTS
    Workers = {w1, w2, w3}
    Orgs = {o1}
    Requests = {r1, r2, r3}
    Flagged = {r1}
    MaxOpenConns = 2
    MaxTime = 0
    None = None
    EmptyHash = EmptyHash
PROPERTY LogRequestReturns
