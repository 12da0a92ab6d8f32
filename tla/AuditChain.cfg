SPECIFICATION Spec
CONSTANTS
    Workers = {w1, w2, w3}
    Orgs = {o1, o2}
    Requests = {r1, r2, r3}
    Flagged = {r1}
    MaxOpenConns = 2
    MaxTime = 1
    None = None
    EmptyHash = EmptyHash
SYMMETRY Symmetry
INVARIANTS TypeOK ChainLinked HonestLogVerifies
PROPERTY AppendOnly
