SPECIFICATION Spec
CONSTANTS
    p1 = p1
    p2 = p2
    p3 = p3
    p4 = p4
    o1 = o1
    o2 = o2
    n1 = n1
    n2 = n2
    Procs = {p1, p2, p3, p4}
    Orgs = {o1, o2}
    Names = {n1, n2}
    Lengths = {7}
    ChunkSize = 4
    ChunkOverlap = 1
    Topics = 2
    Failures = {"refused", "lost"}
SYMMETRY Symmetry
INVARIANTS TypeOK ListedIsSearchable NothingLeftBehind
CHECK_DEADLOCK FALSE
