SPECIFICATION Spec
CONSTANTS
    r1 = r1
    r2 = r2
    w1 = w1
    w2 = w2
    None = None
    Reqs = {r1, r2}
    Workers = {w1, w2}
CHECK_DEADLOCK FALSE
SYMMETRY Sym
INVARIANTS RecordLive ExecuteThenCallback CustomReclaimed StackRestored
