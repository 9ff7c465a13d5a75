SPECIFICATION Spec
CONSTANTS
    r1 = r1
    r2 = r2
    h1 = h1
    h2 = h2
    h3 = h3
    h4 = h4
    c1 = c1
    c2 = c2
    c3 = c3
    x1 = x1
    x2 = x2
    x3 = x3
    x4 = x4
    Nil = Nil
    Reqs = {r1, r2}
    Handles = {h1, h2, h3, h4}
    Cbs = {c1, c2, c3}
    Rsrcs = {x1, x2, x3, x4}
    CancelOwn = FALSE
SYMMETRY Sym
INVARIANTS NoneForgotten
CHECK_DEADLOCK FALSE
