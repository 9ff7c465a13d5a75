SPECIFICATION FairSpec
CONSTANTS
    r1 = r1
    r2 = r2
    r3 = r3
    g1 = g1
    g2 = g2
    Nil = Nil
    Reqs = {r1, r2}
    Grps = {g1, g2}
    Careful = TRUE
INVARIANTS TypeOK SizeExact ListExact GroupLast FinishedOnce
PROPERTY GroupEnds
PROPERTY ImplementsService
