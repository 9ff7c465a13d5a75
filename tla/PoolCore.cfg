SPECIFICATION Spec
CONSTANTS
    r1 = r1
    r2 = r2
    g1 = g1
    q1 = q1
    q2 = q2
    w1 = w1
    w2 = w2
    w3 = w3
    NoReq = NoReq
    Reqs = {r1, r2}
    Grps = {g1}
    Quits = {}
    Workers = {w1, w2}
    UINT_MOD = 32
    ETP_PRI_MIN = 0
    ETP_PRI_MAX = 1
    InitWanted = 1
    InitMaxIdle = 4
    PriArgs = {0, 1, 2}
    ParallelArgs = {2}
    IdleArgs = {0, 1}
    PollReqsArgs = {0, 1}
    PollTimeArgs = {TRUE}
    FinishResults = {0, 1}
    CreateMayFail = TRUE
    MaxDepth = 2
    Eventfd = FALSE
SYMMETRY Sym
INVARIANTS QueuesIntact OneOwner PollNotified NreqsExact NpendingExact IdleExact NoLostWakeup
PROPERTY LoopReturnsEmpty
