SPECIFICATION FairSpec
CONSTANTS
    r1 = r1
    r2 = r2
    g1 = g1
    q1 = q1
    q2 = q2
    w1 = w1
    w2 = w2
    w3 = w3
    NoReq = NoReq
    Reqs = {r1, r2}
    Grps = {g1}
    Quits = {q1}
    Workers = {w1, w2, w3}
    UINT_MOD = 32
    ETP_PRI_MIN = 0
    ETP_PRI_MAX = 0
    InitWanted = 2
    InitMaxIdle = 4
    PriArgs = {0}
    ParallelArgs = {1}
    IdleArgs = {}
    PollReqsArgs = {}
    PollTimeArgs = {}
    FinishResults = {0}
    CreateMayFail = FALSE
    MaxDepth = 1
    Eventfd = TRUE
PROPERTY LoopNeverStuck
PROPERTY LoopEnds
INVARIANTS TypeOK StartedExact ThreadLimit
