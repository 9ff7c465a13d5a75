SPECIFICATION Spec
CONSTANTS
    INT_MOD = 8
    SIZE_MOD = 16
    Paths <- MCPaths
    Fds <- MCFds
    Longs <- MCLongs
    Flags <- MCFlags
    StrLens = {0, 3, 4}
    KeepArg = FALSE
    MallocFails = FALSE
INVARIANT PointersLive
