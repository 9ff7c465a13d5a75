SPECIFICATION FilesSpec
CONSTANTS
    FileLen = 6
    Offsets = {0, 2, 7}
    Counts = {0, 3, 6, 8}
    SENDFILE_MIN = 1
    KernelMax = 2
    EIO_BUFSIZE = 2
    EIO_SORT_CUTOFF = 3
    EIO_SORT_FAST = 4
    INO_BITS = 4
    Dirs <- MCDirs
    ReaddirFlags <- MCFlags
    NAMES_ALLOC = 3
    DENT_ALLOC = 2
    AllocMayFail = TRUE
    NamesMayFail = TRUE
    FS <- MCFS
    Cwd <- MCCwd
    Paths <- MCPaths
    EIO_PATH_MAX = 10
    SYMLINKS = 4
INVARIANT ScandirInBounds
