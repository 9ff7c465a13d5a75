----------------------------- MODULE PhpManual ------------------------------
(***************************************************************************)
(* What a call of each PHP function asks for: the system call, with the    *)
(* arguments as the script gave them, or the refusal of arguments that     *)
(* make no sense.  It is stated without the two layers of C below.         *)
(***************************************************************************)
EXTENDS PhpApi

CONSTANTS
    Paths,      \* PHP strings
    Fds,        \* zvals for a descriptor
    Longs,      \* values of a zend_long
    Flags,      \* values of the flags of eio_readdir
    StrLens     \* lengths of the string of eio_write

Kinds == {"long", "stream", "failed cast", "no cast", "memory", "socket", "failed socket",
          "other"}

ASSUME ArgumentAssumption ==
    /\ \A p \in Paths : p.nul \in BOOLEAN
    /\ \A z \in Fds : z.kind \in Kinds /\ z.v \in Int
    /\ Longs \subseteq Int /\ StrLens \subseteq Nat
    /\ Flags \subseteq SUBSET {"DENTS", "DIRS_FIRST", "STAT_ORDER"}

Refuse == <<"refuse">>

\* Where every value of a C type stands for itself.
IsInt(n) == n \in (-INT_MAX - 1)..INT_MAX
IsUint(n) == n \in 0..(INT_MOD - 1)
IsSize(n) == n \in 0..(SIZE_MOD - 1)
IsId(n) == n = -1 \/ IsUint(n)

\* A number beyond an int and a stream that cannot be cast are taken for
\* another descriptor.
IsFd(z) == z.kind # "no cast" /\ IsInt(z.v)

GoodFd(z) == z.kind \in {"long", "stream", "socket"} /\ z.v >= 0

OnPath(p, call) == IF p.nul THEN Refuse ELSE call
OnPaths(p, q, call) == IF p.nul \/ q.nul THEN Refuse ELSE call
OnFd(z, call) == IF GoodFd(z) THEN call ELSE Refuse
OnFds(z, y, call) == IF GoodFd(z) /\ GoodFd(y) THEN call ELSE Refuse

\* -1 leaves the owner alone, and is the largest uid.
Id(n) == n % INT_MOD

NotNegative(n) == IF n < 0 THEN 0 ELSE n

TimesOf(a, m) == IF a = -1 /\ m = -1 THEN <<"now">> ELSE <<"at", a, m>>

\* A call: what the function does, what is asked for, and whether the
\* arguments are in the range of the C types.
C(out, asked, fits) == [out |-> out, asked |-> asked, fits |-> fits]

PathCalls ==
    {C(PHP_eio_rmdir(p), OnPath(p, <<"unlinkat", p.text, "dir">>), TRUE) : p \in Paths}
    \cup {C(PHP_eio_unlink(p, TRUE), OnPath(p, <<"unlinkat", p.text, "file">>), TRUE) : p \in Paths}
    \cup {C(PHP_eio_unlink(p, FALSE), Refuse, TRUE) : p \in Paths}
    \cup {C(PHP_eio_readlink(p), OnPath(p, <<"readlinkat", p.text>>), TRUE) : p \in Paths}
    \cup {C(PHP_eio_realpath(p), OnPath(p, <<"eio__realpath", p.text>>), TRUE) : p \in Paths}
    \cup {C(PHP_eio_stat(p), OnPath(p, <<"fstatat", p.text, "follow">>), TRUE) : p \in Paths}
    \cup {C(PHP_eio_lstat(p), OnPath(p, <<"fstatat", p.text, "nofollow">>), TRUE) : p \in Paths}
    \cup {C(PHP_eio_statvfs(p), OnPath(p, <<"eio__statvfsat", p.text>>), TRUE) : p \in Paths}
    \cup {C(PHP_eio_link(p, q), OnPaths(p, q, <<"linkat", p.text, q.text>>), TRUE) : p, q \in Paths}
    \cup {C(PHP_eio_symlink(p, q), OnPaths(p, q, <<"symlinkat", p.text, q.text>>), TRUE)
            : p, q \in Paths}
    \cup {C(PHP_eio_rename(p, q), OnPaths(p, q, <<"renameat2", p.text, q.text, 0>>), TRUE)
            : p, q \in Paths}

\* eio_truncate and eio_readdir look at a path up to its NUL.
PathLongCalls ==
    {C(PHP_eio_chmod(p, m), OnPath(p, <<"fchmodat", p.text, m>>), IsUint(m))
       : p \in Paths, m \in Longs}
    \cup {C(PHP_eio_mkdir(p, m), OnPath(p, <<"mkdirat", p.text, m>>), IsUint(m))
            : p \in Paths, m \in Longs}
    \cup {C(PHP_eio_truncate(p, o), <<"eio__truncateat", p.text, NotNegative(o)>>, ~p.nul)
            : p \in Paths, o \in Longs}
    \cup {C(PHP_eio_readdir(p, f),
            <<"eio__scandir", p.text, IF f \subseteq {"DENTS"} THEN f ELSE f \cup {"DENTS"}>>, ~p.nul)
            : p \in Paths, f \in Flags}
    \cup {C(PHP_eio_open(p, f, m),
            OnPath(p, <<"openat", p.text, f, IF m = 0 THEN DefaultMode ELSE m>>),
            IsInt(f) /\ IsUint(m)) : p \in Paths, f, m \in Longs}
    \cup {C(PHP_eio_chown(p, u, g),
            IF u = -1 /\ g = -1 THEN Refuse ELSE OnPath(p, <<"fchownat", p.text, Id(u), Id(g)>>),
            IsId(u) /\ IsId(g)) : p \in Paths, u, g \in Longs}
    \cup {C(PHP_eio_utime(p, a, m), OnPath(p, <<"utimensat", p.text, TimesOf(a, m)>>), TRUE)
            : p \in Paths, a, m \in Longs}
    \cup {C(PHP_eio_mknod(p, m, d), OnPath(p, <<"mknodat", p.text, m, d>>), IsUint(m))
            : p \in Paths, m, d \in Longs}

FdCalls ==
    {C(PHP_eio_close(z), OnFd(z, <<"close", z.v>>), IsFd(z)) : z \in Fds}
    \cup {C(PHP_eio_fsync(z), OnFd(z, <<"fsync", z.v>>), IsFd(z)) : z \in Fds}
    \cup {C(PHP_eio_fdatasync(z), OnFd(z, <<"fdatasync", z.v>>), IsFd(z)) : z \in Fds}
    \cup {C(PHP_eio_syncfs(z), OnFd(z, <<"syncfs", z.v>>), IsFd(z)) : z \in Fds}
    \cup {C(PHP_eio_fstat(z), OnFd(z, <<"fstat", z.v>>), IsFd(z)) : z \in Fds}
    \cup {C(PHP_eio_fstatvfs(z), OnFd(z, <<"fstatvfs", z.v>>), IsFd(z)) : z \in Fds}
    \cup {C(PHP_eio_dup2(z, y), OnFds(z, y, <<"dup2", z.v, y.v>>), IsFd(z) /\ IsFd(y))
            : z, y \in Fds}
    \cup {C(PHP_eio_ftruncate(z, o), OnFd(z, <<"ftruncate", z.v, NotNegative(o)>>), IsFd(z))
            : z \in Fds, o \in Longs}
    \cup {C(PHP_eio_fchmod(z, m), OnFd(z, <<"fchmod", z.v, m>>), IsFd(z) /\ IsUint(m))
            : z \in Fds, m \in Longs}
    \cup {C(PHP_eio_futime(z, a, m), OnFd(z, <<"futimens", z.v, TimesOf(a, m)>>), IsFd(z))
            : z \in Fds, a, m \in Longs}
    \cup {C(PHP_eio_fchown(z, u, g),
            IF u = -1 /\ g = -1 THEN Refuse ELSE OnFd(z, <<"fchown", z.v, Id(u), Id(g)>>),
            IsFd(z) /\ IsId(u) /\ IsId(g)) : z \in Fds, u, g \in Longs}
    \cup {C(PHP_eio_seek(z, o, w), OnFd(z, <<"lseek", z.v, o, w>>), IsFd(z) /\ IsInt(w))
            : z \in Fds, o, w \in Longs}
    \cup {C(PHP_eio_readahead(z, o, n), OnFd(z, <<"readahead", z.v, o, n>>), IsFd(z) /\ IsSize(n))
            : z \in Fds, o, n \in Longs}

\* A negative offset reads and writes at the position of the descriptor, and
\* a length that is not positive or beyond the string writes all of it.  The
\* offset of eio_write is taken here, as in eio_read, from the beginning of the
\* file.  The comment before PHP_FUNCTION(eio_write) counts it "from the beginning
\* of the buf contents" instead: no code does, so for an offset other than 0
\* SyscallAsAsked says nothing in favour of that comment.
RangeCalls ==
    {C(PHP_eio_read(z, n, o),
       OnFd(z, IF o >= 0 THEN <<"pread", z.v, n, o>> ELSE <<"read", z.v, n>>),
       IsFd(z) /\ IsSize(n)) : z \in Fds, n, o \in Longs}
    \cup {LET n == IF l \in 1..s THEN l ELSE s
          IN  C(PHP_eio_write(z, s, l, o),
                IF n = 0 THEN Refuse
                ELSE OnFd(z, IF o >= 0 THEN <<"pwrite", z.v, n, o>> ELSE <<"write", z.v, n>>),
                IsFd(z) /\ IsInt(n)) : z \in Fds, s \in StrLens, l, o \in Longs}
    \cup {C(PHP_eio_sendfile(z, y, o, n),
            OnFds(z, y, <<"eio__sendfile", z.v, y.v, o, n>>),
            IsFd(z) /\ IsFd(y) /\ IsSize(n)) : z, y \in Fds, o, n \in Longs}
    \cup {C(PHP_eio_sync_file_range(z, o, n, f),
            OnFd(z, <<"sync_file_range", z.v, o, n, f>>),
            IsFd(z) /\ IsSize(n) /\ IsUint(f)) : z \in Fds, o, n, f \in Longs}
    \cup {C(PHP_eio_fallocate(z, m, o, n),
            OnFd(z, <<"fallocate", z.v, m, o, n>>),
            IsFd(z) /\ IsInt(m) /\ IsSize(n)) : z \in Fds, m, o, n \in Longs}

OtherCalls ==
    {C(PHP_eio_sync, <<"sync">>, TRUE), C(PHP_eio_nop, <<"none">>, TRUE)}
    \cup {C(PHP_eio_busy(d), <<"select", d>>, TRUE) : d \in Longs}

Calls == PathCalls \cup PathLongCalls \cup FdCalls \cup RangeCalls \cup OtherCalls
=============================================================================
