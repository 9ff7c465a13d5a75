--------------------------- MODULE PhpCallsProofs ---------------------------
(***************************************************************************)
(* Proofs about one request from the call of its PHP function to its end,  *)
(* for all widths of the C types and all arguments.                        *)
(***************************************************************************)
EXTENDS PhpCalls, TLAPS

-----------------------------------------------------------------------------
(* What the request functions of libeio make. *)

TwoPaths == {"LINK", "SYMLINK", "RENAME"}

OnePath == {"OPEN", "UTIME", "TRUNCATE", "CHOWN", "CHMOD", "MKDIR", "READLINK", "REALPATH",
            "STAT", "LSTAT", "STATVFS", "UNLINK", "RMDIR", "READDIR", "MKNOD"}

IsReq(r) ==
    r = [type |-> r.type, int1 |-> r.int1, int2 |-> r.int2, int3 |-> r.int3,
         offs |-> r.offs, size |-> r.size, nv1 |-> r.nv1, nv2 |-> r.nv2,
         ptr1 |-> r.ptr1, ptr2 |-> r.ptr2, flags |-> r.flags]

\* A new request owns the copies of its paths, and nothing else.
Fresh(r) ==
    /\ IsReq(r)
    /\ r.type \in {"READ", "WRITE"} => r.size \in Nat
    /\ r.ptr1.blk = IF r.type \in OnePath \cup TwoPaths THEN "path" ELSE "null"
    /\ r.ptr2.blk = IF r.type \in TwoPaths THEN "new_path"
                    ELSE IF r.type = "WRITE" THEN "zbuf" ELSE "null"
    /\ r.ptr1.blk = "null" => r.ptr1 = Null
    /\ r.ptr2.blk = "null" => r.ptr2 = Null
    /\ "PTR1_FREE" \in r.flags <=> r.type \in OnePath \cup TwoPaths
    /\ "PTR2_FREE" \in r.flags <=> r.type \in TwoPaths

\* The call of the script and what the function makes of it
CallOK(c) ==
    /\ c.out.ret = "req" => Fresh(c.out.req)
    /\ c.fits => IF c.out.ret = "req" THEN c.asked # Refuse /\ Syscall(c.out.req) = c.asked
                 ELSE c.asked = Refuse

-----------------------------------------------------------------------------
(* The inductive invariant. *)

\* The request exists as long as its function or the script has it.
PhaseOK ==
    /\ pc \in PhpPC /\ wpc \in WorkerPC
    /\ wpc # "none" <=> pc \in {"swap", "return", "script"}
    /\ pc = "idle" => heap = {} /\ result = 0 /\ ~cancelled /\ req.type = "NOP"
    /\ pc = "idle" \/ wpc # "none" => ~nomem

\* What the script asked for is what the worker is about to do.
AskedOK ==
    /\ CallOK(call)
    /\ wpc # "none" => call.out.ret = "req"
    /\ wpc \in {"queue", "call"} /\ call.fits => Syscall(req) = call.asked

\* What a pointer with its flag owns.
Owns(b) ==
    \/ "PTR1_FREE" \in req.flags /\ req.ptr1.blk = b
    \/ "PTR2_FREE" \in req.flags /\ req.ptr2.blk = b

\* Only a write has a pointer that it does not own.
RequestOK ==
    /\ IsReq(req)
    /\ req.type \in {"READ", "WRITE"} => req.size \in Nat
    /\ req.ptr1.blk \in {"null", "path", "dents"}
    /\ "PTR1_FREE" \notin req.flags => req.ptr1.blk = "null"
    /\ IF req.type = "WRITE"
       THEN /\ req.ptr2.blk = IF pc = "swap" THEN "zbuf" ELSE "dup"
            /\ "PTR1_FREE" \notin req.flags /\ "PTR2_FREE" \notin req.flags
       ELSE /\ req.ptr2.blk \in {"null", "new_path", "buf", "names"}
            /\ "PTR2_FREE" \notin req.flags => req.ptr2.blk = "null"
            /\ pc = "script"

\* How far the worker is shows in the request.
WorkerOK ==
    /\ wpc = "queue" => req.ptr2.blk \in {"null", "new_path", "zbuf", "dup"}
    /\ wpc = "queue" /\ req.ptr2.blk = "new_path" => req.type \in TwoPaths
    /\ wpc \in {"queue", "call"} /\ req.type \in {"READDIR", "REALPATH"} => req.ptr2.blk = "null"
    /\ wpc \in {"queue", "call"} /\ req.type = "READDIR" => req.ptr1.blk = "path"
    /\ wpc \in {"call", "opened"} =>
          \/ wptr.blk = req.ptr2.blk
          \/ req.type = "WRITE" /\ wptr.blk = "zbuf"
    /\ wpc \in {"call", "opened"} /\ req.type \in Alloc => req.ptr2.blk = "buf"
    /\ wpc = "opened" => req.type \in OpensPath
    /\ wpc = "done" /\ result # -1 /\ req.type \in Alloc \cup {"REALPATH", "READDIR"} =>
          req.ptr2.blk # "null"

\* Every allocated block has its one owner.
HeapOK ==
    \A b : b \in heap <=>
              \/ b = "req"
              \/ b = "cb" /\ data = "cb"
              \/ b = "dup" /\ req.type = "WRITE" /\ pc # "swap"
              \/ b = "zbuf" /\ b \in heap
              \/ b # "null" /\ Owns(b)

\* The string of eio_write is there until the function returns, and after.
ZbufOK ==
    req.type = "WRITE" /\ (KeepArg \/ pc \in {"swap", "return"}) => "zbuf" \in heap

DataOK ==
    data \in {"null", "cb"} /\ result \in Int

MemoryOK ==
    wpc # "none" => RequestOK /\ WorkerOK /\ HeapOK /\ ZbufOK /\ DataOK

Inv == PhaseOK /\ AskedOK /\ MemoryOK /\ ErrnoBelongs /\ Reclaimed

-----------------------------------------------------------------------------
(* The conversions of C keep the values that fit. *)

LEMMA ModSmall ==
    ASSUME NEW m \in Nat \ {0}, NEW n \in 0..(m - 1)
    PROVE  n % m = n
OBVIOUS

LEMMA ModNat ==
    ASSUME NEW m \in Nat \ {0}, NEW n \in Int
    PROVE  n % m \in Nat
OBVIOUS

LEMMA ToIntFits ==
    ASSUME NEW n \in Int, IsInt(n)
    PROVE  ToInt(n) = n
<1> DEFINE h == INT_MOD \div 2
<1>1. h \in Nat /\ h + h = INT_MOD
  BY WidthAssumption
<1>2. n + h \in 0..(INT_MOD - 1)
  BY <1>1 DEF IsInt, INT_MAX
<1>3. (n + h) % INT_MOD = n + h
  BY <1>2, WidthAssumption, ModSmall
<1> QED
  BY <1>1, <1>3 DEF ToInt

LEMMA ToIntInt ==
    ASSUME NEW n \in Int
    PROVE  ToInt(n) \in Int
<1>1. INT_MOD \div 2 \in Int /\ INT_MOD \in Nat \ {0}
  BY WidthAssumption
<1> QED
  BY <1>1, ModNat DEF ToInt

LEMMA ToUintFits ==
    ASSUME NEW n \in Int, IsUint(n)
    PROVE  ToUint(n) = n
BY WidthAssumption, ModSmall DEF ToUint, IsUint

LEMMA ToSizeFits ==
    ASSUME NEW n \in Int, IsSize(n)
    PROVE  ToSize(n) = n
BY WidthAssumption, ModSmall DEF ToSize, IsSize

LEMMA ToSizeNat ==
    ASSUME NEW n \in Int
    PROVE  ToSize(n) \in Nat
BY WidthAssumption, ModNat DEF ToSize

\* A descriptor that fits is passed on, and nothing else is.
LEMMA FdFits ==
    ASSUME NEW z \in Fds
    PROVE  /\ php_eio_zval_to_fd(z) \in Int
           /\ IsFd(z) => IF GoodFd(z) THEN php_eio_zval_to_fd(z) = z.v /\ z.v >= 0
                         ELSE php_eio_zval_to_fd(z) < 0
<1>1. z.kind \in Kinds
  BY ArgumentAssumption
<1>2. z.v \in Int
  BY ArgumentAssumption
<1>3. ToInt(z.v) \in Int
  BY <1>2, ToIntInt
<1>4. IsFd(z) => ToInt(z.v) = z.v
  BY <1>2, ToIntFits DEF IsFd
<1>5. CASE z.kind \in {"memory", "failed cast", "failed socket", "other"}
  <2>1. php_eio_zval_to_fd(z) = -1
    BY <1>5 DEF php_eio_zval_to_fd
  <2>2. ~GoodFd(z)
    BY <1>5 DEF GoodFd
  <2> QED
    BY <2>1, <2>2
<1>6. CASE z.kind \in {"stream", "long"}
  <2>1. php_eio_zval_to_fd(z) = IF ToInt(z.v) < 0 THEN -1 ELSE ToInt(z.v)
    BY <1>6 DEF php_eio_zval_to_fd
  <2>2. CASE z.v >= 0
    <3>1. GoodFd(z)
      BY <1>6, <2>2 DEF GoodFd
    <3> QED
      BY <1>2, <1>3, <1>4, <2>1, <2>2, <3>1
  <2>3. CASE ~(z.v >= 0)
    <3>1. ~GoodFd(z)
      BY <2>3 DEF GoodFd
    <3> QED
      BY <1>2, <1>3, <1>4, <2>1, <2>3, <3>1
  <2> QED
    BY <2>2, <2>3
<1>7. CASE z.kind \in {"socket", "no cast"}
  <2>1. php_eio_zval_to_fd(z) = ToInt(z.v)
    BY <1>7 DEF php_eio_zval_to_fd
  <2>2. CASE z.v >= 0
    <3>1. IsFd(z) => GoodFd(z)
      BY <1>7, <2>2 DEF GoodFd, IsFd
    <3> QED
      BY <1>2, <1>3, <1>4, <2>1, <2>2, <3>1
  <2>3. CASE ~(z.v >= 0)
    <3>1. ~GoodFd(z)
      BY <2>3 DEF GoodFd
    <3> QED
      BY <1>2, <1>3, <1>4, <2>1, <2>3, <3>1
  <2> QED
    BY <2>2, <2>3
<1> QED
  BY <1>1, <1>5, <1>6, <1>7 DEF Kinds

-----------------------------------------------------------------------------
(* The requests of libeio. *)

\* The request is well formed, and the worker makes that system call of it.
Does(r, a) == Fresh(r) /\ Syscall(r) = a /\ a # Refuse

LEMMA PathFresh ==
    ASSUME NEW t \in OnePath, NEW p, NEW r, r = PATH(REQ(t), p)
    PROVE  Fresh(r) /\ r.type = t /\ r.ptr1.str = p /\ r.flags = {"PTR1_FREE"} /\ r.int2 = 0
<1>1. IsReq(REQ(t))
  BY DEF REQ, Ptr, Null, IsReq
<1>2. IsReq(r)
  BY <1>1 DEF IsReq, PATH
<1>3. r.type = t /\ r.ptr1.blk = "path" /\ r.ptr1.str = p /\ r.ptr2.blk = "null" /\ r.int2 = 0
  BY DEF PATH, REQ, Ptr, Null
<1>4. r.flags = {"PTR1_FREE"} /\ r.ptr2 = Null
  BY DEF PATH, REQ, Ptr, Null
<1> QED
  BY <1>2, <1>3, <1>4 DEF Fresh, OnePath, TwoPaths

\* The request functions that take descriptors
LEMMA FdRequests ==
    ASSUME NEW fd, NEW x, NEW y, NEW w
    PROVE  /\ Does(eio_close(fd), <<"close", fd>>)
           /\ Does(eio_fsync(fd), <<"fsync", fd>>)
           /\ Does(eio_fdatasync(fd), <<"fdatasync", fd>>)
           /\ Does(eio_syncfs(fd), <<"syncfs", fd>>)
           /\ Does(eio_fstat(fd), <<"fstat", fd>>)
           /\ Does(eio_fstatvfs(fd), <<"fstatvfs", fd>>)
           /\ Does(eio_dup2(fd, x), <<"dup2", fd, x>>)
           /\ Does(eio_ftruncate(fd, x), <<"ftruncate", fd, x>>)
           /\ Does(eio_fchmod(fd, x), <<"fchmod", fd, x>>)
           /\ Does(eio_futime(fd, x, y), <<"futimens", fd, TimesOf(x, y)>>)
           /\ Does(eio_fchown(fd, x, y), <<"fchown", fd, x, y>>)
           /\ Does(eio_seek(fd, x, y), <<"lseek", fd, x, y>>)
           /\ Does(eio_readahead(fd, x, y), <<"readahead", fd, x, y>>)
           /\ Does(eio_sendfile(fd, x, y, w), <<"eio__sendfile", fd, x, y, w>>)
           /\ Does(eio_sync_file_range(fd, x, y, w), <<"sync_file_range", fd, x, y, w>>)
           /\ Does(eio_fallocate(fd, x, y, w), <<"fallocate", fd, x, y, w>>)
<1>1. ASSUME NEW r, r = eio_close(fd) PROVE Does(r, <<"close", fd>>)
  BY <1>1 DEF eio_close, REQ, Ptr, Null, Does, Fresh, IsReq, OnePath, TwoPaths, Syscall, Refuse
<1>2. ASSUME NEW r, r = eio_fsync(fd) PROVE Does(r, <<"fsync", fd>>)
  BY <1>2 DEF eio_fsync, REQ, Ptr, Null, Does, Fresh, IsReq, OnePath, TwoPaths, Syscall, Refuse
<1>3. ASSUME NEW r, r = eio_fdatasync(fd) PROVE Does(r, <<"fdatasync", fd>>)
  BY <1>3 DEF eio_fdatasync, REQ, Ptr, Null, Does, Fresh, IsReq, OnePath, TwoPaths, Syscall, Refuse
<1>4. ASSUME NEW r, r = eio_syncfs(fd) PROVE Does(r, <<"syncfs", fd>>)
  BY <1>4 DEF eio_syncfs, REQ, Ptr, Null, Does, Fresh, IsReq, OnePath, TwoPaths, Syscall, eio__syncfs, Refuse
<1>5. ASSUME NEW r, r = eio_fstat(fd) PROVE Does(r, <<"fstat", fd>>)
  BY <1>5 DEF eio_fstat, REQ, Ptr, Null, Does, Fresh, IsReq, OnePath, TwoPaths, Syscall, Refuse
<1>6. ASSUME NEW r, r = eio_fstatvfs(fd) PROVE Does(r, <<"fstatvfs", fd>>)
  BY <1>6 DEF eio_fstatvfs, REQ, Ptr, Null, Does, Fresh, IsReq, OnePath, TwoPaths, Syscall, Refuse
<1>7. ASSUME NEW r, r = eio_dup2(fd, x) PROVE Does(r, <<"dup2", fd, x>>)
  BY <1>7 DEF eio_dup2, REQ, Ptr, Null, Does, Fresh, IsReq, OnePath, TwoPaths, Syscall, Refuse
<1>8. ASSUME NEW r, r = eio_ftruncate(fd, x) PROVE Does(r, <<"ftruncate", fd, x>>)
  BY <1>8 DEF eio_ftruncate, REQ, Ptr, Null, Does, Fresh, IsReq, OnePath, TwoPaths, Syscall, Refuse
<1>9. ASSUME NEW r, r = eio_fchmod(fd, x) PROVE Does(r, <<"fchmod", fd, x>>)
  BY <1>9 DEF eio_fchmod, REQ, Ptr, Null, Does, Fresh, IsReq, OnePath, TwoPaths, Syscall, Refuse
<1>10. ASSUME NEW r, r = eio_futime(fd, x, y) PROVE Does(r, <<"futimens", fd, TimesOf(x, y)>>)
  BY <1>10 DEF eio_futime, REQ, Ptr, Null, Does, Fresh, IsReq, OnePath, TwoPaths, Syscall, Times, TimesOf, Refuse
<1>11. ASSUME NEW r, r = eio_fchown(fd, x, y) PROVE Does(r, <<"fchown", fd, x, y>>)
  BY <1>11 DEF eio_fchown, REQ, Ptr, Null, Does, Fresh, IsReq, OnePath, TwoPaths, Syscall, Refuse
<1>12. ASSUME NEW r, r = eio_seek(fd, x, y) PROVE Does(r, <<"lseek", fd, x, y>>)
  BY <1>12 DEF eio_seek, REQ, Ptr, Null, Does, Fresh, IsReq, OnePath, TwoPaths, Syscall, eio__lseek, Refuse
<1>13. ASSUME NEW r, r = eio_readahead(fd, x, y) PROVE Does(r, <<"readahead", fd, x, y>>)
  BY <1>13 DEF eio_readahead, REQ, Ptr, Null, Does, Fresh, IsReq, OnePath, TwoPaths, Syscall, Refuse
<1>14. ASSUME NEW r, r = eio_sendfile(fd, x, y, w) PROVE Does(r, <<"eio__sendfile", fd, x, y, w>>)
  BY <1>14 DEF eio_sendfile, REQ, Ptr, Null, Does, Fresh, IsReq, OnePath, TwoPaths, Syscall, Refuse
<1>15. ASSUME NEW r, r = eio_sync_file_range(fd, x, y, w) PROVE Does(r, <<"sync_file_range", fd, x, y, w>>)
  BY <1>15 DEF eio_sync_file_range, REQ, Ptr, Null, Does, Fresh, IsReq, OnePath, TwoPaths, Syscall, eio__sync_file_range, Refuse
<1>16. ASSUME NEW r, r = eio_fallocate(fd, x, y, w) PROVE Does(r, <<"fallocate", fd, x, y, w>>)
  BY <1>16 DEF eio_fallocate, REQ, Ptr, Null, Does, Fresh, IsReq, OnePath, TwoPaths, Syscall, eio__fallocate, Refuse
<1> QED
  BY <1>1, <1>2, <1>3, <1>4, <1>5, <1>6, <1>7, <1>8, <1>9, <1>10, <1>11, <1>12, <1>13, <1>14, <1>15, <1>16

\* eio_read and eio_write use the position of the descriptor for a negative
\* offset.
LEMMA RangeRequests ==
    ASSUME NEW fd, NEW n \in Nat, NEW o \in Int
    PROVE  /\ Does(eio_read(fd, Null, n, o),
                   IF o >= 0 THEN <<"pread", fd, n, o>> ELSE <<"read", fd, n>>)
           /\ Does(eio_write(fd, Ptr("zbuf", ""), n, o),
                   IF o >= 0 THEN <<"pwrite", fd, n, o>> ELSE <<"write", fd, n>>)
<1>1. ASSUME NEW r, r = eio_read(fd, Null, n, o)
      PROVE  Does(r, IF o >= 0 THEN <<"pread", fd, n, o>> ELSE <<"read", fd, n>>)
  <2>1. Fresh(r) /\ r.type = "READ" /\ r.int1 = fd /\ r.size = n /\ r.offs = o
    BY <1>1 DEF eio_read, REQ, Ptr, Null, Fresh, IsReq, OnePath, TwoPaths
  <2> QED
    BY <2>1 DEF Does, Syscall, Refuse
<1>2. ASSUME NEW r, r = eio_write(fd, Ptr("zbuf", ""), n, o)
      PROVE  Does(r, IF o >= 0 THEN <<"pwrite", fd, n, o>> ELSE <<"write", fd, n>>)
  <2>1. Fresh(r) /\ r.type = "WRITE" /\ r.int1 = fd /\ r.size = n /\ r.offs = o
    BY <1>2 DEF eio_write, REQ, Ptr, Null, Fresh, IsReq, OnePath, TwoPaths
  <2> QED
    BY <2>1 DEF Does, Syscall, Refuse
<1> QED
  BY <1>1, <1>2

\* The request functions that take nothing, or a number
LEMMA OtherRequests ==
    ASSUME NEW x
    PROVE  Does(eio_nop, <<"none">>) /\ Does(eio_sync, <<"sync">>) /\ Does(eio_busy(x), <<"select", x>>)
<1>1. ASSUME NEW r, r = eio_nop PROVE Does(r, <<"none">>)
  BY <1>1 DEF eio_nop, REQ, Ptr, Null, Does, Fresh, IsReq, OnePath, TwoPaths, Syscall, Refuse
<1>2. ASSUME NEW r, r = eio_sync PROVE Does(r, <<"sync">>)
  BY <1>2 DEF eio_sync, REQ, Ptr, Null, Does, Fresh, IsReq, OnePath, TwoPaths, Syscall, Refuse
<1>3. ASSUME NEW r, r = eio_busy(x) PROVE Does(r, <<"select", x>>)
  BY <1>3 DEF eio_busy, REQ, Ptr, Null, Does, Fresh, IsReq, OnePath, TwoPaths, Syscall, Refuse
<1> QED
  BY <1>1, <1>2, <1>3

\* The request functions that take a path
LEMMA PathRequests ==
    ASSUME NEW p, NEW x, NEW y
    PROVE  /\ Does(eio_readlink(p), <<"readlinkat", p>>)
           /\ Does(eio_realpath(p), <<"eio__realpath", p>>)
           /\ Does(eio_stat(p), <<"fstatat", p, "follow">>)
           /\ Does(eio_lstat(p), <<"fstatat", p, "nofollow">>)
           /\ Does(eio_statvfs(p), <<"eio__statvfsat", p>>)
           /\ Does(eio_unlink(p), <<"unlinkat", p, "file">>)
           /\ Does(eio_rmdir(p), <<"unlinkat", p, "dir">>)
           /\ Does(eio_open(p, x, y), <<"openat", p, x, y>>)
           /\ Does(eio_utime(p, x, y), <<"utimensat", p, TimesOf(x, y)>>)
           /\ Does(eio_truncate(p, x), <<"eio__truncateat", p, x>>)
           /\ Does(eio_chown(p, x, y), <<"fchownat", p, x, y>>)
           /\ Does(eio_chmod(p, x), <<"fchmodat", p, x>>)
           /\ Does(eio_mkdir(p, x), <<"mkdirat", p, x>>)
           /\ Does(eio_readdir(p, x), <<"eio__scandir", p, x>>)
           /\ Does(eio_mknod(p, x, y), <<"mknodat", p, x, y>>)
<1>1. ASSUME NEW r, r = eio_readlink(p) PROVE Does(r, <<"readlinkat", p>>)
  <2>1. Fresh(r) /\ r.type = "READLINK" /\ r.ptr1.str = p
    BY <1>1, PathFresh DEF eio_readlink, eio__1path, OnePath
  <2> QED
    BY <2>1 DEF Does, Syscall, Refuse
<1>2. ASSUME NEW r, r = eio_realpath(p) PROVE Does(r, <<"eio__realpath", p>>)
  <2>1. Fresh(r) /\ r.type = "REALPATH" /\ r.ptr1.str = p
    BY <1>2, PathFresh DEF eio_realpath, eio__1path, OnePath
  <2> QED
    BY <2>1 DEF Does, Syscall, Refuse
<1>3. ASSUME NEW r, r = eio_stat(p) PROVE Does(r, <<"fstatat", p, "follow">>)
  <2>1. Fresh(r) /\ r.type = "STAT" /\ r.ptr1.str = p
    BY <1>3, PathFresh DEF eio_stat, eio__1path, OnePath
  <2> QED
    BY <2>1 DEF Does, Syscall, Refuse
<1>4. ASSUME NEW r, r = eio_lstat(p) PROVE Does(r, <<"fstatat", p, "nofollow">>)
  <2>1. Fresh(r) /\ r.type = "LSTAT" /\ r.ptr1.str = p
    BY <1>4, PathFresh DEF eio_lstat, eio__1path, OnePath
  <2> QED
    BY <2>1 DEF Does, Syscall, Refuse
<1>5. ASSUME NEW r, r = eio_statvfs(p) PROVE Does(r, <<"eio__statvfsat", p>>)
  <2>1. Fresh(r) /\ r.type = "STATVFS" /\ r.ptr1.str = p
    BY <1>5, PathFresh DEF eio_statvfs, eio__1path, OnePath
  <2> QED
    BY <2>1 DEF Does, Syscall, Refuse
<1>6. ASSUME NEW r, r = eio_unlink(p) PROVE Does(r, <<"unlinkat", p, "file">>)
  <2>1. Fresh(r) /\ r.type = "UNLINK" /\ r.ptr1.str = p
    BY <1>6, PathFresh DEF eio_unlink, eio__1path, OnePath
  <2> QED
    BY <2>1 DEF Does, Syscall, Refuse
<1>7. ASSUME NEW r, r = eio_rmdir(p) PROVE Does(r, <<"unlinkat", p, "dir">>)
  <2>1. Fresh(r) /\ r.type = "RMDIR" /\ r.ptr1.str = p
    BY <1>7, PathFresh DEF eio_rmdir, eio__1path, OnePath
  <2> QED
    BY <2>1 DEF Does, Syscall, Refuse
<1>8. ASSUME NEW r, r = eio_open(p, x, y) PROVE Does(r, <<"openat", p, x, y>>)
  <2>1. PICK q : q = PATH(REQ("OPEN"), p)
    OBVIOUS
  <2>2. Fresh(q) /\ q.type = "OPEN" /\ q.ptr1.str = p
    BY <2>1, PathFresh DEF OnePath
  <2> QED
    BY <1>8, <2>1, <2>2 DEF eio_open, Does, Fresh, IsReq, Syscall, Refuse
<1>9. ASSUME NEW r, r = eio_utime(p, x, y) PROVE Does(r, <<"utimensat", p, TimesOf(x, y)>>)
  <2>1. PICK q : q = PATH(REQ("UTIME"), p)
    OBVIOUS
  <2>2. Fresh(q) /\ q.type = "UTIME" /\ q.ptr1.str = p
    BY <2>1, PathFresh DEF OnePath
  <2> QED
    BY <1>9, <2>1, <2>2 DEF eio_utime, Does, Fresh, IsReq, Syscall, Times, TimesOf, Refuse
<1>10. ASSUME NEW r, r = eio_truncate(p, x) PROVE Does(r, <<"eio__truncateat", p, x>>)
  <2>1. PICK q : q = PATH(REQ("TRUNCATE"), p)
    OBVIOUS
  <2>2. Fresh(q) /\ q.type = "TRUNCATE" /\ q.ptr1.str = p
    BY <2>1, PathFresh DEF OnePath
  <2> QED
    BY <1>10, <2>1, <2>2 DEF eio_truncate, Does, Fresh, IsReq, Syscall, Refuse
<1>11. ASSUME NEW r, r = eio_chown(p, x, y) PROVE Does(r, <<"fchownat", p, x, y>>)
  <2>1. PICK q : q = PATH(REQ("CHOWN"), p)
    OBVIOUS
  <2>2. Fresh(q) /\ q.type = "CHOWN" /\ q.ptr1.str = p
    BY <2>1, PathFresh DEF OnePath
  <2> QED
    BY <1>11, <2>1, <2>2 DEF eio_chown, Does, Fresh, IsReq, Syscall, Refuse
<1>12. ASSUME NEW r, r = eio_chmod(p, x) PROVE Does(r, <<"fchmodat", p, x>>)
  <2>1. PICK q : q = PATH(REQ("CHMOD"), p)
    OBVIOUS
  <2>2. Fresh(q) /\ q.type = "CHMOD" /\ q.ptr1.str = p
    BY <2>1, PathFresh DEF OnePath
  <2> QED
    BY <1>12, <2>1, <2>2 DEF eio_chmod, Does, Fresh, IsReq, Syscall, Refuse
<1>13. ASSUME NEW r, r = eio_mkdir(p, x) PROVE Does(r, <<"mkdirat", p, x>>)
  <2>1. PICK q : q = PATH(REQ("MKDIR"), p)
    OBVIOUS
  <2>2. Fresh(q) /\ q.type = "MKDIR" /\ q.ptr1.str = p
    BY <2>1, PathFresh DEF OnePath
  <2> QED
    BY <1>13, <2>1, <2>2 DEF eio_mkdir, Does, Fresh, IsReq, Syscall, Refuse
<1>14. ASSUME NEW r, r = eio_readdir(p, x) PROVE Does(r, <<"eio__scandir", p, x>>)
  <2>1. PICK q : q = PATH(REQ("READDIR"), p)
    OBVIOUS
  <2>2. Fresh(q) /\ q.type = "READDIR" /\ q.ptr1.str = p
    BY <2>1, PathFresh DEF OnePath
  <2> QED
    BY <1>14, <2>1, <2>2 DEF eio_readdir, Does, Fresh, IsReq, Syscall, Refuse
<1>15. ASSUME NEW r, r = eio_mknod(p, x, y) PROVE Does(r, <<"mknodat", p, x, y>>)
  <2>1. PICK q : q = PATH(REQ("MKNOD"), p)
    OBVIOUS
  <2>2. Fresh(q) /\ q.type = "MKNOD" /\ q.ptr1.str = p
    BY <2>1, PathFresh DEF OnePath
  <2> QED
    BY <1>15, <2>1, <2>2 DEF eio_mknod, Does, Fresh, IsReq, Syscall, Refuse
<1> QED
  BY <1>1, <1>2, <1>3, <1>4, <1>5, <1>6, <1>7, <1>8, <1>9, <1>10, <1>11, <1>12, <1>13, <1>14, <1>15

\* The request functions that take two paths
LEMMA TwoPathRequests ==
    ASSUME NEW p, NEW q
    PROVE  /\ Does(eio_link(p, q), <<"linkat", p, q>>)
           /\ Does(eio_symlink(p, q), <<"symlinkat", p, q>>)
           /\ Does(eio_rename(p, q), <<"renameat2", p, q, 0>>)
<1>1. ASSUME NEW t \in TwoPaths, NEW r, r = eio__2path(t, p, q)
      PROVE  Fresh(r) /\ r.type = t /\ r.ptr1.str = p /\ r.ptr2.str = q /\ r.int2 = 0
  <2>1. IsReq(REQ(t))
    BY DEF REQ, Ptr, Null, IsReq
  <2>2. PICK s : s = PATH(REQ(t), p)
    OBVIOUS
  <2>3. IsReq(s)
    BY <2>1, <2>2 DEF IsReq, PATH
  <2>4. /\ s.type = t /\ s.ptr1.blk = "path" /\ s.ptr1.str = p /\ s.int2 = 0
        /\ "PTR1_FREE" \in s.flags
    BY <2>2 DEF PATH, REQ, Ptr, Null
  <2>5. r = [s EXCEPT !.ptr2 = Ptr("new_path", q), !.flags = @ \cup {"PTR2_FREE"}]
    BY <1>1, <2>2 DEF eio__2path
  <2>6. IsReq(r)
    BY <2>3, <2>5 DEF IsReq
  <2>7. /\ r.type = t /\ r.ptr1 = s.ptr1 /\ r.ptr2 = Ptr("new_path", q) /\ r.int2 = s.int2
        /\ r.flags = s.flags \cup {"PTR2_FREE"}
    BY <2>3, <2>4, <2>5 DEF IsReq
  <2> QED
    BY <2>4, <2>6, <2>7 DEF Fresh, Ptr, TwoPaths, OnePath
<1>2. ASSUME NEW r, r = eio_link(p, q) PROVE Does(r, <<"linkat", p, q>>)
  <2>1. Fresh(r) /\ r.type = "LINK" /\ r.ptr1.str = p /\ r.ptr2.str = q
    BY <1>1, <1>2 DEF eio_link, TwoPaths
  <2> QED
    BY <2>1 DEF Does, Syscall, Refuse
<1>3. ASSUME NEW r, r = eio_symlink(p, q) PROVE Does(r, <<"symlinkat", p, q>>)
  <2>1. Fresh(r) /\ r.type = "SYMLINK" /\ r.ptr1.str = p /\ r.ptr2.str = q
    BY <1>1, <1>3 DEF eio_symlink, TwoPaths
  <2> QED
    BY <2>1 DEF Does, Syscall, Refuse
<1>4. ASSUME NEW r, r = eio_rename(p, q) PROVE Does(r, <<"renameat2", p, q, 0>>)
  <2>1. Fresh(r) /\ r.type = "RENAME" /\ r.ptr1.str = p /\ r.ptr2.str = q /\ r.int2 = 0
    BY <1>1, <1>4 DEF eio_rename, TwoPaths
  <2> QED
    BY <2>1 DEF Does, Syscall, Refuse
<1> QED
  BY <1>2, <1>3, <1>4

-----------------------------------------------------------------------------
(* The PHP functions. *)

\* A function that only passes its arguments on
LEMMA PlainCall ==
    ASSUME NEW r, NEW a, NEW b, NEW fits, Does(r, b), fits => b = a
    PROVE  CallOK(C(Submit(r), a, fits))
BY DEF CallOK, C, Submit, Does

\* A call that is refused, as it has to be
LEMMA RefusedCall ==
    ASSUME NEW out, NEW a, NEW fits, out.ret # "req", fits => a = Refuse
    PROVE  CallOK(C(out, a, fits))
BY DEF CallOK, C

\* A call with arguments that do not fit
LEMMA UnfitCall ==
    ASSUME NEW out, NEW a, NEW fits, ~fits, out.ret = "req" => Fresh(out.req)
    PROVE  CallOK(C(out, a, fits))
BY DEF CallOK, C

\* A function that tests a path
LEMMA PathCall ==
    ASSUME NEW p \in Paths, NEW r, NEW a, NEW b, NEW fits, Does(r, b), fits => b = a
    PROVE  CallOK(C(EIO_CHECK_PATH_LEN(p, Submit(r)), OnPath(p, a), fits))
<1>1. CASE p.nul
  BY <1>1 DEF CallOK, C, EIO_CHECK_PATH_LEN, OnPath, RETURN_FALSE
<1>2. CASE ~p.nul
  BY <1>2, PlainCall DEF EIO_CHECK_PATH_LEN, OnPath
<1> QED
  BY <1>1, <1>2

LEMMA PathsCall ==
    ASSUME NEW p \in Paths, NEW q \in Paths, NEW r, NEW a, Does(r, a)
    PROVE  CallOK(C(EIO_CHECK_PATH_LEN(p, EIO_CHECK_PATH_LEN(q, Submit(r))),
                    OnPaths(p, q, a), TRUE))
<1>1. CASE p.nul \/ q.nul
  BY <1>1 DEF CallOK, C, EIO_CHECK_PATH_LEN, OnPaths, RETURN_FALSE
<1>2. CASE ~p.nul /\ ~q.nul
  BY <1>2, PlainCall DEF EIO_CHECK_PATH_LEN, OnPaths
<1> QED
  BY <1>1, <1>2

\* A function that converts a descriptor
LEMMA FdCall ==
    ASSUME NEW z \in Fds, NEW r, NEW a, NEW b, NEW fits, Does(r, b), fits => IsFd(z),
           fits /\ php_eio_zval_to_fd(z) = z.v => b = a
    PROVE  CallOK(C(IF php_eio_zval_to_fd(z) < 0 THEN RETURN_FALSE ELSE Submit(r),
                    OnFd(z, a), fits))
<1>1. CASE php_eio_zval_to_fd(z) < 0
  <2>1. fits => ~GoodFd(z)
    BY <1>1, FdFits
  <2> QED
    BY <1>1, <2>1 DEF CallOK, C, OnFd, RETURN_FALSE
<1>2. CASE ~(php_eio_zval_to_fd(z) < 0)
  <2>1. fits => GoodFd(z) /\ php_eio_zval_to_fd(z) = z.v
    BY <1>2, FdFits
  <2> QED
    BY <1>2, <2>1 DEF CallOK, C, OnFd, Submit, Does
<1> QED
  BY <1>1, <1>2

LEMMA FdsCall ==
    ASSUME NEW z \in Fds, NEW y \in Fds, NEW r, NEW a, NEW b, NEW fits, Does(r, b),
           fits => IsFd(z) /\ IsFd(y),
           fits /\ php_eio_zval_to_fd(z) = z.v /\ php_eio_zval_to_fd(y) = y.v => b = a
    PROVE  CallOK(C(IF php_eio_zval_to_fd(z) < 0 \/ php_eio_zval_to_fd(y) < 0
                    THEN RETURN_FALSE ELSE Submit(r),
                    OnFds(z, y, a), fits))
<1>1. CASE php_eio_zval_to_fd(z) < 0 \/ php_eio_zval_to_fd(y) < 0
  <2>1. fits => ~(GoodFd(z) /\ GoodFd(y))
    BY <1>1, FdFits
  <2> QED
    BY <1>1, <2>1 DEF CallOK, C, OnFds, RETURN_FALSE
<1>2. CASE ~(php_eio_zval_to_fd(z) < 0 \/ php_eio_zval_to_fd(y) < 0)
  <2>1. fits => /\ GoodFd(z) /\ php_eio_zval_to_fd(z) = z.v
                /\ GoodFd(y) /\ php_eio_zval_to_fd(y) = y.v
    BY <1>2, FdFits
  <2> QED
    BY <1>2, <2>1 DEF CallOK, C, OnFds, Submit, Does
<1> QED
  BY <1>1, <1>2

\* The functions that take one or two paths
LEMMA PathCallsOK ==
    \A c \in PathCalls : CallOK(c)
<1> DEFINE Rmdir(p) == C(PHP_eio_rmdir(p), OnPath(p, <<"unlinkat", p.text, "dir">>), TRUE)
           Unlink(p) == C(PHP_eio_unlink(p, TRUE), OnPath(p, <<"unlinkat", p.text, "file">>), TRUE)
           NotFound(p) == C(PHP_eio_unlink(p, FALSE), Refuse, TRUE)
           Readlink(p) == C(PHP_eio_readlink(p), OnPath(p, <<"readlinkat", p.text>>), TRUE)
           Realpath(p) == C(PHP_eio_realpath(p), OnPath(p, <<"eio__realpath", p.text>>), TRUE)
           Stat(p) == C(PHP_eio_stat(p), OnPath(p, <<"fstatat", p.text, "follow">>), TRUE)
           Lstat(p) == C(PHP_eio_lstat(p), OnPath(p, <<"fstatat", p.text, "nofollow">>), TRUE)
           Statvfs(p) == C(PHP_eio_statvfs(p), OnPath(p, <<"eio__statvfsat", p.text>>), TRUE)
           Link(p, q) == C(PHP_eio_link(p, q), OnPaths(p, q, <<"linkat", p.text, q.text>>), TRUE)
           Symlink(p, q) ==
             C(PHP_eio_symlink(p, q),
               OnPaths(p, q, <<"symlinkat", p.text, q.text>>), TRUE)
           Rename(p, q) ==
             C(PHP_eio_rename(p, q),
               OnPaths(p, q, <<"renameat2", p.text, q.text, 0>>), TRUE)
<1>1. ASSUME NEW p \in Paths PROVE CallOK(Rmdir(p))
  BY PathRequests, PathCall DEF PHP_eio_rmdir
<1>2. ASSUME NEW p \in Paths PROVE CallOK(Unlink(p))
  BY PathRequests, PathCall DEF PHP_eio_unlink
<1>3. ASSUME NEW p \in Paths PROVE CallOK(NotFound(p))
  BY RefusedCall DEF PHP_eio_unlink, EIO_CHECK_PATH_LEN, RETURN_FALSE, RETURN_TRUE
<1>4. ASSUME NEW p \in Paths PROVE CallOK(Readlink(p))
  BY PathRequests, PathCall DEF PHP_eio_readlink
<1>5. ASSUME NEW p \in Paths PROVE CallOK(Realpath(p))
  BY PathRequests, PathCall DEF PHP_eio_realpath
<1>6. ASSUME NEW p \in Paths PROVE CallOK(Stat(p))
  BY PathRequests, PathCall DEF PHP_eio_stat
<1>7. ASSUME NEW p \in Paths PROVE CallOK(Lstat(p))
  BY PathRequests, PathCall DEF PHP_eio_lstat
<1>8. ASSUME NEW p \in Paths PROVE CallOK(Statvfs(p))
  BY PathRequests, PathCall DEF PHP_eio_statvfs
<1>9. ASSUME NEW p \in Paths, NEW q \in Paths PROVE CallOK(Link(p, q))
  BY TwoPathRequests, PathsCall DEF PHP_eio_link
<1>10. ASSUME NEW p \in Paths, NEW q \in Paths PROVE CallOK(Symlink(p, q))
  BY TwoPathRequests, PathsCall DEF PHP_eio_symlink
<1>11. ASSUME NEW p \in Paths, NEW q \in Paths PROVE CallOK(Rename(p, q))
  BY TwoPathRequests, PathsCall DEF PHP_eio_rename
<1>12. PathCalls =
        {Rmdir(p) : p \in Paths}
            \cup {Unlink(p) : p \in Paths}
          \cup {NotFound(p) : p \in Paths}
          \cup {Readlink(p) : p \in Paths}
          \cup {Realpath(p) : p \in Paths}
          \cup {Stat(p) : p \in Paths}
          \cup {Lstat(p) : p \in Paths}
          \cup {Statvfs(p) : p \in Paths}
          \cup {Link(p, q) : p, q \in Paths}
          \cup {Symlink(p, q) : p, q \in Paths}
          \cup {Rename(p, q) : p, q \in Paths}
  BY DEF PathCalls
<1> HIDE DEF Rmdir, Unlink, NotFound, Readlink, Realpath, Stat, Lstat, Statvfs, Link, Symlink, Rename
<1> QED
  BY <1>1, <1>2, <1>3, <1>4, <1>5, <1>6, <1>7, <1>8, <1>9, <1>10, <1>11, <1>12

\* The functions that take a path and numbers
LEMMA PathLongCallsOK ==
    \A c \in PathLongCalls : CallOK(c)
<1> DEFINE Chmod(p, m) == C(PHP_eio_chmod(p, m), OnPath(p, <<"fchmodat", p.text, m>>), IsUint(m))
           Mkdir(p, m) == C(PHP_eio_mkdir(p, m), OnPath(p, <<"mkdirat", p.text, m>>), IsUint(m))
           Truncate(p, o) ==
             C(PHP_eio_truncate(p, o),
               <<"eio__truncateat", p.text, NotNegative(o)>>, ~p.nul)
           Readdir(p, f) ==
             C(PHP_eio_readdir(p, f),
               <<"eio__scandir", p.text,
               IF f \subseteq {"DENTS"} THEN f ELSE f \cup {"DENTS"}>>, ~p.nul)
           Open(p, f, m) ==
             C(PHP_eio_open(p, f, m),
               OnPath(p, <<"openat", p.text, f, IF m = 0 THEN DefaultMode ELSE m>>),
               IsInt(f) /\ IsUint(m))
           Chown(p, u, g) ==
             C(PHP_eio_chown(p, u, g),
               IF u = -1 /\ g = -1 THEN Refuse
               ELSE OnPath(p, <<"fchownat", p.text, Id(u), Id(g)>>),
               IsId(u) /\ IsId(g))
           Utime(p, a, m) ==
             C(PHP_eio_utime(p, a, m),
               OnPath(p, <<"utimensat", p.text, TimesOf(a, m)>>), TRUE)
           Mknod(p, m, d) ==
             C(PHP_eio_mknod(p, m, d),
               OnPath(p, <<"mknodat", p.text, m, d>>), IsUint(m))
<1>1. ASSUME NEW p \in Paths, NEW m \in Longs PROVE CallOK(Chmod(p, m))
  <2>1. Does(eio_chmod(p.text, ToUint(m)), <<"fchmodat", p.text, ToUint(m)>>)
    BY PathRequests
  <2>2. IsUint(m) => ToUint(m) = m
    BY ToUintFits, ArgumentAssumption
  <2> QED
    BY <2>1, <2>2, PathCall DEF PHP_eio_chmod
<1>2. ASSUME NEW p \in Paths, NEW m \in Longs PROVE CallOK(Mkdir(p, m))
  <2>1. Does(eio_mkdir(p.text, ToUint(m)), <<"mkdirat", p.text, ToUint(m)>>)
    BY PathRequests
  <2>2. IsUint(m) => ToUint(m) = m
    BY ToUintFits, ArgumentAssumption
  <2> QED
    BY <2>1, <2>2, PathCall DEF PHP_eio_mkdir
<1>3. ASSUME NEW p \in Paths, NEW o \in Longs PROVE CallOK(Truncate(p, o))
  BY PathRequests, PlainCall DEF PHP_eio_truncate, NotNegative
<1>4. ASSUME NEW p \in Paths, NEW f \in Flags PROVE CallOK(Readdir(p, f))
  <2>1. f \subseteq {"DENTS"} <=> ~(f \cap {"DIRS_FIRST", "STAT_ORDER"} # {})
    BY ArgumentAssumption
  <2> QED
    BY <2>1, PathRequests, PlainCall DEF PHP_eio_readdir
<1>5. ASSUME NEW p \in Paths, NEW f \in Longs, NEW m \in Longs PROVE CallOK(Open(p, f, m))
  <2> DEFINE mode == IF m = 0 THEN DefaultMode ELSE m
  <2>1. Does(eio_open(p.text, ToInt(f), ToUint(mode)), <<"openat", p.text, ToInt(f), ToUint(mode)>>)
    BY PathRequests
  <2>2. IsInt(f) => ToInt(f) = f
    BY ToIntFits, ArgumentAssumption
  <2>3. IsUint(DefaultMode) /\ DefaultMode \in Int
    BY WidthAssumption DEF DefaultMode, IsUint
  <2>4. IsUint(m) => ToUint(mode) = mode
    BY <2>3, ToUintFits, ArgumentAssumption
  <2> HIDE DEF mode
  <2> QED
    BY <2>1, <2>2, <2>4, PathCall DEF PHP_eio_open, mode
<1>6. ASSUME NEW p \in Paths, NEW u \in Longs, NEW g \in Longs PROVE CallOK(Chown(p, u, g))
  <2>1. Does(eio_chown(p.text, Id(u), Id(g)), <<"fchownat", p.text, Id(u), Id(g)>>)
    BY PathRequests
  <2>2. CASE u < 0 /\ g < 0
    <3>1. IsId(u) /\ IsId(g) => u = -1 /\ g = -1
      BY <2>2, ArgumentAssumption DEF IsId, IsUint
    <3>2. PHP_eio_chown(p, u, g) = RETURN_FALSE
      BY <2>2 DEF PHP_eio_chown, EIO_CHECK_PATH_LEN
    <3> QED
      BY <3>1, <3>2, RefusedCall DEF RETURN_FALSE
  <2>3. CASE ~(u < 0 /\ g < 0)
    <3>1. ~(u = -1 /\ g = -1)
      BY <2>3
    <3> QED
      BY <2>1, <2>3, <3>1, PathCall DEF PHP_eio_chown, ToUint, Id
  <2> QED
    BY <2>2, <2>3
<1>7. ASSUME NEW p \in Paths, NEW a \in Longs, NEW m \in Longs PROVE CallOK(Utime(p, a, m))
  BY PathRequests, PathCall DEF PHP_eio_utime
<1>8. ASSUME NEW p \in Paths, NEW m \in Longs, NEW d \in Longs PROVE CallOK(Mknod(p, m, d))
  <2>1. Does(eio_mknod(p.text, ToUint(m), d), <<"mknodat", p.text, ToUint(m), d>>)
    BY PathRequests
  <2>2. IsUint(m) => ToUint(m) = m
    BY ToUintFits, ArgumentAssumption
  <2> QED
    BY <2>1, <2>2, PathCall DEF PHP_eio_mknod
<1>9. PathLongCalls =
        {Chmod(p, m) : p \in Paths, m \in Longs}
            \cup {Mkdir(p, m) : p \in Paths, m \in Longs}
          \cup {Truncate(p, o) : p \in Paths, o \in Longs}
          \cup {Readdir(p, f) : p \in Paths, f \in Flags}
          \cup {Open(p, f, m) : p \in Paths, f, m \in Longs}
          \cup {Chown(p, u, g) : p \in Paths, u, g \in Longs}
          \cup {Utime(p, a, m) : p \in Paths, a, m \in Longs}
          \cup {Mknod(p, m, d) : p \in Paths, m, d \in Longs}
  BY DEF PathLongCalls
<1> HIDE DEF Chmod, Mkdir, Truncate, Readdir, Open, Chown, Utime, Mknod
<1> QED
  BY <1>1, <1>2, <1>3, <1>4, <1>5, <1>6, <1>7, <1>8, <1>9

\* The functions that take descriptors
LEMMA FdCallsOK ==
    \A c \in FdCalls : CallOK(c)
<1> DEFINE Close(z) == C(PHP_eio_close(z), OnFd(z, <<"close", z.v>>), IsFd(z))
           Fsync(z) == C(PHP_eio_fsync(z), OnFd(z, <<"fsync", z.v>>), IsFd(z))
           Fdatasync(z) == C(PHP_eio_fdatasync(z), OnFd(z, <<"fdatasync", z.v>>), IsFd(z))
           Syncfs(z) == C(PHP_eio_syncfs(z), OnFd(z, <<"syncfs", z.v>>), IsFd(z))
           Fstat(z) == C(PHP_eio_fstat(z), OnFd(z, <<"fstat", z.v>>), IsFd(z))
           Fstatvfs(z) == C(PHP_eio_fstatvfs(z), OnFd(z, <<"fstatvfs", z.v>>), IsFd(z))
           Dup2(z, y) ==
             C(PHP_eio_dup2(z, y),
               OnFds(z, y, <<"dup2", z.v, y.v>>), IsFd(z) /\ IsFd(y))
           Ftruncate(z, o) ==
             C(PHP_eio_ftruncate(z, o),
               OnFd(z, <<"ftruncate", z.v, NotNegative(o)>>), IsFd(z))
           Fchmod(z, m) ==
             C(PHP_eio_fchmod(z, m),
               OnFd(z, <<"fchmod", z.v, m>>), IsFd(z) /\ IsUint(m))
           Futime(z, a, m) ==
             C(PHP_eio_futime(z, a, m),
               OnFd(z, <<"futimens", z.v, TimesOf(a, m)>>), IsFd(z))
           Fchown(z, u, g) ==
             C(PHP_eio_fchown(z, u, g),
               IF u = -1 /\ g = -1 THEN Refuse
               ELSE OnFd(z, <<"fchown", z.v, Id(u), Id(g)>>),
               IsFd(z) /\ IsId(u) /\ IsId(g))
           Seek(z, o, w) ==
             C(PHP_eio_seek(z, o, w),
               OnFd(z, <<"lseek", z.v, o, w>>), IsFd(z) /\ IsInt(w))
           Readahead(z, o, n) ==
             C(PHP_eio_readahead(z, o, n),
               OnFd(z, <<"readahead", z.v, o, n>>), IsFd(z) /\ IsSize(n))
<1>1. ASSUME NEW z \in Fds PROVE CallOK(Close(z))
  BY FdRequests, FdCall DEF PHP_eio_close, WithFd
<1>2. ASSUME NEW z \in Fds PROVE CallOK(Fsync(z))
  BY FdRequests, FdCall DEF PHP_eio_fsync, WithFd
<1>3. ASSUME NEW z \in Fds PROVE CallOK(Fdatasync(z))
  BY FdRequests, FdCall DEF PHP_eio_fdatasync, WithFd
<1>4. ASSUME NEW z \in Fds PROVE CallOK(Syncfs(z))
  BY FdRequests, FdCall DEF PHP_eio_syncfs, WithFd
<1>5. ASSUME NEW z \in Fds PROVE CallOK(Fstat(z))
  BY FdRequests, FdCall DEF PHP_eio_fstat, WithFd
<1>6. ASSUME NEW z \in Fds PROVE CallOK(Fstatvfs(z))
  BY FdRequests, FdCall DEF PHP_eio_fstatvfs, WithFd
<1>7. ASSUME NEW z \in Fds, NEW y \in Fds PROVE CallOK(Dup2(z, y))
  BY FdRequests, FdsCall DEF PHP_eio_dup2, WithFds
<1>8. ASSUME NEW z \in Fds, NEW o \in Longs PROVE CallOK(Ftruncate(z, o))
  <2> DEFINE fd == php_eio_zval_to_fd(z)
  <2>1. Does(eio_ftruncate(fd, NotNegative(o)), <<"ftruncate", fd, NotNegative(o)>>)
    BY FdRequests
  <2> QED
    BY <2>1, FdCall DEF PHP_eio_ftruncate, WithFd, NotNegative
<1>9. ASSUME NEW z \in Fds, NEW m \in Longs PROVE CallOK(Fchmod(z, m))
  <2> DEFINE fd == php_eio_zval_to_fd(z)
  <2>1. Does(eio_fchmod(fd, ToUint(m)), <<"fchmod", fd, ToUint(m)>>)
    BY FdRequests
  <2>2. IsUint(m) => ToUint(m) = m
    BY ToUintFits, ArgumentAssumption
  <2> QED
    BY <2>1, <2>2, FdCall DEF PHP_eio_fchmod, WithFd
<1>10. ASSUME NEW z \in Fds, NEW a \in Longs, NEW m \in Longs PROVE CallOK(Futime(z, a, m))
  <2> DEFINE fd == php_eio_zval_to_fd(z)
  <2>1. Does(eio_futime(fd, a, m), <<"futimens", fd, TimesOf(a, m)>>)
    BY FdRequests
  <2> QED
    BY <2>1, FdCall DEF PHP_eio_futime, WithFd
<1>11. ASSUME NEW z \in Fds, NEW u \in Longs, NEW g \in Longs PROVE CallOK(Fchown(z, u, g))
  <2> DEFINE fd == php_eio_zval_to_fd(z)
  <2>1. Does(eio_fchown(fd, Id(u), Id(g)), <<"fchown", fd, Id(u), Id(g)>>)
    BY FdRequests
  <2>2. CASE u < 0 /\ g < 0
    <3>1. IsId(u) /\ IsId(g) => u = -1 /\ g = -1
      BY <2>2, ArgumentAssumption DEF IsId, IsUint
    <3>2. PHP_eio_fchown(z, u, g) = RETURN_FALSE
      BY <2>2 DEF PHP_eio_fchown
    <3> QED
      BY <3>1, <3>2, RefusedCall DEF RETURN_FALSE
  <2>3. CASE ~(u < 0 /\ g < 0)
    <3>1. ~(u = -1 /\ g = -1)
      BY <2>3
    <3> QED
      BY <2>1, <2>3, <3>1, FdCall DEF PHP_eio_fchown, WithFd, ToUint, Id
  <2> QED
    BY <2>2, <2>3
<1>12. ASSUME NEW z \in Fds, NEW o \in Longs, NEW w \in Longs PROVE CallOK(Seek(z, o, w))
  <2> DEFINE fd == php_eio_zval_to_fd(z)
  <2>1. Does(eio_seek(fd, o, ToInt(w)), <<"lseek", fd, o, ToInt(w)>>)
    BY FdRequests
  <2>2. IsInt(w) => ToInt(w) = w
    BY ToIntFits, ArgumentAssumption
  <2> QED
    BY <2>1, <2>2, FdCall DEF PHP_eio_seek, WithFd
<1>13. ASSUME NEW z \in Fds, NEW o \in Longs, NEW n \in Longs PROVE CallOK(Readahead(z, o, n))
  <2> DEFINE fd == php_eio_zval_to_fd(z)
  <2>1. Does(eio_readahead(fd, o, ToSize(n)), <<"readahead", fd, o, ToSize(n)>>)
    BY FdRequests
  <2>2. IsSize(n) => ToSize(n) = n
    BY ToSizeFits, ArgumentAssumption
  <2> QED
    BY <2>1, <2>2, FdCall DEF PHP_eio_readahead, WithFd
<1>14. FdCalls =
        {Close(z) : z \in Fds}
            \cup {Fsync(z) : z \in Fds}
          \cup {Fdatasync(z) : z \in Fds}
          \cup {Syncfs(z) : z \in Fds}
          \cup {Fstat(z) : z \in Fds}
          \cup {Fstatvfs(z) : z \in Fds}
          \cup {Dup2(z, y) : z, y \in Fds}
          \cup {Ftruncate(z, o) : z \in Fds, o \in Longs}
          \cup {Fchmod(z, m) : z \in Fds, m \in Longs}
          \cup {Futime(z, a, m) : z \in Fds, a, m \in Longs}
          \cup {Fchown(z, u, g) : z \in Fds, u, g \in Longs}
          \cup {Seek(z, o, w) : z \in Fds, o, w \in Longs}
          \cup {Readahead(z, o, n) : z \in Fds, o, n \in Longs}
  BY DEF FdCalls
<1> HIDE DEF Close, Fsync, Fdatasync, Syncfs, Fstat, Fstatvfs, Dup2, Ftruncate, Fchmod, Futime, Fchown, Seek, Readahead
<1> QED
  BY <1>1, <1>2, <1>3, <1>4, <1>5, <1>6, <1>7, <1>8, <1>9, <1>10, <1>11, <1>12, <1>13, <1>14

\* How many bytes eio_write writes
LEMMA NumBytesFits ==
    ASSUME NEW s \in StrLens, NEW l \in Longs, NEW n, n = IF l \in 1..s THEN l ELSE s
    PROVE  /\ NumBytes(s, l) = ToInt(n) /\ NumBytes(s, l) \in Int
           /\ IsInt(n) => NumBytes(s, l) = n /\ ToSize(NumBytes(s, l)) = n
<1>1. s \in Nat /\ l \in Int /\ n \in Nat
  BY ArgumentAssumption
<1>2. NumBytes(s, l) = ToInt(n)
  BY <1>1 DEF NumBytes
<1>3. IsInt(n) => IsSize(n)
  BY <1>1, WidthAssumption DEF IsInt, IsSize, INT_MAX
<1> QED
  BY <1>1, <1>2, <1>3, ToIntInt, ToIntFits, ToSizeFits

\* The functions that take a range of a file
LEMMA RangeCallsOK ==
    \A c \in RangeCalls : CallOK(c)
<1> DEFINE Read(z, n, o) ==
             C(PHP_eio_read(z, n, o),
               OnFd(z, IF o >= 0 THEN <<"pread", z.v, n, o>> ELSE <<"read", z.v, n>>),
               IsFd(z) /\ IsSize(n))
           Write(z, s, l, o) ==
             LET n == IF l \in 1..s THEN l ELSE s
             IN  C(PHP_eio_write(z, s, l, o),
                   IF n = 0 THEN Refuse
                   ELSE OnFd(z, IF o >= 0 THEN <<"pwrite", z.v, n, o>>
                        ELSE <<"write", z.v, n>>),
                   IsFd(z) /\ IsInt(n))
           Sendfile(z, y, o, n) ==
             C(PHP_eio_sendfile(z, y, o, n), OnFds(z, y, <<"eio__sendfile", z.v, y.v, o, n>>),
               IsFd(z) /\ IsFd(y) /\ IsSize(n))
           SyncFileRange(z, o, n, f) ==
             C(PHP_eio_sync_file_range(z, o, n, f),
               OnFd(z, <<"sync_file_range", z.v, o, n, f>>),
               IsFd(z) /\ IsSize(n) /\ IsUint(f))
           Fallocate(z, m, o, n) ==
             C(PHP_eio_fallocate(z, m, o, n), OnFd(z, <<"fallocate", z.v, m, o, n>>),
               IsFd(z) /\ IsInt(m) /\ IsSize(n))
<1>1. ASSUME NEW z \in Fds, NEW n \in Longs, NEW o \in Longs PROVE CallOK(Read(z, n, o))
  <2> DEFINE fd == php_eio_zval_to_fd(z)
  <2>1. Does(eio_read(fd, Null, ToSize(n), o),
             IF o >= 0 THEN <<"pread", fd, ToSize(n), o>> ELSE <<"read", fd, ToSize(n)>>)
    BY RangeRequests, ToSizeNat, ArgumentAssumption
  <2>2. IsSize(n) => ToSize(n) = n
    BY ToSizeFits, ArgumentAssumption
  <2> QED
    BY <2>1, <2>2, FdCall DEF PHP_eio_read, WithFd
<1>2. ASSUME NEW z \in Fds, NEW s \in StrLens, NEW l \in Longs, NEW o \in Longs PROVE CallOK(Write(z, s, l, o))
  <2>0. PICK n : n = IF l \in 1..s THEN l ELSE s
    OBVIOUS
  <2> SUFFICES CallOK(C(PHP_eio_write(z, s, l, o),
                        IF n = 0 THEN Refuse
                        ELSE OnFd(z, IF o >= 0 THEN <<"pwrite", z.v, n, o>> ELSE <<"write", z.v, n>>),
                        IsFd(z) /\ IsInt(n)))
    BY <2>0
  <2> DEFINE fd == php_eio_zval_to_fd(z)
             k == NumBytes(s, l)
  <2>1. k \in Int /\ ToSize(k) \in Nat /\ (IsInt(n) => k = n /\ ToSize(k) = n)
    BY <2>0, NumBytesFits, ToSizeNat
  <2>2. Does(eio_write(fd, Ptr("zbuf", ""), ToSize(k), o),
             IF o >= 0 THEN <<"pwrite", fd, ToSize(k), o>> ELSE <<"write", fd, ToSize(k)>>)
    BY <2>1, RangeRequests, ArgumentAssumption
  <2> HIDE DEF k
  <2>3. CASE k = 0
    <3>1. PHP_eio_write(z, s, l, o) = RETURN_FALSE
      BY <2>3 DEF PHP_eio_write, k
    <3> QED
      BY <2>1, <2>3, <3>1, RefusedCall DEF RETURN_FALSE
  <2>4. CASE k # 0 /\ n # 0
    <3>1. PHP_eio_write(z, s, l, o) =
            IF fd < 0 THEN RETURN_FALSE ELSE Submit(eio_write(fd, Ptr("zbuf", ""), ToSize(k), o))
      BY <2>4 DEF PHP_eio_write, k
    <3> QED
      BY <2>1, <2>2, <2>4, <3>1, FdCall
  <2>5. CASE k # 0 /\ n = 0
    <3>1. ~IsInt(n)
      BY <2>1, <2>5
    <3>2. PHP_eio_write(z, s, l, o) =
            IF fd < 0 THEN RETURN_FALSE ELSE Submit(eio_write(fd, Ptr("zbuf", ""), ToSize(k), o))
      BY <2>5 DEF PHP_eio_write, k
    <3> QED
      BY <2>2, <3>1, <3>2, UnfitCall DEF RETURN_FALSE, Submit, Does
  <2> QED
    BY <2>3, <2>4, <2>5
<1>3. ASSUME NEW z \in Fds, NEW y \in Fds, NEW o \in Longs, NEW n \in Longs PROVE CallOK(Sendfile(z, y, o, n))
  <2> DEFINE fd == php_eio_zval_to_fd(z)
             in == php_eio_zval_to_fd(y)
  <2>1. Does(eio_sendfile(fd, in, o, ToSize(n)), <<"eio__sendfile", fd, in, o, ToSize(n)>>)
    BY FdRequests
  <2>2. IsSize(n) => ToSize(n) = n
    BY ToSizeFits, ArgumentAssumption
  <2> QED
    BY <2>1, <2>2, FdsCall DEF PHP_eio_sendfile, WithFds
<1>4. ASSUME NEW z \in Fds, NEW o \in Longs, NEW n \in Longs, NEW f \in Longs PROVE CallOK(SyncFileRange(z, o, n, f))
  <2> DEFINE fd == php_eio_zval_to_fd(z)
  <2>1. Does(eio_sync_file_range(fd, o, ToSize(n), ToUint(f)), <<"sync_file_range", fd, o, ToSize(n), ToUint(f)>>)
    BY FdRequests
  <2>2. IsSize(n) => ToSize(n) = n
    BY ToSizeFits, ArgumentAssumption
  <2>3. IsUint(f) => ToUint(f) = f
    BY ToUintFits, ArgumentAssumption
  <2> QED
    BY <2>1, <2>2, <2>3, FdCall DEF PHP_eio_sync_file_range, WithFd
<1>5. ASSUME NEW z \in Fds, NEW m \in Longs, NEW o \in Longs, NEW n \in Longs PROVE CallOK(Fallocate(z, m, o, n))
  <2> DEFINE fd == php_eio_zval_to_fd(z)
  <2>1. Does(eio_fallocate(fd, ToInt(m), o, ToSize(n)), <<"fallocate", fd, ToInt(m), o, ToSize(n)>>)
    BY FdRequests
  <2>2. IsSize(n) => ToSize(n) = n
    BY ToSizeFits, ArgumentAssumption
  <2>3. IsInt(m) => ToInt(m) = m
    BY ToIntFits, ArgumentAssumption
  <2> QED
    BY <2>1, <2>2, <2>3, FdCall DEF PHP_eio_fallocate, WithFd
<1>6. RangeCalls =
        {Read(z, n, o) : z \in Fds, n, o \in Longs}
            \cup {Write(z, s, l, o) : z \in Fds, s \in StrLens, l, o \in Longs}
          \cup {Sendfile(z, y, o, n) : z, y \in Fds, o, n \in Longs}
          \cup {SyncFileRange(z, o, n, f) : z \in Fds, o, n, f \in Longs}
          \cup {Fallocate(z, m, o, n) : z \in Fds, m, o, n \in Longs}
  BY DEF RangeCalls
<1> HIDE DEF Read, Write, Sendfile, SyncFileRange, Fallocate
<1> QED
  BY <1>1, <1>2, <1>3, <1>4, <1>5, <1>6

\* The other functions
LEMMA OtherCallsOK ==
    \A c \in OtherCalls : CallOK(c)
<1> DEFINE Sync == C(PHP_eio_sync, <<"sync">>, TRUE)
           Nop == C(PHP_eio_nop, <<"none">>, TRUE)
           Busy(d) == C(PHP_eio_busy(d), <<"select", d>>, TRUE)
<1>1. CallOK(Sync)
  BY OtherRequests, PlainCall DEF PHP_eio_sync
<1>2. CallOK(Nop)
  BY OtherRequests, PlainCall DEF PHP_eio_nop
<1>3. ASSUME NEW d \in Longs PROVE CallOK(Busy(d))
  BY OtherRequests, PlainCall DEF PHP_eio_busy
<1>4. OtherCalls =
        {Sync, Nop}
            \cup {Busy(d) : d \in Longs}
  BY DEF OtherCalls
<1> HIDE DEF Sync, Nop, Busy
<1> QED
  BY <1>1, <1>2, <1>3, <1>4

\* Every call is refused or makes the request that does what it asks for.
LEMMA CallsOK ==
    \A c \in Calls \cup {NoCall} : CallOK(c)
<1>1. CallOK(NoCall)
  BY RefusedCall DEF NoCall, RETURN_FALSE
<1> QED
  BY <1>1, PathCallsOK, PathLongCallsOK, FdCallsOK, RangeCallsOK, OtherCallsOK DEF Calls

-----------------------------------------------------------------------------
(* The request on its way. *)

\* The pointer to the result or to the data and the flags are not arguments
\* of these system calls.
LEMMA SyscallSame ==
    ASSUME NEW r, NEW s, NEW x, NEW f, IsReq(r), r.type \in Alloc \cup {"WRITE"},
           s = [r EXCEPT !.ptr2 = x, !.flags = f]
    PROVE  Syscall(s) = Syscall(r)
<1>1. /\ s.type = r.type /\ s.int1 = r.int1 /\ s.size = r.size /\ s.offs = r.offs
      /\ s.ptr1 = r.ptr1
  BY DEF IsReq
<1>2. CASE r.type = "READ"
  BY <1>1, <1>2 DEF Syscall
<1>3. CASE r.type = "WRITE"
  BY <1>1, <1>3 DEF Syscall
<1>4. CASE r.type = "STAT"
  BY <1>1, <1>4 DEF Syscall
<1>5. CASE r.type = "LSTAT"
  BY <1>1, <1>5 DEF Syscall
<1>6. CASE r.type = "FSTAT"
  <2>1. Syscall(r) = <<"fstat", r.int1>>
    BY <1>6 DEF Syscall
  <2>2. Syscall(s) = <<"fstat", s.int1>>
    BY <1>1, <1>6 DEF Syscall
  <2> QED
    BY <1>1, <2>1, <2>2
<1>7. CASE r.type = "STATVFS"
  BY <1>1, <1>7 DEF Syscall
<1>8. CASE r.type = "FSTATVFS"
  <2>1. Syscall(r) = <<"fstatvfs", r.int1>>
    BY <1>8 DEF Syscall
  <2>2. Syscall(s) = <<"fstatvfs", s.int1>>
    BY <1>1, <1>8 DEF Syscall
  <2> QED
    BY <1>1, <2>1, <2>2
<1>9. CASE r.type = "READLINK"
  BY <1>1, <1>9 DEF Syscall
<1> QED
  BY <1>2, <1>3, <1>4, <1>5, <1>6, <1>7, <1>8, <1>9 DEF Alloc

\* The null pointer points to no block.
LEMMA NullBlk == Null.blk = "null"
BY DEF Null, Ptr

\* The blocks that the request function allocates for the paths
LEMMA CopiesAre ==
    ASSUME NEW r, Fresh(r), NEW b
    PROVE  b \in {Copies(r)[i] : i \in 1..Len(Copies(r))} <=>
              \/ b = "path" /\ r.type \in OnePath \cup TwoPaths
              \/ b = "new_path" /\ r.type \in TwoPaths
<1>1. CASE r.type \in TwoPaths
  <2>1. r.ptr1.blk = "path" /\ r.ptr2.blk = "new_path"
    BY <1>1 DEF Fresh
  <2>2. r.ptr1 # Null /\ r.ptr2 # Null
    BY <2>1, NullBlk
  <2>3. Copies(r) = <<"path", "new_path">>
    BY <2>2 DEF Copies
  <2> QED
    BY <1>1, <2>3
<1>2. CASE r.type \in OnePath
  <2>1. r.ptr1.blk = "path" /\ r.ptr2 = Null
    BY <1>2 DEF Fresh, OnePath, TwoPaths
  <2>2. r.ptr1 # Null
    BY <2>1, NullBlk
  <2>3. Copies(r) = <<"path">>
    BY <2>1, <2>2 DEF Copies
  <2> QED
    BY <1>2, <2>3 DEF OnePath, TwoPaths
<1>3. CASE r.type \notin OnePath \cup TwoPaths
  <2>1. Copies(r) = <<>>
    BY <1>3 DEF Copies, Fresh
  <2> QED
    BY <1>3, <2>1
<1> QED
  BY <1>1, <1>2, <1>3

LEMMA InitInv ==
    ASSUME Init
    PROVE  Inv
<1>1. AskedOK
  BY CallsOK DEF Init, AskedOK
<1> QED
  BY <1>1 DEF Init, REQ, Inv, PhaseOK, PhpPC, WorkerPC, MemoryOK, ErrnoBelongs, Reclaimed

\* A request that is submitted owns its paths.
LEMMA SubmitsMemoryOK ==
    ASSUME NEW r, NEW cb, NEW given, Fresh(r),
           \A b : b \in cb <=> b = "cb" /\ cb # {},
           PhaseOK, pc = "idle", CallSubmits(r, cb, given), UNCHANGED <<wptr, result, cancelled>>
    PROVE  MemoryOK'
<1>1. RequestOK'
  BY DEF CallSubmits, RequestOK, Fresh, OnePath, TwoPaths
<1>2. WorkerOK'
  BY DEF CallSubmits, WorkerOK, Fresh, OnePath, TwoPaths, Alloc
<1>3. HeapOK'
  <2> SUFFICES ASSUME NEW b
               PROVE  b \in heap' <=>
                         \/ b = "req"
                         \/ b = "cb" /\ data' = "cb"
                         \/ b = "dup" /\ req'.type = "WRITE" /\ pc' # "swap"
                         \/ b = "zbuf" /\ b \in heap'
                         \/ b # "null" /\ Owns(b)'
    BY DEF HeapOK
  <2>1. b # "null" /\ Owns(b)' <=>
              \/ b = "path" /\ r.type \in OnePath \cup TwoPaths
              \/ b = "new_path" /\ r.type \in TwoPaths
    BY DEF Owns, CallSubmits, Fresh, OnePath, TwoPaths
  <2>2. b = "cb" /\ data' = "cb" <=> b \in cb
    BY DEF CallSubmits
  <2>3. b \in heap' <=> \/ b \in cb
                        \/ b = "req"
                        \/ b = "zbuf" /\ r.type = "WRITE"
                        \/ b = "path" /\ r.type \in OnePath \cup TwoPaths
                        \/ b = "new_path" /\ r.type \in TwoPaths
    <3> DEFINE paths == {Copies(r)[i] : i \in 1..Len(Copies(r))}
    <3>1. b \in paths <=> \/ b = "path" /\ r.type \in OnePath \cup TwoPaths
                          \/ b = "new_path" /\ r.type \in TwoPaths
      BY CopiesAre
    <3>2. heap' = cb \cup {"req"} \cup paths \cup (IF r.type = "WRITE" THEN {"zbuf"} ELSE {})
      BY DEF CallSubmits
    <3> HIDE DEF paths
    <3> QED
      BY <3>1, <3>2
  <2>4. ~(req'.type = "WRITE" /\ pc' # "swap")
    BY DEF CallSubmits
  <2> QED
    BY <2>1, <2>2, <2>3, <2>4
<1>4. ZbufOK' /\ DataOK'
  BY DEF ZbufOK, DataOK, CallSubmits, PhaseOK
<1> QED
  BY <1>1, <1>2, <1>3, <1>4 DEF MemoryOK

LEMMA CallInv ==
    ASSUME Inv, Call
    PROVE  Inv'
<1>1. PICK c \in Calls, callback \in {"given", "null", "invalid"} :
        /\ pc = "idle" /\ call' = c
        /\ IF c.out.ret # "req"
           THEN pc' = "end" /\ UNCHANGED <<wpc, req, data, func, heap, nomem>>
           ELSE \/ CallFails(c.out.req, php_eio_new_eio_cb(callback))
                \/ CallSubmits(c.out.req, php_eio_new_eio_cb(callback), callback = "given")
        /\ UNCHANGED <<wptr, result, errorno, cancelled, failed>>
  BY DEF Call
<1>2. CallOK(c) /\ wpc = "none" /\ heap = {}
  BY <1>1, CallsOK DEF Inv, PhaseOK
<1>3. CASE c.out.ret # "req"
  <2>1. Reclaimed'
    BY <1>1, <1>2, <1>3 DEF Inv, PhaseOK, Reclaimed
  <2> QED
    BY <1>1, <1>2, <1>3, <2>1 DEF Inv, PhaseOK, PhpPC, AskedOK, MemoryOK, ErrnoBelongs
<1>4. CASE c.out.ret = "req" /\ CallFails(c.out.req, php_eio_new_eio_cb(callback))
  <2>1. php_eio_new_eio_cb(callback) \subseteq {"cb"}
    BY DEF php_eio_new_eio_cb
  <2>2. Reclaimed'
    BY <1>1, <1>4, <2>1 DEF CallFails, Reclaimed
  <2> QED
    BY <1>1, <1>2, <1>4, <2>2 DEF CallFails, Inv, PhaseOK, PhpPC, AskedOK, MemoryOK, ErrnoBelongs
<1>5. CASE /\ c.out.ret = "req"
           /\ CallSubmits(c.out.req, php_eio_new_eio_cb(callback), callback = "given")
  <2>1. Fresh(c.out.req) /\ (c.fits => Syscall(c.out.req) = c.asked)
    BY <1>2, <1>5 DEF CallOK
  <2>2. PhaseOK' /\ ErrnoBelongs' /\ Reclaimed'
    BY <1>1, <1>5 DEF CallSubmits, Inv, PhaseOK, PhpPC, WorkerPC, ErrnoBelongs, Reclaimed
  <2>3. AskedOK'
    BY <1>1, <1>2, <1>5, <2>1 DEF CallSubmits, AskedOK
  <2>4. MemoryOK'
    <3>1. \A b : b \in php_eio_new_eio_cb(callback) <=>
                    b = "cb" /\ php_eio_new_eio_cb(callback) # {}
      BY DEF php_eio_new_eio_cb
    <3> QED
      BY <1>1, <1>5, <2>1, <3>1, SubmitsMemoryOK DEF Inv
  <2> QED
    BY <2>2, <2>3, <2>4 DEF Inv
<1> QED
  BY <1>1, <1>3, <1>4, <1>5

\* The block that a pointer points to
LEMMA PtrBlk == \A b, s : Ptr(b, s).blk = b
BY DEF Ptr

LEMMA SwapBufferInv ==
    ASSUME Inv, SwapBuffer
    PROVE  Inv'
<1>1. wpc # "none" /\ RequestOK /\ WorkerOK /\ HeapOK /\ ZbufOK /\ DataOK
  BY DEF Inv, PhaseOK, MemoryOK, SwapBuffer
<1>2. IsReq(req) /\ req.type = "WRITE" /\ req.ptr2.blk = "zbuf"
  BY <1>1 DEF RequestOK, SwapBuffer
<1>3. PICK r : r = [req EXCEPT !.ptr1 = req.ptr1, !.ptr2 = Ptr("dup", ""), !.flags = req.flags]
  OBVIOUS
<1>4. /\ IsReq(r) /\ r.type = "WRITE" /\ r.size = req.size /\ r.ptr1 = req.ptr1
      /\ r.ptr2 = Ptr("dup", "") /\ r.flags = req.flags
  BY <1>2, <1>3 DEF IsReq
<1>5. req' = r /\ Syscall(r) = Syscall(req)
  <2>1. req' = [req EXCEPT !.ptr2 = Ptr("dup", ""), !.flags = req.flags]
    BY <1>2 DEF SwapBuffer, IsReq
  <2>2. req' = r
    BY <1>2, <1>3, <2>1 DEF IsReq
  <2> QED
    BY <1>2, <2>1, <2>2, SyscallSame
<1>6. r.ptr2.blk = "dup"
  BY <1>4, PtrBlk
<1>7. PhaseOK' /\ ErrnoBelongs' /\ Reclaimed'
  BY DEF Inv, SwapBuffer, PhaseOK, PhpPC, ErrnoBelongs, Reclaimed
<1>8. AskedOK'
  BY <1>5 DEF Inv, SwapBuffer, AskedOK
<1>9. RequestOK'
  BY <1>1, <1>2, <1>4, <1>5, <1>6 DEF RequestOK, SwapBuffer
<1>10. WorkerOK'
  BY <1>1, <1>2, <1>4, <1>5, <1>6 DEF WorkerOK, SwapBuffer, Alloc, TwoPaths
<1>11. HeapOK'
  BY <1>1, <1>2, <1>4, <1>5, <1>6 DEF HeapOK, Owns, SwapBuffer, RequestOK
<1>12. ZbufOK' /\ DataOK'
  BY <1>1, <1>2, <1>4, <1>5 DEF ZbufOK, DataOK, SwapBuffer
<1> QED
  BY <1>7, <1>8, <1>9, <1>10, <1>11, <1>12 DEF Inv, MemoryOK

LEMMA ReturnInv ==
    ASSUME Inv, Return
    PROVE  Inv'
<1>1. wpc # "none" /\ RequestOK /\ WorkerOK /\ HeapOK /\ ZbufOK /\ DataOK
  BY DEF Inv, PhaseOK, MemoryOK, Return
<1>2. req.type = "WRITE" /\ "PTR1_FREE" \notin req.flags /\ "PTR2_FREE" \notin req.flags
  BY <1>1 DEF RequestOK, Return
<1>3. PhaseOK' /\ AskedOK' /\ ErrnoBelongs' /\ Reclaimed'
  BY DEF Inv, Return, PhaseOK, PhpPC, AskedOK, ErrnoBelongs, Reclaimed
<1>4. RequestOK' /\ WorkerOK'
  BY <1>1, <1>2 DEF RequestOK, WorkerOK, Return
<1>5. HeapOK'
  BY <1>1, <1>2 DEF HeapOK, Owns, Return
<1>6. ZbufOK' /\ DataOK'
  BY <1>1, <1>2 DEF ZbufOK, DataOK, Return
<1> QED
  BY <1>3, <1>4, <1>5, <1>6 DEF Inv, MemoryOK

LEMMA CancelInv ==
    ASSUME Inv, Cancel
    PROVE  Inv'
<1>1. wpc # "none" /\ RequestOK /\ WorkerOK /\ HeapOK /\ ZbufOK /\ DataOK
  BY DEF Inv, PhaseOK, MemoryOK, Cancel
<1>2. PhaseOK' /\ AskedOK' /\ ErrnoBelongs' /\ Reclaimed'
  BY DEF Inv, Cancel, PhaseOK, AskedOK, ErrnoBelongs, Reclaimed
<1>3. RequestOK' /\ WorkerOK'
  BY <1>1 DEF RequestOK, WorkerOK, Cancel
<1>4. HeapOK'
  BY <1>1 DEF HeapOK, Owns, Cancel, RequestOK
<1>5. ZbufOK' /\ DataOK'
  BY <1>1 DEF ZbufOK, DataOK, Cancel
<1> QED
  BY <1>2, <1>3, <1>4, <1>5 DEF Inv, MemoryOK

\* eio_grp_cancel sets cancelled, and the record stays with its owner.
LEMMA GrpCancelInv ==
    ASSUME Inv, GrpCancel
    PROVE  Inv'
<1>1. wpc # "none" /\ RequestOK /\ WorkerOK /\ HeapOK /\ ZbufOK /\ DataOK
  BY DEF Inv, PhaseOK, MemoryOK, GrpCancel
<1>2. PhaseOK' /\ AskedOK' /\ ErrnoBelongs' /\ Reclaimed'
  BY DEF Inv, GrpCancel, PhaseOK, AskedOK, ErrnoBelongs, Reclaimed
<1>3. RequestOK' /\ WorkerOK'
  BY <1>1 DEF RequestOK, WorkerOK, GrpCancel
<1>4. HeapOK'
  BY <1>1 DEF HeapOK, Owns, GrpCancel
<1>5. ZbufOK' /\ DataOK'
  BY <1>1 DEF ZbufOK, DataOK, GrpCancel
<1> QED
  BY <1>2, <1>3, <1>4, <1>5 DEF Inv, MemoryOK

\* A request with a new buffer accounts for it.
LEMMA BufferAccounted ==
    ASSUME RequestOK, HeapOK, ZbufOK, req.type \notin {"WRITE"}, req.ptr2.blk = "null",
           NEW r, IsReq(r), r.type = req.type, r.size = req.size, r.ptr1 = req.ptr1,
           r.ptr2 = Ptr("buf", ""), r.flags = req.flags \cup {"PTR2_FREE"},
           req' = r, heap' = heap \cup {"buf"}, UNCHANGED <<pc, data>>
    PROVE  /\ RequestOK' /\ HeapOK' /\ ZbufOK'
           /\ r.type = req.type /\ r.ptr1 = req.ptr1 /\ r.ptr2.blk = "buf"
<1>2. r.ptr2.blk = "buf"
  BY PtrBlk
<1>3. RequestOK'
  BY <1>2 DEF RequestOK
<1>4. HeapOK'
  <2> SUFFICES ASSUME NEW b
               PROVE  b \in heap' <=>
                         \/ b = "req"
                         \/ b = "cb" /\ data' = "cb"
                         \/ b = "dup" /\ req'.type = "WRITE" /\ pc' # "swap"
                         \/ b = "zbuf" /\ b \in heap'
                         \/ b # "null" /\ Owns(b)'
    BY DEF HeapOK
  <2>1. b # "null" /\ Owns(b)' <=> b = "buf" \/ (b # "null" /\ Owns(b))
    BY <1>2 DEF Owns
  <2> QED
    BY <2>1 DEF HeapOK
<1> QED
  BY <1>2, <1>3, <1>4 DEF ZbufOK

\* The worker puts a buffer into the request.
LEMMA BufferMemoryOK ==
    ASSUME RequestOK, HeapOK, ZbufOK, req.type \notin {"WRITE"}, req.ptr2.blk = "null",
           NEW r, r = [req EXCEPT !.flags = @ \cup {"PTR2_FREE"}, !.ptr2 = Ptr("buf", "")],
           req' = r, heap' = heap \cup {"buf"}, UNCHANGED <<pc, data>>
    PROVE  /\ RequestOK' /\ HeapOK' /\ ZbufOK'
           /\ r.type = req.type /\ r.ptr1 = req.ptr1 /\ r.ptr2.blk = "buf"
<1> DEFINE x == Ptr("buf", "")
           f == req.flags \cup {"PTR2_FREE"}
<1>1. IsReq(req) /\ r = [req EXCEPT !.flags = f, !.ptr2 = x]
  BY DEF RequestOK
<1> HIDE DEF x, f
<1>2. /\ IsReq(r) /\ r.type = req.type /\ r.size = req.size /\ r.ptr1 = req.ptr1
      /\ r.ptr2 = x /\ r.flags = f
  BY <1>1 DEF IsReq
<1> QED
  BY <1>2, BufferAccounted DEF x, f

\* The worker marks the buffer that it did not get.
LEMMA NoBufferMemoryOK ==
    ASSUME RequestOK, HeapOK, ZbufOK, req.type \notin {"WRITE"}, req.ptr2.blk = "null",
           NEW r, r = [req EXCEPT !.flags = @ \cup {"PTR2_FREE"}],
           req' = r, UNCHANGED <<heap, pc, data>>
    PROVE  RequestOK' /\ HeapOK' /\ ZbufOK'
<1>1. /\ IsReq(r) /\ r.type = req.type /\ r.size = req.size /\ r.ptr1 = req.ptr1
      /\ r.ptr2 = req.ptr2 /\ r.flags = req.flags \cup {"PTR2_FREE"}
  BY DEF RequestOK, IsReq
<1>2. RequestOK'
  BY <1>1 DEF RequestOK
<1>3. ASSUME NEW b PROVE b # "null" => (Owns(b)' <=> Owns(b))
  BY <1>1 DEF Owns
<1>4. HeapOK'
  BY <1>1, <1>3 DEF HeapOK
<1> QED
  BY <1>1, <1>2, <1>4 DEF ZbufOK

LEMMA WorkerTakeInv ==
    ASSUME Inv, WorkerTake
    PROVE  Inv'
<1>1. /\ RequestOK /\ WorkerOK /\ HeapOK /\ ZbufOK /\ DataOK
      /\ wpc = "queue" /\ UNCHANGED <<pc, call, cancelled, data, func, nomem>>
  BY DEF Inv, MemoryOK, WorkerTake
<1>2. ErrnoBelongs' /\ Reclaimed' /\ PhaseOK' /\ DataOK'
  <2>1. \/ wpc' = "call" /\ UNCHANGED <<result, errorno, failed>>
        \/ \E why : WorkerFails(why)
    BY DEF WorkerTake, ALLOC
  <2>2. wpc' \in {"call", "done"} /\ result' \in Int /\ ErrnoBelongs'
    BY <1>1, <2>1 DEF WorkerFails, DataOK, ErrnoBelongs
  <2>3. pc # "end" /\ pc # "idle"
    BY <1>1 DEF Inv, PhaseOK
  <2>4. PhaseOK'
    BY <1>1, <2>2, <2>3 DEF Inv, PhaseOK, WorkerPC
  <2>5. DataOK'
    BY <1>1, <2>2 DEF DataOK
  <2> QED
    BY <1>1, <2>2, <2>3, <2>4, <2>5 DEF Reclaimed
<1>3. CASE cancelled
  <2>1. wpc' = "done" /\ result' = -1 /\ UNCHANGED <<req, wptr, heap>>
    BY <1>3 DEF WorkerTake, WorkerFails
  <2>2. AskedOK' /\ RequestOK' /\ WorkerOK' /\ HeapOK' /\ ZbufOK'
    BY <1>1, <2>1 DEF Inv, AskedOK, RequestOK, WorkerOK, HeapOK, Owns, ZbufOK
  <2> QED
    BY <1>2, <2>2 DEF Inv, MemoryOK
<1>4. CASE ~cancelled /\ req.type \in Alloc
  <2>1. req.ptr2.blk = "null" /\ req.type # "WRITE" /\ IsReq(req)
    BY <1>1, <1>4 DEF RequestOK, WorkerOK, Alloc, TwoPaths
  <2>2. ALLOC
    BY <1>4 DEF WorkerTake
  <2>3. CASE /\ req' = [req EXCEPT !.flags = @ \cup {"PTR2_FREE"}]
             /\ WorkerFails("nomem") /\ UNCHANGED <<wptr, heap>>
    <3>1. RequestOK' /\ HeapOK' /\ ZbufOK'
      BY <1>1, <2>1, <2>3, NoBufferMemoryOK
    <3>2. AskedOK' /\ WorkerOK'
      BY <1>1, <2>3 DEF Inv, WorkerFails, AskedOK, WorkerOK
    <3> QED
      BY <1>2, <3>1, <3>2 DEF Inv, MemoryOK
  <2>4. CASE /\ req' = [req EXCEPT !.flags = @ \cup {"PTR2_FREE"}, !.ptr2 = Ptr("buf", "")]
             /\ wptr' = Ptr("buf", "") /\ heap' = heap \cup {"buf"} /\ wpc' = "call"
    <3>1. /\ RequestOK' /\ HeapOK' /\ ZbufOK' /\ req'.type = req.type
          /\ req'.ptr1 = req.ptr1 /\ req'.ptr2.blk = "buf"
      BY <1>1, <2>1, <2>4, BufferMemoryOK
    <3>2. wptr'.blk = "buf"
      BY <2>4, PtrBlk
    <3>3. WorkerOK'
      BY <1>1, <1>4, <2>4, <3>1, <3>2 DEF WorkerOK, Alloc
    <3>4. Syscall(req') = Syscall(req)
      <4>1. req' = [req EXCEPT !.ptr2 = Ptr("buf", ""), !.flags = req.flags \cup {"PTR2_FREE"}]
        BY <2>1, <2>4 DEF IsReq
      <4> QED
        BY <1>4, <2>1, <4>1, SyscallSame
    <3>5. AskedOK'
      BY <1>1, <2>4, <3>4 DEF Inv, AskedOK
    <3> QED
      BY <1>2, <3>1, <3>3, <3>5 DEF Inv, MemoryOK
  <2> QED
    BY <2>2, <2>3, <2>4 DEF ALLOC
<1>5. CASE ~cancelled /\ req.type \notin Alloc
  <2>1. wpc' = "call" /\ wptr' = req.ptr2 /\ UNCHANGED <<req, result, heap>>
    BY <1>5 DEF WorkerTake
  <2>2. AskedOK' /\ RequestOK' /\ WorkerOK' /\ HeapOK' /\ ZbufOK'
    BY <1>1, <1>5, <2>1 DEF Inv, AskedOK, RequestOK, WorkerOK, HeapOK, Owns, ZbufOK
  <2> QED
    BY <1>2, <2>2 DEF Inv, MemoryOK
<1> QED
  BY <1>3, <1>4, <1>5

\* eio__scandir puts its buffers into the place of the path.
LEMMA ScandirMemoryOK ==
    ASSUME RequestOK, WorkerOK, HeapOK, wpc = "call", req.type = "READDIR",
           NEW got \in SUBSET {"names", "dents"}, ScandirOpens(got), UNCHANGED <<pc, data>>
    PROVE  /\ RequestOK' /\ HeapOK' /\ ZbufOK' /\ req'.type = "READDIR"
           /\ "names" \in got => req'.ptr2.blk # "null"
<1> DEFINE At(blk) == IF blk \in got THEN Ptr(blk, "") ELSE Null
<1> HIDE DEF At
<1>1. PICK r : r = [req EXCEPT !.ptr1 = At("dents"), !.ptr2 = At("names"),
                               !.flags = {"PTR1_FREE", "PTR2_FREE"}]
  OBVIOUS
<1>2. IsReq(req) /\ req.ptr1.blk = "path" /\ req.ptr2.blk = "null" /\ "PTR1_FREE" \in req.flags
  BY DEF RequestOK, WorkerOK
<1>3. /\ IsReq(r) /\ r.type = "READDIR" /\ r.ptr1 = At("dents") /\ r.ptr2 = At("names")
      /\ r.flags = {"PTR1_FREE", "PTR2_FREE"}
  BY <1>1, <1>2 DEF IsReq
<1>4. req' = r /\ heap' = (heap \ {"path"}) \cup got
  BY <1>1 DEF ScandirOpens, At
<1>5. /\ r.ptr1.blk = IF "dents" \in got THEN "dents" ELSE "null"
      /\ r.ptr2.blk = IF "names" \in got THEN "names" ELSE "null"
  BY <1>3, PtrBlk, NullBlk DEF At
<1>6. RequestOK'
  BY <1>3, <1>4, <1>5 DEF RequestOK
<1>7. HeapOK'
  <2> SUFFICES ASSUME NEW b
               PROVE  b \in heap' <=>
                         \/ b = "req"
                         \/ b = "cb" /\ data' = "cb"
                         \/ b = "dup" /\ req'.type = "WRITE" /\ pc' # "swap"
                         \/ b = "zbuf" /\ b \in heap'
                         \/ b # "null" /\ Owns(b)'
    BY DEF HeapOK
  <2>1. b # "null" /\ Owns(b)' <=> b \in got
    BY <1>3, <1>4, <1>5 DEF Owns
  <2>2. b # "null" /\ Owns(b) <=> b = "path"
    BY <1>2 DEF Owns
  <2>3. b \in heap <=> \/ b = "req"
                       \/ b = "cb" /\ data = "cb"
                       \/ b = "zbuf" /\ b \in heap
                       \/ b = "path"
    BY <2>2 DEF HeapOK
  <2> QED
    BY <1>3, <1>4, <2>1, <2>3
<1> QED
  BY <1>3, <1>4, <1>5, <1>6, <1>7 DEF ZbufOK

\* What the worker changes
LEMMA WorkerMovesOK ==
    ASSUME Inv, wpc \in {"call", "opened"}, wpc' \in {"opened", "done"},
           UNCHANGED <<pc, call, cancelled, data, func, nomem>>,
           result' \in Int, ErrnoBelongs',
           RequestOK' /\ WorkerOK' /\ HeapOK' /\ ZbufOK'
    PROVE  Inv'
<1>1. pc # "end" /\ pc # "idle"
  BY DEF Inv, PhaseOK
<1>2. PhaseOK' /\ Reclaimed'
  BY <1>1 DEF Inv, PhaseOK, WorkerPC, Reclaimed
<1>3. AskedOK'
  BY DEF Inv, AskedOK
<1>4. DataOK'
  BY DEF Inv, MemoryOK, DataOK
<1> QED
  BY <1>2, <1>3, <1>4 DEF Inv, MemoryOK

LEMMA WorkerCallInv ==
    ASSUME Inv, WorkerCall
    PROVE  Inv'
<1>1. /\ RequestOK /\ WorkerOK /\ HeapOK /\ ZbufOK /\ DataOK
      /\ wpc = "call" /\ UNCHANGED <<pc, call, wptr, cancelled, data, func, nomem>>
  BY DEF Inv, MemoryOK, WorkerCall
<1>2. ASSUME NEW why, WorkerFails(why), UNCHANGED <<req, heap>>
      PROVE  Inv'
  <2>1. wpc' = "done" /\ result' = -1 /\ errorno' = failed'
    BY <1>2 DEF WorkerFails
  <2>2. ErrnoBelongs' /\ RequestOK' /\ WorkerOK' /\ HeapOK' /\ ZbufOK'
    BY <1>1, <1>2, <2>1 DEF ErrnoBelongs, RequestOK, WorkerOK, HeapOK, Owns, ZbufOK
  <2> QED
    BY <1>1, <2>1, <2>2, WorkerMovesOK
<1>3. CASE req.type \in OpensPath /\ wpc' = "opened"
           /\ UNCHANGED <<req, result, errorno, failed, heap>>
  <2>1. ErrnoBelongs' /\ RequestOK' /\ WorkerOK' /\ HeapOK' /\ ZbufOK' /\ result' \in Int
    BY <1>1, <1>3
       DEF ErrnoBelongs, RequestOK, WorkerOK, HeapOK, Owns, ZbufOK, DataOK, OpensPath
  <2> QED
    BY <1>1, <1>3, <2>1, WorkerMovesOK
<1>4. CASE req.type = "REALPATH" /\ RealpathSucceeds
  <2>1. req.ptr2.blk = "null"
    BY <1>1, <1>4 DEF WorkerOK
  <2>2. CASE /\ req' = [req EXCEPT !.flags = @ \cup {"PTR2_FREE"}]
             /\ WorkerFails("nomem") /\ UNCHANGED heap
    <3>1. RequestOK' /\ HeapOK' /\ ZbufOK'
      BY <1>1, <1>4, <2>1, <2>2, NoBufferMemoryOK
    <3>2. wpc' = "done" /\ result' = -1 /\ ErrnoBelongs' /\ WorkerOK'
      BY <2>2 DEF WorkerFails, ErrnoBelongs, WorkerOK
    <3> QED
      BY <1>1, <3>1, <3>2, WorkerMovesOK
  <2>3. CASE /\ req' = [req EXCEPT !.flags = @ \cup {"PTR2_FREE"}, !.ptr2 = Ptr("buf", "")]
             /\ heap' = heap \cup {"buf"} /\ wpc' = "done" /\ result' = 0
    <3>1. RequestOK' /\ HeapOK' /\ ZbufOK' /\ req'.ptr2.blk = "buf"
      BY <1>1, <1>4, <2>1, <2>3, BufferMemoryOK
    <3>2. result' \in Int /\ ErrnoBelongs'
      BY <2>3 DEF ErrnoBelongs
    <3>3. WorkerOK'
      BY <2>3, <3>1 DEF WorkerOK
    <3> QED
      BY <1>1, <2>3, <3>1, <3>2, <3>3, WorkerMovesOK
  <2> QED
    BY <1>4, <2>2, <2>3 DEF RealpathSucceeds
<1>5. ASSUME req.type = "READDIR", NEW got \in SUBSET {"names", "dents"}, ScandirOpens(got),
             wpc' = "done", result' \in Int, ErrnoBelongs', "names" \in got \/ result' = -1
      PROVE  Inv'
  <2>1. /\ RequestOK' /\ HeapOK' /\ ZbufOK' /\ req'.type = "READDIR"
        /\ "names" \in got => req'.ptr2.blk # "null"
    BY <1>1, <1>5, ScandirMemoryOK
  <2>2. WorkerOK'
    BY <1>5, <2>1 DEF WorkerOK
  <2> QED
    BY <1>1, <1>5, <2>1, <2>2, WorkerMovesOK
<1>6. ScandirBufs \subseteq {"names", "dents"} /\ "names" \in ScandirBufs
  BY DEF ScandirBufs
<1>7. CASE /\ req.type = "READDIR" /\ ScandirOpens(ScandirBufs)
           /\ \/ wpc' = "done" /\ result' = 0 /\ errorno' = "stale" /\ UNCHANGED failed
              \/ WorkerFails(IF cancelled THEN "cancelled" ELSE "call")
  <2>1. wpc' = "done" /\ result' \in Int /\ ErrnoBelongs'
    BY <1>7 DEF WorkerFails, ErrnoBelongs
  <2> QED
    BY <1>5, <1>6, <1>7, <2>1
<1>8. CASE /\ req.type = "READDIR"
           /\ \E got \in SUBSET ScandirBufs \ {ScandirBufs} : ScandirOpens(got)
           /\ WorkerFails("nomem")
  <2>1. PICK got \in SUBSET ScandirBufs : ScandirOpens(got)
    BY <1>8
  <2>2. wpc' = "done" /\ result' = -1 /\ ErrnoBelongs'
    BY <1>8 DEF WorkerFails, ErrnoBelongs
  <2> QED
    BY <1>5, <1>6, <1>8, <2>1, <2>2
<1>9. CASE /\ req.type \notin OpensPath \cup {"REALPATH", "READDIR"}
           /\ wpc' = "done" /\ result' \in Results(req) /\ errorno' = "stale"
           /\ UNCHANGED <<req, failed, heap>>
  <2>1. result' \in Nat
    BY <1>1, <1>9 DEF Results, RequestOK
  <2>2. ErrnoBelongs' /\ RequestOK' /\ WorkerOK' /\ HeapOK' /\ ZbufOK'
    BY <1>1, <1>9, <2>1 DEF ErrnoBelongs, RequestOK, WorkerOK, HeapOK, Owns, ZbufOK
  <2> QED
    BY <1>1, <1>9, <2>1, <2>2, WorkerMovesOK
<1> QED
  BY <1>2, <1>3, <1>4, <1>7, <1>8, <1>9 DEF WorkerCall, WorkerSucceeds

LEMMA WorkerOpenedInv ==
    ASSUME Inv, WorkerOpened
    PROVE  Inv'
<1>1. /\ RequestOK /\ WorkerOK /\ HeapOK /\ ZbufOK /\ DataOK
      /\ wpc = "opened" /\ wpc' = "done" /\ result' \in {0, -1} /\ ErrnoBelongs'
      /\ UNCHANGED <<pc, call, req, wptr, cancelled, data, func, heap, nomem>>
  BY DEF Inv, MemoryOK, WorkerOpened, ErrnoBelongs, silent_close
<1>2. req.type \notin {"REALPATH", "READDIR"}
  BY <1>1 DEF WorkerOK, OpensPath
<1>3. RequestOK' /\ WorkerOK' /\ HeapOK' /\ ZbufOK'
  BY <1>1, <1>2 DEF RequestOK, WorkerOK, HeapOK, Owns, ZbufOK
<1> QED
  BY <1>1, <1>3, WorkerMovesOK

LEMMA eio_finishInv ==
    ASSUME Inv, eio_finish
    PROVE  Inv'
<1>1. RequestOK /\ HeapOK /\ DataOK /\ pc = "script" /\ wpc = "done"
  BY DEF Inv, MemoryOK, eio_finish
<1>2. PhaseOK' /\ AskedOK' /\ MemoryOK' /\ ErrnoBelongs'
  BY DEF Inv, eio_finish, PhaseOK, PhpPC, WorkerPC, AskedOK, MemoryOK, ErrnoBelongs
<1>3. Reclaimed'
  <2> DEFINE dupLeft == req.type = "WRITE" /\ (cancelled \/ result < 0 \/ data = "null" \/ ~func)
             cbLeft == cancelled /\ data = "cb"
  <2>1. req'.type = req.type /\ UNCHANGED <<cancelled, result, data, func>> /\ ~nomem'
    BY <1>1 DEF eio_finish, RequestOK, IsReq, Inv, PhaseOK
  <2>2. SUFFICES \A b : b \in heap' /\ b # "zbuf" <=> (b = "dup" /\ dupLeft) \/ (b = "cb" /\ cbLeft)
    <3>1. heap' \ {"zbuf"} = (IF dupLeft THEN {"dup"} ELSE {}) \cup (IF cbLeft THEN {"cb"} ELSE {})
      BY <2>2
    <3>2. QED
      BY <2>1, <3>1 DEF Reclaimed
  <2>3. \A b : b \in heap' <=> /\ b \in heap /\ b \notin php_eio_res_cb.freed
                               /\ b \notin eio_destroy(php_eio_res_cb.ptr2)
    BY DEF eio_finish
  <2>4. \A b : b \in eio_destroy(php_eio_res_cb.ptr2) <=>
                  \/ b = "req"
                  \/ "PTR1_FREE" \in req.flags /\ b = req.ptr1.blk
                  \/ "PTR2_FREE" \in req.flags /\ b = php_eio_res_cb.ptr2.blk
    BY DEF eio_destroy
  <2>5. req.type # "WRITE" => php_eio_res_cb.ptr2 = req.ptr2
    BY DEF php_eio_res_cb
  <2>6. \A b : b \in eio_destroy(php_eio_res_cb.ptr2) <=> b = "req" \/ Owns(b)
    BY <1>1, <2>4, <2>5 DEF Owns, RequestOK
  <2>7. ~Owns("cb") /\ ~Owns("dup")
    BY <1>1 DEF Owns, RequestOK
  <2>8. result \in Int /\ data \in {"null", "cb"}
    BY <1>1 DEF DataOK
  <2>9. "cb" \in php_eio_res_cb.freed <=> data = "cb" /\ ~cancelled
    <3>1. CASE data = "null" \/ cancelled
      BY <2>8, <3>1 DEF php_eio_res_cb
    <3>2. CASE data # "null" /\ ~cancelled
      BY <2>8, <3>2 DEF php_eio_res_cb
    <3>3. QED
      BY <3>1, <3>2
  <2>10. req.type = "WRITE" => ("dup" \in php_eio_res_cb.freed <=> ~dupLeft)
    <3>1. req.type = "WRITE" => req.ptr2.blk = "dup"
      BY <1>1 DEF RequestOK
    <3>2. result < 0 <=> ~(result >= 0)
      BY <2>8
    <3>3. QED
      BY <3>1, <3>2 DEF php_eio_res_cb
  <2> HIDE DEF dupLeft, cbLeft
  <2>11. ASSUME NEW b, b \in heap', b # "zbuf"
         PROVE  (b = "dup" /\ dupLeft) \/ (b = "cb" /\ cbLeft)
    <3>1. b \in heap /\ b # "req" /\ ~Owns(b) /\ b \notin php_eio_res_cb.freed
      BY <2>3, <2>6, <2>11
    <3>2. (b = "cb" /\ data = "cb") \/ (b = "dup" /\ req.type = "WRITE")
      BY <1>1, <2>11, <3>1 DEF HeapOK
    <3>3. QED
      BY <2>9, <2>10, <3>1, <3>2 DEF cbLeft
  <2>12. ASSUME dupLeft PROVE "dup" \in heap'
    <3>1. req.type = "WRITE"
      BY <2>12 DEF dupLeft
    <3>2. "dup" \in heap
      BY <1>1, <3>1 DEF HeapOK
    <3>3. QED
      BY <2>3, <2>6, <2>7, <2>10, <2>12, <3>1, <3>2
  <2>13. ASSUME cbLeft PROVE "cb" \in heap'
    <3>1. data = "cb" /\ cancelled
      BY <2>13 DEF cbLeft
    <3>2. "cb" \in heap
      BY <1>1, <3>1 DEF HeapOK
    <3>3. QED
      BY <2>3, <2>6, <2>7, <2>9, <3>1, <3>2
  <2> QED
    BY <2>11, <2>12, <2>13
<1> QED
  BY <1>2, <1>3 DEF Inv

LEMMA AgainInv ==
    ASSUME Inv, Again
    PROVE  Inv'
<1>1. AskedOK'
  BY CallsOK DEF Again, AskedOK
<1> QED
  BY <1>1 DEF Again, REQ, Inv, PhaseOK, PhpPC, WorkerPC, MemoryOK, ErrnoBelongs, Reclaimed

LEMMA StepInv ==
    ASSUME Inv, [Next]_vars
    PROVE  Inv'
<1>1. CASE UNCHANGED vars
  BY <1>1 DEF vars, Inv, PhaseOK, AskedOK, MemoryOK, RequestOK, WorkerOK, HeapOK, Owns, ZbufOK,
              DataOK, ErrnoBelongs, Reclaimed
<1> QED
  BY <1>1, CallInv, SwapBufferInv, ReturnInv, CancelInv, GrpCancelInv, WorkerTakeInv,
     WorkerCallInv, WorkerOpenedInv, eio_finishInv, AgainInv DEF Next

-----------------------------------------------------------------------------
(* The theorems. *)

\* The inductive invariant holds whatever the C types, the arguments, and
\* whether memory runs out or the script keeps its string.
THEOREM InvCorrect == Spec => []Inv
<1>1. Init => Inv
  BY InitInv
<1>2. Inv /\ [Next]_vars => Inv'
  BY StepInv
<1> QED
  BY <1>1, <1>2, PTL DEF Spec

\* The worker makes the system call that the script asked for, through the
\* PHP functions, the request functions of libeio and eio_execute.
THEOREM SyscallAsAskedCorrect == Spec => []SyscallAsAsked
<1>1. Inv => SyscallAsAsked
  BY DEF Inv, AskedOK, CallOK, SyscallAsAsked
<1> QED
  BY <1>1, InvCorrect, PTL

\* The memory of a request is freed with it, whatever fails and whoever cancels
\* it, but for the copy of eio_write, the record of a request that eio_grp_cancel
\* has cancelled, and what a request function without memory forgets.
THEOREM ReclaimedCorrect == Spec => []Reclaimed
<1>1. Inv => Reclaimed
  BY DEF Inv
<1> QED
  BY <1>1, InvCorrect, PTL

\* The errno of a request is the one of the call that failed.
THEOREM ErrnoBelongsCorrect == Spec => []ErrnoBelongs
<1>1. Inv => ErrnoBelongs
  BY DEF Inv
<1> QED
  BY <1>1, InvCorrect, PTL

\* If the script keeps the string of eio_write, no pointer dangles.
THEOREM PointersLiveCorrect ==
    ASSUME KeepArg
    PROVE  Spec => []PointersLive
<1>1. Inv => PointersLive
  <2> SUFFICES ASSUME Inv, wpc # "none"
               PROVE  PointersLive
    BY DEF PointersLive
  <2>1. RequestOK /\ WorkerOK /\ HeapOK /\ ZbufOK /\ DataOK
    BY DEF Inv, MemoryOK
  <2>2. \A b : b # "null" /\ Owns(b) => b \in heap
    BY <2>1 DEF HeapOK
  <2>3. "req" \in heap /\ (data = "cb" => "cb" \in heap)
    BY <2>1 DEF HeapOK
  <2>4. req.ptr1.blk \in heap \cup {"null"} /\ ("PTR2_FREE" \in req.flags => req.ptr2.blk \in heap \cup {"null"})
    BY <2>1, <2>2 DEF Owns, RequestOK
  <2>5. req.ptr2.blk \in heap \cup {"null"}
    <3>1. CASE req.type = "WRITE"
      <4>1. "zbuf" \in heap
        BY <2>1, <3>1 DEF ZbufOK
      <4>2. pc # "swap" => "dup" \in heap
        BY <2>1, <3>1 DEF HeapOK
      <4> QED
        BY <2>1, <3>1, <4>1, <4>2 DEF RequestOK
    <3>2. CASE req.type # "WRITE"
      BY <2>1, <2>4, <3>2 DEF RequestOK
    <3> QED
      BY <3>1, <3>2
  <2>6. wpc \in {"call", "opened"} => wptr.blk \in heap \cup {"null"}
    BY <2>1, <2>5 DEF WorkerOK, ZbufOK
  <2>7. wpc = "done" /\ ResultParam # "long" => req.ptr2.blk \in heap
    <3>1. SUFFICES ASSUME wpc = "done", ResultParam # "long"
                   PROVE  req.ptr2.blk # "null"
      BY <2>5
    <3>2. result \in Int
      BY <2>1 DEF DataOK
    <3>3. /\ result # -1
          /\ req.type \in {"READ", "READLINK", "REALPATH", "STAT", "LSTAT", "FSTAT", "STATVFS",
                           "FSTATVFS", "READDIR"}
      BY <3>1, <3>2 DEF ResultParam
    <3> QED
      BY <2>1, <3>1, <3>3 DEF WorkerOK, Alloc
  <2> QED
    BY <2>3, <2>4, <2>5, <2>6, <2>7 DEF PointersLive
<1> QED
  BY <1>1, InvCorrect, PTL
=============================================================================
