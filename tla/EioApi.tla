------------------------------- MODULE EioApi -------------------------------
(***************************************************************************)
(* The request functions of libeio (eio.c): what each of them writes into  *)
(* a new eio_req, and which system call eio_execute makes of it.           *)
(*                                                                         *)
(* A pointer is a record of the block it points to and, if that is a path, *)
(* the string in it.  A system call is a sequence of its name and its      *)
(* arguments; the descriptor of the current directory is left out.         *)
(***************************************************************************)
EXTENDS Integers, Sequences

Ptr(blk, str) == [blk |-> blk, str |-> str]

Null == Ptr("null", "")

\* calloc zeroes what the function does not set.
REQ(rtype) ==
    [type |-> rtype, int1 |-> 0, int2 |-> 0, int3 |-> 0, offs |-> 0, size |-> 0,
     nv1 |-> 0, nv2 |-> 0, ptr1 |-> Null, ptr2 |-> Null, flags |-> {}]

\* A copy of the path is made, and freed with the request.
PATH(req, path) ==
    [req EXCEPT !.ptr1 = Ptr("path", path), !.flags = @ \cup {"PTR1_FREE"}]

eio_nop == REQ("NOP")
eio_busy(delay) == [REQ("BUSY") EXCEPT !.nv1 = delay]
eio_sync == REQ("SYNC")
eio_fsync(fd) == [REQ("FSYNC") EXCEPT !.int1 = fd]
eio_fdatasync(fd) == [REQ("FDATASYNC") EXCEPT !.int1 = fd]
eio_syncfs(fd) == [REQ("SYNCFS") EXCEPT !.int1 = fd]
eio_sync_file_range(fd, offset, nbytes, flags) ==
    [REQ("SYNC_FILE_RANGE") EXCEPT !.int1 = fd, !.offs = offset, !.size = nbytes, !.int2 = flags]
eio_fallocate(fd, mode, offset, len) ==
    [REQ("FALLOCATE") EXCEPT !.int1 = fd, !.int2 = mode, !.offs = offset, !.size = len]
eio_close(fd) == [REQ("CLOSE") EXCEPT !.int1 = fd]
eio_readahead(fd, offset, length) ==
    [REQ("READAHEAD") EXCEPT !.int1 = fd, !.offs = offset, !.size = length]
eio_seek(fd, offset, whence) ==
    [REQ("SEEK") EXCEPT !.int1 = fd, !.offs = offset, !.int2 = whence]
eio_read(fd, buf, length, offset) ==
    [REQ("READ") EXCEPT !.int1 = fd, !.offs = offset, !.size = length, !.ptr2 = buf]
eio_write(fd, buf, length, offset) ==
    [REQ("WRITE") EXCEPT !.int1 = fd, !.offs = offset, !.size = length, !.ptr2 = buf]
eio_fstat(fd) == [REQ("FSTAT") EXCEPT !.int1 = fd]
eio_fstatvfs(fd) == [REQ("FSTATVFS") EXCEPT !.int1 = fd]
eio_futime(fd, atime, mtime) ==
    [REQ("FUTIME") EXCEPT !.int1 = fd, !.nv1 = atime, !.nv2 = mtime]
eio_ftruncate(fd, offset) == [REQ("FTRUNCATE") EXCEPT !.int1 = fd, !.offs = offset]
eio_fchmod(fd, mode) == [REQ("FCHMOD") EXCEPT !.int1 = fd, !.int2 = mode]
eio_fchown(fd, uid, gid) == [REQ("FCHOWN") EXCEPT !.int1 = fd, !.int2 = uid, !.int3 = gid]
eio_dup2(fd, fd2) == [REQ("DUP2") EXCEPT !.int1 = fd, !.int2 = fd2]

eio_sendfile(out_fd, in_fd, in_offset, length) ==
    [REQ("SENDFILE") EXCEPT !.int1 = out_fd, !.int2 = in_fd, !.offs = in_offset, !.size = length]

eio_open(path, flags, mode) == [PATH(REQ("OPEN"), path) EXCEPT !.int1 = flags, !.int2 = mode]
eio_utime(path, atime, mtime) == [PATH(REQ("UTIME"), path) EXCEPT !.nv1 = atime, !.nv2 = mtime]
eio_truncate(path, offset) == [PATH(REQ("TRUNCATE"), path) EXCEPT !.offs = offset]
eio_chown(path, uid, gid) == [PATH(REQ("CHOWN"), path) EXCEPT !.int2 = uid, !.int3 = gid]
eio_chmod(path, mode) == [PATH(REQ("CHMOD"), path) EXCEPT !.int2 = mode]
eio_mkdir(path, mode) == [PATH(REQ("MKDIR"), path) EXCEPT !.int2 = mode]
eio__1path(type, path) == PATH(REQ(type), path)
eio_readlink(path) == eio__1path("READLINK", path)
eio_realpath(path) == eio__1path("REALPATH", path)
eio_stat(path) == eio__1path("STAT", path)
eio_lstat(path) == eio__1path("LSTAT", path)
eio_statvfs(path) == eio__1path("STATVFS", path)
eio_unlink(path) == eio__1path("UNLINK", path)
eio_rmdir(path) == eio__1path("RMDIR", path)
eio_readdir(path, flags) == [PATH(REQ("READDIR"), path) EXCEPT !.int1 = flags]
eio_mknod(path, mode, dev) == [PATH(REQ("MKNOD"), path) EXCEPT !.int2 = mode, !.offs = dev]
eio__2path(type, path, new_path) ==
    [PATH(REQ(type), path) EXCEPT !.ptr2 = Ptr("new_path", new_path), !.flags = @ \cup {"PTR2_FREE"}]
eio_link(path, new_path) == eio__2path("LINK", path, new_path)
eio_symlink(path, new_path) == eio__2path("SYMLINK", path, new_path)
eio_rename(path, new_path) == eio__2path("RENAME", path, new_path)

-----------------------------------------------------------------------------
(* eio_execute. *)

\* Types whose result the worker puts into ptr2, which it allocates first.
\* REALPATH allocates it when it knows the length.
Alloc == {"READ", "STAT", "LSTAT", "FSTAT", "STATVFS", "FSTATVFS", "READLINK"}

\* utime and futime with two -1 set the current time.
Times(req) == IF req.nv1 = -1 /\ req.nv2 = -1 THEN <<"now">> ELSE <<"at", req.nv1, req.nv2>>

\* Functions around one system call each; what they do where the kernel lacks
\* it is left out.
eio__lseek(req) == <<"lseek", req.int1, req.offs, req.int2>>
eio__syncfs(req) == <<"syncfs", req.int1>>
eio__sync_file_range(req) == <<"sync_file_range", req.int1, req.offs, req.size, req.int2>>
eio__fallocate(req) == <<"fallocate", req.int1, req.int2, req.offs, req.size>>

\* The system call of a request; sendfile, realpath and readdir have modules
\* of their own.
Syscall(req) ==
    CASE req.type = "NOP"       -> <<"none">>
      [] req.type = "BUSY"      -> <<"select", req.nv1>>
      [] req.type = "SYNC"      -> <<"sync">>
      [] req.type = "FSYNC"     -> <<"fsync", req.int1>>
      [] req.type = "FDATASYNC" -> <<"fdatasync", req.int1>>
      [] req.type = "SYNCFS"    -> eio__syncfs(req)
      [] req.type = "SYNC_FILE_RANGE" -> eio__sync_file_range(req)
      [] req.type = "FALLOCATE" -> eio__fallocate(req)
      [] req.type = "CLOSE"     -> <<"close", req.int1>>
      [] req.type = "READAHEAD" -> <<"readahead", req.int1, req.offs, req.size>>
      [] req.type = "SEEK"      -> eio__lseek(req)
      [] req.type = "READ"      ->
           IF req.offs >= 0 THEN <<"pread", req.int1, req.size, req.offs>>
           ELSE <<"read", req.int1, req.size>>
      [] req.type = "WRITE"     ->
           IF req.offs >= 0 THEN <<"pwrite", req.int1, req.size, req.offs>>
           ELSE <<"write", req.int1, req.size>>
      [] req.type = "FSTAT"     -> <<"fstat", req.int1>>
      [] req.type = "FSTATVFS"  -> <<"fstatvfs", req.int1>>
      [] req.type = "FUTIME"    -> <<"futimens", req.int1, Times(req)>>
      [] req.type = "FTRUNCATE" -> <<"ftruncate", req.int1, req.offs>>
      [] req.type = "FCHMOD"    -> <<"fchmod", req.int1, req.int2>>
      [] req.type = "FCHOWN"    -> <<"fchown", req.int1, req.int2, req.int3>>
      [] req.type = "DUP2"      -> <<"dup2", req.int1, req.int2>>
      [] req.type = "SENDFILE"  ->
           <<"eio__sendfile", req.int1, req.int2, req.offs, req.size>>
      [] req.type = "OPEN"      -> <<"openat", req.ptr1.str, req.int1, req.int2>>
      [] req.type = "UTIME"     -> <<"utimensat", req.ptr1.str, Times(req)>>
      [] req.type = "TRUNCATE"  -> <<"eio__truncateat", req.ptr1.str, req.offs>>
      [] req.type = "CHOWN"     -> <<"fchownat", req.ptr1.str, req.int2, req.int3>>
      [] req.type = "CHMOD"     -> <<"fchmodat", req.ptr1.str, req.int2>>
      [] req.type = "MKDIR"     -> <<"mkdirat", req.ptr1.str, req.int2>>
      [] req.type = "READLINK"  -> <<"readlinkat", req.ptr1.str>>
      [] req.type = "REALPATH"  -> <<"eio__realpath", req.ptr1.str>>
      [] req.type = "STAT"      -> <<"fstatat", req.ptr1.str, "follow">>
      [] req.type = "LSTAT"     -> <<"fstatat", req.ptr1.str, "nofollow">>
      [] req.type = "STATVFS"   -> <<"eio__statvfsat", req.ptr1.str>>
      [] req.type = "UNLINK"    -> <<"unlinkat", req.ptr1.str, "file">>
      [] req.type = "RMDIR"     -> <<"unlinkat", req.ptr1.str, "dir">>
      [] req.type = "READDIR"   -> <<"eio__scandir", req.ptr1.str, req.int1>>
      [] req.type = "MKNOD"     -> <<"mknodat", req.ptr1.str, req.int2, req.offs>>
      [] req.type = "LINK"      -> <<"linkat", req.ptr1.str, req.ptr2.str>>
      [] req.type = "SYMLINK"   -> <<"symlinkat", req.ptr1.str, req.ptr2.str>>
      [] req.type = "RENAME"    -> <<"renameat2", req.ptr1.str, req.ptr2.str, req.int2>>

\* eio__truncateat and eio__statvfsat open the path and close it again.
OpensPath == {"TRUNCATE", "STATVFS"}
=============================================================================
