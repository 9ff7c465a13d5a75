------------------------------- MODULE PhpApi -------------------------------
(***************************************************************************)
(* The PHP functions that make a request (php8/php_eio.c): the tests and   *)
(* conversions of their arguments and the call into libeio.                *)
(*                                                                         *)
(* A PHP string is a record of its text and whether a NUL byte and more    *)
(* follow; C sees the text.  A zval for a descriptor is a record of its    *)
(* kind and a number.  A zend_long is an integer, and the narrower C types *)
(* have INT_MOD and SIZE_MOD values.  A function returns a record: req is  *)
(* the request for libeio, and ret tells whether there is one ("req").     *)
(***************************************************************************)
EXTENDS EioApi

CONSTANTS
    INT_MOD,    \* 2^32: the values of int, uid_t, gid_t and mode_t
    SIZE_MOD    \* 2^64: the values of size_t

ASSUME WidthAssumption ==
    /\ INT_MOD \in Nat \ {0} /\ INT_MOD % 2 = 0
    /\ SIZE_MOD \in Nat \ {0} /\ INT_MOD < SIZE_MOD

INT_MAX == INT_MOD \div 2 - 1

\* The conversions of C.
ToInt(n) == ((n + INT_MOD \div 2) % INT_MOD) - INT_MOD \div 2
ToUint(n) == n % INT_MOD
ToSize(n) == n % SIZE_MOD

Submit(req) == [ret |-> "req", req |-> req]
RETURN_FALSE == [ret |-> "false", req |-> REQ("NOP")]
RETURN_TRUE == [ret |-> "true", req |-> REQ("NOP")]

\* A string with a NUL byte is no path; "p" of zend_parse_parameters refuses
\* it as well.
EIO_CHECK_PATH_LEN(path, out) == IF path.nul THEN RETURN_FALSE ELSE out

\* The descriptor of a stream, a socket or a number, -1 with or without an
\* exception otherwise.  For a stream that cannot be cast at all the bits of
\* the zval are taken ("no cast").
php_eio_zval_to_fd(z) ==
    CASE z.kind \in {"memory", "failed cast", "failed socket", "other"} -> -1
      [] z.kind \in {"stream", "long"} -> IF ToInt(z.v) < 0 THEN -1 ELSE ToInt(z.v)
      [] z.kind \in {"socket", "no cast"} -> ToInt(z.v)

\* fd = php_eio_zval_to_fd(zfd), and FALSE is returned for a negative one.
WithFd(z, Req(_)) ==
    LET fd == php_eio_zval_to_fd(z) IN IF fd < 0 THEN RETURN_FALSE ELSE Submit(Req(fd))

WithFds(z, z2, Req(_, _)) ==
    LET fd  == php_eio_zval_to_fd(z)
        fd2 == php_eio_zval_to_fd(z2)
    IN  IF fd < 0 \/ fd2 < 0 THEN RETURN_FALSE ELSE Submit(Req(fd, fd2))

DefaultMode == 420 % INT_MOD    \* 0644

-----------------------------------------------------------------------------
PHP_eio_open(path, flags, mode) ==
    EIO_CHECK_PATH_LEN(path,
       Submit(eio_open(path.text, ToInt(flags),
                       ToUint(IF mode = 0 THEN DefaultMode ELSE mode))))

PHP_eio_truncate(path, offset) ==
    Submit(eio_truncate(path.text, IF offset < 0 THEN 0 ELSE offset))

PHP_eio_chown(path, uid, gid) ==
    EIO_CHECK_PATH_LEN(path,
       IF uid < 0 /\ gid < 0 THEN RETURN_FALSE
       ELSE Submit(eio_chown(path.text, ToUint(uid), ToUint(gid))))

PHP_eio_chmod(path, mode) == EIO_CHECK_PATH_LEN(path, Submit(eio_chmod(path.text, ToUint(mode))))

PHP_eio_mkdir(path, mode) == EIO_CHECK_PATH_LEN(path, Submit(eio_mkdir(path.text, ToUint(mode))))

PHP_eio_rmdir(path) == EIO_CHECK_PATH_LEN(path, Submit(eio_rmdir(path.text)))

\* A path that access(2) does not find is not passed on.
PHP_eio_unlink(path, found) ==
    EIO_CHECK_PATH_LEN(path, IF found THEN Submit(eio_unlink(path.text)) ELSE RETURN_TRUE)

PHP_eio_utime(path, atime, mtime) ==
    EIO_CHECK_PATH_LEN(path, Submit(eio_utime(path.text, atime, mtime)))

PHP_eio_mknod(path, mode, dev) ==
    EIO_CHECK_PATH_LEN(path, Submit(eio_mknod(path.text, ToUint(mode), dev)))

PHP_eio_link(path, new_path) ==
    EIO_CHECK_PATH_LEN(path,
       EIO_CHECK_PATH_LEN(new_path, Submit(eio_link(path.text, new_path.text))))

PHP_eio_symlink(path, new_path) ==
    EIO_CHECK_PATH_LEN(path,
       EIO_CHECK_PATH_LEN(new_path, Submit(eio_symlink(path.text, new_path.text))))

PHP_eio_rename(path, new_path) ==
    EIO_CHECK_PATH_LEN(path,
       EIO_CHECK_PATH_LEN(new_path, Submit(eio_rename(path.text, new_path.text))))

PHP_eio_close(zfd) == WithFd(zfd, eio_close)

PHP_eio_sync == Submit(eio_sync)

PHP_eio_fsync(zfd) == WithFd(zfd, eio_fsync)

PHP_eio_fdatasync(zfd) == WithFd(zfd, eio_fdatasync)

PHP_eio_futime(zfd, atime, mtime) == WithFd(zfd, LAMBDA fd : eio_futime(fd, atime, mtime))

PHP_eio_ftruncate(zfd, offset) ==
    WithFd(zfd, LAMBDA fd : eio_ftruncate(fd, IF offset < 0 THEN 0 ELSE offset))

PHP_eio_fchmod(zfd, mode) == WithFd(zfd, LAMBDA fd : eio_fchmod(fd, ToUint(mode)))

PHP_eio_fchown(zfd, uid, gid) ==
    IF uid < 0 /\ gid < 0 THEN RETURN_FALSE
    ELSE WithFd(zfd, LAMBDA fd : eio_fchown(fd, ToUint(uid), ToUint(gid)))

PHP_eio_dup2(zfd, zfd2) == WithFds(zfd, zfd2, eio_dup2)

PHP_eio_read(zfd, length, offset) ==
    WithFd(zfd, LAMBDA fd : eio_read(fd, Null, ToSize(length), offset))

\* Mutant of NumBytes: a length beyond the string is taken as it is.
NumBytesUnclamped(strlen, length) == ToInt(IF length <= 0 THEN strlen ELSE length)

\* How much of the string is written: length if it is given and not too much.
NumBytes(strlen, length) ==
    LET clamped == IF strlen < length THEN strlen ELSE length
    IN  ToInt(IF clamped <= 0 THEN strlen ELSE clamped)

PHP_eio_write(zfd, strlen, length, offset) ==
    IF php_eio_zval_to_fd(zfd) < 0 \/ NumBytes(strlen, length) = 0 THEN RETURN_FALSE
    ELSE Submit(eio_write(php_eio_zval_to_fd(zfd), Ptr("zbuf", ""),
                          ToSize(NumBytes(strlen, length)), offset))

PHP_eio_readlink(path) == EIO_CHECK_PATH_LEN(path, Submit(eio_readlink(path.text)))

PHP_eio_realpath(path) == EIO_CHECK_PATH_LEN(path, Submit(eio_realpath(path.text)))

PHP_eio_stat(path) == EIO_CHECK_PATH_LEN(path, Submit(eio_stat(path.text)))

PHP_eio_lstat(path) == EIO_CHECK_PATH_LEN(path, Submit(eio_lstat(path.text)))

PHP_eio_fstat(zfd) == WithFd(zfd, eio_fstat)

PHP_eio_statvfs(path) == EIO_CHECK_PATH_LEN(path, Submit(eio_statvfs(path.text)))

PHP_eio_fstatvfs(zfd) == WithFd(zfd, eio_fstatvfs)

\* Both orders need the array of entries.
PHP_eio_readdir(path, flags) ==
    Submit(eio_readdir(path.text,
                       IF flags \cap {"DIRS_FIRST", "STAT_ORDER"} # {}
                       THEN flags \cup {"DENTS"} ELSE flags))

PHP_eio_sendfile(zout_fd, zin_fd, offset, length) ==
    WithFds(zout_fd, zin_fd,
            LAMBDA out_fd, in_fd : eio_sendfile(out_fd, in_fd, offset, ToSize(length)))

PHP_eio_readahead(zfd, offset, length) ==
    WithFd(zfd, LAMBDA fd : eio_readahead(fd, offset, ToSize(length)))

PHP_eio_seek(zfd, offset, whence) ==
    WithFd(zfd, LAMBDA fd : eio_seek(fd, offset, ToInt(whence)))

PHP_eio_syncfs(zfd) == WithFd(zfd, eio_syncfs)

PHP_eio_sync_file_range(zfd, offset, nbytes, flags) ==
    WithFd(zfd, LAMBDA fd : eio_sync_file_range(fd, offset, ToSize(nbytes), ToUint(flags)))

PHP_eio_fallocate(zfd, mode, offset, length) ==
    WithFd(zfd, LAMBDA fd : eio_fallocate(fd, ToInt(mode), offset, ToSize(length)))

PHP_eio_busy(delay) == Submit(eio_busy(delay))

PHP_eio_nop == Submit(eio_nop)
=============================================================================
