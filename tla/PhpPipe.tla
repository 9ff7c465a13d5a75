------------------------------- MODULE PhpPipe -------------------------------
(***************************************************************************)
(* The descriptor on which the extension waits for results (php_eio.c      *)
(* 292-354 and 888-912).  Its state is one number: the counter of the      *)
(* eventfd, or the bytes in the pipe when the system has no eventfd.       *)
(***************************************************************************)
EXTENDS Integers

CONSTANT
    Eventfd     \* TRUE: eventfd(2); FALSE: the pipe(2) fallback

ASSUME EventfdAssumption == Eventfd \in BOOLEAN

\* char buf[9] in php_eio_done_poll_callback
PIPE_READ_MAX == 9

\* php_eio_pipe_new: the descriptor starts empty.
php_eio_pipe_new == 0

\* write(): 8 bytes holding 1 add 1 to the counter; the pipe takes len = 1 byte.
php_eio_want_poll(c) == c + 1

\* read(): one read empties the counter, or takes at most 9 bytes of the pipe.
php_eio_done_poll(c) ==
    IF Eventfd \/ c <= PIPE_READ_MAX THEN 0 ELSE c - PIPE_READ_MAX

\* poll(2) reports POLLIN.
Readable(c) == c # 0
=============================================================================
