---------------------------- MODULE EioSendfile ----------------------------
(***************************************************************************)
(* eio__sendfile (libeio/eio.c): the loop around sendfile(2) for transfers *)
(* that one call does not complete, and the emulation by pread and write   *)
(* where sendfile is refused.  A file is its length; what reaches the      *)
(* output descriptor is the sequence of the input positions sent.          *)
(***************************************************************************)
EXTENDS Integers, Sequences

CONSTANTS
    FileLen,        \* length of the input file
    Offsets,        \* values of the argument offset
    Counts,         \* values of the argument count
    SENDFILE_MIN,   \* 128 MB, which one sendfile call is assumed to copy
    KernelMax,      \* what one sendfile call copies at most (0x7ffff000)
    EIO_BUFSIZE     \* size of the buffer of the emulation

ASSUME SendfileAssumption ==
    /\ FileLen \in Nat
    /\ Offsets \subseteq Nat /\ Counts \subseteq Nat
    /\ SENDFILE_MIN \in Nat /\ KernelMax \in Nat /\ EIO_BUFSIZE \in Nat \ {0}
    /\ SENDFILE_MIN < KernelMax

VARIABLES
    sfpc,               \* where the worker is
    sfargs,             \* the arguments offset and count
    offset, count,      \* the arguments, as the loops change them
    written,
    res,
    cnt,                \* bytes in the buffer of the emulation
    out,                \* what was sent
    lazy                \* a call has copied less than it could

sfVars == <<sfpc, sfargs, offset, count, written, res, cnt, out, lazy>>

SendfilePC == {"idle",
               "send",      \* about to call sendfile
               "pread", "write",
               "done"}      \* eio__sendfile has returned res

SfInit ==
    /\ sfpc = "idle"
    /\ sfargs = [offset |-> 0, count |-> 0]
    /\ offset = 0 /\ count = 0 /\ written = 0 /\ res = 0 /\ cnt = 0
    /\ out = <<>> /\ lazy = FALSE

Least(a, b) == IF a < b THEN a ELSE b

\* What the file has from o on, and what is left of it.
Behind(o) == IF o < FileLen THEN FileLen - o ELSE 0

Avail == Behind(offset)

\* The n bytes at the offset go out.
Sent(n) == out' = out \o [i \in 1..n |-> offset + i]

SfReturn(r) == sfpc' = "done" /\ res' = r

-----------------------------------------------------------------------------
SfStart ==
    \E o \in Offsets, c \in Counts :
       /\ sfpc = "idle"
       /\ sfargs' = [offset |-> o, count |-> c]
       /\ offset' = o /\ count' = c
       /\ sfpc' = IF c = 0 THEN "done" ELSE "send"
       /\ UNCHANGED <<written, res, cnt, out, lazy>>

\* Mutant of SendfileCopies: the loop ends only when everything was asked for.
SendfileCopiesOnce(n) ==
    /\ Sent(n)
    /\ written' = written + n
    /\ SfReturn(written')
    /\ UNCHANGED <<offset, count>>

\* sendfile copies n bytes.  A short count ends the loop, unless it is more
\* than SENDFILE_MIN: then the kernel was lazy and is asked for the rest.
SendfileCopies(n) ==
    /\ Sent(n)
    /\ written' = written + n
    /\ IF n <= SENDFILE_MIN
       THEN SfReturn(written') /\ UNCHANGED <<offset, count>>
       ELSE /\ offset' = offset + n
            /\ count' = count - n
            /\ IF count' = 0 THEN SfReturn(written') ELSE sfpc' = "send" /\ res' = n

\* Mutant of SendfileFails: the emulation starts over.
SendfileFailsOver(emulate) ==
    IF emulate THEN sfpc' = "pread" /\ res' = 0
    ELSE SfReturn(IF written > 0 THEN written ELSE -1)

\* sendfile fails: with an errno that means that it cannot serve these
\* descriptors, and there is memory for the buffer of the emulation, or not.
SendfileFails(emulate) ==
    IF written > 0 THEN SfReturn(written)
    ELSE IF emulate THEN sfpc' = "pread" /\ res' = 0
    ELSE SfReturn(-1)

Sendfile ==
    /\ sfpc = "send"
    /\ LET full == Least(Least(count, Avail), KernelMax)
       IN  \/ \E n \in 0..full :
                 /\ n = 0 => full = 0
                 /\ SendfileCopies(n)
                 /\ lazy' = (lazy \/ n < full)
           \/ \E emulate \in BOOLEAN :
                 /\ SendfileFails(emulate)
                 /\ lazy' = TRUE
                 /\ UNCHANGED <<offset, count, written, out>>
    /\ UNCHANGED <<sfargs, cnt>>

\* Mutant of EmulationStops: only an error stops the loop.
EmulationRetries(n) ==
    IF n = 0 THEN sfpc' = "pread" /\ UNCHANGED res
    ELSE SfReturn(IF res = 0 THEN -1 ELSE res)

\* pread or write of the emulation has returned n <= 0.
EmulationStops(n) == SfReturn(IF n # 0 /\ res = 0 THEN -1 ELSE res)

Pread ==
    /\ sfpc = "pread"
    /\ \/ \E n \in 1..Least(Least(count, EIO_BUFSIZE), Avail) :
             sfpc' = "write" /\ cnt' = n /\ UNCHANGED res
       \/ EmulationStops(-1) /\ UNCHANGED cnt
       \/ Avail = 0 /\ EmulationStops(0) /\ UNCHANGED cnt
    /\ UNCHANGED <<sfargs, offset, count, written, out, lazy>>

\* write has taken n bytes of the buffer.
WriteCopies(n) ==
    /\ Sent(n)
    /\ offset' = offset + n /\ res' = res + n /\ count' = count - n
    /\ sfpc' = IF count' = 0 THEN "done" ELSE "pread"

Write ==
    /\ sfpc = "write"
    /\ \/ \E n \in 1..cnt : WriteCopies(n)
       \/ \E n \in {-1, 0} : EmulationStops(n) /\ UNCHANGED <<offset, count, out>>
    /\ UNCHANGED <<sfargs, written, cnt, lazy>>

SfStep == Sendfile \/ Pread \/ Write

\* The worker has stored the result and goes on.
SfEnd ==
    /\ sfpc = "done" /\ sfpc' = "idle"
    /\ sfargs' = [offset |-> 0, count |-> 0]
    /\ offset' = 0 /\ count' = 0 /\ written' = 0 /\ res' = 0 /\ cnt' = 0
    /\ out' = <<>> /\ lazy' = FALSE

-----------------------------------------------------------------------------
(* Properties. *)

\* The bytes that leave are those of the file from the offset on, in order,
\* without a gap or a repetition, through short writes, short sendfile calls
\* and the change to the emulation; and eio__sendfile returns how many they
\* are, also when a later call fails, and -1 only when it has sent nothing.
SendfileExact ==
    /\ \A i \in 1..Len(out) : out[i] = sfargs.offset + i
    /\ sfpc = "done" => res = Len(out) \/ (res = -1 /\ out = <<>>)

\* Where the kernel copies as much as it can in one call, the loop copies all
\* of the range, however many calls that takes.
SendfileWhole ==
    sfpc = "done" /\ ~lazy =>
       Len(out) = Least(sfargs.count, Behind(sfargs.offset))
=============================================================================
