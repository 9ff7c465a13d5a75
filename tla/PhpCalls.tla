------------------------------ MODULE PhpCalls ------------------------------
(***************************************************************************)
(* One request from the call of its PHP function to its end: the PHP       *)
(* thread (the function, eio_cancel, eio_grp_cancel of a group that it is  *)
(* in, eio_finish with php_eio_res_cb) and the worker that executes it     *)
(* (eio_execute), with the memory that both allocate, pass on and free.    *)
(***************************************************************************)
EXTENDS PhpManual

CONSTANTS
    KeepArg,        \* the script keeps the string that it gave to eio_write
    MallocFails     \* malloc, calloc and strdup may fail

ASSUME CallsAssumption == KeepArg \in BOOLEAN /\ MallocFails \in BOOLEAN

VARIABLES
    pc,         \* where the PHP thread is
    call,       \* the call that is made, of Calls
    wpc,        \* where the request is with libeio
    req,        \* the eio_req
    wptr,       \* the worker's copy of req->ptr2, an argument of the system call
    result, errorno,    \* fields of the eio_req
    cancelled,  \* req->cancelled
    data,       \* req->data: "null" or "cb"
    func,       \* the php_eio_cb_t has a callback
    heap,       \* allocated blocks
    nomem,      \* an allocation of the request function has failed
    failed      \* what has failed in the worker

vars == <<pc, call, wpc, req, wptr, result, errorno, cancelled, data, func, heap,
          nomem, failed>>

PhpPC == {"idle",
          "swap",       \* eio_write has submitted the request
          "return",     \* eio_write is about to return
          "script",     \* the function has returned the request
          "crash",      \* eio_write has used a null pointer
          "end"}        \* the request is gone, or there was none

WorkerPC == {"none", "queue", "call", "opened", "done"}

NoCall == C(RETURN_FALSE, Refuse, TRUE)

Init ==
    /\ pc = "idle" /\ call = NoCall /\ wpc = "none" /\ req = REQ("NOP") /\ wptr = Null
    /\ result = 0 /\ errorno = "none" /\ cancelled = FALSE /\ data = "null"
    /\ func = FALSE /\ heap = {} /\ nomem = FALSE /\ failed = "none"

-----------------------------------------------------------------------------
(* The PHP function. *)

\* The strings that the request function of libeio copies, in that order.
Copies(r) == IF r.ptr1 = Null THEN <<>>
             ELSE IF r.ptr2 = Null THEN <<"path">> ELSE <<"path", "new_path">>

\* The request function has run out of memory: the copy of the first path is
\* forgotten if there is none of the second.  The PHP function forgets the
\* record, or, eio_write, uses the null pointer.
CallFails(r, cb) ==
    /\ MallocFails
    /\ nomem' = TRUE
    /\ \/ heap' = cb
       \/ Len(Copies(r)) = 2 /\ heap' = cb \cup {"path"}
    /\ pc' = IF r.type = "WRITE" THEN "crash" ELSE "end"
    /\ UNCHANGED <<wpc, req, data, func>>

CallSubmits(r, cb, given) ==
    /\ req' = r
    /\ heap' = cb \cup {"req"} \cup {Copies(r)[i] : i \in 1..Len(Copies(r))}
                  \cup (IF r.type = "WRITE" THEN {"zbuf"} ELSE {})
    /\ data' = IF cb = {} THEN "null" ELSE "cb"
    /\ func' = given
    /\ wpc' = "queue"
    /\ pc' = IF r.type = "WRITE" THEN "swap" ELSE "script"
    /\ UNCHANGED nomem

\* Only a callable or nothing is a callback.
php_eio_import_func_info(callback) == callback # "invalid"

\* The record that is allocated, with the callback or with none.
php_eio_new_eio_cb(callback) ==
    IF php_eio_import_func_info(callback) THEN {"cb"} ELSE {}

\* The script calls a function with a callback, without one, or with one that
\* is not callable: then an exception is thrown, and the request submitted.
Call ==
    \E c \in Calls, callback \in {"given", "null", "invalid"} :
       LET cb == php_eio_new_eio_cb(callback)
       IN  /\ pc = "idle"
           /\ call' = c
           /\ IF c.out.ret # "req"
              THEN pc' = "end" /\ UNCHANGED <<wpc, req, data, func, heap, nomem>>
              ELSE \/ CallFails(c.out.req, cb)
                   \/ CallSubmits(c.out.req, cb, callback = "given")
           /\ UNCHANGED <<wptr, result, errorno, cancelled, failed>>

\* eio_write copies the string that the request points to.
SwapBuffer ==
    /\ pc = "swap"
    /\ req' = [req EXCEPT !.ptr2 = Ptr("dup", "")]
    /\ heap' = heap \cup {"dup"}
    /\ pc' = "return"
    /\ UNCHANGED <<call, wpc, wptr, result, errorno, cancelled, data, func, nomem, failed>>

\* The argument of eio_write is destroyed.
Return ==
    /\ pc = "return"
    /\ heap' = IF KeepArg THEN heap ELSE heap \ {"zbuf"}
    /\ pc' = "script"
    /\ UNCHANGED <<call, wpc, req, wptr, result, errorno, cancelled, data, func, nomem,
                   failed>>

\* eio_cancel frees the php_eio_cb_t, also that of a request that
\* eio_grp_cancel has cancelled.
Cancel ==
    /\ pc = "script" /\ (~cancelled \/ data = "cb")      \* otherwise nothing changes
    /\ cancelled' = TRUE
    /\ heap' = heap \ {"cb"}
    /\ data' = "null"
    /\ UNCHANGED <<pc, call, wpc, req, wptr, result, errorno, func, nomem, failed>>

\* eio_grp_cancel of a group with the request in it: the php_eio_cb_t stays.
GrpCancel ==
    /\ pc = "script" /\ ~cancelled                       \* otherwise nothing changes
    /\ cancelled' = TRUE
    /\ UNCHANGED <<pc, call, wpc, req, wptr, result, errorno, data, func, heap, nomem, failed>>

-----------------------------------------------------------------------------
(* The worker: eio_execute. *)

WorkerFails(why) ==
    wpc' = "done" /\ result' = -1 /\ errorno' = why /\ failed' = why

\* The worker allocates the buffer for the result, if it needs one.
ALLOC ==
    \/ /\ MallocFails
       /\ req' = [req EXCEPT !.flags = @ \cup {"PTR2_FREE"}]
       /\ WorkerFails("nomem")
       /\ UNCHANGED <<wptr, heap>>
    \/ /\ req' = [req EXCEPT !.flags = @ \cup {"PTR2_FREE"}, !.ptr2 = Ptr("buf", "")]
       /\ wptr' = Ptr("buf", "")
       /\ heap' = heap \cup {"buf"}
       /\ wpc' = "call"
       /\ UNCHANGED <<result, errorno, failed>>

WorkerTake ==
    /\ wpc = "queue"
    /\ IF cancelled THEN WorkerFails("cancelled") /\ UNCHANGED <<req, wptr, heap>>
       ELSE IF req.type \in Alloc THEN ALLOC
       ELSE /\ wpc' = "call" /\ wptr' = req.ptr2
            /\ UNCHANGED <<req, result, errorno, failed, heap>>
    /\ UNCHANGED <<pc, call, cancelled, data, func, nomem>>

\* The results of a system call that succeeds: a count for read and write.
Results(r) == IF r.type \in {"READ", "WRITE"} THEN {0, r.size} ELSE {0}

\* The buffers that eio__scandir allocates.
ScandirBufs == {"names"} \cup (IF req.int1 = {} THEN {} ELSE {"dents"})

\* Mutant of ScandirOpens: the request goes on pointing to its path.
ScandirOpensKeeping(got) ==
    /\ heap' = (heap \ {"path"}) \cup got
    /\ req' = [req EXCEPT !.ptr2 = Ptr("names", ""), !.flags = {"PTR1_FREE", "PTR2_FREE"}]

\* eio__scandir has opened the directory, and puts its buffers, the ones that
\* it got, into the place of the path.
ScandirOpens(got) ==
    LET At(blk) == IF blk \in got THEN Ptr(blk, "") ELSE Null
    IN  /\ heap' = (heap \ {"path"}) \cup got
        /\ req' = [req EXCEPT !.ptr1 = At("dents"), !.ptr2 = At("names"),
                              !.flags = {"PTR1_FREE", "PTR2_FREE"}]

\* realpath knows the length of the result now, and allocates that much.
RealpathSucceeds ==
    \/ /\ MallocFails
       /\ req' = [req EXCEPT !.flags = @ \cup {"PTR2_FREE"}]
       /\ WorkerFails("nomem")
       /\ UNCHANGED heap
    \/ /\ req' = [req EXCEPT !.flags = @ \cup {"PTR2_FREE"}, !.ptr2 = Ptr("buf", "")]
       /\ heap' = heap \cup {"buf"}
       /\ wpc' = "done" /\ result' = 0 /\ errorno' = "stale"
       /\ UNCHANGED failed

\* errno keeps an old value when a call succeeds.  eio__scandir may still
\* fail, or find the request cancelled, once it has the directory open.
WorkerSucceeds ==
    \/ /\ req.type \in OpensPath
       /\ wpc' = "opened"
       /\ UNCHANGED <<req, result, errorno, failed, heap>>
    \/ req.type = "REALPATH" /\ RealpathSucceeds
    \/ /\ req.type = "READDIR"
       /\ ScandirOpens(ScandirBufs)
       /\ \/ wpc' = "done" /\ result' = 0 /\ errorno' = "stale" /\ UNCHANGED failed
          \/ WorkerFails(IF cancelled THEN "cancelled" ELSE "call")
    \/ /\ req.type = "READDIR" /\ MallocFails
       /\ \E got \in SUBSET ScandirBufs \ {ScandirBufs} : ScandirOpens(got)
       /\ WorkerFails("nomem")
    \/ /\ req.type \notin OpensPath \cup {"REALPATH", "READDIR"}
       /\ wpc' = "done" /\ result' \in Results(req) /\ errorno' = "stale"
       /\ UNCHANGED <<req, failed, heap>>

WorkerCall ==
    /\ wpc = "call"
    /\ \/ WorkerFails("call") /\ UNCHANGED <<req, heap>>
       \/ WorkerSucceeds
    /\ UNCHANGED <<pc, call, wptr, cancelled, data, func, nomem>>

\* Mutant of silent_close: the errno of close is kept.
loud_close(e) == "close"

\* close does not disturb errno.
silent_close(e) == e

\* eio__truncateat and eio__statvfsat have the path open.
WorkerOpened ==
    /\ wpc = "opened"
    /\ wpc' = "done"
    /\ \/ result' = 0 /\ errorno' = silent_close("stale") /\ UNCHANGED failed
       \/ result' = -1 /\ errorno' = silent_close("call") /\ failed' = "call"
    /\ UNCHANGED <<pc, call, req, wptr, cancelled, data, func, heap, nomem>>

-----------------------------------------------------------------------------
(* The PHP thread handles the result in eio_poll. *)

\* What the callback gets as $result: a negative number, a string or an array
\* made of the buffer, or a number.
ResultParam ==
    CASE result < 0 -> "long"
      [] result >= 0 /\ req.type \in {"READ", "READLINK", "REALPATH"} -> "string"
      [] result >= 0 /\ req.type \in {"STAT", "LSTAT", "FSTAT", "STATVFS", "FSTATVFS", "READDIR"}
           -> "array"
      [] OTHER -> "long"

\* The callback is called, and the record and the copy of eio_write are freed;
\* the copy only if there is a callback and the call has succeeded.
php_eio_res_cb ==
    IF data = "null" \/ cancelled THEN [ptr2 |-> req.ptr2, freed |-> {}]
    ELSE IF func /\ req.type = "WRITE" /\ result >= 0
    THEN [ptr2 |-> Null, freed |-> {"cb", req.ptr2.blk}]
    ELSE [ptr2 |-> req.ptr2, freed |-> {"cb"}]

\* Mutant of eio_destroy: the buffer of the result stays.
eio_destroy_path(ptr2) == {"req"} \cup (IF "PTR1_FREE" \in req.flags THEN {req.ptr1.blk} ELSE {})

\* The blocks that are freed with the request.
eio_destroy(ptr2) ==
    {"req"} \cup (IF "PTR1_FREE" \in req.flags THEN {req.ptr1.blk} ELSE {})
            \cup (IF "PTR2_FREE" \in req.flags THEN {ptr2.blk} ELSE {})

eio_finish ==
    /\ pc = "script" /\ wpc = "done"
    /\ heap' = (heap \ php_eio_res_cb.freed) \ eio_destroy(php_eio_res_cb.ptr2)
    /\ req' = [req EXCEPT !.ptr2 = php_eio_res_cb.ptr2]
    /\ wpc' = "none"
    /\ pc' = "end"
    /\ UNCHANGED <<call, wptr, result, errorno, cancelled, data, func, nomem, failed>>

\* The next call; what was not freed stays behind, and is not looked at again.
Again ==
    /\ pc \in {"end", "crash"}
    /\ pc' = "idle" /\ call' = NoCall /\ wpc' = "none" /\ req' = REQ("NOP") /\ wptr' = Null
    /\ result' = 0 /\ errorno' = "none" /\ cancelled' = FALSE /\ data' = "null"
    /\ func' = FALSE /\ heap' = {} /\ nomem' = FALSE /\ failed' = "none"

Next ==
    \/ Call \/ SwapBuffer \/ Return \/ Cancel \/ GrpCancel
    \/ WorkerTake \/ WorkerCall \/ WorkerOpened
    \/ eio_finish \/ Again

Spec == Init /\ [][Next]_vars

-----------------------------------------------------------------------------
(* Properties. *)

\* Through the conversions of the PHP function, the fields of the eio_req that
\* the request functions fill and eio_execute reads, the worker makes the
\* system call that the script asked for, with its arguments; and calls that
\* make no sense are refused.  Arguments are in the range of the C types.
SyscallAsAsked ==
    call.fits =>
       /\ wpc = "call" => Syscall(req) = call.asked
       /\ pc = "end" /\ call.asked = Refuse => call.out.ret # "req"
       /\ call.out.ret # "req" => call.asked = Refuse

\* Every pointer that the worker gives to a system call, that php_eio_res_cb
\* reads or frees or that eio_destroy frees points to allocated memory, whatever the
\* PHP thread does at the same time: the copy of eio_write, eio_cancel, and
\* the buffers that eio__scandir exchanges.
PointersLive ==
    LET Live(p) == p.blk \in heap \cup {"null"}
    IN  wpc # "none" =>
          /\ "req" \in heap
          /\ data = "cb" => "cb" \in heap
          /\ wpc \in {"call", "opened"} => Live(wptr) /\ (req.type # "READDIR" => Live(req.ptr1))
          /\ "PTR1_FREE" \in req.flags => Live(req.ptr1)
          /\ "PTR2_FREE" \in req.flags => Live(req.ptr2)
          /\ wpc = "done" /\ ResultParam # "long" => req.ptr2.blk \in heap

\* What is left when the request is gone, also when the worker has run out of
\* memory: the copy of eio_write if the request was cancelled, has failed or has
\* no callback; the php_eio_cb_t if it was cancelled by eio_grp_cancel and not by
\* eio_cancel; and nothing else.  If the request function itself has run out of
\* memory, the record is left, and the first of two paths.
Reclaimed ==
    pc = "end" =>
       IF nomem
       THEN heap \subseteq {"cb"} \cup (IF Len(Copies(call.out.req)) = 2 THEN {"path"} ELSE {})
       ELSE heap \ {"zbuf"} =
               (IF req.type = "WRITE" /\ (cancelled \/ result < 0 \/ data = "null" \/ ~func)
                THEN {"dup"} ELSE {})
               \cup (IF cancelled /\ data = "cb" THEN {"cb"} ELSE {})

\* eio_get_last_error gives the error of the call that failed, not of the
\* close or the free after it.
ErrnoBelongs == wpc = "done" /\ result = -1 => errorno = failed
=============================================================================
