----------------------------- MODULE PhpCustom ------------------------------
(***************************************************************************)
(* eio_custom: the workers run php_eio_custom_execute, which calls a PHP   *)
(* function, while the PHP thread cancels requests, handles results and    *)
(* ends the script.  Both use the php_eio_cb_custom_t of the request and   *)
(* the stack pointers in EG, without a lock (php8/php_eio.c).  This is the *)
(* build without ZTS; with it a custom request does nothing.               *)
(*                                                                         *)
(* The queues are reduced to sets, and groups to eio_grp_cancel of a group *)
(* with the request in it.  What the functions of the script return is     *)
(* taken to be a number or nothing, so that only its zval is allocated.    *)
(***************************************************************************)
EXTENDS Integers, FiniteSets

CONSTANTS
    Reqs, Workers,
    None        \* no request

ASSUME CustomAssumption ==
    /\ IsFiniteSet(Reqs) /\ IsFiniteSet(Workers) /\ None \notin Reqs
    /\ "main" \notin Workers

VARIABLES
    st,         \* where the request is
    rec,        \* its php_eio_cb_custom_t: "none", "live" or "freed"
    data,       \* req->data points to it
    locked,     \* its field
    cancelled,  \* req->cancelled
    buf,        \* EIO_BUF(req): the zval with the result is allocated
    phase,      \* of the script
    wreq, wpc,  \* the request and the place of each worker
    eio_cb,     \* the local variable: is it not NULL?
    EG,         \* whose stack EG(stack_limit) and EG(stack_base) describe
    saved,      \* the worker's copies of them
    ran,        \* ghost: how often execute was called for the request
    by,         \* ghost: who has cancelled it
    misused,    \* ghost: requests whose record was used, but not live
    raced,      \* ghost: requests that one of the three races was about (see
                \* Races and ScriptEnds)
    disturbed   \* ghost: workers that have returned early from
                \* php_eio_custom_execute, or entered it while another was
                \* in it

reqVars == <<st, rec, data, locked, cancelled, buf>>
workVars == <<wreq, wpc, eio_cb, EG, saved>>
histVars == <<ran, by, misused, raced, disturbed>>
vars == <<reqVars, phase, workVars, histVars>>

States == {"free", "queue", "exec",
           "res",       \* on the result queue
           "cb"}        \* in its callback

PCs == {"idle", "enter", "test", "lock", "call", "restore"}

Init ==
    /\ st = [r \in Reqs |-> "free"] /\ rec = [r \in Reqs |-> "none"]
    /\ data = [r \in Reqs |-> FALSE] /\ locked = [r \in Reqs |-> FALSE]
    /\ cancelled = [r \in Reqs |-> FALSE] /\ buf = [r \in Reqs |-> FALSE]
    /\ phase = "run"
    /\ wreq = [w \in Workers |-> None] /\ wpc = [w \in Workers |-> "idle"]
    /\ eio_cb = [w \in Workers |-> FALSE]
    /\ EG = "main" /\ saved = [w \in Workers |-> "main"]
    /\ ran = [r \in Reqs |-> 0] /\ by = [r \in Reqs |-> "nobody"]
    /\ misused = {} /\ raced = {} /\ disturbed = {}

\* The record of r is read or written: if it is not there, this is noted.
Use(r) == misused' = misused \cup {q \in {r} : rec[q] # "live"}

php_eio_free_eio_cb_custom(r) == rec' = [rec EXCEPT ![r] = "freed"] /\ Use(r)

-----------------------------------------------------------------------------
(* The PHP thread. *)

\* The record, if both functions are callable.
php_eio_new_eio_cb_custom(callable) == IF callable THEN "live" ELSE "none"

\* Without a record if one of the functions is not callable: an exception is
\* thrown, and the request submitted.
eio_custom(r, callable) ==
    /\ phase = "run" /\ st[r] = "free"
    /\ st' = [st EXCEPT ![r] = "queue"]
    /\ rec' = [rec EXCEPT ![r] = php_eio_new_eio_cb_custom(callable)]
    /\ data' = [data EXCEPT ![r] = callable]
    /\ locked' = [locked EXCEPT ![r] = FALSE]
    /\ cancelled' = [cancelled EXCEPT ![r] = FALSE]
    /\ buf' = [buf EXCEPT ![r] = FALSE]
    /\ ran' = [ran EXCEPT ![r] = 0]
    /\ by' = [by EXCEPT ![r] = "nobody"]
    /\ misused' = misused \ {r} /\ raced' = raced \ {r}
    /\ UNCHANGED <<phase, workVars, disturbed>>

\* A worker has read the pointer to the record, and has not set locked yet.
InWindow(r) ==
    \E w \in Workers : wreq[w] = r /\ wpc[w] \in {"test", "lock"} /\ eio_cb[w]

\* eio_cancel(r) now is a race: with the worker in the window, or with what the
\* worker did to a request that eio_grp_cancel had cancelled.
Races(r) == InWindow(r) \/ (by[r] = "group" /\ st[r] = "res")

\* EIO_CB_CUSTOM_IS_LOCKED may be true: so it is of a live record that is
\* locked, and a record that is not there may show anything.
SeenLocked(r) == data[r] /\ (rec[r] = "live" => locked[r])

\* Mutant of SeenUnlocked: locked is not looked at.
SeenUnlockedAlways(r) == TRUE

\* EIO_CB_CUSTOM_IS_LOCKED may be false.
SeenUnlocked(r) == data[r] /\ rec[r] = "live" => ~locked[r]

\* The request is left alone if its record is locked, also when it is done.
eio_cancel(r) ==
    /\ phase = "run" /\ st[r] # "free"
    /\ raced' = raced \cup {q \in {r} : Races(q)}
    /\ IF data[r] THEN Use(r) ELSE UNCHANGED misused
    /\ \/ SeenLocked(r) /\ UNCHANGED <<cancelled, by, rec, data>>
       \/ /\ SeenUnlocked(r)
          /\ cancelled' = [cancelled EXCEPT ![r] = TRUE]
          /\ by' = [by EXCEPT ![r] = "script"]
          /\ rec' = [rec EXCEPT ![r] = IF data[r] THEN "freed" ELSE @]
          /\ data' = [data EXCEPT ![r] = FALSE]
    /\ UNCHANGED <<st, locked, buf, phase, workVars, ran, disturbed>>

\* Of a group with r in it: locked is not looked at, and the record not freed.
eio_grp_cancel(r) ==
    /\ phase = "run" /\ st[r] # "free"
    /\ cancelled' = [cancelled EXCEPT ![r] = TRUE]
    /\ by' = [by EXCEPT ![r] = IF @ = "nobody" THEN "group" ELSE @]
    /\ UNCHANGED <<st, rec, data, locked, buf, phase, workVars, ran, misused, raced, disturbed>>

\* Mutant of EIO_FINISH: a cancelled request is called back.
FinishAll(r) == TRUE

EIO_FINISH(r) == ~cancelled[r]

\* eio_poll destroys a request without a callback.
FinishQuietly(r) ==
    /\ phase = "run" /\ st[r] = "res" /\ ~(EIO_FINISH(r) /\ data[r])
    /\ st' = [st EXCEPT ![r] = "free"]
    /\ UNCHANGED <<rec, data, locked, cancelled, buf, phase, workVars, histVars>>

\* eio_poll calls php_eio_res_cb_custom, and that the callback with the record's
\* data.
php_eio_res_cb_custom(r) ==
    /\ phase = "run" /\ st[r] = "res" /\ EIO_FINISH(r) /\ data[r]
    /\ st' = [st EXCEPT ![r] = "cb"]
    /\ Use(r)
    /\ UNCHANGED <<rec, data, locked, cancelled, buf, phase, workVars, ran, by, raced, disturbed>>

\* Mutant of CallbackReturn: the zval with the result stays.
CallbackReturnValue(r) ==
    /\ phase = "run" /\ st[r] = "cb"
    /\ php_eio_free_eio_cb_custom(r)
    /\ st' = [st EXCEPT ![r] = "free"]
    /\ UNCHANGED <<data, locked, cancelled, buf, phase, workVars, ran, by, raced, disturbed>>

\* The rest of php_eio_res_cb_custom, and eio_destroy.
CallbackReturn(r) ==
    /\ phase = "run" /\ st[r] = "cb"
    /\ buf' = [buf EXCEPT ![r] = FALSE]
    /\ php_eio_free_eio_cb_custom(r)
    /\ st' = [st EXCEPT ![r] = "free"]
    /\ UNCHANGED <<data, locked, cancelled, phase, workVars, ran, by, raced, disturbed>>

\* eio_set_max_parallel(0): a worker ends with the QUIT request that it takes.
PHP_RSHUTDOWN ==
    /\ phase = "run" /\ \A r \in Reqs : st[r] # "cb"
    /\ phase' = "sleep"
    /\ UNCHANGED <<reqVars, workVars, histVars>>

\* The sleep of 10 ms is over, and PHP frees all memory of the script, whatever
\* the workers do: a request that waits or is executed still points to it.
ScriptEnds ==
    /\ phase = "sleep"
    /\ phase' = "over"
    /\ rec' = [r \in Reqs |-> IF rec[r] = "live" THEN "freed" ELSE rec[r]]
    /\ buf' = [r \in Reqs |-> FALSE]
    /\ raced' = raced \cup {r \in Reqs : st[r] \in {"queue", "exec"}}
    /\ UNCHANGED <<st, data, locked, cancelled, workVars, ran, by, misused, disturbed>>

-----------------------------------------------------------------------------
(* A worker: eio_execute, which calls php_eio_custom_execute. *)

Goto(w, pc) == wpc' = [wpc EXCEPT ![w] = pc]

\* The request goes to the result queue, and the worker to the next one.
Result(w) ==
    /\ Goto(w, "idle")
    /\ wreq' = [wreq EXCEPT ![w] = None]
    /\ st' = [st EXCEPT ![wreq[w]] = "res"]

\* eio_execute looks at cancelled first.  A request of the highest priority may
\* be ahead of the QUIT, and is taken after the end of the script, too.
Take(w, r) ==
    /\ wpc[w] = "idle" /\ st[r] = "queue"
    /\ IF cancelled[r]
       THEN st' = [st EXCEPT ![r] = "res"] /\ UNCHANGED <<wpc, wreq>>
       ELSE /\ st' = [st EXCEPT ![r] = "exec"]
            /\ Goto(w, "enter")
            /\ wreq' = [wreq EXCEPT ![w] = r]
    /\ UNCHANGED <<rec, data, locked, cancelled, buf, phase, eio_cb, EG, saved, histVars>>

\* EG may describe the stack of a worker at one of these.
Inside == {"test", "lock", "call", "restore"}

\* req->data is read, and zend_call_stack_init is called.
Enter(w) ==
    /\ wpc[w] = "enter"
    /\ Goto(w, "test")
    /\ eio_cb' = [eio_cb EXCEPT ![w] = data[wreq[w]]]
    /\ saved' = [saved EXCEPT ![w] = EG]
    /\ EG' = w
    /\ disturbed' = disturbed \cup {v \in {w} : \E u \in Workers : wpc[u] \in Inside}
    /\ UNCHANGED <<reqVars, phase, wreq, ran, by, misused, raced>>

\* The two early returns, which do not restore EG; a cancelled request keeps
\* the pointer to the record that is freed.
Test(w) ==
    /\ wpc[w] = "test"
    /\ \/ /\ ~eio_cb[w]
          /\ Result(w)
          /\ disturbed' = disturbed \cup {w}
          /\ UNCHANGED <<rec, misused>>
       \/ /\ eio_cb[w] /\ cancelled[wreq[w]]
          /\ php_eio_free_eio_cb_custom(wreq[w])
          /\ Result(w)
          /\ disturbed' = disturbed \cup {w}
       \/ /\ eio_cb[w] /\ ~cancelled[wreq[w]]
          /\ Goto(w, "lock")
          /\ UNCHANGED <<st, wreq, rec, misused, disturbed>>
    /\ UNCHANGED <<data, locked, cancelled, buf, phase, eio_cb, EG, saved, ran, by, raced>>

Lock(w) ==
    /\ wpc[w] = "lock"
    /\ Goto(w, "call")
    /\ locked' = [locked EXCEPT ![wreq[w]] = TRUE]
    /\ Use(wreq[w])
    /\ UNCHANGED <<st, rec, data, cancelled, buf, phase, wreq, eio_cb, EG, saved, ran, by,
                   raced, disturbed>>

\* execute is called with the record's data; a zval is allocated for what it
\* returns, unless it throws.
CallExecute(w) ==
    LET r == wreq[w]
    IN  /\ wpc[w] = "call"
        /\ Goto(w, "restore")
        /\ \E returned \in BOOLEAN : buf' = [buf EXCEPT ![r] = returned]
        /\ ran' = [ran EXCEPT ![r] = @ + 1]
        /\ Use(r)
        /\ UNCHANGED <<st, rec, data, locked, cancelled, phase, wreq, eio_cb, EG, saved, by,
                       raced, disturbed>>

\* Mutant of Restore: the stack pointers are left as they are.
RestoreNot(w) ==
    /\ wpc[w] = "restore"
    /\ Result(w)
    /\ UNCHANGED <<rec, data, locked, cancelled, buf, phase, eio_cb, EG, saved, histVars>>

Restore(w) ==
    /\ wpc[w] = "restore"
    /\ EG' = saved[w]
    /\ Result(w)
    /\ UNCHANGED <<rec, data, locked, cancelled, buf, phase, eio_cb, saved, histVars>>

-----------------------------------------------------------------------------
Next ==
    \/ \E r \in Reqs :
          \/ \E callable \in BOOLEAN : eio_custom(r, callable)
          \/ eio_cancel(r) \/ eio_grp_cancel(r)
          \/ FinishQuietly(r) \/ php_eio_res_cb_custom(r) \/ CallbackReturn(r)
    \/ PHP_RSHUTDOWN \/ ScriptEnds
    \/ \E w \in Workers :
          \/ \E r \in Reqs : Take(w, r)
          \/ Enter(w) \/ Test(w) \/ Lock(w) \/ CallExecute(w) \/ Restore(w)

Spec == Init /\ [][Next]_vars

-----------------------------------------------------------------------------
(* Type invariant. *)

TypeOK ==
    /\ st \in [Reqs -> States] /\ rec \in [Reqs -> {"none", "live", "freed"}]
    /\ data \in [Reqs -> BOOLEAN] /\ locked \in [Reqs -> BOOLEAN]
    /\ cancelled \in [Reqs -> BOOLEAN] /\ buf \in [Reqs -> BOOLEAN]
    /\ phase \in {"run", "sleep", "over"}
    /\ wreq \in [Workers -> Reqs \cup {None}] /\ wpc \in [Workers -> PCs]
    /\ eio_cb \in [Workers -> BOOLEAN]
    /\ EG \in Workers \cup {"main"} /\ saved \in [Workers -> Workers \cup {"main"}]
    /\ ran \in [Reqs -> Nat] /\ by \in [Reqs -> {"nobody", "script", "group"}]
    /\ misused \subseteq Reqs /\ raced \subseteq Reqs /\ disturbed \subseteq Workers

-----------------------------------------------------------------------------
(* Safety. *)

\* The record of a custom request is there whenever the worker, eio_cancel or
\* php_eio_res_cb_custom uses it, and is freed once, although they share it
\* without a lock, except in three races: eio_cancel while a worker is between
\* reading req->data and locked = 1; eio_cancel after eio_grp_cancel, for a
\* request that is done; and the end of the script before the worker's.
RecordLive == misused \subseteq raced

\* execute is called at most once for a request, and has returned before the
\* request is called back.  A request that eio_cancel has cancelled is not
\* called back, and is executed only if eio_cancel came while a worker was
\* between reading req->data and locked = 1.
ExecuteThenCallback ==
    \A r \in Reqs :
       /\ ran[r] <= 1
       /\ st[r] = "cb" => ran[r] = 1 /\ \A w \in Workers : wreq[w] # r
       /\ by[r] = "script" => st[r] # "cb" /\ (ran[r] = 0 \/ r \in raced)

\* What is left when a request is gone: its record only if eio_grp_cancel has
\* cancelled it, and its result only in that case or if eio_cancel was in the
\* race with the worker.  Otherwise both are freed.
CustomReclaimed ==
    \A r \in Reqs :
       st[r] = "free" =>
          /\ rec[r] = "live" => by[r] = "group"
          /\ buf[r] => by[r] = "group" \/ r \in raced

\* "we need to restore them after invoking the PHP function": while no worker
\* runs a custom request, EG describes the stack of the PHP thread, unless one
\* of the two early returns was taken, or the executions of two workers
\* overlapped, so that one has saved the stack pointers of the other.
StackRestored == disturbed = {} /\ (\A w \in Workers : wpc[w] = "idle") => EG = "main"
=============================================================================
