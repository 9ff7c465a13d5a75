------------------------------- MODULE EtpPool -------------------------------
(***************************************************************************)
(* The thread pool of libeio/etp.c, with the PHP thread that submits,      *)
(* polls and runs the event loop (php_eio_event_loop), and the worker      *)
(* threads (etp_proc).                                                     *)
(*                                                                         *)
(* A step is one critical section, or one unlocked access to a field that  *)
(* another thread writes.  nreqs, wanted, max_idle and the max_poll_*      *)
(* fields are written by the PHP thread only, so its own accesses to them  *)
(* need no step of their own.                                              *)
(***************************************************************************)
EXTENDS Reqq, PhpPipe, FiniteSets

CONSTANTS
    Reqs,           \* addresses of ordinary requests (reused once freed)
    Grps,           \* addresses of group requests (EIO_GROUP)
    Quits,          \* addresses of the QUIT requests of etp_end_thread
    Workers,        \* addresses of etp_worker structures
    NoReq,          \* the null pointer
    UINT_MOD,       \* 2^32: the counters are unsigned int
    InitWanted,     \* 4 in etp_init
    InitMaxIdle,    \* 4 in etp_init
    PriArgs,        \* values a script passes as pri
    ParallelArgs,   \* values a script passes to set_{min,max}_parallel
    IdleArgs,       \* values a script passes to set_max_idle
    PollReqsArgs,   \* values a script passes to set_max_poll_reqs
    PollTimeArgs,   \* whether a script sets max_poll_time
    FinishResults,  \* what a finish callback returns (0 from php_eio_res_cb)
    CreateMayFail,  \* xthread_create may fail
    MaxDepth        \* bound on eio_poll calls nested in callbacks

Objs == Reqs \cup Grps \cup Quits

ASSUME PoolAssumption ==
    /\ IsFiniteSet(Objs) /\ IsFiniteSet(Workers)
    /\ Reqs \cap Grps = {} /\ Reqs \cap Quits = {} /\ Grps \cap Quits = {}
    /\ NoReq \notin Objs
    /\ UINT_MOD \in Nat
    \* fewer than 2^31 requests and threads
    /\ 2 * (Cardinality(Objs) + Cardinality(Workers)) < UINT_MOD
    /\ InitWanted \in 0..(UINT_MOD - 1)
    /\ InitMaxIdle \in 0..(UINT_MOD - 1)
    /\ PriArgs \subseteq Int
    /\ ParallelArgs \subseteq 0..(UINT_MOD - 1)
    /\ IdleArgs \subseteq 0..(UINT_MOD - 1)
    /\ PollReqsArgs \subseteq 0..(UINT_MOD - 1)
    /\ PollTimeArgs \subseteq BOOLEAN
    /\ 0 \in FinishResults
    /\ CreateMayFail \in BOOLEAN
    /\ MaxDepth \in Nat

ASSUME UintAssumption == UINT_MOD > 1

VARIABLES
    req_queue, res_queue,               \* etp_reqq
    started, idle, wanted, max_idle,    \* etp_pool
    max_poll_reqs,
    max_poll_time,                      \* only whether it is set
    nreqs, nready, npending,
    chan,                               \* php_eio_pipe
    wpc, wreq, wpri,                    \* where a worker is, its req, req->pri
    pc,                                 \* where the PHP thread is
    ret,                                \* where etp_maybe_start_thread returns
    seen,                               \* what etp_maybe_start_thread has read
    stack,                              \* active etp_poll calls, innermost first
    delayed                             \* groups with ETP_FLAG_DELAYED

queueVars == <<req_queue, res_queue>>
countVars == <<nreqs, nready, npending>>
confVars  == <<wanted, max_idle, max_poll_reqs, max_poll_time>>
thrVars   == <<started, idle, wpc, wreq, wpri>>
mainVars  == <<pc, ret, seen, stack, delayed>>
vars == <<queueVars, countVars, confVars, thrVars, mainVars, chan>>

-----------------------------------------------------------------------------
(* Unsigned and narrow integers. *)

UInt == 0..(UINT_MOD - 1)

Inc(x) == IF x = UINT_MOD - 1 THEN 0 ELSE x + 1

\* Mutant of Dec: a counter that is not unsigned.
DecSigned(x) == x - 1

Dec(x) == IF x = 0 THEN UINT_MOD - 1 ELSE x - 1

\* The (int) cast of an unsigned int.
Signed(x) == IF 2 * x >= UINT_MOD THEN x - UINT_MOD ELSE x

SChar(x) == ((x + 128) % 256) - 128

\* Mutant of LaneOf: no upper clamp.
LaneOfUnclamped(pri) ==
    LET p == SChar(SChar(pri) - ETP_PRI_MIN) IN IF p < 0 THEN 0 ELSE p

\* The lane etp_submit computes in the signed char req->pri: the argument is
\* narrowed (REQ), shifted by ETP_PRI_MIN, narrowed again, then clamped.
LaneOf(pri) ==
    LET p == SChar(SChar(pri) - ETP_PRI_MIN)
    IN  IF p < 0 THEN 0 ELSE IF p > TopPri THEN TopPri ELSE p

-----------------------------------------------------------------------------
(* Where the threads can be. *)

WorkerPC == {"off",       \* no thread
             "fetch",     \* about to lock reqlock
             "wait",      \* in X_COND_WAIT
             "twait",     \* in X_COND_TIMEDWAIT
             "woken",     \* left a wait, reqlock not yet reacquired
             "timedout",  \* the same, with ETIMEDOUT
             "exec",      \* in ETP_EXECUTE
             "tquit",     \* gave up after a timeout, started not yet lowered
             "quit"}      \* at the label quit

MainPC == {"user",                              \* the script, or a callback
           "ms1", "ms2", "msP", "msS", "start", \* etp_maybe_start_thread
           "poll", "shift",                     \* etp_poll
           "wait",                              \* poll(2) of the event loop
           "endchk", "endpush", "enddec"}       \* etp_set_max_parallel

\* maxreqs and maxtime of an etp_poll call, the request it is finishing, and
\* whether php_eio_event_loop made the call.
Frame == [left : UInt, timed : BOOLEAN, req : Reqs \cup Grps \cup {NoReq},
          loop : BOOLEAN]

\* On the condition variable, and not signalled.
Waiting == {w \in Workers : wpc[w] \in {"wait", "twait"}}

\* Will look at req_queue before it sleeps or leaves.
Awake == {w \in Workers : wpc[w] \in {"fetch", "woken", "timedout"}}

\* Between ++idle and --idle.
Idle == {w \in Workers : wpc[w] \in {"wait", "twait", "woken", "timedout"}}

Executing == {w \in Workers : wpc[w] = "exec"}

\* Requests whose memory is in use.
Finishing == {stack[i].req : i \in 1..Len(stack)} \ {NoReq}

InUse == Elems(req_queue) \cup Elems(res_queue) \cup Finishing \cup delayed
           \cup {wreq[w] : w \in Workers}

-----------------------------------------------------------------------------
Init ==
    /\ req_queue = reqq_init /\ res_queue = reqq_init
    /\ started = 0 /\ idle = 0
    /\ wanted = InitWanted /\ max_idle = InitMaxIdle
    /\ max_poll_reqs = 0 /\ max_poll_time = FALSE
    /\ nreqs = 0 /\ nready = 0 /\ npending = 0
    /\ chan = php_eio_pipe_new
    /\ wpc = [w \in Workers |-> "off"]
    /\ wreq = [w \in Workers |-> NoReq]
    /\ wpri = [w \in Workers |-> 0]
    /\ pc = "user" /\ ret = "user" /\ seen = 0
    /\ stack = <<>> /\ delayed = {}

-----------------------------------------------------------------------------
(* The request queue and the condition variable. *)

\* Mutant of Signal: only a push onto the empty queue signals.
SignalIfEmpty ==
    IF Waiting = {} \/ req_queue.size # 0 THEN wpc' = wpc
    ELSE \E w \in Waiting : wpc' = [wpc EXCEPT ![w] = "woken"]

\* Mutant of Signal: the signal is forgotten.
NoSignal == wpc' = wpc

\* X_COND_SIGNAL: one of the waiting workers, if there is one.
Signal ==
    IF Waiting = {} THEN wpc' = wpc
    ELSE \E w \in Waiting : wpc' = [wpc EXCEPT ![w] = "woken"]

\* Mutant of PushResult: counts only the results that announce themselves.
PushResultUncounted(r, pri) ==
    /\ npending' = IF res_queue.size = 0 THEN Inc(npending) ELSE npending
    /\ res_queue' = reqq_push(res_queue, r, pri)
    /\ chan' = IF res_queue.size = 0 THEN php_eio_want_poll(chan) ELSE chan

\* ++npending, reqq_push on res_queue, and ETP_WANT_POLL if it was empty.
PushResult(r, pri) ==
    /\ npending' = Inc(npending)
    /\ res_queue' = reqq_push(res_queue, r, pri)
    /\ chan' = IF res_queue.size = 0 THEN php_eio_want_poll(chan) ELSE chan

-----------------------------------------------------------------------------
(* etp_maybe_start_thread, on the PHP thread.  C leaves the order of the    *)
(* two reads in the second condition open.                                  *)

GoBack == pc' = ret /\ ret' = "user"

\* Mutant of MsGuard: off by one.
MsGuardLate ==
    /\ pc = "ms1"
    /\ IF started > wanted THEN GoBack ELSE pc' = "ms2" /\ UNCHANGED ret
    /\ UNCHANGED <<queueVars, countVars, confVars, thrVars, chan, seen, stack,
                   delayed>>

MsGuard ==
    /\ pc = "ms1"
    /\ IF started >= wanted THEN GoBack ELSE pc' = "ms2" /\ UNCHANGED ret
    /\ UNCHANGED <<queueVars, countVars, confVars, thrVars, chan, seen, stack,
                   delayed>>

MsRead ==
    /\ pc = "ms2"
    /\ \/ pc' = "msP" /\ seen' = started
       \/ pc' = "msS" /\ seen' = npending
    /\ UNCHANGED <<queueVars, countVars, confVars, thrVars, chan, ret, stack,
                   delayed>>

MsDecide ==
    /\ pc \in {"msP", "msS"}
    /\ LET other == IF pc = "msP" THEN npending ELSE started
       IN  IF 0 <= Signed(seen) + Signed(other) - Signed(nreqs)
           THEN GoBack
           ELSE pc' = "start" /\ UNCHANGED ret
    /\ seen' = 0
    /\ UNCHANGED <<queueVars, countVars, confVars, thrVars, chan, stack, delayed>>

\* etp_start_thread.  A failed xthread_create is ignored.
StartThread ==
    /\ pc = "start"
    /\ \/ /\ \E w \in Workers : /\ wpc[w] = "off"
                                /\ wpc' = [wpc EXCEPT ![w] = "fetch"]
          /\ started' = Inc(started)
       \/ CreateMayFail /\ UNCHANGED <<wpc, started>>
    /\ GoBack
    /\ UNCHANGED <<queueVars, countVars, confVars, idle, wreq, wpri, chan, seen,
                   stack, delayed>>

-----------------------------------------------------------------------------
(* What the script, or a callback, may call. *)

\* etp_submit of an ordinary request, up to etp_maybe_start_thread
Submit(r, pri) ==
    /\ pc = "user" /\ r \notin InUse
    /\ nreqs' = Inc(nreqs) /\ nready' = Inc(nready)
    /\ req_queue' = reqq_push(req_queue, r, LaneOf(pri))
    /\ Signal
    /\ pc' = "ms1" /\ ret' = "user"
    /\ UNCHANGED <<res_queue, npending, confVars, started, idle, wreq, wpri,
                   chan, seen, stack, delayed>>

\* Mutant of SubmitGroup: ++nreqs is forgotten.
SubmitGroupUncounted(g) ==
    /\ pc = "user" /\ g \notin InUse
    /\ PushResult(g, TopPri)
    /\ UNCHANGED <<nreqs, req_queue, nready, confVars, thrVars, mainVars>>

\* etp_submit of a group (eio_grp gives it EIO_PRI_MAX).  No other thread
\* reads nreqs, so the two critical sections are one step.
SubmitGroup(g) ==
    /\ pc = "user" /\ g \notin InUse
    /\ nreqs' = Inc(nreqs)
    /\ PushResult(g, TopPri)
    /\ UNCHANGED <<req_queue, nready, confVars, thrVars, mainVars>>

etp_set_min_parallel(n) ==
    /\ pc = "user"
    /\ wanted < n /\ wanted' = n
    /\ UNCHANGED <<queueVars, countVars, max_idle, max_poll_reqs, max_poll_time,
                   thrVars, mainVars, chan>>

etp_set_max_parallel(n) ==
    /\ pc = "user"
    /\ wanted' = IF wanted > n THEN n ELSE wanted
    /\ pc' = "endchk"
    /\ UNCHANGED <<queueVars, countVars, max_idle, max_poll_reqs, max_poll_time,
                   thrVars, ret, seen, stack, delayed, chan>>

etp_set_max_idle(n) ==
    /\ pc = "user"
    /\ max_idle' = n
    /\ UNCHANGED <<queueVars, countVars, wanted, max_poll_reqs, max_poll_time,
                   thrVars, mainVars, chan>>

etp_set_max_poll_reqs(n) ==
    /\ pc = "user"
    /\ max_poll_reqs' = n
    /\ UNCHANGED <<queueVars, countVars, wanted, max_idle, max_poll_time, thrVars,
                   mainVars, chan>>

etp_set_max_poll_time(set) ==
    /\ pc = "user"
    /\ max_poll_time' = set
    /\ UNCHANGED <<queueVars, countVars, wanted, max_idle, max_poll_reqs, thrVars,
                   mainVars, chan>>

-----------------------------------------------------------------------------
(* The loop of etp_set_max_parallel, with etp_end_thread. *)

EndCheck ==
    /\ pc = "endchk"
    /\ pc' = IF started > wanted THEN "endpush" ELSE "user"
    /\ UNCHANGED <<queueVars, countVars, confVars, thrVars, ret, seen, stack,
                   delayed, chan>>

EndPush(q) ==
    /\ pc = "endpush" /\ q \notin InUse
    /\ req_queue' = reqq_push(req_queue, q, TopPri)
    /\ Signal
    /\ pc' = "enddec"
    /\ UNCHANGED <<res_queue, countVars, confVars, started, idle, wreq, wpri, ret,
                   seen, stack, delayed, chan>>

\* Mutant of EndDec: --started is left to the thread.
EndDecMissing ==
    /\ pc = "enddec"
    /\ pc' = "endchk"
    /\ UNCHANGED <<queueVars, countVars, confVars, thrVars, ret, seen, stack,
                   delayed, chan>>

EndDec ==
    /\ pc = "enddec"
    /\ started' = Dec(started)
    /\ pc' = "endchk"
    /\ UNCHANGED <<queueVars, countVars, confVars, idle, wpc, wreq, wpri, ret,
                   seen, stack, delayed, chan>>

-----------------------------------------------------------------------------
(* etp_poll and php_eio_event_loop. *)

NewFrame(loop) == [left |-> 0, timed |-> FALSE, req |-> NoReq, loop |-> loop]

Top == Head(stack)

SetTop(f) == stack' = <<f>> \o Tail(stack)

eio_poll ==
    /\ pc = "user" /\ Len(stack) < MaxDepth
    /\ stack' = <<NewFrame(FALSE)>> \o stack
    /\ pc' = "poll"
    /\ UNCHANGED <<queueVars, countVars, confVars, thrVars, ret, seen, delayed,
                   chan>>

\* With nreqs = 0 the loop returns at once.
php_eio_event_loop ==
    /\ pc = "user" /\ Len(stack) < MaxDepth
    /\ nreqs # 0
    /\ stack' = <<NewFrame(TRUE)>> \o stack
    /\ pc' = "wait"
    /\ UNCHANGED <<queueVars, countVars, confVars, thrVars, ret, seen, delayed,
                   chan>>

\* poll(&pfd, 1, -1) returns.
LoopReady ==
    /\ pc = "wait" /\ Readable(chan)
    /\ pc' = "poll"
    /\ UNCHANGED <<queueVars, countVars, confVars, thrVars, ret, seen, stack,
                   delayed, chan>>

\* poll(2) fails with EINTR; its result is not looked at.
LoopInterrupted ==
    /\ pc = "wait" /\ ~Readable(chan)
    /\ pc' = "poll"
    /\ UNCHANGED <<queueVars, countVars, confVars, thrVars, ret, seen, stack,
                   delayed, chan>>

PollBegin ==
    /\ pc = "poll"
    /\ SetTop([Top EXCEPT !.left = max_poll_reqs, !.timed = max_poll_time])
    /\ pc' = "ms1" /\ ret' = "shift"
    /\ UNCHANGED <<queueVars, countVars, confVars, thrVars, seen, delayed, chan>>

\* Mutant of PollReturn: the loop looks at eio_npending().
PollReturnNpending ==
    IF Top.loop /\ npending # 0
    THEN pc' = "wait" /\ SetTop(NewFrame(TRUE))
    ELSE pc' = "user" /\ stack' = Tail(stack)

\* Mutant of PollReturn: the loop looks at eio_nthreads().
PollReturnNthreads ==
    IF Top.loop /\ started # 0
    THEN pc' = "wait" /\ SetTop(NewFrame(TRUE))
    ELSE pc' = "user" /\ stack' = Tail(stack)

\* etp_poll returns: to the loop, which looks at eio_nreqs() again, or to
\* the script.
PollReturn ==
    IF Top.loop /\ nreqs # 0
    THEN pc' = "wait" /\ SetTop(NewFrame(TRUE))
    ELSE pc' = "user" /\ stack' = Tail(stack)

PollEmpty ==
    /\ pc = "shift" /\ res_queue.size = 0
    /\ PollReturn
    /\ UNCHANGED <<queueVars, countVars, confVars, thrVars, ret, seen, delayed,
                   chan>>

\* Mutant of TakeResult: the size is looked at before the shift.
TakeResultEarly ==
    /\ pc = "shift" /\ res_queue.size # 0
    /\ res_queue' = reqq_shift(res_queue)
    /\ npending' = Dec(npending)
    /\ chan' = IF res_queue.size = 0 THEN php_eio_done_poll(chan) ELSE chan
    /\ nreqs' = Dec(nreqs)
    /\ UNCHANGED <<req_queue, nready, confVars, thrVars, seen>>

\* The two critical sections after the shift: reqq_shift with --npending and
\* ETP_DONE_POLL, then --nreqs.
TakeResult ==
    /\ pc = "shift" /\ res_queue.size # 0
    /\ res_queue' = reqq_shift(res_queue)
    /\ npending' = Dec(npending)
    /\ chan' = IF res_queue.size = 1 THEN php_eio_done_poll(chan) ELSE chan
    /\ nreqs' = Dec(nreqs)
    /\ UNCHANGED <<req_queue, nready, confVars, thrVars, seen>>

\* A group with members left: marked, and the loop continues.
PollDelay ==
    /\ TakeResult
    /\ First(res_queue) \in Grps
    /\ delayed' = delayed \cup {First(res_queue)}
    /\ pc' = "ms1" /\ ret' = "shift"
    /\ UNCHANGED stack

\* ETP_FINISH calls back into PHP.
PollFinish ==
    /\ TakeResult
    /\ SetTop([Top EXCEPT !.req = First(res_queue)])
    /\ pc' = "user"
    /\ UNCHANGED <<ret, delayed>>

\* The member whose finish callback runs was the last one of a delayed
\* group: grp_dec finishes the group too (EioGroup says when).
GroupDone(g) ==
    /\ pc = "user" /\ stack # <<>> /\ g \in delayed
    /\ delayed' = delayed \ {g}
    /\ UNCHANGED <<queueVars, countVars, confVars, thrVars, pc, ret, seen, stack,
                   chan>>

\* ETP_FINISH has returned res: the rest of the loop body.
CallbackReturn(res) ==
    /\ pc = "user" /\ stack # <<>>
    /\ \/ /\ \/ res # 0
             \/ Top.left = 1
             \/ Top.timed             \* maxtime is over
          /\ PollReturn
          /\ UNCHANGED ret
       \/ /\ res = 0 /\ Top.left # 1
          /\ SetTop([Top EXCEPT !.left = IF @ = 0 THEN 0 ELSE @ - 1,
                                !.req = NoReq])
          /\ pc' = "ms1" /\ ret' = "shift"
    /\ UNCHANGED <<queueVars, countVars, confVars, thrVars, seen, delayed, chan>>

-----------------------------------------------------------------------------
(* etp_proc. *)

\* Mutant of Unidle: the timeout path forgets it.
UnidleSignalled(w) == IF wpc[w] = "woken" THEN Dec(idle) ELSE idle

\* --idle, for a worker that comes out of a wait
Unidle(w) == IF w \in Idle THEN Dec(idle) ELSE idle

\* reqlock held: a request is there.
FetchRequest(w) ==
    /\ w \in Awake /\ req_queue.size # 0
    /\ LET r == First(req_queue)
       IN  /\ wreq' = [wreq EXCEPT ![w] = r]
           /\ wpc' = [wpc EXCEPT ![w] = IF r \in Quits THEN "quit" ELSE "exec"]
    /\ wpri' = [wpri EXCEPT ![w] = TopLane(req_queue)]
    /\ req_queue' = reqq_shift(req_queue)
    /\ nready' = Dec(nready)
    /\ idle' = Unidle(w)
    /\ UNCHANGED <<res_queue, nreqs, npending, confVars, started, mainVars, chan>>

\* reqlock held: nothing to do, go to sleep.
FetchWait(w) ==
    /\ w \in Awake /\ wpc[w] # "timedout" /\ req_queue.size = 0
    /\ idle' = Inc(Unidle(w))
    /\ wpc' = [wpc EXCEPT ![w] = IF idle' <= max_idle THEN "wait" ELSE "twait"]
    /\ UNCHANGED <<queueVars, countVars, confVars, started, wreq, wpri, mainVars,
                   chan>>

\* reqlock held: nothing to do after a timeout, give up.
FetchGiveUp(w) ==
    /\ wpc[w] = "timedout" /\ req_queue.size = 0
    /\ idle' = Unidle(w)
    /\ wpc' = [wpc EXCEPT ![w] = "tquit"]
    /\ UNCHANGED <<queueVars, countVars, confVars, started, wreq, wpri, mainVars,
                   chan>>

\* The idle timeout of X_COND_TIMEDWAIT.
Timeout(w) ==
    /\ wpc[w] = "twait"
    /\ wpc' = [wpc EXCEPT ![w] = "timedout"]
    /\ UNCHANGED <<queueVars, countVars, confVars, started, idle, wreq, wpri,
                   mainVars, chan>>

\* A condition variable may wake a thread nobody signalled.
SpuriousWakeup(w) ==
    /\ w \in Waiting
    /\ wpc' = [wpc EXCEPT ![w] = "woken"]
    /\ UNCHANGED <<queueVars, countVars, confVars, started, idle, wreq, wpri,
                   mainVars, chan>>

\* Mutant of Result: the worker keeps its request.
ResultKept(w) ==
    /\ wpc[w] = "exec"
    /\ PushResult(wreq[w], wpri[w])
    /\ wpc' = [wpc EXCEPT ![w] = "fetch"]
    /\ UNCHANGED <<req_queue, nreqs, nready, confVars, started, idle, wreq, wpri,
                   mainVars>>

\* ETP_EXECUTE is over; reslock held.
Result(w) ==
    /\ wpc[w] = "exec"
    /\ PushResult(wreq[w], wpri[w])
    /\ wpc' = [wpc EXCEPT ![w] = "fetch"]
    /\ wreq' = [wreq EXCEPT ![w] = NoReq]
    /\ wpri' = [wpri EXCEPT ![w] = 0]
    /\ UNCHANGED <<req_queue, nreqs, nready, confVars, started, idle, mainVars>>

\* --started under wrklock, after a timeout
TimeoutQuit(w) ==
    /\ wpc[w] = "tquit"
    /\ started' = Dec(started)
    /\ wpc' = [wpc EXCEPT ![w] = "quit"]
    /\ UNCHANGED <<queueVars, countVars, confVars, idle, wreq, wpri, mainVars, chan>>

\* free (req), etp_worker_free
WorkerFree(w) ==
    /\ wpc[w] = "quit"
    /\ wpc' = [wpc EXCEPT ![w] = "off"]
    /\ wreq' = [wreq EXCEPT ![w] = NoReq]
    /\ wpri' = [wpri EXCEPT ![w] = 0]
    /\ UNCHANGED <<queueVars, countVars, confVars, started, idle, mainVars, chan>>

-----------------------------------------------------------------------------
MaybeStart == MsGuard \/ MsRead \/ MsDecide \/ StartThread

Script ==
    \/ \E r \in Reqs, pri \in PriArgs : Submit(r, pri)
    \/ \E g \in Grps : SubmitGroup(g)
    \/ \E n \in ParallelArgs : etp_set_min_parallel(n) \/ etp_set_max_parallel(n)
    \/ \E n \in IdleArgs : etp_set_max_idle(n)
    \/ \E n \in PollReqsArgs : etp_set_max_poll_reqs(n)
    \/ \E set \in PollTimeArgs : etp_set_max_poll_time(set)
    \/ eio_poll
    \/ php_eio_event_loop

EndThreads == EndCheck \/ (\E q \in Quits : EndPush(q)) \/ EndDec

Poll == LoopReady \/ PollBegin \/ PollEmpty \/ PollDelay \/ PollFinish

Callback ==
    \/ \E g \in Grps : GroupDone(g)
    \/ \E res \in FinishResults : CallbackReturn(res)

Fetch(w) == FetchRequest(w) \/ FetchWait(w) \/ FetchGiveUp(w)

etp_proc(w) ==
    \/ Fetch(w) \/ Timeout(w) \/ SpuriousWakeup(w)
    \/ Result(w) \/ TimeoutQuit(w) \/ WorkerFree(w)

Next ==
    \/ MaybeStart \/ Script \/ EndThreads \/ Poll \/ LoopInterrupted \/ Callback
    \/ \E w \in Workers : etp_proc(w)

Spec == Init /\ [][Next]_vars

(***************************************************************************)
(* The operating system runs every thread that can run, the mutexes are    *)
(* handed to every thread that waits for them, and a system call returns.  *)
(* Nothing is assumed of timeouts, spurious wakeups and EINTR, nor of what *)
(* the script calls; a callback returns (SF, because it may call eio_poll  *)
(* over and over before it does).                                          *)
(***************************************************************************)
Fairness ==
    /\ WF_vars(MaybeStart) /\ WF_vars(EndThreads) /\ WF_vars(Poll)
    /\ SF_vars(CallbackReturn(0))
    /\ \A w \in Workers : /\ WF_vars(Fetch(w)) /\ WF_vars(Result(w))
                          /\ WF_vars(TimeoutQuit(w)) /\ WF_vars(WorkerFree(w))

FairSpec == Spec /\ Fairness

-----------------------------------------------------------------------------
(* Type invariant. *)

TypeOK ==
    /\ req_queue \in Queues(Reqs \cup Quits)
    /\ res_queue \in Queues(Reqs \cup Grps)
    /\ started \in UInt /\ idle \in UInt /\ wanted \in UInt
    /\ max_idle \in UInt /\ max_poll_reqs \in UInt /\ max_poll_time \in BOOLEAN
    /\ nreqs \in UInt /\ nready \in UInt /\ npending \in UInt
    /\ chan \in Nat
    /\ wpc \in [Workers -> WorkerPC]
    /\ wreq \in [Workers -> Reqs \cup Quits \cup {NoReq}]
    /\ wpri \in [Workers -> Lanes]
    /\ pc \in MainPC /\ ret \in {"user", "shift"} /\ seen \in UInt
    /\ stack \in Seq(Frame)
    /\ delayed \subseteq Grps

-----------------------------------------------------------------------------
(* Safety. *)

\* The size field of both queues is the number of requests linked on the
\* lanes and no request is linked twice, so the abort() at the end of
\* reqq_shift is never reached, whatever the threads do.
QueuesIntact ==
    /\ QueueOK(req_queue) /\ ~Aborts(req_queue)
    /\ QueueOK(res_queue) /\ ~Aborts(res_queue)

\* A request object is in one place at a time: on one queue, with one worker,
\* being finished by one etp_poll call (also when calls are nested), or a
\* delayed group.
OneOwner ==
    /\ \A v, w \in Workers : wreq[v] = wreq[w] /\ wreq[v] # NoReq => v = w
    /\ \A i, j \in 1..Len(stack) :
          stack[i].req = stack[j].req /\ stack[i].req # NoReq => i = j
    /\ \A w \in Workers : wreq[w] \notin Elems(req_queue) \cup Elems(res_queue)
                                           \cup Finishing \cup delayed
    /\ Elems(req_queue) \cap Elems(res_queue) = {}
    /\ (Elems(req_queue) \cup Elems(res_queue)) \cap (Finishing \cup delayed) = {}
    /\ Finishing \cap delayed = {}

\* The descriptor is readable exactly while there are results, although it
\* is written by workers and read by the PHP thread: the script is never left
\* waiting with a result in the queue, and never wakes up for nothing.
PollNotified == Readable(chan) <=> res_queue.size # 0

\* eio_nreqs() counts the requests that are queued, executed or done but not
\* handled: php_eio_event_loop goes on exactly as long as there is one.
NreqsExact ==
    nreqs = Cardinality(Elems(req_queue) \ Quits) + Cardinality(Executing)
              + Cardinality(Elems(res_queue))

\* eio_npending() is the number of unhandled results.
NpendingExact == npending = Cardinality(Elems(res_queue))

\* pool->idle is the number of workers in a wait, or not yet back from one.
IdleExact == idle = Cardinality(Idle)

\* Threads that run and have not taken a QUIT request or lowered started.
Counted == {w \in Workers : wpc[w] \notin {"off", "quit"}}

\* pool->started, which etp_end_thread lowers when it queues a QUIT and a worker
\* lowers when it times out, is the number of threads without the ones that a
\* queued QUIT will stop (modulo 2^32).
StartedExact ==
    LET quits == Cardinality(Elems(req_queue) \cap Quits)
        early == IF pc = "enddec" THEN 1 ELSE 0
        d     == started + quits - early - Cardinality(Counted)
    IN  d \in {0, UINT_MOD}

\* Every queued request has a worker that will look at the queue before it
\* sleeps, as long as any worker sleeps: no wakeup is lost between the
\* signals, the timeouts and the spurious wakeups.
NoLostWakeup ==
    Waiting # {} => Cardinality(Elems(req_queue)) <= Cardinality(Awake)

\* Outside etp_set_max_parallel there are never more than wanted threads besides
\* the ones that a queued QUIT will stop, although etp_maybe_start_thread reads
\* started without a lock, timed-out workers lower it late and etp_end_thread
\* lowers it (even below 0) before the thread has seen its QUIT.
ThreadLimit ==
    pc \notin {"endchk", "endpush", "enddec"}
    => Cardinality(Counted) <= wanted + Cardinality(Elems(req_queue) \cap Quits)

-----------------------------------------------------------------------------
(* Action properties. *)

\* eio_event_loop "polls eio until all requests proceeded": when it returns
\* nothing is queued, executed or waiting to be handled.
LoopReturns ==
    Len(stack') < Len(stack) /\ Top.loop
    => /\ Elems(req_queue') \subseteq Quits /\ Elems(res_queue') = {}
       /\ \A w \in Workers : wpc'[w] # "exec"

LoopReturnsEmpty == [][LoopReturns]_vars

-----------------------------------------------------------------------------
(* Liveness. *)

\* The event loop never waits forever in poll(2): as long as there are
\* requests, one of them gets done and the descriptor becomes readable.
LoopNeverStuck == (pc = "wait") ~> (pc # "wait")

\* The event loop returns unless its callbacks go on submitting.
LoopEnds ==
    <>[](stack # <<>>) =>
       []<><<\/ \E r \in Reqs, pri \in PriArgs : Submit(r, pri)
             \/ \E g \in Grps : SubmitGroup(g)>>_vars
=============================================================================
