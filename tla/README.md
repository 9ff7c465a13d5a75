# Verification of pecl-eio

TLA+ models, model-checking runs and machine-checked proofs for the PHP
extension *eio* (`src/php8/php_eio.c`) and the libeio it embeds (`src/libeio`).
The extension lets a PHP script submit file-system requests that worker threads
execute, and calls the script back when they are done.

## 1. Inventory

### 1.1 Threads and shared state

There is one **PHP thread** (the script, its callbacks, and all of libeio's API)
and up to `wanted` **worker threads** (`etp_proc`). They share

* `req_queue`, with the counters `nreqs`, `nready`, `idle`, under `reqlock`, and
  the condition variable `reqwait`;
* `res_queue`, under `reslock`; `npending` too, although its comment says
  `reqlock`;
* `started` and the list of workers, under `wrklock`;
* the descriptor the PHP thread polls (eventfd or pipe).

The PHP thread also reads `started` and `npending` with no lock at all
(`etp_maybe_start_thread`), because `WORDACCESS_UNSAFE` is 0 on x86 (`xthread.h` 8-14).

### 1.2 Components

| Component | State | Operations | Talks to |
|---|---|---|---|
| request queue (`etp.c` 113-117, 233-285) | one FIFO list per priority, `size` | `reqq_init`, `reqq_push`, `reqq_shift` | pool |
| thread pool (`etp.c`) | two queues, `started`, `idle`, `wanted`, `max_idle`, `nreqs`, `nready`, `npending`, `max_poll_*` | `etp_submit`, `etp_poll`, `etp_proc`, `etp_maybe_start_thread`, `etp_start_thread`, `etp_end_thread`, `etp_set_*` | workers by condition variable; PHP by the want/done callbacks |
| descriptor and event loop (`php_eio.c` 292-366, 888-912) | eventfd counter or bytes in a pipe | `php_eio_want_poll_callback`, `php_eio_done_poll_callback`, `php_eio_event_loop` | pool, poll(2) |
| groups, finishing, cancelling (`eio.c` 423-491, 2409-2443; `etp.c` 516-560) | `grp`, `grp_next`, `grp_prev`, `grp_first`, `size`, `cancelled`, `ETP_FLAG_DELAYED` | `eio_grp_add`, `eio_finish`, `grp_dec`, `eio_destroy`, `etp_cancel`, `etp_grp_cancel` | called by `etp_poll`, calls back into PHP |
| request handles (`php_eio.c` 79-185) | table request -> handle, reference counts, the destroy hook | `php_eio_handle_ref`, `..._release`, `..._req_destroy_hook`, `..._handle_dtor`, `..._handles_reset` | libeio's `eio_destroy`, PHP resources, fork |
| callback records (`php_eio.c` 426-551, 709-885) | `php_eio_cb_t` in `req->data` | `php_eio_new_eio_cb`, `php_eio_res_cb`, `php_eio_free_eio_cb`, `eio_cancel` | libeio's finish callback |
| eio_custom (`php_eio.c` 501-694) | `php_eio_cb_custom_t` with `locked` | `php_eio_custom_execute` (on a worker), `php_eio_res_cb_custom`, `eio_cancel` | runs PHP code on a worker |
| argument handling (`php_eio.c` 914-991, 1266-2419) | none | `php_eio_zval_to_fd`, about forty `eio_*` functions | libeio's request functions |
| request execution (`eio.c` 576-2130) | the worker's temporary buffer | `eio_execute`, `eio__sendfile`, `eio__realpath`, `eio__scandir`, ... | system calls |
| result conversion (`php_eio.c` 370-425, 735-864) | none | the switch of `php_eio_res_cb`, readdir helpers | PHP values |
| lifecycle (`php_eio.c` 994-1197) | `php_eio_pid`, the pipe, `wanted` | MINIT, MSHUTDOWN, RSHUTDOWN, `php_eio_init`, fork handler | pool, handles |

### 1.3 What is hard

* **Wakeups.** A signal, a timeout, a spurious wakeup and a worker that decides
  to quit can meet in any order; a request must not be left without a worker.
* **Unlocked reads.** Whether a new thread is needed is decided on values that
  change under the reader.
* **Two parties lower `started`**, and `nready` is lowered for requests that
  never raised it. All counters are unsigned.
* **Re-entrance.** A callback may call anything, `eio_poll` and
  `eio_event_loop` included, so `etp_poll`, `eio_finish` and `php_eio_res_cb`
  nest to any depth.
* **Lifetime.** libeio frees a request when it is finished; the script may keep
  the resource, and malloc reuses the address. A group must outlive its members.
  A forked child inherits callbacks that are running and no pool.
* **Cancelling** from anywhere, including a request's own callback, and while a
  worker is about to execute the request.
* **Memory between threads.** The buffers of a request are allocated, exchanged and
  freed by the worker and by the PHP thread, without a lock; `eio_custom` runs PHP
  code on a worker.
* **Partial work.** Short reads and writes, refused `sendfile`, failing
  allocations, links that loop.

`PROJECT.json` lists each of them at its line, with the properties that cover it.

### 1.4 What makes each component correct

* *Queue*: `size` is exact, nothing is linked twice, `abort()` is unreachable.
* *Pool*: a request is in one place; the four counters mean what `eio.h` says; no
  wakeup is lost; there are never more than `wanted` threads besides those that a queued
  QUIT will stop.
* *Event loop*: the descriptor is readable exactly while results wait; the loop
  returns only when all is done, and does return.
* *Groups*: the counter and the list are exact, a group is finished once, after
  its last member, and is finished at last.
* *Calls*: the system call is the one the script asked for; every pointer that is
  used or freed is live, what stays allocated is exactly what is known to, errno is
  the one of the failure.
* *sendfile, readdir*: exact against a definition without buffers, partial calls and sort
  tricks. *realpath*: where POSIX resolves a path, the code gives the same file. All three
  stay inside their buffers.
* *eio_custom*: outside the races that the properties name, the record has one owner at a
  time, `execute` runs once and before the callback, the stack pointers come back.
* *Handles and records*: reference counts are exact; a resource never reaches a
  later request at the same address; a record is freed at most once, and forgotten by
  `eio_grp_cancel` only.

## 2. Modules

| Module | What it is |
|---|---|
| `Reqq` | the queue: a record of lanes (sequences instead of linked lists) and `size`; operators only |
| `PhpPipe` | the descriptor as a number; operators for the two callbacks |
| `EtpPool` | the pool: PHP thread, workers, event loop |
| `EioGroup` | groups, `eio_finish` with nesting, cancelling |
| `GroupService` | what the code makes of groups: sets of requests, without counters and lists |
| `PhpHandles` | handles, resources, callback records, fork |
| `EioApi` | the request functions of libeio and the switch of `eio_execute`, as operators |
| `PhpApi` | the PHP functions that make a request: their tests and conversions, as operators |
| `PhpManual` | what each call asks for, stated without the layers of C |
| `PhpCalls` | one request from the call to its end, on both threads, with its memory |
| `EioSendfile`, `EioScandir` (with `DentSort`), `EioRealpath` | the three large functions of the worker |
| `RealpathPosix` | path resolution as POSIX defines it, the reference for `EioRealpath`; extended only by `MCEioFiles` and `EioFilesProofs` |
| `EioFiles` | a worker that executes them one after the other |
| `PhpCustom` | `eio_custom` on the workers and the PHP thread, and the end of the script |
| `MCEtpPool`, `MCEioGroup`, `MCPhpHandles`, `MCPhpCalls`, `MCEioFiles`, `MCPhpCustom` | model values, inputs and symmetry for TLC |
| `EtpPoolProofs`, `EtpCountProofs` | theorems about the queue and the pool |
| `EioGroupProofs`, `PhpHandlesProofs`, `PhpCallsProofs`, `PhpCustomProofs` | theorems about these modules |
| `EioScandirProofs` | lemmas about `eio__scandir` and its sort |
| `EioFilesProofs` | theorems about the worker of `EioFiles` |

`EtpPool` extends `Reqq` and `PhpPipe`. `EioGroup`, `PhpHandles`, `PhpCalls`, `EioFiles` and
`PhpCustom` look at one aspect each of what happens between `Submit` and
`CallbackReturn` of `EtpPool`: there a request waits, is executed some time and is
taken in some order, and these modules allow every such order. `PhpCalls` extends
`PhpManual`, which extends `PhpApi`, which extends `EioApi`.

### 2.1 EtpPool

A step is one critical section, or one unlocked read of a field another thread
writes. `wpc[w]` says where worker `w` is in `etp_proc`; `wreq[w]` and `wpri[w]`
are its `req` and `req->pri`. `pc` is where the PHP thread is: in the script or a
callback (`"user"`), in `etp_maybe_start_thread` (`"ms1"` .. `"start"`, with `ret`
the place it returns to and `seen` the value it has read), in `etp_poll`, in
poll(2), or in the loop of `etp_set_max_parallel`. `stack` has a frame for every
active `etp_poll` call: what is left of `max_poll_reqs`, whether a time limit is
set, the request being finished, and whether `php_eio_event_loop` made the call.

* `etp_submit` is `Submit` (then `MsGuard`, `MsRead`, `MsDecide`, `StartThread`) or
  `SubmitGroup`.
* `etp_poll` is `PollBegin`, `PollEmpty`, `PollDelay`, `PollFinish`,
  `CallbackReturn`; the two critical sections `--npending` and `--nreqs` are one
  step, because nobody but the PHP thread reads `nreqs`.
* `etp_proc` is `FetchRequest`, `FetchWait`, `FetchGiveUp`, `Timeout`,
  `SpuriousWakeup`, `Result`, `TimeoutQuit`, `WorkerFree`. Giving up and
  `--started` are two steps, as they are two critical sections.
* C leaves the order of the two calls in the second condition of
  `etp_maybe_start_thread` open: `MsRead` reads either first.
* Counters are unsigned integers modulo `UINT_MOD` (2^32 in the code); `pri` is
  narrowed to a signed char twice, as `REQ` and `etp_submit` do.
* Left open: how long a timed wait and `max_poll_time` last, what a request does
  while it executes, and when a group is done (`PollDelay`, `PollFinish` and
  `GroupDone` are free choices here; `EioGroup` says when each happens). With
  `FinishResults = {0, 1}` a finish callback may end `etp_poll` early, which the
  library allows; the extension's own callbacks return 0.

### 2.2 EioGroup

What the PHP thread sees of groups: a submitted request is in the pool until
`etp_poll` takes it, in any order, which covers every behaviour of `EtpPool`.
`st[o]` says where a request is, `stack` has the active `eio_finish` calls. The
link fields are the code's. `FinishAlone`, `FinishMember` and `FinishLast` are the
part of `eio_finish` after the callback (`Unlink` and `grp_dec`); `FinishLast`
calls `eio_finish` for the group while the member is still there, and `FinishDec`
is what follows it. The constant `Careful` is a contract of the script which the
code does not enforce: a request is added to one group only, and not to a group
whose callback has been called. `Walk`, what `etp_grp_cancel` reaches through the lists
of a group and of the groups in it, is stated as the least set that has the head
and is closed under the links, without recursion.

### 2.3 PhpHandles

`mem` has the handle table, the hooked requests, each handle's `req` and `refs`, and
the handle behind each resource; the C functions on handles are operators from
`mem` to `mem`. Addresses of requests, handles, records and resources are finite
sets from which a free one is taken, so they are reused. `stack` has the active
`php_eio_res_cb` calls with the `eio_cb` each keeps in a local variable. Every
function that submits is one `Submit` action, which takes no record when the
callback is not callable (the exception does not stop the function).
`php_eio_atfork_child` continues as the child: the parent's pending requests are
lost to it, the running callbacks go on. `CancelOwn` says whether a callback may
cancel its own request. `eio_grp_cancel(S)` cancels the members `S` of some group: it sets
`cancelled` and leaves `req->data` alone, where `eio_cancel` frees the record and clears it. The
ghost `passed` has the records that were in the request when it did.

### 2.4 GroupService and the refinement

In `GroupService` a group is a set. A request is finished, a group only when its set
is empty; the last member that leaves a waiting group finishes it; a cancellation
reaches the set, the sets of the groups in it, and so on. `EioGroup!Service`
instantiates it: `members` is the set of unfinished requests whose `grp` points to the
group, `phase` follows `st` (a delayed group and one in the pool both wait), and
`cancelled` is the field. `ImplementsService` says that every behaviour of the counter,
the doubly linked list, `ETP_FLAG_DELAYED` and the nested `eio_finish` calls is one of
the sets. A cancelled request is `"skipped"`: `EIO_FINISH` does not call it back
(`eio.c` 78). `libeio/Changes` 60 says the opposite, so `GroupService` is the service of the code, not of
that line; the run `HandlesForgotten` shows what the extension loses by it. `PollDelay` maps to a
stuttering step. `Below` is the transitive closure of
membership, as a least closed set.

### 2.5 EioApi, PhpApi, PhpManual, PhpCalls

`EioApi` has one operator per request function, from its arguments to an `eio_req`
(the fields that `calloc` zeroes included), and `Syscall`, the switch of `eio_execute`.
`PhpApi` has one operator per PHP function: a NUL in a path, a bad descriptor, the
narrowing of a `zend_long` (`ToInt`, `ToUint`, `ToSize`), defaults and clamps.
`PhpManual` is the reference: for each function the system call with the arguments as
the script gave them. Its flag `fits` marks calls whose arguments are in the range
of the C types; beyond it C narrows silently (section 6). `ArgumentAssumption` says what
the arguments are: paths with or without a NUL, descriptors of the known kinds,
integers. The offset of `eio_write` is one from the beginning of the file in `PhpManual`, as for
`eio_read`; the comment at `php_eio.c` 1893 says otherwise (section 6).

`PhpCalls` lets the script make any of these calls, with a callback, without, or
with one that is not callable. `heap` is the set of allocated blocks (`req`, `cb`, `path`,
`new_path`, `buf`, `zbuf`, `dup`, `names`, `dents`); `req.ptr1`, `req.ptr2` and the worker's copy
`wptr` point to them. `SwapBuffer` and `Return` are the end of `eio_write`, after the request
was submitted; `WorkerTake`, `WorkerCall` and `WorkerOpened` are `eio_execute`, the last one
between the open and the close of `eio__truncateat` and `eio__statvfsat`. `Cancel` is `eio_cancel`, which frees
the record; `GrpCancel` is the cancellation through a group, which does not. `nomem` says that
the request function ran out of memory; a worker that does is an ordinary failure. `eio_finish` has
`php_eio_res_cb` and `eio_destroy` in it, since only the PHP thread is left.

### 2.6 EioSendfile, EioScandir, EioRealpath, EioFiles

In `EioSendfile` and `EioRealpath` a step is one system call and what follows it up to the
next one. A file is its length and what was sent is a sequence of positions; a directory is a
set of entries that `readdir` returns in any order; a file system is a function from paths.

`EioScandir` reads an entry (`Readdir`), doubles the buffer of names until the name fits
(`GrowNames`), copies it and adds its element to the array (`AddEntry`), and tests
`EIO_CANCELLED`. At the end it sorts everything, or puts the directories first (`PutDirsFirst`)
and sorts only them, or sorts nothing (`Order`). It has the early ends: a failing open,
`readdir` or allocation, and a cancelled request. `NamesMayFail` has the realloc of the names
fail, apart from the other allocations (`AllocMayFail`): it leads to `"segv"`, the copy through a null
pointer. `php_eio_res_cb` for `EIO_READDIR` (offsets
back to names) is part of it, so that `ReaddirExact` is about what the script gets.

`DentSort` keeps the code's two algorithms, one turn of a loop per step: the radix exchange
with its stack of partitions, down to `EIO_SORT_CUTOFF` entries, and the insertion sort with a
sentinel and no bound test. The bits of an entry are those of its inode, below those of
its score; the code keeps the bits that occur in a table, the model in a set. `"overrun"` is
the place of an insertion that has left the array. Hard links (entries with one inode) are
among the inputs.

`RealpathPosix` resolves a link completely before it goes on, where the code pastes
the target before the rest of the path: `Walk` goes along the components of a string, and
`Resolve[n]`, a recursive function, resolves with links inside links less than `n` deep.
`RealpathAssumption` describes a file system: a root, directories, files and links, nodes only in
directories, links with a target, and a current directory that `getcwd` can return.

### 2.7 PhpCustom

`php_eio_custom_execute` is split at every access to what the PHP thread also uses:
`Enter` (read `data`, save and replace the stack pointers), `Test` (the two early returns),
`Lock`, `CallExecute`, `Restore`. `eio_cancel`, `eio_grp_cancel` (of a group with the request in
it) and the end of the script come at any of these places, as in the code; what a read of
a freed record shows is open (`SeenLocked`, `SeenUnlocked`). The rest is history: `misused` has the
requests whose record was used or freed when it was not live; `raced` those for which `eio_cancel`
came while a worker had read `data` and not set `locked` yet (`InWindow`), or after
`eio_grp_cancel` for a request that is done, or that waited or were executed when the script
ended; `disturbed` the workers that returned early or entered while another one was inside. The
properties say what happens outside of these, so that each lists the races in which
it is lost and no others.

## 3. Runs

| Run | Instance | Shows |
|---|---|---|
| `PoolCore` | 2 requests, 1 group, 2 workers, `wanted` grows from 1 to 2, 2 priorities, depth 2, pipe, timeouts, failing creation | `QueuesIntact`, `OneOwner`, `PollNotified`, `NreqsExact`, `NpendingExact`, `IdleExact`, `NoLostWakeup`, `LoopReturnsEmpty` |
| `PoolLive` | 2 requests, 1 group, 3 workers, `wanted` lowered from 2 to 1, one QUIT, fairness | `TypeOK`, `StartedExact`, `ThreadLimit`, `LoopNeverStuck`, `LoopEnds` |
| `Groups` | 2 requests, 2 groups, fairness, careful script | `TypeOK`, `SizeExact`, `ListExact`, `GroupLast`, `FinishedOnce`, `GroupEnds`, `ImplementsService` |
| `Handles` | 2 requests, 4 handles, 3 records, 4 resources, no cancel in the own callback | `RefsExact`, `NoStaleHandle`, `CbOwned`, `HookFindsHandle` |
| `Calls` | all functions; paths with and without NUL, every kind of descriptor, numbers around 0 and beyond each C type; allocations may fail; the string of `eio_write` is kept | `SyscallAsAsked`, `PointersLive`, `Reclaimed`, `ErrnoBelongs` |
| `Files` | a file of 6 bytes, 6 directories and 5 sets of flags, the names can grow, 13 nodes and all paths up to 3 components | `SendfileExact`, `SendfileWhole`, `ReaddirExact`, `ReaddirOrder`, `ScandirInBounds`, `RealpathAgrees`, `RealpathInBounds`, `RequestEnds` |
| `Custom` | 2 requests, 2 workers | `RecordLive`, `ExecuteThenCallback`, `CustomReclaimed`, `StackRestored` |
| `PoolStranded` | 1 request, 1 worker, `max_idle` 0, fairness | violates `LoopNeverStuck` |
| `HandlesCancelOwn` | as `Handles`, with cancel in the own callback | violates `CbOwned` |
| `HandlesForgotten` | as `Handles` | violates `NoneForgotten` |
| `WriteBuffer` | as `Calls`, no failing allocation, the string of `eio_write` is a temporary | violates `PointersLive` |
| `ScandirNoMemory` | as `Files`, the realloc of the names may fail | violates `ScandirInBounds` |

**Bounds.** Two requests and two workers are the least with which a worker is
awake while another sleeps and a second request arrives; the lost-wakeup mutant
needs exactly that. Depth 2 has a poll inside a callback of a poll; one group
has the other kind of result. Two priorities and three priority arguments reach
the clamp. `UINT_MOD` is 32 in the runs: far above every count, so a wrap is seen as
what it is (an enormous value). `Reqs`, `Quits` and `Workers` are symmetric (no run
with a temporal property over fairness uses symmetry). In `Groups` a group holds up
to three members, two requests and the other group, so that the head, the middle
and the end of a list are unlinked. In `Handles` each of two requests can have its
first resource and the `$req` of its callback at once, and a third record is there when a
forgotten one takes the place of another.

In `Calls` an int has 8 values and a size_t 16, so that numbers just inside and
outside of both are among the arguments. In `Files`, the
constants keep the order they have in the code (`EIO_SORT_CUTOFF` 3 < `EIO_SORT_FAST` 4
< 6 entries, a first buffer that a name does not fit, `SENDFILE_MIN` 1 < `KernelMax` 2 <
the file), so that each loop is taken several times: directories of 6 entries
use the radix sort, both buffers grow twice, and paths become too long in both
parts of the realpath buffer. The names of that file system have one byte, `..` two: the
sums that are compared with the size of the buffer vary by the number of components
rather than by their lengths. Inodes are at least 1. In `Custom` two workers overlap, which one request
cannot show.

**Timeouts and lowering `max_parallel`** are in separate passing runs: together `started` can
wrap, and `etp_set_max_parallel` then queues QUITs until it has counted down from 2^32 (section 6),
more than an instance has. `StartedExact` and `ThreadLimit` hold there as well, by the theorems of
section 4.1, and on an instance with three workers, two QUITs and 7.5 million states.

**Deadlock** is checked except in `Handles`, where the script may end, and where a
process that has forked often enough has lost all the addresses of the instance,
and in `Custom`, where the script ends.

**Fairness.** `EtpPool!Fairness` is weak fairness of each thread's own steps: the
operating system runs every runnable thread, hands a mutex to every waiter, and
system calls return. Timeouts, spurious wakeups, EINTR and the script's calls are
not fair. `CallbackReturn(0)` is strongly fair: a callback ends, although it may
call `eio_poll` any number of times first (each time the action is disabled).
`EioGroup!FairSpec` assumes that the script keeps polling (it runs the event loop)
and that callbacks return. `EioFiles!FilesSpec` assumes that the worker goes on in each of its
three functions: system calls return. That they end is what `RequestEnds` adds: the sort ends,
the names grow enough, and links that loop are given up. `PoolLive` has no idle timeouts and no failing
`xthread_create`: with timeouts the property is false (`PoolStranded`); after a
failed creation only a later submit or poll tries again.

### 3.1 What the violations show

* `PoolStranded` (`etp.c` 360-366, 447): a worker gives up after its timeout, and
  releases `reqlock` before it lowers `started`. A request submitted in between
  sees `started >= wanted`, starts no thread, and signals nobody; the event loop
  waits in poll(2) forever. It takes as many workers as `wanted`, all on their way
  out, hence `max_idle` 0 in the run.
* `HandlesCancelOwn` (`php_eio.c` 2440, 878): the record is freed twice.
* `HandlesForgotten` (`eio.c` 78): a member that `eio_grp_cancel` has cancelled is destroyed
  without its callback, and its record stays. `php_eio_res_cb` (`php_eio.c` 719) would free the
  record of a cancelled request, if it were called, as `Changes` 60 says it is.
* `WriteBuffer` (`php_eio.c` 1935-1940): a worker takes the request before `eio_write`
  has copied the string, and writes from the original after it is gone.
* `ScandirNoMemory` (`eio.c` 1528-1534): when the buffer of names cannot grow, only the
  inner loop is left, and the name is copied through a null pointer.

## 4. Proofs

Each theorem holds for every value of the constants under the named assumptions of
the modules, which TLC evaluates on every run. A contract of the script that the
code does not enforce is a hypothesis of the theorem, and section 3.1 or 6 shows what happens
without it.

### 4.1 The pool

About `EtpPool!Spec`, for any finite sets of requests, groups, QUITs and workers,
any configuration and any nesting depth. Assumptions
(`PriAssumption`, `EventfdAssumption`, `PoolAssumption`, `UintAssumption`): the priorities fit a signed
char, the kinds of addresses are disjoint, and there are fewer than 2^31 requests
and threads together.

* `EtpPoolProofs` begins with lemmas about `reqq_init`, `reqq_push` and `reqq_shift`: what they do
  to the set of queued requests, and that `size` stays its cardinality. The inductive invariant `Struct` is `TypeOK`, `StackOK` (there is a call to
  return to), `WorkerOK` (a worker holds a request exactly in the places where
  `etp_proc` has one), `QueueOK` of both queues, `OneOwner`, and `ChanOK` (the descriptor
  holds 1 while there are results and 0 otherwise). None of them is inductive
  alone: a push keeps the queue free of duplicates only since the request was in
  one place, and a shift yields a request only since `size` is exact. It gives
  `TypeCorrect`, `QueuesStayIntact`, `RequestsHaveOneOwner`, `NotificationExact`.
* `EtpCountProofs`: with `Struct` before and after a step, `Counts` is inductive:
  `NpendingExact`, `NreqsExact`, `IdleExact`, `StartedExact`, `NoLostWakeup`. The last one is
  stronger than "some worker is awake": while anyone sleeps, there are as many awake workers as
  queued requests. It gives `NreqsCounts`, `NpendingCounts`, `IdleCounts`, `StartedCounts`,
  `NoWakeupLost`, and the action property `LoopReturnsWhenDone`.
* `ThreadsLimited`, also in `EtpCountProofs`, is `ThreadLimit` without a hypothesis: it counts
  threads, not `started`. `Threads` is the number of threads that no queued QUIT will stop. By
  `StartedExact`, and since it is small, it is determined by `started`, and equal to
  it or, when `started` has wrapped, less (`ThreadsStarted`); it moves with `started` (`ThreadsMove`).
  So a test `started < wanted` that succeeds leaves room for a thread, whatever `started` has
  become by then, and until the thread is started workers can only lower the number: that is the
  inductive invariant `Limit`.

### 4.2 Groups

`EioGroupProofs`, about `EioGroup!Spec` with `Careful`, for any finite sets of requests and
groups. Lists come first, as a head and two functions on a set: `IsList` says that the links
undo each other inside the set, and that every set that has the head and is closed
under `grp_next` has all of it. `ListPush` and `ListCut` are what `eio_grp_add` and
the unlinking do, wherever the request is; the second half of `IsList` is what
excludes a cycle beside the list, and it is stated so that no induction along the
list is needed. The invariant `Inv` adds to `TypeOK`, `SizeExact`, `GroupLast` and `FinishedOnce`
that every list is one (`ListOK`), that only a member waits inside `grp_dec` (`DecOK`), that requests have
no lists (`LeafOK`), and that a group that is in another one is in its own callback
(`NestedOK`). It gives `TypeCorrect`, `SizeExactCorrect`, `ListExactCorrect`,
`GroupLastCorrect` and `FinishedOnceCorrect`.

`ServiceImplemented` is the refinement of `GroupService`: initial states map to initial
states, and every action to the action of sets or to a stuttering step. The part that
is not bookkeeping is that `Walk` along the lists is `Below` in the sets.

### 4.3 Handles and callback records

`PhpHandlesProofs`, about `PhpHandles!Spec`, for any finite sets of requests, handles, records and
resources. The functions on handles are proved to keep `MemOK` (reference counts,
and the table inverse to the handles' pointers) as operators, apart from the
actions; `AliveOK` ties the table to the live requests. This invariant (`HandleInv`)
gives `TypeCorrect`, `RefsExactCorrect`, `NoStaleHandleCorrect` and `HookFindsHandleCorrect`, with
fork and with cancelling in any place. `CbOwnedCorrect` has the hypothesis `~CancelOwn`
(the run `HandlesCancelOwn` is the counterexample without it) and needs that each
running callback is the one of a request in state "cb", and no two are of the same
request. It bounds what `eio_grp_cancel` leaves behind: only records that were in a
request when it came (`passed`).

### 4.4 Calls

`PhpCallsProofs`, about `PhpCalls!Spec`, for all widths of `int` and `size_t` with
`int` narrower (`WidthAssumption`), and all arguments. `CallsOK` goes through the 41 forms of a call:
the request that the PHP function and the request function of libeio make leads
`eio_execute` to the call that `PhpManual` states, if the arguments fit, and has
the shape (`IsReq`) that the rest relies on. The invariant `Inv` says where the two threads
are (`PhaseOK`), that the request is still what was asked for until the worker has
called (`AskedOK`), and which block each pointer owns at each place (`MemoryOK`): what is
allocated is exactly what the flags `PTR1_FREE` and `PTR2_FREE`, `req->data` and the copy of
`eio_write` account for. So `Reclaimed`, an equation, follows: what is left at the end is the copy of
`eio_write` or the record, each under its condition, and nothing else. It gives `SyscallAsAskedCorrect`, `ReclaimedCorrect`, `ErrnoBelongsCorrect`
without a hypothesis, and `PointersLiveCorrect` with `KeepArg` (the run `WriteBuffer` is
the counterexample without it).

### 4.5 eio_custom

`PhpCustomProofs`, about `PhpCustom!Spec`, for any finite sets of requests and workers, without a
hypothesis: `eio_cancel`, `eio_grp_cancel` and the end of the script come at any time. The invariant
says who has the record: a request in execution has one worker (`HolderOK`); for a request
that is not in `raced`, what that worker has read is still so (`WorkerOK`), and `data` points to a
live record unless a worker has freed it after `eio_grp_cancel` (`RecordOK`); once `execute` has run the
record is locked, so that `eio_cancel` comes too late (`RanOK`). For the stack pointers: while
`disturbed` is empty at most one worker is inside, and has saved those of the PHP thread. They are
`TypeCorrect`, `RecordLiveCorrect`, `ExecuteThenCallbackCorrect`, `CustomReclaimedCorrect` and
`StackRestoredCorrect`.

### 4.6 sendfile, scandir and realpath

`EioFilesProofs` is about `FilesSpec`, a worker that executes requests of the three kinds in any
order. `FilesInv` is one invariant for each function; the steps of one leave the variables
of the others alone.

**sendfile.** `SendfileExactCorrect` and `SendfileWholeCorrect`, for all file lengths, ranges,
buffer sizes and limits of a call. The invariant: what was sent is the file from the offset
on (`OutOK`), the arguments describe what is left, which is not empty inside the
loops (`RestOK`), and each of the two loops counts what it has sent in its own variable
(`CountOK`).

**scandir.** `ScandirInBoundsCorrect`, `ReaddirExactCorrect` and `ReaddirOrderCorrect`, for all
finite directories, flags, buffer sizes, limits of the sort with `EIO_SORT_CUTOFF < EIO_SORT_FAST`,
and widths of an inode; inodes are at least 1, as on every file system. The first one has the
hypothesis `~NamesMayFail` (the run `ScandirNoMemory` is the counterexample without it); other allocations
may fail. `EioScandirProofs` has the argument, in `SortInv` and `SdInv`:

* *The radix sort.* The partition at work and those on the stack follow each other to the
  end of the array, and their bits get smaller towards the top (`StackOK`), so that
  the stack has room (`Len(stk) < 9 + INO_BITS`). Inside a partition all entries agree in the
  bits above its own, and everything behind it is larger in those bits (`SegmentOK`). Entries
  that differ in a bit and agree above it are ordered by `eio_dent_cmp` (`CmpBelow`), which is
  where the numbers behind the bits come in.
* *The sentinel.* After the first partition that is not empty, the first entry is not above
  anything behind that partition, nor above anything from position `EIO_SORT_CUTOFF` on
  (`FrontOK`): a partition is finished when it is smaller than the cutoff, or when it
  was divided by the last bit, and then it consists of equal entries without the bit
  followed by equal entries with it. So the smallest entry is among the first ones that `FindMin`
  looks at (`MinOK`), every insertion finds a place to stop, and `"overrun"` is
  unreachable (`InsertOK`).
* *The contents.* The array has the elements that were made for the names, in some order
  (`ElementsOK`): swapping and moving down only rearrange positions (`SwapRearranges`,
  `MoveRearranges`). Names and visible entries correspond one to one (`NamesOK`), which
  gives `ReaddirExact`. The order by score and inode, of all entries or of the directories in
  front (`WhatIsSorted`), gives `ReaddirOrder`.

**realpath.** `RealpathInBoundsCorrect` and `RealpathCanonicalCorrect`, for all file systems,
paths, buffer sizes and limits of links (at least 2). `RealpathInBounds` alone is not inductive:
after the last permitted link `rel` is in the buffer already, which needs that the counter is
positive in the loop; and `..` stays inside the buffer since the path
so far is one of the file system, whose parents are directories (`RealpathCanonical`).
`RealpathAgreesCorrect`: a path that the reference resolves with fewer than `SYMLINKS` links is
resolved to the same file, unless it gets too long. The invariant (`AgreesInv`): if the
reference resolves the path, then the rest of it, resolved from what the code has reached
and with the links followed so far, has the same result. For a step over a link this needs
that a walk along two joined strings is one walk after the other (`WalkJoin`), that more
levels of nesting do not change a result (`WalkExtends`), and that the number of links only
grows (`ResolveGrows`), so that the code does not give up before the reference is there.

*Induction.* The library's induction theorems take an operator, which the provers cannot
instantiate. Here induction is by the smallest counterexample, as a set of
numbers (`SmallestOf`, `UpTo`, from `NatLessThanWellFounded` and `WFMin`), and the existence of a recursively
defined function is proved once, for a rule given as a function (`Recursion`), and used for `Walk`
and `Resolve`.

*Powers of two* are unknown to the provers. `DentSort!PowersOfTwo` states what they are up to the
highest bit: a fact of arithmetic rather than an assumption about the code. TLC evaluates it.

### 4.7 Only model-checked

Every invariant and every action property of a passing run, the refinement of
`GroupService` included, is a theorem. What TLC alone checks:

* Liveness, which needs fairness and `ENABLED`, beyond the prover: `LoopNeverStuck`, `LoopEnds`,
  `GroupEnds`, `RequestEnds`.

`NoneForgotten` fails for the code as it is (section 3.1).

## 5. Not modelled

* Parts of libeio that no PHP function reaches: working directories (`eio_wd_*`),
  `slurp`, `msync`, `mtouch`, `mlock`, `mlockall`, `fcntl`, `ioctl`, feeders of groups.
* Branches for other systems: Windows, BSD, kernels without `syncfs` or
  `sync_file_range`, builds without the `*at` functions, ZTS.
* The keys of the stat and statvfs arrays, `eio_get_last_error`'s texts, exceptions other
  than that they are thrown; what the functions of `eio_custom` do.
* MINIT, MSHUTDOWN, stub, arginfo, `ecb.h` and build files.
* The linked lists of a queue's lanes are sequences. The list of workers has no
  reader. Where `WORDACCESS_UNSAFE` is 1 the unlocked reads are made under `reqlock`,
  one at a time, which changes no step of the model.

## 6. Observations

What reading and modelling showed that is not the subject of a run of its own.

*Pool.*

* `etp_proc` lowers `nready` for QUIT requests too, which `etp_end_thread` queues
  without raising it (`etp.c` 387, 466): `eio_nready()` is one too low per ended thread and
  wraps (`eio.h` 333: "number of not-yet handled requests").
* `etp_set_max_parallel` may end a thread that is leaving after a timeout:
  `started` is lowered twice (`etp.c` 364, 471, 644) and wraps. If another call of
  `etp_set_max_parallel` comes before threads are started again, it finds 2^32 - 1 threads to
  end and allocates a QUIT for each.
* `pri` of 124 to 127 overflows a signed char and lands in the lowest lane (`etp.c` 565).

*Cancelling.*

* `RecordLive` names three races in which the record of a custom request is used after it
  is freed, or freed twice. `eio_cancel` comes after the worker has read `data` and
  before `locked = 1` (`php_eio.c` 583-593); `eio_cancel` comes after `eio_grp_cancel`, for which
  the worker has freed the record without clearing `data` (588); RSHUTDOWN sleeps 10 ms and
  does not wait for the workers (1188). In the first one a request that `eio_cancel` has
  cancelled is executed all the same, and its result is not freed.
* `StackRestored` names two cases in which the stack pointers of a worker stay in `EG`: the early
  returns (583-590), and executions that overlap. The comment at 572-573 speaks of restoring
  them "after invoking the PHP function", which the early returns do not do.
* After RSHUTDOWN `wanted` stays 0 for the next script of the process, and requests still queued
  keep pointers to records of the script that has ended.

*Groups.*

* `eio_grp_add` accepts a request for a group whose callback runs, and one that is in a
  group already: the assertion at `eio.c` 2429 tests `int1`, which nothing sets. The constant
  `Careful` excludes both; with `FALSE` TLC finds a group that is added to itself in its own callback.

*Memory.*

* `eio_write`'s copy is freed only in the callback of a successful write; it stays
  when the request is cancelled, fails or has no callback. `eio_write` also uses the
  request before it tests it for NULL (`php_eio.c` 1940).
* The callback record is lost when libeio's request function returns NULL, and
  the first path when the second `strdup` fails (`eio.c` 2352-2366).
* `eio__scandir` leaves the directory open when it is cancelled or runs out of memory,
  besides the copy through a null pointer (run `ScandirNoMemory`).
* `php_eio_res_cb_custom` copies the result's zval without a reference and releases
  both; for a value with a reference count that is one release too many. The
  model takes results as numbers.

*Arguments and results.*

* A callback that is not callable throws, and the request is submitted all the
  same. The text of the error is lost, as `error` is passed by value (`php_eio.c` 233).
* Numbers beyond an int are narrowed: a descriptor of 2^32 is descriptor 0, and a
  string of 2 GB and more gets another length in `eio_write`. For a stream that
  cannot be cast, the bits of the zval are taken for a descriptor.
* The comment before `eio_write` has its offset "from the beginning of the buf contents"
  (`php_eio.c` 1893). The code passes it to pwrite(2) as an offset in the file (`php_eio.c`
  1935, `eio.c` 1924-1927), and that is what `PhpManual` and `SyscallAsAsked` take for the meaning of the
  call. For an offset other than 0 the code does not do what that comment says.
* `eio_truncate` and `eio_readdir` cut a path at a NUL; the others refuse it.
* `eio_read`'s string has the requested size, also when fewer bytes were read
  (`php_eio.c` 764).

## 7. Plan

What is modelled and proved so far is complete in itself. Next, in this order:

1. `EtpPool`: `eio_nready`, once `etp_proc` no longer counts QUIT requests (section 6).
2. The result arrays of stat and statvfs in `PhpCalls`.
3. `EioRealpath` with names of different lengths.
