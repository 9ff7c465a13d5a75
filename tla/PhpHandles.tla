----------------------------- MODULE PhpHandles -----------------------------
(***************************************************************************)
(* What the extension allocates for a request, and when it lets go of it   *)
(* (php8/php_eio.c): the handle through which PHP resources reach an       *)
(* eio_req, and the php_eio_cb_t that holds the callback.  libeio frees an *)
(* eio_req when it likes, malloc hands the address out again, and the      *)
(* script keeps resources for as long as it likes.                         *)
(*                                                                         *)
(* The pool is reduced to a set of submitted requests that etp_poll takes  *)
(* in any order, also from within a callback.                              *)
(***************************************************************************)
EXTENDS Integers, Sequences, FiniteSets

CONSTANTS
    Reqs, Handles, Cbs, \* addresses of eio_req, php_eio_handle, php_eio_cb_t
    Rsrcs,              \* zend_resources of both resource types
    Nil,                \* the null pointer
    CancelOwn           \* a callback may call eio_cancel on its own request

ASSUME HandleAssumption ==
    /\ IsFiniteSet(Reqs) /\ IsFiniteSet(Handles) /\ IsFiniteSet(Cbs)
    /\ IsFiniteSet(Rsrcs)
    /\ Nil \notin Reqs \cup Handles \cup Cbs
    /\ CancelOwn \in BOOLEAN

VARIABLES
    st,         \* where the eio_req is
    cancelled,
    data,       \* req->data
    cbs,        \* the allocated php_eio_cb_t
    mem,        \* handles, resources and req->destroy; see Mem
    stack,      \* active php_eio_res_cb calls: the request, its eio_cb (a
                \* local variable) and the resource made for $req
    passed      \* ghost: records of the requests that eio_grp_cancel cancelled

vars == <<st, cancelled, data, cbs, mem, stack, passed>>

States == {"free",      \* not allocated
           "pool",      \* submitted
           "cb",        \* in its callback
           "lost"}      \* submitted by the parent of this process

\* table is php_eio_handles, hooked the requests whose destroy function is
\* php_eio_req_destroy_hook, and a handle with refs 0 is not allocated.
Mem == [table  : [Reqs -> Handles \cup {Nil}],
        hooked : SUBSET Reqs,
        req    : [Handles -> Reqs \cup {Nil}],
        refs   : [Handles -> Nat],
        rsrc   : [Rsrcs -> Handles \cup {Nil}]]

Init ==
    /\ st = [r \in Reqs |-> "free"]
    /\ cancelled = [r \in Reqs |-> FALSE]
    /\ data = [r \in Reqs |-> Nil]
    /\ cbs = {}
    /\ mem = [table |-> [r \in Reqs |-> Nil], hooked |-> {},
              req |-> [h \in Handles |-> Nil],
              refs |-> [h \in Handles |-> 0],
              rsrc |-> [x \in Rsrcs |-> Nil]]
    /\ stack = <<>>
    /\ passed = {}

-----------------------------------------------------------------------------
(* The functions on handles. *)

php_eio_handle_release(m, h) == [m EXCEPT !.refs[h] = @ - 1]

\* Mutant of php_eio_req_destroy_hook: the handle goes on pointing to the
\* request.
destroy_hook_keeps_req(m, r) ==
    LET h == m.table[r]
    IN  IF h = Nil THEN m
        ELSE php_eio_handle_release([m EXCEPT !.table[r] = Nil], h)

\* libeio is about to free the request.
php_eio_req_destroy_hook(m, r) ==
    LET h == m.table[r]
    IN  IF h = Nil THEN m
        ELSE php_eio_handle_release([m EXCEPT !.req[h] = Nil, !.table[r] = Nil], h)

\* Mutant of php_eio_handle_ref: only libeio's reference is counted.
handle_ref_once(m, r, new) ==
    IF m.table[r] # Nil THEN m
    ELSE [m EXCEPT !.req[new] = r, !.refs[new] = 1, !.table[r] = new,
                   !.hooked = @ \cup {r}]

\* The handle of a request, made if there is none.
php_eio_handle_ref(m, r, new) ==
    IF m.table[r] # Nil
    THEN [m EXCEPT !.refs[m.table[r]] = @ + 1]
    ELSE [m EXCEPT !.req[new] = r, !.refs[new] = 2, !.table[r] = new,
                   !.hooked = @ \cup {r}]

php_eio_register_resource(m, r, new, x) ==
    LET m2 == php_eio_handle_ref(m, r, new) IN [m2 EXCEPT !.rsrc[x] = m2.table[r]]

\* The destructor of both resource types.
php_eio_handle_dtor(m, x) ==
    IF m.rsrc[x] = Nil THEN m
    ELSE php_eio_handle_release([m EXCEPT !.rsrc[x] = Nil], m.rsrc[x])

\* Mutant of php_eio_handles_reset: the hook stays.
handles_reset_hooked(m) ==
    LET tabled == {r \in Reqs : m.table[r] # Nil}
    IN  [m EXCEPT !.req    = [h \in Handles |->
                                 IF \E r \in tabled : m.table[r] = h THEN Nil
                                 ELSE m.req[h]],
                  !.refs   = [h \in Handles |->
                                 m.refs[h] - Cardinality({r \in tabled : m.table[r] = h})],
                  !.table  = [r \in Reqs |-> Nil]]

\* Lets go of the handles of all live requests, and takes the hook back.
php_eio_handles_reset(m) ==
    LET tabled == {r \in Reqs : m.table[r] # Nil}
    IN  [m EXCEPT !.hooked = @ \ {r \in tabled : m.req[m.table[r]] # Nil},
                  !.req    = [h \in Handles |->
                                 IF \E r \in tabled : m.table[r] = h THEN Nil
                                 ELSE m.req[h]],
                  !.refs   = [h \in Handles |->
                                 m.refs[h] - Cardinality({r \in tabled : m.table[r] = h})],
                  !.table  = [r \in Reqs |-> Nil]]

\* A handle pemalloc can return, and a resource not in use.
FreeHandle(m, h) == m.refs[h] = 0
FreeRsrc(m, x) == m.rsrc[x] = Nil /\ \A i \in 1..Len(stack) : stack[i].rsrc # x

-----------------------------------------------------------------------------
(* Requests. *)

\* Any of the eio_* functions that submit: a callback record (none when the
\* callback is not callable: the exception does not stop the function), the
\* request, and the resource that is returned to the script.
Submit(r, c, h, x) ==
    /\ st[r] = "free" /\ c \notin cbs /\ FreeHandle(mem, h) /\ FreeRsrc(mem, x)
    /\ st' = [st EXCEPT ![r] = "pool"]
    /\ cancelled' = [cancelled EXCEPT ![r] = FALSE]
    /\ data' = [data EXCEPT ![r] = c]
    /\ cbs' = cbs \cup ({c} \ {Nil})
    /\ mem' = php_eio_register_resource([mem EXCEPT !.hooked = @ \ {r}], r, h, x)
    /\ passed' = passed \ {c}
    /\ UNCHANGED stack

\* eio_destroy: req->destroy, which is the hook or frees the request itself.
\* The hook frees it only through the handle it finds.
Destroy(m, r) ==
    /\ mem' = IF r \in m.hooked THEN php_eio_req_destroy_hook(m, r) ELSE m
    /\ st' = [st EXCEPT ![r] = IF r \in m.hooked /\ m.table[r] = Nil THEN "lost"
                               ELSE "free"]

\* etp_poll finishes a request whose callback does not run: it is cancelled,
\* it has no php_eio_cb_t, or that has no function and is freed.
FinishQuietly(r) ==
    /\ st[r] = "pool"
    /\ cbs' = IF cancelled[r] THEN cbs ELSE cbs \ {data[r]}
    /\ data' = [data EXCEPT ![r] = Nil]
    /\ Destroy(mem, r)
    /\ UNCHANGED <<cancelled, stack, passed>>

\* php_eio_res_cb makes a resource for $req and calls back.
php_eio_res_cb(r, h, x) ==
    /\ st[r] = "pool" /\ ~cancelled[r] /\ data[r] # Nil
    /\ FreeHandle(mem, h) /\ FreeRsrc(mem, x)
    /\ st' = [st EXCEPT ![r] = "cb"]
    /\ mem' = php_eio_register_resource(mem, r, h, x)
    /\ stack' = <<[req |-> r, cb |-> data[r], rsrc |-> x]>> \o stack
    /\ UNCHANGED <<cancelled, data, cbs, passed>>

\* Mutant of CallbackReturn: the php_eio_cb_t is not freed.
CallbackReturnKept(keep) ==
    /\ stack # <<>>
    /\ LET f == Head(stack)
       IN  /\ Destroy(IF keep THEN mem ELSE php_eio_handle_dtor(mem, f.rsrc), f.req)
           /\ data' = [data EXCEPT ![f.req] = Nil]
    /\ stack' = Tail(stack)
    /\ UNCHANGED <<cancelled, cbs, passed>>

\* The rest of php_eio_res_cb and eio_finish.  The script may have kept $req.
CallbackReturn(keep) ==
    /\ stack # <<>>
    /\ LET f == Head(stack)
       IN  /\ cbs' = cbs \ {f.cb}
           /\ Destroy(IF keep THEN mem ELSE php_eio_handle_dtor(mem, f.rsrc), f.req)
           /\ data' = [data EXCEPT ![f.req] = Nil]
    /\ stack' = Tail(stack)
    /\ UNCHANGED <<cancelled, passed>>

\* PHP_FUNCTION(eio_cancel) on a resource; nothing happens when its request is
\* gone.
eio_cancel(x) ==
    /\ mem.rsrc[x] # Nil
    /\ LET r == mem.req[mem.rsrc[x]]
       IN  /\ r # Nil
           /\ CancelOwn \/ st[r] # "cb"
           /\ cancelled' = [cancelled EXCEPT ![r] = TRUE]
           /\ cbs' = cbs \ {data[r]}
           /\ data' = [data EXCEPT ![r] = Nil]
    /\ UNCHANGED <<st, mem, stack, passed>>

\* Of a group with the requests S in it, which are finished at last: unlike
\* PHP_FUNCTION(eio_cancel), etp_cancel leaves req->data alone.
eio_grp_cancel(S) ==
    /\ S # {} /\ \A r \in S : st[r] \in {"pool", "cb"}
    /\ cancelled' = [r \in Reqs |-> r \in S \/ cancelled[r]]
    /\ passed' = passed \cup ({data[r] : r \in S} \ {Nil})
    /\ UNCHANGED <<st, data, cbs, mem, stack>>

\* The script lets go of a resource ($req belongs to the running callback).
Unset(x) ==
    /\ mem.rsrc[x] # Nil /\ \A i \in 1..Len(stack) : stack[i].rsrc # x
    /\ mem' = php_eio_handle_dtor(mem, x)
    /\ UNCHANGED <<st, cancelled, data, cbs, stack, passed>>

\* php_eio_atfork_child: this process is now the child.  It has no pool with
\* the parent's requests, but goes on with the callbacks that were running.
php_eio_atfork_child ==
    /\ \E r \in Reqs : st[r] \in {"pool", "cb"}     \* otherwise nothing changes
    /\ mem' = php_eio_handles_reset(mem)
    /\ st' = [r \in Reqs |-> IF st[r] = "pool" THEN "lost" ELSE st[r]]
    /\ UNCHANGED <<cancelled, data, cbs, stack, passed>>

Next ==
    \/ \E r \in Reqs, c \in Cbs \cup {Nil}, h \in Handles, x \in Rsrcs :
          Submit(r, c, h, x)
    \/ \E r \in Reqs : FinishQuietly(r)
    \/ \E r \in Reqs, h \in Handles, x \in Rsrcs : php_eio_res_cb(r, h, x)
    \/ \E keep \in BOOLEAN : CallbackReturn(keep)
    \/ \E x \in Rsrcs : eio_cancel(x) \/ Unset(x)
    \/ \E S \in SUBSET Reqs : eio_grp_cancel(S)
    \/ php_eio_atfork_child

Spec == Init /\ [][Next]_vars

-----------------------------------------------------------------------------
(* Type invariant. *)

TypeOK ==
    /\ st \in [Reqs -> States]
    /\ cancelled \in [Reqs -> BOOLEAN]
    /\ data \in [Reqs -> Cbs \cup {Nil}]
    /\ cbs \subseteq Cbs
    /\ mem \in Mem
    /\ stack \in Seq([req : Reqs, cb : Cbs, rsrc : Rsrcs])
    /\ passed \subseteq Cbs

-----------------------------------------------------------------------------
(* Safety. *)

\* A handle has one reference for its entry in php_eio_handles and one for each
\* resource, whatever the order in which requests are finished, resources are
\* dropped and the process forks: it is freed with the last of them.
RefsExact ==
    \A h \in Handles :
       mem.refs[h] = Cardinality({r \in Reqs : mem.table[r] = h})
                       + Cardinality({x \in Rsrcs : mem.rsrc[x] = h})

\* A handle that points to a request is the handle of that request, and the
\* request is alive: a resource that outlives its request never reaches the
\* next request at the same address.
NoStaleHandle ==
    \A h \in Handles :
       mem.refs[h] # 0 /\ mem.req[h] # Nil =>
          LET r == mem.req[h]
          IN  st[r] \in {"pool", "cb"} /\ mem.table[r] = h /\ r \in mem.hooked

\* Every live request with a php_eio_cb_t has one of its own, and the running
\* callbacks have theirs: eio_cancel, php_eio_res_cb and eio_finish free each
\* one once.  A record that is left without a request was the record of one that
\* eio_grp_cancel has cancelled, and no other is forgotten.
CbOwned ==
    /\ {data[r] : r \in Reqs} \ {Nil} \subseteq cbs
    /\ cbs \ {data[r] : r \in Reqs} \subseteq passed
    /\ \A r1, r2 \in Reqs : data[r1] = data[r2] /\ data[r1] # Nil => r1 = r2
    /\ \A i \in 1..Len(stack) : data[stack[i].req] = stack[i].cb

\* eio_destroy never leaves the memory of a request behind: the hook finds a
\* handle whenever it is installed.
HookFindsHandle ==
    \A r \in Reqs : st[r] \in {"pool", "cb"} /\ r \in mem.hooked => mem.table[r] # Nil

-----------------------------------------------------------------------------
(* What libeio's Changes and php_eio_res_cb say, and the code does not do. *)

\* "cancelled requests will still invoke their request callbacks": with a record
\* for every request, php_eio_res_cb would free that of a cancelled one, and
\* every record that is allocated would be the record of a request.
NoneForgotten == cbs \subseteq {data[r] : r \in Reqs}
=============================================================================
