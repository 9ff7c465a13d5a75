------------------------------ MODULE EioGroup ------------------------------
(***************************************************************************)
(* Groups, finishing and cancelling (libeio/eio.c 422-491 and 2403-2442,   *)
(* libeio/etp.c 516-526 and 544-560) as the PHP thread sees them.  The     *)
(* queues and the workers of EtpPool are reduced to what the PHP thread    *)
(* can tell: a submitted request is in the pool until some etp_poll call   *)
(* takes it, in any order.  Every callback may call any function of the    *)
(* extension, etp_poll included, so finishing calls nest.                  *)
(*                                                                         *)
(* The extension never sets a feeder, so grp_try_feed changes nothing but  *)
(* flags that nobody else reads, and eio_grp_limit with it.                *)
(***************************************************************************)
EXTENDS Integers, Sequences, FiniteSets

CONSTANTS
    Reqs,       \* addresses of ordinary requests (reused once freed)
    Grps,       \* addresses of group requests
    Nil,        \* the null pointer
    Careful     \* TRUE: the script adds a request to one group only, and not
                \* to a group whose callback has been called

Objs == Reqs \cup Grps

ASSUME GroupAssumption ==
    /\ IsFiniteSet(Objs)
    /\ Reqs \cap Grps = {}
    /\ Nil \notin Objs
    /\ Careful \in BOOLEAN

VARIABLES
    st,                             \* where the request is
    grp,                            \* the fields of eio_req
    grp_next, grp_prev, grp_first,
    size,
    cancelled,
    delayed,                        \* ETP_FLAG_DELAYED
    stack                           \* active eio_finish calls, innermost first

linkVars == <<grp, grp_next, grp_prev, grp_first, size>>
vars == <<st, linkVars, cancelled, delayed, stack>>

States == {"free",      \* not allocated
           "pool",      \* with the workers, or on a queue
           "delayed",   \* a group that etp_poll has put aside
           "cb",        \* eio_finish is in the callback
           "skip",      \* eio_finish, behind EIO_FINISH that did not call it
           "dec"}       \* eio_finish is in grp_dec, finishing the group

Init ==
    /\ st = [o \in Objs |-> "free"]
    /\ grp = [o \in Objs |-> Nil]
    /\ grp_next = [o \in Objs |-> Nil]
    /\ grp_prev = [o \in Objs |-> Nil]
    /\ grp_first = [o \in Objs |-> Nil]
    /\ size = [o \in Objs |-> 0]
    /\ cancelled = [o \in Objs |-> FALSE]
    /\ delayed = [o \in Objs |-> FALSE]
    /\ stack = <<>>

-----------------------------------------------------------------------------

Top == Head(stack)

\* The script runs: its main program or a callback.
Running == stack # <<>> => st[Top] = "cb"

\* An eio_finish call works on it.
Finishing(o) == st[o] \in {"cb", "skip", "dec"}

\* Not yet unlinked by eio_finish.
Unfinished(o) == st[o] \in {"pool", "delayed", "cb", "skip"}

\* The requests that a group waits for.
Members(g) == {o \in Objs : grp[o] = g /\ Unfinished(o)}

-----------------------------------------------------------------------------
(* The script's calls.  It reaches a request through a resource, which is  *)
(* dead once the request is destroyed.                                     *)

\* REQ clears the memory; SEND hands it to the pool.
eio_submit(o) ==
    /\ Running /\ st[o] = "free"
    /\ st' = [st EXCEPT ![o] = "pool"]
    /\ grp' = [grp EXCEPT ![o] = Nil]
    /\ grp_next' = [grp_next EXCEPT ![o] = Nil]
    /\ grp_prev' = [grp_prev EXCEPT ![o] = Nil]
    /\ grp_first' = [grp_first EXCEPT ![o] = Nil]
    /\ size' = [size EXCEPT ![o] = 0]
    /\ cancelled' = [cancelled EXCEPT ![o] = FALSE]
    /\ delayed' = [delayed EXCEPT ![o] = FALSE]
    /\ UNCHANGED stack

\* The resource of a group is a request resource only as the $req argument of
\* its own callback.
IsRequestResource(o) == o \in Reqs \/ Finishing(o)

\* Mutant of eio_grp_add: the request is not counted.
eio_grp_add_uncounted(g, r) ==
    /\ Running /\ st[g] # "free" /\ st[r] # "free" /\ IsRequestResource(r)
    /\ Careful => ~Finishing(g) /\ grp[r] = Nil
    /\ grp' = [grp EXCEPT ![r] = g]
    /\ grp_next' = [grp_next EXCEPT ![r] = grp_first[g]]
    /\ grp_prev' = IF grp_first[g] = Nil THEN [grp_prev EXCEPT ![r] = Nil]
                   ELSE [grp_prev EXCEPT ![r] = Nil, ![grp_first[g]] = r]
    /\ grp_first' = [grp_first EXCEPT ![g] = r]
    /\ UNCHANGED <<st, size, cancelled, delayed, stack>>

\* The assertion of eio_grp_add on grp->int1 is always true: nothing writes
\* the field.
eio_grp_add(g, r) ==
    /\ Running /\ st[g] # "free" /\ st[r] # "free" /\ IsRequestResource(r)
    /\ Careful => ~Finishing(g) /\ grp[r] = Nil
    /\ size' = [size EXCEPT ![g] = @ + 1]
    /\ grp' = [grp EXCEPT ![r] = g]
    /\ grp_next' = [grp_next EXCEPT ![r] = grp_first[g]]
    /\ grp_prev' = IF grp_first[g] = Nil THEN [grp_prev EXCEPT ![r] = Nil]
                   ELSE [grp_prev EXCEPT ![r] = Nil, ![grp_first[g]] = r]
    /\ grp_first' = [grp_first EXCEPT ![g] = r]
    /\ UNCHANGED <<st, cancelled, delayed, stack>>

\* What one etp_grp_cancel step leads to from the requests S of the list.
Onward(S) == ({grp_next[o] : o \in S} \cup {grp_first[o] : o \in S}) \ {Nil}

\* The requests that the loop of etp_grp_cancel visits, and what their own
\* etp_grp_cancel calls visit: what every set that has the head of the list
\* and whatever one of its requests leads to must have.
Walk(g) ==
    {o \in Objs : \A S \in SUBSET Objs :
        ({grp_first[g]} \ {Nil}) \cup Onward(S) \subseteq S => o \in S}

\* etp_cancel
eio_cancel(r) ==
    /\ Running /\ st[r] # "free" /\ IsRequestResource(r)
    /\ cancelled' = [o \in Objs |-> o = r \/ o \in Walk(r) \/ cancelled[o]]
    /\ UNCHANGED <<st, linkVars, delayed, stack>>

\* etp_grp_cancel: the members, not the group
eio_grp_cancel(g) ==
    /\ Running /\ st[g] # "free"
    /\ cancelled' = [o \in Objs |-> o \in Walk(g) \/ cancelled[o]]
    /\ UNCHANGED <<st, linkVars, delayed, stack>>

-----------------------------------------------------------------------------
(* etp_poll and eio_finish. *)

\* Mutant of Enter: a cancelled request is called back.
EnterAlways(o) == "cb"

\* eio_finish begins: EIO_FINISH calls back unless the request is cancelled.
Enter(o) == IF cancelled[o] THEN "skip" ELSE "cb"

\* Mutant of PollDelay: the flag is forgotten.
PollDelayUnmarked(g) ==
    /\ Running /\ st[g] = "pool" /\ size[g] # 0
    /\ st' = [st EXCEPT ![g] = "delayed"]
    /\ UNCHANGED <<linkVars, cancelled, delayed, stack>>

\* etp_poll takes a group that has members.
PollDelay(g) ==
    /\ Running /\ st[g] = "pool" /\ size[g] # 0
    /\ st' = [st EXCEPT ![g] = "delayed"]
    /\ delayed' = [delayed EXCEPT ![g] = TRUE]
    /\ UNCHANGED <<linkVars, cancelled, stack>>

\* Mutant of PollFinish: the members of a group are not looked at.
PollFinishAny(o) ==
    /\ Running /\ st[o] = "pool"
    /\ st' = [st EXCEPT ![o] = Enter(o)]
    /\ stack' = <<o>> \o stack
    /\ UNCHANGED <<linkVars, cancelled, delayed>>

\* etp_poll takes any other request.
PollFinish(o) ==
    /\ Running /\ st[o] = "pool" /\ (o \in Grps => size[o] = 0)
    /\ st' = [st EXCEPT ![o] = Enter(o)]
    /\ stack' = <<o>> \o stack
    /\ UNCHANGED <<linkVars, cancelled, delayed>>

\* Mutant of Unlink: the head of the list is not moved on.
UnlinkNotFirst(r) ==
    LET g == grp[r]  n == grp_next[r]  p == grp_prev[r]
    IN  /\ grp_prev' = IF n = Nil THEN grp_prev ELSE [grp_prev EXCEPT ![n] = p]
        /\ grp_next' = IF p = Nil THEN grp_next ELSE [grp_next EXCEPT ![p] = n]
        /\ size' = [size EXCEPT ![g] = @ - 1]
        /\ UNCHANGED <<grp, grp_first>>

\* eio_finish takes a member off its group's list, and grp_dec counts it.
Unlink(r) ==
    LET g == grp[r]  n == grp_next[r]  p == grp_prev[r]
    IN  /\ grp_prev' = IF n = Nil THEN grp_prev ELSE [grp_prev EXCEPT ![n] = p]
        /\ grp_next' = IF p = Nil THEN grp_next ELSE [grp_next EXCEPT ![p] = n]
        /\ grp_first' = IF grp_first[g] = r THEN [grp_first EXCEPT ![g] = n]
                        ELSE grp_first
        /\ size' = [size EXCEPT ![g] = @ - 1]
        /\ UNCHANGED grp

\* eio_destroy, the end of eio_finish
Destroy == st' = [st EXCEPT ![Top] = "free"] /\ stack' = Tail(stack)

\* EIO_FINISH is over.
FinishReturns == stack # <<>> /\ st[Top] \in {"cb", "skip"}

\* Mutant of FinishAlone: a cancelled request leaves its group behind.
FinishAloneOrCancelled ==
    /\ FinishReturns /\ (grp[Top] = Nil \/ cancelled[Top])
    /\ Destroy
    /\ UNCHANGED <<linkVars, cancelled, delayed>>

\* A request without a group
FinishAlone ==
    /\ FinishReturns /\ grp[Top] = Nil
    /\ Destroy
    /\ UNCHANGED <<linkVars, cancelled, delayed>>

\* A member, and its group goes on.
FinishMember ==
    /\ FinishReturns /\ grp[Top] # Nil
    /\ Unlink(Top)
    /\ size'[grp[Top]] # 0 \/ ~delayed[grp[Top]]
    /\ Destroy
    /\ UNCHANGED <<cancelled, delayed>>

\* Mutant of FinishLast: any member finishes its group.
FinishLastOrNot ==
    /\ FinishReturns /\ grp[Top] # Nil
    /\ Unlink(Top)
    /\ delayed[grp[Top]]
    /\ st' = [st EXCEPT ![Top] = "dec", ![grp[Top]] = Enter(grp[Top])]
    /\ stack' = <<grp[Top]>> \o stack
    /\ UNCHANGED <<cancelled, delayed>>

\* The last member of a delayed group: grp_dec calls eio_finish for the group
\* before the member is destroyed.
FinishLast ==
    /\ FinishReturns /\ grp[Top] # Nil
    /\ Unlink(Top)
    /\ size'[grp[Top]] = 0 /\ delayed[grp[Top]]
    /\ st' = [st EXCEPT ![Top] = "dec", ![grp[Top]] = Enter(grp[Top])]
    /\ stack' = <<grp[Top]>> \o stack
    /\ UNCHANGED <<cancelled, delayed>>

\* grp_dec has returned.
FinishDec ==
    /\ stack # <<>> /\ st[Top] = "dec"
    /\ Destroy
    /\ UNCHANGED <<linkVars, cancelled, delayed>>

-----------------------------------------------------------------------------
Submit == \E o \in Objs : eio_submit(o)

Poll == \/ \E g \in Grps : PollDelay(g)
        \/ \E o \in Objs : PollFinish(o)

eio_finish == FinishAlone \/ FinishMember \/ FinishLast \/ FinishDec

Next ==
    \/ Submit
    \/ \E g \in Grps, r \in Objs : eio_grp_add(g, r)
    \/ \E r \in Objs : eio_cancel(r)
    \/ \E g \in Grps : eio_grp_cancel(g)
    \/ Poll
    \/ eio_finish

Spec == Init /\ [][Next]_vars

\* The script runs the event loop, and its callbacks return.
FairSpec == Spec /\ WF_vars(Poll) /\ WF_vars(eio_finish)

-----------------------------------------------------------------------------
(* Type invariant. *)

Ptr == Objs \cup {Nil}

TypeOK ==
    /\ st \in [Objs -> States]
    /\ grp \in [Objs -> Grps \cup {Nil}]
    /\ grp_next \in [Objs -> Ptr] /\ grp_prev \in [Objs -> Ptr]
    /\ grp_first \in [Objs -> Ptr]
    /\ size \in [Objs -> Nat]
    /\ cancelled \in [Objs -> BOOLEAN] /\ delayed \in [Objs -> BOOLEAN]
    /\ stack \in Seq(Objs)

-----------------------------------------------------------------------------
(* Safety, for a careful script. *)

\* size is the number of requests the group waits for: the counter on which
\* etp_poll and grp_dec decide that a group is done is never off, whatever the
\* order of additions, completions and nested polls.
SizeExact == \A g \in Grps : st[g] # "free" => size[g] = Cardinality(Members(g))

\* The list of a group, as etp_grp_cancel walks it, has exactly the requests
\* the group waits for, and every grp_prev undoes a grp_next: eio_finish of a
\* request in the middle, at the head or at the end never loses another one.
ListExact ==
    \A g \in Grps :
       st[g] # "free" =>
          /\ Walk(g) = Members(g)
          /\ grp_first[g] # Nil => grp_prev[grp_first[g]] = Nil
          /\ \A m \in Members(g) :
                grp_next[m] # Nil => grp_prev[grp_next[m]] = m

\* While a group's callback runs, and after it, no request of the group waits
\* for its own: the group comes last, and no eio_finish will go through a
\* pointer to a group that is destroyed.
GroupLast ==
    \A o \in Objs :
       Unfinished(o) /\ grp[o] # Nil => st[grp[o]] \in {"pool", "delayed"}

\* No request is finished by two eio_finish calls at once, although grp_dec and
\* nested etp_poll calls both reach eio_finish: it is destroyed once.
FinishedOnce ==
    /\ \A i, j \in 1..Len(stack) : stack[i] = stack[j] => i = j
    /\ \A o \in Objs : Finishing(o) <=> \E i \in 1..Len(stack) : stack[i] = o

-----------------------------------------------------------------------------
(* Refinement. *)

Phase(o) ==
    CASE st[o] = "free" -> "none"
      [] st[o] \in {"pool", "delayed"} -> "waiting"
      [] st[o] = "cb" -> "called"
      [] st[o] = "skip" -> "skipped"
      [] st[o] = "dec" -> "leaving"

phase == [o \in Objs |-> Phase(o)]
members == [o \in Objs |-> Members(o)]

Service == INSTANCE GroupService WITH phase <- phase, members <- members

\* The counter, the list with its two links, the flag ETP_FLAG_DELAYED and
\* eio_finish calls inside of each other implement groups that are sets: a
\* group is finished when its set is empty, by etp_poll or by its last member,
\* and a cancellation reaches exactly the set, whose callbacks the code skips.
ImplementsService == Service!Spec

-----------------------------------------------------------------------------
(* Liveness. *)

\* A delayed group gets its callback unless the script goes on submitting.
GroupEnds ==
    \A g \in Grps : <>[](st[g] = "delayed") => []<><<Submit>>_vars
=============================================================================
