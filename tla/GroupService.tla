---------------------------- MODULE GroupService ----------------------------
(***************************************************************************)
(* What the code makes of groups, without counters, lists, flags and       *)
(* pointers: a group is a set of requests, and it is finished when all of  *)
(* them have been finished, a member before its group.  That the callback  *)
(* of a cancelled request is skipped is what EIO_FINISH does; Changes says *)
(* the opposite (see Started).                                             *)
(***************************************************************************)
CONSTANTS Reqs, Grps

Objs == Reqs \cup Grps

VARIABLES
    phase,      \* of every request
    members,    \* the requests that a group waits for
    cancelled

vars == <<phase, members, cancelled>>

Phases == {"none", "waiting",
           "called",    \* its callback runs
           "skipped",   \* it is finished without its callback
           "leaving"}   \* it is finished, and its group being finished

Init ==
    /\ phase = [o \in Objs |-> "none"]
    /\ members = [o \in Objs |-> {}]
    /\ cancelled = [o \in Objs |-> FALSE]

Finished(o) == phase[o] \in {"called", "skipped"}

Submit(o) ==
    /\ phase[o] = "none"
    /\ phase' = [phase EXCEPT ![o] = "waiting"]
    /\ cancelled' = [cancelled EXCEPT ![o] = FALSE]
    /\ UNCHANGED members

\* A request that is in no group joins one that waits.
Add(g, r) ==
    /\ phase[g] = "waiting" /\ (phase[r] = "waiting" \/ Finished(r))
    /\ \A h \in Grps : r \notin members[h]
    /\ members' = [members EXCEPT ![g] = @ \cup {r}]
    /\ UNCHANGED <<phase, cancelled>>

\* The members of a group, and those of the groups among them, and so on.
Below(g) ==
    {o \in Objs : \A S \in SUBSET Objs :
        members[g] \cup UNION {members[m] : m \in S} \subseteq S => o \in S}

Cancel(S) ==
    /\ cancelled' = [o \in Objs |-> o \in S \/ cancelled[o]]
    /\ UNCHANGED <<phase, members>>

\* EIO_FINISH does not call back a cancelled request, although Changes says that
\* "cancelled requests will still invoke their request callbacks".  NoneForgotten
\* of PhpHandles is what the PHP extension loses by the difference.
Started(o) == IF cancelled[o] THEN "skipped" ELSE "called"

\* A request is finished, a group only when it waits for nobody.
Finish(o) ==
    /\ phase[o] = "waiting" /\ members[o] = {}
    /\ phase' = [phase EXCEPT ![o] = Started(o)]
    /\ UNCHANGED <<members, cancelled>>

\* It leaves its group.
Leave(o) ==
    /\ Finished(o)
    /\ phase' = [phase EXCEPT ![o] = "none"]
    /\ members' = [g \in Objs |-> members[g] \ {o}]
    /\ UNCHANGED cancelled

\* The last member of a group leaves it and finishes the group.
LeaveLast(o, g) ==
    /\ Finished(o) /\ members[g] = {o} /\ phase[g] = "waiting"
    /\ phase' = [phase EXCEPT ![o] = "leaving", ![g] = Started(g)]
    /\ members' = [members EXCEPT ![g] = {}]
    /\ UNCHANGED cancelled

Left(o) ==
    /\ phase[o] = "leaving"
    /\ phase' = [phase EXCEPT ![o] = "none"]
    /\ UNCHANGED <<members, cancelled>>

Next ==
    \/ \E o \in Objs : Submit(o) \/ Finish(o) \/ Leave(o) \/ Left(o)
    \/ \E g \in Grps, r \in Objs : Add(g, r) \/ LeaveLast(r, g)
    \/ \E o \in Objs : Cancel({o} \cup Below(o)) \/ Cancel(Below(o))

Spec == Init /\ [][Next]_vars
=============================================================================
