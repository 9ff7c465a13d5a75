--------------------------- MODULE EioGroupProofs ---------------------------
(***************************************************************************)
(* Proofs about groups, for every set of requests and of groups.           *)
(*                                                                         *)
(* The lists come first, as two functions and a head on a set: what pushing*)
(* a request on the front and cutting one out do to them.  Then the        *)
(* inductive invariant, and that the counters and lists implement the sets *)
(* of GroupService.                                                        *)
(***************************************************************************)
EXTENDS EioGroup, FiniteSetTheorems, SequenceTheorems, TLAPS

-----------------------------------------------------------------------------
(* Doubly linked lists. *)

\* Both links stay within the set and undo each other, and only the first
\* request has none before it.
Linked(M, first, next, prev) ==
    /\ first # Nil => first \in M /\ prev[first] = Nil
    /\ \A m \in M :
          /\ next[m] # Nil => next[m] \in M /\ prev[next[m]] = m
          /\ prev[m] # Nil => prev[m] \in M /\ next[prev[m]] = m
          /\ prev[m] = Nil => first = m

\* The requests that S leads to are in S.
Closed(S, M, first, next) ==
    /\ first # Nil => first \in S
    /\ \A m \in M : m \in S /\ next[m] # Nil => next[m] \in S

\* Going along the list from its head visits the whole set.
Chained(M, first, next) ==
    \A S \in SUBSET Objs : Closed(S, M, first, next) => M \subseteq S

IsList(M, first, next, prev) ==
    Linked(M, first, next, prev) /\ Chained(M, first, next)

\* A list is not touched by writes to links outside of it.
LEMMA ListFrame ==
    ASSUME NEW M \in SUBSET Objs, NEW f, NEW nx, NEW pv, NEW nx2, NEW pv2,
           IsList(M, f, nx, pv),
           \A m \in M : nx2[m] = nx[m] /\ pv2[m] = pv[m]
    PROVE  IsList(M, f, nx2, pv2)
BY GroupAssumption DEF IsList, Linked, Chained, Closed

\* eio_grp_add puts the request in front of the list.
LEMMA ListPush ==
    ASSUME NEW M \in SUBSET Objs, NEW f \in Ptr, NEW r \in Objs, r \notin M,
           NEW nx \in [Objs -> Ptr], NEW pv \in [Objs -> Ptr],
           IsList(M, f, nx, pv), NEW N, N = M \cup {r},
           NEW nx2, nx2 = [nx EXCEPT ![r] = f],
           NEW pv2, pv2 = IF f = Nil THEN [pv EXCEPT ![r] = Nil]
                          ELSE [pv EXCEPT ![r] = Nil, ![f] = r]
    PROVE  IsList(N, r, nx2, pv2)
<1>1. r # Nil /\ nx2[r] = f /\ \A m \in M : nx2[m] = nx[m]
  BY GroupAssumption
<1>2. /\ pv2[r] = Nil
      /\ f # Nil => f \in M /\ f # r /\ pv2[f] = r
      /\ \A m \in M : m # f => pv2[m] = pv[m]
  BY GroupAssumption DEF IsList, Linked, Ptr
<1>3. Linked(N, r, nx2, pv2)
  BY <1>1, <1>2, GroupAssumption DEF IsList, Linked
<1>4. ASSUME NEW S \in SUBSET Objs, Closed(S, N, r, nx2)
      PROVE  N \subseteq S
  <2>1. r \in S /\ (f # Nil => f \in S)
    BY <1>1, <1>4 DEF Closed
  <2>2. Closed(S, M, f, nx)
    BY <1>1, <1>4, <2>1 DEF Closed
  <2> QED
    BY <2>1, <2>2 DEF IsList, Chained
<1> QED
  BY <1>3, <1>4 DEF IsList, Chained

\* What Unlink makes of the head and of the links
CutFirst(f, nx, r) == IF f = r THEN nx[r] ELSE f
CutNext(nx, pv, r) == IF pv[r] = Nil THEN nx ELSE [nx EXCEPT ![pv[r]] = nx[r]]
CutPrev(nx, pv, r) == IF nx[r] = Nil THEN pv ELSE [pv EXCEPT ![nx[r]] = pv[r]]

\* eio_finish cuts the request out, wherever it is in the list.
LEMMA ListCut ==
    ASSUME NEW M \in SUBSET Objs, NEW f \in Ptr, NEW r \in M,
           NEW nx \in [Objs -> Ptr], NEW pv \in [Objs -> Ptr],
           IsList(M, f, nx, pv)
    PROVE  IsList(M \ {r}, CutFirst(f, nx, r), CutNext(nx, pv, r), CutPrev(nx, pv, r))
<1> DEFINE n == nx[r]
           p == pv[r]
           N == M \ {r}
           f2 == CutFirst(f, nx, r)
           nx2 == CutNext(nx, pv, r)
           pv2 == CutPrev(nx, pv, r)
<1>1. /\ r # Nil /\ r \in Objs
      /\ n # Nil => n \in M /\ pv[n] = r /\ n \in Objs
      /\ p # Nil => p \in M /\ nx[p] = r /\ p \in Objs
      /\ p = Nil <=> f = r
  BY GroupAssumption DEF IsList, Linked
<1>2. n # r /\ p # r
  <2>1. n # Nil => n # r
    <3> SUFFICES ASSUME n = r PROVE FALSE
      BY <1>1
    <3>1. pv[r] = r /\ f # r
      BY <1>1
    <3>2. ASSUME NEW m \in M, m # r PROVE nx[m] # r
      BY <1>1, <3>1, <3>2 DEF IsList, Linked
    <3>3. Closed(M \ {r}, M, f, nx)
      BY <3>1, <3>2 DEF Closed, IsList, Linked
    <3> QED
      BY <3>3 DEF IsList, Chained
  <2> QED
    BY <1>1, <2>1
<1>3. /\ p # Nil => nx2[p] = n
      /\ \A m \in M : m # p => nx2[m] = nx[m]
      /\ n # Nil => pv2[n] = p
      /\ \A m \in M : m # n => pv2[m] = pv[m]
  BY <1>1 DEF CutNext, CutPrev
<1>4. f2 = IF f = r THEN n ELSE f
  BY DEF CutFirst
<1> HIDE DEF f2, nx2, pv2
<1>5. Linked(N, f2, nx2, pv2)
  <2>1. f2 # Nil => f2 \in N /\ pv2[f2] = Nil
    BY <1>1, <1>2, <1>3, <1>4 DEF IsList, Linked
  <2>2. ASSUME NEW m \in N
        PROVE  /\ nx2[m] # Nil => nx2[m] \in N /\ pv2[nx2[m]] = m
               /\ pv2[m] # Nil => pv2[m] \in N /\ nx2[pv2[m]] = m
               /\ pv2[m] = Nil => f2 = m
    <3>0. m \in M /\ m # r /\ m # Nil
      BY GroupAssumption
    <3>1. nx2[m] # Nil => nx2[m] \in N /\ pv2[nx2[m]] = m
      <4>1. CASE m = p
        BY <1>1, <1>2, <1>3, <1>4, <3>0, <4>1
      <4>2. CASE m # p
        <5>1. nx2[m] = nx[m] /\ nx[m] # r
          BY <1>1, <1>3, <3>0, <4>2 DEF IsList, Linked
        <5>2. nx[m] # Nil => nx[m] # n
          BY <1>1, <3>0 DEF IsList, Linked
        <5> QED
          BY <1>3, <3>0, <5>1, <5>2 DEF IsList, Linked
      <4> QED
        BY <4>1, <4>2
    <3>2. /\ pv2[m] # Nil => pv2[m] \in N /\ nx2[pv2[m]] = m
          /\ pv2[m] = Nil => f2 = m
      <4>1. CASE m = n
        BY <1>1, <1>2, <1>3, <1>4, <3>0, <4>1
      <4>2. CASE m # n
        <5>1. pv2[m] = pv[m] /\ pv[m] # r
          BY <1>1, <1>3, <3>0, <4>2 DEF IsList, Linked
        <5>2. pv[m] # Nil => pv[m] # p
          BY <1>1, <3>0 DEF IsList, Linked
        <5> QED
          BY <1>1, <1>3, <1>4, <3>0, <5>1, <5>2 DEF IsList, Linked
      <4> QED
        BY <4>1, <4>2
    <3> QED
      BY <3>1, <3>2
  <2> QED
    BY <2>1, <2>2 DEF Linked
<1>6. ASSUME NEW S \in SUBSET Objs, Closed(S, N, f2, nx2)
      PROVE  N \subseteq S
  <2>1. CASE p = Nil \/ p \in S
    <3>1. Closed(S \cup {r}, M, f, nx)
      BY <1>1, <1>2, <1>3, <1>4, <1>6, <2>1 DEF Closed, IsList, Linked
    <3> QED
      BY <1>1, <3>1 DEF IsList, Chained
  <2>2. CASE p # Nil /\ p \notin S
    <3>1. Closed(S \ {r}, M, f, nx)
      BY <1>1, <1>2, <1>3, <1>4, <1>6, <2>2 DEF Closed, IsList, Linked
    <3> QED
      BY <1>1, <3>1 DEF IsList, Chained
  <2> QED
    BY <2>1, <2>2
<1> QED
  BY <1>5, <1>6 DEF IsList, Chained, f2, nx2, pv2

\* REQ makes the empty list.
LEMMA ListEmpty ==
    ASSUME NEW nx, NEW pv
    PROVE  IsList({}, Nil, nx, pv)
BY DEF IsList, Linked, Chained

-----------------------------------------------------------------------------
(* The stack of eio_finish calls. *)

Distinct(s) == \A i, j \in 1..Len(s) : s[i] = s[j] => i = j

On(s, o) == \E i \in 1..Len(s) : s[i] = o

LEMMA StackPush ==
    ASSUME NEW s \in Seq(Objs), NEW o \in Objs, Distinct(s), ~On(s, o),
           NEW t, t = <<o>> \o s
    PROVE  /\ t \in Seq(Objs) /\ t # <<>> /\ Head(t) = o
           /\ Distinct(t)
           /\ \A x \in Objs : On(t, x) <=> x = o \/ On(s, x)
<1>1. /\ t \in Seq(Objs) /\ Len(t) = Len(s) + 1
      /\ \A i \in 1..Len(t) : t[i] = IF i = 1 THEN o ELSE s[i - 1]
  BY ConcatProperties
<1>2. Len(s) \in Nat
  OBVIOUS
<1>3. t # <<>> /\ Head(t) = o
  BY <1>1, <1>2
<1>4. Distinct(t)
  <2> SUFFICES ASSUME NEW i \in 1..Len(t), NEW j \in 1..Len(t), t[i] = t[j]
               PROVE  i = j
    BY DEF Distinct
  <2>1. CASE i = 1 /\ j = 1
    BY <2>1
  <2>2. CASE i = 1 /\ j # 1
    BY <1>1, <1>2, <2>2 DEF On
  <2>3. CASE i # 1 /\ j = 1
    BY <1>1, <1>2, <2>3 DEF On
  <2>4. CASE i # 1 /\ j # 1
    <3>1. i - 1 \in 1..Len(s) /\ j - 1 \in 1..Len(s) /\ s[i - 1] = s[j - 1]
      BY <1>1, <1>2, <2>4
    <3>2. i - 1 = j - 1
      BY <3>1 DEF Distinct
    <3> QED
      BY <3>2
  <2> QED
    BY <2>1, <2>2, <2>3, <2>4
<1>5. ASSUME NEW x \in Objs
      PROVE  On(t, x) <=> x = o \/ On(s, x)
  <2>1. On(t, x) => x = o \/ On(s, x)
    BY <1>1, <1>2 DEF On
  <2>2. x = o => On(t, x)
    BY <1>1, <1>2 DEF On
  <2>3. ASSUME On(s, x) PROVE On(t, x)
    <3>1. PICK i \in 1..Len(s) : s[i] = x
      BY <2>3 DEF On
    <3>2. i + 1 \in 1..Len(t) /\ t[i + 1] = x
      BY <1>1, <1>2, <3>1
    <3> QED
      BY <3>2 DEF On
  <2> QED
    BY <2>1, <2>2, <2>3
<1> QED
  BY <1>1, <1>3, <1>4, <1>5

LEMMA StackPop ==
    ASSUME NEW s \in Seq(Objs), s # <<>>, Distinct(s), NEW t, t = Tail(s)
    PROVE  /\ t \in Seq(Objs) /\ Head(s) \in Objs /\ On(s, Head(s))
           /\ Distinct(t)
           /\ \A x \in Objs : On(t, x) <=> x # Head(s) /\ On(s, x)
<1>1. /\ t \in Seq(Objs) /\ Len(t) = Len(s) - 1 /\ Len(s) \in Nat /\ Len(s) > 0
      /\ \A i \in 1..Len(t) : t[i] = s[i + 1]
      /\ Head(s) = s[1] /\ Head(s) \in Objs
  BY HeadTailProperties
<1>2. On(s, Head(s))
  BY <1>1 DEF On
<1>3. Distinct(t)
  <2> SUFFICES ASSUME NEW i \in 1..Len(t), NEW j \in 1..Len(t), t[i] = t[j]
               PROVE  i = j
    BY DEF Distinct
  <2>1. i + 1 \in 1..Len(s) /\ j + 1 \in 1..Len(s) /\ s[i + 1] = s[j + 1]
    BY <1>1
  <2>2. i + 1 = j + 1
    BY <2>1 DEF Distinct
  <2> QED
    BY <2>2
<1>4. ASSUME NEW x \in Objs
      PROVE  On(t, x) <=> x # Head(s) /\ On(s, x)
  <2>1. ASSUME On(t, x) PROVE x # Head(s) /\ On(s, x)
    <3>1. PICK i \in 1..Len(t) : t[i] = x
      BY <2>1 DEF On
    <3>2. i + 1 \in 1..Len(s) /\ s[i + 1] = x /\ 1 \in 1..Len(s) /\ i + 1 # 1
      BY <1>1, <3>1
    <3> QED
      BY <1>1, <3>2 DEF On, Distinct
  <2>2. ASSUME x # Head(s), On(s, x) PROVE On(t, x)
    <3>1. PICK i \in 1..Len(s) : s[i] = x
      BY <2>2 DEF On
    <3>2. i - 1 \in 1..Len(t) /\ t[i - 1] = x
      BY <1>1, <2>2, <3>1
    <3> QED
      BY <3>2 DEF On
  <2> QED
    BY <2>1, <2>2
<1> QED
  BY <1>1, <1>2, <1>3, <1>4

-----------------------------------------------------------------------------
(* The inductive invariant. *)

\* Only a member waits inside of grp_dec.
DecOK == \A o \in Objs : st[o] = "dec" => grp[o] # Nil

\* A request that is no group has no list.
LeafOK == \A o \in Reqs : grp_first[o] = Nil

\* A group joins another one from its own callback only.
NestedOK == \A g \in Grps : Unfinished(g) /\ grp[g] # Nil => Finishing(g)

ListOK ==
    \A g \in Grps :
       st[g] # "free" => IsList(Members(g), grp_first[g], grp_next, grp_prev)

Inv ==
    /\ TypeOK /\ FinishedOnce /\ DecOK /\ LeafOK /\ NestedOK
    /\ GroupLast /\ SizeExact /\ ListOK
-----------------------------------------------------------------------------
(* What every step needs of the invariant. *)

LEMMA Once ==
    FinishedOnce <=> /\ Distinct(stack)
                     /\ \A o \in Objs : Finishing(o) <=> On(stack, o)
BY DEF FinishedOnce, Distinct, On

\* The request that eio_finish works on is not free, and not in the pool.
LEMMA TopFinishing ==
    ASSUME Inv, stack # <<>>
    PROVE  Top \in Objs /\ Finishing(Top)
<1>1. stack \in Seq(Objs) /\ Distinct(stack)
      /\ \A o \in Objs : Finishing(o) <=> On(stack, o)
  BY Once DEF Inv, TypeOK
<1> QED
  BY <1>1, StackPop DEF Top

\* eio_finish is called for a request that no other call works on.
LEMMA FinishedPush ==
    ASSUME stack \in Seq(Objs), FinishedOnce, NEW o \in Objs, ~Finishing(o),
           stack' = <<o>> \o stack,
           \A x \in Objs : Finishing(x)' <=> x = o \/ Finishing(x)
    PROVE  stack' \in Seq(Objs) /\ FinishedOnce'
<1>1. Distinct(stack) /\ \A x \in Objs : Finishing(x) <=> On(stack, x)
  BY Once
<1>2. /\ stack' \in Seq(Objs) /\ Distinct(stack')
      /\ \A x \in Objs : On(stack', x) <=> x = o \/ On(stack, x)
  BY <1>1, StackPush
<1>3. \A x \in Objs : Finishing(x)' <=> On(stack', x)
  BY <1>1, <1>2
<1> QED
  BY <1>2, <1>3 DEF FinishedOnce, Distinct, On

\* eio_finish returns and destroys its request.
LEMMA FinishedPop ==
    ASSUME stack \in Seq(Objs), FinishedOnce, stack # <<>>, stack' = Tail(stack),
           \A x \in Objs : Finishing(x)' <=> x # Top /\ Finishing(x)
    PROVE  stack' \in Seq(Objs) /\ FinishedOnce'
<1>1. Distinct(stack) /\ \A x \in Objs : Finishing(x) <=> On(stack, x)
  BY Once
<1>2. /\ stack' \in Seq(Objs) /\ Distinct(stack')
      /\ \A x \in Objs : On(stack', x) <=> x # Top /\ On(stack, x)
  BY <1>1, StackPop DEF Top
<1>3. \A x \in Objs : Finishing(x)' <=> On(stack', x)
  BY <1>1, <1>2
<1> QED
  BY <1>2, <1>3 DEF FinishedOnce, Distinct, On

LEMMA MembersFinite ==
    ASSUME NEW g
    PROVE  Members(g) \in SUBSET Objs /\ IsFiniteSet(Members(g))
<1>1. Members(g) \in SUBSET Objs
  BY DEF Members
<1> QED
  BY <1>1, FS_Subset, GroupAssumption

\* A request that waits in a group: the group is alive and counts it.
LEMMA MemberCounted ==
    ASSUME Inv, NEW r \in Objs, Unfinished(r), grp[r] # Nil
    PROVE  /\ grp[r] \in Grps /\ grp[r] \in Objs
           /\ st[grp[r]] \in {"pool", "delayed"}
           /\ r \in Members(grp[r])
           /\ size[grp[r]] = Cardinality(Members(grp[r]))
           /\ size[grp[r]] \in Nat /\ size[grp[r]] # 0
           /\ Cardinality(Members(grp[r]) \ {r}) = size[grp[r]] - 1
<1>1. /\ grp[r] \in Grps /\ grp[r] \in Objs
      /\ st[grp[r]] \in {"pool", "delayed"}
      /\ r \in Members(grp[r])
  BY DEF Inv, TypeOK, GroupLast, Members, Objs
<1>2. size[grp[r]] = Cardinality(Members(grp[r])) /\ size[grp[r]] \in Nat
  BY <1>1 DEF Inv, TypeOK, SizeExact
<1>3. IsFiniteSet(Members(grp[r]))
  BY MembersFinite
<1>4. Cardinality(Members(grp[r]) \ {r}) = Cardinality(Members(grp[r])) - 1
  BY <1>1, <1>3, FS_RemoveElement
<1>5. Cardinality(Members(grp[r])) # 0
  BY <1>1, <1>3, FS_EmptySet
<1> QED
  BY <1>1, <1>2, <1>4, <1>5

\* A group that counts no request has none.
LEMMA NoneCounted ==
    ASSUME Inv, NEW g \in Grps, st[g] # "free", size[g] = 0
    PROVE  Members(g) = {}
BY MembersFinite, FS_EmptySet DEF Inv, SizeExact

\* Only a group that waits has members.
LEMMA NoMembers ==
    ASSUME Inv, NEW g \in Objs, g \in Grps => st[g] \notin {"pool", "delayed"}
    PROVE  Members(g) = {}
BY GroupAssumption DEF Inv, TypeOK, GroupLast, Members, Objs

\* A member of a group has no members itself.
LEMMA MemberIsLeaf ==
    ASSUME Inv, NEW g \in Grps, NEW m \in Members(g)
    PROVE  Members(m) = {} /\ grp_first[m] = Nil
<1>1. m \in Objs /\ grp[m] # Nil /\ Unfinished(m)
  BY GroupAssumption DEF Members, Objs
<1>2. CASE m \in Reqs
  <2>1. m \notin Grps
    BY <1>2, GroupAssumption
  <2> QED
    BY <1>1, <1>2, <2>1, NoMembers DEF Inv, LeafOK
<1>3. CASE m \in Grps
  <2>1. Finishing(m)
    BY <1>1, <1>3 DEF Inv, NestedOK
  <2>2. Members(m) = {}
    BY <1>1, <2>1, NoMembers DEF Finishing
  <2>3. st[m] # "free"
    BY <2>1 DEF Finishing
  <2> QED
    BY <1>3, <2>2, <2>3 DEF Inv, ListOK, IsList, Linked
<1> QED
  BY <1>1, <1>2, <1>3 DEF Objs

\* Steps that write no link and leave every group's members alone
LEMMA QuietKeeps ==
    ASSUME SizeExact, ListOK, LeafOK, UNCHANGED linkVars,
           \A g \in Grps : st'[g] # "free" => /\ st[g] # "free"
                                              /\ Members(g)' = Members(g)
    PROVE  SizeExact' /\ ListOK' /\ LeafOK'
BY DEF SizeExact, ListOK, LeafOK, linkVars

-----------------------------------------------------------------------------
(* The invariant holds initially, and every step keeps it. *)

LEMMA InitInv == Init => Inv
<1> SUFFICES ASSUME Init PROVE Inv
  OBVIOUS
<1>1. 0 \in Nat /\ FALSE \in BOOLEAN
  OBVIOUS
<1>2. stack \in Seq(Objs)
  BY EmptySeq DEF Init
<1>3. TypeOK
  BY <1>1, <1>2 DEF Init, TypeOK, States, Ptr
<1>4. FinishedOnce
  BY DEF Init, FinishedOnce, Finishing
<1> QED
  BY <1>3, <1>4, GroupAssumption
  DEF Inv, Init, DecOK, LeafOK, NestedOK, GroupLast, SizeExact, ListOK, Unfinished, Objs

LEMMA SubmitInv ==
    ASSUME Inv, NEW o \in Objs, eio_submit(o)
    PROVE  Inv'
<1>1. TypeOK'
  <2>1. 0 \in Nat /\ FALSE \in BOOLEAN
    OBVIOUS
  <2> QED
    BY <2>1 DEF Inv, TypeOK, eio_submit, States, Ptr
<1>2. /\ st[o] = "free" /\ st'[o] = "pool" /\ grp'[o] = Nil
      /\ \A x \in Objs \ {o} : st'[x] = st[x] /\ grp'[x] = grp[x]
  BY DEF Inv, TypeOK, eio_submit
<1>3. FinishedOnce'
  BY <1>2 DEF Inv, eio_submit, FinishedOnce, Finishing
<1>4. DecOK' /\ NestedOK'
  BY <1>2 DEF Inv, DecOK, NestedOK, Unfinished, Finishing, Objs
<1>5. LeafOK'
  BY DEF Inv, TypeOK, LeafOK, eio_submit, Objs
<1>6. GroupLast'
  <2> SUFFICES ASSUME NEW x \in Objs, Unfinished(x)', grp'[x] # Nil
               PROVE  st'[grp'[x]] \in {"pool", "delayed"}
    BY DEF GroupLast
  <2>1. x # o /\ Unfinished(x) /\ grp'[x] = grp[x]
    BY <1>2 DEF Unfinished
  <2>2. grp[x] \in Objs /\ st[grp[x]] \in {"pool", "delayed"}
    BY <2>1, MemberCounted
  <2> QED
    BY <1>2, <2>1, <2>2
<1>7. \A g \in Grps : Members(g)' = Members(g) /\ o \notin Members(g)
  BY <1>2, GroupAssumption DEF Members, Unfinished, Objs
<1>8. SizeExact'
  <2> SUFFICES ASSUME NEW g \in Grps, st'[g] # "free"
               PROVE  size'[g] = Cardinality(Members(g)')
    BY DEF SizeExact
  <2>1. CASE g = o
    <3>1. Members(g) = {}
      BY <1>2, <2>1, NoMembers
    <3> QED
      BY <1>7, <2>1, <3>1, FS_EmptySet DEF Inv, TypeOK, eio_submit
  <2>2. CASE g # o
    BY <1>2, <1>7, <2>2 DEF Inv, TypeOK, SizeExact, eio_submit, Objs
  <2> QED
    BY <2>1, <2>2
<1>9. ListOK'
  <2> SUFFICES ASSUME NEW g \in Grps, st'[g] # "free"
               PROVE  IsList(Members(g)', grp_first'[g], grp_next', grp_prev')
    BY DEF ListOK
  <2>1. CASE g = o
    <3>1. Members(g)' = {} /\ grp_first'[g] = Nil
      BY <1>2, <1>7, <2>1, NoMembers DEF Inv, TypeOK, eio_submit
    <3> QED
      BY <3>1, ListEmpty
  <2>2. CASE g # o
    <3>1. IsList(Members(g), grp_first[g], grp_next, grp_prev)
      BY <1>2, <2>2 DEF Inv, ListOK, Objs
    <3>2. \A m \in Members(g) : grp_next'[m] = grp_next[m] /\ grp_prev'[m] = grp_prev[m]
      BY <1>7 DEF Inv, TypeOK, eio_submit, Members
    <3>3. grp_first'[g] = grp_first[g]
      BY <2>2 DEF Inv, TypeOK, eio_submit, Objs
    <3>4. IsList(Members(g), grp_first[g], grp_next', grp_prev')
      BY <3>1, <3>2, MembersFinite, ListFrame
    <3> QED
      BY <1>7, <3>3, <3>4
  <2> QED
    BY <2>1, <2>2
<1> QED
  BY <1>1, <1>3, <1>4, <1>5, <1>6, <1>8, <1>9 DEF Inv

\* Careful: the request is in no group, and the group waits.
LEMMA AddFacts ==
    ASSUME Inv, Careful, NEW g \in Grps, NEW r \in Objs, eio_grp_add(g, r)
    PROVE  /\ g \in Objs /\ st[g] \in {"pool", "delayed"}
           /\ grp[r] = Nil /\ Unfinished(r)
           /\ r \in Grps => Finishing(r)
           /\ grp'[r] = g /\ grp' \in [Objs -> Grps \cup {Nil}]
           /\ \A x \in Objs \ {r} : grp'[x] = grp[x]
           /\ Members(g)' = Members(g) \cup {r}
           /\ \A h \in Objs : r \notin Members(h)
           /\ \A h \in Objs \ {g} : Members(h)' = Members(h)
<1>1. /\ g \in Objs /\ st[g] \in {"pool", "delayed"}
      /\ grp[r] = Nil /\ Unfinished(r)
      /\ r \in Grps => Finishing(r)
  BY GroupAssumption
  DEF Inv, TypeOK, DecOK, eio_grp_add, IsRequestResource, Finishing, Unfinished, States, Objs
<1>2. /\ grp'[r] = g /\ grp' \in [Objs -> Grps \cup {Nil}]
      /\ \A x \in Objs \ {r} : grp'[x] = grp[x]
      /\ st' = st
  BY DEF Inv, TypeOK, eio_grp_add
<1>3. /\ Members(g)' = Members(g) \cup {r}
      /\ \A h \in Objs : r \notin Members(h)
      /\ \A h \in Objs \ {g} : Members(h)' = Members(h)
  BY <1>1, <1>2, GroupAssumption DEF Members, Unfinished
<1> QED
  BY <1>1, <1>2, <1>3

LEMMA AddInv ==
    ASSUME Inv, Careful, NEW g \in Grps, NEW r \in Objs, eio_grp_add(g, r)
    PROVE  Inv'
<1>1. /\ g \in Objs /\ st[g] \in {"pool", "delayed"}
      /\ grp[r] = Nil /\ Unfinished(r)
      /\ r \in Grps => Finishing(r)
  BY AddFacts
<1>2. /\ grp'[r] = g /\ grp' \in [Objs -> Grps \cup {Nil}]
      /\ \A x \in Objs \ {r} : grp'[x] = grp[x]
      /\ UNCHANGED <<st, cancelled, delayed, stack>>
  BY AddFacts DEF eio_grp_add
<1>3. /\ Members(g)' = Members(g) \cup {r}
      /\ \A h \in Grps : r \notin Members(h)
      /\ \A h \in Grps \ {g} : Members(h)' = Members(h)
  BY AddFacts DEF Objs
<1>4. TypeOK'
  <2>1. size' \in [Objs -> Nat]
    BY <1>1 DEF Inv, TypeOK, eio_grp_add
  <2>2. grp_next' \in [Objs -> Ptr] /\ grp_first' \in [Objs -> Ptr]
    BY <1>1 DEF Inv, TypeOK, eio_grp_add, Ptr
  <2>3. grp_prev' \in [Objs -> Ptr]
    BY DEF Inv, TypeOK, eio_grp_add, Ptr
  <2> QED
    BY <1>2, <2>1, <2>2, <2>3 DEF Inv, TypeOK
<1>5. FinishedOnce'
  BY <1>2 DEF Inv, FinishedOnce, Finishing
<1>6. DecOK' /\ NestedOK'
  BY <1>1, <1>2 DEF Inv, DecOK, NestedOK, Unfinished, Finishing, Objs
<1>7. LeafOK'
  BY GroupAssumption DEF Inv, TypeOK, LeafOK, eio_grp_add, Objs
<1>8. GroupLast'
  BY <1>1, <1>2 DEF Inv, GroupLast, Unfinished
<1>9. SizeExact'
  <2> SUFFICES ASSUME NEW h \in Grps, st'[h] # "free"
               PROVE  size'[h] = Cardinality(Members(h)')
    BY DEF SizeExact
  <2>1. size[h] = Cardinality(Members(h)) /\ h \in Objs
    BY <1>2 DEF Inv, SizeExact, Objs
  <2>2. CASE h = g
    <3>1. Cardinality(Members(h) \cup {r}) = Cardinality(Members(h)) + 1
      BY <1>3, MembersFinite, FS_AddElement
    <3>2. size'[h] = size[h] + 1
      BY <2>1, <2>2 DEF Inv, TypeOK, eio_grp_add
    <3> QED
      BY <1>3, <2>1, <2>2, <3>1, <3>2
  <2>3. CASE h # g
    <3>1. size'[h] = size[h]
      BY <2>1, <2>3 DEF Inv, TypeOK, eio_grp_add
    <3> QED
      BY <1>3, <2>1, <2>3, <3>1
  <2> QED
    BY <2>2, <2>3
<1>10. ListOK'
  <2> SUFFICES ASSUME NEW h \in Grps, st'[h] # "free"
               PROVE  IsList(Members(h)', grp_first'[h], grp_next', grp_prev')
    BY DEF ListOK
  <2>1. /\ IsList(Members(h), grp_first[h], grp_next, grp_prev) /\ h \in Objs
        /\ IsList(Members(g), grp_first[g], grp_next, grp_prev)
    BY <1>1, <1>2 DEF Inv, ListOK, Objs
  <2>2. /\ grp_next \in [Objs -> Ptr] /\ grp_prev \in [Objs -> Ptr]
        /\ grp_first[g] \in Ptr
    BY <1>1 DEF Inv, TypeOK
  <2>3. /\ grp_next' = [grp_next EXCEPT ![r] = grp_first[g]]
        /\ grp_prev' = IF grp_first[g] = Nil THEN [grp_prev EXCEPT ![r] = Nil]
                       ELSE [grp_prev EXCEPT ![r] = Nil, ![grp_first[g]] = r]
    BY DEF eio_grp_add
  <2>4. CASE h = g
    <3>1. grp_first'[g] = r
      BY <1>1 DEF Inv, TypeOK, eio_grp_add
    <3> HIDE DEF Ptr
    <3>2. IsList(Members(g)', r, grp_next', grp_prev')
      BY <1>3, <2>1, <2>2, <2>3, MembersFinite, ListPush
    <3> QED
      BY <2>4, <3>1, <3>2
  <2>5. CASE h # g
    <3>1. grp_first'[h] = grp_first[h]
      BY <2>1, <2>5 DEF Inv, TypeOK, eio_grp_add
    <3>2. grp_first[g] # Nil => grp_first[g] \in Members(g)
      BY <2>1 DEF IsList, Linked
    <3>3. ASSUME NEW m \in Members(h) PROVE m \in Objs /\ m # r /\ m # grp_first[g]
      BY <1>3, <2>5, <3>2, GroupAssumption DEF Members
    <3>4. \A m \in Members(h) : grp_next'[m] = grp_next[m] /\ grp_prev'[m] = grp_prev[m]
      BY <2>2, <2>3, <3>3
    <3>5. IsList(Members(h), grp_first[h], grp_next', grp_prev')
      BY <2>1, <3>4, MembersFinite, ListFrame
    <3> QED
      BY <1>3, <2>5, <3>1, <3>5
  <2> QED
    BY <2>4, <2>5
<1> QED
  BY <1>4, <1>5, <1>6, <1>7, <1>8, <1>9, <1>10 DEF Inv

\* A cancellation writes flags only.
LEMMA CancelInv ==
    ASSUME Inv, UNCHANGED <<st, linkVars, delayed, stack>>,
           cancelled' \in [Objs -> BOOLEAN]
    PROVE  Inv'
<1>1. \A x \in Objs : /\ Unfinished(x)' <=> Unfinished(x)
                      /\ Finishing(x)' <=> Finishing(x)
  BY DEF Unfinished, Finishing
<1>2. TypeOK'
  BY DEF Inv, TypeOK, linkVars
<1>3. FinishedOnce' /\ DecOK' /\ NestedOK'
  BY <1>1 DEF Inv, FinishedOnce, DecOK, NestedOK, linkVars, Objs
<1>4. GroupLast'
  BY <1>1 DEF Inv, GroupLast, linkVars
<1>5. \A h \in Grps : Members(h)' = Members(h)
  BY <1>1 DEF Members, linkVars
<1>6. SizeExact' /\ ListOK' /\ LeafOK'
  BY <1>5, QuietKeeps DEF Inv
<1> QED
  BY <1>2, <1>3, <1>4, <1>6 DEF Inv

LEMMA PollDelayInv ==
    ASSUME Inv, NEW g \in Grps, PollDelay(g)
    PROVE  Inv'
<1>1. /\ g \in Objs /\ st[g] = "pool" /\ st'[g] = "delayed"
      /\ \A x \in Objs \ {g} : st'[x] = st[x]
      /\ UNCHANGED <<linkVars, stack>>
  BY DEF Inv, TypeOK, PollDelay, Objs
<1>2. TypeOK'
  BY <1>1 DEF Inv, TypeOK, PollDelay, States, linkVars
<1>3. \A x \in Objs : /\ Unfinished(x)' <=> Unfinished(x)
                      /\ Finishing(x)' <=> Finishing(x)
  BY <1>1 DEF Unfinished, Finishing
<1>4. FinishedOnce'
  BY <1>1, <1>3 DEF Inv, FinishedOnce
<1>5. DecOK' /\ NestedOK'
  BY <1>1, <1>3 DEF Inv, DecOK, NestedOK, linkVars, Objs
<1>6. GroupLast'
  BY <1>1, <1>3 DEF Inv, TypeOK, GroupLast, linkVars, Objs
<1>7. \A h \in Grps : Members(h)' = Members(h)
  BY <1>1, <1>3 DEF Members, linkVars
<1>8. SizeExact' /\ ListOK' /\ LeafOK'
  BY <1>1, <1>7, QuietKeeps DEF Inv, Objs
<1> QED
  BY <1>2, <1>4, <1>5, <1>6, <1>8 DEF Inv

LEMMA PollFinishInv ==
    ASSUME Inv, NEW o \in Objs, PollFinish(o)
    PROVE  Inv'
<1>1. /\ st[o] = "pool" /\ st'[o] \in {"cb", "skip"}
      /\ \A x \in Objs \ {o} : st'[x] = st[x]
      /\ UNCHANGED <<linkVars, cancelled, delayed>>
      /\ stack' = <<o>> \o stack
  BY DEF Inv, TypeOK, PollFinish, Enter
<1>2. \A x \in Objs : /\ Unfinished(x)' <=> Unfinished(x)
                      /\ Finishing(x)' <=> x = o \/ Finishing(x)
  BY <1>1 DEF Unfinished, Finishing
<1>3. stack' \in Seq(Objs) /\ FinishedOnce'
  <2>1. ~Finishing(o)
    BY <1>1 DEF Finishing
  <2> QED
    BY <1>1, <1>2, <2>1, FinishedPush DEF Inv, TypeOK
<1>4. TypeOK'
  BY <1>1, <1>3 DEF Inv, TypeOK, PollFinish, Enter, States, linkVars
<1>5. DecOK' /\ NestedOK'
  BY <1>1, <1>2 DEF Inv, DecOK, NestedOK, linkVars, Objs
<1>6. GroupLast'
  <2> SUFFICES ASSUME NEW x \in Objs, Unfinished(x)', grp'[x] # Nil
               PROVE  st'[grp'[x]] \in {"pool", "delayed"}
    BY DEF GroupLast
  <2>1. Unfinished(x) /\ grp'[x] = grp[x]
    BY <1>1, <1>2 DEF linkVars
  <2>2. /\ grp[x] \in Grps /\ grp[x] \in Objs /\ st[grp[x]] \in {"pool", "delayed"}
        /\ size[grp[x]] # 0
    BY <2>1, MemberCounted
  <2>3. grp[x] # o
    BY <2>2 DEF PollFinish
  <2> QED
    BY <1>1, <2>1, <2>2, <2>3
<1>7. \A h \in Grps : Members(h)' = Members(h)
  BY <1>1, <1>2 DEF Members, linkVars
<1>8. SizeExact' /\ ListOK' /\ LeafOK'
  BY <1>1, <1>7, QuietKeeps DEF Inv, Objs
<1> QED
  BY <1>3, <1>4, <1>5, <1>6, <1>8 DEF Inv

\* eio_finish returns: FinishAlone and FinishDec leave no member behind.
LEMMA DestroyInv ==
    ASSUME Inv, stack # <<>>, Destroy, UNCHANGED <<linkVars, cancelled, delayed>>,
           Unfinished(Top) => grp[Top] = Nil
    PROVE  Inv'
<1>1. /\ Top \in Objs /\ Finishing(Top)
      /\ st'[Top] = "free" /\ \A x \in Objs \ {Top} : st'[x] = st[x]
      /\ stack' = Tail(stack)
  BY TopFinishing DEF Inv, TypeOK, Destroy
<1>2. \A x \in Objs : /\ Unfinished(x)' <=> x # Top /\ Unfinished(x)
                      /\ Finishing(x)' <=> x # Top /\ Finishing(x)
  BY <1>1 DEF Unfinished, Finishing
<1>3. stack' \in Seq(Objs) /\ FinishedOnce'
  BY <1>1, <1>2, FinishedPop DEF Inv, TypeOK
<1>4. TypeOK'
  BY <1>1, <1>3 DEF Inv, TypeOK, Destroy, States, linkVars
<1>5. DecOK' /\ NestedOK'
  BY <1>1, <1>2 DEF Inv, DecOK, NestedOK, linkVars, Objs
<1>6. GroupLast'
  <2> SUFFICES ASSUME NEW x \in Objs, Unfinished(x)', grp'[x] # Nil
               PROVE  st'[grp'[x]] \in {"pool", "delayed"}
    BY DEF GroupLast
  <2>1. Unfinished(x) /\ grp'[x] = grp[x]
    BY <1>2 DEF linkVars
  <2>2. grp[x] \in Objs /\ st[grp[x]] \in {"pool", "delayed"}
    BY <2>1, MemberCounted
  <2> QED
    BY <1>1, <2>1, <2>2 DEF Finishing
<1>7. \A h \in Grps : Members(h)' = Members(h)
  BY <1>1, <1>2, GroupAssumption DEF Members, linkVars, Objs
<1>8. SizeExact' /\ ListOK' /\ LeafOK'
  BY <1>1, <1>7, QuietKeeps DEF Inv, Objs
<1> QED
  BY <1>3, <1>4, <1>5, <1>6, <1>8 DEF Inv

\* What Unlink does to the group of the request and to the others
LEMMA UnlinkKeeps ==
    ASSUME Inv, NEW r \in Objs, Unfinished(r), grp[r] # Nil, Unlink(r),
           \A x \in Objs : Unfinished(x)' <=> x # r /\ Unfinished(x),
           \A x \in Objs : st'[x] # "free" => st[x] # "free"
    PROVE  /\ SizeExact' /\ ListOK' /\ LeafOK'
           /\ grp' = grp
           /\ size' \in [Objs -> Nat] /\ grp_first' \in [Objs -> Ptr]
           /\ grp_next' \in [Objs -> Ptr] /\ grp_prev' \in [Objs -> Ptr]
           /\ size'[grp[r]] = size[grp[r]] - 1
           /\ \A h : Members(h)' = Members(h) \ {r}
<1>0. PICK g \in Grps : g = grp[r]
  BY MemberCounted
<1>1. /\ g \in Objs /\ st[g] \in {"pool", "delayed"}
      /\ r \in Members(g) /\ size[g] \in Nat /\ size[g] # 0
      /\ Cardinality(Members(g) \ {r}) = size[g] - 1
  BY <1>0, MemberCounted
<1>2. /\ grp' = grp
      /\ size' = [size EXCEPT ![g] = @ - 1]
      /\ grp_prev' = IF grp_next[r] = Nil THEN grp_prev
                     ELSE [grp_prev EXCEPT ![grp_next[r]] = grp_prev[r]]
      /\ grp_next' = IF grp_prev[r] = Nil THEN grp_next
                     ELSE [grp_next EXCEPT ![grp_prev[r]] = grp_next[r]]
      /\ grp_first' = IF grp_first[g] = r THEN [grp_first EXCEPT ![g] = grp_next[r]]
                      ELSE grp_first
  BY <1>0 DEF Unlink
<1>3. \A h : Members(h)' = Members(h) \ {r}
  BY <1>2 DEF Members
<1>4. \A h \in Grps : h # g => r \notin Members(h)
  BY <1>0 DEF Members
<1>5. /\ grp_next \in [Objs -> Ptr] /\ grp_prev \in [Objs -> Ptr]
      /\ grp_first \in [Objs -> Ptr] /\ size \in [Objs -> Nat]
  BY DEF Inv, TypeOK
<1>6. size' \in [Objs -> Nat] /\ size'[g] = size[g] - 1
      /\ \A h \in Objs : h # g => size'[h] = size[h]
  BY <1>1, <1>2, <1>5
<1>7. /\ grp_next' \in [Objs -> Ptr] /\ grp_prev' \in [Objs -> Ptr]
      /\ grp_first' \in [Objs -> Ptr]
  BY <1>2, <1>5 DEF Ptr
<1>8. SizeExact'
  <2> SUFFICES ASSUME NEW h \in Grps, st'[h] # "free"
               PROVE  size'[h] = Cardinality(Members(h)')
    BY DEF SizeExact
  <2>1. CASE h = g
    BY <1>1, <1>3, <1>6, <2>1
  <2>2. CASE h # g
    <3>1. Members(h)' = Members(h)
      BY <1>3, <1>4, <2>2
    <3> QED
      BY <1>6, <2>2, <3>1 DEF Inv, SizeExact, Objs
  <2> QED
    BY <2>1, <2>2
<1>9. LeafOK'
  BY <1>1, <1>2, <1>5, GroupAssumption DEF Inv, LeafOK, Objs
<1>10. ListOK'
  <2> SUFFICES ASSUME NEW h \in Grps, st'[h] # "free"
               PROVE  IsList(Members(h)', grp_first'[h], grp_next', grp_prev')
    BY DEF ListOK
  <2>1. /\ h \in Objs /\ IsList(Members(h), grp_first[h], grp_next, grp_prev)
        /\ IsList(Members(g), grp_first[g], grp_next, grp_prev)
    BY <1>1 DEF Inv, ListOK, Objs
  <2>2. CASE h = g
    <3>1. grp_first'[g] = IF grp_first[g] = r THEN grp_next[r] ELSE grp_first[g]
      BY <1>1, <1>2, <1>5
    <3>2. /\ grp_first[g] \in Ptr /\ Members(g) \in SUBSET Objs
          /\ Members(g)' = Members(g) \ {r}
      BY <1>1, <1>3, <1>5, MembersFinite
    <3>3. IsList(Members(g)', grp_first'[g], grp_next', grp_prev')
      <4>1. /\ grp_first'[g] = CutFirst(grp_first[g], grp_next, r)
            /\ grp_next' = CutNext(grp_next, grp_prev, r)
            /\ grp_prev' = CutPrev(grp_next, grp_prev, r)
        BY <1>2, <3>1 DEF CutFirst, CutNext, CutPrev
      <4> QED
        BY <1>1, <1>5, <2>1, <3>2, <4>1, ListCut
    <3> QED
      BY <2>2, <3>3
  <2>3. CASE h # g
    <3>1. Members(h)' = Members(h) /\ grp_first'[h] = grp_first[h]
      BY <1>1, <1>2, <1>3, <1>4, <1>5, <2>1, <2>3
    <3>2. /\ grp_next[r] # Nil => grp_next[r] \in Members(g)
          /\ grp_prev[r] # Nil => grp_prev[r] \in Members(g)
      BY <1>1, <2>1 DEF IsList, Linked
    <3>3. ASSUME NEW m \in Members(h)
          PROVE  m \in Objs /\ m # grp_next[r] /\ m # grp_prev[r]
      BY <2>3, <3>2, GroupAssumption DEF Members
    <3>4. \A m \in Members(h) : grp_next'[m] = grp_next[m] /\ grp_prev'[m] = grp_prev[m]
      BY <1>2, <1>5, <3>3
    <3>5. IsList(Members(h), grp_first[h], grp_next', grp_prev')
      BY <2>1, <3>4, MembersFinite, ListFrame
    <3> QED
      BY <3>1, <3>5
  <2> QED
    BY <2>2, <2>3
<1> QED
  BY <1>0, <1>2, <1>3, <1>6, <1>7, <1>8, <1>9, <1>10

LEMMA FinishMemberInv ==
    ASSUME Inv, FinishMember
    PROVE  Inv'
<1>1. /\ stack # <<>> /\ Top \in Objs /\ Finishing(Top) /\ Unfinished(Top)
      /\ grp[Top] # Nil /\ Unlink(Top)
      /\ st'[Top] = "free" /\ \A x \in Objs \ {Top} : st'[x] = st[x]
      /\ stack' = Tail(stack) /\ UNCHANGED <<cancelled, delayed>>
  BY TopFinishing DEF Inv, TypeOK, FinishMember, FinishReturns, Destroy, Unfinished
<1>2. \A x \in Objs : /\ Unfinished(x)' <=> x # Top /\ Unfinished(x)
                      /\ Finishing(x)' <=> x # Top /\ Finishing(x)
                      /\ st'[x] # "free" => st[x] # "free"
  BY <1>1 DEF Unfinished, Finishing
<1>3. stack' \in Seq(Objs) /\ FinishedOnce'
  BY <1>1, <1>2, FinishedPop DEF Inv, TypeOK
<1>4. /\ SizeExact' /\ ListOK' /\ LeafOK' /\ grp' = grp
      /\ size' \in [Objs -> Nat] /\ grp_first' \in [Objs -> Ptr]
      /\ grp_next' \in [Objs -> Ptr] /\ grp_prev' \in [Objs -> Ptr]
  BY <1>1, <1>2, UnlinkKeeps
<1>5. st' \in [Objs -> States]
  BY <1>1 DEF FinishMember, Destroy, Inv, TypeOK, States
<1>6. TypeOK'
  BY <1>1, <1>3, <1>4, <1>5 DEF Inv, TypeOK
<1>7. DecOK' /\ NestedOK'
  BY <1>1, <1>2, <1>4 DEF Inv, DecOK, NestedOK, Objs
<1>8. GroupLast'
  <2> SUFFICES ASSUME NEW x \in Objs, Unfinished(x)', grp'[x] # Nil
               PROVE  st'[grp'[x]] \in {"pool", "delayed"}
    BY DEF GroupLast
  <2>1. Unfinished(x) /\ grp'[x] = grp[x]
    BY <1>2, <1>4
  <2>2. grp[x] \in Objs /\ st[grp[x]] \in {"pool", "delayed"}
    BY <2>1, MemberCounted
  <2> QED
    BY <1>1, <2>1, <2>2 DEF Finishing
<1> QED
  BY <1>3, <1>4, <1>6, <1>7, <1>8 DEF Inv

\* The group is finished inside of the eio_finish call of its last member.
LEMMA FinishLastInv ==
    ASSUME Inv, FinishLast
    PROVE  Inv'
<1>0. PICK g \in Grps : g = grp[Top]
  BY TopFinishing, MemberCounted DEF FinishLast, FinishReturns, Unfinished
<1>1. /\ stack # <<>> /\ Top \in Objs /\ Finishing(Top) /\ Unfinished(Top)
      /\ g # Nil /\ Unlink(Top) /\ size'[g] = 0
      /\ stack' = <<g>> \o stack /\ UNCHANGED <<cancelled, delayed>>
  BY <1>0, TopFinishing, GroupAssumption DEF FinishLast, FinishReturns, Unfinished, Objs
<1>2. /\ g \in Objs /\ st[g] \in {"pool", "delayed"} /\ g # Top
      /\ Top \in Members(g) /\ size[g] = Cardinality(Members(g)) /\ size[g] \in Nat
      /\ Cardinality(Members(g) \ {Top}) = size[g] - 1
  BY <1>0, <1>1, MemberCounted DEF Finishing
<1>3. /\ st' \in [Objs -> States]
      /\ st'[Top] = "dec" /\ st'[g] \in {"cb", "skip"}
      /\ \A x \in Objs \ {Top, g} : st'[x] = st[x]
  BY <1>0, <1>1, <1>2 DEF Inv, TypeOK, FinishLast, Enter, States
<1>4. \A x \in Objs : /\ Unfinished(x)' <=> x # Top /\ Unfinished(x)
                      /\ Finishing(x)' <=> x = g \/ Finishing(x)
                      /\ st'[x] # "free" => st[x] # "free"
  BY <1>1, <1>2, <1>3 DEF Unfinished, Finishing
<1>5. stack' \in Seq(Objs) /\ FinishedOnce'
  <2>1. ~Finishing(g)
    BY <1>2 DEF Finishing
  <2> QED
    BY <1>1, <1>2, <1>4, <2>1, FinishedPush DEF Inv, TypeOK
<1>6. /\ SizeExact' /\ ListOK' /\ LeafOK' /\ grp' = grp
      /\ size' \in [Objs -> Nat] /\ grp_first' \in [Objs -> Ptr]
      /\ grp_next' \in [Objs -> Ptr] /\ grp_prev' \in [Objs -> Ptr]
      /\ size'[g] = size[g] - 1 /\ Members(g)' = Members(g) \ {Top}
  BY <1>0, <1>1, <1>4, UnlinkKeeps
<1>7. TypeOK'
  BY <1>1, <1>3, <1>5, <1>6 DEF Inv, TypeOK
<1>8. DecOK' /\ NestedOK'
  <2>1. DecOK'
    BY <1>0, <1>1, <1>2, <1>3, <1>6 DEF Inv, DecOK
  <2>2. NestedOK'
    BY <1>4, <1>6 DEF Inv, NestedOK, Objs
  <2> QED
    BY <2>1, <2>2
<1>9. Members(g)' = {}
  BY <1>1, <1>2, <1>6, MembersFinite, FS_EmptySet, FS_RemoveElement
<1>10. GroupLast'
  <2> SUFFICES ASSUME NEW x \in Objs, Unfinished(x)', grp'[x] # Nil
               PROVE  st'[grp'[x]] \in {"pool", "delayed"}
    BY DEF GroupLast
  <2>1. Unfinished(x) /\ grp'[x] = grp[x]
    BY <1>4, <1>6
  <2>2. grp[x] \in Objs /\ st[grp[x]] \in {"pool", "delayed"}
    BY <2>1, MemberCounted
  <2>3. grp[x] # g
    BY <1>9, <2>1 DEF Members
  <2>4. grp[x] # Top
    BY <1>1, <2>2 DEF Finishing
  <2> QED
    BY <1>3, <2>1, <2>2, <2>3, <2>4
<1> QED
  BY <1>5, <1>6, <1>7, <1>8, <1>10 DEF Inv

LEMMA NextInv ==
    ASSUME Careful, Inv, [Next]_vars
    PROVE  Inv'
<1>1. ASSUME NEW o \in Objs, eio_submit(o) PROVE Inv'
  BY <1>1, SubmitInv
<1>2. ASSUME NEW g \in Grps, NEW r \in Objs, eio_grp_add(g, r) PROVE Inv'
  BY <1>2, AddInv
<1>3. ASSUME NEW r \in Objs, eio_cancel(r) PROVE Inv'
  <2>1. cancelled' \in [Objs -> BOOLEAN]
    BY <1>3, Zenon DEF eio_cancel
  <2> QED
    BY <1>3, <2>1, CancelInv DEF eio_cancel
<1>4. ASSUME NEW g \in Grps, eio_grp_cancel(g) PROVE Inv'
  <2>1. cancelled' \in [Objs -> BOOLEAN]
    BY <1>4, Zenon DEF eio_grp_cancel
  <2> QED
    BY <1>4, <2>1, CancelInv DEF eio_grp_cancel
<1>5. ASSUME NEW g \in Grps, PollDelay(g) PROVE Inv'
  BY <1>5, PollDelayInv
<1>6. ASSUME NEW o \in Objs, PollFinish(o) PROVE Inv'
  BY <1>6, PollFinishInv
<1>7. CASE FinishAlone
  BY <1>7, DestroyInv DEF FinishAlone, FinishReturns
<1>8. CASE FinishMember
  BY <1>8, FinishMemberInv
<1>9. CASE FinishLast
  BY <1>9, FinishLastInv
<1>10. CASE FinishDec
  BY <1>10, DestroyInv DEF FinishDec, Unfinished
<1>11. CASE UNCHANGED vars
  <2>1. cancelled' \in [Objs -> BOOLEAN]
    BY <1>11 DEF vars, Inv, TypeOK
  <2> QED
    BY <1>11, <2>1, CancelInv DEF vars
<1> QED
  BY <1>1, <1>2, <1>3, <1>4, <1>5, <1>6, <1>7, <1>8, <1>9, <1>10, <1>11
  DEF Next, Submit, Poll, eio_finish

\* The invariant behind all results
THEOREM InvCorrect ==
    ASSUME Careful
    PROVE  Spec => []Inv
<1>1. Init => Inv
  BY InitInv
<1>2. Inv /\ [Next]_vars => Inv'
  BY NextInv
<1> QED
  BY <1>1, <1>2, PTL DEF Spec

\* What etp_grp_cancel visits is what the group waits for.
LEMMA WalkIsMembers ==
    ASSUME Inv, NEW g \in Objs, st[g] # "free"
    PROVE  Walk(g) = Members(g)
<1>1. /\ grp_first[g] # Nil => grp_first[g] \in Members(g)
      /\ \A m \in Members(g) : grp_next[m] # Nil => grp_next[m] \in Members(g)
      /\ \A m \in Members(g) : grp_first[m] = Nil
      /\ Chained(Members(g), grp_first[g], grp_next)
  <2>1. CASE g \in Grps
    BY <2>1, MemberIsLeaf DEF Inv, ListOK, IsList, Linked
  <2>2. CASE g \in Reqs
    <3>1. Members(g) = {} /\ grp_first[g] = Nil
      BY <2>2, NoMembers, GroupAssumption DEF Inv, LeafOK
    <3> QED
      BY <3>1 DEF Chained
  <2> QED
    BY <2>1, <2>2 DEF Objs
<1>2. Members(g) \in SUBSET Objs
  BY MembersFinite
<1>3. ASSUME NEW o \in Walk(g) PROVE o \in Members(g)
  <2>1. ({grp_first[g]} \ {Nil}) \cup Onward(Members(g)) \subseteq Members(g)
    BY <1>1 DEF Onward
  <2> QED
    BY <1>2, <1>3, <2>1 DEF Walk
<1>4. ASSUME NEW o \in Members(g) PROVE o \in Walk(g)
  <2> SUFFICES ASSUME NEW S \in SUBSET Objs,
                      ({grp_first[g]} \ {Nil}) \cup Onward(S) \subseteq S
               PROVE  o \in S
    BY <1>2, <1>4 DEF Walk
  <2>1. Closed(S, Members(g), grp_first[g], grp_next)
    BY DEF Closed, Onward
  <2> QED
    BY <1>1, <1>4, <2>1 DEF Chained
<1> QED
  BY <1>3, <1>4

-----------------------------------------------------------------------------
(* The counters and lists implement the sets of GroupService. *)

LEMMA ServiceObjs == Service!Objs = Objs
BY DEF Service!Objs, Objs

\* Members of members do not exist, and a cancellation ends at the members.
LEMMA BelowIsWalk ==
    ASSUME Inv, NEW g \in Objs, st[g] # "free"
    PROVE  Service!Below(g) = Walk(g)
<1>1. Members(g) \in SUBSET Objs /\ members[g] = Members(g)
  BY MembersFinite DEF members
<1>2. \A m \in Members(g) : members[m] = {}
  <2>1. CASE g \in Grps
    BY <1>1, <2>1, MemberIsLeaf DEF members
  <2>2. CASE g \notin Grps
    BY <2>2, NoMembers
  <2> QED
    BY <2>1, <2>2
<1>3. ASSUME NEW o \in Service!Below(g) PROVE o \in Members(g)
  <2>1. members[g] \cup UNION {members[m] : m \in Members(g)} \subseteq Members(g)
    BY <1>1, <1>2
  <2> QED
    BY <1>1, <1>3, <2>1, ServiceObjs DEF Service!Below
<1>4. ASSUME NEW o \in Members(g) PROVE o \in Service!Below(g)
  BY <1>1, <1>4, ServiceObjs DEF Service!Below
<1> QED
  BY <1>3, <1>4, WalkIsMembers

\* One request changes its phase.
LEMMA PhaseStep ==
    ASSUME NEW o \in Objs, NEW p, Phase(o)' = p,
           \A x \in Objs \ {o} : st'[x] = st[x]
    PROVE  phase' = [phase EXCEPT ![o] = p]
<1>1. \A x \in Objs \ {o} : Phase(x)' = Phase(x)
  BY DEF Phase
<1> QED
  BY <1>1 DEF phase

LEMMA SameMembers ==
    ASSUME \A x \in Objs : Members(x)' = Members(x)
    PROVE  members' = members
BY DEF members

LEMMA RefinesInit == Init => Service!Init
<1> SUFFICES ASSUME Init PROVE Service!Init
  OBVIOUS
<1>1. phase = [o \in Objs |-> "none"]
  BY DEF Init, phase, Phase
<1>2. members = [o \in Objs |-> {}]
  BY DEF Init, members, Members, Unfinished
<1> QED
  BY <1>1, <1>2, ServiceObjs DEF Init, Service!Init

LEMMA RefinesSubmit ==
    ASSUME Inv, NEW o \in Objs, eio_submit(o)
    PROVE  Service!Submit(o)
<1>1. /\ st[o] = "free" /\ st'[o] = "pool" /\ grp'[o] = Nil
      /\ \A x \in Objs \ {o} : st'[x] = st[x] /\ grp'[x] = grp[x]
  BY DEF Inv, TypeOK, eio_submit
<1>2. phase[o] = "none" /\ Phase(o)' = "waiting"
  BY <1>1 DEF phase, Phase
<1>3. phase' = [phase EXCEPT ![o] = "waiting"]
  BY <1>1, <1>2, PhaseStep
<1>4. \A x \in Objs : Members(x)' = Members(x)
  BY <1>1, GroupAssumption DEF Members, Unfinished
<1> QED
  BY <1>2, <1>3, <1>4, SameMembers DEF eio_submit, Service!Submit

LEMMA RefinesAdd ==
    ASSUME Inv, Careful, NEW g \in Grps, NEW r \in Objs, eio_grp_add(g, r)
    PROVE  Service!Add(g, r)
<1>1. /\ g \in Objs /\ st[g] \in {"pool", "delayed"} /\ Unfinished(r)
      /\ Members(g)' = Members(g) \cup {r}
      /\ \A h \in Objs : r \notin Members(h)
      /\ \A h \in Objs \ {g} : Members(h)' = Members(h)
  BY AddFacts
<1>2. phase[g] = "waiting" /\ (phase[r] = "waiting" \/ Service!Finished(r))
  BY <1>1 DEF phase, Phase, Unfinished, Service!Finished
<1>3. members' = [members EXCEPT ![g] = @ \cup {r}]
  BY <1>1 DEF members
<1>4. \A h \in Grps : r \notin members[h]
  BY <1>1 DEF members, Objs
<1>5. UNCHANGED <<phase, cancelled>>
  BY DEF eio_grp_add, phase, Phase
<1> QED
  BY <1>2, <1>3, <1>4, <1>5 DEF Service!Add

LEMMA RefinesCancel ==
    ASSUME Inv, NEW r \in Objs, eio_cancel(r) \/ eio_grp_cancel(r)
    PROVE  Service!Cancel({r} \cup Service!Below(r)) \/ Service!Cancel(Service!Below(r))
<1>1. Service!Below(r) = Walk(r)
  BY BelowIsWalk DEF eio_cancel, eio_grp_cancel
<1>2. UNCHANGED <<phase, members>>
  <2>1. st' = st /\ grp' = grp
    BY DEF eio_cancel, eio_grp_cancel, linkVars
  <2> QED
    BY <2>1 DEF phase, Phase, members, Members, Unfinished
<1>3. CASE eio_cancel(r)
  <2>1. cancelled' = [o \in Objs |-> o = r \/ o \in Walk(r) \/ cancelled[o]]
    BY <1>3 DEF eio_cancel
  <2>2. cancelled' = [o \in Service!Objs |-> o \in {r} \cup Service!Below(r) \/ cancelled[o]]
    BY <1>1, <2>1, ServiceObjs
  <2> QED
    BY <1>2, <2>2 DEF Service!Cancel
<1>4. CASE eio_grp_cancel(r)
  BY <1>1, <1>2, <1>4, ServiceObjs DEF eio_grp_cancel, Service!Cancel
<1> QED
  BY <1>3, <1>4

LEMMA RefinesPollFinish ==
    ASSUME Inv, NEW o \in Objs, PollFinish(o)
    PROVE  Service!Finish(o)
<1>1. /\ st[o] = "pool" /\ st'[o] = Enter(o)
      /\ \A x \in Objs \ {o} : st'[x] = st[x]
      /\ UNCHANGED <<linkVars, cancelled>>
  BY DEF Inv, TypeOK, PollFinish
<1>2. Members(o) = {}
  <2>1. CASE o \in Grps
    BY <1>1, <2>1, NoneCounted DEF PollFinish
  <2>2. CASE o \notin Grps
    BY <2>2, NoMembers
  <2> QED
    BY <2>1, <2>2
<1>3. phase[o] = "waiting" /\ members[o] = {}
  BY <1>1, <1>2 DEF phase, Phase, members
<1>4. Phase(o)' = Service!Started(o)
  BY <1>1 DEF Phase, Enter, Service!Started
<1>5. phase' = [phase EXCEPT ![o] = Service!Started(o)]
  BY <1>1, <1>4, PhaseStep
<1>6. \A x \in Objs : Members(x)' = Members(x)
  BY <1>1 DEF Members, Unfinished, Enter, linkVars
<1> QED
  BY <1>1, <1>3, <1>5, <1>6, SameMembers DEF Service!Finish

LEMMA RefinesPollDelay ==
    ASSUME Inv, NEW g \in Grps, PollDelay(g)
    PROVE  UNCHANGED Service!vars
<1>1. /\ st[g] = "pool" /\ st'[g] = "delayed" /\ UNCHANGED <<linkVars, cancelled>>
      /\ \A x \in Objs \ {g} : st'[x] = st[x]
  BY DEF Inv, TypeOK, PollDelay, Objs
<1>2. \A x \in Objs : Phase(x)' = Phase(x)
  BY <1>1 DEF Phase
<1>3. phase' = phase
  BY <1>2 DEF phase
<1>4. \A x \in Objs : Members(x)' = Members(x)
  BY <1>1 DEF Members, Unfinished, linkVars
<1> QED
  BY <1>1, <1>3, <1>4, SameMembers DEF Service!vars

\* FinishAlone and FinishMember: the request leaves its group, if it has one.
LEMMA RefinesLeave ==
    ASSUME Inv, FinishAlone \/ FinishMember
    PROVE  \E o \in Objs : Service!Leave(o)
<1>1. PICK o \in Objs : o = Top
  BY TopFinishing DEF FinishAlone, FinishMember, FinishReturns
<1>2. /\ st[o] \in {"cb", "skip"} /\ st'[o] = "free"
      /\ \A x \in Objs \ {o} : st'[x] = st[x]
      /\ cancelled' = cancelled
  BY <1>1 DEF Inv, TypeOK, FinishAlone, FinishMember, FinishReturns, Destroy
<1>3. Service!Finished(o) /\ Phase(o)' = "none"
  BY <1>2 DEF phase, Phase, Service!Finished
<1>4. phase' = [phase EXCEPT ![o] = "none"]
  BY <1>2, <1>3, PhaseStep
<1>5. \A x \in Objs : Members(x)' = Members(x) \ {o}
  <2>1. CASE FinishAlone
    BY <1>1, <1>2, <2>1, GroupAssumption DEF FinishAlone, Members, Unfinished, linkVars
  <2>2. CASE FinishMember
    <3>1. Unfinished(o) /\ grp[o] # Nil /\ Unlink(o)
      BY <1>1, <1>2, <2>2 DEF FinishMember, Unfinished
    <3>2. \A x \in Objs : /\ Unfinished(x)' <=> x # o /\ Unfinished(x)
                          /\ st'[x] # "free" => st[x] # "free"
      BY <1>2 DEF Unfinished
    <3> QED
      BY <3>1, <3>2, UnlinkKeeps
  <2> QED
    BY <2>1, <2>2
<1>6. members' = [g \in Service!Objs |-> members[g] \ {o}]
  BY <1>5, ServiceObjs DEF members
<1> QED
  BY <1>2, <1>3, <1>4, <1>6 DEF Service!Leave

LEMMA RefinesLeaveLast ==
    ASSUME Inv, FinishLast
    PROVE  \E g \in Grps, o \in Objs : Service!LeaveLast(o, g)
<1>1. PICK o \in Objs : o = Top
  BY TopFinishing DEF FinishLast, FinishReturns
<1>2. /\ st[o] \in {"cb", "skip"} /\ Unfinished(o) /\ grp[o] # Nil /\ Unlink(o)
      /\ cancelled' = cancelled
  BY <1>1 DEF FinishLast, FinishReturns, Unfinished
<1>3. PICK g \in Grps : g = grp[o]
  BY <1>2, MemberCounted
<1>4. /\ g \in Objs /\ st[g] \in {"pool", "delayed"} /\ g # o
      /\ o \in Members(g) /\ Cardinality(Members(g) \ {o}) = size[g] - 1
      /\ size'[g] = 0
  BY <1>1, <1>2, <1>3, MemberCounted DEF FinishLast
<1>5. /\ st'[o] = "dec" /\ st'[g] = Enter(g)
      /\ \A x \in Objs \ {o, g} : st'[x] = st[x]
  BY <1>1, <1>3, <1>4 DEF Inv, TypeOK, FinishLast
<1>6. \A x \in Objs : /\ Unfinished(x)' <=> x # o /\ Unfinished(x)
                      /\ st'[x] # "free" => st[x] # "free"
  BY <1>2, <1>4, <1>5 DEF Unfinished, Enter
<1>7. /\ \A x : Members(x)' = Members(x) \ {o}
      /\ size'[g] = size[g] - 1
  BY <1>2, <1>3, <1>6, UnlinkKeeps
<1>8. Members(g) = {o}
  <2>1. IsFiniteSet(Members(g) \ {o})
    BY MembersFinite, FS_RemoveElement
  <2>2. Members(g) \ {o} = {}
    BY <1>4, <1>7, <2>1, FS_EmptySet
  <2> QED
    BY <1>4, <2>2
<1>9. /\ Service!Finished(o) /\ members[g] = {o} /\ phase[g] = "waiting"
  BY <1>2, <1>4, <1>8 DEF phase, Phase, members, Service!Finished
<1>10. phase' = [phase EXCEPT ![o] = "leaving", ![g] = Service!Started(g)]
  <2>1. Phase(o)' = "leaving" /\ Phase(g)' = Service!Started(g)
    BY <1>5 DEF Phase, Enter, Service!Started
  <2>2. \A x \in Objs \ {o, g} : Phase(x)' = Phase(x)
    BY <1>5 DEF Phase
  <2> QED
    BY <1>4, <2>1, <2>2 DEF phase
<1>11. members' = [members EXCEPT ![g] = {}]
  <2>1. \A x \in Objs : x # g => Members(x)' = Members(x)
    BY <1>3, <1>7 DEF Members
  <2>2. Members(g)' = {}
    BY <1>7, <1>8
  <2> QED
    BY <1>4, <2>1, <2>2 DEF members
<1> QED
  BY <1>2, <1>9, <1>10, <1>11 DEF Service!LeaveLast

LEMMA RefinesLeft ==
    ASSUME Inv, FinishDec
    PROVE  \E o \in Objs : Service!Left(o)
<1>1. PICK o \in Objs : o = Top
  BY TopFinishing DEF FinishDec
<1>2. /\ st[o] = "dec" /\ st'[o] = "free" /\ UNCHANGED <<linkVars, cancelled>>
      /\ \A x \in Objs \ {o} : st'[x] = st[x]
  BY <1>1 DEF Inv, TypeOK, FinishDec, Destroy
<1>3. phase[o] = "leaving" /\ Phase(o)' = "none"
  BY <1>2 DEF phase, Phase
<1>4. phase' = [phase EXCEPT ![o] = "none"]
  BY <1>2, <1>3, PhaseStep
<1>5. \A x \in Objs : Members(x)' = Members(x)
  BY <1>2 DEF Members, Unfinished, linkVars
<1> QED
  BY <1>2, <1>3, <1>4, <1>5, SameMembers DEF Service!Left

LEMMA RefinesNext ==
    ASSUME Careful, Inv, [Next]_vars
    PROVE  [Service!Next]_(Service!vars)
<1> USE ServiceObjs
<1>1. ASSUME NEW o \in Objs, eio_submit(o) PROVE Service!Next
  BY <1>1, RefinesSubmit DEF Service!Next
<1>2. ASSUME NEW g \in Grps, NEW r \in Objs, eio_grp_add(g, r) PROVE Service!Next
  BY <1>2, RefinesAdd DEF Service!Next
<1>3. ASSUME NEW r \in Objs, eio_cancel(r) \/ eio_grp_cancel(r) PROVE Service!Next
  BY <1>3, RefinesCancel DEF Service!Next
<1>4. ASSUME NEW g \in Grps, PollDelay(g) PROVE UNCHANGED Service!vars
  BY <1>4, RefinesPollDelay
<1>5. ASSUME NEW o \in Objs, PollFinish(o) PROVE Service!Next
  BY <1>5, RefinesPollFinish DEF Service!Next
<1>6. ASSUME FinishAlone \/ FinishMember PROVE Service!Next
  BY <1>6, RefinesLeave DEF Service!Next
<1>7. ASSUME FinishLast PROVE Service!Next
  BY <1>7, RefinesLeaveLast DEF Service!Next
<1>8. ASSUME FinishDec PROVE Service!Next
  BY <1>8, RefinesLeft DEF Service!Next
<1>9. ASSUME UNCHANGED vars PROVE UNCHANGED Service!vars
  <2>1. st' = st /\ grp' = grp /\ cancelled' = cancelled
    BY <1>9 DEF vars, linkVars
  <2>2. UNCHANGED <<phase, members>>
    BY <2>1 DEF phase, Phase, members, Members, Unfinished
  <2> QED
    BY <2>1, <2>2 DEF Service!vars
<1>10. ASSUME NEW g \in Grps, eio_grp_cancel(g) PROVE Service!Next
  BY <1>3, <1>10 DEF Objs
<1> QED
  BY <1>1, <1>2, <1>3, <1>4, <1>5, <1>6, <1>7, <1>8, <1>9, <1>10
  DEF Next, Submit, Poll, eio_finish

-----------------------------------------------------------------------------
(* Results, for a careful script. *)

\* Every field of a request keeps its type; in particular the counter of a
\* group, which grp_dec decrements without a test, never goes below zero.
THEOREM TypeCorrect ==
    ASSUME Careful
    PROVE  Spec => []TypeOK
BY InvCorrect, PTL DEF Inv

\* The counter on which etp_poll and grp_dec decide that a group is done is
\* the number of its unfinished requests, through nested finishing calls.
THEOREM SizeExactCorrect ==
    ASSUME Careful
    PROVE  Spec => []SizeExact
BY InvCorrect, PTL DEF Inv

\* eio_grp_add and the unlinking in eio_finish keep every list whole: what
\* etp_grp_cancel visits are the unfinished requests of the group.
THEOREM ListExactCorrect ==
    ASSUME Careful
    PROVE  Spec => []ListExact
<1>1. Inv => ListExact
  <2> SUFFICES ASSUME Inv, NEW g \in Grps, st[g] # "free"
               PROVE  /\ Walk(g) = Members(g)
                      /\ grp_first[g] # Nil => grp_prev[grp_first[g]] = Nil
                      /\ \A m \in Members(g) :
                            grp_next[m] # Nil => grp_prev[grp_next[m]] = m
    BY DEF ListExact
  <2>1. Walk(g) = Members(g)
    BY WalkIsMembers DEF Objs
  <2> QED
    BY <2>1 DEF Inv, ListOK, IsList, Linked
<1> QED
  BY <1>1, InvCorrect, PTL

\* A group's callback comes after the eio_finish calls of all its requests, so
\* that none of these goes through a pointer to a destroyed group.
THEOREM GroupLastCorrect ==
    ASSUME Careful
    PROVE  Spec => []GroupLast
BY InvCorrect, PTL DEF Inv

\* grp_dec and nested etp_poll calls never finish a request a second time.
THEOREM FinishedOnceCorrect ==
    ASSUME Careful
    PROVE  Spec => []FinishedOnce
BY InvCorrect, PTL DEF Inv

\* Counters, doubly linked lists, the flag and the nested finishing calls
\* implement groups that are sets.
THEOREM ServiceImplemented ==
    ASSUME Careful
    PROVE  Spec => ImplementsService
<1>1. Init => Service!Init
  BY RefinesInit
<1>2. Inv /\ [Next]_vars => [Service!Next]_(Service!vars)
  BY RefinesNext
<1> QED
  BY <1>1, <1>2, InvCorrect, PTL DEF Spec, ImplementsService, Service!Spec
=============================================================================
