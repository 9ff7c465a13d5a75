-------------------------- MODULE PhpHandlesProofs --------------------------
(***************************************************************************)
(* Proofs about the handles and callback records of the extension, for any *)
(* number of requests, handles, records and resources.  What the functions *)
(* on handles do to the memory is proved first, apart from the requests.   *)
(***************************************************************************)
EXTENDS PhpHandles, FiniteSetTheorems, TLAPS

-----------------------------------------------------------------------------
(* The inductive invariant about handles. *)

\* Who has a reference to h: the entries of php_eio_handles and the resources.
Entries(m, h) == {r \in Reqs : m.table[r] = h}
Holders(m, h) == {x \in Rsrcs : m.rsrc[x] = h}

Count(m, h) == Cardinality(Entries(m, h)) + Cardinality(Holders(m, h))

\* The counters, as in RefsExact.
RefsOK(m) == \A h \in Handles : m.refs[h] = Count(m, h)

\* php_eio_handles and the pointers of the handles are inverse to each other,
\* and the requests in it are hooked.
LinkOK(m) ==
    /\ \A h \in Handles : m.req[h] # Nil => m.table[m.req[h]] = h
    /\ \A r \in Reqs : m.table[r] # Nil => m.req[m.table[r]] = r /\ r \in m.hooked

MemOK(m) == m \in Mem /\ RefsOK(m) /\ LinkOK(m)

\* Only live requests are in php_eio_handles, and those that are hooked are.
AliveOK ==
    \A r \in Reqs :
       /\ mem.table[r] # Nil => st[r] \in {"pool", "cb"}
       /\ st[r] \in {"pool", "cb"} /\ r \in mem.hooked => mem.table[r] # Nil

HandleInv == TypeOK /\ MemOK(mem) /\ AliveOK

-----------------------------------------------------------------------------
(* Cardinalities. *)

\* The sets of references are finite.
LEMMA RefSets ==
  ASSUME NEW m, NEW h
  PROVE  /\ IsFiniteSet(Entries(m, h)) /\ Cardinality(Entries(m, h)) \in Nat
         /\ IsFiniteSet(Holders(m, h)) /\ Cardinality(Holders(m, h)) \in Nat
         /\ Count(m, h) \in Nat
<1>1. Entries(m, h) \subseteq Reqs /\ Holders(m, h) \subseteq Rsrcs
  BY DEF Entries, Holders
<1>2. /\ IsFiniteSet(Entries(m, h)) /\ Cardinality(Entries(m, h)) \in Nat
      /\ IsFiniteSet(Holders(m, h)) /\ Cardinality(Holders(m, h)) \in Nat
  BY <1>1, FS_Subset, FS_CardinalityType, HandleAssumption
<1>3. QED
  BY <1>2 DEF Count

\* A handle without references is not in php_eio_handles, and no resource has it.
LEMMA NoRefs ==
  ASSUME NEW m, MemOK(m), NEW h \in Handles, m.refs[h] = 0
  PROVE  Entries(m, h) = {} /\ Holders(m, h) = {} /\ m.req[h] = Nil
<1>1. Cardinality(Entries(m, h)) = 0 /\ Cardinality(Holders(m, h)) = 0
  BY RefSets DEF MemOK, RefsOK, Count
<1>2. Entries(m, h) = {} /\ Holders(m, h) = {}
  BY <1>1, RefSets, FS_EmptySet
<1>3. ASSUME m.req[h] # Nil PROVE FALSE
  <2>1. m.req[h] \in Reqs /\ m.table[m.req[h]] = h
    BY <1>3 DEF MemOK, LinkOK, Mem
  <2>2. m.req[h] \in Entries(m, h)
    BY <2>1 DEF Entries
  <2>3. QED
    BY <1>2, <2>2
<1>4. QED
  BY <1>2, <1>3

\* One element more, one element less.
LEMMA CardPlus ==
  ASSUME NEW S, IsFiniteSet(S), NEW a, a \notin S, NEW T, T = S \cup {a}
  PROVE  Cardinality(T) = Cardinality(S) + 1
BY FS_AddElement

LEMMA CardMinus ==
  ASSUME NEW S, IsFiniteSet(S), NEW a \in S, NEW T, T = S \ {a}
  PROVE  Cardinality(T) = Cardinality(S) - 1
BY FS_RemoveElement

\* One entry or one resource more or less is one reference more or less.
LEMMA CountStep ==
  ASSUME NEW m, NEW m2, NEW h, NEW a
  PROVE  /\ Entries(m2, h) = Entries(m, h) /\ Holders(m2, h) = Holders(m, h) =>
               Count(m2, h) = Count(m, h)
         /\ /\ Entries(m2, h) = Entries(m, h) \ {a} /\ a \in Entries(m, h)
            /\ Holders(m2, h) = Holders(m, h)
            => Count(m2, h) = Count(m, h) - 1
         /\ /\ Holders(m2, h) = Holders(m, h) \ {a} /\ a \in Holders(m, h)
            /\ Entries(m2, h) = Entries(m, h)
            => Count(m2, h) = Count(m, h) - 1
         /\ /\ Holders(m2, h) = Holders(m, h) \cup {a} /\ a \notin Holders(m, h)
            /\ Entries(m2, h) = Entries(m, h)
            => Count(m2, h) = Count(m, h) + 1
<1>0. /\ Cardinality(Entries(m, h)) \in Nat /\ Cardinality(Holders(m, h)) \in Nat
      /\ IsFiniteSet(Entries(m, h)) /\ IsFiniteSet(Holders(m, h))
  BY RefSets
<1>1. ASSUME Entries(m2, h) = Entries(m, h), Holders(m2, h) = Holders(m, h)
      PROVE  Count(m2, h) = Count(m, h)
  BY <1>1 DEF Count
<1>2. ASSUME Entries(m2, h) = Entries(m, h) \ {a}, a \in Entries(m, h),
             Holders(m2, h) = Holders(m, h)
      PROVE  Count(m2, h) = Count(m, h) - 1
  <2>1. Cardinality(Entries(m2, h)) = Cardinality(Entries(m, h)) - 1
    BY <1>0, <1>2, CardMinus
  <2>2. Cardinality(Holders(m2, h)) = Cardinality(Holders(m, h))
    BY <1>2
  <2>3. QED
    BY <1>0, <2>1, <2>2 DEF Count
<1>3. ASSUME Holders(m2, h) = Holders(m, h) \ {a}, a \in Holders(m, h),
             Entries(m2, h) = Entries(m, h)
      PROVE  Count(m2, h) = Count(m, h) - 1
  <2>1. Cardinality(Holders(m2, h)) = Cardinality(Holders(m, h)) - 1
    BY <1>0, <1>3, CardMinus
  <2>2. Cardinality(Entries(m2, h)) = Cardinality(Entries(m, h))
    BY <1>3
  <2>3. QED
    BY <1>0, <2>1, <2>2 DEF Count
<1>4. ASSUME Holders(m2, h) = Holders(m, h) \cup {a}, a \notin Holders(m, h),
             Entries(m2, h) = Entries(m, h)
      PROVE  Count(m2, h) = Count(m, h) + 1
  <2>1. Cardinality(Holders(m2, h)) = Cardinality(Holders(m, h)) + 1
    BY <1>0, <1>4, CardPlus
  <2>2. Cardinality(Entries(m2, h)) = Cardinality(Entries(m, h))
    BY <1>4
  <2>3. QED
    BY <1>0, <2>1, <2>2 DEF Count
<1>5. QED
  BY <1>1, <1>2, <1>3, <1>4

-----------------------------------------------------------------------------
(* The functions on handles. *)

\* php_eio_req_destroy_hook takes a request out of php_eio_handles and gives
\* back one reference.
LEMMA HookKeeps ==
  ASSUME NEW m, MemOK(m), NEW r \in Reqs
  PROVE  LET m2 == php_eio_req_destroy_hook(m, r)
         IN  /\ MemOK(m2)
             /\ m2.table = [m.table EXCEPT ![r] = Nil]
             /\ m2.hooked = m.hooked
<1> DEFINE h == m.table[r]
           m2 == php_eio_req_destroy_hook(m, r)
<1>0. m \in Mem /\ RefsOK(m) /\ LinkOK(m)
  BY DEF MemOK
<1>1. CASE h = Nil
  <2>1. m2 = m
    BY <1>1 DEF php_eio_req_destroy_hook
  <2>2. m.table = [m.table EXCEPT ![r] = Nil]
    BY <1>0, <1>1 DEF Mem
  <2>3. QED
    BY <2>1, <2>2
<1>2. CASE h # Nil
  <2>1. h \in Handles /\ m.req[h] = r
    BY <1>0, <1>2 DEF Mem, LinkOK
  <2>2. /\ m2.table = [m.table EXCEPT ![r] = Nil]
        /\ m2.req = [m.req EXCEPT ![h] = Nil]
        /\ m2.refs = [m.refs EXCEPT ![h] = @ - 1]
        /\ m2.hooked = m.hooked /\ m2.rsrc = m.rsrc
    BY <1>0, <1>2 DEF php_eio_req_destroy_hook, php_eio_handle_release, Mem
  <2>3. /\ Entries(m2, h) = Entries(m, h) \ {r} /\ Holders(m2, h) = Holders(m, h)
        /\ \A k \in Handles \ {h} :
              Entries(m2, k) = Entries(m, k) /\ Holders(m2, k) = Holders(m, k)
    BY <1>0, <1>2, <2>2, HandleAssumption DEF Entries, Holders, Mem
  <2>4. /\ Count(m2, h) = Count(m, h) - 1
        /\ \A k \in Handles \ {h} : Count(m2, k) = Count(m, k)
    <3>1. r \in Entries(m, h)
      BY DEF Entries
    <3> HIDE DEF m2, h
    <3>2. QED
      BY <2>3, <3>1, CountStep
  <2>5. RefsOK(m2)
    BY <1>0, <2>1, <2>2, <2>4 DEF RefsOK, Mem
  <2>6. m2 \in Mem
    <3>1. m.refs[h] - 1 \in Nat
      BY <1>0, <2>1, <2>4, RefSets DEF RefsOK
    <3>2. QED
      BY <1>0, <1>2, <2>1, <3>1 DEF php_eio_req_destroy_hook, php_eio_handle_release, Mem
  <2>7. LinkOK(m2)
    BY <1>0, <2>1, <2>2, HandleAssumption DEF LinkOK, Mem
  <2>8. QED
    BY <2>2, <2>5, <2>6, <2>7 DEF MemOK
<1>3. QED
  BY <1>1, <1>2

\* php_eio_handle_dtor of a resource gives back its reference, if it has one.
LEMMA DtorKeeps ==
  ASSUME NEW m, MemOK(m), NEW x \in Rsrcs
  PROVE  LET m2 == php_eio_handle_dtor(m, x)
         IN  MemOK(m2) /\ m2.table = m.table /\ m2.hooked = m.hooked
<1> DEFINE h == m.rsrc[x]
           m2 == php_eio_handle_dtor(m, x)
<1>0. m \in Mem /\ RefsOK(m) /\ LinkOK(m)
  BY DEF MemOK
<1>1. CASE h = Nil
  BY <1>1 DEF php_eio_handle_dtor
<1>2. CASE h # Nil
  <2>1. h \in Handles
    BY <1>0, <1>2 DEF Mem
  <2>2. /\ m2.rsrc = [m.rsrc EXCEPT ![x] = Nil]
        /\ m2.refs = [m.refs EXCEPT ![h] = @ - 1]
        /\ m2.table = m.table /\ m2.req = m.req /\ m2.hooked = m.hooked
    BY <1>0, <1>2 DEF php_eio_handle_dtor, php_eio_handle_release, Mem
  <2>3. /\ Holders(m2, h) = Holders(m, h) \ {x} /\ Entries(m2, h) = Entries(m, h)
        /\ \A k \in Handles \ {h} :
              Entries(m2, k) = Entries(m, k) /\ Holders(m2, k) = Holders(m, k)
    BY <1>0, <1>2, <2>2, HandleAssumption DEF Entries, Holders, Mem
  <2>4. /\ Count(m2, h) = Count(m, h) - 1
        /\ \A k \in Handles \ {h} : Count(m2, k) = Count(m, k)
    <3>1. x \in Holders(m, h)
      BY DEF Holders
    <3> HIDE DEF m2, h
    <3>2. QED
      BY <2>3, <3>1, CountStep
  <2>5. RefsOK(m2)
    BY <1>0, <2>1, <2>2, <2>4 DEF RefsOK, Mem
  <2>6. m2 \in Mem
    <3>1. m.refs[h] - 1 \in Nat
      BY <1>0, <2>1, <2>4, RefSets DEF RefsOK
    <3>2. QED
      BY <1>0, <1>2, <2>1, <3>1 DEF php_eio_handle_dtor, php_eio_handle_release, Mem
  <2>7. LinkOK(m2)
    BY <1>0, <2>2 DEF LinkOK
  <2>8. QED
    BY <2>2, <2>5, <2>6, <2>7 DEF MemOK
<1>3. QED
  BY <1>1, <1>2

\* php_eio_register_resource gives the resource x the handle of the request,
\* which it makes at a free address h if there is none.
LEMMA RegisterKeeps ==
  ASSUME NEW m, MemOK(m), NEW r \in Reqs,
         NEW h \in Handles, m.refs[h] = 0, NEW x \in Rsrcs, m.rsrc[x] = Nil
  PROVE  LET m2 == php_eio_register_resource(m, r, h, x)
         IN  /\ MemOK(m2)
             /\ \A q \in Reqs : q # r => m2.table[q] = m.table[q]
             /\ m2.table[r] # Nil
             /\ m2.hooked = m.hooked \cup {r}
<1> DEFINE m2 == php_eio_register_resource(m, r, h, x)
           k == m.table[r]
<1>0. m \in Mem /\ RefsOK(m) /\ LinkOK(m)
  BY DEF MemOK
<1>1. CASE k # Nil
  <2>1. k \in Handles /\ r \in m.hooked
    BY <1>0, <1>1 DEF Mem, LinkOK
  <2>2. /\ m2.rsrc = [m.rsrc EXCEPT ![x] = k]
        /\ m2.refs = [m.refs EXCEPT ![k] = @ + 1]
        /\ m2.table = m.table /\ m2.req = m.req /\ m2.hooked = m.hooked
    BY <1>0, <1>1 DEF php_eio_register_resource, php_eio_handle_ref, Mem
  <2>3. /\ Holders(m2, k) = Holders(m, k) \cup {x} /\ Entries(m2, k) = Entries(m, k)
        /\ \A j \in Handles \ {k} :
              Entries(m2, j) = Entries(m, j) /\ Holders(m2, j) = Holders(m, j)
    BY <1>0, <1>1, <2>2, HandleAssumption DEF Entries, Holders, Mem
  <2>4. /\ Count(m2, k) = Count(m, k) + 1
        /\ \A j \in Handles \ {k} : Count(m2, j) = Count(m, j)
    <3>1. x \notin Holders(m, k)
      BY <1>1 DEF Holders
    <3> HIDE DEF m2, k
    <3>2. QED
      BY <2>3, <3>1, CountStep
  <2>5. RefsOK(m2)
    BY <1>0, <2>1, <2>2, <2>4 DEF RefsOK, Mem
  <2>6. m2 \in Mem
    <3> DEFINE m1 == php_eio_handle_ref(m, r, h)
    <3>1. m1 \in Mem /\ m1.table = m.table
      BY <1>0, <1>1, <2>1 DEF php_eio_handle_ref, Mem
    <3>2. m2 = [m1 EXCEPT !.rsrc[x] = m1.table[r]]
      BY DEF php_eio_register_resource
    <3> HIDE DEF m1, m2
    <3>3. QED
      BY <2>1, <3>1, <3>2 DEF Mem
  <2>7. LinkOK(m2)
    BY <1>0, <2>2 DEF LinkOK
  <2>8. m2.hooked = m.hooked \cup {r}
    BY <2>1, <2>2
  <2>9. QED
    BY <1>1, <2>2, <2>5, <2>6, <2>7, <2>8 DEF MemOK
<1>2. CASE k = Nil
  <2>1. Entries(m, h) = {} /\ Holders(m, h) = {} /\ m.req[h] = Nil
    BY NoRefs
  <2>2. /\ m2.rsrc = [m.rsrc EXCEPT ![x] = h]
        /\ m2.refs = [m.refs EXCEPT ![h] = 2]
        /\ m2.table = [m.table EXCEPT ![r] = h]
        /\ m2.req = [m.req EXCEPT ![h] = r]
        /\ m2.hooked = m.hooked \cup {r}
    BY <1>0, <1>2 DEF php_eio_register_resource, php_eio_handle_ref, Mem
  <2>3. /\ Holders(m2, h) = {x} /\ Entries(m2, h) = {r}
        /\ \A j \in Handles \ {h} :
              Entries(m2, j) = Entries(m, j) /\ Holders(m2, j) = Holders(m, j)
    BY <1>0, <1>2, <2>1, <2>2, HandleAssumption DEF Entries, Holders, Mem
  <2>4. /\ Count(m2, h) = 2
        /\ \A j \in Handles \ {h} : Count(m2, j) = Count(m, j)
    <3> HIDE DEF m2, k
    <3>1. Cardinality(Holders(m2, h)) = 1 /\ Cardinality(Entries(m2, h)) = 1
      BY <2>3, FS_Singleton
    <3>2. Count(m2, h) = 2
      BY <3>1 DEF Count
    <3>3. QED
      BY <2>3, <3>2, CountStep
  <2>5. RefsOK(m2)
    BY <1>0, <2>2, <2>4 DEF RefsOK, Mem
  <2>6. m2 \in Mem
    BY <1>0, <1>2 DEF php_eio_register_resource, php_eio_handle_ref, Mem
  <2>7. LinkOK(m2)
    <3>1. \A q \in Reqs : m.table[q] # h
      BY <2>1 DEF Entries
    <3> HIDE DEF m2
    <3>2. QED
      BY <1>0, <1>2, <2>1, <2>2, <3>1, HandleAssumption DEF LinkOK, Mem
  <2>8. QED
    BY <1>0, <2>2, <2>5, <2>6, <2>7, HandleAssumption DEF MemOK, Mem
<1>3. QED
  BY <1>1, <1>2

\* REQ clears the destroy function of a request that is in no handle.
LEMMA UnhookKeeps ==
  ASSUME NEW m, MemOK(m), NEW r \in Reqs, m.table[r] = Nil
  PROVE  LET m2 == [m EXCEPT !.hooked = @ \ {r}]
         IN  /\ MemOK(m2) /\ m2.table = m.table /\ m2.refs = m.refs /\ m2.rsrc = m.rsrc
             /\ m2.hooked = m.hooked \ {r}
<1> DEFINE m2 == [m EXCEPT !.hooked = @ \ {r}]
<1>1. /\ m2.table = m.table /\ m2.refs = m.refs /\ m2.rsrc = m.rsrc /\ m2.req = m.req
      /\ m2.hooked = m.hooked \ {r} /\ m2 \in Mem
  BY DEF MemOK, Mem
<1> HIDE DEF m2
<1>2. RefsOK(m2)
  BY <1>1 DEF MemOK, RefsOK, Count, Entries, Holders
<1>3. LinkOK(m2)
  BY <1>1 DEF MemOK, LinkOK
<1>4. QED
  BY <1>1, <1>2, <1>3 DEF MemOK, m2

\* php_eio_handles_reset gives back all references of php_eio_handles.
LEMMA ResetKeeps ==
  ASSUME NEW m, MemOK(m)
  PROVE  LET m2 == php_eio_handles_reset(m)
         IN  /\ MemOK(m2)
             /\ \A r \in Reqs : m2.table[r] = Nil
             /\ \A r \in Reqs : r \in m2.hooked => m.table[r] = Nil /\ r \in m.hooked
<1> DEFINE m2 == php_eio_handles_reset(m)
           tabled == {r \in Reqs : m.table[r] # Nil}
           here(h) == {r \in tabled : m.table[r] = h}
<1>0. m \in Mem /\ RefsOK(m) /\ LinkOK(m)
  BY DEF MemOK
<1>1. /\ m2.table = [r \in Reqs |-> Nil] /\ m2.rsrc = m.rsrc
      /\ m2.refs = [h \in Handles |-> m.refs[h] - Cardinality(here(h))]
      /\ m2.hooked = m.hooked \ {r \in tabled : m.req[m.table[r]] # Nil}
      /\ m2.req = [h \in Handles |->
                      IF \E r \in tabled : m.table[r] = h THEN Nil ELSE m.req[h]]
  BY <1>0 DEF php_eio_handles_reset, Mem
<1>2. \A h \in Handles : here(h) = Entries(m, h) /\ Entries(m2, h) = {}
                          /\ Holders(m2, h) = Holders(m, h)
  BY <1>1, HandleAssumption DEF Entries, Holders
<1>3. \A h \in Handles : Count(m, h) = Cardinality(here(h)) + Count(m2, h)
  <2> SUFFICES ASSUME NEW h \in Handles
               PROVE  Count(m, h) = Cardinality(here(h)) + Count(m2, h)
    OBVIOUS
  <2> HIDE DEF m2, here
  <2>1. Cardinality(Entries(m2, h)) = 0
    BY <1>2, FS_EmptySet
  <2>2. Cardinality(Holders(m2, h)) \in Nat /\ Cardinality(Holders(m2, h)) = Cardinality(Holders(m, h))
        /\ Cardinality(here(h)) = Cardinality(Entries(m, h)) /\ Cardinality(here(h)) \in Nat
    BY <1>2, RefSets
  <2>3. QED
    BY <2>1, <2>2 DEF Count
<1>4. \A h \in Handles : m2.refs[h] = Count(m2, h) /\ Count(m2, h) \in Nat
  <2> SUFFICES ASSUME NEW h \in Handles
               PROVE  m2.refs[h] = Count(m2, h) /\ Count(m2, h) \in Nat
    OBVIOUS
  <2>1. Cardinality(here(h)) \in Nat /\ Count(m2, h) \in Nat
    BY <1>2, RefSets
  <2>2. m2.refs[h] = m.refs[h] - Cardinality(here(h)) /\ m.refs[h] = Count(m, h)
    BY <1>0, <1>1 DEF RefsOK
  <2> HIDE DEF m2, here
  <2>3. QED
    BY <1>3, <2>1, <2>2
<1>5. m2 \in Mem
  <2>1. m2.refs \in [Handles -> Nat]
    <3> HIDE DEF m2
    <3>1. QED
      BY <1>1, <1>4
  <2>2. QED
    BY <1>0, <1>1, <2>1, HandleAssumption DEF php_eio_handles_reset, Mem
<1>6. \A r \in tabled : m.req[m.table[r]] = r
  BY <1>0 DEF LinkOK
<1>7. \A h \in Handles : m2.req[h] = Nil
  <2> HIDE DEF m2
  <2>1. QED
    BY <1>0, <1>1, HandleAssumption DEF LinkOK, Mem
<1> HIDE DEF m2
<1>8. LinkOK(m2)
  BY <1>1, <1>7 DEF LinkOK
<1>9. \A r \in Reqs : r \in m2.hooked => m.table[r] = Nil /\ r \in m.hooked
  BY <1>1, <1>6, HandleAssumption
<1>10. \A r \in Reqs : m2.table[r] = Nil
  BY <1>1
<1>11. QED
  BY <1>4, <1>5, <1>8, <1>9, <1>10 DEF MemOK, RefsOK, m2

-----------------------------------------------------------------------------
(* Every step keeps the invariant about handles. *)

\* eio_destroy, in a memory m in which only references have gone.
LEMMA DestroyStep ==
  ASSUME HandleInv, NEW m, MemOK(m), m.table = mem.table, m.hooked = mem.hooked,
         NEW r \in Reqs, Destroy(m, r)
  PROVE  MemOK(mem') /\ st' \in [Reqs -> States] /\ AliveOK'
<1>0. st \in [Reqs -> States] /\ AliveOK /\ m \in Mem /\ LinkOK(m)
  BY DEF HandleInv, TypeOK, MemOK
<1>1. /\ st' = [st EXCEPT ![r] = st'[r]] /\ st'[r] \in {"free", "lost"}
      /\ st' \in [Reqs -> States]
  BY <1>0 DEF Destroy, States
<1>2. MemOK(mem') /\ mem'.table = [mem.table EXCEPT ![r] = Nil] /\ mem'.hooked = mem.hooked
  <2>1. CASE r \in m.hooked
    BY <2>1, HookKeeps DEF Destroy
  <2>2. CASE r \notin m.hooked
    <3>1. mem' = m
      BY <2>2 DEF Destroy
    <3>2. m.table[r] = Nil
      BY <1>0, <2>2 DEF LinkOK
    <3>3. m.table = [m.table EXCEPT ![r] = Nil]
      BY <1>0, <3>2 DEF Mem
    <3>4. QED
      BY <3>1, <3>3
  <2>3. QED
    BY <2>1, <2>2
<1>3. AliveOK'
  <2> SUFFICES ASSUME NEW q \in Reqs
               PROVE  /\ mem'.table[q] # Nil => st'[q] \in {"pool", "cb"}
                      /\ st'[q] \in {"pool", "cb"} /\ q \in mem'.hooked => mem'.table[q] # Nil
    BY DEF AliveOK
  <2>1. mem.table \in [Reqs -> Handles \cup {Nil}]
    BY <1>0 DEF Mem
  <2>2. CASE q = r
    BY <1>1, <1>2, <2>1, <2>2
  <2>3. CASE q # r
    <3>1. mem'.table[q] = mem.table[q] /\ st'[q] = st[q]
      BY <1>0, <1>1, <1>2, <2>1, <2>3
    <3>2. QED
      BY <1>0, <1>2, <3>1 DEF AliveOK
  <2>4. QED
    BY <2>2, <2>3
<1>4. QED
  BY <1>1, <1>2, <1>3

\* A request that is submitted, or called back, has a handle and is hooked.
LEMMA RegisterStep ==
  ASSUME HandleInv, NEW m, MemOK(m), m.table = mem.table,
         NEW r \in Reqs, \A q \in Reqs : q # r => (q \in m.hooked <=> q \in mem.hooked),
         NEW h \in Handles, FreeHandle(m, h), NEW x \in Rsrcs, FreeRsrc(m, x),
         mem' = php_eio_register_resource(m, r, h, x),
         NEW s \in {"pool", "cb"}, st' = [st EXCEPT ![r] = s]
  PROVE  MemOK(mem') /\ st' \in [Reqs -> States] /\ AliveOK'
<1>0. st \in [Reqs -> States] /\ AliveOK
  BY DEF HandleInv, TypeOK
<1>1. /\ MemOK(mem') /\ mem'.table[r] # Nil
      /\ \A q \in Reqs : q # r => mem'.table[q] = mem.table[q]
      /\ mem'.hooked = m.hooked \cup {r}
  BY RegisterKeeps DEF FreeHandle, FreeRsrc
<1>2. AliveOK'
  <2> SUFFICES ASSUME NEW q \in Reqs
               PROVE  /\ mem'.table[q] # Nil => st'[q] \in {"pool", "cb"}
                      /\ st'[q] \in {"pool", "cb"} /\ q \in mem'.hooked => mem'.table[q] # Nil
    BY DEF AliveOK
  <2>1. CASE q = r
    BY <1>0, <1>1, <2>1
  <2>2. CASE q # r
    <3>1. mem'.table[q] = mem.table[q] /\ st'[q] = st[q]
          /\ (q \in mem'.hooked <=> q \in mem.hooked)
      BY <1>0, <1>1, <2>2
    <3>2. QED
      BY <1>0, <3>1 DEF AliveOK
  <2>3. QED
    BY <2>1, <2>2
<1>3. QED
  BY <1>0, <1>1, <1>2 DEF States

\* Every step keeps HandleInv, whatever the callbacks cancel.
LEMMA HandleStep == HandleInv /\ [Next]_vars => HandleInv'
<1> SUFFICES ASSUME HandleInv, [Next]_vars PROVE HandleInv'
  OBVIOUS
<1> DEFINE Frame == [req : Reqs, cb : Cbs, rsrc : Rsrcs]
<1>0. TypeOK /\ MemOK(mem) /\ AliveOK
  BY DEF HandleInv
<1>t. ASSUME MemOK(mem'), st' \in [Reqs -> States], AliveOK',
             cancelled' \in [Reqs -> BOOLEAN], data' \in [Reqs -> Cbs \cup {Nil}],
             cbs' \subseteq Cbs, stack' \in Seq(Frame), passed' \subseteq Cbs
      PROVE  HandleInv'
  BY <1>t DEF HandleInv, TypeOK, MemOK
<1>1. ASSUME NEW r \in Reqs, NEW c \in Cbs \cup {Nil}, NEW h \in Handles, NEW x \in Rsrcs,
             Submit(r, c, h, x)
      PROVE  HandleInv'
  <2> DEFINE m == [mem EXCEPT !.hooked = @ \ {r}]
  <2>1. mem.table[r] = Nil
    BY <1>0, <1>1 DEF Submit, AliveOK
  <2>2. /\ MemOK(m) /\ m.table = mem.table /\ m.hooked = mem.hooked \ {r}
        /\ m.refs = mem.refs /\ m.rsrc = mem.rsrc
    BY <1>0, <2>1, UnhookKeeps
  <2>3. mem' = php_eio_register_resource(m, r, h, x) /\ st' = [st EXCEPT ![r] = "pool"]
    BY <1>1 DEF Submit
  <2>4. /\ cancelled' \in [Reqs -> BOOLEAN] /\ data' \in [Reqs -> Cbs \cup {Nil}]
        /\ cbs' \subseteq Cbs /\ stack' \in Seq(Frame) /\ passed' \subseteq Cbs
    BY <1>0, <1>1 DEF Submit, TypeOK
  <2>5. FreeHandle(m, h) /\ FreeRsrc(m, x)
    <3> HIDE DEF m
    <3>1. QED
      BY <1>1, <2>2 DEF Submit, FreeHandle, FreeRsrc
  <2> HIDE DEF m, Frame
  <2>6. MemOK(mem') /\ st' \in [Reqs -> States] /\ AliveOK'
    BY <2>2, <2>3, <2>5, RegisterStep
  <2>7. QED
    BY <1>t, <2>4, <2>6
<1>2. ASSUME NEW r \in Reqs, FinishQuietly(r)
      PROVE  HandleInv'
  <2>1. MemOK(mem') /\ st' \in [Reqs -> States] /\ AliveOK'
    BY <1>0, <1>2, DestroyStep DEF FinishQuietly
  <2>2. /\ cancelled' \in [Reqs -> BOOLEAN] /\ data' \in [Reqs -> Cbs \cup {Nil}]
        /\ cbs' \subseteq Cbs /\ stack' \in Seq(Frame) /\ passed' \subseteq Cbs
    BY <1>0, <1>2 DEF FinishQuietly, TypeOK
  <2> HIDE DEF Frame
  <2>3. QED
    BY <1>t, <2>1, <2>2
<1>3. ASSUME NEW r \in Reqs, NEW h \in Handles, NEW x \in Rsrcs, php_eio_res_cb(r, h, x)
      PROVE  HandleInv'
  <2>1. MemOK(mem') /\ st' \in [Reqs -> States] /\ AliveOK'
    BY <1>0, <1>3, RegisterStep DEF php_eio_res_cb
  <2>2. [req |-> r, cb |-> data[r], rsrc |-> x] \in Frame
    BY <1>0, <1>3 DEF php_eio_res_cb, TypeOK
  <2>3. /\ cancelled' \in [Reqs -> BOOLEAN] /\ data' \in [Reqs -> Cbs \cup {Nil}]
        /\ cbs' \subseteq Cbs /\ stack \in Seq(Frame) /\ passed' \subseteq Cbs
        /\ stack' = <<[req |-> r, cb |-> data[r], rsrc |-> x]>> \o stack
    BY <1>0, <1>3 DEF php_eio_res_cb, TypeOK
  <2> HIDE DEF Frame
  <2>4. stack' \in Seq(Frame)
    BY <2>2, <2>3
  <2>5. QED
    BY <1>t, <2>1, <2>3, <2>4
<1>4. ASSUME NEW keep \in BOOLEAN, CallbackReturn(keep)
      PROVE  HandleInv'
  <2> DEFINE f == Head(stack)
             m == IF keep THEN mem ELSE php_eio_handle_dtor(mem, f.rsrc)
  <2>1. f \in Frame /\ Tail(stack) \in Seq(Frame)
    <3>1. stack \in Seq(Frame) /\ stack # <<>>
      BY <1>0, <1>4 DEF CallbackReturn, TypeOK
    <3> HIDE DEF Frame
    <3>2. QED
      BY <3>1
  <2>2. MemOK(m) /\ m.table = mem.table /\ m.hooked = mem.hooked
    BY <1>0, <2>1, DtorKeeps
  <2>3. Destroy(m, f.req) /\ f.req \in Reqs
    BY <1>4, <2>1 DEF CallbackReturn
  <2>4. /\ cancelled' \in [Reqs -> BOOLEAN] /\ data' \in [Reqs -> Cbs \cup {Nil}]
        /\ cbs' \subseteq Cbs /\ stack' \in Seq(Frame) /\ passed' \subseteq Cbs
    BY <1>0, <1>4, <2>1 DEF CallbackReturn, TypeOK
  <2> HIDE DEF m, f, Frame
  <2>5. MemOK(mem') /\ st' \in [Reqs -> States] /\ AliveOK'
    BY <2>2, <2>3, DestroyStep
  <2>6. QED
    BY <1>t, <2>4, <2>5
<1>5. ASSUME NEW x \in Rsrcs, eio_cancel(x)
      PROVE  HandleInv'
  <2>1. UNCHANGED <<st, mem, stack, passed>>
    BY <1>5 DEF eio_cancel
  <2>2. /\ cancelled' \in [Reqs -> BOOLEAN] /\ data' \in [Reqs -> Cbs \cup {Nil}]
        /\ cbs' \subseteq Cbs
    BY <1>0, <1>5 DEF eio_cancel, TypeOK
  <2>3. QED
    BY <1>0, <2>1, <2>2 DEF HandleInv, TypeOK, AliveOK
<1>6. ASSUME NEW x \in Rsrcs, Unset(x)
      PROVE  HandleInv'
  <2>1. MemOK(mem') /\ mem'.table = mem.table /\ mem'.hooked = mem.hooked
    BY <1>0, <1>6, DtorKeeps DEF Unset
  <2>2. UNCHANGED <<st, cancelled, data, cbs, stack, passed>>
    BY <1>6 DEF Unset
  <2>3. QED
    BY <1>0, <2>1, <2>2 DEF HandleInv, TypeOK, AliveOK, MemOK
<1>7. ASSUME php_eio_atfork_child
      PROVE  HandleInv'
  <2>1. /\ MemOK(mem') /\ \A r \in Reqs : mem'.table[r] = Nil
        /\ \A r \in Reqs : r \in mem'.hooked => mem.table[r] = Nil /\ r \in mem.hooked
    BY <1>0, <1>7, ResetKeeps DEF php_eio_atfork_child
  <2>2. /\ st' = [r \in Reqs |-> IF st[r] = "pool" THEN "lost" ELSE st[r]]
        /\ UNCHANGED <<cancelled, data, cbs, stack, passed>>
    BY <1>7 DEF php_eio_atfork_child
  <2>3. st' \in [Reqs -> States]
    BY <1>0, <2>2 DEF TypeOK, States
  <2>4. AliveOK'
    BY <1>0, <2>1, <2>2 DEF AliveOK
  <2>5. QED
    BY <1>0, <2>1, <2>2, <2>3, <2>4 DEF HandleInv, TypeOK, MemOK
<1>8. CASE UNCHANGED vars
  BY <1>0, <1>8 DEF vars, HandleInv, TypeOK, AliveOK
<1>9. ASSUME NEW S \in SUBSET Reqs, eio_grp_cancel(S)
      PROVE  HandleInv'
  <2>1. UNCHANGED <<st, mem, stack, data, cbs>>
    BY <1>9 DEF eio_grp_cancel
  <2>2. cancelled' \in [Reqs -> BOOLEAN]
    BY <1>0, <1>9 DEF eio_grp_cancel, TypeOK
  <2>3. passed' \subseteq Cbs
    BY <1>0, <1>9 DEF eio_grp_cancel, TypeOK
  <2>4. QED
    BY <1>0, <2>1, <2>2, <2>3 DEF HandleInv, TypeOK, AliveOK
<1>10. QED
  BY <1>1, <1>2, <1>3, <1>4, <1>5, <1>6, <1>7, <1>8, <1>9 DEF Next

-----------------------------------------------------------------------------
(* Every step keeps the invariant about callback records. *)

\* A request that is gone has no record, and one that is cancelled has none
\* unless eio_grp_cancel did that; the requests of the running callbacks are in
\* their callback, and each in one.
OwnerOK ==
    /\ \A r \in Reqs : st[r] = "free" => data[r] = Nil
    /\ \A r \in Reqs : cancelled[r] => data[r] \in passed \cup {Nil}
    /\ \A i \in 1..Len(stack) : st[stack[i].req] = "cb"
    /\ \A i, j \in 1..Len(stack) : stack[i].req = stack[j].req => i = j

CbInv == TypeOK /\ CbOwned /\ OwnerOK

\* What CbOwned says of the records, for any owners.
Owned(d, c, p) ==
    /\ \A r \in Reqs : d[r] # Nil => d[r] \in c
    /\ \A k \in c : k \in p \/ \E r \in Reqs : d[r] = k
    /\ \A r1, r2 \in Reqs : d[r1] = d[r2] /\ d[r1] # Nil => r1 = r2

\* CbOwned is Owned, and every callback has its record.
LEMMA OwnedDef ==
  /\ CbOwned <=> Owned(data, cbs, passed)
                    /\ \A i \in 1..Len(stack) : data[stack[i].req] = stack[i].cb
  /\ CbOwned' <=> Owned(data', cbs', passed')
                    /\ \A i \in 1..Len(stack') : data'[stack'[i].req] = stack'[i].cb
BY DEF CbOwned, Owned

\* The record of a request is freed and its data cleared: nobody else has it.
LEMMA FreeRecord ==
  ASSUME TypeOK, Owned(data, cbs, passed), NEW r \in Reqs, data' = [data EXCEPT ![r] = Nil],
         cbs' = cbs \ {data[r]} \/ (cbs' = cbs /\ data[r] \in passed \cup {Nil}), passed' = passed
  PROVE  Owned(data', cbs', passed')
<1>1. \A q \in Reqs : data'[q] = IF q = r THEN Nil ELSE data[q]
  BY DEF TypeOK
<1>2. QED
  BY <1>1 DEF Owned

\* Every step keeps CbInv, if no callback cancels its own request.
LEMMA CbStep ==
  ASSUME CbInv, TypeOK', ~CancelOwn, mem \in Mem, [Next]_vars
  PROVE  CbInv'
<1>0. TypeOK /\ CbOwned /\ OwnerOK
  BY DEF CbInv
<1>a. /\ st \in [Reqs -> States] /\ cancelled \in [Reqs -> BOOLEAN]
      /\ data \in [Reqs -> Cbs \cup {Nil}] /\ cbs \subseteq Cbs
      /\ stack \in Seq([req : Reqs, cb : Cbs, rsrc : Rsrcs])
      /\ \A i \in 1..Len(stack) : stack[i].req \in Reqs /\ stack[i].cb \in Cbs
  <2> DEFINE Frame == [req : Reqs, cb : Cbs, rsrc : Rsrcs]
  <2>1. \A f \in Frame : f.req \in Reqs /\ f.cb \in Cbs
    OBVIOUS
  <2>2. stack \in Seq(Frame)
    BY <1>0 DEF TypeOK
  <2>3. \A i \in 1..Len(stack) : stack[i] \in Frame
    <3> HIDE DEF Frame
    <3>1. QED
      BY <2>2
  <2>4. \A i \in 1..Len(stack) : stack[i].req \in Reqs /\ stack[i].cb \in Cbs
    BY <2>1, <2>3
  <2>5. QED
    BY <1>0, <2>2, <2>4 DEF TypeOK
<1>b. Owned(data, cbs, passed)
  BY <1>0, OwnedDef
<1>1. ASSUME NEW r \in Reqs, NEW c \in Cbs \cup {Nil}, NEW h \in Handles, NEW x \in Rsrcs,
             Submit(r, c, h, x)
      PROVE  CbInv'
  <2>1. data[r] = Nil /\ st[r] = "free"
    BY <1>0, <1>1 DEF Submit, OwnerOK
  <2>2. /\ data' = [data EXCEPT ![r] = c] /\ st' = [st EXCEPT ![r] = "pool"]
        /\ cancelled' = [cancelled EXCEPT ![r] = FALSE]
    BY <1>1 DEF Submit
  <2>3. \A i \in 1..Len(stack) : stack[i].req # r
    BY <1>0, <2>1 DEF OwnerOK
  <2>4. /\ cbs' = cbs \cup ({c} \ {Nil}) /\ c \notin cbs /\ passed' = passed \ {c}
        /\ stack' = stack
    BY <1>1 DEF Submit
  <2>5. \A q \in Reqs : data'[q] = IF q = r THEN c ELSE data[q]
    BY <1>a, <2>2
  <2>6. Owned(data', cbs', passed')
    <3>1. \A q \in Reqs : data'[q] # Nil => data'[q] \in cbs'
      BY <1>b, <2>4, <2>5 DEF Owned
    <3>2. ASSUME NEW k \in cbs' PROVE k \in passed' \/ \E q \in Reqs : data'[q] = k
      <4>1. CASE k = c
        BY <2>5, <4>1
      <4>2. CASE k # c
        <5>1. k \in cbs /\ (k \in passed => k \in passed')
          BY <2>4, <3>2, <4>2
        <5>2. CASE k \in passed
          BY <5>1, <5>2
        <5>3. ASSUME NEW q \in Reqs, data[q] = k PROVE k \in passed' \/ \E z \in Reqs : data'[z] = k
          <6>1. q # r
            BY <1>a, <2>1, <5>1, <5>3, HandleAssumption
          <6>2. QED
            BY <2>5, <5>3, <6>1
        <5>4. QED
          BY <1>b, <5>1, <5>2, <5>3 DEF Owned
      <4>3. QED
        BY <4>1, <4>2
    <3>3. \A r1, r2 \in Reqs : data'[r1] = data'[r2] /\ data'[r1] # Nil => r1 = r2
      BY <1>b, <2>4, <2>5 DEF Owned
    <3>4. QED
      BY <3>1, <3>2, <3>3 DEF Owned
  <2>7. \A i \in 1..Len(stack') : data'[stack'[i].req] = stack'[i].cb
    BY <1>0, <1>a, <2>2, <2>3, <2>4 DEF CbOwned
  <2>8. OwnerOK'
    <3>1. \A q \in Reqs : cancelled'[q] => data'[q] \in passed' \cup {Nil}
      <4> SUFFICES ASSUME NEW q \in Reqs, cancelled'[q] PROVE data'[q] \in passed' \cup {Nil}
        OBVIOUS
      <4>1. q # r /\ data'[q] = data[q] /\ cancelled[q]
        BY <1>a, <2>2, <2>5
      <4>2. data[q] # Nil => data[q] # c
        BY <1>b, <2>4 DEF Owned
      <4>3. QED
        BY <1>0, <2>4, <4>1, <4>2 DEF OwnerOK
    <3>2. QED
      BY <1>0, <1>a, <2>2, <2>3, <2>4, <2>5, <3>1 DEF OwnerOK
  <2>9. QED
    BY <2>6, <2>7, <2>8, OwnedDef DEF CbInv
<1>2. ASSUME NEW r \in Reqs, FinishQuietly(r)
      PROVE  CbInv'
  <2>1. st[r] = "pool" /\ stack' = stack /\ cancelled' = cancelled /\ passed' = passed
        /\ data' = [data EXCEPT ![r] = Nil]
    BY <1>2 DEF FinishQuietly
  <2>2. /\ \A q \in Reqs : q # r => st'[q] = st[q]
        /\ \A q \in Reqs : data'[q] = IF q = r THEN Nil ELSE data[q]
    <3>1. \A q \in Reqs : q # r => st'[q] = st[q]
      BY <1>a, <1>2 DEF FinishQuietly, Destroy
    <3>2. QED
      BY <1>a, <2>1, <3>1
  <2>3. \A i \in 1..Len(stack) : stack[i].req # r
    BY <1>0, <2>1 DEF OwnerOK
  <2>4. cbs' = cbs \ {data[r]} \/ (cbs' = cbs /\ data[r] \in passed \cup {Nil})
    BY <1>0, <1>2 DEF FinishQuietly, OwnerOK
  <2>5. Owned(data', cbs', passed')
    BY <1>0, <1>b, <2>1, <2>4, FreeRecord
  <2>6. \A i \in 1..Len(stack') : data'[stack'[i].req] = stack'[i].cb
    BY <1>0, <1>a, <2>1, <2>2, <2>3 DEF CbOwned
  <2>7. OwnerOK'
    BY <1>0, <1>a, <2>1, <2>2, <2>3 DEF OwnerOK
  <2>8. QED
    BY <2>5, <2>6, <2>7, OwnedDef DEF CbInv
<1>3. ASSUME NEW r \in Reqs, NEW h \in Handles, NEW x \in Rsrcs, php_eio_res_cb(r, h, x)
      PROVE  CbInv'
  <2> DEFINE f == [req |-> r, cb |-> data[r], rsrc |-> x]
  <2>1. /\ st[r] = "pool" /\ stack' = <<f>> \o stack /\ UNCHANGED <<cancelled, data, cbs, passed>>
        /\ st' = [st EXCEPT ![r] = "cb"]
    BY <1>3 DEF php_eio_res_cb
  <2>2. \A i \in 1..Len(stack) : stack[i].req # r
    BY <1>0, <2>1 DEF OwnerOK
  <2>3. /\ Len(stack') = Len(stack) + 1 /\ stack'[1] = f /\ Len(stack) \in Nat
        /\ \A i \in 1..Len(stack') : i # 1 => i - 1 \in 1..Len(stack) /\ stack'[i] = stack[i - 1]
    BY <1>a, <2>1
  <2>4. f.req = r /\ f.cb = data[r]
    OBVIOUS
  <2> HIDE DEF f
  <2>5. \A i \in 1..Len(stack') : data'[stack'[i].req] = stack'[i].cb
    BY <1>0, <2>1, <2>3, <2>4 DEF CbOwned
  <2>6. \A i \in 1..Len(stack') : st'[stack'[i].req] = "cb"
    BY <1>0, <1>a, <2>1, <2>2, <2>3, <2>4 DEF OwnerOK
  <2>7. \A i, j \in 1..Len(stack') : stack'[i].req = stack'[j].req => i = j
    <3>1. \A i, j \in 1..Len(stack) : stack[i].req = stack[j].req => i = j
      BY <1>0 DEF OwnerOK
    <3>2. QED
      BY <2>2, <2>3, <2>4, <3>1
  <2>8. \A q \in Reqs : /\ st'[q] = "free" => data'[q] = Nil
                        /\ cancelled'[q] => data'[q] \in passed' \cup {Nil}
    BY <1>0, <1>a, <2>1 DEF OwnerOK
  <2>9. QED
    BY <1>0, <2>1, <2>5, <2>6, <2>7, <2>8 DEF CbInv, CbOwned, OwnerOK
<1>4. ASSUME NEW keep \in BOOLEAN, CallbackReturn(keep)
      PROVE  CbInv'
  <2> DEFINE r == stack[1].req
  <2>1. /\ Len(stack) \in Nat /\ Len(stack) >= 1 /\ Head(stack) = stack[1]
        /\ Len(stack') = Len(stack) - 1
        /\ \A i \in 1..Len(stack') : i + 1 \in 1..Len(stack) /\ stack'[i] = stack[i + 1]
    BY <1>a, <1>4 DEF CallbackReturn
  <2>2. r \in Reqs /\ data[r] = stack[1].cb
    BY <1>0, <1>a, <2>1 DEF CbOwned
  <2>3. /\ data' = [data EXCEPT ![r] = Nil] /\ cbs' = cbs \ {data[r]}
        /\ UNCHANGED <<cancelled, passed>>
    BY <1>4, <2>1, <2>2 DEF CallbackReturn
  <2>4. \A q \in Reqs : q # r => st'[q] = st[q]
    BY <1>a, <1>4, <2>1 DEF CallbackReturn, Destroy
  <2> HIDE DEF r
  <2>5. Owned(data', cbs', passed')
    BY <1>0, <1>b, <2>2, <2>3, FreeRecord
  <2>6. \A q \in Reqs : data'[q] = IF q = r THEN Nil ELSE data[q]
    BY <1>a, <2>3
  <2>7. \A i \in 1..Len(stack') : stack'[i].req # r /\ stack'[i].req \in Reqs
    BY <1>0, <1>a, <2>1 DEF OwnerOK, r
  <2>8. \A i \in 1..Len(stack') : data'[stack'[i].req] = stack'[i].cb
    BY <1>0, <2>1, <2>6, <2>7 DEF CbOwned
  <2>9. \A i \in 1..Len(stack') : st'[stack'[i].req] = "cb"
    BY <1>0, <2>1, <2>4, <2>7 DEF OwnerOK
  <2>10. \A i, j \in 1..Len(stack') : stack'[i].req = stack'[j].req => i = j
    BY <1>0, <2>1 DEF OwnerOK
  <2>11. \A q \in Reqs : /\ st'[q] = "free" => data'[q] = Nil
                         /\ cancelled'[q] => data'[q] \in passed' \cup {Nil}
    BY <1>0, <2>3, <2>4, <2>6 DEF OwnerOK
  <2>12. QED
    BY <2>5, <2>8, <2>9, <2>10, <2>11, OwnedDef DEF CbInv, OwnerOK
<1>5. ASSUME NEW x \in Rsrcs, eio_cancel(x)
      PROVE  CbInv'
  <2> DEFINE r == mem.req[mem.rsrc[x]]
  <2>1. /\ r \in Reqs /\ st[r] # "cb" /\ UNCHANGED <<st, stack, passed>>
        /\ data' = [data EXCEPT ![r] = Nil] /\ cbs' = cbs \ {data[r]}
        /\ cancelled' = [cancelled EXCEPT ![r] = TRUE]
    BY <1>5 DEF eio_cancel, Mem
  <2> HIDE DEF r
  <2>2. Owned(data', cbs', passed')
    BY <1>0, <1>b, <2>1, FreeRecord
  <2>3. \A q \in Reqs : q # r => data'[q] = data[q] /\ cancelled'[q] = cancelled[q]
    BY <1>a, <2>1
  <2>4. \A i \in 1..Len(stack) : stack[i].req # r
    BY <1>0, <2>1 DEF OwnerOK
  <2>5. \A i \in 1..Len(stack') : data'[stack'[i].req] = stack'[i].cb
    BY <1>0, <1>a, <2>1, <2>3, <2>4 DEF CbOwned
  <2>6. data'[r] = Nil
    BY <1>a, <2>1
  <2>7. OwnerOK'
    BY <1>0, <2>1, <2>3, <2>6 DEF OwnerOK
  <2>8. QED
    BY <2>2, <2>5, <2>7, OwnedDef DEF CbInv
<1>6. ASSUME NEW x \in Rsrcs, Unset(x)
      PROVE  CbInv'
  BY <1>0, <1>6 DEF Unset, CbInv, CbOwned, OwnerOK
<1>7. ASSUME php_eio_atfork_child
      PROVE  CbInv'
  <2>1. /\ UNCHANGED <<cancelled, data, cbs, stack, passed>>
        /\ \A q \in Reqs : st'[q] = IF st[q] = "pool" THEN "lost" ELSE st[q]
    BY <1>7 DEF php_eio_atfork_child
  <2>2. OwnerOK'
    BY <1>0, <1>a, <2>1 DEF OwnerOK
  <2>3. QED
    BY <1>0, <2>1, <2>2 DEF CbInv, CbOwned
<1>8. CASE UNCHANGED vars
  BY <1>0, <1>8 DEF vars, CbInv, CbOwned, OwnerOK
<1>9. ASSUME NEW S \in SUBSET Reqs, eio_grp_cancel(S)
      PROVE  CbInv'
  <2>1. UNCHANGED <<st, data, cbs, stack>> /\ passed \subseteq passed'
    BY <1>9 DEF eio_grp_cancel
  <2>2. \A q \in Reqs : cancelled'[q] => data[q] \in passed' \cup {Nil}
    BY <1>0, <1>9 DEF eio_grp_cancel, OwnerOK
  <2>3. Owned(data', cbs', passed')
    BY <1>b, <2>1 DEF Owned
  <2>4. OwnerOK'
    BY <1>0, <2>1, <2>2 DEF OwnerOK
  <2>5. QED
    BY <1>0, <2>1, <2>3, <2>4, OwnedDef DEF CbInv
<1>10. QED
  BY <1>1, <1>2, <1>3, <1>4, <1>5, <1>6, <1>7, <1>8, <1>9 DEF Next

-----------------------------------------------------------------------------
(* The theorems. *)

\* The initial state satisfies both invariants.
LEMMA InitInv == Init => HandleInv /\ CbInv
<1> SUFFICES ASSUME Init PROVE HandleInv /\ CbInv
  OBVIOUS
<1>1. TypeOK
  BY DEF Init, TypeOK, States, Mem
<1>2. \A h \in Handles : Entries(mem, h) = {} /\ Holders(mem, h) = {} /\ mem.refs[h] = 0
  BY HandleAssumption DEF Init, Entries, Holders
<1>3. RefsOK(mem)
  <2>1. \A h \in Handles : Count(mem, h) = 0
    BY <1>2, FS_EmptySet DEF Count
  <2>2. QED
    BY <1>2, <2>1 DEF RefsOK
<1>4. LinkOK(mem) /\ AliveOK
  BY DEF Init, LinkOK, AliveOK
<1>5. CbOwned /\ OwnerOK
  BY DEF Init, CbOwned, OwnerOK
<1>6. QED
  BY <1>1, <1>3, <1>4, <1>5 DEF HandleInv, MemOK, CbInv, TypeOK

\* HandleInv holds in every state of every behaviour.
LEMMA HandleInvHolds == Spec => []HandleInv
<1>1. Init => HandleInv
  BY InitInv
<1>2. QED
  BY <1>1, HandleStep, PTL DEF Spec

\* The type invariant: no counter of references goes below zero, and what the
\* callbacks running now will use is there.
THEOREM TypeCorrect == Spec => []TypeOK
<1>1. HandleInv => TypeOK
  BY DEF HandleInv
<1>2. QED
  BY <1>1, HandleInvHolds, PTL

\* Every handle has one reference for its entry in php_eio_handles and one for
\* each resource, so that it is freed with the last of them.
THEOREM RefsExactCorrect == Spec => []RefsExact
<1>1. HandleInv => RefsExact
  BY DEF HandleInv, MemOK, RefsOK, RefsExact, Count, Entries, Holders
<1>2. QED
  BY <1>1, HandleInvHolds, PTL

\* A resource that outlives its request never reaches another request at the
\* same address: a handle points to a live request that is its own.
THEOREM NoStaleHandleCorrect == Spec => []NoStaleHandle
<1>1. HandleInv => NoStaleHandle
  BY HandleAssumption DEF HandleInv, MemOK, LinkOK, AliveOK, Mem, NoStaleHandle
<1>2. QED
  BY <1>1, HandleInvHolds, PTL

\* eio_destroy of a hooked request finds its handle, and frees the request.
THEOREM HookFindsHandleCorrect == Spec => []HookFindsHandle
<1>1. HandleInv => HookFindsHandle
  BY DEF HandleInv, AliveOK, HookFindsHandle
<1>2. QED
  BY <1>1, HandleInvHolds, PTL

\* Every php_eio_cb_t that is allocated belongs to one request, and is freed
\* once, in scripts whose callbacks do not cancel their own request; only that of
\* a request that eio_grp_cancel has cancelled may be left behind.
THEOREM CbOwnedCorrect ==
  ASSUME ~CancelOwn
  PROVE  Spec => []CbOwned
<1>1. Init => CbInv
  BY InitInv
<1>2. CbInv /\ HandleInv /\ HandleInv' /\ [Next]_vars => CbInv'
  BY CbStep DEF HandleInv, MemOK
<1>3. CbInv => CbOwned
  BY DEF CbInv
<1>4. QED
  BY <1>1, <1>2, <1>3, HandleInvHolds, PTL DEF Spec
=============================================================================
