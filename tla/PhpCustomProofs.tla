-------------------------- MODULE PhpCustomProofs ---------------------------
(***************************************************************************)
(* Proofs about eio_custom: whose the php_eio_cb_custom_t of a request is, *)
(* for any number of requests and workers, every interleaving of eio_cancel *)
(* and eio_grp_cancel with the workers, and any length of the shutdown.     *)
(***************************************************************************)
EXTENDS PhpCustom, TLAPS

-----------------------------------------------------------------------------
(* The inductive invariant. *)

\* A worker has a request exactly when it is not idle.
BusyOK == \A w \in Workers : wpc[w] = "idle" <=> wreq[w] = None

\* The request of a worker is being executed, and no other worker has it.
HolderOK ==
    /\ \A w \in Workers :
          /\ wreq[w] # None => st[wreq[w]] = "exec"
          /\ \A v \in Workers : wreq[v] = wreq[w] /\ wreq[w] # None => v = w
    /\ \A r \in Reqs : st[r] = "exec" => \E w \in Workers : wreq[w] = r

\* What a worker has read and done so far still holds, up to the races.
WorkerOK ==
    \A w \in Workers :
       /\ wpc[w] \in Inside => (eio_cb[w] <=> data[wreq[w]]) \/ wreq[w] \in raced
       /\ wpc[w] \in Inside /\ ~eio_cb[w] => ~data[wreq[w]]
       /\ wpc[w] \in {"lock", "call", "restore"} => eio_cb[w]
       /\ wpc[w] \in {"enter", "test", "lock"} => ~locked[wreq[w]]
       /\ wpc[w] \in {"call", "restore"} => locked[wreq[w]]
       /\ wpc[w] \in {"enter", "test", "lock", "call"} => ran[wreq[w]] = 0
       /\ wpc[w] = "restore" => ran[wreq[w]] = 1

\* req->data of a request in use points to a live record, unless there was a
\* race, or a worker has freed it because of eio_grp_cancel; and no live record
\* is without a pointer.
RecordOK ==
    \A r \in Reqs :
       /\ ~data[r] => rec[r] # "live"
       /\ phase # "over" /\ st[r] # "free" /\ data[r] /\ r \notin raced =>
             rec[r] = "live" \/ (by[r] = "group" /\ st[r] = "res" /\ ran[r] = 0)

\* A race with the script's memory, or with an eio_cancel that has done its
\* work: the request is not called back.
RacedOK ==
    \A r \in Reqs :
       /\ phase # "run" => st[r] # "cb"
       /\ phase = "over" /\ st[r] \in {"queue", "exec"} => r \in raced
       /\ phase # "over" /\ r \in raced => cancelled[r] /\ st[r] # "cb"

\* What execute leaves behind: once it has run, the record is locked, so that
\* eio_cancel is too late.
RanOK ==
    \A r \in Reqs :
       /\ cancelled[r] <=> by[r] # "nobody"
       /\ ran[r] \in {0, 1}
       /\ ran[r] = 1 => locked[r] /\ (data[r] \/ r \in raced)
       /\ ran[r] = 0 => ~buf[r]
       /\ st[r] = "queue" => ran[r] = 0 /\ ~locked[r]
       /\ st[r] = "cb" => ran[r] = 1
       /\ st[r] = "res" /\ data[r] /\ ~cancelled[r] => ran[r] = 1
       /\ by[r] = "script" => ~data[r] /\ st[r] # "cb" /\ (ran[r] = 0 \/ r \in raced)

\* Until php_eio_custom_execute is disturbed, at most one worker is in it, and
\* has saved the stack pointers of the PHP thread.
StackOK ==
    disturbed = {} =>
       /\ \A v, w \in Workers : wpc[v] \in Inside /\ wpc[w] \in Inside => v = w
       /\ \A w \in Workers : wpc[w] \in Inside => saved[w] = "main"
       /\ (\A w \in Workers : wpc[w] \notin Inside) => EG = "main"

Safe == HolderOK /\ WorkerOK /\ RecordOK /\ RacedOK /\ RanOK /\ CustomReclaimed /\ RecordLive
        /\ StackOK

Inv == TypeOK /\ BusyOK /\ Safe
-----------------------------------------------------------------------------
(* Type correctness. *)

\* Every step keeps the types, and BusyOK, without which a worker might write
\* to the request None.
LEMMA TypedStep == TypeOK /\ BusyOK /\ [Next]_vars => TypeOK' /\ BusyOK'
<1> SUFFICES ASSUME TypeOK, BusyOK, [Next]_vars PROVE TypeOK' /\ BusyOK'
  OBVIOUS
<1> USE CustomAssumption DEF TypeOK, BusyOK, States, PCs
<1>1. ASSUME NEW r \in Reqs, NEW callable \in BOOLEAN, eio_custom(r, callable)
      PROVE  TypeOK' /\ BusyOK'
  BY <1>1 DEF eio_custom, php_eio_new_eio_cb_custom, workVars
<1>2. ASSUME NEW r \in Reqs, eio_cancel(r)
      PROVE  TypeOK' /\ BusyOK'
  <2>1. misused' \subseteq Reqs /\ raced' \subseteq Reqs
    BY <1>2 DEF eio_cancel, Use
  <2>2. \/ UNCHANGED <<cancelled, by, rec, data>>
        \/ /\ cancelled' = [cancelled EXCEPT ![r] = TRUE]
           /\ by' = [by EXCEPT ![r] = "script"]
           /\ rec' = [rec EXCEPT ![r] = IF data[r] THEN "freed" ELSE @]
           /\ data' = [data EXCEPT ![r] = FALSE]
    BY <1>2 DEF eio_cancel
  <2>3. rec' \in [Reqs -> {"none", "live", "freed"}] /\ by' \in [Reqs -> {"nobody", "script", "group"}]
    BY <2>2
  <2>4. cancelled' \in [Reqs -> BOOLEAN] /\ data' \in [Reqs -> BOOLEAN]
    BY <2>2
  <2>5. QED
    BY <1>2, <2>1, <2>3, <2>4 DEF eio_cancel, workVars
<1>3. ASSUME NEW r \in Reqs, eio_grp_cancel(r)
      PROVE  TypeOK' /\ BusyOK'
  BY <1>3 DEF eio_grp_cancel, workVars
<1>4. ASSUME NEW r \in Reqs, FinishQuietly(r)
      PROVE  TypeOK' /\ BusyOK'
  BY <1>4 DEF FinishQuietly, EIO_FINISH, workVars, histVars
<1>5. ASSUME NEW r \in Reqs, php_eio_res_cb_custom(r)
      PROVE  TypeOK' /\ BusyOK'
  BY <1>5 DEF php_eio_res_cb_custom, EIO_FINISH, Use, workVars
<1>6. ASSUME NEW r \in Reqs, CallbackReturn(r)
      PROVE  TypeOK' /\ BusyOK'
  BY <1>6 DEF CallbackReturn, php_eio_free_eio_cb_custom, Use, workVars
<1>7. ASSUME PHP_RSHUTDOWN
      PROVE  TypeOK' /\ BusyOK'
  BY <1>7 DEF PHP_RSHUTDOWN, reqVars, workVars, histVars
<1>8. ASSUME ScriptEnds
      PROVE  TypeOK' /\ BusyOK'
  BY <1>8 DEF ScriptEnds, workVars
<1>9. ASSUME NEW w \in Workers, NEW r \in Reqs, Take(w, r)
      PROVE  TypeOK' /\ BusyOK'
  BY <1>9 DEF Take, Goto, histVars
<1>10. ASSUME NEW w \in Workers, Enter(w)
      PROVE  TypeOK' /\ BusyOK'
  BY <1>10 DEF Enter, Goto, reqVars
<1>11. ASSUME NEW w \in Workers, Test(w)
      PROVE  TypeOK' /\ BusyOK'
  BY <1>11 DEF Test, Goto, Result, php_eio_free_eio_cb_custom, Use
<1>12. ASSUME NEW w \in Workers, Lock(w)
      PROVE  TypeOK' /\ BusyOK'
  BY <1>12 DEF Lock, Goto, Use
<1>13. ASSUME NEW w \in Workers, CallExecute(w)
      PROVE  TypeOK' /\ BusyOK'
  BY <1>13 DEF CallExecute, Goto, Use
<1>14. ASSUME NEW w \in Workers, Restore(w)
      PROVE  TypeOK' /\ BusyOK'
  BY <1>14 DEF Restore, Goto, Result, histVars
<1>15. CASE UNCHANGED vars
  BY <1>15 DEF vars, reqVars, workVars, histVars
<1>16. QED
  BY <1>1, <1>2, <1>3, <1>4, <1>5, <1>6, <1>7, <1>8, <1>9, <1>10, <1>11, <1>12, <1>13,
     <1>14, <1>15 DEF Next

\* The initial state satisfies the invariant.
LEMMA InitInv == Init => Inv
<1> SUFFICES ASSUME Init PROVE Inv
  OBVIOUS
<1>1. TypeOK /\ BusyOK
  BY DEF Init, TypeOK, States, PCs, BusyOK
<1>2. HolderOK /\ WorkerOK
  BY CustomAssumption DEF Init, HolderOK, WorkerOK, Inside
<1>3. RecordOK /\ RacedOK /\ RanOK
  BY DEF Init, RecordOK, RacedOK, RanOK
<1>4. CustomReclaimed /\ RecordLive /\ StackOK
  BY DEF Init, CustomReclaimed, RecordLive, StackOK, Inside
<1>5. QED
  BY <1>1, <1>2, <1>3, <1>4 DEF Inv, Safe

\* The types of the record, the request and the workers are kept by every step.
THEOREM TypeCorrect == Spec => []TypeOK
<1>1. Init => TypeOK /\ BusyOK
  BY InitInv DEF Inv
<1>2. QED
  BY <1>1, TypedStep, PTL DEF Spec

-----------------------------------------------------------------------------
(* Steps. *)

\* A new request: no worker has it, and its record is its own.
LEMMA CustomStep ==
  ASSUME Inv, NEW r \in Reqs, NEW callable \in BOOLEAN, eio_custom(r, callable)
  PROVE  Safe'
<1> USE CustomAssumption DEF Inv, Safe, TypeOK, BusyOK
<1>1. HolderOK'
  BY DEF HolderOK, eio_custom, php_eio_new_eio_cb_custom, workVars
<1>2. WorkerOK'
  BY DEF HolderOK, WorkerOK, RanOK, RacedOK, Inside, eio_custom,
         php_eio_new_eio_cb_custom, workVars
<1>3. RecordOK'
  BY DEF HolderOK, WorkerOK, RecordOK, RacedOK, RanOK, eio_custom,
         php_eio_new_eio_cb_custom, workVars
<1>4. RacedOK'
  BY DEF HolderOK, RacedOK, RecordOK, RanOK, WorkerOK, eio_custom,
         php_eio_new_eio_cb_custom, workVars
<1>5. RanOK'
  BY DEF HolderOK, WorkerOK, RecordOK, RacedOK, RanOK, eio_custom,
         php_eio_new_eio_cb_custom, workVars
<1>6. CustomReclaimed'
  BY DEF HolderOK, RecordOK, RanOK, RacedOK, CustomReclaimed, eio_custom,
         php_eio_new_eio_cb_custom, workVars
<1>7. RecordLive'
  BY DEF HolderOK, WorkerOK, RecordOK, RacedOK, RanOK, RecordLive, eio_custom,
         php_eio_new_eio_cb_custom, workVars
<1>8. StackOK'
  BY DEF StackOK, Inside, eio_custom, php_eio_new_eio_cb_custom, workVars, PCs
<1>9. QED
  BY <1>1, <1>2, <1>3, <1>4, <1>5, <1>6, <1>7, <1>8

\* eio_cancel: it does nothing once a worker has locked the record; between the
\* worker's reading of req->data and that, it is a race.
LEMMA CancelStep ==
  ASSUME Inv, NEW r \in Reqs, eio_cancel(r)
  PROVE  Safe'
<1> USE CustomAssumption DEF Inv, Safe, TypeOK, BusyOK
<1>a. UNCHANGED <<st, locked, buf, phase, wreq, wpc, eio_cb, EG, saved, ran, disturbed>>
  BY DEF eio_cancel, workVars
<1>b. /\ st[r] # "free" /\ phase = "run"
      /\ raced \subseteq raced' /\ raced' \subseteq raced \cup {r}
      /\ Races(r) => r \in raced'
      /\ misused' \subseteq misused \cup {r}
      /\ ~data[r] \/ rec[r] = "live" => misused' = misused
  <2>1. st[r] # "free" /\ phase = "run"
    BY DEF eio_cancel
  <2>2. raced' = raced \cup {q \in {r} : Races(q)}
    BY DEF eio_cancel
  <2>3. raced \subseteq raced' /\ raced' \subseteq raced \cup {r} /\ (Races(r) => r \in raced')
    BY <2>2
  <2>4. (data[r] /\ misused' = misused \cup {q \in {r} : rec[q] # "live"}) \/ (~data[r] /\ misused' = misused)
    BY DEF eio_cancel, Use
  <2>5. misused' \subseteq misused \cup {r}
    BY <2>4
  <2>6. ASSUME ~data[r] \/ rec[r] = "live" PROVE misused' = misused
    <3>1. rec[r] = "live" => {q \in {r} : rec[q] # "live"} = {}
      OBVIOUS
    <3>2. CASE data[r]
      BY <2>4, <2>6, <3>1, <3>2
    <3>3. CASE ~data[r]
      BY <2>4, <3>3
    <3>4. QED
      BY <3>2, <3>3
  <2>7. QED
    BY <2>1, <2>3, <2>5, <2>6
<1>c. \/ UNCHANGED <<cancelled, by, rec, data>> /\ SeenLocked(r)
      \/ /\ cancelled' = [cancelled EXCEPT ![r] = TRUE]
         /\ by' = [by EXCEPT ![r] = "script"]
         /\ rec' = [rec EXCEPT ![r] = IF data[r] THEN "freed" ELSE @]
         /\ data' = [data EXCEPT ![r] = FALSE]
         /\ SeenUnlocked(r)
  BY DEF eio_cancel
<1>d. Races(r) => cancelled'[r]
  <2> SUFFICES ASSUME Races(r), UNCHANGED <<cancelled, by, rec, data>>, SeenLocked(r), ~cancelled[r]
               PROVE  FALSE
    BY <1>c
  <2>1. PICK w \in Workers : wreq[w] = r /\ wpc[w] \in {"test", "lock"} /\ eio_cb[w]
    BY DEF Races, InWindow, RanOK
  <2>2. st[r] = "exec" /\ ~locked[r]
    BY <2>1 DEF HolderOK, WorkerOK
  <2>3. r \notin raced
    BY <1>b DEF RacedOK
  <2>4. data[r] /\ rec[r] = "live"
    BY <1>b, <2>2, <2>3 DEF SeenLocked, RecordOK
  <2>5. QED
    BY <2>2, <2>4 DEF SeenLocked
<1>1. HolderOK'
  BY <1>a DEF HolderOK
<1>2. WorkerOK'
  <2> SUFFICES ASSUME NEW w \in Workers, wpc[w] \in Inside
               PROVE  /\ (eio_cb[w] <=> data'[wreq[w]]) \/ wreq[w] \in raced'
                      /\ ~eio_cb[w] => ~data'[wreq[w]]
    BY <1>a DEF WorkerOK
  <2>0. ~eio_cb[w] => ~data'[wreq[w]]
    BY <1>c DEF WorkerOK, Inside
  <2>1. CASE wreq[w] # r
    BY <1>b, <1>c, <2>1 DEF WorkerOK, Inside
  <2>2. CASE wreq[w] = r /\ wpc[w] \in {"test", "lock"}
    <3>1. CASE eio_cb[w]
      BY <1>b, <2>0, <2>2, <3>1 DEF Races, InWindow
    <3>2. CASE ~eio_cb[w]
      BY <2>0, <3>2
    <3>3. QED
      BY <3>1, <3>2
  <2>3. CASE wreq[w] = r /\ wpc[w] \in {"call", "restore"}
    <3>1. locked[r] /\ st[r] = "exec" /\ (data[r] \/ r \in raced)
      BY <2>3 DEF WorkerOK, HolderOK, Inside
    <3>2. CASE r \in raced
      BY <1>b, <2>0, <2>3, <3>2
    <3>3. CASE r \notin raced
      <4>1. data[r] /\ rec[r] = "live"
        BY <1>b, <3>1, <3>3 DEF RecordOK
      <4>2. data' = data
        BY <1>c, <3>1, <4>1 DEF SeenUnlocked
      <4>3. QED
        BY <2>3, <3>3, <4>2 DEF WorkerOK, Inside
    <3>4. QED
      BY <3>2, <3>3
  <2>4. QED
    BY <2>0, <2>1, <2>2, <2>3 DEF Inside
<1>3. RecordOK'
  BY <1>a, <1>b, <1>c DEF RecordOK
<1>4. RacedOK'
  <2>1. st[r] = "cb" => ~Races(r)
    BY DEF Races, InWindow, HolderOK
  <2>2. st[r] = "cb" => r \notin raced'
    <3>1. ~Races(r) => raced' = raced
      BY DEF eio_cancel
    <3>2. QED
      BY <1>b, <2>1, <3>1 DEF RacedOK
  <2>3. r \in raced' => cancelled'[r]
    <3>1. ~Races(r) => raced' = raced
      BY DEF eio_cancel
    <3>2. QED
      BY <1>b, <1>c, <1>d, <3>1 DEF RacedOK
  <2>4. \A q \in Reqs : q # r => cancelled'[q] = cancelled[q] /\ (q \in raced' <=> q \in raced)
    BY <1>b, <1>c
  <2>5. QED
    BY <1>a, <1>b, <2>2, <2>3, <2>4 DEF RacedOK
<1>5. RanOK'
  <2>1. CASE UNCHANGED <<cancelled, by, rec, data>>
    BY <1>a, <1>b, <2>1 DEF RanOK
  <2>2. CASE ~UNCHANGED <<cancelled, by, rec, data>>
    <3>0. cancelled'[r] /\ by'[r] = "script" /\ ~data'[r] /\ SeenUnlocked(r)
      BY <1>c, <2>2
    <3>1. ran[r] = 0 \/ r \in raced
      <4> SUFFICES ASSUME ran[r] = 1, r \notin raced PROVE FALSE
        BY DEF RanOK
      <4>1. data[r] /\ locked[r]
        BY DEF RanOK
      <4>2. rec[r] # "live"
        BY <3>0, <4>1 DEF SeenUnlocked
      <4>3. by[r] = "group" /\ st[r] = "res"
        BY <1>b, <4>1, <4>2 DEF RecordOK
      <4>4. QED
        BY <1>b, <4>1, <4>2 DEF RecordOK
    <3>2. st[r] # "cb"
      <4> SUFFICES ASSUME st[r] = "cb" PROVE FALSE
        OBVIOUS
      <4>1. ran[r] = 1 /\ r \notin raced
        BY <1>b DEF RanOK, RacedOK
      <4>2. QED
        BY <3>1, <4>1
    <3>3. \A q \in Reqs : q # r => UNCHANGED <<cancelled[q], by[q], data[q]>> /\ (q \in raced => q \in raced')
      BY <1>b, <1>c
    <3>4. QED
      BY <1>a, <1>b, <3>0, <3>1, <3>2, <3>3 DEF RanOK
  <2>3. QED
    BY <2>1, <2>2
<1>6. CustomReclaimed'
  BY <1>a, <1>b, <1>c DEF CustomReclaimed
<1>7. RecordLive'
  <2>1. CASE ~data[r] \/ rec[r] = "live"
    BY <1>b, <2>1 DEF RecordLive
  <2>2. CASE data[r] /\ rec[r] # "live"
    BY <1>b, <2>2 DEF RecordLive, RecordOK, Races
  <2>3. QED
    BY <2>1, <2>2
<1>8. StackOK'
  BY <1>a DEF StackOK
<1>9. QED
  BY <1>1, <1>2, <1>3, <1>4, <1>5, <1>6, <1>7, <1>8

\* eio_grp_cancel sets cancelled, and nothing else.
LEMMA GrpCancelStep ==
  ASSUME Inv, NEW r \in Reqs, eio_grp_cancel(r)
  PROVE  Safe'
<1> USE CustomAssumption DEF Inv, Safe, TypeOK, BusyOK
<1>1. HolderOK'
  BY DEF HolderOK, eio_grp_cancel, workVars
<1>2. WorkerOK'
  BY DEF HolderOK, WorkerOK, RanOK, RacedOK, Inside, eio_grp_cancel, workVars
<1>3. RecordOK'
  BY DEF HolderOK, WorkerOK, RecordOK, RacedOK, RanOK, eio_grp_cancel, workVars
<1>4. RacedOK'
  BY DEF HolderOK, RacedOK, RecordOK, RanOK, WorkerOK, eio_grp_cancel, workVars
<1>5. RanOK'
  BY DEF HolderOK, WorkerOK, RecordOK, RacedOK, RanOK, eio_grp_cancel, workVars
<1>6. CustomReclaimed'
  BY DEF HolderOK, RecordOK, RanOK, RacedOK, CustomReclaimed, eio_grp_cancel, workVars
<1>7. RecordLive'
  BY DEF HolderOK, WorkerOK, RecordOK, RacedOK, RanOK, RecordLive, eio_grp_cancel,
         workVars
<1>8. StackOK'
  BY DEF StackOK, Inside, eio_grp_cancel, workVars, PCs
<1>9. QED
  BY <1>1, <1>2, <1>3, <1>4, <1>5, <1>6, <1>7, <1>8

\* A request that goes without a callback was never executed, or its group was
\* cancelled, or eio_cancel was in the race.
LEMMA FinishQuietlyStep ==
  ASSUME Inv, NEW r \in Reqs, FinishQuietly(r)
  PROVE  Safe'
<1> USE CustomAssumption DEF Inv, Safe, TypeOK, BusyOK
<1>1. HolderOK'
  BY DEF HolderOK, FinishQuietly, EIO_FINISH, workVars, histVars
<1>2. WorkerOK'
  BY DEF HolderOK, WorkerOK, RanOK, RacedOK, Inside, FinishQuietly, EIO_FINISH,
         workVars, histVars
<1>3. RecordOK'
  BY DEF HolderOK, WorkerOK, RecordOK, RacedOK, RanOK, FinishQuietly, EIO_FINISH,
         workVars, histVars
<1>4. RacedOK'
  BY DEF HolderOK, RacedOK, RecordOK, RanOK, WorkerOK, FinishQuietly, EIO_FINISH,
         workVars, histVars
<1>5. RanOK'
  BY DEF HolderOK, WorkerOK, RecordOK, RacedOK, RanOK, FinishQuietly, EIO_FINISH,
         workVars, histVars
<1>6. CustomReclaimed'
  BY DEF HolderOK, RecordOK, RanOK, RacedOK, CustomReclaimed, FinishQuietly,
         EIO_FINISH, workVars, histVars
<1>7. RecordLive'
  BY DEF HolderOK, WorkerOK, RecordOK, RacedOK, RanOK, RecordLive, FinishQuietly,
         EIO_FINISH, workVars, histVars
<1>8. StackOK'
  BY DEF StackOK, Inside, FinishQuietly, EIO_FINISH, workVars, histVars, PCs
<1>9. QED
  BY <1>1, <1>2, <1>3, <1>4, <1>5, <1>6, <1>7, <1>8

\* The callback finds the record: the request was executed, and not cancelled.
LEMMA CallbackStep ==
  ASSUME Inv, NEW r \in Reqs, php_eio_res_cb_custom(r)
  PROVE  Safe'
<1> USE CustomAssumption DEF Inv, Safe, TypeOK, BusyOK
<1>1. HolderOK'
  BY DEF HolderOK, php_eio_res_cb_custom, EIO_FINISH, Use, workVars
<1>2. WorkerOK'
  BY DEF HolderOK, WorkerOK, RanOK, RacedOK, Inside, php_eio_res_cb_custom, EIO_FINISH,
         Use, workVars
<1>3. RecordOK'
  BY DEF HolderOK, WorkerOK, RecordOK, RacedOK, RanOK, php_eio_res_cb_custom,
         EIO_FINISH, Use, workVars
<1>4. RacedOK'
  BY DEF HolderOK, RacedOK, RecordOK, RanOK, WorkerOK, php_eio_res_cb_custom,
         EIO_FINISH, Use, workVars
<1>5. RanOK'
  BY DEF HolderOK, WorkerOK, RecordOK, RacedOK, RanOK, php_eio_res_cb_custom,
         EIO_FINISH, Use, workVars
<1>6. CustomReclaimed'
  BY DEF HolderOK, RecordOK, RanOK, RacedOK, CustomReclaimed, php_eio_res_cb_custom,
         EIO_FINISH, Use, workVars
<1>7. RecordLive'
  BY DEF HolderOK, WorkerOK, RecordOK, RacedOK, RanOK, RecordLive,
         php_eio_res_cb_custom, EIO_FINISH, Use, workVars
<1>8. StackOK'
  BY DEF StackOK, Inside, php_eio_res_cb_custom, EIO_FINISH, Use, workVars, PCs
<1>9. QED
  BY <1>1, <1>2, <1>3, <1>4, <1>5, <1>6, <1>7, <1>8

\* The end of the callback frees what is left.
LEMMA CallbackReturnStep ==
  ASSUME Inv, NEW r \in Reqs, CallbackReturn(r)
  PROVE  Safe'
<1> USE CustomAssumption DEF Inv, Safe, TypeOK, BusyOK
<1>1. HolderOK'
  BY DEF HolderOK, CallbackReturn, php_eio_free_eio_cb_custom, Use, workVars
<1>2. WorkerOK'
  BY DEF HolderOK, WorkerOK, RanOK, RacedOK, Inside, CallbackReturn,
         php_eio_free_eio_cb_custom, Use, workVars
<1>3. RecordOK'
  BY DEF HolderOK, WorkerOK, RecordOK, RacedOK, RanOK, CallbackReturn,
         php_eio_free_eio_cb_custom, Use, workVars
<1>4. RacedOK'
  BY DEF HolderOK, RacedOK, RecordOK, RanOK, WorkerOK, CallbackReturn,
         php_eio_free_eio_cb_custom, Use, workVars
<1>5. RanOK'
  BY DEF HolderOK, WorkerOK, RecordOK, RacedOK, RanOK, CallbackReturn,
         php_eio_free_eio_cb_custom, Use, workVars
<1>6. CustomReclaimed'
  BY DEF HolderOK, RecordOK, RanOK, RacedOK, CustomReclaimed, CallbackReturn,
         php_eio_free_eio_cb_custom, Use, workVars
<1>7. RecordLive'
  BY DEF HolderOK, WorkerOK, RecordOK, RacedOK, RanOK, RecordLive, CallbackReturn,
         php_eio_free_eio_cb_custom, Use, workVars
<1>8. StackOK'
  BY DEF StackOK, Inside, CallbackReturn, php_eio_free_eio_cb_custom, Use, workVars,
         PCs
<1>9. QED
  BY <1>1, <1>2, <1>3, <1>4, <1>5, <1>6, <1>7, <1>8

\* The shutdown touches no request.
LEMMA ShutdownStep ==
  ASSUME Inv, PHP_RSHUTDOWN
  PROVE  Safe'
<1> USE CustomAssumption DEF Inv, Safe, TypeOK, BusyOK
<1>1. HolderOK'
  BY DEF HolderOK, PHP_RSHUTDOWN, reqVars, workVars, histVars
<1>2. WorkerOK'
  BY DEF HolderOK, WorkerOK, RanOK, RacedOK, Inside, PHP_RSHUTDOWN, reqVars, workVars,
         histVars
<1>3. RecordOK'
  BY DEF HolderOK, WorkerOK, RecordOK, RacedOK, RanOK, PHP_RSHUTDOWN, reqVars,
         workVars, histVars
<1>4. RacedOK'
  BY DEF HolderOK, RacedOK, RecordOK, RanOK, WorkerOK, PHP_RSHUTDOWN, reqVars,
         workVars, histVars
<1>5. RanOK'
  BY DEF HolderOK, WorkerOK, RecordOK, RacedOK, RanOK, PHP_RSHUTDOWN, reqVars,
         workVars, histVars
<1>6. CustomReclaimed'
  BY DEF HolderOK, RecordOK, RanOK, RacedOK, CustomReclaimed, PHP_RSHUTDOWN, reqVars,
         workVars, histVars
<1>7. RecordLive'
  BY DEF HolderOK, WorkerOK, RecordOK, RacedOK, RanOK, RecordLive, PHP_RSHUTDOWN,
         reqVars, workVars, histVars
<1>8. StackOK'
  BY DEF StackOK, Inside, PHP_RSHUTDOWN, reqVars, workVars, histVars, PCs
<1>9. QED
  BY <1>1, <1>2, <1>3, <1>4, <1>5, <1>6, <1>7, <1>8

\* At the end of the script, the memory of every request that is queued or
\* executed is lost: the third race.
LEMMA ScriptEndsStep ==
  ASSUME Inv, ScriptEnds
  PROVE  Safe'
<1> USE CustomAssumption DEF Inv, Safe, TypeOK, BusyOK
<1>1. HolderOK'
  BY DEF HolderOK, ScriptEnds, workVars
<1>2. WorkerOK'
  BY DEF HolderOK, WorkerOK, RanOK, RacedOK, Inside, ScriptEnds, workVars
<1>3. RecordOK'
  BY DEF HolderOK, WorkerOK, RecordOK, RacedOK, RanOK, ScriptEnds, workVars
<1>4. RacedOK'
  BY DEF HolderOK, RacedOK, RecordOK, RanOK, WorkerOK, ScriptEnds, workVars
<1>5. RanOK'
  BY DEF HolderOK, WorkerOK, RecordOK, RacedOK, RanOK, ScriptEnds, workVars
<1>6. CustomReclaimed'
  BY DEF HolderOK, RecordOK, RanOK, RacedOK, CustomReclaimed, ScriptEnds, workVars
<1>7. RecordLive'
  BY DEF HolderOK, WorkerOK, RecordOK, RacedOK, RanOK, RecordLive, ScriptEnds,
         workVars
<1>8. StackOK'
  BY DEF StackOK, Inside, ScriptEnds, workVars, PCs
<1>9. QED
  BY <1>1, <1>2, <1>3, <1>4, <1>5, <1>6, <1>7, <1>8

\* A worker takes a request that no other worker has.
LEMMA TakeStep ==
  ASSUME Inv, NEW w \in Workers, NEW r \in Reqs, Take(w, r)
  PROVE  Safe'
<1> USE CustomAssumption DEF Inv, Safe, TypeOK, BusyOK
<1>1. HolderOK'
  BY DEF HolderOK, Take, Goto, histVars
<1>2. WorkerOK'
  BY DEF HolderOK, WorkerOK, RanOK, RacedOK, Inside, Take, Goto, histVars
<1>3. RecordOK'
  BY DEF HolderOK, WorkerOK, RecordOK, RacedOK, RanOK, Take, Goto, histVars
<1>4. RacedOK'
  BY DEF HolderOK, RacedOK, RecordOK, RanOK, WorkerOK, Take, Goto, histVars
<1>5. RanOK'
  BY DEF HolderOK, WorkerOK, RecordOK, RacedOK, RanOK, Take, Goto, histVars
<1>6. CustomReclaimed'
  BY DEF HolderOK, RecordOK, RanOK, RacedOK, CustomReclaimed, Take, Goto, histVars
<1>7. RecordLive'
  BY DEF HolderOK, WorkerOK, RecordOK, RacedOK, RanOK, RecordLive, Take, Goto,
         histVars
<1>8. StackOK'
  BY DEF StackOK, Inside, Take, Goto, histVars, PCs
<1>9. QED
  BY <1>1, <1>2, <1>3, <1>4, <1>5, <1>6, <1>7, <1>8

\* The pointer that the worker reads stays the one in the request.
LEMMA EnterStep ==
  ASSUME Inv, NEW w \in Workers, Enter(w)
  PROVE  Safe'
<1> USE CustomAssumption DEF Inv, Safe, TypeOK, BusyOK
<1>1. HolderOK'
  BY DEF HolderOK, Enter, Goto, reqVars
<1>2. WorkerOK'
  BY DEF HolderOK, WorkerOK, RanOK, RacedOK, Inside, Enter, Goto, reqVars
<1>3. RecordOK'
  BY DEF HolderOK, WorkerOK, RecordOK, RacedOK, RanOK, Enter, Goto, reqVars
<1>4. RacedOK'
  BY DEF HolderOK, RacedOK, RecordOK, RanOK, WorkerOK, Enter, Goto, reqVars
<1>5. RanOK'
  BY DEF HolderOK, WorkerOK, RecordOK, RacedOK, RanOK, Enter, Goto, reqVars
<1>6. CustomReclaimed'
  BY DEF HolderOK, RecordOK, RanOK, RacedOK, CustomReclaimed, Enter, Goto, reqVars
<1>7. RecordLive'
  BY DEF HolderOK, WorkerOK, RecordOK, RacedOK, RanOK, RecordLive, Enter, Goto,
         reqVars
<1>8. StackOK'
  <2> SUFFICES ASSUME disturbed' = {}
               PROVE  /\ \A v, u \in Workers : wpc'[v] \in Inside /\ wpc'[u] \in Inside => v = u
                      /\ \A v \in Workers : wpc'[v] \in Inside => saved'[v] = "main"
                      /\ wpc'[w] \in Inside
    BY DEF StackOK
  <2>1. disturbed = {} /\ \A u \in Workers : wpc[u] \notin Inside
    BY DEF Enter
  <2>2. wpc' = [wpc EXCEPT ![w] = "test"] /\ saved' = [saved EXCEPT ![w] = EG] /\ EG = "main"
    BY <2>1 DEF Enter, Goto, StackOK
  <2>3. QED
    BY <2>1, <2>2 DEF Inside
<1>9. QED
  BY <1>1, <1>2, <1>3, <1>4, <1>5, <1>6, <1>7, <1>8

\* The early returns: the record is live when it is freed here.
LEMMA TestStep ==
  ASSUME Inv, NEW w \in Workers, Test(w)
  PROVE  Safe'
<1> USE CustomAssumption DEF Inv, Safe, TypeOK, BusyOK
<1> DEFINE r == wreq[w]
<1>a. r \in Reqs /\ st[r] = "exec" /\ \A v \in Workers : wreq[v] = r => v = w
  BY DEF HolderOK, Test
<1>b. eio_cb[w] => r \in raced \/ (data[r] /\ rec[r] = "live" /\ phase # "over")
  <2> SUFFICES ASSUME eio_cb[w], r \notin raced PROVE data[r] /\ rec[r] = "live" /\ phase # "over"
    OBVIOUS
  <2>1. data[r]
    BY DEF WorkerOK, Inside, Test
  <2>2. phase # "over"
    BY <1>a DEF RacedOK
  <2>3. QED
    BY <1>a, <2>1, <2>2 DEF RecordOK
<1>1. HolderOK'
  BY DEF HolderOK, Test, Goto, Result, php_eio_free_eio_cb_custom, Use
<1>2. WorkerOK'
  BY DEF HolderOK, WorkerOK, RanOK, RacedOK, Inside, Test, Goto, Result,
         php_eio_free_eio_cb_custom, Use
<1>3. RecordOK'
  BY DEF HolderOK, WorkerOK, RecordOK, RacedOK, RanOK, Test, Goto, Result,
         php_eio_free_eio_cb_custom, Use
<1>4. RacedOK'
  BY DEF HolderOK, RacedOK, RecordOK, RanOK, WorkerOK, Test, Goto, Result,
         php_eio_free_eio_cb_custom, Use
<1>5. RanOK'
  <2>1. UNCHANGED <<cancelled, by, ran, locked, data, buf, raced>>
    BY DEF Test
  <2>2. st' = st \/ (st' = [st EXCEPT ![r] = "res"] /\ (~eio_cb[w] \/ cancelled[r]))
    BY DEF Test, Result
  <2>3. ~eio_cb[w] => ~data[r]
    BY DEF WorkerOK, Test, Inside
  <2>4. phase = "over" \/ (r \in raced => cancelled[r])
    BY <1>a DEF RacedOK
  <2>5. QED
    BY <1>a, <2>1, <2>2, <2>3, <2>4 DEF RanOK
<1>6. CustomReclaimed'
  BY DEF HolderOK, RecordOK, RanOK, RacedOK, CustomReclaimed, Test, Goto, Result,
         php_eio_free_eio_cb_custom, Use
<1>7. RecordLive'
  <2>1. misused' = misused \/ (eio_cb[w] /\ misused' = misused \cup {q \in {r} : rec[q] # "live"})
    BY DEF Test, php_eio_free_eio_cb_custom, Use
  <2>2. raced' = raced
    BY DEF Test
  <2>3. QED
    BY <1>b, <2>1, <2>2 DEF RecordLive
<1>8. StackOK'
  BY DEF StackOK, Inside, Test, Goto, Result, php_eio_free_eio_cb_custom, Use, PCs
<1>9. QED
  BY <1>1, <1>2, <1>3, <1>4, <1>5, <1>6, <1>7, <1>8

\* The record is live when it is locked.
LEMMA LockStep ==
  ASSUME Inv, NEW w \in Workers, Lock(w)
  PROVE  Safe'
<1> USE CustomAssumption DEF Inv, Safe, TypeOK, BusyOK
<1> DEFINE r == wreq[w]
<1>a. r \in Reqs /\ st[r] = "exec" /\ \A v \in Workers : wreq[v] = r => v = w
  BY DEF HolderOK, Lock
<1>b. eio_cb[w] => r \in raced \/ (data[r] /\ rec[r] = "live" /\ phase # "over")
  <2> SUFFICES ASSUME eio_cb[w], r \notin raced PROVE data[r] /\ rec[r] = "live" /\ phase # "over"
    OBVIOUS
  <2>1. data[r]
    BY DEF WorkerOK, Inside, Lock
  <2>2. phase # "over"
    BY <1>a DEF RacedOK
  <2>3. QED
    BY <1>a, <2>1, <2>2 DEF RecordOK
<1>1. HolderOK'
  BY DEF HolderOK, Lock, Goto, Use
<1>2. WorkerOK'
  BY DEF HolderOK, WorkerOK, RanOK, RacedOK, Inside, Lock, Goto, Use
<1>3. RecordOK'
  BY DEF HolderOK, WorkerOK, RecordOK, RacedOK, RanOK, Lock, Goto, Use
<1>4. RacedOK'
  BY DEF HolderOK, RacedOK, RecordOK, RanOK, WorkerOK, Lock, Goto, Use
<1>5. RanOK'
  BY DEF HolderOK, WorkerOK, RecordOK, RacedOK, RanOK, Lock, Goto, Use
<1>6. CustomReclaimed'
  BY DEF HolderOK, RecordOK, RanOK, RacedOK, CustomReclaimed, Lock, Goto, Use
<1>7. RecordLive'
  <2>1. eio_cb[w] /\ misused' = misused \cup {q \in {r} : rec[q] # "live"} /\ raced' = raced
    BY DEF WorkerOK, Lock, Use
  <2>2. QED
    BY <1>b, <2>1 DEF RecordLive
<1>8. StackOK'
  BY DEF StackOK, Inside, Lock, Goto, Use, PCs
<1>9. QED
  BY <1>1, <1>2, <1>3, <1>4, <1>5, <1>6, <1>7, <1>8

\* The record is live when execute is called, and this happens once.
LEMMA CallExecuteStep ==
  ASSUME Inv, NEW w \in Workers, CallExecute(w)
  PROVE  Safe'
<1> USE CustomAssumption DEF Inv, Safe, TypeOK, BusyOK
<1> DEFINE r == wreq[w]
<1>a. r \in Reqs /\ st[r] = "exec" /\ \A v \in Workers : wreq[v] = r => v = w
  BY DEF HolderOK, CallExecute
<1>b. eio_cb[w] => r \in raced \/ (data[r] /\ rec[r] = "live" /\ phase # "over")
  <2> SUFFICES ASSUME eio_cb[w], r \notin raced PROVE data[r] /\ rec[r] = "live" /\ phase # "over"
    OBVIOUS
  <2>1. data[r]
    BY DEF WorkerOK, Inside, CallExecute
  <2>2. phase # "over"
    BY <1>a DEF RacedOK
  <2>3. QED
    BY <1>a, <2>1, <2>2 DEF RecordOK
<1>1. HolderOK'
  BY DEF HolderOK, CallExecute, Goto, Use
<1>2. WorkerOK'
  BY DEF HolderOK, WorkerOK, RanOK, RacedOK, Inside, CallExecute, Goto, Use
<1>3. RecordOK'
  BY DEF HolderOK, WorkerOK, RecordOK, RacedOK, RanOK, CallExecute, Goto, Use
<1>4. RacedOK'
  BY DEF HolderOK, RacedOK, RecordOK, RanOK, WorkerOK, CallExecute, Goto, Use
<1>5. RanOK'
  <2>1. UNCHANGED <<st, cancelled, by, locked, data, raced>>
    BY DEF CallExecute
  <2>2. ran[r] = 0 /\ locked[r] /\ eio_cb[w]
    BY DEF WorkerOK, CallExecute
  <2>3. ran' = [ran EXCEPT ![r] = 1] /\ \A q \in Reqs : q # r => (buf'[q] <=> buf[q])
    BY <1>a, <2>2 DEF CallExecute
  <2>4. by[r] = "script" => r \in raced
    BY <1>a, <1>b, <2>2 DEF RanOK
  <2>5. QED
    BY <1>a, <1>b, <2>1, <2>2, <2>3, <2>4 DEF RanOK
<1>6. CustomReclaimed'
  BY DEF HolderOK, RecordOK, RanOK, RacedOK, CustomReclaimed, CallExecute, Goto, Use
<1>7. RecordLive'
  <2>1. eio_cb[w] /\ misused' = misused \cup {q \in {r} : rec[q] # "live"} /\ raced' = raced
    BY DEF WorkerOK, CallExecute, Use
  <2>2. QED
    BY <1>b, <2>1 DEF RecordLive
<1>8. StackOK'
  BY DEF StackOK, Inside, CallExecute, Goto, Use, PCs
<1>9. QED
  BY <1>1, <1>2, <1>3, <1>4, <1>5, <1>6, <1>7, <1>8

\* The result is queued: what execute left is there.
LEMMA RestoreStep ==
  ASSUME Inv, NEW w \in Workers, Restore(w)
  PROVE  Safe'
<1> USE CustomAssumption DEF Inv, Safe, TypeOK, BusyOK
<1>1. HolderOK'
  BY DEF HolderOK, Restore, Goto, Result, histVars
<1>2. WorkerOK'
  BY DEF HolderOK, WorkerOK, RanOK, RacedOK, Inside, Restore, Goto, Result, histVars
<1>3. RecordOK'
  BY DEF HolderOK, WorkerOK, RecordOK, RacedOK, RanOK, Restore, Goto, Result, histVars
<1>4. RacedOK'
  BY DEF HolderOK, RacedOK, RecordOK, RanOK, WorkerOK, Restore, Goto, Result, histVars
<1>5. RanOK'
  BY DEF HolderOK, WorkerOK, RecordOK, RacedOK, RanOK, Restore, Goto, Result, histVars
<1>6. CustomReclaimed'
  BY DEF HolderOK, RecordOK, RanOK, RacedOK, CustomReclaimed, Restore, Goto, Result,
         histVars
<1>7. RecordLive'
  BY DEF HolderOK, WorkerOK, RecordOK, RacedOK, RanOK, RecordLive, Restore, Goto,
         Result, histVars
<1>8. StackOK'
  BY DEF StackOK, Inside, Restore, Goto, Result, histVars, PCs
<1>9. QED
  BY <1>1, <1>2, <1>3, <1>4, <1>5, <1>6, <1>7, <1>8

-----------------------------------------------------------------------------
(* The theorems. *)

\* Every step keeps the invariant.
LEMMA NextInv == Inv /\ [Next]_vars => Inv'
<1> SUFFICES ASSUME Inv, [Next]_vars PROVE Inv'
  OBVIOUS
<1>0. TypeOK' /\ BusyOK'
  BY TypedStep DEF Inv
<1>1. ASSUME NEW r \in Reqs, NEW callable \in BOOLEAN, eio_custom(r, callable) PROVE Safe'
  BY <1>1, CustomStep
<1>2. ASSUME NEW r \in Reqs, eio_cancel(r) PROVE Safe'
  BY <1>2, CancelStep
<1>3. ASSUME NEW r \in Reqs, eio_grp_cancel(r) PROVE Safe'
  BY <1>3, GrpCancelStep
<1>4. ASSUME NEW r \in Reqs, FinishQuietly(r) PROVE Safe'
  BY <1>4, FinishQuietlyStep
<1>5. ASSUME NEW r \in Reqs, php_eio_res_cb_custom(r) PROVE Safe'
  BY <1>5, CallbackStep
<1>6. ASSUME NEW r \in Reqs, CallbackReturn(r) PROVE Safe'
  BY <1>6, CallbackReturnStep
<1>7. ASSUME PHP_RSHUTDOWN PROVE Safe'
  BY <1>7, ShutdownStep
<1>8. ASSUME ScriptEnds PROVE Safe'
  BY <1>8, ScriptEndsStep
<1>9. ASSUME NEW w \in Workers, NEW r \in Reqs, Take(w, r) PROVE Safe'
  BY <1>9, TakeStep
<1>10. ASSUME NEW w \in Workers, Enter(w) PROVE Safe'
  BY <1>10, EnterStep
<1>11. ASSUME NEW w \in Workers, Test(w) PROVE Safe'
  BY <1>11, TestStep
<1>12. ASSUME NEW w \in Workers, Lock(w) PROVE Safe'
  BY <1>12, LockStep
<1>13. ASSUME NEW w \in Workers, CallExecute(w) PROVE Safe'
  BY <1>13, CallExecuteStep
<1>14. ASSUME NEW w \in Workers, Restore(w) PROVE Safe'
  BY <1>14, RestoreStep
<1>15. ASSUME UNCHANGED vars PROVE Safe'
  BY <1>15 DEF Inv, Safe, HolderOK, WorkerOK, RecordOK, RacedOK, RanOK, CustomReclaimed,
               RecordLive, StackOK, vars, reqVars, workVars, histVars
<1>16. Safe'
  BY <1>1, <1>2, <1>3, <1>4, <1>5, <1>6, <1>7, <1>8, <1>9, <1>10, <1>11, <1>12, <1>13,
     <1>14, <1>15 DEF Next
<1>17. QED
  BY <1>0, <1>16 DEF Inv

\* The inductive invariant holds in every state of every behaviour.
LEMMA InvHolds == Spec => []Inv
BY NextInv, InitInv, PTL DEF Spec

\* The php_eio_cb_custom_t of a request is never used after it is freed, and
\* never freed twice, although the worker and the PHP thread share it without
\* a lock, except in the three races that RecordLive names: php_eio.c has no
\* other.
THEOREM RecordLiveCorrect == Spec => []RecordLive
<1>1. Inv => RecordLive
  BY DEF Inv, Safe
<1>2. QED
  BY <1>1, InvHolds, PTL

\* execute is called at most once, and before the callback; a request that
\* eio_cancel has cancelled is not called back, and executed only if the worker
\* had read its pointer and not yet set locked.
THEOREM ExecuteThenCallbackCorrect == Spec => []ExecuteThenCallback
<1>1. Inv => ExecuteThenCallback
  BY CustomAssumption DEF Inv, Safe, TypeOK, HolderOK, RanOK, ExecuteThenCallback
<1>2. QED
  BY <1>1, InvHolds, PTL

\* The record of a request that is gone is freed unless eio_grp_cancel has
\* cancelled it, and its result unless that, or eio_cancel in the race.
THEOREM CustomReclaimedCorrect == Spec => []CustomReclaimed
<1>1. Inv => CustomReclaimed
  BY DEF Inv, Safe
<1>2. QED
  BY <1>1, InvHolds, PTL

\* EG describes the stack of the PHP thread again when the workers are idle, as
\* long as no early return was taken and no two executions overlapped.
THEOREM StackRestoredCorrect == Spec => []StackRestored
<1>1. Inv => StackRestored
  BY DEF Inv, Safe, StackOK, StackRestored, Inside
<1>2. QED
  BY <1>1, InvHolds, PTL
=============================================================================
