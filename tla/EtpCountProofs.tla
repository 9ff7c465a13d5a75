--------------------------- MODULE EtpCountProofs ---------------------------
(***************************************************************************)
(* The counters of the pool, and its wakeups, in terms of the queues and   *)
(* the threads.  Struct (EtpPoolProofs) is used before and after a step.   *)
(***************************************************************************)
EXTENDS EtpPoolProofs

\* The inductive invariant about the counters, relative to Struct.
Counts == NpendingExact /\ NreqsExact /\ IdleExact /\ StartedExact /\ NoLostWakeup

\* Queued requests without the QUIT ones, and the QUIT ones.
Ready == Elems(req_queue) \ Quits

QueuedQuits == Elems(req_queue) \cap Quits

\* The terms of StartedExact.
Early == IF pc = "enddec" THEN 1 ELSE 0

StartedDiff ==
    started + Cardinality(QueuedQuits) - Early - Cardinality(Counted)

\* StartedExact, with its terms named.
LEMMA StartedExactIff == StartedExact <=> StartedDiff \in {0, UINT_MOD}
BY DEF StartedExact, StartedDiff, QueuedQuits, Early

-----------------------------------------------------------------------------
(* Cardinalities. *)

\* All the sets that the counters count are finite and small.
LEMMA CardBounds ==
  ASSUME TypeOK
  PROVE  /\ Cardinality(Objs) \in Nat /\ Cardinality(Workers) \in Nat
         /\ UINT_MOD \in Nat /\ 2 * (Cardinality(Objs) + Cardinality(Workers)) < UINT_MOD
         /\ \A S \in {Elems(req_queue), Elems(res_queue), Ready, QueuedQuits} :
               IsFiniteSet(S) /\ Cardinality(S) \in 0..Cardinality(Objs)
         /\ \A S \in {Idle, Executing, Counted, Awake, Waiting} :
               IsFiniteSet(S) /\ Cardinality(S) \in 0..Cardinality(Workers)
<1>1. ASSUME NEW T, IsFiniteSet(T), NEW S \in SUBSET T
      PROVE  IsFiniteSet(S) /\ Cardinality(S) \in 0..Cardinality(T)
  BY <1>1, FS_Subset, FS_CardinalityType
<1>2. /\ Elems(req_queue) \subseteq Objs /\ Elems(res_queue) \subseteq Objs
      /\ Ready \subseteq Objs /\ QueuedQuits \subseteq Objs
  BY ElemsFinite DEF Objs, Ready, QueuedQuits
<1>3. /\ Idle \subseteq Workers /\ Executing \subseteq Workers /\ Counted \subseteq Workers
      /\ Awake \subseteq Workers /\ Waiting \subseteq Workers
  BY DEF Idle, Executing, Counted, Awake, Waiting
<1>4. Cardinality(Objs) \in Nat /\ Cardinality(Workers) \in Nat
  BY PoolAssumption, FS_CardinalityType
<1>5. \A S \in {Elems(req_queue), Elems(res_queue), Ready, QueuedQuits} :
         IsFiniteSet(S) /\ Cardinality(S) \in 0..Cardinality(Objs)
  BY <1>1, <1>2, PoolAssumption
<1>6. \A S \in {Idle, Executing, Counted, Awake, Waiting} :
         IsFiniteSet(S) /\ Cardinality(S) \in 0..Cardinality(Workers)
  BY <1>1, <1>3, PoolAssumption
<1>7. QED
  BY <1>4, <1>5, <1>6, PoolAssumption

\* What the arithmetic below needs to know.
LEMMA Numbers ==
  ASSUME TypeOK
  PROVE  /\ UINT_MOD \in Nat
         /\ \A x \in {started, idle, nreqs, npending} : x \in 0..(UINT_MOD - 1)
         /\ Cardinality(QueuedQuits) \in Nat /\ Cardinality(Counted) \in Nat
         /\ Cardinality(Ready) \in Nat /\ Cardinality(Executing) \in Nat
         /\ Cardinality(Elems(req_queue)) \in Nat /\ Cardinality(Elems(res_queue)) \in Nat
         /\ Cardinality(Awake) \in Nat /\ Cardinality(Idle) \in Nat
<1>1. UINT_MOD \in Nat /\ \A x \in {started, idle, nreqs, npending} : x \in 0..(UINT_MOD - 1)
  BY UIntType DEF TypeOK, UInt
<1>2. QED
  BY <1>1, CardBounds

\* One element more, one element less.
LEMMA CardPlus ==
  ASSUME NEW S, IsFiniteSet(S), NEW x, x \notin S, NEW T, T = S \cup {x}
  PROVE  Cardinality(T) = Cardinality(S) + 1
BY FS_AddElement

\* Taking one element out of a finite set lowers its cardinality by one.
LEMMA CardMinus ==
  ASSUME NEW S, IsFiniteSet(S), NEW x \in S, NEW T, T = S \ {x}
  PROVE  Cardinality(T) = Cardinality(S) - 1
BY FS_RemoveElement

-----------------------------------------------------------------------------
(* Steps. *)

\* Steps that leave alone everything that is counted.
LEMMA CountQuiet ==
  ASSUME Counts, pc # "enddec", pc' # "enddec",
         UNCHANGED <<req_queue, res_queue, wpc, started, idle, nreqs, npending>>
  PROVE  Counts'
BY DEF Counts, NpendingExact, NreqsExact, IdleExact, StartedExact, NoLostWakeup,
       Idle, Executing, Counted, Awake, Waiting

\* A signal makes one waiting worker look at the queue, if any waits.
LEMMA SignalSets ==
  ASSUME TypeOK, Signal
  PROVE  /\ Idle' = Idle /\ Executing' = Executing /\ Counted' = Counted
         /\ \/ Waiting' = {} /\ Awake' = Awake
            \/ \E w \in Workers \ Awake : Awake' = Awake \cup {w}
<1>1. CASE Waiting = {}
  BY <1>1 DEF Signal, Idle, Executing, Counted, Awake, Waiting
<1>2. CASE Waiting # {}
  <2>1. PICK w \in Waiting : wpc' = [wpc EXCEPT ![w] = "woken"]
    BY <1>2 DEF Signal
  <2>2. w \in Workers /\ wpc[w] \in {"wait", "twait"}
    BY <2>1 DEF Waiting
  <2>3. \A v \in Workers : wpc'[v] = IF v = w THEN "woken" ELSE wpc[v]
    BY <2>1 DEF TypeOK
  <2>4. Idle' = Idle /\ Executing' = Executing /\ Counted' = Counted
    BY <2>2, <2>3 DEF Idle, Executing, Counted
  <2>5. w \notin Awake /\ Awake' = Awake \cup {w}
    BY <2>2, <2>3 DEF Awake
  <2>6. QED
    BY <2>2, <2>4, <2>5
<1>3. QED
  BY <1>1, <1>2

\* A push on req_queue, with its signal, loses no wakeup.
LEMMA PushWakes ==
  ASSUME TypeOK, TypeOK', NoLostWakeup, Signal, NEW r, r \notin Elems(req_queue),
         Elems(req_queue') = Elems(req_queue) \cup {r}
  PROVE  NoLostWakeup'
<1>1. Cardinality(Elems(req_queue')) = Cardinality(Elems(req_queue)) + 1
  BY CardBounds, CardPlus
<1>2. ASSUME Waiting' # {}
      PROVE  Cardinality(Awake') = Cardinality(Awake) + 1 /\ Waiting # {}
  <2>1. PICK w \in Workers \ Awake : Awake' = Awake \cup {w}
    BY <1>2, SignalSets
  <2>2. Cardinality(Awake') = Cardinality(Awake) + 1
    BY <2>1, CardBounds, CardPlus
  <2>3. Waiting # {}
    BY <1>2 DEF Signal, Waiting
  <2>4. QED
    BY <2>2, <2>3
<1>3. Cardinality(Elems(req_queue)) \in Nat /\ Cardinality(Awake) \in Nat
  BY CardBounds
<1>4. QED
  BY <1>1, <1>2, <1>3 DEF NoLostWakeup

\* etp_submit of an ordinary request raises nreqs with req_queue.
LEMMA SubmitCounts ==
  ASSUME Struct, Counts, Struct', NEW r \in Reqs, NEW pri \in PriArgs, Submit(r, pri)
  PROVE  Counts'
<1>0. TypeOK /\ TypeOK'
  BY DEF Struct
<1>1. r \notin Elems(req_queue) /\ r \notin Quits
  BY PoolAssumption DEF Submit, InUse
<1>2. Elems(req_queue') = Elems(req_queue) \cup {r}
  <2>1. LaneOf(pri) \in Lanes /\ req_queue' = reqq_push(req_queue, r, LaneOf(pri))
    BY PoolAssumption, LaneOfType DEF Submit
  <2>2. req_queue \in Queues(Reqs \cup Quits)
    BY <1>0 DEF TypeOK
  <2>3. QED
    BY <2>1, <2>2, PushQueue
<1>3. /\ Signal /\ nreqs' = Inc(nreqs) /\ pc' # "enddec" /\ pc # "enddec"
      /\ UNCHANGED <<res_queue, npending, idle, started>>
  BY DEF Submit
<1>4. Idle' = Idle /\ Executing' = Executing /\ Counted' = Counted
  BY <1>0, <1>3, SignalSets
<1>5. Ready' = Ready \cup {r} /\ r \notin Ready /\ QueuedQuits' = QueuedQuits
  BY <1>1, <1>2 DEF Ready, QueuedQuits
<1>6. Cardinality(Ready') = Cardinality(Ready) + 1
  BY <1>0, <1>5, CardBounds, CardPlus
<1>7. NpendingExact' /\ IdleExact'
  BY <1>3, <1>4 DEF Counts, NpendingExact, IdleExact
<1>8. NreqsExact'
  <2>1. nreqs = Cardinality(Ready) + Cardinality(Executing) + Cardinality(Elems(res_queue))
    BY DEF Counts, NreqsExact, Ready
  <2>2. Cardinality(Ready') \in 0..Cardinality(Objs)
    <3>1. Ready' \subseteq Objs
      BY <1>5, <1>0, ElemsFinite DEF Objs, Ready
    <3>2. QED
      BY <3>1, PoolAssumption, FS_Subset, FS_CardinalityType
  <2>3. nreqs + 1 < UINT_MOD
    BY <1>0, <1>6, <2>1, <2>2, CardBounds
  <2>4. nreqs' = nreqs + 1
    <3>1. nreqs \in 0..(UINT_MOD - 1) /\ UINT_MOD \in Nat
      BY <1>0, UIntType DEF TypeOK, UInt
    <3>2. QED
      BY <1>3, <2>3, <3>1 DEF Inc
  <2>5. QED
    BY <1>0, <1>3, <1>4, <1>6, <2>1, <2>4, CardBounds DEF NreqsExact, Ready
<1>9. StartedExact'
  BY <1>3, <1>4, <1>5, StartedExactIff DEF Counts, StartedExact, QueuedQuits
<1>10. NoLostWakeup'
  BY <1>0, <1>1, <1>2, <1>3, PushWakes DEF Counts
<1>11. QED
  BY <1>7, <1>8, <1>9, <1>10 DEF Counts

\* etp_end_thread queues a QUIT, which nreqs does not count.
LEMMA EndPushCounts ==
  ASSUME Struct, Counts, Struct', NEW q \in Quits, EndPush(q)
  PROVE  Counts'
<1>0. TypeOK /\ TypeOK'
  BY DEF Struct
<1>1. q \notin Elems(req_queue)
  BY DEF EndPush, InUse
<1>2. Elems(req_queue') = Elems(req_queue) \cup {q}
  <2>1. TopPri \in Lanes /\ req_queue' = reqq_push(req_queue, q, TopPri)
    BY LaneOfType DEF EndPush
  <2>2. req_queue \in Queues(Reqs \cup Quits)
    BY <1>0 DEF TypeOK
  <2>3. QED
    BY <2>1, <2>2, PushQueue
<1>3. /\ Signal /\ pc = "endpush" /\ pc' = "enddec"
      /\ UNCHANGED <<res_queue, npending, nreqs, idle, started>>
  BY DEF EndPush, countVars
<1>4. Idle' = Idle /\ Executing' = Executing /\ Counted' = Counted
  BY <1>0, <1>3, SignalSets
<1>5. QueuedQuits' = QueuedQuits \cup {q} /\ q \notin QueuedQuits /\ Ready' = Ready
  BY <1>1, <1>2 DEF Ready, QueuedQuits
<1>6. Cardinality(QueuedQuits') = Cardinality(QueuedQuits) + 1
  BY <1>0, <1>5, CardBounds, CardPlus
<1>7. NpendingExact' /\ IdleExact' /\ NreqsExact'
  BY <1>3, <1>4, <1>5 DEF Counts, NpendingExact, IdleExact, NreqsExact, Ready
<1>8. StartedExact'
  <2>0. started \in Int /\ Cardinality(QueuedQuits) \in Int /\ Cardinality(Counted) \in Int
    BY <1>0, Numbers
  <2>1. StartedDiff' = StartedDiff
    BY <2>0, <1>3, <1>4, <1>6 DEF StartedDiff, Early
  <2>2. QED
    BY <2>1, StartedExactIff DEF Counts, StartedExact, StartedDiff, QueuedQuits, Early
<1>9. NoLostWakeup'
  BY <1>0, <1>1, <1>2, <1>3, PushWakes DEF Counts
<1>10. QED
  BY <1>7, <1>8, <1>9 DEF Counts

\* started moves by one, and so does what it counts, modulo 2^32.
LEMMA StartedMoves ==
  ASSUME TypeOK, StartedExact,
         started' = Dec(started), StartedDiff' = StartedDiff - started + started' + 1
  PROVE  StartedDiff' \in {0, UINT_MOD}
<1>1. StartedDiff \in {0, UINT_MOD}
  BY StartedExactIff
<1>2. started \in 0..(UINT_MOD - 1) /\ Early \in {0, 1}
  BY DEF TypeOK, UInt, Early
<1>3. started = 0 => StartedDiff = 0
  BY <1>1, <1>2, CardBounds DEF StartedDiff
<1>4. QED
  BY <1>1, <1>2, <1>3, CardBounds DEF Dec

\* --started in etp_end_thread follows the QUIT queued before it.
LEMMA EndDecCounts ==
  ASSUME Struct, Counts, EndDec
  PROVE  Counts'
<1>1. /\ pc = "enddec" /\ pc' = "endchk" /\ started' = Dec(started)
      /\ UNCHANGED <<req_queue, res_queue, wpc, idle, nreqs, npending>>
  BY DEF EndDec, queueVars, countVars
<1>2. /\ Idle' = Idle /\ Executing' = Executing /\ Counted' = Counted /\ Awake' = Awake
      /\ Waiting' = Waiting /\ QueuedQuits' = QueuedQuits
  BY <1>1 DEF Idle, Executing, Counted, Awake, Waiting, QueuedQuits
<1>3. NpendingExact' /\ IdleExact' /\ NreqsExact' /\ NoLostWakeup'
  BY <1>1, <1>2 DEF Counts, NpendingExact, IdleExact, NreqsExact, NoLostWakeup
<1>4. StartedDiff' = StartedDiff - started + started' + 1
  <2>1. /\ started \in Int /\ started' \in Int
        /\ Cardinality(QueuedQuits) \in Int /\ Cardinality(Counted) \in Int
    <3>1. TypeOK
      BY DEF Struct
    <3>2. QED
      BY <1>1, <3>1, Numbers DEF Dec
  <2>2. QED
    BY <1>1, <1>2, <2>1 DEF StartedDiff, Early
<1>5. StartedDiff' \in {0, UINT_MOD}
  BY <1>1, <1>4, StartedMoves DEF Struct, Counts
<1>6. StartedExact'
  BY <1>5 DEF StartedExact, StartedDiff, QueuedQuits, Early
<1>7. QED
  BY <1>3, <1>6 DEF Counts

\* etp_start_thread counts the thread it creates.
LEMMA StartThreadCounts ==
  ASSUME Struct, Counts, StartThread
  PROVE  Counts'
<1>0. TypeOK /\ pc = "start" /\ pc' # "enddec"
  BY DEF Struct, TypeOK, StartThread, GoBack
<1>1. CASE UNCHANGED <<wpc, started>>
  BY <1>0, <1>1, CountQuiet DEF StartThread, queueVars, countVars
<1>2. CASE started' = Inc(started) /\ \E w \in Workers :
              wpc[w] = "off" /\ wpc' = [wpc EXCEPT ![w] = "fetch"]
  <2>1. PICK w \in Workers : wpc[w] = "off" /\ wpc' = [wpc EXCEPT ![w] = "fetch"]
    BY <1>2
  <2>2. UNCHANGED <<req_queue, res_queue, idle, nreqs, npending>>
    BY DEF StartThread, queueVars, countVars
  <2>3. \A v \in Workers : wpc'[v] = IF v = w THEN "fetch" ELSE wpc[v]
    BY <1>0, <2>1 DEF TypeOK
  <2>4. /\ Idle' = Idle /\ Executing' = Executing /\ Waiting' = Waiting
        /\ Counted' = Counted \cup {w} /\ w \notin Counted
        /\ Awake' = Awake \cup {w} /\ w \notin Awake
    BY <2>1, <2>3 DEF Idle, Executing, Waiting, Counted, Awake
  <2>5. /\ Cardinality(Counted') = Cardinality(Counted) + 1
        /\ Cardinality(Awake') = Cardinality(Awake) + 1
    BY <1>0, <2>4, CardBounds, CardPlus
  <2>6. NpendingExact' /\ IdleExact' /\ NreqsExact'
    BY <2>2, <2>4 DEF Counts, NpendingExact, IdleExact, NreqsExact
  <2>7. NoLostWakeup'
    BY <1>0, <2>2, <2>4, <2>5, CardBounds DEF Counts, NoLostWakeup
  <2>8. StartedExact'
    <3>1. /\ StartedDiff = started + Cardinality(QueuedQuits) - Cardinality(Counted)
          /\ StartedDiff \in {0, UINT_MOD}
      BY <1>0, StartedExactIff, CardBounds DEF StartedDiff, Early, Counts, TypeOK, UInt
    <3>2. Cardinality(Counted') \in 0..Cardinality(Workers)
      <4>1. Counted' \subseteq Workers
        BY DEF Counted
      <4>2. QED
        BY <4>1, PoolAssumption, FS_Subset, FS_CardinalityType
    <3>3. started \in 0..(UINT_MOD - 1) /\ started' = IF started = UINT_MOD - 1 THEN 0 ELSE started + 1
      BY <1>0, <1>2 DEF Inc, TypeOK, UInt
    <3>4. started = UINT_MOD - 1 => StartedDiff = UINT_MOD
      BY <1>0, <2>5, <3>1, <3>2, <3>3, CardBounds
    <3>5. started' + Cardinality(QueuedQuits) - Cardinality(Counted') \in {0, UINT_MOD}
      BY <1>0, <2>5, <3>1, <3>3, <3>4, CardBounds
    <3>6. started' + Cardinality(QueuedQuits) - 0 - Cardinality(Counted') \in {0, UINT_MOD}
      BY <1>0, <2>5, <3>3, <3>5, CardBounds
    <3>7. QED
      BY <1>0, <2>2, <3>6 DEF StartedExact, QueuedQuits
  <2>9. QED
    BY <2>6, <2>7, <2>8 DEF Counts
<1>3. QED
  BY <1>1, <1>2 DEF StartThread

\* A result that was not queued counts once more, one that was taken once less.
LEMMA PendingUp ==
  ASSUME TypeOK, NpendingExact, NEW r, r \notin Elems(res_queue), r \in Objs,
         Elems(res_queue') = Elems(res_queue) \cup {r}, npending' = Inc(npending)
  PROVE  /\ NpendingExact'
         /\ Cardinality(Elems(res_queue')) = Cardinality(Elems(res_queue)) + 1
         /\ Cardinality(Elems(res_queue')) \in 0..Cardinality(Objs)
<1>1. Cardinality(Elems(res_queue')) = Cardinality(Elems(res_queue)) + 1
  BY CardBounds, CardPlus
<1>2. Cardinality(Elems(res_queue')) \in 0..Cardinality(Objs)
  <2>1. Elems(res_queue') \subseteq Objs
    BY ElemsFinite DEF Objs
  <2>2. QED
    BY <2>1, PoolAssumption, FS_Subset, FS_CardinalityType
<1>3. npending + 1 < UINT_MOD
  BY <1>1, <1>2, CardBounds DEF NpendingExact
<1>4. npending' = npending + 1
  BY <1>3, Numbers DEF Inc
<1>5. QED
  BY <1>1, <1>2, <1>4 DEF NpendingExact

\* etp_submit of a group raises nreqs and npending with res_queue.
LEMMA SubmitGroupCounts ==
  ASSUME Struct, Counts, Struct', NEW g \in Grps, SubmitGroup(g)
  PROVE  Counts'
<1>0. TypeOK /\ Counts
  BY DEF Struct
<1>1. /\ g \notin Elems(res_queue) /\ g \in Objs /\ TopPri \in Lanes
      /\ PushResult(g, TopPri)
  BY LaneOfType DEF SubmitGroup, InUse, Objs
<1>2. /\ Elems(res_queue') = Elems(res_queue) \cup {g} /\ npending' = Inc(npending)
  BY <1>1, PushRes DEF PushResult
<1>3. /\ nreqs' = Inc(nreqs) /\ pc = "user" /\ pc' = "user"
      /\ UNCHANGED <<req_queue, wpc, started, idle>>
  BY DEF SubmitGroup, thrVars, mainVars
<1>4. /\ Idle' = Idle /\ Executing' = Executing /\ Counted' = Counted /\ Awake' = Awake
      /\ Waiting' = Waiting /\ QueuedQuits' = QueuedQuits /\ Ready' = Ready
  BY <1>3 DEF Idle, Executing, Counted, Awake, Waiting, QueuedQuits, Ready
<1>5. /\ NpendingExact'
      /\ Cardinality(Elems(res_queue')) = Cardinality(Elems(res_queue)) + 1
      /\ Cardinality(Elems(res_queue')) \in 0..Cardinality(Objs)
  BY <1>0, <1>1, <1>2, PendingUp DEF Counts
<1>6. IdleExact' /\ StartedExact' /\ NoLostWakeup'
  BY <1>3, <1>4 DEF Counts, IdleExact, StartedExact, NoLostWakeup
<1>7. NreqsExact'
  <2>1. nreqs = Cardinality(Ready) + Cardinality(Executing) + Cardinality(Elems(res_queue))
    BY DEF Counts, NreqsExact, Ready
  <2>2. nreqs + 1 < UINT_MOD
    BY <1>0, <1>5, <2>1, CardBounds
  <2>3. nreqs' = nreqs + 1
    BY <1>0, <1>3, <2>2, Numbers DEF Inc
  <2>4. nreqs' = Cardinality(Ready') + Cardinality(Executing') + Cardinality(Elems(res_queue'))
    BY <1>0, <1>4, <1>5, <2>1, <2>3, CardBounds
  <2>5. QED
    BY <2>4 DEF NreqsExact, Ready
<1>8. QED
  BY <1>5, <1>6, <1>7 DEF Counts

\* The shift of etp_poll lowers nreqs and npending with res_queue.
LEMMA TakeResultCounts ==
  ASSUME Struct, Counts, TakeResult, pc' # "enddec"
  PROVE  Counts'
<1>0. TypeOK
  BY DEF Struct
<1>1. /\ First(res_queue) \in Elems(res_queue)
      /\ Elems(res_queue') = Elems(res_queue) \ {First(res_queue)}
  BY TakeResultFacts
<1>2. /\ nreqs' = Dec(nreqs) /\ npending' = Dec(npending) /\ pc = "shift"
      /\ UNCHANGED <<req_queue, wpc, started, idle>>
  BY DEF TakeResult, thrVars
<1>3. /\ Idle' = Idle /\ Executing' = Executing /\ Counted' = Counted /\ Awake' = Awake
      /\ Waiting' = Waiting /\ Ready' = Ready
  BY <1>2 DEF Idle, Executing, Counted, Awake, Waiting, Ready
<1>4. Cardinality(Elems(res_queue')) = Cardinality(Elems(res_queue)) - 1
  BY <1>0, <1>1, CardBounds, CardMinus
<1>5. Cardinality(Elems(res_queue)) # 0
  BY <1>0, <1>1, CardBounds, FS_EmptySet
<1>6. npending' = npending - 1 /\ npending = Cardinality(Elems(res_queue))
  BY <1>0, <1>2, <1>5 DEF Dec, Counts, NpendingExact
<1>7. /\ nreqs = Cardinality(Ready) + Cardinality(Executing) + Cardinality(Elems(res_queue))
      /\ nreqs' = nreqs - 1
  <2>1. nreqs = Cardinality(Ready) + Cardinality(Executing) + Cardinality(Elems(res_queue))
    BY DEF Counts, NreqsExact, Ready
  <2>2. nreqs # 0
    BY <1>0, <1>5, <2>1, Numbers
  <2>3. QED
    BY <1>2, <2>1, <2>2 DEF Dec
<1>8. NpendingExact'
  BY <1>4, <1>6 DEF NpendingExact
<1>9. NreqsExact'
  <2>1. nreqs' = Cardinality(Ready') + Cardinality(Executing') + Cardinality(Elems(res_queue'))
    BY <1>0, <1>3, <1>4, <1>7, CardBounds
  <2>2. QED
    BY <2>1 DEF NreqsExact, Ready
<1>10. IdleExact' /\ StartedExact' /\ NoLostWakeup'
  BY <1>2, <1>3 DEF Counts, IdleExact, StartedExact, NoLostWakeup
<1>11. QED
  BY <1>8, <1>9, <1>10 DEF Counts

\* A worker takes a request, or a QUIT.
LEMMA FetchRequestCounts ==
  ASSUME Struct, Counts, NEW w \in Workers, FetchRequest(w)
  PROVE  Counts'
<1> DEFINE r == First(req_queue)
<1>0. TypeOK
  BY DEF Struct
<1>1. r \in Elems(req_queue) /\ Elems(req_queue') = Elems(req_queue) \ {r}
  BY ShiftQueue, ElemsFinite DEF Struct, TypeOK, FetchRequest
<1>2. /\ w \in Awake /\ idle' = Unidle(w)
      /\ wpc' = [wpc EXCEPT ![w] = IF r \in Quits THEN "quit" ELSE "exec"]
      /\ UNCHANGED <<res_queue, nreqs, npending, started, pc>>
  BY DEF FetchRequest, mainVars
<1> HIDE DEF r
<1>3. \A v \in Workers :
         wpc'[v] = IF v = w THEN (IF r \in Quits THEN "quit" ELSE "exec") ELSE wpc[v]
  BY <1>0, <1>2 DEF TypeOK
<1>4. /\ Awake' = Awake \ {w} /\ Waiting' = Waiting /\ Idle' = Idle \ {w}
  BY <1>2, <1>3 DEF Awake, Waiting, Idle
<1>5. Cardinality(Awake') = Cardinality(Awake) - 1
  BY <1>0, <1>2, <1>4, CardBounds, CardMinus
<1>6. Cardinality(Elems(req_queue')) = Cardinality(Elems(req_queue)) - 1
  BY <1>0, <1>1, CardBounds, CardMinus
<1>7. NoLostWakeup'
  BY <1>0, <1>4, <1>5, <1>6, Numbers DEF Counts, NoLostWakeup
<1>8. NpendingExact'
  BY <1>2 DEF Counts, NpendingExact
<1>9. IdleExact'
  <2>1. CASE w \in Idle
    <3>1. Cardinality(Idle') = Cardinality(Idle) - 1 /\ Cardinality(Idle) # 0
      BY <1>0, <1>4, <2>1, CardBounds, CardMinus, FS_EmptySet
    <3>2. QED
      BY <1>2, <2>1, <3>1 DEF Unidle, Dec, Counts, IdleExact
  <2>2. CASE w \notin Idle
    BY <1>2, <1>4, <2>2 DEF Unidle, Counts, IdleExact
  <2>3. QED
    BY <2>1, <2>2
<1>10. CASE r \in Quits
  <2>1. /\ Executing' = Executing /\ Counted' = Counted \ {w} /\ w \in Counted
        /\ Ready' = Ready /\ QueuedQuits' = QueuedQuits \ {r} /\ r \in QueuedQuits
    BY <1>1, <1>2, <1>3, <1>10 DEF Executing, Counted, Awake, Ready, QueuedQuits
  <2>2. /\ Cardinality(Counted') = Cardinality(Counted) - 1
        /\ Cardinality(QueuedQuits') = Cardinality(QueuedQuits) - 1
    BY <1>0, <2>1, CardBounds, CardMinus
  <2>3. NreqsExact'
    BY <1>2, <2>1 DEF Counts, NreqsExact, Ready
  <2>4. StartedDiff' = StartedDiff
    BY <1>0, <1>2, <2>2, Numbers DEF StartedDiff, Early
  <2>5. StartedExact'
    BY <2>4, StartedExactIff DEF Counts, StartedExact, StartedDiff, QueuedQuits, Early
  <2>6. QED
    BY <1>7, <1>8, <1>9, <2>3, <2>5 DEF Counts
<1>11. CASE r \notin Quits
  <2>1. /\ Executing' = Executing \cup {w} /\ w \notin Executing /\ Counted' = Counted
        /\ Ready' = Ready \ {r} /\ r \in Ready /\ QueuedQuits' = QueuedQuits
    BY <1>1, <1>2, <1>3, <1>11 DEF Executing, Counted, Awake, Ready, QueuedQuits
  <2>2. /\ Cardinality(Executing') = Cardinality(Executing) + 1
        /\ Cardinality(Ready') = Cardinality(Ready) - 1
    BY <1>0, <2>1, CardBounds, CardPlus, CardMinus
  <2>3. NreqsExact'
    BY <1>0, <1>2, <2>2, Numbers DEF Counts, NreqsExact, Ready
  <2>4. StartedExact'
    BY <1>2, <2>1 DEF Counts, StartedExact, QueuedQuits
  <2>5. QED
    BY <1>7, <1>8, <1>9, <2>3, <2>4 DEF Counts
<1>12. QED
  BY <1>10, <1>11

\* A worker with nothing to do.
LEMMA FetchNothingCounts ==
  ASSUME Struct, Counts, NEW w \in Workers, FetchWait(w) \/ FetchGiveUp(w)
  PROVE  Counts'
<1>0. TypeOK
  BY DEF Struct
<1>1. Elems(req_queue) = {} /\ Cardinality(Elems(req_queue)) = 0
  BY SizeZero, ElemsFinite, FS_EmptySet DEF Struct, TypeOK, FetchWait, FetchGiveUp
<1>2. /\ UNCHANGED <<req_queue, res_queue, nreqs, npending, started, pc>>
      /\ w \in Awake
  BY DEF FetchWait, FetchGiveUp, Awake, queueVars, countVars, mainVars
<1>3. PICK x \in {"wait", "twait", "tquit"} : wpc' = [wpc EXCEPT ![w] = x]
  BY DEF FetchWait, FetchGiveUp
<1>4. \A v \in Workers : wpc'[v] = IF v = w THEN x ELSE wpc[v]
  BY <1>0, <1>3 DEF TypeOK
<1>5. Executing' = Executing /\ Counted' = Counted
  BY <1>2, <1>4 DEF Executing, Counted, Awake
<1>6. NpendingExact' /\ NreqsExact' /\ StartedExact'
  BY <1>2, <1>5 DEF Counts, NpendingExact, NreqsExact, StartedExact
<1>7. Cardinality(Awake') \in Nat
  <2>1. Awake' \subseteq Workers
    BY DEF Awake
  <2>2. QED
    BY <2>1, PoolAssumption, FS_Subset, FS_CardinalityType
<1>8. NoLostWakeup'
  BY <1>1, <1>2, <1>7 DEF NoLostWakeup
<1>9. IdleExact'
  <2>1. CASE w \in Idle
    <3>1. Cardinality(Idle) # 0
      BY <1>0, <2>1, CardBounds, FS_EmptySet
    <3>2. Unidle(w) = idle - 1 /\ idle = Cardinality(Idle) /\ idle \in 1..(UINT_MOD - 1)
      BY <1>0, <2>1, <3>1, Numbers DEF Unidle, Dec, Counts, IdleExact
    <3>3. CASE FetchWait(w)
      <4>1. x # "tquit"
        BY <1>0, <1>2, <1>3, <3>3 DEF FetchWait, TypeOK
      <4>2. Idle' = Idle
        BY <1>4, <2>1, <4>1 DEF Idle
      <4>3. idle' = idle
        BY <1>0, <3>2, <3>3, Numbers DEF FetchWait, Inc
      <4>4. QED
        BY <3>2, <4>2, <4>3 DEF IdleExact
    <3>4. CASE FetchGiveUp(w)
      <4>1. x = "tquit"
        BY <1>0, <1>2, <1>3, <3>4 DEF FetchGiveUp, TypeOK
      <4>2. Idle' = Idle \ {w}
        BY <1>4, <4>1 DEF Idle
      <4>3. Cardinality(Idle') = Cardinality(Idle) - 1
        BY <1>0, <2>1, <4>2, CardBounds, CardMinus
      <4>4. QED
        BY <3>2, <3>4, <4>3 DEF IdleExact, FetchGiveUp
    <3>5. QED
      BY <3>3, <3>4
  <2>2. CASE w \notin Idle
    <3>1. FetchWait(w) /\ x # "tquit"
      BY <1>0, <1>3, <2>2 DEF FetchWait, FetchGiveUp, Idle, TypeOK
    <3>2. Idle' = Idle \cup {w}
      BY <1>4, <3>1 DEF Idle
    <3>3. Cardinality(Idle') = Cardinality(Idle) + 1
      BY <1>0, <2>2, <3>2, CardBounds, CardPlus
    <3>4. Cardinality(Idle') \in 0..Cardinality(Workers)
      <4>1. Idle' \subseteq Workers
        BY DEF Idle
      <4>2. QED
        BY <4>1, PoolAssumption, FS_Subset, FS_CardinalityType
    <3>5. idle = Cardinality(Idle) /\ idle + 1 < UINT_MOD
      BY <1>0, <3>3, <3>4, CardBounds DEF Counts, IdleExact
    <3>6. idle' = idle + 1
      BY <1>0, <2>2, <3>1, <3>5, Numbers DEF FetchWait, Unidle, Inc
    <3>7. QED
      BY <3>3, <3>5, <3>6 DEF IdleExact
  <2>3. QED
    BY <2>1, <2>2
<1>10. QED
  BY <1>6, <1>8, <1>9 DEF Counts

\* A worker leaves a wait by itself.
LEMMA WakeCounts ==
  ASSUME Struct, Counts, NEW w \in Workers, Timeout(w) \/ SpuriousWakeup(w)
  PROVE  Counts'
<1>0. TypeOK
  BY DEF Struct
<1>1. /\ UNCHANGED <<req_queue, res_queue, nreqs, npending, started, idle, pc>>
      /\ wpc[w] \in {"wait", "twait"}
  BY DEF Timeout, SpuriousWakeup, Waiting, queueVars, countVars, mainVars
<1>2. PICK x \in {"woken", "timedout"} : wpc' = [wpc EXCEPT ![w] = x]
  BY DEF Timeout, SpuriousWakeup
<1>3. \A v \in Workers : wpc'[v] = IF v = w THEN x ELSE wpc[v]
  BY <1>0, <1>2 DEF TypeOK
<1>4. /\ Executing' = Executing /\ Counted' = Counted /\ Idle' = Idle
      /\ Awake' = Awake \cup {w} /\ w \notin Awake /\ Waiting # {}
  BY <1>1, <1>3 DEF Executing, Counted, Idle, Awake, Waiting
<1>5. Cardinality(Awake') = Cardinality(Awake) + 1
  BY <1>0, <1>4, CardBounds, CardPlus
<1>6. NoLostWakeup'
  BY <1>0, <1>1, <1>4, <1>5, Numbers DEF Counts, NoLostWakeup
<1>7. NpendingExact' /\ NreqsExact' /\ StartedExact' /\ IdleExact'
  BY <1>1, <1>4 DEF Counts, NpendingExact, NreqsExact, StartedExact, IdleExact
<1>8. QED
  BY <1>6, <1>7 DEF Counts

\* A worker moves its request to res_queue: nreqs stays, npending follows.
LEMMA ResultCounts ==
  ASSUME Struct, Counts, NEW w \in Workers, Result(w)
  PROVE  Counts'
<1> DEFINE r == wreq[w]
<1>0. TypeOK
  BY DEF Struct
<1>1. r \in Reqs /\ r \in Objs /\ wpri[w] \in Lanes /\ r \notin Elems(res_queue)
  BY PoolAssumption DEF Struct, WorkerOK, TypeOK, OneOwner, Result, Objs
<1>2. Elems(res_queue') = Elems(res_queue) \cup {r} /\ npending' = Inc(npending)
  BY <1>1, PushRes DEF Result, PushResult
<1>3. /\ wpc[w] = "exec" /\ wpc' = [wpc EXCEPT ![w] = "fetch"]
      /\ UNCHANGED <<req_queue, nreqs, started, idle, pc>>
  BY DEF Result, mainVars
<1> HIDE DEF r
<1>4. \A v \in Workers : wpc'[v] = IF v = w THEN "fetch" ELSE wpc[v]
  BY <1>0, <1>3 DEF TypeOK
<1>5. /\ Executing' = Executing \ {w} /\ w \in Executing /\ Counted' = Counted
      /\ Idle' = Idle /\ Awake' = Awake \cup {w} /\ w \notin Awake /\ Waiting' = Waiting
  BY <1>3, <1>4 DEF Executing, Counted, Idle, Awake, Waiting
<1>6. /\ Cardinality(Executing') = Cardinality(Executing) - 1
      /\ Cardinality(Awake') = Cardinality(Awake) + 1
  BY <1>0, <1>5, CardBounds, CardPlus, CardMinus
<1>7. /\ NpendingExact'
      /\ Cardinality(Elems(res_queue')) = Cardinality(Elems(res_queue)) + 1
  BY <1>0, <1>1, <1>2, PendingUp DEF Counts
<1>8. NreqsExact'
  BY <1>0, <1>3, <1>6, <1>7, Numbers DEF Counts, NreqsExact, Ready
<1>9. NoLostWakeup'
  BY <1>0, <1>3, <1>5, <1>6, Numbers DEF Counts, NoLostWakeup
<1>10. StartedExact' /\ IdleExact'
  BY <1>3, <1>5 DEF Counts, StartedExact, IdleExact
<1>11. QED
  BY <1>7, <1>8, <1>9, <1>10 DEF Counts

\* A worker leaves: --started after a timeout, then the structure is freed.
LEMMA LeaveCounts ==
  ASSUME Struct, Counts, NEW w \in Workers, TimeoutQuit(w) \/ WorkerFree(w)
  PROVE  Counts'
<1>0. TypeOK
  BY DEF Struct
<1>1. /\ UNCHANGED <<req_queue, res_queue, nreqs, npending, idle, pc>>
      /\ wpc[w] \in {"tquit", "quit"}
  BY DEF TimeoutQuit, WorkerFree, queueVars, countVars, mainVars
<1>2. PICK x \in {"quit", "off"} : wpc' = [wpc EXCEPT ![w] = x]
  BY DEF TimeoutQuit, WorkerFree
<1>3. \A v \in Workers : wpc'[v] = IF v = w THEN x ELSE wpc[v]
  BY <1>0, <1>2 DEF TypeOK
<1>4. /\ Executing' = Executing /\ Idle' = Idle /\ Awake' = Awake /\ Waiting' = Waiting
      /\ Counted' = Counted \ {w} /\ QueuedQuits' = QueuedQuits
  BY <1>1, <1>3 DEF Executing, Idle, Awake, Waiting, Counted, QueuedQuits
<1>5. NpendingExact' /\ NreqsExact' /\ IdleExact' /\ NoLostWakeup'
  BY <1>1, <1>4 DEF Counts, NpendingExact, NreqsExact, IdleExact, NoLostWakeup
<1>6. CASE TimeoutQuit(w)
  <2>1. started' = Dec(started) /\ w \in Counted
    BY <1>6 DEF TimeoutQuit, Counted
  <2>2. Cardinality(Counted') = Cardinality(Counted) - 1
    BY <1>0, <1>4, <2>1, CardBounds, CardMinus
  <2>3. started' \in Int
    BY <1>0, <2>1, Numbers DEF Dec
  <2>4. StartedDiff' = StartedDiff - started + started' + 1
    BY <1>0, <1>1, <1>4, <2>2, <2>3, Numbers DEF StartedDiff, Early
  <2>5. StartedDiff' \in {0, UINT_MOD}
    BY <1>0, <2>1, <2>4, StartedMoves DEF Counts
  <2>6. QED
    BY <1>5, <2>5 DEF Counts, StartedExact, StartedDiff, QueuedQuits, Early
<1>7. CASE WorkerFree(w)
  <2>1. Counted' = Counted /\ started' = started
    BY <1>4, <1>7 DEF WorkerFree, Counted
  <2>2. QED
    BY <1>1, <1>5, <2>1 DEF Counts, StartedExact
<1>8. QED
  BY <1>6, <1>7

\* The steps that change no counted set and no counter.
LEMMA QuietCounts ==
  ASSUME Counts,
         \/ MsGuard \/ MsRead \/ MsDecide \/ EndCheck \/ eio_poll \/ php_eio_event_loop
         \/ LoopReady \/ LoopInterrupted \/ PollBegin \/ PollEmpty
         \/ \E n \in ParallelArgs : etp_set_min_parallel(n) \/ etp_set_max_parallel(n)
         \/ \E n \in IdleArgs : etp_set_max_idle(n)
         \/ \E n \in PollReqsArgs : etp_set_max_poll_reqs(n)
         \/ \E set \in PollTimeArgs : etp_set_max_poll_time(set)
         \/ Callback,
         TypeOK
  PROVE  Counts'
<1> DEFINE Quiet == /\ UNCHANGED <<req_queue, res_queue, wpc, started, idle, nreqs, npending>>
                    /\ pc # "enddec" /\ pc' # "enddec"
<1>1. Quiet
  <2>1. CASE MsGuard \/ MsRead \/ MsDecide \/ EndCheck
    BY <2>1 DEF MsGuard, MsRead, MsDecide, EndCheck, GoBack, TypeOK, queueVars, countVars,
                thrVars
  <2>2. CASE eio_poll \/ php_eio_event_loop \/ LoopReady \/ LoopInterrupted
    BY <2>2 DEF eio_poll, php_eio_event_loop, LoopReady, LoopInterrupted, queueVars,
                countVars, thrVars
  <2>3. CASE PollBegin \/ PollEmpty
    BY <2>3 DEF PollBegin, PollEmpty, PollReturn, queueVars, countVars, thrVars
  <2>4. ASSUME NEW n \in ParallelArgs, etp_set_min_parallel(n) \/ etp_set_max_parallel(n)
        PROVE  Quiet
    BY <2>4 DEF etp_set_min_parallel, etp_set_max_parallel, queueVars, countVars, thrVars,
                mainVars
  <2>5. CASE \E n \in IdleArgs : etp_set_max_idle(n)
    BY <2>5 DEF etp_set_max_idle, queueVars, countVars, thrVars, mainVars
  <2>6. CASE \E n \in PollReqsArgs : etp_set_max_poll_reqs(n)
    BY <2>6 DEF etp_set_max_poll_reqs, queueVars, countVars, thrVars, mainVars
  <2>7. CASE \E set \in PollTimeArgs : etp_set_max_poll_time(set)
    BY <2>7 DEF etp_set_max_poll_time, queueVars, countVars, thrVars, mainVars
  <2>8. CASE Callback
    BY <2>8 DEF Callback, GroupDone, CallbackReturn, PollReturn, queueVars, countVars, thrVars
  <2>9. QED
    BY <2>1, <2>2, <2>3, <2>4, <2>5, <2>6, <2>7, <2>8
<1>2. QED
  BY <1>1, CountQuiet

\* A result is taken by PollDelay or by PollFinish.
LEMMA PollTakesCounts ==
  ASSUME Struct, Counts, PollDelay \/ PollFinish
  PROVE  Counts'
BY TakeResultCounts DEF PollDelay, PollFinish

-----------------------------------------------------------------------------
(* The inductive step and the theorems. *)

\* In the initial state there are no requests and no threads.
LEMMA InitCounts == Init => Counts
<1> SUFFICES ASSUME Init PROVE Counts
  OBVIOUS
<1>1. Elems(req_queue) = {} /\ Elems(res_queue) = {}
  BY InitQueue DEF Init
<1>2. Idle = {} /\ Executing = {} /\ Counted = {} /\ Waiting = {}
  BY DEF Init, Idle, Executing, Counted, Waiting
<1>3. Elems(req_queue) \ Quits = {} /\ Elems(req_queue) \cap Quits = {}
  BY <1>1
<1>4. Cardinality({}) = 0
  BY FS_EmptySet
<1>5. NpendingExact /\ NreqsExact
  BY <1>1, <1>2, <1>3, <1>4 DEF NpendingExact, NreqsExact, Init
<1>6. IdleExact /\ NoLostWakeup
  BY <1>2, <1>4 DEF IdleExact, NoLostWakeup, Init
<1>7. StartedExact
  <2>1. started = 0 /\ pc = "user"
    BY DEF Init
  <2>2. Cardinality(QueuedQuits) = 0 /\ Cardinality(Counted) = 0 /\ Early = 0
    BY <1>2, <1>3, <1>4, <2>1 DEF QueuedQuits, Early
  <2>3. StartedDiff = 0
    BY <2>1, <2>2 DEF StartedDiff
  <2>4. QED
    BY <2>3, StartedExactIff
<1>8. QED
  BY <1>5, <1>6, <1>7 DEF Counts

\* Every step of the pool keeps the counters exact.
LEMMA CountsStep ==
  ASSUME Struct, Struct', Counts, [Next]_vars
  PROVE  Counts'
<1>0. TypeOK
  BY DEF Struct
<1>1. CASE MaybeStart
  BY <1>0, <1>1, QuietCounts, StartThreadCounts DEF MaybeStart
<1>2. CASE Script
  <2>1. ASSUME NEW r \in Reqs, NEW pri \in PriArgs, Submit(r, pri)
        PROVE  Counts'
    BY <2>1, SubmitCounts
  <2>2. ASSUME NEW g \in Grps, SubmitGroup(g)
        PROVE  Counts'
    BY <2>2, SubmitGroupCounts
  <2>3. QED
    BY <1>0, <1>2, <2>1, <2>2, QuietCounts DEF Script
<1>3. CASE EndThreads
  <2>1. ASSUME NEW q \in Quits, EndPush(q)
        PROVE  Counts'
    BY <2>1, EndPushCounts
  <2>2. QED
    BY <1>0, <1>3, <2>1, QuietCounts, EndDecCounts DEF EndThreads
<1>4. CASE Poll
  BY <1>0, <1>4, QuietCounts, PollTakesCounts DEF Poll
<1>5. CASE LoopInterrupted \/ Callback
  BY <1>0, <1>5, QuietCounts
<1>6. ASSUME NEW w \in Workers, etp_proc(w)
      PROVE  Counts'
  BY <1>6, FetchRequestCounts, FetchNothingCounts, WakeCounts, ResultCounts, LeaveCounts
     DEF etp_proc, Fetch
<1>7. CASE UNCHANGED vars
  BY <1>7 DEF vars, queueVars, countVars, thrVars, mainVars, Counts, NpendingExact,
     NreqsExact, IdleExact, StartedExact, NoLostWakeup, Idle, Executing, Counted, Awake,
     Waiting
<1>8. QED
  BY <1>1, <1>2, <1>3, <1>4, <1>5, <1>6, <1>7 DEF Next

\* The counters tell the truth in every reachable state.
THEOREM CountsInv == Spec => []Counts
<1>1. Init => Counts
  BY InitCounts
<1>2. Struct /\ Struct' /\ Counts /\ [Next]_vars => Counts'
  BY CountsStep
<1>3. QED
  BY <1>1, <1>2, StructInv, PTL DEF Spec

\* eio_nreqs(), which php_eio_event_loop waits to become 0, counts the requests
\* on the two queues and the ones that workers execute.
THEOREM NreqsCounts == Spec => []NreqsExact
<1>1. Counts => NreqsExact
  BY DEF Counts
<1>2. QED
  BY <1>1, CountsInv, PTL

\* eio_npending() is the number of unhandled results.
THEOREM NpendingCounts == Spec => []NpendingExact
<1>1. Counts => NpendingExact
  BY DEF Counts
<1>2. QED
  BY <1>1, CountsInv, PTL

\* pool->idle, which etp_proc compares with max_idle, counts the waiting workers.
THEOREM IdleCounts == Spec => []IdleExact
<1>1. Counts => IdleExact
  BY DEF Counts
<1>2. QED
  BY <1>1, CountsInv, PTL

\* pool->started is the number of threads minus the queued QUITs, modulo 2^32.
THEOREM StartedCounts == Spec => []StartedExact
<1>1. Counts => StartedExact
  BY DEF Counts
<1>2. QED
  BY <1>1, CountsInv, PTL

\* As long as a worker sleeps, every queued request has a worker that is awake
\* and will look at the queue: etp_proc and X_COND_SIGNAL lose no wakeup.
THEOREM NoWakeupLost == Spec => []NoLostWakeup
<1>1. Counts => NoLostWakeup
  BY DEF Counts
<1>2. QED
  BY <1>1, CountsInv, PTL

\* Replacing the innermost etp_poll call keeps their number.
LEMMA SetTopLen ==
  ASSUME NEW f, NEW s \in Seq(Frame), s # <<>>
  PROVE  Len(<<f>> \o Tail(s)) = Len(s)
<1>1. Tail(s) \in Seq(Frame \cup {f}) /\ Len(Tail(s)) = Len(s) - 1 /\ Len(s) \in Nat
  OBVIOUS
<1>2. <<f>> \in Seq(Frame \cup {f}) /\ Len(<<f>>) = 1
  OBVIOUS
<1>3. QED
  BY <1>1, <1>2, ConcatProperties

\* Only the two steps that return from etp_poll make the stack shorter.
LEMMA StackShrinks ==
  ASSUME Struct, [Next]_vars, Len(stack') < Len(stack)
  PROVE  PollEmpty \/ \E res \in FinishResults : CallbackReturn(res)
<1>0. stack \in Seq(Frame) /\ Len(stack) \in Nat
  BY DEF Struct, TypeOK
<1>1. stack' # stack
  BY <1>0
<1>2. CASE MaybeStart
  BY <1>1, <1>2 DEF MaybeStart, MsGuard, MsRead, MsDecide, StartThread
<1>3. CASE Script
  <2>1. ASSUME NEW f, stack' = <<f>> \o stack
        PROVE  FALSE
    <3>1. stack \in Seq(Frame \cup {f}) /\ <<f>> \in Seq(Frame \cup {f}) /\ Len(<<f>>) = 1
      BY <1>0
    <3>2. Len(stack') = 1 + Len(stack)
      BY <2>1, <3>1, ConcatProperties
    <3>3. QED
      BY <1>0, <3>2
  <2>2. stack' = <<NewFrame(FALSE)>> \o stack \/ stack' = <<NewFrame(TRUE)>> \o stack
    BY <1>1, <1>3 DEF Script, Submit, SubmitGroup, etp_set_min_parallel,
       etp_set_max_parallel, etp_set_max_idle, etp_set_max_poll_reqs,
       etp_set_max_poll_time, eio_poll, php_eio_event_loop, mainVars
  <2>3. QED
    BY <2>1, <2>2
<1>4. CASE EndThreads \/ LoopInterrupted
  BY <1>1, <1>4 DEF EndThreads, EndCheck, EndPush, EndDec, LoopInterrupted
<1>5. CASE Poll
  <2>1. ASSUME NEW f, SetTop(f), stack # <<>>
        PROVE  FALSE
    BY <1>0, <2>1, SetTopLen DEF SetTop
  <2>2. CASE PollBegin
    BY <2>1, <2>2 DEF PollBegin, Struct, StackOK
  <2>3. CASE PollFinish
    BY <2>1, <2>3 DEF PollFinish, TakeResult, Struct, StackOK
  <2>4. QED
    BY <1>1, <1>5, <2>2, <2>3 DEF Poll, LoopReady, PollDelay
<1>6. CASE Callback
  BY <1>1, <1>6 DEF Callback, GroupDone
<1>7. ASSUME NEW w \in Workers, etp_proc(w)
      PROVE  FALSE
  BY <1>1, <1>7 DEF etp_proc, Fetch, FetchRequest, FetchWait, FetchGiveUp, Timeout,
     SpuriousWakeup, Result, TimeoutQuit, WorkerFree, mainVars
<1>8. CASE UNCHANGED vars
  BY <1>1, <1>8 DEF vars, mainVars
<1>9. QED
  BY <1>2, <1>3, <1>4, <1>5, <1>6, <1>7, <1>8 DEF Next

\* With no request counted, there is none.
LEMMA NoneLeft ==
  ASSUME TypeOK, NreqsExact, nreqs = 0
  PROVE  /\ Elems(req_queue) \subseteq Quits /\ Elems(res_queue) = {}
         /\ \A w \in Workers : wpc[w] # "exec"
<1>1. /\ Cardinality(Ready) \in Nat /\ Cardinality(Executing) \in Nat
      /\ Cardinality(Elems(res_queue)) \in Nat
      /\ IsFiniteSet(Ready) /\ IsFiniteSet(Executing) /\ IsFiniteSet(Elems(res_queue))
  BY CardBounds
<1>2. 0 = Cardinality(Ready) + Cardinality(Executing) + Cardinality(Elems(res_queue))
  BY DEF NreqsExact, Ready
<1>3. /\ Cardinality(Ready) = 0 /\ Cardinality(Executing) = 0
      /\ Cardinality(Elems(res_queue)) = 0
  BY <1>1, <1>2
<1>4. Ready = {} /\ Executing = {} /\ Elems(res_queue) = {}
  BY <1>1, <1>3, FS_EmptySet
<1>5. QED
  BY <1>4 DEF Ready, Executing

\* A step that ends a call of php_eio_event_loop leaves no request behind.
LEMMA LoopReturnStep ==
  ASSUME Struct, Counts, [Next]_vars
  PROVE  [LoopReturns]_vars
<1> SUFFICES ASSUME Len(stack') < Len(stack), Top.loop
             PROVE  /\ Elems(req_queue') \subseteq Quits /\ Elems(res_queue') = {}
                    /\ \A w \in Workers : wpc'[w] # "exec"
  BY DEF LoopReturns
<1>1. PollEmpty \/ \E res \in FinishResults : CallbackReturn(res)
  BY StackShrinks
<1>2. UNCHANGED <<req_queue, res_queue, wpc>>
  BY <1>1 DEF PollEmpty, CallbackReturn, queueVars, thrVars
<1>3. /\ stack # <<>> /\ stack \in Seq(Frame)
      /\ \A f : ~SetTop(f)
  <2>1. stack # <<>> /\ stack \in Seq(Frame)
    BY <1>1 DEF PollEmpty, CallbackReturn, Struct, StackOK, TypeOK
  <2>2. QED
    BY <2>1, SetTopLen DEF SetTop
<1>4. nreqs = 0
  BY <1>1, <1>3 DEF PollEmpty, CallbackReturn, PollReturn
<1>5. TypeOK /\ NreqsExact
  BY DEF Struct, Counts
<1>6. QED
  BY <1>2, <1>4, <1>5, NoneLeft

\* eio_event_loop returns only when nothing is queued, executed or unhandled.
THEOREM LoopReturnsWhenDone == Spec => LoopReturnsEmpty
<1>1. Struct /\ Counts /\ [Next]_vars => [LoopReturns]_vars
  BY LoopReturnStep
<1>2. QED
  BY <1>1, StructInv, CountsInv, PTL DEF Spec, LoopReturnsEmpty

-----------------------------------------------------------------------------
(* The limit on threads. *)

\* The threads that no queued QUIT will stop.
Threads == Cardinality(Counted) - Cardinality(QueuedQuits)

\* While etp_maybe_start_thread is at work there is room for one more.
Limit ==
    /\ pc \notin {"endchk", "endpush", "enddec"} => Threads <= wanted
    /\ pc \in {"ms2", "msP", "msS", "start"} => Threads < wanted

\* The counted threads without the QUITs are started, or, when started has
\* wrapped, less than it.
LEMMA CountOf ==
  ASSUME NEW C \in SUBSET Workers, NEW Q \in SUBSET Quits, NEW s \in UInt, NEW e \in {0, 1},
         s + Cardinality(Q) - e - Cardinality(C) \in {0, UINT_MOD}, NEW t,
         t = Cardinality(C) - Cardinality(Q)
  PROVE  /\ s \in Nat /\ UINT_MOD \in Nat /\ s < UINT_MOD
         /\ t \in Int /\ t <= Cardinality(Workers) /\ -Cardinality(Objs) <= t
         /\ t + e \in {s, s - UINT_MOD}
<1>1. /\ IsFiniteSet(Workers) /\ Cardinality(C) \in Nat
      /\ Cardinality(Workers) \in Nat /\ Cardinality(C) <= Cardinality(Workers)
  BY PoolAssumption, FS_Subset, FS_CardinalityType
<1>2. /\ Q \subseteq Objs /\ IsFiniteSet(Objs)
  BY PoolAssumption DEF Objs
<1>3. /\ Cardinality(Q) \in Nat /\ Cardinality(Objs) \in Nat
      /\ Cardinality(Q) <= Cardinality(Objs)
  BY <1>2, FS_Subset, FS_CardinalityType
<1>4. PICK c \in Nat : c = Cardinality(C)
  BY <1>1
<1>5. PICK q \in Nat : q = Cardinality(Q)
  BY <1>3
<1>6. UINT_MOD \in Nat /\ c <= Cardinality(Workers) /\ q <= Cardinality(Objs)
  BY <1>1, <1>3, <1>4, <1>5, PoolAssumption
<1>7. s \in Nat /\ s < UINT_MOD
  BY <1>6 DEF UInt
<1>8. t = c - q /\ s + q - e - c \in {0, UINT_MOD}
  BY <1>4, <1>5
<1>9. QED
  BY <1>1, <1>3, <1>6, <1>7, <1>8

\* Before a step, and after it.
LEMMA ThreadsStarted ==
  ASSUME Struct, Counts
  PROVE  /\ started \in Nat /\ UINT_MOD \in Nat /\ started < UINT_MOD
         /\ Threads \in Int /\ Threads <= Cardinality(Workers) /\ -Cardinality(Objs) <= Threads
         /\ Threads + Early \in {started, started - UINT_MOD}
<1>1. Counted \in SUBSET Workers /\ QueuedQuits \in SUBSET Quits /\ Early \in {0, 1}
  BY DEF Counted, QueuedQuits, Early
<1>2. started \in UInt
  BY DEF Struct, TypeOK
<1>3. started + Cardinality(QueuedQuits) - Early - Cardinality(Counted) \in {0, UINT_MOD}
  BY StartedExactIff DEF Counts, StartedDiff
<1>4. QED
  BY <1>1, <1>2, <1>3, CountOf DEF Threads

LEMMA ThreadsStartedNext ==
  ASSUME Struct', Counts'
  PROVE  /\ started' \in Nat /\ UINT_MOD \in Nat /\ started' < UINT_MOD
         /\ Threads' \in Int /\ Threads' <= Cardinality(Workers) /\ -Cardinality(Objs) <= Threads'
         /\ Threads' + Early' \in {started', started' - UINT_MOD}
<1>1. Counted' \in SUBSET Workers /\ QueuedQuits' \in SUBSET Quits /\ Early' \in {0, 1}
  BY DEF Counted, QueuedQuits, Early
<1>2. started' \in UInt
  BY DEF Struct, TypeOK
<1>3. started' + Cardinality(QueuedQuits') - Early' - Cardinality(Counted') \in {0, UINT_MOD}
  BY DEF Counts, StartedExact, QueuedQuits, Early
<1>4. QED
  BY <1>1, <1>2, <1>3, CountOf DEF Threads

\* So how started moves tells how the number of threads does.
LEMMA ThreadsMove ==
  ASSUME Struct, Struct', Counts, Counts', Early' = Early
  PROVE  /\ started' = started => Threads' = Threads
         /\ started' = Dec(started) => Threads' = Threads - 1
         /\ started' = Inc(started) => Threads' = Threads + 1
<1>1. /\ started \in Nat /\ UINT_MOD \in Nat /\ started < UINT_MOD
      /\ Threads \in Int /\ Threads <= Cardinality(Workers) /\ -Cardinality(Objs) <= Threads
      /\ Threads + Early \in {started, started - UINT_MOD}
  BY ThreadsStarted
<1>2. /\ started' \in Nat /\ started' < UINT_MOD
      /\ Threads' \in Int /\ Threads' <= Cardinality(Workers) /\ -Cardinality(Objs) <= Threads'
      /\ Threads' + Early \in {started', started' - UINT_MOD}
  BY ThreadsStartedNext
<1>3. PICK e \in Nat : e = Early /\ e <= 1
  <2>1. Early \in {0, 1}
    BY DEF Early
  <2>2. QED
    BY <2>1
<1>4. PICK s \in Nat : s = started
  BY <1>1
<1>5. PICK sp \in Nat : sp = started'
  BY <1>2
<1>6. PICK t \in Int : t = Threads
  BY <1>1
<1>7. PICK tp \in Int : tp = Threads'
  BY <1>2
<1>8. /\ UINT_MOD \in Nat /\ s < UINT_MOD /\ sp < UINT_MOD
      /\ t + e \in {s, s - UINT_MOD} /\ tp + e \in {sp, sp - UINT_MOD}
      /\ 2 * (t - tp) < UINT_MOD /\ 2 * (tp - t) < UINT_MOD
  <2>1. PICK o \in Nat : o = Cardinality(Objs)
    BY PoolAssumption, FS_CardinalityType
  <2>2. PICK w \in Nat : w = Cardinality(Workers)
    BY PoolAssumption, FS_CardinalityType
  <2>3. UINT_MOD \in Nat /\ 2 * (o + w) < UINT_MOD
    BY <2>1, <2>2, PoolAssumption
  <2>4. t <= w /\ -o <= t /\ tp <= w /\ -o <= tp
    BY <1>1, <1>2, <1>6, <1>7, <2>1, <2>2
  <2>5. 2 * (t - tp) < UINT_MOD /\ 2 * (tp - t) < UINT_MOD
    BY <2>3, <2>4
  <2>6. QED
    BY <1>1, <1>2, <1>3, <1>4, <1>5, <1>6, <1>7, <2>5
<1>9. /\ Dec(started) = IF s = 0 THEN UINT_MOD - 1 ELSE s - 1
      /\ Inc(started) = IF s = UINT_MOD - 1 THEN 0 ELSE s + 1
  BY <1>4 DEF Dec, Inc
<1>10. sp = s => tp = t
  BY <1>8
<1>11. sp = (IF s = 0 THEN UINT_MOD - 1 ELSE s - 1) => tp = t - 1
  <2>1. CASE s = 0
    BY <1>3, <1>8, <2>1, UintAssumption
  <2>2. CASE s # 0
    BY <1>3, <1>8, <2>2, UintAssumption
  <2>3. QED
    BY <2>1, <2>2
<1>12. sp = (IF s = UINT_MOD - 1 THEN 0 ELSE s + 1) => tp = t + 1
  <2>1. CASE s = UINT_MOD - 1
    BY <1>3, <1>8, <2>1, UintAssumption
  <2>2. CASE s # UINT_MOD - 1
    BY <1>3, <1>8, <2>2, UintAssumption
  <2>3. QED
    BY <2>1, <2>2
<1>13. QED
  BY <1>4, <1>5, <1>6, <1>7, <1>9, <1>10, <1>11, <1>12

\* wanted is a natural number.
LEMMA WantedNat == Struct => wanted \in Nat
BY UIntType DEF Struct, TypeOK, UInt

\* A worker's step never adds to them.
LEMMA WorkerLimit ==
  ASSUME Struct, Struct', Counts, Counts', Limit, NEW w \in Workers, etp_proc(w)
  PROVE  Limit'
<1>1. UNCHANGED <<wanted, pc>> /\ started' \in {started, Dec(started)}
  BY DEF etp_proc, Fetch, FetchRequest, FetchWait, FetchGiveUp, Timeout, SpuriousWakeup, Result,
     TimeoutQuit, WorkerFree, confVars, mainVars
<1>2. Early' = Early
  BY <1>1 DEF Early
<1>3. Threads' \in {Threads, Threads - 1}
  BY <1>1, <1>2, ThreadsMove
<1>4. Threads \in Int /\ wanted \in Int
  BY ThreadsStarted, WantedNat
<1>5. QED
  BY <1>1, <1>3, <1>4 DEF Limit

\* The PHP thread's steps and the limit.
LEMMA MainLimit ==
  ASSUME Struct, Struct', Counts, Counts', Limit,
         MaybeStart \/ Script \/ EndThreads \/ Poll \/ LoopInterrupted \/ Callback
  PROVE  Limit'
<1>0. /\ wanted \in Nat /\ UINT_MOD \in Nat /\ Threads \in Int /\ started \in Nat
      /\ pc \in MainPC /\ ret \in {"user", "shift"}
  BY ThreadsStarted, WantedNat DEF Struct, TypeOK
<1>1. pc # "enddec" => Threads <= started
  <2>1. Threads + Early \in {started, started - UINT_MOD}
    BY ThreadsStarted
  <2>2. QED
    BY <1>0, <2>1 DEF Early
<1>2. CASE MaybeStart
  <2>1. UNCHANGED wanted /\ pc \in {"ms1", "ms2", "msP", "msS", "start"}
    BY <1>2 DEF MaybeStart, MsGuard, MsRead, MsDecide, StartThread, confVars
  <2>2. pc' \in {ret, "ms2", "msP", "msS", "start"}
    BY <1>2 DEF MaybeStart, MsGuard, MsRead, MsDecide, StartThread, GoBack
  <2>3. Early' = Early
    BY <1>0, <2>1, <2>2 DEF Early
  <2>4. CASE StartThread
    <3>1. pc = "start" /\ pc' = ret /\ started' \in {started, Inc(started)}
      BY <2>4 DEF StartThread, GoBack
    <3>2. Threads < wanted /\ Threads' \in {Threads, Threads + 1}
      BY <2>3, <3>1, ThreadsMove DEF Limit
    <3>3. QED
      BY <1>0, <2>1, <3>1, <3>2 DEF Limit
  <2>5. CASE MsGuard
    <3>1. Threads' = Threads
      BY <2>3, <2>5, ThreadsMove DEF MsGuard, thrVars
    <3>2. pc = "ms1" /\ (pc' = ret \/ started < wanted)
      BY <1>0, <2>5 DEF MsGuard, GoBack
    <3>3. QED
      BY <1>0, <1>1, <2>1, <3>1, <3>2 DEF Limit
  <2>6. CASE MsRead \/ MsDecide
    <3>1. Threads' = Threads
      BY <2>3, <2>6, ThreadsMove DEF MsRead, MsDecide, thrVars
    <3>2. pc \in {"ms2", "msP", "msS"}
      BY <2>6 DEF MsRead, MsDecide
    <3>3. QED
      BY <1>0, <2>1, <2>2, <3>1, <3>2 DEF Limit
  <2>7. QED
    BY <1>2, <2>4, <2>5, <2>6 DEF MaybeStart
<1>3. CASE Script
  <2>1. pc = "user" /\ started' = started
    BY <1>3 DEF Script, Submit, SubmitGroup, etp_set_min_parallel, etp_set_max_parallel,
       etp_set_max_idle, etp_set_max_poll_reqs, etp_set_max_poll_time, eio_poll,
       php_eio_event_loop, thrVars
  <2>2. \/ pc' = "endchk"
        \/ pc' \in {"user", "ms1", "poll", "wait"} /\ wanted' = wanted
        \/ pc' = "user" /\ wanted < wanted' /\ wanted' \in ParallelArgs
    BY <1>3 DEF Script, Submit, SubmitGroup, etp_set_min_parallel, etp_set_max_parallel,
       etp_set_max_idle, etp_set_max_poll_reqs, etp_set_max_poll_time, eio_poll,
       php_eio_event_loop, confVars, mainVars
  <2>3. Threads' = Threads
    <3>1. Early' = Early
      BY <2>1, <2>2 DEF Early
    <3>2. QED
      BY <2>1, <3>1, ThreadsMove
  <2>4. wanted' \in ParallelArgs => wanted' \in Nat
    BY PoolAssumption
  <2>5. \/ pc' = "endchk"
        \/ pc' \in {"user", "ms1", "poll", "wait"} /\ Threads' <= wanted'
    BY <1>0, <2>1, <2>2, <2>3, <2>4 DEF Limit
  <2>6. QED
    BY <2>5 DEF Limit
<1>4. CASE EndThreads
  <2>1. CASE EndCheck
    <3>1. pc = "endchk" /\ started' = started /\ wanted' = wanted
      BY <2>1 DEF EndCheck, thrVars, confVars
    <3>2. pc' = "endpush" \/ (pc' = "user" /\ started <= wanted)
      BY <1>0, <2>1 DEF EndCheck
    <3>3. Threads' = Threads
      <4>1. Early' = Early
        BY <3>1, <3>2 DEF Early
      <4>2. QED
        BY <3>1, <4>1, ThreadsMove
    <3>4. QED
      BY <1>0, <1>1, <3>1, <3>2, <3>3 DEF Limit
  <2>2. CASE EndDec \/ \E q \in Quits : EndPush(q)
    BY <2>2 DEF EndDec, EndPush, Limit
  <2>3. QED
    BY <1>4, <2>1, <2>2 DEF EndThreads
<1>5. CASE Poll \/ LoopInterrupted \/ Callback
  <2>1. /\ UNCHANGED <<started, wanted>> /\ pc \in {"wait", "poll", "shift", "user"}
        /\ pc' \in {"wait", "poll", "ms1", "user"}
    BY <1>5 DEF Poll, LoopReady, PollBegin, PollEmpty, PollDelay, PollFinish, TakeResult,
       PollReturn, LoopInterrupted, Callback, GroupDone, CallbackReturn, confVars, thrVars
  <2>2. Threads' = Threads
    <3>1. Early' = Early
      BY <2>1 DEF Early
    <3>2. QED
      BY <2>1, <3>1, ThreadsMove
  <2>3. QED
    BY <2>1, <2>2 DEF Limit
<1>6. QED
  BY <1>2, <1>3, <1>4, <1>5

\* Every step keeps the limit.
LEMMA LimitStep ==
  ASSUME Struct, Struct', Counts, Counts', Limit, [Next]_vars
  PROVE  Limit'
<1>1. CASE MaybeStart \/ Script \/ EndThreads \/ Poll \/ LoopInterrupted \/ Callback
  BY <1>1, MainLimit
<1>2. ASSUME NEW w \in Workers, etp_proc(w)
      PROVE  Limit'
  BY <1>2, WorkerLimit
<1>3. CASE UNCHANGED vars
  BY <1>3 DEF vars, confVars, thrVars, mainVars, queueVars, Limit, Threads, Counted, QueuedQuits
<1>4. QED
  BY <1>1, <1>2, <1>3 DEF Next

\* Outside etp_set_max_parallel there are never more than wanted threads besides
\* the ones that a queued QUIT will stop, for any number of threads and requests,
\* with timeouts, failing xthread_create, and max_parallel raised and lowered at
\* any time; also when started has wrapped below 0.
THEOREM ThreadsLimited == Spec => []ThreadLimit
<1>1. Init => Limit
  <2>1. ASSUME Init PROVE Counted = {} /\ wanted \in Nat /\ pc = "user"
    BY <2>1, PoolAssumption DEF Init, Counted
  <2>2. ASSUME Init PROVE Cardinality(QueuedQuits) \in Nat
    BY <2>2, InitStruct, CardBounds DEF Struct
  <2>3. QED
    BY <2>1, <2>2, FS_EmptySet DEF Limit, Threads
<1>2. Struct /\ Struct' /\ Counts /\ Counts' /\ Limit /\ [Next]_vars => Limit'
  BY LimitStep
<1>3. Struct /\ Limit => ThreadLimit
  <2>1. ASSUME Struct
        PROVE  /\ Cardinality(Counted) \in Nat /\ Cardinality(QueuedQuits) \in Nat
               /\ wanted \in Nat
    BY <2>1, CardBounds, WantedNat DEF Struct
  <2>2. QED
    BY <2>1 DEF Limit, Threads, ThreadLimit, QueuedQuits
<1>4. QED
  BY <1>1, <1>2, <1>3, StructInv, CountsInv, PTL DEF Spec
=============================================================================
