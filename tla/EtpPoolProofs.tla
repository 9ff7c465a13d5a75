---------------------------- MODULE EtpPoolProofs ----------------------------
(***************************************************************************)
(* Theorems about EtpPool, for any number of requests, groups, workers and *)
(* priorities, any configuration and any nesting of eio_poll.              *)
(***************************************************************************)
EXTENDS EtpPool, FiniteSetTheorems, SequenceTheorems, WellFoundedInduction, TLAPS

(* What the operators of Reqq do to the set of queued requests, for any     *)
(* number of priorities and any queue.                                     *)

\* A request is queued iff it is at some position of some lane.
LEMMA ElemsIff ==
  ASSUME NEW q, NEW x
  PROVE  x \in Elems(q) <=>
           \E p \in Lanes : \E i \in 1..Len(q.lane[p]) : x = q.lane[p][i]
BY DEF Elems

\* In a queue without duplicates a request has one position.
LEMMA NoDupAt ==
  ASSUME NEW q, NoDup(q), NEW p1 \in Lanes, NEW p2 \in Lanes,
         NEW i \in 1..Len(q.lane[p1]), NEW j \in 1..Len(q.lane[p2]),
         q.lane[p1][i] = q.lane[p2][j]
  PROVE  p1 = p2 /\ i = j
BY DEF NoDup

\* reqq_init yields an empty queue whose size is right.
LEMMA InitQueue ==
  ASSUME NEW Obj
  PROVE  /\ reqq_init \in Queues(Obj)
         /\ Elems(reqq_init) = {}
         /\ QueueOK(reqq_init)
<1>1. reqq_init \in Queues(Obj)
  BY DEF reqq_init, Queues
<1>2. \A p \in Lanes : Len(reqq_init.lane[p]) = 0
  BY DEF reqq_init
<1>3. Elems(reqq_init) = {}
  BY <1>2, ElemsIff
<1>4. NoDup(reqq_init)
  BY <1>2 DEF NoDup
<1>5. QED
  BY <1>1, <1>3, <1>4, FS_EmptySet DEF QueueOK, reqq_init

\* A lane is occupied iff some request is queued.
LEMMA OccupiedIff ==
  ASSUME NEW Obj, NEW q \in Queues(Obj)
  PROVE  Occupied(q) # {} <=> Elems(q) # {}
<1>1. \A p \in Lanes : q.lane[p] \in Seq(Obj)
  BY DEF Queues
<1>2. ASSUME NEW p \in Occupied(q)
      PROVE  q.lane[p][1] \in Elems(q)
  <2>1. p \in Lanes /\ q.lane[p] # <<>> /\ 1 \in 1..Len(q.lane[p])
    BY <1>1 DEF Occupied
  <2>2. QED
    BY <2>1, ElemsIff
<1>3. ASSUME NEW x \in Elems(q)
      PROVE  Occupied(q) # {}
  <2>1. PICK p \in Lanes : \E i \in 1..Len(q.lane[p]) : x = q.lane[p][i]
    BY ElemsIff
  <2>2. q.lane[p] # <<>>
    BY <1>1, <2>1
  <2>3. QED
    BY <2>2 DEF Occupied
<1>4. QED
  BY <1>2, <1>3

\* The loop of reqq_shift finds a lane when one is occupied: the occupied lane
\* of the highest priority.
LEMMA TopLaneExists ==
  ASSUME NEW q, Occupied(q) # {}
  PROVE  /\ TopLane(q) \in Occupied(q)
         /\ \A p \in Occupied(q) : p <= TopLane(q)
<1>1. TopPri \in Int /\ Lanes = 0..TopPri
  BY PriAssumption DEF TopPri, Lanes
<1>2. Occupied(q) \subseteq 0..TopPri
  BY <1>1 DEF Occupied
<1> DEFINE T == {TopPri - p : p \in Occupied(q)}
<1>3. T \subseteq Nat /\ T # {}
  BY <1>1, <1>2
<1>4. PICK t \in T : \A y \in T : ~(<<y, t>> \in OpToRel(<, Nat))
  <2> HIDE DEF T
  <2> QED BY <1>3, NatLessThanWellFounded, WFMin
<1>5. \A y \in T : t <= y
  <2> SUFFICES ASSUME NEW y \in T, ~(t <= y) PROVE FALSE
    OBVIOUS
  <2>1. y \in Nat /\ t \in Nat /\ y < t
    BY <1>3
  <2>2. <<y, t>> \in OpToRel(<, Nat)
    BY <2>1 DEF OpToRel
  <2>3. QED
    BY <1>4, <2>2
<1>6. PICK p \in Occupied(q) : t = TopPri - p
  OBVIOUS
<1>7. ASSUME NEW p2 \in Occupied(q)
      PROVE  p2 <= p
  <2>1. TopPri - p2 \in T
    OBVIOUS
  <2>2. t <= TopPri - p2
    BY <1>5, <2>1
  <2>3. p \in 0..TopPri /\ p2 \in 0..TopPri
    BY <1>2
  <2> HIDE DEF T
  <2>4. QED
    BY <1>1, <1>6, <2>2, <2>3
<1>8. QED
  BY <1>7 DEF TopLane

\* Pushing a request adds it to the queued requests and keeps the size field
\* right, provided it was not queued already.
LEMMA PushQueue ==
  ASSUME NEW Obj, NEW q \in Queues(Obj), NEW r \in Obj, NEW p \in Lanes
  PROVE  /\ reqq_push(q, r, p) \in Queues(Obj)
         /\ Elems(reqq_push(q, r, p)) = Elems(q) \cup {r}
         /\ r \notin Elems(q) /\ QueueOK(q) /\ IsFiniteSet(Elems(q))
               => QueueOK(reqq_push(q, r, p))
<1> DEFINE n == reqq_push(q, r, p)
<1>1. q.lane \in [Lanes -> Seq(Obj)] /\ q.size \in Nat
  BY DEF Queues
<1>2. /\ n.lane[p] = Append(q.lane[p], r)
      /\ \A p2 \in Lanes : p2 # p => n.lane[p2] = q.lane[p2]
      /\ n.size = q.size + 1
  BY <1>1 DEF reqq_push
<1>3. n \in Queues(Obj)
  BY <1>1 DEF reqq_push, Queues
<1>4. /\ Len(n.lane[p]) = Len(q.lane[p]) + 1
      /\ Len(q.lane[p]) \in Nat
      /\ \A i \in 1..Len(q.lane[p]) : n.lane[p][i] = q.lane[p][i]
      /\ n.lane[p][Len(q.lane[p]) + 1] = r
  BY <1>1, <1>2
<1> HIDE DEF n
<1>5. ASSUME NEW x
      PROVE  x \in Elems(n) <=> x \in Elems(q) \cup {r}
  <2>1. ASSUME x \in Elems(n) PROVE x \in Elems(q) \cup {r}
    <3>0. PICK p2 \in Lanes : \E i \in 1..Len(n.lane[p2]) : x = n.lane[p2][i]
      BY <2>1, ElemsIff
    <3>1. PICK i \in 1..Len(n.lane[p2]) : x = n.lane[p2][i]
      BY <3>0
    <3>2. CASE p2 # p
      BY <1>2, <3>1, <3>2, ElemsIff
    <3>3. CASE p2 = p /\ i \in 1..Len(q.lane[p])
      BY <1>4, <3>1, <3>3, ElemsIff
    <3>4. CASE p2 = p /\ i = Len(q.lane[p]) + 1
      BY <1>4, <3>1, <3>4
    <3>5. QED
      BY <1>4, <3>1, <3>2, <3>3, <3>4
  <2>2. ASSUME x \in Elems(q) PROVE x \in Elems(n)
    <3>0. PICK p2 \in Lanes : \E i \in 1..Len(q.lane[p2]) : x = q.lane[p2][i]
      BY <2>2, ElemsIff
    <3>1. PICK i \in 1..Len(q.lane[p2]) : x = q.lane[p2][i]
      BY <3>0
    <3>2. CASE p2 = p
      <4>1. i \in 1..Len(n.lane[p]) /\ n.lane[p][i] = q.lane[p][i]
        BY <1>4, <3>1, <3>2
      <4>2. QED
        BY <3>1, <3>2, <4>1, ElemsIff
    <3>3. CASE p2 # p
      BY <1>2, <3>1, <3>3, ElemsIff
    <3>4. QED
      BY <3>2, <3>3
  <2>3. r \in Elems(n)
    <3>1. Len(q.lane[p]) + 1 \in 1..Len(n.lane[p])
      BY <1>4
    <3>2. QED
      BY <1>4, <3>1, ElemsIff
  <2>4. QED
    BY <2>1, <2>2, <2>3
<1>6. Elems(n) = Elems(q) \cup {r}
  BY <1>5
<1>7. ASSUME r \notin Elems(q), QueueOK(q), IsFiniteSet(Elems(q))
      PROVE  QueueOK(n)
  <2>1. n.size = Cardinality(Elems(n))
    BY <1>1, <1>2, <1>6, <1>7, FS_AddElement DEF QueueOK
  <2>2. \A p2 \in Lanes : \A i \in 1..Len(q.lane[p2]) : q.lane[p2][i] # r
    BY <1>7, ElemsIff
  <2>3. SUFFICES ASSUME NEW p1 \in Lanes, NEW p2 \in Lanes,
                        NEW i \in 1..Len(n.lane[p1]), NEW j \in 1..Len(n.lane[p2]),
                        n.lane[p1][i] = n.lane[p2][j]
                 PROVE  p1 = p2 /\ i = j
    BY <2>1 DEF QueueOK, NoDup
  <2>0. \A pp \in Lanes : \A m \in 1..Len(n.lane[pp]) :
           m \notin 1..Len(q.lane[pp]) => pp = p /\ m = Len(q.lane[p]) + 1
    <3>1. SUFFICES ASSUME NEW pp \in Lanes, NEW m \in 1..Len(n.lane[pp]),
                          m \notin 1..Len(q.lane[pp])
                   PROVE  pp = p /\ m = Len(q.lane[p]) + 1
      OBVIOUS
    <3>2. pp = p
      BY <1>2, <3>1
    <3>3. QED
      BY <1>4, <3>1, <3>2
  <2>4. CASE i \in 1..Len(q.lane[p1]) /\ j \in 1..Len(q.lane[p2])
    <3>1. n.lane[p1][i] = q.lane[p1][i] /\ n.lane[p2][j] = q.lane[p2][j]
      BY <1>2, <1>4, <2>4
    <3>2. q.lane[p1][i] = q.lane[p2][j]
      BY <2>3, <3>1
    <3>3. NoDup(q)
      BY <1>7 DEF QueueOK
    <3>4. QED
      BY <2>4, <3>2, <3>3, NoDupAt, ZenonT(30)
  <2>5. CASE i \in 1..Len(q.lane[p1]) /\ j \notin 1..Len(q.lane[p2])
    <3>1. p2 = p /\ j = Len(q.lane[p]) + 1
      BY <2>0, <2>5
    <3>2. n.lane[p2][j] = r /\ n.lane[p1][i] = q.lane[p1][i]
      BY <1>2, <1>4, <2>5, <3>1
    <3>3. QED
      BY <2>2, <2>3, <2>5, <3>2
  <2>6. CASE i \notin 1..Len(q.lane[p1]) /\ j \in 1..Len(q.lane[p2])
    <3>1. p1 = p /\ i = Len(q.lane[p]) + 1
      BY <2>0, <2>6
    <3>2. n.lane[p1][i] = r /\ n.lane[p2][j] = q.lane[p2][j]
      BY <1>2, <1>4, <2>6, <3>1
    <3>3. QED
      BY <2>2, <2>3, <2>6, <3>2
  <2>7. CASE i \notin 1..Len(q.lane[p1]) /\ j \notin 1..Len(q.lane[p2])
    <3>1. p1 = p /\ i = Len(q.lane[p]) + 1
      BY <2>0, <2>7
    <3>2. p2 = p /\ j = Len(q.lane[p]) + 1
      BY <2>0, <2>7
    <3>3. QED
      BY <3>1, <3>2
  <2>8. QED
    BY <2>4, <2>5, <2>6, <2>7
<1>8. QED
  BY <1>3, <1>6, <1>7 DEF n

\* A queue whose size field is right is empty iff its size is 0, and then
\* reqq_shift cannot abort.
LEMMA SizeZero ==
  ASSUME NEW Obj, NEW q \in Queues(Obj), QueueOK(q), IsFiniteSet(Elems(q))
  PROVE  /\ q.size = 0 <=> Elems(q) = {}
         /\ ~Aborts(q)
<1>1. q.size = 0 <=> Elems(q) = {}
  BY FS_EmptySet DEF QueueOK
<1>2. QED
  BY <1>1, OccupiedIff DEF Aborts

\* Shifting a non-empty queue returns a queued request, takes exactly that
\* one off and keeps the size field right.
LEMMA ShiftQueue ==
  ASSUME NEW Obj, NEW q \in Queues(Obj), QueueOK(q), IsFiniteSet(Elems(q)),
         q.size # 0
  PROVE  /\ First(q) \in Elems(q)
         /\ First(q) \in Obj
         /\ TopLane(q) \in Lanes
         /\ reqq_shift(q) \in Queues(Obj)
         /\ Elems(reqq_shift(q)) = Elems(q) \ {First(q)}
         /\ QueueOK(reqq_shift(q))
<1> DEFINE n == reqq_shift(q)
           p == TopLane(q)
<1>1. q.lane \in [Lanes -> Seq(Obj)] /\ q.size \in Nat
  BY DEF Queues
<1>2. p \in Lanes /\ q.lane[p] # <<>> /\ q.lane[p] \in Seq(Obj)
  <2>1. Occupied(q) # {}
    BY SizeZero, OccupiedIff
  <2>2. QED
    BY <1>1, <2>1, TopLaneExists DEF Occupied
<1>3. /\ n.lane[p] = Tail(q.lane[p])
      /\ \A p2 \in Lanes : p2 # p => n.lane[p2] = q.lane[p2]
      /\ n.size = q.size - 1
      /\ First(q) = q.lane[p][1]
  BY <1>1, <1>2 DEF reqq_shift, First
<1>4. n \in Queues(Obj)
  BY <1>1, <1>2 DEF reqq_shift, Queues
<1>5. /\ Len(q.lane[p]) \in Nat \ {0}
      /\ Len(n.lane[p]) = Len(q.lane[p]) - 1
      /\ \A i \in 1..Len(n.lane[p]) : n.lane[p][i] = q.lane[p][i + 1]
  BY <1>2, <1>3
<1>6. First(q) \in Elems(q) /\ First(q) \in Obj
  BY <1>2, <1>3, <1>5, ElemsIff
<1> HIDE DEF n, p
<1>7. ASSUME NEW x
      PROVE  x \in Elems(n) <=> x \in Elems(q) \ {First(q)}
  <2>1. ASSUME x \in Elems(n) PROVE x \in Elems(q) \ {First(q)}
    <3>0. PICK p2 \in Lanes : \E i \in 1..Len(n.lane[p2]) : x = n.lane[p2][i]
      BY <2>1, ElemsIff
    <3>1. PICK i \in 1..Len(n.lane[p2]) : x = n.lane[p2][i]
      BY <3>0
    <3>2. CASE p2 # p
      BY <1>2, <1>3, <1>5, <3>1, <3>2, ElemsIff DEF QueueOK, NoDup
    <3>3. CASE p2 = p
      <4>1. i + 1 \in 1..Len(q.lane[p]) /\ x = q.lane[p][i + 1] /\ i + 1 # 1
        BY <1>5, <3>1, <3>3
      <4>2. 1 \in 1..Len(q.lane[p])
        BY <1>5
      <4>3. x # First(q)
        BY <1>2, <1>3, <4>1, <4>2 DEF QueueOK, NoDup
      <4>4. QED
        BY <1>2, <4>1, <4>3, ElemsIff
    <3>4. QED
      BY <3>2, <3>3
  <2>2. ASSUME x \in Elems(q), x # First(q) PROVE x \in Elems(n)
    <3>0. PICK p2 \in Lanes : \E i \in 1..Len(q.lane[p2]) : x = q.lane[p2][i]
      BY <2>2, ElemsIff
    <3>1. PICK i \in 1..Len(q.lane[p2]) : x = q.lane[p2][i]
      BY <3>0
    <3>2. CASE p2 # p
      BY <1>3, <3>1, <3>2, ElemsIff
    <3>3. CASE p2 = p
      <4>1. i # 1
        BY <1>3, <2>2, <3>1, <3>3
      <4>2. i - 1 \in 1..Len(n.lane[p]) /\ n.lane[p][i - 1] = q.lane[p][(i - 1) + 1]
        BY <1>5, <3>1, <3>3, <4>1
      <4>3. (i - 1) + 1 = i
        BY <1>5, <3>1
      <4>4. QED
        BY <1>2, <3>1, <3>3, <4>2, <4>3, ElemsIff
    <3>4. QED
      BY <3>2, <3>3
  <2>3. QED
    BY <2>1, <2>2
<1>8. Elems(n) = Elems(q) \ {First(q)}
  BY <1>7
<1>9. n.size = Cardinality(Elems(n))
  BY <1>1, <1>3, <1>6, <1>8, FS_RemoveElement, FS_CardinalityType DEF QueueOK
<1>10. NoDup(n)
  <2> SUFFICES ASSUME NEW p1 \in Lanes, NEW p2 \in Lanes,
                      NEW i \in 1..Len(n.lane[p1]), NEW j \in 1..Len(n.lane[p2]),
                      n.lane[p1][i] = n.lane[p2][j]
               PROVE  p1 = p2 /\ i = j
    BY DEF NoDup
  <2> DEFINE old(l, k) == IF l = p THEN k + 1 ELSE k
  <2>0. ASSUME NEW l \in Lanes, NEW k \in 1..Len(n.lane[l])
        PROVE  old(l, k) \in 1..Len(q.lane[l]) /\ n.lane[l][k] = q.lane[l][old(l, k)]
    <3>1. CASE l = p
      <4>1. k \in 1..Len(n.lane[p])
        BY <2>0, <3>1
      <4>2. k + 1 \in 1..Len(q.lane[p]) /\ n.lane[p][k] = q.lane[p][k + 1]
        BY <1>5, <4>1
      <4>3. QED
        BY <3>1, <4>2
    <3>2. CASE l # p
      BY <1>3, <2>0, <3>2
    <3>3. QED
      BY <3>1, <3>2
  <2>1. PICK i0 \in 1..Len(q.lane[p1]) :
           i0 = old(p1, i) /\ n.lane[p1][i] = q.lane[p1][i0]
    BY <2>0
  <2>2. PICK j0 \in 1..Len(q.lane[p2]) :
           j0 = old(p2, j) /\ n.lane[p2][j] = q.lane[p2][j0]
    BY <2>0
  <2>3. p1 = p2 /\ i0 = j0
    <3>1. q.lane[p1][i0] = q.lane[p2][j0]
      BY <2>1, <2>2
    <3>2. NoDup(q)
      BY DEF QueueOK
    <3>3. QED
      BY <3>1, <3>2, NoDupAt
  <2>4. i \in Int /\ j \in Int
    BY <1>3, <1>5
  <2>5. QED
    BY <2>1, <2>2, <2>3, <2>4
<1>11. QED
  BY <1>2, <1>4, <1>6, <1>8, <1>9, <1>10 DEF n, p, QueueOK

-----------------------------------------------------------------------------
(* The pool. *)

\* etp_maybe_start_thread runs.
Starting == pc \in {"ms1", "ms2", "msP", "msS", "start"}

\* There is an etp_poll call to go on with wherever the code goes on with one.
StackOK ==
    /\ pc \in {"poll", "shift", "wait"} => stack # <<>>
    /\ ret = "shift" => Starting /\ stack # <<>>

\* A worker holds a request exactly where etp_proc has one.
WorkerOK ==
    \A w \in Workers :
       /\ wpc[w] = "exec" => wreq[w] \in Reqs
       /\ wpc[w] = "quit" => wreq[w] \in Quits \cup {NoReq}
       /\ wpc[w] \notin {"exec", "quit"} => wreq[w] = NoReq

\* The descriptor holds one wakeup while there are results.
ChanOK == chan = IF res_queue.size = 0 THEN 0 ELSE 1

\* The inductive invariant on which the other proofs rest.
Struct ==
    /\ TypeOK
    /\ StackOK
    /\ WorkerOK
    /\ QueueOK(req_queue) /\ QueueOK(res_queue)
    /\ OneOwner
    /\ ChanOK

-----------------------------------------------------------------------------
(* Helpers. *)

\* etp_submit clamps every priority to a lane.
LEMMA LaneOfType ==
  ASSUME NEW pri \in Int
  PROVE  LaneOf(pri) \in Lanes /\ TopPri \in Lanes
<1>1. \A x \in Int : SChar(x) \in Int
  BY DEF SChar
<1>2. ETP_PRI_MIN \in Int /\ ETP_PRI_MAX \in Int /\ ETP_PRI_MIN <= ETP_PRI_MAX
  BY PriAssumption
<1>3. TopPri \in Nat /\ Lanes = 0..TopPri
  BY <1>2 DEF TopPri, Lanes
<1>4. SChar(SChar(pri) - ETP_PRI_MIN) \in Int
  BY <1>1, <1>2
<1>5. QED
  BY <1>3, <1>4 DEF LaneOf

\* Counting up and down stays in the unsigned range.
LEMMA UIntType ==
  /\ 0 \in UInt /\ UINT_MOD \in Nat /\ UINT_MOD > 0
  /\ \A x \in UInt : Inc(x) \in UInt /\ Dec(x) \in UInt
<1>1. Cardinality(Objs) \in Nat /\ Cardinality(Workers) \in Nat
  BY PoolAssumption, FS_CardinalityType
<1>2. UINT_MOD \in Nat /\ UINT_MOD > 0
  BY <1>1, PoolAssumption
<1>3. QED
  BY <1>2 DEF UInt, Inc, Dec

\* Both queues hold finitely many requests of the expected kinds.
LEMMA ElemsFinite ==
  ASSUME TypeOK
  PROVE  /\ Elems(req_queue) \subseteq Reqs \cup Quits
         /\ Elems(res_queue) \subseteq Reqs \cup Grps
         /\ IsFiniteSet(Elems(req_queue)) /\ IsFiniteSet(Elems(res_queue))
<1>1. ASSUME NEW Obj, NEW q \in Queues(Obj)
      PROVE  Elems(q) \subseteq Obj
  <2>1. \A p \in Lanes : q.lane[p] \in Seq(Obj)
    BY <1>1 DEF Queues
  <2>2. \A p \in Lanes : \A i \in 1..Len(q.lane[p]) : q.lane[p][i] \in Obj
    BY <2>1
  <2>3. QED
    BY <2>2, ElemsIff
<1>2. Elems(req_queue) \subseteq Reqs \cup Quits /\ Elems(res_queue) \subseteq Reqs \cup Grps
  BY <1>1 DEF TypeOK
<1>3. QED
  BY <1>2, PoolAssumption, FS_Subset DEF Objs

\* X_COND_SIGNAL moves at most one waiting worker.
LEMMA SignalFacts ==
  ASSUME TypeOK, Signal
  PROVE  /\ wpc' \in [Workers -> WorkerPC]
         /\ \A w \in Workers :
               \/ wpc'[w] = wpc[w]
               \/ wpc[w] \in {"wait", "twait"} /\ wpc'[w] = "woken"
BY DEF TypeOK, Signal, Waiting, WorkerPC

\* The three ways the stack of etp_poll calls changes.
LEMMA PushFrame ==
  ASSUME NEW s \in Seq(Frame), NEW f \in Frame
  PROVE  LET t == <<f>> \o s
         IN  /\ t \in Seq(Frame) /\ t # <<>>
             /\ Len(t) = Len(s) + 1
             /\ t[1] = f
             /\ \A i \in 2..Len(t) : i - 1 \in 1..Len(s) /\ t[i] = s[i - 1]
OBVIOUS

\* The innermost etp_poll call returns.
LEMMA PopFrame ==
  ASSUME NEW s \in Seq(Frame), s # <<>>
  PROVE  /\ Head(s) \in Frame /\ Head(s) = s[1] /\ 1 \in 1..Len(s)
         /\ Tail(s) \in Seq(Frame)
         /\ Len(Tail(s)) = Len(s) - 1
         /\ \A i \in 1..Len(Tail(s)) : i + 1 \in 1..Len(s) /\ Tail(s)[i] = s[i + 1]
OBVIOUS

\* The innermost etp_poll call goes on with other values.
LEMMA SetTopFrame ==
  ASSUME NEW s \in Seq(Frame), s # <<>>, NEW f \in Frame
  PROVE  LET t == <<f>> \o Tail(s)
         IN  /\ t \in Seq(Frame) /\ t # <<>>
             /\ Len(t) = Len(s)
             /\ t[1] = f
             /\ \A i \in 2..Len(t) : t[i] = s[i]
<1> DEFINE t == <<f>> \o Tail(s)
<1>1. /\ Tail(s) \in Seq(Frame) /\ Len(Tail(s)) = Len(s) - 1 /\ Len(s) \in Nat
      /\ \A i \in 1..Len(Tail(s)) : Tail(s)[i] = s[i + 1]
  BY PopFrame
<1>2. /\ t \in Seq(Frame) /\ t # <<>> /\ Len(t) = Len(Tail(s)) + 1 /\ t[1] = f
      /\ \A i \in 2..Len(t) : i - 1 \in 1..Len(Tail(s)) /\ t[i] = Tail(s)[i - 1]
  BY <1>1, PushFrame
<1>3. ASSUME NEW i \in 2..Len(t) PROVE t[i] = s[i]
  <2>1. i - 1 \in 1..Len(Tail(s)) /\ t[i] = Tail(s)[i - 1]
    BY <1>2
  <2>2. Tail(s)[i - 1] = s[(i - 1) + 1] /\ (i - 1) + 1 = i
    BY <1>1, <2>1
  <2>3. QED
    BY <2>1, <2>2
<1>4. QED
  BY <1>1, <1>2, <1>3

-----------------------------------------------------------------------------
(* Struct is inductive. *)

\* Steps that touch neither the queues nor what a thread holds.
LEMMA QuietStep ==
  ASSUME Struct, TypeOK', StackOK', WorkerOK',
         UNCHANGED <<queueVars, chan, wreq, stack, delayed>>
  PROVE  Struct'
<1>1. OneOwner'
  BY DEF Struct, OneOwner, Finishing, queueVars
<1>2. ChanOK' /\ QueueOK(req_queue)' /\ QueueOK(res_queue)'
  BY DEF Struct, ChanOK, queueVars
<1>3. QED
  BY <1>1, <1>2 DEF Struct

\* Steps that change only the stack, without a new request to finish.
LEMMA FrameStep ==
  ASSUME Struct, TypeOK', StackOK', WorkerOK',
         UNCHANGED <<queueVars, chan, wreq, delayed>>,
         \A i \in 1..Len(stack') :
            \/ stack'[i].req = NoReq
            \/ \E k \in 1..Len(stack) : stack'[i].req = stack[k].req,
         \A i, j \in 1..Len(stack') :
            stack'[i].req = stack'[j].req /\ stack'[i].req # NoReq => i = j
  PROVE  Struct'
<1>1. Finishing' \subseteq Finishing
  BY DEF Finishing
<1>2. OneOwner'
  BY <1>1 DEF Struct, OneOwner, queueVars
<1>3. ChanOK' /\ QueueOK(req_queue)' /\ QueueOK(res_queue)'
  BY DEF Struct, ChanOK, queueVars
<1>4. QED
  BY <1>2, <1>3 DEF Struct

\* etp_maybe_start_thread keeps the structure.
LEMMA MaybeStartStruct ==
  ASSUME Struct, MaybeStart
  PROVE  Struct'
<1>1. CASE MsGuard
  <2>1. TypeOK'
    BY <1>1 DEF Struct, TypeOK, MsGuard, GoBack, queueVars, countVars, confVars,
                thrVars, MainPC
  <2>2. StackOK' /\ WorkerOK'
    BY <1>1 DEF Struct, TypeOK, StackOK, WorkerOK, Starting, MsGuard, GoBack, thrVars
  <2>3. QED
    BY <1>1, <2>1, <2>2, QuietStep DEF MsGuard, thrVars
<1>2. CASE MsRead
  <2>1. TypeOK'
    BY <1>2 DEF Struct, TypeOK, MsRead, queueVars, countVars, confVars,
                thrVars, MainPC
  <2>2. StackOK' /\ WorkerOK'
    BY <1>2 DEF Struct, StackOK, WorkerOK, Starting, MsRead, thrVars
  <2>3. QED
    BY <1>2, <2>1, <2>2, QuietStep DEF MsRead, thrVars
<1>3. CASE MsDecide
  <2>1. TypeOK'
    BY <1>3, UIntType DEF Struct, TypeOK, MsDecide, GoBack, queueVars, countVars,
                confVars, thrVars, MainPC
  <2>2. StackOK' /\ WorkerOK'
    BY <1>3 DEF Struct, TypeOK, StackOK, WorkerOK, Starting, MsDecide, GoBack, thrVars
  <2>3. QED
    BY <1>3, <2>1, <2>2, QuietStep DEF MsDecide, thrVars
<1>4. CASE StartThread
  <2>1. TypeOK'
    BY <1>4, UIntType DEF Struct, TypeOK, StartThread, GoBack, queueVars, countVars,
                confVars, MainPC, WorkerPC
  <2>2. StackOK'
    BY <1>4 DEF Struct, TypeOK, StackOK, Starting, StartThread, GoBack
  <2>3. WorkerOK'
    BY <1>4 DEF Struct, TypeOK, WorkerOK, StartThread
  <2>4. QED
    BY <1>4, <2>1, <2>2, <2>3, QuietStep DEF StartThread
<1>5. QED
  BY <1>1, <1>2, <1>3, <1>4 DEF MaybeStart

\* The configuration functions (etp_set_*) keep the structure.
LEMMA ConfStruct ==
  ASSUME Struct,
         \/ \E n \in ParallelArgs : etp_set_min_parallel(n) \/ etp_set_max_parallel(n)
         \/ \E n \in IdleArgs : etp_set_max_idle(n)
         \/ \E n \in PollReqsArgs : etp_set_max_poll_reqs(n)
         \/ \E set \in PollTimeArgs : etp_set_max_poll_time(set)
  PROVE  Struct'
<1> USE DEF queueVars, countVars, thrVars, mainVars
<1>1. CASE \E n \in ParallelArgs : etp_set_min_parallel(n)
  BY <1>1, PoolAssumption, QuietStep
     DEF Struct, TypeOK, StackOK, WorkerOK, Starting, etp_set_min_parallel, UInt
<1>2. CASE \E n \in ParallelArgs : etp_set_max_parallel(n)
  BY <1>2, PoolAssumption, QuietStep
     DEF Struct, TypeOK, StackOK, WorkerOK, Starting, etp_set_max_parallel, UInt, MainPC
<1>3. CASE \E n \in IdleArgs : etp_set_max_idle(n)
  BY <1>3, PoolAssumption, QuietStep
     DEF Struct, TypeOK, StackOK, WorkerOK, Starting, etp_set_max_idle, UInt
<1>4. CASE \E n \in PollReqsArgs : etp_set_max_poll_reqs(n)
  BY <1>4, PoolAssumption, QuietStep
     DEF Struct, TypeOK, StackOK, WorkerOK, Starting, etp_set_max_poll_reqs, UInt
<1>5. CASE \E set \in PollTimeArgs : etp_set_max_poll_time(set)
  BY <1>5, PoolAssumption, QuietStep
     DEF Struct, TypeOK, StackOK, WorkerOK, Starting, etp_set_max_poll_time
<1>6. QED
  BY <1>1, <1>2, <1>3, <1>4, <1>5

\* A request that is nowhere goes on req_queue (etp_submit, etp_end_thread).
LEMMA PushReq ==
  ASSUME Struct, NEW r \in Reqs \cup Quits, r \notin InUse, NEW p \in Lanes,
         req_queue' = reqq_push(req_queue, r, p), Signal,
         UNCHANGED <<res_queue, chan, wreq, stack, delayed>>,
         TypeOK', StackOK'
  PROVE  Struct'
<1>1. r \notin Elems(req_queue)
  BY DEF InUse
<1>2. Elems(req_queue') = Elems(req_queue) \cup {r} /\ QueueOK(req_queue')
  BY <1>1, PushQueue, ElemsFinite DEF Struct, TypeOK
<1>3. WorkerOK'
  BY SignalFacts DEF Struct, WorkerOK
<1>4. OneOwner'
  BY <1>2 DEF Struct, OneOwner, InUse, Finishing
<1>5. ChanOK' /\ QueueOK(res_queue)'
  BY DEF Struct, ChanOK
<1>6. QED
  BY <1>2, <1>3, <1>4, <1>5 DEF Struct

\* etp_submit of an ordinary request keeps the structure.
LEMMA SubmitStruct ==
  ASSUME Struct, NEW r \in Reqs, NEW pri \in PriArgs, Submit(r, pri)
  PROVE  Struct'
<1>1. LaneOf(pri) \in Lanes
  BY PoolAssumption, LaneOfType
<1>2. req_queue' \in Queues(Reqs \cup Quits)
  BY <1>1, PushQueue DEF Struct, TypeOK, Submit
<1>3. TypeOK'
  BY <1>2, SignalFacts, UIntType DEF Struct, TypeOK, Submit, confVars, MainPC
<1>4. StackOK'
  BY DEF Struct, StackOK, Submit, Starting
<1>5. QED
  BY <1>1, <1>3, <1>4, PushReq DEF Submit

\* The loop of etp_set_max_parallel keeps the structure.
LEMMA EndThreadsStruct ==
  ASSUME Struct, EndThreads
  PROVE  Struct'
<1>1. CASE EndCheck
  BY <1>1, QuietStep DEF Struct, TypeOK, StackOK, WorkerOK, Starting, EndCheck,
     queueVars, countVars, confVars, thrVars, MainPC
<1>2. CASE EndDec
  BY <1>2, QuietStep, UIntType DEF Struct, TypeOK, StackOK, WorkerOK, Starting, EndDec,
     queueVars, countVars, confVars, MainPC
<1>3. ASSUME NEW q \in Quits, EndPush(q)
      PROVE  Struct'
  <2>1. TopPri \in Lanes
    BY LaneOfType
  <2>2. req_queue' \in Queues(Reqs \cup Quits)
    BY <1>3, <2>1, PushQueue DEF Struct, TypeOK, EndPush
  <2>3. TypeOK'
    BY <1>3, <2>2, SignalFacts DEF Struct, TypeOK, EndPush, countVars, confVars, MainPC
  <2>4. StackOK'
    BY <1>3 DEF Struct, StackOK, EndPush, Starting
  <2>5. QED
    BY <1>3, <2>1, <2>3, <2>4, PushReq DEF EndPush
<1>4. QED
  BY <1>1, <1>2, <1>3 DEF EndThreads

\* A request that is nowhere else goes on res_queue.
LEMMA PushRes ==
  ASSUME Struct, NEW r \in Reqs \cup Grps, r \notin Elems(res_queue),
         NEW p \in Lanes, PushResult(r, p)
  PROVE  /\ res_queue' \in Queues(Reqs \cup Grps)
         /\ Elems(res_queue') = Elems(res_queue) \cup {r}
         /\ QueueOK(res_queue')
         /\ ChanOK'
         /\ chan' \in Nat /\ npending' \in UInt
<1>1. /\ res_queue' \in Queues(Reqs \cup Grps)
      /\ Elems(res_queue') = Elems(res_queue) \cup {r}
      /\ QueueOK(res_queue')
  BY PushQueue, ElemsFinite DEF Struct, TypeOK, PushResult
<1>2. res_queue'.size = res_queue.size + 1 /\ res_queue.size \in Nat
  BY DEF PushResult, reqq_push, Struct, TypeOK, Queues
<1>3. ChanOK' /\ chan' \in Nat
  BY <1>2 DEF ChanOK, Struct, PushResult, php_eio_want_poll
<1>4. npending' \in UInt
  BY UIntType DEF Struct, TypeOK, PushResult
<1>5. QED
  BY <1>1, <1>3, <1>4

\* etp_submit of a group keeps the structure.
LEMMA SubmitGroupStruct ==
  ASSUME Struct, NEW g \in Grps, SubmitGroup(g)
  PROVE  Struct'
<1>1. g \notin Elems(res_queue) /\ TopPri \in Lanes /\ PushResult(g, TopPri)
  BY LaneOfType DEF SubmitGroup, InUse
<1>2. /\ res_queue' \in Queues(Reqs \cup Grps)
      /\ Elems(res_queue') = Elems(res_queue) \cup {g}
      /\ QueueOK(res_queue') /\ ChanOK' /\ chan' \in Nat /\ npending' \in UInt
  BY <1>1, PushRes
<1>3. TypeOK'
  BY <1>2, UIntType DEF Struct, TypeOK, SubmitGroup, confVars, thrVars, mainVars
<1>4. StackOK' /\ WorkerOK'
  BY DEF Struct, StackOK, WorkerOK, Starting, SubmitGroup, thrVars, mainVars
<1>5. OneOwner'
  BY <1>2 DEF Struct, OneOwner, SubmitGroup, InUse, Finishing, thrVars, mainVars
<1>6. QueueOK(req_queue)'
  BY DEF Struct, SubmitGroup
<1>7. QED
  BY <1>2, <1>3, <1>4, <1>5, <1>6 DEF Struct

\* Every step of a worker keeps the structure.
LEMMA WorkerStruct ==
  ASSUME Struct, NEW w \in Workers, etp_proc(w)
  PROVE  Struct'
<1>1. CASE FetchRequest(w)
  <2> DEFINE r == First(req_queue)
  <2>1. /\ r \in Elems(req_queue) /\ r \in Reqs \cup Quits
        /\ TopLane(req_queue) \in Lanes
        /\ req_queue' \in Queues(Reqs \cup Quits)
        /\ Elems(req_queue') = Elems(req_queue) \ {r}
        /\ QueueOK(req_queue')
    BY <1>1, ShiftQueue, ElemsFinite DEF Struct, TypeOK, FetchRequest
  <2> HIDE DEF r
  <2>2. /\ w \in Awake
        /\ wreq' = [wreq EXCEPT ![w] = r]
        /\ wpc' = [wpc EXCEPT ![w] = IF r \in Quits THEN "quit" ELSE "exec"]
        /\ wpri' = [wpri EXCEPT ![w] = TopLane(req_queue)]
    BY <1>1 DEF FetchRequest, r
  <2>3. TypeOK'
    BY <1>1, <2>1, <2>2, UIntType
       DEF Struct, TypeOK, FetchRequest, confVars, mainVars, Unidle, WorkerPC
  <2>4. StackOK'
    BY <1>1 DEF Struct, StackOK, Starting, FetchRequest, mainVars
  <2>5. WorkerOK'
    BY <2>1, <2>2 DEF Struct, TypeOK, WorkerOK
  <2>6. OneOwner'
    <3>1. r # NoReq /\ (\A v \in Workers : wreq[v] # r)
      BY <2>1, PoolAssumption DEF Struct, OneOwner, Objs
    <3>2. wreq'[w] = r /\ \A v \in Workers : v # w => wreq'[v] = wreq[v]
      BY <2>2 DEF Struct, TypeOK
    <3>3. UNCHANGED <<res_queue, stack, delayed>> /\ Finishing' = Finishing
      BY <1>1 DEF FetchRequest, mainVars, Finishing
    <3>4. QED
      BY <2>1, <3>1, <3>2, <3>3 DEF Struct, OneOwner
  <2>7. ChanOK' /\ QueueOK(res_queue)'
    BY <1>1 DEF Struct, ChanOK, FetchRequest
  <2>8. QED
    BY <2>1, <2>3, <2>4, <2>5, <2>6, <2>7 DEF Struct
<1>2. CASE FetchWait(w) \/ FetchGiveUp(w)
  <2>1. TypeOK'
    BY <1>2, UIntType DEF Struct, TypeOK, FetchWait, FetchGiveUp, queueVars, countVars,
       confVars, mainVars, Unidle, WorkerPC
  <2>2. StackOK'
    BY <1>2 DEF Struct, StackOK, Starting, FetchWait, FetchGiveUp, mainVars
  <2>3. WorkerOK'
    BY <1>2 DEF Struct, TypeOK, WorkerOK, FetchWait, FetchGiveUp, Awake
  <2>4. QED
    BY <1>2, <2>1, <2>2, <2>3, QuietStep DEF FetchWait, FetchGiveUp, mainVars
<1>3. CASE Timeout(w) \/ SpuriousWakeup(w)
  <2>1. TypeOK'
    BY <1>3 DEF Struct, TypeOK, Timeout, SpuriousWakeup, queueVars, countVars,
       confVars, mainVars, WorkerPC
  <2>2. StackOK'
    BY <1>3 DEF Struct, StackOK, Starting, Timeout, SpuriousWakeup, mainVars
  <2>3. WorkerOK'
    BY <1>3 DEF Struct, TypeOK, WorkerOK, Timeout, SpuriousWakeup, Waiting
  <2>4. QED
    BY <1>3, <2>1, <2>2, <2>3, QuietStep DEF Timeout, SpuriousWakeup, mainVars
<1>4. CASE Result(w)
  <2> DEFINE r == wreq[w]
  <2>1. r \in Reqs /\ r # NoReq /\ wpri[w] \in Lanes /\ r \notin Elems(res_queue)
    BY <1>4, PoolAssumption DEF Struct, WorkerOK, TypeOK, OneOwner, Result, Objs
  <2>2. /\ res_queue' \in Queues(Reqs \cup Grps)
        /\ Elems(res_queue') = Elems(res_queue) \cup {r}
        /\ QueueOK(res_queue') /\ ChanOK' /\ chan' \in Nat /\ npending' \in UInt
    BY <1>4, <2>1, PushRes DEF Result
  <2>3. 0 \in Lanes
    BY PriAssumption DEF Lanes
  <2>4. TypeOK'
    BY <1>4, <2>2, <2>3 DEF Struct, TypeOK, Result, confVars, mainVars, WorkerPC
  <2>5. StackOK'
    BY <1>4 DEF Struct, StackOK, Starting, Result, mainVars
  <2>6. WorkerOK'
    BY <1>4 DEF Struct, TypeOK, WorkerOK, Result
  <2>7. OneOwner'
    <3>1. \A v \in Workers : v # w => wreq[v] # r
      BY <2>1 DEF Struct, OneOwner
    <3>2. wreq'[w] = NoReq /\ \A v \in Workers : v # w => wreq'[v] = wreq[v]
      BY <1>4 DEF Struct, TypeOK, Result
    <3>3. UNCHANGED <<req_queue, stack, delayed>> /\ Finishing' = Finishing
      BY <1>4 DEF Result, mainVars, Finishing
    <3>4. NoReq \notin Elems(req_queue) \cup Elems(res_queue') \cup Finishing \cup delayed
      BY <2>1, <2>2, ElemsFinite, PoolAssumption DEF Finishing, Struct, TypeOK, Objs
    <3>5. QED
      BY <2>1, <2>2, <3>1, <3>2, <3>3, <3>4 DEF Struct, OneOwner
  <2>8. QueueOK(req_queue)'
    BY <1>4 DEF Struct, Result
  <2>9. QED
    BY <2>2, <2>4, <2>5, <2>6, <2>7, <2>8 DEF Struct
<1>5. CASE TimeoutQuit(w)
  <2>1. TypeOK'
    BY <1>5, UIntType DEF Struct, TypeOK, TimeoutQuit, queueVars, countVars,
       confVars, mainVars, WorkerPC
  <2>2. StackOK' /\ WorkerOK'
    BY <1>5 DEF Struct, TypeOK, StackOK, WorkerOK, Starting, TimeoutQuit, mainVars
  <2>3. QED
    BY <1>5, <2>1, <2>2, QuietStep DEF TimeoutQuit, mainVars
<1>6. CASE WorkerFree(w)
  <2>0. 0 \in Lanes
    BY PriAssumption DEF Lanes
  <2>1. TypeOK'
    BY <1>6, <2>0 DEF Struct, TypeOK, WorkerFree, queueVars, countVars,
       confVars, mainVars, WorkerPC
  <2>2. StackOK' /\ WorkerOK'
    BY <1>6 DEF Struct, TypeOK, StackOK, WorkerOK, Starting, WorkerFree, mainVars
  <2>3. OneOwner'
    <3>1. wreq'[w] = NoReq /\ \A v \in Workers : v # w => wreq'[v] = wreq[v]
      BY <1>6 DEF Struct, TypeOK, WorkerFree
    <3>2. UNCHANGED <<req_queue, res_queue, stack, delayed>> /\ Finishing' = Finishing
      BY <1>6 DEF WorkerFree, mainVars, queueVars, Finishing
    <3>3. NoReq \notin Elems(req_queue) \cup Elems(res_queue) \cup Finishing \cup delayed
      BY ElemsFinite, PoolAssumption DEF Finishing, Struct, TypeOK, Objs
    <3>4. QED
      BY <3>1, <3>2, <3>3 DEF Struct, OneOwner
  <2>4. ChanOK' /\ QueueOK(req_queue)' /\ QueueOK(res_queue)'
    BY <1>6 DEF Struct, ChanOK, WorkerFree, queueVars
  <2>5. QED
    BY <2>1, <2>2, <2>3, <2>4 DEF Struct
<1>7. QED
  BY <1>1, <1>2, <1>3, <1>4, <1>5, <1>6 DEF etp_proc, Fetch

\* eio_poll and php_eio_event_loop enter etp_poll.
LEMMA EnterStruct ==
  ASSUME Struct, eio_poll \/ php_eio_event_loop
  PROVE  Struct'
<1>1. PICK loop \in BOOLEAN : stack' = <<NewFrame(loop)>> \o stack
  BY DEF eio_poll, php_eio_event_loop
<1>2. stack \in Seq(Frame) /\ NewFrame(loop) \in Frame /\ NewFrame(loop).req = NoReq
  BY UIntType DEF NewFrame, Frame, Struct, TypeOK
<1>3. /\ stack' \in Seq(Frame) /\ stack' # <<>> /\ Len(stack') = Len(stack) + 1
      /\ stack'[1].req = NoReq
      /\ \A i \in 2..Len(stack') : i - 1 \in 1..Len(stack) /\ stack'[i] = stack[i - 1]
  BY <1>1, <1>2, PushFrame
<1>4. TypeOK'
  BY <1>3 DEF Struct, TypeOK, eio_poll, php_eio_event_loop, queueVars, countVars,
     confVars, thrVars, MainPC
<1>5. StackOK' /\ WorkerOK'
  BY <1>3 DEF Struct, StackOK, WorkerOK, Starting, eio_poll, php_eio_event_loop, thrVars
<1>6. UNCHANGED <<queueVars, chan, wreq, delayed>>
  BY DEF eio_poll, php_eio_event_loop, thrVars
<1>7. \A i \in 1..Len(stack') : i = 1 \/ i \in 2..Len(stack')
  BY <1>2, <1>3
<1>8. \A i \in 1..Len(stack') :
         \/ stack'[i].req = NoReq
         \/ \E k \in 1..Len(stack) : stack'[i].req = stack[k].req
  BY <1>3, <1>7
<1>9. ASSUME NEW i \in 1..Len(stack'), NEW j \in 1..Len(stack'),
             stack'[i].req = stack'[j].req, stack'[i].req # NoReq
      PROVE  i = j
  <2>1. i \in 2..Len(stack') /\ j \in 2..Len(stack')
    BY <1>3, <1>7, <1>9
  <2>2. i - 1 = j - 1
    BY <1>3, <1>9, <2>1 DEF Struct, OneOwner
  <2>3. QED
    BY <2>1, <2>2
<1>10. QED
  BY <1>4, <1>5, <1>6, <1>8, <1>9, FrameStep

\* Replacing the top frame by one that finishes nothing, or the same request.
LEMMA SetTopStep ==
  ASSUME Struct, stack # <<>>, NEW f \in Frame, SetTop(f),
         f.req \in {NoReq, Top.req},
         TypeOK', StackOK', WorkerOK', UNCHANGED <<queueVars, chan, wreq, delayed>>
  PROVE  Struct'
<1>1. stack \in Seq(Frame)
  BY DEF Struct, TypeOK
<1>2. /\ Len(stack') = Len(stack) /\ Len(stack) \in Nat /\ Len(stack) > 0
      /\ stack'[1] = f
      /\ \A i \in 2..Len(stack') : stack'[i] = stack[i]
  BY <1>1, SetTopFrame DEF SetTop
<1>3. Top = stack[1]
  BY <1>1, PopFrame DEF Top
<1>4. \A i \in 1..Len(stack') : stack'[i].req \in {NoReq, stack[i].req}
  BY <1>2, <1>3
<1>5. QED
  BY <1>2, <1>4, FrameStep DEF Struct, OneOwner

\* etp_poll returns.
LEMMA PollReturnStep ==
  ASSUME Struct, stack # <<>>, ret = "user", PollReturn,
         UNCHANGED <<queueVars, countVars, confVars, thrVars, ret, seen, delayed, chan>>
  PROVE  Struct'
<1>1. stack \in Seq(Frame)
  BY DEF Struct, TypeOK
<1>2. WorkerOK'
  BY DEF Struct, WorkerOK, thrVars
<1>3. CASE Top.loop /\ nreqs # 0
  <2>1. pc' = "wait" /\ SetTop(NewFrame(TRUE))
    BY <1>3 DEF PollReturn
  <2>2. NewFrame(TRUE) \in Frame /\ NewFrame(TRUE).req = NoReq
    BY UIntType DEF NewFrame, Frame
  <2>3. stack' \in Seq(Frame) /\ stack' # <<>>
    BY <1>1, <2>1, <2>2, SetTopFrame DEF SetTop
  <2>4. TypeOK'
    BY <2>1, <2>3 DEF Struct, TypeOK, queueVars, countVars, confVars, thrVars, MainPC
  <2>5. StackOK'
    BY <2>1, <2>3 DEF StackOK
  <2>6. QED
    BY <1>2, <2>1, <2>2, <2>4, <2>5, SetTopStep DEF thrVars
<1>4. CASE ~(Top.loop /\ nreqs # 0)
  <2>1. pc' = "user" /\ stack' = Tail(stack)
    BY <1>4 DEF PollReturn
  <2>2. /\ stack' \in Seq(Frame) /\ Len(stack') = Len(stack) - 1
        /\ \A i \in 1..Len(stack') : i + 1 \in 1..Len(stack) /\ stack'[i] = stack[i + 1]
    BY <1>1, <2>1, PopFrame
  <2>3. TypeOK'
    BY <2>1, <2>2 DEF Struct, TypeOK, queueVars, countVars, confVars, thrVars, MainPC
  <2>4. StackOK'
    BY <2>1 DEF StackOK
  <2>5. ASSUME NEW i \in 1..Len(stack'), NEW j \in 1..Len(stack'),
               stack'[i].req = stack'[j].req, stack'[i].req # NoReq
        PROVE  i = j
    <3>1. i + 1 = j + 1
      BY <2>2, <2>5 DEF Struct, OneOwner
    <3>2. QED
      BY <3>1
  <2>6. QED
    BY <1>2, <2>2, <2>3, <2>4, <2>5, FrameStep DEF thrVars
<1>5. QED
  BY <1>3, <1>4

\* The shift of etp_poll takes one result and keeps the wakeups right.
LEMMA TakeResultFacts ==
  ASSUME Struct, TakeResult
  PROVE  /\ First(res_queue) \in Elems(res_queue) /\ First(res_queue) \in Reqs \cup Grps
         /\ res_queue' \in Queues(Reqs \cup Grps)
         /\ Elems(res_queue') = Elems(res_queue) \ {First(res_queue)}
         /\ QueueOK(res_queue') /\ QueueOK(req_queue')
         /\ ChanOK'
         /\ nreqs' \in UInt /\ npending' \in UInt /\ chan' \in Nat
         /\ stack # <<>> /\ ret = "user"
<1>1. res_queue \in Queues(Reqs \cup Grps) /\ res_queue.size # 0 /\ res_queue.size \in Nat
  BY DEF Struct, TypeOK, TakeResult, Queues
<1>2. /\ First(res_queue) \in Elems(res_queue) /\ First(res_queue) \in Reqs \cup Grps
      /\ res_queue' \in Queues(Reqs \cup Grps)
      /\ Elems(res_queue') = Elems(res_queue) \ {First(res_queue)}
      /\ QueueOK(res_queue')
  BY <1>1, ShiftQueue, ElemsFinite DEF Struct, TakeResult
<1>3. res_queue'.size = res_queue.size - 1
  BY DEF TakeResult, reqq_shift
<1>4. ChanOK' /\ chan' \in Nat
  BY <1>1, <1>3 DEF Struct, ChanOK, TakeResult, php_eio_done_poll, PIPE_READ_MAX
<1>5. nreqs' \in UInt /\ npending' \in UInt
  BY UIntType DEF Struct, TypeOK, TakeResult
<1>6. stack # <<>> /\ ret = "user" /\ QueueOK(req_queue')
  BY DEF Struct, TypeOK, StackOK, Starting, TakeResult
<1>7. QED
  BY <1>2, <1>4, <1>5, <1>6

\* etp_poll and the event loop keep the structure.
LEMMA PollStruct ==
  ASSUME Struct, Poll \/ LoopInterrupted
  PROVE  Struct'
<1>1. CASE LoopReady \/ LoopInterrupted
  BY <1>1, QuietStep DEF Struct, TypeOK, StackOK, WorkerOK, Starting, LoopReady,
     LoopInterrupted, queueVars, countVars, confVars, thrVars, MainPC
<1>2. CASE PollBegin
  <2> DEFINE f == [Top EXCEPT !.left = max_poll_reqs, !.timed = max_poll_time]
  <2>1. stack # <<>> /\ stack \in Seq(Frame) /\ Top \in Frame
    BY <1>2, PopFrame DEF Struct, StackOK, TypeOK, PollBegin, Top
  <2>2. f \in Frame /\ f.req = Top.req
    BY <2>1 DEF Frame, Struct, TypeOK
  <2>3. SetTop(f) /\ UNCHANGED <<queueVars, chan, wreq, delayed>>
    BY <1>2 DEF PollBegin, thrVars
  <2>4. stack' \in Seq(Frame) /\ stack' # <<>>
    BY <2>1, <2>2, <2>3, SetTopFrame DEF SetTop
  <2> HIDE DEF f
  <2>5. TypeOK'
    BY <1>2, <2>4 DEF Struct, TypeOK, PollBegin, queueVars, countVars, confVars,
       thrVars, MainPC
  <2>6. StackOK' /\ WorkerOK'
    BY <1>2, <2>4 DEF Struct, StackOK, WorkerOK, Starting, PollBegin, thrVars
  <2>7. QED
    BY <2>1, <2>2, <2>3, <2>5, <2>6, SetTopStep
<1>3. CASE PollEmpty
  <2>1. stack # <<>> /\ ret = "user"
    BY <1>3 DEF Struct, TypeOK, StackOK, Starting, PollEmpty
  <2>2. QED
    BY <1>3, <2>1, PollReturnStep DEF PollEmpty
<1>4. CASE PollDelay
  <2> DEFINE g == First(res_queue)
  <2>1. /\ TakeResult /\ g \in Grps /\ delayed' = delayed \cup {g}
        /\ pc' = "ms1" /\ ret' = "shift" /\ stack' = stack
    BY <1>4 DEF PollDelay
  <2>2. TypeOK'
    BY <2>1, TakeResultFacts DEF Struct, TypeOK, TakeResult, confVars, thrVars, MainPC
  <2>3. StackOK' /\ WorkerOK'
    BY <2>1, TakeResultFacts DEF Struct, StackOK, WorkerOK, Starting, TakeResult, thrVars
  <2>4. OneOwner'
    <3>1. Finishing' = Finishing /\ wreq' = wreq /\ req_queue' = req_queue
      BY <2>1 DEF Finishing, TakeResult, thrVars
    <3>2. g \in Elems(res_queue) /\ Elems(res_queue') = Elems(res_queue) \ {g}
      BY <2>1, TakeResultFacts
    <3>3. QED
      BY <2>1, <3>1, <3>2 DEF Struct, OneOwner
  <2>5. QED
    BY <2>1, <2>2, <2>3, <2>4, TakeResultFacts DEF Struct
<1>5. CASE PollFinish
  <2> DEFINE r == First(res_queue)
             f == [Top EXCEPT !.req = r]
  <2>1. /\ TakeResult /\ SetTop(f) /\ pc' = "user" /\ UNCHANGED <<ret, delayed>>
    BY <1>5 DEF PollFinish
  <2>2. stack # <<>> /\ stack \in Seq(Frame) /\ Top \in Frame /\ r \in Reqs \cup Grps
    BY <2>1, TakeResultFacts, PopFrame DEF Struct, TypeOK, Top
  <2>3. f \in Frame /\ f.req = r
    BY <2>2 DEF Frame
  <2> HIDE DEF f
  <2>4. /\ stack' \in Seq(Frame) /\ Len(stack') = Len(stack) /\ Len(stack) \in Nat
        /\ stack'[1].req = r
        /\ \A i \in 2..Len(stack') : stack'[i] = stack[i]
    BY <2>1, <2>2, <2>3, SetTopFrame DEF SetTop
  <2>5. TypeOK'
    BY <2>1, <2>4, TakeResultFacts DEF Struct, TypeOK, TakeResult, confVars, thrVars, MainPC
  <2>6. StackOK' /\ WorkerOK'
    BY <2>1, TakeResultFacts DEF Struct, StackOK, WorkerOK, Starting, TakeResult, thrVars
  <2>7. OneOwner'
    <3>1. wreq' = wreq /\ req_queue' = req_queue /\ delayed' = delayed
      BY <2>1 DEF TakeResult, thrVars
    <3>2. r \in Elems(res_queue) /\ Elems(res_queue') = Elems(res_queue) \ {r}
      BY <2>1, TakeResultFacts
    <3>3. \A i \in 1..Len(stack') : i = 1 \/ i \in 2..Len(stack')
      BY <2>4
    <3>4. \A i \in 2..Len(stack') : i \in 1..Len(stack)
      BY <2>4
    <3>5. Finishing' \subseteq Finishing \cup {r}
      BY <2>4, <3>3, <3>4 DEF Finishing
    <3>6. r \notin Finishing
      BY <3>2 DEF Struct, OneOwner
    <3>7. \A i \in 2..Len(stack') : stack'[i].req # r \/ r = NoReq
      BY <2>4, <3>4, <3>6 DEF Finishing
    <3>8. \A i, j \in 1..Len(stack') :
             stack'[i].req = stack'[j].req /\ stack'[i].req # NoReq => i = j
      BY <2>4, <3>3, <3>4, <3>7 DEF Struct, OneOwner
    <3>9. QED
      BY <3>1, <3>2, <3>5, <3>8 DEF Struct, OneOwner
  <2>8. QED
    BY <2>1, <2>5, <2>6, <2>7, TakeResultFacts DEF Struct
<1>6. QED
  BY <1>1, <1>2, <1>3, <1>4, <1>5 DEF Poll

\* What happens in and after a finish callback keeps the structure.
LEMMA CallbackStruct ==
  ASSUME Struct, Callback
  PROVE  Struct'
<1>1. ASSUME NEW g \in Grps, GroupDone(g)
      PROVE  Struct'
  <2>1. TypeOK'
    BY <1>1 DEF Struct, TypeOK, GroupDone, queueVars, countVars, confVars, thrVars
  <2>2. StackOK' /\ WorkerOK'
    BY <1>1 DEF Struct, StackOK, WorkerOK, Starting, GroupDone, thrVars
  <2>3. OneOwner'
    BY <1>1 DEF Struct, OneOwner, Finishing, GroupDone, queueVars, thrVars
  <2>4. ChanOK' /\ QueueOK(req_queue)' /\ QueueOK(res_queue)'
    BY <1>1 DEF Struct, ChanOK, GroupDone, queueVars
  <2>5. QED
    BY <2>1, <2>2, <2>3, <2>4 DEF Struct
<1>2. ASSUME NEW res \in FinishResults, CallbackReturn(res)
      PROVE  Struct'
  <2>1. /\ stack # <<>> /\ stack \in Seq(Frame) /\ Top \in Frame /\ ret = "user"
        /\ UNCHANGED <<queueVars, countVars, confVars, thrVars, seen, delayed, chan>>
    BY <1>2, PopFrame DEF CallbackReturn, Struct, TypeOK, StackOK, Starting, Top
  <2>2. CASE PollReturn /\ UNCHANGED ret
    BY <2>1, <2>2, PollReturnStep
  <2>3. ASSUME SetTop([Top EXCEPT !.left = IF @ = 0 THEN 0 ELSE @ - 1, !.req = NoReq]),
               pc' = "ms1", ret' = "shift"
        PROVE  Struct'
    <3> DEFINE f == [Top EXCEPT !.left = IF @ = 0 THEN 0 ELSE @ - 1, !.req = NoReq]
    <3>1. Top.left \in UInt
      BY <2>1 DEF Frame
    <3>2. (IF Top.left = 0 THEN 0 ELSE Top.left - 1) \in UInt
      BY <3>1, UIntType DEF UInt
    <3>3. f \in Frame /\ f.req = NoReq
      BY <2>1, <3>2 DEF Frame
    <3>4. SetTop(f)
      BY <2>3
    <3> HIDE DEF f
    <3>5. stack' \in Seq(Frame) /\ stack' # <<>>
      BY <2>1, <3>3, <3>4, SetTopFrame DEF SetTop
    <3>6. TypeOK'
      BY <2>1, <2>3, <3>5 DEF Struct, TypeOK, queueVars, countVars, confVars, thrVars, MainPC
    <3>7. StackOK' /\ WorkerOK'
      BY <2>1, <2>3, <3>5 DEF Struct, StackOK, WorkerOK, Starting, thrVars
    <3>8. QED
      BY <2>1, <3>3, <3>4, <3>6, <3>7, SetTopStep DEF thrVars
  <2>4. QED
    BY <1>2, <2>2, <2>3 DEF CallbackReturn
<1>3. QED
  BY <1>1, <1>2 DEF Callback

\* etp_init establishes the structure.
LEMMA InitStruct == Init => Struct
<1> SUFFICES ASSUME Init PROVE Struct
  OBVIOUS
<1>1. /\ req_queue \in Queues(Reqs \cup Quits) /\ res_queue \in Queues(Reqs \cup Grps)
      /\ Elems(req_queue) = {} /\ Elems(res_queue) = {}
      /\ QueueOK(req_queue) /\ QueueOK(res_queue)
      /\ res_queue.size = 0
  BY InitQueue DEF Init, reqq_init
<1>2. 0 \in Lanes
  BY PriAssumption DEF Lanes
<1>3. InitWanted \in UInt /\ InitMaxIdle \in UInt
  BY PoolAssumption DEF UInt
<1>4. TypeOK
  <2>1. stack \in Seq(Frame)
    BY EmptySeq DEF Init
  <2>2. max_poll_time \in BOOLEAN
    BY Zenon DEF Init
  <2>3. /\ wpc \in [Workers -> WorkerPC] /\ wpri \in [Workers -> Lanes]
        /\ wreq \in [Workers -> Reqs \cup Quits \cup {NoReq}]
    BY <1>2 DEF Init, WorkerPC
  <2>4. /\ started \in UInt /\ idle \in UInt /\ wanted \in UInt /\ max_idle \in UInt
        /\ max_poll_reqs \in UInt /\ nreqs \in UInt /\ nready \in UInt
        /\ npending \in UInt /\ seen \in UInt /\ chan \in Nat
    BY <1>3, UIntType DEF Init, php_eio_pipe_new
  <2>5. pc \in MainPC /\ ret \in {"user", "shift"} /\ delayed \subseteq Grps
    BY DEF Init, MainPC
  <2>6. QED
    BY <1>1, <2>1, <2>2, <2>3, <2>4, <2>5, Zenon DEF TypeOK
<1>5. StackOK /\ WorkerOK
  BY DEF Init, StackOK, WorkerOK
<1>6. Finishing = {}
  BY DEF Init, Finishing
<1>7. OneOwner
  BY <1>1, <1>6 DEF Init, OneOwner
<1>8. ChanOK
  BY <1>1 DEF Init, ChanOK, php_eio_pipe_new
<1>9. QED
  BY <1>1, <1>4, <1>5, <1>7, <1>8 DEF Struct

\* Every step of the pool keeps the structure.
LEMMA StructStep == Struct /\ [Next]_vars => Struct'
<1> SUFFICES ASSUME Struct, [Next]_vars PROVE Struct'
  OBVIOUS
<1>1. CASE UNCHANGED vars
  <2>1. TypeOK'
    BY <1>1 DEF Struct, TypeOK, vars, queueVars, countVars, confVars, thrVars, mainVars
  <2>2. StackOK' /\ WorkerOK'
    BY <1>1 DEF Struct, StackOK, WorkerOK, Starting, vars, thrVars, mainVars
  <2>3. QED
    BY <1>1, <2>1, <2>2, QuietStep DEF vars, thrVars, mainVars
<1>2. CASE Script
  BY <1>2, SubmitStruct, SubmitGroupStruct, ConfStruct, EnterStruct DEF Script
<1>3. QED
  BY <1>1, <1>2, MaybeStartStruct, EndThreadsStruct, PollStruct, CallbackStruct,
     WorkerStruct DEF Next

\* Every reachable state of the pool satisfies Struct.
THEOREM StructInv == Spec => []Struct
BY InitStruct, StructStep, PTL DEF Spec

\* The pool is type correct: in particular reqq_shift always yields a request
\* of the right kind when the size field is not 0.
THEOREM TypeCorrect == Spec => []TypeOK
<1>1. Struct => TypeOK
  BY DEF Struct
<1>2. QED
  BY <1>1, StructInv, PTL

\* The abort() in reqq_shift is unreachable and both size fields are exact.
THEOREM QueuesStayIntact == Spec => []QueuesIntact
<1>1. Struct => QueuesIntact
  <2> SUFFICES ASSUME Struct PROVE QueuesIntact
    OBVIOUS
  <2>1. ~Aborts(req_queue) /\ ~Aborts(res_queue)
    BY ElemsFinite, SizeZero DEF Struct, TypeOK
  <2>2. QED
    BY <2>1 DEF Struct, QueuesIntact
<1>2. QED
  BY <1>1, StructInv, PTL

\* No request is in two places, whatever the threads and nested polls do.
THEOREM RequestsHaveOneOwner == Spec => []OneOwner
<1>1. Struct => OneOwner
  BY DEF Struct
<1>2. QED
  BY <1>1, StructInv, PTL

\* The descriptor the event loop waits on is readable iff results wait.
THEOREM NotificationExact == Spec => []PollNotified
<1>1. Struct => PollNotified
  BY DEF Struct, ChanOK, PollNotified, Readable
<1>2. QED
  BY <1>1, StructInv, PTL
=============================================================================
