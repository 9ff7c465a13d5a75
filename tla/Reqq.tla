-------------------------------- MODULE Reqq --------------------------------
(***************************************************************************)
(* The request queue of libeio/etp.c (etp_reqq, lines 113-117 and          *)
(* 233-285): one FIFO lane per priority and a size field kept beside the   *)
(* lanes.  A lane is a singly linked list in the code; here it is the      *)
(* sequence of the requests on that list.                                  *)
(***************************************************************************)
EXTENDS Integers, Sequences, FiniteSets

CONSTANTS
    ETP_PRI_MIN,    \* -4 in eio.h
    ETP_PRI_MAX     \*  4 in eio.h

\* The two values etp_submit clamps between; both are signed chars.
ASSUME PriAssumption ==
    /\ ETP_PRI_MIN \in -128..127
    /\ ETP_PRI_MAX \in -128..127
    /\ ETP_PRI_MIN <= ETP_PRI_MAX

\* Indices of qs[] and qe[]: 0 .. ETP_NUM_PRI - 1.
Lanes == 0..(ETP_PRI_MAX - ETP_PRI_MIN)

TopPri == ETP_PRI_MAX - ETP_PRI_MIN

\* The set of queues over a set of requests.
Queues(Obj) == [lane : [Lanes -> Seq(Obj)], size : Nat]

\* The requests on the lanes of a queue.
Elems(q) == UNION {{q.lane[p][i] : i \in 1..Len(q.lane[p])} : p \in Lanes}

\* No request is linked twice.
NoDup(q) ==
    \A p1, p2 \in Lanes :
       \A i \in 1..Len(q.lane[p1]), j \in 1..Len(q.lane[p2]) :
          q.lane[p1][i] = q.lane[p2][j] => p1 = p2 /\ i = j

-----------------------------------------------------------------------------

reqq_init == [lane |-> [p \in Lanes |-> <<>>], size |-> 0]

\* Appends to the lane of the request's priority.  The code returns the size
\* before the push; a caller reads q.size for it.
reqq_push(q, r, pri) ==
    [lane |-> [q.lane EXCEPT ![pri] = Append(@, r)], size |-> q.size + 1]

Occupied(q) == {p \in Lanes : q.lane[p] # <<>>}

\* The lane at which the loop of reqq_shift, from the highest priority down,
\* finds a request.
TopLane(q) == CHOOSE p \in Occupied(q) : \A p2 \in Occupied(q) : p2 <= p

\* What reqq_shift returns when q.size is not 0 (it returns 0 otherwise).
First(q) == Head(q.lane[TopLane(q)])

\* What reqq_shift leaves behind.
reqq_shift(q) ==
    [lane |-> [q.lane EXCEPT ![TopLane(q)] = Tail(@)], size |-> q.size - 1]

\* reqq_shift calls abort() when size says there is a request and no lane
\* has one.
Aborts(q) == q.size # 0 /\ Occupied(q) = {}

\* The size field tells the truth about the lanes.
QueueOK(q) == NoDup(q) /\ q.size = Cardinality(Elems(q))
=============================================================================
