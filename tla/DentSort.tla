------------------------------ MODULE DentSort ------------------------------
(***************************************************************************)
(* The sort of eio__scandir (libeio/eio.c): directory entries by score and *)
(* inode number, first by a radix sort that stops at small partitions and  *)
(* is left out for small arrays, then by an insertion sort that relies on  *)
(* a sentinel at the front.  A step is one turn of a loop.                 *)
(*                                                                         *)
(* An entry is a record with the fields score (0..7) and inode.  Its bits  *)
(* are numbered from the least significant bit of the inode, and the three *)
(* bits of the score are INO_BITS and the two above.  Pointers into the    *)
(* array are positions from 1 on, those behind a range one more.           *)
(***************************************************************************)
EXTENDS Integers, Sequences, SequencesExt, FiniteSetsExt

CONSTANTS
    EIO_SORT_CUTOFF,    \* 30: smaller partitions are not divided
    EIO_SORT_FAST,      \* 60: arrays up to this size are not divided
    INO_BITS            \* bits of eio_ino_t

ASSUME SortAssumption ==
    /\ EIO_SORT_CUTOFF \in Nat \ {0} /\ EIO_SORT_FAST \in Nat
    /\ EIO_SORT_CUTOFF < EIO_SORT_FAST
    /\ INO_BITS \in Nat

\* What powers of two are, which the provers do not know.
ASSUME PowersOfTwo ==
    /\ 2^0 = 1
    /\ \A k \in 0..(INO_BITS + 2) : 2^k \in Nat \ {0} /\ 2^(k + 1) = 2 * 2^k

VARIABLES
    dents,          \* the array
    sortpc,         \* where eio_dent_sort is
    size,           \* its argument: the first size entries are sorted
    bits,           \* the set of bits to test
    stk,            \* the stack of partitions: records of base, end and bit
    base, end,      \* the partition at work
    bit,            \* the bit that divides it, -1 for none
    pa, pb          \* the pointers a and b, or min and i, or i

sortVars == <<sortpc, size, bits, stk, base, end, bit, pa, pb>>

SortPC == {"none",
           "radix",     \* about to test the size of a partition
           "part",      \* in the loop that divides it
           "min",       \* in the loop that looks for the smallest entry
           "insert",    \* in the loop of the insertion sort
           "overrun",   \* before the beginning of the array
           "sorted"}    \* eio_dent_sort has returned

SortReset ==
    /\ sortpc' = "none" /\ size' = 0 /\ bits' = {} /\ stk' = <<>>
    /\ base' = 1 /\ end' = 1 /\ bit' = -1 /\ pa' = 1 /\ pb' = 1

SortInit ==
    /\ sortpc = "none" /\ size = 0 /\ bits = {} /\ stk = <<>>
    /\ base = 1 /\ end = 1 /\ bit = -1 /\ pa = 1 /\ pb = 1

\* Only the sign of the difference of two inodes is used.
eio_dent_cmp(a, b) ==
    IF a.score # b.score THEN a.score - b.score ELSE a.inode - b.inode

\* Mutant of SwapAt: one of the two entries is lost.
SwapAtLost(s, i, j) == [s EXCEPT ![i] = s[j]]

SwapAt(s, i, j) == [s EXCEPT ![i] = s[j], ![j] = s[i]]

HasBit(n, k) == (n \div 2^k) % 2 = 1

\* An entry has the bit k.
DentHas(d, k) == IF k < INO_BITS THEN HasBit(d.inode, k) ELSE HasBit(d.score, k - INO_BITS)

\* The most significant of some bits.
TopBit(S) == IF S = {} THEN -1 ELSE Max(S)

-----------------------------------------------------------------------------
\* The call: the first n entries, by these bits of the score and the inodes.
eio_dent_sort(n, scoreBits, inodeBits) ==
    /\ sortpc' = IF n <= 1 THEN "sorted" ELSE "radix"
    /\ size' = n
    /\ bits' = inodeBits \cup {INO_BITS + k : k \in scoreBits}
    /\ stk' = <<>> /\ base' = 1 /\ end' = n + 1
    /\ bit' = TopBit(bits')
    /\ pa' = 1 /\ pb' = 1

(* eio_dent_radix_sort. *)

\* Mutant of Presorted: too few entries are looked at.
PresortedShort ==
    /\ sortpc' = "min"
    /\ pa' = 1 /\ pb' = IF size > EIO_SORT_FAST THEN EIO_SORT_CUTOFF - 1 ELSE size - 1
    /\ UNCHANGED <<stk, base, end, bit>>

\* The insertion sort begins.  After the radix sort the smallest entry is among
\* the first EIO_SORT_CUTOFF + 1.
Presorted ==
    /\ sortpc' = "min"
    /\ pa' = 1 /\ pb' = IF size > EIO_SORT_FAST THEN EIO_SORT_CUTOFF + 1 ELSE size
    /\ UNCHANGED <<stk, base, end, bit>>

\* The partition is finished: the next one is taken from the stack.
PartitionDone ==
    IF stk = <<>> THEN Presorted
    ELSE /\ sortpc' = "radix"
         /\ base' = Last(stk).base /\ end' = Last(stk).end /\ bit' = Last(stk).bit
         /\ stk' = Front(stk)
         /\ UNCHANGED <<pa, pb>>

\* Small arrays are not divided, small partitions not any more.
RadixTest ==
    /\ sortpc = "radix"
    /\ IF size <= EIO_SORT_FAST THEN Presorted
       ELSE IF end - base < EIO_SORT_CUTOFF THEN PartitionDone
       ELSE /\ sortpc' = "part" /\ pa' = base /\ pb' = end
            /\ UNCHANGED <<stk, base, end, bit>>
    /\ UNCHANGED <<dents, size, bits>>

\* The entries with the bit go behind the others, from both ends.
Partition ==
    /\ sortpc = "part" /\ pb > pa
    /\ \/ /\ ~DentHas(dents[pa], bit)
          /\ pa' = pa + 1 /\ UNCHANGED <<dents, pb>>
       \/ /\ DentHas(dents[pa], bit) /\ DentHas(dents[pb - 1], bit)
          /\ pb' = pb - 1 /\ UNCHANGED <<dents, pa>>
       \/ /\ DentHas(dents[pa], bit) /\ ~DentHas(dents[pb - 1], bit)
          /\ dents' = SwapAt(dents, pa, pb - 1)
          /\ pa' = pa + 1 /\ pb' = pb - 1
    /\ UNCHANGED <<sortpc, size, bits, stk, base, end, bit>>

\* The next bit, if there is one: the part with the bit is put off, the part
\* without it is divided first.
PartitionEnds ==
    /\ sortpc = "part" /\ pb <= pa
    /\ LET next == TopBit({k \in bits : k < bit})
       IN  IF next = -1 THEN PartitionDone
           ELSE /\ sortpc' = "radix"
                /\ stk' = Append(stk, [base |-> pa, end |-> end, bit |-> next])
                /\ end' = pa /\ bit' = next
                /\ UNCHANGED <<base, pa, pb>>
    /\ UNCHANGED <<dents, size, bits>>

(* eio_dent_insertion_sort. *)

\* The smallest of the first entries, from the last one on, is moved to the
\* front.
FindMin ==
    /\ sortpc = "min"
    /\ IF pb > 1
       THEN /\ pa' = IF eio_dent_cmp(dents[pb], dents[pa]) < 0 THEN pb ELSE pa
            /\ pb' = pb - 1
            /\ UNCHANGED <<dents, sortpc>>
       ELSE /\ dents' = SwapAt(dents, 1, pa)
            /\ sortpc' = "insert" /\ pa' = 2 /\ pb' = 1
    /\ UNCHANGED <<size, bits, stk, base, end, bit>>

\* The entry i is put behind the entry j < i.
MovedDown(s, i, j) ==
    [k \in 1..Len(s) |-> IF k = j + 1 THEN s[i]
                         ELSE IF k \in (j + 2)..i THEN s[k - 1] ELSE s[k]]

\* The next entry goes behind the last entry before it that is not larger.
\* The loop tests no bound: without such an entry it leaves the array.
Insert ==
    /\ sortpc = "insert" /\ pa <= size
    /\ LET stops == {j \in 1..(pa - 1) : eio_dent_cmp(dents[j], dents[pa]) <= 0}
       IN  /\ sortpc' = IF stops = {} THEN "overrun" ELSE "insert"
           /\ dents' = IF stops = {} THEN dents ELSE MovedDown(dents, pa, Max(stops))
           /\ pa' = pa + 1
    /\ UNCHANGED <<size, bits, stk, base, end, bit, pb>>

Inserted ==
    /\ sortpc = "insert" /\ pa > size
    /\ sortpc' = "sorted"
    /\ UNCHANGED <<dents, size, bits, stk, base, end, bit, pa, pb>>

SortStep == RadixTest \/ Partition \/ PartitionEnds \/ FindMin \/ Insert \/ Inserted
=============================================================================
