-------------------------- MODULE EioScandirProofs --------------------------
(***************************************************************************)
(* Proofs about eio__scandir: for directories, buffers and arrays of any   *)
(* size and in every order that readdir can choose, nothing leaves its     *)
(* buffer, every entry is delivered, and the order is the one asked for.   *)
(***************************************************************************)
EXTENDS EioScandir, FiniteSetTheorems, SequenceTheorems, WellFoundedInduction, TLAPS

-----------------------------------------------------------------------------
(* Numbers and their bits. *)

\* A set of natural numbers has a smallest element.
LEMMA SmallestOf ==
  ASSUME NEW T, T \subseteq Nat, T # {}
  PROVE  \E n \in T : \A m \in T : n <= m
<1>1. PICK n \in T : \A m \in T : ~ (<<m, n>> \in OpToRel(<, Nat))
  BY NatLessThanWellFounded, WFMin, Zenon
<1>2. \A m \in T : ~ (m < n)
  BY <1>1 DEF OpToRel
<1> QED
  BY <1>2

\* A set of numbers between two limits has a greatest element.
LEMMA MaxIs ==
  ASSUME NEW S, NEW l \in Int, NEW h \in Int, S \subseteq l..h, S # {}
  PROVE  Max(S) \in S /\ \A x \in S : x <= Max(S)
<1> DEFINE T == {n \in Nat : h - n \in S}
<1>1. PICK n \in T : \A m \in T : n <= m
  <2>1. PICK x \in S : TRUE
    OBVIOUS
  <2>2. h - x \in T
    BY <2>1
  <2> QED
    BY <2>2, SmallestOf
<1>2. h - n \in S /\ \A x \in S : x <= h - n
  <2>1. ASSUME NEW x \in S PROVE x <= h - n
    <3>1. h - x \in T
      OBVIOUS
    <3> QED
      BY <1>1, <3>1
  <2> QED
    BY <2>1
<1> QED
  BY <1>2 DEF Max

TopOfAll == INO_BITS + 2

\* Division by a power of two drops the lower bits.
LEMMA DivHalf ==
  ASSUME NEW n \in Nat, NEW w \in Nat \ {0}
  PROVE  (n \div w) \div 2 = n \div (2 * w)
OBVIOUS

LEMMA DivLess ==
  ASSUME NEW n \in Nat, NEW m \in Nat, NEW w \in Nat \ {0}, n \div w < m \div w
  PROVE  n < m
OBVIOUS

LEMMA HalfIs ==
  ASSUME NEW q \in Nat
  PROVE  q \div 2 \in Nat /\ q % 2 \in {0, 1} /\ q = 2 * (q \div 2) + (q % 2)
OBVIOUS

LEMMA BitIs ==
  ASSUME NEW n \in Nat, NEW k \in 0..TopOfAll
  PROVE  /\ n \div 2^k \in Nat /\ n \div 2^(k + 1) \in Nat
         /\ n \div 2^k = 2 * (n \div 2^(k + 1)) + (IF HasBit(n, k) THEN 1 ELSE 0)
<1>1. 2^k \in Nat \ {0} /\ 2^(k + 1) = 2 * 2^k
  BY PowersOfTwo DEF TopOfAll
<1>2. PICK w \in Nat \ {0} : w = 2^k
  BY <1>1
<1>3. PICK q \in Nat : q = n \div w
  OBVIOUS
<1>4. q \div 2 = n \div (2 * w)
  BY <1>3, DivHalf
<1>5. HasBit(n, k) <=> q % 2 = 1
  BY <1>2, <1>3 DEF HasBit
<1>6. q \div 2 \in Nat /\ q % 2 \in {0, 1} /\ q = 2 * (q \div 2) + (q % 2)
  BY HalfIs
<1>7. n \div 2^k = q /\ n \div 2^(k + 1) = q \div 2
  BY <1>1, <1>2, <1>3, <1>4
<1> QED
  BY <1>5, <1>6, <1>7

\* Numbers of b bits with the same bits from k on differ in their lower part at
\* most.
LEMMA SameBits ==
  ASSUME NEW b \in 0..(TopOfAll + 1), NEW n \in 0..(2^b - 1), NEW m \in 0..(2^b - 1),
         NEW k \in 0..b, \A j \in k..(b - 1) : HasBit(n, j) <=> HasBit(m, j)
  PROVE  n \div 2^k = m \div 2^k
<1> DEFINE U == {i \in Nat : b - i \in k..b /\ n \div 2^(b - i) # m \div 2^(b - i)}
<1> SUFFICES U = {}
  <2>1. b \in Nat /\ k \in Nat /\ b - k \in Nat /\ b - (b - k) = k /\ k \in k..b
    BY SortAssumption DEF TopOfAll
  <2> QED
    BY <2>1
<1> SUFFICES ASSUME U # {} PROVE FALSE
  OBVIOUS
<1>1. PICK i \in U : \A j \in U : i <= j
  BY SmallestOf
<1>2. i # 0
  <2>1. 2^b \in Nat \ {0} /\ b \in Nat /\ n \in Nat /\ m \in Nat /\ n < 2^b /\ m < 2^b
    <3>1. b \in Nat /\ INO_BITS \in Nat
      BY SortAssumption DEF TopOfAll
    <3>2. CASE b = 0
      BY <3>2, PowersOfTwo
    <3>3. CASE b > 0
      <4>1. b - 1 \in 0..(INO_BITS + 2) /\ (b - 1) + 1 = b
        BY <3>1, <3>3 DEF TopOfAll
      <4>2. 2^((b - 1) + 1) = 2 * 2^(b - 1) /\ 2^(b - 1) \in Nat \ {0}
        BY <4>1, PowersOfTwo
      <4> QED
        BY <3>1, <4>1, <4>2
    <3> QED
      BY <3>1, <3>2, <3>3
  <2>2. \A w \in Nat \ {0} : \A x \in Nat : x < w => x \div w = 0
    OBVIOUS
  <2>3. n \div 2^b = 0 /\ m \div 2^b = 0
    BY <2>1, <2>2
  <2>4. b - 0 = b
    BY <2>1
  <2> QED
    BY <2>3, <2>4
<1>3. i - 1 \in Nat /\ i - 1 \notin U /\ b - (i - 1) = (b - i) + 1 /\ b - (i - 1) \in k..b
  <2>1. b \in Nat /\ k \in Nat /\ i \in Nat /\ b - i \in k..b
    BY <1>1, SortAssumption DEF TopOfAll
  <2>2. i - 1 \notin U
    <3> HIDE DEF U
    <3> QED
      BY <1>1, <2>1
  <2>3. i - 1 \in Nat /\ b - (i - 1) = (b - i) + 1 /\ b - (i - 1) \in k..b
    BY <1>2, <2>1
  <2> QED
    BY <2>2, <2>3
<1>4. b - i \in k..(b - 1) /\ b - i \in 0..TopOfAll /\ n \in Nat /\ m \in Nat
  BY <1>1, <1>2, SortAssumption DEF TopOfAll
<1>5. n \div 2^((b - i) + 1) = m \div 2^((b - i) + 1)
  BY <1>3
<1>6. n \div 2^(b - i) = m \div 2^(b - i)
  <2>1. HasBit(n, b - i) <=> HasBit(m, b - i)
    BY <1>4
  <2> DEFINE k1 == b - i
  <2>2. k1 \in 0..TopOfAll
    BY <1>4
  <2>3. n \div 2^(k1 + 1) = m \div 2^(k1 + 1) /\ (HasBit(n, k1) <=> HasBit(m, k1))
    BY <1>5, <2>1
  <2> HIDE DEF k1
  <2>4. n \div 2^k1 = 2 * (n \div 2^(k1 + 1)) + (IF HasBit(n, k1) THEN 1 ELSE 0)
    BY <1>4, <2>2, BitIs
  <2>5. m \div 2^k1 = 2 * (m \div 2^(k1 + 1)) + (IF HasBit(m, k1) THEN 1 ELSE 0)
    BY <1>4, <2>2, BitIs
  <2>6. n \div 2^k1 = m \div 2^k1
    BY <2>3, <2>4, <2>5
  <2> QED
    BY <2>6 DEF k1
<1> QED
  BY <1>1, <1>6

\* The lower number lacks the first bit in which the two differ.
LEMMA LowerBits ==
  ASSUME NEW b \in 0..(TopOfAll + 1), NEW n \in 0..(2^b - 1), NEW m \in 0..(2^b - 1),
         NEW k \in 0..(b - 1), ~HasBit(n, k), HasBit(m, k),
         \A j \in (k + 1)..(b - 1) : HasBit(n, j) <=> HasBit(m, j)
  PROVE  n < m
<1>0. k + 1 \in 0..b
  BY SortAssumption DEF TopOfAll
<1>1. n \div 2^(k + 1) = m \div 2^(k + 1)
  BY <1>0, SameBits
<1>2. n \in Nat /\ m \in Nat /\ k \in 0..TopOfAll
  BY SortAssumption DEF TopOfAll
<1>3. n \div 2^k < m \div 2^k
  <2>1. n \div 2^k \in Nat /\ n \div 2^(k + 1) \in Nat /\ n \div 2^k = 2 * (n \div 2^(k + 1))
    BY <1>2, BitIs
  <2>2. m \div 2^k \in Nat /\ m \div 2^k = 2 * (m \div 2^(k + 1)) + 1
    BY <1>2, BitIs
  <2> QED
    BY <1>1, <2>1, <2>2
<1>4. 2^k \in Nat \ {0}
  BY <1>2, PowersOfTwo DEF TopOfAll
<1> QED
  BY <1>2, <1>3, <1>4, DivLess
-----------------------------------------------------------------------------
(* The order by bits. *)

\* Two entries have the same bits from k on.
Agree(d, e, k) == \A j \in k..TopOfAll : DentHas(d, j) <=> DentHas(e, j)

\* The first bit in which they differ, from the top down to k, is one of e.
BitsBelow(d, e, k) ==
    \E j \in k..TopOfAll : ~DentHas(d, j) /\ DentHas(e, j) /\ Agree(d, e, j + 1)

IsDent(d) == d.score \in 0..7 /\ d.inode \in 1..(2^INO_BITS - 1)

NotAbove(i, j) == eio_dent_cmp(dents[i], dents[j]) <= 0

(* The inductive invariant of the sort. *)

Partitions == [base : Nat, end : Nat, bit : Nat]

SortTypeOK ==
    /\ sortpc \in SortPC
    /\ size \in Nat /\ size <= Len(dents)
    /\ bits \subseteq 0..TopOfAll
    /\ stk \in Seq(Partitions)
    /\ base \in Nat /\ end \in Nat /\ bit \in Int /\ pa \in Nat /\ pb \in Nat

EntriesOK(s) == \A i \in 1..Len(s) : IsDent(s[i])

\* No two of the first n entries differ in a bit that is not in B.
BitsOK(s, n, B) ==
    \A i, j \in 1..n : \A k \in (0..TopOfAll) \ B : DentHas(s[i], k) <=> DentHas(s[j], k)

\* A partition that a bit divides next: its entries have the same bits above
\* it, and they are below all entries behind the partition.
SegmentOK(s, n, B, g) ==
    /\ 1 <= g.base /\ g.base <= g.end /\ g.end <= n + 1 /\ g.bit \in B
    /\ \A i, j \in g.base..(g.end - 1) : Agree(s[i], s[j], g.bit + 1)
    /\ \A i \in g.base..(g.end - 1), j \in g.end..n : BitsBelow(s[i], s[j], g.bit + 1)

\* Once a partition that is not empty was finished, the first entry is not
\* above those from b on, nor those from EIO_SORT_CUTOFF on.
FrontOK(s, n, b) ==
    b > 1 => \A j \in 2..n : j >= b \/ j >= EIO_SORT_CUTOFF => eio_dent_cmp(s[1], s[j]) <= 0

\* The partition at work.
AtWork == [base |-> base, end |-> end, bit |-> bit]

\* The partitions of the stack K lie behind the one at work, which ends at e and
\* is divided by the bit b; the last one comes first, and they reach to the end
\* of the array.  The bits get smaller towards the top.
StackOK(s, n, B, K, e, b) ==
    /\ b + Len(K) <= TopOfAll
    /\ \A m \in 1..Len(K) :
          /\ SegmentOK(s, n, B, K[m])
          /\ K[m].base = IF m = Len(K) THEN e ELSE K[m + 1].end
          /\ e <= K[m].base /\ \A l \in 1..(m - 1) : K[m].end <= K[l].base
          /\ K[m].bit + m <= TopOfAll
    /\ n + 1 = IF K = <<>> THEN e ELSE K[1].end

RadixOK ==
    sortpc \in {"radix", "part"} =>
       /\ size > 1
       /\ size > EIO_SORT_FAST =>
             /\ BitsOK(dents, size, bits) /\ SegmentOK(dents, size, bits, AtWork)
             /\ StackOK(dents, size, bits, stk, end, bit) /\ FrontOK(dents, size, base)

PartitionOK ==
    sortpc = "part" =>
       /\ size > EIO_SORT_FAST /\ end - base >= EIO_SORT_CUTOFF
       /\ base <= pa /\ pa <= pb /\ pb <= end
       /\ \A i \in base..(pa - 1) : ~DentHas(dents[i], bit)
       /\ \A i \in pb..(end - 1) : DentHas(dents[i], bit)

MinOK ==
    sortpc = "min" =>
       /\ pa \in 1..size /\ pb \in 1..size
       /\ NotAbove(pa, 1) /\ \A j \in (pb + 1)..size : NotAbove(pa, j)

InsertOK ==
    sortpc = "insert" =>
       /\ pa \in 2..(size + 1)
       /\ \A j \in 1..size : NotAbove(1, j)
       /\ \A i, j \in 1..(pa - 1) : i <= j => NotAbove(i, j)

SortedOK == sortpc = "sorted" => \A i, j \in 1..size : i <= j => NotAbove(i, j)

SortInv ==
    /\ SortTypeOK /\ EntriesOK(dents) /\ RadixOK /\ PartitionOK /\ MinOK /\ InsertOK /\ SortedOK
    /\ sortpc # "overrun" /\ Len(stk) <= TopOfAll

(* The inductive invariant of eio__scandir. *)

IsEntry(e) == e.len \in Nat /\ e.inode \in 1..(2^INO_BITS - 1)

Active == sdpc \notin {"idle", "done", "segv"}

\* The reading goes on, or has come to its end.
Complete == Active \/ (sdpc = "done" /\ sdresult >= 0)

NameSet(d) == [ofs : Nat, ent : d]

DentSet(d) ==
    [nameofs : Nat, namelen : Nat, inode : 1..(2^INO_BITS - 1), type : {e.type : e \in d},
     score : 0..7]

SdTypeOK ==
    /\ sdpc \in ScandirPC
    /\ sdflags \subseteq Flags
    /\ dents \in Seq(DentSet(dir))
    /\ names \in Seq(NameSet(dir))
    /\ namesoffs \in Nat /\ namesalloc \in Nat /\ dentalloc \in Nat /\ sdresult \in Int
    /\ \A e \in dir : IsEntry(e)

\* The entries that are neither unread nor being added have their names in the
\* buffer, once.
NamesOK ==
    /\ unread \subseteq dir
    /\ entp = {} \/ (sdpc \in {"grow", "segv"} /\ \E e \in Visible \ unread : entp = {e})
    /\ sdpc = "idle" => dir = {} /\ names = <<>> /\ namesoffs = 0 /\ dents = <<>>
    /\ \A i \in 1..Len(names) : names[i].ent \in Visible \ (unread \cup entp)
    /\ \A i, j \in 1..Len(names) : names[i].ent = names[j].ent => i = j
    /\ Complete => \A e \in Visible \ (unread \cup entp) : \E i \in 1..Len(names) : names[i].ent = e

OffsetsOK ==
    /\ \A i, j \in 1..Len(names) : i < j => names[i].ofs < names[j].ofs
    /\ \A i \in 1..Len(names) :
          names[i].ofs + names[i].ent.len + 1
            = IF i = Len(names) THEN namesoffs ELSE names[i + 1].ofs

\* The element that was made for a name n of the buffer.
DentOf(n, flags) ==
    [nameofs |-> n.ofs, namelen |-> n.ent.len, inode |-> n.ent.inode, type |-> n.ent.type,
     score |-> Score(n.ent, flags)]

\* The array s has the elements of the names N, in any order.
ElementsOK(s, N, flags) ==
    /\ Len(s) = Len(N)
    /\ \A i \in 1..Len(s) : \E k \in 1..Len(N) : s[i] = DentOf(N[k], flags)
    /\ \A k \in 1..Len(N) : \E i \in 1..Len(s) : s[i] = DentOf(N[k], flags)

ArrayOK ==
    /\ dentalloc = 0 => dents = <<>>
    /\ dentalloc # 0 => ElementsOK(dents, names, sdflags)
    /\ Complete => (dentalloc = 0 <=> sdflags = {})
    /\ sdflags \cap {"DIRS_FIRST", "STAT_ORDER"} # {} => "DENTS" \in sdflags

\* Which of the entries are sorted.
WhatIsSorted ==
    /\ sdpc \in {"dirs", "sort"} => dentalloc # 0 /\ unread = {}
    /\ sdpc \in {"idle", "read", "grow", "cancel"} => sdresult \in {0, -1}
    /\ sdpc \in {"read", "grow", "cancel", "segv"} => sdresult = -1
    /\ Complete /\ sdpc \notin {"read", "grow", "cancel"} => sdresult = Len(names) /\ unread = {}
    /\ sdpc = "dirs" =>
          /\ ~SortsAll(sdflags) /\ "DIRS_FIRST" \in sdflags
          /\ pa \in 1..pb /\ pb <= Len(dents) + 1
          /\ \A i \in 1..(pa - 1) : dents[i].type = "DIR"
          /\ \A i \in pb..Len(dents) : dents[i].type # "DIR"
    /\ sdpc = "sort" =>
          \/ SortsAll(sdflags) /\ size = Len(dents)
          \/ /\ ~SortsAll(sdflags) /\ "DIRS_FIRST" \in sdflags
             /\ \A i \in 1..size : dents[i].type = "DIR"
             /\ \A i \in (size + 1)..Len(dents) : dents[i].type # "DIR"
    /\ sdpc # "sort" => sortpc = "none" /\ stk = <<>> /\ size = 0
    /\ sdpc = "sort" => sortpc # "none"

BuffersOK == namesoffs <= namesalloc /\ Len(dents) <= dentalloc

SdInv ==
    /\ SdTypeOK /\ NamesOK /\ OffsetsOK /\ ArrayOK /\ BuffersOK /\ WhatIsSorted /\ SortInv
    /\ ReaddirOrder

-----------------------------------------------------------------------------
(* The order by bits is the order of eio_dent_cmp. *)

\* The bits of a score.
LEMMA ScoreBitsAre ==
  ASSUME NEW d, IsDent(d), NEW e, IsDent(e)
  PROVE  /\ 3 \in 0..(TopOfAll + 1) /\ INO_BITS \in 0..(TopOfAll + 1)
         /\ 2^3 = 8 /\ 2^0 = 1
         /\ d.score \in 0..(2^3 - 1) /\ e.score \in 0..(2^3 - 1)
         /\ d.inode \in 0..(2^INO_BITS - 1) /\ e.inode \in 0..(2^INO_BITS - 1)
         /\ d.score \in Nat /\ e.score \in Nat /\ d.inode \in Nat /\ e.inode \in Nat
<1>1. INO_BITS \in Nat /\ 0 \in 0..(INO_BITS + 2) /\ 1 \in 0..(INO_BITS + 2) /\ 2 \in 0..(INO_BITS + 2)
  BY SortAssumption
<1>2. 2^0 = 1 /\ 2^(0 + 1) = 2 * 2^0 /\ 2^(1 + 1) = 2 * 2^1 /\ 2^(2 + 1) = 2 * 2^2
  BY <1>1, PowersOfTwo
<1>3. 2^3 = 8
  BY <1>2
<1>4. 2^INO_BITS \in Nat
  BY <1>1, PowersOfTwo
<1> QED
  BY <1>1, <1>2, <1>3, <1>4 DEF IsDent, TopOfAll

\* Bit k of the score is the bit INO_BITS + k of the entry.
LEMMA DentBits ==
  ASSUME NEW d, NEW k \in 0..TopOfAll
  PROVE  /\ k < INO_BITS => (DentHas(d, k) <=> HasBit(d.inode, k))
         /\ k \in 0..2 => (DentHas(d, INO_BITS + k) <=> HasBit(d.score, k))
<1>1. INO_BITS \in Nat /\ k \in Nat
  BY SortAssumption DEF TopOfAll
<1>2. (INO_BITS + k) - INO_BITS = k /\ ~(INO_BITS + k < INO_BITS)
  BY <1>1
<1> QED
  BY <1>1, <1>2 DEF DentHas

LEMMA AgreeScores ==
  ASSUME NEW d, IsDent(d), NEW e, IsDent(e), NEW k \in 0..INO_BITS, Agree(d, e, k)
  PROVE  d.score = e.score
<1>1. ASSUME NEW j \in 0..2 PROVE HasBit(d.score, j) <=> HasBit(e.score, j)
  <2>1. INO_BITS + j \in k..TopOfAll /\ j \in 0..TopOfAll
    BY SortAssumption DEF TopOfAll
  <2>2. DentHas(d, INO_BITS + j) <=> DentHas(e, INO_BITS + j)
    BY <2>1 DEF Agree
  <2> QED
    BY <2>1, <2>2, DentBits
<1>2. d.score \div 2^0 = e.score \div 2^0
  <2>1. /\ 3 \in 0..(TopOfAll + 1) /\ d.score \in 0..(2^3 - 1) /\ e.score \in 0..(2^3 - 1)
        /\ 0 \in 0..3 /\ \A j \in 0..(3 - 1) : HasBit(d.score, j) <=> HasBit(e.score, j)
    BY <1>1, ScoreBitsAre
  <2> QED
    BY <2>1, SameBits
<1> QED
  BY <1>2, ScoreBitsAre

\* Entries with the same bits are equal in the order of eio_dent_cmp.
LEMMA CmpAgree ==
  ASSUME NEW d, IsDent(d), NEW e, IsDent(e), Agree(d, e, 0)
  PROVE  eio_dent_cmp(d, e) = 0
<1>1. d.score = e.score
  BY AgreeScores, SortAssumption
<1>2. ASSUME NEW j \in 0..(INO_BITS - 1) PROVE HasBit(d.inode, j) <=> HasBit(e.inode, j)
  <2>1. j \in 0..TopOfAll /\ j < INO_BITS
    BY SortAssumption DEF TopOfAll
  <2> QED
    BY <2>1, DentBits DEF Agree
<1>3. d.inode \div 2^0 = e.inode \div 2^0
  <2>1. 0 \in 0..INO_BITS /\ INO_BITS \in 0..(TopOfAll + 1)
    BY SortAssumption DEF TopOfAll
  <2>2. d.inode \in 0..(2^INO_BITS - 1) /\ e.inode \in 0..(2^INO_BITS - 1)
    BY ScoreBitsAre
  <2> QED
    BY <1>2, <2>1, <2>2, SameBits
<1>4. d.inode = e.inode
  BY <1>3, ScoreBitsAre
<1> QED
  BY <1>1, <1>4, ScoreBitsAre DEF eio_dent_cmp

\* An entry that is below another one by its bits is before it.
LEMMA CmpBelow ==
  ASSUME NEW d, IsDent(d), NEW e, IsDent(e), BitsBelow(d, e, 0)
  PROVE  eio_dent_cmp(d, e) < 0
<1>1. PICK j \in 0..TopOfAll : ~DentHas(d, j) /\ DentHas(e, j) /\ Agree(d, e, j + 1)
  BY DEF BitsBelow
<1>2. INO_BITS \in Nat /\ j \in Nat
  BY SortAssumption
<1>3. CASE j < INO_BITS
  <2>1. d.score = e.score
    <3>1. j + 1 \in 0..INO_BITS
      BY <1>2, <1>3
    <3> QED
      BY <1>1, <3>1, AgreeScores
  <2>2. ~HasBit(d.inode, j) /\ HasBit(e.inode, j) /\ j \in 0..(INO_BITS - 1)
    BY <1>1, <1>2, <1>3, DentBits
  <2>3. ASSUME NEW k \in (j + 1)..(INO_BITS - 1) PROVE HasBit(d.inode, k) <=> HasBit(e.inode, k)
    <3>1. k \in 0..TopOfAll /\ k < INO_BITS /\ k \in (j + 1)..TopOfAll
      BY <1>2 DEF TopOfAll
    <3> QED
      BY <1>1, <3>1, DentBits DEF Agree
  <2>4. d.inode < e.inode
    BY <2>2, <2>3, ScoreBitsAre, LowerBits
  <2> QED
    BY <2>1, <2>4, ScoreBitsAre DEF eio_dent_cmp
<1>4. CASE j >= INO_BITS
  <2> DEFINE t == j - INO_BITS
  <2>1. t \in 0..2 /\ t \in 0..TopOfAll /\ INO_BITS + t = j /\ t \in 0..(3 - 1)
    BY <1>2, <1>4 DEF TopOfAll
  <2> HIDE DEF t
  <2>2. ~HasBit(d.score, t) /\ HasBit(e.score, t)
    BY <1>1, <2>1, DentBits
  <2>3. ASSUME NEW k \in (t + 1)..(3 - 1) PROVE HasBit(d.score, k) <=> HasBit(e.score, k)
    <3>1. k \in 0..2 /\ k \in 0..TopOfAll /\ INO_BITS + k \in (j + 1)..TopOfAll
      BY <1>2, <2>1 DEF TopOfAll
    <3>2. DentHas(d, INO_BITS + k) <=> DentHas(e, INO_BITS + k)
      BY <1>1, <3>1 DEF Agree
    <3> QED
      BY <3>1, <3>2, DentBits
  <2>4. d.score < e.score
    BY <2>1, <2>2, <2>3, ScoreBitsAre, LowerBits
  <2> QED
    BY <2>4, ScoreBitsAre DEF eio_dent_cmp
<1> QED
  BY <1>2, <1>3, <1>4

\* eio_dent_cmp is a total order, up to entries with the same score and inode.
LEMMA CmpOrder ==
  ASSUME NEW d, IsDent(d), NEW e, IsDent(e), NEW f, IsDent(f)
  PROVE  /\ eio_dent_cmp(d, e) \in Int
         /\ eio_dent_cmp(d, d) <= 0
         /\ eio_dent_cmp(d, e) <= 0 \/ eio_dent_cmp(e, d) < 0
         /\ eio_dent_cmp(d, e) > 0 => eio_dent_cmp(e, d) <= 0
         /\ eio_dent_cmp(d, e) <= 0 /\ eio_dent_cmp(e, f) <= 0 => eio_dent_cmp(d, f) <= 0
<1>1. /\ d.score \in Nat /\ e.score \in Nat /\ d.inode \in Nat /\ e.inode \in Nat
      /\ f.score \in Nat /\ f.inode \in Nat
  BY ScoreBitsAre
<1> QED
  BY <1>1 DEF eio_dent_cmp

-----------------------------------------------------------------------------
(* Swapping and moving entries. *)

\* t has the entries of s, and only those from l to h may have changed places.
Rearranged(s, t, l, h) ==
    /\ Len(t) = Len(s)
    /\ \A i \in 1..Len(s) : i \notin l..h => t[i] = s[i]
    /\ \A i \in l..h : \E j \in l..h : t[i] = s[j]
    /\ \A j \in l..h : \E i \in l..h : t[i] = s[j]

LEMMA SwapIs ==
  ASSUME NEW D, NEW s \in Seq(D), NEW i \in 1..Len(s), NEW j \in 1..Len(s)
  PROVE  /\ SwapAt(s, i, j) \in Seq(D) /\ Len(SwapAt(s, i, j)) = Len(s)
         /\ \A k \in 1..Len(s) :
               SwapAt(s, i, j)[k] = IF k = j THEN s[i] ELSE IF k = i THEN s[j] ELSE s[k]
BY DEF SwapAt

LEMMA SwapRearranges ==
  ASSUME NEW D, NEW s \in Seq(D), NEW l \in 1..Len(s), NEW h \in 1..Len(s),
         NEW i \in l..h, NEW j \in l..h
  PROVE  Rearranged(s, SwapAt(s, i, j), l, h) /\ SwapAt(s, i, j) \in Seq(D)
<1>1. i \in 1..Len(s) /\ j \in 1..Len(s) /\ Len(s) \in Nat
  OBVIOUS
<1> DEFINE t == SwapAt(s, i, j)
<1>2. /\ t \in Seq(D) /\ Len(t) = Len(s)
      /\ \A k \in 1..Len(s) : t[k] = IF k = j THEN s[i] ELSE IF k = i THEN s[j] ELSE s[k]
  BY <1>1 DEF SwapAt
<1> HIDE DEF t
<1>3. \A k \in l..h : k \in 1..Len(s)
  BY <1>1
<1>4. ASSUME NEW k \in 1..Len(s), k \notin l..h PROVE t[k] = s[k]
  BY <1>2, <1>4
<1>5. ASSUME NEW k \in l..h PROVE \E m \in l..h : t[k] = s[m]
  BY <1>2, <1>3
<1>6. ASSUME NEW m \in l..h PROVE \E k \in l..h : t[k] = s[m]
  <2>1. t[j] = s[i] /\ t[i] = s[j] /\ (m \notin {i, j} => t[m] = s[m])
    BY <1>1, <1>2, <1>3
  <2> QED
    BY <2>1
<1> QED
  BY <1>2, <1>4, <1>5, <1>6 DEF Rearranged, t

LEMMA MovedIs ==
  ASSUME NEW D, NEW s \in Seq(D), NEW i \in 1..Len(s), NEW j \in 1..(i - 1)
  PROVE  /\ MovedDown(s, i, j) \in Seq(D) /\ Len(MovedDown(s, i, j)) = Len(s)
         /\ \A k \in 1..Len(s) :
               MovedDown(s, i, j)[k] = IF k = j + 1 THEN s[i]
                                       ELSE IF k \in (j + 2)..i THEN s[k - 1] ELSE s[k]
<1> DEFINE F(k) == IF k = j + 1 THEN s[i] ELSE IF k \in (j + 2)..i THEN s[k - 1] ELSE s[k]
<1>1. ASSUME NEW k \in 1..Len(s) PROVE F(k) \in D
  <2>1. k \in (j + 2)..i => k - 1 \in 1..Len(s)
    OBVIOUS
  <2> QED
    BY <2>1
<1>2. MovedDown(s, i, j) = [k \in 1..Len(s) |-> F(k)]
  BY DEF MovedDown
<1> HIDE DEF F
<1>3. [k \in 1..Len(s) |-> F(k)] \in Seq(D) /\ Len([k \in 1..Len(s) |-> F(k)]) = Len(s)
  <2>1. Len(s) \in Nat
    OBVIOUS
  <2> QED
    BY <1>1, <2>1
<1>4. \A k \in 1..Len(s) : MovedDown(s, i, j)[k] = F(k)
  BY <1>2
<1> QED
  BY <1>2, <1>3, <1>4 DEF F

LEMMA MoveRearranges ==
  ASSUME NEW D, NEW s \in Seq(D), NEW h \in 1..Len(s), NEW i \in 1..h, NEW j \in 1..(i - 1)
  PROVE  Rearranged(s, MovedDown(s, i, j), 1, h) /\ MovedDown(s, i, j) \in Seq(D)
<1> DEFINE t == MovedDown(s, i, j)
<1>0. i \in 1..Len(s) /\ Len(s) \in Nat
  OBVIOUS
<1>1. /\ t \in Seq(D) /\ Len(t) = Len(s)
      /\ \A k \in 1..Len(s) : t[k] = IF k = j + 1 THEN s[i]
                                     ELSE IF k \in (j + 2)..i THEN s[k - 1] ELSE s[k]
  BY <1>0, MovedIs
<1> HIDE DEF t
<1>2. ASSUME NEW k \in 1..Len(s), k \notin 1..h PROVE t[k] = s[k]
  BY <1>0, <1>1, <1>2
<1>3. ASSUME NEW k \in 1..h PROVE \E m \in 1..h : t[k] = s[m]
  <2>1. k \in 1..Len(s) /\ (k \in (j + 2)..i => k - 1 \in 1..h)
    BY <1>0
  <2> QED
    BY <1>1, <2>1
<1>4. ASSUME NEW m \in 1..h PROVE \E k \in 1..h : t[k] = s[m]
  <2>1. CASE m = i
    <3>1. j + 1 \in 1..h /\ j + 1 \in 1..Len(s)
      BY <1>0
    <3> QED
      BY <1>1, <2>1, <3>1
  <2>2. CASE m \in (j + 1)..(i - 1)
    <3>1. m + 1 \in 1..h /\ m + 1 \in 1..Len(s) /\ m + 1 # j + 1 /\ m + 1 \in (j + 2)..i
          /\ (m + 1) - 1 = m
      BY <1>0, <2>2
    <3>2. t[m + 1] = s[m]
      BY <1>1, <3>1
    <3> QED
      BY <3>1, <3>2
  <2>3. CASE m # i /\ m \notin (j + 1)..(i - 1)
    <3>1. m \in 1..Len(s) /\ m # j + 1 /\ m \notin (j + 2)..i
      BY <1>0, <2>3
    <3>2. t[m] = s[m]
      BY <1>1, <3>1
    <3> QED
      BY <3>2
  <2> QED
    BY <2>1, <2>2, <2>3
<1> QED
  BY <1>1, <1>2, <1>3, <1>4 DEF Rearranged, t

\* Where each entry of a rearranged array comes from.
LEMMA Origin ==
  ASSUME NEW s, NEW t, NEW l \in Nat, NEW h \in Nat, Rearranged(s, t, l, h), 1 <= l, h <= Len(s),
         Len(s) \in Nat, NEW i \in 1..Len(s)
  PROVE  \E j \in 1..Len(s) : /\ t[i] = s[j]
                              /\ i \in l..h => j \in l..h
                              /\ i \notin l..h => j = i
<1>1. \A j \in l..h : j \in 1..Len(s)
  OBVIOUS
<1> QED
  BY <1>1 DEF Rearranged

-----------------------------------------------------------------------------
(* What is kept when entries change places. *)

LEMMA EntriesMove ==
  ASSUME NEW s, NEW t, NEW l \in Nat, NEW h \in Nat, Rearranged(s, t, l, h),
         1 <= l, h <= Len(s), Len(s) \in Nat, EntriesOK(s)
  PROVE  EntriesOK(t)
<1>1. Len(t) = Len(s)
  BY DEF Rearranged
<1>2. ASSUME NEW i \in 1..Len(s) PROVE IsDent(t[i])
  BY Origin DEF EntriesOK
<1> QED
  BY <1>1, <1>2 DEF EntriesOK

LEMMA BitsMove ==
  ASSUME NEW s, NEW t, NEW l \in Nat, NEW h \in Nat, Rearranged(s, t, l, h),
         1 <= l, Len(s) \in Nat, NEW n \in Nat, n <= Len(s), h <= n, NEW B, BitsOK(s, n, B)
  PROVE  BitsOK(t, n, B)
<1>1. ASSUME NEW i \in 1..n PROVE \E j \in 1..n : t[i] = s[j]
  <2>1. i \in 1..Len(s) /\ h <= Len(s)
    OBVIOUS
  <2>2. PICK j \in 1..Len(s) : t[i] = s[j] /\ (i \in l..h => j \in l..h) /\ (i \notin l..h => j = i)
    BY <2>1, Origin
  <2>3. j \in 1..n
    BY <2>2
  <2> QED
    BY <2>2, <2>3
<1>2. ASSUME NEW i \in 1..n, NEW j \in 1..n, NEW k \in (0..TopOfAll) \ B
      PROVE  DentHas(t[i], k) <=> DentHas(t[j], k)
  <2>1. PICK x \in 1..n : t[i] = s[x]
    BY <1>1
  <2>2. PICK y \in 1..n : t[j] = s[y]
    BY <1>1
  <2>3. DentHas(s[x], k) <=> DentHas(s[y], k)
    BY DEF BitsOK
  <2> QED
    BY <2>1, <2>2, <2>3
<1> QED
  BY <1>2 DEF BitsOK

\* A partition that has the places in it, or lies behind them.
LEMMA SegmentMoves ==
  ASSUME NEW s, NEW t, NEW l \in Nat, NEW h \in Nat, Rearranged(s, t, l, h),
         1 <= l, Len(s) \in Nat, NEW n \in Nat, n <= Len(s), h <= n, NEW B,
         NEW g, g.base \in Nat, g.end \in Nat, SegmentOK(s, n, B, g),
         (g.base <= l /\ h < g.end) \/ h < g.base
  PROVE  SegmentOK(t, n, B, g)
<1>1. 1 <= g.base /\ g.base <= g.end /\ g.end <= n + 1 /\ g.bit \in B
  BY DEF SegmentOK
<1>2. ASSUME NEW i \in g.base..(g.end - 1) PROVE \E x \in g.base..(g.end - 1) : t[i] = s[x]
  <2>1. i \in 1..Len(s) /\ h <= Len(s) /\ Rearranged(s, t, l, h)
    BY <1>1
  <2>2. PICK j \in 1..Len(s) : t[i] = s[j] /\ (i \in l..h => j \in l..h) /\ (i \notin l..h => j = i)
    BY ONLY <2>1, l \in Nat, h \in Nat, 1 <= l, Len(s) \in Nat, Origin
  <2>3. j \in g.base..(g.end - 1)
    BY <1>1, <2>2
  <2> QED
    BY <2>2, <2>3
<1>3. ASSUME NEW i \in g.end..n PROVE t[i] = s[i]
  <2>1. i \in 1..Len(s) /\ i \notin l..h
    BY <1>1
  <2> QED
    BY <2>1 DEF Rearranged
<1>4. ASSUME NEW i \in g.base..(g.end - 1), NEW j \in g.base..(g.end - 1)
      PROVE  Agree(t[i], t[j], g.bit + 1)
  <2>1. PICK x \in g.base..(g.end - 1) : t[i] = s[x]
    BY <1>2
  <2>2. PICK y \in g.base..(g.end - 1) : t[j] = s[y]
    BY <1>2
  <2>3. Agree(s[x], s[y], g.bit + 1)
    BY DEF SegmentOK
  <2> QED
    BY <2>1, <2>2, <2>3
<1>5. ASSUME NEW i \in g.base..(g.end - 1), NEW j \in g.end..n
      PROVE  BitsBelow(t[i], t[j], g.bit + 1)
  <2>1. PICK x \in g.base..(g.end - 1) : t[i] = s[x]
    BY <1>2
  <2>2. t[j] = s[j]
    BY <1>3
  <2>3. BitsBelow(s[x], s[j], g.bit + 1)
    BY DEF SegmentOK
  <2> QED
    BY <2>1, <2>2, <2>3
<1> QED
  BY <1>1, <1>4, <1>5 DEF SegmentOK

LEMMA FrontMoves ==
  ASSUME NEW s, NEW t, NEW l \in Nat, NEW h \in Nat, Rearranged(s, t, l, h),
         1 <= l, Len(s) \in Nat, NEW n \in Nat, n <= Len(s), h <= n,
         NEW b \in Nat, b <= l, FrontOK(s, n, b)
  PROVE  FrontOK(t, n, b)
<1> SUFFICES ASSUME b > 1, NEW j \in 2..n, j >= b \/ j >= EIO_SORT_CUTOFF
             PROVE  eio_dent_cmp(t[1], t[j]) <= 0
  BY DEF FrontOK
<1>1. t[1] = s[1]
  <2>1. 1 \in 1..Len(s) /\ 1 \notin l..h
    OBVIOUS
  <2> QED
    BY <2>1 DEF Rearranged
<1>2. PICK x \in 1..Len(s) : t[j] = s[x] /\ (j \in l..h => x \in l..h) /\ (j \notin l..h => x = j)
  <2>1. j \in 1..Len(s) /\ h <= Len(s)
    OBVIOUS
  <2> QED
    BY <2>1, Origin
<1>3. x \in 2..n /\ (x >= b \/ x >= EIO_SORT_CUTOFF)
  BY <1>2
<1>4. eio_dent_cmp(s[1], s[x]) <= 0
  BY <1>3 DEF FrontOK
<1> QED
  BY <1>1, <1>2, <1>4

-----------------------------------------------------------------------------
(* Dividing and finishing a partition. *)

\* The most significant bit of a set, and whether there is one.
LEMMA TopBitIs ==
  ASSUME NEW S, S \subseteq 0..TopOfAll
  PROVE  /\ S = {} => TopBit(S) = -1
         /\ S # {} => TopBit(S) \in S /\ TopBit(S) \in Nat /\ \A j \in S : j <= TopBit(S)
<1>1. TopOfAll \in Int
  BY SortAssumption DEF TopOfAll
<1>2. CASE S # {}
  <2>1. Max(S) \in S /\ \A x \in S : x <= Max(S)
    <3>1. 0 \in Int
      OBVIOUS
    <3> QED
      BY ONLY <1>1, <1>2, <3>1, S \subseteq 0..TopOfAll, MaxIs
  <2>2. TopBit(S) = Max(S)
    BY <1>2 DEF TopBit
  <2>3. Max(S) \in 0..TopOfAll
    BY <2>1
  <2>4. Max(S) \in Nat
    BY ONLY <1>1, <2>3
  <2> QED
    BY ONLY <1>2, <2>1, <2>2, <2>4
<1>3. CASE S = {}
  BY <1>3 DEF TopBit
<1> QED
  BY <1>2, <1>3

\* Entries that have the same bits from k on, and below it those not in B, have
\* the same bits from the next bit of B on.
LEMMA AgreeDown ==
  ASSUME NEW d, NEW e, NEW k \in Nat, NEW m \in Nat, m <= k, Agree(d, e, k),
         \A j \in m..TopOfAll : j < k => (DentHas(d, j) <=> DentHas(e, j))
  PROVE  Agree(d, e, m)
<1>1. \A j \in m..TopOfAll : j \in k..TopOfAll \/ j < k
  BY SortAssumption DEF TopOfAll
<1> QED
  BY <1>1 DEF Agree

\* The first bit that differs stays the first.
LEMMA BelowDown ==
  ASSUME NEW d, NEW e, NEW k \in Nat, NEW m \in Nat, m <= k, BitsBelow(d, e, k)
  PROVE  BitsBelow(d, e, m)
<1>1. \A j \in k..TopOfAll : j \in m..TopOfAll
  BY SortAssumption DEF TopOfAll
<1> QED
  BY <1>1 DEF BitsBelow

\* One entry lacks the bit that divides the partition, and the other has it.
LEMMA BelowHere ==
  ASSUME NEW d, NEW e, NEW k \in 0..TopOfAll, NEW m \in Nat, m <= k,
         Agree(d, e, k + 1), ~DentHas(d, k), DentHas(e, k)
  PROVE  BitsBelow(d, e, m)
<1>1. k \in m..TopOfAll
  BY SortAssumption DEF TopOfAll
<1> QED
  BY <1>1 DEF BitsBelow

\* Entries x and y of a partition with the same bit that divides it agree on all
\* bits from m on, if no bit of B is between.
LEMMA AgreeHere ==
  ASSUME NEW s, NEW n \in Nat, NEW B, BitsOK(s, n, B), B \subseteq 0..TopOfAll,
         NEW x \in 1..n, NEW y \in 1..n, NEW k \in B, NEW m \in Nat, m <= k,
         Agree(s[x], s[y], k + 1), DentHas(s[x], k) <=> DentHas(s[y], k),
         \A j \in B : j < k => j < m
  PROVE  Agree(s[x], s[y], m)
<1>1. k \in 0..TopOfAll /\ k \in Nat /\ k + 1 \in Nat /\ m <= k + 1
  BY SortAssumption DEF TopOfAll
<1>2. ASSUME NEW j \in m..TopOfAll, j < k + 1 PROVE DentHas(s[x], j) <=> DentHas(s[y], j)
  <2>1. j = k \/ j \in (0..TopOfAll) \ B
    BY <1>1, <1>2
  <2> QED
    BY <2>1 DEF BitsOK
<1> QED
  BY <1>1, <1>2, AgreeDown

\* The two parts of a divided partition are partitions for the next bit.
LEMMA DivideOK ==
  ASSUME NEW s, NEW n \in Nat, NEW B, BitsOK(s, n, B), B \subseteq 0..TopOfAll,
         NEW g, g.base \in Nat, g.end \in Nat, SegmentOK(s, n, B, g),
         NEW a \in Nat, g.base <= a, a <= g.end,
         \A i \in g.base..(a - 1) : ~DentHas(s[i], g.bit),
         \A i \in a..(g.end - 1) : DentHas(s[i], g.bit),
         NEW k \in B, k < g.bit, \A j \in B : j < g.bit => j <= k
  PROVE  /\ SegmentOK(s, n, B, [base |-> g.base, end |-> a, bit |-> k])
         /\ SegmentOK(s, n, B, [base |-> a, end |-> g.end, bit |-> k])
<1> DEFINE c == g.bit
<1>1. /\ 1 <= g.base /\ g.end <= n + 1 /\ c \in B /\ c \in 0..TopOfAll /\ c \in Nat /\ k \in Nat
      /\ k + 1 \in Nat /\ k + 1 <= c /\ c + 1 \in Nat /\ k + 1 <= c + 1
      /\ \A j \in B : j < c => j < k + 1
  <2>1. 1 <= g.base /\ g.end <= n + 1 /\ c \in B /\ k < c
    BY DEF SegmentOK
  <2>2. TopOfAll \in Nat
    BY SortAssumption DEF TopOfAll
  <2>3. \A j \in B : j \in 0..TopOfAll
    OBVIOUS
  <2>4. \A j \in B : j < c => j <= k
    OBVIOUS
  <2> HIDE DEF c
  <2> QED
    BY ONLY <2>1, <2>2, <2>3, <2>4, k \in B, n \in Nat, g.base \in Nat, g.end \in Nat
<1>2. ASSUME NEW i \in g.base..(g.end - 1), NEW j \in g.base..(g.end - 1)
      PROVE  /\ i \in 1..n /\ j \in 1..n /\ Agree(s[i], s[j], c + 1)
             /\ (DentHas(s[i], c) <=> DentHas(s[j], c)) => Agree(s[i], s[j], k + 1)
             /\ ~DentHas(s[i], c) /\ DentHas(s[j], c) => BitsBelow(s[i], s[j], k + 1)
  <2>1. i \in 1..n /\ j \in 1..n
    BY <1>1
  <2>2. Agree(s[i], s[j], c + 1)
    BY DEF SegmentOK
  <2>3. (DentHas(s[i], c) <=> DentHas(s[j], c)) => Agree(s[i], s[j], k + 1)
    <3> HIDE DEF c
    <3> QED
      BY <1>1, <2>1, <2>2, AgreeHere
  <2>4. ~DentHas(s[i], c) /\ DentHas(s[j], c) => BitsBelow(s[i], s[j], k + 1)
    <3> HIDE DEF c
    <3> QED
      BY <1>1, <2>2, BelowHere
  <2> QED
    BY <2>1, <2>2, <2>3, <2>4
<1>3. ASSUME NEW i \in g.base..(g.end - 1), NEW j \in g.end..n
      PROVE  BitsBelow(s[i], s[j], k + 1)
  <2>1. BitsBelow(s[i], s[j], c + 1)
    BY DEF SegmentOK
  <2> HIDE DEF c
  <2> QED
    BY <1>1, <2>1, BelowDown
<1>4. /\ \A i \in g.base..(a - 1) : i \in g.base..(g.end - 1) /\ ~DentHas(s[i], c)
      /\ \A i \in a..(g.end - 1) : i \in g.base..(g.end - 1) /\ DentHas(s[i], c)
  OBVIOUS
<1>5. \A i \in a..n : i \in a..(g.end - 1) \/ i \in g.end..n
  BY <1>1
<1> HIDE DEF c
<1>6. SegmentOK(s, n, B, [base |-> g.base, end |-> a, bit |-> k])
  <2>1. \A i, j \in g.base..(a - 1) : Agree(s[i], s[j], k + 1)
    BY <1>2, <1>4
  <2>2. \A i \in g.base..(a - 1), j \in a..n : BitsBelow(s[i], s[j], k + 1)
    BY <1>2, <1>3, <1>4, <1>5
  <2>3. a <= n + 1
    BY <1>1
  <2> QED
    BY <1>1, <2>1, <2>2, <2>3 DEF SegmentOK
<1>7. SegmentOK(s, n, B, [base |-> a, end |-> g.end, bit |-> k])
  <2>1. \A i, j \in a..(g.end - 1) : Agree(s[i], s[j], k + 1)
    BY <1>2, <1>4
  <2>2. \A i \in a..(g.end - 1), j \in g.end..n : BitsBelow(s[i], s[j], k + 1)
    BY <1>3, <1>4
  <2>3. 1 <= a
    BY <1>1
  <2> QED
    BY <1>1, <2>1, <2>2, <2>3 DEF SegmentOK
<1> QED
  BY <1>6, <1>7

\* A small partition is finished: the entries behind it are above its first.
LEMMA SmallOK ==
  ASSUME NEW s, Len(s) \in Nat, EntriesOK(s), NEW n \in Nat, n <= Len(s),
         NEW B, B \subseteq 0..TopOfAll,
         NEW g, g.base \in Nat, g.end \in Nat, SegmentOK(s, n, B, g), FrontOK(s, n, g.base),
         g.end - g.base < EIO_SORT_CUTOFF
  PROVE  FrontOK(s, n, g.end)
<1>1. 1 <= g.base /\ g.base <= g.end /\ g.end <= n + 1 /\ g.bit + 1 \in Nat
  <2>1. 1 <= g.base /\ g.base <= g.end /\ g.end <= n + 1 /\ g.bit \in B
    BY DEF SegmentOK
  <2>2. TopOfAll \in Nat
    BY SortAssumption DEF TopOfAll
  <2>3. g.bit \in 0..TopOfAll
    BY <2>1
  <2> QED
    BY <2>1, <2>2, <2>3
<1> SUFFICES ASSUME g.end > 1, NEW j \in 2..n, j >= g.end \/ j >= EIO_SORT_CUTOFF
             PROVE  eio_dent_cmp(s[1], s[j]) <= 0
  BY DEF FrontOK
<1>2. CASE g.base > 1
  BY <1>1, <1>2 DEF FrontOK
<1>3. CASE g.base = 1
  <2>1. j \in g.end..n /\ 1 \in g.base..(g.end - 1)
    BY <1>1, <1>3, SortAssumption
  <2>2. BitsBelow(s[1], s[j], g.bit + 1)
    BY <2>1 DEF SegmentOK
  <2>3. BitsBelow(s[1], s[j], 0)
    BY <1>1, <2>2, BelowDown
  <2>4. IsDent(s[1]) /\ IsDent(s[j])
    BY DEF EntriesOK
  <2>5. eio_dent_cmp(s[1], s[j]) < 0 /\ eio_dent_cmp(s[1], s[j]) \in Int
    BY <2>3, <2>4, CmpBelow, CmpOrder
  <2> QED
    BY <2>5
<1> QED
  BY <1>1, <1>2, <1>3

\* A partition divided by the last bit is finished, and in order.
LEMMA LastBitOK ==
  ASSUME NEW s, Len(s) \in Nat, EntriesOK(s), NEW n \in Nat, n <= Len(s),
         NEW B, BitsOK(s, n, B), B \subseteq 0..TopOfAll,
         NEW g, g.base \in Nat, g.end \in Nat, SegmentOK(s, n, B, g), FrontOK(s, n, g.base),
         NEW a \in Nat, g.base <= a, a <= g.end,
         \A i \in g.base..(a - 1) : ~DentHas(s[i], g.bit),
         \A i \in a..(g.end - 1) : DentHas(s[i], g.bit),
         \A j \in B : ~(j < g.bit)
  PROVE  FrontOK(s, n, g.end)
<1>1. /\ 1 <= g.base /\ g.base <= g.end /\ g.end <= n + 1 /\ g.bit + 1 \in Nat
      /\ g.bit \in B /\ g.bit \in 0..TopOfAll /\ 0 <= g.bit
      /\ \A j \in B : j < g.bit => j < 0
  <2>1. 1 <= g.base /\ g.base <= g.end /\ g.end <= n + 1 /\ g.bit \in B
    BY DEF SegmentOK
  <2>2. TopOfAll \in Nat
    BY SortAssumption DEF TopOfAll
  <2>3. g.bit \in 0..TopOfAll
    BY <2>1
  <2> QED
    BY <2>1, <2>2, <2>3
<1> SUFFICES ASSUME g.end > 1, NEW j \in 2..n, j >= g.end \/ j >= EIO_SORT_CUTOFF
             PROVE  eio_dent_cmp(s[1], s[j]) <= 0
  BY DEF FrontOK
<1>2. CASE g.base > 1
  BY <1>1, <1>2 DEF FrontOK
<1>3. CASE g.base = 1
  <2>0. IsDent(s[1]) /\ IsDent(s[j]) /\ 1 \in g.base..(g.end - 1)
    BY <1>1, <1>3 DEF EntriesOK
  <2>1. CASE j >= g.end
    <3>1. BitsBelow(s[1], s[j], g.bit + 1)
      BY <1>1, <2>0, <2>1 DEF SegmentOK
    <3>2. BitsBelow(s[1], s[j], 0)
      BY <1>1, <3>1, BelowDown
    <3>3. eio_dent_cmp(s[1], s[j]) < 0 /\ eio_dent_cmp(s[1], s[j]) \in Int
      BY <2>0, <3>2, CmpBelow, CmpOrder
    <3> QED
      BY <3>3
  <2>2. CASE j < g.end
    <3>1. j \in g.base..(g.end - 1) /\ 1 \in 1..n /\ j \in 1..n
      BY <1>1, <1>3, <2>2
    <3>2. Agree(s[1], s[j], g.bit + 1)
      BY <2>0, <3>1 DEF SegmentOK
    <3>3. CASE DentHas(s[1], g.bit) <=> DentHas(s[j], g.bit)
      <4>1. Agree(s[1], s[j], 0)
        <5>1. 0 \in Nat
          OBVIOUS
        <5> QED
          BY ONLY <1>1, <3>1, <3>2, <3>3, <5>1, n \in Nat, BitsOK(s, n, B), B \subseteq 0..TopOfAll,
                  AgreeHere
      <4> QED
        BY <2>0, <4>1, CmpAgree
    <3>4. CASE ~DentHas(s[1], g.bit) /\ DentHas(s[j], g.bit)
      <4>1. BitsBelow(s[1], s[j], 0)
        BY <1>1, <3>2, <3>4, BelowHere
      <4>2. eio_dent_cmp(s[1], s[j]) < 0 /\ eio_dent_cmp(s[1], s[j]) \in Int
        BY <2>0, <4>1, CmpBelow, CmpOrder
      <4> QED
        BY <4>2
    <3>5. CASE DentHas(s[1], g.bit) /\ ~DentHas(s[j], g.bit)
      <4>1. j \in g.base..(a - 1)
        BY <1>1, <3>1, <3>5
      <4>2. 1 \in g.base..(a - 1)
        BY <1>3, <4>1
      <4> QED
        BY <3>5, <4>2
    <3> QED
      BY <3>3, <3>4, <3>5
  <2> QED
    BY <1>1, <2>1, <2>2
<1> QED
  BY <1>1, <1>2, <1>3

-----------------------------------------------------------------------------
(* The stack. *)

\* The two halves of a partition: one stays at work, the other goes on the stack.
LEMMA PushOK ==
  ASSUME NEW s, NEW n \in Nat, NEW B, NEW K \in Seq(Partitions), NEW e \in Nat, NEW b \in Nat,
         StackOK(s, n, B, K, e, b), NEW a \in Nat, a <= e, NEW k \in Nat, k < b,
         SegmentOK(s, n, B, [base |-> a, end |-> e, bit |-> k])
  PROVE  StackOK(s, n, B, Append(K, [base |-> a, end |-> e, bit |-> k]), a, k)
<1> DEFINE g == [base |-> a, end |-> e, bit |-> k]
           J == Append(K, g)
<1>1. /\ g.base = a /\ g.end = e /\ g.bit = k /\ g \in Partitions
      /\ Len(K) \in Nat /\ Len(J) = Len(K) + 1 /\ J[Len(K) + 1] = g
      /\ \A m \in 1..Len(K) : J[m] = K[m] /\ K[m] \in Partitions
  <2>1. g.base = a /\ g.end = e /\ g.bit = k /\ g \in Partitions
    BY DEF Partitions
  <2> HIDE DEF g
  <2> QED
    BY <2>1
<1>2. \A m \in 1..Len(K) : K[m].base \in Nat /\ K[m].end \in Nat /\ K[m].bit \in Nat
  BY <1>1 DEF Partitions
<1>3. TopOfAll \in Nat
  BY SortAssumption DEF TopOfAll
<1> HIDE DEF g, J
<1>4. k + Len(J) <= TopOfAll
  BY <1>1, <1>3 DEF StackOK
<1>5. ASSUME NEW m \in 1..Len(J)
      PROVE  /\ SegmentOK(s, n, B, J[m])
             /\ J[m].base = IF m = Len(J) THEN a ELSE J[m + 1].end
             /\ a <= J[m].base /\ \A l \in 1..(m - 1) : J[m].end <= J[l].base
             /\ J[m].bit + m <= TopOfAll
  <2>1. CASE m = Len(K) + 1
    <3>1. J[m] = g /\ \A l \in 1..(m - 1) : l \in 1..Len(K) /\ J[l] = K[l]
      BY <1>1, <2>1
    <3>2. \A l \in 1..(m - 1) : e <= K[l].base
      BY <3>1 DEF StackOK
    <3>3. SegmentOK(s, n, B, g)
      BY DEF g
    <3> QED
      BY <1>1, <1>3, <1>4, <2>1, <3>1, <3>2, <3>3
  <2>2. CASE m \in 1..Len(K)
    <3>1. J[m] = K[m] /\ \A l \in 1..(m - 1) : l \in 1..Len(K) /\ J[l] = K[l]
      BY <1>1, <2>2
    <3>2. /\ SegmentOK(s, n, B, K[m]) /\ e <= K[m].base /\ K[m].bit + m <= TopOfAll
          /\ \A l \in 1..(m - 1) : K[m].end <= K[l].base
          /\ K[m].base = IF m = Len(K) THEN e ELSE K[m + 1].end
      BY <2>2 DEF StackOK
    <3>3. J[m + 1].end = IF m = Len(K) THEN e ELSE K[m + 1].end
      <4>1. CASE m = Len(K)
        BY <1>1, <4>1
      <4>2. CASE m # Len(K)
        <5>1. m + 1 \in 1..Len(K)
          BY <1>1, <2>2, <4>2
        <5> QED
          BY <1>1, <4>2, <5>1
      <4> QED
        BY <4>1, <4>2
    <3>4. m # Len(J) /\ a <= K[m].base
      BY <1>1, <1>2, <2>2, <3>2
    <3> QED
      BY <3>1, <3>2, <3>3, <3>4
  <2> QED
    BY <1>1, <2>1, <2>2
<1>6. n + 1 = J[1].end /\ J # <<>>
  <2>1. CASE K = <<>>
    <3>1. J[1] = g /\ n + 1 = e
      BY <1>1, <2>1 DEF StackOK
    <3> QED
      BY <1>1, <3>1
  <2>2. CASE K # <<>>
    <3>1. 1 \in 1..Len(K) /\ n + 1 = K[1].end
      BY <1>1, <2>2 DEF StackOK
    <3> QED
      BY <1>1, <3>1
  <2> QED
    BY <2>1, <2>2
<1>7. StackOK(s, n, B, J, a, k)
  BY <1>4, <1>5, <1>6 DEF StackOK
<1> QED
  BY <1>7 DEF J, g

\* The last partition of the stack begins where the one at work ended.
LEMMA PopOK ==
  ASSUME NEW s, NEW n \in Nat, NEW B, NEW K \in Seq(Partitions), NEW e \in Nat, NEW b \in Int,
         StackOK(s, n, B, K, e, b), K # <<>>
  PROVE  /\ Front(K) \in Seq(Partitions) /\ Last(K) \in Partitions
         /\ Last(K).base = e /\ SegmentOK(s, n, B, Last(K))
         /\ StackOK(s, n, B, Front(K), Last(K).end, Last(K).bit)
         /\ Len(Front(K)) <= Len(K)
<1> DEFINE L == Len(K)
           F == Front(K)
<1>1. L \in Nat \ {0} /\ Last(K) = K[L] /\ \A m \in 1..L : K[m] \in Partitions
  BY DEF Last
<1>2. F \in Seq(Partitions) /\ Len(F) = L - 1 /\ \A m \in 1..(L - 1) : F[m] = K[m]
  <2>1. F = SubSeq(K, 1, L - 1) /\ L - 1 \in Nat /\ L - 1 <= L
    BY <1>1 DEF Front
  <2>2. 1 \in Int /\ L - 1 \in Int /\ \A m \in 1..(L - 1) : K[m] \in Partitions
    BY <1>1
  <2>3. /\ SubSeq(K, 1, L - 1) \in Seq(Partitions)
        /\ Len(SubSeq(K, 1, L - 1)) = IF 1 <= L - 1 THEN (L - 1) - 1 + 1 ELSE 0
        /\ \A m \in 1..((L - 1) - 1 + 1) : SubSeq(K, 1, L - 1)[m] = K[1 + m - 1]
    BY ONLY <2>2, SubSeqProperties
  <2>4. \A m \in 1..(L - 1) : m \in 1..((L - 1) - 1 + 1) /\ 1 + m - 1 = m
    BY <1>1
  <2> HIDE DEF F, L
  <2> QED
    BY <1>1, <2>1, <2>3, <2>4
<1>3. \A m \in 1..L : K[m].base \in Nat /\ K[m].end \in Nat /\ K[m].bit \in Nat
  BY <1>1 DEF Partitions
<1>4. TopOfAll \in Nat
  BY SortAssumption DEF TopOfAll
<1>5. \A m \in 1..L :
          /\ SegmentOK(s, n, B, K[m])
          /\ K[m].base = IF m = L THEN e ELSE K[m + 1].end
          /\ e <= K[m].base /\ \A l \in 1..(m - 1) : K[m].end <= K[l].base
          /\ K[m].bit + m <= TopOfAll
  BY DEF StackOK
<1>6. n + 1 = K[1].end
  BY DEF StackOK
<1> HIDE DEF L, F
<1>7. L \in 1..L /\ 1 \in 1..L
  BY <1>1
<1>8. K[L].bit + Len(F) <= TopOfAll
  <2>1. K[L].bit + L <= TopOfAll /\ K[L].bit \in Nat
    BY <1>3, <1>5, <1>7
  <2> QED
    BY <1>1, <1>2, <1>4, <2>1
<1>9. ASSUME NEW m \in 1..Len(F)
      PROVE  /\ SegmentOK(s, n, B, F[m])
             /\ F[m].base = IF m = Len(F) THEN K[L].end ELSE F[m + 1].end
             /\ K[L].end <= F[m].base /\ \A l \in 1..(m - 1) : F[m].end <= F[l].base
             /\ F[m].bit + m <= TopOfAll
  <2>1. m \in 1..(L - 1) /\ m \in 1..L /\ F[m] = K[m] /\ \A l \in 1..(m - 1) : F[l] = K[l]
    BY <1>1, <1>2
  <2>2. m # L /\ (m = Len(F) => m + 1 = L) /\ (m # Len(F) => m + 1 \in 1..(L - 1))
    BY <1>1, <1>2, <2>1
  <2>3. K[L].end <= K[m].base
    BY <1>5, <1>7, <2>1
  <2>4. F[m].base = IF m = Len(F) THEN K[L].end ELSE F[m + 1].end
    BY <1>2, <1>5, <2>1, <2>2
  <2> QED
    BY <1>5, <2>1, <2>3, <2>4
<1>10. n + 1 = IF F = <<>> THEN K[L].end ELSE F[1].end
  <2>1. CASE F = <<>>
    <3>1. L = 1
      BY <1>1, <1>2, <2>1
    <3> QED
      BY <1>6, <2>1, <3>1
  <2>2. CASE F # <<>>
    <3>1. 1 \in 1..(L - 1)
      BY <1>1, <1>2, <2>2
    <3> QED
      BY <1>2, <1>6, <2>2, <3>1
  <2> QED
    BY <2>1, <2>2
<1>11. StackOK(s, n, B, F, K[L].end, K[L].bit)
  BY <1>8, <1>9, <1>10 DEF StackOK
<1>12. Last(K).base = e /\ SegmentOK(s, n, B, Last(K)) /\ Last(K) \in Partitions
  BY <1>1, <1>5, <1>7
<1>13. Len(F) <= Len(K)
  BY <1>1, <1>2 DEF L
<1> QED
  BY <1>1, <1>2, <1>11, <1>12, <1>13 DEF F

\* Swapping entries of the partition at work leaves the stack as it is.
LEMMA StackMoves ==
  ASSUME NEW s, NEW t, NEW l \in Nat, NEW h \in Nat, Rearranged(s, t, l, h),
         1 <= l, Len(s) \in Nat, NEW n \in Nat, n <= Len(s), h <= n, NEW B,
         NEW K \in Seq(Partitions), NEW e \in Nat, NEW b \in Int, StackOK(s, n, B, K, e, b), h < e
  PROVE  StackOK(t, n, B, K, e, b)
<1>1. ASSUME NEW m \in 1..Len(K) PROVE SegmentOK(t, n, B, K[m])
  <2>1. SegmentOK(s, n, B, K[m]) /\ e <= K[m].base
    BY DEF StackOK
  <2>2. K[m] \in Partitions
    OBVIOUS
  <2>3. K[m].base \in Nat /\ K[m].end \in Nat
    BY <2>2 DEF Partitions
  <2>4. h < K[m].base
    BY <2>1, <2>3
  <2> QED
    BY <2>1, <2>3, <2>4, SegmentMoves
<1> QED
  BY <1>1 DEF StackOK

-----------------------------------------------------------------------------
(* The steps of the sort. *)

LEMMA SortTypes ==
  ASSUME SortInv
  PROVE  /\ size \in Nat /\ size <= Len(dents) /\ Len(dents) \in Nat
         /\ base \in Nat /\ end \in Nat /\ pa \in Nat /\ pb \in Nat /\ bit \in Int
         /\ stk \in Seq(Partitions) /\ bits \subseteq 0..TopOfAll /\ EntriesOK(dents)
         /\ EIO_SORT_CUTOFF \in Nat \ {0} /\ EIO_SORT_FAST \in Nat
         /\ EIO_SORT_CUTOFF + 1 <= EIO_SORT_FAST /\ TopOfAll \in Nat
<1>1. SortTypeOK /\ EntriesOK(dents)
  BY DEF SortInv
<1>2. /\ size \in Nat /\ size <= Len(dents) /\ base \in Nat /\ end \in Nat /\ pa \in Nat
      /\ pb \in Nat /\ bit \in Int /\ stk \in Seq(Partitions) /\ bits \subseteq 0..TopOfAll
      /\ Len(dents) \in Nat
  BY <1>1 DEF SortTypeOK
<1> QED
  BY <1>1, <1>2, SortAssumption DEF TopOfAll

\* The radix sort is over: the smallest entry is among those looked at.
LEMMA PresortedOK ==
  ASSUME SortInv, size > 1, size > EIO_SORT_FAST => FrontOK(dents, size, size + 1),
         Presorted, UNCHANGED <<dents, size, bits>>
  PROVE  SortInv'
<1>1. /\ size \in Nat /\ size <= Len(dents) /\ Len(dents) \in Nat /\ EntriesOK(dents)
      /\ EIO_SORT_CUTOFF \in Nat \ {0} /\ EIO_SORT_FAST \in Nat
      /\ EIO_SORT_CUTOFF + 1 <= EIO_SORT_FAST
  BY SortTypes
<1>2. /\ sortpc' = "min" /\ pa' = 1
      /\ pb' = IF size > EIO_SORT_FAST THEN EIO_SORT_CUTOFF + 1 ELSE size
      /\ UNCHANGED <<stk, base, end, bit, dents, size, bits>>
  BY DEF Presorted
<1>3. pa' \in 1..size /\ pb' \in 1..size
  BY <1>1, <1>2
<1>4. IsDent(dents[1])
  BY <1>1 DEF EntriesOK
<1>5. eio_dent_cmp(dents[1], dents[1]) <= 0
  BY <1>4, CmpOrder
<1>6. ASSUME NEW j \in (pb' + 1)..size PROVE eio_dent_cmp(dents[1], dents[j]) <= 0
  <2>1. size > EIO_SORT_FAST /\ j \in 2..size /\ j >= EIO_SORT_CUTOFF /\ size + 1 > 1
    BY <1>1, <1>2
  <2> QED
    BY <2>1 DEF FrontOK
<1>7. SortTypeOK'
  <2>1. SortTypeOK
    BY DEF SortInv
  <2>2. pa' \in Nat /\ pb' \in Nat
    BY <1>1, <1>3
  <2> QED
    BY <1>2, <2>1, <2>2 DEF SortTypeOK, SortPC
<1>8. MinOK'
  BY <1>2, <1>3, <1>5, <1>6 DEF MinOK, NotAbove
<1>9. EntriesOK(dents)' /\ (Len(stk) <= TopOfAll)'
  BY <1>1, <1>2 DEF SortInv
<1> QED
  BY <1>2, <1>7, <1>8, <1>9 DEF SortInv, RadixOK, PartitionOK, InsertOK, SortedOK

\* A partition is finished, whose end is behind all that precede the first entry.
LEMMA PartitionDoneOK ==
  ASSUME SortInv, sortpc \in {"radix", "part"}, size > EIO_SORT_FAST, FrontOK(dents, size, end),
         PartitionDone, UNCHANGED <<dents, size, bits>>
  PROVE  SortInv'
<1>1. /\ size \in Nat /\ size <= Len(dents) /\ Len(dents) \in Nat /\ EntriesOK(dents)
      /\ stk \in Seq(Partitions) /\ bits \subseteq 0..TopOfAll /\ end \in Nat /\ bit \in Int
  BY SortTypes
<1>2. /\ size > 1 /\ BitsOK(dents, size, bits)
      /\ StackOK(dents, size, bits, stk, end, bit)
  BY DEF SortInv, RadixOK
<1>3. CASE stk = <<>>
  <2>1. end = size + 1
    BY <1>2, <1>3 DEF StackOK
  <2>2. Presorted
    BY <1>3 DEF PartitionDone
  <2> QED
    BY <1>2, <2>1, <2>2, PresortedOK
<1>4. CASE stk # <<>>
  <2> DEFINE g == Last(stk)
  <2>1. /\ sortpc' = "radix" /\ base' = g.base /\ end' = g.end /\ bit' = g.bit
        /\ stk' = Front(stk) /\ UNCHANGED <<pa, pb, dents, size, bits>>
    BY <1>4 DEF PartitionDone
  <2>2. /\ stk' \in Seq(Partitions) /\ g \in Partitions /\ g.base = end
        /\ SegmentOK(dents, size, bits, g)
        /\ StackOK(dents, size, bits, stk', g.end, g.bit) /\ Len(stk') <= Len(stk)
    BY <1>1, <1>2, <1>4, <2>1, PopOK
  <2> HIDE DEF g
  <2>3. /\ g = [base |-> g.base, end |-> g.end, bit |-> g.bit]
        /\ g.base \in Nat /\ g.end \in Nat /\ g.bit \in Nat
    BY <2>2 DEF Partitions
  <2>4. AtWork' = g
    BY <2>1, <2>3 DEF AtWork
  <2>5. SegmentOK(dents, size, bits, AtWork)' /\ StackOK(dents, size, bits, stk, end, bit)'
        /\ FrontOK(dents, size, base)' /\ BitsOK(dents, size, bits)'
    BY <1>2, <2>1, <2>2, <2>4
  <2>6. RadixOK'
    BY <1>2, <2>1, <2>5 DEF RadixOK
  <2>7. SortTypeOK'
    BY <2>1, <2>2, <2>3 DEF SortInv, SortTypeOK, SortPC
  <2>8. EntriesOK(dents)' /\ (Len(stk) <= TopOfAll)'
    <3>1. Len(stk) <= TopOfAll /\ TopOfAll \in Nat /\ Len(stk) \in Nat /\ Len(stk') \in Nat
      BY <1>1, <2>2, SortTypes DEF SortInv
    <3> QED
      BY <1>1, <2>1, <2>2, <3>1
  <2> QED
    BY <2>1, <2>6, <2>7, <2>8 DEF SortInv, PartitionOK, MinOK, InsertOK, SortedOK
<1> QED
  BY <1>3, <1>4

\* Whether a partition is divided.
LEMMA RadixTestOK ==
  ASSUME SortInv, RadixTest
  PROVE  SortInv'
<1>1. /\ size \in Nat /\ size <= Len(dents) /\ Len(dents) \in Nat /\ EntriesOK(dents)
      /\ stk \in Seq(Partitions) /\ bits \subseteq 0..TopOfAll
      /\ end \in Nat /\ base \in Nat /\ bit \in Int
      /\ EIO_SORT_CUTOFF \in Nat \ {0} /\ EIO_SORT_FAST \in Nat
  BY SortTypes
<1>2. sortpc = "radix" /\ UNCHANGED <<dents, size, bits>>
  BY DEF RadixTest
<1>3. size > 1
  BY <1>2 DEF SortInv, RadixOK
<1>4. CASE size <= EIO_SORT_FAST
  <2>1. Presorted /\ ~(size > EIO_SORT_FAST)
    BY <1>1, <1>4 DEF RadixTest
  <2> QED
    BY <1>2, <1>3, <2>1, PresortedOK
<1>5. CASE size > EIO_SORT_FAST
  <2>0. ~(size <= EIO_SORT_FAST)
    BY <1>1, <1>5
  <2>1. /\ BitsOK(dents, size, bits) /\ SegmentOK(dents, size, bits, AtWork)
        /\ StackOK(dents, size, bits, stk, end, bit) /\ FrontOK(dents, size, base)
    BY <1>2, <1>5 DEF SortInv, RadixOK
  <2>2. AtWork.base = base /\ AtWork.end = end /\ AtWork.bit = bit
    BY DEF AtWork
  <2>3. CASE end - base < EIO_SORT_CUTOFF
    <3>1. PartitionDone
      BY <2>0, <2>3 DEF RadixTest
    <3>2. FrontOK(dents, size, AtWork.end)
      BY <1>1, <2>1, <2>2, <2>3, SmallOK
    <3> QED
      BY <1>2, <1>5, <2>2, <3>1, <3>2, PartitionDoneOK
  <2>4. CASE ~(end - base < EIO_SORT_CUTOFF)
    <3>1. sortpc' = "part" /\ pa' = base /\ pb' = end /\ UNCHANGED <<stk, base, end, bit>>
      BY <2>0, <2>4 DEF RadixTest
    <3>2. base <= end
      BY <2>1, <2>2 DEF SegmentOK
    <3>3. PartitionOK'
      BY <1>1, <1>2, <1>5, <2>4, <3>1, <3>2 DEF PartitionOK
    <3>4. AtWork' = AtWork
      BY <3>1 DEF AtWork
    <3>5. RadixOK'
      BY <1>2, <1>3, <2>1, <3>1, <3>4 DEF RadixOK
    <3>6. SortTypeOK'
      BY <1>1, <1>2, <3>1 DEF SortInv, SortTypeOK, SortPC
    <3> QED
      BY <1>2, <3>1, <3>3, <3>5, <3>6 DEF SortInv, MinOK, InsertOK, SortedOK
  <2> QED
    BY <2>3, <2>4
<1> QED
  BY <1>1, <1>4, <1>5

\* A partition was divided.
LEMMA PartitionEndsOK ==
  ASSUME SortInv, PartitionEnds
  PROVE  SortInv'
<1>1. /\ size \in Nat /\ size <= Len(dents) /\ Len(dents) \in Nat /\ EntriesOK(dents)
      /\ stk \in Seq(Partitions) /\ bits \subseteq 0..TopOfAll /\ TopOfAll \in Nat
      /\ end \in Nat /\ base \in Nat /\ bit \in Int /\ pa \in Nat /\ pb \in Nat
  BY SortTypes
<1>2. sortpc = "part" /\ pb <= pa /\ UNCHANGED <<dents, size, bits>>
  BY DEF PartitionEnds
<1>3. /\ size > EIO_SORT_FAST /\ base <= pa /\ pa = pb /\ pa <= end
      /\ \A i \in base..(pa - 1) : ~DentHas(dents[i], bit)
      /\ \A i \in pa..(end - 1) : DentHas(dents[i], bit)
  BY <1>1, <1>2 DEF SortInv, PartitionOK
<1>4. /\ size > 1 /\ BitsOK(dents, size, bits) /\ SegmentOK(dents, size, bits, AtWork)
      /\ StackOK(dents, size, bits, stk, end, bit) /\ FrontOK(dents, size, base)
  BY <1>2, <1>3 DEF SortInv, RadixOK
<1>5. AtWork.base = base /\ AtWork.end = end /\ AtWork.bit = bit
  BY DEF AtWork
<1>6. bit \in bits /\ bit \in Nat
  <2>1. bit \in bits
    BY <1>4, <1>5 DEF SegmentOK
  <2>2. bit \in 0..TopOfAll
    BY <1>1, <2>1
  <2> QED
    BY <1>1, <2>1, <2>2
<1> DEFINE S == {k \in bits : k < bit}
           next == TopBit(S)
<1>7. S \subseteq 0..TopOfAll /\ \A j \in bits : j < bit <=> j \in S
  BY <1>1
<1>8. /\ S = {} => next = -1
      /\ S # {} => next \in S /\ next \in Nat /\ \A j \in S : j <= next
  <2> HIDE DEF S
  <2> QED
    BY <1>7, TopBitIs
<1>9. IF next = -1 THEN PartitionDone
      ELSE /\ sortpc' = "radix"
           /\ stk' = Append(stk, [base |-> pa, end |-> end, bit |-> next])
           /\ end' = pa /\ bit' = next
           /\ UNCHANGED <<base, pa, pb>>
  BY DEF PartitionEnds
<1> HIDE DEF S, next
<1>10. CASE S = {}
  <2>1. \A j \in bits : ~(j < bit)
    BY <1>7, <1>10
  <2>2. FrontOK(dents, size, AtWork.end)
    BY <1>1, <1>3, <1>4, <1>5, <2>1, LastBitOK
  <2>3. PartitionDone
    BY <1>8, <1>9, <1>10
  <2> QED
    BY <1>2, <1>3, <1>5, <2>2, <2>3, PartitionDoneOK
<1>11. CASE S # {}
  <2> DEFINE g == [base |-> pa, end |-> end, bit |-> next]
             f == [base |-> base, end |-> pa, bit |-> next]
  <2>1. next \in bits /\ next \in Nat /\ next < bit /\ \A j \in bits : j < bit => j <= next
    BY <1>8, <1>11, <1>7 DEF S
  <2>2. /\ sortpc' = "radix" /\ stk' = Append(stk, g)
        /\ end' = pa /\ bit' = next /\ UNCHANGED <<base, pa, pb>>
    <3>1. next # -1
      BY <2>1
    <3> QED
      BY <1>9, <3>1
  <2>3. SegmentOK(dents, size, bits, f) /\ SegmentOK(dents, size, bits, g)
    <3>1. /\ SegmentOK(dents, size, bits, [base |-> AtWork.base, end |-> pa, bit |-> next])
          /\ SegmentOK(dents, size, bits, [base |-> pa, end |-> AtWork.end, bit |-> next])
      BY <1>1, <1>3, <1>4, <1>5, <2>1, DivideOK
    <3> QED
      BY <1>5, <3>1
  <2>4. StackOK(dents, size, bits, Append(stk, g), pa, next)
    BY <1>1, <1>3, <1>4, <1>6, <2>1, <2>3, PushOK
  <2>5. AtWork' = f
    BY <2>2 DEF AtWork
  <2>6. g \in Partitions
    BY <1>1, <2>1 DEF Partitions
  <2> HIDE DEF f, g
  <2>7. /\ SegmentOK(dents, size, bits, AtWork)' /\ StackOK(dents, size, bits, stk, end, bit)'
        /\ FrontOK(dents, size, base)' /\ BitsOK(dents, size, bits)'
    BY <1>2, <1>4, <2>2, <2>3, <2>4, <2>5
  <2>8. RadixOK'
    BY <1>2, <1>4, <2>2, <2>7 DEF RadixOK
  <2>9. SortTypeOK'
    <3>1. stk' \in Seq(Partitions) /\ bit' \in Int
      BY <1>1, <2>1, <2>2, <2>6
    <3> QED
      BY <1>1, <1>2, <2>2, <3>1 DEF SortInv, SortTypeOK, SortPC
  <2>10. (Len(stk) <= TopOfAll)'
    <3>1. next + Len(stk') <= TopOfAll /\ Len(stk') \in Nat
      BY <1>1, <2>2, <2>4, <2>6 DEF StackOK
    <3> QED
      BY <1>1, <2>1, <3>1
  <2> QED
    BY <1>2, <2>2, <2>8, <2>9, <2>10 DEF SortInv, PartitionOK, MinOK, InsertOK, SortedOK
<1> QED
  BY <1>10, <1>11

LEMMA SameRearranged ==
  ASSUME NEW s, NEW l, NEW h
  PROVE  Rearranged(s, s, l, h)
BY DEF Rearranged

\* What is rearranged in a part of a range is rearranged in the range.
LEMMA WiderRearranged ==
  ASSUME NEW s, NEW t, Len(s) \in Nat, NEW l \in Nat, NEW h \in Nat, NEW n \in Nat, 1 <= l, h <= n,
         n <= Len(s), Rearranged(s, t, l, h)
  PROVE  Rearranged(s, t, 1, n)
<1>1. \A i \in l..h : i \in 1..n
  OBVIOUS
<1>2. \A i \in 1..Len(s) : i \notin 1..n => t[i] = s[i]
  BY <1>1 DEF Rearranged
<1>3. ASSUME NEW i \in 1..n PROVE \E j \in 1..n : t[i] = s[j]
  <2>1. CASE i \in l..h
    BY <1>1, <2>1 DEF Rearranged
  <2>2. CASE i \notin l..h
    BY <2>2 DEF Rearranged
  <2> QED
    BY <2>1, <2>2
<1>4. ASSUME NEW j \in 1..n PROVE \E i \in 1..n : t[i] = s[j]
  <2>1. CASE j \in l..h
    BY <1>1, <2>1 DEF Rearranged
  <2>2. CASE j \notin l..h
    BY <2>2 DEF Rearranged
  <2> QED
    BY <2>1, <2>2
<1> QED
  BY <1>2, <1>3, <1>4 DEF Rearranged

\* The walk that divides a partition.
LEMMA PartitionStepOK ==
  ASSUME NEW D, dents \in Seq(D), SortInv, Partition
  PROVE  SortInv' /\ dents' \in Seq(D) /\ Rearranged(dents, dents', 1, size)
<1>1. /\ size \in Nat /\ size <= Len(dents) /\ Len(dents) \in Nat /\ EntriesOK(dents)
      /\ stk \in Seq(Partitions) /\ bits \subseteq 0..TopOfAll /\ TopOfAll \in Nat
      /\ end \in Nat /\ base \in Nat /\ bit \in Int /\ pa \in Nat /\ pb \in Nat
  BY SortTypes
<1>2. sortpc = "part" /\ pa < pb /\ UNCHANGED <<sortpc, size, bits, stk, base, end, bit>>
  BY <1>1 DEF Partition
<1>3. /\ size > EIO_SORT_FAST /\ end - base >= EIO_SORT_CUTOFF /\ base <= pa /\ pb <= end
      /\ \A i \in base..(pa - 1) : ~DentHas(dents[i], bit)
      /\ \A i \in pb..(end - 1) : DentHas(dents[i], bit)
  BY <1>2 DEF SortInv, PartitionOK
<1>4. /\ size > 1 /\ BitsOK(dents, size, bits) /\ SegmentOK(dents, size, bits, AtWork)
      /\ StackOK(dents, size, bits, stk, end, bit) /\ FrontOK(dents, size, base)
  BY <1>2, <1>3 DEF SortInv, RadixOK
<1>5. AtWork.base = base /\ AtWork.end = end /\ AtWork' = AtWork
  BY <1>2 DEF AtWork
<1>6. 1 <= base /\ end <= size + 1
  BY <1>4, <1>5 DEF SegmentOK
<1> DEFINE l == pa
           h == pb - 1
<1>7. l \in 1..Len(dents) /\ h \in 1..Len(dents) /\ l \in Nat /\ h \in Nat /\ 1 <= l /\ h <= size
      /\ h < end /\ base <= l /\ l \in l..h /\ h \in l..h
  BY <1>1, <1>2, <1>3, <1>6
<1>8. /\ Rearranged(dents, dents', l, h) /\ dents' \in Seq(D)
      /\ pa' \in {pa, pa + 1} /\ pb' \in {pb, pb - 1} /\ pa' <= pb'
      /\ pa' = pa + 1 => ~DentHas(dents'[pa], bit)
      /\ pb' = pb - 1 => DentHas(dents'[pb - 1], bit)
  <2>1. CASE ~DentHas(dents[pa], bit) /\ pa' = pa + 1 /\ UNCHANGED <<dents, pb>>
    BY <1>1, <1>2, <2>1, SameRearranged
  <2>2. CASE DentHas(dents[pb - 1], bit) /\ pb' = pb - 1 /\ UNCHANGED <<dents, pa>>
    BY <1>1, <1>2, <2>2, SameRearranged
  <2>3. CASE /\ DentHas(dents[pa], bit) /\ ~DentHas(dents[pb - 1], bit)
             /\ dents' = SwapAt(dents, pa, pb - 1)
             /\ pa' = pa + 1 /\ pb' = pb - 1
    <3>1. pa # pb - 1
      BY <2>3
    <3>2. dents'[pa] = dents[pb - 1] /\ dents'[pb - 1] = dents[pa]
      BY <1>7, <2>3, <3>1 DEF SwapAt
    <3>3. Rearranged(dents, dents', l, h) /\ dents' \in Seq(D)
      <4> HIDE DEF l, h
      <4>1. Rearranged(dents, SwapAt(dents, l, h), l, h) /\ SwapAt(dents, l, h) \in Seq(D)
        BY <1>7, SwapRearranges
      <4> QED
        BY <2>3, <4>1 DEF l, h
    <3>4. pa + 1 <= pb - 1
      BY <1>1, <1>2, <3>1
    <3> QED
      BY <2>3, <3>2, <3>3, <3>4
  <2> QED
    BY <2>1, <2>2, <2>3 DEF Partition
<1>9. PartitionOK'
  <2>1. base <= pa' /\ pa' <= pb' /\ pb' <= end
    BY <1>1, <1>3, <1>8
  <2>2. ASSUME NEW i \in Nat, base <= i, i < pa' PROVE ~DentHas(dents'[i], bit)
    <3>0. i \in Nat /\ base <= i /\ i < pa' /\ (pa' = pa \/ pa' = pa + 1)
      <4>1. pa' = pa \/ pa' = pa + 1
        BY <1>8
      <4> QED
        BY <2>2, <4>1
    <3>1. CASE i = pa
      <4>1. pa' = pa + 1
        BY ONLY <1>1, <3>0, <3>1
      <4> QED
        BY <1>8, <3>1, <4>1
    <3>2. CASE i # pa
      <4>1. i \in base..(pa - 1) /\ i \in 1..Len(dents) /\ i \notin l..h
        BY ONLY <1>1, <1>2, <1>3, <1>6, <3>0, <3>2 DEF l, h
      <4>2. dents'[i] = dents[i]
        BY <1>8, <4>1 DEF Rearranged
      <4> QED
        BY <1>3, <4>1, <4>2
    <3> QED
      BY <3>1, <3>2
  <2>3. ASSUME NEW i \in pb'..(end - 1) PROVE DentHas(dents'[i], bit)
    <3>1. CASE i = pb - 1
      <4>1. pb' = pb - 1
        BY <1>1, <1>8, <3>1
      <4> QED
        BY <1>8, <3>1, <4>1
    <3>2. CASE i # pb - 1
      <4>1. i \in pb..(end - 1) /\ i \in 1..Len(dents) /\ i \notin l..h
        BY <1>1, <1>2, <1>6, <1>7, <1>8, <3>2
      <4>2. dents'[i] = dents[i]
        BY <1>8, <4>1 DEF Rearranged
      <4> QED
        BY <1>3, <4>1, <4>2
    <3> QED
      BY <3>1, <3>2
  <2>4. \A i \in base..(pa' - 1) : i \in Nat /\ base <= i /\ i < pa'
    <3>1. pa' \in Nat /\ base \in Nat
      BY <1>1, <1>8
    <3>2. PICK p \in Nat : p = pa'
      BY <3>1
    <3>3. \A i \in base..(p - 1) : i \in Nat /\ base <= i /\ i < p
      BY <3>1
    <3> QED
      BY <3>2, <3>3
  <2> QED
    BY <1>2, <1>3, <2>1, <2>2, <2>3, <2>4 DEF PartitionOK
<1> HIDE DEF l, h
<1>10. RadixOK'
  <2>1. SegmentOK(dents', size, bits, AtWork)
    BY <1>1, <1>4, <1>5, <1>7, <1>8, SegmentMoves
  <2>2. StackOK(dents', size, bits, stk, end, bit)
    BY <1>1, <1>4, <1>7, <1>8, StackMoves
  <2>3. FrontOK(dents', size, base)
    BY <1>1, <1>4, <1>7, <1>8, FrontMoves
  <2>4. BitsOK(dents', size, bits)
    BY <1>1, <1>4, <1>7, <1>8, BitsMove
  <2> QED
    BY <1>2, <1>4, <1>5, <2>1, <2>2, <2>3, <2>4 DEF RadixOK
<1>11. EntriesOK(dents') /\ Rearranged(dents, dents', 1, size) /\ Len(dents') = Len(dents)
  <2>1. Len(dents') = Len(dents)
    BY <1>8 DEF Rearranged
  <2>2. h <= Len(dents)
    BY <1>1, <1>7
  <2>3. EntriesOK(dents')
    BY <1>1, <1>7, <1>8, <2>2, EntriesMove
  <2>4. Rearranged(dents, dents', 1, size)
    BY <1>1, <1>7, <1>8, WiderRearranged
  <2> QED
    BY <2>1, <2>3, <2>4
<1>12. SortTypeOK'
  <2>1. pa' \in Nat /\ pb' \in Nat
    BY <1>1, <1>2, <1>8
  <2> QED
    BY <1>2, <1>11, <2>1 DEF SortInv, SortTypeOK
<1> QED
  BY <1>2, <1>8, <1>9, <1>10, <1>11, <1>12 DEF SortInv, MinOK, InsertOK, SortedOK

\* The smallest entry is looked for, and put to the front.
LEMMA FindMinOK ==
  ASSUME NEW D, dents \in Seq(D), SortInv, FindMin
  PROVE  SortInv' /\ dents' \in Seq(D) /\ Rearranged(dents, dents', 1, size)
<1>1. size \in Nat /\ size <= Len(dents) /\ Len(dents) \in Nat /\ EntriesOK(dents)
  BY SortTypes
<1>2. sortpc = "min" /\ UNCHANGED <<size, bits, stk, base, end, bit>>
  BY DEF FindMin
<1>3. /\ pa \in 1..size /\ pb \in 1..size
      /\ eio_dent_cmp(dents[pa], dents[1]) <= 0
      /\ \A j \in (pb + 1)..size : eio_dent_cmp(dents[pa], dents[j]) <= 0
  BY <1>2 DEF SortInv, MinOK, NotAbove
<1>4. \A i \in 1..size : IsDent(dents[i]) /\ i \in 1..Len(dents)
  BY <1>1 DEF EntriesOK
<1>5. CASE pb > 1
  <2>1. /\ pa' = IF eio_dent_cmp(dents[pb], dents[pa]) < 0 THEN pb ELSE pa
        /\ pb' = pb - 1 /\ UNCHANGED <<dents, sortpc>>
    BY <1>5 DEF FindMin
  <2>2. pa' \in 1..size /\ pb' \in 1..size
    BY <1>1, <1>3, <1>5, <2>1
  <2>3. ASSUME NEW j \in 1..size, j = 1 \/ j \in pb..size
        PROVE  eio_dent_cmp(dents[pa'], dents[j]) <= 0
    <3>1. IsDent(dents[pa]) /\ IsDent(dents[pb]) /\ IsDent(dents[j]) /\ IsDent(dents[1])
      BY <1>1, <1>3, <1>4
    <3>2. CASE eio_dent_cmp(dents[pb], dents[pa]) < 0
      <4>1. eio_dent_cmp(dents[pb], dents[pa]) <= 0
        <5>1. eio_dent_cmp(dents[pb], dents[pa]) \in Int
          BY <3>1, CmpOrder
        <5> QED
          BY ONLY <3>2, <5>1
      <4>2. CASE j = pb
        BY <2>1, <3>1, <3>2, <4>2, CmpOrder
      <4>3. CASE j # pb
        <5>1. eio_dent_cmp(dents[pa], dents[j]) <= 0
          BY <1>1, <1>3, <2>3, <4>3
        <5>2. eio_dent_cmp(dents[pb], dents[j]) <= 0
          BY <3>1, <4>1, <5>1, CmpOrder
        <5> QED
          BY <2>1, <3>2, <5>2
      <4> QED
        BY <4>2, <4>3
    <3>3. CASE ~(eio_dent_cmp(dents[pb], dents[pa]) < 0)
      <4>1. CASE j = pb
        BY <2>1, <3>1, <3>3, <4>1, CmpOrder
      <4>2. CASE j # pb
        <5>1. eio_dent_cmp(dents[pa], dents[j]) <= 0
          BY <1>1, <1>3, <2>3, <4>2
        <5> QED
          BY <2>1, <3>3, <5>1
      <4> QED
        BY <4>1, <4>2
    <3> QED
      BY <3>2, <3>3
  <2>4. MinOK'
    <3>1. 1 \in 1..size /\ \A j \in (pb' + 1)..size : j \in 1..size /\ j \in pb..size
      BY <1>1, <1>3, <2>1
    <3>2. /\ eio_dent_cmp(dents[pa'], dents[1]) <= 0
          /\ \A j \in (pb' + 1)..size : eio_dent_cmp(dents[pa'], dents[j]) <= 0
      BY <2>3, <3>1
    <3> QED
      BY <1>2, <2>1, <2>2, <3>2 DEF MinOK, NotAbove
  <2>5. SortTypeOK'
    BY <1>1, <1>2, <2>1, <2>2 DEF SortInv, SortTypeOK
  <2>6. Rearranged(dents, dents', 1, size)
    BY <2>1, SameRearranged
  <2> QED
    BY <1>2, <2>1, <2>4, <2>5, <2>6 DEF SortInv, RadixOK, PartitionOK, InsertOK, SortedOK
<1>6. CASE ~(pb > 1)
  <2>1. dents' = SwapAt(dents, 1, pa) /\ sortpc' = "insert" /\ pa' = 2 /\ pb' = 1
    BY <1>6 DEF FindMin
  <2>2. \A j \in 1..size : eio_dent_cmp(dents[pa], dents[j]) <= 0
    BY <1>1, <1>3, <1>6
  <2>3. dents'[1] = dents[pa] /\ pa \in 1..Len(dents) /\ 1 \in 1..Len(dents)
    BY <1>1, <1>3, <2>1 DEF SwapAt
  <2>4. Rearranged(dents, dents', 1, size) /\ dents' \in Seq(D) /\ Len(dents') = Len(dents)
    <3>1. 1 \in 1..Len(dents) /\ size \in 1..Len(dents) /\ 1 \in 1..size
      BY <1>1, <1>3
    <3>2. Rearranged(dents, dents', 1, size) /\ dents' \in Seq(D)
      BY <1>3, <2>1, <3>1, SwapRearranges
    <3> QED
      BY <3>2 DEF Rearranged
  <2>5. EntriesOK(dents')
    BY <1>1, <2>4, EntriesMove
  <2>6. ASSUME NEW j \in 1..size PROVE eio_dent_cmp(dents'[1], dents'[j]) <= 0
    BY <2>2, <2>3, <2>4 DEF Rearranged
  <2>7. InsertOK'
    <3>1. 2 \in 2..(size + 1) /\ 1 \in 1..size /\ \A i \in 1..(2 - 1) : i = 1
      BY <1>1, <1>3
    <3> QED
      BY <1>2, <2>1, <2>6, <3>1 DEF InsertOK, NotAbove
  <2>8. SortTypeOK'
    BY <1>1, <1>2, <2>1, <2>4 DEF SortInv, SortTypeOK, SortPC
  <2> QED
    BY <1>2, <2>1, <2>4, <2>5, <2>7, <2>8
    DEF SortInv, RadixOK, PartitionOK, MinOK, SortedOK
<1> QED
  BY <1>5, <1>6

\* An entry is put into the ordered ones before it.  The first one is not above
\* it, so the loop stops in the array.
LEMMA InsertStepOK ==
  ASSUME NEW D, dents \in Seq(D), SortInv, Insert
  PROVE  SortInv' /\ dents' \in Seq(D) /\ Rearranged(dents, dents', 1, size)
<1>1. size \in Nat /\ size <= Len(dents) /\ Len(dents) \in Nat /\ EntriesOK(dents) /\ pa \in Nat
  BY SortTypes
<1>2. sortpc = "insert" /\ pa <= size /\ UNCHANGED <<size, bits, stk, base, end, bit, pb>>
  BY DEF Insert
<1>3. /\ pa \in 2..size
      /\ \A j \in 1..size : eio_dent_cmp(dents[1], dents[j]) <= 0
      /\ \A i, j \in 1..(pa - 1) : i <= j => eio_dent_cmp(dents[i], dents[j]) <= 0
  BY <1>1, <1>2 DEF SortInv, InsertOK, NotAbove
<1>4. \A i \in 1..size : IsDent(dents[i]) /\ i \in 1..Len(dents)
  BY <1>1 DEF EntriesOK
<1> DEFINE stops == {j \in 1..(pa - 1) : eio_dent_cmp(dents[j], dents[pa]) <= 0}
           m == Max(stops)
<1>5. m \in stops /\ \A x \in stops : x <= m
  <2>1. 1 \in stops /\ stops \subseteq 1..(pa - 1)
    BY <1>1, <1>3
  <2>2. stops # {} /\ 1 \in Int /\ pa - 1 \in Int
    BY <1>1, <2>1
  <2> HIDE DEF stops
  <2> QED
    BY <2>1, <2>2, MaxIs
<1>6. sortpc' = "insert" /\ dents' = MovedDown(dents, pa, m) /\ pa' = pa + 1
  <2>1. stops # {}
    BY <1>5
  <2> QED
    BY <2>1 DEF Insert
<1>7. m \in 1..(pa - 1) /\ eio_dent_cmp(dents[m], dents[pa]) <= 0
  BY <1>5
<1>8. ASSUME NEW j \in (m + 1)..(pa - 1) PROVE eio_dent_cmp(dents[pa], dents[j]) <= 0
  <2>1. j \in 1..(pa - 1) /\ j \in 1..size /\ pa \in 1..size /\ ~(j <= m)
    BY <1>1, <1>3, <1>7
  <2>2. ~(eio_dent_cmp(dents[j], dents[pa]) <= 0)
    BY <1>5, <2>1
  <2>3. IsDent(dents[j]) /\ IsDent(dents[pa])
    BY <1>4, <2>1
  <2>4. eio_dent_cmp(dents[j], dents[pa]) \in Int
    BY <2>3, CmpOrder
  <2>5. eio_dent_cmp(dents[j], dents[pa]) > 0
    BY <2>2, <2>4
  <2> QED
    BY <2>3, <2>5, CmpOrder
<1> HIDE DEF m, stops
<1>9. pa \in 1..Len(dents) /\ size \in 1..Len(dents) /\ pa \in 1..size
  BY <1>1, <1>3
<1>10. Rearranged(dents, dents', 1, size) /\ dents' \in Seq(D) /\ Len(dents') = Len(dents)
  <2>1. Rearranged(dents, dents', 1, size) /\ dents' \in Seq(D)
    BY <1>6, <1>7, <1>9, MoveRearranges
  <2> QED
    BY <2>1 DEF Rearranged
<1>11. EntriesOK(dents')
  BY <1>1, <1>10, EntriesMove
<1>12. \A k \in 1..Len(dents) :
          dents'[k] = IF k = m + 1 THEN dents[pa]
                      ELSE IF k \in (m + 2)..pa THEN dents[k - 1] ELSE dents[k]
  BY <1>6, <1>7, <1>9, MovedIs
<1>13. ASSUME NEW j \in 1..size PROVE eio_dent_cmp(dents'[1], dents'[j]) <= 0
  <2>1. 1 \in 1..Len(dents) /\ 1 # m + 1 /\ 1 \notin (m + 2)..pa
    BY <1>1, <1>7, <1>9
  <2>2. dents'[1] = dents[1]
    BY <1>12, <2>1
  <2>3. PICK x \in 1..size : dents'[j] = dents[x]
    BY <1>10 DEF Rearranged
  <2> QED
    BY <1>3, <2>2, <2>3
<1>14. ASSUME NEW i \in 1..pa, NEW j \in 1..pa, i <= j
       PROVE  eio_dent_cmp(dents'[i], dents'[j]) <= 0
  <2>1. i \in 1..size /\ j \in 1..size /\ i \in 1..Len(dents) /\ j \in 1..Len(dents) /\ m \in Nat
        /\ pa \in 1..size
    BY <1>1, <1>3, <1>7
  <2>2. ASSUME NEW k \in 1..pa, k # m + 1
        PROVE  dents'[k] = dents[IF k <= m THEN k ELSE k - 1]
    <3>1. k \in 1..Len(dents) /\ k \in Nat
      BY <1>1, <1>9
    <3>2. CASE k <= m
      <4>1. k \notin (m + 2)..pa
        BY <1>1, <2>1, <3>2
      <4> QED
        BY <1>12, <2>2, <3>1, <3>2, <4>1
    <3>3. CASE ~(k <= m)
      <4>1. k \in (m + 2)..pa
        BY <1>1, <2>1, <2>2, <3>1, <3>3
      <4> QED
        BY <1>12, <2>2, <3>1, <3>3, <4>1
    <3> QED
      BY <3>2, <3>3
  <2>3. dents'[m + 1] = dents[pa]
    <3>1. m + 1 \in 1..Len(dents)
      BY <1>1, <1>7, <1>9
    <3> QED
      BY <1>12, <3>1
  <2> DEFINE x == IF i <= m THEN i ELSE i - 1
             y == IF j <= m THEN j ELSE j - 1
  <2>4. CASE i = m + 1 /\ j = m + 1
    BY <1>4, <2>1, <2>3, <2>4, CmpOrder
  <2>5. CASE i = m + 1 /\ j # m + 1
    <3>1. y \in (m + 1)..(pa - 1) /\ dents'[j] = dents[y]
      BY <1>14, <2>1, <2>2, <2>5
    <3> HIDE DEF y
    <3> QED
      BY <1>8, <2>3, <2>5, <3>1
  <2>6. CASE i # m + 1 /\ j = m + 1
    <3>0. x = i /\ i <= m /\ dents'[i] = dents[x]
      BY <1>14, <2>1, <2>2, <2>6
    <3>1. x \in 1..m /\ x \in 1..(pa - 1) /\ x \in 1..size /\ m \in 1..size /\ x <= m
          /\ dents'[i] = dents[x]
      BY <1>1, <1>7, <2>1, <3>0
    <3> HIDE DEF x
    <3>2. eio_dent_cmp(dents[x], dents[m]) <= 0
      BY <1>3, <1>7, <3>1
    <3>3. IsDent(dents[x]) /\ IsDent(dents[m]) /\ IsDent(dents[pa])
      BY <1>4, <2>1, <3>1
    <3>4. eio_dent_cmp(dents[x], dents[pa]) <= 0
      BY <1>7, <3>2, <3>3, CmpOrder
    <3> QED
      BY <2>3, <2>6, <3>1, <3>4
  <2>7. CASE i # m + 1 /\ j # m + 1
    <3>1. x \in 1..(pa - 1) /\ y \in 1..(pa - 1) /\ x <= y
      BY <1>7, <1>14, <2>1, <2>7
    <3>2. dents'[i] = dents[x] /\ dents'[j] = dents[y]
      BY <2>2, <2>7
    <3> HIDE DEF x, y
    <3> QED
      BY <1>3, <3>1, <3>2
  <2> QED
    BY <2>4, <2>5, <2>6, <2>7
<1>15. InsertOK'
  <2>1. pa' \in 2..(size + 1) /\ pa' - 1 = pa
    BY <1>1, <1>3, <1>6
  <2> QED
    BY <1>2, <1>6, <1>13, <1>14, <2>1 DEF InsertOK, NotAbove
<1>16. SortTypeOK'
  BY <1>1, <1>2, <1>6, <1>10 DEF SortInv, SortTypeOK, SortPC
<1> QED
  BY <1>2, <1>6, <1>10, <1>11, <1>15, <1>16
  DEF SortInv, RadixOK, PartitionOK, MinOK, SortedOK

\* One step of eio_dent_sort changes places of the entries it was given, no
\* more, and keeps its invariant.
LEMMA SortStepOK ==
  ASSUME NEW D, dents \in Seq(D), SortInv, SortStep
  PROVE  /\ SortInv' /\ dents' \in Seq(D) /\ Rearranged(dents, dents', 1, size)
         /\ size' = size /\ sortpc' # "none"
<1>1. CASE RadixTest
  BY <1>1, RadixTestOK, SameRearranged DEF RadixTest, Presorted, PartitionDone
<1>2. CASE Partition
  BY <1>2, PartitionStepOK DEF Partition
<1>3. CASE PartitionEnds
  BY <1>3, PartitionEndsOK, SameRearranged DEF PartitionEnds, Presorted, PartitionDone
<1>4. CASE FindMin
  BY <1>4, FindMinOK DEF FindMin
<1>5. CASE Insert
  BY <1>5, InsertStepOK DEF Insert
<1>6. CASE Inserted
  <2>1. /\ sortpc = "insert" /\ pa > size /\ sortpc' = "sorted"
        /\ UNCHANGED <<dents, size, bits, stk, base, end, bit, pa, pb>>
    BY <1>6 DEF Inserted
  <2>2. size \in Nat /\ pa \in Nat
    BY SortTypes
  <2>3. SortedOK'
    <3>1. pa \in 2..(size + 1)
      BY <2>1 DEF SortInv, InsertOK
    <3>2. pa - 1 = size
      BY <2>1, <2>2, <3>1
    <3>3. \A i, j \in 1..size : i <= j => NotAbove(i, j)
      BY <2>1, <3>2 DEF SortInv, InsertOK
    <3> QED
      BY <2>1, <3>3 DEF SortedOK, NotAbove
  <2>4. SortTypeOK'
    BY <2>1 DEF SortInv, SortTypeOK, SortPC
  <2> QED
    BY <2>1, <2>3, <2>4, SameRearranged DEF SortInv, RadixOK, PartitionOK, MinOK, InsertOK
<1> QED
  BY <1>1, <1>2, <1>3, <1>4, <1>5, <1>6 DEF SortStep

\* An inode, which is not 0, has a bit.
LEMMA InodeHasBit ==
  ASSUME NEW d, IsDent(d)
  PROVE  \E k \in 0..(INO_BITS - 1) : HasBit(d.inode, k)
<1> SUFFICES ASSUME \A k \in 0..(INO_BITS - 1) : ~HasBit(d.inode, k)
             PROVE  FALSE
  OBVIOUS
<1>1. /\ INO_BITS \in 0..(TopOfAll + 1) /\ d.inode \in 0..(2^INO_BITS - 1) /\ 2^0 = 1
      /\ d.inode \in Nat
  BY ScoreBitsAre
<1>2. 0 \in 0..(2^INO_BITS - 1) /\ 0 \in 0..INO_BITS
  BY <1>1, SortAssumption
<1>3. ASSUME NEW k \in 0..(INO_BITS - 1) PROVE ~HasBit(0, k)
  <2>1. 2^k \in Nat \ {0}
    BY SortAssumption, PowersOfTwo
  <2>2. \A w \in Nat \ {0} : 0 \div w = 0
    OBVIOUS
  <2>3. 0 \div 2^k = 0
    BY <2>1, <2>2
  <2>4. 0 % 2 # 1
    OBVIOUS
  <2> QED
    BY <2>3, <2>4 DEF HasBit
<1>4. d.inode \div 2^0 = 0 \div 2^0
  BY <1>1, <1>2, <1>3, SameBits
<1>5. d.inode = 0
  BY <1>1, <1>4
<1> QED
  BY <1>5 DEF IsDent

\* The call of eio_dent_sort: the bits handed over are all in which the entries
\* may differ.
LEMMA SortCall ==
  ASSUME NEW D, dents \in Seq(D), EntriesOK(dents), NEW n \in Nat, n <= Len(dents),
         NEW S \in SUBSET (0..2), eio_dent_sort(n, S, InodeBits(dents)), dents' = dents,
         \A i, j \in 1..n : \A k \in (0..2) \ S :
            HasBit(dents[i].score, k) <=> HasBit(dents[j].score, k)
  PROVE  SortInv' /\ size' = n /\ sortpc' # "none"
<1>1. /\ sortpc' = IF n <= 1 THEN "sorted" ELSE "radix"
      /\ size' = n /\ bits' = InodeBits(dents) \cup {INO_BITS + k : k \in S}
      /\ stk' = <<>> /\ base' = 1 /\ end' = n + 1 /\ bit' = TopBit(bits') /\ pa' = 1 /\ pb' = 1
  BY DEF eio_dent_sort
<1>2. INO_BITS \in Nat /\ TopOfAll = INO_BITS + 2 /\ TopOfAll \in Nat /\ Len(dents) \in Nat
      /\ EIO_SORT_FAST \in Nat
  BY SortAssumption DEF TopOfAll
<1>3. \A i \in 1..n : IsDent(dents[i]) /\ i \in 1..Len(dents)
  BY <1>2 DEF EntriesOK
<1>4. bits' \subseteq 0..TopOfAll
  <2>1. InodeBits(dents) \subseteq 0..TopOfAll
    BY <1>2 DEF InodeBits
  <2>2. \A k \in S : INO_BITS + k \in 0..TopOfAll
    BY <1>2
  <2> QED
    BY <1>1, <2>1, <2>2
<1>5. ASSUME n > 1 PROVE bits' # {}
  <2>1. 1 \in 1..n
    BY <1>5
  <2>2. PICK k \in 0..(INO_BITS - 1) : HasBit(dents[1].inode, k)
    BY <1>3, <2>1, InodeHasBit
  <2>3. k \in InodeBits(dents)
    BY <1>3, <2>1, <2>2 DEF InodeBits
  <2> QED
    BY <1>1, <2>3
<1>6. PICK b \in Int :
        b = bit' /\ (n > 1 => b \in bits' /\ b \in 0..TopOfAll /\ \A j \in bits' : j <= b)
  <2>1. bit' \in Int /\ (bits' # {} => bit' \in bits' /\ bit' \in Nat /\ \A j \in bits' : j <= bit')
    <3>1. /\ bits' = {} => bit' = -1
          /\ bits' # {} => bit' \in bits' /\ bit' \in Nat /\ \A j \in bits' : j <= bit'
      <4>1. bit' = TopBit(bits')
        BY <1>1
      <4> QED
        BY ONLY <1>4, <4>1, TopBitIs
    <3> QED
      BY ONLY <3>1
  <2>2. n > 1 => bit' \in 0..TopOfAll
    BY <1>4, <1>5, <2>1
  <2> QED
    BY <1>5, <2>1, <2>2
<1>7. BitsOK(dents, n, bits')
  <2> SUFFICES ASSUME NEW i \in 1..n, NEW j \in 1..n, NEW k \in (0..TopOfAll) \ bits'
               PROVE  DentHas(dents[i], k) <=> DentHas(dents[j], k)
    BY DEF BitsOK
  <2>1. CASE k < INO_BITS
    <3>1. k \in 0..(INO_BITS - 1) /\ k \notin InodeBits(dents)
      BY <1>1, <1>2, <2>1
    <3>2. ~HasBit(dents[i].inode, k) /\ ~HasBit(dents[j].inode, k)
      BY <1>3, <3>1 DEF InodeBits
    <3> QED
      BY <2>1, <3>2 DEF DentHas
  <2>2. CASE ~(k < INO_BITS)
    <3>1. k - INO_BITS \in 0..2 /\ INO_BITS + (k - INO_BITS) = k
      BY <1>2, <2>2
    <3>2. k - INO_BITS \notin S
      BY <1>1, <3>1
    <3>3. HasBit(dents[i].score, k - INO_BITS) <=> HasBit(dents[j].score, k - INO_BITS)
      BY <3>1, <3>2
    <3> QED
      BY <2>2, <3>3 DEF DentHas
  <2> QED
    BY <2>1, <2>2
<1>8. ASSUME n > 1 PROVE SegmentOK(dents, n, bits', [base |-> 1, end |-> n + 1, bit |-> b])
  <2>1. ASSUME NEW i \in 1..n, NEW j \in 1..n PROVE Agree(dents[i], dents[j], b + 1)
    <3> SUFFICES ASSUME NEW k \in (b + 1)..TopOfAll
                 PROVE  DentHas(dents[i], k) <=> DentHas(dents[j], k)
      BY DEF Agree
    <3>1. k \in 0..TopOfAll /\ ~(k <= b)
      <4>1. b \in Nat
        BY <1>2, <1>6, <1>8
      <4> QED
        BY <1>2, <4>1
    <3>2. k \notin bits'
      BY <1>6, <1>8, <3>1
    <3> QED
      BY <1>7, <3>1, <3>2 DEF BitsOK
  <2> DEFINE g == [base |-> 1, end |-> n + 1, bit |-> b]
  <2>2. g.base = 1 /\ g.end = n + 1 /\ g.bit = b
    OBVIOUS
  <2> HIDE DEF g
  <2>3. g.end - 1 = n /\ \A j \in g.end..n : FALSE
    BY <2>2
  <2>4. SegmentOK(dents, n, bits', g)
    BY <1>6, <1>8, <2>1, <2>2, <2>3 DEF SegmentOK
  <2> QED
    BY <2>4 DEF g
<1>9. RadixOK'
  <2>1. AtWork' = [base |-> 1, end |-> n + 1, bit |-> b]
    BY <1>1, <1>6 DEF AtWork
  <2>2. n > 1 => StackOK(dents, n, bits', <<>>, n + 1, b)
    <3> DEFINE K == <<>>
    <3>1. K = <<>> /\ Len(K) = 0 /\ 1..Len(K) = {}
      OBVIOUS
    <3> HIDE DEF K
    <3>2. n > 1 => b + Len(K) <= TopOfAll
      <4>1. n > 1 => b \in 0..TopOfAll
        BY <1>6
      <4>2. TopOfAll \in Nat
        BY <1>2
      <4> QED
        BY ONLY <3>1, <4>1, <4>2
    <3>3. n > 1 => StackOK(dents, n, bits', K, n + 1, b)
      BY ONLY <3>1, <3>2 DEF StackOK
    <3> QED
      BY <3>1, <3>3
  <2>3. FrontOK(dents, n, 1)
    BY DEF FrontOK
  <2>4. sortpc' # "part" /\ (sortpc' = "radix" => n > 1)
    BY <1>1
  <2>5. n > 1 => /\ BitsOK(dents, size, bits)' /\ SegmentOK(dents, size, bits, AtWork)'
                 /\ StackOK(dents, size, bits, stk, end, bit)' /\ FrontOK(dents, size, base)'
    BY <1>1, <1>6, <1>7, <1>8, <2>1, <2>2, <2>3
  <2> QED
    BY <1>1, <2>4, <2>5 DEF RadixOK
<1>10. SortedOK'
  <2>1. ASSUME n <= 1, NEW i \in 1..n, NEW j \in 1..n
        PROVE  eio_dent_cmp(dents[i], dents[j]) <= 0
    <3>1. i = j /\ IsDent(dents[i])
      BY <1>3, <2>1
    <3> QED
      BY <3>1, CmpOrder
  <2> QED
    BY <1>1, <2>1 DEF SortedOK, NotAbove
<1>11. SortTypeOK' /\ EntriesOK(dents)' /\ (Len(stk) <= TopOfAll)'
  <2>1. <<>> \in Seq(Partitions) /\ Len(<<>>) = 0
    OBVIOUS
  <2> QED
    BY <1>1, <1>2, <1>4, <1>6, <2>1 DEF SortTypeOK, SortPC
<1> QED
  BY <1>1, <1>9, <1>10, <1>11 DEF SortInv, PartitionOK, MinOK, InsertOK

-----------------------------------------------------------------------------
(* The array of entries. *)

LEMMA TypedEntries ==
  ASSUME NEW d, NEW s \in Seq(DentSet(d))
  PROVE  EntriesOK(s)
<1>1. \A i \in 1..Len(s) : s[i] \in DentSet(d)
  OBVIOUS
<1> QED
  BY <1>1 DEF DentSet, EntriesOK, IsDent

\* The score says which entries are known to be directories.
LEMMA ScoreIs ==
  ASSUME NEW e, e.len \in Nat, NEW flags
  PROVE  /\ Score(e, flags) \in 0..7
         /\ "DIRS_FIRST" \notin flags => Score(e, flags) = 7
         /\ "DIRS_FIRST" \in flags => (Score(e, flags) = 0 <=> e.type = "DIR")
BY DEF Score

\* Only EIO_READDIR_DIRS_FIRST changes the score.
LEMMA ScoreSame ==
  ASSUME NEW e, NEW f, NEW g, "DIRS_FIRST" \in f <=> "DIRS_FIRST" \in g
  PROVE  Score(e, f) = Score(e, g)
BY DEF Score

\* Sorting keeps the elements of the names.
LEMMA ElementsMove ==
  ASSUME NEW s, NEW t, NEW n \in Nat, Len(s) \in Nat, n <= Len(s), Rearranged(s, t, 1, n),
         NEW N, NEW flags, ElementsOK(s, N, flags)
  PROVE  ElementsOK(t, N, flags)
<1>1. Len(t) = Len(s) /\ Len(s) = Len(N)
  BY DEF Rearranged, ElementsOK
<1>2. ASSUME NEW i \in 1..Len(s) PROVE \E j \in 1..Len(s) : t[i] = s[j]
  <2>1. 1 \in Nat /\ 1 <= 1
    OBVIOUS
  <2> QED
    BY <2>1, Origin
<1>3. ASSUME NEW j \in 1..Len(s) PROVE \E i \in 1..Len(s) : t[i] = s[j]
  <2>1. CASE j \in 1..n
    <3>1. PICK i \in 1..n : t[i] = s[j]
      BY <2>1 DEF Rearranged
    <3>2. i \in 1..Len(s)
      OBVIOUS
    <3> QED
      BY <3>1, <3>2
  <2>2. CASE j \notin 1..n
    BY <2>2 DEF Rearranged
  <2> QED
    BY <2>1, <2>2
<1>4. ASSUME NEW i \in 1..Len(t) PROVE \E k \in 1..Len(N) : t[i] = DentOf(N[k], flags)
  BY <1>1, <1>2 DEF ElementsOK
<1>5. ASSUME NEW k \in 1..Len(N) PROVE \E i \in 1..Len(t) : t[i] = DentOf(N[k], flags)
  BY <1>1, <1>3 DEF ElementsOK
<1> QED
  BY <1>1, <1>4, <1>5 DEF ElementsOK

\* Adding an entry, also if a type turns out to be unknown.
LEMMA ElementsAdd ==
  ASSUME NEW D, NEW s \in Seq(D), NEW C, NEW N \in Seq(C), NEW f, NEW g,
         "DIRS_FIRST" \in f <=> "DIRS_FIRST" \in g, ElementsOK(s, N, f), NEW n, NEW d,
         d = DentOf(n, g)
  PROVE  ElementsOK(Append(s, d), Append(N, n), g)
<1> DEFINE t == Append(s, d)
           M == Append(N, n)
<1>1. /\ Len(s) \in Nat /\ Len(N) = Len(s) /\ Len(t) = Len(s) + 1 /\ Len(M) = Len(s) + 1
      /\ t[Len(s) + 1] = d /\ M[Len(s) + 1] = n
      /\ \A i \in 1..Len(s) : t[i] = s[i] /\ M[i] = N[i]
  BY DEF ElementsOK
<1>2. \A x : DentOf(x, f) = DentOf(x, g)
  BY ScoreSame DEF DentOf
<1> HIDE DEF t, M
<1>3. ASSUME NEW i \in 1..Len(t) PROVE \E k \in 1..Len(M) : t[i] = DentOf(M[k], g)
  <2>1. CASE i = Len(s) + 1
    BY <1>1, <2>1
  <2>2. CASE i \in 1..Len(s)
    <3>1. PICK k \in 1..Len(N) : s[i] = DentOf(N[k], f)
      BY <2>2 DEF ElementsOK
    <3>2. k \in 1..Len(M) /\ M[k] = N[k] /\ t[i] = s[i]
      BY <1>1, <2>2
    <3> QED
      BY <1>2, <3>1, <3>2
  <2> QED
    BY <1>1, <2>1, <2>2
<1>4. ASSUME NEW k \in 1..Len(M) PROVE \E i \in 1..Len(t) : t[i] = DentOf(M[k], g)
  <2>1. CASE k = Len(s) + 1
    BY <1>1, <2>1
  <2>2. CASE k \in 1..Len(s)
    <3>1. PICK i \in 1..Len(s) : s[i] = DentOf(N[k], f)
      BY <1>1, <2>2 DEF ElementsOK
    <3>2. i \in 1..Len(t) /\ M[k] = N[k] /\ t[i] = s[i]
      BY <1>1, <2>2
    <3> QED
      BY <1>2, <3>1, <3>2
  <2> QED
    BY <1>1, <2>1, <2>2
<1>5. ElementsOK(t, M, g)
  BY <1>1, <1>3, <1>4 DEF ElementsOK
<1> QED
  BY <1>5 DEF t, M

\* An element has the type and the score of an entry of the directory.
LEMMA ElementIs ==
  ASSUME NEW s, NEW d, NEW N \in Seq(NameSet(d)), NEW flags, ElementsOK(s, N, flags),
         \A e \in d : IsEntry(e), NEW i \in 1..Len(s)
  PROVE  /\ s[i].score \in 0..7 /\ s[i].inode \in Nat
         /\ "DIRS_FIRST" \notin flags => s[i].score = 7
         /\ "DIRS_FIRST" \in flags => (s[i].score = 0 <=> s[i].type = "DIR")
<1>1. PICK k \in 1..Len(N) : s[i] = DentOf(N[k], flags)
  BY DEF ElementsOK
<1>2. N[k] \in NameSet(d)
  OBVIOUS
<1>3. PICK e \in d : e = N[k].ent
  BY <1>2 DEF NameSet
<1>4. e.len \in Nat /\ e.inode \in Nat
  <2>1. 2^INO_BITS \in Nat
    BY SortAssumption, PowersOfTwo
  <2> QED
    BY <2>1 DEF IsEntry
<1>5. s[i].score = Score(e, flags) /\ s[i].type = e.type /\ s[i].inode = e.inode
  BY <1>1, <1>3 DEF DentOf
<1> QED
  BY <1>4, <1>5, ScoreIs

-----------------------------------------------------------------------------
(* The steps of eio__scandir. *)

LEMMA SdFacts ==
  ASSUME SdInv
  PROVE  /\ names \in Seq(NameSet(dir)) /\ Len(names) \in Nat
         /\ dents \in Seq(DentSet(dir)) /\ Len(dents) \in Nat /\ EntriesOK(dents)
         /\ namesoffs \in Nat /\ namesalloc \in Nat /\ dentalloc \in Nat /\ sdresult \in Int
         /\ namesoffs <= namesalloc /\ Len(dents) <= dentalloc
         /\ \A e \in dir : IsEntry(e)
         /\ sdpc \in ScandirPC /\ sdflags \subseteq Flags
<1>1. SdTypeOK /\ BuffersOK
  BY DEF SdInv
<1>2. names \in Seq(NameSet(dir)) /\ dents \in Seq(DentSet(dir))
  BY <1>1 DEF SdTypeOK
<1>3. Len(names) \in Nat /\ Len(dents) \in Nat
  BY <1>2
<1>4. EntriesOK(dents)
  BY <1>2, TypedEntries
<1> QED
  BY <1>1, <1>2, <1>3, <1>4 DEF SdTypeOK, BuffersOK

LEMMA SortIdle ==
  ASSUME SortTypeOK, EntriesOK(dents), sortpc = "none", stk = <<>>
  PROVE  SortInv
<1>1. Len(stk) = 0 /\ TopOfAll \in Nat
  BY SortAssumption DEF TopOfAll
<1>2. Len(stk) <= TopOfAll
  BY <1>1
<1> QED
  BY <1>2 DEF SortInv, RadixOK, PartitionOK, MinOK, InsertOK, SortedOK

LEMMA SortSame ==
  ASSUME SortInv, UNCHANGED <<dents, sortVars>>
  PROVE  SortInv'
BY DEF SortInv, SortTypeOK, RadixOK, PartitionOK, MinOK, InsertOK, SortedOK, AtWork, NotAbove, sortVars

\* Steps that change neither what was read nor what is left to read.
LEMMA QuietOK ==
  ASSUME SdInv, sdpc \in {"read", "grow", "cancel"},
         sdpc' \in {"read", "grow", "cancel", "done", "segv"},
         entp = {} \/ sdpc' \in {"grow", "segv"}, namesalloc' \in Nat, namesalloc <= namesalloc',
         UNCHANGED <<dir, sdflags, unread, entp, names, namesoffs, dents, dentalloc, sdresult,
                     sortVars>>
  PROVE  SdInv'
<1>1. namesoffs \in Nat /\ namesalloc \in Nat /\ namesoffs <= namesalloc /\ Len(dents) <= dentalloc
  BY SdFacts
<1>2. sdresult = -1 /\ sortpc = "none" /\ stk = <<>> /\ size = 0
  BY DEF SdInv, WhatIsSorted
<1>3. Complete /\ ~(sdresult' >= 0) /\ sdpc' # "sort" /\ sdpc' # "dirs" /\ sdpc' # "idle"
  BY <1>2 DEF Complete, Active
<1>4. Complete' => sdpc' \in {"read", "grow", "cancel"}
  BY <1>3 DEF Complete, Active
<1>5. SdTypeOK'
  BY DEF SdInv, SdTypeOK, ScandirPC
<1>6. NamesOK'
  BY <1>3, <1>4 DEF SdInv, NamesOK, Visible
<1>7. OffsetsOK'
  BY DEF SdInv, OffsetsOK
<1>8. ArrayOK'
  BY <1>3, <1>4 DEF SdInv, ArrayOK
<1>9. BuffersOK'
  BY <1>1 DEF BuffersOK
<1>10. WhatIsSorted'
  BY <1>2, <1>3, <1>4 DEF WhatIsSorted, sortVars
<1>11. ReaddirOrder'
  BY <1>3 DEF ReaddirOrder
<1>12. SortInv'
  BY SortSame DEF SdInv
<1> QED
  BY <1>5, <1>6, <1>7, <1>8, <1>9, <1>10, <1>11, <1>12 DEF SdInv

LEMMA OpenOK ==
  ASSUME SdInv, ScandirOpen
  PROVE  SdInv'
<1>1. /\ sdpc = "idle" /\ sortpc = "none" /\ stk = <<>> /\ size = 0 /\ names = <<>> /\ dents = <<>>
      /\ namesoffs = 0 /\ entp = {} /\ namesalloc \in Nat /\ dentalloc \in Nat
  BY SdFacts DEF SdInv, WhatIsSorted, NamesOK, ScandirOpen
<1>2. PICK d \in Dirs, f \in ReaddirFlags :
        /\ dir' = d /\ unread' = d
        /\ sdflags' = IF "DENTS" \in f THEN f ELSE f \ {"DIRS_FIRST", "STAT_ORDER"}
        /\ OpenFails \/ OpenAllocates(sdflags')
        /\ UNCHANGED <<entp, names, namesoffs, dents, cancelled, sortVars>>
  BY Zenon DEF ScandirOpen
<1>3. NAMES_ALLOC \in Nat \ {0} /\ DENT_ALLOC \in Nat \ {0} /\ f \subseteq Flags
      /\ \A e \in d : IsEntry(e)
  BY ScandirAssumption DEF Flags, IsEntry
<1>4. /\ sdpc' \in {"read", "done"} /\ sdresult' = -1
      /\ namesalloc' \in Nat /\ dentalloc' \in Nat
      /\ sdpc' = "read" => (dentalloc' = 0 <=> sdflags' = {})
  BY <1>1, <1>2, <1>3 DEF OpenFails, OpenAllocates
<1>5. sdflags' \subseteq Flags
      /\ (sdflags' \cap {"DIRS_FIRST", "STAT_ORDER"} # {} => "DENTS" \in sdflags')
  BY <1>2, <1>3
<1>6. names' = <<>> /\ dents' = <<>> /\ Len(<<>>) = 0 /\ namesoffs' = 0 /\ entp' = {}
      /\ 1..Len(<<>>) = {}
  BY <1>1, <1>2
<1>7. SdTypeOK'
  <2>1. <<>> \in Seq(DentSet(d)) /\ <<>> \in Seq(NameSet(d)) /\ 0 \in Nat /\ -1 \in Int
    OBVIOUS
  <2> QED
    BY <1>2, <1>3, <1>4, <1>5, <1>6, <2>1 DEF SdTypeOK, ScandirPC
<1>8. NamesOK'
  BY <1>2, <1>4, <1>6 DEF NamesOK, Visible
<1>9. OffsetsOK'
  BY <1>6 DEF OffsetsOK
<1>10. Complete' => sdpc' = "read"
  BY <1>4 DEF Complete, Active
<1>11. ArrayOK'
  BY <1>4, <1>5, <1>6, <1>10 DEF ArrayOK, ElementsOK
<1>12. BuffersOK'
  BY <1>4, <1>6 DEF BuffersOK
<1>13. WhatIsSorted'
  BY <1>1, <1>2, <1>4, <1>10 DEF WhatIsSorted, sortVars
<1>14. SortInv'
  BY <1>2, SortSame DEF SdInv
<1>15. ReaddirOrder'
  BY <1>4 DEF ReaddirOrder
<1> QED
  BY <1>7, <1>8, <1>9, <1>11, <1>12, <1>13, <1>14, <1>15 DEF SdInv

\* An entry is read.
LEMMA ReaddirEntryOK ==
  ASSUME SdInv, sdpc = "read", ReaddirEntry,
         UNCHANGED <<dir, names, namesoffs, namesalloc, dentalloc, cancelled>>
  PROVE  SdInv'
<1>1. /\ sdresult = -1 /\ sortpc = "none" /\ stk = <<>> /\ size = 0 /\ entp = {}
      /\ unread \subseteq dir
  BY DEF SdInv, WhatIsSorted, NamesOK
<1>2. PICK e \in unread :
        /\ unread' = unread \ {e}
        /\ IF e.name \in {".", ".."}
           THEN sdpc' = "cancel" /\ UNCHANGED entp
           ELSE sdpc' = "grow" /\ entp' = {e}
        /\ UNCHANGED <<sdflags, dents, dirp, sdresult, sortVars>>
  BY DEF ReaddirEntry
<1>3. /\ sdpc' \in {"cancel", "grow"} /\ Complete /\ Complete'
      /\ entp' = {} \/ (sdpc' = "grow" /\ e \in Visible \ unread' /\ entp' = {e})
      /\ Visible \ (unread' \cup entp') = Visible \ (unread \cup entp)
  BY <1>1, <1>2 DEF Complete, Active, Visible
<1>4. SdTypeOK'
  BY <1>2, <1>3 DEF SdInv, SdTypeOK, ScandirPC
<1>5. NamesOK'
  <2>1. Visible' = Visible /\ unread' \subseteq dir
    BY <1>1, <1>2 DEF Visible
  <2>2. entp' = {} \/ (sdpc' \in {"grow", "segv"} /\ \E x \in Visible \ unread' : entp' = {x})
    BY <1>3
  <2> QED
    BY <1>3, <2>1, <2>2 DEF SdInv, NamesOK
<1>6. OffsetsOK' /\ BuffersOK' /\ ArrayOK'
  BY <1>2, <1>3 DEF SdInv, OffsetsOK, BuffersOK, ArrayOK
<1>7. WhatIsSorted'
  BY <1>1, <1>2, <1>3 DEF WhatIsSorted, sortVars
<1>8. SortInv'
  BY <1>2, SortSame DEF SdInv
<1>9. ReaddirOrder'
  BY <1>3 DEF ReaddirOrder
<1> QED
  BY <1>4, <1>5, <1>6, <1>7, <1>8, <1>9 DEF SdInv

\* The end of the directory: what the sort is given.
LEMMA ReaddirEndsOK ==
  ASSUME SdInv, sdpc = "read", ReaddirEnds,
         UNCHANGED <<dir, names, namesoffs, namesalloc, dentalloc, cancelled>>
  PROVE  SdInv'
<1>1. /\ sortpc = "none" /\ stk = <<>> /\ size = 0 /\ entp = {} /\ unread = {} /\ Complete
      /\ (dentalloc = 0 <=> sdflags = {})
  BY DEF SdInv, WhatIsSorted, NamesOK, ReaddirEnds, ArrayOK, Complete, Active
<1>2. sdresult' = Len(names) /\ Order /\ UNCHANGED <<sdflags, unread, entp, dents>>
  BY DEF ReaddirEnds
<1>3. /\ names \in Seq(NameSet(dir)) /\ Len(names) \in Nat
      /\ dents \in Seq(DentSet(dir)) /\ Len(dents) \in Nat /\ EntriesOK(dents)
      /\ \A e \in dir : IsEntry(e)
  BY SdFacts
<1>4. dentalloc # 0 => ElementsOK(dents, names, sdflags)
  BY DEF SdInv, ArrayOK
<1>5. sdpc' \in {"sort", "dirs", "done"}
  BY <1>2 DEF Order
<1>6. Complete'
  BY <1>2, <1>3, <1>5 DEF Complete, Active
<1>7. SdTypeOK'
  BY <1>2, <1>3, <1>5 DEF SdInv, SdTypeOK, ScandirPC
<1>8. NamesOK' /\ OffsetsOK' /\ ArrayOK' /\ BuffersOK'
  BY <1>1, <1>2, <1>5, <1>6 DEF SdInv, NamesOK, OffsetsOK, ArrayOK, BuffersOK, Visible
<1>9. CASE SortsAll(sdflags)
  <2>1. sdpc' = "sort" /\ eio_dent_sort(Len(dents), ScoreBits(sdflags), InodeBits(dents))
    BY <1>2, <1>9 DEF Order
  <2>2. dentalloc # 0 /\ ElementsOK(dents, names, sdflags)
    BY <1>1, <1>4, <1>9 DEF SortsAll
  <2>3. ScoreBits(sdflags) \in SUBSET (0..2)
    BY DEF ScoreBits
  <2>4. ASSUME NEW i \in 1..Len(dents), NEW j \in 1..Len(dents),
               NEW k \in (0..2) \ ScoreBits(sdflags)
        PROVE  HasBit(dents[i].score, k) <=> HasBit(dents[j].score, k)
    <3>1. "DIRS_FIRST" \notin sdflags
      BY DEF ScoreBits
    <3>2. dents[i].score = 7 /\ dents[j].score = 7
      BY <1>3, <2>2, <3>1, ElementIs
    <3> QED
      BY <3>2
  <2>5. SortInv' /\ size' = Len(dents) /\ sortpc' # "none"
    <3>1. Len(dents) <= Len(dents)
      BY <1>3
    <3> QED
      BY <1>2, <1>3, <2>1, <2>3, <2>4, <3>1, SortCall
  <2>6. WhatIsSorted'
    BY <1>1, <1>2, <1>9, <2>1, <2>2, <2>5 DEF WhatIsSorted
  <2>7. ReaddirOrder'
    BY <2>1 DEF ReaddirOrder
  <2> QED
    BY <1>7, <1>8, <2>5, <2>6, <2>7 DEF SdInv
<1>10. CASE ~SortsAll(sdflags) /\ "DIRS_FIRST" \in sdflags
  <2>1. /\ sdpc' = "dirs" /\ pa' = 1 /\ pb' = Len(dents) + 1
        /\ UNCHANGED <<sortpc, size, bits, stk, base, end, bit>>
    BY <1>2, <1>10 DEF Order
  <2>2. dentalloc # 0
    BY <1>1, <1>10
  <2>3. pa' \in 1..pb' /\ pb' <= Len(dents) + 1 /\ pa' \in Nat /\ pb' \in Nat
        /\ 1..(pa' - 1) = {} /\ pb'..Len(dents) = {}
    BY <1>3, <2>1
  <2>4. WhatIsSorted'
    BY <1>1, <1>2, <1>10, <2>1, <2>2, <2>3 DEF WhatIsSorted
  <2>5. SortTypeOK' /\ EntriesOK(dents)'
    BY <1>2, <1>3, <2>1, <2>3 DEF SdInv, SortInv, SortTypeOK
  <2>6. (sortpc = "none")' /\ (stk = <<>>)'
    BY <1>1, <2>1
  <2>7. SortInv'
    BY <1>1, <1>2, <2>1, <2>5, <2>6 DEF SdInv, SortInv, RadixOK, PartitionOK, MinOK, InsertOK, SortedOK
  <2>8. ReaddirOrder'
    BY <2>1 DEF ReaddirOrder
  <2> QED
    BY <1>7, <1>8, <2>4, <2>7, <2>8 DEF SdInv
<1>11. CASE ~SortsAll(sdflags) /\ "DIRS_FIRST" \notin sdflags
  <2>1. sdpc' = "done" /\ UNCHANGED sortVars
    BY <1>2, <1>11 DEF Order
  <2>2. "STAT_ORDER" \notin sdflags
    BY <1>11 DEF SortsAll
  <2>3. ReaddirOrder'
    BY <1>2, <1>11, <2>2 DEF ReaddirOrder
  <2>4. WhatIsSorted'
    BY <1>1, <1>2, <2>1 DEF WhatIsSorted, sortVars
  <2>5. SortInv'
    BY <1>2, <2>1, SortSame DEF SdInv
  <2> QED
    BY <1>7, <1>8, <2>3, <2>4, <2>5 DEF SdInv
<1> QED
  BY <1>9, <1>10, <1>11

\* An entry is added: its name begins behind the others.
LEMMA AddEntryOK ==
  ASSUME SdInv, AddEntry
  PROVE  SdInv'
<1>1. PICK e \in entp :
        LET flags == IF dentalloc # 0 /\ e.type = "UNKNOWN" THEN sdflags \cup {"FOUND_UNKNOWN"}
                     ELSE sdflags
        IN  /\ sdpc = "grow" /\ Fits(e)
            /\ names' = Append(names, [ofs |-> namesoffs, ent |-> e])
            /\ namesoffs' = namesoffs + e.len + 1
            /\ sdflags' = flags
            /\ IF dentalloc # 0 THEN AddDent(e, flags) ELSE UNCHANGED <<dents, dentalloc>>
            /\ sdpc' = "cancel" /\ entp' = {}
            /\ UNCHANGED <<dir, unread, namesalloc, dirp, sdresult, cancelled, sortVars>>
  BY Zenon DEF AddEntry
<1> DEFINE n == [ofs |-> namesoffs, ent |-> e]
           N == Len(names)
<1>2. /\ sdresult = -1 /\ sortpc = "none" /\ stk = <<>> /\ size = 0 /\ Complete
      /\ (dentalloc = 0 <=> sdflags = {}) /\ entp = {e} /\ e \in Visible \ unread
      /\ unread \subseteq dir
  <2>1. sdpc = "grow"
    BY <1>1
  <2> QED
    BY <1>1, <2>1 DEF SdInv, WhatIsSorted, NamesOK, ArrayOK, Complete, Active
<1>3. /\ names \in Seq(NameSet(dir)) /\ N \in Nat
      /\ dents \in Seq(DentSet(dir)) /\ Len(dents) \in Nat
      /\ namesoffs \in Nat /\ namesalloc \in Nat /\ dentalloc \in Nat
      /\ namesoffs <= namesalloc /\ Len(dents) <= dentalloc
      /\ sdflags \subseteq Flags /\ \A x \in dir : IsEntry(x)
  BY SdFacts
<1>4. e \in dir /\ e.len \in Nat /\ e.inode \in 1..(2^INO_BITS - 1)
  BY <1>2, <1>3 DEF Visible, IsEntry
<1>5. n \in NameSet(dir) /\ n.ofs = namesoffs /\ n.ent = e
  BY <1>3, <1>4 DEF NameSet
<1>6. /\ sdpc = "grow" /\ Fits(e) /\ names' = Append(names, n)
      /\ namesoffs' = namesoffs + e.len + 1
      /\ sdflags' = IF dentalloc # 0 /\ e.type = "UNKNOWN" THEN sdflags \cup {"FOUND_UNKNOWN"}
                    ELSE sdflags
      /\ dentalloc # 0 => AddDent(e, sdflags')
      /\ dentalloc = 0 => dents' = dents /\ dentalloc' = dentalloc
      /\ sdpc' = "cancel" /\ entp' = {}
      /\ UNCHANGED <<dir, unread, namesalloc, dirp, sdresult, cancelled, sortVars>>
  BY <1>1
<1> HIDE DEF n
<1>7. /\ names' \in Seq(NameSet(dir)) /\ Len(names') = N + 1 /\ names'[N + 1] = n
      /\ \A i \in 1..N : names'[i] = names[i]
  BY <1>3, <1>5, <1>6
<1>8. /\ "DIRS_FIRST" \in sdflags <=> "DIRS_FIRST" \in sdflags'
      /\ "STAT_ORDER" \in sdflags <=> "STAT_ORDER" \in sdflags'
      /\ "DENTS" \in sdflags => "DENTS" \in sdflags'
      /\ sdflags' \subseteq Flags /\ (dentalloc = 0 => sdflags' = sdflags)
      /\ sdflags \subseteq sdflags'
  BY <1>3, <1>6 DEF Flags
<1>9. dentalloc # 0 =>
        /\ dentalloc' \in Nat /\ dentalloc' # 0 /\ Len(dents) + 1 <= dentalloc'
        /\ dents' = Append(dents, DentOf(n, sdflags'))
        /\ DentOf(n, sdflags') \in DentSet(dir)
  <2> SUFFICES ASSUME dentalloc # 0
               PROVE  /\ dentalloc' \in Nat /\ dentalloc' # 0 /\ Len(dents) + 1 <= dentalloc'
                      /\ dents' = Append(dents, DentOf(n, sdflags'))
                      /\ DentOf(n, sdflags') \in DentSet(dir)
    OBVIOUS
  <2>1. AddDent(e, sdflags')
    BY <1>6
  <2>2. dentalloc' = IF Len(dents) = dentalloc THEN 2 * dentalloc ELSE dentalloc
    BY <2>1 DEF AddDent
  <2>3. dentalloc' \in Nat /\ dentalloc' # 0 /\ Len(dents) + 1 <= dentalloc'
    BY <1>3, <2>2
  <2>4. Dent(e, sdflags') = DentOf(n, sdflags')
    BY <1>5 DEF Dent, DentOf
  <2>5. dents' = Append(dents, DentOf(n, sdflags'))
    BY <2>1, <2>4 DEF AddDent
  <2>6. Score(e, sdflags') \in 0..7
    BY <1>4, ScoreIs
  <2>7. DentOf(n, sdflags') \in DentSet(dir)
    BY <1>3, <1>4, <1>5, <2>6 DEF DentOf, DentSet
  <2> QED
    BY <2>3, <2>5, <2>7
<1>10. dents' \in Seq(DentSet(dir)) /\ dentalloc' \in Nat /\ Len(dents') <= dentalloc'
       /\ Len(dents') \in Nat /\ (dentalloc' = 0 <=> dentalloc = 0)
  <2>1. CASE dentalloc = 0
    BY <1>3, <1>6, <2>1
  <2>2. CASE dentalloc # 0
    <3> DEFINE d == DentOf(n, sdflags')
    <3>1. d \in DentSet(dir) /\ dents' = Append(dents, d)
      BY <1>9, <2>2
    <3> HIDE DEF d
    <3>2. dents' \in Seq(DentSet(dir)) /\ Len(dents') = Len(dents) + 1
      BY <1>3, <3>1
    <3> QED
      BY <1>3, <1>9, <2>2, <3>2
  <2> QED
    BY <2>1, <2>2
<1>11. Complete' /\ sdpc' \notin {"idle", "dirs", "sort", "done", "segv"}
  BY <1>6 DEF Complete, Active
<1>12. SdTypeOK'
  <2>1. namesoffs' \in Nat
    BY <1>3, <1>4, <1>6
  <2> QED
    BY <1>6, <1>7, <1>8, <1>10, <2>1 DEF SdInv, SdTypeOK, ScandirPC
<1>13. NamesOK'
  <2>1. Visible' = Visible /\ unread' = unread /\ entp' = {}
    BY <1>6 DEF Visible
  <2>2. /\ \A i \in 1..N : names[i].ent \in Visible \ (unread \cup {e})
        /\ \A i, j \in 1..N : names[i].ent = names[j].ent => i = j
        /\ \A x \in Visible \ (unread \cup {e}) : \E i \in 1..N : names[i].ent = x
    BY <1>2 DEF SdInv, NamesOK
  <2>3. ASSUME NEW i \in 1..(N + 1)
        PROVE  i \in 1..N \/ (i = N + 1 /\ names'[i].ent = e)
    BY <1>3, <1>5, <1>7
  <2>4. \A i \in 1..(N + 1) : names'[i].ent \in Visible \ unread
    BY <1>2, <1>7, <2>2, <2>3
  <2>5. \A i, j \in 1..(N + 1) : names'[i].ent = names'[j].ent => i = j
    BY <1>7, <2>2, <2>3
  <2>6. ASSUME NEW x \in Visible \ unread PROVE \E i \in 1..(N + 1) : names'[i].ent = x
    <3>1. CASE x = e
      BY <1>3, <1>5, <1>7, <3>1
    <3>2. CASE x # e
      <4>1. PICK i \in 1..N : names[i].ent = x
        BY <2>2, <3>2
      <4>2. i \in 1..(N + 1) /\ names'[i].ent = x
        BY <1>3, <1>7, <4>1
      <4> QED
        BY <4>2
    <3> QED
      BY <3>1, <3>2
  <2> QED
    BY <1>2, <1>6, <1>7, <1>11, <2>1, <2>4, <2>5, <2>6 DEF NamesOK
<1>14. OffsetsOK'
  <2>1. /\ \A i, j \in 1..N : i < j => names[i].ofs < names[j].ofs
        /\ \A i \in 1..N : names[i].ofs + names[i].ent.len + 1
                             = IF i = N THEN namesoffs ELSE names[i + 1].ofs
    BY DEF SdInv, OffsetsOK
  <2>2. \A i \in 1..N : names[i] \in NameSet(dir)
    BY <1>3
  <2>3. \A i \in 1..N : names[i].ofs \in Nat /\ names[i].ent.len \in Nat
    BY <1>3, <2>2 DEF NameSet, IsEntry
  <2>4. ASSUME NEW i \in 1..N PROVE names[i].ofs < namesoffs
    <3>1. N \in 1..N /\ (i = N \/ i < N)
      BY <1>3
    <3>2. names[N].ofs + names[N].ent.len + 1 = namesoffs
      BY <2>1, <3>1
    <3>3. names[N].ofs < namesoffs
      BY <1>3, <2>3, <3>1, <3>2
    <3>4. i < N => names[i].ofs < names[N].ofs
      BY <2>1, <3>1
    <3> QED
      BY <1>3, <2>3, <3>1, <3>3, <3>4
  <2>5. ASSUME NEW i \in 1..(N + 1), NEW j \in 1..(N + 1), i < j
        PROVE  names'[i].ofs < names'[j].ofs
    <3>1. i \in 1..N
      BY <1>3, <2>5
    <3>2. CASE j \in 1..N
      BY <1>7, <2>1, <2>5, <3>1, <3>2
    <3>3. CASE j = N + 1
      BY <1>5, <1>7, <2>4, <3>1, <3>3
    <3> QED
      BY <1>3, <3>2, <3>3
  <2>6. ASSUME NEW i \in 1..(N + 1)
        PROVE  names'[i].ofs + names'[i].ent.len + 1
                 = IF i = N + 1 THEN namesoffs' ELSE names'[i + 1].ofs
    <3>1. CASE i = N + 1
      BY <1>5, <1>6, <1>7, <3>1
    <3>2. CASE i = N /\ i \in 1..N
      BY <1>3, <1>5, <1>7, <2>1, <3>2
    <3>3. CASE i # N /\ i \in 1..N
      <4>1. i + 1 \in 1..N /\ i # N + 1
        BY <1>3, <3>3
      <4> QED
        BY <1>7, <2>1, <3>3, <4>1
    <3> QED
      BY <1>3, <3>1, <3>2, <3>3
  <2> QED
    BY <1>7, <2>5, <2>6 DEF OffsetsOK
<1>15. ArrayOK'
  <2>1. dentalloc' # 0 => ElementsOK(dents', names', sdflags')
    <3>1. CASE dentalloc # 0
      <4>1. ElementsOK(dents, names, sdflags)
        BY <3>1 DEF SdInv, ArrayOK
      <4>2. dents' = Append(dents, DentOf(n, sdflags')) /\ names' = Append(names, n)
        BY <1>6, <1>9, <3>1
      <4> QED
        BY <1>3, <1>8, <4>1, <4>2, ElementsAdd
    <3>2. CASE dentalloc = 0
      BY <1>10, <3>2
    <3> QED
      BY <3>1, <3>2
  <2>2. dentalloc' = 0 => dents' = <<>>
    BY <1>6, <1>10 DEF SdInv, ArrayOK
  <2>3. dentalloc' = 0 <=> sdflags' = {}
    BY <1>2, <1>8, <1>10
  <2>4. sdflags' \cap {"DIRS_FIRST", "STAT_ORDER"} # {} => "DENTS" \in sdflags'
    BY <1>8 DEF SdInv, ArrayOK
  <2> QED
    BY <2>1, <2>2, <2>3, <2>4 DEF ArrayOK
<1>16. BuffersOK'
  BY <1>3, <1>4, <1>6, <1>10 DEF BuffersOK, Fits
<1>17. WhatIsSorted'
  BY <1>2, <1>6, <1>11 DEF WhatIsSorted, sortVars
<1>18. SortInv'
  <2>1. EntriesOK(dents')
    BY <1>10, TypedEntries
  <2>2. SortTypeOK'
    <3>1. size' = 0 /\ 0 <= Len(dents')
      BY <1>2, <1>6, <1>10 DEF sortVars
    <3> QED
      BY <1>6, <3>1 DEF SdInv, SortInv, SortTypeOK, sortVars
  <2>3. sortpc' = "none" /\ stk' = stk
    BY <1>2, <1>6 DEF sortVars
  <2> QED
    BY <2>1, <2>2, <2>3 DEF SdInv, SortInv, RadixOK, PartitionOK, MinOK, InsertOK, SortedOK
<1>19. ReaddirOrder'
  BY <1>11 DEF ReaddirOrder
<1> QED
  BY <1>12, <1>13, <1>14, <1>15, <1>16, <1>17, <1>18, <1>19 DEF SdInv

LEMMA DentsLostOK ==
  ASSUME SdInv, DentsLost
  PROVE  SdInv'
<1>1. /\ sdpc = "grow" /\ sdpc' = "done" /\ entp' = {} /\ dents' = <<>> /\ dentalloc' = 0
      /\ UNCHANGED <<dir, sdflags, unread, names, namesoffs, namesalloc, dirp, sdresult,
                     cancelled, sortVars>>
  BY DEF DentsLost
<1>2. sdresult = -1 /\ sortpc = "none" /\ stk = <<>> /\ size = 0
  BY <1>1 DEF SdInv, WhatIsSorted
<1>3. ~Complete' /\ ~(sdresult' >= 0) /\ Len(<<>>) = 0
  BY <1>1, <1>2 DEF Complete, Active
<1>4. SdTypeOK'
  <2>1. <<>> \in Seq(DentSet(dir)) /\ 0 \in Nat
    OBVIOUS
  <2> QED
    BY <1>1, <2>1 DEF SdInv, SdTypeOK, ScandirPC
<1>5. NamesOK' /\ OffsetsOK'
  BY <1>1, <1>3 DEF SdInv, NamesOK, OffsetsOK, Visible
<1>6. ArrayOK' /\ BuffersOK'
  <2>1. namesoffs <= namesalloc
    BY SdFacts
  <2> QED
    BY <1>1, <1>3, <2>1 DEF SdInv, ArrayOK, BuffersOK
<1>7. WhatIsSorted'
  BY <1>1, <1>2, <1>3 DEF WhatIsSorted, sortVars
<1>8. SortInv'
  <2>1. EntriesOK(dents')
    BY <1>1 DEF EntriesOK
  <2>2. SortTypeOK'
    <3>1. size' = 0 /\ 0 <= Len(dents')
      BY <1>1, <1>2 DEF sortVars
    <3> QED
      BY <1>1, <3>1 DEF SdInv, SortInv, SortTypeOK, sortVars
  <2>3. sortpc' = "none" /\ stk' = stk
    BY <1>1, <1>2 DEF sortVars
  <2> QED
    BY <2>1, <2>2, <2>3 DEF SdInv, SortInv, RadixOK, PartitionOK, MinOK, InsertOK, SortedOK
<1>9. ReaddirOrder'
  BY <1>3 DEF ReaddirOrder
<1> QED
  BY <1>4, <1>5, <1>6, <1>7, <1>8, <1>9 DEF SdInv

\* Steps that only change the places of entries keep what was read.
LEMMA MovingOK ==
  ASSUME SdInv, sdpc \in {"dirs", "sort"}, sdpc' \in {"dirs", "sort", "done"}, UNCHANGED readVars,
         NEW n \in Nat, n <= Len(dents), Rearranged(dents, dents', 1, n),
         dents' \in Seq(DentSet(dir))
  PROVE  SdTypeOK' /\ NamesOK' /\ OffsetsOK' /\ ArrayOK' /\ BuffersOK' /\ Len(dents') = Len(dents)
<1>1. /\ sdresult = Len(names) /\ Len(names) \in Nat /\ Len(dents) \in Nat /\ dentalloc # 0
      /\ Complete /\ entp = {}
  BY SdFacts DEF SdInv, WhatIsSorted, NamesOK, Complete, Active
<1>2. Complete'
  BY <1>1 DEF readVars, Complete, Active
<1>3. Len(dents') = Len(dents)
  BY DEF Rearranged
<1>4. SdTypeOK'
  BY DEF SdInv, SdTypeOK, ScandirPC, readVars
<1>5. NamesOK' /\ OffsetsOK'
  BY <1>1, <1>2 DEF SdInv, NamesOK, OffsetsOK, Visible, readVars
<1>6. ElementsOK(dents', names, sdflags)
  <2>1. ElementsOK(dents, names, sdflags)
    BY <1>1 DEF SdInv, ArrayOK
  <2> QED
    BY <1>1, <2>1, ElementsMove
<1>7. ArrayOK' /\ BuffersOK'
  BY <1>1, <1>2, <1>3, <1>6 DEF SdInv, ArrayOK, BuffersOK, readVars
<1> QED
  BY <1>3, <1>4, <1>5, <1>7

\* The walk that puts directories first.
LEMMA PutDirsOK ==
  ASSUME SdInv, PutDirsFirst
  PROVE  SdInv'
<1>1. /\ sdpc = "dirs" /\ sdpc' = "dirs" /\ UNCHANGED readVars /\ pa < pb
      /\ UNCHANGED <<sortpc, size, bits, stk, base, end, bit>>
  <2>1. pa \in Nat /\ pb \in Nat
    BY SortTypes DEF SdInv
  <2> QED
    BY <2>1 DEF PutDirsFirst
<1>2. /\ ~SortsAll(sdflags) /\ "DIRS_FIRST" \in sdflags /\ dentalloc # 0 /\ unread = {}
      /\ pa \in 1..pb /\ pb <= Len(dents) + 1 /\ sdresult = Len(names)
      /\ \A i \in 1..(pa - 1) : dents[i].type = "DIR"
      /\ \A i \in pb..Len(dents) : dents[i].type # "DIR"
      /\ sortpc = "none" /\ stk = <<>> /\ size = 0
  BY <1>1 DEF SdInv, WhatIsSorted, Complete, Active
<1>3. dents \in Seq(DentSet(dir)) /\ Len(dents) \in Nat /\ pa \in Nat /\ pb \in Nat
  BY SdFacts, SortTypes DEF SdInv
<1> DEFINE L == Len(dents)
<1>4. PICK a \in Nat, b \in Nat :
        /\ a = pa' /\ b = pb' /\ a \in {pa, pa + 1} /\ b \in {pb, pb - 1} /\ a <= b
        /\ Rearranged(dents, dents', pa, pb - 1) /\ dents' \in Seq(DentSet(dir))
        /\ a = pa + 1 => dents'[pa].type = "DIR"
        /\ b = pb - 1 => dents'[pb - 1].type # "DIR"
  <2>1. CASE dents[pa].type = "DIR" /\ pa' = pa + 1 /\ UNCHANGED <<dents, pb>>
    <3>1. pa + 1 <= pb /\ pa + 1 \in Nat /\ pb # pb - 1
      BY <1>1, <1>3
    <3> QED
      BY <1>3, <2>1, <3>1, SameRearranged
  <2>2. CASE dents[pb - 1].type # "DIR" /\ pb' = pb - 1 /\ UNCHANGED <<dents, pa>>
    <3>1. pa <= pb - 1 /\ pb - 1 \in Nat /\ pa # pa + 1
      BY <1>1, <1>3
    <3> QED
      BY <1>3, <2>2, <3>1, SameRearranged
  <2>3. CASE /\ dents[pa].type # "DIR" /\ dents[pb - 1].type = "DIR"
             /\ dents' = SwapAt(dents, pa, pb - 1)
             /\ pa' = pa + 1 /\ pb' = pb - 1
    <3>1. pa # pb - 1
      BY <2>3
    <3>2. /\ pa \in 1..L /\ pb - 1 \in 1..L /\ pa \in pa..(pb - 1) /\ pb - 1 \in pa..(pb - 1)
          /\ pa + 1 <= pb - 1 /\ pb - 1 \in Nat /\ pa + 1 \in Nat
      BY <1>1, <1>2, <1>3, <3>1
    <3>3. dents'[pa] = dents[pb - 1] /\ dents'[pb - 1] = dents[pa]
      BY <1>3, <2>3, <3>1, <3>2 DEF SwapAt
    <3>4. Rearranged(dents, dents', pa, pb - 1) /\ dents' \in Seq(DentSet(dir))
      <4>1. PICK q \in 1..L : q = pb - 1
        BY <3>2
      <4>2. Rearranged(dents, SwapAt(dents, pa, q), pa, q)
            /\ SwapAt(dents, pa, q) \in Seq(DentSet(dir))
        BY <1>3, <3>2, <4>1, SwapRearranges
      <4> QED
        BY <2>3, <4>1, <4>2
    <3> QED
      BY <2>3, <3>2, <3>3, <3>4
  <2> QED
    BY <2>1, <2>2, <2>3 DEF PutDirsFirst
<1>5. Rearranged(dents, dents', 1, L)
  <2>1. pb - 1 \in Nat /\ 1 <= pa /\ pb - 1 <= L /\ L <= Len(dents)
    BY <1>1, <1>2, <1>3
  <2> QED
    BY <1>3, <1>4, <2>1, WiderRearranged
<1>6. SdTypeOK' /\ NamesOK' /\ OffsetsOK' /\ ArrayOK' /\ BuffersOK' /\ Len(dents') = L
  <2>1. L <= Len(dents)
    BY <1>3
  <2> QED
    BY <1>1, <1>3, <1>4, <1>5, <2>1, MovingOK
<1>7. ASSUME NEW i \in 1..(a - 1) PROVE dents'[i].type = "DIR"
  <2>0. i \in Nat /\ 1 <= i /\ i < a /\ (a = pa \/ a = pa + 1)
    <3>1. a = pa \/ a = pa + 1
      BY <1>4
    <3> QED
      BY <3>1
  <2>1. CASE i = pa
    <3>1. a = pa + 1
      BY ONLY <1>3, <2>0, <2>1
    <3> QED
      BY <1>4, <2>1, <3>1
  <2>2. CASE i # pa
    <3>1. i \in 1..(pa - 1) /\ i \in 1..Len(dents) /\ i \notin pa..(pb - 1)
      BY ONLY <1>1, <1>2, <1>3, <2>0, <2>2
    <3>2. dents'[i] = dents[i]
      BY <1>4, <3>1 DEF Rearranged
    <3> QED
      BY <1>2, <3>1, <3>2
  <2> QED
    BY <2>1, <2>2
<1>8. ASSUME NEW i \in b..L PROVE dents'[i].type # "DIR"
  <2>1. CASE i = pb - 1
    <3>1. b = pb - 1
      BY <1>3, <1>4, <2>1
    <3> QED
      BY <1>4, <2>1, <3>1
  <2>2. CASE i # pb - 1
    <3>1. i \in pb..L /\ i \in 1..Len(dents) /\ i \notin pa..(pb - 1)
      BY <1>1, <1>2, <1>3, <1>4, <2>2
    <3>2. dents'[i] = dents[i]
      BY <1>4, <3>1 DEF Rearranged
    <3> QED
      BY <1>2, <3>1, <3>2
  <2> QED
    BY <2>1, <2>2
<1>9. WhatIsSorted'
  <2>1. a \in 1..b /\ b <= L + 1
    BY <1>1, <1>2, <1>3, <1>4
  <2>2. pa' \in 1..pb' /\ pb' <= Len(dents') + 1
    BY <1>4, <1>6, <2>1
  <2>3. /\ \A i \in 1..(pa' - 1) : dents'[i].type = "DIR"
        /\ \A i \in pb'..Len(dents') : dents'[i].type # "DIR"
    BY <1>4, <1>6, <1>7, <1>8
  <2> QED
    BY <1>1, <1>2, <2>2, <2>3 DEF WhatIsSorted, readVars
<1>10. SortInv'
  <2>1. EntriesOK(dents')
    BY <1>4, TypedEntries
  <2>2. SortTypeOK'
    BY <1>1, <1>4, <1>6 DEF SdInv, SortInv, SortTypeOK
  <2> QED
    BY <1>1, <1>2, <2>1, <2>2 DEF SdInv, SortInv, RadixOK, PartitionOK, MinOK, InsertOK, SortedOK
<1>11. ReaddirOrder'
  BY <1>1 DEF ReaddirOrder
<1> QED
  BY <1>6, <1>9, <1>10, <1>11 DEF SdInv

LEMMA SortDirsOK ==
  ASSUME SdInv, SortDirs
  PROVE  SdInv'
<1>1. /\ sdpc = "dirs" /\ sdpc' = "sort" /\ UNCHANGED <<readVars, dents>> /\ pb <= pa
      /\ eio_dent_sort(pa - 1, {}, InodeBits(dents))
  BY DEF SortDirs
<1>2. /\ ~SortsAll(sdflags) /\ "DIRS_FIRST" \in sdflags /\ dentalloc # 0 /\ unread = {}
      /\ pa \in 1..pb /\ pb <= Len(dents) + 1 /\ sdresult = Len(names)
      /\ \A i \in 1..(pa - 1) : dents[i].type = "DIR"
      /\ \A i \in pb..Len(dents) : dents[i].type # "DIR"
  BY <1>1 DEF SdInv, WhatIsSorted, Complete, Active
<1>3. /\ names \in Seq(NameSet(dir)) /\ \A e \in dir : IsEntry(e)
      /\ dents \in Seq(DentSet(dir)) /\ Len(dents) \in Nat /\ EntriesOK(dents)
      /\ pa \in Nat /\ pb \in Nat
  BY SdFacts, SortTypes DEF SdInv
<1>4. PICK n \in Nat : n = pa - 1 /\ n <= Len(dents) /\ pb = n + 1
  BY <1>1, <1>2, <1>3
<1>5. ElementsOK(dents, names, sdflags)
  BY <1>2 DEF SdInv, ArrayOK
<1>6. ASSUME NEW i \in 1..n, NEW j \in 1..n, NEW k \in (0..2) \ {}
      PROVE  HasBit(dents[i].score, k) <=> HasBit(dents[j].score, k)
  <2>1. i \in 1..Len(dents) /\ j \in 1..Len(dents) /\ dents[i].type = "DIR" /\ dents[j].type = "DIR"
    BY <1>2, <1>3, <1>4
  <2>2. dents[i].score = 0
    BY <1>2, <1>3, <1>5, <2>1, ElementIs
  <2>3. dents[j].score = 0
    BY <1>2, <1>3, <1>5, <2>1, ElementIs
  <2> QED
    BY <2>2, <2>3
<1>7. SortInv' /\ size' = n /\ sortpc' # "none"
  <2>1. {} \in SUBSET (0..2) /\ eio_dent_sort(n, {}, InodeBits(dents)) /\ dents' = dents
    BY <1>1, <1>4
  <2> QED
    BY <1>3, <1>4, <1>6, <2>1, SortCall
<1>8. SdTypeOK' /\ NamesOK' /\ OffsetsOK' /\ ArrayOK' /\ BuffersOK'
  BY <1>1, <1>3, <1>4, MovingOK, SameRearranged
<1>9. WhatIsSorted'
  BY <1>1, <1>2, <1>4, <1>7 DEF WhatIsSorted, readVars
<1>10. ReaddirOrder'
  BY <1>1 DEF ReaddirOrder
<1> QED
  BY <1>7, <1>8, <1>9, <1>10 DEF SdInv

LEMMA SortOK ==
  ASSUME SdInv, Sort
  PROVE  SdInv'
<1>1. sdpc = "sort" /\ SortStep /\ UNCHANGED <<sdpc, readVars>>
  BY DEF Sort
<1>2. dents \in Seq(DentSet(dir)) /\ Len(dents) \in Nat /\ size \in Nat /\ size <= Len(dents)
  BY SdFacts, SortTypes DEF SdInv
<1>3. /\ SortInv' /\ dents' \in Seq(DentSet(dir)) /\ Rearranged(dents, dents', 1, size)
      /\ size' = size /\ sortpc' # "none"
  BY <1>1, <1>2, SortStepOK DEF SdInv
<1>4. SdTypeOK' /\ NamesOK' /\ OffsetsOK' /\ ArrayOK' /\ BuffersOK' /\ Len(dents') = Len(dents)
  BY <1>1, <1>2, <1>3, MovingOK
<1>5. WhatIsSorted'
  <2>1. CASE SortsAll(sdflags) /\ size = Len(dents)
    BY <1>1, <1>3, <1>4, <2>1 DEF SdInv, WhatIsSorted, readVars, Complete, Active
  <2>2. CASE /\ ~SortsAll(sdflags) /\ "DIRS_FIRST" \in sdflags
             /\ \A i \in 1..size : dents[i].type = "DIR"
             /\ \A i \in (size + 1)..Len(dents) : dents[i].type # "DIR"
    <3>1. ASSUME NEW i \in 1..size PROVE dents'[i].type = "DIR"
      <4>1. PICK j \in 1..size : dents'[i] = dents[j]
        BY <1>3 DEF Rearranged
      <4> QED
        BY <2>2, <4>1
    <3>2. ASSUME NEW i \in (size + 1)..Len(dents) PROVE dents'[i].type # "DIR"
      <4>1. i \in 1..Len(dents) /\ i \notin 1..size
        BY <1>2
      <4> QED
        BY <1>3, <2>2, <4>1 DEF Rearranged
    <3> QED
      BY <1>1, <1>3, <1>4, <2>2, <3>1, <3>2 DEF SdInv, WhatIsSorted, readVars, Complete, Active
  <2> QED
    BY <1>1, <2>1, <2>2 DEF SdInv, WhatIsSorted
<1>6. ReaddirOrder'
  BY <1>1 DEF ReaddirOrder
<1> QED
  BY <1>3, <1>4, <1>5, <1>6 DEF SdInv

\* The order that eio_dent_cmp gives, in terms of scores and inodes.
LEMMA CmpIs ==
  ASSUME NEW a, NEW b, a.score \in Nat, b.score \in Nat, a.inode \in Nat, b.inode \in Nat,
         eio_dent_cmp(a, b) <= 0
  PROVE  a.score < b.score \/ (a.score = b.score /\ a.inode <= b.inode)
BY DEF eio_dent_cmp

\* eio_dent_sort has returned: the entries are in the order asked for.
LEMMA SortReturnsOK ==
  ASSUME SdInv, SortReturns
  PROVE  SdInv'
<1>1. /\ sdpc = "sort" /\ sortpc = "sorted" /\ sdpc' = "done" /\ UNCHANGED <<readVars, dents>>
      /\ sortpc' = "none" /\ size' = 0 /\ bits' = {} /\ stk' = <<>>
      /\ base' = 1 /\ end' = 1 /\ bit' = -1 /\ pa' = 1 /\ pb' = 1
  BY DEF SortReturns, SortReset
<1>2. /\ names \in Seq(NameSet(dir)) /\ \A e \in dir : IsEntry(e)
      /\ dents \in Seq(DentSet(dir)) /\ Len(dents) \in Nat /\ EntriesOK(dents)
      /\ size \in Nat /\ size <= Len(dents) /\ Len(names) \in Nat
  BY SdFacts, SortTypes DEF SdInv
<1>3. dentalloc # 0 /\ unread = {} /\ sdresult = Len(names) /\ ElementsOK(dents, names, sdflags)
  BY <1>1 DEF SdInv, WhatIsSorted, ArrayOK, Complete, Active
<1>4. ASSUME NEW i \in 1..Len(dents)
      PROVE  /\ dents[i].score \in Nat /\ dents[i].inode \in Nat
             /\ "DIRS_FIRST" \notin sdflags => dents[i].score = 7
             /\ "DIRS_FIRST" \in sdflags => (dents[i].score = 0 <=> dents[i].type = "DIR")
  <2>1. /\ dents[i].score \in 0..7 /\ dents[i].inode \in Nat
        /\ "DIRS_FIRST" \notin sdflags => dents[i].score = 7
        /\ "DIRS_FIRST" \in sdflags => (dents[i].score = 0 <=> dents[i].type = "DIR")
    BY ONLY <1>2, <1>3, <1>4, ElementIs
  <2> QED
    BY <2>1
<1>5. ASSUME NEW i \in 1..size, NEW j \in 1..size, i < j
      PROVE  \/ dents[i].score < dents[j].score
             \/ dents[i].score = dents[j].score /\ dents[i].inode <= dents[j].inode
  <2>1. i \in 1..Len(dents) /\ j \in 1..Len(dents) /\ i <= j
    BY <1>2, <1>5
  <2>2. eio_dent_cmp(dents[i], dents[j]) <= 0
    BY <1>1, <2>1 DEF SdInv, SortInv, SortedOK, NotAbove
  <2> QED
    BY <1>4, <2>1, <2>2, CmpIs
<1>6. SdTypeOK' /\ NamesOK' /\ OffsetsOK' /\ ArrayOK' /\ BuffersOK'
  <2>1. 0 \in Nat /\ 0 <= Len(dents) /\ dents' \in Seq(DentSet(dir))
        /\ Rearranged(dents, dents', 1, 0)
    BY <1>1, <1>2, SameRearranged
  <2> QED
    BY <1>1, <2>1, MovingOK
<1>7. WhatIsSorted'
  BY <1>1, <1>3 DEF WhatIsSorted, readVars
<1>8. SortInv'
  <2>1. SortTypeOK'
    <3>1. <<>> \in Seq(Partitions) /\ 0 \in Nat /\ 1 \in Nat /\ -1 \in Int /\ 0 <= Len(dents)
      BY <1>2
    <3> QED
      BY <1>1, <3>1 DEF SortTypeOK, SortPC
  <2>2. EntriesOK(dents') /\ Len(stk') <= TopOfAll
    <3>1. Len(<<>>) = 0 /\ TopOfAll \in Nat
      BY SortAssumption DEF TopOfAll
    <3> QED
      BY <1>1, <1>2, <3>1
  <2> QED
    BY <1>1, <2>1, <2>2 DEF SortInv, RadixOK, PartitionOK, MinOK, InsertOK, SortedOK
<1>9. ASSUME NEW i \in 1..Len(dents), NEW j \in 1..Len(dents), i < j
      PROVE  /\ sdflags \cap {"DIRS_FIRST", "STAT_ORDER"} = {"STAT_ORDER"}
                  => dents[i].inode <= dents[j].inode
             /\ "DIRS_FIRST" \in sdflags =>
                  /\ dents[j].type = "DIR" =>
                        dents[i].type = "DIR" /\ dents[i].inode <= dents[j].inode
                  /\ sdflags \cap {"STAT_ORDER", "FOUND_UNKNOWN"} # {} =>
                        \/ dents[i].score < dents[j].score
                        \/ dents[i].score = dents[j].score /\ dents[i].inode <= dents[j].inode
  <2>1. CASE SortsAll(sdflags) /\ size = Len(dents)
    <3>1. \/ dents[i].score < dents[j].score
          \/ dents[i].score = dents[j].score /\ dents[i].inode <= dents[j].inode
      BY <1>5, <1>9, <2>1
    <3>2. CASE "DIRS_FIRST" \notin sdflags
      <4>1. dents[i].score = 7 /\ dents[j].score = 7
        BY <1>4, <3>2
      <4>2. dents[i].inode <= dents[j].inode
        BY <3>1, <4>1
      <4> QED
        BY <3>2, <4>2
    <3>3. CASE "DIRS_FIRST" \in sdflags
      <4>1. ASSUME dents[j].type = "DIR"
            PROVE  dents[i].type = "DIR" /\ dents[i].inode <= dents[j].inode
        <5>1. dents[j].score = 0 /\ dents[i].score \in Nat
          BY <1>4, <3>3, <4>1
        <5>2. dents[i].score = 0 /\ dents[i].inode <= dents[j].inode
          BY <3>1, <5>1
        <5> QED
          BY <1>4, <3>3, <5>2
      <4>2. sdflags \cap {"DIRS_FIRST", "STAT_ORDER"} # {"STAT_ORDER"}
        BY <3>3
      <4> QED
        BY <3>1, <4>1, <4>2
    <3> QED
      BY <3>2, <3>3
  <2>2. CASE /\ ~SortsAll(sdflags) /\ "DIRS_FIRST" \in sdflags
             /\ \A k \in 1..size : dents[k].type = "DIR"
             /\ \A k \in (size + 1)..Len(dents) : dents[k].type # "DIR"
    <3>1. /\ sdflags \cap {"DIRS_FIRST", "STAT_ORDER"} # {"STAT_ORDER"}
          /\ sdflags \cap {"STAT_ORDER", "FOUND_UNKNOWN"} = {}
      BY <2>2 DEF SortsAll
    <3>2. ASSUME dents[j].type = "DIR"
          PROVE  dents[i].type = "DIR" /\ dents[i].inode <= dents[j].inode
      <4>1. j \notin (size + 1)..Len(dents)
        BY <2>2, <3>2
      <4>2. i \in 1..size /\ j \in 1..size
        BY <1>2, <1>9, <4>1
      <4>3. dents[i].type = "DIR" /\ dents[i].score = 0 /\ dents[j].score = 0
        BY <1>4, <2>2, <3>2, <4>2
      <4>4. dents[i].inode <= dents[j].inode
        BY <1>5, <1>9, <4>2, <4>3
      <4> QED
        BY <4>3, <4>4
    <3> QED
      BY <3>1, <3>2
  <2> QED
    BY <1>1, <2>1, <2>2 DEF SdInv, WhatIsSorted
<1>10. ReaddirOrder'
  BY <1>1, <1>9 DEF ReaddirOrder, readVars
<1> QED
  BY <1>6, <1>7, <1>8, <1>10 DEF SdInv

LEMMA SdInitOK == SdInit => SdInv
<1> SUFFICES ASSUME SdInit PROVE SdInv
  OBVIOUS
<1>1. /\ sdpc = "idle" /\ dir = {} /\ sdflags = {} /\ unread = {} /\ entp = {}
      /\ names = <<>> /\ namesoffs = 0 /\ namesalloc = 0 /\ dents = <<>> /\ dentalloc = 0
      /\ sdresult = 0 /\ sortpc = "none" /\ size = 0 /\ bits = {} /\ stk = <<>>
      /\ base = 1 /\ end = 1 /\ bit = -1 /\ pa = 1 /\ pb = 1
  BY DEF SdInit, SortInit
<1>2. <<>> \in Seq(DentSet(dir)) /\ <<>> \in Seq(NameSet(dir)) /\ <<>> \in Seq(Partitions)
      /\ Len(<<>>) = 0 /\ 1..Len(<<>>) = {}
  OBVIOUS
<1>3. SdTypeOK
  BY <1>1, <1>2 DEF SdTypeOK, ScandirPC, Flags
<1>4. ~Complete
  BY <1>1 DEF Complete, Active
<1>5. NamesOK /\ OffsetsOK /\ ArrayOK /\ BuffersOK
  BY <1>1, <1>2, <1>4 DEF NamesOK, OffsetsOK, ArrayOK, BuffersOK
<1>6. WhatIsSorted
  BY <1>1, <1>4 DEF WhatIsSorted
<1>7. SortInv
  <2>1. SortTypeOK
    BY <1>1, <1>2 DEF SortTypeOK, SortPC
  <2>2. EntriesOK(dents)
    BY <1>1, <1>2 DEF EntriesOK
  <2> QED
    BY <1>1, <2>1, <2>2, SortIdle
<1>8. ReaddirOrder
  BY <1>1 DEF ReaddirOrder
<1> QED
  BY <1>3, <1>5, <1>6, <1>7, <1>8 DEF SdInv

LEMMA SdEndOK ==
  ASSUME SdInv, SdEnd
  PROVE  SdInv'
<1>1. SdInit'
  BY DEF SdEnd, SdInit, SortReset, SortInit
<1>2. SdInit' => SdInv'
  BY SdInitOK, PTL
<1> QED
  BY <1>1, <1>2

\* A step of the worker, of the thread that cancels, or of neither.
SdNext == ScandirOpen \/ SdStep \/ SdCancel \/ SdEnd

LEMMA SdNextOK ==
  ASSUME SdInv, [SdNext]_sdVars
  PROVE  SdInv'
<1>0. namesalloc \in Nat /\ namesalloc <= namesalloc /\ 2 * namesalloc \in Nat
      /\ namesalloc <= 2 * namesalloc
  <2>1. namesalloc \in Nat
    BY SdFacts
  <2> QED
    BY <2>1
<1>1. CASE ScandirOpen
  BY <1>1, OpenOK
<1>2. CASE Readdir
  <2>1. sdpc = "read" /\ UNCHANGED <<dir, names, namesoffs, namesalloc, dentalloc, cancelled>>
    BY <1>2 DEF Readdir
  <2>2. CASE ReaddirEnds
    BY <2>1, <2>2, ReaddirEndsOK
  <2>3. CASE ReaddirFails
    <3>1. entp = {}
      BY <2>1 DEF SdInv, NamesOK
    <3>2. /\ sdpc \in {"read", "grow", "cancel"}
          /\ sdpc' \in {"read", "grow", "cancel", "done", "segv"}
          /\ namesalloc' \in Nat /\ namesalloc <= namesalloc'
          /\ UNCHANGED <<dir, sdflags, unread, entp, names, namesoffs, dents, dentalloc, sdresult,
                         sortVars>>
      BY <1>0, <2>1, <2>3 DEF ReaddirFails
    <3> QED
      BY <3>1, <3>2, QuietOK
  <2>4. CASE ReaddirEntry
    BY <2>1, <2>4, ReaddirEntryOK
  <2> QED
    BY <1>2, <2>2, <2>3, <2>4 DEF Readdir
<1>3. CASE GrowNames
  <2>1. /\ sdpc \in {"read", "grow", "cancel"}
        /\ sdpc' \in {"read", "grow", "cancel", "done", "segv"}
        /\ sdpc' \in {"grow", "segv"}
        /\ namesalloc' \in Nat /\ namesalloc <= namesalloc'
        /\ UNCHANGED <<dir, sdflags, unread, entp, names, namesoffs, dents, dentalloc, sdresult,
                       sortVars>>
    BY <1>0, <1>3 DEF GrowNames
  <2> QED
    BY <2>1, QuietOK
<1>4. CASE AddEntry
  BY <1>4, AddEntryOK
<1>5. CASE DentsLost
  BY <1>5, DentsLostOK
<1>6. CASE TestCancelled
  <2>1. entp = {}
    BY <1>6 DEF SdInv, NamesOK, TestCancelled
  <2>2. /\ sdpc \in {"read", "grow", "cancel"}
        /\ sdpc' \in {"read", "grow", "cancel", "done", "segv"}
        /\ namesalloc' \in Nat /\ namesalloc <= namesalloc'
        /\ UNCHANGED <<dir, sdflags, unread, entp, names, namesoffs, dents, dentalloc, sdresult,
                       sortVars>>
    BY <1>0, <1>6 DEF TestCancelled, readVars
  <2> QED
    BY <2>1, <2>2, QuietOK
<1>7. CASE PutDirsFirst
  BY <1>7, PutDirsOK
<1>8. CASE SortDirs
  BY <1>8, SortDirsOK
<1>9. CASE Sort
  BY <1>9, SortOK
<1>10. CASE SortReturns
  BY <1>10, SortReturnsOK
<1>11. CASE SdCancel
  <2>1. entp = {} \/ sdpc' \in {"grow", "segv"}
    BY <1>11 DEF SdInv, NamesOK, SdCancel
  <2>2. /\ sdpc \in {"read", "grow", "cancel"}
        /\ sdpc' \in {"read", "grow", "cancel", "done", "segv"}
        /\ namesalloc' \in Nat /\ namesalloc <= namesalloc'
        /\ UNCHANGED <<dir, sdflags, unread, entp, names, namesoffs, dents, dentalloc, sdresult,
                       sortVars>>
    BY <1>0, <1>11 DEF SdCancel
  <2> QED
    BY <2>1, <2>2, QuietOK
<1>12. CASE SdEnd
  BY <1>12, SdEndOK
<1>13. CASE UNCHANGED sdVars
  <2>1. /\ UNCHANGED <<sdpc, dir, sdflags, unread, entp, names, namesoffs, namesalloc, dentalloc,
                       dirp, sdresult, cancelled, dents, sortVars>>
    BY <1>13 DEF sdVars, readVars
  <2>2. SortInv'
    BY <2>1, SortSame DEF SdInv
  <2>3. /\ SdTypeOK' /\ NamesOK' /\ OffsetsOK' /\ ArrayOK' /\ BuffersOK' /\ ReaddirOrder'
    BY <2>1 DEF SdInv, SdTypeOK, NamesOK, OffsetsOK, ArrayOK, BuffersOK, ReaddirOrder, Visible,
                Complete, Active
  <2>4. WhatIsSorted'
    BY <2>1 DEF SdInv, WhatIsSorted, Complete, Active, sortVars
  <2> QED
    BY <2>2, <2>3, <2>4 DEF SdInv
<1> QED
  BY <1>1, <1>2, <1>3, <1>4, <1>5, <1>6, <1>7, <1>8, <1>9, <1>10, <1>11, <1>12, <1>13
  DEF SdNext, SdStep

\* Only a failing realloc of the buffer of names leads to the null pointer.
LEMMA NoNullCopy ==
  ASSUME ~NamesMayFail, sdpc # "segv", [SdNext]_sdVars
  PROVE  sdpc' # "segv"
<1>1. CASE ScandirOpen
  BY <1>1 DEF ScandirOpen, OpenFails, OpenAllocates
<1>2. CASE Readdir
  BY <1>2 DEF Readdir, ReaddirEnds, Order, ReaddirFails, ReaddirEntry
<1>3. CASE GrowNames
  <2>1. PICK nomem \in {FALSE, NamesMayFail} : sdpc' = IF nomem THEN "segv" ELSE "grow"
    BY <1>3 DEF GrowNames
  <2>2. ~nomem
    BY <2>1
  <2> QED
    BY <2>1, <2>2
<1>4. CASE AddEntry \/ DentsLost \/ TestCancelled
  BY <1>4 DEF AddEntry, DentsLost, TestCancelled
<1>5. CASE PutDirsFirst \/ SortDirs \/ Sort \/ SortReturns \/ SdCancel \/ SdEnd
  BY <1>5 DEF PutDirsFirst, SortDirs, Sort, SortReturns, SdCancel, SdEnd
<1>6. CASE UNCHANGED sdVars
  BY <1>6 DEF sdVars
<1> QED
  BY <1>1, <1>2, <1>3, <1>4, <1>5, <1>6 DEF SdNext, SdStep

-----------------------------------------------------------------------------
(* What the invariant says. *)

LEMMA InBounds ==
  ASSUME SdInv, sdpc # "segv"
  PROVE  ScandirInBounds
<1>1. /\ Len(dents) \in Nat /\ size \in Nat /\ size <= Len(dents) /\ stk \in Seq(Partitions)
      /\ pa \in Nat /\ pb \in Nat /\ base \in Nat /\ end \in Nat
  BY SdFacts, SortTypes DEF SdInv
<1>2. namesoffs <= namesalloc /\ Len(dents) <= dentalloc
  BY SdFacts
<1>3. \A i \in 1..Len(names) :
        names[i].ofs + names[i].ent.len + 1
          = IF i = Len(names) THEN namesoffs ELSE names[i + 1].ofs
  BY DEF SdInv, OffsetsOK
<1>4. Len(stk) < 9 + INO_BITS
  <2>1. Len(stk) <= TopOfAll /\ Len(stk) \in Nat /\ INO_BITS \in Nat
    BY <1>1, SortAssumption DEF SdInv, SortInv
  <2> QED
    BY <2>1 DEF TopOfAll
<1>5. ASSUME sdpc = "dirs" \/ sortpc = "part" PROVE pa \in 1..pb /\ pb <= Len(dents) + 1
  <2>1. CASE sdpc = "dirs"
    BY <2>1 DEF SdInv, WhatIsSorted
  <2>2. CASE sortpc = "part"
    <3>1. size > EIO_SORT_FAST /\ base <= pa /\ pa <= pb /\ pb <= end
      BY <2>2 DEF SdInv, SortInv, PartitionOK
    <3>2. SegmentOK(dents, size, bits, AtWork)
      BY <2>2, <3>1 DEF SdInv, SortInv, RadixOK
    <3>3. 1 <= base /\ end <= size + 1
      BY <3>2 DEF SegmentOK, AtWork
    <3> QED
      BY <1>1, <3>1, <3>3
  <2> QED
    BY <1>5, <2>1, <2>2
<1>6. ASSUME sortpc = "min" PROVE pa \in 1..Len(dents) /\ pb \in 1..Len(dents)
  <2>1. pa \in 1..size /\ pb \in 1..size
    BY <1>6 DEF SdInv, SortInv, MinOK
  <2> QED
    BY <1>1, <2>1
<1>7. sortpc # "overrun"
  BY DEF SdInv, SortInv
<1> QED
  BY <1>2, <1>3, <1>4, <1>5, <1>6, <1>7 DEF ScandirInBounds

\* The string at the offset of a name is that name.
LEMMA NameAtIs ==
  ASSUME SdInv, NEW k \in 1..Len(names)
  PROVE  NameAt(names[k].ofs) = names[k].ent.name
<1>1. names \in Seq(NameSet(dir)) /\ Len(names) \in Nat
  BY SdFacts
<1>2. \A i \in 1..Len(names) : names[i].ofs \in Nat
  <2>1. \A i \in 1..Len(names) : names[i] \in NameSet(dir)
    BY <1>1
  <2> QED
    BY <2>1 DEF NameSet
<1>3. \A i, j \in 1..Len(names) : i < j => names[i].ofs < names[j].ofs
  BY DEF SdInv, OffsetsOK
<1>4. ASSUME NEW i \in 1..Len(names), names[i].ofs = names[k].ofs PROVE i = k
  <2>1. ~(i < k) /\ ~(k < i)
    BY <1>2, <1>3, <1>4
  <2> QED
    BY <1>1, <2>1
<1> DEFINE c == CHOOSE i \in 1..Len(names) : names[i].ofs = names[k].ofs
<1>5. c \in 1..Len(names) /\ names[c].ofs = names[k].ofs
  OBVIOUS
<1>6. c = k
  <2> HIDE DEF c
  <2> QED
    BY <1>4, <1>5
<1> QED
  BY <1>6 DEF NameAt

\* The names of the buffer are the visible entries, each once.
LEMMA NamesCount ==
  ASSUME SdInv, sdpc = "done", sdresult >= 0
  PROVE  /\ sdresult = Len(names) /\ sdresult = Cardinality(Visible)
         /\ \A i \in 1..Len(names) : names[i].ent \in Visible
         /\ \A e \in Visible : \E i \in 1..Len(names) : names[i].ent = e
<1>1. Complete /\ Len(names) \in Nat
  BY SdFacts DEF Complete
<1>2. sdresult = Len(names) /\ unread = {} /\ entp = {}
  BY <1>1 DEF SdInv, WhatIsSorted, NamesOK
<1>3. /\ \A i \in 1..Len(names) : names[i].ent \in Visible
      /\ \A i, j \in 1..Len(names) : names[i].ent = names[j].ent => i = j
      /\ \A e \in Visible : \E i \in 1..Len(names) : names[i].ent = e
  BY <1>1, <1>2 DEF SdInv, NamesOK
<1>4. Cardinality(Visible) = Len(names)
  <2> DEFINE f == [i \in 1..Len(names) |-> names[i].ent]
             I == 1..Len(names)
  <2>1. f \in [I -> Visible] /\ DOMAIN f = I /\ \A i \in I : f[i] = names[i].ent
    BY <1>3
  <2> HIDE DEF f
  <2>2. f \in Bijection(I, Visible)
    BY <1>3, <2>1 DEF Bijection, Injection, Surjection, IsInjective
  <2>3. ExistsBijection(I, Visible)
    BY <2>2 DEF ExistsBijection
  <2>4. IsFiniteSet(I) /\ Cardinality(I) = Len(names)
    <3>1. 1 \in Int /\ Len(names) \in Int
      BY <1>1
    <3>2. IsFiniteSet(1..Len(names)) /\ Cardinality(1..Len(names))
            = IF 1 > Len(names) THEN 0 ELSE Len(names) - 1 + 1
      BY ONLY <3>1, FS_Interval
    <3> QED
      BY <1>1, <3>2
  <2> HIDE DEF I
  <2> QED
    BY <2>3, <2>4, FS_Bijection
<1> QED
  BY <1>2, <1>3, <1>4

\* Every entry is delivered once, with its own name, type and inode.
LEMMA Exact ==
  ASSUME SdInv
  PROVE  ReaddirExact
<1> SUFFICES ASSUME sdpc = "done", sdresult >= 0
             PROVE  /\ sdresult = Cardinality(Visible)
                    /\ {ResultNames[i] : i \in 1..sdresult} = {e.name : e \in Visible}
                    /\ HasDents =>
                         \A i \in 1..sdresult : \E e \in Visible :
                            /\ php_eio_set_readdir_dent_and_names[i]
                                 = [name |-> e.name, type |-> e.type, inode |-> e.inode]
                            /\ dents[i].namelen = e.len
  BY DEF ReaddirExact
<1>1. /\ sdresult = Len(names) /\ sdresult = Cardinality(Visible)
      /\ \A i \in 1..Len(names) : names[i].ent \in Visible
      /\ \A e \in Visible : \E i \in 1..Len(names) : names[i].ent = e
  BY NamesCount
<1>2. CASE ~HasDents
  <2>1. \A i \in 1..sdresult : ResultNames[i] = names[i].ent.name
    BY <1>2 DEF ResultNames, php_eio_set_readdir_names
  <2>2. ASSUME NEW i \in 1..sdresult PROVE ResultNames[i] \in {e.name : e \in Visible}
    BY <1>1, <2>1
  <2>3. ASSUME NEW e \in Visible PROVE \E i \in 1..sdresult : ResultNames[i] = e.name
    BY <1>1, <2>1
  <2> QED
    BY <1>1, <1>2, <2>2, <2>3
<1>3. CASE HasDents
  <2> DEFINE P == php_eio_set_readdir_dent_and_names
  <2>1. ElementsOK(dents, names, sdflags)
    <3>1. Complete /\ sdflags # {}
      BY <1>3 DEF Complete, HasDents
    <3> QED
      BY <3>1 DEF SdInv, ArrayOK
  <2>2. Len(dents) = sdresult
    BY <1>1, <2>1 DEF ElementsOK
  <2>3. \A i \in 1..sdresult :
          P[i] = [name |-> NameAt(dents[i].nameofs), type |-> dents[i].type,
                  inode |-> dents[i].inode]
    BY DEF php_eio_set_readdir_dent_and_names
  <2> HIDE DEF P
  <2>4. ASSUME NEW i \in 1..sdresult, NEW k \in 1..Len(names),
               dents[i] = DentOf(names[k], sdflags)
        PROVE  /\ P[i] = [name |-> names[k].ent.name, type |-> names[k].ent.type,
                          inode |-> names[k].ent.inode]
               /\ dents[i].namelen = names[k].ent.len /\ P[i].name = names[k].ent.name
    <3>1. /\ dents[i].nameofs = names[k].ofs /\ dents[i].type = names[k].ent.type
          /\ dents[i].inode = names[k].ent.inode /\ dents[i].namelen = names[k].ent.len
      BY <2>4 DEF DentOf
    <3>2. NameAt(dents[i].nameofs) = names[k].ent.name
      BY <3>1, NameAtIs
    <3> QED
      BY <2>3, <3>1, <3>2
  <2>5. \A i \in 1..sdresult : \E k \in 1..Len(names) : dents[i] = DentOf(names[k], sdflags)
    BY <2>1, <2>2 DEF ElementsOK
  <2>6. \A k \in 1..Len(names) : \E i \in 1..sdresult : dents[i] = DentOf(names[k], sdflags)
    BY <2>1, <2>2 DEF ElementsOK
  <2>7. \A i \in 1..sdresult : ResultNames[i] = P[i].name
    BY <1>3 DEF ResultNames, P
  <2>8. ASSUME NEW i \in 1..sdresult PROVE ResultNames[i] \in {e.name : e \in Visible}
    <3>1. PICK k \in 1..Len(names) : dents[i] = DentOf(names[k], sdflags)
      BY <2>5
    <3>2. ResultNames[i] = names[k].ent.name /\ names[k].ent \in Visible
      BY <1>1, <2>4, <2>7, <3>1
    <3> QED
      BY <3>2
  <2>9. ASSUME NEW e \in Visible PROVE \E i \in 1..sdresult : ResultNames[i] = e.name
    <3>1. PICK k \in 1..Len(names) : names[k].ent = e
      BY <1>1
    <3>2. PICK i \in 1..sdresult : dents[i] = DentOf(names[k], sdflags)
      BY <2>6
    <3> QED
      BY <2>4, <2>7, <3>1, <3>2
  <2>10. ASSUME NEW i \in 1..sdresult
         PROVE  \E e \in Visible :
                   /\ P[i] = [name |-> e.name, type |-> e.type, inode |-> e.inode]
                   /\ dents[i].namelen = e.len
    <3>1. PICK k \in 1..Len(names) : dents[i] = DentOf(names[k], sdflags)
      BY <2>5
    <3>2. names[k].ent \in Visible
      BY <1>1
    <3> QED
      BY <2>4, <3>1, <3>2
  <2>11. {ResultNames[i] : i \in 1..sdresult} = {e.name : e \in Visible}
    BY <2>8, <2>9
  <2> QED
    BY <1>1, <2>10, <2>11 DEF P
<1> QED
  BY <1>2, <1>3
=============================================================================
