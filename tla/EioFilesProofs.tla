-------------------------- MODULE EioFilesProofs ----------------------------
(***************************************************************************)
(* Proofs about the three large functions of the worker: eio__sendfile,    *)
(* for files, ranges, buffers and limits of one call of any size,          *)
(* eio__realpath, for every file system and path, and, from                *)
(* EioScandirProofs, eio__scandir.                                         *)
(***************************************************************************)
EXTENDS EioFiles, RealpathPosix, EioScandirProofs

\* The steps of eio__sendfile.
SfNext == SfStart \/ SfStep \/ SfEnd

-----------------------------------------------------------------------------
(* The inductive invariant of eio__sendfile. *)

SfTypeOK ==
    /\ sfpc \in SendfilePC
    /\ sfargs \in [offset : Nat, count : Nat]
    /\ offset \in Nat /\ count \in Nat /\ written \in Nat /\ res \in Int /\ cnt \in Nat
    /\ out \in Seq(Nat) /\ lazy \in BOOLEAN

\* The output so far is the file from the offset on.
OutOK == \A i \in 1..Len(out) : out[i] = sfargs.offset + i

\* What the arguments are worth once Len(out) bytes are sent: in the loop they
\* describe the rest of the range, which is not empty, and nothing behind the
\* end of the file was sent.
RestOK ==
    sfpc \in {"send", "pread", "write"} =>
       /\ offset = sfargs.offset + Len(out)
       /\ count > 0 /\ sfargs.count = count + Len(out)
       /\ Len(out) > 0 => offset <= FileLen

\* Where each loop counts what it has sent.
CountOK ==
    /\ sfpc = "idle" => out = <<>> /\ written = 0 /\ res = 0 /\ lazy = FALSE
    /\ sfpc = "send" => written = Len(out)
    /\ sfpc \in {"pread", "write"} => res = Len(out) /\ lazy
    /\ sfpc = "write" => cnt <= count /\ cnt <= Avail

SfInv == SfTypeOK /\ OutOK /\ RestOK /\ CountOK /\ SendfileExact /\ SendfileWhole

-----------------------------------------------------------------------------
(* Steps. *)

\* Least is the smaller of two numbers.
LEMMA LeastIs ==
  ASSUME NEW a \in Nat, NEW b \in Nat
  PROVE  Least(a, b) \in Nat /\ Least(a, b) <= a /\ Least(a, b) <= b /\ Least(a, b) \in {a, b}
BY DEF Least

\* What the file has from o on ends where the file ends.
LEMMA BehindIs ==
  ASSUME NEW o \in Nat
  PROVE  /\ Behind(o) \in Nat
         /\ o <= FileLen => o + Behind(o) = FileLen
         /\ o >= FileLen => Behind(o) = 0
BY SendfileAssumption DEF Behind

\* What is left of the file.
LEMMA AvailIs ==
  ASSUME SfTypeOK
  PROVE  Avail \in Nat /\ (Avail > 0 => offset + Avail = FileLen)
BY SendfileAssumption DEF SfTypeOK, Avail, Behind

\* The bytes that go out in a step are the next ones.
LEMMA SentNext ==
  ASSUME SfTypeOK, OutOK, sfargs' = sfargs, offset = sfargs.offset + Len(out),
         NEW n \in Nat, Sent(n)
  PROVE  out' \in Seq(Nat) /\ Len(out') = Len(out) + n /\ OutOK'
<1> DEFINE s == [i \in 1..n |-> offset + i]
<1>1. s \in Seq(Nat) /\ Len(s) = n /\ \A i \in 1..n : s[i] = offset + i
  BY DEF SfTypeOK
<1>2. out \in Seq(Nat) /\ out' = out \o s /\ Len(out) \in Nat /\ sfargs.offset \in Nat
  BY DEF Sent, SfTypeOK
<1> HIDE DEF s
<1>3. /\ out' \in Seq(Nat) /\ Len(out') = Len(out) + n
      /\ \A i \in 1..Len(out') : out'[i] = IF i <= Len(out) THEN out[i] ELSE s[i - Len(out)]
  BY <1>1, <1>2
<1>4. OutOK'
  <2> SUFFICES ASSUME NEW i \in 1..Len(out') PROVE out'[i] = sfargs.offset + i
    BY DEF OutOK
  <2>1. CASE i <= Len(out)
    BY <1>2, <2>1 DEF OutOK
  <2>2. CASE i > Len(out)
    <3>1. i - Len(out) \in 1..n /\ i \in Nat
      BY <1>3, <2>2
    <3>2. out'[i] = offset + (i - Len(out))
      BY <1>1, <1>2, <2>2
    <3>3. QED
      BY <1>2, <3>1, <3>2
  <2>3. QED
    BY <2>1, <2>2
<1>5. QED
  BY <1>3, <1>4

\* A call begins with the whole range before it.
LEMMA StartStep ==
  ASSUME SfInv, SfStart
  PROVE  SfInv'
<1>1. PICK o \in Offsets, c \in Counts :
         /\ sfpc = "idle" /\ sfargs' = [offset |-> o, count |-> c]
         /\ offset' = o /\ count' = c /\ sfpc' = IF c = 0 THEN "done" ELSE "send"
         /\ UNCHANGED <<written, res, cnt, out, lazy>>
  BY DEF SfStart
<1>2. o \in Nat /\ c \in Nat /\ sfargs'.offset = o /\ sfargs'.count = c
  BY <1>1, SendfileAssumption
<1>3. SfTypeOK /\ out = <<>> /\ written = 0 /\ res = 0 /\ Len(out) = 0
  BY <1>1 DEF SfInv, CountOK
<1>4. SfTypeOK'
  BY <1>1, <1>2, <1>3 DEF SfTypeOK, SendfilePC
<1>5. OutOK' /\ RestOK' /\ CountOK' /\ SendfileExact'
  BY <1>1, <1>2, <1>3 DEF OutOK, RestOK, CountOK, SendfileExact
<1>6. SendfileWhole'
  <2>1. Behind(o) \in Nat
    BY <1>2, BehindIs
  <2>2. QED
    BY <1>1, <1>3, <2>1 DEF SendfileWhole, Least
<1>7. QED
  BY <1>4, <1>5, <1>6 DEF SfInv

\* What one call of sendfile copies at most.
LEMMA FullIs ==
  ASSUME SfTypeOK
  PROVE  LET full == Least(Least(count, Avail), KernelMax)
         IN  /\ full \in Nat /\ full <= count /\ full <= Avail
             /\ full \in {count, Avail, KernelMax}
<1> DEFINE part == Least(count, Avail)
           full == Least(part, KernelMax)
<1>1. count \in Nat /\ Avail \in Nat /\ KernelMax \in Nat
  BY AvailIs, SendfileAssumption DEF SfTypeOK
<1>2. part \in Nat /\ part <= count /\ part <= Avail /\ part \in {count, Avail}
  BY <1>1, LeastIs
<1>3. full \in Nat /\ full <= part /\ full \in {part, KernelMax}
  BY <1>1, LeastIs
<1>4. full <= count /\ full <= Avail /\ full \in {count, Avail, KernelMax}
  <2> HIDE DEF full, part
  <2>1. QED
    BY <1>1, <1>2, <1>3
<1>5. QED
  BY <1>3, <1>4

\* sendfile copies n bytes: a full call that is the last one has come to the
\* end of the range or of the file.
LEMMA SendfileCopiesStep ==
  ASSUME SfInv, sfpc = "send", sfargs' = sfargs, cnt' = cnt,
         NEW n \in Nat, n <= count, n <= Avail, SendfileCopies(n),
         lazy' \in BOOLEAN, lazy' = FALSE => n \in {count, Avail, KernelMax}
  PROVE  SfInv'
<1>0. /\ SfTypeOK /\ OutOK /\ offset = sfargs.offset + Len(out) /\ count > 0
      /\ sfargs.count = count + Len(out) /\ (Len(out) > 0 => offset <= FileLen)
      /\ written = Len(out)
  BY DEF SfInv, RestOK, CountOK
<1> DEFINE L == Len(out)
           L2 == Len(out')
           o == sfargs.offset
           c == sfargs.count
           B == Behind(sfargs.offset)
<1>1. /\ Avail \in Nat /\ (Avail > 0 => offset + Avail = FileLen) /\ count \in Nat
      /\ L \in Nat /\ offset \in Nat /\ o \in Nat /\ c \in Nat /\ FileLen \in Nat
      /\ SENDFILE_MIN \in Nat /\ KernelMax \in Nat /\ SENDFILE_MIN < KernelMax
  BY <1>0, AvailIs, SendfileAssumption DEF SfTypeOK
<1>2. out' \in Seq(Nat) /\ L2 = L + n /\ OutOK'
  BY <1>0, SentNext DEF SendfileCopies
<1>3. /\ L2 = L + n /\ L2 \in Nat /\ offset = o + L /\ c = count + L
      /\ L > 0 => offset <= FileLen
  BY <1>0, <1>2
<1>4. B \in Nat /\ (o <= FileLen => o + B = FileLen)
  BY <1>1, BehindIs
<1>5. L = 0 => Avail = B
  BY <1>1, <1>3 DEF Avail
<1>6. offset <= FileLen => offset + Avail = FileLen
  BY <1>1, BehindIs DEF Avail
<1>7. written' = L2 /\ written' \in Nat
  BY <1>0, <1>3 DEF SendfileCopies
<1> HIDE DEF L, L2, o, c, B
<1>8. L2 > 0 => o + L2 <= FileLen
  BY <1>1, <1>3
<1>9. L2 <= B
  BY <1>1, <1>3, <1>4, <1>8
<1>10. CASE n <= SENDFILE_MIN
  <2>1. sfpc' = "done" /\ res' = written' /\ UNCHANGED <<offset, count>>
    BY <1>10 DEF SendfileCopies, SfReturn
  <2>2. SfTypeOK'
    BY <1>0, <1>2, <1>7, <2>1 DEF SfTypeOK, SendfilePC
  <2>3. RestOK' /\ CountOK' /\ SendfileExact'
    BY <1>2, <1>7, <2>1 DEF RestOK, CountOK, SendfileExact, OutOK, L2
  <2>4. ASSUME lazy' = FALSE PROVE n = count \/ n = Avail
    BY <1>1, <1>10, <2>4
  <2>5. SendfileWhole'
    <3> SUFFICES ASSUME lazy' = FALSE PROVE L2 = Least(c, B)
      BY DEF SendfileWhole, L2, c, B
    <3>1. CASE n = count
      <4>1. L2 = c
        BY <1>1, <1>3, <3>1
      <4>2. QED
        BY <1>1, <1>4, <1>9, <4>1 DEF Least
    <3>2. CASE n = Avail
      <4>1. ASSUME L > 0 PROVE L2 = B
        <5>1. offset + n = FileLen
          BY <1>3, <1>6, <3>2, <4>1
        <5>2. o + L2 = FileLen
          BY <1>1, <1>3, <5>1
        <5>3. o + B = FileLen
          BY <1>1, <1>3, <1>4, <5>2
        <5>4. QED
          BY <1>1, <1>3, <1>4, <5>2, <5>3
      <4>2. ASSUME L = 0 PROVE L2 = B
        BY <1>1, <1>3, <1>5, <3>2, <4>2
      <4>3. L2 = B
        BY <1>1, <4>1, <4>2
      <4>4. L2 <= c
        BY <1>1, <1>3
      <4>5. QED
        BY <1>1, <1>4, <4>3, <4>4 DEF Least
    <3>3. QED
      BY <2>4, <3>1, <3>2
  <2>6. QED
    BY <1>2, <2>2, <2>3, <2>5 DEF SfInv
<1>11. CASE n > SENDFILE_MIN
  <2>0. /\ offset' = offset + n /\ count' = count - n
        /\ IF count' = 0 THEN sfpc' = "done" /\ res' = written'
           ELSE sfpc' = "send" /\ res' = n
    BY <1>1, <1>11 DEF SendfileCopies, SfReturn
  <2>1. offset' \in Nat /\ count' \in Nat /\ offset' = o + L2 /\ c = count' + L2
    BY <1>1, <1>3, <2>0
  <2>2. SfTypeOK'
    <3>1. sfpc' \in SendfilePC /\ res' \in Int
      BY <1>7, <2>0 DEF SendfilePC
    <3>2. QED
      BY <1>0, <1>2, <1>7, <2>1, <3>1 DEF SfTypeOK
  <2>3. RestOK' /\ CountOK' /\ SendfileExact'
    <3>1. RestOK'
      BY <1>8, <2>0, <2>1 DEF RestOK, L2, o, c
    <3>2. CountOK'
      BY <1>7, <2>0 DEF CountOK, L2
    <3>3. SendfileExact'
      BY <1>2, <1>7, <2>0 DEF SendfileExact, OutOK, L2
    <3>4. QED
      BY <3>1, <3>2, <3>3
  <2>4. SendfileWhole'
    <3> SUFFICES ASSUME sfpc' = "done" PROVE L2 = Least(c, B)
      BY DEF SendfileWhole, L2, c, B
    <3>1. count' = 0
      BY <2>0
    <3>2. L2 = c
      BY <1>1, <1>3, <2>1, <3>1
    <3>3. QED
      BY <1>1, <1>4, <1>9, <3>2 DEF Least
  <2>5. QED
    BY <1>2, <2>2, <2>3, <2>4 DEF SfInv
<1>12. QED
  BY <1>1, <1>10, <1>11

\* sendfile fails, and what was sent before counts; or the emulation begins.
LEMMA SendfileFailsStep ==
  ASSUME SfInv, sfpc = "send", NEW emulate \in BOOLEAN, SendfileFails(emulate), lazy' = TRUE,
         UNCHANGED <<offset, count, written, out, sfargs, cnt>>
  PROVE  SfInv'
<1>0. /\ SfTypeOK /\ OutOK /\ RestOK /\ written = Len(out) /\ written \in Nat
  BY DEF SfInv, CountOK
<1>1. \/ written > 0 /\ sfpc' = "done" /\ res' = written
      \/ written = 0 /\ sfpc' = "pread" /\ res' = 0
      \/ written = 0 /\ sfpc' = "done" /\ res' = -1
  BY <1>0 DEF SendfileFails, SfReturn
<1>2. written = 0 => out = <<>>
  BY <1>0, EmptySeq DEF SfTypeOK
<1>3. SfTypeOK'
  BY <1>0, <1>1 DEF SfTypeOK, SendfilePC
<1>4. OutOK' /\ RestOK' /\ CountOK' /\ SendfileExact' /\ SendfileWhole'
  BY <1>0, <1>1 DEF OutOK, RestOK, CountOK, SendfileExact, SendfileWhole
<1>5. QED
  BY <1>3, <1>4 DEF SfInv

\* The emulation ends: -1 is returned only when nothing was sent.
LEMMA EmulationStopsStep ==
  ASSUME SfInv, sfpc \in {"pread", "write"}, NEW n \in {-1, 0}, EmulationStops(n),
         UNCHANGED <<sfargs, offset, count, written, cnt, out, lazy>>
  PROVE  SfInv'
<1>0. SfTypeOK /\ OutOK /\ RestOK /\ res = Len(out) /\ lazy
  BY DEF SfInv, CountOK
<1>1. sfpc' = "done" /\ (res' = res \/ (res' = -1 /\ res = 0))
  BY DEF EmulationStops, SfReturn
<1>2. res = 0 => out = <<>>
  BY <1>0, EmptySeq DEF SfTypeOK
<1>3. SfTypeOK'
  BY <1>0, <1>1 DEF SfTypeOK, SendfilePC
<1>4. OutOK' /\ RestOK' /\ CountOK' /\ SendfileExact' /\ SendfileWhole'
  BY <1>0, <1>1 DEF OutOK, RestOK, CountOK, SendfileExact, SendfileWhole
<1>5. QED
  BY <1>3, <1>4 DEF SfInv

\* pread fills the buffer with no more than the rest of the range.
LEMMA PreadStep ==
  ASSUME SfInv, Pread
  PROVE  SfInv'
<1>1. ASSUME NEW n \in 1..Least(Least(count, EIO_BUFSIZE), Avail),
             sfpc' = "write", cnt' = n, res' = res, sfpc = "pread",
             UNCHANGED <<sfargs, offset, count, written, out, lazy>>
      PROVE  SfInv'
  <2>0. SfTypeOK /\ OutOK /\ RestOK /\ CountOK /\ count \in Nat /\ Avail \in Nat
        /\ EIO_BUFSIZE \in Nat
    BY AvailIs, SendfileAssumption DEF SfInv, SfTypeOK
  <2>1. n \in Nat /\ n <= count /\ n <= Avail
    <3> DEFINE a == Least(count, EIO_BUFSIZE)
               b == Least(a, Avail)
    <3>1. a \in Nat /\ a <= count
      BY <2>0, LeastIs
    <3> HIDE DEF a
    <3>2. b \in Nat /\ b <= a /\ b <= Avail /\ n \in 1..b
      BY <2>0, LeastIs DEF a
    <3> HIDE DEF b
    <3>3. QED
      BY <2>0, <3>1, <3>2
  <2>2. SfTypeOK' /\ Avail' = Avail
    BY <1>1, <2>0 DEF SfTypeOK, SendfilePC, Avail
  <2>3. OutOK' /\ RestOK' /\ CountOK' /\ SendfileExact' /\ SendfileWhole'
    BY <1>1, <2>0, <2>1, <2>2 DEF OutOK, RestOK, CountOK, SendfileExact, SendfileWhole
  <2>4. QED
    BY <2>2, <2>3 DEF SfInv
<1>2. QED
  BY <1>1, EmulationStopsStep DEF Pread

\* write takes n bytes of the buffer: what it leaves is read again.
LEMMA WriteStep ==
  ASSUME SfInv, Write
  PROVE  SfInv'
<1>1. ASSUME NEW n \in 1..cnt, WriteCopies(n), sfpc = "write",
             UNCHANGED <<sfargs, written, cnt, lazy>>
      PROVE  SfInv'
  <2>0. /\ SfTypeOK /\ OutOK /\ offset = sfargs.offset + Len(out)
        /\ sfargs.count = count + Len(out) /\ res = Len(out) /\ lazy
        /\ cnt <= count /\ cnt <= Avail /\ cnt \in Nat /\ count \in Nat /\ offset \in Nat
        /\ Avail \in Nat /\ (Avail > 0 => offset + Avail = FileLen) /\ FileLen \in Nat
        /\ Len(out) \in Nat /\ sfargs.offset \in Nat
    BY <1>1, AvailIs DEF SfInv, SfTypeOK, RestOK, CountOK
  <2>1. n \in Nat /\ n > 0 /\ n <= count /\ n <= Avail
    BY <2>0
  <2>2. /\ offset' = offset + n /\ res' = res + n /\ count' = count - n
        /\ sfpc' = IF count' = 0 THEN "done" ELSE "pread"
    BY <1>1 DEF WriteCopies
  <2>3. out' \in Seq(Nat) /\ Len(out') = Len(out) + n /\ OutOK'
    BY <1>1, <2>0, SentNext DEF WriteCopies
  <2>4. /\ offset' = sfargs.offset + Len(out') /\ sfargs.count = count' + Len(out')
        /\ res' = Len(out') /\ offset' \in Nat /\ count' \in Nat /\ offset' <= FileLen
    <3> DEFINE L == Len(out)
               L2 == Len(out')
    <3>1. L2 = L + n /\ L \in Nat /\ offset = sfargs.offset + L /\ sfargs.count = count + L
          /\ res = L
      BY <2>0, <2>3
    <3> HIDE DEF L, L2
    <3>2. /\ offset' = sfargs.offset + L2 /\ sfargs.count = count' + L2 /\ res' = L2
          /\ offset' \in Nat /\ count' \in Nat /\ offset' <= FileLen
      BY <2>0, <2>2, <3>1
    <3>3. QED
      BY <3>2 DEF L2
  <2>5. SfTypeOK'
    BY <1>1, <2>0, <2>2, <2>3, <2>4 DEF SfTypeOK, SendfilePC
  <2>6. RestOK' /\ CountOK' /\ SendfileExact' /\ SendfileWhole'
    BY <1>1, <2>0, <2>2, <2>3, <2>4
       DEF RestOK, CountOK, SendfileExact, SendfileWhole, OutOK
  <2>7. QED
    BY <2>3, <2>5, <2>6 DEF SfInv
<1>2. QED
  BY <1>1, EmulationStopsStep DEF Write

\* The next request begins afresh.
LEMMA EndStep ==
  ASSUME SfInv, SfEnd
  PROVE  SfInv'
<1>1. sfargs' = [offset |-> 0, count |-> 0] /\ Len(out') = 0
  BY DEF SfEnd
<1>2. SfTypeOK'
  <2>1. out' \in Seq(Nat)
    BY DEF SfEnd
  <2>2. sfargs' \in [offset : Nat, count : Nat]
    BY <1>1
  <2>3. /\ sfpc' = "idle" /\ offset' \in Nat /\ count' \in Nat /\ written' \in Nat
        /\ res' \in Int /\ cnt' \in Nat
    BY DEF SfEnd
  <2>4. lazy' \in BOOLEAN
    BY DEF SfEnd
  <2>5. QED
    BY <2>1, <2>2, <2>3, <2>4 DEF SfTypeOK, SendfilePC
<1>3. OutOK' /\ RestOK' /\ CountOK' /\ SendfileExact' /\ SendfileWhole'
  BY DEF SfEnd, OutOK, RestOK, CountOK, SendfileExact, SendfileWhole
<1>4. QED
  BY <1>2, <1>3 DEF SfInv

-----------------------------------------------------------------------------
(* The invariant is inductive. *)

LEMMA SfInitInv == SfInit => SfInv
<1> SUFFICES ASSUME SfInit PROVE SfInv
  OBVIOUS
<1>1. out \in Seq(Nat) /\ Len(out) = 0 /\ sfargs \in [offset : Nat, count : Nat]
  <2>1. out \in Seq(Nat) /\ Len(out) = 0
    BY DEF SfInit
  <2>2. QED
    BY DEF SfInit
<1>2. SfTypeOK
  <2>1. /\ sfpc = "idle" /\ offset \in Nat /\ count \in Nat /\ written \in Nat
        /\ res \in Int /\ cnt \in Nat
    BY DEF SfInit
  <2>2. lazy \in BOOLEAN
    BY DEF SfInit
  <2>3. QED
    BY <1>1, <2>1, <2>2 DEF SfTypeOK, SendfilePC
<1>3. OutOK /\ RestOK /\ CountOK /\ SendfileExact /\ SendfileWhole
  BY DEF SfInit, OutOK, RestOK, CountOK, SendfileExact, SendfileWhole
<1>4. QED
  BY <1>2, <1>3 DEF SfInv

LEMMA SfNextInv == SfInv /\ [SfNext]_sfVars => SfInv'
<1> SUFFICES ASSUME SfInv, [SfNext]_sfVars PROVE SfInv'
  OBVIOUS
<1>1. CASE Sendfile
  <2> DEFINE full == Least(Least(count, Avail), KernelMax)
  <2>1. ASSUME NEW n \in 0..full, SendfileCopies(n), lazy' = (lazy \/ n < full)
        PROVE  SfInv'
    <3>1. full \in Nat /\ full <= count /\ full <= Avail /\ full \in {count, Avail, KernelMax}
      BY FullIs DEF SfInv
    <3>2. count \in Nat /\ Avail \in Nat
      BY AvailIs DEF SfInv, SfTypeOK
    <3>3. lazy' = FALSE => ~(n < full)
      BY <2>1
    <3>4. lazy' \in BOOLEAN
      BY <2>1
    <3> HIDE DEF full
    <3>5. /\ n \in Nat /\ n <= count /\ n <= Avail
          /\ lazy' = FALSE => n \in {count, Avail, KernelMax}
      BY <3>1, <3>2, <3>3
    <3>6. sfpc = "send" /\ sfargs' = sfargs /\ cnt' = cnt
      BY <1>1 DEF Sendfile
    <3>7. QED
      BY <2>1, <3>5, <3>6, SendfileCopiesStep
  <2>2. QED
    BY <1>1, <2>1, SendfileFailsStep DEF Sendfile
<1>2. CASE UNCHANGED sfVars
  BY <1>2 DEF sfVars, SfInv, SfTypeOK, OutOK, RestOK, CountOK, SendfileExact,
              SendfileWhole, Avail
<1>3. QED
  BY <1>1, <1>2, StartStep, PreadStep, WriteStep, EndStep DEF SfNext, SfStep

-----------------------------------------------------------------------------
(* eio__realpath, for every file system, path, buffer size and limit of     *)
(* links.                                                                  *)

\* The steps of eio__realpath.
RpNext == RealpathStart \/ RpStep \/ RpEnd

\* The inductive invariant.  The counter of links is positive in the loop, so that
\* the last link is followed only after the rest was copied to the buffer.
RpInv ==
    /\ rppc \in {"idle", "walk", "done"}
    /\ rprel \in Seq(Word)
    /\ rppc = "walk" => symlinks \in 1..SYMLINKS
    /\ RealpathCanonical
    /\ RealpathInBounds

\* Where a string has a name of length 2.
Dots(s) == {i \in 1..Len(s) : s[i] = ".."}

\* The length of a string is a number.
LEMMA StrLenIs ==
  ASSUME NEW s \in Seq(Word)
  PROVE  /\ IsFiniteSet(Dots(s)) /\ Cardinality(Dots(s)) \in Nat
         /\ StrLen(s) \in Nat /\ StrLen(s) = Len(s) + Cardinality(Dots(s))
<1>1. Len(s) \in Nat
  OBVIOUS
<1>2. IsFiniteSet(1..Len(s))
  BY <1>1, FS_Interval
<1>3. Dots(s) \subseteq 1..Len(s)
  BY DEF Dots
<1>4. IsFiniteSet(Dots(s))
  BY <1>2, <1>3, FS_Subset
<1>5. Cardinality(Dots(s)) \in Nat
  BY <1>4, FS_CardinalityType
<1>6. StrLen(s) = Len(s) + Cardinality(Dots(s))
  BY DEF StrLen, Dots
<1> QED
  BY <1>1, <1>4, <1>5, <1>6

\* Positions of T that are moved by d are as many as in T at most.
LEMMA MovedDots ==
  ASSUME NEW S, NEW T, IsFiniteSet(T), NEW d \in Int, S \subseteq Int,
         \A i \in S : i + d \in T
  PROVE  IsFiniteSet(S) /\ Cardinality(S) <= Cardinality(T)
<1> DEFINE f == [i \in S |-> i + d]
<1>1. f \in [S -> T]
  OBVIOUS
<1>2. ASSUME NEW i \in S, NEW j \in S, f[i] = f[j] PROVE i = j
  BY <1>2
<1> HIDE DEF f
<1>3. f \in Injection(S, T)
  BY <1>1, <1>2 DEF Injection, IsInjective
<1> QED
  BY <1>3, FS_Injection

\* The rest of a string is not longer.
LEMMA StrLenTail ==
  ASSUME NEW s \in Seq(Word), s # <<>>
  PROVE  Tail(s) \in Seq(Word) /\ StrLen(Tail(s)) <= StrLen(s)
<1>1. Tail(s) \in Seq(Word) /\ Len(Tail(s)) = Len(s) - 1
  OBVIOUS
<1>2. \A i \in Dots(Tail(s)) : i + 1 \in Dots(s)
  BY <1>1 DEF Dots
<1>3. Dots(Tail(s)) \subseteq Int
  BY DEF Dots
<1>4. IsFiniteSet(Dots(s))
  BY StrLenIs
<1>5. Cardinality(Dots(Tail(s))) <= Cardinality(Dots(s))
  BY <1>2, <1>3, <1>4, MovedDots
<1>6. /\ StrLen(s) = Len(s) + Cardinality(Dots(s))
      /\ Cardinality(Dots(s)) \in Nat /\ Len(s) \in Nat
  BY StrLenIs
<1>7. /\ StrLen(Tail(s)) = Len(Tail(s)) + Cardinality(Dots(Tail(s)))
      /\ Cardinality(Dots(Tail(s))) \in Nat
  BY <1>1, StrLenIs
<1>8. StrLen(Tail(s)) <= StrLen(s)
  BY <1>1, <1>5, <1>6, <1>7
<1> QED
  BY <1>1, <1>8

\* A link's target, a slash and the rest are as long as their parts.
LEMMA StrLenJoin ==
  ASSUME NEW a \in Seq(Word), NEW b \in Seq(Word), NEW slash \in Word, slash # ".."
  PROVE  /\ a \o <<slash>> \o b \in Seq(Word)
         /\ StrLen(a \o <<slash>> \o b) <= StrLen(a) + 1 + StrLen(b)
<1> DEFINE e == a \o <<slash>>
           c == e \o b
<1>1. e \in Seq(Word) /\ Len(e) = Len(a) + 1 /\ Len(a) \in Nat /\ Len(b) \in Nat
  <2>1. <<slash>> \in Seq(Word) /\ Len(<<slash>>) = 1
    OBVIOUS
  <2> HIDE DEF e
  <2>2. a \o <<slash>> \in Seq(Word) /\ Len(a \o <<slash>>) = Len(a) + Len(<<slash>>)
    BY <2>1, ConcatProperties
  <2> QED
    BY <2>1, <2>2 DEF e
<1>2. \A i \in 1..Len(e) : e[i] = IF i <= Len(a) THEN a[i] ELSE slash
  OBVIOUS
<1> HIDE DEF e
<1>3. c \in Seq(Word) /\ Len(c) = Len(a) + 1 + Len(b)
  BY <1>1
<1>4. \A i \in 1..Len(c) : c[i] = IF i <= Len(e) THEN e[i] ELSE b[i - Len(e)]
  BY <1>1
<1> HIDE DEF c
<1> DEFINE hi == {i \in Dots(c) : i > Len(a)}
           lo == {i \in Dots(c) : i <= Len(a)}
<1>5. lo \subseteq Dots(a)
  BY <1>1, <1>2, <1>3, <1>4 DEF Dots
<1>6. \A i \in hi : i + (-(Len(a) + 1)) \in Dots(b)
  BY <1>1, <1>2, <1>3, <1>4 DEF Dots
<1>7. hi \subseteq Int /\ Dots(c) = lo \cup hi
  BY <1>1 DEF Dots
<1> HIDE DEF hi, lo
<1>8. IsFiniteSet(Dots(a)) /\ IsFiniteSet(Dots(b))
  BY StrLenIs
<1>9. IsFiniteSet(hi) /\ Cardinality(hi) <= Cardinality(Dots(b))
  <2>1. -(Len(a) + 1) \in Int
    BY <1>1
  <2> QED
    BY <1>6, <1>7, <1>8, <2>1, MovedDots
<1>10. IsFiniteSet(lo) /\ Cardinality(lo) <= Cardinality(Dots(a))
  BY <1>5, <1>8, FS_Subset
<1>11. Cardinality(Dots(c)) <= Cardinality(lo) + Cardinality(hi)
  <2>1. Cardinality(Dots(c)) = Cardinality(lo) + Cardinality(hi) - Cardinality(lo \cap hi)
    BY <1>7, <1>9, <1>10, FS_Union
  <2>2. IsFiniteSet(lo \cap hi)
    BY <1>9, FS_Subset
  <2>3. /\ Cardinality(lo \cap hi) \in Nat /\ Cardinality(lo) \in Nat /\ Cardinality(hi) \in Nat
    BY <1>9, <1>10, <2>2, FS_CardinalityType
  <2> QED
    BY <2>1, <2>3
<1>12. /\ StrLen(a) = Len(a) + Cardinality(Dots(a)) /\ Cardinality(Dots(a)) \in Nat
       /\ StrLen(b) = Len(b) + Cardinality(Dots(b)) /\ Cardinality(Dots(b)) \in Nat
  BY StrLenIs
<1>13. StrLen(c) = Len(c) + Cardinality(Dots(c)) /\ Cardinality(Dots(c)) \in Nat
  BY <1>3, StrLenIs
<1>14. Cardinality(lo) \in Nat /\ Cardinality(hi) \in Nat
  BY <1>9, <1>10, FS_CardinalityType
<1>15. StrLen(c) <= StrLen(a) + 1 + StrLen(b)
  BY <1>1, <1>3, <1>9, <1>10, <1>11, <1>12, <1>13, <1>14
<1> QED
  BY <1>3, <1>15 DEF c, e

\* The same for the slash of the code.
LEMMA StrLenLink ==
  ASSUME NEW a \in Seq(Word), NEW b \in Seq(Word)
  PROVE  /\ a \o <<"/">> \o b \in Seq(Word)
         /\ StrLen(a \o <<"/">> \o b) <= StrLen(a) + 1 + StrLen(b)
<1>1. "/" \in Word
  BY DEF Word
<1>2. "/" # ".."
  OBVIOUS
<1> QED
  BY <1>1, <1>2, StrLenJoin

\* The path so far is a string.
LEMMA ResIs ==
  ASSUME RealpathCanonical
  PROVE  rpres \in Seq(Word) /\ Len(rpres) \in Nat
BY RealpathAssumption DEF RealpathCanonical

\* No request.
LEMMA RpInitInv == RpInit => RpInv
BY RealpathAssumption
   DEF RpInit, RpInv, RealpathCanonical, RealpathInBounds, ResLen, IsLink

\* A path of the script: from the root or from the current directory.
LEMMA RpStartInv == RpInv /\ RealpathStart => RpInv'
<1> SUFFICES ASSUME RpInv, RealpathStart PROVE RpInv'
  OBVIOUS
<1>1. PICK path \in Paths :
         /\ rprel' = path /\ symlinks' = SYMLINKS
         /\ \/ rppc' = "done" /\ rpres' = rpres
            \/ rppc' = "walk" /\ rpres' \in {<<>>, Cwd}
  BY DEF RealpathStart, RpReturn
<1>2. path \in Seq(Word) /\ SYMLINKS \in 1..SYMLINKS /\ ~(SYMLINKS < SYMLINKS)
  BY RealpathAssumption
<1>3. RealpathCanonical' /\ ResLen(rpres') < EIO_PATH_MAX
  BY <1>1, RealpathAssumption DEF RpInv, RealpathCanonical, RealpathInBounds, ResLen, IsLink
<1> QED
  BY <1>1, <1>2, <1>3 DEF RpInv, RealpathInBounds

\* The directory of the path so far is one, and shorter.
LEMMA FrontIs ==
  ASSUME RpInv, rpres # <<>>
  PROVE  /\ Front(rpres) \in DOMAIN FS /\ ~IsLink(FS[Front(rpres)])
         /\ ResLen(Front(rpres)) < EIO_PATH_MAX
<1>1. rpres \in Seq(Word) /\ rpres \in DOMAIN FS
  BY RealpathAssumption DEF RpInv, RealpathCanonical
<1>2. Front(rpres) \in DOMAIN FS /\ FS[Front(rpres)].kind = "dir"
  BY <1>1, RealpathAssumption
<1>3. Len(Front(rpres)) = Len(rpres) - 1 /\ Len(rpres) \in Nat
  <2>1. Len(rpres) \in Nat \ {0}
    BY <1>1
  <2>2. \A i \in 1 .. Len(rpres) - 1 : rpres[i] \in Word
    BY <1>1, <2>1
  <2>3. Len(SubSeq(rpres, 1, Len(rpres) - 1)) =
           IF 1 <= Len(rpres) - 1 THEN (Len(rpres) - 1) - 1 + 1 ELSE 0
    <3>1. 1 \in Int /\ Len(rpres) - 1 \in Int
      BY <2>1
    <3> QED
      BY <2>2, <3>1, SubSeqProperties
  <2>4. Len(Front(rpres)) = IF 1 <= Len(rpres) - 1 THEN (Len(rpres) - 1) - 1 + 1 ELSE 0
    BY <2>3 DEF Front
  <2> QED
    BY <2>1, <2>4
<1> QED
  BY <1>2, <1>3, RealpathAssumption DEF RpInv, RealpathInBounds, ResLen, IsLink

\* A name is copied behind res, and its link followed.
LEMMA ComponentInv ==
  ASSUME RpInv, rppc = "walk", NEW name \in Word, NEW rest \in Seq(Word),
         StrLen(rest) <= StrLen(rprel), Component(name, rest)
  PROVE  RpInv'
<1> DEFINE path == Append(rpres, name)
           node == readlink(path)
<1>a. StrLen(rest) \in Nat /\ StrLen(rprel) \in Nat
  BY StrLenIs DEF RpInv
<1>b. rpres \in Seq(Word) /\ Len(rpres) \in Nat /\ rpres \in DOMAIN FS
  BY ResIs DEF RpInv, RealpathCanonical
<1>c. symlinks \in 1..SYMLINKS /\ EIO_PATH_MAX \in Nat /\ SYMLINKS \in Nat \ {0, 1}
  BY RealpathAssumption DEF RpInv
<1>d. RealpathInBounds /\ rprel \in Seq(Word) /\ RealpathCanonical
  BY DEF RpInv
<1>1. CASE /\ rppc' = "done"
           /\ UNCHANGED <<rpres, rprel, symlinks>>
  BY <1>1, <1>d, <1>c DEF RpInv, RealpathInBounds, RealpathCanonical, ResLen
<1>2. CASE ~TooLong(name) /\ IsLink(node) /\ node.kind \notin {"ENOENT", "ENOTDIR"}
            /\ FollowLink(node.to, rest)
  <2> DEFINE link == node.to
  <2>1. path \in DOMAIN FS /\ node = FS[path]
    BY <1>2 DEF readlink
  <2>2. link \in Seq(Word)
    BY <1>2, <2>1, RealpathAssumption DEF IsLink
  <2> HIDE DEF node
  <2>3. link \o <<"/">> \o rest \in Seq(Word)
        /\ StrLen(link \o <<"/">> \o rest) <= StrLen(link) + 1 + StrLen(rest)
    BY <2>2, StrLenLink
  <2>4. StrLen(link) \in Nat /\ StrLen(link \o <<"/">> \o rest) \in Nat
    BY <2>2, <2>3, StrLenIs
  <2>5. CASE StrLen(link) + 1 + StrLen(rest) >= EIO_PATH_MAX
    BY <1>1, <1>2, <2>5 DEF FollowLink, RpReturn
  <2>6. CASE /\ ~(StrLen(link) + 1 + StrLen(rest) >= EIO_PATH_MAX)
             /\ symlinks - 1 = 0
    <3>1. rppc' = "done" /\ symlinks' = 0 /\ rpres' = rpres /\ rprel' = rprel
      BY <1>2, <2>6 DEF FollowLink, RpReturn
    <3>2. symlinks < SYMLINKS
      BY <1>c, <2>6
    <3> QED
      BY <3>1, <3>2, <1>d DEF RpInv, RealpathInBounds, RealpathCanonical, ResLen
  <2>7. CASE /\ ~(StrLen(link) + 1 + StrLen(rest) >= EIO_PATH_MAX)
             /\ symlinks - 1 # 0
    <3>1. /\ symlinks' = symlinks - 1 /\ rppc' = rppc
          /\ rpres' \in {<<>>, rpres} /\ rprel' = link \o <<"/">> \o rest
      BY <1>2, <2>7 DEF FollowLink
    <3>2. symlinks' \in 1..SYMLINKS
      BY <3>1, <1>c, <2>7
    <3>3. StrLen(rprel') < EIO_PATH_MAX
      BY <3>1, <2>3, <2>4, <2>7, <1>a, <1>c
    <3>4. RealpathCanonical' /\ ResLen(rpres') < EIO_PATH_MAX
      BY <3>1, <1>d, RealpathAssumption DEF RealpathCanonical, RealpathInBounds, ResLen, IsLink
    <3> QED
      BY <3>1, <3>2, <3>3, <3>4, <2>3 DEF RpInv, RealpathInBounds
  <2> QED
    BY <2>5, <2>6, <2>7
<1>3. CASE /\ ~TooLong(name) /\ ~IsLink(node) /\ node.kind \notin {"ENOENT", "ENOTDIR"}
           /\ rpres' = path /\ rprel' = rest /\ UNCHANGED <<rppc, symlinks>>
  <2>1. path \in DOMAIN FS /\ node = FS[path]
    BY <1>3 DEF readlink
  <2>2. Len(path) = Len(rpres) + 1
    BY <1>b
  <2>3. StrLen(<<name>>) \in Nat /\ StrLen(<<name>>) >= 1
    <3>1. <<name>> \in Seq(Word) /\ Len(<<name>>) = 1
      OBVIOUS
    <3>2. /\ StrLen(<<name>>) = Len(<<name>>) + Cardinality(Dots(<<name>>))
          /\ Cardinality(Dots(<<name>>)) \in Nat
      BY <3>1, StrLenIs
    <3> QED
      BY <3>1, <3>2
  <2>4. ~(2 * Len(rpres) + 1 + StrLen(<<name>>) + 1 >= EIO_PATH_MAX)
    BY <1>3 DEF TooLong, ResLen
  <2>5. ResLen(rpres') < EIO_PATH_MAX
    BY <1>3, <1>b, <1>c, <2>2, <2>3, <2>4 DEF ResLen
  <2>6. RealpathCanonical'
    BY <1>3, <2>1 DEF RealpathCanonical
  <2>7. symlinks' < SYMLINKS => StrLen(rprel') < EIO_PATH_MAX
    BY <1>3, <1>a, <1>c, <1>d DEF RealpathInBounds
  <2> QED
    BY <1>3, <1>c, <2>5, <2>6, <2>7 DEF RpInv, RealpathInBounds
<1> QED
  BY <1>1, <1>2, <1>3 DEF Component, RpReturn

\* A component of what is left.
LEMMA RpWalkInv == RpInv /\ RealpathWalk => RpInv'
<1> SUFFICES ASSUME RpInv, RealpathWalk PROVE RpInv'
  OBVIOUS
<1> DEFINE t == Head(rprel)
           rest == Tail(rprel)
<1>1. rprel \in Seq(Word) /\ rprel # <<>> /\ rppc = "walk"
  BY DEF RpInv, RealpathWalk
<1>2. rest \in Seq(Word) /\ StrLen(rest) <= StrLen(rprel) /\ t \in Word
  BY <1>1, StrLenTail
<1>3. StrLen(rest) \in Nat /\ StrLen(rprel) \in Nat /\ EIO_PATH_MAX \in Nat
  BY <1>1, <1>2, StrLenIs, RealpathAssumption
<1>4. CASE t \in {"/", ".", ".."}
  <2>1. /\ rprel' = rest /\ rppc' = rppc /\ symlinks' = symlinks
        /\ \/ rpres' = rpres
           \/ rpres # <<>> /\ rpres' = Front(rpres)
    BY <1>4 DEF RealpathWalk, BackUp
  <2>2. RealpathCanonical' /\ ResLen(rpres') < EIO_PATH_MAX
    BY <2>1, FrontIs DEF RpInv, RealpathCanonical, RealpathInBounds
  <2>3. symlinks' < SYMLINKS => StrLen(rprel') < EIO_PATH_MAX
    BY <1>1, <1>2, <1>3, <2>1 DEF RpInv, RealpathInBounds
  <2> QED
    BY <1>1, <1>2, <2>1, <2>2, <2>3 DEF RpInv, RealpathInBounds
<1>5. CASE t \notin {"/", ".", ".."}
  <2>1. Component(t, rest)
    BY <1>5 DEF RealpathWalk
  <2> QED
    BY <1>1, <1>2, <2>1, ComponentInv
<1> QED
  BY <1>4, <1>5

\* The invariant is inductive.
LEMMA RpNextInv == RpInv /\ [RpNext]_rpVars => RpInv'
<1> SUFFICES ASSUME RpInv, [RpNext]_rpVars PROVE RpInv'
  OBVIOUS
<1>1. CASE RealpathStart
  BY <1>1, RpStartInv
<1>2. CASE RealpathWalk
  BY <1>2, RpWalkInv
<1>3. CASE RealpathDone
  BY <1>3 DEF RealpathDone, RpReturn, RpInv, RealpathCanonical, RealpathInBounds, ResLen
<1>4. CASE RpEnd
  BY <1>4, RealpathAssumption
     DEF RpEnd, RpInv, RealpathCanonical, RealpathInBounds, ResLen, IsLink
<1>5. CASE UNCHANGED rpVars
  BY <1>5 DEF rpVars, RpInv, RealpathCanonical, RealpathInBounds, ResLen
<1> QED
  BY <1>1, <1>2, <1>3, <1>4, <1>5 DEF RpNext, RpStep

-----------------------------------------------------------------------------
(* eio__realpath against the reference.  First what the reference computes: *)
(* functions on the natural numbers that are defined by recursion.          *)

\* Induction over the natural numbers up to a limit, with a set for the predicate.
LEMMA UpTo ==
  ASSUME NEW n \in Nat, NEW T, 0 \in T, \A i \in 1..n : i - 1 \in T => i \in T
  PROVE  \A i \in 0..n : i \in T
<1> SUFFICES ASSUME \E i \in 0..n : i \notin T PROVE FALSE
  OBVIOUS
<1> DEFINE B == {i \in 0..n : i \notin T}
<1>1. PICK i \in B : \A m \in B : i <= m
  <2>1. B \subseteq Nat /\ B # {}
    OBVIOUS
  <2> QED
    BY <2>1, SmallestOf
<1>2. i \in 1..n
  BY <1>1
<1>3. i - 1 \in 0..n /\ ~(i <= i - 1)
  BY <1>2
<1>4. i - 1 \notin B
  BY <1>1, <1>3
<1>5. i - 1 \in T
  BY <1>3, <1>4
<1> QED
  BY <1>1, <1>2, <1>5

\* What each value of a function on the natural numbers makes of the one before it.
IsRule(h, S) == h \in [Nat -> [S -> S]]

IsDefined(g, S, a, h) ==
    g \in [Nat -> S] /\ g[0] = a /\ \A n \in Nat : g[n + 1] = h[n][g[n]]

\* The first value and the rule define a function.
LEMMA Recursion ==
  ASSUME NEW S, NEW a \in S, NEW h, IsRule(h, S)
  PROVE  \E g : IsDefined(g, S, a, h)
<1>0. h \in [Nat -> [S -> S]]
  BY DEF IsRule
<1> DEFINE P(n) == {g \in [0..n -> S] : g[0] = a /\ \A i \in 1..n : g[i] = h[i - 1][g[i - 1]]}
<1>1. \A n \in Nat : P(n) # {}
  <2> DEFINE T == {n \in Nat : P(n) # {}}
  <2>1. 0 \in T
    <3>1. [i \in 0..0 |-> a] \in P(0)
      OBVIOUS
    <3> QED
      BY <3>1
  <2>2. ASSUME NEW n \in Nat \ {0}, n - 1 \in T PROVE n \in T
    <3>1. PICK g \in P(n - 1) : TRUE
      BY <2>2
    <3> DEFINE f == [i \in 0..n |-> IF i = n THEN h[n - 1][g[n - 1]] ELSE g[i]]
    <3>2. g \in [0..(n - 1) -> S] /\ g[0] = a /\ \A i \in 1..(n - 1) : g[i] = h[i - 1][g[i - 1]]
      BY <3>1
    <3>3. n - 1 \in 0..(n - 1) /\ n - 1 \in Nat
      OBVIOUS
    <3>4. h[n - 1][g[n - 1]] \in S
      BY <1>0, <3>2, <3>3
    <3>5. f \in [0..n -> S]
      BY <3>2, <3>4
    <3>6. f[0] = a
      BY <3>2
    <3>7. ASSUME NEW i \in 1..n PROVE f[i] = h[i - 1][f[i - 1]]
      <4>1. i - 1 \in 0..n /\ i - 1 # n /\ f[i - 1] = g[i - 1]
        OBVIOUS
      <4> QED
        BY <4>1, <3>2
    <3>8. f \in P(n)
      BY <3>5, <3>6, <3>7
    <3> QED
      BY <3>8
  <2> HIDE DEF T
  <2>3. ASSUME NEW n \in Nat PROVE n \in T
    <3>1. \A i \in 1..n : i - 1 \in T => i \in T
      BY <2>2
    <3>2. \A i \in 0..n : i \in T
      BY <2>1, <3>1, UpTo
    <3> QED
      BY <3>2
  <2> QED
    BY <2>3 DEF T
<1>2. ASSUME NEW n \in Nat, NEW g \in P(n), NEW f \in P(n + 1) PROVE g[n] = f[n]
  <2> DEFINE T == {i \in 0..n : g[i] = f[i]}
  <2>0. /\ g[0] = a /\ \A i \in 1..n : g[i] = h[i - 1][g[i - 1]]
        /\ f[0] = a /\ \A i \in 1..(n + 1) : f[i] = h[i - 1][f[i - 1]]
    OBVIOUS
  <2>1. 0 \in T
    BY <2>0
  <2>2. ASSUME NEW i \in 1..n, i - 1 \in T PROVE i \in T
    <3>1. i \in 1..(n + 1) /\ i \in 0..n
      OBVIOUS
    <3> QED
      BY <2>0, <2>2, <3>1
  <2> HIDE DEF T
  <2>3. n \in T
    <3>1. \A i \in 0..n : i \in T
      BY <2>1, <2>2, UpTo
    <3> QED
      BY <3>1
  <2> QED
    BY <2>3 DEF T
<1> DEFINE c == [n \in Nat |-> CHOOSE g : g \in P(n)]
           G == [n \in Nat |-> c[n][n]]
<1>3. \A n \in Nat : c[n] \in P(n)
  BY <1>1
<1> HIDE DEF c
<1>4. G \in [Nat -> S]
  BY <1>3
<1>5. G[0] = a
  BY <1>3
<1>6. ASSUME NEW n \in Nat PROVE G[n + 1] = h[n][G[n]]
  <2>1. c[n + 1] \in P(n + 1) /\ c[n] \in P(n) /\ n + 1 \in Nat
    BY <1>3
  <2>2. c[n + 1][n] = c[n][n]
    BY <1>2, <2>1
  <2>3. \A i \in 1..(n + 1) : c[n + 1][i] = h[i - 1][c[n + 1][i - 1]]
    BY <2>1
  <2>4. n + 1 \in 1..(n + 1) /\ (n + 1) - 1 = n
    OBVIOUS
  <2>5. c[n + 1][n + 1] = h[n][c[n + 1][n]]
    BY <2>3, <2>4
  <2> QED
    BY <2>2, <2>5
<1>7. IsDefined(G, S, a, h)
  BY <1>4, <1>5, <1>6 DEF IsDefined
<1> QED
  BY <1>7

-----------------------------------------------------------------------------
(* The walks of the reference. *)

\* Ways to resolve the target of a link.
Follows == [At \X Seq(Word) -> At]

\* A failed resolution is one.
LEMMA UnresolvedIs ==
  ASSUME NEW why \in {"ENOENT", "ENOTDIR", "ELOOP"}
  PROVE  Unresolved(why) \in At /\ Unresolved(why).err # "ok"
<1>1. <<>> \in Seq(Word)
  OBVIOUS
<1> QED
  BY <1>1 DEF Unresolved, At

\* The target of a link is resolved from a place.
LEMMA LinkedIs ==
  ASSUME NEW at \in At, NEW to \in Seq(Word)
  PROVE  /\ Linked(at, to) \in At \X Seq(Word) /\ Linked(at, to)[2] = to
         /\ Linked(at, to)[1].links = at.links + 1 /\ Linked(at, to)[1].err = "ok"
         /\ Linked(at, to)[1].path = IF Head(to) = "/" THEN <<>> ELSE at.path
<1> DEFINE r == [path |-> IF Head(to) = "/" THEN <<>> ELSE at.path, links |-> at.links + 1,
                 err |-> "ok"]
<1>1. at.path \in Seq(Word) /\ at.links \in Nat /\ <<>> \in Seq(Word)
  BY DEF At
<1>2. r \in At
  BY <1>1 DEF At
<1>3. Linked(at, to) = <<r, to>>
  BY DEF Linked
<1> QED
  BY <1>2, <1>3

\* The directory above a path.
LEMMA FrontSeq ==
  ASSUME NEW p \in Seq(Word), p # <<>>
  PROVE  Front(p) \in Seq(Word)
<1>1. Len(p) \in Nat \ {0}
  OBVIOUS
<1>2. \A i \in 1..(Len(p) - 1) : p[i] \in Word
  BY <1>1
<1>3. SubSeq(p, 1, Len(p) - 1) \in Seq(Word)
  BY <1>1, <1>2, SubSeqProperties
<1> QED
  BY <1>3 DEF Front

\* One component leads from place to place, and only a place without an error
\* leads to one.
LEMMA LookupIs ==
  ASSUME NEW at \in At, NEW name \in Word, NEW f \in Follows
  PROVE  /\ Lookup(at, name, f) \in At
         /\ Lookup(at, name, f).err = "ok" => at.err = "ok"
<1> DEFINE here == Append(at.path, name)
           to == FS[here].to
<1>1. at.path \in Seq(Word) /\ at.links \in Nat /\ at.err \in {"ok", "ENOENT", "ENOTDIR", "ELOOP"}
  BY DEF At
<1>2. here \in Seq(Word)
  BY <1>1
<1>3. at.path # <<>> => Front(at.path) \in Seq(Word)
  BY <1>1, FrontSeq
<1>4. \A p \in Seq(Word) : [at EXCEPT !.path = p] \in At
  BY DEF At
<1>5. [at EXCEPT !.path = IF at.path = <<>> THEN <<>> ELSE Front(at.path)] \in At
  <2>1. <<>> \in Seq(Word)
    OBVIOUS
  <2> QED
    BY <1>3, <1>4, <2>1
<1>6. here \in DOMAIN FS /\ IsLink(FS[here]) => f[Linked(at, to)] \in At
  <2>1. here \in DOMAIN FS /\ IsLink(FS[here]) => to \in Seq(Word)
    BY RealpathAssumption DEF IsLink
  <2> HIDE DEF to
  <2>2. to \in Seq(Word) => Linked(at, to) \in At \X Seq(Word)
    BY LinkedIs
  <2> QED
    BY <2>1, <2>2 DEF Follows
<1>7. Unresolved("ENOENT") \in At /\ Unresolved("ENOTDIR") \in At
  BY UnresolvedIs
<1>8. [at EXCEPT !.path = here] \in At
  BY <1>2, <1>4
<1>9. Lookup(at, name, f) \in At
  BY <1>5, <1>6, <1>7, <1>8 DEF Lookup
<1>10. at.err # "ok" => Lookup(at, name, f) = at
  BY DEF Lookup
<1> QED
  BY <1>9, <1>10

\* w is the walk from at along s.
IsWalk(w, at, s, f) ==
    /\ w \in [0..Len(s) -> At] /\ w[0] = at
    /\ \A i \in 1..Len(s) : w[i] = Lookup(w[i - 1], s[i], f)

\* There is only one.
LEMMA WalkUnique ==
  ASSUME NEW at \in At, NEW s \in Seq(Word), NEW f \in Follows,
         NEW v, NEW w, IsWalk(v, at, s, f), IsWalk(w, at, s, f)
  PROVE  v = w
<1> DEFINE T == {i \in 0..Len(s) : v[i] = w[i]}
<1>1. Len(s) \in Nat
  OBVIOUS
<1>2. 0 \in T
  BY <1>1 DEF IsWalk
<1>3. ASSUME NEW i \in 1..Len(s), i - 1 \in T PROVE i \in T
  BY <1>1, <1>3 DEF IsWalk
<1> HIDE DEF T
<1>4. \A i \in 0..Len(s) : i \in T
  BY <1>1, <1>2, <1>3, UpTo
<1>5. \A i \in 0..Len(s) : v[i] = w[i]
  BY <1>4 DEF T
<1> QED
  BY <1>5 DEF IsWalk

\* There is one.
LEMMA WalkExists ==
  ASSUME NEW at \in At, NEW s \in Seq(Word), NEW f \in Follows
  PROVE  \E w : IsWalk(w, at, s, f)
<1> DEFINE h == [n \in Nat |-> [x \in At |-> IF n < Len(s) THEN Lookup(x, s[n + 1], f) ELSE x]]
<1>1. Len(s) \in Nat /\ \A i \in 1..Len(s) : s[i] \in Word
  OBVIOUS
<1>2. h \in [Nat -> [At -> At]]
  <2>1. ASSUME NEW n \in Nat, NEW x \in At
        PROVE  (IF n < Len(s) THEN Lookup(x, s[n + 1], f) ELSE x) \in At
    <3>1. n < Len(s) => n + 1 \in 1..Len(s)
      BY <1>1
    <3> QED
      BY <1>1, <3>1, LookupIs
  <2> QED
    BY <2>1
<1>2a. \A i \in 1..Len(s) : \A x \in At : h[i - 1][x] = Lookup(x, s[i], f)
  <2> TAKE i \in 1..Len(s)
  <2> TAKE x \in At
  <2>1. i - 1 \in Nat /\ i - 1 < Len(s) /\ (i - 1) + 1 = i
    BY <1>1
  <2> QED
    BY <2>1
<1> HIDE DEF h
<1>3. PICK g : IsDefined(g, At, at, h)
  BY <1>2, Recursion DEF IsRule
<1> DEFINE w == [i \in 0..Len(s) |-> g[i]]
<1>4. w \in [0..Len(s) -> At] /\ w[0] = at
  BY <1>1, <1>3 DEF IsDefined
<1>5. ASSUME NEW i \in 1..Len(s) PROVE w[i] = Lookup(w[i - 1], s[i], f)
  <2>1. i - 1 \in Nat /\ (i - 1) + 1 = i /\ w[i - 1] = g[i - 1] /\ w[i] = g[i]
    BY <1>1
  <2>2. g[i] = h[i - 1][g[i - 1]] /\ g[i - 1] \in At
    BY <1>3, <2>1 DEF IsDefined
  <2> HIDE DEF w
  <2> QED
    BY <1>2a, <2>1, <2>2
<1> QED
  BY <1>4, <1>5 DEF IsWalk

\* Walk is where it ends.
LEMMA WalkIs ==
  ASSUME NEW at \in At, NEW s \in Seq(Word), NEW f \in Follows, NEW w, IsWalk(w, at, s, f)
  PROVE  Walk(at, s, f) = w[Len(s)] /\ Walk(at, s, f) \in At
<1> DEFINE Q(v) == v = [i \in 0..Len(s) |-> IF i = 0 THEN at ELSE Lookup(v[i - 1], s[i], f)]
           c == CHOOSE v : Q(v)
<1>0. Len(s) \in Nat /\ \A i \in 1..Len(s) : s[i] \in Word
  OBVIOUS
<1>1. Q(w)
  BY <1>0 DEF IsWalk
<1>2. Q(c)
  BY <1>1
<1>3. Walk(at, s, f) = c[Len(s)]
  BY DEF Walk
<1> HIDE DEF c
<1>4. \A i \in 0..Len(s) : c[i] = IF i = 0 THEN at ELSE Lookup(c[i - 1], s[i], f)
  BY <1>2
<1>5. DOMAIN c = 0..Len(s)
  BY <1>2
<1> DEFINE T == {i \in 0..Len(s) : c[i] = w[i]}
<1>6. 0 \in T
  BY <1>0, <1>4 DEF IsWalk
<1>7. ASSUME NEW i \in 1..Len(s), i - 1 \in T PROVE i \in T
  <2>1. i \in 0..Len(s) /\ i # 0
    OBVIOUS
  <2>2. c[i] = Lookup(c[i - 1], s[i], f)
    BY <1>4, <2>1
  <2> QED
    BY <1>7, <2>1, <2>2 DEF IsWalk
<1> HIDE DEF T
<1>8. \A i \in 0..Len(s) : i \in T
  BY <1>0, <1>6, <1>7, UpTo
<1>9. c[Len(s)] = w[Len(s)] /\ w[Len(s)] \in At
  <2>1. Len(s) \in 0..Len(s)
    BY <1>0
  <2> QED
    BY <1>8, <2>1 DEF T, IsWalk
<1> QED
  BY <1>3, <1>9

\* A walk ends somewhere.
LEMMA WalkType ==
  ASSUME NEW at \in At, NEW s \in Seq(Word), NEW f \in Follows
  PROVE  Walk(at, s, f) \in At
BY WalkExists, WalkIs

\* The empty string leads nowhere.
LEMMA WalkEmpty ==
  ASSUME NEW at \in At, NEW f \in Follows
  PROVE  Walk(at, <<>>, f) = at
<1>0. <<>> \in Seq(Word) /\ Len(<<>>) = 0
  OBVIOUS
<1>1. PICK w : IsWalk(w, at, <<>>, f)
  BY <1>0, WalkExists
<1> QED
  BY <1>0, <1>1, WalkIs DEF IsWalk

\* The way along two strings.
LEMMA WalkJoin ==
  ASSUME NEW at \in At, NEW s \in Seq(Word), NEW t \in Seq(Word), NEW f \in Follows
  PROVE  Walk(at, s \o t, f) = Walk(Walk(at, s, f), t, f)
<1> DEFINE m == Len(s)
           st == s \o t
<1>0. m \in Nat /\ Len(t) \in Nat
  OBVIOUS
<1>1. st \in Seq(Word) /\ Len(st) = m + Len(t)
  OBVIOUS
<1>2. \A i \in 1..m : st[i] = s[i]
  BY <1>0
<1>3. \A i \in 1..Len(t) : st[m + i] = t[i]
  BY <1>0
<1> HIDE DEF st, m
<1>4. PICK w : IsWalk(w, at, st, f)
  BY <1>1, WalkExists
<1>5. /\ w \in [0..(m + Len(t)) -> At] /\ w[0] = at
      /\ \A i \in 1..(m + Len(t)) : w[i] = Lookup(w[i - 1], st[i], f)
  BY <1>1, <1>4 DEF IsWalk
<1> DEFINE u == [i \in 0..m |-> w[i]]
           v == [i \in 0..Len(t) |-> w[m + i]]
<1>6. IsWalk(u, at, s, f)
  <2>1. u \in [0..m -> At] /\ u[0] = at
    BY <1>0, <1>5
  <2>2. ASSUME NEW i \in 1..m PROVE u[i] = Lookup(u[i - 1], s[i], f)
    <3>1. i \in 1..(m + Len(t)) /\ i \in 0..m /\ i - 1 \in 0..m
      BY <1>0
    <3>2. u[i] = w[i] /\ u[i - 1] = w[i - 1]
      BY <3>1
    <3> HIDE DEF u
    <3> QED
      BY <1>2, <1>5, <3>1, <3>2
  <2> HIDE DEF u
  <2> QED
    BY <2>1, <2>2 DEF IsWalk, m
<1>7. Walk(at, s, f) = w[m] /\ w[m] \in At
  <2>1. m \in 0..m /\ m \in 0..(m + Len(t))
    BY <1>0
  <2>2. u[m] = w[m]
    BY <2>1
  <2> HIDE DEF u
  <2> QED
    BY <1>5, <1>6, <2>1, <2>2, WalkIs DEF m
<1>8. IsWalk(v, w[m], t, f)
  <2>1. v \in [0..Len(t) -> At] /\ v[0] = w[m]
    <3>1. \A i \in 0..Len(t) : m + i \in 0..(m + Len(t))
      BY <1>0
    <3>2. \A i \in 0..Len(t) : w[m + i] \in At
      BY <1>5, <3>1
    <3>3. m + 0 = m /\ 0 \in 0..Len(t)
      BY <1>0
    <3> QED
      BY <3>2, <3>3
  <2>2. ASSUME NEW i \in 1..Len(t) PROVE v[i] = Lookup(v[i - 1], t[i], f)
    <3>1. m + i \in 1..(m + Len(t)) /\ i \in 0..Len(t) /\ i - 1 \in 0..Len(t)
          /\ m + (i - 1) = (m + i) - 1
      BY <1>0
    <3>2. v[i] = w[m + i] /\ v[i - 1] = w[(m + i) - 1]
      BY <3>1
    <3>3. st[m + i] = t[i]
      BY <1>3
    <3>4. w[m + i] = Lookup(w[(m + i) - 1], st[m + i], f)
      BY <1>5, <3>1
    <3> HIDE DEF v
    <3> QED
      BY <3>2, <3>3, <3>4
  <2> HIDE DEF v
  <2> QED
    BY <2>1, <2>2 DEF IsWalk
<1>9. Walk(w[m], t, f) = w[m + Len(t)]
  <2>1. Len(t) \in 0..Len(t)
    BY <1>0
  <2>2. v[Len(t)] = w[m + Len(t)]
    BY <2>1
  <2> HIDE DEF v
  <2> QED
    BY <1>7, <1>8, <2>2, WalkIs
<1>10. Walk(at, st, f) = w[m + Len(t)]
  BY <1>1, <1>4, WalkIs
<1> QED
  BY <1>7, <1>9, <1>10 DEF st

\* A string of one component.
LEMMA WalkOne ==
  ASSUME NEW at \in At, NEW name \in Word, NEW f \in Follows
  PROVE  Walk(at, <<name>>, f) = Lookup(at, name, f)
<1>0. <<name>> \in Seq(Word) /\ Len(<<name>>) = 1 /\ <<name>>[1] = name
  OBVIOUS
<1>1. PICK w : IsWalk(w, at, <<name>>, f)
  BY <1>0, WalkExists
<1>2. w[0] = at /\ w[1] = Lookup(w[1 - 1], <<name>>[1], f)
  BY <1>0, <1>1 DEF IsWalk
<1>3. Walk(at, <<name>>, f) = w[1]
  BY <1>0, <1>1, WalkIs
<1> QED
  BY <1>0, <1>2, <1>3

\* The first component and the rest.
LEMMA WalkFirst ==
  ASSUME NEW at \in At, NEW s \in Seq(Word), s # <<>>, NEW f \in Follows
  PROVE  Walk(at, s, f) = Walk(Lookup(at, Head(s), f), Tail(s), f)
<1> DEFINE n == <<Head(s)>>
           r == Tail(s)
<1>1. s = n \o r /\ r \in Seq(Word) /\ n \in Seq(Word)
  OBVIOUS
<1>2. Walk(at, n, f) = Lookup(at, Head(s), f)
  <2>1. Head(s) \in Word
    OBVIOUS
  <2> QED
    BY <2>1, WalkOne
<1> HIDE DEF n, r
<1>3. Walk(at, n \o r, f) = Walk(Walk(at, n, f), r, f)
  BY <1>1, WalkJoin
<1>4. Walk(at, s, f) = Walk(Lookup(at, Head(s), f), r, f)
  BY <1>1, <1>2, <1>3
<1> QED
  BY <1>4 DEF r

\* What one way of following links resolves, the other one resolves alike.
Extends(f, g) == \A x \in At \X Seq(Word) : f[x].err = "ok" => g[x] = f[x]

\* Following a link never lowers the number of links.
Grows(f) == \A x \in At \X Seq(Word) : f[x].err = "ok" => f[x].links >= x[1].links

\* One component, with a way that resolves more links.
LEMMA LookupExtends ==
  ASSUME NEW at \in At, NEW name \in Word, NEW f \in Follows, NEW g \in Follows,
         Extends(f, g), Lookup(at, name, f).err = "ok"
  PROVE  Lookup(at, name, g) = Lookup(at, name, f)
<1> DEFINE here == Append(at.path, name)
           to == FS[here].to
<1>1. here \in DOMAIN FS /\ IsLink(FS[here]) => Linked(at, to) \in At \X Seq(Word)
  <2>1. here \in DOMAIN FS /\ IsLink(FS[here]) => to \in Seq(Word)
    BY RealpathAssumption DEF IsLink
  <2> HIDE DEF to
  <2>2. to \in Seq(Word) => Linked(at, to) \in At \X Seq(Word)
    BY LinkedIs
  <2> QED
    BY <2>1, <2>2
<1>2. CASE Lookup(at, name, f) = f[Linked(at, to)] /\ here \in DOMAIN FS /\ IsLink(FS[here])
           /\ Lookup(at, name, g) = g[Linked(at, to)]
  BY <1>1, <1>2 DEF Extends
<1> QED
  BY <1>2 DEF Lookup

\* One component never lowers the number of links.
LEMMA LookupGrows ==
  ASSUME NEW at \in At, NEW name \in Word, NEW f \in Follows,
         Grows(f), Lookup(at, name, f).err = "ok"
  PROVE  Lookup(at, name, f).links >= at.links
<1> DEFINE here == Append(at.path, name)
           to == FS[here].to
<1>0. at.links \in Nat /\ Lookup(at, name, f).links \in Nat
  BY LookupIs DEF At
<1>1. here \in DOMAIN FS /\ IsLink(FS[here])
        => Linked(at, to) \in At \X Seq(Word) /\ Linked(at, to)[1].links = at.links + 1
  <2>1. here \in DOMAIN FS /\ IsLink(FS[here]) => to \in Seq(Word)
    BY RealpathAssumption DEF IsLink
  <2> HIDE DEF to
  <2>2. to \in Seq(Word)
          => Linked(at, to) \in At \X Seq(Word) /\ Linked(at, to)[1].links = at.links + 1
    BY LinkedIs
  <2> QED
    BY <2>1, <2>2
<1>2. CASE Lookup(at, name, f) = f[Linked(at, to)] /\ here \in DOMAIN FS /\ IsLink(FS[here])
  BY <1>0, <1>1, <1>2 DEF Grows
<1>3. CASE Lookup(at, name, f) \in {Unresolved("ENOENT"), Unresolved("ENOTDIR")}
  BY <1>3, UnresolvedIs
<1>4. CASE Lookup(at, name, f) = at \/ \E p : Lookup(at, name, f) = [at EXCEPT !.path = p]
  <2>1. \A p : [at EXCEPT !.path = p].links = at.links
    BY DEF At
  <2>2. Lookup(at, name, f).links = at.links
    BY <1>4, <2>1
  <2> QED
    BY <1>0, <2>2
<1>5. \/ Lookup(at, name, f) \in {Unresolved("ENOENT"), Unresolved("ENOTDIR")}
      \/ Lookup(at, name, f) = at \/ \E p : Lookup(at, name, f) = [at EXCEPT !.path = p]
      \/ Lookup(at, name, f) = f[Linked(at, to)] /\ here \in DOMAIN FS /\ IsLink(FS[here])
  BY DEF Lookup
<1> QED
  BY <1>2, <1>3, <1>4, <1>5

\* A string that is resolved is resolved alike with a way that resolves more.
LEMMA WalkExtends ==
  ASSUME NEW at \in At, NEW s \in Seq(Word), NEW f \in Follows, NEW g \in Follows,
         Extends(f, g), Walk(at, s, f).err = "ok"
  PROVE  Walk(at, s, g) = Walk(at, s, f)
<1>0. Len(s) \in Nat /\ \A i \in 1..Len(s) : s[i] \in Word
  OBVIOUS
<1>1. PICK w : IsWalk(w, at, s, f)
  BY WalkExists
<1>2. PICK v : IsWalk(v, at, s, g)
  BY WalkExists
<1> DEFINE T == {i \in 0..Len(s) : w[i].err = "ok" => v[i] = w[i]}
<1>3. 0 \in T
  BY <1>0, <1>1, <1>2 DEF IsWalk
<1>4. ASSUME NEW i \in 1..Len(s), i - 1 \in T PROVE i \in T
  <2>0. i \in 0..Len(s) /\ i - 1 \in 0..Len(s) /\ s[i] \in Word
    BY <1>0
  <2>1. w[i] = Lookup(w[i - 1], s[i], f) /\ v[i] = Lookup(v[i - 1], s[i], g)
        /\ w[i - 1] \in At /\ v[i - 1] \in At
    BY <2>0, <1>1, <1>2 DEF IsWalk
  <2>2. ASSUME w[i].err = "ok" PROVE v[i] = w[i]
    <3>1. w[i - 1].err = "ok"
      BY <2>0, <2>1, <2>2, LookupIs
    <3>2. v[i - 1] = w[i - 1]
      BY <1>4, <3>1
    <3> QED
      BY <2>0, <2>1, <2>2, <3>2, LookupExtends
  <2> QED
    BY <2>0, <2>2
<1> HIDE DEF T
<1>5. Len(s) \in T
  <2>1. \A i \in 0..Len(s) : i \in T
    BY <1>0, <1>3, <1>4, UpTo
  <2> QED
    BY <1>0, <2>1
<1>6. Walk(at, s, f) = w[Len(s)] /\ Walk(at, s, g) = v[Len(s)]
  BY <1>1, <1>2, WalkIs
<1> QED
  BY <1>5, <1>6 DEF T

\* Its links are counted, and it begins at a place without an error.
LEMMA WalkGrows ==
  ASSUME NEW at \in At, NEW s \in Seq(Word), NEW f \in Follows, Grows(f), Walk(at, s, f).err = "ok"
  PROVE  Walk(at, s, f).links >= at.links /\ at.err = "ok"
<1>0. Len(s) \in Nat /\ \A i \in 1..Len(s) : s[i] \in Word
  OBVIOUS
<1>1. PICK w : IsWalk(w, at, s, f)
  BY WalkExists
<1> DEFINE T == {i \in 0..Len(s) : w[i].err = "ok" => w[i].links >= at.links /\ at.err = "ok"}
<1>2. at.links \in Nat
  BY DEF At
<1>3. 0 \in T
  BY <1>0, <1>1, <1>2 DEF IsWalk
<1>4. ASSUME NEW i \in 1..Len(s), i - 1 \in T PROVE i \in T
  <2>0. i \in 0..Len(s) /\ i - 1 \in 0..Len(s) /\ s[i] \in Word
    BY <1>0
  <2>1. w[i] = Lookup(w[i - 1], s[i], f) /\ w[i - 1] \in At
    BY <2>0, <1>1 DEF IsWalk
  <2>2. ASSUME w[i].err = "ok" PROVE w[i].links >= at.links /\ at.err = "ok"
    <3>1. w[i - 1].err = "ok" /\ w[i] \in At
      BY <2>0, <2>1, <2>2, LookupIs
    <3>2. w[i - 1].links >= at.links /\ at.err = "ok"
      BY <1>4, <3>1
    <3>3. w[i].links >= w[i - 1].links
      BY <2>0, <2>1, <2>2, LookupGrows
    <3>4. w[i].links \in Nat /\ w[i - 1].links \in Nat
      BY <2>1, <3>1 DEF At
    <3> QED
      BY <1>2, <3>2, <3>3, <3>4
  <2> QED
    BY <2>0, <2>2
<1> HIDE DEF T
<1>5. Len(s) \in T
  <2>1. \A i \in 0..Len(s) : i \in T
    BY <1>0, <1>3, <1>4, UpTo
  <2> QED
    BY <1>0, <2>1
<1>6. Walk(at, s, f) = w[Len(s)]
  BY <1>1, WalkIs
<1> QED
  BY <1>5, <1>6 DEF T

\* What Resolve is.
LEMMA ResolveIs ==
  /\ \A n \in Nat : Resolve[n] \in Follows
  /\ \A x \in At \X Seq(Word) : Resolve[0][x] = Unresolved("ELOOP")
  /\ \A n \in Nat : \A x \in At \X Seq(Word) :
        Resolve[n + 1][x] = Walk(x[1], x[2], Resolve[n])
<1> DEFINE X == At \X Seq(Word)
           a == [x \in X |-> Unresolved("ELOOP")]
           h == [n \in Nat |-> [f \in Follows |-> [x \in X |-> Walk(x[1], x[2], f)]]]
           Q(r) == r = [n \in Nat |-> [x \in X |->
                     IF n = 0 THEN Unresolved("ELOOP") ELSE Walk(x[1], x[2], r[n - 1])]]
<1>1. a \in Follows
  BY UnresolvedIs DEF Follows
<1>2. IsRule(h, Follows)
  <2>1. ASSUME NEW f \in Follows PROVE [x \in X |-> Walk(x[1], x[2], f)] \in Follows
    <3>1. \A x \in X : Walk(x[1], x[2], f) \in At
      BY WalkType
    <3> QED
      BY <3>1 DEF Follows
  <2> QED
    BY <2>1 DEF IsRule
<1>3. \A n \in Nat : \A f \in Follows : h[n][f] = [x \in X |-> Walk(x[1], x[2], f)]
  OBVIOUS
<1>4. \A x \in X : a[x] = Unresolved("ELOOP")
  OBVIOUS
<1>5. a = [x \in X |-> Unresolved("ELOOP")]
  OBVIOUS
<1> HIDE DEF a, h
<1>6. PICK g : IsDefined(g, Follows, a, h)
  BY <1>1, <1>2, Recursion
<1>7. /\ g \in [Nat -> Follows] /\ g[0] = a
      /\ \A n \in Nat : g[n + 1] = [x \in X |-> Walk(x[1], x[2], g[n])]
  BY <1>3, <1>6 DEF IsDefined
<1>8. Q(g)
  <2>1. ASSUME NEW n \in Nat
        PROVE  g[n] = [x \in X |->
                   IF n = 0 THEN Unresolved("ELOOP") ELSE Walk(x[1], x[2], g[n - 1])]
    <3>1. CASE n = 0
      BY <1>5, <1>7, <3>1
    <3>2. CASE n # 0
      <4>1. n - 1 \in Nat /\ (n - 1) + 1 = n
        BY <3>2
      <4>2. g[n] = [x \in X |-> Walk(x[1], x[2], g[n - 1])]
        BY <1>7, <4>1
      <4> QED
        BY <3>2, <4>2
    <3> QED
      BY <3>1, <3>2
  <2> QED
    BY <1>7, <2>1
<1>9. Q(Resolve)
  <2>1. Resolve = CHOOSE r : Q(r)
    BY DEF Resolve
  <2> QED
    BY <1>8, <2>1
<1>10. \A n \in Nat : Resolve[n] = [x \in X |->
           IF n = 0 THEN Unresolved("ELOOP") ELSE Walk(x[1], x[2], Resolve[n - 1])]
  BY <1>9
<1>11. ASSUME NEW n \in Nat PROVE \A x \in X : Resolve[n + 1][x] = Walk(x[1], x[2], Resolve[n])
  <2>1. n + 1 \in Nat /\ n + 1 # 0 /\ (n + 1) - 1 = n
    OBVIOUS
  <2>2. Resolve[n + 1] = [x \in X |->
           IF n + 1 = 0 THEN Unresolved("ELOOP") ELSE Walk(x[1], x[2], Resolve[(n + 1) - 1])]
    BY <1>10, <2>1
  <2> QED
    BY <2>1, <2>2
<1>12. \A n \in Nat : Resolve[n] \in Follows
  <2> DEFINE T == {n \in Nat : Resolve[n] \in Follows}
  <2>1. 0 \in T
    <3>1. Resolve[0] = a
      BY <1>5, <1>10
    <3> QED
      BY <1>1, <3>1
  <2>2. ASSUME NEW n \in Nat, n \in T PROVE n + 1 \in T
    <3>1. Resolve[n + 1] = [x \in X |-> Walk(x[1], x[2], Resolve[n])]
      <4>1. n + 1 \in Nat /\ n + 1 # 0 /\ (n + 1) - 1 = n
        OBVIOUS
      <4> QED
        BY <1>10, <4>1
    <3>2. \A x \in X : Walk(x[1], x[2], Resolve[n]) \in At
      BY <2>2, WalkType
    <3>3. Resolve[n + 1] \in Follows
      BY <3>1, <3>2 DEF Follows
    <3> QED
      BY <3>3
  <2> HIDE DEF T
  <2>3. ASSUME NEW n \in Nat PROVE n \in T
    <3>1. ASSUME NEW i \in 1..n, i - 1 \in T PROVE i \in T
      <4>1. i - 1 \in Nat /\ (i - 1) + 1 = i
        OBVIOUS
      <4> QED
        BY <2>2, <3>1, <4>1
    <3>2. \A i \in 0..n : i \in T
      BY <2>1, <3>1, UpTo
    <3> QED
      BY <3>2
  <2> QED
    BY <2>3 DEF T
<1>13. \A x \in X : Resolve[0][x] = Unresolved("ELOOP")
  <2>1. Resolve[0] = a
    BY <1>5, <1>10
  <2> QED
    BY <1>4, <2>1
<1> QED
  BY <1>11, <1>12, <1>13

\* A bound on the depth changes only what is beyond it, and links are counted.
LEMMA ResolveGrows ==
  \A n \in Nat : Extends(Resolve[n], Resolve[n + 1]) /\ Grows(Resolve[n])
<1> DEFINE T == {n \in Nat : Extends(Resolve[n], Resolve[n + 1]) /\ Grows(Resolve[n])}
<1>1. 0 \in T
  <2>1. \A x \in At \X Seq(Word) : Resolve[0][x].err # "ok"
    BY ResolveIs, UnresolvedIs
  <2> QED
    BY <2>1 DEF Extends, Grows
<1>2. ASSUME NEW n \in Nat, n \in T PROVE n + 1 \in T
  <2>0. n + 1 \in Nat /\ Resolve[n] \in Follows /\ Resolve[n + 1] \in Follows
    BY ResolveIs
  <2>1. ASSUME NEW x \in At \X Seq(Word), Resolve[n + 1][x].err = "ok"
        PROVE  /\ Resolve[(n + 1) + 1][x] = Resolve[n + 1][x]
               /\ Resolve[n + 1][x].links >= x[1].links
    <3>1. x[1] \in At /\ x[2] \in Seq(Word)
      OBVIOUS
    <3>2. /\ Resolve[n + 1][x] = Walk(x[1], x[2], Resolve[n])
          /\ Resolve[(n + 1) + 1][x] = Walk(x[1], x[2], Resolve[n + 1])
      BY <2>0, ResolveIs
    <3>3. Extends(Resolve[n], Resolve[n + 1]) /\ Grows(Resolve[n])
      BY <1>2
    <3>4. Walk(x[1], x[2], Resolve[n + 1]) = Walk(x[1], x[2], Resolve[n])
      BY <2>0, <2>1, <3>1, <3>2, <3>3, WalkExtends
    <3>5. Walk(x[1], x[2], Resolve[n]).links >= x[1].links
      BY <2>0, <2>1, <3>1, <3>2, <3>3, WalkGrows
    <3> QED
      BY <3>2, <3>4, <3>5
  <2>2. Extends(Resolve[n + 1], Resolve[(n + 1) + 1]) /\ Grows(Resolve[n + 1])
    BY <2>1 DEF Extends, Grows
  <2> QED
    BY <2>0, <2>2
<1> HIDE DEF T
<1>3. ASSUME NEW n \in Nat PROVE n \in T
  <2>1. ASSUME NEW i \in 1..n, i - 1 \in T PROVE i \in T
    <3>1. i - 1 \in Nat /\ (i - 1) + 1 = i
      OBVIOUS
    <3> QED
      BY <1>2, <2>1, <3>1
  <2>2. \A i \in 0..n : i \in T
    BY <1>1, <2>1, UpTo
  <2> QED
    BY <2>2
<1> QED
  BY <1>3 DEF T

\* The links of a path are resolved less than SYMLINKS deep.
Follow == Resolve[SYMLINKS]

\* A link that is resolved is resolved like a path.
LEMMA FollowIs ==
  /\ Follow \in Follows /\ Grows(Follow)
  /\ \A x \in At \X Seq(Word) : Follow[x].err = "ok" => Follow[x] = Walk(x[1], x[2], Follow)
<1>1. SYMLINKS \in Nat /\ SYMLINKS # 0
  BY RealpathAssumption
<1>2. SYMLINKS - 1 \in Nat /\ (SYMLINKS - 1) + 1 = SYMLINKS
  BY <1>1
<1> DEFINE less == Resolve[SYMLINKS - 1]
<1>3. less \in Follows /\ Follow \in Follows /\ Extends(less, Follow) /\ Grows(Follow)
  <2>1. Resolve[SYMLINKS - 1] \in Follows /\ Resolve[SYMLINKS] \in Follows
    BY <1>1, <1>2, ResolveIs
  <2>2. Extends(Resolve[SYMLINKS - 1], Resolve[(SYMLINKS - 1) + 1])
    BY <1>2, ResolveGrows
  <2>3. Grows(Resolve[SYMLINKS])
    BY <1>1, ResolveGrows
  <2> QED
    BY <1>2, <2>1, <2>2, <2>3 DEF Follow
<1>4. \A x \in At \X Seq(Word) : Follow[x] = Walk(x[1], x[2], less)
  <2>1. \A x \in At \X Seq(Word) :
           Resolve[(SYMLINKS - 1) + 1][x] = Walk(x[1], x[2], Resolve[SYMLINKS - 1])
    BY <1>2, ResolveIs
  <2> QED
    BY <1>2, <2>1 DEF Follow
<1> HIDE DEF less
<1>5. ASSUME NEW x \in At \X Seq(Word), Follow[x].err = "ok"
      PROVE  Follow[x] = Walk(x[1], x[2], Follow)
  <2>1. x[1] \in At /\ x[2] \in Seq(Word)
    OBVIOUS
  <2> QED
    BY <1>3, <1>4, <1>5, <2>1, WalkExtends
<1> QED
  BY <1>3, <1>5

\* A component that leads somewhere: what it is, and where it leads.
LEMMA NextComponent ==
  ASSUME NEW at \in At, at.err = "ok", NEW s \in Seq(Word), s # <<>>,
         Walk(at, s, Follow).err = "ok"
  PROVE  LET name == Head(s)
             here == Append(at.path, name)
         IN  /\ name \in {"/", "."} => Walk(at, Tail(s), Follow) = Walk(at, s, Follow)
             /\ name = ".." =>
                  Walk([at EXCEPT !.path = IF at.path = <<>> THEN <<>> ELSE Front(at.path)],
                       Tail(s), Follow) = Walk(at, s, Follow)
             /\ name \notin {"/", ".", ".."} =>
                  /\ here \in DOMAIN FS
                  /\ ~IsLink(FS[here]) =>
                        Walk([at EXCEPT !.path = here], Tail(s), Follow) = Walk(at, s, Follow)
                  /\ IsLink(FS[here]) =>
                        /\ Walk(Linked(at, FS[here].to)[1], FS[here].to \o <<"/">> \o Tail(s), Follow)
                             = Walk(at, s, Follow)
                        /\ Walk(at, s, Follow).links > at.links
<1> DEFINE name == Head(s)
           rest == Tail(s)
           here == Append(at.path, name)
           to == FS[here].to
           next == Lookup(at, name, Follow)
<1>0. name \in Word /\ rest \in Seq(Word) /\ Follow \in Follows /\ Grows(Follow)
  BY FollowIs
<1>1. Walk(at, s, Follow) = Walk(next, rest, Follow) /\ next \in At
  BY <1>0, WalkFirst, LookupIs
<1>2. next.err = "ok" /\ Walk(at, s, Follow).links >= next.links
  BY <1>0, <1>1, WalkGrows
<1>3. Unresolved("ENOENT").err # "ok" /\ Unresolved("ENOTDIR").err # "ok"
  BY UnresolvedIs
<1>4. name \in {"/", "."} => next = at
  BY <1>2, <1>3 DEF Lookup
<1>5. name = ".." => next = [at EXCEPT !.path = IF at.path = <<>> THEN <<>> ELSE Front(at.path)]
  BY <1>2, <1>3 DEF Lookup
<1>6. name \notin {"/", ".", ".."} =>
         /\ here \in DOMAIN FS
         /\ ~IsLink(FS[here]) => next = [at EXCEPT !.path = here]
         /\ IsLink(FS[here]) => next = Follow[Linked(at, to)]
  BY <1>2, <1>3 DEF Lookup
<1>7. ASSUME name \notin {"/", ".", ".."}, IsLink(FS[here])
      PROVE  /\ Walk(Linked(at, to)[1], to \o <<"/">> \o rest, Follow) = Walk(next, rest, Follow)
             /\ Walk(at, s, Follow).links > at.links
  <2>1. to \in Seq(Word)
    BY <1>6, <1>7, RealpathAssumption DEF IsLink
  <2>2. next = Follow[Linked(at, to)]
    BY <1>6, <1>7
  <2>s. Walk(at, s, Follow) \in At
    BY <1>0, WalkType
  <2> HIDE DEF to, next, here, rest, name
  <2> DEFINE l == Linked(at, to)[1]
             sl == <<"/">>
  <2>3. /\ Linked(at, to) \in At \X Seq(Word) /\ l \in At /\ l.links = at.links + 1
        /\ Linked(at, to)[2] = to
    BY <2>1, LinkedIs
  <2>4. next = Walk(l, to, Follow) /\ next.links >= l.links
    BY <1>2, <2>2, <2>3, FollowIs DEF Grows
  <2>5. sl \in Seq(Word) /\ "/" \in Word
    BY DEF Word
  <2>6. Walk(next, sl, Follow) = next
    <3>1. Lookup(next, "/", Follow) = next
      BY DEF Lookup
    <3> QED
      BY <1>0, <1>1, <2>5, <3>1, WalkOne
  <2> HIDE DEF l, sl
  <2>7. to \o sl \in Seq(Word)
    BY <2>1, <2>5
  <2>8. Walk(l, (to \o sl) \o rest, Follow) = Walk(Walk(l, to \o sl, Follow), rest, Follow)
    BY <1>0, <2>3, <2>7, WalkJoin
  <2>9. Walk(l, to \o sl, Follow) = next
    BY <1>0, <2>1, <2>3, <2>4, <2>5, <2>6, WalkJoin
  <2>10. Walk(at, s, Follow).links > at.links
    <3>1. at.links \in Nat /\ next.links \in Nat /\ Walk(at, s, Follow).links \in Nat
      BY <1>1, <2>s DEF At
    <3> QED
      BY <1>2, <2>3, <2>4, <3>1
  <2> QED
    BY <2>8, <2>9, <2>10 DEF l, sl
<1> HIDE DEF next
<1> QED
  BY <1>1, <1>4, <1>5, <1>6, <1>7

-----------------------------------------------------------------------------
(* eio__realpath pastes the target of a link before the rest of the path;  *)
(* the reference resolves it first.  Both lead to the same place.          *)

\* Where eio__realpath is, as a place of the reference.
Reached == [path |-> rpres, links |-> SYMLINKS - symlinks, err |-> "ok"]

\* What is left of the path leads from there to where all of it leads.
AgreesInv ==
    /\ rppc = "walk" =>
         /\ rppath \in Seq(Word) \ {<<>>}
         /\ Target.err = "ok" => Walk(Reached, rprel, Follow) = Target
    /\ RealpathAgrees

\* The target is a walk from the start.
LEMMA TargetIs ==
  ASSUME NEW p \in Seq(Word), p # <<>>
  PROVE  LET st == [path |-> IF Head(p) = "/" THEN <<>> ELSE Cwd, links |-> 0, err |-> "ok"]
         IN  st \in At /\ Resolve[SYMLINKS + 1][<<st, p>>] = Walk(st, p, Follow)
<1> DEFINE st == [path |-> IF Head(p) = "/" THEN <<>> ELSE Cwd, links |-> 0, err |-> "ok"]
<1>1. SYMLINKS \in Nat /\ Cwd \in Seq(Word) /\ <<>> \in Seq(Word)
  BY RealpathAssumption
<1>2. st \in At
  BY <1>1 DEF At
<1> HIDE DEF st
<1>3. <<st, p>> \in At \X Seq(Word) /\ <<st, p>>[1] = st /\ <<st, p>>[2] = p
  BY <1>2
<1>4. Resolve[SYMLINKS + 1][<<st, p>>] = Walk(st, p, Follow)
  BY <1>1, <1>3, ResolveIs DEF Follow
<1> QED
  BY <1>2, <1>4 DEF st

\* No request.
LEMMA AgreesInit == RpInit => AgreesInv
BY DEF RpInit, AgreesInv, RealpathAgrees

\* A path of the script.
LEMMA AgreesStart ==
  ASSUME RealpathStart
  PROVE  AgreesInv'
<1>1. PICK path \in Paths :
         /\ rppath' = path /\ rprel' = path /\ symlinks' = SYMLINKS
         /\ \/ path = <<>> /\ rppc' = "done"
            \/ path # <<>> /\ rppc' = "walk" /\ rpres' = IF Head(path) = "/" THEN <<>> ELSE Cwd
  BY DEF RealpathStart, RpReturn
<1>2. path \in Seq(Word) /\ SYMLINKS \in Nat
  BY RealpathAssumption
<1>3. CASE path = <<>>
  BY <1>1, <1>3 DEF AgreesInv, RealpathAgrees
<1>4. CASE path # <<>>
  <2> DEFINE st == [path |-> IF Head(path) = "/" THEN <<>> ELSE Cwd, links |-> 0, err |-> "ok"]
  <2>1. Reached' = st
    BY <1>1, <1>2, <1>4 DEF Reached
  <2>2. Target' = Resolve[SYMLINKS + 1][<<st, path>>]
    BY <1>1 DEF Target, Start
  <2>3. Target' = Walk(st, path, Follow)
    BY <1>2, <1>4, <2>2, TargetIs
  <2> QED
    BY <1>1, <1>2, <1>4, <2>1, <2>3 DEF AgreesInv, RealpathAgrees
<1> QED
  BY <1>3, <1>4

\* A component of what is left.
LEMMA AgreesWalk ==
  ASSUME RpInv, AgreesInv, RealpathWalk
  PROVE  AgreesInv'
<1> DEFINE t == Head(rprel)
           rest == Tail(rprel)
           here == Append(rpres, t)
           node == readlink(here)
<1>0. rppc = "walk" /\ rprel \in Seq(Word) /\ rprel # <<>> /\ rppath' = rppath
      /\ rppath \in Seq(Word) \ {<<>>}
  BY DEF RpInv, RealpathWalk, AgreesInv
<1>1. rpres \in Seq(Word) /\ symlinks \in 1..SYMLINKS /\ SYMLINKS \in Nat \ {0, 1}
  BY <1>0, RealpathAssumption DEF RpInv, RealpathCanonical
<1>2. Reached \in At /\ Reached.path = rpres /\ Reached.links = SYMLINKS - symlinks
      /\ Reached.err = "ok"
  BY <1>1 DEF Reached, At
<1>3. Target' = Target
  BY <1>0 DEF Target, Start
<1>4. CASE Target.err # "ok"
  <2>1. RealpathAgrees'
    <3>1. rppc' = "done" /\ rpresult' = "ok" => FALSE
      BY <1>0 DEF RealpathWalk, BackUp, Component, FollowLink, RpReturn
    <3> QED
      BY <1>3, <1>4, <3>1 DEF RealpathAgrees
  <2> QED
    BY <1>0, <1>3, <1>4, <2>1 DEF AgreesInv
<1>5. CASE Target.err = "ok"
  <2>0. Walk(Reached, rprel, Follow) = Target
    BY <1>0, <1>5 DEF AgreesInv
  <2>1. CASE t \in {"/", ".", ".."}
    <3>1. /\ rprel' = rest /\ rppc' = "walk" /\ symlinks' = symlinks
          /\ rpres' = IF t = ".." /\ rpres # <<>> THEN Front(rpres) ELSE rpres
      BY <1>0, <2>1 DEF RealpathWalk, BackUp
    <3>2. Reached' = [Reached EXCEPT !.path = rpres']
      BY <3>1 DEF Reached
    <3>3. t # ".." => Reached' = Reached
      BY <3>1 DEF Reached
    <3>4. t = ".." => Reached' = [Reached EXCEPT !.path = IF Reached.path = <<>> THEN <<>>
                                                           ELSE Front(Reached.path)]
      BY <1>2, <3>1, <3>2
    <3>5. Walk(Reached', rest, Follow) = Target
      BY <1>0, <1>2, <1>5, <2>0, <2>1, <3>3, <3>4, NextComponent
    <3> QED
      BY <1>0, <1>3, <3>1, <3>5 DEF AgreesInv, RealpathAgrees
  <2>2. CASE t \notin {"/", ".", ".."}
    <3>0. Component(t, rest)
      BY <2>2 DEF RealpathWalk
    <3>1. /\ here \in DOMAIN FS
          /\ ~IsLink(FS[here]) => Walk([Reached EXCEPT !.path = here], rest, Follow) = Target
          /\ IsLink(FS[here]) =>
                /\ Walk(Linked(Reached, FS[here].to)[1], FS[here].to \o <<"/">> \o rest, Follow)
                     = Target
                /\ Target.links > SYMLINKS - symlinks
      BY <1>0, <1>2, <1>5, <2>0, <2>2, NextComponent
    <3>2. node = FS[here] /\ node.kind \notin {"ENOENT", "ENOTDIR"}
      BY <3>1, RealpathAssumption DEF readlink
    <3>3. CASE rppc' = "done" /\ rpresult' = "ENAMETOOLONG"
      BY <3>3 DEF AgreesInv, RealpathAgrees
    <3>4. CASE ~IsLink(FS[here]) /\ rppc' # "done"
      <4>1. rpres' = here /\ rprel' = rest /\ rppc' = "walk" /\ symlinks' = symlinks
        BY <1>0, <3>0, <3>2, <3>4 DEF Component, RpReturn
      <4>2. Reached' = [Reached EXCEPT !.path = rpres']
        <5>1. symlinks' = symlinks
          BY <4>1
        <5> QED
          BY ONLY <5>1 DEF Reached
      <4>3. Walk(Reached', rest, Follow) = Target
        BY <3>1, <3>4, <4>1, <4>2
      <4> QED
        BY <1>0, <1>3, <4>1, <4>3 DEF AgreesInv, RealpathAgrees
    <3>5. CASE IsLink(FS[here]) /\ FollowLink(node.to, rest) /\ rppc' # "done"
      <4> DEFINE to == FS[here].to
      <4>1. /\ rpres' = IF Head(to) = "/" THEN <<>> ELSE rpres
            /\ rprel' = to \o <<"/">> \o rest /\ symlinks' = symlinks - 1 /\ rppc' = "walk"
        BY <1>0, <3>2, <3>5 DEF FollowLink, RpReturn
      <4>2. Reached' = Linked(Reached, to)[1]
        <5>1. SYMLINKS - (symlinks - 1) = (SYMLINKS - symlinks) + 1
          BY <1>1
        <5>2. Linked(Reached, to)[1] = [path |-> IF Head(to) = "/" THEN <<>> ELSE Reached.path,
                                        links |-> Reached.links + 1, err |-> "ok"]
          BY DEF Linked
        <5> QED
          BY <1>2, <4>1, <5>1, <5>2 DEF Reached
      <4> QED
        BY <1>0, <1>3, <3>1, <3>5, <4>1, <4>2 DEF AgreesInv, RealpathAgrees
    <3>6. CASE /\ IsLink(FS[here]) /\ FollowLink(node.to, rest) /\ rppc' = "done"
               /\ rpresult' # "ENAMETOOLONG"
      <4>1. symlinks - 1 = 0 /\ rpresult' = "ELOOP"
        BY <1>0, <3>6 DEF FollowLink, RpReturn
      <4>2. Target.links > SYMLINKS - 1 /\ Target.links \in Nat
        <5>1. Target \in At
          BY <1>0, <1>2, <2>0, FollowIs, WalkType
        <5> QED
          BY <1>1, <3>1, <3>6, <4>1, <5>1 DEF At
      <4>3. Target.links >= SYMLINKS
        BY <1>1, <4>2
      <4> QED
        BY <1>3, <3>6, <4>1, <4>3 DEF AgreesInv, RealpathAgrees
    <3>7. \/ rppc' = "done" /\ rpresult' = "ENAMETOOLONG"
          \/ ~IsLink(FS[here]) /\ rppc' # "done"
          \/ IsLink(FS[here]) /\ FollowLink(node.to, rest)
      BY <1>0, <3>0, <3>2 DEF Component, RpReturn
    <3> QED
      BY <3>3, <3>4, <3>5, <3>6, <3>7
  <2> QED
    BY <2>1, <2>2
<1> QED
  BY <1>4, <1>5

\* All steps.
LEMMA AgreesNext == RpInv /\ AgreesInv /\ [RpNext]_rpVars => AgreesInv'
<1> SUFFICES ASSUME RpInv, AgreesInv, [RpNext]_rpVars PROVE AgreesInv'
  OBVIOUS
<1>1. CASE RealpathStart
  BY <1>1, AgreesStart
<1>2. CASE RealpathWalk
  BY <1>2, AgreesWalk
<1>3. CASE RealpathDone
  <2>1. /\ rppc = "walk" /\ rprel = <<>> /\ rpres' = rpres /\ rppc' = "done" /\ rpresult' = "ok"
        /\ rppath' = rppath /\ rppath \in Seq(Word) \ {<<>>}
    BY <1>3 DEF RealpathDone, RpReturn, AgreesInv
  <2>2. Target' = Target
    BY <2>1 DEF Target, Start
  <2>3. rpres \in Seq(Word) /\ symlinks \in 1..SYMLINKS /\ SYMLINKS \in Nat \ {0, 1}
    BY <2>1, RealpathAssumption DEF RpInv, RealpathCanonical
  <2>4. Reached \in At /\ Reached.path = rpres
    BY <2>3 DEF Reached, At
  <2>5. Target.err = "ok" => Target = Reached
    BY <2>1, <2>4, FollowIs, WalkEmpty DEF AgreesInv
  <2>6. RealpathCanonical'
    BY <2>1 DEF RpInv, RealpathCanonical
  <2> QED
    BY <2>1, <2>2, <2>4, <2>5, <2>6 DEF AgreesInv, RealpathAgrees
<1>4. CASE RpEnd
  BY <1>4 DEF RpEnd, AgreesInv, RealpathAgrees
<1>5. CASE UNCHANGED rpVars
  BY <1>5 DEF rpVars, AgreesInv, RealpathAgrees, RealpathCanonical, Reached, Target, Start
<1> QED
  BY <1>1, <1>2, <1>3, <1>4, <1>5 DEF RpNext, RpStep

-----------------------------------------------------------------------------
(* The theorems. *)

FilesInv == SfInv /\ SdInv /\ RpInv /\ AgreesInv

\* A step of the worker belongs to one of the three functions, and leaves the
\* variables of the others alone.
LEMMA FilesSteps ==
  ASSUME [FilesNext]_fileVars
  PROVE  [SfNext]_sfVars /\ [SdNext]_sdVars /\ [RpNext]_rpVars
BY DEF FilesNext, Execute, Work, Finish, Cancel, fileVars, SfNext, SdNext, RpNext

\* The invariants of the three functions hold in every state of the worker.
THEOREM FilesInvCorrect == FilesSpec => []FilesInv
<1>1. FilesInit => FilesInv
  BY SfInitInv, SdInitOK, RpInitInv, AgreesInit DEF FilesInit, FilesInv
<1>2. FilesInv /\ [FilesNext]_fileVars => FilesInv'
  <2> SUFFICES ASSUME FilesInv, [FilesNext]_fileVars PROVE FilesInv'
    OBVIOUS
  <2>1. [SfNext]_sfVars /\ [SdNext]_sdVars /\ [RpNext]_rpVars
    BY FilesSteps
  <2>2. SfInv /\ SdInv /\ RpInv /\ AgreesInv
    BY DEF FilesInv
  <2>3. SdInv'
    BY <2>1, <2>2, SdNextOK
  <2>4. SfInv'
    BY <2>1, <2>2, SfNextInv
  <2>5. RpInv'
    BY <2>1, <2>2, RpNextInv
  <2>6. AgreesInv'
    BY <2>1, <2>2, AgreesNext
  <2> QED
    BY <2>3, <2>4, <2>5, <2>6 DEF FilesInv
<1> QED
  BY <1>1, <1>2, PTL DEF FilesSpec

\* eio__sendfile sends the bytes of the range in order, without a gap or a
\* repetition, and returns their number, or -1 when there are none.
THEOREM SendfileExactCorrect == FilesSpec => []SendfileExact
<1>1. FilesInv => SendfileExact
  BY DEF FilesInv, SfInv
<1> QED
  BY <1>1, FilesInvCorrect, PTL

\* Where no call copies less than it could, all of the range is sent, however
\* much more than SENDFILE_MIN and KernelMax it is.
THEOREM SendfileWholeCorrect == FilesSpec => []SendfileWhole
<1>1. FilesInv => SendfileWhole
  BY DEF FilesInv, SfInv
<1> QED
  BY <1>1, FilesInvCorrect, PTL

\* As long as the buffer of names can grow, eio__scandir writes inside its two
\* buffers and the stack of the radix sort, and the loop of the insertion sort,
\* which tests no bound, stays in the array; also when other allocations fail.
THEOREM ScandirInBoundsCorrect ==
  ASSUME ~NamesMayFail
  PROVE  FilesSpec => []ScandirInBounds
<1>0. ~NamesMayFail
  OBVIOUS
<1> DEFINE P == sdpc # "segv"
<1>1. FilesInit => P
  BY DEF FilesInit, SdInit
<1>2. P /\ [FilesNext]_fileVars => P'
  BY <1>0, FilesSteps, NoNullCopy
<1>3. FilesInv /\ P => ScandirInBounds
  BY InBounds DEF FilesInv
<1> HIDE DEF P
<1> QED
  BY <1>1, <1>2, <1>3, FilesInvCorrect, PTL DEF FilesSpec

\* eio_readdir delivers each visible entry of the directory once, and every
\* element of $result['dents'] has the name, type and inode of one entry.
THEOREM ReaddirExactCorrect == FilesSpec => []ReaddirExact
<1>1. FilesInv => ReaddirExact
  BY Exact DEF FilesInv
<1> QED
  BY <1>1, FilesInvCorrect, PTL

\* The entries are in the order that the flags ask for, after a radix sort that
\* leaves small partitions alone and an insertion sort that relies on it.
THEOREM ReaddirOrderCorrect == FilesSpec => []ReaddirOrder
<1>1. FilesInv => ReaddirOrder
  BY DEF FilesInv, SdInv
<1> QED
  BY <1>1, FilesInvCorrect, PTL

\* Neither res nor rel ever leaves its part of the temporary buffer.
THEOREM RealpathInBoundsCorrect == FilesSpec => []RealpathInBounds
<1>1. FilesInv => RealpathInBounds
  BY DEF FilesInv, RpInv
<1> QED
  BY <1>1, FilesInvCorrect, PTL

\* What eio__realpath has resolved so far exists and has no link in it.
THEOREM RealpathCanonicalCorrect == FilesSpec => []RealpathCanonical
<1>1. FilesInv => RealpathCanonical
  BY DEF FilesInv, RpInv
<1> QED
  BY <1>1, FilesInvCorrect, PTL

\* A path that POSIX resolves with fewer than SYMLINKS links, each before the
\* component behind it, is resolved by eio__realpath to the same file, although it
\* pastes the target of a link before the rest, unless the path gets too long.
THEOREM RealpathAgreesCorrect == FilesSpec => []RealpathAgrees
<1>1. FilesInv => RealpathAgrees
  BY DEF FilesInv, AgreesInv
<1> QED
  BY <1>1, FilesInvCorrect, PTL
=============================================================================
