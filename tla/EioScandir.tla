---------------------------- MODULE EioScandir -----------------------------
(***************************************************************************)
(* eio__scandir (libeio/eio.c): a worker reads a directory into a growing  *)
(* buffer of names and a growing array of entries and sorts the array; and *)
(* the arrays that php_eio_res_cb makes of it for EIO_READDIR.             *)
(*                                                                         *)
(* A directory is a set of records with the fields                         *)
(*   name, len    the name and its length                                  *)
(*   dot          "leading", "inner" or "none": where it has a dot         *)
(*   inode, type  the type is "DIR", "UNKNOWN" or another one              *)
(* and readdir returns its entries in any order.                           *)
(***************************************************************************)
EXTENDS DentSort

CONSTANTS
    Dirs,           \* the directories
    ReaddirFlags,   \* values of the argument flags: sets of flag names
    NAMES_ALLOC,    \* first size of the buffer of names: 4064
    DENT_ALLOC,     \* first size of the array of entries: 128
    AllocMayFail,   \* malloc, and realloc of the array of entries, may fail
    NamesMayFail    \* realloc of the buffer of names may fail

ASSUME ScandirAssumption ==
    /\ NAMES_ALLOC \in Nat \ {0} /\ DENT_ALLOC \in Nat \ {0}
    /\ AllocMayFail \in BOOLEAN /\ NamesMayFail \in BOOLEAN
    /\ ReaddirFlags \subseteq SUBSET {"DENTS", "DIRS_FIRST", "STAT_ORDER", "FOUND_UNKNOWN"}
    /\ \A d \in Dirs : \A e \in d : e.len \in Nat /\ e.inode \in 1..(2^INO_BITS - 1)

VARIABLES
    sdpc,           \* where the worker is
    dir,            \* the directory that is read
    sdflags,        \* the local variable flags
    unread,         \* entries that readdir has not returned yet
    entp,           \* the entry being added: a set of at most one
    names,          \* the names in the buffer: where each begins, and its entry
    namesoffs,      \* bytes of the buffer in use
    namesalloc,     \* size of the buffer
    dentalloc,      \* size of the array dents, 0 for a null pointer
    dirp,           \* the directory is open
    sdresult,       \* req->result
    cancelled       \* req->cancelled

readVars == <<dir, sdflags, unread, entp, names, namesoffs, namesalloc, dentalloc,
              dirp, sdresult, cancelled>>

sdVars == <<sdpc, readVars, dents, sortVars>>

Flags == {"DENTS", "DIRS_FIRST", "STAT_ORDER", "FOUND_UNKNOWN"}

ScandirPC == {"idle",
              "read",       \* about to call readdir
              "grow",       \* about to test whether the name fits
              "cancel",     \* about to test EIO_CANCELLED
              "dirs",       \* in the loop that puts directories first
              "sort",       \* in eio_dent_sort
              "segv",       \* wrote through a null pointer
              "done"}       \* eio__scandir has returned

SdInit ==
    /\ sdpc = "idle"
    /\ dir = {} /\ sdflags = {} /\ unread = {} /\ entp = {}
    /\ names = <<>> /\ namesoffs = 0 /\ namesalloc = 0 /\ dents = <<>> /\ dentalloc = 0
    /\ dirp = FALSE /\ sdresult = 0 /\ cancelled = FALSE
    /\ SortInit

-----------------------------------------------------------------------------
\* The directory cannot be opened: the result stays -1.
OpenFails ==
    /\ sdpc' = "done" /\ sdresult' = -1
    /\ UNCHANGED <<namesalloc, dentalloc, dirp>>

\* Both buffers are allocated, the array of entries only if there are flags.
\* Without the buffers eio__scandir returns and leaves the directory open.
OpenAllocates(flags) ==
    \E nomem \in {FALSE, AllocMayFail} :
       /\ dirp' = TRUE /\ sdresult' = -1
       /\ sdpc' = IF nomem THEN "done" ELSE "read"
       /\ namesalloc' = IF nomem THEN 0 ELSE NAMES_ALLOC
       /\ dentalloc' = IF nomem \/ flags = {} THEN 0 ELSE DENT_ALLOC

ScandirOpen ==
    \E d \in Dirs, f \in ReaddirFlags :
       LET flags == IF "DENTS" \in f THEN f ELSE f \ {"DIRS_FIRST", "STAT_ORDER"}
       IN  /\ sdpc = "idle"
           /\ dir' = d /\ unread' = d
           /\ sdflags' = flags
           /\ OpenFails \/ OpenAllocates(flags)
           /\ UNCHANGED <<entp, names, namesoffs, dents, cancelled, sortVars>>

-----------------------------------------------------------------------------
(* The end of the directory: what is put into order. *)

\* The bits that some inode has.
InodeBits(s) == {k \in 0..(INO_BITS - 1) : \E i \in 1..Len(s) : HasBit(s[i].inode, k)}

ScoreBits(flags) == IF "DIRS_FIRST" \in flags THEN {0, 1, 2} ELSE {}

\* Mutant of SortsAll: unknown types are taken for files.
SortsAllKnown(flags) == "STAT_ORDER" \in flags

\* All entries are sorted, also to put the directories first when the type of
\* some is unknown.
SortsAll(flags) == "STAT_ORDER" \in flags \/ {"DIRS_FIRST", "FOUND_UNKNOWN"} \subseteq flags

Order ==
    IF SortsAll(sdflags)
    THEN sdpc' = "sort" /\ eio_dent_sort(Len(dents), ScoreBits(sdflags), InodeBits(dents))
    ELSE IF "DIRS_FIRST" \in sdflags
    THEN /\ sdpc' = "dirs" /\ pa' = 1 /\ pb' = Len(dents) + 1
         /\ UNCHANGED <<sortpc, size, bits, stk, base, end, bit>>
    ELSE sdpc' = "done" /\ UNCHANGED sortVars

ReaddirEnds ==
    /\ unread = {}
    /\ dirp' = FALSE
    /\ sdresult' = Len(names)
    /\ Order
    /\ UNCHANGED <<sdflags, unread, entp, dents>>

\* readdir fails: the result stays -1.
ReaddirFails ==
    /\ dirp' = FALSE
    /\ sdpc' = "done"
    /\ UNCHANGED <<sdflags, unread, entp, dents, sdresult, sortVars>>

\* All types are known: the directories go to the front, by walking from both
\* ends, and only they are sorted.
PutDirsFirst ==
    /\ sdpc = "dirs" /\ pb > pa
    /\ \/ /\ dents[pa].type = "DIR"
          /\ pa' = pa + 1 /\ UNCHANGED <<dents, pb>>
       \/ /\ dents[pa].type # "DIR" /\ dents[pb - 1].type # "DIR"
          /\ pb' = pb - 1 /\ UNCHANGED <<dents, pa>>
       \/ /\ dents[pa].type # "DIR" /\ dents[pb - 1].type = "DIR"
          /\ dents' = SwapAt(dents, pa, pb - 1)
          /\ pa' = pa + 1 /\ pb' = pb - 1
    /\ UNCHANGED <<sdpc, readVars, sortpc, size, bits, stk, base, end, bit>>

SortDirs ==
    /\ sdpc = "dirs" /\ pb <= pa
    /\ sdpc' = "sort"
    /\ eio_dent_sort(pa - 1, {}, InodeBits(dents))
    /\ UNCHANGED <<readVars, dents>>

Sort ==
    /\ sdpc = "sort"
    /\ SortStep
    /\ UNCHANGED <<sdpc, readVars>>

SortReturns ==
    /\ sdpc = "sort" /\ sortpc = "sorted"
    /\ sdpc' = "done"
    /\ SortReset
    /\ UNCHANGED <<readVars, dents>>

-----------------------------------------------------------------------------
(* One entry. *)

\* readdir returns an entry; . and .. are skipped.
ReaddirEntry ==
    \E e \in unread :
       /\ unread' = unread \ {e}
       /\ IF e.name \in {".", ".."}
          THEN sdpc' = "cancel" /\ UNCHANGED entp
          ELSE sdpc' = "grow" /\ entp' = {e}
       /\ UNCHANGED <<sdflags, dents, dirp, sdresult, sortVars>>

Readdir ==
    /\ sdpc = "read"
    /\ ReaddirEnds \/ ReaddirFails \/ ReaddirEntry
    /\ UNCHANGED <<dir, names, namesoffs, namesalloc, dentalloc, cancelled>>

\* The name and its NUL fit into the buffer.
Fits(e) == namesoffs + e.len + 1 <= namesalloc

\* The buffer of names is doubled.  A failing realloc ends only the loop around
\* it, and the name is copied to a null pointer.
GrowNames ==
    \E e \in entp, nomem \in {FALSE, NamesMayFail} :
       /\ sdpc = "grow" /\ ~Fits(e)
       /\ namesalloc' = 2 * namesalloc
       /\ sdpc' = IF nomem THEN "segv" ELSE "grow"
       /\ UNCHANGED <<dir, sdflags, unread, entp, names, namesoffs, dents, dentalloc,
                      dirp, sdresult, cancelled, sortVars>>

\* How likely the entry is a directory, 0 to 7; len counts the NUL.
Score(e, flags) ==
    LET len == e.len + 1
    IN  IF "DIRS_FIRST" \notin flags THEN 7
        ELSE IF e.type = "DIR" THEN 0
        ELSE IF e.type # "UNKNOWN" \/ e.dot = "inner" THEN 7
        ELSE IF e.dot = "leading" THEN 1
        ELSE IF len <= 2 THEN 4 - len
        ELSE IF len <= 4 THEN 4 ELSE IF len <= 7 THEN 5 ELSE 6

\* The element of the array for e, whose name is put into the buffer.
Dent(e, flags) ==
    [nameofs |-> namesoffs, namelen |-> e.len, inode |-> e.inode,
     type |-> e.type, score |-> Score(e, flags)]

\* The element is added to the array, which is doubled when it is full.
AddDent(e, flags) ==
    /\ dentalloc' = IF Len(dents) = dentalloc THEN 2 * dentalloc ELSE dentalloc
    /\ dents' = Append(dents, Dent(e, flags))

\* The name is copied and, if there is an array, its element added.
AddEntry ==
    \E e \in entp :
       LET flags == IF dentalloc # 0 /\ e.type = "UNKNOWN" THEN sdflags \cup {"FOUND_UNKNOWN"}
                    ELSE sdflags
       IN  /\ sdpc = "grow" /\ Fits(e)
           /\ names' = Append(names, [ofs |-> namesoffs, ent |-> e])
           /\ namesoffs' = namesoffs + e.len + 1
           /\ sdflags' = flags
           /\ IF dentalloc # 0 THEN AddDent(e, flags) ELSE UNCHANGED <<dents, dentalloc>>
           /\ sdpc' = "cancel" /\ entp' = {}
           /\ UNCHANGED <<dir, unread, namesalloc, dirp, sdresult, cancelled, sortVars>>

\* A failing realloc of the array ends the reading, with the directory open.
DentsLost ==
    \E e \in entp :
       /\ sdpc = "grow" /\ Fits(e)
       /\ AllocMayFail /\ dentalloc # 0 /\ Len(dents) = dentalloc
       /\ sdpc' = "done"
       /\ entp' = {} /\ dents' = <<>> /\ dentalloc' = 0
       /\ UNCHANGED <<dir, sdflags, unread, names, namesoffs, namesalloc, dirp, sdresult,
                      cancelled, sortVars>>

\* A cancelled request ends at once, with the directory open.
TestCancelled ==
    /\ sdpc = "cancel"
    /\ sdpc' = IF cancelled THEN "done" ELSE "read"
    /\ UNCHANGED <<readVars, dents, sortVars>>

SdStep == \/ Readdir \/ GrowNames \/ AddEntry \/ DentsLost \/ TestCancelled
          \/ PutDirsFirst \/ SortDirs \/ Sort \/ SortReturns

\* eio_cancel of the PHP thread; nothing looks at it while the entries are sorted.
SdCancel ==
    /\ sdpc \in {"read", "grow", "cancel"} /\ ~cancelled
    /\ cancelled' = TRUE
    /\ UNCHANGED <<sdpc, dir, sdflags, unread, entp, names, namesoffs, namesalloc, dentalloc,
                   dirp, sdresult, dents, sortVars>>

\* The callback has run and the buffers are freed, or the process has died and
\* another one has begun.
SdEnd ==
    /\ sdpc \in {"done", "segv"} /\ sdpc' = "idle"
    /\ dir' = {} /\ sdflags' = {} /\ unread' = {} /\ entp' = {}
    /\ names' = <<>> /\ namesoffs' = 0 /\ namesalloc' = 0 /\ dents' = <<>> /\ dentalloc' = 0
    /\ dirp' = FALSE /\ sdresult' = 0 /\ cancelled' = FALSE
    /\ SortReset

-----------------------------------------------------------------------------
(* php_eio_res_cb. *)

\* The string at offset ofs of the buffer.
NameAt(ofs) == names[CHOOSE i \in 1..Len(names) : names[i].ofs = ofs].ent.name

\* $result['names'] without entries: name after name by strlen.
php_eio_set_readdir_names == [i \in 1..sdresult |-> names[i].ent.name]

\* $result['dents'], whose names are also $result['names'].
php_eio_set_readdir_dent_and_names ==
    [i \in 1..sdresult |-> [name |-> NameAt(dents[i].nameofs), type |-> dents[i].type,
                            inode |-> dents[i].inode]]

HasDents == "DENTS" \in sdflags \/ "DIRS_FIRST" \in sdflags

ResultNames ==
    IF HasDents
    THEN [i \in 1..sdresult |-> php_eio_set_readdir_dent_and_names[i].name]
    ELSE php_eio_set_readdir_names

-----------------------------------------------------------------------------
(* Properties. *)

\* The entries that a complete reading must deliver.
Visible == {e \in dir : e.name \notin {".", ".."}}

\* eio_readdir delivers every entry of the directory but . and .. once, and
\* the name, type and inode of each of $result['dents'] belong to one entry,
\* after the growing of both buffers and the sorting.
ReaddirExact ==
    sdpc = "done" /\ sdresult >= 0 =>
       /\ sdresult = Cardinality(Visible)
       /\ {ResultNames[i] : i \in 1..sdresult} = {e.name : e \in Visible}
       /\ HasDents =>
            \A i \in 1..sdresult : \E e \in Visible :
               /\ php_eio_set_readdir_dent_and_names[i]
                    = [name |-> e.name, type |-> e.type, inode |-> e.inode]
               /\ dents[i].namelen = e.len

\* EIO_READDIR_STAT_ORDER alone gives ascending inodes, hard links to a file
\* side by side.  With EIO_READDIR_DIRS_FIRST nothing comes before an entry
\* known to be a directory, no known file comes before an entry of unknown type
\* and without a dot inside, and entries that are equally likely directories
\* are in the order of their inodes (all of them with EIO_READDIR_STAT_ORDER or
\* an unknown type, the directories otherwise).
ReaddirOrder ==
    sdpc = "done" /\ sdresult >= 0 /\ dentalloc # 0 =>
       \A i, j \in 1..Len(dents) : i < j =>
          LET a == dents[i]
              b == dents[j]
          IN  /\ sdflags \cap {"DIRS_FIRST", "STAT_ORDER"} = {"STAT_ORDER"}
                   => a.inode <= b.inode
              /\ "DIRS_FIRST" \in sdflags =>
                   /\ b.type = "DIR" => a.type = "DIR" /\ a.inode <= b.inode
                   /\ sdflags \cap {"STAT_ORDER", "FOUND_UNKNOWN"} # {} =>
                         a.score < b.score \/ (a.score = b.score /\ a.inode <= b.inode)

\* No name is copied through a null pointer, names and entries stay inside their
\* buffers, and the names follow each other as php_eio_set_readdir_names assumes.
\* The stack of the radix sort, of 9 + INO_BITS elements, does not overflow, its
\* pointers and those of the two walks stay in the array, and so does the
\* insertion sort, which tests no bound.
ScandirInBounds ==
    /\ sdpc # "segv"
    /\ namesoffs <= namesalloc /\ Len(dents) <= dentalloc
    /\ \A i \in 1..Len(names) :
          LET next == names[i].ofs + names[i].ent.len + 1
          IN  next = IF i = Len(names) THEN namesoffs ELSE names[i + 1].ofs
    /\ Len(stk) < 9 + INO_BITS
    /\ sdpc = "dirs" \/ sortpc = "part" =>
          pa \in 1..pb /\ pb <= Len(dents) + 1
    /\ sortpc = "min" => pa \in 1..Len(dents) /\ pb \in 1..Len(dents)
    /\ sortpc # "overrun"
=============================================================================
