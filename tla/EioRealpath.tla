---------------------------- MODULE EioRealpath ----------------------------
(***************************************************************************)
(* eio__realpath (libeio/eio.c): a worker resolves a path one component at *)
(* a time in the three parts of its temporary buffer, each of EIO_PATH_MAX *)
(* bytes: the path so far (res), the target of a link, and what is left to *)
(* resolve (rel).                                                          *)
(*                                                                         *)
(* A string is a sequence of "/" and names, and every name but ".." has    *)
(* the length 1.  The file system is a function from canonical paths,      *)
(* which are sequences of names, to records with the fields kind, "dir",   *)
(* "file" or "link", and to, the target of a link.                         *)
(***************************************************************************)
EXTENDS Integers, Sequences, SequencesExt, FiniteSets

CONSTANTS
    FS,             \* the file system
    Cwd,            \* the canonical path of the current directory
    Paths,          \* values of the argument path
    EIO_PATH_MAX,   \* size of a part of the buffer
    SYMLINKS        \* 32: the first value of the counter symlinks

\* A name, or the slash between two.
Word == STRING \cup {"/"}

ASSUME RealpathAssumption ==
    /\ EIO_PATH_MAX \in Nat /\ SYMLINKS \in Nat \ {0, 1}
    /\ Paths \subseteq Seq(Word)
    \* a file system has a root, and its directories, files and links are in directories
    /\ DOMAIN FS \subseteq Seq(Word)
    /\ \A p \in DOMAIN FS : FS[p].kind \in {"dir", "file", "link"}
    /\ \A p \in DOMAIN FS : p # <<>> => Front(p) \in DOMAIN FS /\ FS[Front(p)].kind = "dir"
    /\ <<>> \in DOMAIN FS /\ FS[<<>>].kind = "dir"
    /\ \A p \in DOMAIN FS : FS[p].kind = "link" => FS[p].to \in Seq(Word) \ {<<>>}
    \* getcwd succeeds
    /\ Cwd \in DOMAIN FS /\ FS[Cwd].kind = "dir" /\ 2 * Len(Cwd) < EIO_PATH_MAX

VARIABLES
    rppc,           \* where the worker is
    rppath,         \* the argument
    rpres,          \* the path so far
    rprel,          \* what is left
    symlinks,       \* links that may still be followed, plus 1
    rpresult        \* "ok" or the errno

rpVars == <<rppc, rppath, rpres, rprel, symlinks, rpresult>>

RpInit ==
    /\ rppc = "idle" /\ rppath = <<>> /\ rpres = <<>> /\ rprel = <<>>
    /\ symlinks = 0 /\ rpresult = "ok"

StrLen(s) == Len(s) + Cardinality({i \in 1..Len(s) : s[i] = ".."})

\* Bytes of res: a slash before every component.
ResLen(res) == 2 * Len(res)

IsLink(node) == node.kind = "link"

RpReturn(r) == rppc' = "done" /\ rpresult' = r

\* An empty path is refused.  A relative path begins in the current directory.
RealpathStart ==
    \E path \in Paths :
       /\ rppc = "idle"
       /\ rppath' = path /\ rprel' = path
       /\ symlinks' = SYMLINKS
       /\ IF path = <<>> THEN RpReturn("ENOENT") /\ UNCHANGED rpres
          ELSE /\ rpres' = IF Head(path) = "/" THEN <<>> ELSE Cwd
               /\ rppc' = "walk"
               /\ UNCHANGED rpresult

-----------------------------------------------------------------------------
(* The loop over the components. *)

\* .. goes back one component, if there is one.
BackUp == rpres' = IF rpres = <<>> THEN rpres ELSE Front(rpres)

\* Mutant of TooLong: the path so far is not counted.
TooLongName(name) == StrLen(<<name>>) + 2 >= EIO_PATH_MAX

\* The component and two more bytes do not fit behind res.
TooLong(name) == ResLen(rpres) + 1 + StrLen(<<name>>) + 1 >= EIO_PATH_MAX

\* What readlink gives for a path whose parents are no links.
readlink(path) ==
    IF path \in DOMAIN FS THEN FS[path]
    ELSE [kind |-> IF FS[Front(path)].kind = "dir" THEN "ENOENT" ELSE "ENOTDIR", to |-> <<>>]

\* Mutant of FollowLink: the target is always taken from the directory of the link.
FollowLinkRelative(link, rest) ==
    IF StrLen(link) + 1 + StrLen(rest) >= EIO_PATH_MAX
    THEN RpReturn("ENAMETOOLONG") /\ UNCHANGED <<rpres, rprel, symlinks>>
    ELSE /\ symlinks' = symlinks - 1
         /\ IF symlinks' = 0 THEN RpReturn("ELOOP") /\ UNCHANGED <<rpres, rprel>>
            ELSE /\ rprel' = link \o <<"/">> \o rest
                 /\ UNCHANGED <<rppc, rpresult, rpres>>

\* The target of the link, a slash and the rest are what is left now.
FollowLink(link, rest) ==
    IF StrLen(link) + 1 + StrLen(rest) >= EIO_PATH_MAX
    THEN RpReturn("ENAMETOOLONG") /\ UNCHANGED <<rpres, rprel, symlinks>>
    ELSE /\ symlinks' = symlinks - 1
         /\ IF symlinks' = 0 THEN RpReturn("ELOOP") /\ UNCHANGED <<rpres, rprel>>
            ELSE /\ rpres' = IF Head(link) = "/" THEN <<>> ELSE rpres
                 /\ rprel' = link \o <<"/">> \o rest
                 /\ UNCHANGED <<rppc, rpresult>>

\* A name is copied behind res and looked at.
Component(name, rest) ==
    IF TooLong(name)
    THEN RpReturn("ENAMETOOLONG") /\ UNCHANGED <<rpres, rprel, symlinks>>
    ELSE LET node == readlink(Append(rpres, name))
         IN  IF node.kind \in {"ENOENT", "ENOTDIR"}
             THEN RpReturn(node.kind) /\ UNCHANGED <<rpres, rprel, symlinks>>
             ELSE IF IsLink(node) THEN FollowLink(node.to, rest)
             ELSE /\ rpres' = Append(rpres, name) /\ rprel' = rest
                  /\ UNCHANGED <<rppc, rpresult, symlinks>>

RealpathWalk ==
    /\ rppc = "walk" /\ rprel # <<>>
    /\ LET t    == Head(rprel)
           rest == Tail(rprel)
       IN  CASE t \in {"/", "."} ->
                  rprel' = rest /\ UNCHANGED <<rppc, rpres, symlinks, rpresult>>
             [] t = ".." ->
                  BackUp /\ rprel' = rest /\ UNCHANGED <<rppc, symlinks, rpresult>>
             [] OTHER -> Component(t, rest)
    /\ UNCHANGED rppath

\* Nothing is left: res is the result, or "/" for no component.
RealpathDone ==
    /\ rppc = "walk" /\ rprel = <<>>
    /\ RpReturn("ok")
    /\ UNCHANGED <<rppath, rpres, rprel, symlinks>>

RpStep == RealpathWalk \/ RealpathDone

RpEnd ==
    /\ rppc = "done" /\ rppc' = "idle" /\ rppath' = <<>> /\ rpres' = <<>>
    /\ rprel' = <<>> /\ symlinks' = 0 /\ rpresult' = "ok"

-----------------------------------------------------------------------------
(* Properties. *)

\* The path so far exists and has no link in it, so what eio__realpath returns
\* is canonical.
RealpathCanonical == rpres \in DOMAIN FS /\ ~IsLink(FS[rpres])

\* Every part of the temporary buffer holds its string and a NUL; before the
\* first link, what is left is in the argument.
RealpathInBounds ==
    /\ ResLen(rpres) < EIO_PATH_MAX
    /\ rppc # "idle" /\ symlinks < SYMLINKS => StrLen(rprel) < EIO_PATH_MAX
=============================================================================
