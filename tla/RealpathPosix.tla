--------------------------- MODULE RealpathPosix ---------------------------
(***************************************************************************)
(* What eio__realpath has to return, by the definition of POSIX: a link is *)
(* resolved to the file it stands for before the next component is looked  *)
(* at.                                                                     *)
(***************************************************************************)
EXTENDS EioRealpath

\* How far a resolution is: the file, the links followed, and the error.
At == [path : Seq(Word), links : Nat, err : {"ok", "ENOENT", "ENOTDIR", "ELOOP"}]

Unresolved(why) == [path |-> <<>>, links |-> 0, err |-> why]

\* The target of a link in the directory at is resolved from here on.
Linked(at, to) ==
    <<[path |-> IF Head(to) = "/" THEN <<>> ELSE at.path, links |-> at.links + 1, err |-> "ok"],
      to>>

\* One component, where the function follow resolves the target of a link.
Lookup(at, name, follow) ==
    LET here == Append(at.path, name)
    IN  IF at.err # "ok" \/ name = "/" THEN at
        ELSE IF FS[at.path].kind # "dir" THEN Unresolved("ENOTDIR")
        ELSE IF name = "." THEN at
        ELSE IF name = ".."
        THEN [at EXCEPT !.path = IF at.path = <<>> THEN <<>> ELSE Front(at.path)]
        ELSE IF here \notin DOMAIN FS THEN Unresolved("ENOENT")
        ELSE IF ~IsLink(FS[here]) THEN [at EXCEPT !.path = here]
        ELSE follow[Linked(at, FS[here].to)]

\* The components of a string, one after the other.
Walk(at, s, follow) ==
    LET walk[i \in 0..Len(s)] == IF i = 0 THEN at ELSE Lookup(walk[i - 1], s[i], follow)
    IN  walk[Len(s)]

\* Resolves a string, with links in links nested less than n deep.
Resolve[n \in Nat] ==
    [x \in At \X Seq(Word) |->
        IF n = 0 THEN Unresolved("ELOOP") ELSE Walk(x[1], x[2], Resolve[n - 1])]

Start == [path |-> IF Head(rppath) = "/" THEN <<>> ELSE Cwd, links |-> 0, err |-> "ok"]

\* What the path stands for; no link chain is longer than SYMLINKS.
Target == Resolve[SYMLINKS + 1][<<Start, rppath>>]

\* A path that POSIX resolves with fewer than SYMLINKS links is resolved to
\* the same file, unless it gets too long on the way: links in the middle of
\* the path, absolute links, .. behind a link.  Whatever is returned exists and
\* has no link in it.
RealpathAgrees ==
    rppc = "done" /\ rppath # <<>> /\ rpresult # "ENAMETOOLONG" =>
       /\ \/ Target.err # "ok" \/ Target.links >= SYMLINKS
          \/ rpresult = "ok" /\ rpres = Target.path
       /\ rpresult = "ok" => RealpathCanonical
=============================================================================
