---------------------------- MODULE MCEioFiles -----------------------------
EXTENDS EioFiles, RealpathPosix

E(name, len, dot, inode, type) ==
    [name |-> name, len |-> len, dot |-> dot, inode |-> inode, type |-> type]

MCDots == {E(".", 1, "leading", 1, "DIR"), E("..", 2, "leading", 2, "DIR")}

\* All types known, more entries than EIO_SORT_FAST, and two links to one file.
MCKnown == {E("k", 1, "none", 14, "DIR"), E("lm", 2, "none", 9, "REG"),
            E("n.o", 3, "inner", 9, "REG"), E("p", 1, "none", 3, "DIR"),
            E("q", 1, "none", 6, "DIR"), E("r", 1, "none", 2, "DIR")}

\* A file system that does not tell types, and one score for each name.
MCUnknown == {E("a", 1, "none", 8, "UNKNOWN"), E("bc", 2, "none", 15, "UNKNOWN"),
              E(".d", 2, "leading", 12, "UNKNOWN"), E("e.f", 3, "inner", 4, "UNKNOWN"),
              E("ghijk", 5, "none", 7, "DIR"), E("l.m", 3, "inner", 3, "REG")}

MCDirs == {{}, MCDots, MCDots \cup {E("k", 1, "none", 4, "REG")}, MCKnown, MCUnknown,
           {e \in MCUnknown : e.inode # 8}}

MCFlags == {{}, {"DENTS"}, {"DENTS", "DIRS_FIRST"}, {"DENTS", "STAT_ORDER"},
            {"DENTS", "DIRS_FIRST", "STAT_ORDER"}}

Dir == [kind |-> "dir", to |-> <<>>]
File == [kind |-> "file", to |-> <<>>]
Link(to) == [kind |-> "link", to |-> to]

\* / has the directories d, d/e, ..., d/e/h/i/j, the file d/f, and links:
\* a absolute, b to a link, c up from a link, k deep, l to itself, g growing.
MCFS == (<<>> :> Dir) @@ (<<"d">> :> Dir) @@ (<<"d", "e">> :> Dir) @@ (<<"d", "f">> :> File)
          @@ (<<"d", "a">> :> Link(<<"/", "d", "/", "e">>))
          @@ (<<"d", "e", "b">> :> Link(<<"..", "/", "a">>))
          @@ (<<"d", "e", "h">> :> Dir) @@ (<<"d", "e", "h", "i">> :> Dir)
          @@ (<<"d", "e", "h", "i", "j">> :> Dir)
          @@ (<<"d", "e", "k">> :> Link(<<"h", "/", "i", "/", "j">>))
          @@ (<<"c">> :> Link(<<"d", "/", "a", "/", "..">>))
          @@ (<<"l">> :> Link(<<"l">>))
          @@ (<<"g">> :> Link(<<"g", "/", "x">>))

MCNames == {"d", "e", "f", "a", "b", "c", "k", "l", "g", "..", "."}

MCCwd == <<"d">>

\* Up to three components, relative and absolute.
MCPaths ==
    {<<>>, <<"/">>}
      \cup {<<n>> : n \in MCNames} \cup {<<"/", n>> : n \in MCNames}
      \cup {<<m, "/", n>> : m, n \in MCNames}
      \cup {<<"/", m, "/", n, "/", o>> : m, n, o \in MCNames}
=============================================================================
