----------------------------- MODULE MCPhpCalls -----------------------------
EXTENDS PhpCalls

MCPaths == {[text |-> "a", nul |-> FALSE], [text |-> "b", nul |-> FALSE],
            [text |-> "a", nul |-> TRUE]}

Z(kind, v) == [kind |-> kind, v |-> v]

\* INT_MOD is 8: 9 is taken for 1 and 5 for -3.
MCFds == {Z("long", 2), Z("long", -1), Z("long", 5), Z("long", 9), Z("stream", 3),
          Z("failed cast", 0), Z("no cast", 1), Z("socket", 1), Z("failed socket", 2),
          Z("memory", 0), Z("other", 0)}

MCLongs == {-1, 0, 2, 5}

MCFlags == {{}, {"DENTS"}, {"STAT_ORDER"}, {"DIRS_FIRST", "DENTS"}}
=============================================================================
