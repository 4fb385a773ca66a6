--------------------------- MODULE MCLockedIPTables ---------------------------
(* Two processes calling LockedIPTables on a filter table of user chains.  *)
EXTENDS LockedIPTables

CONSTANTS p1, p2, a, b, rej, c1, c2, absent, nobody, none

MCClients == {p1, p2}
MCRules == {a, b}

Table(x, y) == (c1 :> x) @@ (c2 :> y)

\* One user chain: empty, one rule, or rules ending in a reject.
MCOneChain == {c1}
MCInitTables == {c1 :> x : x \in {<< >>, <<a>>, <<a, b, rej>>}}

\* A chain long enough for every ruleNum of MCOps: a panic then needs
\* another caller to shorten it first.
MCLongChain == {c1 :> <<a, b, rej>>}

Call_(kind, chain, rules, pos, keepReject) ==
    [kind |-> kind, chain |-> chain, to |-> chain, rules |-> rules, pos |-> pos,
     keepReject |-> keepReject]

\* BulkAppend, BulkInsert at the head (the order AllowTrafficForRange
\* uses) and past the end, FlushAndRestore, ClearChain, Delete, and
\* DeleteAfterRuleNum(KeepReject) from positions 0, 2 and 3.
MCOps ==
    { Call_("append", c1, <<b>>, 0, FALSE),
      Call_("insert", c1, <<a, b>>, 1, FALSE),
      Call_("insert", c1, <<b>>, 3, FALSE),
      Call_("restore", c1, <<b, a>>, 0, FALSE),
      Call_("clear", c1, << >>, 0, FALSE),
      Call_("delete", c1, <<a>>, 0, FALSE),
      Call_("deleteAfter", c1, << >>, 0, FALSE),
      Call_("deleteAfter", c1, << >>, 2, FALSE),
      Call_("deleteAfter", c1, << >>, 2, TRUE),
      Call_("deleteAfter", c1, << >>, 3, TRUE) }

\* Two user chains: the single-chain tables, with a second chain that
\* does not exist yet.
MCTwoChains == {c1, c2}
MCInitTablesWithSpare == {Table(x, absent) : x \in {<< >>, <<a>>, <<a, b, rej>>}}

\* The calls of MCOps, and the chain-level calls that create, rename and
\* delete a chain and count the lines of the table.
MCAllOps ==
    MCOps \cup
    { Call_("newChain", c2, << >>, 0, FALSE),
      [Call_("rename", c1, << >>, 0, FALSE) EXCEPT !.to = c2],
      Call_("deleteChain", c1, << >>, 0, FALSE),
      Call_("ruleCount", c1, << >>, 0, FALSE) }
====
