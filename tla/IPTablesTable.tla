---------------------------- MODULE IPTablesTable ----------------------------
(***************************************************************************)
(* What lib/rules/locked_iptables.go promises its callers about one       *)
(* table: every call takes effect in one step, as if no other caller ran  *)
(* at the same time.  A bulk insert or append happens entirely or not at  *)
(* all.  DeleteAfterRuleNum keeps the first ruleNum-1 rules; when one of  *)
(* its deletes fails, it has removed the rules from ruleNum up to some    *)
(* point and the rest of the old chain follows them.  The KeepReject      *)
(* variant, when it succeeds, then ends the chain with a single reject.   *)
(* A chain that does not exist is Absent.                                 *)
(***************************************************************************)
EXTENDS Integers, Sequences, SequencesExt

CONSTANTS Names, Rules, Reject, Absent, Builtins, Ops, InitTables

VARIABLE chains

\* The methods of the IPTablesAdapter interface, by the table operation
\* each performs: BulkInsert is insert; BulkAppend and AllowTrafficForRange
\* are append; FlushAndRestore is restore; DeleteAfterRuleNum and its
\* KeepReject variant are deleteAfter; the rest keep their names.
AdapterCalls ==
    {"restore", "exists", "chainExists", "delete", "deleteAfter", "list",
     "listChains", "newChain", "clear", "deleteChain", "rename", "insert",
     "append", "ruleCount"}

ASSUME \A o \in Ops : o.kind \in AdapterCalls

Exists(t, n) == t[n] # Absent

\* iptables-restore of "-I <chain> <pos> <rule>" lines, one per rule, in
\* order: each is inserted at pos, so the last rule ends up first.
RECURSIVE InsertAll(_, _, _)
InsertAll(c, pos, rs) ==
    IF rs = << >> THEN c ELSE InsertAll(InsertAt(c, pos, Head(rs)), pos, Tail(rs))

\* iptables-restore rejects an insert position beyond the end + 1.
InsertValid(c, pos) == pos \in 1 .. Len(c) + 1

Take(c, n) == SubSeq(c, 1, n)

\* iptables -D <chain> <rulespec>: removes the first matching rule.
DeleteFirst(c, r) ==
    LET i == SelectInSeq(c, LAMBDA x : x = r) IN RemoveAt(c, i)

\* AppendUnique of the default-reject rule.
WithReject(c) == IF Reject \in ToSet(c) THEN c ELSE Append(c, Reject)

\* iptables-restore without --noflush: the table holds exactly the chains
\* of the input; every other user chain is gone.
Restored(n, rs) == [m \in Names |-> IF m = n THEN rs ELSE Absent]

\* The chains DeleteAfterRuleNum may leave in chain c, failures included.
Truncations(c, op) ==
    \* position 0 is refused by the first delete; past the end, a panic
    IF op.pos \notin 1 .. Len(c) + 1 THEN {c}
    ELSE {Take(c, op.pos - 1) \o SubSeq(c, k, Len(c)) : k \in op.pos .. Len(c) + 1}
         \cup (IF op.keepReject THEN {WithReject(Take(c, op.pos - 1))} ELSE {})

\* The tables a call may leave, failures included (a failed call changes
\* nothing).  Calls on a chain that does not exist fail.
Results(t, op) ==
    LET n == op.chain
        c == t[n]
        Set(v) == {t, [t EXCEPT ![n] = v]}
    IN
    CASE op.kind = "newChain"   -> IF Exists(t, n) THEN {t} ELSE Set(<< >>)
      [] op.kind = "clear"      -> Set(<< >>)
      [] op.kind = "deleteChain" -> IF Exists(t, n) /\ c = << >> THEN Set(Absent) ELSE {t}
      [] op.kind = "rename"     ->
            IF Exists(t, n) /\ ~Exists(t, op.to)
            THEN {t, [t EXCEPT ![n] = Absent, ![op.to] = c]} ELSE {t}
      [] op.kind = "restore"    -> {t, Restored(n, op.rules)}
      [] ~Exists(t, n)          -> {t}
      [] op.kind = "append"     -> Set(c \o op.rules)
      [] op.kind = "insert"     -> IF InsertValid(c, op.pos)
                                   THEN Set(InsertAll(c, op.pos, op.rules)) ELSE {t}
      [] op.kind = "delete"     -> IF Head(op.rules) \in ToSet(c)
                                   THEN Set(DeleteFirst(c, Head(op.rules))) ELSE {t}
      [] op.kind = "deleteAfter" -> {[t EXCEPT ![n] = v] : v \in Truncations(c, op)}
      [] OTHER                  -> {t}   \* the reads

\* The lines of "iptables -S -t <table>": one "-P" line per built-in
\* chain, one "-N" line per user chain and one "-A" line per rule.
ListingLines(t) ==
    Builtins + SumFunctionOnSet([n \in Names |-> IF Exists(t, n) THEN 1 + Len(t[n]) ELSE 0], Names)

\* What a read-only call returns when it succeeds on the table t: iptables
\* -C (a missing chain is "no match", exit status 1, so FALSE), the
\* chain's existence, its rules, the set of chains, and the line count.
ReadOf(t, op) ==
    CASE op.kind = "exists"      -> Exists(t, op.chain) /\ Head(op.rules) \in ToSet(t[op.chain])
      [] op.kind = "chainExists" -> Exists(t, op.chain)
      [] op.kind = "list"        -> t[op.chain]
      [] op.kind = "listChains"  -> {n \in Names : Exists(t, n)}
      [] op.kind = "ruleCount"   -> ListingLines(t)

Next == \E op \in Ops : chains' \in Results(chains, op)

Init == chains \in InitTables

Spec == Init /\ [][Next]_chains
====
