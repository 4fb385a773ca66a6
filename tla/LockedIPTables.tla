---------------------------- MODULE LockedIPTables ----------------------------
(***************************************************************************)
(* lib/rules/locked_iptables.go: LockedIPTables wraps every iptables call *)
(* of the silk processes (the vxlan-policy-agent, the CNI plugins) in a   *)
(* shared file lock.  The model follows the calls on one table by a set  *)
(* of concurrent callers; each iptables or iptables-restore invocation,   *)
(* each Lock and each Unlock is its own step, so the steps of different   *)
(* callers interleave wherever the lock lets them.                        *)
(*                                                                         *)
(* A failed Lock returns before touching the table.  Every iptables call  *)
(* may fail, leaving its own effect undone; the caller then unlocks and   *)
(* returns.  A Go panic (rules[ruleNum:] past the end of the list) ends   *)
(* the process, and the kernel drops its file lock.                       *)
(***************************************************************************)
EXTENDS Integers, Sequences, SequencesExt, FiniteSets

CONSTANTS
    Clients,       \* processes calling LockedIPTables on the table
    Names,         \* user chain names of the table
    Rules,         \* rules the callers write (never the default reject)
    Reject,        \* NewInputDefaultRejectRule()
    Absent,        \* a chain that does not exist
    Builtins,      \* number of built-in chains of the table (3 for filter)
    NoClient,      \* nobody holds the lock
    NoResult,      \* what a writing call returns besides its error
    InitTables,    \* the table's possible contents when the callers start
    Ops,           \* the calls a caller may make, with their arguments
    MaxCalls,      \* bound on calls per caller
    MaxFailures    \* bound on failed Lock and iptables calls

ASSUME Reject \notin Rules /\ NoClient \notin Clients /\ Absent \notin Seq(Rules)

VARIABLES
    chains,    \* the kernel's table: each user chain's rules, or Absent
    lock,      \* holder of the file lock
    pc,        \* where each caller is inside its current call
    op,        \* each caller's current call
    listed,    \* the rules List returned (without the "-N" line)
    left,      \* iterations of "for range rules[ruleNum:]" still to run
    outcome,   \* "ok" or "err": what the current call will return
    result,    \* the value a read-only call will return
    calls,     \* calls made by each caller
    failures

vars == <<chains, lock, pc, op, listed, left, outcome, result, calls, failures>>

Abs == INSTANCE IPTablesTable

Chain == Seq(Rules \cup {Reject})

ReadKinds == {"exists", "chainExists", "list", "listChains", "ruleCount"}

\* The values each read-only call returns.
ReadType(kind) ==
    CASE kind \in {"exists", "chainExists"} -> BOOLEAN
      [] kind = "list"                     -> Chain
      [] kind = "listChains"               -> SUBSET Names
      [] kind = "ruleCount"                -> Nat

PCs == {"idle", "lock", "run", "deleting", "appendReject", "unlock", "panicked"}

TypeOK ==
    /\ chains \in [Names -> Chain \cup {Absent}]
    /\ lock \in Clients \cup {NoClient}
    /\ pc \in [Clients -> PCs]
    /\ op \in [Clients -> Ops]
    /\ listed \in [Clients -> Chain]
    /\ left \in [Clients -> Nat]
    /\ outcome \in [Clients -> {"ok", "err"}]
    /\ \A c \in Clients : result[c] = NoResult \/ result[c] \in ReadType(op[c].kind)
    /\ calls \in [Clients -> 0 .. MaxCalls]
    /\ failures \in 0 .. MaxFailures

Init ==
    /\ chains \in InitTables
    /\ lock = NoClient
    /\ pc = [c \in Clients |-> "idle"]
    /\ op \in [Clients -> Ops]
    /\ listed = [c \in Clients |-> << >>]
    /\ left = [c \in Clients |-> 0]
    /\ outcome = [c \in Clients |-> "ok"]
    /\ result = [c \in Clients |-> NoResult]
    /\ calls = [c \in Clients |-> 0]
    /\ failures = 0

CanFail == failures < MaxFailures

\* An iptables call that fails: the caller unlocks with its error.
FailCall(c) ==
    /\ CanFail
    /\ failures' = failures + 1
    /\ outcome' = [outcome EXCEPT ![c] = "err"]
    /\ pc' = [pc EXCEPT ![c] = "unlock"]

-----------------------------------------------------------------------------
(* A caller starts one of the calls of Ops.                                *)

Call(c) ==
    /\ pc[c] = "idle"
    /\ calls[c] < MaxCalls
    /\ \E o \in Ops : op' = [op EXCEPT ![c] = o]
    /\ calls' = [calls EXCEPT ![c] = @ + 1]
    /\ outcome' = [outcome EXCEPT ![c] = "ok"]
    /\ result' = [result EXCEPT ![c] = NoResult]
    /\ pc' = [pc EXCEPT ![c] = "lock"]
    /\ UNCHANGED <<chains, lock, listed, left, failures>>

\* A plausible fault, for mutation checks: a lock that admits a second holder.
LockFreeForAnyone(c) == TRUE

\* The file lock is free.
LockFree(c) == lock = NoClient

\* l.Locker.Lock(): blocks until the lock is free; an error returns
\* "lock: ..." at once, without the lock and without an unlock.
Lock(c) ==
    /\ pc[c] = "lock"
    /\ \/ /\ LockFree(c)
          /\ lock' = c
          /\ pc' = [pc EXCEPT ![c] = "run"]
          /\ UNCHANGED <<outcome, failures>>
       \/ /\ CanFail
          /\ failures' = failures + 1
          /\ outcome' = [outcome EXCEPT ![c] = "err"]
          /\ pc' = [pc EXCEPT ![c] = "idle"]
          /\ UNCHANGED lock
    /\ UNCHANGED <<chains, op, listed, left, result, calls>>

-----------------------------------------------------------------------------
(* The iptables effects, as the kernel applies them.                       *)

\* The chain the current call of c names.
Target(c) == chains[op[c].chain]

\* A plausible fault, for mutation checks: the loop bound forgetting that
\* the list starts with the "-N <chain>" line.
LoopCountWithoutHeader(c) == Len(Target(c)) - op[c].pos

\* len(rules[ruleNum:]), rules holding the "-N" line and then the chain.
LoopCount(c) == Len(Target(c)) + 1 - op[c].pos

\* len(strings.Split(strings.TrimSpace(output), "\n")) for an output of
\* the given number of lines; an empty output still splits into [""].
RuleCountOf(lines) == IF lines = 0 THEN 1 ELSE lines

\* The value a read-only call returns: RuleCount counts the lines of
\* "iptables -S -t <table>"; the others return what go-iptables reports.
ReadResult(c) ==
    IF op[c].kind = "ruleCount" THEN RuleCountOf(Abs!ListingLines(chains))
    ELSE Abs!ReadOf(chains, op[c])

\* The calls iptables refuses on the current table: a rule operation or a
\* List on a chain that does not exist, an insert position past the end,
\* a Delete with no matching rule, NewChain of an existing chain,
\* DeleteChain of a missing or non-empty chain, RenameChain from a
\* missing chain or onto an existing one.
Refused(c) ==
    LET o == op[c]
        n == o.chain
    IN  \/ o.kind \in {"append", "insert", "delete", "deleteAfter", "list"}
              /\ ~Abs!Exists(chains, n)
        \/ o.kind = "insert" /\ Abs!Exists(chains, n) /\ ~Abs!InsertValid(chains[n], o.pos)
        \/ o.kind = "delete" /\ Abs!Exists(chains, n) /\ Head(o.rules) \notin ToSet(chains[n])
        \/ o.kind = "newChain" /\ Abs!Exists(chains, n)
        \/ o.kind = "deleteChain" /\ (~Abs!Exists(chains, n) \/ chains[n] # << >>)
        \/ o.kind = "rename" /\ (~Abs!Exists(chains, n) \/ Abs!Exists(chains, o.to))

\* One step of a caller holding the lock, by the kind of its call:
\*  bulkAction (BulkAppend, BulkInsert): one iptables-restore --noflush of
\*    "-A <chain> r" or "-I <chain> <pos> r" lines and a COMMIT, applied
\*    entirely or not at all;
\*  FlushAndRestore: iptables-restore without --noflush, which replaces
\*    the whole table by the input's chains;
\*  Delete: iptables -D of a rulespec;
\*  chainExec: NewChain (-N), ClearChain (go-iptables: -N, and -F when the
\*    chain exists) and DeleteChain (-X); RenameChain (-E);
\*  Exists, ChainExists, List, ListChains, RuleCount: one read;
\*  DeleteAfterRuleNum(KeepReject): List, which includes the "-N <chain>"
\*    line, then "for range rules[ruleNum:]" (panics past the end).
Run(c) ==
    /\ pc[c] = "run"
    /\ LET o == op[c]
           n == o.chain
           Succeed(new) == /\ chains' = new
                           /\ pc' = [pc EXCEPT ![c] = "unlock"]
                           /\ UNCHANGED <<outcome, failures, listed, left, lock, result>>
           Set(v) == Succeed([chains EXCEPT ![n] = v])
       IN  \/ FailCall(c) /\ UNCHANGED <<chains, listed, left, lock, result>>
           \/ Refused(c) /\ outcome' = [outcome EXCEPT ![c] = "err"]
                         /\ pc' = [pc EXCEPT ![c] = "unlock"]
                         /\ UNCHANGED <<chains, failures, listed, left, lock, result>>
           \/ ~Refused(c) /\
              \/ o.kind = "append" /\ Set(chains[n] \o o.rules)
              \/ o.kind = "insert" /\ Set(Abs!InsertAll(chains[n], o.pos, o.rules))
              \/ o.kind = "restore" /\ Succeed(Abs!Restored(n, o.rules))
              \/ o.kind \in {"clear", "newChain"} /\ Set(<< >>)
              \/ o.kind = "deleteChain" /\ Set(Absent)
              \/ o.kind = "rename" /\ Succeed([chains EXCEPT ![n] = Absent, ![o.to] = chains[n]])
              \/ o.kind = "delete" /\ Set(Abs!DeleteFirst(chains[n], Head(o.rules)))
              \/ /\ o.kind \in ReadKinds
                 /\ result' = [result EXCEPT ![c] = ReadResult(c)]
                 /\ pc' = [pc EXCEPT ![c] = "unlock"]
                 /\ UNCHANGED <<chains, outcome, failures, listed, left, lock>>
              \/ /\ o.kind = "deleteAfter"
                 /\ o.pos > Len(chains[n]) + 1
                 /\ pc' = [pc EXCEPT ![c] = "panicked"]
                 /\ lock' = NoClient
                 /\ UNCHANGED <<chains, outcome, failures, listed, left, result>>
              \/ /\ o.kind = "deleteAfter"
                 /\ o.pos <= Len(chains[n]) + 1
                 /\ listed' = [listed EXCEPT ![c] = chains[n]]
                 /\ left' = [left EXCEPT ![c] = LoopCount(c)]
                 /\ pc' = [pc EXCEPT ![c] = "deleting"]
                 /\ UNCHANGED <<chains, outcome, failures, lock, result>>
    /\ UNCHANGED <<op, calls>>

\* A plausible fault, for mutation checks: deleting ruleNum, ruleNum+1, ...
DeletePositionAdvancing(c) ==
    LET done == Len(listed[c]) + 1 - op[c].pos - left[c] IN op[c].pos + done

\* fmt.Sprintf("%d", ruleNum): every iteration deletes the same position.
DeletePosition(c) == op[c].pos

\* One iteration of the delete loop: iptables -D <chain> <n> --wait; a
\* position outside 1..len is an iptables error, like any failed call.
DeleteRuleNum(c) ==
    /\ pc[c] = "deleting"
    /\ left[c] > 0
    /\ LET n == DeletePosition(c)
           ch == Target(c)
       IN
       \/ /\ n \in 1 .. Len(ch)
          /\ chains' = [chains EXCEPT ![op[c].chain] = RemoveAt(ch, n)]
          /\ left' = [left EXCEPT ![c] = @ - 1]
          /\ UNCHANGED <<pc, outcome, failures>>
       \/ /\ n \notin 1 .. Len(ch)
          /\ outcome' = [outcome EXCEPT ![c] = "err"]
          /\ pc' = [pc EXCEPT ![c] = "unlock"]
          /\ UNCHANGED <<chains, left, failures>>
       \/ FailCall(c) /\ UNCHANGED <<chains, left>>
    /\ UNCHANGED <<lock, op, listed, result, calls>>

\* A plausible fault, for mutation checks: the KeepReject variant written
\* as a copy of DeleteAfterRuleNum that lost its AppendUnique.
AppendsRejectNever(c) == FALSE

\* DeleteAfterRuleNumKeepReject, unlike DeleteAfterRuleNum, appends the
\* default-reject rule after the loop.
AppendsReject(c) == op[c].keepReject

\* The loop is over: DeleteAfterRuleNumKeepReject goes on to AppendUnique.
DeleteLoopDone(c) ==
    /\ pc[c] = "deleting"
    /\ left[c] = 0
    /\ pc' = [pc EXCEPT ![c] = IF AppendsReject(c) THEN "appendReject" ELSE "unlock"]
    /\ UNCHANGED <<chains, lock, op, listed, left, outcome, result, calls, failures>>

\* IPTables.AppendUnique of the default-reject rule.
AppendReject(c) ==
    /\ pc[c] = "appendReject"
    /\ \/ /\ chains' = [chains EXCEPT ![op[c].chain] = Abs!WithReject(Target(c))]
          /\ pc' = [pc EXCEPT ![c] = "unlock"]
          /\ UNCHANGED <<outcome, failures>>
       \/ FailCall(c) /\ UNCHANGED chains
    /\ UNCHANGED <<lock, op, listed, left, result, calls>>

\* l.Locker.Unlock(): the file lock is released.  A failing Unlock is
\* returned as the call's error (alone, or folded with the call's own by
\* handleIPTablesError).
Unlock(c) ==
    /\ pc[c] = "unlock"
    /\ lock' = NoClient
    /\ pc' = [pc EXCEPT ![c] = "idle"]
    /\ \/ UNCHANGED <<outcome, failures>>
       \/ CanFail /\ failures' = failures + 1 /\ outcome' = [outcome EXCEPT ![c] = "err"]
    /\ UNCHANGED <<chains, op, listed, left, result, calls>>

\* Every caller has made its calls or died: the run is over.
Finished ==
    /\ \A c \in Clients : pc[c] = "panicked" \/ (pc[c] = "idle" /\ calls[c] = MaxCalls)
    /\ UNCHANGED vars

Next ==
    \/ \E c \in Clients :
          \/ Call(c) \/ Lock(c) \/ Run(c) \/ DeleteRuleNum(c)
          \/ DeleteLoopDone(c) \/ AppendReject(c) \/ Unlock(c)
    \/ Finished

Spec == Init /\ [][Next]_vars

-----------------------------------------------------------------------------
(* Properties.                                                              *)

\* The table other callers see: while a caller is inside the delete loop
\* of DeleteAfterRuleNum its chain is the one that caller listed, and the
\* whole truncation appears at the step that ends the loop.
AbsChains ==
    IF \E c \in Clients : pc[c] \in {"deleting", "appendReject"}
    THEN LET c == CHOOSE c \in Clients : pc[c] \in {"deleting", "appendReject"}
         IN  [chains EXCEPT ![op[c].chain] = listed[c]]
    ELSE chains

AbsSpec == INSTANCE IPTablesTable WITH chains <- AbsChains, InitTables <- InitTables

\* Under the file lock, every call of LockedIPTables, the multi-call
\* DeleteAfterRuleNum loop included, acts on the table as one atomic
\* operation of IPTablesTable.
RefinesIPTablesTable == AbsSpec!Spec

\* When DeleteAfterRuleNum(KeepReject) is about to return nil, its chain
\* is exactly the first ruleNum-1 rules it listed (and then one reject
\* rule), whatever the other callers did meanwhile.
DeleteAfterRuleNumTruncates ==
    \A c \in Clients :
        (pc[c] = "unlock" /\ op[c].kind = "deleteAfter" /\ outcome[c] = "ok")
            => Target(c) = IF op[c].keepReject
                           THEN Abs!WithReject(Abs!Take(listed[c], op[c].pos - 1))
                           ELSE Abs!Take(listed[c], op[c].pos - 1)

\* DeleteAfterRuleNum never panics: the list is shorter than ruleNum only
\* when there is nothing to delete, which the loop should treat as zero
\* iterations.
DeleteAfterRuleNumNeverPanics == \A c \in Clients : pc[c] # "panicked"
====
