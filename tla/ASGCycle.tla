------------------------------ MODULE ASGCycle ------------------------------
(***************************************************************************)
(* vxlan-policy-agent/converger/converger.go, the ASG half of             *)
(* SinglePollCycle: DoASGCycle (the timer-driven full poll),              *)
(* SyncASGsForContainers (a targeted sync on a container event) and       *)
(* CleanupOrphanedASGsChains (on a container's removal).  All three hold  *)
(* asgMutex for their whole run, so each is one atomic step here; the    *)
(* planner is called once at the start of a sync, inside the lock.       *)
(*                                                                         *)
(* Environment, modelled from the spec: the container datastore (which   *)
(* containers the planner sees), the policy server (the ASG rules of     *)
(* each container) and the enforcer, which creates a fresh timestamped   *)
(* chain per enforcement.  A kernel chain is [gen, rules] under its      *)
(* container's parent chain; gen stands for the timestamp in its name.   *)
(***************************************************************************)
EXTENDS Integers, FiniteSets

CONSTANTS
    Containers,   \* container handles
    ASGRules,     \* rule sets the planner can compute for a container
    NoRules,      \* the zero RulesWithChain of an absent map entry
    NoChain,      \* the "" chain name of an absent map entry
    HasGuid,      \* containers whose rule set's LogConfig carries an app Guid
    MaxGen,       \* timestamps available to chain names (names are reused
                  \* only when neither the kernel nor the agent holds them)
    MaxUpdates,   \* bound on ASG rule changes on the policy server
    MaxFailures   \* bound on failed calls and agent restarts

ASSUME /\ NoRules \notin ASGRules
       /\ NoChain \notin 1 .. MaxGen

VARIABLES
    status,               \* datastore: "new", "alive" or "gone" per container
    asgDesired,           \* policy server: the rules of each container
    updates,              \* policy-server changes so far
    kchains,              \* kernel: the ASG chains of each container
    jumps,                \* kernel: the chains each parent chain jumps to
    asgRuleSets,          \* m.asgRuleSets
    asgChainToContainer,  \* m.asgChainToContainer
    pendingSync,          \* container-create events not yet handled
    pendingCleanup,       \* container-delete events not yet handled
    failures,
    appLogs               \* app logs the last call sent: <<container, rules>>

vars == <<status, asgDesired, updates, kchains, jumps, asgRuleSets,
          asgChainToContainer, pendingSync, pendingCleanup, failures, appLogs>>

Gens == 1 .. MaxGen
Chains == [gen : Gens, rules : ASGRules]
Outcomes == {"ok", "err", "cleanupErr"}

TypeOK ==
    /\ status \in [Containers -> {"new", "alive", "gone"}]
    /\ asgDesired \in [Containers -> ASGRules]
    /\ updates \in 0 .. MaxUpdates
    /\ kchains \in [Containers -> SUBSET Chains]
    /\ jumps \in [Containers -> SUBSET Gens]
    /\ asgRuleSets \in [Containers -> ASGRules \cup {NoRules}]
    /\ asgChainToContainer \in [Containers -> Gens \cup {NoChain}]
    /\ pendingSync \subseteq Containers
    /\ pendingCleanup \subseteq Containers
    /\ failures \in 0 .. MaxFailures
    /\ appLogs \subseteq Containers \X ASGRules
    \* the two maps are written and deleted together: they share their keys
    /\ \A c \in Containers : (asgChainToContainer[c] = NoChain) = (asgRuleSets[c] = NoRules)

Init ==
    /\ status = [c \in Containers |-> "new"]
    /\ asgDesired \in [Containers -> ASGRules]
    /\ updates = 0
    /\ kchains = [c \in Containers |-> {}]
    /\ jumps = [c \in Containers |-> {}]
    /\ asgRuleSets = [c \in Containers |-> NoRules]
    /\ asgChainToContainer = [c \in Containers |-> NoChain]
    /\ pendingSync = {}
    /\ pendingCleanup = {}
    /\ failures = 0
    /\ appLogs = {}

CanFail == failures < MaxFailures

-----------------------------------------------------------------------------
(* Environment.                                                             *)

ContainerCreate(c) ==
    /\ status[c] = "new"
    /\ status' = [status EXCEPT ![c] = "alive"]
    /\ pendingSync' = pendingSync \cup {c}
    /\ UNCHANGED <<asgDesired, updates, kchains, jumps, asgRuleSets,
                   asgChainToContainer, pendingCleanup, failures>>
    /\ appLogs' = {}

ContainerDelete(c) ==
    /\ status[c] = "alive"
    /\ status' = [status EXCEPT ![c] = "gone"]
    /\ pendingCleanup' = pendingCleanup \cup {c}
    /\ UNCHANGED <<asgDesired, updates, kchains, jumps, asgRuleSets,
                   asgChainToContainer, pendingSync, failures>>
    /\ appLogs' = {}

ASGChange(c, rs) ==
    /\ updates < MaxUpdates
    /\ rs # asgDesired[c]
    /\ asgDesired' = [asgDesired EXCEPT ![c] = rs]
    /\ updates' = updates + 1
    /\ UNCHANGED <<status, kchains, jumps, asgRuleSets, asgChainToContainer,
                   pendingSync, pendingCleanup, failures>>
    /\ appLogs' = {}

-----------------------------------------------------------------------------
(* Planner and enforcer (spec 4.6).                                         *)

\* GetASGRulesAndChains(containers...): the containers it returns rule sets
\* for; no argument means every container the datastore holds.
PlannerTargets(cs, all) ==
    {c \in Containers : status[c] = "alive" /\ (all \/ c \in cs)}

\* The timestamp EnforceRulesAndChain gives the new chain of c.
FreshGen(c) ==
    CHOOSE g \in Gens : /\ g \notin {ch.gen : ch \in kchains[c]}
                        /\ g # asgChainToContainer[c]

\* The kernel of c after EnforceRulesAndChain with outcome o: a success
\* leaves only the new chain; a CleanupErr adds it and keeps the old ones.
EnforcedChains(c, o) ==
    LET new == [gen |-> FreshGen(c), rules |-> asgDesired[c]]
    IN  CASE o = "ok"         -> {new}
          [] o = "cleanupErr" -> kchains[c] \cup {new}
          [] o = "err"        -> kchains[c]

EnforcedJumps(c, o) ==
    CASE o = "ok"         -> {FreshGen(c)}
      [] o = "cleanupErr" -> jumps[c] \cup {FreshGen(c)}
      [] o = "err"        -> jumps[c]

-----------------------------------------------------------------------------
(* SinglePollCycle.                                                          *)

\* Plausible faults, for mutation checks: desiredChains read before
\* updateRuleSet, and the purge comparing the parent chain (chainKey.Name),
\* which never names a deleted child chain.
DesiredChainBeforeUpdate(c, chainTo) == <<c, asgChainToContainer[c]>>
PurgedEntryByKey(c, chainTo, deleted) == FALSE

\* converger.go:191: the live chain a returned rule set contributes to
\* desiredChains, read from m.asgChainToContainer after updateRuleSet.
DesiredChain(c, chainTo) == <<c, chainTo[c]>>

\* converger.go:252-259: an entry of m.asgChainToContainer is dropped when
\* CleanChainsMatching deleted the chain it names (same table and name).
PurgedEntry(c, chainTo, deleted) == <<c, chainTo[c]>> \in deleted

\* sendAppLog(ruleset.LogConfig) for each container in rec: "Security
\* group rules were updated" to the app of the LogConfig's Guid, announcing
\* the container's new rules; a LogConfig without a Guid returns at once.
\* The tags and source fields are formatting and left out.
sendAppLog(rec) == {<<c, asgDesired[c]>> : c \in rec \cap HasGuid}

\* updateRuleSet(chainKey, chain, ruleset) for each container in rec:
\* m.asgChainToContainer takes the new chain, m.asgRuleSets the rules, and
\* sendAppLog announces them.
updateRuleSet(rec) ==
    [chainTo  |-> [c \in Containers |->
                      IF c \in rec THEN FreshGen(c) ELSE asgChainToContainer[c]],
     ruleSets |-> [c \in Containers |->
                      IF c \in rec THEN asgDesired[c] ELSE asgRuleSets[c]],
     logs     |-> sendAppLog(rec)]

\* cleanupASGsChainsMatching(prefix, desiredChains) once CleanChainsMatching
\* succeeded: the enforcer deletes every ASG chain (and its jump) not in
\* desiredChains and returns them; every map entry naming a deleted chain
\* is dropped from both maps.
cleanupASGsChainsMatching(chains, jmps, chainTo, ruleSets, desiredChains) ==
    LET Kept(c, g) == <<c, g>> \in desiredChains
        deleted == UNION {{<<c, ch.gen>> : ch \in chains[c]} : c \in Containers}
                       \ desiredChains
        purged(c) == PurgedEntry(c, chainTo, deleted)
    IN  [kchains  |-> [c \in Containers |-> {ch \in chains[c] : Kept(c, ch.gen)}],
         jumps    |-> [c \in Containers |-> {g \in jmps[c] : Kept(c, g)}],
         chainTo  |-> [c \in Containers |-> IF purged(c) THEN NoChain ELSE chainTo[c]],
         ruleSets |-> [c \in Containers |-> IF purged(c) THEN NoRules ELSE ruleSets[c]]]

\* A plausible fault, for mutation checks: the orphan sweep never run.
pollingLoopNever(cs) == FALSE

\* pollingLoop := len(containers) == 0: only the full poll sweeps orphans.
pollingLoop(cs) == cs = {}

\* SyncASGsForContainers(cs...), where no argument means all containers: a
\* planner error returns at once; otherwise every returned rule set that
\* differs from m.asgRuleSets is enforced, and updateRuleSet records the
\* chain on success and on a CleanupErr; desiredChains collects the
\* recorded chain of every returned container; a full poll then calls
\* CleanChainsMatching and drops the map entries of the chains it deleted.
\* The app logs go out as each rule set is recorded, before the sweep; a
\* failed SendAppLog is only logged, so any of them may be lost.
SyncASGs(cs) ==
    LET targets == PlannerTargets(cs, cs = {})
        changed == {c \in targets : asgDesired[c] # asgRuleSets[c]}
    IN
    \/ /\ CanFail
       /\ failures' = failures + 1
       /\ appLogs' = {}
       /\ UNCHANGED <<kchains, jumps, asgRuleSets, asgChainToContainer>>
    \/ \E o \in [changed -> Outcomes], cleanupOk \in IF pollingLoop(cs) THEN BOOLEAN ELSE {TRUE} :
        LET failed == (\E c \in changed : o[c] # "ok") \/ ~cleanupOk
            recorded == {c \in changed : o[c] \in {"ok", "cleanupErr"}}
            chains1 == [c \in Containers |->
                          IF c \in changed THEN EnforcedChains(c, o[c]) ELSE kchains[c]]
            jumps1 == [c \in Containers |->
                          IF c \in changed THEN EnforcedJumps(c, o[c]) ELSE jumps[c]]
            chainTo1 == updateRuleSet(recorded).chainTo
            ruleSets1 == updateRuleSet(recorded).ruleSets
            desiredChains == {DesiredChain(c, chainTo1) : c \in targets}
            swept == cleanupASGsChainsMatching(chains1, jumps1, chainTo1, ruleSets1,
                                               desiredChains)
        IN  /\ failed => CanFail
            /\ failures' = IF failed THEN failures + 1 ELSE failures
            /\ appLogs' \in SUBSET updateRuleSet(recorded).logs
            /\ IF pollingLoop(cs) /\ cleanupOk
               THEN /\ kchains' = swept.kchains
                    /\ jumps' = swept.jumps
                    /\ asgChainToContainer' = swept.chainTo
                    /\ asgRuleSets' = swept.ruleSets
               ELSE /\ kchains' = chains1
                    /\ jumps' = jumps1
                    /\ asgChainToContainer' = chainTo1
                    /\ asgRuleSets' = ruleSets1

\* DoASGCycle: the timer-driven full poll.
DoASGCycle ==
    /\ SyncASGs({})
    /\ UNCHANGED <<status, asgDesired, updates, pendingSync, pendingCleanup>>

\* The container-create event: a targeted sync of that container.
SyncASGsForContainers(c) ==
    /\ c \in pendingSync
    /\ pendingSync' = pendingSync \ {c}
    /\ SyncASGs({c})
    /\ UNCHANGED <<status, asgDesired, updates, pendingCleanup>>

\* A plausible fault, for mutation checks: the delete from m.asgRuleSets
\* left out.
ForgetRuleSetKept(c) == asgRuleSets

\* delete(m.asgRuleSets, chain)
ForgetRuleSet(c) == [asgRuleSets EXCEPT ![c] = NoRules]

\* CleanupOrphanedASGsChains(handle): CleanupChain of the container's
\* chain; on success its map entries are deleted, on error nothing is.
CleanupOrphanedASGsChains(c) ==
    /\ c \in pendingCleanup
    /\ pendingCleanup' = pendingCleanup \ {c}
    /\ appLogs' = {}
    /\ \/ /\ CanFail
          /\ failures' = failures + 1
          /\ UNCHANGED <<kchains, jumps, asgRuleSets, asgChainToContainer>>
       \/ /\ kchains' = [kchains EXCEPT ![c] = {}]
          /\ jumps' = [jumps EXCEPT ![c] = {}]
          /\ asgChainToContainer' = [asgChainToContainer EXCEPT ![c] = NoChain]
          /\ asgRuleSets' = ForgetRuleSet(c)
          /\ UNCHANGED failures
    /\ UNCHANGED <<status, asgDesired, updates, pendingSync>>

\* The agent restarts: its maps are empty again and undelivered events are
\* lost; the kernel keeps its chains.
Restart ==
    /\ CanFail
    /\ failures' = failures + 1
    /\ asgRuleSets' = [c \in Containers |-> NoRules]
    /\ asgChainToContainer' = [c \in Containers |-> NoChain]
    /\ pendingSync' = {}
    /\ pendingCleanup' = {}
    /\ appLogs' = {}
    /\ UNCHANGED <<status, asgDesired, updates, kchains, jumps>>

Environment ==
    \E c \in Containers :
        \/ ContainerCreate(c)
        \/ ContainerDelete(c)
        \/ \E rs \in ASGRules : ASGChange(c, rs)

Next ==
    \/ Environment
    \/ DoASGCycle
    \/ \E c \in Containers : SyncASGsForContainers(c) \/ CleanupOrphanedASGsChains(c)
    \/ Restart

\* The full poll runs on a ticker forever.
Spec == Init /\ [][Next]_vars /\ WF_vars(DoASGCycle)

\* CurrentlyAppliedChainNames: the chain of every entry of
\* m.asgChainToContainer, named by its container and timestamp.
CurrentlyAppliedChainNames ==
    {<<c, asgChainToContainer[c]>> : c \in {d \in Containers : asgChainToContainer[d] # NoChain}}

-----------------------------------------------------------------------------
(* Properties.                                                              *)

\* Every chain CurrentlyAppliedChainNames reports (the map entry of a
\* container) names a chain that is in the kernel,
\* jumped to from the container's parent chain, and holding the rules
\* m.asgRuleSets records: otherwise a later sync that finds the rules
\* unchanged skips enforcement and keeps a chain name that CleanChainsMatching
\* treats as desired while the container's real chain is missing.
BookkeepingMatchesKernel ==
    \A <<c, g>> \in CurrentlyAppliedChainNames :
        /\ [gen |-> g, rules |-> asgRuleSets[c]] \in kchains[c]
        /\ g \in jumps[c]

\* Every running container is guarded by exactly one chain with its
\* current rules, and no chain is left for a removed container.
ASGConverged ==
    \A c \in Containers :
        IF status[c] = "alive"
        THEN \E g \in Gens : /\ kchains[c] = {[gen |-> g, rules |-> asgDesired[c]]}
                             /\ jumps[c] = {g}
        ELSE kchains[c] = {} /\ jumps[c] = {}

\* Once containers, rules and failures stop changing, the full poll
\* converges the kernel: stray chains left by a CleanupErr, by a restart or
\* by a failed CleanupOrphanedASGsChains are removed.
ASGConverges == <>[]ASGConverged

\* What an app is told is true when the call returns: every "Security group
\* rules were updated" log that updateRuleSet sent names rules that the
\* container's parent chain jumps to, although a full poll's orphan sweep
\* runs after the logs were sent and deletes every chain not in
\* desiredChains.
AppLogsAnnounceInstalledRules ==
    \A <<c, r>> \in appLogs : \E ch \in kchains[c] : ch.rules = r /\ ch.gen \in jumps[c]
=============================================================================
