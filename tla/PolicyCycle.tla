----------------------------- MODULE PolicyCycle -----------------------------
(***************************************************************************)
(* vxlan-policy-agent/converger/converger.go, the policy half of          *)
(* SinglePollCycle: DoPolicyCycleWithLastUpdatedCheck and DoPolicyCycle.   *)
(*                                                                         *)
(* One goroutine runs the policy loop on a timer.  The policy server is   *)
(* the environment: it changes the rules a planner will return and bumps  *)
(* its last-updated token.  The rule enforcer (not under src/, modelled   *)
(* from the spec) writes the kernel's chains; an enforcement either       *)
(* succeeds, fails before touching the kernel, or installs the new chain  *)
(* and then fails to clean up the old one (a CleanupErr).                 *)
(***************************************************************************)
EXTENDS Integers, FiniteSets

CONSTANTS
    Planners,          \* 1..n, the configured planners, one chain each
    Rules,             \* rule sets a planner can compute for its chain
    NoRules,           \* the zero RulesWithChain of an absent map entry
    MaxUpdates,        \* bound on policy-server changes
    MaxFailures,       \* bound on failed calls and agent restarts
    LastUpdatedCheck,  \* TRUE: the loop calls DoPolicyCycleWithLastUpdatedCheck
    EnforceFaults      \* TRUE: planners and enforcements may fail

ASSUME /\ Planners = 1 .. Cardinality(Planners)
       /\ NoRules \notin Rules
       /\ LastUpdatedCheck \in BOOLEAN
       /\ EnforceFaults \in BOOLEAN

VARIABLES
    desired,         \* policy server: the rule set each planner computes now
    token,           \* policy server: GetPoliciesLastUpdated
    lastUpdated,     \* m.lastUpdated
    policyRuleSets,  \* m.policyRuleSets: chain -> last enforced rule set
    installed,       \* kernel: the rule sets whose chains are jumped to
    pc,              \* "idle" or "cycle" (inside DoPolicyCycle, lock held)
    next,            \* the planner DoPolicyCycle calls next
    failures         \* failed calls and restarts so far

vars == <<desired, token, lastUpdated, policyRuleSets, installed, pc, next, failures>>

Outcomes == {"ok", "err", "cleanupErr"}

TypeOK ==
    /\ desired \in [Planners -> Rules]
    /\ token \in 1 .. MaxUpdates + 1
    /\ lastUpdated \in 0 .. MaxUpdates + 1
    /\ policyRuleSets \in [Planners -> Rules \cup {NoRules}]
    /\ installed \in [Planners -> SUBSET Rules]
    /\ pc \in {"idle", "cycle"}
    /\ next \in Planners
    /\ failures \in 0 .. MaxFailures

\* The agent starts with empty maps and lastUpdated 0 on a host whose
\* kernel may still hold chains from a previous run.
Init ==
    /\ desired \in [Planners -> Rules]
    /\ token = 1
    /\ lastUpdated = 0
    /\ policyRuleSets = [p \in Planners |-> NoRules]
    /\ installed \in [Planners -> SUBSET Rules]
    /\ pc = "idle"
    /\ next = 1
    /\ failures = 0

CanFail == failures < MaxFailures

\* A planner or an enforcement may fail.
CanFailCycle == CanFail /\ EnforceFaults

-----------------------------------------------------------------------------
(* Enforcer (spec 4.6): the kernel after EnforceRulesAndChain of rs.       *)

Enforced(p, rs, outcome) ==
    CASE outcome = "ok"         -> [installed EXCEPT ![p] = {rs}]
      [] outcome = "cleanupErr" -> [installed EXCEPT ![p] = @ \cup {rs}]
      [] outcome = "err"        -> installed

-----------------------------------------------------------------------------
(* Policy server.                                                          *)

PolicyChange ==
    /\ token <= MaxUpdates
    /\ \E p \in Planners, rs \in Rules :
          /\ rs # desired[p]
          /\ desired' = [desired EXCEPT ![p] = rs]
    /\ token' = token + 1
    /\ UNCHANGED <<lastUpdated, policyRuleSets, installed, pc, next, failures>>

-----------------------------------------------------------------------------
(* The policy loop.                                                         *)

\* DoPolicyCycle entry: lock, make the map, start at the first planner.
BeginCycle ==
    /\ pc' = "cycle"
    /\ next' = 1

\* DoPolicyCycleWithLastUpdatedCheck: a failed token read runs the cycle;
\* a token newer than m.lastUpdated (or m.lastUpdated = 0) is recorded and
\* then the cycle runs; otherwise the cycle is skipped.
DoPolicyCycleWithLastUpdatedCheck ==
    /\ LastUpdatedCheck
    /\ pc = "idle"
    /\ \/ /\ CanFail
          /\ failures' = failures + 1
          /\ BeginCycle
          /\ UNCHANGED lastUpdated
       \/ /\ lastUpdated = 0 \/ token > lastUpdated
          /\ lastUpdated' = token
          /\ BeginCycle
          /\ UNCHANGED failures
       \/ /\ ~(lastUpdated = 0 \/ token > lastUpdated)
          /\ UNCHANGED <<pc, next, lastUpdated, failures>>
    /\ UNCHANGED <<desired, token, policyRuleSets, installed>>

\* The loop calling DoPolicyCycle directly.
DoPolicyCycle ==
    /\ ~LastUpdatedCheck
    /\ pc = "idle"
    /\ BeginCycle
    /\ UNCHANGED <<desired, token, lastUpdated, policyRuleSets, installed, failures>>

\* Leaving DoPolicyCycle (return, with or without an error): unlock.
EndCycle == pc' = "idle" /\ next' = 1

\* Plausible faults, for mutation checks: the map written before the
\* enforce error is checked, and the map write dropped.
RecordedBeforeCheck(outcome) == TRUE
RecordedNever(outcome) == FALSE

\* converger.go:119-124: the map is written only when EnforceRulesAndChain
\* returned no error.
Recorded(outcome) == outcome = "ok"

\* A plausible fault, for mutation checks: the loop bound one too high.
IsLastPlannerOffByOne(p) == p = Cardinality(Planners) + 1

\* for _, planner := range m.planners: the loop ends after the last one.
IsLastPlanner(p) == p = Cardinality(Planners)

\* One iteration of the planner loop of DoPolicyCycle: GetPolicyRulesAndChain
\* (an error returns "get-rules"), compare with the last enforced set of
\* the chain, and when it differs enforce it (an error returns "enforce"
\* and leaves the map alone) and record it.
PlannerStep ==
    /\ pc = "cycle"
    /\ next \in Planners
    /\ LET p == next
           ruleSet == desired[p]
           AfterPlanner == IF IsLastPlanner(p) THEN EndCycle
                           ELSE next' = p + 1 /\ UNCHANGED pc
       IN  \/ /\ CanFailCycle
              /\ failures' = failures + 1
              /\ EndCycle
              /\ UNCHANGED <<policyRuleSets, installed>>
           \/ /\ ruleSet = policyRuleSets[p]
              /\ AfterPlanner
              /\ UNCHANGED <<policyRuleSets, installed, failures>>
           \/ /\ ruleSet # policyRuleSets[p]
              /\ \E outcome \in Outcomes :
                    /\ outcome # "ok" => CanFailCycle
                    /\ installed' = Enforced(p, ruleSet, outcome)
                    /\ policyRuleSets' =
                          IF Recorded(outcome)
                          THEN [policyRuleSets EXCEPT ![p] = ruleSet]
                          ELSE policyRuleSets
                    /\ IF outcome = "ok"
                       THEN AfterPlanner /\ UNCHANGED failures
                       ELSE failures' = failures + 1 /\ EndCycle
    /\ UNCHANGED <<desired, token, lastUpdated>>

\* A plausible fault, for mutation checks: lastUpdated kept across a
\* restart (persisted with the process, or restored from a cache).
RestartKeepsLastUpdated ==
    /\ CanFail
    /\ failures' = failures + 1
    /\ policyRuleSets' = [p \in Planners |-> NoRules]
    /\ pc' = "idle"
    /\ next' = 1
    /\ UNCHANGED <<desired, token, installed, lastUpdated>>

\* The agent process restarts: its maps and lastUpdated are lost, the
\* kernel keeps its chains.
Restart ==
    /\ CanFail
    /\ failures' = failures + 1
    /\ lastUpdated' = 0
    /\ policyRuleSets' = [p \in Planners |-> NoRules]
    /\ pc' = "idle"
    /\ next' = 1
    /\ UNCHANGED <<desired, token, installed>>

PolicyLoop == DoPolicyCycleWithLastUpdatedCheck \/ DoPolicyCycle \/ PlannerStep

Next == PolicyChange \/ PolicyLoop \/ Restart

\* The loop is driven by a ticker forever: it is weakly fair.
Spec == Init /\ [][Next]_vars /\ WF_vars(PolicyLoop)

-----------------------------------------------------------------------------
(* Properties.                                                              *)

Converged(p) == installed[p] = {desired[p]}

\* Whatever m.policyRuleSets says was enforced for a chain is still in the
\* kernel: the map is written only after EnforceRulesAndChain succeeded
\* (converger.go:119-124), and a later CleanupErr only adds a chain.
CacheNeverAhead ==
    \A p \in Planners :
        policyRuleSets[p] # NoRules => policyRuleSets[p] \in installed[p]

\* A chain whose planner result equals m.policyRuleSets is skipped by
\* DoPolicyCycle (converger.go:110-111), so that equality must mean the
\* kernel holds exactly those rules; otherwise the difference is never
\* repaired.
CacheTruthful ==
    \A p \in Planners : policyRuleSets[p] = desired[p] => Converged(p)

\* Once the policy server stops changing and failures stop, the loop
\* brings m.policyRuleSets up to every planner's current result.  With
\* the last-updated check, this holds when only token reads fail and the
\* agent restarts (a failed read runs the cycle; a restart forgets
\* lastUpdated), and fails when a planner or an enforcement fails after
\* the token was stored (converger.go:84).
PolicyCacheConverges ==
    <>[](\A p \in Planners : policyRuleSets[p] = desired[p])
=============================================================================
