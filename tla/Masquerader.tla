----------------------------- MODULE Masquerader -----------------------------
(***************************************************************************)
(* cni-wrapper-plugin/netrules/masquerader.go: the no-masquerade range a  *)
(* CNI plugin invocation uses for its container's masquerade rule.  Each  *)
(* Masquerader belongs to one plugin invocation; it either has a custom   *)
(* range or asks the local silk daemon for its lease, GET / with up to    *)
(* maxAttempts tries, and caches the first lease it gets.                 *)
(*                                                                         *)
(* Environment (not under src/, modelled from the spec): the daemon,      *)
(* whose lease can change and whose GETs can fail, and the plugin         *)
(* controller's AddIPMasq/DelIPMasq, which write the kernel's masquerade  *)
(* rules [ip, range] and can fail.                                         *)
(***************************************************************************)
EXTENDS Integers, FiniteSets

CONSTANTS
    Instances,     \* Masqueraders (one per plugin invocation); the id is the container IP
    Leases,        \* overlay subnets the daemon can hold
    NoCIDR,        \* the "" string
    Custom,        \* Custom[i]: CustomNoMasqueradeCIDRRange of instance i
    MaxAttempts,   \* maxAttempts (5 in the code)
    MaxCalls,      \* bound on AddIPMasq/DelIPMasq calls per instance
    MaxChanges,    \* bound on daemon lease changes
    MaxFailures    \* bound on failed GETs and controller calls

ASSUME /\ NoCIDR \notin Leases
       /\ Custom \in [Instances -> Leases \cup {NoCIDR}]
       /\ MaxAttempts \in Nat \ {0}

VARIABLES
    daemonLease,   \* the overlay subnet the daemon serves at GET /
    lease,         \* m.lease of each instance
    pc,            \* "idle" or "fetch" (inside getLeaseFromDaemon)
    call,          \* the call being served: "add" or "del"
    attempt,       \* attempt of the loop in getLeaseFromDaemon
    rules,         \* kernel: masquerade rules [ip, range]
    fetchFails,    \* failed GETs of the current getLeaseFromDaemon
    gaveUp,        \* getLeaseFromDaemon returned its error
    calls, changes, failures

vars == <<daemonLease, lease, pc, call, attempt, rules, fetchFails, gaveUp,
          calls, changes, failures>>

TypeOK ==
    /\ daemonLease \in Leases
    /\ lease \in [Instances -> Leases \cup {NoCIDR}]
    /\ pc \in [Instances -> {"idle", "fetch"}]
    /\ call \in [Instances -> {"add", "del"}]
    /\ attempt \in [Instances -> 1 .. MaxAttempts]
    /\ rules \subseteq Instances \X Leases
    /\ fetchFails \in [Instances -> Nat]
    /\ gaveUp \in [Instances -> BOOLEAN]
    /\ calls \in [Instances -> 0 .. MaxCalls]
    /\ changes \in 0 .. MaxChanges
    /\ failures \in 0 .. MaxFailures

Init ==
    /\ daemonLease \in Leases
    /\ lease = [i \in Instances |-> NoCIDR]
    /\ pc = [i \in Instances |-> "idle"]
    /\ call = [i \in Instances |-> "add"]
    /\ attempt = [i \in Instances |-> 1]
    /\ rules = {}
    /\ fetchFails = [i \in Instances |-> 0]
    /\ gaveUp = [i \in Instances |-> FALSE]
    /\ calls = [i \in Instances |-> 0]
    /\ changes = 0
    /\ failures = 0

CanFail == failures < MaxFailures

\* PluginController.AddIPMasq / DelIPMasq with the range r: the rule is
\* added or deleted, or the call fails and the kernel is unchanged.
Controller(i, r) ==
    \/ /\ rules' = IF call'[i] = "add" THEN rules \cup {<<i, r>>}
                                       ELSE rules \ {<<i, r>>}
       /\ UNCHANGED failures
    \/ CanFail /\ failures' = failures + 1 /\ UNCHANGED rules

-----------------------------------------------------------------------------

\* getLease: the cached lease when m.lease is set.
CachedLease(i) == lease[i]

\* AddIPMasq / DelIPMasq up to getLease: a custom range or a cached lease
\* goes straight to the controller; otherwise the daemon is asked.
Begin(i) ==
    /\ pc[i] = "idle"
    /\ calls[i] < MaxCalls
    /\ calls' = [calls EXCEPT ![i] = @ + 1]
    /\ \E k \in {"add", "del"} : call' = [call EXCEPT ![i] = k]
    /\ CASE Custom[i] # NoCIDR ->
              Controller(i, Custom[i]) /\ UNCHANGED <<pc, attempt, fetchFails, gaveUp>>
         [] CachedLease(i) # NoCIDR ->
              Controller(i, CachedLease(i)) /\ UNCHANGED <<pc, attempt, fetchFails, gaveUp>>
         [] OTHER ->
              /\ pc' = [pc EXCEPT ![i] = "fetch"]
              /\ attempt' = [attempt EXCEPT ![i] = 1]
              /\ fetchFails' = [fetchFails EXCEPT ![i] = 0]
              /\ gaveUp' = [gaveUp EXCEPT ![i] = FALSE]
              /\ UNCHANGED <<rules, failures>>
    /\ UNCHANGED <<daemonLease, lease, changes>>

\* Plausible faults, for mutation checks: giving up one attempt early or
\* one attempt late.
IsLastAttemptEarly(n) == n = MaxAttempts - 1
IsLastAttemptLate(n) == n = MaxAttempts + 1

\* if attempt == maxAttempts: return the error
IsLastAttempt(n) == n = MaxAttempts

\* One GET / of getLeaseFromDaemon.  Success: getLease stores the lease
\* in m.lease and the controller is called with it.  Failure: on the last
\* attempt the error returns and nothing is cached or written; otherwise
\* sleep and try again.
Attempt(i) ==
    /\ pc[i] = "fetch"
    /\ \/ /\ lease' = [lease EXCEPT ![i] = daemonLease]
          /\ pc' = [pc EXCEPT ![i] = "idle"]
          /\ UNCHANGED <<call, attempt, fetchFails, gaveUp>>
          /\ Controller(i, daemonLease)
       \/ /\ CanFail
          /\ failures' = failures + 1
          /\ fetchFails' = [fetchFails EXCEPT ![i] = @ + 1]
          /\ IF IsLastAttempt(attempt[i])
             THEN /\ pc' = [pc EXCEPT ![i] = "idle"]
                  /\ gaveUp' = [gaveUp EXCEPT ![i] = TRUE]
                  /\ UNCHANGED attempt
             ELSE attempt' = [attempt EXCEPT ![i] = @ + 1] /\ UNCHANGED <<pc, gaveUp>>
          /\ UNCHANGED <<lease, call, rules>>
    /\ UNCHANGED <<daemonLease, calls, changes>>

\* The daemon's lease changes (it lost its lease and acquired another).
DaemonLeaseChange ==
    /\ changes < MaxChanges
    /\ \E l \in Leases \ {daemonLease} : daemonLease' = l
    /\ changes' = changes + 1
    /\ UNCHANGED <<lease, pc, call, attempt, rules, fetchFails, gaveUp,
                   calls, failures>>

Next ==
    \/ \E i \in Instances : Begin(i) \/ Attempt(i)
    \/ DaemonLeaseChange

Spec == Init /\ [][Next]_vars

-----------------------------------------------------------------------------
(* Properties.                                                              *)

\* getLeaseFromDaemon reports a failure only after maxAttempts GETs have
\* failed in a row, and never asks the daemon more than maxAttempts times.
GivesUpOnlyAfterMaxAttempts ==
    \A i \in Instances :
        /\ pc[i] = "fetch" => fetchFails[i] < MaxAttempts
        /\ gaveUp[i] => fetchFails[i] = MaxAttempts
====
