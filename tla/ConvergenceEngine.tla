-------------------------- MODULE ConvergenceEngine --------------------------
(***************************************************************************)
(* The silk daemon's convergence engine (spec 4.4): each poll cycle takes  *)
(* the full lease list, snapshots the routes, ARP and FDB entries of the   *)
(* VTEP link, upserts the entries of every routable remote lease, and      *)
(* then deletes the snapshotted entries no lease accounts for.  Its code  *)
(* is not under src/ (only silk/daemon/vtep/converger_test.go is): the    *)
(* model follows the spec and that test.                                  *)
(*                                                                         *)
(* Abstraction: a lease is [host, subnet, ok], ok FALSE for a malformed   *)
(* subnet, underlay IP or MAC.  A route's destination and gateway, and an *)
(* ARP entry's IP, are the lease's subnet; its source IP depends only on  *)
(* the subnet's network and the fixed local lease, so it is left out.    *)
(* The lease's MAC is derived from its overlay IP, so the subnet stands  *)
(* for it: an FDB entry is <<subnet, underlay IP>>, one per MAC.          *)
(***************************************************************************)
EXTENDS Naturals, FiniteSets, Sequences

CONSTANTS
    Hosts,        \* underlay IPs of the cells
    Subnets,      \* overlay subnets a lease can name
    LocalSubnet,  \* Converger.LocalSubnet: this cell's own lease
    NetOf,        \* NetOf[s]: the configured overlay network holding s, or Outside
    Outside,
    SingleIP,     \* SingleIP[s]: s is a /32 lease
    Foreign,      \* routes on the link the engine did not create (no gateway)
    Lists,        \* lease lists the daemon can poll
    InitKernels,  \* kernel states a previous run of the daemon can leave
    MaxChanges,   \* bound on changes of the lease list
    MaxFaults     \* bound on failed kernel calls, restarts and outside deletions

ASSUME /\ LocalSubnet \in Subnets /\ Foreign \cap Subnets = {}
       /\ SingleIP \in [Subnets -> BOOLEAN]

Leases == [host : Hosts, subnet : Subnets, ok : BOOLEAN]

VARIABLES
    leases,   \* the lease list the controller currently serves
    routes,   \* kernel: routes on the VTEP link
    arp,      \* kernel: ARP entries on the link, by IP
    fdb,      \* kernel: FDB entries <<MAC, underlay IP>>
    pc,       \* "idle", "apply" (upserting) or "delete" (reverse diff)
    cycle,    \* the lease list the running cycle converges to
    todo,     \* leases of the cycle not yet upserted
    stale,    \* snapshotted entries the cycle still has to delete
    result,   \* what the last cycle returned
    changes, faults

vars == <<leases, routes, arp, fdb, pc, cycle, todo, stale, result, changes, faults>>

Entries == ({"route"} \X (Subnets \cup Foreign)) \cup ({"arp"} \X Subnets) \cup ({"fdb"} \X (Subnets \X Hosts))

TypeOK ==
    /\ leases \in Lists /\ cycle \in Lists
    /\ routes \subseteq Subnets \cup Foreign
    /\ arp \subseteq Subnets
    /\ fdb \subseteq Subnets \X Hosts
    \* NeighSet replaces: the bridge keeps one underlay IP per MAC
    /\ \A e1, e2 \in fdb : e1[1] = e2[1] => e1 = e2
    /\ pc \in {"idle", "apply", "delete"}
    /\ todo \subseteq Leases /\ stale \subseteq Entries
    /\ result \in {"none", "ok", "err"}
    /\ changes \in 0 .. MaxChanges /\ faults \in 0 .. MaxFaults

Init ==
    /\ leases \in Lists
    /\ \E k \in InitKernels : routes = k.routes /\ arp = k.arp /\ fdb = k.fdb
    /\ pc = "idle" /\ cycle = leases /\ todo = {} /\ stale = {}
    /\ result = "none" /\ changes = 0 /\ faults = 0

CanFail == faults < MaxFaults

\* The cycle returns its error; nothing applied so far is rolled back.
Abort ==
    /\ pc' = "idle" /\ result' = "err" /\ todo' = {} /\ stale' = {}

-----------------------------------------------------------------------------
(* The cycle.                                                               *)

\* Step 3: skip the local lease and leases outside every overlay network.
Routable(ls) == {l \in ls : l.subnet # LocalSubnet /\ NetOf[l.subnet] # Outside}

\* The managed entries the well-formed routable leases call for: a route
\* for each block lease, an ARP and an FDB entry for every lease.
Desired(ls) ==
    LET r == {l \in Routable(ls) : l.ok}
    IN  [routes |-> {l.subnet : l \in {x \in r : ~SingleIP[x.subnet]}},
         arp    |-> {l.subnet : l \in r},
         fdb    |-> {<<l.subnet, l.host>> : l \in r}]

\* Step 5: only a route of the engine's shape (a gateway, universe scope)
\* is "ours"; operator routes on the link are not.
IsOurs(r) == r \notin Foreign

\* The kernel's managed entries.
Managed == [routes |-> {r \in routes : IsOurs(r)}, arp |-> arp, fdb |-> fdb]

\* A plausible fault, for mutation checks: the FDB left out of the
\* reverse diff.
StaleEntriesWithoutFDB(snap, d) ==
    ({"route"} \X (snap.routes \ d.routes)) \cup ({"arp"} \X (snap.arp \ d.arp))

\* Step 5: the snapshotted managed entries no routable lease accounts for.
StaleEntries(snap, d) ==
    ({"route"} \X (snap.routes \ d.routes)) \cup ({"arp"} \X (snap.arp \ d.arp))
        \cup ({"fdb"} \X (snap.fdb \ d.fdb))

\* Steps 1-2: the link lookup and the three list calls; any failure
\* aborts the cycle before it changes anything.  Otherwise the snapshot
\* fixes what the reverse diff will delete.
Begin ==
    /\ pc = "idle"
    /\ \/ CanFail /\ faults' = faults + 1 /\ Abort /\ UNCHANGED cycle
       \/ /\ cycle' = leases
          /\ todo' = Routable(leases)
          /\ stale' = StaleEntries(Managed, Desired(leases))
          /\ pc' = IF Routable(leases) = {} THEN "delete" ELSE "apply"
          /\ UNCHANGED <<result, faults>>
    /\ UNCHANGED <<leases, routes, arp, fdb, changes>>

\* A plausible fault, for mutation checks: NeighSet appending an FDB
\* destination instead of replacing the MAC's entry.
SetFDBAppend(f, s, h) == f \cup {<<s, h>>}

\* NeighSet of the bridge entry: MAC s now tunnels to underlay IP h.
SetFDB(f, s, h) == {e \in f : e[1] # s} \cup {<<s, h>>}

\* The kernel calls for one lease, in order: RouteReplace (block leases
\* only), NeighSet of the ARP entry, NeighSet of the FDB entry.
LeaseCalls(l) == IF SingleIP[l.subnet] THEN <<"arp", "fdb">> ELSE <<"route", "arp", "fdb">>

\* Step 4 for one lease: a malformed lease aborts the cycle; otherwise its
\* calls run in order and the first failing one aborts it, after the
\* earlier ones took effect.
ApplyLease ==
    /\ pc = "apply"
    /\ \E l \in todo :
         IF ~l.ok
         THEN Abort /\ UNCHANGED <<routes, arp, fdb, faults>>
         ELSE \E k \in 0 .. Len(LeaseCalls(l)) :
                LET done == {LeaseCalls(l)[i] : i \in 1 .. k}
                    last == k = Len(LeaseCalls(l))
                IN  /\ ~last => CanFail
                    /\ routes' = IF "route" \in done THEN routes \cup {l.subnet} ELSE routes
                    /\ arp' = IF "arp" \in done THEN arp \cup {l.subnet} ELSE arp
                    /\ fdb' = IF "fdb" \in done THEN SetFDB(fdb, l.subnet, l.host) ELSE fdb
                    /\ IF last
                       THEN /\ todo' = todo \ {l}
                            /\ pc' = IF todo' = {} THEN "delete" ELSE "apply"
                            /\ UNCHANGED <<stale, result, faults>>
                       ELSE faults' = faults + 1 /\ Abort
    /\ UNCHANGED <<leases, cycle, changes>>

\* Step 5: RouteDel or NeighDel of one stale entry; a failure aborts.
DeleteStale ==
    /\ pc = "delete"
    /\ \E e \in stale :
         \/ /\ routes' = IF e[1] = "route" THEN routes \ {e[2]} ELSE routes
            /\ arp' = IF e[1] = "arp" THEN arp \ {e[2]} ELSE arp
            /\ fdb' = IF e[1] = "fdb" THEN fdb \ {e[2]} ELSE fdb
            /\ stale' = stale \ {e}
            /\ UNCHANGED <<pc, todo, result, faults>>
         \/ CanFail /\ faults' = faults + 1 /\ Abort /\ UNCHANGED <<routes, arp, fdb>>
    /\ UNCHANGED <<leases, cycle, changes>>

\* Converge returns nil.
EndCycle ==
    /\ pc = "delete" /\ stale = {}
    /\ pc' = "idle" /\ result' = "ok"
    /\ UNCHANGED <<leases, routes, arp, fdb, cycle, todo, stale, changes, faults>>

-----------------------------------------------------------------------------
(* Environment.                                                             *)

\* Leases are acquired, released, expire or move to another cell.
LeaseListChange ==
    /\ changes < MaxChanges
    /\ \E ls \in Lists \ {leases} : leases' = ls
    /\ changes' = changes + 1
    /\ UNCHANGED <<routes, arp, fdb, pc, cycle, todo, stale, result, faults>>

\* Someone else on the host deletes one of the engine's entries.
OutsideDelete ==
    /\ CanFail
    /\ \/ \E r \in routes \ Foreign : routes' = routes \ {r} /\ UNCHANGED <<arp, fdb>>
       \/ \E a \in arp : arp' = arp \ {a} /\ UNCHANGED <<routes, fdb>>
       \/ \E f \in fdb : fdb' = fdb \ {f} /\ UNCHANGED <<routes, arp>>
    /\ faults' = faults + 1
    /\ UNCHANGED <<leases, pc, cycle, todo, stale, result, changes>>

\* The daemon restarts in the middle of a cycle; it keeps no state.
Restart ==
    /\ pc # "idle" /\ CanFail
    /\ pc' = "idle" /\ todo' = {} /\ stale' = {} /\ result' = "none"
    /\ faults' = faults + 1
    /\ UNCHANGED <<leases, routes, arp, fdb, cycle, changes>>

Cycle == Begin \/ ApplyLease \/ DeleteStale \/ EndCycle

Next == Cycle \/ LeaseListChange \/ OutsideDelete \/ Restart

\* The poll loop starts a new cycle on every tick, forever, and a cycle's
\* kernel calls are synchronous: the cycle is weakly fair.
Spec == Init /\ [][Next]_vars /\ WF_vars(Cycle)

-----------------------------------------------------------------------------
(* Properties.                                                              *)

WellFormed(ls) == \A l \in ls : l.ok

\* Self-healing: whatever a previous run left in the kernel and whatever
\* failed, restarted or was deleted underneath, once the lease list and
\* the faults stop, and the list the controller serves is well-formed,
\* the kernel's managed entries settle on exactly those the current
\* leases call for.  (A malformed lease aborts every cycle before the
\* reverse diff, so nothing is promised while one is served.)
EventuallyConverged == <>[](WellFormed(leases) => Managed = Desired(leases))
====
