------------------------------ MODULE LeaseStore ------------------------------
(***************************************************************************)
(* The silk controller's lease allocation (spec 4.3) over the CIDR pool of *)
(* silk/controller/leaser/cidrpool.go.  The store itself is not under      *)
(* src/: its operations are modelled from the spec, and only the pool      *)
(* operators come from the code.  An Acquire reads the active leases,      *)
(* picks an available subnet with GetAvailableBlock/GetAvailableSingleIP,  *)
(* and later inserts it; the insert is refused by the store's uniqueness   *)
(* constraint when another acquire took the subnet or the host first, and  *)
(* the acquire is retried.  Renew, Release, expiry and a change of the     *)
(* operator's network list interleave with it.  Each host's silk daemon   *)
(* (not under src/ either; modelled from the spec and its integration     *)
(* tests) keeps the lease it last received in its VTEP (held), which a    *)
(* restarted daemon discovers again.                                       *)
(***************************************************************************)
EXTENDS CIDRPool

CONSTANTS
    Hosts,        \* underlay IPs of the cells
    Single,       \* Single[h]: the host asks for a single overlay IP
    Configs,      \* the operator's network lists: [ranges, mask] records
    InitConfig,
    None,         \* no lease
    MaxRetries,   \* retries of an acquire after a uniqueness violation
    MaxChanges,   \* bound on changes of the network list
    MaxFaults     \* bound on expiries, lost replies, releases and restarts

ASSUME InitConfig \in Configs /\ Single \in [Hosts -> BOOLEAN]

VARIABLES
    config,     \* the network list the pool is built from
    leases,     \* the store's active leases, by underlay IP
    pc,         \* "idle", "retry" (re-read after a conflict) or "picked"
    pick,       \* the subnet an acquire picked
    retries,
    held,       \* the lease in each host's VTEP, discovered at start
    phase,      \* each daemon: "start", "acquire", "running" or "exited"
    changes,
    faults      \* expiries, lost replies, releases and restarts so far

vars == <<config, leases, pc, pick, retries, held, phase, changes, faults>>

Pool(cfg) == NewCIDRPool(cfg.ranges, cfg.mask)

\* Every subnet some network list can hand out.
AllCandidates == UNION {GetBlockPool(Pool(cfg)) \cup GetSinglePool(Pool(cfg)) : cfg \in Configs}

\* ListActive(): the subnets of the active leases (the taken list).
Taken == {leases[h] : h \in Hosts} \ {None}

\* A plausible fault, for mutation checks: the wantSingleIP flag ignored.
AvailableIgnoringSingle(h) == GetAvailableBlock(Pool(config), Taken)

\* GetAvailableBlock or GetAvailableSingleIP on the current pool.
Available(h) ==
    IF Single[h] THEN GetAvailableSingleIP(Pool(config), Taken)
    ELSE GetAvailableBlock(Pool(config), Taken)

Phases == {"start", "acquire", "running", "exited"}

\* The leases a host can be given: /32s (a mask of AddrBits) for a host
\* asking for a single IP, blocks otherwise.
LeasesFor(h) == {s \in AllCandidates : (s.mask = AddrBits) = Single[h]}

TypeOK ==
    /\ config \in Configs
    /\ leases \in [Hosts -> AllCandidates \cup {None}]
    /\ \A h \in Hosts : leases[h] \in LeasesFor(h) \cup {None}
    /\ pc \in [Hosts -> {"idle", "retry", "picked"}]
    /\ pick \in [Hosts -> AllCandidates \cup {None}]
    /\ retries \in [Hosts -> 0 .. MaxRetries]
    /\ held \in [Hosts -> AllCandidates \cup {None}]
    /\ \A h \in Hosts : held[h] \in LeasesFor(h) \cup {None}
    /\ phase \in [Hosts -> Phases]
    /\ changes \in 0 .. MaxChanges
    /\ faults \in 0 .. MaxFaults

\* Fresh cells: no leases in the store, no VTEP, every daemon starting.
Init ==
    /\ config = InitConfig
    /\ leases = [h \in Hosts |-> None]
    /\ pc = [h \in Hosts |-> "idle"]
    /\ pick = [h \in Hosts |-> None]
    /\ retries = [h \in Hosts |-> 0]
    /\ held = [h \in Hosts |-> None]
    /\ phase = [h \in Hosts |-> "start"]
    /\ changes = 0
    /\ faults = 0

CanFault == faults < MaxFaults

SetPhase(h, p) == phase' = [phase EXCEPT ![h] = p]

\* A successful reply to the daemon's acquire: it programs its VTEP with
\* the lease and runs.  A lost or failed reply fails the daemon's start;
\* it exits and is restarted, discovering its VTEP's lease again.
Delivered(h, s) == held' = [held EXCEPT ![h] = s] /\ SetPhase(h, "running")
StartFailed(h) == SetPhase(h, "start") /\ UNCHANGED held

-----------------------------------------------------------------------------
(* Acquire(underlayIP, wantSingleIP).                                       *)

\* getAvailable returned "": the pool is exhausted.
IsExhausted(s) == s = NoSubnet

\* The read half of an acquire (a new call, or a retry): a lease the host
\* already has is returned while pool.IsMember says it belongs to the
\* current networks (controller integration test "when the existing lease
\* is in a different overlay network" gets a new one); otherwise a subnet
\* is picked from the current pool, or the call fails with
\* NoLeaseAvailable.
AcquireRead(h) ==
    /\ \/ pc[h] = "idle" /\ phase[h] = "acquire"
       \/ pc[h] = "retry"
    /\ IF leases[h] # None /\ IsMember(Pool(config), leases[h])
       THEN /\ pc' = [pc EXCEPT ![h] = "idle"]
            /\ retries' = [retries EXCEPT ![h] = 0]
            /\ \/ Delivered(h, leases[h]) /\ UNCHANGED faults
               \/ CanFault /\ faults' = faults + 1 /\ StartFailed(h)
            /\ UNCHANGED pick
       ELSE \E s \in Available(h) :
              IF IsExhausted(s)
              THEN /\ pc' = [pc EXCEPT ![h] = "idle"]
                   /\ retries' = [retries EXCEPT ![h] = 0]
                   /\ StartFailed(h)
                   /\ UNCHANGED <<pick, faults>>
              ELSE /\ pick' = [pick EXCEPT ![h] = s]
                   /\ pc' = [pc EXCEPT ![h] = "picked"]
                   /\ UNCHANGED <<retries, held, phase, faults>>
    /\ UNCHANGED <<config, leases, changes>>

\* The store's uniqueness constraint on the subnet; the host's own lease,
\* if it has one outside the current networks, is replaced.
InsertRefused(h) == pick[h] \in Taken

\* The write half: the picked lease is stored, or a uniqueness violation
\* sends the acquire back to the read, MaxRetries times, and then fails.
\* The daemon's HTTP call can time out after the insert committed: the
\* store holds the lease and the daemon does not.
AcquireInsert(h) ==
    /\ pc[h] = "picked"
    /\ IF ~InsertRefused(h)
       THEN /\ leases' = [leases EXCEPT ![h] = pick[h]]
            /\ \/ Delivered(h, pick[h]) /\ UNCHANGED faults
               \/ CanFault /\ faults' = faults + 1 /\ StartFailed(h)
            /\ pc' = [pc EXCEPT ![h] = "idle"]
            /\ retries' = [retries EXCEPT ![h] = 0]
       ELSE /\ UNCHANGED <<leases, faults>>
            /\ IF retries[h] < MaxRetries
               THEN /\ pc' = [pc EXCEPT ![h] = "retry"]
                    /\ retries' = [retries EXCEPT ![h] = @ + 1]
                    /\ UNCHANGED <<held, phase>>
               ELSE /\ pc' = [pc EXCEPT ![h] = "idle"]
                    /\ retries' = [retries EXCEPT ![h] = 0]
                    /\ StartFailed(h)
    /\ pick' = [pick EXCEPT ![h] = None]
    /\ UNCHANGED <<config, changes>>
-----------------------------------------------------------------------------
(* Renew, Release, expiry, configuration.                                   *)

\* The subnet a renew re-creates its lease with: the daemon's own.
RenewedLease(h) == held[h]

\* Renew(lease) of the daemon's lease: the same lease is extended (even
\* outside the current networks); a different lease for the host is a
\* non-retriable mismatch; with no lease for the host, the lease is
\* created with its subnet, and refused when that subnet is now another
\* host's lease.
\* A plausible fault, for mutation checks: a renew that re-creates the
\* host's lease without checking that its subnet is still free.
RenewOutcomeWithoutUniqueness(h) ==
    CASE leases[h] = held[h] -> "ok"
      [] leases[h] # None    -> "mismatch"
      [] OTHER               -> "created"

RenewOutcome(h) ==
    CASE leases[h] = held[h] -> "ok"
      [] leases[h] # None    -> "mismatch"
      [] held[h] \in Taken   -> "refused"
      [] OTHER               -> "created"

RenewEffect(h) ==
    leases' = IF RenewOutcome(h) = "created"
              THEN [leases EXCEPT ![h] = RenewedLease(h)] ELSE leases

\* The daemon's overlay-network check of a discovered lease.
InNetwork(s) == MCNContains(NewMultipleCIDRNetwork(config.ranges), s.ip)

\* Daemon start: with no lease in its VTEP, or one outside the overlay
\* network, the daemon acquires; otherwise it renews the discovered lease.
\* A mismatch makes it exit; a refused renew makes it acquire a new
\* lease; a renew error it cannot read (a 500 or a timeout, after which
\* the renew may have committed) is logged and the daemon runs on.
DaemonStart(h) ==
    /\ phase[h] = "start"
    /\ pc[h] = "idle"
    /\ IF held[h] = None \/ ~InNetwork(held[h])
       THEN SetPhase(h, "acquire") /\ UNCHANGED <<leases, faults>>
       ELSE /\ RenewEffect(h)
            /\ \/ /\ SetPhase(h, CASE RenewOutcome(h) = "mismatch" -> "exited"
                                   [] RenewOutcome(h) = "refused"  -> "acquire"
                                   [] OTHER                        -> "running")
                  /\ UNCHANGED faults
               \/ CanFault /\ faults' = faults + 1 /\ SetPhase(h, "running")
    /\ UNCHANGED <<config, pc, pick, retries, held, changes>>

\* The daemon's poll loop renews its lease; a mismatch is non-retriable
\* and stops the daemon, any other error is logged and retried next poll.
DaemonPoll(h) ==
    /\ phase[h] = "running"
    /\ RenewEffect(h)
    /\ IF RenewOutcome(h) = "mismatch" THEN SetPhase(h, "exited") ELSE UNCHANGED phase
    /\ UNCHANGED <<config, pc, pick, retries, held, changes, faults>>

\* Release(underlayIP) on the daemon's teardown: the lease is deleted and
\* the VTEP removed; the daemon is started again later.
Release(h) ==
    /\ phase[h] = "running"
    /\ CanFault
    /\ faults' = faults + 1
    /\ leases' = [leases EXCEPT ![h] = None]
    /\ held' = [held EXCEPT ![h] = None]
    /\ SetPhase(h, "start")
    /\ UNCHANGED <<config, pc, pick, retries, changes>>

\* The daemon restarts (a drain and a deploy); its VTEP, and so its
\* lease, survives.
DaemonRestart(h) ==
    /\ phase[h] = "running"
    /\ CanFault
    /\ faults' = faults + 1
    /\ SetPhase(h, "start")
    /\ UNCHANGED <<config, leases, pc, pick, retries, held, changes>>

\* Expiry sweep: a lease not renewed within its TTL is no longer active.
\* A running daemon renews every poll interval, well inside the TTL, so
\* only the lease of a daemon that is down expires.
Expire(h) ==
    /\ leases[h] # None
    /\ phase[h] # "running"
    /\ CanFault
    /\ leases' = [leases EXCEPT ![h] = None]
    /\ faults' = faults + 1
    /\ UNCHANGED <<config, pc, pick, retries, held, phase, changes>>

\* The operator changes the network list; the pool is rebuilt from it.
ConfigChange ==
    /\ changes < MaxChanges
    /\ \E cfg \in Configs \ {config} : config' = cfg
    /\ changes' = changes + 1
    /\ UNCHANGED <<leases, pc, pick, retries, held, phase, faults>>

\* The steps each daemon takes by itself, its calls to the store included.
DaemonStep(h) ==
    AcquireRead(h) \/ AcquireInsert(h) \/ DaemonStart(h) \/ DaemonPoll(h)

Next ==
    \/ \E h \in Hosts :
          DaemonStep(h) \/ Release(h) \/ DaemonRestart(h) \/ Expire(h)
    \/ ConfigChange

\* Every daemon is a process with a poll ticker, restarted by its
\* supervisor when it exits on an error: its steps are weakly fair.
Spec == Init /\ [][Next]_vars /\ \A h \in Hosts : WF_vars(DaemonStep(h))

-----------------------------------------------------------------------------
(* Properties.                                                              *)

\* No two running daemons program the same overlay subnet, across lease
\* expiry of a stopped daemon, re-acquires, renewals that re-create an
\* expired lease and a change of the network list: a daemon whose
\* discovered lease was handed to another host learns it from its renew
\* at start and acquires a new one.
RunningDaemonsDisjoint ==
    \A h1, h2 \in Hosts :
        /\ h1 # h2
        /\ phase[h1] = "running" /\ phase[h2] = "running"
        /\ held[h1] # None
        => held[h1] # held[h2]

\* Every daemon eventually runs on a lease the store holds for it, once
\* expiries, lost replies, restarts and network changes stop: conflicting
\* acquires are retried, a lease outside a new network list is replaced,
\* and no daemon is left exited by a mismatch.
DaemonsRunOnTheirLeases ==
    <>[](\A h \in Hosts : phase[h] = "running" /\ held[h] # None /\ leases[h] = held[h])
====
