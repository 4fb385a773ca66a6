# TLA+ models of silk-release

These modules model the control logic of the Go code under
`src/src/code.cloudfoundry.org/` and check it with TLC. Every definition that
stands for code is listed in `PROJECT.json` ("map") with the lines it
translates. Definitions for collaborators that are not under `src/` (the rule
enforcer, the planners, the policy server, the container datastore) are built
from `spec.md` and marked `spec_modelled`.

## The system and its parts

| Part | Source | State | Operations | Interacts with |
|---|---|---|---|---|
| Multi-CIDR network | `lib/multiple-cidr-network/multiple_cidr_network.go` | list of networks, SmallestMask (immutable) | New, Contains, WhichNetworkContains | CIDR pool, VTEP config |
| CIDR pool | `silk/controller/leaser/cidrpool.go` | block pool and single-IP pool, both sets of subnet strings (immutable) | NewCIDRPool (panics on bad input), GetAvailableBlock/SingleIP, IsMember | lease store (external) |
| VTEP config creator | `silk/daemon/vtep/config_creator.go` | none | Create: input checks, including the overlay-prefix check | daemon start-up |
| Policy converger | `vxlan-policy-agent/converger/converger.go` | `lastUpdated`, `policyRuleSets`, `asgRuleSets`, `asgChainToContainer`; two mutexes | DoPolicyCycleWithLastUpdatedCheck, DoPolicyCycle, DoASGCycle, SyncASGsForContainers, CleanupOrphanedASGsChains | planners, enforcer, policy server (external), kernel chains |
| Locked iptables executor | `lib/rules/locked_iptables.go` | none of its own: the kernel's chains and a host-wide file lock | bulkAction (BulkInsert/BulkAppend/AllowTrafficForRange), FlushAndRestore, Delete, DeleteAfterRuleNum(KeepReject), chainExec (New/Clear/DeleteChain), RenameChain, read-only calls | every silk process writing iptables |
| Masquerader | `cni-wrapper-plugin/netrules/masquerader.go` | cached lease | AddIPMasq, DelIPMasq, getLease (bounded retry) | silk daemon over HTTP |
| Lease store | not under `src/` (spec 4.3) | active leases by underlay IP | Acquire, Renew, Release, expiry | CIDR pool, silk daemons |
| VTEP convergence engine | not under `src/` (spec 4.4; its test `silk/daemon/vtep/converger_test.go` is) | routes, ARP and FDB entries of the VTEP link | one poll cycle: snapshot, upsert every routable remote lease, delete what no lease accounts for | lease store (the lease list), the kernel |

There are three kinds of concurrency:

- The policy loop and the ASG loop are independent goroutines, each behind its own mutex (spec 5).
- The ASG full poll, targeted syncs and orphan cleanups take turns on `asgMutex`.
- Several processes write iptables through the one file lock of the executor.

Failures come from the collaborators: planner errors, enforcer errors, a `CleanupErr` (the new chain is installed but the old one is not removed), and failed iptables calls. An agent restart empties every in-memory map while the kernel keeps its chains.

## Modules

- **`MultipleCIDRNetwork`**: an address is a natural number below `2^AddrBits`, and `AddrBits` stands for 32. `ParseCIDR` clears the host bits, as `net.ParseCIDR` does. `NewMultipleCIDRNetwork` keeps the largest prefix as `SmallestMask`.
- **`CIDRPool`**: `generateBlockPool` and `generateSingleIPPool` are sets built over the loop offsets. `BlockOffsets` translates the loop at cidrpool.go:106 and `SingleOffsets` the one at line 125. `IPAdd` is 32-bit (`AddrBits`-bit) addition. `getAvailable` is the set of subnets the random choice can return.
- **`VTEPConfig`**: the overlay-network check of `ConfigCreator.Create` (lines 74-86).
- **`VTEPConfigCreator`**: `Create` is a CASE over its early returns in the code's order. No property is stated of `Create` as a whole: its checks are independent early returns, and a property of them could only restate them.
  - `locateInterface` is RECURSIVE over the interfaces (`Locate`) and each one's addresses (`ScanAddrs`). It returns the first interface carrying the underlay IP, or the first error.
  - The network adapter's answers (`Adapters`) are inputs. `NewConfig` is the returned `Config` struct.
- **`LeaseStore`** (spec-modelled from spec 4.3 and the controller's and daemon's integration tests, over `CIDRPool`): the store and one silk daemon per cell.
  - Each daemon has a `phase`: "start", "acquire", "running" or "exited". `held` is the lease in its VTEP, which a restarted daemon discovers again.
  - `DaemonStart` is the daemon's start-up. With no lease, or a lease outside its network list (`InNetwork`, `MultipleCIDRNetwork.Contains`), it goes to "acquire". Otherwise it renews: a mismatch makes the daemon exit, a subnet now taken by another host sends it to "acquire", and anything else sets it running. The reply can be lost after the renew has committed.
  - An Acquire is two steps. `AcquireRead` returns the host's existing lease when it is still a member of the current pool (`IsMember`). Otherwise, like the controller's test of a changed network list, it picks a new one from `GetAvailableBlock`/`GetAvailableSingleIP`. `AcquireInsert` inserts the pick, replacing the host's old lease, under the subnet uniqueness constraint. A refused insert is retried `MaxRetries` times. A lost reply, or no lease, sends the daemon back to "start" (`StartFailed`): the process fails and is restarted.
  - `RenewOutcome` is Renew's CASE: ok, a mismatch, refused (the subnet is held by another host), or created (the expired lease is re-created).
  - `DaemonPoll` renews a running daemon's lease; a mismatch exits it. `Release`, `DaemonRestart`, `Expire` (only of a daemon not running) and `ConfigChange` (the operator edits the network list) interleave with it.
- **`MCCIDRPool`** and **`MCVTEPConfigCreator`**: input suites. The state of the first is one configuration (one or two ranges plus a mask), and of the second one client config, lease and set of adapter answers. The invariants compare the code's result with reference definitions. `MCPureOperators` runs both suites in one model: each state is an input of one suite next to a fixed, deployable input of the other.
- **`PolicyCycle`**: the variables are `lastUpdated`, `policyRuleSets` and `pc`/`next`, where `next` is the planner loop's position inside `DoPolicyCycle` while `policyMutex` is held. The environment is the policy server (`desired`, `token`) and the kernel (`installed`, the rule sets whose chains are jumped to). Each planner iteration is one step, `PlannerStep`: a planner error, a skip when the rules are equal, or an enforcement with outcome ok, err or cleanupErr. `Restart` is a new `SinglePollCycle`.
- **`ASGCycle`**: each call holds `asgMutex` throughout, so `SyncASGs` is one atomic step per call. The planner is called, every changed container is enforced, `updateRuleSet` runs on ok or on a CleanupErr, `desiredChains` is collected, and on a full poll the orphan sweep and the purge of both maps run. A kernel chain is `[gen, rules]`; `gen` is the timestamp in its name. `updateRuleSet` and `cleanupASGsChainsMatching` are operators of their own. `CurrentlyAppliedChainNames`, the code's test hook, is the set the bookkeeping property quantifies over. `sendAppLog`, called by `updateRuleSet`, is the set of "Security group rules were updated" logs a sync sends, one per recorded container whose LogConfig has a Guid (`HasGuid`). The model keeps any subset of them, because a failed `SendAppLog` is only logged; `appLogs` holds those the last call sent. `pollingLoop` gates the orphan sweep.
- **`IPTablesTable`**: the abstract specification of the executor on one table of user chains (`Absent` marks a chain that does not exist).
  - Each call (`AdapterCalls`, the methods of `IPTablesAdapter`) acts in one step with one of the results `Results` allows.
  - Chain-level calls: `NewChain`, `ClearChain`, `DeleteChain` (only of an existing, empty chain) and `RenameChain` (onto a free name).
  - `FlushAndRestore` leaves only the restored chain.
  - A partly failed `DeleteAfterRuleNum` keeps the first `ruleNum-1` rules, followed by a tail of the old chain.
  - `ReadOf` is what each read returns: Exists, ChainExists, List, ListChains, and RuleCount over the `iptables -S` listing.
- **`LockedIPTables`**: callers interleave at each Lock, each iptables or iptables-restore call, and each Unlock.
  - A failed call unlocks and returns its error.
  - Refused calls return iptables' error, e.g. a rename onto an existing chain.
  - Unlock itself may fail: its error is returned and the lock is released.
  - A panic ends the process, and the OS then drops its lock.
  - `AbsChains` maps the state to `IPTablesTable`: while a caller is in the delete loop, it is the table with the chain that caller listed.
  - `RefinesIPTablesTable` is the abstract specification, checked as a PROPERTY.
- **`Masquerader`**: each instance (one plugin invocation) does `Begin` (AddIPMasq/DelIPMasq up to getLease) and then one `Attempt` step per GET of `getLeaseFromDaemon`. The controller's rule set holds the (instance, range) pairs currently added.
  - The daemon's lease may change (`DaemonLeaseChange`).
  - GETs and the plugin controller's calls may fail; the controller is spec-modelled.
- **`ConvergenceEngine`** (spec-modelled from spec 4.4 and `converger_test.go`): a lease is `[host, subnet, ok]`, where `ok` is FALSE for a malformed lease.
  - The subnet stands for the route destination, the gateway, the ARP IP and the MAC, because the MAC is derived from the overlay IP. The route's source IP depends only on the network, so it is left out.
  - `Begin` snapshots the link and computes the entries to delete (`StaleEntries`) by exact value.
  - `ApplyLease` makes one lease's calls (`LeaseCalls`: route, ARP, FDB; no route for a single-IP lease), in an order the model chooses freely each cycle. A call may fail, which aborts the cycle. A malformed lease aborts it before any call.
  - `DeleteStale` removes one stale entry at a time, and `EndCycle` reports success.
  - The environment: the controller's lease list changes (`LeaseListChange`), another tool deletes an entry (`OutsideDelete`), and the daemon restarts in mid-cycle (`Restart`). `Foreign` routes, which have no gateway, are never the engine's.
- **`PolicyCycle`'s `EnforceFaults`**: when FALSE, planners and enforcements never fail; only token reads fail and the agent restarts. The `checked` run uses it to ask whether the last-updated check alone can lose a change.

## Runs

| Run | Expect | What it shows |
|---|---|---|
| `pure_operators` | pass | Two input-enumeration suites side by side (`MCPureOperators`). For every 1- or 2-range disjoint configuration over addresses {0,3,8,16,24} with any prefix, in a 5-bit space, and every mask the daemon accepts: the block pool has Σ(2^(32-prefix)/2^(32-mask) − 1) entries, the single pool has 2^(32-mask) − 1, and the candidates are disjoint, inside the networks, and never cover a network's first address. For every small set of adapter answers, `locateInterface` agrees with a set-based reference: an unreadable interface before the underlay one is an error. |
| `policy_cycle` | pass | `CacheNeverAhead`: a recorded rule set is always in the kernel. `PolicyCacheConverges`: once changes and failures stop, the cache reaches every planner's result. |
| `policy_cycle_checked` | pass | The loop calls `DoPolicyCycleWithLastUpdatedCheck`, and planners and enforcements do not fail (`EnforceFaults` = FALSE). `PolicyCacheConverges`: failed token reads and restarts, which forget `m.lastUpdated`, never make the check skip a change for good. The run exercises the check's three branches. |
| `policy_truthful` | violation | `CacheTruthful` fails: a CleanupErr followed by a revert leaves a stale chain forever (finding 1). |
| `policy_lastupdated` | violation | `PolicyCacheConverges` fails with the last-updated check: a failed cycle is not retried until the token moves (finding 2). |
| `asg_cycle` | pass | `BookkeepingMatchesKernel`: a map entry always names a chain that exists, is jumped to, and holds the recorded rules. `AppLogsAnnounceInstalledRules`: every app log names rules that the container's parent chain jumps to when the call returns, although the orphan sweep runs after the logs are sent. `ASGConverges`: eventually each running container has exactly one chain with its current rules. All hold across syncs, cleanups, CleanupErrs and restarts. |
| `locked_iptables` | pass | Two processes interleave all the modelled writes, NewChain, RenameChain, DeleteChain and RuleCount, on two chains, one of which may start absent. Every call refines an atomic chain operation, and a successful `DeleteAfterRuleNum` leaves exactly the first `ruleNum-1` listed rules, plus one reject rule for the KeepReject variant. |
| `locked_iptables_panic` | violation | Starting from a 3-rule chain, another call shortens it and `rules[ruleNum:]` panics (finding 3). |
| `masquerader` | pass | Two Masqueraders (one with a custom range) add and delete while the daemon's lease changes and GETs fail. The retry gives up exactly after five failed GETs, never earlier and never later. |
| `lease_store` | pass | Two block cells and one single-IP cell start, acquire, renew, release and restart, while leases of stopped daemons expire, replies are lost and the network list changes once. `RunningDaemonsDisjoint`: no two running daemons use one subnet, although every pick comes from a stale taken list and expired leases are re-created by renews. `DaemonsRunOnTheirLeases`: every daemon eventually runs on the store's lease for it, across the network change. |
| `convergence_engine` | pass | Three cells (one local, one single-IP lease, one lease outside every network) converge across lease-list changes, failed calls, outside deletions and restarts, from a kernel with leftovers and one foreign route. One list serves a malformed lease. `EventuallyConverged`: whenever the list served is well-formed, the link's entries end up exactly those of the lease list. |

Each property of a passing run has a mutant in `PROJECT.json`: a plausible bug in a mapped definition that TLC catches. Examples are a block loop that stops one block early, an enforce result recorded before its error is checked, `desiredChains` read before `updateRuleSet`, a purge keyed by the parent chain, a delete position that advances, a KeepReject that never appends the reject rule, a renew that ignores another host's lease, a restart that keeps `lastUpdated`, and a loop count that forgets the `-N` line.

### Bounds

- **Addresses:** 5 bits; the pool suite takes ranges over {0,3,8,16,24} with every prefix. That is enough for networks of several prefixes, masks on both sides of them, and unaligned range addresses.
- **Policy:** 2 planners, 2 rule sets, 2 server changes and 2 failures/restarts. A CleanupErr followed by a revert needs 2 changes and 1 failure, and a failure after the token is recorded needs 1.
- **ASG:** 2 containers (only one with an app Guid), 2 rule sets, 3 chain timestamps, 2 changes and 2 failures. A revert after a CleanupErr needs 3 distinct chain names to exist at once.
- **Iptables:** 2 callers with 2 calls each, 1 failure, and a listing of 3 built-in chains.
  - A second chain may start absent; NewChain, RenameChain and DeleteChain act on the two chains, and RuleCount reads one.
  - The calls include an insert past the end, a delete of an absent rule, ruleNum 0, ruleNum 2 and ruleNum 3, with and without KeepReject.
  - Initial chains are empty, one rule, or rules ending in a reject.
  - Every outcome of every call is reached, including a failure in the middle of the delete loop.

- **VTEP config creator:** 2 interfaces, 2 addresses plus an unparsable one, and adapter errors at each level: every return of `locateInterface` is reached.
- **Masquerader:** `MaxAttempts` = 5 as in the code, 2 calls per instance, 1 lease change and 5 failures. Five failures in a row are needed to give up.
  - A plugin invocation ends after its calls, so that run does not check deadlock.
- **Lease store:** two network lists of two /3 ranges with mask 4 in a 5-bit space. Each pool holds two blocks and one single IP: exactly one lease per cell. So a lease handed out twice, or a subnet `getAvailable` misses, leaves a cell without one, while exhaustion itself is never reached.
  - 1 retry, 1 network change, 2 faults (expiries, lost replies, releases and restarts).
  - Renew's mismatch needs two network changes: a lost acquire reply, and then a revert of the list. With `MaxChanges` = 2, TLC finds the daemon exiting, and `DaemonsRunOnTheirLeases` fails. In the deployment the unused lease expires and the daemon is restarted; the model does not time expiry, so the run keeps one change, and the hazard is listed.
- **Convergence engine:** 3 cells, 5 subnets over 2 networks plus one outside them, 4 lease lists (one with a malformed lease) and 1 foreign route. There are 2 list changes and 2 faults, and 2 initial kernels, one with a stale route, ARP and FDB entry left by an earlier run. Two faults are enough for a failure in the middle of a lease followed by a restart.

### Fairness

`PolicyLoop` and `DoASGCycle` are weakly fair because a ticker starts them forever. Nothing else is fair: policy changes, container events and failures may stop at any time. The convergence engine's poll cycle (`Cycle`) is weakly fair for the same reason: the daemon's ticker polls forever. In the lease store each daemon's own step (`DaemonStep`: start, acquire read and insert, poll) is weakly fair: the daemon process runs until it exits and is restarted by its supervisor when it fails. Releases, restarts, expiries and network changes are not fair. No liveness property is stated for the iptables callers or the Masquerader.

## Findings

1. **`converger.go:120`**: the policy path does not record the rule set after a CleanupErr, while the ASG path does (lines 182-184). After a revert the kernel keeps a stale chain, and it is never repaired.
2. **`converger.go:84`**: `m.lastUpdated` is stored before the cycle runs. A cycle that fails is skipped until the policy server changes again.
3. **`locked_iptables.go:187`**: `rules[ruleNum:]` panics when the chain holds fewer than `ruleNum-1` rules, where the spec expects zero deletes.
### Open questions for the spec

These two are checked only as far as the spec allows.

- **A malformed lease** (`converger_test.go:684`): the test expects a malformed lease to fail the whole cycle, and the cycle returns before its delete phase. One bad lease that the controller keeps serving therefore stops the engine from removing any stale entry, while spec 4.4 says every cycle self-heals the link. `convergence_engine` serves such a lease. `EventuallyConverged` promises convergence only while the list is well-formed: without that premise TLC finds the cycle aborting forever.
- **Overlapping ranges** (`cidrpool.go:106`): spec 3 lets ranges overlap "in theory", leaving disjointness to the operator, and says each network's first block is reserved. `generateBlockPool` skips only each network's own first block, and nothing rejects overlapping ranges. So 0/0 with 3/4 hands out the second network's reserved address, and `PoolCandidatesDisjointAndInside` fails at once. `MCCIDRPool`'s `Deployable` therefore assumes the operator's disjointness.

## Not modelled, and the plan

- **Not modelled yet:**
  - **Metrics and logging, and the tags of an app log.** A lost app log is never resent: the rules are recorded, and later polls skip them. Nothing promises app-log delivery, so no liveness property is stated for it.
  - **`MultipleCIDRNetwork.Length`:** nothing calls it.
  - **The file locker behind `LockedIPTables`.** Its source is not under `src/`. So the model assumes that a failed Unlock still releases the lock. Whether a failed flock release can keep the lock held is not checked, and that hazard (`locked_iptables.go:98`) has no property.
  - **ADD and DEL in separate plugin processes:** each has its own Masquerader cache.
  - **The lease store's own storage and the timing of expiry:** expiry is a fault of a stopped daemon's lease, not a clock.
  - **The policy and ASG loops in one module:** `policyMutex` (converger.go:94, released at 105, 121, 130) and `asgMutex` (lines 144, 163, 207, 220-221) are never held together, and the two loops share no state. A composition would therefore be the product of the two modules and would show nothing more.
  - **A daemon's lease when the pool is exhausted:** the run's pools fit, so `NoLeaseAvailable` is never returned, and no property says when it may be.
- **Next sittings:** larger instances of the existing runs (a third planner, a third iptables caller), as far as TLC's time allows.
