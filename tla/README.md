# Verification of k8s-sched

TLA+ models of k8s-sched, their TLC configurations, and TLAPS proofs. k8s-sched
is a sched_ext scheduler with a node agent that turns pod annotations and
`SchedulingPolicy` objects into per-cgroup weights and budgets.

## The system and its parts

| Part | Code | State and operations | Interacts with | What is hard about it |
|---|---|---|---|---|
| BPF scheduler | `bpf/k8s_sched.bpf.c` | virtual clock, per-task virtual time and slice, vtime queue; the sched_ext callbacks | kernel, parameter maps | callbacks of several CPUs race on the clock; parameters change while a task runs; 64-bit wrap; starvation |
| Parameter maps | `internal/maps` | two BPF maps, the agent's record of the keys it wrote, a `/proc` cache; update, remove, sweep | watcher, cleanup ticker, host | cgroups and processes change under every scan; sweeps run beside updates; pins outlive the agent; PIDs are reused |
| Agent lifecycle | `internal/sched`, `cmd/agent` | load, attach, retry, open, ready, handoff, exit | kernel, pins, kubelet | two agents overlap; crash; ejection; the order of deferred calls |
| Policy resolver | `internal/policy` | policies, matched pods; add, remove, refresh, resolve | watcher, CEL cache | stale matches, removal racing a resolve, overflow |
| CEL cache | `internal/cel` | entries, in-flight compiles, LRU clock | resolver | concurrent misses, eviction |
| Pod watcher | `internal/k8s` | filters informer events | API server | compressed events |
| Status write-back | `internal/sched` | the ticker that patches each policy's status with its number of pods | resolver, API server | names, counts and patches taken at different times; patches fail |
| Metrics, health | `internal/metrics`, `internal/sched` | counters, `/readyz` | all | stale values |

A pod reaches the scheduler along one path: the informer notifies the watcher,
the watcher filters, `onPodUpdate` resolves the pod against the cached policies
and writes the maps, and the BPF callbacks read them. `PodWatcher` follows that
path up to the maps, `ParamMaps` takes the map operations apart, `VtimeSched`
starts where the kernel reads the maps. API types and headers have no behaviour
of their own.

## Modules

| Module | Models | Checked by | Proofs |
|---|---|---|---|
| `VtimeSched` | the BPF callbacks, one action each (`k8s_running` is a load and a store) | `MCVtimeSched`, `Vtime*.cfg` | `VtimeSched_proofs` |
| `ParamMaps` | `UpdatePodParams`, `RemovePodParams`, the two sweeps, one map operation per step | `MCParamMaps`, `Maps*.cfg` | `ParamMaps_proofs` |
| `AgentLifecycle` | `Agent.Run` and the signal handler of `main`, for several agents on a node | `AgentNode.cfg`, `AgentMaps.cfg` | `AgentLifecycle_proofs` |
| `CelCache` | `Cache.Evaluate` for concurrent callers: one step per locked section, a hit in two | `CelCache.cfg` | `CelCache_proofs` |
| `PolicyMerge` | the pure part of `Resolve`: matching, QoS defaults, annotations, u64 conversion; what the documentation promises (`Documented`), and the same rule on budgets as converted (`Granted`) | through the next two | through the next two |
| `PolicyResolver` | the policy cache fed by informer or polling, `Resolve` as match, one merge per policy and a tracking step, the status write-back | `MCPolicyResolver`, `Resolver.cfg` | `PolicyResolver_proofs` |
| `PodWatcher` | the informer handlers composed with `PolicyResolver` and the agent's callbacks | `MCPodWatcher`, `PodFlow.cfg` | `PodWatcher_proofs` |
| `PodParams` | no code: what the agent promises of a pod's parameters, the abstract specification that `PodWatcher` implements | as the property `Atomic` | as the theorem `Refinement` |

`VtimeSched`: u64 virtual times are words of `2*Half` values and `vtime_before`
is the signed comparison of the C macro. The kernel side is external: which task
wakes, blocks, is preempted or runs out of slice, and in what order a CPU calls
the callbacks. The agent may write any allowed parameters between two callbacks.
`ran` and `high` are history variables.

`ParamMaps`: the informer runs one handler at a time (`h`), the cleanup ticker is
a second goroutine (`s`), and the host moves under both. A directory walk is one
step: a cgroup that appears during it has no entry yet, so missing it is the same
as its appearing afterwards. Cgroup IDs are inode numbers and are not reused in
the model; PIDs are. History variables: `last` and `current` record the last
operation on each pod and what it wrote, `inherited` the entries a crashed agent
left, `young` what was created since the sweep looked. Left out: a failing read of `/proc`, an object without `cgroup_params`, an empty UID, and
maps that were never opened (every operation then returns at once).

`AgentLifecycle`: maps are numbered by the load that created them, and the three
pinned files are treated as one. The kernel is external: one scheduler at a time,
closing a link detaches the scheduler of that link only, the watchdog may eject.
`BecomeReady` stands for everything `Run` starts before it stores readiness.
A replacement may start before its predecessor has gone: the chart sets no update
strategy, and the DaemonSet default does not overlap them, but the handover code
and README.md are written for the overlapping case. The history variable `raced`
holds the agents whose pins were removed between their load and their `Open`.
Agents of `Failing` may fail to load.

`CelCache`: a program is named by its expression, and what it evaluates to is left
open. A closed `compileCall` never changes, so its result is handed to its waiters
when it closes. The loop of `evictIfNeeded` is the set it keeps. Today only the
pod informer's goroutine evaluates expressions; the cache is written and tested
for concurrent callers, and is modelled that way. An empty expression never
reaches it (`celConditionPasses` returns first), and a capacity of zero is
excluded (`NewResolver` passes 256).

`PolicyResolver`: a policy object is its spec, so equal `ResourceVersion`s are
equal specs. A selector is the set of labels it accepts and a CEL condition the set
of CPU requests for which it holds; an invalid one accepts nothing. The API server
and client-go are external: the reflector puts an object into the store and queues
a notification, several changes may become one, a resync repeats what is stored.
The handler, the poller, the caller of `Resolve` and the status ticker are four
goroutines that interleave between any two locked sections. `matched` and `owed`
are history variables. A failed list is no step; a status patch may fail.

`PodWatcher`: a pod object has a UID, phase, label, CPU request, QoS class,
annotations and a number of container starts. Versions may be skipped, and a
deleted pod and its successor of the same name may arrive as one update. The
constants enumerate the objects, `LaterVersion` says which may follow which.
`acted`, `current` and `swapped` are history variables. `Promised` is the
refinement mapping: a pod has its new parameters from the moment `Resolve` has
read the policies.

## Runs

Passing:

| Run | Shows | Bounds |
|---|---|---|
| `vtime_safety` | types, usable slices, virtual time never goes back, sleeper credit, charge equals use when the slice is unchanged, lost clock updates keep every task within one charge of the furthest clock | 2 CPUs, a sleeper and a task that forks, in one process and partly in a cgroup; two parameter values, one below the default slice; a refill (3) above the slice (2) so that the underflow guard acts; virtual times up to 3 plus a charge in words of 32; symmetric in the CPUs, which no callback compares |
| `vtime_live` | each of three runnable tasks runs again and again; virtual time never goes back | words of 16, so virtual times wrap many times, and the clock moves half a word while a task waits for its enqueue, so that the signed comparison flips |
| `maps_pods` | an entry belongs to the pod of its cgroup; entries of dead cgroups are eventually dropped | 2 pods with a cgroup each, a map with room for one entry, one crash, one unreadable period |
| `maps_restart` | types; live entries stay tracked, removals are clean, an update leaves no replaced parameters in force, the inductive invariant, a sweep takes live entries only of what is younger than its look | one pod with two cgroups (a container restart) and a process, two parameter values, a map with room for one entry, one crash, one unreadable period |
| `agent_node` | an agent misses its scheduler's maps exactly when the pins were removed between its load and its `Open`; a ready agent is attached until the first ejection; a restart takes over; a contended replacement stops retrying once the others leave; a foreign scheduler is left alone | 3 agents in turn or overlapping, one of which may fail to load, crashes, one ejection, with and without a foreign scheduler |
| `cel_cache` | compiles are shared, each caller gets its own program or error and returns, capacity holds, no failure is cached, a hit's entry is not evicted under it, one eviction victim | 3 callers, 3 good expressions in room for 2, one bad one; 5 clock draws, enough to fill, hit and evict |
| `resolver` | types; pods are counted for what they last matched; a removed policy keeps at most one pod; status converges | 2 policies, one change by anyone, both feeds, 2 calls of `Resolve` for a pod that stops matching and another that matches |
| `pod_flow` | the merge in any order, `Resolve` as documented, the cache lags by the queued notifications, the parameters in force, parameters dropped, and the refinement of `PodParams` | 2 policies with overlapping selectors and different maxima, 2 pods that may share a name: pending, running, annotated (with an invalid weight), resized, lost from sight, ended; words of 16 bits, in which one policy's budget wraps to less than the other's and one annotated budget to nothing |

Each bound is the smallest at which the case named in it happens. The bounds on
crashes, unreadable periods, ejections and virtual time only cut repetitions of
the same event, and the bound of one policy change in the two resolver runs still
lets it fall between any two steps; the theorems need no bound.
`CHECK_DEADLOCK FALSE` appears in the agent runs, where nothing is left to do
when all agents have exited, and in the two resolver runs, where policies and pods
may stop changing.

Disagreements between the code and what the repository says of it (details and
quotations in `PROJECT.json`):

| Run | The code |
|---|---|
| `vtime_churn` | newcomers start at a clock that stands still, and a queued light task starves |
| `maps_sweep_race` | the sweep deletes the entry of a cgroup younger than its listing |
| `maps_recycled` | a recycled PID carries another pod's fallback entry |
| `agent_maps` | with overlapping agents, the exiting one removes the pins its replacement is about to open |

Further disagreements met while modelling, for which no run is kept:

- `k8s_stopping` recomputes the slice from the parameters found then, so a change
  while a task runs makes the charge differ from its use (README.md line 100,
  "charged by actual usage"). `ChargedByUse` is the part that holds.
- A caller that missed before an insertion and takes the lock after it finds no
  call in flight and compiles again, beside the cached entry (cache.go line 83,
  "share one compile"); this is what the double-check at line 110 catches.
- Two hits of one entry may store their clocks in the wrong order, so an entry's
  clock can go back and recency is approximate (cache.go line 8, "LRU ordering").
- `vtime_before` is a signed comparison, so a task that sleeps while the clock
  moves 2^63 is not clamped (README.md line 252 gives the clamp as a maximum). A
  weight-1 task moves the clock 10^4 times as fast as real time: about 11 days.
  `NeverRewound` and `CreditBounded` hold then too.
- `k8s_select_cpu` also counts `budget_capped` for tasks that are never enqueued
  (README.md line 207, "Enqueues where a budget shortened the slice").
- A pod that resolves to nothing is recorded with an empty list and counted by
  `TrackedPods` (README.md line 210).
- The kernel admits one scheduler, so a replacement attaches only after the old
  link is closed, and until its next retry the node has no k8s-sched scheduler
  (README.md line 65, "the node never falls back to EEVDF").
- If the old scheduler goes after the replacement's attach failed and before
  `schedulerContended` reads sysfs, the replacement stays observe-only.
- `/readyz` stays 200 after an ejection (README.md line 201);
  `ReadyUntilEjected` is the part that holds.
- `HasSynced` of an informer says its store is filled, not that the handler has
  run, so `Start` may return, and pods be resolved, while the cache is still
  empty (resolver.go line 130, "so policies are available before pod
  processing"). `CacheFollowsStore` says what is guaranteed.
- A policy that changes does not re-resolve pods that already run; they keep what
  they have until they change themselves (README.md line 238, "any pod with the
  label receives"). `InForce` is the part that holds.
- `podRelevantFieldsChanged` does not compare CPU requests, which CEL conditions
  read: a pod resized in place keeps its parameters (README.md line 240, "the agent
  re-evaluates on pod updates").
- A pod that was deleted stays in `matchedPods`, for nothing calls
  `trackMatchedPods` for it again, and is counted as active until its policy is
  removed (resolver.go line 486, "currently matching").
- The status patch is a JSON merge patch, which keeps the keys it does not name,
  so counts of deleted policies stay (agent.go line 514, "replaced wholesale").
- A delete and a recreate of a pod under one name may arrive as one update; the
  entries of the old UID are then left to the sweeps. `GoneDropped` excludes
  exactly that case.
- A budget of 2^64 / 1000 microseconds or more wraps when it is converted and may
  become a small cap (types.go line 75, "Values >= 5000 ... have no effect").
  `Granted` says what it counts for.
- `k8s_sched_defaults_total` (README.md line 208) is not exported by
  `internal/metrics`, and `status_writebacks_total` also counts failed patches
  (README.md line 213).

## Fairness

`VtimeSched`: each CPU keeps scheduling and a pending enqueue happens; both run
under the runqueue lock. Nothing is assumed of wakeups or of the agent.
`ParamMaps`: the ticker keeps firing, and the cgroup tree becomes readable again,
the transient condition `CleanStaleCgroupIDs` names. Nothing is assumed of the
handler. `AgentLifecycle`: the steps of `Run` happen, except `BecomeReady`, which
waits for the API server; the handoff timer fires; the kubelet kills an agent
that outlives its grace period. `CelCache`: a caller that is not blocked runs, and a
waiting `Lock` of `sync.RWMutex` is granted because it holds back later readers,
hence strong fairness of the locked sections. `PolicyResolver`: the informer and
the poller keep running and each policy is eventually listed, a call of `Resolve`
goes on, the status ticker keeps firing, and a patch sent again and again to a
policy that exists is not refused every time (strong fairness, since the patch is
only pending while a write-back runs; the API server's errors are transient). With
an API server that refuses for ever `StatusConverges` is false, and the code can do
nothing about it.

## Proofs

All constants are arbitrary subject to the named assumptions of each module.

- `VtimeSched_proofs`: types (with the fact that a busy CPU has a task, without
  which the type invariant is not inductive); slices between 1 and the default;
  the credit bound, the charge, and that virtual time never goes back, all of them
  also when virtual time wraps (`ChargeMovesOn`: a charge below half a word moves
  a word on, past the end too). That no task gets far ahead is proved under `NoWrap`
  (`Horizon + 2 * MaxCharge < Half`), and is false beyond: a task that sleeps
  through half a word looks ahead. The argument is `ClockInv`: a loaded clock may
  be stale but was once the clock, and a task past `k8s_running` is not beyond the
  furthest clock, which leaves room for the one charge of `k8s_stopping`.
- `ParamMaps_proofs`: all safety properties. Four follow from `JobCovers`: the set
  an operation resolved covers every live entry of its pod while it runs, because
  a cgroup born later has no entry, and what it has written still holds its value
  or has been swept. `EntriesCurrent` is inductive relative to it.
  `SweepSparesListed` rests on `SweepInv`: while a sweep works, every live cgroup is
  listed or young, and every PID collected is dead or young.
- `AgentLifecycle_proofs`: types; `MapsMissedIffRaced`, for any number of agents
  however they overlap, from `PinsInv`: between load and `Open` an agent's collection
  is the pinned one unless the pins were removed since its load. So `agent_maps`
  shows the only way in which maps can be missed. `ReadyUntilEjected` follows from
  `ReadyInv`: before an ejection an agent with an open link is the attached one.
- `CelCache_proofs`: everything but liveness, for any callers, expressions and
  capacity. `CacheInv` ties the in-flight map to its leaders and each waiter to a
  call being compiled; `ClockInv` adds that clocks drawn and not yet stored are
  fresh. `EvictionMakesRoom` is the lemma about `evictIfNeeded`.
- `PolicyResolver_proofs`: all safety properties, for any policies, pods and
  either feed. `MergeInv` is the loop invariant that makes `ResolvedAsDocumented`
  inductive; with it `Resolve` returns `Granted` for all budgets
  (`LargestIsGranted`), which is `Documented` when none of them overflows
  (`LargestIsDocumented`). `TrackInv` adds to the two counting properties what a call in flight
  will owe: the names it matched that are still cached. The lemmas are about
  `Step`, which leaves open who calls `Resolve`, so that the next module reuses them.
- `PodWatcher_proofs`: the parameters in force, the parameters dropped, and
  `Refinement`: the composition implements `PodParams`. `ActInv` is the
  strengthening: a settled running pod was last resolved from a version equal to
  the present one in every compared field, and what the call in flight found is
  what the cache still holds as long as the pod is `current`. For the refinement
  the match maps to `Apply`, an ended or deleted pod to `Drop`, a filtered or
  pending notification to `See`, the feed to `Learn`, and every other step to a
  stutter, because `ResolvedAsDocumented` makes the value written the one promised.

Every invariant and every action property of the passing runs is a theorem. Only
model-checked: the liveness properties (`EverythingEventuallyRuns`,
`DeadEntriesSwept`, `RestartTakesOver`, `WaitEnds`, `ForeignRespected`,
`EveryCallReturns`, `StatusConverges`), which need fairness and `ENABLED`, and the
violations.

## Not modelled

- The headers under `include/bpf` and `bpf/scx_common.bpf.h` declare kernel helpers,
  types and register macros. They hold 6282 of the 6610 lines of C in the
  repository, and no state or operation of this program, so the share of C lines
  that a definition stands for is small. Of `k8s_sched.bpf.c`
  everything that changes state is modelled, apart from a failing `k8s_init`;
  `k8s_exit` prints. The rest of the program is Go.
- The 30 s watchdog against the waiting time of a light task: how long a slice of
  virtual time takes is a matter of real time and of the other tasks. `Eject` may
  happen at any time instead.
- Policy objects that do not convert (the CRD schema admits none), and the polling
  fallback after a cache sync that failed, which happens only while the agent
  stops.
- Labels, selectors and CEL expressions as such: a selector is the set it accepts,
  a condition the set for which it holds.
- `DumpParams`, `PodDetails`, `ReadStats`, the metrics server, Kubernetes Events
  and the debug handler, which read and print.
- API types and generated deep copies, which have no behaviour.
