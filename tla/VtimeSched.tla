------------------------------ MODULE VtimeSched ------------------------------
(***************************************************************************)
(* The in-kernel half of k8s-sched: the sched_ext callbacks of             *)
(* bpf/k8s_sched.bpf.c, driven by the kernel (external: the wakeups, the   *)
(* ticks, the preemptions and the order in which a CPU calls the ops).     *)
(*                                                                         *)
(* A task is out (not on this scheduler), asleep, awake (runnable, its     *)
(* k8s_enqueue still to come), queued (in the vtime DSQ), local (in a      *)
(* CPU's local DSQ) or cpu (current on a CPU).  u64 virtual times are      *)
(* words of 2*Half values; all other quantities keep their units scaled.   *)
(***************************************************************************)
EXTENDS Integers, FiniteSets

CONSTANTS
  Tasks, Cpus,
  Tgids, Cgids,        \* keys of task_params and of cgroup_params
  TgidOf, CgidOf,      \* a task's process; its cgroup, or None
  ParamSet,            \* the {weight, budget} values the agent writes
  Half,                \* 2^63: a word has 2*Half values
  DEFAULT_SLICE, MAX_PRIO_WEIGHT, DEFAULT_WEIGHT,
  SLICE_DFL,           \* the slice the kernel refills a lone task with
  Sleepers,            \* tasks that may block
  Forkers,             \* tasks that are created and exit while we watch
  StatMod,             \* width of a statistics counter
  Horizon,             \* bound: no virtual time beyond it is charged
  None

Params == [weight : Nat, budget : Nat]

ASSUME NoneAssumption == /\ None \notin Tasks /\ None \notin Cgids
                         /\ None \notin Params
ASSUME KeyAssumption == /\ TgidOf \in [Tasks -> Tgids]
                        /\ CgidOf \in [Tasks -> Cgids \cup {None}]
ASSUME ParamAssumption == ParamSet \subseteq Params
ASSUME SliceAssumption == /\ DEFAULT_SLICE \in Nat \ {0}
                          /\ SLICE_DFL \in Nat \ {0}
ASSUME WeightAssumption == /\ MAX_PRIO_WEIGHT \in Nat \ {0}
                           /\ DEFAULT_WEIGHT \in Nat \ {0}
ASSUME WordAssumption == /\ Half \in Nat \ {0} /\ StatMod \in Nat \ {0}
                         /\ Horizon \in Nat /\ SLICE_DFL < Half
                         /\ DEFAULT_SLICE * MAX_PRIO_WEIGHT < Half
ASSUME TaskKindAssumption == Sleepers \subseteq Tasks /\ Forkers \subseteq Tasks

VARIABLES
  taskParams, cgroupParams,   \* the BPF maps
  stats,                      \* the stats map, summed over CPUs
  vtimeNow,                   \* the global virtual clock
  vtime, slice,               \* p->scx.dsq_vtime and p->scx.slice
  loc,                        \* where each task is
  arrived,                    \* <<t, u>>: of two queued tasks t came first
  local,                      \* each CPU's local DSQ, which holds one task
  curr, phase,                \* each CPU's task and what the CPU is doing
  seen,                       \* the clock k8s_running loaded on each CPU
  prev,                       \* task each CPU stopped and is re-enqueueing
  ran, high                   \* history: ticks since the task got the CPU;
                              \* the furthest the clock has been

maps == <<taskParams, cgroupParams>>
cpuVars == <<local, curr, phase, seen, prev>>
vars == <<maps, stats, vtimeNow, vtime, slice, loc, arrived, cpuVars, ran, high>>

Word == 0 .. 2 * Half - 1
Wrap(x) == x % (2 * Half)
-----------------------------------------------------------------------------
(* Helpers of the BPF program. *)

\* Mutant: unsigned comparison.
vtime_before_unsigned(a, b) == a < b

vtime_before(a, b) == Wrap(a - b) >= Half

DefaultParams == [weight |-> DEFAULT_WEIGHT, budget |-> 0]

Found(t) == \/ taskParams[TgidOf[t]] # None
            \/ CgidOf[t] # None /\ cgroupParams[CgidOf[t]] # None

lookup_task_params(t) ==
  IF taskParams[TgidOf[t]] # None THEN taskParams[TgidOf[t]]
  ELSE IF Found(t) THEN cgroupParams[CgidOf[t]]
  ELSE DefaultParams

\* Mutant: a zero budget is taken for a budget.
task_slice_zero_is_cap(tp) ==
  IF tp.budget < DEFAULT_SLICE THEN tp.budget ELSE DEFAULT_SLICE

task_slice(tp) ==
  IF tp.budget # 0 /\ tp.budget < DEFAULT_SLICE THEN tp.budget ELSE DEFAULT_SLICE

TaskSlice(t) == task_slice(lookup_task_params(t))

Capped(t) == TaskSlice(t) < DEFAULT_SLICE

\* What used ticks at weight w cost in virtual time.
Charge(used, w) == (used * MAX_PRIO_WEIGHT) \div (IF w # 0 THEN w ELSE 1)

MaxCharge == DEFAULT_SLICE * MAX_PRIO_WEIGHT

\* Mutant: no guard against the underflow of slice - p->scx.slice.
consumed_unguarded(t) == Wrap(TaskSlice(t) - slice[t])

\* The consumed part of the slice as k8s_stopping computes it.
consumed(t) ==
  LET used == Wrap(TaskSlice(t) - slice[t])
  IN  IF used > TaskSlice(t) THEN TaskSlice(t) ELSE used

\* Mutant: charges by the slice that was left.
charged_vtime_remaining(t) ==
  Wrap(vtime[t] + Charge(slice[t], lookup_task_params(t).weight))

\* Mutant: signed subtraction, so that a refilled slice gives a negative charge.
charged_vtime_signed(t) ==
  vtime[t] + Charge(TaskSlice(t) - slice[t], lookup_task_params(t).weight)

\* Mutant: the charge has the wrong sign.
charged_vtime_credit(t) ==
  Wrap(vtime[t] - Charge(consumed(t), lookup_task_params(t).weight))

charged_vtime(t) ==
  Wrap(vtime[t] + Charge(consumed(t), lookup_task_params(t).weight))

\* Mutant: no clamp.
clamped_vtime_none(t) == vtime[t]

clamped_vtime(t) ==
  IF vtime_before(vtime[t], Wrap(vtimeNow - DEFAULT_SLICE))
    THEN Wrap(vtimeNow - DEFAULT_SLICE)
    ELSE vtime[t]

Bump(n, yes) == IF yes THEN (n + 1) % StatMod ELSE n
-----------------------------------------------------------------------------
(* Initial state: k8s_init has created the DSQ and every task that already *)
(* exists has been through k8s_enable.  The maps hold anything: a loader   *)
(* that finds them pinned reuses what an earlier agent left there.         *)

Init ==
  /\ taskParams \in [Tgids -> ParamSet \cup {None}]
  /\ cgroupParams \in [Cgids -> ParamSet \cup {None}]
  /\ stats = [enqueues |-> 0, local |-> 0, capped |-> 0, defaults |-> 0]
  /\ vtimeNow = 0 /\ high = 0
  /\ vtime = [t \in Tasks |-> 0]
  /\ slice = [t \in Tasks |-> DEFAULT_SLICE]
  /\ ran = [t \in Tasks |-> 0]
  /\ loc = [t \in Tasks |-> IF t \in Forkers THEN "out"
                            ELSE IF t \in Sleepers THEN "asleep" ELSE "awake"]
  /\ arrived = {}
  /\ local = [c \in Cpus |-> None]
  /\ curr = [c \in Cpus |-> None]
  /\ phase = [c \in Cpus |-> "off"]
  /\ seen = [c \in Cpus |-> 0]
  /\ prev = [c \in Cpus |-> None]

Queued == {t \in Tasks : loc[t] = "queued"}

Requeueing(t) == \E c \in Cpus : prev[c] = t

\* The head of the vtime DSQ: lowest vtime, first come among equals.  (Virtual
\* times more than Half apart may leave no task before all others.)
Heads == {t \in Queued : \A u \in Queued \ {t} :
            \/ vtime_before(vtime[t], vtime[u])
            \/ vtime[t] = vtime[u] /\ <<t, u>> \in arrived}
-----------------------------------------------------------------------------
(* The sched_ext callbacks. *)

\* A task joins the scheduler: the task running on some CPU forked it.
k8s_enable(t) ==
  /\ loc[t] = "out"
  /\ \E c \in Cpus : phase[c] \in {"on", "ran"}
  /\ loc' = [loc EXCEPT ![t] = "awake"]
  /\ vtime' = [vtime EXCEPT ![t] = vtimeNow]
  /\ UNCHANGED <<maps, stats, vtimeNow, slice, arrived, cpuVars, ran, high>>

\* A woken task finds CPU c idle and goes straight to its local DSQ.  When no
\* CPU is found idle k8s_select_cpu changes nothing, and k8s_enqueue follows.
k8s_select_cpu(t, c) ==
  /\ loc[t] = "awake" /\ ~ Requeueing(t)
  /\ phase[c] = "idle"
  /\ loc' = [loc EXCEPT ![t] = "local"]
  /\ local' = [local EXCEPT ![c] = t]
  /\ phase' = [phase EXCEPT ![c] = "off"]
  /\ slice' = [slice EXCEPT ![t] = TaskSlice(t)]
  /\ stats' = [stats EXCEPT !.local = Bump(@, TRUE),
                            !.capped = Bump(@, Capped(t))]
  /\ UNCHANGED <<maps, vtimeNow, vtime, arrived, curr, seen, prev, ran, high>>

\* A task enters the vtime DSQ, which stores the clamped vtime in the task.
k8s_enqueue(t) ==
  /\ loc[t] = "awake"
  /\ loc' = [loc EXCEPT ![t] = "queued"]
  /\ vtime' = [vtime EXCEPT ![t] = clamped_vtime(t)]
  /\ slice' = [slice EXCEPT ![t] = TaskSlice(t)]
  /\ stats' = [stats EXCEPT !.enqueues = Bump(@, TRUE),
                            !.capped = Bump(@, Capped(t)),
                            !.defaults = Bump(@, ~ Found(t))]
  /\ arrived' = arrived \cup {<<u, t>> : u \in Queued}
  /\ prev' = [c \in Cpus |-> IF prev[c] = t THEN None ELSE prev[c]]
  /\ UNCHANGED <<maps, vtimeNow, local, curr, phase, seen, ran, high>>

\* CPU c is out of work, or its task's slice has expired: it pulls the task
\* with the lowest vtime.  The kernel calls this before it stops that task.
k8s_dispatch(c, t) ==
  /\ local[c] = None
  /\ phase[c] \in {"off", "idle"} \/ (phase[c] = "ran" /\ slice[curr[c]] = 0)
  /\ IF Heads # {} THEN t \in Heads ELSE t \in Queued
  /\ loc' = [loc EXCEPT ![t] = "local"]
  /\ arrived' = {a \in arrived : a[1] # t /\ a[2] # t}
  /\ local' = [local EXCEPT ![c] = t]
  /\ phase' = [phase EXCEPT ![c] = IF @ = "idle" THEN "off" ELSE @]
  /\ UNCHANGED <<maps, stats, vtimeNow, vtime, slice, curr, seen, prev, ran, high>>

\* CPU c switches to its local task and k8s_running loads the clock ...
k8s_running_load(c) ==
  /\ phase[c] = "off" /\ local[c] # None /\ prev[c] = None
  /\ curr' = [curr EXCEPT ![c] = local[c]]
  /\ local' = [local EXCEPT ![c] = None]
  /\ loc' = [loc EXCEPT ![local[c]] = "cpu"]
  /\ seen' = [seen EXCEPT ![c] = vtimeNow]
  /\ phase' = [phase EXCEPT ![c] = "load"]
  /\ UNCHANGED <<maps, stats, vtimeNow, vtime, slice, arrived, prev, ran, high>>

\* ... and stores the task's vtime when that is ahead of what it loaded.
k8s_running_store(c) ==
  LET v == vtime[curr[c]] IN
  /\ phase[c] = "load"
  /\ vtimeNow' = IF vtime_before(seen[c], v) THEN v ELSE vtimeNow
  /\ high' = IF vtime_before(high, vtimeNow') THEN vtimeNow' ELSE high
  /\ phase' = [phase EXCEPT ![c] = "on"]
  /\ seen' = [seen EXCEPT ![c] = 0]
  /\ UNCHANGED <<maps, stats, vtime, slice, loc, arrived, local, curr, prev, ran>>

\* The state k8s_stopping and the switch away from the task leave behind.
k8s_stopping(c, t) ==
  /\ curr[c] = t /\ phase[c] = "ran"
  /\ vtime[t] <= Horizon
  /\ vtime' = [vtime EXCEPT ![t] = charged_vtime(t)]
  /\ curr' = [curr EXCEPT ![c] = None]
  /\ phase' = [phase EXCEPT ![c] = "off"]
  /\ ran' = [ran EXCEPT ![t] = 0]
  /\ UNCHANGED <<maps, stats, vtimeNow, slice, arrived, seen, high>>
-----------------------------------------------------------------------------
(* The kernel around the callbacks (external). *)

\* Bound: the history of ticks run saturates here, beyond any slice granted.
RunCap == DEFAULT_SLICE + 1

\* The task on CPU c runs for n ticks of its slice.
Consume(c, n) ==
  /\ phase[c] \in {"on", "ran"}
  /\ n \in 1 .. slice[curr[c]]
  /\ slice' = [slice EXCEPT ![curr[c]] = @ - n]
  /\ ran' = [ran EXCEPT ![curr[c]] = IF @ + n < RunCap THEN @ + n ELSE RunCap]
  /\ phase' = [phase EXCEPT ![c] = "ran"]
  /\ UNCHANGED <<maps, stats, vtimeNow, vtime, loc, arrived, local, curr, seen,
                 prev, high>>

\* The slice is used up and nothing else is runnable: the kernel keeps the
\* task on the CPU with its own default slice and calls no callback.
KeepRunning(c) ==
  /\ phase[c] = "ran" /\ slice[curr[c]] = 0
  /\ local[c] = None /\ Queued = {}
  /\ slice' = [slice EXCEPT ![curr[c]] = SLICE_DFL]
  /\ UNCHANGED <<maps, stats, vtimeNow, vtime, loc, arrived, cpuVars, ran, high>>

\* CPU c has nothing to run and finds the queue empty: a wakeup may claim it.
GoIdle(c) ==
  /\ phase[c] = "off" /\ local[c] = None /\ prev[c] = None /\ Queued = {}
  /\ phase' = [phase EXCEPT ![c] = "idle"]
  /\ UNCHANGED <<maps, stats, vtimeNow, vtime, slice, loc, arrived, local, curr,
                 seen, prev, ran, high>>

\* The slice is used up and another task is next: the task is stopped while
\* still runnable and k8s_enqueue follows before the CPU runs anything.
Expire(c, t) ==
  /\ slice[t] = 0 /\ local[c] # None
  /\ k8s_stopping(c, t)
  /\ loc' = [loc EXCEPT ![t] = "awake"]
  /\ prev' = [prev EXCEPT ![c] = t]
  /\ UNCHANGED local

\* A higher scheduling class takes the CPU: the task is stopped with slice
\* left and waits in the local DSQ for the rest of it.
Preempt(c, t) ==
  /\ slice[t] > 0 /\ local[c] = None
  /\ k8s_stopping(c, t)
  /\ loc' = [loc EXCEPT ![t] = "local"]
  /\ local' = [local EXCEPT ![c] = t]
  /\ UNCHANGED prev

\* The task blocks, or exits.
Block(c, t) ==
  /\ t \in Sleepers \cup Forkers
  /\ k8s_stopping(c, t)
  /\ loc' = [loc EXCEPT ![t] = IF t \in Forkers THEN "out" ELSE "asleep"]
  /\ UNCHANGED <<local, prev>>

Wake(t) ==
  /\ loc[t] = "asleep"
  /\ loc' = [loc EXCEPT ![t] = "awake"]
  /\ UNCHANGED <<maps, stats, vtimeNow, vtime, slice, arrived, cpuVars, ran, high>>

\* The agent writes or deletes a map entry.
SetTaskParams(k, tp) ==
  /\ taskParams' = [taskParams EXCEPT ![k] = tp]
  /\ UNCHANGED <<cgroupParams, stats, vtimeNow, vtime, slice, loc, arrived, cpuVars,
                 ran, high>>

SetCgroupParams(k, tp) ==
  /\ cgroupParams' = [cgroupParams EXCEPT ![k] = tp]
  /\ UNCHANGED <<taskParams, stats, vtimeNow, vtime, slice, loc, arrived, cpuVars,
                 ran, high>>
-----------------------------------------------------------------------------
CpuStep(c) ==
  \/ \E t \in Tasks : k8s_dispatch(c, t) \/ Expire(c, t)
  \/ k8s_running_load(c)
  \/ k8s_running_store(c)
  \/ \E n \in 1 .. SLICE_DFL + DEFAULT_SLICE : Consume(c, n)
  \/ KeepRunning(c) \/ GoIdle(c)

Next ==
  \/ \E c \in Cpus : CpuStep(c)
  \/ \E c \in Cpus, t \in Tasks :
       k8s_select_cpu(t, c) \/ Preempt(c, t) \/ Block(c, t)
  \/ \E t \in Tasks : k8s_enable(t) \/ k8s_enqueue(t) \/ Wake(t)
  \/ \E tp \in ParamSet \cup {None} :
       \/ \E k \in Tgids : SetTaskParams(k, tp)
       \/ \E k \in Cgids : SetCgroupParams(k, tp)

Spec == Init /\ [][Next]_vars

\* Every CPU keeps scheduling, and a runnable task's enqueue is not put off
\* for ever: both run under the kernel's runqueue lock with interrupts off.
FairSpec == /\ Spec
            /\ \A c \in Cpus : WF_vars(CpuStep(c))
            /\ \A t \in Tasks : WF_vars(k8s_enqueue(t))
-----------------------------------------------------------------------------
(* Properties. *)

Places == {"out", "asleep", "awake", "queued", "local", "cpu"}

\* Every variable has its type; the CPU-side variables name tasks.
TypeOK ==
  /\ taskParams \in [Tgids -> ParamSet \cup {None}]
  /\ cgroupParams \in [Cgids -> ParamSet \cup {None}]
  /\ stats \in [enqueues : Nat, local : Nat, capped : Nat, defaults : Nat]
  /\ vtimeNow \in Word /\ high \in Word
  /\ vtime \in [Tasks -> Word]
  /\ slice \in [Tasks -> Nat] /\ ran \in [Tasks -> Nat]
  /\ loc \in [Tasks -> Places]
  /\ local \in [Cpus -> Tasks \cup {None}]
  /\ curr \in [Cpus -> Tasks \cup {None}]
  /\ phase \in [Cpus -> {"off", "idle", "load", "on", "ran"}]
  /\ arrived \subseteq Tasks \X Tasks
  /\ seen \in [Cpus -> Word]
  /\ prev \in [Cpus -> Tasks \cup {None}]

\* k8s_enqueue and k8s_stopping together never leave a task more than one
\* maximal charge (a full default slice at weight 1) beyond the furthest point
\* the clock has reached, however the CPUs race on vtime_now in k8s_running.
NoTaskFarAhead ==
  \A t \in Tasks : ~ vtime_before(Wrap(high + MaxCharge), vtime[t])

\* A CPU's tasks are where loc says, and no two CPUs have the same one.
Placement ==
  /\ \A c \in Cpus : phase[c] \in {"load", "on", "ran"} <=> curr[c] # None
  /\ \A c \in Cpus : curr[c] # None => loc[curr[c]] = "cpu"
  /\ \A c \in Cpus : local[c] # None => loc[local[c]] = "local"
  /\ \A c, d \in Cpus : c # d /\ curr[c] # None => curr[c] # curr[d]
  /\ \A c, d \in Cpus : c # d /\ local[c] # None => local[c] # local[d]

\* The inductive form of NoTaskFarAhead, for virtual times below Half.  A clock
\* k8s_running has loaded may be stale but was once the clock; a task that has
\* been through k8s_running is not ahead of the furthest clock, which is what
\* leaves room for the one charge k8s_stopping adds.
ClockBounds ==
  /\ vtimeNow <= high /\ high <= Horizon + MaxCharge
  /\ \A c \in Cpus : seen[c] <= high
  /\ \A t \in Tasks : vtime[t] <= Horizon + MaxCharge /\ vtime[t] <= high + MaxCharge
  /\ \A c \in Cpus : phase[c] \in {"on", "ran"} => vtime[curr[c]] <= high

\* Whatever interleaving of k8s_running's load and store the CPUs produce, the
\* placement of tasks and the bounds on clock, loaded clocks and virtual times
\* hold together.
ClockInv == TypeOK /\ Placement /\ ClockBounds

\* Whatever the agent or an earlier agent left in the maps, task_slice gives
\* every queued task a slice it can run on, and never more than the default.
UsableSlice == \A t \in Queued : slice[t] \in 1 .. DEFAULT_SLICE

\* Neither the clamp of k8s_enqueue nor the charge of k8s_stopping moves a
\* task's virtual time backwards, even when the maps change between the two, the
\* kernel has refilled the slice beyond what task_slice gives, or words wrap:
\* by the program's own comparison, a virtual time that changes has moved on.
NeverRewound ==
  [][\A t \in Tasks : loc[t] # "out" /\ vtime'[t] # vtime[t]
       => vtime_before(vtime[t], vtime'[t])]_vars

\* A task entering the vtime DSQ has at most one default slice of credit
\* against the clock: the sleeper clamp of k8s_enqueue.
CreditBounded ==
  [][\A t \in Tasks : loc[t] # "queued" /\ loc'[t] = "queued"
       => ~ vtime_before(vtime'[t], Wrap(vtimeNow - DEFAULT_SLICE))]_vars

Stops(c) == curr[c] # None /\ curr'[c] # curr[c]

ChargeFor(t, ticks) ==
  Wrap(vtime[t] + Charge(ticks, lookup_task_params(t).weight))

\* k8s_stopping charges exactly the ticks the task has just run when the slice
\* it recomputes from the maps is the slice the task was given to run on.
ChargedByUse ==
  [][\A c \in Cpus : Stops(c) =>
       LET t == curr[c] IN
       ran[t] + slice[t] = TaskSlice(t) => vtime'[t] = ChargeFor(t, ran[t])]_vars

\* README.md, "Can a low-weight pod starve? No": a task in the vtime DSQ is
\* eventually given a CPU.
EverythingEventuallyRuns ==
  \A t \in Tasks : loc[t] = "queued" ~> loc[t] = "cpu"
=============================================================================
