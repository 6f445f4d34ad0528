-------------------------- MODULE VtimeSched_proofs --------------------------
(***************************************************************************)
(* Proofs about VtimeSched, for every set of tasks and CPUs, every word    *)
(* width and every content of the parameter maps.                          *)
(***************************************************************************)
EXTENDS VtimeSched, TLAPS

(***************************************************************************)
(* Word arithmetic.                                                        *)
(***************************************************************************)

\* A u64 result is a word.
LEMMA WrapType == ASSUME NEW x \in Int PROVE Wrap(x) \in Word
  BY WordAssumption DEF Wrap, Word

\* u64 arithmetic is exact on results that fit a word.
LEMMA WrapSmall == ASSUME NEW x \in Word PROVE Wrap(x) = x
  BY WordAssumption DEF Wrap, Word

\* A difference that underflows has 2^64 added to it.
LEMMA WrapNegative ==
  ASSUME NEW x \in Int, x < 0, x >= -(2 * Half)
  PROVE  Wrap(x) = x + 2 * Half
  BY WordAssumption DEF Wrap

\* Below 2^63 the signed comparison of vtime_before is the order of numbers.
LEMMA BeforeIsLess ==
  ASSUME NEW a \in 0 .. Half - 1, NEW b \in 0 .. Half - 1
  PROVE  vtime_before(a, b) <=> a < b
<1>1. CASE a < b
  BY <1>1, WrapNegative, WordAssumption DEF vtime_before
<1>2. CASE a >= b
  BY <1>2, WrapSmall, WordAssumption DEF vtime_before, Word
<1>3. QED
  BY <1>1, <1>2, WordAssumption

\* A slice fits half a word.
LEMMA SliceFits == DEFAULT_SLICE <= MaxCharge /\ MaxCharge \in Nat /\ MaxCharge < Half
<1>1. \A a, b \in Nat \ {0} : a <= a * b /\ a * b \in Nat
  OBVIOUS
<1>2. QED
  BY <1>1, SliceAssumption, WeightAssumption, WordAssumption DEF MaxCharge

(***************************************************************************)
(* The parameter lookup, the slice and the charge.                         *)
(***************************************************************************)

\* lookup_task_params always yields a weight and a budget.
LEMMA LookupType ==
  ASSUME TypeOK, NEW t \in Tasks
  PROVE  lookup_task_params(t) \in Params
<1> DEFINE k == TgidOf[t]
           g == CgidOf[t]
<1>1. k \in Tgids /\ g \in Cgids \cup {None}
  BY KeyAssumption
<1>2. taskParams[k] \in ParamSet \cup {None}
  BY <1>1 DEF TypeOK
<1>3. g # None => cgroupParams[g] \in ParamSet \cup {None}
  BY <1>1 DEF TypeOK
<1>4. DefaultParams \in Params
  BY WeightAssumption DEF DefaultParams, Params
<1>5. QED
  BY <1>2, <1>3, <1>4, ParamAssumption DEF lookup_task_params, Found

\* task_slice is at least one tick and at most the default slice.
LEMMA SliceBounds ==
  ASSUME NEW tp \in Params
  PROVE  task_slice(tp) \in 1 .. DEFAULT_SLICE
  BY SliceAssumption DEF task_slice, Params

\* The slice computed for a task has the same bounds, whatever the maps hold.
LEMMA TaskSliceBounds ==
  ASSUME TypeOK, NEW t \in Tasks
  PROVE  TaskSlice(t) \in 1 .. DEFAULT_SLICE
  BY LookupType, SliceBounds DEF TaskSlice

\* The underflow guard keeps the charged ticks within the slice.
LEMMA ConsumedBounds ==
  ASSUME TypeOK, NEW t \in Tasks
  PROVE  consumed(t) \in 0 .. DEFAULT_SLICE
<1>1. TaskSlice(t) \in 1 .. DEFAULT_SLICE
  BY TaskSliceBounds
<1>2. slice[t] \in Nat
  BY DEF TypeOK
<1>3. Wrap(TaskSlice(t) - slice[t]) \in Nat
  BY <1>1, <1>2, WrapType, SliceAssumption, WordAssumption DEF Word
<1>4. QED
  BY <1>1, <1>3, SliceAssumption DEF consumed

\* Weighting multiplies by at most MAX_PRIO_WEIGHT.
LEMMA ChargeBounds ==
  ASSUME NEW used \in 0 .. DEFAULT_SLICE, NEW w \in Nat
  PROVE  Charge(used, w) \in 0 .. MaxCharge
<1> DEFINE d == IF w # 0 THEN w ELSE 1
           a == used * MAX_PRIO_WEIGHT
<1>1. d \in Nat \ {0}
  OBVIOUS
<1>2. \A x, y, z \in Nat : x <= y => x * z <= y * z /\ x * z \in Nat
  OBVIOUS
<1>3. a \in Nat /\ a <= MaxCharge
  BY <1>2, SliceAssumption, WeightAssumption DEF MaxCharge
<1>4. \A x \in Nat, y \in Nat \ {0} : x \div y \in Nat /\ x \div y <= x
  OBVIOUS
<1>5. a \div d \in Nat /\ a \div d <= a
  BY <1>1, <1>3, <1>4
<1>6. QED
  BY <1>3, <1>5, SliceFits DEF Charge

\* k8s_stopping adds at most one maximal charge.
LEMMA StoppingCharge ==
  ASSUME TypeOK, NEW t \in Tasks
  PROVE  Charge(consumed(t), lookup_task_params(t).weight) \in 0 .. MaxCharge
  BY ConsumedBounds, LookupType, ChargeBounds DEF Params

(***************************************************************************)
(* Type correctness.                                                       *)
(***************************************************************************)

\* A statistics counter counts.
LEMMA BumpType == ASSUME NEW n \in Nat, NEW yes \in BOOLEAN PROVE Bump(n, yes) \in Nat
<1>1. (n + 1) % StatMod \in Nat
  BY WordAssumption
<1>2. QED
  BY <1>1 DEF Bump

\* Both vtimes the program computes are words.
LEMMA VtimeTypes ==
  ASSUME TypeOK, NEW t \in Tasks
  PROVE  clamped_vtime(t) \in Word /\ charged_vtime(t) \in Word
<1>1. vtime[t] \in Word /\ vtimeNow \in Word
  BY DEF TypeOK
<1>2. Wrap(vtimeNow - DEFAULT_SLICE) \in Word
  BY <1>1, WrapType, SliceAssumption, WordAssumption DEF Word
<1>3. vtime[t] + Charge(consumed(t), lookup_task_params(t).weight) \in Int
  BY <1>1, StoppingCharge, SliceFits, WordAssumption DEF Word
<1>4. QED
  BY <1>1, <1>2, <1>3, WrapType DEF clamped_vtime, charged_vtime

\* A CPU between k8s_running and k8s_stopping has a task.
Busy == \A c \in Cpus : phase[c] \in {"load", "on", "ran"} => curr[c] # None

\* k8s_stopping leaves every variable it touches in its type.
LEMMA StoppingTypeOK ==
  ASSUME TypeOK, Busy, NEW c \in Cpus, NEW t \in Tasks, k8s_stopping(c, t)
  PROVE  /\ vtime' \in [Tasks -> Word]
         /\ curr' \in [Cpus -> Tasks \cup {None}]
         /\ phase' \in [Cpus -> {"off", "idle", "load", "on", "ran"}]
         /\ ran' \in [Tasks -> Nat]
         /\ taskParams' \in [Tgids -> ParamSet \cup {None}]
         /\ cgroupParams' \in [Cgids -> ParamSet \cup {None}]
         /\ stats' \in [enqueues : Nat, local : Nat, capped : Nat, defaults : Nat]
         /\ vtimeNow' \in Word /\ high' \in Word
         /\ slice' \in [Tasks -> Nat]
         /\ arrived' \subseteq Tasks \X Tasks
         /\ seen' \in [Cpus -> Word]
         /\ Busy'
  BY VtimeTypes DEF TypeOK, Busy, k8s_stopping, maps

\* Every callback and every step of the kernel preserves the types.
LEMMA TypeStep == TypeOK /\ Busy /\ [Next]_vars => TypeOK' /\ Busy'
<1> SUFFICES ASSUME TypeOK, Busy, [Next]_vars PROVE TypeOK' /\ Busy'
  OBVIOUS
<1>1. ASSUME NEW t \in Tasks, k8s_enable(t) PROVE TypeOK' /\ Busy'
  BY <1>1 DEF TypeOK, Busy, k8s_enable, maps, cpuVars, Places
<1>2. ASSUME NEW t \in Tasks, NEW c \in Cpus, k8s_select_cpu(t, c) PROVE TypeOK' /\ Busy'
  <2>1. stats' \in [enqueues : Nat, local : Nat, capped : Nat, defaults : Nat]
    <3>1. Capped(t) \in BOOLEAN
      BY DEF Capped
    <3>2. QED
      BY <1>2, <3>1, BumpType DEF TypeOK, k8s_select_cpu
  <2>2. slice' \in [Tasks -> Nat]
    BY <1>2, TaskSliceBounds, SliceAssumption DEF TypeOK, k8s_select_cpu
  <2>3. QED
    BY <1>2, <2>1, <2>2 DEF TypeOK, Busy, k8s_select_cpu, maps, Places
<1>3. ASSUME NEW t \in Tasks, k8s_enqueue(t) PROVE TypeOK' /\ Busy'
  <2>1. stats' \in [enqueues : Nat, local : Nat, capped : Nat, defaults : Nat]
    <3>1. Capped(t) \in BOOLEAN /\ (~ Found(t)) \in BOOLEAN
      BY DEF Capped
    <3>2. QED
      BY <1>3, <3>1, BumpType DEF TypeOK, k8s_enqueue
  <2>2. slice' \in [Tasks -> Nat]
    BY <1>3, TaskSliceBounds, SliceAssumption DEF TypeOK, k8s_enqueue
  <2>3. vtime' \in [Tasks -> Word]
    BY <1>3, VtimeTypes DEF TypeOK, k8s_enqueue
  <2>4. arrived' \subseteq Tasks \X Tasks
    BY <1>3 DEF TypeOK, Busy, k8s_enqueue, Queued
  <2>5. QED
    BY <1>3, <2>1, <2>2, <2>3, <2>4 DEF TypeOK, Busy, k8s_enqueue, maps, Places
<1>4. ASSUME NEW c \in Cpus, NEW t \in Tasks, k8s_dispatch(c, t) PROVE TypeOK' /\ Busy'
  BY <1>4 DEF TypeOK, Busy, k8s_dispatch, maps, Places
<1>5. ASSUME NEW c \in Cpus, k8s_running_load(c) PROVE TypeOK' /\ Busy'
  BY <1>5 DEF TypeOK, Busy, k8s_running_load, maps, Places
<1>6. ASSUME NEW c \in Cpus, k8s_running_store(c) PROVE TypeOK' /\ Busy'
  BY <1>6, WordAssumption DEF TypeOK, Busy, k8s_running_store, maps, Word
<1>7. ASSUME NEW c \in Cpus, NEW n \in Nat, Consume(c, n) PROVE TypeOK' /\ Busy'
  BY <1>7, SliceAssumption DEF TypeOK, Busy, Consume, maps, RunCap
<1>8. ASSUME NEW c \in Cpus, KeepRunning(c) PROVE TypeOK' /\ Busy'
  BY <1>8, SliceAssumption DEF TypeOK, Busy, KeepRunning, maps, cpuVars
<1>9. ASSUME NEW c \in Cpus, GoIdle(c) PROVE TypeOK' /\ Busy'
  BY <1>9 DEF TypeOK, Busy, GoIdle, maps
<1>10. ASSUME NEW c \in Cpus, NEW t \in Tasks, Expire(c, t) PROVE TypeOK' /\ Busy'
  BY <1>10, StoppingTypeOK DEF TypeOK, Expire, Places
<1>11. ASSUME NEW c \in Cpus, NEW t \in Tasks, Preempt(c, t) PROVE TypeOK' /\ Busy'
  BY <1>11, StoppingTypeOK DEF TypeOK, Preempt, Places
<1>12. ASSUME NEW c \in Cpus, NEW t \in Tasks, Block(c, t) PROVE TypeOK' /\ Busy'
  BY <1>12, StoppingTypeOK DEF TypeOK, Block, Places
<1>13. ASSUME NEW t \in Tasks, Wake(t) PROVE TypeOK' /\ Busy'
  BY <1>13 DEF TypeOK, Busy, Wake, maps, cpuVars, Places
<1>14. ASSUME NEW k \in Tgids, NEW tp \in ParamSet \cup {None}, SetTaskParams(k, tp)
       PROVE TypeOK' /\ Busy'
  BY <1>14 DEF TypeOK, Busy, SetTaskParams, cpuVars
<1>15. ASSUME NEW k \in Cgids, NEW tp \in ParamSet \cup {None}, SetCgroupParams(k, tp)
       PROVE TypeOK' /\ Busy'
  BY <1>15 DEF TypeOK, Busy, SetCgroupParams, cpuVars
<1>16. CASE UNCHANGED vars
  BY <1>16 DEF TypeOK, Busy, vars, maps, cpuVars
<1>17. QED
  BY <1>1, <1>2, <1>3, <1>4, <1>5, <1>6, <1>7, <1>8, <1>9, <1>10, <1>11, <1>12,
     <1>13, <1>14, <1>15, <1>16, SliceAssumption DEF Next, CpuStep

\* Every variable keeps its type: virtual times and the clock stay words, the
\* statistics and slices natural numbers, each CPU's task a task.
THEOREM TypeCorrect == Spec => []TypeOK
<1>1. Init => TypeOK /\ Busy
  BY SliceAssumption, WordAssumption DEF Init, TypeOK, Busy, Word, Places
<1>2. QED
  BY <1>1, TypeStep, PTL DEF Spec

(***************************************************************************)
(* Placement, and the slices of queued tasks.                              *)
(***************************************************************************)

\* Placement implies that a busy CPU has a task.
LEMMA PlacementBusy == Placement => Busy
  BY DEF Placement, Busy

\* Leaving a CPU for the runqueue, the local DSQ or sleep keeps Placement.
LEMMA StoppingPlacement ==
  ASSUME TypeOK, Placement, NEW c \in Cpus, NEW t \in Tasks, k8s_stopping(c, t),
         \/ /\ local[c] = None /\ local' = [local EXCEPT ![c] = t]
            /\ loc' = [loc EXCEPT ![t] = "local"]
         \/ local' = local /\ \E p \in {"awake", "out", "asleep"} : loc' = [loc EXCEPT ![t] = p]
  PROVE  Placement'
<1>1. loc[t] = "cpu" /\ \A d \in Cpus : curr'[d] # None => d # c /\ curr'[d] = curr[d]
  BY NoneAssumption DEF TypeOK, Placement, k8s_stopping
<1>2. \A d \in Cpus : phase'[d] \in {"load", "on", "ran"} <=> curr'[d] # None
  BY DEF TypeOK, Placement, k8s_stopping
<1>3. \A d \in Cpus : curr'[d] # None => curr'[d] # t /\ curr'[d] \in Tasks
  BY <1>1, NoneAssumption DEF TypeOK, Placement, k8s_stopping
<1>4. \A d \in Cpus : curr'[d] # None => loc'[curr'[d]] = "cpu"
  BY <1>1, <1>3 DEF TypeOK, Placement
<1>5. \A d \in Cpus : local[d] # None => local[d] # t /\ local[d] \in Tasks
  BY <1>1 DEF TypeOK, Placement
<1>6. \A d \in Cpus : local'[d] # None => loc'[local'[d]] = "local"
  BY <1>5 DEF TypeOK, Placement
<1>7. \A d, e \in Cpus : d # e /\ curr'[d] # None => curr'[d] # curr'[e]
  BY <1>1 DEF Placement
<1>8. \A d, e \in Cpus : d # e /\ local'[d] # None => local'[d] # local'[e]
  BY <1>5, NoneAssumption DEF TypeOK, Placement
<1>9. QED
  BY <1>2, <1>4, <1>6, <1>7, <1>8 DEF Placement

\* Every step keeps each CPU's tasks where loc says they are.
LEMMA PlacementStep == TypeOK /\ Placement /\ [Next]_vars => Placement'
<1> SUFFICES ASSUME TypeOK, Placement, [Next]_vars PROVE Placement'
  OBVIOUS
<1>1. ASSUME NEW t \in Tasks, k8s_enable(t) PROVE Placement'
  BY <1>1 DEF TypeOK, Placement, k8s_enable, cpuVars
<1>2. ASSUME NEW t \in Tasks, NEW c \in Cpus, k8s_select_cpu(t, c) PROVE Placement'
  BY <1>2, NoneAssumption DEF TypeOK, Placement, k8s_select_cpu
<1>3. ASSUME NEW t \in Tasks, k8s_enqueue(t) PROVE Placement'
  BY <1>3 DEF TypeOK, Placement, k8s_enqueue
<1>4. ASSUME NEW c \in Cpus, NEW t \in Tasks, k8s_dispatch(c, t) PROVE Placement'
  <2>1. loc[t] = "queued"
    BY <1>4 DEF k8s_dispatch, Heads, Queued
  <2>2. QED
    BY <1>4, <2>1, NoneAssumption DEF TypeOK, Placement, k8s_dispatch
<1>5. ASSUME NEW c \in Cpus, k8s_running_load(c) PROVE Placement'
  <2>1. PICK t \in Tasks : t = local[c] /\ loc[t] = "local"
    BY <1>5 DEF TypeOK, Placement, k8s_running_load
  <2>2. \A d \in Cpus : /\ curr[d] # None => curr[d] # t /\ curr[d] \in Tasks
                        /\ local[d] # None /\ d # c => local[d] # t /\ local[d] \in Tasks
    BY <2>1 DEF TypeOK, Placement
  <2>3. /\ curr' = [curr EXCEPT ![c] = t] /\ local' = [local EXCEPT ![c] = None]
        /\ loc' = [loc EXCEPT ![t] = "cpu"] /\ phase' = [phase EXCEPT ![c] = "load"]
    BY <1>5, <2>1 DEF k8s_running_load
  <2>4. QED
    BY <2>1, <2>2, <2>3, NoneAssumption DEF TypeOK, Placement
<1>6. ASSUME NEW c \in Cpus, k8s_running_store(c) PROVE Placement'
  BY <1>6 DEF TypeOK, Placement, k8s_running_store
<1>7. ASSUME NEW c \in Cpus, NEW n \in Nat, Consume(c, n) PROVE Placement'
  BY <1>7 DEF TypeOK, Placement, Consume
<1>8. ASSUME NEW c \in Cpus, KeepRunning(c) PROVE Placement'
  BY <1>8 DEF Placement, KeepRunning, cpuVars
<1>9. ASSUME NEW c \in Cpus, GoIdle(c) PROVE Placement'
  BY <1>9 DEF TypeOK, Placement, GoIdle
<1>10. ASSUME NEW c \in Cpus, NEW t \in Tasks, Expire(c, t) PROVE Placement'
  BY <1>10, StoppingPlacement DEF Expire
<1>11. ASSUME NEW c \in Cpus, NEW t \in Tasks, Preempt(c, t) PROVE Placement'
  BY <1>11, StoppingPlacement DEF Preempt
<1>12. ASSUME NEW c \in Cpus, NEW t \in Tasks, Block(c, t) PROVE Placement'
  BY <1>12, StoppingPlacement DEF Block
<1>13. ASSUME NEW t \in Tasks, Wake(t) PROVE Placement'
  BY <1>13 DEF TypeOK, Placement, Wake, cpuVars
<1>14. ASSUME NEW k \in Tgids, NEW tp \in ParamSet \cup {None}, SetTaskParams(k, tp)
       PROVE Placement'
  BY <1>14 DEF Placement, SetTaskParams, cpuVars
<1>15. ASSUME NEW k \in Cgids, NEW tp \in ParamSet \cup {None}, SetCgroupParams(k, tp)
       PROVE Placement'
  BY <1>15 DEF Placement, SetCgroupParams, cpuVars
<1>16. CASE UNCHANGED vars
  BY <1>16 DEF Placement, vars, cpuVars
<1>17. QED
  BY <1>1, <1>2, <1>3, <1>4, <1>5, <1>6, <1>7, <1>8, <1>9, <1>10, <1>11, <1>12,
     <1>13, <1>14, <1>15, <1>16, SliceAssumption DEF Next, CpuStep

\* What k8s_init and the enabling of the existing tasks establish.
LEMMA InitTypePlacement == Init => TypeOK /\ Placement
  BY SliceAssumption, WordAssumption, NoneAssumption DEF Init, TypeOK, Placement, Word, Places

\* The structural invariant every later argument starts from.
THEOREM Placed == Spec => [](TypeOK /\ Placement)
  BY InitTypePlacement, TypeStep, PlacementBusy, PlacementStep, PTL DEF Spec

\* A task is queued with a slice it can run on, and no step touches the slice
\* of a task while it is queued.
LEMMA UsableSliceStep == TypeOK /\ Placement /\ UsableSlice /\ [Next]_vars => UsableSlice'
<1> SUFFICES ASSUME TypeOK, Placement, UsableSlice, [Next]_vars,
                    NEW u \in Tasks, loc'[u] = "queued"
             PROVE  slice'[u] \in 1 .. DEFAULT_SLICE
  BY DEF UsableSlice, Queued
<1>1. ASSUME NEW t \in Tasks, k8s_enqueue(t) PROVE slice'[u] \in 1 .. DEFAULT_SLICE
  BY <1>1, TaskSliceBounds DEF TypeOK, UsableSlice, Queued, k8s_enqueue
<1>2. SUFFICES ASSUME \A t \in Tasks : ~ k8s_enqueue(t)
               PROVE  loc[u] = "queued" /\ slice'[u] = slice[u]
  BY <1>1 DEF UsableSlice, Queued
<1>3. ASSUME NEW t \in Tasks, k8s_enable(t) PROVE loc[u] = "queued" /\ slice'[u] = slice[u]
  BY <1>3 DEF TypeOK, k8s_enable
<1>4. ASSUME NEW t \in Tasks, NEW c \in Cpus, k8s_select_cpu(t, c)
      PROVE  loc[u] = "queued" /\ slice'[u] = slice[u]
  BY <1>4 DEF TypeOK, k8s_select_cpu
<1>5. ASSUME NEW c \in Cpus, NEW t \in Tasks, k8s_dispatch(c, t)
      PROVE  loc[u] = "queued" /\ slice'[u] = slice[u]
  BY <1>5 DEF TypeOK, k8s_dispatch
<1>6. ASSUME NEW c \in Cpus, k8s_running_load(c) \/ k8s_running_store(c) \/ GoIdle(c)
      PROVE  loc[u] = "queued" /\ slice'[u] = slice[u]
  BY <1>6 DEF TypeOK, k8s_running_load, k8s_running_store, GoIdle
<1>7. ASSUME NEW c \in Cpus, NEW n \in Nat, Consume(c, n) \/ KeepRunning(c)
      PROVE  loc[u] = "queued" /\ slice'[u] = slice[u]
  BY <1>7 DEF TypeOK, Placement, Consume, KeepRunning
<1>8. ASSUME NEW c \in Cpus, NEW t \in Tasks, Expire(c, t) \/ Preempt(c, t) \/ Block(c, t)
      PROVE  loc[u] = "queued" /\ slice'[u] = slice[u]
  BY <1>8 DEF TypeOK, Expire, Preempt, Block, k8s_stopping
<1>9. ASSUME NEW t \in Tasks, Wake(t) PROVE loc[u] = "queued" /\ slice'[u] = slice[u]
  BY <1>9 DEF TypeOK, Wake
<1>10. ASSUME NEW tp \in ParamSet \cup {None},
              \/ \E k \in Tgids : SetTaskParams(k, tp)
              \/ \E k \in Cgids : SetCgroupParams(k, tp)
       PROVE  loc[u] = "queued" /\ slice'[u] = slice[u]
  BY <1>10 DEF SetTaskParams, SetCgroupParams
<1>11. CASE UNCHANGED vars
  BY <1>11 DEF vars
<1>12. QED
  BY <1>2, <1>3, <1>4, <1>5, <1>6, <1>7, <1>8, <1>9, <1>10, <1>11, SliceAssumption
     DEF Next, CpuStep

\* Whatever weights and budgets the maps hold or are given while tasks wait,
\* every task in the vtime DSQ has a slice between one tick and the default.
THEOREM SliceUsable == Spec => []UsableSlice
<1>1. Init => UsableSlice
  BY DEF Init, UsableSlice, Queued
<1>2. QED
  BY <1>1, Placed, UsableSliceStep, PTL DEF Spec

(***************************************************************************)
(* Virtual time, as long as it stays below 2^63.                           *)
(***************************************************************************)

NoWrap == Horizon + 2 * MaxCharge < Half

\* The clamp of k8s_enqueue is max(vtime, vtime_now - DEFAULT_SLICE); when the
\* difference underflows just after boot it leaves the virtual time alone.
LEMMA ClampIsMax ==
  ASSUME NoWrap, TypeOK, NEW t \in Tasks,
         vtime[t] <= Horizon + MaxCharge, vtimeNow <= Horizon + MaxCharge
  PROVE  /\ clamped_vtime(t) >= vtime[t]
         /\ clamped_vtime(t) = vtime[t] \/ clamped_vtime(t) <= vtimeNow
<1>1. /\ vtime[t] \in 0 .. Half - 1 /\ vtimeNow \in 0 .. Half - 1
      /\ vtime[t] + DEFAULT_SLICE < Half
  BY SliceFits, SliceAssumption, WordAssumption DEF TypeOK, Word, NoWrap
<1>2. CASE vtimeNow >= DEFAULT_SLICE
  <2>1. Wrap(vtimeNow - DEFAULT_SLICE) = vtimeNow - DEFAULT_SLICE
    BY <1>1, <1>2, WrapSmall, SliceAssumption, WordAssumption DEF Word
  <2>2. vtimeNow - DEFAULT_SLICE \in 0 .. Half - 1
    BY <1>1, <1>2, SliceAssumption, WordAssumption
  <2>3. QED
    BY <1>1, <2>1, <2>2, BeforeIsLess, SliceAssumption, WordAssumption DEF clamped_vtime
<1>3. CASE vtimeNow < DEFAULT_SLICE
  <2> DEFINE w == vtimeNow - DEFAULT_SLICE + 2 * Half
  <2>1. Wrap(vtimeNow - DEFAULT_SLICE) = w
    BY <1>1, <1>3, WrapNegative, SliceFits, SliceAssumption, WordAssumption
  <2>2. vtime[t] - w \in Int /\ vtime[t] - w < 0 /\ vtime[t] - w >= -(2 * Half)
    BY <1>1, <1>3, SliceAssumption, WordAssumption
  <2>3. Wrap(vtime[t] - w) = vtime[t] - vtimeNow + DEFAULT_SLICE
    BY <1>1, <2>2, WrapNegative, SliceAssumption, WordAssumption
  <2>4. ~ vtime_before(vtime[t], w)
    BY <1>1, <2>3, SliceAssumption, WordAssumption DEF vtime_before
  <2>5. QED
    BY <1>1, <2>1, <2>4 DEF clamped_vtime
<1>4. QED
  BY <1>1, <1>2, <1>3, SliceAssumption

\* Below 2^63 the charge of k8s_stopping is exact addition.
LEMMA ChargeIsSum ==
  ASSUME NoWrap, TypeOK, NEW c \in Cpus, NEW t \in Tasks, k8s_stopping(c, t)
  PROVE  /\ charged_vtime(t) \in vtime[t] .. vtime[t] + MaxCharge
         /\ charged_vtime(t) <= Horizon + MaxCharge
<1> DEFINE v == vtime[t] + Charge(consumed(t), lookup_task_params(t).weight)
<1>1. v \in vtime[t] .. vtime[t] + MaxCharge /\ vtime[t] \in Nat
  BY StoppingCharge, SliceFits, WordAssumption DEF TypeOK, Word
<1>2. v <= Horizon + MaxCharge
  <2>1. vtime[t] <= Horizon
    BY DEF k8s_stopping
  <2>2. QED
    BY <1>1, <2>1, SliceFits, WordAssumption
<1>3. v \in Word
  BY <1>1, <1>2, SliceFits, WordAssumption DEF NoWrap, Word
<1>4. charged_vtime(t) = v
  BY <1>3, WrapSmall DEF charged_vtime
<1>5. QED
  BY <1>1, <1>2, <1>4

\* k8s_stopping charges a task that is not ahead of the furthest clock, so one
\* charge leaves it within one charge of it.
LEMMA StoppingBounds ==
  ASSUME NoWrap, ClockInv, NEW c \in Cpus, NEW t \in Tasks, k8s_stopping(c, t)
  PROVE  ClockBounds'
<1> USE DEF ClockInv
<1>1. vtime[t] <= high
  BY DEF ClockBounds, k8s_stopping
<1>2. charged_vtime(t) \in Nat /\ charged_vtime(t) <= Horizon + MaxCharge /\ charged_vtime(t) <= high + MaxCharge
  BY <1>1, ChargeIsSum, SliceFits, WordAssumption DEF TypeOK, Word
<1>3. \A u \in Tasks : vtime'[u] <= Horizon + MaxCharge /\ vtime'[u] <= high + MaxCharge
  BY <1>2 DEF TypeOK, ClockBounds, k8s_stopping
<1>4. \A d \in Cpus : phase'[d] \in {"on", "ran"} =>
        phase[d] \in {"on", "ran"} /\ curr'[d] = curr[d] /\ curr[d] # t /\ curr[d] \in Tasks
  BY NoneAssumption DEF TypeOK, Placement, k8s_stopping
<1>5. \A d \in Cpus : phase'[d] \in {"on", "ran"} => vtime'[curr'[d]] <= high
  BY <1>4 DEF TypeOK, ClockBounds, k8s_stopping
<1>6. QED
  BY <1>3, <1>5 DEF ClockBounds, k8s_stopping

\* Every step keeps the clock, the loaded clocks and the virtual times in their
\* bounds: the interleavings of k8s_running on several CPUs included.
LEMMA ClockStep == NoWrap /\ ClockInv /\ [Next]_vars => ClockBounds'
<1> SUFFICES ASSUME NoWrap, ClockInv, [Next]_vars PROVE ClockBounds'
  OBVIOUS
<1> USE DEF ClockInv
<1>1. ASSUME NEW t \in Tasks, k8s_enable(t) PROVE ClockBounds'
  <2>1. vtimeNow \in Nat /\ high \in Nat /\ \A c \in Cpus : curr[c] # t
    BY <1>1, NoneAssumption DEF TypeOK, Word, Placement, k8s_enable
  <2>2. QED
    BY <1>1, <2>1, SliceFits, WordAssumption
       DEF TypeOK, Word, Placement, ClockBounds, k8s_enable, cpuVars
<1>2. ASSUME NEW t \in Tasks, NEW c \in Cpus, k8s_select_cpu(t, c) PROVE ClockBounds'
  BY <1>2 DEF TypeOK, ClockBounds, k8s_select_cpu
<1>3. ASSUME NEW t \in Tasks, k8s_enqueue(t) PROVE ClockBounds'
  <2>1. vtimeNow \in Nat /\ high \in Nat /\ \A c \in Cpus : curr[c] # t
    BY <1>3, NoneAssumption DEF TypeOK, Word, Placement, k8s_enqueue
  <2>2. clamped_vtime(t) <= Horizon + MaxCharge /\ clamped_vtime(t) <= high + MaxCharge
    <3>1. clamped_vtime(t) \in Int
      BY VtimeTypes, WordAssumption DEF Word
    <3>2. QED
      BY <2>1, <3>1, ClampIsMax, SliceFits, WordAssumption DEF ClockBounds
  <2>3. \A u \in Tasks : vtime'[u] <= Horizon + MaxCharge /\ vtime'[u] <= high + MaxCharge
    BY <1>3, <2>2 DEF TypeOK, ClockBounds, k8s_enqueue
  <2>4. \A d \in Cpus : phase[d] \in {"on", "ran"} => vtime'[curr[d]] <= high
    BY <1>3, <2>1 DEF TypeOK, Placement, ClockBounds, k8s_enqueue
  <2>5. QED
    BY <1>3, <2>3, <2>4 DEF ClockBounds, k8s_enqueue
<1>4. ASSUME NEW c \in Cpus, NEW t \in Tasks, k8s_dispatch(c, t) PROVE ClockBounds'
  BY <1>4 DEF TypeOK, ClockBounds, k8s_dispatch
<1>5. ASSUME NEW c \in Cpus, k8s_running_load(c) PROVE ClockBounds'
  BY <1>5 DEF TypeOK, ClockBounds, k8s_running_load
<1>6. ASSUME NEW c \in Cpus, k8s_running_store(c) PROVE ClockBounds'
  <2> DEFINE v == vtime[curr[c]]
  <2>1. curr[c] \in Tasks
    BY <1>6 DEF TypeOK, Placement, k8s_running_store
  <2>2. /\ v \in 0 .. Half - 1 /\ v <= Horizon + MaxCharge
        /\ high \in 0 .. Half - 1 /\ vtimeNow \in 0 .. Half - 1
        /\ seen[c] \in 0 .. Half - 1
    BY <2>1, SliceFits, WordAssumption DEF TypeOK, Word, ClockBounds, NoWrap
  <2>3. vtimeNow' = (IF seen[c] < v THEN v ELSE vtimeNow)
    BY <1>6, <2>2, BeforeIsLess DEF k8s_running_store
  <2>4. vtimeNow' \in 0 .. Half - 1 /\ vtimeNow' <= Horizon + MaxCharge
    BY <2>2, <2>3, SliceFits, WordAssumption DEF ClockBounds
  <2>5. high' = (IF high < vtimeNow' THEN vtimeNow' ELSE high)
    BY <1>6, <2>2, <2>4, BeforeIsLess DEF k8s_running_store
  <2>6. high' >= high /\ high' >= vtimeNow' /\ high' <= Horizon + MaxCharge /\ high' \in Nat /\ v <= high'
    BY <2>2, <2>3, <2>4, <2>5, WordAssumption DEF ClockBounds
  <2>7. \A d \in Cpus : seen'[d] <= high'
    BY <1>6, <2>2, <2>6, WordAssumption DEF TypeOK, Word, ClockBounds, k8s_running_store
  <2>8. \A t \in Tasks : vtime'[t] <= Horizon + MaxCharge /\ vtime'[t] <= high' + MaxCharge
    BY <1>6, <2>2, <2>6, SliceFits, WordAssumption
       DEF TypeOK, Word, ClockBounds, k8s_running_store
  <2>9. \A d \in Cpus : phase'[d] \in {"on", "ran"} => vtime'[curr'[d]] <= high'
    <3> SUFFICES ASSUME NEW d \in Cpus, phase'[d] \in {"on", "ran"}
                 PROVE  vtime'[curr'[d]] <= high'
      OBVIOUS
    <3>1. CASE d = c
      BY <1>6, <2>6, <3>1 DEF k8s_running_store
    <3>2. CASE d # c
      <4>1. phase[d] \in {"on", "ran"} /\ curr[d] \in Tasks
        BY <1>6, <3>2 DEF TypeOK, Placement, k8s_running_store
      <4>2. QED
        BY <1>6, <2>2, <2>6, <4>1, WordAssumption DEF TypeOK, Word, ClockBounds, k8s_running_store
    <3>3. QED
      BY <3>1, <3>2
  <2>10. QED
    BY <2>6, <2>7, <2>8, <2>9 DEF ClockBounds
<1>7. ASSUME NEW c \in Cpus, NEW n \in Nat, Consume(c, n) PROVE ClockBounds'
  BY <1>7 DEF TypeOK, ClockBounds, Consume
<1>8. ASSUME NEW c \in Cpus, KeepRunning(c) PROVE ClockBounds'
  BY <1>8 DEF ClockBounds, KeepRunning, cpuVars
<1>9. ASSUME NEW c \in Cpus, GoIdle(c) PROVE ClockBounds'
  BY <1>9 DEF TypeOK, ClockBounds, GoIdle
<1>10. ASSUME NEW c \in Cpus, NEW t \in Tasks, Expire(c, t) \/ Preempt(c, t) \/ Block(c, t)
       PROVE  ClockBounds'
  BY <1>10, StoppingBounds DEF Expire, Preempt, Block
<1>11. ASSUME NEW t \in Tasks, Wake(t) PROVE ClockBounds'
  BY <1>11 DEF ClockBounds, Wake, cpuVars
<1>12. ASSUME NEW tp \in ParamSet \cup {None},
              \/ \E k \in Tgids : SetTaskParams(k, tp)
              \/ \E k \in Cgids : SetCgroupParams(k, tp)
       PROVE  ClockBounds'
  BY <1>12 DEF ClockBounds, SetTaskParams, SetCgroupParams, cpuVars
<1>13. CASE UNCHANGED vars
  BY <1>13 DEF ClockBounds, vars, cpuVars
<1>14. QED
  BY <1>1, <1>2, <1>3, <1>4, <1>5, <1>6, <1>7, <1>8, <1>9, <1>10, <1>11, <1>12, <1>13,
     SliceAssumption DEF Next, CpuStep

\* The bounds on clock, loaded clocks and virtual times hold together in every
\* reachable state, for any number of CPUs racing in k8s_running.
THEOREM ClockInvariant == NoWrap => (Spec => []ClockInv)
<1> SUFFICES ASSUME NoWrap PROVE Spec => []ClockInv
  OBVIOUS
<1>1. Init => ClockInv
  BY InitTypePlacement, SliceFits, WordAssumption DEF Init, ClockInv, ClockBounds
<1>2. ClockInv /\ [Next]_vars => ClockInv'
  BY ClockStep, TypeStep, PlacementBusy, PlacementStep DEF ClockInv
<1>3. QED
  BY <1>1, <1>2, PTL DEF Spec

\* No task is ever more than one maximal charge beyond the furthest point the
\* clock has reached, although k8s_running may lose updates of the clock.
THEOREM TasksNotFarAhead == NoWrap => (Spec => []NoTaskFarAhead)
<1> SUFFICES ASSUME NoWrap PROVE Spec => []NoTaskFarAhead
  OBVIOUS
<1>1. ClockInv => NoTaskFarAhead
  <2> SUFFICES ASSUME ClockInv, NEW t \in Tasks
               PROVE  ~ vtime_before(Wrap(high + MaxCharge), vtime[t])
    BY DEF NoTaskFarAhead
  <2>1. high + MaxCharge \in 0 .. Half - 1 /\ vtime[t] \in 0 .. Half - 1
        /\ vtime[t] <= high + MaxCharge
    BY SliceFits, WordAssumption DEF ClockInv, TypeOK, Word, ClockBounds, NoWrap
  <2>2. Wrap(high + MaxCharge) = high + MaxCharge
    BY <2>1, WrapSmall, WordAssumption DEF Word
  <2>3. QED
    BY <2>1, <2>2, BeforeIsLess
<1>2. QED
  BY <1>1, ClockInvariant, PTL

(***************************************************************************)
(* What holds of the clamp and the charge whether or not words wrap.       *)
(***************************************************************************)

\* Only k8s_enqueue puts a task in the vtime DSQ.
LEMMA OnlyEnqueueQueues ==
  ASSUME TypeOK, Placement, Next, NEW u \in Tasks, loc[u] # "queued", loc'[u] = "queued"
  PROVE  k8s_enqueue(u)
<1>1. ASSUME NEW t \in Tasks, k8s_enqueue(t) PROVE t = u
  BY <1>1 DEF TypeOK, k8s_enqueue
<1>2. ASSUME NEW t \in Tasks, k8s_enable(t) \/ Wake(t) PROVE FALSE
  BY <1>2 DEF TypeOK, k8s_enable, Wake
<1>3. ASSUME NEW c \in Cpus, NEW t \in Tasks,
             k8s_select_cpu(t, c) \/ k8s_dispatch(c, t) \/ Expire(c, t) \/ Preempt(c, t) \/ Block(c, t)
      PROVE  FALSE
  BY <1>3 DEF TypeOK, k8s_select_cpu, k8s_dispatch, Expire, Preempt, Block
<1>4. ASSUME NEW c \in Cpus, NEW n \in Nat,
             \/ k8s_running_load(c) \/ k8s_running_store(c) \/ Consume(c, n)
             \/ KeepRunning(c) \/ GoIdle(c)
      PROVE  FALSE
  BY <1>4 DEF TypeOK, k8s_running_load, k8s_running_store, Consume, KeepRunning, GoIdle
<1>5. ASSUME NEW tp \in ParamSet \cup {None},
             \/ \E k \in Tgids : SetTaskParams(k, tp)
             \/ \E k \in Cgids : SetCgroupParams(k, tp)
      PROVE  FALSE
  BY <1>5 DEF SetTaskParams, SetCgroupParams
<1>6. ASSUME NEW c \in Cpus, CpuStep(c) PROVE FALSE
  <2>1. \A n \in 1 .. SLICE_DFL + DEFAULT_SLICE : n \in Nat
    BY SliceAssumption
  <2>2. 1 \in Nat
    OBVIOUS
  <2>3. QED
    BY <1>3, <1>4, <1>6, <2>1, <2>2, Zenon DEF CpuStep
<1>7. PICK t \in Tasks : k8s_enqueue(t)
  BY <1>2, <1>3, <1>5, <1>6, Zenon DEF Next
<1>8. t = u
  BY <1>1, <1>7, Zenon
<1>9. QED
  BY <1>7, <1>8, Zenon

\* A task entering the vtime DSQ has at most one default slice of credit
\* against the clock, also when virtual times wrap.
THEOREM SleeperCredit == Spec => CreditBounded
<1>1. TypeOK /\ Placement /\ [Next]_vars =>
        [\A t \in Tasks : loc[t] # "queued" /\ loc'[t] = "queued"
           => ~ vtime_before(vtime'[t], Wrap(vtimeNow - DEFAULT_SLICE))]_vars
  <2> SUFFICES ASSUME TypeOK, Placement, Next, NEW u \in Tasks,
                      loc[u] # "queued", loc'[u] = "queued"
               PROVE  ~ vtime_before(vtime'[u], Wrap(vtimeNow - DEFAULT_SLICE))
    OBVIOUS
  <2> DEFINE w == Wrap(vtimeNow - DEFAULT_SLICE)
  <2>1. vtime'[u] = clamped_vtime(u)
    <3>1. k8s_enqueue(u)
      BY OnlyEnqueueQueues
    <3>2. vtime' = [vtime EXCEPT ![u] = clamped_vtime(u)]
      BY <3>1, Zenon DEF k8s_enqueue
    <3>3. QED
      BY <3>2 DEF TypeOK
  <2>2. w \in Int
    BY WrapType, SliceAssumption, WordAssumption DEF TypeOK, Word
  <2>3. ~ vtime_before(w, w)
    <3>1. w - w = 0 /\ 0 \in Word
      BY <2>2, WordAssumption DEF Word
    <3>2. QED
      BY <3>1, WrapSmall, WordAssumption DEF vtime_before
  <2>4. QED
    BY <2>1, <2>3 DEF clamped_vtime
<1>2. QED
  BY <1>1, Placed, PTL DEF Spec, CreditBounded

\* A charge below 2^63 moves a word on, past the end of the words too.
LEMMA ChargeMovesOn ==
  ASSUME NEW v \in Word, NEW n \in 0 .. Half - 1
  PROVE  Wrap(v + n) = v \/ vtime_before(v, Wrap(v + n))
<1>1. CASE n = 0
  BY <1>1, WrapSmall, WordAssumption DEF Word
<1>2. CASE n > 0 /\ v + n \in Word
  <2>1. Wrap(v + n) = v + n /\ v - (v + n) = -n
    BY <1>2, WrapSmall, WordAssumption DEF Word
  <2>2. Wrap(-n) = 2 * Half - n
    BY <1>2, WrapNegative, WordAssumption
  <2>3. QED
    BY <2>1, <2>2, WordAssumption DEF vtime_before
<1>3. CASE v + n \notin Word
  <2>1. v + n - 2 * Half \in Word
    BY <1>3, WordAssumption DEF Word
  <2>2. Wrap(v + n) = v + n - 2 * Half
    BY <2>1, WordAssumption DEF Wrap, Word
  <2>3. v - (v + n - 2 * Half) = 2 * Half - n /\ 2 * Half - n \in Word
    BY <1>3, WordAssumption DEF Word
  <2>4. Wrap(2 * Half - n) = 2 * Half - n
    BY <2>3, WrapSmall
  <2>5. QED
    BY <2>2, <2>3, <2>4, WordAssumption DEF vtime_before
<1>4. QED
  BY <1>1, <1>2, <1>3

\* Neither the clamp of k8s_enqueue nor the charge of k8s_stopping moves the
\* virtual time of a task on the scheduler backwards, wrapping or not.
THEOREM VtimeNeverRewound == Spec => NeverRewound
<1> DEFINE Forward == \A t \in Tasks : loc[t] # "out" /\ vtime'[t] # vtime[t]
                        => vtime_before(vtime[t], vtime'[t])
<1>1. TypeOK /\ [Next]_vars => [Forward]_vars
  <2> SUFFICES ASSUME TypeOK, Next, NEW u \in Tasks, loc[u] # "out", vtime'[u] # vtime[u]
               PROVE  vtime_before(vtime[u], vtime'[u])
    OBVIOUS
  <2>1. ASSUME NEW t \in Tasks, k8s_enqueue(t) PROVE vtime_before(vtime[u], vtime'[u])
    <3>1. vtime' = [vtime EXCEPT ![t] = clamped_vtime(t)]
      BY <2>1, Zenon DEF k8s_enqueue
    <3>2. t = u /\ vtime'[u] = clamped_vtime(u)
      BY <3>1 DEF TypeOK
    <3>3. QED
      BY <3>2 DEF clamped_vtime
  <2>2. ASSUME NEW c \in Cpus, NEW t \in Tasks, Expire(c, t) \/ Preempt(c, t) \/ Block(c, t)
        PROVE  vtime_before(vtime[u], vtime'[u])
    <3> DEFINE n == Charge(consumed(u), lookup_task_params(u).weight)
    <3>1. vtime' = [vtime EXCEPT ![t] = charged_vtime(t)]
      BY <2>2, Zenon DEF Expire, Preempt, Block, k8s_stopping
    <3>2. t = u /\ vtime'[u] = charged_vtime(u)
      BY <3>1 DEF TypeOK
    <3>3. n \in 0 .. Half - 1 /\ vtime[u] \in Word
      BY StoppingCharge, SliceFits, WordAssumption DEF TypeOK
    <3>4. vtime'[u] = Wrap(vtime[u] + n)
      BY <3>2 DEF charged_vtime
    <3> HIDE DEF n
    <3>5. QED
      BY <3>3, <3>4, ChargeMovesOn
  <2>3. ASSUME NEW t \in Tasks, k8s_enable(t) PROVE FALSE
    BY <2>3 DEF TypeOK, k8s_enable
  <2>4. ASSUME NEW c \in Cpus, NEW t \in Tasks, NEW n \in Nat,
               \/ k8s_select_cpu(t, c) \/ k8s_dispatch(c, t) \/ k8s_running_load(c)
               \/ k8s_running_store(c) \/ Consume(c, n) \/ KeepRunning(c) \/ GoIdle(c)
        PROVE  FALSE
    BY <2>4 DEF k8s_select_cpu, k8s_dispatch, k8s_running_load, k8s_running_store,
                Consume, KeepRunning, GoIdle
  <2>5. ASSUME NEW t \in Tasks, Wake(t) PROVE FALSE
    BY <2>5 DEF Wake
  <2>6. ASSUME NEW tp \in ParamSet \cup {None},
               \/ \E k \in Tgids : SetTaskParams(k, tp)
               \/ \E k \in Cgids : SetCgroupParams(k, tp)
        PROVE  FALSE
    BY <2>6 DEF SetTaskParams, SetCgroupParams
  <2>7. ASSUME NEW c \in Cpus, CpuStep(c) PROVE vtime_before(vtime[u], vtime'[u])
    <3>1. \A n \in 1 .. SLICE_DFL + DEFAULT_SLICE : n \in Nat
      BY SliceAssumption
    <3>2. 1 \in Nat
      OBVIOUS
    <3>3. QED
      BY <2>2, <2>4, <2>7, <3>1, <3>2, Zenon DEF CpuStep
  <2>8. QED
    BY <2>1, <2>2, <2>3, <2>4, <2>5, <2>6, <2>7, 1 \in Nat, Zenon DEF Next
<1>2. QED
  BY <1>1, TypeCorrect, PTL DEF Spec, NeverRewound

\* Only a task's stopping takes it off its CPU.
LEMMA OnlyStoppingStops ==
  ASSUME TypeOK, Placement, Next, NEW d \in Cpus, Stops(d)
  PROVE  curr[d] \in Tasks /\ k8s_stopping(d, curr[d])
<1>1. curr[d] \in Tasks /\ curr'[d] # curr[d]
  BY DEF TypeOK, Stops
<1>2. ASSUME NEW t \in Tasks, k8s_enqueue(t) \/ k8s_enable(t) \/ Wake(t) PROVE FALSE
  BY <1>1, <1>2 DEF k8s_enqueue, k8s_enable, Wake, cpuVars
<1>3. ASSUME NEW c \in Cpus, NEW t \in Tasks, Expire(c, t) \/ Preempt(c, t) \/ Block(c, t)
      PROVE  c = d /\ k8s_stopping(c, t) /\ t = curr[c]
  BY <1>1, <1>3 DEF TypeOK, Expire, Preempt, Block, k8s_stopping
<1>4. ASSUME NEW c \in Cpus, k8s_running_load(c) PROVE FALSE
  BY <1>1, <1>4 DEF TypeOK, Stops, Placement, k8s_running_load
<1>5. ASSUME NEW c \in Cpus, NEW t \in Tasks, NEW n \in Nat,
             \/ k8s_select_cpu(t, c) \/ k8s_dispatch(c, t) \/ k8s_running_store(c)
             \/ Consume(c, n) \/ KeepRunning(c) \/ GoIdle(c)
      PROVE  FALSE
  BY <1>1, <1>5 DEF k8s_select_cpu, k8s_dispatch, k8s_running_store, Consume, KeepRunning,
                    GoIdle, cpuVars
<1>6. ASSUME NEW tp \in ParamSet \cup {None},
             \/ \E k \in Tgids : SetTaskParams(k, tp)
             \/ \E k \in Cgids : SetCgroupParams(k, tp)
      PROVE  FALSE
  BY <1>1, <1>6 DEF SetTaskParams, SetCgroupParams, cpuVars
<1>7. PICK c \in Cpus, t \in Tasks : Expire(c, t) \/ Preempt(c, t) \/ Block(c, t)
  <2>1. \A n \in 1 .. SLICE_DFL + DEFAULT_SLICE : n \in Nat
    BY SliceAssumption
  <2>2. 1 \in Nat /\ curr[d] \in Tasks
    BY <1>1
  <2>3. ASSUME NEW c \in Cpus, CpuStep(c) PROVE \E t \in Tasks : Expire(c, t)
    BY <1>4, <1>5, <2>1, <2>2, <2>3, Zenon DEF CpuStep
  <2>4. QED
    BY <1>2, <1>5, <1>6, <2>2, <2>3, Zenon DEF Next
<1>8. QED
  BY <1>1, <1>3, <1>7, Zenon

\* When the slice k8s_stopping recomputes from the maps is the one the task was
\* given, it charges exactly the ticks the task has just run, wrapping or not.
THEOREM ChargeMatchesUse == Spec => ChargedByUse
<1>1. TypeOK /\ Placement /\ [Next]_vars =>
        [\A c \in Cpus : Stops(c) =>
           LET t == curr[c] IN
           ran[t] + slice[t] = TaskSlice(t) => vtime'[t] = ChargeFor(t, ran[t])]_vars
  <2> SUFFICES ASSUME TypeOK, Placement, Next, NEW c \in Cpus, Stops(c),
                      ran[curr[c]] + slice[curr[c]] = TaskSlice(curr[c])
               PROVE  vtime'[curr[c]] = ChargeFor(curr[c], ran[curr[c]])
    OBVIOUS
  <2> DEFINE t == curr[c]
  <2>1. t \in Tasks /\ k8s_stopping(c, t)
    BY OnlyStoppingStops
  <2>2. TaskSlice(t) \in 1 .. DEFAULT_SLICE /\ ran[t] \in Nat /\ slice[t] \in Nat
    BY <2>1, TaskSliceBounds DEF TypeOK
  <2>3. TaskSlice(t) - slice[t] = ran[t] /\ ran[t] \in Word /\ ran[t] <= TaskSlice(t)
    BY <2>2, SliceFits, SliceAssumption, WordAssumption DEF Word
  <2>4. consumed(t) = ran[t]
    BY <2>2, <2>3, WrapSmall, SliceAssumption DEF consumed
  <2>5. vtime'[t] = charged_vtime(t)
    BY <2>1 DEF TypeOK, k8s_stopping
  <2>6. QED
    BY <2>4, <2>5 DEF charged_vtime, ChargeFor
<1>2. QED
  BY <1>1, Placed, PTL DEF Spec, ChargedByUse
=============================================================================
