------------------------------ MODULE ParamMaps ------------------------------
(***************************************************************************)
(* internal/maps: how the agent fills and empties the two BPF parameter    *)
(* maps.  The informer's goroutine runs UpdatePodParams and                *)
(* RemovePodParams one after another; the cleanup goroutine runs           *)
(* cleanStalePIDs and CleanStaleCgroupIDs beside it; the host (external)   *)
(* creates and removes cgroups and processes under both.                   *)
(*                                                                         *)
(* An entry's value is <<pod, v>>: the pod the agent wrote it for and the  *)
(* parameters.  Cgroup IDs are never reused, PIDs are.                     *)
(***************************************************************************)
EXTENDS Integers, FiniteSets

CONSTANTS
  Pods, Cgids, Pids,
  CgOwner,             \* the pod whose cgroup subtree a cgroup is in
  Vals,                \* parameters policy resolution may yield
  CgMax, PidMax,       \* max_entries of cgroup_params and task_params
  MaxCrashes,          \* bound: crashes of the agent
  MaxHides,            \* bound: times the cgroup tree becomes unreadable
  None

ASSUME OwnerAssumption == CgOwner \in [Cgids -> Pods]
ASSUME BoundAssumption == /\ CgMax \in Nat /\ PidMax \in Nat
                          /\ MaxCrashes \in Nat /\ MaxHides \in Nat
ASSUME NoneAssumption == /\ \A pv \in Pods \X Vals : pv # None
                         /\ None \notin Pods
                         /\ \A ks \in SUBSET Cgids : ks # None
                         /\ \A ks \in SUBSET Pids : ks # None
                         /\ None \notin Cgids

VARIABLES
  cgroup,                     \* host: unborn, live or dead cgroups
  proc,                       \* host: the cgroup of each process, or None
  visible, hides,             \* host: the kubepods tree can be read
  cgroup_params, task_params, \* the BPF maps
  podCgroupIDs, podPIDs,      \* the bookkeeping: keys written, or None
  procCache,                  \* cached /proc listing, or None
  h,                          \* the informer's goroutine
  s,                          \* the cleanup goroutine
  crashes,
  last, inherited, current,   \* history: last finished operation on each pod;
  young                       \* entries a crashed agent left behind; what the
                              \* last operation wrote into the pod's cgroups;
                              \* cgroups and processes created since the
                              \* sweep looked at them

host == <<cgroup, proc, visible, hides>>
books == <<podCgroupIDs, podPIDs>>
history == <<last, inherited, current, young>>
vars == <<host, cgroup_params, task_params, books, procCache, h, s, crashes, history>>

NoJob == [pc |-> "idle", pod |-> None, val |-> None, cgs |-> {}, pids |-> {},
          done |-> {}, saw |-> FALSE]
NoSweep == [pc |-> "idle", live |-> {}, stale |-> {}, pids |-> {}]
-----------------------------------------------------------------------------
(* Resolving a pod on the host. *)

Live == {g \in Cgids : cgroup[g] = "live"}

PodProcs(p) == {i \in Pids : proc[i] # None /\ CgOwner[proc[i]] = p}

\* Mutant: the walk starts at the root of the tree.
resolvePodCgroupIDs_all(p) == IF visible THEN Live ELSE {}

resolvePodCgroupIDs(p) == IF visible THEN {g \in Live : CgOwner[g] = p} ELSE {}

\* resolveViaCgroupV2 finds PIDs: /proc is not scanned.
ViaCgroup(p) == visible /\ PodProcs(p) # {}

\* Through the pod's cgroup.procs files, or else by looking up the processes of
\* a /proc listing.
resolvePodPIDs(p, listing) ==
  IF ViaCgroup(p) THEN PodProcs(p) ELSE PodProcs(p) \cap listing

\* A listing: the cached one while it is fresh, or a new one.
getProcDirCache == {{i \in Pids : proc[i] # None}} \cup ({procCache} \ {None})

Keys(map) == {k \in DOMAIN map : map[k] # None}

\* Put into a BPF hash map: a new key fails when the map is full (external).
PutFails(map, k, max) == map[k] = None /\ Cardinality(Keys(map)) >= max

Recorded(keys) == IF keys = None THEN {} ELSE keys
-----------------------------------------------------------------------------
Init ==
  /\ cgroup = [g \in Cgids |-> "unborn"]
  /\ proc = [i \in Pids |-> None]
  /\ visible = TRUE /\ hides = 0
  /\ cgroup_params = [g \in Cgids |-> None]
  /\ task_params = [i \in Pids |-> None]
  /\ podCgroupIDs = [p \in Pods |-> None]
  /\ podPIDs = [p \in Pods |-> None]
  /\ procCache = None
  /\ h = NoJob /\ s = NoSweep
  /\ crashes = 0
  /\ last = [p \in Pods |-> "none"]
  /\ inherited = {}
  /\ current = [p \in Pods |-> None]
  /\ young = {}
-----------------------------------------------------------------------------
(* UpdatePodParams. *)

\* The pod is resolved: the cgroup IDs of its subtree, or PIDs when it has none.
UpdatePodParams(p, v) ==
  /\ h.pc = "idle"
  /\ \/ /\ resolvePodCgroupIDs(p) # {}
        /\ h' = [NoJob EXCEPT !.pc = "put", !.pod = p, !.val = <<p, v>>,
                              !.cgs = resolvePodCgroupIDs(p)]
        /\ UNCHANGED procCache
     \/ /\ resolvePodCgroupIDs(p) = {}
        /\ \E listing \in getProcDirCache :
             /\ procCache' = IF ViaCgroup(p) THEN procCache ELSE listing
             /\ h' = [NoJob EXCEPT !.pc = "putPids", !.pod = p, !.val = <<p, v>>,
                                   !.pids = resolvePodPIDs(p, listing)]
  /\ UNCHANGED <<host, cgroup_params, task_params, books, s, crashes, history>>

\* Mutant: a key is recorded only when it is new to the map.
writeCgroupParams_new(g) ==
  /\ h.pc = "put" /\ g \in h.cgs
  /\ ~ PutFails(cgroup_params, g, CgMax)
  /\ cgroup_params' = [cgroup_params EXCEPT ![g] = h.val]
  /\ h' = [h EXCEPT !.cgs = @ \ {g},
                    !.done = IF cgroup_params[g] = None THEN @ \cup {g} ELSE @]
  /\ inherited' = inherited \ {g}
  /\ UNCHANGED <<host, task_params, books, procCache, s, crashes, last, current, young>>

\* Mutant: the entry is put with the flag that leaves an existing one alone.
writeCgroupParams_noexist(g) ==
  /\ h.pc = "put" /\ g \in h.cgs
  /\ ~ PutFails(cgroup_params, g, CgMax)
  /\ cgroup_params' = [cgroup_params EXCEPT ![g] = IF @ = None THEN h.val ELSE @]
  /\ h' = [h EXCEPT !.cgs = @ \ {g}, !.done = @ \cup {g}]
  /\ inherited' = inherited \ {g}
  /\ UNCHANGED <<host, task_params, books, procCache, s, crashes, last, current, young>>

\* One entry of the pod's subtree is written; a failed Put is skipped.
writeCgroupParams(g) ==
  /\ h.pc = "put" /\ g \in h.cgs
  /\ IF PutFails(cgroup_params, g, CgMax)
       THEN /\ h' = [h EXCEPT !.cgs = @ \ {g}]
            /\ UNCHANGED <<cgroup_params, inherited>>
       ELSE /\ cgroup_params' = [cgroup_params EXCEPT ![g] = h.val]
            /\ h' = [h EXCEPT !.cgs = @ \ {g}, !.done = @ \cup {g}]
            /\ inherited' = inherited \ {g}
  /\ UNCHANGED <<host, task_params, books, procCache, s, crashes, last, current, young>>

\* The keys written replace the pod's record.
RecordCgroupIDs ==
  /\ h.pc = "put" /\ h.cgs = {}
  /\ podCgroupIDs' = [podCgroupIDs EXCEPT ![h.pod] = h.done]
  /\ last' = [last EXCEPT ![h.pod] = "updated"]
  /\ current' = [current EXCEPT ![h.pod] = h.val]
  /\ h' = NoJob
  /\ UNCHANGED <<host, cgroup_params, task_params, podPIDs, procCache, s, crashes,
                 inherited, young>>

\* The fallback: one entry per process.
WritePid(i) ==
  /\ h.pc = "putPids" /\ i \in h.pids
  /\ IF PutFails(task_params, i, PidMax)
       THEN /\ h' = [h EXCEPT !.pids = @ \ {i}]
            /\ UNCHANGED task_params
       ELSE /\ task_params' = [task_params EXCEPT ![i] = h.val]
            /\ h' = [h EXCEPT !.pids = @ \ {i}, !.done = @ \cup {i}]
  /\ UNCHANGED <<host, cgroup_params, books, procCache, s, crashes, history>>

RecordPIDs ==
  /\ h.pc = "putPids" /\ h.pids = {}
  /\ podPIDs' = [podPIDs EXCEPT ![h.pod] = h.done]
  /\ last' = [last EXCEPT ![h.pod] = "updated"]
  /\ current' = [current EXCEPT ![h.pod] = None]
  /\ h' = NoJob
  /\ UNCHANGED <<host, cgroup_params, task_params, podCgroupIDs, procCache, s, crashes,
                 inherited, young>>
-----------------------------------------------------------------------------
(* RemovePodParams. *)

\* Mutant: only the recorded cgroup IDs are deleted.
RemovePodParams_recorded(p) ==
  /\ h.pc = "idle"
  /\ h' = [NoJob EXCEPT !.pc = "delete", !.pod = p, !.saw = visible,
                        !.cgs = Recorded(podCgroupIDs[p]), !.pids = Recorded(podPIDs[p])]
  /\ podCgroupIDs' = [podCgroupIDs EXCEPT ![p] = None]
  /\ podPIDs' = [podPIDs EXCEPT ![p] = None]
  /\ UNCHANGED <<host, cgroup_params, task_params, procCache, s, crashes, history>>

\* The records are taken out and the pod's cgroups resolved once more.
RemovePodParams(p) ==
  /\ h.pc = "idle"
  /\ h' = [NoJob EXCEPT !.pc = "delete", !.pod = p, !.saw = visible,
                        !.cgs = Recorded(podCgroupIDs[p]) \cup resolvePodCgroupIDs(p),
                        !.pids = Recorded(podPIDs[p])]
  /\ podCgroupIDs' = [podCgroupIDs EXCEPT ![p] = None]
  /\ podPIDs' = [podPIDs EXCEPT ![p] = None]
  /\ UNCHANGED <<host, cgroup_params, task_params, procCache, s, crashes, history>>

\* Mutant: the entry's parameters are cleared, the entry stays.
DeleteCgroupEntry_clear(g) ==
  /\ h.pc = "delete" /\ g \in h.cgs
  /\ cgroup_params' = [cgroup_params EXCEPT ![g] = <<h.pod, None>>]
  /\ inherited' = inherited \ {g}
  /\ h' = [h EXCEPT !.cgs = @ \ {g}]
  /\ UNCHANGED <<host, task_params, books, procCache, s, crashes, last, current, young>>

DeleteCgroupEntry(g) ==
  /\ h.pc = "delete" /\ g \in h.cgs
  /\ cgroup_params' = [cgroup_params EXCEPT ![g] = None]
  /\ inherited' = inherited \ {g}
  /\ h' = [h EXCEPT !.cgs = @ \ {g}]
  /\ UNCHANGED <<host, task_params, books, procCache, s, crashes, last, current, young>>

ResolvePidsToDelete ==
  /\ h.pc = "delete" /\ h.cgs = {}
  /\ \E listing \in getProcDirCache :
       /\ procCache' = IF ViaCgroup(h.pod) THEN procCache ELSE listing
       /\ h' = [h EXCEPT !.pc = "deletePids", !.pids = @ \cup resolvePodPIDs(h.pod, listing)]
  /\ UNCHANGED <<host, cgroup_params, task_params, books, s, crashes, history>>

DeletePidEntry(i) ==
  /\ h.pc = "deletePids" /\ i \in h.pids
  /\ task_params' = [task_params EXCEPT ![i] = None]
  /\ h' = [h EXCEPT !.pids = @ \ {i}]
  /\ UNCHANGED <<host, cgroup_params, books, procCache, s, crashes, history>>

Removed ==
  /\ h.pc = "deletePids" /\ h.pids = {}
  /\ last' = [last EXCEPT ![h.pod] = IF h.saw THEN "removed" ELSE "removedBlind"]
  /\ current' = [current EXCEPT ![h.pod] = None]
  /\ h' = NoJob
  /\ UNCHANGED <<host, cgroup_params, task_params, books, procCache, s, crashes, inherited, young>>
-----------------------------------------------------------------------------
(* periodicPIDCleanup. *)

\* cleanStalePIDs: entries whose process is gone are collected ...
cleanStalePIDs ==
  /\ s.pc = "idle"
  /\ s' = [NoSweep EXCEPT !.pc = "pids",
                          !.pids = {i \in Keys(task_params) : proc[i] = None}]
  /\ UNCHANGED <<host, cgroup_params, task_params, books, procCache, h, crashes, history>>

\* ... and then deleted.
DeleteStalePid(i) ==
  /\ s.pc = "pids" /\ i \in s.pids
  /\ task_params' = [task_params EXCEPT ![i] = None]
  /\ s' = [s EXCEPT !.pids = @ \ {i}]
  /\ UNCHANGED <<host, cgroup_params, books, procCache, h, crashes, history>>

\* CleanStaleCgroupIDs: the live cgroups are listed.  The list is empty only
\* when the tree cannot be read: its root is a cgroup too.
CleanStaleCgroupIDs ==
  /\ s.pc = "pids" /\ s.pids = {}
  /\ s' = IF visible THEN [NoSweep EXCEPT !.pc = "iterate", !.live = Live] ELSE NoSweep
  /\ young' = {}
  /\ UNCHANGED <<host, cgroup_params, task_params, books, procCache, h, crashes, last,
                 inherited, current>>

\* Mutant: the collected entries are the ones that are live.
IterateCgroupParams_inverted ==
  /\ s.pc = "iterate"
  /\ s' = [s EXCEPT !.pc = "delete", !.stale = Keys(cgroup_params) \cap s.live]
  /\ UNCHANGED <<host, cgroup_params, task_params, books, procCache, h, crashes, history>>

IterateCgroupParams ==
  /\ s.pc = "iterate"
  /\ s' = [s EXCEPT !.pc = "delete", !.stale = Keys(cgroup_params) \ s.live]
  /\ UNCHANGED <<host, cgroup_params, task_params, books, procCache, h, crashes, history>>

DeleteStaleCgroup(g) ==
  /\ s.pc = "delete" /\ g \in s.stale
  /\ cgroup_params' = [cgroup_params EXCEPT ![g] = None]
  /\ inherited' = inherited \ {g}
  /\ s' = [s EXCEPT !.stale = @ \ {g}]
  /\ UNCHANGED <<host, task_params, books, procCache, h, crashes, last, current, young>>

Swept ==
  /\ s.pc = "delete" /\ s.stale = {}
  /\ s' = NoSweep /\ young' = {}
  /\ UNCHANGED <<host, cgroup_params, task_params, books, procCache, h, crashes, last,
                 inherited, current>>

\* The agent is killed: the pinned maps outlive it, its bookkeeping does not.
Crash ==
  /\ crashes < MaxCrashes
  /\ crashes' = crashes + 1
  /\ h' = NoJob /\ s' = NoSweep /\ procCache' = None
  /\ podCgroupIDs' = [p \in Pods |-> None]
  /\ podPIDs' = [p \in Pods |-> None]
  /\ last' = [p \in Pods |-> "none"]
  /\ inherited' = Keys(cgroup_params)
  /\ current' = [p \in Pods |-> None]
  /\ young' = {}
  /\ UNCHANGED <<host, cgroup_params, task_params>>
-----------------------------------------------------------------------------
(* The host (external). *)

agent == <<cgroup_params, task_params, books, procCache, h, s, crashes, last, inherited,
           current>>

CreateCgroup(g) ==
  /\ cgroup[g] = "unborn"
  /\ cgroup' = [cgroup EXCEPT ![g] = "live"]
  /\ young' = IF s.pc \in {"iterate", "delete"} THEN young \cup {g} ELSE young
  /\ UNCHANGED <<proc, visible, hides, agent>>

RemoveCgroup(g) ==
  /\ cgroup[g] = "live" /\ \A i \in Pids : proc[i] # g
  /\ cgroup' = [cgroup EXCEPT ![g] = "dead"]
  /\ UNCHANGED <<proc, visible, hides, agent, young>>

StartProcess(i, g) ==
  /\ proc[i] = None /\ cgroup[g] = "live"
  /\ proc' = [proc EXCEPT ![i] = g]
  /\ young' = IF s.pc = "pids" THEN young \cup {i} ELSE young
  /\ UNCHANGED <<cgroup, visible, hides, agent>>

ExitProcess(i) ==
  /\ proc[i] # None
  /\ proc' = [proc EXCEPT ![i] = None]
  /\ UNCHANGED <<cgroup, visible, hides, agent, young>>

HideTree ==
  /\ visible /\ hides < MaxHides
  /\ visible' = FALSE /\ hides' = hides + 1
  /\ UNCHANGED <<cgroup, proc, agent, young>>

ShowTree ==
  /\ ~ visible
  /\ visible' = TRUE
  /\ UNCHANGED <<cgroup, proc, hides, agent, young>>
-----------------------------------------------------------------------------
Handler ==
  \/ \E p \in Pods : RemovePodParams(p) \/ \E v \in Vals : UpdatePodParams(p, v)
  \/ \E g \in Cgids : writeCgroupParams(g) \/ DeleteCgroupEntry(g)
  \/ \E i \in Pids : WritePid(i) \/ DeletePidEntry(i)
  \/ RecordCgroupIDs \/ RecordPIDs \/ ResolvePidsToDelete \/ Removed

Sweeper ==
  \/ cleanStalePIDs \/ CleanStaleCgroupIDs \/ IterateCgroupParams \/ Swept
  \/ \E i \in Pids : DeleteStalePid(i)
  \/ \E g \in Cgids : DeleteStaleCgroup(g)

Host ==
  \/ \E g \in Cgids : CreateCgroup(g) \/ RemoveCgroup(g)
  \/ \E i \in Pids : ExitProcess(i) \/ \E g \in Cgids : StartProcess(i, g)
  \/ HideTree \/ ShowTree

Next == Handler \/ Sweeper \/ Crash \/ Host

Spec == Init /\ [][Next]_vars

\* The ticker of periodicPIDCleanup keeps firing, and an unreadable tree is the
\* transient condition CleanStaleCgroupIDs takes it for.
FairSpec == Spec /\ WF_vars(Sweeper) /\ WF_vars(ShowTree)
-----------------------------------------------------------------------------
(* Properties. *)

\* Every variable has its type.
TypeOK ==
  /\ cgroup \in [Cgids -> {"unborn", "live", "dead"}]
  /\ proc \in [Pids -> Cgids \cup {None}]
  /\ visible \in BOOLEAN /\ hides \in 0 .. MaxHides
  /\ cgroup_params \in [Cgids -> {None} \cup (Pods \X Vals)]
  /\ task_params \in [Pids -> {None} \cup (Pods \X Vals)]
  /\ podCgroupIDs \in [Pods -> {None} \cup SUBSET Cgids]
  /\ podPIDs \in [Pods -> {None} \cup SUBSET Pids]
  /\ procCache \in {None} \cup SUBSET Pids
  /\ h \in [pc : {"idle", "put", "putPids", "delete", "deletePids"},
            pod : Pods \cup {None}, val : {None} \cup (Pods \X Vals),
            cgs : SUBSET Cgids, pids : SUBSET Pids,
            done : SUBSET (Cgids \cup Pids), saw : BOOLEAN]
  /\ s \in [pc : {"idle", "pids", "iterate", "delete"}, live : SUBSET Cgids,
            stale : SUBSET Cgids, pids : SUBSET Pids]
  /\ crashes \in 0 .. MaxCrashes
  /\ last \in [Pods -> {"none", "updated", "removed", "removedBlind"}]
  /\ inherited \subseteq Cgids
  /\ current \in [Pods -> {None} \cup (Pods \X Vals)]
  /\ young \subseteq Cgids \cup Pids

\* A cgroup_params entry always holds parameters UpdatePodParams resolved for
\* the pod the cgroup belongs to, whatever cgroups come and go while it writes.
CgroupEntriesAreOwn ==
  \A g \in Keys(cgroup_params) : cgroup_params[g][1] = CgOwner[g]

\* No live cgroup's entry is lost from the bookkeeping: it is recorded for its
\* pod, or the operation under way will write, delete or record it, or an agent
\* that crashed left it.  So the record that UpdatePodParams replaces and the
\* one RemovePodParams takes out never forget a live entry.
LiveEntriesTracked ==
  \A g \in (Keys(cgroup_params) \cap Live) \ inherited :
    \/ g \in Recorded(podCgroupIDs[CgOwner[g]])
    \/ /\ h.pc \in {"put", "delete"} /\ h.pod = CgOwner[g]
       /\ g \in h.cgs \cup h.done

\* After a RemovePodParams that could read the tree, no live cgroup of the pod
\* keeps an entry, even one written by an agent that crashed.
RemovedClean ==
  \A p \in Pods : last[p] = "removed" /\ h.pod # p =>
    \A g \in Live : CgOwner[g] = p => cgroup_params[g] = None

\* Once an UpdatePodParams has gone through the pod's cgroups, every entry of a
\* live cgroup of the pod holds the parameters of that update, the entries of
\* earlier updates and of a crashed agent included, until the next operation on
\* the pod: no cgroup is left scheduled by parameters that were replaced.
EntriesCurrent ==
  \A p \in Pods : current[p] # None /\ h.pod # p =>
    \A g \in Live \cap Keys(cgroup_params) :
      CgOwner[g] = p => cgroup_params[g] = current[p]

\* The inductive form of the four above.  What an operation has resolved stays
\* complete while it runs: a cgroup created later has no entry yet.
JobCovers ==
  /\ \A g \in Cgids : cgroup[g] = "unborn" => cgroup_params[g] = None
  /\ h.pc = "idle" => h = NoJob
  /\ h.pc # "idle" => h.pod \in Pods
  /\ h.pc = "put" =>
       /\ h.val # None /\ h.val[1] = h.pod /\ h.done \subseteq Cgids
       /\ \A g \in h.cgs : CgOwner[g] = h.pod /\ cgroup[g] # "unborn"
       /\ \A g \in Live \cap Keys(cgroup_params) : CgOwner[g] = h.pod => g \in h.cgs \cup h.done
       /\ \A g \in h.done : cgroup_params[g] \in {None, h.val}
  /\ h.pc = "putPids" => h.val # None /\ h.done \subseteq Pids
  /\ h.pc = "delete" => h.done = {}
  /\ h.pc \in {"delete", "deletePids"} /\ h.saw =>
       \A g \in Live \cap Keys(cgroup_params) : CgOwner[g] = h.pod => g \in h.cgs
  /\ h.pc = "deletePids" => h.cgs = {}

\* periodicPIDCleanup eventually drops the entry of every cgroup that is gone,
\* also when the delete event was missed or the agent crashed.
DeadEntriesSwept ==
  \A g \in Cgids :
    cgroup[g] = "dead" /\ cgroup_params[g] # None ~> cgroup_params[g] = None

\* CleanStaleCgroupIDs' comment, "removes cgroup_params entries whose cgroup no
\* longer exists on the host": a sweep deletes no entry of a live cgroup.
SweepRemovesOnlyStale ==
  [][\A g \in Cgids : s' # s /\ cgroup_params[g] # None /\ cgroup_params'[g] = None
       => cgroup[g] # "live"]_vars

\* The cgroups created since the sweep listed the live ones are the only live
\* ones whose entry CleanStaleCgroupIDs can delete, and the processes started
\* since cleanStalePIDs looked for them the only running ones, whatever the
\* handler writes and deletes between the listing, the iteration and the deletions.
SweepSparesListed ==
  [][s' # s =>
       /\ \A g \in Cgids : cgroup_params[g] # None /\ cgroup_params'[g] = None
            => cgroup[g] # "live" \/ g \in young
       /\ \A i \in Pids : task_params[i] # None /\ task_params'[i] = None
            => proc[i] = None \/ i \in young]_vars

\* k8s_sched.bpf.c and README.md, "recycled PIDs can never pick up another
\* pod's parameters": a live process has no task_params entry of another pod,
\* which lookup_task_params would prefer to its cgroup's entry.
NoRecycledParams ==
  \A i \in Keys(task_params) : proc[i] # None => task_params[i][1] = CgOwner[proc[i]]
=============================================================================
