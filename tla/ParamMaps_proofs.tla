-------------------------- MODULE ParamMaps_proofs --------------------------
(***************************************************************************)
(* Proofs about ParamMaps, for any number of pods, cgroups, processes,     *)
(* crashes and losses of the cgroup tree.                                  *)
(***************************************************************************)
EXTENDS ParamMaps, TLAPS

(***************************************************************************)
(* Type correctness.                                                       *)
(***************************************************************************)

\* What the job variable must be for the types to be kept: an operation under
\* way has a pod, and records keys of the map it writes.
JobTyped ==
  /\ h.pc # "idle" => h.pod \in Pods
  /\ h.pc = "put" => h.val # None /\ h.done \subseteq Cgids
  /\ h.pc = "putPids" => h.val # None /\ h.done \subseteq Pids

\* Resolving yields keys of the map they are written to.
LEMMA ResolveType ==
  ASSUME TypeOK, NEW p, NEW listing
  PROVE  /\ resolvePodCgroupIDs(p) \in SUBSET Cgids
         /\ resolvePodPIDs(p, listing) \in SUBSET Pids
  BY DEF resolvePodCgroupIDs, resolvePodPIDs, PodProcs, Live

\* A listing is a set of PIDs.
LEMMA ListingType ==
  ASSUME TypeOK, NEW listing \in getProcDirCache
  PROVE  listing \in SUBSET Pids
  BY DEF TypeOK, getProcDirCache

\* The steps of UpdatePodParams and RemovePodParams keep the types.
LEMMA HandlerTypeOK ==
  ASSUME TypeOK, JobTyped, Handler
  PROVE  TypeOK' /\ JobTyped'
<1> USE NoneAssumption, OwnerAssumption
<1>1. ASSUME NEW p \in Pods, RemovePodParams(p) PROVE TypeOK' /\ JobTyped'
  <2>1. Recorded(podCgroupIDs[p]) \in SUBSET Cgids /\ Recorded(podPIDs[p]) \in SUBSET Pids
    BY DEF TypeOK, Recorded
  <2>2. resolvePodCgroupIDs(p) \in SUBSET Cgids
    BY ResolveType
  <2>3. QED
    BY <1>1, <2>1, <2>2 DEF TypeOK, JobTyped, RemovePodParams, NoJob, history, host
<1>2. ASSUME NEW p \in Pods, NEW v \in Vals, UpdatePodParams(p, v) PROVE TypeOK' /\ JobTyped'
  <2>1. <<p, v>> # None /\ <<p, v>> \in Pods \X Vals
    OBVIOUS
  <2>2. CASE resolvePodCgroupIDs(p) # {}
    <3>1. resolvePodCgroupIDs(p) \in SUBSET Cgids
      BY ResolveType
    <3>2. h' = [pc |-> "put", pod |-> p, val |-> <<p, v>>, cgs |-> resolvePodCgroupIDs(p),
                pids |-> {}, done |-> {}, saw |-> FALSE]
      BY <1>2, <2>2 DEF UpdatePodParams, NoJob
    <3>3. UNCHANGED <<host, cgroup_params, task_params, books, s, crashes, history, procCache>>
      BY <1>2, <2>2 DEF UpdatePodParams
    <3>4. QED
      BY <2>1, <3>1, <3>2, <3>3 DEF TypeOK, JobTyped, history, host, books
  <2>3. CASE resolvePodCgroupIDs(p) = {}
    <3>1. PICK listing \in getProcDirCache :
            /\ procCache' \in {procCache, listing}
            /\ h' = [NoJob EXCEPT !.pc = "putPids", !.pod = p, !.val = <<p, v>>,
                                  !.pids = resolvePodPIDs(p, listing)]
      BY <1>2, <2>3 DEF UpdatePodParams
    <3>2. listing \in SUBSET Pids /\ resolvePodPIDs(p, listing) \in SUBSET Pids
      BY ListingType, ResolveType
    <3>3. QED
      BY <1>2, <2>1, <3>1, <3>2 DEF TypeOK, JobTyped, UpdatePodParams, NoJob, history, host, books
  <2>4. QED
    BY <2>2, <2>3
<1>3. ASSUME NEW g \in Cgids, writeCgroupParams(g) PROVE TypeOK' /\ JobTyped'
  <2>1. h.val \in Pods \X Vals /\ h.done \subseteq Cgids /\ h.pod \in Pods
    BY <1>3 DEF TypeOK, JobTyped, writeCgroupParams
  <2>2. h.pc = "put" /\ UNCHANGED <<host, task_params, books, procCache, s, crashes, last, current, young>>
    BY <1>3 DEF writeCgroupParams
  <2>3. CASE PutFails(cgroup_params, g, CgMax)
    <3>1. h' = [h EXCEPT !.cgs = h.cgs \ {g}] /\ UNCHANGED <<cgroup_params, inherited>>
      BY <1>3, <2>3 DEF writeCgroupParams
    <3>2. JobTyped'
      BY <2>1, <2>2, <3>1 DEF TypeOK, JobTyped
    <3>3. QED
      BY <2>2, <3>1, <3>2 DEF TypeOK, history, host, books
  <2>4. CASE ~ PutFails(cgroup_params, g, CgMax)
    <3>1. /\ cgroup_params' = [cgroup_params EXCEPT ![g] = h.val] /\ inherited' = inherited \ {g}
          /\ h' = [h EXCEPT !.cgs = h.cgs \ {g}, !.done = h.done \cup {g}]
      BY <1>3, <2>4 DEF writeCgroupParams
    <3>2. JobTyped'
      BY <2>1, <2>2, <3>1 DEF TypeOK, JobTyped
    <3>3. h' \in [pc : {"idle", "put", "putPids", "delete", "deletePids"},
                  pod : Pods \cup {None}, val : {None} \cup (Pods \X Vals),
                  cgs : SUBSET Cgids, pids : SUBSET Pids,
                  done : SUBSET (Cgids \cup Pids), saw : BOOLEAN]
      BY <3>1 DEF TypeOK
    <3>4. QED
      BY <2>1, <2>2, <3>1, <3>2, <3>3 DEF TypeOK, history, host, books
  <2>5. QED
    BY <2>3, <2>4
<1>4. ASSUME NEW g \in Cgids, DeleteCgroupEntry(g) PROVE TypeOK' /\ JobTyped'
  BY <1>4 DEF TypeOK, JobTyped, DeleteCgroupEntry, history, host, books
<1>5. ASSUME NEW i \in Pids, WritePid(i) PROVE TypeOK' /\ JobTyped'
  <2>1. h.val \in Pods \X Vals /\ h.done \subseteq Pids /\ h.pod \in Pods
    BY <1>5 DEF TypeOK, JobTyped, WritePid
  <2>2. h.pc = "putPids" /\ UNCHANGED <<host, cgroup_params, books, procCache, s, crashes, history>>
    BY <1>5 DEF WritePid
  <2>3. CASE PutFails(task_params, i, PidMax)
    <3>1. h' = [h EXCEPT !.pids = h.pids \ {i}] /\ UNCHANGED task_params
      BY <1>5, <2>3 DEF WritePid
    <3>2. JobTyped'
      BY <2>1, <2>2, <3>1 DEF TypeOK, JobTyped
    <3>3. QED
      BY <2>2, <3>1, <3>2 DEF TypeOK, history, host, books
  <2>4. CASE ~ PutFails(task_params, i, PidMax)
    <3>1. /\ task_params' = [task_params EXCEPT ![i] = h.val]
          /\ h' = [h EXCEPT !.pids = h.pids \ {i}, !.done = h.done \cup {i}]
      BY <1>5, <2>4 DEF WritePid
    <3>2. JobTyped'
      BY <2>1, <2>2, <3>1 DEF TypeOK, JobTyped
    <3>3. h' \in [pc : {"idle", "put", "putPids", "delete", "deletePids"},
                  pod : Pods \cup {None}, val : {None} \cup (Pods \X Vals),
                  cgs : SUBSET Cgids, pids : SUBSET Pids,
                  done : SUBSET (Cgids \cup Pids), saw : BOOLEAN]
      BY <3>1 DEF TypeOK
    <3>4. QED
      BY <2>1, <2>2, <3>1, <3>2, <3>3 DEF TypeOK, history, host, books
  <2>5. QED
    BY <2>3, <2>4
<1>6. ASSUME NEW i \in Pids, DeletePidEntry(i) PROVE TypeOK' /\ JobTyped'
  BY <1>6 DEF TypeOK, JobTyped, DeletePidEntry, history, host, books
<1>7. CASE RecordCgroupIDs
  BY <1>7 DEF TypeOK, JobTyped, RecordCgroupIDs, NoJob, history, host
<1>8. CASE RecordPIDs
  BY <1>8 DEF TypeOK, JobTyped, RecordPIDs, NoJob, history, host
<1>9. CASE ResolvePidsToDelete
  <2>1. PICK listing \in getProcDirCache :
          /\ procCache' \in {procCache, listing}
          /\ h' = [h EXCEPT !.pc = "deletePids",
                            !.pids = @ \cup resolvePodPIDs(h.pod, listing)]
    BY <1>9 DEF ResolvePidsToDelete
  <2>2. listing \in SUBSET Pids /\ resolvePodPIDs(h.pod, listing) \in SUBSET Pids
    BY ListingType, ResolveType
  <2>3. QED
    BY <1>9, <2>1, <2>2 DEF TypeOK, JobTyped, ResolvePidsToDelete, history, host, books
<1>10. CASE Removed
  BY <1>10 DEF TypeOK, JobTyped, Removed, NoJob, history, host, books
<1>11. QED
  BY <1>1, <1>2, <1>3, <1>4, <1>5, <1>6, <1>7, <1>8, <1>9, <1>10 DEF Handler

\* The sweeps, a crash and the host keep the types.
LEMMA OthersTypeOK ==
  ASSUME TypeOK, JobTyped, Sweeper \/ Crash \/ Host
  PROVE  TypeOK' /\ JobTyped'
<1> USE NoneAssumption, BoundAssumption
<1>1. CASE cleanStalePIDs
  BY <1>1 DEF TypeOK, JobTyped, cleanStalePIDs, NoSweep, Keys, history, host, books
<1>2. ASSUME NEW i \in Pids, DeleteStalePid(i) PROVE TypeOK' /\ JobTyped'
  BY <1>2 DEF TypeOK, JobTyped, DeleteStalePid, history, host, books
<1>3. CASE CleanStaleCgroupIDs
  BY <1>3 DEF TypeOK, JobTyped, CleanStaleCgroupIDs, NoSweep, Live, history, host, books
<1>4. CASE IterateCgroupParams
  BY <1>4 DEF TypeOK, JobTyped, IterateCgroupParams, Keys, history, host, books
<1>5. ASSUME NEW g \in Cgids, DeleteStaleCgroup(g) PROVE TypeOK' /\ JobTyped'
  BY <1>5 DEF TypeOK, JobTyped, DeleteStaleCgroup, history, host, books
<1>6. CASE Swept
  BY <1>6 DEF TypeOK, JobTyped, Swept, NoSweep, history, host, books
<1>7. CASE Crash
  <2>1. Keys(cgroup_params) \subseteq Cgids /\ crashes' \in 0 .. MaxCrashes
    BY <1>7 DEF TypeOK, Crash, Keys
  <2>2. QED
    BY <1>7, <2>1 DEF TypeOK, JobTyped, Crash, NoJob, NoSweep, history, host
<1>8. ASSUME NEW g \in Cgids, CreateCgroup(g) \/ RemoveCgroup(g) PROVE TypeOK' /\ JobTyped'
  BY <1>8 DEF TypeOK, JobTyped, CreateCgroup, RemoveCgroup, agent, books, history
<1>9. ASSUME NEW i \in Pids, ExitProcess(i) \/ \E g \in Cgids : StartProcess(i, g)
      PROVE  TypeOK' /\ JobTyped'
  BY <1>9 DEF TypeOK, JobTyped, ExitProcess, StartProcess, agent, books, history
<1>10. CASE HideTree \/ ShowTree
  <2>1. visible' \in BOOLEAN
    BY <1>10, Zenon DEF HideTree, ShowTree
  <2>2. hides' \in 0 .. MaxHides
    BY <1>10 DEF TypeOK, HideTree, ShowTree
  <2>3. QED
    BY <1>10, <2>1, <2>2 DEF TypeOK, JobTyped, HideTree, ShowTree, agent, books, history
<1>11. QED
  BY <1>1, <1>2, <1>3, <1>4, <1>5, <1>6, <1>7, <1>8, <1>9, <1>10 DEF Sweeper, Host

\* Every variable keeps its type, the operation under way included.
THEOREM TypeCorrect == Spec => [](TypeOK /\ JobTyped)
<1>1. Init => TypeOK /\ JobTyped
  BY BoundAssumption DEF Init, TypeOK, JobTyped, NoJob, NoSweep
<1>2. TypeOK /\ JobTyped /\ [Next]_vars => TypeOK' /\ JobTyped'
  <2> SUFFICES ASSUME TypeOK, JobTyped, [Next]_vars PROVE TypeOK' /\ JobTyped'
    OBVIOUS
  <2>1. CASE UNCHANGED vars
    BY <2>1 DEF TypeOK, JobTyped, vars, history, host, books
  <2>2. QED
    BY <2>1, HandlerTypeOK, OthersTypeOK DEF Next
<1>3. QED
  BY <1>1, <1>2, PTL DEF Spec

(***************************************************************************)
(* The bookkeeping.                                                        *)
(***************************************************************************)

EntryInv == JobCovers /\ LiveEntriesTracked /\ RemovedClean /\ CgroupEntriesAreOwn

\* Resolving a pod's cgroups finds all its live ones, or none.
LEMMA WalkIsComplete ==
  ASSUME TypeOK, NEW p \in Pods
  PROVE  /\ \A g \in resolvePodCgroupIDs(p) : CgOwner[g] = p /\ cgroup[g] = "live"
         /\ visible \/ resolvePodCgroupIDs(p) # {} =>
              \A g \in Live : CgOwner[g] = p => g \in resolvePodCgroupIDs(p)
  BY DEF resolvePodCgroupIDs, Live

\* UpdatePodParams starts with every live entry of the pod among the keys.
LEMMA UpdateEntries ==
  ASSUME TypeOK, EntryInv, NEW p \in Pods, NEW v \in Vals, UpdatePodParams(p, v)
  PROVE  EntryInv'
<1> USE NoneAssumption, OwnerAssumption DEF EntryInv
<1>1. h = NoJob /\ UNCHANGED <<cgroup, cgroup_params, podCgroupIDs, last, inherited>>
  BY DEF JobCovers, UpdatePodParams, history, host, books
<1>2. <<p, v>> # None /\ <<p, v>>[1] = p
  OBVIOUS
<1>3. \/ /\ resolvePodCgroupIDs(p) # {}
         /\ h' = [pc |-> "put", pod |-> p, val |-> <<p, v>>, cgs |-> resolvePodCgroupIDs(p),
                  pids |-> {}, done |-> {}, saw |-> FALSE]
      \/ \E ps \in SUBSET Pids :
           h' = [pc |-> "putPids", pod |-> p, val |-> <<p, v>>, cgs |-> {},
                 pids |-> ps, done |-> {}, saw |-> FALSE]
  BY ResolveType DEF UpdatePodParams, NoJob
<1>4. JobCovers'
  BY <1>1, <1>2, <1>3, WalkIsComplete DEF JobCovers, Live, Keys
<1>5. LiveEntriesTracked'
  BY <1>1, <1>3 DEF LiveEntriesTracked, NoJob, Live, Keys
<1>6. RemovedClean' /\ CgroupEntriesAreOwn'
  BY <1>1, <1>3 DEF RemovedClean, CgroupEntriesAreOwn, NoJob, Live, Keys
<1>7. QED
  BY <1>4, <1>5, <1>6

\* Writing one entry: of the pod at work, for one of its own cgroups.
LEMMA WriteEntries ==
  ASSUME TypeOK, EntryInv, NEW g \in Cgids, writeCgroupParams(g)
  PROVE  EntryInv'
<1> USE NoneAssumption, OwnerAssumption DEF EntryInv
<1>1. /\ h.pc = "put" /\ g \in h.cgs /\ h.pod \in Pods /\ h.val # None /\ h.val[1] = h.pod
      /\ CgOwner[g] = h.pod /\ cgroup[g] # "unborn"
      /\ UNCHANGED <<cgroup, podCgroupIDs, last>>
  BY DEF JobCovers, writeCgroupParams, history, host, books
<1>2. CASE PutFails(cgroup_params, g, CgMax)
  <2>1. h' = [h EXCEPT !.cgs = h.cgs \ {g}] /\ UNCHANGED <<cgroup_params, inherited>>
    BY <1>2 DEF writeCgroupParams
  <2>2. cgroup_params[g] = None
    BY <1>2 DEF PutFails
  <2>3. JobCovers'
    BY <1>1, <2>1, <2>2 DEF TypeOK, JobCovers, Live, Keys
  <2>4. LiveEntriesTracked'
    BY <1>1, <2>1, <2>2 DEF TypeOK, LiveEntriesTracked, Live, Keys
  <2>5. RemovedClean' /\ CgroupEntriesAreOwn'
    BY <1>1, <2>1 DEF TypeOK, RemovedClean, CgroupEntriesAreOwn, Live, Keys
  <2>6. QED
    BY <2>3, <2>4, <2>5
<1>3. CASE ~ PutFails(cgroup_params, g, CgMax)
  <2>1. /\ cgroup_params' = [cgroup_params EXCEPT ![g] = h.val]
        /\ h' = [h EXCEPT !.cgs = h.cgs \ {g}, !.done = h.done \cup {g}]
        /\ inherited' = inherited \ {g}
    BY <1>3 DEF writeCgroupParams
  <2>2. JobCovers'
    BY <1>1, <2>1 DEF TypeOK, JobCovers, Live, Keys
  <2>3. LiveEntriesTracked'
    BY <1>1, <2>1 DEF TypeOK, LiveEntriesTracked, Live, Keys
  <2>4. RemovedClean'
    BY <1>1, <2>1 DEF TypeOK, RemovedClean, Live
  <2>5. CgroupEntriesAreOwn'
    BY <1>1, <2>1 DEF TypeOK, CgroupEntriesAreOwn, Keys
  <2>6. QED
    BY <2>2, <2>3, <2>4, <2>5
<1>4. QED
  BY <1>2, <1>3

\* The record UpdatePodParams stores holds every live entry of the pod.
LEMMA RecordEntries ==
  ASSUME TypeOK, EntryInv, RecordCgroupIDs \/ RecordPIDs
  PROVE  EntryInv'
<1> USE NoneAssumption, OwnerAssumption DEF EntryInv
<1>1. h' = NoJob /\ h.pod \in Pods /\ UNCHANGED <<cgroup, cgroup_params, inherited>>
  BY DEF JobCovers, RecordCgroupIDs, RecordPIDs, history, host
<1>2. JobCovers' /\ CgroupEntriesAreOwn'
  BY <1>1 DEF JobCovers, CgroupEntriesAreOwn, NoJob, Live, Keys
<1>3. last' = [last EXCEPT ![h.pod] = "updated"]
  BY DEF RecordCgroupIDs, RecordPIDs
<1>4. RemovedClean'
  BY <1>1, <1>3 DEF TypeOK, RemovedClean, NoJob, Live
<1>5. CASE RecordCgroupIDs
  <2>1. /\ h.pc = "put" /\ h.cgs = {} /\ h.done \in SUBSET Cgids /\ h.done # None
        /\ podCgroupIDs' = [podCgroupIDs EXCEPT ![h.pod] = h.done]
    BY <1>5 DEF JobCovers, RecordCgroupIDs
  <2>2. ASSUME NEW g \in (Keys(cgroup_params) \cap Live) \ inherited
        PROVE  g \in Recorded(podCgroupIDs'[CgOwner[g]])
    <3>1. g \in Cgids /\ CgOwner[g] \in Pods
      BY DEF Live
    <3>2. CASE CgOwner[g] = h.pod
      BY <2>1, <3>1, <3>2 DEF TypeOK, JobCovers, Recorded
    <3>3. CASE CgOwner[g] # h.pod
      BY <2>1, <3>1, <3>3 DEF TypeOK, LiveEntriesTracked, Recorded
    <3>4. QED
      BY <3>2, <3>3
  <2>3. LiveEntriesTracked'
    BY <1>1, <2>2 DEF LiveEntriesTracked, Live, Keys, Recorded
  <2>4. QED
    BY <1>2, <1>4, <2>3
<1>6. CASE RecordPIDs
  <2>1. h.pc = "putPids" /\ UNCHANGED podCgroupIDs
    BY <1>6 DEF RecordPIDs
  <2>2. LiveEntriesTracked'
    BY <1>1, <2>1 DEF LiveEntriesTracked, Live, Keys, Recorded
  <2>3. QED
    BY <1>2, <1>4, <2>2
<1>7. QED
  BY <1>5, <1>6

\* RemovePodParams: the keys to delete cover the record it takes out and, when
\* the tree can be read, every live entry of the pod until they are deleted.
LEMMA RemoveEntries ==
  ASSUME TypeOK, EntryInv,
         \/ \E p \in Pods : RemovePodParams(p)
         \/ \E g \in Cgids : DeleteCgroupEntry(g)
         \/ ResolvePidsToDelete \/ Removed
  PROVE  EntryInv'
<1> USE NoneAssumption, OwnerAssumption DEF EntryInv
<1>1. ASSUME NEW p \in Pods, RemovePodParams(p) PROVE EntryInv'
  <2>1. h = NoJob /\ UNCHANGED <<cgroup, cgroup_params, last, inherited>>
    BY <1>1 DEF JobCovers, RemovePodParams, history, host
  <2>2. /\ h' = [pc |-> "delete", pod |-> p, val |-> None,
                 cgs |-> Recorded(podCgroupIDs[p]) \cup resolvePodCgroupIDs(p),
                 pids |-> Recorded(podPIDs[p]), done |-> {}, saw |-> visible]
        /\ podCgroupIDs' = [podCgroupIDs EXCEPT ![p] = None]
    BY <1>1 DEF RemovePodParams, NoJob
  <2>3. visible => \A g \in Live : CgOwner[g] = p => g \in resolvePodCgroupIDs(p)
    BY WalkIsComplete
  <2>4. JobCovers'
    BY <2>1, <2>2, <2>3 DEF JobCovers, Live, Keys
  <2>5. LiveEntriesTracked'
    <3> SUFFICES ASSUME NEW g \in (Keys(cgroup_params) \cap Live) \ inherited
                 PROVE  \/ g \in Recorded(podCgroupIDs'[CgOwner[g]])
                        \/ /\ h'.pc \in {"put", "delete"} /\ h'.pod = CgOwner[g]
                           /\ g \in h'.cgs \cup h'.done
      BY <2>1 DEF LiveEntriesTracked, Live, Keys, Recorded
    <3>1. g \in Recorded(podCgroupIDs[CgOwner[g]]) /\ g \in Cgids
      BY <2>1 DEF LiveEntriesTracked, NoJob, Live
    <3>2. QED
      BY <2>2, <3>1 DEF TypeOK, Recorded
  <2>6. RemovedClean' /\ CgroupEntriesAreOwn'
    BY <2>1, <2>2 DEF RemovedClean, CgroupEntriesAreOwn, NoJob, Live, Keys
  <2>7. QED
    BY <2>4, <2>5, <2>6
<1>2. ASSUME NEW g \in Cgids, DeleteCgroupEntry(g) PROVE EntryInv'
  <2>1. /\ h.pc = "delete" /\ cgroup_params' = [cgroup_params EXCEPT ![g] = None]
        /\ h' = [h EXCEPT !.cgs = h.cgs \ {g}] /\ inherited' = inherited \ {g}
        /\ UNCHANGED <<cgroup, podCgroupIDs, last>>
    BY <1>2 DEF DeleteCgroupEntry, history, host, books
  <2>2. JobCovers'
    BY <2>1 DEF TypeOK, JobCovers, Live, Keys
  <2>3. LiveEntriesTracked'
    BY <2>1 DEF TypeOK, LiveEntriesTracked, Live, Keys, Recorded
  <2>4. RemovedClean' /\ CgroupEntriesAreOwn'
    BY <2>1 DEF TypeOK, RemovedClean, CgroupEntriesAreOwn, Live, Keys
  <2>5. QED
    BY <2>2, <2>3, <2>4
<1>3. CASE ResolvePidsToDelete
  <2>1. /\ h.pc = "delete" /\ h.cgs = {}
        /\ \E ps : h' = [h EXCEPT !.pc = "deletePids", !.pids = ps]
        /\ UNCHANGED <<cgroup, cgroup_params, podCgroupIDs, last, inherited>>
    BY <1>3 DEF ResolvePidsToDelete, history, host, books
  <2>2. JobCovers'
    BY <2>1 DEF TypeOK, JobCovers, Live, Keys
  <2>3. LiveEntriesTracked'
    BY <2>1 DEF TypeOK, JobCovers, LiveEntriesTracked, Live, Keys, Recorded
  <2>4. RemovedClean' /\ CgroupEntriesAreOwn'
    BY <2>1 DEF TypeOK, RemovedClean, CgroupEntriesAreOwn, Live, Keys
  <2>5. QED
    BY <2>2, <2>3, <2>4
<1>4. CASE Removed
  <2>1. /\ h.pc = "deletePids" /\ h.pod \in Pods /\ h.cgs = {} /\ h' = NoJob
        /\ last' = [last EXCEPT ![h.pod] = IF h.saw THEN "removed" ELSE "removedBlind"]
        /\ UNCHANGED <<cgroup, cgroup_params, podCgroupIDs, inherited>>
    BY <1>4 DEF JobCovers, Removed, history, host, books
  <2>2. JobCovers' /\ CgroupEntriesAreOwn'
    BY <2>1 DEF JobCovers, CgroupEntriesAreOwn, NoJob, Live, Keys
  <2>3. LiveEntriesTracked'
    BY <2>1 DEF LiveEntriesTracked, Live, Keys, Recorded
  <2>4. ASSUME NEW p \in Pods, last'[p] = "removed", NEW g \in Live, CgOwner[g] = p
        PROVE  cgroup_params[g] = None
    <3>1. g \in Cgids
      BY DEF Live
    <3>2. CASE p = h.pod
      <4>1. h.saw
        BY <2>1, <2>4, <3>2 DEF TypeOK
      <4>2. QED
        BY <2>1, <2>4, <3>1, <3>2, <4>1 DEF TypeOK, JobCovers, Keys
    <3>3. CASE p # h.pod
      BY <2>1, <2>4, <3>3 DEF TypeOK, RemovedClean
    <3>4. QED
      BY <3>2, <3>3
  <2>5. RemovedClean'
    BY <2>1, <2>4 DEF RemovedClean, Live
  <2>6. QED
    BY <2>2, <2>3, <2>5
<1>5. QED
  BY <1>1, <1>2, <1>3, <1>4

\* A step that leaves the cgroups, their entries, the records and the operation
\* under way alone, or that only moves PIDs, keeps the invariant.
LEMMA PidEntries ==
  ASSUME TypeOK, EntryInv,
         UNCHANGED <<cgroup, cgroup_params, podCgroupIDs, last, inherited>>,
         \/ UNCHANGED h
         \/ \E i \in Pids : WritePid(i) \/ DeletePidEntry(i)
  PROVE  EntryInv'
<1> USE DEF EntryInv
<1>1. CASE UNCHANGED h
  BY <1>1 DEF JobCovers, LiveEntriesTracked, RemovedClean, CgroupEntriesAreOwn,
              Live, Keys, Recorded
<1>2. ASSUME NEW i \in Pids, WritePid(i) \/ DeletePidEntry(i) PROVE EntryInv'
  <2>1. /\ h'.pc = h.pc /\ h.pc \in {"putPids", "deletePids"}
        /\ h'.pod = h.pod /\ h'.val = h.val /\ h'.cgs = h.cgs /\ h'.saw = h.saw
        /\ h'.done \in {h.done, h.done \cup {i}}
    BY <1>2 DEF TypeOK, WritePid, DeletePidEntry
  <2>2. JobCovers'
    BY <2>1 DEF JobCovers, Live, Keys
  <2>3. LiveEntriesTracked'
    BY <2>1 DEF LiveEntriesTracked, Live, Keys, Recorded
  <2>4. RemovedClean' /\ CgroupEntriesAreOwn'
    BY <2>1 DEF RemovedClean, CgroupEntriesAreOwn, Live, Keys
  <2>5. QED
    BY <2>2, <2>3, <2>4
<1>3. QED
  BY <1>1, <1>2

\* A sweep only deletes entries; a crash leaves only inherited ones; a cgroup
\* that is created has no entry, and one that goes needs none recorded.
LEMMA OtherEntries ==
  ASSUME TypeOK, EntryInv,
         \/ \E g \in Cgids : DeleteStaleCgroup(g) \/ CreateCgroup(g) \/ RemoveCgroup(g)
         \/ Crash
  PROVE  EntryInv'
<1> USE NoneAssumption, OwnerAssumption DEF EntryInv
<1>1. ASSUME NEW g \in Cgids, DeleteStaleCgroup(g) PROVE EntryInv'
  <2>1. /\ cgroup_params' = [cgroup_params EXCEPT ![g] = None]
        /\ inherited' = inherited \ {g}
        /\ UNCHANGED <<cgroup, podCgroupIDs, last, h>>
    BY <1>1 DEF DeleteStaleCgroup, history, host, books
  <2>2. JobCovers'
    BY <2>1 DEF TypeOK, JobCovers, Live, Keys
  <2>3. LiveEntriesTracked'
    BY <2>1 DEF TypeOK, LiveEntriesTracked, Live, Keys, Recorded
  <2>4. RemovedClean' /\ CgroupEntriesAreOwn'
    BY <2>1 DEF TypeOK, RemovedClean, CgroupEntriesAreOwn, Live, Keys
  <2>5. QED
    BY <2>2, <2>3, <2>4
<1>2. ASSUME NEW g \in Cgids, CreateCgroup(g) \/ RemoveCgroup(g) PROVE EntryInv'
  <2>1. /\ \/ cgroup[g] = "unborn" /\ cgroup' = [cgroup EXCEPT ![g] = "live"]
           \/ cgroup[g] = "live" /\ cgroup' = [cgroup EXCEPT ![g] = "dead"]
        /\ UNCHANGED <<cgroup_params, podCgroupIDs, last, h, inherited>>
    BY <1>2 DEF CreateCgroup, RemoveCgroup, agent, books, history
  <2>2. \A k \in Cgids : cgroup'[k] = "live" /\ cgroup_params[k] # None => cgroup[k] = "live"
    BY <2>1 DEF TypeOK, JobCovers
  <2>3. \A k \in Cgids : cgroup'[k] = "unborn" => cgroup[k] = "unborn"
    BY <2>1 DEF TypeOK
  <2>4. JobCovers'
    BY <2>1, <2>2, <2>3 DEF TypeOK, JobCovers, Live, Keys
  <2>5. LiveEntriesTracked'
    BY <2>1, <2>2 DEF LiveEntriesTracked, Live, Keys, Recorded
  <2>6. RemovedClean' /\ CgroupEntriesAreOwn'
    BY <2>1, <2>2 DEF RemovedClean, CgroupEntriesAreOwn, Live, Keys
  <2>7. QED
    BY <2>4, <2>5, <2>6
<1>3. CASE Crash
  <2>1. /\ h' = NoJob /\ inherited' = Keys(cgroup_params)
        /\ \A p \in Pods : last'[p] = "none"
        /\ UNCHANGED <<cgroup, cgroup_params>>
    BY <1>3 DEF Crash, history, host
  <2>2. JobCovers' /\ CgroupEntriesAreOwn'
    BY <2>1 DEF JobCovers, CgroupEntriesAreOwn, NoJob, Live, Keys
  <2>3. LiveEntriesTracked'
    BY <2>1 DEF LiveEntriesTracked, Keys
  <2>4. RemovedClean'
    BY <2>1 DEF RemovedClean
  <2>5. QED
    BY <2>2, <2>3, <2>4
<1>4. QED
  BY <1>1, <1>2, <1>3

\* Every step keeps the bookkeeping invariant.
LEMMA EntryStep == TypeOK /\ EntryInv /\ [Next]_vars => EntryInv'
<1> SUFFICES ASSUME TypeOK, EntryInv, [Next]_vars PROVE EntryInv'
  OBVIOUS
<1>1. CASE Handler
  <2>1. ASSUME NEW i \in Pids, WritePid(i) \/ DeletePidEntry(i) PROVE EntryInv'
    <3>1. UNCHANGED <<cgroup, cgroup_params, podCgroupIDs, last, inherited>>
      BY <2>1 DEF WritePid, DeletePidEntry, history, host, books
    <3>2. QED
      BY <2>1, <3>1, PidEntries
  <2>2. QED
    BY <1>1, <2>1, UpdateEntries, WriteEntries, RecordEntries, RemoveEntries DEF Handler
<1>2. CASE Sweeper
  <2>1. ASSUME \/ cleanStalePIDs \/ CleanStaleCgroupIDs \/ IterateCgroupParams \/ Swept
               \/ \E i \in Pids : DeleteStalePid(i)
        PROVE  EntryInv'
    <3>1. UNCHANGED <<cgroup, cgroup_params, podCgroupIDs, last, inherited, h>>
      BY <2>1 DEF cleanStalePIDs, CleanStaleCgroupIDs, IterateCgroupParams, Swept,
                  DeleteStalePid, history, host, books
    <3>2. QED
      BY <3>1, PidEntries
  <2>2. QED
    BY <1>2, <2>1, OtherEntries DEF Sweeper
<1>3. CASE Host
  <2>1. ASSUME \/ HideTree \/ ShowTree
               \/ \E i \in Pids : ExitProcess(i) \/ \E g \in Cgids : StartProcess(i, g)
        PROVE  EntryInv'
    <3>1. UNCHANGED <<cgroup, cgroup_params, podCgroupIDs, last, inherited, h>>
      BY <2>1 DEF HideTree, ShowTree, ExitProcess, StartProcess, agent, books, history
    <3>2. QED
      BY <3>1, PidEntries
  <2>2. QED
    BY <1>3, <2>1, OtherEntries DEF Host
<1>4. CASE Crash
  BY <1>4, OtherEntries
<1>5. CASE UNCHANGED vars
  BY <1>5, PidEntries DEF vars, history, host, books
<1>6. QED
  BY <1>1, <1>2, <1>3, <1>4, <1>5 DEF Next

\* The bookkeeping never loses a live entry, RemovePodParams leaves none, and
\* every entry is its own pod's: through crashes, sweeps and an unreadable tree.
THEOREM EntriesAccounted == Spec => []EntryInv
<1>1. Init => EntryInv
  BY DEF Init, EntryInv, JobCovers, LiveEntriesTracked, RemovedClean, CgroupEntriesAreOwn,
         NoJob, Live, Keys
<1>2. QED
  BY <1>1, EntryStep, TypeCorrect, PTL DEF Spec

\* No live cgroup's entry is lost from the bookkeeping.
THEOREM EntriesTracked == Spec => []LiveEntriesTracked
  BY EntriesAccounted, PTL DEF EntryInv

\* A removal that could read the tree leaves no entry on a live cgroup.
THEOREM RemovalClean == Spec => []RemovedClean
  BY EntriesAccounted, PTL DEF EntryInv

\* A cgroup_params entry is always of the pod that owns the cgroup.
THEOREM EntriesOwn == Spec => []CgroupEntriesAreOwn
  BY EntriesAccounted, PTL DEF EntryInv

\* What an operation has resolved covers every live entry of its pod while it
\* runs, whatever cgroups are created and entries swept meanwhile.
THEOREM OperationsCover == Spec => []JobCovers
  BY EntriesAccounted, PTL DEF EntryInv

(***************************************************************************)
(* The values of the entries.                                              *)
(***************************************************************************)

\* The operations on a pod replace what its live cgroups hold as a whole.
LEMMA HandlerCurrent ==
  ASSUME TypeOK, JobTyped, EntryInv, EntriesCurrent, Handler
  PROVE  EntriesCurrent'
<1> USE NoneAssumption, OwnerAssumption DEF EntryInv
<1>1. UNCHANGED cgroup
  BY DEF Handler, RemovePodParams, UpdatePodParams, writeCgroupParams, DeleteCgroupEntry,
         WritePid, DeletePidEntry, RecordCgroupIDs, RecordPIDs, ResolvePidsToDelete,
         Removed, host
<1>2. ASSUME NEW p \in Pods, RemovePodParams(p) \/ \E v \in Vals : UpdatePodParams(p, v)
      PROVE  EntriesCurrent'
  <2>0. h = NoJob /\ UNCHANGED <<cgroup_params, current>>
    BY <1>2 DEF JobCovers, RemovePodParams, UpdatePodParams, history
  <2>1. h.pod = None
    BY <2>0 DEF NoJob
  <2>2. h'.pod = p
    <3>1. CASE RemovePodParams(p)
      BY <3>1 DEF RemovePodParams, NoJob
    <3>2. ASSUME NEW v \in Vals, UpdatePodParams(p, v) PROVE h'.pod = p
      BY <3>2 DEF UpdatePodParams, NoJob
    <3>3. QED
      BY <1>2, <3>1, <3>2
  <2>3. QED
    BY <1>1, <2>0, <2>1, <2>2 DEF EntriesCurrent, Live, Keys
<1>3. ASSUME NEW g \in Cgids, writeCgroupParams(g) \/ DeleteCgroupEntry(g)
      PROVE  EntriesCurrent'
  <2>1. h.pod \in Pods /\ h'.pod = h.pod /\ UNCHANGED current
    BY <1>3 DEF TypeOK, JobTyped, writeCgroupParams, DeleteCgroupEntry
  <2>2. /\ \A k \in Cgids : k # g => cgroup_params'[k] = cgroup_params[k]
        /\ CgOwner[g] = h.pod \/ cgroup_params'[g] = None
        /\ DOMAIN cgroup_params' = Cgids
    BY <1>3 DEF TypeOK, JobCovers, writeCgroupParams, DeleteCgroupEntry
  <2>3. QED
    BY <1>1, <2>1, <2>2 DEF TypeOK, EntriesCurrent, Live, Keys
<1>4. ASSUME NEW i \in Pids, WritePid(i) \/ DeletePidEntry(i) PROVE EntriesCurrent'
  <2>1. h'.pod = h.pod /\ UNCHANGED <<cgroup_params, current>>
    BY <1>4 DEF TypeOK, WritePid, DeletePidEntry, history
  <2>2. QED
    BY <1>1, <2>1 DEF EntriesCurrent, Live, Keys
<1>5. CASE RecordCgroupIDs
  <2>1. /\ h.pc = "put" /\ h.cgs = {} /\ h.pod \in Pods /\ h.val # None
        /\ current' = [current EXCEPT ![h.pod] = h.val]
        /\ h'.pod = None /\ UNCHANGED cgroup_params
    BY <1>5 DEF JobTyped, RecordCgroupIDs, NoJob
  <2>2. \A g \in Live \cap Keys(cgroup_params) :
          CgOwner[g] = h.pod => cgroup_params[g] = h.val
    BY <2>1 DEF JobCovers, Keys
  <2>3. ASSUME NEW p \in Pods, current'[p] # None, NEW g \in Live \cap Keys(cgroup_params),
               CgOwner[g] = p
        PROVE  cgroup_params[g] = current'[p]
    <3>1. CASE p = h.pod
      BY <2>1, <2>2, <2>3, <3>1 DEF TypeOK
    <3>2. CASE p # h.pod
      BY <2>1, <2>3, <3>2 DEF TypeOK, EntriesCurrent
    <3>3. QED
      BY <3>1, <3>2
  <2>4. QED
    BY <1>1, <2>1, <2>3 DEF EntriesCurrent, Live, Keys
<1>6. CASE RecordPIDs \/ Removed
  <2>1. /\ h.pod \in Pods /\ current' = [current EXCEPT ![h.pod] = None]
        /\ h'.pod = None /\ UNCHANGED cgroup_params
    BY <1>6 DEF JobTyped, RecordPIDs, Removed, NoJob
  <2>2. QED
    BY <1>1, <2>1 DEF TypeOK, EntriesCurrent, Live, Keys
<1>7. CASE ResolvePidsToDelete
  <2>1. h'.pod = h.pod /\ UNCHANGED <<cgroup_params, current>>
    BY <1>7 DEF TypeOK, ResolvePidsToDelete, history
  <2>2. QED
    BY <1>1, <2>1 DEF EntriesCurrent, Live, Keys
<1>8. QED
  BY <1>2, <1>3, <1>4, <1>5, <1>6, <1>7 DEF Handler

\* The sweep only deletes; a crash forgets what was current; the host changes no
\* entry, and a cgroup it creates has none.
LEMMA OthersCurrent ==
  ASSUME TypeOK, EntryInv, EntriesCurrent, Sweeper \/ Crash \/ Host
  PROVE  EntriesCurrent'
<1> USE NoneAssumption, OwnerAssumption DEF EntryInv
<1>1. ASSUME NEW g \in Cgids, DeleteStaleCgroup(g) PROVE EntriesCurrent'
  <2>1. /\ cgroup_params' = [cgroup_params EXCEPT ![g] = None]
        /\ UNCHANGED <<cgroup, h, current>>
    BY <1>1 DEF DeleteStaleCgroup, host
  <2>2. QED
    BY <2>1 DEF TypeOK, EntriesCurrent, Live, Keys
<1>2. ASSUME \/ cleanStalePIDs \/ CleanStaleCgroupIDs \/ IterateCgroupParams \/ Swept
             \/ \E i \in Pids : DeleteStalePid(i)
      PROVE  EntriesCurrent'
  <2>1. UNCHANGED <<cgroup, cgroup_params, h, current>>
    BY <1>2 DEF cleanStalePIDs, CleanStaleCgroupIDs, IterateCgroupParams, Swept,
                DeleteStalePid, history, host
  <2>2. QED
    BY <2>1 DEF EntriesCurrent, Live, Keys
<1>3. CASE Crash
  BY <1>3 DEF Crash, EntriesCurrent
<1>4. CASE Host
  <2>1. UNCHANGED <<cgroup_params, h, current>>
    BY <1>4 DEF Host, CreateCgroup, RemoveCgroup, StartProcess, ExitProcess, HideTree,
                ShowTree, agent
  <2>2. \A g \in Cgids : cgroup'[g] = "live" /\ cgroup_params[g] # None => cgroup[g] = "live"
    BY <1>4 DEF TypeOK, JobCovers, Host, CreateCgroup, RemoveCgroup, StartProcess,
                ExitProcess, HideTree, ShowTree
  <2>3. QED
    BY <2>1, <2>2 DEF TypeOK, EntriesCurrent, Live, Keys
<1>5. QED
  BY <1>1, <1>2, <1>3, <1>4 DEF Sweeper

\* After an UpdatePodParams through the pod's cgroups no live cgroup of the pod
\* holds other parameters than the ones of that update, until the next operation.
THEOREM CurrentEntries == Spec => []EntriesCurrent
<1>1. Init => EntriesCurrent
  BY DEF Init, EntriesCurrent
<1>2. TypeOK /\ JobTyped /\ EntryInv /\ EntriesCurrent /\ [Next]_vars => EntriesCurrent'
  <2> SUFFICES ASSUME TypeOK, JobTyped, EntryInv, EntriesCurrent, [Next]_vars
               PROVE  EntriesCurrent'
    OBVIOUS
  <2>1. CASE UNCHANGED vars
    BY <2>1 DEF EntriesCurrent, Live, Keys, vars, host, history
  <2>2. QED
    BY <2>1, HandlerCurrent, OthersCurrent DEF Next
<1>3. QED
  BY <1>1, <1>2, TypeCorrect, EntriesAccounted, PTL DEF Spec

(***************************************************************************)
(* The sweeps of stale entries.                                            *)
(***************************************************************************)

\* While a sweep works, a live cgroup is one it has listed or a young one, what
\* it is about to delete is not listed, and a PID it is about to delete is that of
\* no process or of a young one.
SweepInv ==
  /\ s.pc \in {"iterate", "delete"} =>
       Live \subseteq s.live \cup young /\ s.stale \cap s.live = {}
  /\ s.pc = "pids" => \A i \in s.pids : proc[i] = None \/ i \in young

\* Every step keeps the relation between the sweep's listing and the host.
LEMMA SweepStep == TypeOK /\ SweepInv /\ [Next]_vars => SweepInv'
<1> SUFFICES ASSUME TypeOK, SweepInv, [Next]_vars PROVE SweepInv'
  OBVIOUS
<1>1. ASSUME UNCHANGED <<s, cgroup, proc, young>> PROVE SweepInv'
  BY <1>1 DEF SweepInv, Live
<1>2. CASE Handler
  BY <1>1, <1>2
     DEF Handler, RemovePodParams, UpdatePodParams, writeCgroupParams, DeleteCgroupEntry,
         WritePid, DeletePidEntry, RecordCgroupIDs, RecordPIDs, ResolvePidsToDelete,
         Removed, host, history
<1>3. CASE Swept \/ Crash
  <2>1. s' = NoSweep
    BY <1>3 DEF Swept, Crash
  <2>2. QED
    BY <2>1 DEF SweepInv, NoSweep
<1>4. CASE cleanStalePIDs
  <2>1. s'.pc = "pids" /\ proc' = proc /\ \A i \in s'.pids : proc[i] = None
    BY <1>4 DEF cleanStalePIDs, NoSweep, host
  <2>2. QED
    BY <2>1 DEF SweepInv
<1>5. ASSUME NEW i \in Pids, DeleteStalePid(i) PROVE SweepInv'
  <2>1. s.pc = "pids" /\ s'.pc = "pids" /\ s'.pids \subseteq s.pids /\ UNCHANGED <<proc, young>>
    BY <1>5 DEF TypeOK, DeleteStalePid, host, history
  <2>2. QED
    BY <2>1 DEF SweepInv
<1>6. CASE CleanStaleCgroupIDs
  BY <1>6 DEF TypeOK, SweepInv, CleanStaleCgroupIDs, NoSweep, Live, host
<1>7. CASE IterateCgroupParams
  BY <1>7 DEF TypeOK, SweepInv, IterateCgroupParams, Live, host, history
<1>8. ASSUME NEW g \in Cgids, DeleteStaleCgroup(g) PROVE SweepInv'
  BY <1>8 DEF TypeOK, SweepInv, DeleteStaleCgroup, Live, host
<1>9. ASSUME NEW g \in Cgids, CreateCgroup(g) \/ RemoveCgroup(g) PROVE SweepInv'
  BY <1>9 DEF TypeOK, SweepInv, CreateCgroup, RemoveCgroup, Live, agent
<1>10. ASSUME NEW i \in Pids, ExitProcess(i) PROVE SweepInv'
  BY <1>10 DEF TypeOK, SweepInv, ExitProcess, Live, agent
<1>11. ASSUME NEW i \in Pids, NEW g \in Cgids, StartProcess(i, g) PROVE SweepInv'
  BY <1>11 DEF TypeOK, SweepInv, StartProcess, Live, agent
<1>12. CASE HideTree \/ ShowTree \/ UNCHANGED vars
  BY <1>1, <1>12 DEF HideTree, ShowTree, agent, vars, host, history
<1>13. QED
  BY <1>2, <1>3, <1>4, <1>5, <1>6, <1>7, <1>8, <1>9, <1>10, <1>11, <1>12
     DEF Next, Sweeper, Host

\* The sweeps take the entry of a live cgroup or process only if it was created
\* after they looked.
THEOREM SweepSparing == Spec => SweepSparesListed
<1> DEFINE Spared == s' # s =>
      /\ \A g \in Cgids : cgroup_params[g] # None /\ cgroup_params'[g] = None
           => cgroup[g] # "live" \/ g \in young
      /\ \A i \in Pids : task_params[i] # None /\ task_params'[i] = None
           => proc[i] = None \/ i \in young
<1>1. Init => SweepInv
  BY DEF Init, SweepInv, NoSweep
<1>2. TypeOK /\ SweepInv /\ [Next]_vars => [Spared]_vars
  <2> SUFFICES ASSUME TypeOK, SweepInv, Next, s' # s PROVE Spared
    OBVIOUS
  <2>1. ~ Handler
    BY DEF Handler, RemovePodParams, UpdatePodParams, writeCgroupParams, DeleteCgroupEntry,
           WritePid, DeletePidEntry, RecordCgroupIDs, RecordPIDs, ResolvePidsToDelete, Removed
  <2>2. ~ Host
    BY DEF Host, CreateCgroup, RemoveCgroup, StartProcess, ExitProcess, HideTree, ShowTree,
           agent
  <2>3. CASE \/ Crash \/ cleanStalePIDs \/ CleanStaleCgroupIDs \/ IterateCgroupParams
             \/ Swept
    BY <2>3 DEF Crash, cleanStalePIDs, CleanStaleCgroupIDs, IterateCgroupParams, Swept
  <2>4. ASSUME NEW k \in Cgids, DeleteStaleCgroup(k) PROVE Spared
    <3>1. /\ task_params' = task_params /\ s.pc = "delete" /\ k \in s.stale
          /\ \A g \in Cgids : g # k => cgroup_params'[g] = cgroup_params[g]
      BY <2>4 DEF TypeOK, DeleteStaleCgroup
    <3>2. cgroup[k] # "live" \/ k \in young
      BY <3>1 DEF SweepInv, Live
    <3>3. QED
      BY <3>1, <3>2
  <2>5. ASSUME NEW k \in Pids, DeleteStalePid(k) PROVE Spared
    <3>1. /\ cgroup_params' = cgroup_params /\ s.pc = "pids" /\ k \in s.pids
          /\ \A i \in Pids : i # k => task_params'[i] = task_params[i]
      BY <2>5 DEF TypeOK, DeleteStalePid
    <3>2. proc[k] = None \/ k \in young
      BY <3>1 DEF SweepInv
    <3>3. QED
      BY <3>1, <3>2
  <2>6. QED
    BY <2>1, <2>2, <2>3, <2>4, <2>5 DEF Next, Sweeper
<1>3. QED
  BY <1>1, <1>2, SweepStep, TypeCorrect, PTL DEF Spec, SweepSparesListed
=============================================================================
