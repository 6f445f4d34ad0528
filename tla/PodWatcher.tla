------------------------------ MODULE PodWatcher ------------------------------
(***************************************************************************)
(* internal/k8s composed with the resolver: the pod informer's             *)
(* notifications are filtered by PodWatcher and drive onPodUpdate (Resolve,*)
(* then UpdatePodParams) and onPodDelete (RemovePodParams), one after      *)
(* another, while policies change beside them.  The map operations, which  *)
(* ParamMaps takes apart, are one step here.                               *)
(*                                                                         *)
(* A pod object also has a phase and gen, the number of container starts,  *)
(* which with the UID gives the container IDs of a pod that has run.       *)
(***************************************************************************)
EXTENDS PolicyResolver

CONSTANTS PodNames     \* namespace/name of the pods of this node

Phases == {"Pending", "Running", "Unknown", "Succeeded", "Failed"}

ASSUME PhaseAssumption == \A o \in Objs : o.phase \in Phases

VARIABLES
  pods,                \* the object last notified under each name, or None
  applied,             \* the parameters in the BPF maps for each pod, or None
  used,                \* UIDs that have been given out (external)
  acted, current,      \* history: the object each pod was last resolved from;
                       \* pods resolved since the policies last changed
  swapped              \* history: pods replaced under their name in one update

watch == <<pods, applied, used, acted, current, swapped>>
allVars == <<vars, watch>>

InitAll ==
  /\ Init
  /\ pods = [p \in PodNames |-> None]
  /\ applied = [u \in Uids |-> None]
  /\ used = {} /\ swapped = {} /\ current = {}
  /\ acted = [u \in Uids |-> None]
-----------------------------------------------------------------------------
(* The API server (external). *)

Ended(phase) == phase \in {"Succeeded", "Failed"}

\* A later version of the same pod.
LaterVersion(old, new) ==
  /\ new # old /\ new.uid = old.uid /\ new.qos = old.qos
  /\ new.gen >= old.gen
  /\ new.phase = "Pending" => old.phase = "Pending"
  /\ Ended(old.phase) => new.phase = old.phase
-----------------------------------------------------------------------------
(* The watcher. *)

containerIDs(o) == IF o.phase = "Pending" THEN <<>> ELSE <<o.uid, o.gen>>

\* Mutant: annotations are not compared.
podRelevantFieldsChanged_ann(old, new) ==
  \/ old.phase # new.phase \/ old.label # new.label
  \/ containerIDs(old) # containerIDs(new)

podRelevantFieldsChanged(old, new) ==
  \/ old.phase # new.phase \/ old.label # new.label \/ old.ann # new.ann
  \/ containerIDs(old) # containerIDs(new)

onPodDelete(u) ==
  /\ applied' = [applied EXCEPT ![u] = None]
  /\ acted' = [acted EXCEPT ![u] = None]

\* Mutant: a pod that has ended keeps its parameters.
handlePodUpdate_ended(o) ==
  \/ o.phase = "Running" /\ Call(o) /\ UNCHANGED <<calls, applied, acted>>
  \/ o.phase # "Running" /\ UNCHANGED <<vars, applied, acted>>

\* Running pods are resolved, pods that have ended lose their parameters.
handlePodUpdate(o) ==
  \/ o.phase = "Running" /\ Call(o) /\ UNCHANGED <<calls, applied, acted>>
  \/ Ended(o.phase) /\ onPodDelete(o.uid) /\ UNCHANGED vars
  \/ o.phase \in {"Pending", "Unknown"} /\ UNCHANGED <<vars, applied, acted>>

\* The informer's goroutine is free to take the next notification.
Free == started /\ h.pc = "idle"

AddFunc(p, o) ==
  /\ Free /\ pods[p] = None /\ o.uid \notin used
  /\ pods' = [pods EXCEPT ![p] = o] /\ used' = used \cup {o.uid}
  /\ handlePodUpdate(o)
  /\ UNCHANGED <<current, swapped>>

\* Versions may be skipped, and after a relist the new object may be another
\* pod of the same name.
UpdateFunc(p, o) ==
  /\ Free /\ pods[p] # None
  /\ \/ LaterVersion(pods[p], o) /\ UNCHANGED <<used, swapped>>
     \/ /\ o.uid \notin used /\ used' = used \cup {o.uid}
        /\ swapped' = swapped \cup {pods[p].uid}
  /\ pods' = [pods EXCEPT ![p] = o]
  /\ IF podRelevantFieldsChanged(pods[p], o)
       THEN handlePodUpdate(o) ELSE UNCHANGED <<vars, applied, acted>>
  /\ UNCHANGED current

\* A tombstone carries the last object the informer knew.
DeleteFunc(p) ==
  /\ Free /\ pods[p] # None
  /\ pods' = [pods EXCEPT ![p] = None]
  /\ onPodDelete(pods[p].uid)
  /\ UNCHANGED <<vars, used, current, swapped>>

\* onPodUpdate goes on: the match ...
OnMatch ==
  /\ getMatchingPolicies
  /\ current' = current \cup {h.obj.uid}
  /\ acted' = [acted EXCEPT ![h.obj.uid] = h.obj]
  /\ UNCHANGED <<pods, applied, used, swapped>>

OnResolve ==
  /\ Track \/ \E n \in Policies : MergePolicy(n)
  /\ UNCHANGED watch

\* ... and, when Resolve has returned, UpdatePodParams.
UpdatePodParams ==
  /\ Return
  /\ applied' = [applied EXCEPT ![h.obj.uid] = h.val]
  /\ UNCHANGED <<pods, used, acted, current, swapped>>

\* Policies reach the cache; history: parameters may be out of date from then.
OnFeed ==
  /\ Feed
  /\ current' = IF policies' = policies THEN current ELSE {}
  /\ UNCHANGED <<pods, applied, used, acted, swapped>>

OnServer ==
  /\ \/ \E n \in Policies, s \in Specs \cup {None} : SetPolicy(n, s)
     \/ writebackPolicyStatus
  /\ UNCHANGED watch

Handle == OnMatch \/ OnResolve \/ UpdatePodParams

NextAll ==
  \/ Handle \/ OnFeed \/ OnServer
  \/ \E p \in PodNames : DeleteFunc(p) \/ \E o \in Objs : AddFunc(p, o) \/ UpdateFunc(p, o)

SpecAll == InitAll /\ [][NextAll]_allVars
-----------------------------------------------------------------------------
(* Properties. *)

\* Parameters as they will be once the call in flight has written them.
Promised ==
  [u \in Uids |-> IF h.pc \in {"merge", "write"} /\ h.obj.uid = u
                  THEN Granted(h.found, h.obj) ELSE applied[u]]

Abstract == INSTANCE PodParams WITH params <- Promised

\* onPodUpdate is atomic: although it reads the policies, merges, locks again
\* and writes the maps in separate steps, parameters change as if all of it
\* happened at the read.
Atomic == Abstract!Spec

\* Nothing that the scheduler consumes of a running pod differs.
AsNotified(old, new) ==
  /\ old.phase = new.phase /\ old.label = new.label /\ old.ann = new.ann
  /\ old.gen = new.gen

Running(p) == pods[p] # None /\ pods[p].phase = "Running"

\* While no notification is being handled, every running pod has the parameters
\* that the cached policies and the pod as last notified call for, unless a
\* policy has changed since the pod was last resolved, or a field the watcher
\* does not compare but CEL conditions read.
InForce ==
  h.pc = "idle" =>
    \A p \in PodNames : Running(p) =>
      LET o == pods[p] IN
      /\ acted[o.uid] # None /\ AsNotified(acted[o.uid], o)
      /\ o.uid \in current /\ acted[o.uid].cpu = o.cpu =>
           Due(applied[o.uid], Matching(policies, o), o)

\* A pod that has ended or gone has no parameters, unless the informer replaced
\* it by a later pod of its name in one update: then nobody removes them.
GoneDropped ==
  \A u \in used \ swapped :
    (\A p \in PodNames : pods[p] # None /\ pods[p].uid = u => Ended(pods[p].phase))
      => applied[u] = None
=============================================================================
