-------------------------- MODULE PodWatcher_proofs --------------------------
(***************************************************************************)
(* Proofs about PodWatcher, for any policies and pods: the handling of pod *)
(* notifications implements PodParams, the parameters in force are those   *)
(* of the rule (the documented ones where no budget overflows), and those  *)
(* of a pod that has ended or gone are dropped.                            *)
(***************************************************************************)
EXTENDS PodWatcher, PolicyResolver_proofs

Params == {None} \cup [weight : Nat, budget : Nat]

\* The types of the watcher's variables.
WatchOK ==
  /\ pods \in [PodNames -> Objs \cup {None}]
  /\ applied \in [Uids -> Params] /\ acted \in [Uids -> Objs \cup {None}]
  /\ used \subseteq Uids /\ current \subseteq Uids /\ swapped \subseteq Uids

\* A UID is given out once and known under one name; the call under way is
\* about a running pod as last notified.
Known ==
  /\ \A p \in PodNames : pods[p] # None => pods[p].uid \in used
  /\ \A p, q \in PodNames : pods[p] # None /\ pods[q] # None /\ pods[p].uid = pods[q].uid => p = q
  /\ h.pc # "idle" => \E p \in PodNames : pods[p] = h.obj /\ h.obj.phase = "Running"
  /\ \A u \in Uids \ used : applied[u] = None

\* No call about the pod is under way.
Settled(p) == h.pc # "idle" => h.obj.uid # pods[p].uid

\* A running pod was resolved from an object that agrees with the last one in
\* all that the watcher compares, and has the parameters of that object.
ActInv ==
  /\ \A p \in PodNames : Running(p) /\ Settled(p) =>
       LET a == acted[pods[p].uid] IN
       /\ a # None /\ AsNotified(a, pods[p]) /\ a.qos = pods[p].qos
       /\ pods[p].uid \in current =>
            Due(applied[pods[p].uid], Matching(policies, a), a)
  /\ h.pc \in {"merge", "write"} =>
       /\ acted[h.obj.uid] = h.obj
       /\ h.obj.uid \in current => h.found = Matching(policies, h.obj)

WatchInv == WatchOK /\ Known /\ GoneDropped /\ ActInv

\* What handling a notification does to the call and to the parameters.
LEMMA HandleEffect ==
  ASSUME NEW o \in Objs, handlePodUpdate(o)
  PROVE \/ /\ o.phase = "Running" /\ Call(o) /\ calls' = calls
           /\ h'.pc = "match" /\ h'.obj = o
           /\ UNCHANGED <<policies, applied, acted>>
        \/ /\ Ended(o.phase) /\ UNCHANGED vars
           /\ applied' = [applied EXCEPT ![o.uid] = None]
           /\ acted' = [acted EXCEPT ![o.uid] = None]
        \/ /\ o.phase \in {"Pending", "Unknown"} /\ UNCHANGED <<vars, applied, acted>>
<1>1. CASE o.phase = "Running" /\ Call(o) /\ UNCHANGED <<calls, applied, acted>>
  BY <1>1 DEF Call, NoCall
<1>2. CASE Ended(o.phase) /\ onPodDelete(o.uid) /\ UNCHANGED vars
  BY <1>2 DEF onPodDelete
<1> QED
  BY <1>1, <1>2 DEF handlePodUpdate

\* A step of the composition is a step of the resolver or leaves it alone.
LEMMA NextAllIsStep == TypeOK /\ [NextAll]_allVars => [Step]_vars
<1> SUFFICES ASSUME TypeOK, [NextAll]_allVars PROVE [Step]_vars
  OBVIOUS
<1>0. calls \in Nat
  BY DEF TypeOK
<1>1. ASSUME NEW o \in Objs, handlePodUpdate(o) PROVE [Step]_vars
  <2>1. CASE Call(o) /\ calls' = calls
    BY <1>0, <2>1 DEF Step
  <2> QED
    BY <1>1, <2>1, HandleEffect
<1>2. CASE Handle
  BY <1>2 DEF Handle, OnMatch, OnResolve, UpdatePodParams, Step, Resolve
<1>3. CASE OnFeed \/ OnServer
  BY <1>3 DEF OnFeed, OnServer, Step
<1>4. ASSUME NEW p \in PodNames, NEW o \in Objs, AddFunc(p, o) \/ UpdateFunc(p, o)
      PROVE [Step]_vars
  BY <1>1, <1>4 DEF AddFunc, UpdateFunc
<1>5. ASSUME NEW p \in PodNames, DeleteFunc(p) PROVE [Step]_vars
  BY <1>5 DEF DeleteFunc
<1>6. CASE UNCHANGED allVars
  BY <1>6 DEF allVars
<1> QED
  BY <1>2, <1>3, <1>4, <1>5, <1>6 DEF NextAll

\* A step that changes neither the pods, the parameters nor what they were
\* resolved from, and no more of the call than its loop.
LEMMA QuietStep ==
  ASSUME WatchInv, CallOK, UNCHANGED <<pods, applied, used, acted, swapped>>,
         h'.pc = h.pc \/ (h.pc = "merge" /\ h'.pc = "write"),
         h'.obj = h.obj, h'.found = h.found,
         current' = IF policies' = policies THEN current ELSE {}
  PROVE WatchInv'
<1>1. WatchOK' /\ Known'
  BY DEF WatchInv, WatchOK, Known
<1>2. GoneDropped'
  BY DEF WatchInv, GoneDropped
<1>3. \A u : u \in current' => policies' = policies /\ u \in current
  OBVIOUS
<1>4. \A p \in PodNames : Running(p)' = Running(p) /\ Settled(p)' = Settled(p)
  BY DEF Running, Settled
<1>5. ActInv'
  BY <1>3, <1>4 DEF WatchInv, ActInv
<1> QED
  BY <1>1, <1>2, <1>5 DEF WatchInv

\* The match preserves the watcher's invariant: the object is recorded.
LEMMA MatchStep ==
  ASSUME Inv, WatchInv, OnMatch
  PROVE WatchInv'
<1>1. /\ h.pc = "match" /\ h'.pc = "merge" /\ h'.obj = h.obj /\ h.obj \in Objs
      /\ h'.found = Matching(policies, h.obj)
      /\ UNCHANGED <<policies, pods, applied, used, swapped>>
      /\ current' = current \cup {h.obj.uid}
      /\ acted' = [acted EXCEPT ![h.obj.uid] = h.obj]
  BY DEF OnMatch, getMatchingPolicies, Inv, TypeOK, CallOK, Calls
<1>2. h.obj.uid \in Uids
  BY <1>1, UidAssumption
<1>3. WatchOK'
  BY <1>1, <1>2 DEF WatchInv, WatchOK
<1>4. Known'
  BY <1>1 DEF WatchInv, Known
<1>5. GoneDropped'
  BY <1>1 DEF WatchInv, GoneDropped
<1>6. acted'[h.obj.uid] = h.obj /\ \A u \in Uids : u # h.obj.uid => acted'[u] = acted[u]
  BY <1>1, <1>2 DEF WatchInv, WatchOK
<1>7. ASSUME NEW p \in PodNames, Running(p)', Settled(p)'
      PROVE /\ Running(p) /\ Settled(p) /\ pods[p].uid # h.obj.uid
            /\ acted'[pods[p].uid] = acted[pods[p].uid]
            /\ pods[p].uid \in current' <=> pods[p].uid \in current
  <2>1. Running(p) /\ Settled(p) /\ pods[p].uid # h.obj.uid
    BY <1>1, <1>7 DEF Running, Settled
  <2>2. pods[p].uid \in Uids
    BY <2>1, UidAssumption DEF Running, WatchInv, WatchOK
  <2> QED
    BY <1>1, <1>6, <2>1, <2>2
<1>8. ActInv'
  BY <1>1, <1>6, <1>7 DEF WatchInv, ActInv
<1> QED
  BY <1>3, <1>4, <1>5, <1>8 DEF WatchInv

\* UpdatePodParams writes the parameters due to the object.
LEMMA WriteStep ==
  ASSUME Inv, WatchInv, UpdatePodParams
  PROVE WatchInv'
<1>1. /\ h.pc = "write" /\ h'.pc = "idle" /\ h.obj \in Objs /\ h.found \in Contents
      /\ h.val \in Params
      /\ UNCHANGED <<policies, pods, used, acted, current, swapped>>
      /\ applied' = [applied EXCEPT ![h.obj.uid] = h.val]
  BY DEF UpdatePodParams, Return, NoCall, Inv, TypeOK, CallOK, Calls, Params
<1>2. h.obj.uid \in Uids
  BY <1>1, UidAssumption
<1>3. Due(applied'[h.obj.uid], h.found, h.obj)
  BY <1>1, <1>2 DEF WatchInv, WatchOK, Inv, ResolveInv, ResolvedAsDocumented
<1>4. \A u \in Uids : u # h.obj.uid => applied'[u] = applied[u]
  BY <1>1, <1>2 DEF WatchInv, WatchOK
<1>5. PICK q \in PodNames : pods[q] = h.obj /\ h.obj.phase = "Running"
  BY <1>1 DEF WatchInv, Known
<1>6. h.obj # None
  BY <1>1, ObjAssumption
<1>7. WatchOK'
  BY <1>1, <1>2 DEF WatchInv, WatchOK
<1>8. Known'
  BY <1>1, <1>4, <1>5, <1>6 DEF WatchInv, Known
<1>9. GoneDropped'
  <2> SUFFICES ASSUME NEW u \in used \ swapped,
                      \A p \in PodNames : pods[p] # None /\ pods[p].uid = u => Ended(pods[p].phase)
               PROVE applied'[u] = None
    BY <1>1 DEF GoneDropped
  <2>1. u # h.obj.uid
    BY <1>5, <1>6 DEF Ended
  <2>2. u \in Uids /\ applied[u] = None
    BY DEF WatchInv, WatchOK, GoneDropped
  <2> QED
    BY <1>4, <2>1, <2>2
<1>10. ActInv'
  <2>1. ASSUME NEW p \in PodNames, Running(p)
        PROVE LET a == acted[pods[p].uid] IN
              /\ a # None /\ AsNotified(a, pods[p]) /\ a.qos = pods[p].qos
              /\ pods[p].uid \in current =>
                   Due(applied'[pods[p].uid], Matching(policies, a), a)
    <3>1. CASE pods[p].uid = h.obj.uid
      <4>1. pods[p] = h.obj
        BY <1>5, <1>6, <2>1, <3>1 DEF WatchInv, Known, Running
      <4>2. /\ acted[h.obj.uid] = h.obj
            /\ h.obj.uid \in current => h.found = Matching(policies, h.obj)
        BY <1>1 DEF WatchInv, ActInv
      <4> QED
        BY <1>3, <1>6, <4>1, <4>2 DEF AsNotified
    <3>2. CASE pods[p].uid # h.obj.uid
      <4>1. pods[p].uid \in Uids /\ Settled(p)
        BY <2>1, <3>2, UidAssumption DEF Running, WatchInv, WatchOK, Settled
      <4> QED
        BY <1>4, <2>1, <3>2, <4>1 DEF WatchInv, ActInv
    <3> QED
      BY <3>1, <3>2
  <2> QED
    BY <1>1, <2>1 DEF ActInv, Running
<1> QED
  BY <1>7, <1>8, <1>9, <1>10 DEF WatchInv

\* A new pod, or one that replaces the pod of its name.
Fresh(p, o) ==
  /\ o.uid \notin used /\ used' = used \cup {o.uid}
  /\ swapped' = swapped \cup (IF pods[p] = None THEN {} ELSE {pods[p].uid})

Later(p, o) == pods[p] # None /\ LaterVersion(pods[p], o) /\ UNCHANGED <<used, swapped>>

\* The watcher finds nothing the scheduler consumes changed.
Ignored(p, o) ==
  /\ pods[p] # None /\ ~ podRelevantFieldsChanged(pods[p], o)
  /\ UNCHANGED <<vars, applied, acted>>

\* AddFunc and UpdateFunc preserve the watcher's invariant.
LEMMA InstallStep ==
  ASSUME Inv, WatchInv, NEW p \in PodNames, NEW o \in Objs, Free,
         pods' = [pods EXCEPT ![p] = o], current' = current,
         Fresh(p, o) \/ Later(p, o), handlePodUpdate(o) \/ Ignored(p, o)
  PROVE WatchInv'
<1> USE DEF WatchInv
<1>1. /\ h.pc = "idle" /\ policies' = policies /\ o.uid \in Uids /\ o # None
      /\ pods'[p] = o /\ \A q \in PodNames \ {p} : pods'[q] = pods[q]
  <2>1. policies' = policies
    BY HandleEffect DEF vars, Ignored
  <2> QED
    BY <2>1, UidAssumption, ObjAssumption DEF Free, WatchOK
<1>2. \/ /\ o.phase = "Running" /\ h'.pc = "match" /\ h'.obj = o
         /\ UNCHANGED <<applied, acted>>
      \/ /\ Ended(o.phase) /\ h' = h /\ applied' = [applied EXCEPT ![o.uid] = None]
         /\ acted' = [acted EXCEPT ![o.uid] = None]
      \/ o.phase \in {"Pending", "Unknown"} /\ UNCHANGED <<h, applied, acted>>
      \/ /\ pods[p] # None /\ ~ podRelevantFieldsChanged(pods[p], o)
         /\ UNCHANGED <<h, applied, acted>>
  BY HandleEffect DEF vars, Ignored
<1>3. \A u \in Uids \ {o.uid} : applied'[u] = applied[u] /\ acted'[u] = acted[u]
  BY <1>1, <1>2 DEF WatchOK
<1>4. \A q \in PodNames \ {p} : pods[q] # None => pods[q].uid # o.uid /\ pods[q].uid \in Uids
  BY <1>1 DEF Fresh, Later, LaterVersion, Known, WatchOK
<1>5. WatchOK'
  <2>1. applied' \in [Uids -> Params] /\ acted' \in [Uids -> Objs \cup {None}]
    BY <1>1, <1>2 DEF WatchOK, Params
  <2>2. used' \subseteq Uids /\ swapped' \subseteq Uids
    BY <1>1, UidAssumption DEF Fresh, Later, WatchOK
  <2> QED
    BY <2>1, <2>2 DEF WatchOK
<1>6. Known'
  <2>1. ASSUME NEW q \in PodNames, pods'[q] # None PROVE pods'[q].uid \in used'
    BY <1>1, <2>1 DEF Fresh, Later, LaterVersion, Known
  <2>2. ASSUME NEW q \in PodNames, NEW r \in PodNames, pods'[q] # None, pods'[r] # None,
               pods'[q].uid = pods'[r].uid
        PROVE q = r
    BY <1>1, <1>4, <2>2 DEF Known
  <2>3. ASSUME h'.pc # "idle"
        PROVE \E q \in PodNames : pods'[q] = h'.obj /\ h'.obj.phase = "Running"
    BY <1>1, <1>2, <2>3
  <2>4. ASSUME NEW u \in Uids \ used' PROVE applied'[u] = None
    <3>1. u \notin used /\ u # o.uid
      BY <1>1, <2>4 DEF Fresh, Later, LaterVersion, Known
    <3> QED
      BY <1>3, <3>1 DEF Known
  <2> QED
    BY <2>1, <2>2, <2>3, <2>4 DEF Known
<1>7. GoneDropped'
  <2> SUFFICES ASSUME NEW u \in used' \ swapped',
                      \A q \in PodNames : pods'[q] # None /\ pods'[q].uid = u
                                           => Ended(pods'[q].phase)
               PROVE applied'[u] = None
    BY DEF GoneDropped
  <2>1. CASE u = o.uid
    <3>1. Ended(o.phase)
      BY <1>1, <2>1
    <3>2. CASE applied' = [applied EXCEPT ![o.uid] = None]
      BY <1>1, <2>1, <3>2 DEF WatchOK
    <3>3. CASE pods[p] # None /\ applied' = applied /\ ~ podRelevantFieldsChanged(pods[p], o)
      <4>1. CASE Fresh(p, o)
        BY <1>1, <2>1, <3>3, <4>1 DEF Fresh, Known
      <4>2. CASE Later(p, o)
        <5>1. pods[p].uid = u /\ Ended(pods[p].phase) /\ u \in used \ swapped
          BY <2>1, <3>1, <3>3, <4>2 DEF Later, LaterVersion, podRelevantFieldsChanged
        <5>2. \A q \in PodNames : pods[q] # None /\ pods[q].uid = u => Ended(pods[q].phase)
          BY <3>3, <5>1 DEF Known
        <5> QED
          BY <3>3, <5>1, <5>2 DEF GoneDropped
      <4> QED
        BY <4>1, <4>2
    <3> QED
      BY <1>2, <3>1, <3>2, <3>3 DEF Ended
  <2>2. CASE u # o.uid
    <3>1. u \in used \ swapped /\ u \in Uids
      BY <2>2 DEF Fresh, Later, WatchOK
    <3>2. pods[p] # None => pods[p].uid # u
      BY <2>2 DEF Fresh, Later, LaterVersion
    <3>3. \A q \in PodNames : pods[q] # None /\ pods[q].uid = u => Ended(pods[q].phase)
      BY <1>1, <3>2
    <3> QED
      BY <1>3, <2>2, <3>1, <3>3 DEF GoneDropped
  <2> QED
    BY <2>1, <2>2
<1>8. ActInv'
  <2>1. h'.pc \notin {"merge", "write"}
    BY <1>1, <1>2
  <2>2. ASSUME NEW q \in PodNames, Running(q)', Settled(q)'
        PROVE LET a == acted'[pods'[q].uid] IN
              /\ a # None /\ AsNotified(a, pods'[q]) /\ a.qos = pods'[q].qos
              /\ pods'[q].uid \in current =>
                   Due(applied'[pods'[q].uid], Matching(policies, a), a)
    <3>1. CASE q # p
      <4>1. pods'[q] = pods[q] /\ Running(q) /\ Settled(q)
        BY <1>1, <2>2, <3>1 DEF Running, Settled
      <4>2. /\ acted'[pods[q].uid] = acted[pods[q].uid]
            /\ applied'[pods[q].uid] = applied[pods[q].uid]
        BY <1>3, <1>4, <3>1, <4>1 DEF Running
      <4> QED
        BY <4>1, <4>2 DEF ActInv
    <3>2. CASE q = p
      <4>1. o.phase = "Running" /\ h'.pc # "match"
        BY <1>1, <1>2, <2>2, <3>2 DEF Running, Settled
      <4>2. /\ pods[p] # None /\ ~ podRelevantFieldsChanged(pods[p], o)
            /\ UNCHANGED <<applied, acted>>
        BY <1>2, <4>1 DEF Ended
      <4>3. /\ pods[p].phase = o.phase /\ pods[p].label = o.label /\ pods[p].ann = o.ann
            /\ pods[p].uid = o.uid /\ pods[p].gen = o.gen
        BY <4>1, <4>2 DEF podRelevantFieldsChanged, containerIDs
      <4>4. pods[p].qos = o.qos
        BY <4>2, <4>3 DEF Fresh, Later, LaterVersion, Known
      <4>5. Running(p) /\ Settled(p)
        BY <1>1, <4>1, <4>2, <4>3 DEF Running, Settled
      <4>6. LET a == acted[pods[p].uid] IN
            /\ a # None /\ AsNotified(a, pods[p]) /\ a.qos = pods[p].qos
            /\ pods[p].uid \in current =>
                 Due(applied[pods[p].uid], Matching(policies, a), a)
        BY <4>5 DEF ActInv
      <4>7. pods'[q] = o
        BY <1>1, <3>2
      <4> QED
        BY <4>2, <4>3, <4>4, <4>6, <4>7 DEF AsNotified
    <3> QED
      BY <3>1, <3>2
  <2> QED
    BY <1>1, <2>1, <2>2 DEF ActInv
<1> QED
  BY <1>5, <1>6, <1>7, <1>8

\* DeleteFunc preserves the watcher's invariant.
LEMMA DeleteStep ==
  ASSUME Inv, WatchInv, NEW p \in PodNames, DeleteFunc(p)
  PROVE WatchInv'
<1> USE DEF WatchInv
<1> DEFINE d == pods[p].uid
<1>1. /\ h.pc = "idle" /\ pods[p] # None /\ d \in Uids
      /\ UNCHANGED <<h, policies, used, current, swapped>>
      /\ pods' = [pods EXCEPT ![p] = None]
      /\ applied' = [applied EXCEPT ![d] = None] /\ acted' = [acted EXCEPT ![d] = None]
  BY UidAssumption DEF DeleteFunc, Free, onPodDelete, vars, WatchOK
<1>2. pods'[p] = None /\ \A q \in PodNames \ {p} : pods'[q] = pods[q]
  BY <1>1 DEF WatchOK
<1>3. /\ applied'[d] = None
      /\ \A u \in Uids \ {d} : applied'[u] = applied[u] /\ acted'[u] = acted[u]
  BY <1>1 DEF WatchOK
<1>4. WatchOK'
  BY <1>1 DEF WatchOK, Params
<1>5. Known'
  BY <1>1, <1>2, <1>3 DEF Known
<1>6. GoneDropped'
  BY <1>1, <1>2, <1>3 DEF GoneDropped, WatchOK
<1>7. ActInv'
  <2>1. ASSUME NEW q \in PodNames, Running(q)'
        PROVE /\ pods'[q] = pods[q] /\ Running(q) /\ Settled(q)
              /\ acted'[pods[q].uid] = acted[pods[q].uid]
              /\ applied'[pods[q].uid] = applied[pods[q].uid]
    <3>1. q # p /\ pods'[q] = pods[q] /\ Running(q) /\ Settled(q)
      BY <1>1, <1>2, <2>1 DEF Running, Settled
    <3>2. pods[q].uid \in Uids \ {d}
      BY <1>1, <3>1, UidAssumption DEF Running, Known, WatchOK
    <3> QED
      BY <1>3, <3>1, <3>2
  <2>2. ASSUME NEW q \in PodNames, Running(q)'
        PROVE LET a == acted'[pods'[q].uid] IN
              /\ a # None /\ AsNotified(a, pods'[q]) /\ a.qos = pods'[q].qos
              /\ pods'[q].uid \in current =>
                   Due(applied'[pods'[q].uid], Matching(policies, a), a)
    BY <2>1, <2>2 DEF ActInv
  <2>3. h'.pc = "idle" /\ UNCHANGED <<policies, current>>
    BY <1>1
  <2> QED
    BY <2>2, <2>3 DEF ActInv
<1> QED
  BY <1>4, <1>5, <1>6, <1>7

AllInv == Inv /\ WatchInv

\* The agent starts with no pod and no parameters.
LEMMA InitAllInv == InitAll => AllInv
<1> SUFFICES ASSUME InitAll PROVE AllInv
  OBVIOUS
<1>1. Inv
  BY InitInv DEF InitAll
<1>2. h.pc = "idle"
  BY DEF InitAll, Init, NoCall
<1>3. WatchInv
  BY <1>2 DEF InitAll, WatchInv, WatchOK, Params, Known, GoneDropped, ActInv, Running
<1> QED
  BY <1>1, <1>3 DEF AllInv

\* Every step of the composition preserves all invariants.
LEMMA AllStep == AllInv /\ [NextAll]_allVars => AllInv'
<1> SUFFICES ASSUME Inv, WatchInv, [NextAll]_allVars PROVE AllInv'
  BY DEF AllInv
<1>0. Inv' /\ TypeOK /\ CallOK
  BY NextAllIsStep, StepInv DEF Inv, TypeOK
<1>1. CASE OnMatch
  BY <1>0, <1>1, MatchStep DEF AllInv
<1>2. CASE UpdatePodParams
  BY <1>0, <1>2, WriteStep DEF AllInv
<1>3. CASE OnResolve
  <2>1. /\ h.pc = "merge" /\ h'.pc \in {"merge", "write"} /\ h'.obj = h.obj
        /\ h'.found = h.found /\ policies' = policies
    BY <1>0, <1>3 DEF OnResolve, Track, MergePolicy, CallOK, Calls
  <2>2. WatchInv'
    BY <1>0, <1>3, <2>1, QuietStep DEF OnResolve, watch
  <2> QED
    BY <1>0, <2>2 DEF AllInv
<1>4. CASE OnFeed
  <2>1. SameCall
    BY <1>0, <1>4, FeedSameCall DEF OnFeed
  <2>2. WatchInv'
    BY <1>0, <1>4, <2>1, QuietStep DEF OnFeed, SameCall
  <2> QED
    BY <1>0, <2>2 DEF AllInv
<1>5. CASE OnServer \/ UNCHANGED allVars
  <2>1. UNCHANGED <<h, policies, watch>>
    BY <1>5 DEF OnServer, SetPolicy, writebackPolicyStatus, PolicyNames, buildStatusPatch,
                WritebackDone, ActivePodCount, PatchApplied, PatchFails, rest, allVars, vars
  <2>2. WatchInv'
    BY <1>0, <2>1, QuietStep DEF watch
  <2> QED
    BY <1>0, <2>2 DEF AllInv
<1>6. ASSUME NEW p \in PodNames, NEW o \in Objs, AddFunc(p, o) PROVE AllInv'
  <2>1. /\ Free /\ pods' = [pods EXCEPT ![p] = o] /\ current' = current
        /\ Fresh(p, o) /\ handlePodUpdate(o)
    BY <1>6 DEF AddFunc, Fresh
  <2> QED
    BY <1>0, <2>1, InstallStep DEF AllInv
<1>7. ASSUME NEW p \in PodNames, NEW o \in Objs, UpdateFunc(p, o) PROVE AllInv'
  <2>1. Free /\ pods' = [pods EXCEPT ![p] = o] /\ current' = current
    BY <1>7 DEF UpdateFunc
  <2>2. Fresh(p, o) \/ Later(p, o)
    BY <1>7 DEF UpdateFunc, Fresh, Later
  <2>3. handlePodUpdate(o) \/ Ignored(p, o)
    BY <1>7 DEF UpdateFunc, Ignored
  <2> QED
    BY <1>0, <2>1, <2>2, <2>3, InstallStep DEF AllInv
<1>8. ASSUME NEW p \in PodNames, DeleteFunc(p) PROVE AllInv'
  BY <1>0, <1>8, DeleteStep DEF AllInv
<1> QED
  BY <1>1, <1>2, <1>3, <1>4, <1>5, <1>6, <1>7, <1>8 DEF NextAll, Handle

\* All invariants of the composition hold in every behaviour.
THEOREM WatcherInvariant == SpecAll => []AllInv
<1>1. AllInv /\ [NextAll]_allVars => AllInv'
  BY AllStep
<1> QED
  BY <1>1, InitAllInv, PTL DEF SpecAll

\* A pod that has ended or gone has no parameters, unless the informer replaced
\* it by another pod of its name in one update.
THEOREM ParamsDropped == SpecAll => []GoneDropped
<1>1. AllInv => GoneDropped
  BY DEF AllInv, WatchInv
<1> QED
  BY <1>1, WatcherInvariant, PTL

\* Between notifications a running pod has the parameters due to it, unless a
\* policy or a field the watcher does not compare changed since it was resolved.
THEOREM ParamsInForce == SpecAll => []InForce
<1>1. AllInv => InForce
  <2> SUFFICES ASSUME AllInv, h.pc = "idle", NEW p \in PodNames, Running(p)
               PROVE LET o == pods[p] IN
                     /\ acted[o.uid] # None /\ AsNotified(acted[o.uid], o)
                     /\ o.uid \in current /\ acted[o.uid].cpu = o.cpu =>
                          Due(applied[o.uid], Matching(policies, o), o)
    BY DEF InForce
  <2> DEFINE o == pods[p]
             a == acted[o.uid]
  <2>1. /\ a # None /\ AsNotified(a, o) /\ a.qos = o.qos
        /\ o.uid \in current => Due(applied[o.uid], Matching(policies, a), a)
    BY DEF AllInv, WatchInv, ActInv, Settled
  <2>2. ASSUME a.cpu = o.cpu PROVE Matching(policies, a) = Matching(policies, o)
    BY <2>1, <2>2 DEF Matching, podSelectorMatches, celConditionPasses, AsNotified
  <2>3. ASSUME NEW v, NEW m, Due(v, m, a) PROVE Due(v, m, o)
    <3>1. a.ann = o.ann /\ a.qos = o.qos
      BY <2>1 DEF AsNotified
    <3>2. Documented(m, a) = Documented(m, o)
      BY <3>1 DEF Documented
    <3>3. Granted(m, a) = Granted(m, o) /\ (Fits(m, a) <=> Fits(m, o))
      BY <3>1, <3>2 DEF Granted, Fits
    <3> QED
      BY <2>3, <3>2, <3>3 DEF Due
  <2> QED
    BY <2>1, <2>2, <2>3
<1> QED
  BY <1>1, WatcherInvariant, PTL
-----------------------------------------------------------------------------
(* The refinement. *)

\* Inside the instance the pure operators are the same.
LEMMA SameOperators ==
  ASSUME NEW m, NEW o
  PROVE /\ Abstract!Matching(m, o) = Matching(m, o)
        /\ Abstract!Granted(m, o) = Granted(m, o)
<1>1. Abstract!Matching(m, o) = Matching(m, o)
  BY DEF Abstract!Matching, Matching, Abstract!podSelectorMatches, podSelectorMatches,
         Abstract!celConditionPasses, celConditionPasses
<1>2. Abstract!Documented(m, o) = Documented(m, o)
  BY DEF Abstract!Documented, Documented, Abstract!ParseAnnotationWeight,
         ParseAnnotationWeight, Abstract!maxWeight, maxWeight, Abstract!qosDefaultWeight,
         qosDefaultWeight, Abstract!Weights, Weights, Abstract!Budgets, Budgets,
         Abstract!Names, Names, Abstract!Largest, Largest
<1>3. Abstract!Granted(m, o) = Granted(m, o)
  BY <1>2 DEF Abstract!Granted, Granted, Abstract!ToNs, ToNs, Abstract!Budgets, Budgets,
              Abstract!Names, Names, Abstract!Largest, Largest
<1> QED
  BY <1>1, <1>3

\* The initial states map to initial states.
LEMMA InitRefines == InitAll => Abstract!Init
<1> SUFFICES ASSUME InitAll PROVE Abstract!Init
  OBVIOUS
<1>1. h.pc = "idle" /\ policies = [n \in Policies |-> None]
  BY DEF InitAll, Init, NoCall, NoPolicies
<1>2. Promised = [u \in Uids |-> None]
  BY <1>1 DEF InitAll, Promised
<1> QED
  BY <1>1, <1>2 DEF InitAll, Abstract!Init

\* Every step maps to a step of PodParams or to a stutter; the match is where
\* the parameters take effect.
LEMMA StepRefines ==
  AllInv /\ AllInv' /\ [NextAll]_allVars => [Abstract!Next]_(Abstract!vars)
<1> SUFFICES ASSUME AllInv, AllInv', [NextAll]_allVars
             PROVE [Abstract!Next]_(Abstract!vars)
  OBVIOUS
<1>0. /\ TypeOK /\ CallOK /\ WatchOK /\ Known /\ policies' \in Contents
      /\ \A u \in Uids : u \in DOMAIN applied
  BY DEF AllInv, Inv, WatchInv, TypeOK, WatchOK
<1>1. CASE OnMatch
  <2>1. /\ h.pc = "match" /\ h'.pc = "merge" /\ h'.obj = h.obj /\ h.obj \in Objs
        /\ h'.found = Matching(policies, h.obj) /\ UNCHANGED <<policies, pods, applied>>
    BY <1>0, <1>1 DEF OnMatch, getMatchingPolicies, CallOK, Calls
  <2>2. PICK p \in PodNames : pods[p] = h.obj /\ h.obj.phase = "Running"
    BY <1>0, <2>1 DEF Known
  <2>3. Promised' = [Promised EXCEPT ![h.obj.uid] = Granted(Matching(policies, h.obj), h.obj)]
    BY <2>1 DEF Promised
  <2>4. Abstract!Apply(p)
    BY <2>1, <2>2, <2>3, SameOperators, ObjAssumption DEF Abstract!Apply
  <2> QED
    BY <2>4 DEF Abstract!Next
<1>2. CASE OnResolve
  <2>1. /\ h.pc = "merge" /\ h'.pc \in {"merge", "write"} /\ h'.obj = h.obj
        /\ h'.found = h.found /\ UNCHANGED <<policies, pods, applied>>
    BY <1>0, <1>2 DEF OnResolve, Track, MergePolicy, CallOK, Calls, watch
  <2>2. Promised' = Promised
    BY <2>1 DEF Promised
  <2> QED
    BY <2>1, <2>2 DEF Abstract!vars
<1>3. CASE UpdatePodParams
  <2>1. /\ h.pc = "write" /\ h'.pc = "idle" /\ h.obj \in Objs /\ h.found \in Contents
        /\ UNCHANGED <<policies, pods>> /\ applied' = [applied EXCEPT ![h.obj.uid] = h.val]
    BY <1>0, <1>3 DEF UpdatePodParams, Return, NoCall, CallOK, Calls
  <2>2. h.val = Granted(h.found, h.obj)
    BY <2>1 DEF AllInv, Inv, ResolveInv, ResolvedAsDocumented, Due
  <2>3. Promised' = Promised
    BY <1>0, <2>1, <2>2 DEF Promised
  <2> QED
    BY <2>1, <2>3 DEF Abstract!vars
<1>4. CASE OnFeed
  <2>1. SameCall /\ UNCHANGED <<pods, applied>>
    BY <1>0, <1>4, FeedSameCall DEF OnFeed
  <2>2. Promised' = Promised
    BY <2>1 DEF SameCall, Promised
  <2>3. Abstract!Learn
    BY <1>0, <2>1, <2>2 DEF Abstract!Learn, Contents
  <2> QED
    BY <2>3 DEF Abstract!Next
<1>5. CASE OnServer \/ UNCHANGED allVars
  <2>1. UNCHANGED <<h, policies, pods, applied>>
    BY <1>5 DEF OnServer, SetPolicy, writebackPolicyStatus, PolicyNames, buildStatusPatch,
                WritebackDone, ActivePodCount, PatchApplied, PatchFails, rest, allVars, vars,
                watch
  <2> QED
    BY <2>1 DEF Promised, Abstract!vars
<1>6. ASSUME NEW p \in PodNames, NEW o \in Objs, AddFunc(p, o) \/ UpdateFunc(p, o)
      PROVE Abstract!Next
  <2>1. /\ h.pc = "idle" /\ pods' = [pods EXCEPT ![p] = o]
        /\ handlePodUpdate(o) \/ UNCHANGED <<vars, applied>>
    BY <1>6 DEF AddFunc, UpdateFunc, Free
  <2>2. \/ UNCHANGED <<policies, applied>> /\ h'.pc \in {"idle", "match"}
        \/ /\ UNCHANGED <<policies, h>> /\ Ended(o.phase)
           /\ applied' = [applied EXCEPT ![o.uid] = None]
    BY <2>1, HandleEffect DEF vars
  <2>3. o.uid \in Uids
    BY UidAssumption
  <2>4. CASE Promised' = Promised
    <3>1. Abstract!See(p)
      BY <2>1, <2>2, <2>4 DEF Abstract!See
    <3> QED
      BY <3>1 DEF Abstract!Next
  <2>5. CASE UNCHANGED <<policies, applied>> /\ h'.pc \in {"idle", "match"}
    BY <2>1, <2>4, <2>5 DEF Promised
  <2>6. CASE /\ UNCHANGED <<policies, h>> /\ Ended(o.phase)
             /\ applied' = [applied EXCEPT ![o.uid] = None]
    <3>1. Promised' = [Promised EXCEPT ![o.uid] = None]
      BY <1>0, <2>1, <2>6 DEF Promised
    <3>2. CASE pods[p] # None
      <4>1. Abstract!Drop(p)
        BY <2>1, <2>6, <3>1, <3>2, ObjAssumption DEF Abstract!Drop, Ended
      <4> QED
        BY <4>1 DEF Abstract!Next
    <3>3. CASE pods[p] = None
      <4>1. applied[o.uid] = None
        BY <1>0, <1>6, <2>3, <3>3 DEF AddFunc, UpdateFunc, Known
      <4>2. Promised[o.uid] = None
        BY <2>1, <2>3, <4>1 DEF Promised
      <4>3. Promised' = Promised
        BY <2>3, <3>1, <4>2 DEF Promised
      <4> QED
        BY <2>4, <4>3
    <3> QED
      BY <3>2, <3>3
  <2> QED
    BY <2>2, <2>5, <2>6
<1>7. ASSUME NEW p \in PodNames, DeleteFunc(p) PROVE Abstract!Next
  <2>1. /\ h.pc = "idle" /\ h' = h /\ policies' = policies /\ pods[p] # None
        /\ pods' = [pods EXCEPT ![p] = None]
        /\ applied' = [applied EXCEPT ![pods[p].uid] = None]
    BY <1>7 DEF DeleteFunc, Free, onPodDelete, vars
  <2>2. Promised' = [Promised EXCEPT ![pods[p].uid] = None]
    BY <1>0, <2>1 DEF Promised
  <2>3. Abstract!Drop(p)
    BY <2>1, <2>2 DEF Abstract!Drop
  <2> QED
    BY <2>3 DEF Abstract!Next
<1> QED
  BY <1>1, <1>2, <1>3, <1>4, <1>5, <1>6, <1>7 DEF NextAll, Handle

\* The watcher, the resolver and the write of the maps together implement
\* PodParams: onPodUpdate is as good as atomic.
THEOREM Refinement == SpecAll => Atomic
<1>1. AllInv /\ AllInv' /\ [NextAll]_allVars => [Abstract!Next]_(Abstract!vars)
  BY StepRefines
<1> QED
  BY <1>1, InitRefines, WatcherInvariant, PTL DEF SpecAll, Atomic, Abstract!Spec
=============================================================================
