------------------------ MODULE AgentLifecycle_proofs ------------------------
(***************************************************************************)
(* Proofs about AgentLifecycle, for any number of agents, restarts,        *)
(* crashes, load failures and ejections: an agent that attached its        *)
(* scheduler writes other maps than that scheduler reads exactly if        *)
(* another agent removed the pins between load and Open; and until the     *)
(* watchdog ejects a scheduler, only the agent whose scheduler is attached *)
(* says it is ready.                                                       *)
(***************************************************************************)
EXTENDS AgentLifecycle, TLAPS

\* Run's variables keep their types in every step, overlapping agents or not.
LEMMA TypeStep == TypeOK /\ [Next]_vars => TypeOK'
<1> SUFFICES ASSUME TypeOK, [Next]_vars PROVE TypeOK'
  OBVIOUS
<1> USE FlagAssumption, NameAssumption DEF TypeOK, Idle, Goto
<1>1. CASE UNCHANGED vars
  BY <1>1 DEF vars
<1>2. CASE Eject
  BY <1>2 DEF Eject
<1>3. ASSUME NEW a \in Agents, NEW c \in {"handoff", "done"}, Signal(a, c) PROVE TypeOK'
  BY <1>3 DEF Signal
<1>4. ASSUME NEW a \in Agents, Start(a) \/ BecomeReady(a) \/ Cancel(a) PROVE TypeOK'
  BY <1>4 DEF Start, BecomeReady, Cancel
<1>5. ASSUME NEW a \in Agents, LoadCollection(a) \/ LoadFails(a) PROVE TypeOK'
  <2>1. pins' \in Nat /\ gen' \in Nat
    BY <1>5 DEF LoadCollection, LoadFails, PinByName
  <2> QED
    BY <1>5, <2>1 DEF LoadCollection, LoadFails
<1>6. ASSUME NEW a \in Agents, Attach(a) PROVE TypeOK'
  <2>1. attached' \in Agents \cup {Foreign, None} /\ coll' \in [Agents -> Nat]
    BY <1>6 DEF Attach
  <2>2. loaded' \in [Agents -> BOOLEAN]
    BY <1>6, Zenon DEF Attach
  <2>3. pc' \in [Agents -> Idle \cup {"load", "attach", "check", "wait", "open",
                                     "starting", "run", "close"}]
    BY <1>6 DEF Attach
  <2> QED
    BY <1>6, <2>1, <2>2, <2>3 DEF Attach
<1>7. ASSUME NEW a \in Agents, CheckContended(a) \/ Retry(a) \/ Open(a) \/ RemovePins(a)
      PROVE TypeOK'
  BY <1>7 DEF CheckContended, Retry, Open, RemovePins
<1>8. ASSUME NEW a \in Agents, CloseLink(a) \/ ObserverExit(a) \/ Crash(a) PROVE TypeOK'
  <2>1. Exit(a) /\ attached' \in Agents \cup {Foreign, None}
    BY <1>8 DEF CloseLink, ObserverExit, Crash
  <2>2. ready' \in [Agents -> BOOLEAN]
    BY <2>1, Zenon DEF Exit
  <2> QED
    BY <2>1, <2>2 DEF Exit
<1> QED
  BY <1>1, <1>2, <1>3, <1>4, <1>5, <1>6, <1>7, <1>8 DEF Next, Step

\* The initial node, with nothing pinned and no agent started, satisfies the
\* invariants.
LEMMA InitialNode == Init => TypeOK /\ PinsInv /\ ReadyInv
<1> SUFFICES ASSUME Init PROVE TypeOK /\ PinsInv /\ ReadyInv
  OBVIOUS
<1>1. TypeOK
  <2>1. loaded \in [Agents -> BOOLEAN] /\ ready \in [Agents -> BOOLEAN]
    BY Zenon DEF Init
  <2> QED
    BY <2>1, FlagAssumption, NameAssumption DEF Init, TypeOK, Idle
<1>2. PinsInv
  BY DEF Init, PinsInv, MapsMissedIffRaced
<1>3. ReadyInv
  BY DEF Init, ReadyInv, Idle
<1> QED
  BY <1>1, <1>2, <1>3

\* Pinning by name reuses what is pinned and otherwise pins maps with a number
\* no collection has.
LEMMA PinByNameFresh ==
  ASSUME TypeOK, pins <= gen, PinByName
  PROVE  /\ pins' \in Nat /\ gen' \in Nat /\ pins' \in 1 .. gen' /\ gen <= gen'
         /\ \A n \in 1 .. gen : n # pins' <=> n # pins
  BY DEF TypeOK, PinByName

\* Every step of Run, of the kernel and of the kubelet preserves the invariant
\* of the pins, also when agents overlap.
LEMMA PinsStep == TypeOK /\ PinsInv /\ [Next]_vars => PinsInv'
<1> SUFFICES ASSUME TypeOK, PinsInv, [Next]_vars PROVE PinsInv'
  OBVIOUS
<1> USE DEF PinsInv, MapsMissedIffRaced, TypeOK, Idle, Goto
<1>1. CASE UNCHANGED vars
  BY <1>1 DEF vars
<1>2. CASE Eject
  BY <1>2 DEF Eject
<1>3. ASSUME NEW a \in Agents, NEW c \in {"handoff", "done"}, Signal(a, c) PROVE PinsInv'
  BY <1>3 DEF Signal
<1>4. ASSUME NEW a \in Agents, Start(a) \/ BecomeReady(a) \/ Cancel(a) PROVE PinsInv'
  BY <1>4 DEF Start, BecomeReady, Cancel
<1>5. ASSUME NEW a \in Agents, LoadCollection(a) PROVE PinsInv'
  BY <1>5, PinByNameFresh DEF LoadCollection
<1>6. ASSUME NEW a \in Agents, LoadFails(a) PROVE PinsInv'
  BY <1>6, PinByNameFresh DEF LoadFails
<1>7. ASSUME NEW a \in Agents, Attach(a) PROVE PinsInv'
  BY <1>7 DEF Attach
<1>8. ASSUME NEW a \in Agents, CheckContended(a) \/ Retry(a) PROVE PinsInv'
  BY <1>8 DEF CheckContended, Retry
<1>9. ASSUME NEW a \in Agents, Open(a) PROVE PinsInv'
  BY <1>9 DEF Open
<1>10. ASSUME NEW a \in Agents, RemovePins(a) PROVE PinsInv'
  BY <1>10 DEF RemovePins
<1>11. ASSUME NEW a \in Agents, CloseLink(a) \/ ObserverExit(a) \/ Crash(a) PROVE PinsInv'
  <2>1. Exit(a)
    BY <1>11 DEF CloseLink, ObserverExit, Crash
  <2> QED
    BY <2>1 DEF Exit
<1> QED
  BY <1>1, <1>2, <1>3, <1>4, <1>5, <1>6, <1>7, <1>8, <1>9, <1>10, <1>11 DEF Next, Step

\* Every step of Run, of the kernel and of the kubelet preserves the invariant
\* of readiness, also when agents overlap.
LEMMA ReadyStep == TypeOK /\ ReadyInv /\ [Next]_vars => ReadyInv'
<1> SUFFICES ASSUME TypeOK, ReadyInv, [Next]_vars PROVE ReadyInv'
  OBVIOUS
<1> USE NameAssumption DEF ReadyInv, TypeOK, Idle, Goto
<1>1. CASE UNCHANGED vars
  BY <1>1 DEF vars
<1>2. CASE Eject
  BY <1>2 DEF Eject
<1>3. ASSUME NEW a \in Agents, NEW c \in {"handoff", "done"}, Signal(a, c) PROVE ReadyInv'
  BY <1>3 DEF Signal
<1>4. ASSUME NEW a \in Agents, Start(a) PROVE ReadyInv'
  BY <1>4 DEF Start
<1>5. ASSUME NEW a \in Agents, BecomeReady(a) \/ Cancel(a) PROVE ReadyInv'
  BY <1>5 DEF BecomeReady, Cancel
<1>6. ASSUME NEW a \in Agents, LoadCollection(a) \/ LoadFails(a) PROVE ReadyInv'
  BY <1>6 DEF LoadCollection, LoadFails
<1>7. ASSUME NEW a \in Agents, Attach(a) PROVE ReadyInv'
  BY <1>7 DEF Attach
<1>8. ASSUME NEW a \in Agents, CheckContended(a) \/ Retry(a) \/ Open(a) \/ RemovePins(a)
      PROVE ReadyInv'
  BY <1>8 DEF CheckContended, Retry, Open, RemovePins
<1>9. ASSUME NEW a \in Agents, CloseLink(a) \/ ObserverExit(a) \/ Crash(a) PROVE ReadyInv'
  <2>1. Exit(a) /\ (attached = a \/ attached' = attached) /\ ejects' = ejects
    BY <1>9 DEF CloseLink, ObserverExit, Crash, Exit
  <2>2. pc'[a] = "gone" /\ ~ ready'[a] /\ loaded' = loaded
    BY <2>1 DEF Exit
  <2>3. \A b \in Agents : b # a => pc'[b] = pc[b] /\ ready'[b] = ready[b]
    BY <2>1 DEF Exit
  <2> QED
    BY <2>1, <2>2, <2>3
<1> QED
  BY <1>1, <1>2, <1>3, <1>4, <1>5, <1>6, <1>7, <1>8, <1>9 DEF Next, Step

\* Run's state always has its type.
THEOREM TypeCorrect == Spec => []TypeOK
BY InitialNode, TypeStep, PTL DEF Spec

\* The pins, the collections and the open maps of any number of agents are
\* related by PinsInv in every reachable state.
THEOREM PinsInvariant == Spec => []PinsInv
BY InitialNode, TypeStep, PinsStep, PTL DEF Spec

\* An agent that attached its scheduler writes into maps that scheduler does not
\* read exactly if another agent removed the pins between its load and its Open:
\* neither crashes nor ejections nor left-over pins have that effect.
THEOREM MapsMissed == Spec => []MapsMissedIffRaced
<1>1. PinsInv => MapsMissedIffRaced
  BY DEF PinsInv
<1> QED
  BY <1>1, PinsInvariant, PTL

\* Before the first ejection, /readyz answers 200 only on the agent whose
\* scheduler the kernel runs, however agents overlap, crash and restart.
THEOREM ReadyIsAttached == Spec => []ReadyUntilEjected
<1>1. ReadyInv => ReadyUntilEjected
  BY DEF ReadyInv, ReadyUntilEjected
<1> QED
  BY <1>1, InitialNode, TypeStep, ReadyStep, PTL DEF Spec
=============================================================================
