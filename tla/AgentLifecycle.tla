--------------------------- MODULE AgentLifecycle ---------------------------
(***************************************************************************)
(* internal/sched.Agent.Run and cmd/agent: how agent processes on one node *)
(* attach the scheduler, find its pinned maps, hand over to a successor    *)
(* and leave.  The kernel (external) lets one sched_ext scheduler in at a  *)
(* time, detaches it when its link closes or the watchdog ejects it, and   *)
(* keeps pinned maps until their directory is removed.                     *)
(*                                                                         *)
(* Maps are numbered by the collection load that created them.             *)
(***************************************************************************)
EXTENDS Integers, FiniteSets

CONSTANTS
  Agents,
  MayForeign,    \* another sched_ext scheduler may be attached at the start
  Failing,       \* agents whose BPF object may fail to load
  MayCrash,      \* agents may die without a signal
  MaxEjects,     \* bound: watchdog ejections
  Foreign, None

ASSUME FlagAssumption == /\ {MayForeign, MayCrash} \subseteq BOOLEAN
                         /\ MaxEjects \in Nat /\ Failing \subseteq Agents
ASSUME NameAssumption == /\ Foreign \notin Agents /\ None \notin Agents
                         /\ Foreign # None

VARIABLES
  attached,    \* whose scheduler the kernel runs
  pins,        \* the maps pinned in mapPinDir, 0 if none
  gen,         \* maps created so far
  pc,          \* where each agent is in Run
  ctx,         \* each agent's context: live, handoff (SIGTERM), done
  coll,        \* the maps each agent's collection uses, 0 if none
  opened,      \* the maps each agent's mapOps has open, 0 if none
  loaded,      \* schedLoaded of each agent
  ready,       \* what /readyz of each agent says
  ejects,
  raced        \* history: agents whose pins were removed between load and Open

vars == <<attached, pins, gen, pc, ctx, coll, opened, loaded, ready, ejects, raced>>

Idle == {"off", "gone"}

Init ==
  /\ attached \in {None} \cup (IF MayForeign THEN {Foreign} ELSE {})
  /\ pins = 0 /\ gen = 0 /\ ejects = 0 /\ raced = {}
  /\ pc = [a \in Agents |-> "off"]
  /\ ctx = [a \in Agents |-> "live"]
  /\ coll = [a \in Agents |-> 0]
  /\ opened = [a \in Agents |-> 0]
  /\ loaded = [a \in Agents |-> FALSE]
  /\ ready = [a \in Agents |-> FALSE]

Goto(a, l) == pc' = [pc EXCEPT ![a] = l]
-----------------------------------------------------------------------------
(* Agent.Run. *)

Start(a) ==
  /\ pc[a] = "off"
  /\ Goto(a, "load")
  /\ UNCHANGED <<attached, pins, gen, ctx, coll, opened, loaded, ready, ejects, raced>>

\* Mutant: the loader insists on creating the maps itself.
LoadCollection_create(a) ==
  /\ pc[a] = "load" /\ pins = 0
  /\ gen' = gen + 1 /\ pins' = gen + 1
  /\ coll' = [coll EXCEPT ![a] = pins']
  /\ Goto(a, "attach")
  /\ raced' = raced \ {a}
  /\ UNCHANGED <<attached, ctx, opened, loaded, ready, ejects>>

\* Mutant: the maps are not pinned.
LoadCollection_unpinned(a) ==
  /\ pc[a] = "load"
  /\ gen' = gen + 1 /\ UNCHANGED pins
  /\ coll' = [coll EXCEPT ![a] = gen + 1]
  /\ Goto(a, "attach")
  /\ raced' = raced \ {a}
  /\ UNCHANGED <<attached, ctx, opened, loaded, ready, ejects>>

\* Maps pinned by name: those already in mapPinDir are reused.
PinByName ==
  IF pins = 0 THEN gen' = gen + 1 /\ pins' = gen + 1 ELSE UNCHANGED <<gen, pins>>

\* loadScheduler creates the collection.
LoadCollection(a) ==
  /\ pc[a] = "load"
  /\ PinByName
  /\ coll' = [coll EXCEPT ![a] = pins']
  /\ Goto(a, "attach")
  /\ raced' = raced \ {a}
  /\ UNCHANGED <<attached, ctx, opened, loaded, ready, ejects>>

\* An early return of loadScheduler: before the maps exist (no object file, no
\* pin directory) or after they were pinned (the programs do not load).
LoadFails(a) ==
  /\ a \in Failing /\ pc[a] = "load"
  /\ PinByName \/ UNCHANGED <<gen, pins>>
  /\ Goto(a, "check")
  /\ UNCHANGED <<attached, ctx, coll, opened, loaded, ready, ejects, raced>>

\* AttachStructOps: on failure the collection is closed, the pins stay.
Attach(a) ==
  /\ pc[a] = "attach"
  /\ \/ /\ attached = None
        /\ attached' = a
        /\ loaded' = [loaded EXCEPT ![a] = TRUE]
        /\ Goto(a, "open")
        /\ UNCHANGED coll
     \/ /\ attached # None
        /\ coll' = [coll EXCEPT ![a] = 0]
        /\ Goto(a, "check")
        /\ UNCHANGED <<attached, loaded>>
  /\ UNCHANGED <<pins, gen, ctx, opened, ready, ejects, raced>>

\* Mutant: a scheduler of any name makes the agent retry.
schedulerContended_any == attached # None

\* The scheduler registered with sched_ext is a k8s-sched one.
schedulerContended == attached \in Agents

\* loadSchedulerWithRetry after a failed load or attach: retry only when
\* another instance of k8s-sched is attached.
CheckContended(a) ==
  /\ pc[a] = "check"
  /\ Goto(a, IF schedulerContended /\ ctx[a] # "done" THEN "wait" ELSE "starting")
  /\ UNCHANGED <<attached, pins, gen, ctx, coll, opened, loaded, ready, ejects, raced>>

\* The retry interval passes, or the context is canceled.
Retry(a) ==
  /\ pc[a] = "wait"
  /\ Goto(a, IF ctx[a] = "done" THEN "starting" ELSE "load")
  /\ UNCHANGED <<attached, pins, gen, ctx, coll, opened, loaded, ready, ejects, raced>>

\* mapOps.Open: without pins the agent only logs a warning.
Open(a) ==
  /\ pc[a] = "open"
  /\ opened' = [opened EXCEPT ![a] = pins]
  /\ Goto(a, "starting")
  /\ UNCHANGED <<attached, pins, gen, ctx, coll, loaded, ready, ejects, raced>>

\* Mutant: an agent that only observes reports ready too.
BecomeReady_observer(a) ==
  /\ pc[a] = "starting"
  /\ ready' = [ready EXCEPT ![a] = TRUE]
  /\ Goto(a, "run")
  /\ UNCHANGED <<attached, pins, gen, ctx, coll, opened, loaded, ejects, raced>>

\* The watchers, loops and servers are started and readiness is set.
BecomeReady(a) ==
  /\ pc[a] = "starting"
  /\ ready' = [ready EXCEPT ![a] = loaded[a]]
  /\ Goto(a, "run")
  /\ UNCHANGED <<attached, pins, gen, ctx, coll, opened, loaded, ejects, raced>>

\* SIGTERM starts the handoff delay; SIGINT cancels at once.
Signal(a, c) ==
  /\ pc[a] \notin Idle /\ ctx[a] = "live"
  /\ ctx' = [ctx EXCEPT ![a] = c]
  /\ UNCHANGED <<attached, pins, gen, pc, coll, opened, loaded, ready, ejects, raced>>

\* HandoffDelay has passed, or a second signal came.
Cancel(a) ==
  /\ pc[a] \notin Idle /\ ctx[a] = "handoff"
  /\ ctx' = [ctx EXCEPT ![a] = "done"]
  /\ UNCHANGED <<attached, pins, gen, pc, coll, opened, loaded, ready, ejects, raced>>

\* Run returns: its deferred calls remove the pins first ...
RemovePins(a) ==
  /\ pc[a] = "run" /\ ctx[a] = "done" /\ loaded[a]
  /\ pins' = 0
  /\ raced' = raced \cup {b \in Agents : pc[b] \in {"attach", "open"}}
  /\ Goto(a, "close")
  /\ UNCHANGED <<attached, gen, ctx, coll, opened, loaded, ready, ejects>>

Exit(a) ==
  /\ Goto(a, "gone")
  /\ ready' = [ready EXCEPT ![a] = FALSE]
  /\ coll' = [coll EXCEPT ![a] = 0]
  /\ opened' = [opened EXCEPT ![a] = 0]
  /\ raced' = raced \ {a}
  /\ UNCHANGED <<pins, gen, ctx, loaded, ejects>>

\* Mutant: the link outlives the agent (as if it were pinned).
CloseLink_leaked(a) ==
  /\ pc[a] = "close"
  /\ UNCHANGED attached
  /\ Exit(a)

\* ... and then close the link, which detaches this agent's scheduler if it is
\* still the one the kernel runs.
CloseLink(a) ==
  /\ pc[a] = "close"
  /\ attached' = IF attached = a THEN None ELSE attached
  /\ Exit(a)

ObserverExit(a) ==
  /\ pc[a] = "run" /\ ctx[a] = "done" /\ ~ loaded[a]
  /\ UNCHANGED attached
  /\ Exit(a)
-----------------------------------------------------------------------------
(* The kernel and the kubelet (external). *)

\* The process dies, or the kubelet kills it when the grace period after SIGTERM
\* is over: its link closes with it, the pins stay.
Crash(a) ==
  /\ pc[a] \notin Idle /\ (MayCrash \/ ctx[a] # "live")
  /\ attached' = IF attached = a THEN None ELSE attached
  /\ Exit(a)

\* The watchdog ejects the scheduler; the agent is not told.
Eject ==
  /\ attached \in Agents /\ ejects < MaxEjects
  /\ attached' = None /\ ejects' = ejects + 1
  /\ UNCHANGED <<pins, gen, pc, ctx, coll, opened, loaded, ready, raced>>
-----------------------------------------------------------------------------
Step(a) ==
  \/ LoadCollection(a) \/ LoadFails(a) \/ Attach(a) \/ CheckContended(a) \/ Retry(a)
  \/ Open(a) \/ RemovePins(a) \/ CloseLink(a) \/ ObserverExit(a)

Next ==
  \/ \E a \in Agents : Start(a) \/ Step(a) \/ BecomeReady(a) \/ Cancel(a) \/ Crash(a)
  \/ \E a \in Agents, c \in {"handoff", "done"} : Signal(a, c)
  \/ Eject

Spec == Init /\ [][Next]_vars

\* The steps of Run wait for timers only, except that BecomeReady waits for the
\* API server (WaitForCacheSync) and so may never happen.  The handoff timer
\* fires, and the kubelet kills what outlives its grace period.
FairSpec ==
  /\ Spec
  /\ \A a \in Agents : /\ WF_vars(Step(a)) /\ WF_vars(Cancel(a))
                       /\ WF_vars(ctx[a] # "live" /\ Crash(a))
-----------------------------------------------------------------------------
(* Properties. *)

\* Every variable has its type.
TypeOK ==
  /\ attached \in Agents \cup {Foreign, None}
  /\ pins \in Nat /\ gen \in Nat /\ ejects \in 0 .. MaxEjects
  /\ pc \in [Agents -> Idle \cup {"load", "attach", "check", "wait", "open", "starting",
                                  "run", "close"}]
  /\ ctx \in [Agents -> {"live", "handoff", "done"}]
  /\ coll \in [Agents -> Nat] /\ opened \in [Agents -> Nat]
  /\ loaded \in [Agents -> BOOLEAN] /\ ready \in [Agents -> BOOLEAN]
  /\ raced \subseteq Agents

\* An agent that has come up with its scheduler attached writes the very maps
\* that scheduler reads: Maps.Open finds what loadScheduler pinned.
MapsAgree ==
  \A a \in Agents : attached = a /\ pc[a] \in {"starting", "run"} => opened[a] = coll[a]

\* However agents overlap, contend, crash and are ejected: an agent that has
\* attached its scheduler writes other maps than that scheduler reads if and
\* only if another agent removed the pins between its loadScheduler and its
\* Maps.Open.  The pins a killed agent left behind do no such harm.
MapsMissedIffRaced ==
  \A a \in Agents :
    loaded[a] /\ pc[a] \in {"starting", "run"} => (opened[a] # coll[a] <=> a \in raced)

\* The inductive form of MapsMissedIffRaced: until Open, the pins are the maps
\* of the agent's collection exactly if nobody removed them; maps have numbers
\* up to gen, so that the pins of a later load are never old ones.
PinsInv ==
  /\ pins <= gen
  /\ \A a \in Agents : pc[a] \in {"attach", "open"} =>
       coll[a] \in 1 .. gen /\ (coll[a] # pins <=> a \in raced)
  /\ \A a \in Agents : pc[a] \in {"off", "load", "attach", "check", "wait"} => ~ loaded[a]
  /\ MapsMissedIffRaced

\* Until the watchdog ejects a scheduler, /readyz answers 200 only on the agent
\* whose scheduler the kernel runs, although readiness is stored once and agents
\* come, go and contend afterwards.
ReadyUntilEjected ==
  ejects = 0 => \A a \in Agents : ready[a] => attached = a

\* The inductive form of ReadyUntilEjected: an agent that runs with its link
\* open holds the attachment, and only such an agent is ready.
ReadyInv ==
  /\ ejects = 0 => \A a \in Agents : loaded[a] /\ pc[a] \notin Idle => attached = a
  /\ \A a \in Agents : ready[a] => loaded[a] /\ pc[a] \notin Idle
  /\ \A a \in Agents : pc[a] \in {"off", "load", "attach", "check", "wait"} => ~ loaded[a]

\* A replacement does not retry for ever: once every other agent is leaving, it
\* comes up (with or without the scheduler), unless yet another live agent has
\* attached in the meantime.
WaitEnds ==
  \A a \in Agents :
    (/\ pc[a] = "wait"
     /\ \A b \in Agents \ {a} : pc[b] \in Idle \/ ctx[b] # "live")
      ~> \/ pc[a] \in {"open", "starting", "run", "gone"}
         \/ \E b \in Agents \ {a} : attached = b /\ ctx[b] = "live"

\* An agent that starts on a node where nothing is attached and no other agent
\* is left takes over, whatever pins a killed predecessor left behind.
RestartTakesOver ==
  \A a \in Agents \ Failing :
    (/\ pc[a] = "load" /\ attached = None
     /\ \A b \in Agents \ {a} : pc[b] = "gone")
      ~> (attached = a \/ pc[a] = "gone" \/ ejects > 0)

\* README.md, "Foreign schedulers are respected: the agent goes observe-only
\* instead of fighting for the CPU": beside a foreign scheduler an agent stops
\* attaching and settles, not ready.
ForeignRespected ==
  \A a \in Agents :
    attached = Foreign /\ pc[a] = "load" ~> (pc[a] \in {"starting", "run"} /\ ~ ready[a]) \/ pc[a] = "gone"
=============================================================================
