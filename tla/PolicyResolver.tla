---------------------------- MODULE PolicyResolver ----------------------------
(***************************************************************************)
(* internal/policy: the resolver's policy cache and its count of matching  *)
(* pods, with the write-back of those counts into the policies' status.    *)
(*                                                                         *)
(* Four goroutines share the resolver under its RWMutex: the one that      *)
(* feeds it policies (the dynamic informer, or the polling fallback), the  *)
(* pod informer's, which calls Resolve, and the status ticker's.  A step   *)
(* is one locked section, one iteration of a loop, or one API call.        *)
(*                                                                         *)
(* A policy object is its spec: equal ResourceVersions are equal specs.    *)
(***************************************************************************)
EXTENDS PolicyMerge, Sequences, FiniteSets

CONSTANTS
  Uids,                \* pod UIDs; every pod object has one
  Modes,               \* how policies may arrive: "informer", "poll"
  HasDynClient,        \* the agent has a client to write status with
  MaxWrites,           \* bound: changes to policies
  MaxCalls             \* bound: calls of Resolve

ASSUME UidAssumption == IsFiniteSet(Uids) /\ \A o \in Objs : o.uid \in Uids
ASSUME ModeAssumption == Modes \subseteq {"informer", "poll"}
ASSUME CallAssumption == /\ MaxWrites \in Nat /\ MaxCalls \in Nat
                         /\ HasDynClient \in BOOLEAN

VARIABLES
  api, writes,         \* API server: the policies
  status,              \* API server: this node's entry in each policy's status
  mode, started,       \* how policies arrive; Start has returned
  store, events,       \* informer: what it has listed, notifications to deliver
  listing,             \* polling: the list being applied, or None
  policies,            \* the resolver's cache
  matchedPods,         \* the resolver's pods per policy
  h, calls,            \* the pod informer's goroutine
  w,                   \* the status ticker's goroutine
  matched, owed        \* history: names each pod last matched; those of them
                       \* that have not left the cache since

server == <<api, writes, status>>
feed == <<mode, started, store, events, listing>>
vars == <<server, feed, policies, matchedPods, h, calls, w, matched, owed>>

NoPolicies == [n \in Policies |-> None]
Contents == [Policies -> Specs \cup {None}]
Notices == [name : Policies, spec : Specs \cup {None}]

NoCall == [pc |-> "idle", obj |-> None, found |-> NoPolicies, todo |-> {},
           weight |-> 0, budget |-> 0, owed |-> {}, val |-> None]
NoWriteback == [pc |-> "idle", names |-> {}, todo |-> {}, counts |-> NoPolicies]

Init ==
  /\ api \in Contents /\ writes = 0
  /\ status = [n \in Policies |-> NoPolicies]
  /\ mode \in Modes /\ started = (mode = "poll")
  /\ store = NoPolicies /\ events = <<>> /\ listing = None
  /\ policies = NoPolicies
  /\ matchedPods = [n \in Policies |-> {}]
  /\ h = NoCall /\ calls = 0
  /\ w = NoWriteback
  /\ matched = [u \in Uids |-> {}] /\ owed = [u \in Uids |-> {}]
-----------------------------------------------------------------------------
(* The API server and client-go (external). *)

\* A policy is created, changed or deleted (s = None), and its status with it.
SetPolicy(n, s) ==
  /\ writes < MaxWrites /\ api[n] # s
  /\ api' = [api EXCEPT ![n] = s] /\ writes' = writes + 1
  /\ status' = IF s = None THEN [status EXCEPT ![n] = NoPolicies] ELSE status
  /\ UNCHANGED <<feed, policies, matchedPods, h, calls, w, matched, owed>>

\* The informer lists or watches a change, several at once after a relist, and
\* queues the notification for the handler.
Observe(n) ==
  /\ mode = "informer" /\ store[n] # api[n]
  /\ store' = [store EXCEPT ![n] = api[n]]
  /\ events' = Append(events, [name |-> n, spec |-> api[n]])
  /\ UNCHANGED <<server, mode, started, listing, policies, matchedPods, h, calls, w,
                 matched, owed>>

\* The resync timer repeats what the store holds.
Resync(n) ==
  /\ mode = "informer" /\ store[n] # None /\ events = <<>>
  /\ events' = <<[name |-> n, spec |-> store[n]]>>
  /\ UNCHANGED <<server, mode, started, store, listing, policies, matchedPods, h, calls,
                 w, matched, owed>>
-----------------------------------------------------------------------------
(* How policies reach the cache. *)

\* Start returns: HasSynced says the list is in the informer's store.
Start ==
  /\ ~ started /\ store = api
  /\ started' = TRUE
  /\ UNCHANGED <<server, mode, store, events, listing, policies, matchedPods, h, calls,
                 w, matched, owed>>

\* History: these names have left the cache.
Forget(names) ==
  /\ owed' = [u \in Uids |-> owed[u] \ names]
  /\ h' = [h EXCEPT !.owed = @ \ names]

\* Mutant: a policy that is cached is not replaced by a later version.
addPolicy_once(e) ==
  /\ e.spec # None
  /\ policies' = IF policies[e.name] = None THEN [policies EXCEPT ![e.name] = e.spec]
                 ELSE policies
  /\ UNCHANGED <<matchedPods, h, owed>>

\* An equal ResourceVersion changes nothing.
addPolicy(e) ==
  /\ e.spec # None
  /\ policies' = [policies EXCEPT ![e.name] = e.spec]
  /\ UNCHANGED <<matchedPods, h, owed>>

\* Mutant: the pods matched by the policy are kept.
removePolicy_kept(e) ==
  /\ e.spec = None
  /\ policies' = [policies EXCEPT ![e.name] = None]
  /\ UNCHANGED matchedPods
  /\ Forget({e.name})

removePolicy(e) ==
  /\ e.spec = None
  /\ policies' = [policies EXCEPT ![e.name] = None]
  /\ matchedPods' = [matchedPods EXCEPT ![e.name] = {}]
  /\ Forget({e.name})

\* The informer's handler runs for the next notification.
PolicyEvent ==
  /\ events # <<>>
  /\ addPolicy(Head(events)) \/ removePolicy(Head(events))
  /\ events' = Tail(events)
  /\ UNCHANGED <<server, mode, started, store, listing, calls, w, matched>>

\* refreshPolicies lists the policies without the lock ...
ListPolicies ==
  /\ mode = "poll" /\ listing = None
  /\ listing' = api
  /\ UNCHANGED <<server, mode, started, store, events, policies, matchedPods, h, calls, w,
                 matched, owed>>

\* ... and replaces the cache under it; matchedPods is not touched.
refreshPolicies ==
  /\ listing # None
  /\ policies' = listing
  /\ listing' = None
  /\ Forget({n \in Policies : policies[n] # None /\ listing[n] = None})
  /\ UNCHANGED <<server, mode, started, store, events, matchedPods, calls, w, matched>>
-----------------------------------------------------------------------------
(* Resolve. *)

\* The caller has a pod object.
Call(o) ==
  /\ started /\ h.pc = "idle"
  /\ h' = [NoCall EXCEPT !.pc = "match", !.obj = o]
  /\ UNCHANGED <<server, feed, policies, matchedPods, w, matched, owed>>

\* Under the read lock.
getMatchingPolicies ==
  /\ h.pc = "match"
  /\ LET m == Matching(policies, h.obj) IN
       h' = [h EXCEPT !.pc = "merge", !.found = m, !.todo = Names(m), !.owed = Names(m)]
  /\ UNCHANGED <<server, feed, policies, matchedPods, calls, w, matched, owed>>

Greater(x, y) == IF x > y THEN x ELSE y

\* Mutant: the last policy of the iteration wins.
MergePolicy_last(n) ==
  /\ h.pc = "merge" /\ n \in h.todo
  /\ h' = [h EXCEPT !.todo = @ \ {n},
                    !.weight = IF h.found[n].weight > 0 THEN h.found[n].weight ELSE @,
                    !.budget = Greater(ToNs(h.found[n].budget), @)]
  /\ UNCHANGED <<server, feed, policies, matchedPods, calls, w, matched, owed>>

\* Mutant: the loop reads each policy from the cache as it is now.
MergePolicy_reread(n) ==
  /\ h.pc = "merge" /\ n \in h.todo
  /\ LET s == IF policies[n] = None THEN h.found[n] ELSE policies[n] IN
       h' = [h EXCEPT !.todo = @ \ {n}, !.weight = Greater(s.weight, @),
                      !.budget = Greater(ToNs(s.budget), @)]
  /\ UNCHANGED <<server, feed, policies, matchedPods, calls, w, matched, owed>>

\* One iteration over the matching policies, which a Go map yields in any order.
MergePolicy(n) ==
  /\ h.pc = "merge" /\ n \in h.todo
  /\ h' = [h EXCEPT !.todo = @ \ {n},
                    !.weight = Greater(h.found[n].weight, @),
                    !.budget = Greater(ToNs(h.found[n].budget), @)]
  /\ UNCHANGED <<server, feed, policies, matchedPods, calls, w, matched, owed>>

\* Mutant: an annotation only fills in what the policies left open.
Resolved_policy_first(o, weight, budget) ==
  [weight |-> IF weight > 0 THEN weight
              ELSE IF ParseAnnotationWeight(o.ann) > 0 THEN ParseAnnotationWeight(o.ann)
              ELSE qosDefaultWeight(o.qos),
   budget |-> IF budget > 0 THEN budget ELSE ParseAnnotationBudget(o.ann)]

\* Annotations override what the policies gave; the QoS class is the default.
Resolved(o, weight, budget) ==
  [weight |-> IF ParseAnnotationWeight(o.ann) > 0 THEN ParseAnnotationWeight(o.ann)
              ELSE IF weight > 0 THEN weight ELSE qosDefaultWeight(o.qos),
   budget |-> IF ParseAnnotationBudget(o.ann) > 0 THEN ParseAnnotationBudget(o.ann)
              ELSE budget]

\* Mutant: the pod is added to what it matches and stays where it was.
trackMatchedPods_add(u, names) ==
  matchedPods' = [n \in Policies |->
                    IF n \in names THEN matchedPods[n] \cup {u} ELSE matchedPods[n]]

\* Under the write lock: sets of policies no longer cached go, the pod is taken
\* out of the others, and added to every name it matched, cached or not.
trackMatchedPods(u, names) ==
  matchedPods' = [n \in Policies |->
                    (IF policies[n] = None THEN {} ELSE matchedPods[n] \ {u})
                      \cup (IF n \in names THEN {u} ELSE {})]

Track ==
  /\ h.pc = "merge" /\ h.todo = {}
  /\ trackMatchedPods(h.obj.uid, Names(h.found))
  /\ h' = [h EXCEPT !.pc = "write", !.val = Resolved(h.obj, h.weight, h.budget)]
  /\ matched' = [matched EXCEPT ![h.obj.uid] = Names(h.found)]
  /\ owed' = [owed EXCEPT ![h.obj.uid] = h.owed]
  /\ UNCHANGED <<server, feed, policies, calls, w>>

\* Resolve has returned and its caller is done.
Return ==
  /\ h.pc = "write"
  /\ h' = NoCall
  /\ UNCHANGED <<server, feed, policies, matchedPods, calls, w, matched, owed>>
-----------------------------------------------------------------------------
(* writebackPolicyStatus. *)

rest == <<feed, policies, matchedPods, h, calls, matched, owed>>

\* The ticker fires; with no policy cached there is nothing to write.
PolicyNames ==
  /\ HasDynClient /\ w.pc = "idle" /\ Names(policies) # {}
  /\ w' = [NoWriteback EXCEPT !.pc = "count", !.names = Names(policies),
                              !.todo = Names(policies)]
  /\ UNCHANGED <<server, rest>>

\* Mutant: the count leaves one pod out.
ActivePodCount_less(n) ==
  /\ w.pc = "count" /\ n \in w.todo
  /\ w' = [w EXCEPT !.counts[n] = Cardinality(matchedPods[n]) - 1, !.todo = @ \ {n}]
  /\ UNCHANGED <<server, rest>>

\* One count per lock.
ActivePodCount(n) ==
  /\ w.pc = "count" /\ n \in w.todo
  /\ w' = [w EXCEPT !.counts[n] = Cardinality(matchedPods[n]), !.todo = @ \ {n}]
  /\ UNCHANGED <<server, rest>>

buildStatusPatch ==
  /\ w.pc = "count" /\ w.todo = {}
  /\ w' = [w EXCEPT !.pc = "patch", !.todo = w.names]
  /\ UNCHANGED <<server, rest>>

\* Mutant: entries the status already has are left alone.
MergePatch_new(old, patch) ==
  [n \in Policies |-> IF old[n] = None THEN patch[n] ELSE old[n]]

\* JSON merge patch of this node's map (external): keys the patch does not
\* name keep their values.
MergePatch(old, patch) ==
  [n \in Policies |-> IF patch[n] # None THEN patch[n] ELSE old[n]]

\* The one patch is sent to every policy; the API server applies it ...
PatchApplied(n) ==
  /\ w.pc = "patch" /\ n \in w.todo /\ api[n] # None
  /\ status' = [status EXCEPT ![n] = MergePatch(@, w.counts)]
  /\ w' = [w EXCEPT !.todo = @ \ {n}]
  /\ UNCHANGED <<api, writes, rest>>

\* ... or the call fails, which is only logged.
PatchFails(n) ==
  /\ w.pc = "patch" /\ n \in w.todo
  /\ w' = [w EXCEPT !.todo = @ \ {n}]
  /\ UNCHANGED <<server, rest>>

WritebackDone ==
  /\ w.pc = "patch" /\ w.todo = {}
  /\ w' = NoWriteback
  /\ UNCHANGED <<server, rest>>
-----------------------------------------------------------------------------
Feed ==
  \/ Start \/ PolicyEvent \/ ListPolicies \/ refreshPolicies
  \/ \E n \in Policies : Observe(n)

Resolve ==
  \/ getMatchingPolicies \/ Track
  \/ \E n \in Policies : MergePolicy(n)

writebackPolicyStatus ==
  \/ PolicyNames \/ buildStatusPatch \/ WritebackDone
  \/ \E n \in Policies : ActivePodCount(n) \/ PatchApplied(n) \/ PatchFails(n)

Caller ==
  \/ Return
  \/ \E o \in Objs : calls < MaxCalls /\ calls' = calls + 1 /\ Call(o)

Next ==
  \/ Feed \/ Resolve \/ writebackPolicyStatus \/ Caller
  \/ \E n \in Policies : Resync(n) \/ \E s \in Specs \cup {None} : SetPolicy(n, s)

Spec == Init /\ [][Next]_vars

\* The informer's and the poller's loops run, a call of Resolve is not left
\* half done, the status ticker keeps firing, and a patch that is sent again and
\* again to a policy that exists does not fail every time.
FairSpec ==
  /\ Spec
  /\ WF_vars(Feed) /\ WF_vars(PolicyEvent) /\ WF_vars(Resolve \/ Return)
  /\ WF_vars(writebackPolicyStatus)
  /\ \A n \in Policies : WF_vars(Observe(n)) /\ SF_vars(PatchApplied(n))
-----------------------------------------------------------------------------
(* Properties. *)

Calls == [pc : {"idle", "match", "merge", "write"}, obj : Objs \cup {None},
          found : Contents, todo : SUBSET Policies, weight : Nat, budget : Nat,
          owed : SUBSET Policies, val : {None} \cup [weight : Nat, budget : Nat]]

Counts == [Policies -> Nat \cup {None}]
Writebacks == [pc : {"idle", "count", "patch"}, names : SUBSET Policies,
               todo : SUBSET Policies, counts : Counts]

CallOK ==
  /\ h \in Calls
  /\ h.pc # "idle" => h.obj # None
  /\ h.todo \subseteq Names(h.found)

\* Every variable has its type.
TypeOK ==
  /\ api \in Contents /\ writes \in Nat
  /\ status \in [Policies -> Counts]
  /\ mode \in Modes /\ started \in BOOLEAN
  /\ store \in Contents /\ policies \in Contents
  /\ events \in Seq(Notices)
  /\ listing \in Contents \cup {None}
  /\ matchedPods \in [Policies -> SUBSET Uids]
  /\ CallOK /\ calls \in Nat
  /\ w \in Writebacks
  /\ matched \in [Uids -> SUBSET Policies] /\ owed \in [Uids -> SUBSET Policies]

\* The notifications about a policy that the handler has yet to see.
Pending(n) == {i \in 1 .. Len(events) : events[i].name = n}

\* The cache lags behind the informer's store by exactly the notifications that
\* are queued: the last one about a policy carries what the store holds, and a
\* policy with none is cached as it is stored.
CacheFollowsStore ==
  mode = "informer" =>
    \A n \in Policies :
      \/ Pending(n) = {} /\ policies[n] = store[n]
      \/ \E i \in Pending(n) : events[i].spec = store[n] /\ \A j \in Pending(n) : j <= i

IsLargest(x, S) == (x = 0 \/ x \in S) /\ \A y \in S : y <= x

\* The loop invariant of Resolve: whatever the order of iteration, weight and
\* budget are the largest among the policies merged so far.
MergeInv ==
  h.pc = "merge" =>
    LET done == Names(h.found) \ h.todo IN
    /\ IsLargest(h.weight, {h.found[n].weight : n \in done})
    /\ IsLargest(h.budget, {ToNs(h.found[n].budget) : n \in done})

\* Resolve returns what its comment promises of the policies it matched, in
\* whatever order it merged them; a budget that overflows counts for what the
\* conversion leaves of it.
ResolvedAsDocumented == h.pc = "write" => Due(h.val, h.found, h.obj)

\* trackMatchedPods keeps the sets exact, whatever the policy goroutine does
\* between its match and its lock: a pod is counted only for policies its last
\* Resolve matched, and for all of those that have not left the cache since.
TrackedAsMatched ==
  \A u \in Uids : LET counted == {n \in Policies : u \in matchedPods[n]} IN
    owed[u] \subseteq counted /\ counted \subseteq matched[u]

\* A Resolve in flight when removePolicy runs may record its pod under the
\* removed name, but never more than that one pod: with the informer, a name
\* that is not cached has at most one pod.
GhostsAreSingle ==
  mode = "informer" =>
    \A n \in Policies : policies[n] = None =>
      \A u, v \in matchedPods[n] : u = v

\* When policies and pods stop changing, the cache comes to agree with the API
\* server and every policy's status with the number of pods Resolve matched,
\* although the names, the counts and the patches of a write-back are separate
\* steps.
StatusConverges ==
  <>[](/\ policies = api
       /\ HasDynClient =>
            \A n \in Policies :
              api[n] # None => status[n][n] = Cardinality(matchedPods[n]))
=============================================================================
