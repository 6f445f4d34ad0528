------------------------ MODULE PolicyResolver_proofs ------------------------
(***************************************************************************)
(* Proofs about PolicyResolver, for any policies, pods, number of changes  *)
(* and of calls: what Resolve returns, which pods are counted, and how far *)
(* the cache is behind the informer.                                       *)
(***************************************************************************)
EXTENDS PolicyResolver, FiniteSetTheorems, TLAPS

\* A step of the resolver under any caller of Resolve: the one of Next, or the
\* pod watcher.
Step ==
  \/ Feed \/ Resolve \/ writebackPolicyStatus \/ Return
  \/ \E o \in Objs : Call(o) /\ calls' \in Nat
  \/ \E n \in Policies : Resync(n) \/ \E s \in Specs \cup {None} : SetPolicy(n, s)

\* A step of Next is such a step.
LEMMA NextIsStep == TypeOK /\ [Next]_vars => [Step]_vars
<1> SUFFICES ASSUME TypeOK, Next PROVE Step
  OBVIOUS
<1>1. CASE \E o \in Objs : calls < MaxCalls /\ calls' = calls + 1 /\ Call(o)
  <2>1. calls' \in Nat
    BY <1>1 DEF TypeOK
  <2> QED
    BY <1>1, <2>1 DEF Step
<1> QED
  BY <1>1 DEF Next, Caller, Step

\* A budget converted to nanoseconds is a u64.
LEMMA ToNsType == ASSUME NEW b \in Nat PROVE ToNs(b) \in Nat
<1>1. b * NsPerUs \in Nat
  BY WidthAssumption
<1> QED
  BY <1>1, WidthAssumption DEF ToNs

\* Below the width of a word the conversion is the product.
LEMMA ToNsExact ==
  ASSUME NEW b \in Nat, b * NsPerUs < Word
  PROVE ToNs(b) = b * NsPerUs
<1>1. b * NsPerUs \in Nat
  BY WidthAssumption
<1> QED
  BY <1>1, WidthAssumption DEF ToNs

\* What Resolve combines from numbers are numbers.
LEMMA ResolvedType ==
  ASSUME NEW o \in Objs, NEW x \in Nat, NEW b \in Nat
  PROVE Resolved(o, x, b) \in [weight : Nat, budget : Nat]
<1>1. ParseAnnotationWeight(o.ann) \in Nat
  <2>1. o.ann.weight \in Nat /\ o.ann.importance \in Nat
    BY ObjAssumption
  <2>2. o.ann.importance * 100 \in Nat /\ 0 \in Nat
    BY <2>1
  <2> QED
    BY <2>1, <2>2 DEF ParseAnnotationWeight
<1>2. ParseAnnotationBudget(o.ann) \in Nat
  BY ToNsType, ObjAssumption DEF ParseAnnotationBudget
<1>3. qosDefaultWeight(o.qos) \in Nat
  BY DEF qosDefaultWeight
<1> QED
  BY <1>1, <1>2, <1>3 DEF Resolved

\* The matching policies are a subset of the cache.
LEMMA MatchingType ==
  ASSUME NEW pols \in Contents, NEW o
  PROVE /\ Matching(pols, o) \in Contents
        /\ Names(Matching(pols, o)) \subseteq Names(pols)
        /\ Names(pols) \subseteq Policies
BY DEF Matching, Contents, Names

\* The resolver's variables keep their types.
LEMMA TypeStep == TypeOK /\ [Step]_vars => TypeOK'
<1> SUFFICES ASSUME TypeOK, [Step]_vars PROVE TypeOK'
  OBVIOUS
<1>1. CASE UNCHANGED vars
  BY <1>1 DEF vars, server, feed, TypeOK, CallOK
<1>2. ASSUME NEW n \in Policies, NEW s \in Specs \cup {None}, SetPolicy(n, s) PROVE TypeOK'
  <2>1. status' \in [Policies -> Counts]
    BY <1>2 DEF SetPolicy, TypeOK, NoPolicies, Counts
  <2>2. api' \in Contents
    BY <1>2 DEF SetPolicy, TypeOK, Contents
  <2> QED
    BY <1>2, <2>1, <2>2 DEF SetPolicy, TypeOK, CallOK, feed
<1>3. ASSUME NEW n \in Policies, Observe(n) \/ Resync(n) PROVE TypeOK'
  <2>1. api[n] \in Specs \cup {None} /\ store[n] \in Specs \cup {None}
    BY DEF TypeOK, Contents
  <2>2. /\ [name |-> n, spec |-> api[n]] \in Notices
        /\ [name |-> n, spec |-> store[n]] \in Notices
    BY <2>1 DEF Notices
  <2>3. events \in Seq(Notices) /\ \A e \in Notices : <<e>> \in Seq(Notices)
    BY DEF TypeOK
  <2>4. \A e \in Notices : Append(events, e) \in Seq(Notices)
    BY <2>3
  <2>5. events' \in Seq(Notices)
    BY <1>3, <2>2, <2>3, <2>4, Zenon DEF Observe, Resync
  <2>6. store' \in Contents
    BY <1>3, <2>1 DEF Observe, Resync, TypeOK, Contents
  <2> QED
    BY <1>3, <2>5, <2>6 DEF Observe, Resync, TypeOK, CallOK, server
<1>4. CASE Start
  BY <1>4 DEF Start, TypeOK, CallOK, server
<1>5. ASSUME NEW S \in SUBSET Policies, Forget(S)
      PROVE CallOK' /\ owed' \in [Uids -> SUBSET Policies]
  BY <1>5 DEF Forget, TypeOK, CallOK, Calls
<1>6. CASE PolicyEvent
  <2>1. Head(events) \in Notices /\ events' \in Seq(Notices)
    BY <1>6 DEF PolicyEvent, TypeOK
  <2>2. PICK e \in Notices : e = Head(events)
    BY <2>1
  <2>3. e.name \in Policies /\ e.spec \in Specs \cup {None}
    BY DEF Notices
  <2>4. CASE addPolicy(e)
    BY <1>6, <2>1, <2>3, <2>4 DEF addPolicy, PolicyEvent, TypeOK, CallOK, server, Contents
  <2>5. CASE removePolicy(e)
    <3>1. policies' \in Contents /\ matchedPods' \in [Policies -> SUBSET Uids]
      BY <2>3, <2>5 DEF removePolicy, TypeOK, Contents
    <3>2. CallOK' /\ owed' \in [Uids -> SUBSET Policies]
      BY <1>5, <2>3, <2>5 DEF removePolicy
    <3> QED
      BY <1>6, <2>1, <3>1, <3>2 DEF PolicyEvent, TypeOK, CallOK, server
  <2> QED
    BY <1>6, <2>2, <2>4, <2>5 DEF PolicyEvent
<1>7. CASE ListPolicies
  BY <1>7 DEF ListPolicies, TypeOK, CallOK, server
<1>8. CASE refreshPolicies
  <2>1. CallOK' /\ owed' \in [Uids -> SUBSET Policies]
    BY <1>5, <1>8 DEF refreshPolicies
  <2> QED
    BY <1>8, <2>1 DEF refreshPolicies, TypeOK, CallOK, server
<1>9. ASSUME NEW o \in Objs, Call(o), calls' \in Nat PROVE TypeOK'
  <2>1. CallOK'
    BY <1>9, ObjAssumption DEF Call, NoCall, NoPolicies, Contents, CallOK, Calls, Names
  <2> QED
    BY <1>9, <2>1 DEF Call, TypeOK, server, feed
<1>10. CASE getMatchingPolicies
  <2>1. /\ Matching(policies, h.obj) \in Contents
        /\ Names(Matching(policies, h.obj)) \in SUBSET Policies
    BY MatchingType DEF TypeOK
  <2>2. CallOK'
    BY <1>10, <2>1 DEF getMatchingPolicies, TypeOK, CallOK, Calls
  <2> QED
    BY <1>10, <2>2 DEF getMatchingPolicies, TypeOK, server, feed
<1>11. ASSUME NEW n \in Policies, MergePolicy(n) PROVE TypeOK'
  <2>1. h.found[n].weight \in Nat /\ ToNs(h.found[n].budget) \in Nat
    <3>1. h.found[n] \in Specs
      BY <1>11 DEF MergePolicy, TypeOK, CallOK, Calls, Contents, Names
    <3> QED
      BY <3>1, ToNsType, SpecAssumption
  <2>2. /\ Greater(h.found[n].weight, h.weight) \in Nat
        /\ Greater(ToNs(h.found[n].budget), h.budget) \in Nat
    BY <2>1 DEF TypeOK, CallOK, Calls, Greater
  <2>3. CallOK'
    BY <1>11, <2>2 DEF MergePolicy, TypeOK, CallOK, Calls
  <2> QED
    BY <1>11, <2>3 DEF MergePolicy, TypeOK, server, feed
<1>12. CASE Track
  <2>1. h.weight \in Nat /\ h.budget \in Nat /\ h.obj \in Objs
    BY <1>12 DEF Track, TypeOK, CallOK, Calls
  <2>2. CallOK'
    BY <1>12, <2>1, ResolvedType DEF Track, TypeOK, CallOK, Calls
  <2>3. matchedPods' \in [Policies -> SUBSET Uids]
    BY <1>12, <2>1, UidAssumption DEF Track, trackMatchedPods, TypeOK
  <2>4. matched' \in [Uids -> SUBSET Policies] /\ owed' \in [Uids -> SUBSET Policies]
    BY <1>12, <2>1, UidAssumption DEF Track, TypeOK, CallOK, Calls, Names
  <2> QED
    BY <1>12, <2>2, <2>3, <2>4 DEF Track, TypeOK, server, feed
<1>13. CASE Return
  <2>1. CallOK'
    BY <1>13 DEF Return, NoCall, NoPolicies, Contents, CallOK, Calls, Names
  <2> QED
    BY <1>13, <2>1 DEF Return, TypeOK, server, feed
<1>14. CASE PolicyNames \/ buildStatusPatch \/ WritebackDone
  <2>1. NoWriteback \in Writebacks
    BY DEF NoWriteback, NoPolicies, Writebacks, Counts
  <2>2. w' \in Writebacks
    <3>1. CASE PolicyNames
      BY <2>1, <3>1 DEF PolicyNames, Writebacks, Names
    <3>2. CASE buildStatusPatch
      BY <3>2 DEF buildStatusPatch, Writebacks, TypeOK
    <3>3. CASE WritebackDone
      BY <2>1, <3>3 DEF WritebackDone
    <3> QED
      BY <1>14, <3>1, <3>2, <3>3
  <2> QED
    BY <1>14, <2>2 DEF PolicyNames, buildStatusPatch, WritebackDone, TypeOK, CallOK,
                       server, rest, feed
<1>15. ASSUME NEW n \in Policies, ActivePodCount(n) PROVE TypeOK'
  <2>1. Cardinality(matchedPods[n]) \in Nat
    <3>1. matchedPods[n] \subseteq Uids
      BY DEF TypeOK
    <3> QED
      BY <3>1, UidAssumption, FS_Subset, FS_CardinalityType
  <2>2. [w.counts EXCEPT ![n] = Cardinality(matchedPods[n])] \in Counts
    BY <2>1 DEF TypeOK, Writebacks, Counts
  <2>3. w' \in Writebacks
    BY <1>15, <2>2 DEF ActivePodCount, TypeOK, Writebacks
  <2> QED
    BY <1>15, <2>3 DEF ActivePodCount, TypeOK, CallOK, server, rest, feed
<1>16. ASSUME NEW n \in Policies, PatchApplied(n) \/ PatchFails(n) PROVE TypeOK'
  <2>1. w' \in Writebacks
    BY <1>16 DEF PatchApplied, PatchFails, TypeOK, Writebacks
  <2>2. MergePatch(status[n], w.counts) \in Counts
    BY DEF MergePatch, TypeOK, Writebacks, Counts
  <2>3. status' \in [Policies -> Counts]
    BY <1>16, <2>2 DEF PatchApplied, PatchFails, TypeOK, server
  <2> QED
    BY <1>16, <2>1, <2>3 DEF PatchApplied, PatchFails, TypeOK, CallOK, server, rest, feed
<1> QED
  BY <1>1, <1>2, <1>3, <1>4, <1>6, <1>7, <1>8, <1>9, <1>10, <1>11, <1>12, <1>13, <1>14,
     <1>15, <1>16
  DEF Step, Feed, Resolve, writebackPolicyStatus
-----------------------------------------------------------------------------
(* What Resolve returns. *)

SameCall ==
  /\ h'.pc = h.pc /\ h'.obj = h.obj /\ h'.found = h.found /\ h'.todo = h.todo
  /\ h'.weight = h.weight /\ h'.budget = h.budget /\ h'.val = h.val

\* The steps that bring policies leave the call under way alone.
LEMMA FeedSameCall ==
  ASSUME TypeOK, Feed
  PROVE SameCall
<1>1. ASSUME NEW S, Forget(S) PROVE SameCall
  BY <1>1 DEF Forget, SameCall, TypeOK, CallOK, Calls
<1> QED
  BY <1>1 DEF Feed, Start, PolicyEvent, addPolicy, removePolicy, ListPolicies,
              refreshPolicies, Observe, SameCall

\* Only the steps of Resolve and of its caller change the call under way.
LEMMA CallSteps ==
  ASSUME TypeOK, [Step]_vars
  PROVE \/ SameCall \/ getMatchingPolicies \/ Track \/ Return
        \/ \E o \in Objs : Call(o)
        \/ \E n \in Policies : MergePolicy(n)
<1>1. CASE UNCHANGED vars
  BY <1>1 DEF vars, SameCall
<1>2. CASE Feed
  BY <1>2, FeedSameCall
<1>3. CASE writebackPolicyStatus
  BY <1>3 DEF writebackPolicyStatus, PolicyNames, buildStatusPatch, WritebackDone,
              ActivePodCount, PatchApplied, PatchFails, rest, SameCall
<1>4. CASE \E n \in Policies : Resync(n) \/ \E s \in Specs \cup {None} : SetPolicy(n, s)
  BY <1>4 DEF Resync, SetPolicy, SameCall
<1> QED
  BY <1>1, <1>2, <1>3, <1>4 DEF Step, Resolve

\* The larger of a number and the largest of a set is the largest of both.
LEMMA LargestWith ==
  ASSUME NEW S \in SUBSET Nat, NEW x \in Nat, IsLargest(x, S), NEW y \in Nat
  PROVE IsLargest(Greater(y, x), S \cup {y})
BY DEF IsLargest, Greater

\* Largest is the element no other exceeds.
LEMMA LargestUnique ==
  ASSUME NEW S \in SUBSET Nat, NEW x \in S, \A y \in S : y <= x
  PROVE Largest(S) = x
<1>1. \E z \in S : \A y \in S : y <= z
  OBVIOUS
<1>2. Largest(S) \in S /\ \A y \in S : y <= Largest(S)
  BY <1>1, Zenon DEF Largest
<1>3. PICK z \in S : z = Largest(S)
  BY <1>2
<1>4. z \in Nat /\ x \in Nat /\ z <= x /\ x <= z
  BY <1>2, <1>3
<1> QED
  BY <1>3, <1>4

\* Conversion to nanoseconds keeps the order of budgets.
LEMMA NsOrder ==
  ASSUME NEW x \in Nat, NEW y \in Nat, x * NsPerUs <= y * NsPerUs
  PROVE x <= y
<1> SUFFICES ASSUME y + 1 <= x PROVE FALSE
  OBVIOUS
<1>1. (y + 1) * NsPerUs <= x * NsPerUs
  BY WidthAssumption
<1>2. (y + 1) * NsPerUs = y * NsPerUs + NsPerUs
  BY WidthAssumption
<1> QED
  BY <1>1, <1>2, WidthAssumption

\* The contents a policy of a match may have.
LEMMA MatchedSpecs ==
  ASSUME NEW m \in Contents
  PROVE \A n \in Names(m) : m[n] \in Specs /\ m[n].weight \in Nat /\ m[n].budget \in Nat
BY SpecAssumption DEF Contents, Names

\* The largest weight the loop of Resolve found is the one the rule takes.
LEMMA WeightOfRule ==
  ASSUME NEW m \in Contents, NEW x \in Nat, IsLargest(x, {m[n].weight : n \in Names(m)})
  PROVE IF Weights(m) # {} THEN x > 0 /\ Largest(Weights(m)) = x ELSE x = 0
<1>1. \A n \in Names(m) : m[n].weight \in Nat
  BY MatchedSpecs
<1>2. Weights(m) \in SUBSET Nat
  BY <1>1 DEF Weights
<1>3. CASE x = 0
  <2>1. Weights(m) = {}
    BY <1>1, <1>3 DEF Weights, IsLargest
  <2> QED
    BY <1>3, <2>1
<1>4. CASE x # 0
  <2>1. x \in Weights(m) /\ \A y \in Weights(m) : y <= x
    BY <1>4 DEF Weights, IsLargest
  <2>2. Largest(Weights(m)) = x
    BY <1>2, <2>1, LargestUnique
  <2> QED
    BY <1>4, <2>1, <2>2
<1> QED
  BY <1>3, <1>4

\* If the loop of Resolve found the largest weight and the largest budget of the
\* policies, the parameters it derives are those of the rule on budgets as
\* converted, whether they overflow or not.
LEMMA LargestIsGranted ==
  ASSUME NEW m \in Contents, NEW o \in Objs, NEW x \in Nat, NEW b \in Nat,
         IsLargest(x, {m[n].weight : n \in Names(m)}),
         IsLargest(b, {ToNs(m[n].budget) : n \in Names(m)})
  PROVE Resolved(o, x, b) = Granted(m, o)
<1> DEFINE B == {ToNs(y) : y \in Budgets(m) \cup {0}}
<1>1. \A n \in Names(m) : m[n].budget \in Nat
  BY MatchedSpecs
<1>2. ToNs(0) = 0
  BY ToNsExact, WidthAssumption
<1>3. B \in SUBSET Nat
  BY <1>1, ToNsType DEF Budgets
<1>4. B = {ToNs(m[n].budget) : n \in Names(m)} \cup {0}
  BY <1>2 DEF Budgets
<1>5. b \in B /\ \A y \in B : y <= b
  BY <1>4 DEF IsLargest
<1>6. Largest(B) = b
  BY <1>3, <1>5, LargestUnique
<1>7. IF Weights(m) # {} THEN x > 0 /\ Largest(Weights(m)) = x ELSE x = 0
  BY WeightOfRule
<1> HIDE DEF B
<1>8. Granted(m, o) = [Documented(m, o) EXCEPT !.budget =
                         IF ToNs(o.ann.budget) > 0 THEN ToNs(o.ann.budget) ELSE Largest(B)]
  BY Zenon DEF Granted, B
<1>9. Granted(m, o) =
        [weight |-> Documented(m, o).weight,
         budget |-> IF ToNs(o.ann.budget) > 0 THEN ToNs(o.ann.budget) ELSE b]
  BY <1>6, <1>8 DEF Documented
<1>10. Resolved(o, x, b).weight = Documented(m, o).weight
  BY <1>7 DEF Resolved, Documented
<1> QED
  BY <1>9, <1>10 DEF Resolved, ParseAnnotationBudget

\* And they are the documented ones as long as no budget overflows.
LEMMA LargestIsDocumented ==
  ASSUME NEW m \in Contents, NEW o \in Objs, NEW x \in Nat, NEW b \in Nat, Fits(m, o),
         IsLargest(x, {m[n].weight : n \in Names(m)}),
         IsLargest(b, {ToNs(m[n].budget) : n \in Names(m)})
  PROVE Resolved(o, x, b) = Documented(m, o)
<1>1. \A n \in Names(m) : m[n] \in Specs /\ m[n].weight \in Nat /\ m[n].budget \in Nat
  BY MatchedSpecs
<1>2. IF Weights(m) # {} THEN x > 0 /\ Largest(Weights(m)) = x ELSE x = 0
  BY WeightOfRule
<1>3. \A n \in Names(m) : ToNs(m[n].budget) = m[n].budget * NsPerUs
  BY <1>1, ToNsExact DEF Fits, Budgets
<1>4. b = Largest(Budgets(m) \cup {0}) * NsPerUs
  <2>1. Budgets(m) \cup {0} \in SUBSET Nat
    BY <1>1 DEF Budgets
  <2>2. PICK y \in Budgets(m) \cup {0} : b = y * NsPerUs
    <3>1. CASE b = 0
      BY <3>1, WidthAssumption
    <3>2. CASE b # 0
      BY <1>3, <3>2 DEF IsLargest, Budgets
    <3> QED
      BY <3>1, <3>2
  <2>3. ASSUME NEW z \in Budgets(m) \cup {0} PROVE z <= y
    <3>1. z * NsPerUs <= y * NsPerUs
      <4>1. CASE z = 0
        BY <2>2, <4>1, WidthAssumption
      <4>2. CASE z \in Budgets(m)
        BY <1>3, <2>2, <4>2 DEF IsLargest, Budgets
      <4> QED
        BY <4>1, <4>2
    <3> QED
      BY <2>1, <3>1, NsOrder
  <2> QED
    BY <2>1, <2>2, <2>3, LargestUnique
<1>5. /\ o.ann.budget \in Nat
      /\ ParseAnnotationBudget(o.ann) = o.ann.budget * NsPerUs
  BY ToNsExact, ObjAssumption DEF Fits, ParseAnnotationBudget
<1>6. ParseAnnotationBudget(o.ann) > 0 <=> o.ann.budget > 0
  <2>1. o.ann.budget > 0 => o.ann.budget * NsPerUs > 0
    BY <1>5, WidthAssumption
  <2>2. 0 * NsPerUs = 0
    BY WidthAssumption
  <2> QED
    BY <1>5, <2>1, <2>2
<1> QED
  BY <1>2, <1>4, <1>5, <1>6 DEF Resolved, Documented

\* The inductive invariant of Resolve: a call starts from zero, its loop has the
\* largest so far, and it ends with the documented parameters.
ResolveInv ==
  /\ h.pc = "match" => h.weight = 0 /\ h.budget = 0
  /\ MergeInv /\ ResolvedAsDocumented

\* Every step of Resolve preserves it, and no other step disturbs it.
LEMMA ResolveStep == TypeOK /\ ResolveInv /\ [Step]_vars => ResolveInv'
<1> SUFFICES ASSUME TypeOK, ResolveInv, [Step]_vars PROVE ResolveInv'
  OBVIOUS
<1>1. CASE SameCall
  BY <1>1 DEF SameCall, ResolveInv, MergeInv, ResolvedAsDocumented
<1>2. ASSUME NEW o \in Objs, Call(o) PROVE ResolveInv'
  BY <1>2 DEF Call, NoCall, ResolveInv, MergeInv, ResolvedAsDocumented
<1>3. CASE getMatchingPolicies
  <2>1. /\ h'.pc = "merge" /\ Names(h'.found) \ h'.todo = {}
        /\ h'.weight = 0 /\ h'.budget = 0
    BY <1>3 DEF getMatchingPolicies, ResolveInv, TypeOK, CallOK, Calls
  <2> QED
    BY <2>1 DEF ResolveInv, MergeInv, ResolvedAsDocumented, IsLargest
<1>4. ASSUME NEW n \in Policies, MergePolicy(n) PROVE ResolveInv'
  <2> DEFINE done == Names(h.found) \ h.todo
             W == {h.found[k].weight : k \in done}
             B == {ToNs(h.found[k].budget) : k \in done}
  <2>1. n \in h.todo /\ h.pc = "merge" /\ n \in Names(h.found)
    BY <1>4 DEF MergePolicy, TypeOK, CallOK
  <2>2. /\ h'.pc = "merge" /\ h'.found = h.found /\ h'.todo = h.todo \ {n}
        /\ h'.weight = Greater(h.found[n].weight, h.weight)
        /\ h'.budget = Greater(ToNs(h.found[n].budget), h.budget)
    BY <1>4 DEF MergePolicy, TypeOK, CallOK, Calls
  <2>3. \A k \in Names(h.found) :
          h.found[k].weight \in Nat /\ ToNs(h.found[k].budget) \in Nat
    BY ToNsType, SpecAssumption DEF TypeOK, CallOK, Calls, Contents, Names
  <2>4. W \in SUBSET Nat /\ B \in SUBSET Nat
    BY <2>3
  <2>5. IsLargest(h.weight, W) /\ IsLargest(h.budget, B)
    BY <2>1 DEF ResolveInv, MergeInv
  <2>6. h.weight \in Nat /\ h.budget \in Nat
    BY DEF TypeOK, CallOK, Calls
  <2>7. /\ IsLargest(h'.weight, W \cup {h.found[n].weight})
        /\ IsLargest(h'.budget, B \cup {ToNs(h.found[n].budget)})
    BY <2>1, <2>2, <2>3, <2>4, <2>5, <2>6, LargestWith
  <2>8. Names(h'.found) \ h'.todo = done \cup {n}
    BY <2>1, <2>2
  <2>9. /\ {h'.found[k].weight : k \in Names(h'.found) \ h'.todo} = W \cup {h.found[n].weight}
        /\ {ToNs(h'.found[k].budget) : k \in Names(h'.found) \ h'.todo}
             = B \cup {ToNs(h.found[n].budget)}
    BY <2>2, <2>8
  <2> QED
    BY <2>2, <2>7, <2>9 DEF ResolveInv, MergeInv, ResolvedAsDocumented
<1>5. CASE Track
  <2>1. /\ h.pc = "merge" /\ Names(h.found) \ h.todo = Names(h.found)
        /\ h.found \in Contents /\ h.obj \in Objs /\ h.weight \in Nat /\ h.budget \in Nat
    BY <1>5 DEF Track, TypeOK, CallOK, Calls
  <2>2. /\ h'.pc = "write" /\ h'.found = h.found /\ h'.obj = h.obj
        /\ h'.val = Resolved(h.obj, h.weight, h.budget)
    BY <1>5 DEF Track, TypeOK, CallOK, Calls
  <2>3. Due(h'.val, h.found, h.obj)
    BY <2>1, <2>2, LargestIsGranted, LargestIsDocumented DEF ResolveInv, MergeInv, Due
  <2> QED
    BY <2>2, <2>3 DEF ResolveInv, MergeInv, ResolvedAsDocumented
<1>6. CASE Return
  BY <1>6 DEF Return, NoCall, ResolveInv, MergeInv, ResolvedAsDocumented
<1> QED
  BY <1>1, <1>2, <1>3, <1>4, <1>5, <1>6, CallSteps
-----------------------------------------------------------------------------
(* Which pods are counted. *)

\* The inductive invariant of matchedPods: what is owed to a pod, or to the call
\* under way, is still cached; only polling lists policies.
TrackInv ==
  /\ TrackedAsMatched /\ GhostsAreSingle
  /\ mode = "informer" => listing = None
  /\ \A u \in Uids : owed[u] \subseteq Names(policies)
  /\ h.pc = "merge" => h.owed \subseteq Names(policies) /\ h.owed \subseteq Names(h.found)

\* removePolicy, the polling refresh and trackMatchedPods preserve it, in any
\* order.
LEMMA TrackStep == TypeOK /\ TrackInv /\ [Step]_vars => TrackInv'
<1> SUFFICES ASSUME TypeOK, TrackInv, [Step]_vars PROVE TrackInv'
  OBVIOUS
<1> USE DEF TrackInv, TrackedAsMatched, GhostsAreSingle
<1>1. CASE UNCHANGED <<mode, listing, policies, matchedPods, h, matched, owed>>
  BY <1>1 DEF Names
<1>2. CASE PolicyEvent
  <2>1. PICK e \in Notices : e = Head(events)
    BY <1>2 DEF PolicyEvent, TypeOK
  <2>2. UNCHANGED <<mode, listing, matched>>
    BY <1>2 DEF PolicyEvent
  <2>3. CASE addPolicy(e)
    <3>1. /\ Names(policies) \subseteq Names(policies')
          /\ UNCHANGED <<matchedPods, h, owed>>
          /\ \A n \in Policies : policies'[n] = None => policies[n] = None
      BY <2>3 DEF addPolicy, Names, TypeOK, Contents, Notices
    <3> QED
      BY <2>2, <3>1
  <2>4. CASE removePolicy(e)
    <3>1. /\ e.name \in Policies /\ Names(policies') = Names(policies) \ {e.name}
          /\ \A n \in Policies : matchedPods'[n] = IF n = e.name THEN {} ELSE matchedPods[n]
          /\ \A n \in Policies : policies'[n] = None => policies[n] = None \/ n = e.name
      BY <2>4 DEF removePolicy, Names, TypeOK, Contents, Notices
    <3>2. /\ \A u \in Uids : owed'[u] = owed[u] \ {e.name}
          /\ h'.pc = h.pc /\ h'.found = h.found /\ h'.owed = h.owed \ {e.name}
      BY <2>4 DEF removePolicy, Forget, TypeOK, CallOK, Calls
    <3> QED
      BY <2>2, <3>1, <3>2
  <2> QED
    BY <1>2, <2>1, <2>3, <2>4 DEF PolicyEvent
<1>3. CASE ListPolicies
  BY <1>3 DEF ListPolicies, Names
<1>4. CASE refreshPolicies
  <2> DEFINE gone == {n \in Policies : policies[n] # None /\ listing[n] = None}
  <2>1. mode' # "informer" /\ listing # None /\ policies' = listing
    BY <1>4 DEF refreshPolicies
  <2>2. Names(policies) \ gone \subseteq Names(policies')
    BY <2>1 DEF Names
  <2>3. /\ \A u \in Uids : owed'[u] = owed[u] \ gone
        /\ h'.pc = h.pc /\ h'.found = h.found /\ h'.owed = h.owed \ gone
    BY <1>4 DEF refreshPolicies, Forget, TypeOK, CallOK, Calls
  <2>4. UNCHANGED <<matchedPods, matched>>
    BY <1>4 DEF refreshPolicies
  <2> QED
    BY <2>1, <2>2, <2>3, <2>4
<1>5. CASE getMatchingPolicies
  <2>1. /\ h'.found = Matching(policies, h.obj) /\ h'.owed = Names(h'.found)
        /\ UNCHANGED <<mode, listing, policies, matchedPods, matched, owed>>
    BY <1>5 DEF getMatchingPolicies, TypeOK, CallOK, Calls, feed
  <2>2. Names(Matching(policies, h.obj)) \subseteq Names(policies)
    BY MatchingType DEF TypeOK
  <2> QED
    BY <2>1, <2>2 DEF Names
<1>6. ASSUME NEW n \in Policies, MergePolicy(n) PROVE TrackInv'
  <2>1. /\ h'.pc = h.pc /\ h'.found = h.found /\ h'.owed = h.owed
        /\ UNCHANGED <<mode, listing, policies, matchedPods, matched, owed>>
    BY <1>6 DEF MergePolicy, TypeOK, CallOK, Calls, feed
  <2> QED
    BY <2>1 DEF Names
<1>7. CASE Track
  <2> DEFINE u == h.obj.uid
             names == Names(h.found)
  <2>1. /\ u \in Uids /\ h.pc = "merge" /\ h'.pc = "write"
        /\ UNCHANGED <<mode, listing, policies>>
    BY <1>7, UidAssumption DEF Track, TypeOK, CallOK, Calls, feed
  <2>2. \A n \in Policies :
          matchedPods'[n] = (IF policies[n] = None THEN {} ELSE matchedPods[n] \ {u})
                              \cup (IF n \in names THEN {u} ELSE {})
    BY <1>7 DEF Track, trackMatchedPods
  <2>3. \A v \in Uids : /\ matched'[v] = IF v = u THEN names ELSE matched[v]
                        /\ owed'[v] = IF v = u THEN h.owed ELSE owed[v]
    BY <1>7, <2>1 DEF Track, TypeOK
  <2>4. names \subseteq Policies /\ \A n \in Names(policies) : n \in Policies /\ policies[n] # None
    BY DEF Names
  <2>5. TrackedAsMatched'
    <3> SUFFICES ASSUME NEW v \in Uids
                 PROVE /\ \A n \in owed'[v] : n \in Policies /\ v \in matchedPods'[n]
                       /\ \A n \in Policies : v \in matchedPods'[n] => n \in matched'[v]
      OBVIOUS
    <3>1. CASE v = u
      BY <2>1, <2>2, <2>3, <2>4, <3>1
    <3>2. CASE v # u
      BY <2>2, <2>3, <2>4, <3>2
    <3> QED
      BY <3>1, <3>2
  <2>6. GhostsAreSingle'
    BY <2>1, <2>2
  <2> QED
    BY <2>1, <2>3, <2>4, <2>5, <2>6 DEF Names
<1>8. ASSUME NEW o \in Objs, Call(o) PROVE TrackInv'
  BY <1>8 DEF Call, NoCall, feed, Names
<1>9. CASE Return
  BY <1>9 DEF Return, NoCall, feed, Names
<1>10. CASE Start \/ \E n \in Policies : Observe(n) \/ Resync(n)
  BY <1>1, <1>10 DEF Start, Observe, Resync
<1>11. CASE writebackPolicyStatus
  BY <1>1, <1>11 DEF writebackPolicyStatus, PolicyNames, buildStatusPatch, WritebackDone,
                     ActivePodCount, PatchApplied, PatchFails, rest, feed
<1>12. CASE \E n \in Policies, s \in Specs \cup {None} : SetPolicy(n, s)
  BY <1>1, <1>12 DEF SetPolicy, feed
<1>13. CASE UNCHANGED vars
  BY <1>1, <1>13 DEF vars, feed
<1> QED
  BY <1>2, <1>3, <1>4, <1>5, <1>6, <1>7, <1>8, <1>9, <1>10, <1>11, <1>12, <1>13
  DEF Step, Feed, Resolve
-----------------------------------------------------------------------------
(* How far the cache is behind the informer. *)

\* The notifications queued by Observe and Resync and taken off by PolicyEvent
\* keep the cache in step with the store.
LEMMA FollowStep ==
  TypeOK /\ TrackInv /\ CacheFollowsStore /\ [Step]_vars => CacheFollowsStore'
<1> SUFFICES ASSUME TypeOK, TrackInv, CacheFollowsStore, [Step]_vars, mode' = "informer",
                    NEW m \in Policies
             PROVE \/ Pending(m)' = {} /\ policies'[m] = store'[m]
                   \/ \E i \in Pending(m)' : /\ events'[i].spec = store'[m]
                                            /\ \A j \in Pending(m)' : j <= i
  BY DEF CacheFollowsStore
<1> DEFINE Goal == \/ Pending(m)' = {} /\ policies'[m] = store'[m]
                   \/ \E i \in Pending(m)' : /\ events'[i].spec = store'[m]
                                            /\ \A j \in Pending(m)' : j <= i
<1>0. events \in Seq(Notices) /\ Len(events) \in Nat
  BY DEF TypeOK
<1>1. CASE UNCHANGED <<mode, store, events, policies>>
  BY <1>1 DEF CacheFollowsStore, Pending
<1>2. ASSUME NEW n \in Policies, Observe(n) PROVE Goal
  <2> DEFINE e == [name |-> n, spec |-> api[n]]
  <2>1. /\ mode = "informer" /\ policies' = policies /\ events' = Append(events, e)
        /\ \A k \in Policies : store'[k] = IF k = n THEN api[n] ELSE store[k]
    BY <1>2 DEF Observe, TypeOK, Contents
  <2>2. /\ Len(events') = Len(events) + 1 /\ events'[Len(events) + 1] = e
        /\ \A i \in 1 .. Len(events) : events'[i] = events[i]
    BY <1>0, <2>1
  <2>3. CASE m = n
    <3>1. Len(events) + 1 \in Pending(m)' /\ \A j \in Pending(m)' : j <= Len(events) + 1
      BY <1>0, <2>2, <2>3 DEF Pending
    <3> QED
      BY <2>1, <2>2, <2>3, <3>1
  <2>4. CASE m # n
    <3>1. Pending(m)' = Pending(m) /\ \A i \in Pending(m) : events'[i] = events[i]
      BY <1>0, <2>2, <2>4 DEF Pending
    <3> QED
      BY <2>1, <2>4, <3>1 DEF CacheFollowsStore
  <2> QED
    BY <2>3, <2>4
<1>3. ASSUME NEW n \in Policies, Resync(n) PROVE Goal
  <2>1. /\ mode = "informer" /\ policies' = policies /\ store' = store
        /\ Pending(m) = {} /\ events' = <<[name |-> n, spec |-> store[n]]>>
    BY <1>3 DEF Resync, Pending
  <2>2. Pending(m)' = IF m = n THEN {1} ELSE {}
    BY <2>1 DEF Pending
  <2>3. events'[1].spec = store[n]
    BY <2>1
  <2> QED
    BY <2>1, <2>2, <2>3 DEF CacheFollowsStore
<1>4. CASE PolicyEvent
  <2>1. /\ mode = "informer" /\ store' = store /\ events # <<>> /\ events' = Tail(events)
    BY <1>4 DEF PolicyEvent
  <2>2. /\ 1 \in 1 .. Len(events) /\ Head(events) = events[1]
        /\ Len(events') = Len(events) - 1
        /\ \A i \in 1 .. Len(events') : events'[i] = events[i + 1]
    BY <1>0, <2>1
  <2>3. events[1] \in Notices
    BY <1>0, <2>2
  <2>4. policies'[m] = IF m = events[1].name THEN events[1].spec ELSE policies[m]
    <3>1. policies' = [policies EXCEPT ![Head(events).name] = Head(events).spec]
      BY <1>4 DEF PolicyEvent, addPolicy, removePolicy
    <3>2. policies' = [policies EXCEPT ![events[1].name] = events[1].spec]
      BY <2>2, <3>1
    <3> QED
      BY <3>2 DEF TypeOK, Contents
  <2>5. \A i \in Nat : i \in Pending(m)' <=> i # 0 /\ i + 1 \in Pending(m)
    BY <1>0, <2>2 DEF Pending
  <2>6. Pending(m)' \subseteq Nat \ {0} /\ Pending(m) \subseteq Nat \ {0}
    BY <1>0, <2>2 DEF Pending
  <2>7. 1 \in Pending(m) <=> m = events[1].name
    BY <2>2 DEF Pending
  <2>8. CASE Pending(m) = {}
    BY <2>1, <2>4, <2>5, <2>6, <2>7, <2>8 DEF CacheFollowsStore
  <2>9. CASE Pending(m) # {}
    <3>1. PICK i \in Pending(m) : /\ events[i].spec = store[m]
                                  /\ \A j \in Pending(m) : j <= i
      BY <2>1, <2>9 DEF CacheFollowsStore
    <3>2. CASE i = 1
      <4>1. Pending(m)' = {}
        BY <2>5, <2>6, <3>1, <3>2
      <4> QED
        BY <2>1, <2>4, <2>7, <3>1, <3>2, <4>1
    <3>3. CASE i # 1
      <4>1. i - 1 \in Nat /\ i - 1 # 0 /\ (i - 1) + 1 = i
        BY <2>6, <3>3
      <4>2. i - 1 \in Pending(m)'
        BY <2>5, <4>1
      <4>3. \A j \in Pending(m)' : j <= i - 1
        BY <2>5, <2>6, <3>1
      <4>4. i - 1 \in 1 .. Len(events')
        BY <4>2 DEF Pending
      <4>5. events'[i - 1] = events[i]
        BY <2>2, <4>1, <4>4
      <4> QED
        BY <2>1, <3>1, <4>2, <4>3, <4>5
    <3> QED
      BY <3>2, <3>3
  <2> QED
    BY <2>8, <2>9
<1>5. CASE refreshPolicies
  BY <1>5 DEF refreshPolicies, TrackInv
<1>6. CASE Start \/ ListPolicies
  BY <1>1, <1>6 DEF Start, ListPolicies
<1>7. CASE Resolve \/ Return \/ \E o \in Objs : Call(o)
  BY <1>1, <1>7 DEF Resolve, getMatchingPolicies, MergePolicy, Track, Return, Call, feed
<1>8. CASE writebackPolicyStatus
  BY <1>1, <1>8 DEF writebackPolicyStatus, PolicyNames, buildStatusPatch, WritebackDone,
                    ActivePodCount, PatchApplied, PatchFails, rest, feed
<1>9. CASE \E n \in Policies, s \in Specs \cup {None} : SetPolicy(n, s)
  BY <1>1, <1>9 DEF SetPolicy, feed
<1>10. CASE UNCHANGED vars
  BY <1>1, <1>10 DEF vars, feed
<1> QED
  BY <1>2, <1>3, <1>4, <1>5, <1>6, <1>7, <1>8, <1>9, <1>10 DEF Step, Feed
-----------------------------------------------------------------------------
(* The theorems. *)

Inv == TypeOK /\ ResolveInv /\ TrackInv /\ CacheFollowsStore

\* The invariants hold when the agent starts.
LEMMA InitInv == Init => Inv
<1> SUFFICES ASSUME Init PROVE Inv
  OBVIOUS
<1>1. TypeOK
  <2>1. CallOK
    BY DEF Init, NoCall, NoPolicies, Contents, CallOK, Calls, Names
  <2>2. w \in Writebacks /\ status \in [Policies -> Counts]
    BY DEF Init, NoWriteback, NoPolicies, Writebacks, Counts
  <2>3. started \in BOOLEAN
    BY Zenon DEF Init
  <2> QED
    BY <2>1, <2>2, <2>3 DEF Init, TypeOK, NoPolicies, Contents
<1>2. ResolveInv
  BY DEF Init, NoCall, ResolveInv, MergeInv, ResolvedAsDocumented
<1>3. TrackInv
  BY DEF Init, NoCall, TrackInv, TrackedAsMatched, GhostsAreSingle
<1>4. CacheFollowsStore
  <2>1. policies = store /\ Len(events) = 0
    BY DEF Init
  <2>2. \A n \in Policies : Pending(n) = {}
    BY <2>1 DEF Pending
  <2> QED
    BY <2>1, <2>2 DEF CacheFollowsStore
<1> QED
  BY <1>1, <1>2, <1>3, <1>4 DEF Inv

\* Every step preserves them, whoever calls Resolve.
LEMMA StepInv == Inv /\ [Step]_vars => Inv'
BY TypeStep, ResolveStep, TrackStep, FollowStep DEF Inv

\* All invariants of the resolver hold in every behaviour.
THEOREM ResolverInvariant == Spec => []Inv
<1>1. Inv /\ [Next]_vars => Inv'
  BY NextIsStep, StepInv DEF Inv
<1> QED
  BY <1>1, InitInv, PTL DEF Spec

\* The resolver's state always has its type.
THEOREM TypeCorrect == Spec => []TypeOK
<1>1. Inv => TypeOK
  BY DEF Inv
<1> QED
  BY <1>1, ResolverInvariant, PTL

\* Whatever the order in which Resolve meets the matching policies, weight and
\* budget are the largest among those merged so far, also when a budget wraps.
THEOREM LargestSoFar == Spec => []MergeInv
<1>1. Inv => MergeInv
  BY DEF Inv, ResolveInv
<1> QED
  BY <1>1, ResolverInvariant, PTL

\* Whatever the order in which Resolve meets the matching policies, it returns
\* what its comment promises, unless a budget overflows.
THEOREM ResolveCorrect == Spec => []ResolvedAsDocumented
<1>1. Inv => ResolvedAsDocumented
  BY DEF Inv, ResolveInv
<1> QED
  BY <1>1, ResolverInvariant, PTL

\* Pods are counted for the policies their last Resolve matched and for no
\* others, whatever the policy goroutine does between match and lock.
THEOREM CountsExact == Spec => []TrackedAsMatched
<1>1. Inv => TrackedAsMatched
  BY DEF Inv, TrackInv
<1> QED
  BY <1>1, ResolverInvariant, PTL

\* A policy that has left the cache has at most one pod, put there by a Resolve
\* that was in flight.
THEOREM AtMostOneGhost == Spec => []GhostsAreSingle
<1>1. Inv => GhostsAreSingle
  BY DEF Inv, TrackInv
<1> QED
  BY <1>1, ResolverInvariant, PTL

\* The policy cache is the informer's store less the notifications still queued.
THEOREM CacheInStep == Spec => []CacheFollowsStore
<1>1. Inv => CacheFollowsStore
  BY DEF Inv
<1> QED
  BY <1>1, ResolverInvariant, PTL
=============================================================================
