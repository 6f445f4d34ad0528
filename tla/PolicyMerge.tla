----------------------------- MODULE PolicyMerge -----------------------------
(***************************************************************************)
(* How the parameters of a pod follow from its annotations, its QoS class  *)
(* and the policies that match it: the pure part of internal/policy and of *)
(* internal/maps.                                                          *)
(*                                                                         *)
(* A policy is [sel, cel, weight, budget]: the labels its selector accepts *)
(* (all for a missing selector, none for an invalid one), the CPU requests *)
(* for which its CEL condition holds (all when it is empty, none when it   *)
(* fails), weight and budget in microseconds, 0 when unset.  A pod object  *)
(* has fields label, cpu, qos and ann; an annotation that is missing or    *)
(* not a number is 0.                                                      *)
(***************************************************************************)
EXTENDS Integers

CONSTANTS
  Policies,            \* names of SchedulingPolicy objects
  Specs,               \* their possible contents
  Objs,                \* pod objects
  Word,                \* number of values of a u64
  NsPerUs,             \* 1000
  None

ASSUME SpecAssumption ==
  /\ \A s \in Specs : s.weight \in Nat /\ s.budget \in Nat
  /\ None \notin Specs
ASSUME ObjAssumption ==
  /\ None \notin Objs
  /\ \A o \in Objs : /\ o.ann.weight \in Nat /\ o.ann.importance \in Nat
                     /\ o.ann.budget \in Nat
ASSUME WidthAssumption == Word \in Nat \ {0} /\ NsPerUs \in Nat \ {0}
-----------------------------------------------------------------------------
podSelectorMatches(s, o) == o.label \in s.sel

celConditionPasses(s, o) == o.cpu \in s.cel

\* The policies of pols that apply to the pod.
Matching(pols, o) ==
  [n \in Policies |->
     IF /\ pols[n] # None
        /\ podSelectorMatches(pols[n], o) /\ celConditionPasses(pols[n], o)
     THEN pols[n] ELSE None]

Names(m) == {n \in Policies : m[n] # None}

qosDefaultWeight(qos) ==
  CASE qos = "Burstable" -> 800 [] qos = "BestEffort" -> 200 [] OTHER -> 1000

maxWeight == 10000

ParseAnnotationWeight(ann) ==
  IF ann.weight \in 1 .. maxWeight THEN ann.weight
  ELSE IF ann.importance \in 1 .. 100 THEN ann.importance * 100
  ELSE 0

\* A u64 product.
ToNs(us) == (us * NsPerUs) % Word

ParseAnnotationBudget(ann) == ToNs(ann.budget)
-----------------------------------------------------------------------------
(* What the comment on Resolve and the README promise. *)

Largest(S) == CHOOSE x \in S : \A y \in S : y <= x

Weights(m) == {m[n].weight : n \in Names(m)} \ {0}
Budgets(m) == {m[n].budget : n \in Names(m)}

\* "max weight wins, max budget wins"; "Annotations always take precedence over
\* CRD params"; "the default only applies when no matching policy sets a weight".
Documented(m, o) ==
  [weight |-> IF ParseAnnotationWeight(o.ann) > 0 THEN ParseAnnotationWeight(o.ann)
              ELSE IF Weights(m) # {} THEN Largest(Weights(m))
              ELSE qosDefaultWeight(o.qos),
   budget |-> IF o.ann.budget > 0 THEN o.ann.budget * NsPerUs
              ELSE Largest(Budgets(m) \cup {0}) * NsPerUs]

\* The same rule on budgets as they are converted: one from 2^64 / 1000
\* microseconds on counts for what is left of it, and for none if that is 0.
Granted(m, o) ==
  [Documented(m, o) EXCEPT !.budget =
     IF ToNs(o.ann.budget) > 0 THEN ToNs(o.ann.budget)
     ELSE Largest({ToNs(b) : b \in Budgets(m) \cup {0}})]

\* No budget that has a say overflows when it is converted to nanoseconds.
Fits(m, o) == \A b \in Budgets(m) \cup {o.ann.budget} : b * NsPerUs < Word

\* The parameters v are those the rule gives, and the documented ones as long as
\* no budget overflows.
Due(v, m, o) == v = Granted(m, o) /\ (Fits(m, o) => v = Documented(m, o))
=============================================================================
