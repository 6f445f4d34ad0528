---------------------------- MODULE MCVtimeSched ----------------------------
(* Constants for model checking VtimeSched. *)
EXTENDS VtimeSched, TLC

CONSTANTS t1, t2, t3, p1, p2, g1

\* The callbacks never compare or choose between CPUs.
CpuSymmetry == Permutations(Cpus)

OneProcessEach3 == [t \in {t1, t2, t3} |-> IF t = t1 THEN p1 ELSE p2]
FirstInCgroup2 == [t \in {t1, t2} |-> IF t = t1 THEN g1 ELSE None]
SharedProcess2 == [t \in {t1, t2} |-> p1]
NoCgroup3 == [t \in {t1, t2, t3} |-> None]

\* A heavy task with a budget below the slice, a light one without.
TwoParams == {[weight |-> 2, budget |-> 1], [weight |-> 1, budget |-> 0]}
HeavyOnly == {[weight |-> 2, budget |-> 0]}
=============================================================================
