----------------------------- MODULE MCPodWatcher -----------------------------
(* Constants for model checking PodWatcher. *)
EXTENDS PodWatcher

CONSTANTS x, y

NoAnn == [weight |-> 0, importance |-> 0, budget |-> 0]
Ann == [weight |-> 10001, importance |-> 50, budget |-> 3]
\* A budget of which the conversion leaves nothing.
Overflow == [NoAnn EXCEPT !.budget = 8192]

\* Of the larger budget the conversion leaves less than of the smaller.
TwoSpecs == {[sel |-> {"web"}, cel |-> {1, 2}, weight |-> 9000, budget |-> 2],
             [sel |-> {"web", "batch"}, cel |-> {1}, weight |-> 300, budget |-> 66]}

Pod(u, phase, gen, cpu, ann) ==
  [uid |-> u, phase |-> phase, gen |-> gen, label |-> "web", cpu |-> cpu,
   qos |-> "BestEffort", ann |-> ann]

\* Two pods that may have the same name: one is pending, runs, is annotated,
\* resized, has a container restart and ends; the other runs with a budget
\* that overflows, is lost from sight and fails.
TwoPods ==
  {Pod(1, "Pending", 0, 1, NoAnn), Pod(1, "Running", 1, 1, NoAnn),
   Pod(1, "Running", 1, 1, Ann), Pod(1, "Running", 1, 2, NoAnn),
   Pod(1, "Succeeded", 1, 1, NoAnn),
   Pod(2, "Running", 1, 1, Overflow), Pod(2, "Unknown", 1, 1, NoAnn),
   Pod(2, "Failed", 1, 1, NoAnn)}
=============================================================================
