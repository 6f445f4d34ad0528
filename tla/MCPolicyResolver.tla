--------------------------- MODULE MCPolicyResolver ---------------------------
(* Constants for model checking PolicyResolver. *)
EXTENDS PolicyResolver

CONSTANTS x, y

NoAnn == [weight |-> 0, importance |-> 0, budget |-> 0]

OneSpec == {[sel |-> {"web"}, cel |-> {1}, weight |-> 9000, budget |-> 2]}

\* A pod that matches, the same pod resized so that it no longer does, and
\* another pod that matches.
TwoObjs ==
  {[uid |-> 1, label |-> "web", cpu |-> 1, qos |-> "BestEffort", ann |-> NoAnn],
   [uid |-> 1, label |-> "web", cpu |-> 2, qos |-> "BestEffort", ann |-> NoAnn],
   [uid |-> 2, label |-> "web", cpu |-> 1, qos |-> "BestEffort", ann |-> NoAnn]}
=============================================================================
