----------------------------- MODULE MCParamMaps -----------------------------
(* Constants for model checking ParamMaps. *)
EXTENDS ParamMaps

CONSTANTS a, b, g1, g2, g3

\* Pod a has two cgroups (a container restart), pod b has one.
TwoAndOne == [g \in {g1, g2, g3} |-> IF g = g3 THEN b ELSE a]
OneEach == [g \in {g1, g2} |-> IF g = g1 THEN a ELSE b]
BothOfA == [g \in {g1, g2} |-> a]
=============================================================================
