---------------------------- MODULE MCDetection ----------------------------
(* DetectionControl on small instances: two models that are interchangeable. *)
EXTENDS DetectionControl, TLC

CONSTANTS c1, c2, l1, l2, m1, m2

Symmetry == Permutations({m1, m2}) \cup Permutations({l1, l2}) \cup Permutations({c1, c2})
=============================================================================
