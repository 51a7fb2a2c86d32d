------------------------------- MODULE MCPool -------------------------------
(* Instances of Pool for TLC: the sets of borrowers and of connections are  *)
(* model values given in the configurations, and interchangeable.           *)
EXTENDS Pool, TLC

Symmetry == Permutations(Workers) \cup Permutations(Conns)
=============================================================================
