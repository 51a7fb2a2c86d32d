--------------------------- MODULE MCMultiplexing ---------------------------
(* Instances of Multiplexing for TLC.  The sets are given in the           *)
(* configurations; their members are model values and interchangeable.     *)
EXTENDS Multiplexing, TLC

Symmetry ==
    Permutations(Sessions) \cup Permutations(Conns) \cup Permutations(Replicas)
    \cup Permutations(Databases \ Refused) \cup Permutations(Refused)
=============================================================================
