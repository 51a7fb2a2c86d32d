------------------------------- MODULE MCCache -------------------------------
(* Instances of Cache for TLC. *)
EXTENDS Cache

\* The settings before and after a reload: everything fits, or a single entry.
Wide   == [maxEntries |-> 4, maxBytes |-> 0, maxResult |-> 4, builtIns |-> TRUE]
Narrow == [maxEntries |-> 2, maxBytes |-> 3, maxResult |-> 3, builtIns |-> TRUE]

MCConfs == {Wide, Narrow}
MCSize  == [k \in Keys |-> IF k = "alloptions" THEN 3 ELSE 2]

Symmetry == Permutations(Sessions)
=============================================================================
