------------------------------ MODULE MCServer ------------------------------
(* The constants of module Server that a cfg cannot write: two statements, *)
(* both limited to one copy at a time, by one rule that queues and by two  *)
(* rules of which the first sheds load.                                    *)
EXTENDS Server

CONSTANTS q1, q2, d1, d2

MCQueries == {q1, q2}
MCDigest  == [q \in MCQueries |-> IF q = q1 THEN d1 ELSE d2]

Queueing == <<[match |-> {q1, q2}, max |-> 1, wait |-> TRUE]>>
Shedding == <<[match |-> {q1}, max |-> 1, wait |-> FALSE]>>
MCRuleSets == {Queueing, Shedding}
=============================================================================
