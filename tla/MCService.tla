------------------------------ MODULE MCService -----------------------------
(* The constants of module Service that a cfg cannot write: the drop-ins   *)
(* of an operator who has rules that compile everywhere, a throttle that   *)
(* needs a known prefix, and a file that does not validate.                *)
EXTENDS Service

Plain   == [valid |-> TRUE, uses |-> {}]
Prefixed == [valid |-> TRUE, uses |-> {"throttles"}]
Broken  == [valid |-> FALSE, uses |-> {}]
MCRuleDocs == {Plain, Prefixed, Broken}
=============================================================================
