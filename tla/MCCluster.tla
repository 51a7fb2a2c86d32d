----------------------------- MODULE MCCluster -----------------------------
(* The constants of module Cluster that a cfg cannot write.                *)
EXTENDS Cluster

CONSTANTS a, b, c

\* Every server on a host of its own, or all on one.
OwnHosts == [n \in Nodes |-> n]
OneHost  == [n \in Nodes |-> a]

NoCommand   == {}
PromoteB    == {[verb |-> "promote", node |-> b]}
AddC        == {[verb |-> "add", node |-> c]}
AnyCommandB == {[verb |-> v, node |-> b] : v \in Verbs}
=============================================================================
