----------------------------- MODULE MCDepOrder -----------------------------
(* All dependency graphs on three nodes, self-loops included: chains,      *)
(* diamonds, a node hanging off a cycle, two cycles sharing a node.        *)
EXTENDS DepOrder

CONSTANTS n1, n2, n3
MCNode == {n1, n2, n3}

=============================================================================
