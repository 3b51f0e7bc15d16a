---------------------------- MODULE MCNodeSetup -----------------------------
(* run_node_1.js and run_node_3.js, started side by side.                  *)
EXTENDS NodeSetup, TLC

CONSTANTS n1, n3

MCNodes == {n1, n3}

\* The two scripts run the same code: swapping them is a symmetry.
Perms == Permutations(MCNodes)
=============================================================================
