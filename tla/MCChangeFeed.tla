----------------------------- MODULE MCChangeFeed -----------------------------
(* Model-checking instance of ChangeFeed: one ordinary file, one that is   *)
(* gitignored and the repository root, whose events have no relative name. *)
EXTENDS ChangeFeed, TLC

CONSTANTS a, b, ign, root

MCPaths == {a, b, ign, root}
MCIgnored == {ign}
MCUnnamed == {root}
Symmetry == Permutations({a, b})
=============================================================================
