------------------------------ MODULE MCHandoff ------------------------------
(* Model values for Handoff: two checkouts that are alike, two edits of    *)
(* one file, one handoff branch.                                           *)
EXTENDS Handoff, TLC

CONSTANTS a, b, w1, w2, handoff

MCHosts == {a, b}
MCWorks == {w1, w2}
MCFileOf == [w \in MCWorks |-> 1]
MCBranches == {handoff}
MCSymmetry == Permutations(MCHosts)
=============================================================================
