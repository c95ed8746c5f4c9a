------------------------------- MODULE MCServing -------------------------------
(* Model-checking instance of Serving. *)
EXTENDS Serving

CONSTANTS r1, r2, c1

MCRoots == {r1, r2}
MCCommandLines == {c1}
=============================================================================
