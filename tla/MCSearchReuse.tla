----------------------------- MODULE MCSearchReuse -----------------------------
(* Model-checking instance of SearchReuse: one search, of one of two files.*)
EXTENDS SearchReuse, TLC

CONSTANTS a, b, qa

MCPaths == {a, b}
MCQueries == {qa}
MCScope == qa :> {a}
=============================================================================
