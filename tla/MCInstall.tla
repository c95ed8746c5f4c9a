----------------------------- MODULE MCInstall ------------------------------
(* Model values for Install: all clients, two entries of the user.         *)
EXTENDS Install, TLC

CONSTANTS mine, other

MCItems == {mine, other}
MCSymmetry == Permutations(MCItems)
MCHarnesses == {"project", "claude", "codex", "opencode", "pi"}
=============================================================================
