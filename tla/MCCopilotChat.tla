--------------------------- MODULE MCCopilotChat ---------------------------
(***************************************************************************)
(* CopilotChat for TLC: the constants are in the configurations.           *)
(***************************************************************************)
EXTENDS CopilotChat, TLC

CONSTANTS s1, s2, x, y

Symmetry == Permutations({x, y})
=============================================================================
