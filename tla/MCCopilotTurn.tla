--------------------------- MODULE MCCopilotTurn ---------------------------
(***************************************************************************)
(* CopilotTurn with three requests: r1 and r2 repeat one message, r3       *)
(* brings another one.                                                     *)
(***************************************************************************)
EXTENDS CopilotTurn, TLC

CONSTANTS r1, r2, r3, m1, m2

MCMsgOf == [r \in Requests |-> IF r = r3 THEN m2 ELSE m1]
NoneAcked == {}
Symmetry == Permutations({r1, r2})
=============================================================================
