----------------------- MODULE MCActionAuthorization -----------------------
(***************************************************************************)
(* ActionAuthorization with the shape of each action chosen by the run.    *)
(***************************************************************************)
EXTENDS ActionAuthorization, TLC

CONSTANTS a1, a2, u1, u2, u3

\* u3 is a member without any right to approve; u1 asked for a1, an agent
\* asked for a2.  Where one approver is enough, u1 is a member like u3.
MCApprovers == {u1, u2}
OneApprover == {u2}
MCRequester == [a \in Actions |-> IF a = a1 THEN u1 ELSE NoUser]

ShapeInjected == [a \in Actions |-> "injected"]
ShapeInjectedCall == [a \in Actions |-> IF a = a1 THEN "injected" ELSE "call"]

NoneBlocked == {}

Symmetry == Permutations(Executors) \cup Permutations(Writes)
=============================================================================
