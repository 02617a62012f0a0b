------------------------- MODULE MCSpecialistPanel -------------------------
(***************************************************************************)
(* SpecialistPanel with two turns that pick the same specialist.           *)
(***************************************************************************)
EXTENDS SpecialistPanel, TLC

CONSTANTS t1, t2, s1, s2, s3

OnePick == [t \in Turns |-> {s1}]
NoneRefuses == {}
FirstFallible == {s1}
=============================================================================
