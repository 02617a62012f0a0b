------------------------ MODULE MCDurableCollection ------------------------
(***************************************************************************)
(* DurableCollection with two goroutines, the least with which a goroutine *)
(* writes what an earlier snapshot holds after a later one was written.    *)
(***************************************************************************)
EXTENDS DurableCollection, TLC

Symmetry == Permutations(Docs) \cup Permutations(Handlers) \cup Permutations(Jobs)
=============================================================================
