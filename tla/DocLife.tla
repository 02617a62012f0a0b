------------------------------- MODULE DocLife -------------------------------
(***************************************************************************)
(* What a durable collection promises about the life of the document under *)
(* an id, whatever the goroutines behind it do.  It is unborn, alive (in   *)
(* memory), leaving (removed from memory, but a row or a goroutine still   *)
(* holds it) or gone.  Only a restart brings a leaving document back, and  *)
(* nothing brings back one that is gone.  A request may make another       *)
(* document under an id that is not in memory: that is counted.            *)
(***************************************************************************)
EXTENDS Naturals

CONSTANT Docs

VARIABLES phase,   \* phase[d]: where the document of id d stands
          made,    \* made[d]: documents made under the id d so far
          epoch    \* restarts so far

Phases == {"unborn", "alive", "leaving", "gone"}

\* What may happen to a document while the process runs ...
RunningEdges == {<<"alive", "leaving">>, <<"alive", "gone">>,
                 <<"leaving", "gone">>}
\* ... and when it is started again from the table.
RestartEdges == {<<"alive", "gone">>, <<"leaving", "alive">>,
                 <<"leaving", "gone">>}

Follows(d, edges) == /\ made'[d] = made[d]
                     /\ \/ phase'[d] = phase[d]
                        \/ <<phase[d], phase'[d]>> \in edges

\* Another document is made under the id.
Born(d) == /\ phase[d] # "alive"
           /\ phase'[d] = "alive"
           /\ made'[d] = made[d] + 1

Init == /\ phase = [d \in Docs |-> "unborn"]
        /\ made = [d \in Docs |-> 0]
        /\ epoch = 0

Run == /\ phase' \in [Docs -> Phases]
       /\ \A d \in Docs : Born(d) \/ Follows(d, RunningEdges)
       /\ UNCHANGED epoch

Restart == /\ phase' \in [Docs -> Phases]
           /\ \A d \in Docs : Follows(d, RestartEdges)
           /\ epoch' = epoch + 1

Spec == Init /\ [][Run \/ Restart]_<<phase, made, epoch>>
=============================================================================
