-------------------------- MODULE SpecialistPanel --------------------------
(***************************************************************************)
(* The multi-agent turns of the copilot (runMultiAgentTurn): a turn builds *)
(* a context for each specialist it picked, dispatches one goroutine per   *)
(* specialist through agentos.Engine (Run, safeInvoke), waits for all of   *)
(* them and merges what they said.                                         *)
(*                                                                         *)
(* Each turn has a semaphore of its own.  The map of memory budget reports *)
(* (participantMemoryBudgetReports) belongs to the server: turns share it. *)
(* What a specialist says and how it is sent on, the events and the        *)
(* metrics are left out; a context that ends stands for the cancellation   *)
(* of the turn and for its timeout.                                        *)
(***************************************************************************)
EXTENDS Naturals, FiniteSets

CONSTANTS Turns, Specialists,
          NoTurn,
          Picks,       \* the specialists each turn picked
          Refusing,    \* specialists whose hard-no guard refuses the query
          Fallible,    \* specialists whose turn may panic
          MaxConc      \* Engine.MaxConc

ASSUME PanelAssumption == /\ NoTurn \notin Turns
                          /\ Picks \in [Turns -> SUBSET Specialists]
                          /\ Refusing \subseteq Specialists
                          /\ Fallible \subseteq Specialists
                          /\ MaxConc \in Nat \ {0}
                          /\ IsFiniteSet(Specialists)

VARIABLES
    phase,      \* where each turn stands
    built,      \* built[t]: specialists whose context was built
    reports,    \* who left the budget report of each specialist, or NoTurn
    task,       \* task[t][s]: where the goroutine of specialist s stands
    sem,        \* sem[t]: slots taken of the turn's semaphore
    ended,      \* turns whose context is over
    result,     \* result[t][s]: status of the result of specialist s
    shown       \* shown[t]: reports in the memory.budget events of the turn

vars == <<phase, built, reports, task, sem, ended, result, shown>>

Statuses == {"none", "success", "refused", "timed_out", "failed"}
Working == {"slot", "tools", "model", "leaving"}

TypeOK ==
    /\ phase \in [Turns -> {"build", "dispatch", "merge", "done"}]
    /\ built \in [Turns -> SUBSET Specialists]
    /\ reports \in [Specialists -> Turns \cup {NoTurn}]
    /\ task \in [Turns -> [Specialists -> {"none", "waiting", "over"} \cup Working]]
    /\ sem \in [Turns -> 0 .. MaxConc]
    /\ ended \subseteq Turns
    /\ result \in [Turns -> [Specialists -> Statuses]]
    /\ shown \in [Turns -> SUBSET (Specialists \X Turns)]

At(t, s, place) == task[t][s] = place
Move(t, s, place) == task' = [task EXCEPT ![t][s] = place]
Result(t, s, status) == result' = [result EXCEPT ![t][s] = status]

\* Mutation of Slots: as many slots as tasks.
SlotsPerTask(t) == Cardinality(Picks[t])

\* Run caps the semaphore by the number of tasks.
Slots(t) == IF MaxConc > Cardinality(Picks[t]) THEN Cardinality(Picks[t])
                                               ELSE MaxConc

Init ==
    /\ phase = [t \in Turns |-> "build"]
    /\ built = [t \in Turns |-> {}]
    /\ reports = [s \in Specialists |-> NoTurn]
    /\ task = [t \in Turns |-> [s \in Specialists |-> "none"]]
    /\ sem = [t \in Turns |-> 0]
    /\ ended = {}
    /\ result = [t \in Turns |-> [s \in Specialists |-> "none"]]
    /\ shown = [t \in Turns |-> {}]

-----------------------------------------------------------------------------
(***************************************************************************)
(* Building the contexts                                                   *)
(***************************************************************************)
\* buildParticipantContext retrieves the specialist's memory, which leaves a
\* report under the specialist's id (recordMemoryBudgetReport).
Build(t, s) ==
    /\ phase[t] = "build"
    /\ s \in Picks[t] \ built[t]
    /\ built' = [built EXCEPT ![t] = @ \cup {s}]
    /\ reports' = [reports EXCEPT ![s] = t]
    /\ UNCHANGED <<phase, task, sem, ended, result, shown>>

\* Run starts a goroutine per specialist.
Dispatch(t) ==
    /\ phase[t] = "build"
    /\ built[t] = Picks[t]
    /\ phase' = [phase EXCEPT ![t] = "dispatch"]
    /\ task' = [task EXCEPT ![t] = [s \in Specialists |->
                   IF s \in Picks[t] THEN "waiting" ELSE "none"]]
    /\ UNCHANGED <<built, reports, sem, ended, result, shown>>

-----------------------------------------------------------------------------
(***************************************************************************)
(* The goroutine of one specialist                                         *)
(***************************************************************************)
\* The select takes a slot, or gives up when the context is over; where both
\* can happen, either does.
TakeSlot(t, s) ==
    /\ At(t, s, "waiting")
    /\ sem[t] < Slots(t)
    /\ sem' = [sem EXCEPT ![t] = @ + 1]
    /\ Move(t, s, "slot")
    /\ UNCHANGED <<phase, built, reports, ended, result, shown>>

\* Mutation of GiveUp: a slot is released that was never taken.
GiveUpReleasing(t, s) ==
    /\ At(t, s, "waiting")
    /\ t \in ended
    /\ Result(t, s, "timed_out")
    /\ Move(t, s, "over")
    /\ sem' = [sem EXCEPT ![t] = IF @ > 0 THEN @ - 1 ELSE 0]
    /\ UNCHANGED <<phase, built, reports, ended, shown>>

GiveUp(t, s) ==
    /\ At(t, s, "waiting")
    /\ t \in ended
    /\ Result(t, s, "timed_out")
    /\ Move(t, s, "over")
    /\ UNCHANGED <<phase, built, reports, sem, ended, shown>>

\* safeInvoke does not call the task once the context is over; the task
\* refuses first what the hard-no guard of its specialist refuses.
Invoke(t, s) ==
    /\ At(t, s, "slot")
    /\ \/ /\ t \in ended
          /\ Result(t, s, "timed_out")
          /\ Move(t, s, "leaving")
       \/ /\ t \notin ended
          /\ s \in Refusing
          /\ Result(t, s, "refused")
          /\ Move(t, s, "leaving")
       \/ /\ t \notin ended
          /\ s \notin Refusing
          /\ Move(t, s, "tools")
          /\ UNCHANGED result
    /\ UNCHANGED <<phase, built, reports, sem, ended, shown>>

\* runParticipantTools: the specialist's own tools.
UseTools(t, s) ==
    /\ At(t, s, "tools")
    /\ Move(t, s, "model")
    /\ UNCHANGED <<phase, built, reports, sem, ended, result, shown>>

\* Mutation of AskModel: a model that returned without an error has succeeded.
AskModelOnly(t, s) ==
    /\ At(t, s, "model")
    /\ \E status \in {"success", "failed", "timed_out"} : Result(t, s, status)
    /\ Move(t, s, "leaving")
    /\ UNCHANGED <<phase, built, reports, sem, ended, shown>>

\* The model answers, fails, or has not answered within the specialist's own
\* 30 seconds; what it says once the turn's context is over is a timeout.
AskModel(t, s) ==
    /\ At(t, s, "model")
    /\ \E status \in {"success", "failed", "timed_out"} :
          /\ t \in ended => status = "timed_out"
          /\ Result(t, s, status)
    /\ Move(t, s, "leaving")
    /\ UNCHANGED <<phase, built, reports, sem, ended, shown>>

\* safeInvoke turns a panic of the task into a failed result.
Panic(t, s) ==
    /\ task[t][s] \in {"tools", "model"}
    /\ s \in Fallible
    /\ Result(t, s, "failed")
    /\ Move(t, s, "leaving")
    /\ UNCHANGED <<phase, built, reports, sem, ended, shown>>

\* Mutation of Leave: the slot is not released.
LeaveKeepingSlot(t, s) ==
    /\ At(t, s, "leaving")
    /\ Move(t, s, "over")
    /\ UNCHANGED <<phase, built, reports, sem, ended, result, shown>>

\* The deferred release of the slot.
Leave(t, s) ==
    /\ At(t, s, "leaving")
    /\ sem' = [sem EXCEPT ![t] = @ - 1]
    /\ Move(t, s, "over")
    /\ UNCHANGED <<phase, built, reports, ended, result, shown>>

-----------------------------------------------------------------------------
(***************************************************************************)
(* Merging                                                                 *)
(***************************************************************************)
\* Mutation of Waited: only the goroutines that took a slot are waited for.
WaitedForStarted(t) == \A s \in Picks[t] : task[t][s] \notin Working

Waited(t) == \A s \in Picks[t] : At(t, s, "over")

\* Run returns, and dispatchParticipants copies the results.
Collect(t) ==
    /\ phase[t] = "dispatch"
    /\ Waited(t)
    /\ phase' = [phase EXCEPT ![t] = "merge"]
    /\ UNCHANGED <<built, reports, task, sem, ended, result, shown>>

\* The reports that are there, of whatever turn, are taken and shown.
Merge(t) ==
    /\ phase[t] = "merge"
    /\ shown' = [shown EXCEPT ![t] = {<<s, reports[s]>> :
                   s \in {x \in Specialists : reports[x] # NoTurn}}]
    /\ reports' = [s \in Specialists |-> NoTurn]
    /\ phase' = [phase EXCEPT ![t] = "done"]
    /\ UNCHANGED <<built, task, sem, ended, result>>

\* The turn is cancelled by its correlation id, or runs out of time.
End(t) ==
    /\ t \notin ended
    /\ ended' = ended \cup {t}
    /\ UNCHANGED <<phase, built, reports, task, sem, result, shown>>

Specialist(t, s) ==
    \/ TakeSlot(t, s) \/ GiveUp(t, s) \/ Invoke(t, s) \/ UseTools(t, s)
    \/ AskModel(t, s) \/ Panic(t, s) \/ Leave(t, s)

Supervise(t) ==
    \/ \E s \in Specialists : Build(t, s)
    \/ Dispatch(t) \/ Collect(t) \/ Merge(t)

Next == \E t \in Turns : \/ Supervise(t) \/ End(t)
                         \/ \E s \in Specialists : Specialist(t, s)

Spec == Init /\ [][Next]_vars

\* Goroutines are scheduled, tools return, and the model's stream has a
\* timeout of 30 seconds.  Nothing is assumed of who gets a slot that several
\* specialists wait for: each of them takes one at most once.
LiveSpec ==
    /\ Spec
    /\ \A t \in Turns : WF_vars(Supervise(t))
    /\ \A t \in Turns, s \in Specialists : WF_vars(Specialist(t, s))

-----------------------------------------------------------------------------
(***************************************************************************)
(* Properties                                                              *)
(***************************************************************************)
Busy(t) == {s \in Specialists : task[t][s] \in Working}

\* No more specialists of a turn work at a time than the engine allows, and
\* the semaphore counts exactly those: cancelling while others wait for a slot
\* neither leaks one nor frees one that was never taken.
BoundedPanel == \A t \in Turns : sem[t] = Cardinality(Busy(t)) /\ sem[t] <= MaxConc

\* Once the panel is merged no specialist works any more, which would write
\* to a response that is over, and each one that was picked has a result.
QuietAfterMerge ==
    \A t \in Turns : phase[t] \in {"merge", "done"} =>
        \A s \in Picks[t] : At(t, s, "over") /\ result[t][s] # "none"

\* No specialist is reported as a success of a turn that was over before its
\* model returned.
NoLateSuccess ==
    \A t \in ended, s \in Specialists :
        result'[t][s] = "success" => result[t][s] = "success"
SuccessBeforeEnd == [][NoLateSuccess]_vars

\* Every turn ends, whoever panics, refuses or is cancelled.
PanelEnds == \A t \in Turns : <>(phase[t] = "done")

\* Violated. The comment at copilot_multi.go:303: the turn surfaces how the memory of each of
\* its own specialists was sized.
ReportsReachTheirTurn ==
    \A t \in Turns : phase[t] = "done" => \A s \in Picks[t] : <<s, t>> \in shown[t]
=============================================================================
