----------------------- MODULE SpecialistPanelProofs -----------------------
(***************************************************************************)
(* Theorems about SpecialistPanel, for any turns, specialists, picks and   *)
(* width of the engine.                                                    *)
(*                                                                         *)
(* The inductive invariant adds to the types: the semaphore of a turn      *)
(* counts the specialists that work (Counted); goroutines exist from the   *)
(* dispatch on, for those that were picked (Dispatched); one that leaves   *)
(* or has left has its result (HasResult); and after Run has returned all  *)
(* of them have left (Rested).                                             *)
(***************************************************************************)
EXTENDS SpecialistPanel, FiniteSetTheorems, TLAPS

Counted == \A t \in Turns : sem[t] = Cardinality(Busy(t))

Dispatched == \A t \in Turns, s \in Specialists :
    IF phase[t] = "build" THEN task[t][s] = "none"
                          ELSE task[t][s] = "none" <=> s \notin Picks[t]

HasResult == \A t \in Turns, s \in Specialists :
    task[t][s] \in {"leaving", "over"} => result[t][s] # "none"

Rested == \A t \in Turns : phase[t] \in {"merge", "done"} =>
    \A s \in Picks[t] : task[t][s] = "over"

IInv == TypeOK /\ Counted /\ Dispatched /\ HasResult /\ Rested

USE PanelAssumption DEF PanelAssumption

Places == {"none", "waiting", "over"} \cup Working

-----------------------------------------------------------------------------
\* The specialists that work are finitely many.
LEMMA BusyFinite ==
    ASSUME NEW t \in Turns
    PROVE  IsFiniteSet(Busy(t)) /\ Cardinality(Busy(t)) \in Nat
<1>1. Busy(t) \in SUBSET Specialists
  BY DEF Busy
<1>2. IsFiniteSet(Busy(t))
  BY <1>1, FS_Subset
<1>3. QED
  BY <1>2, FS_CardinalityType

\* Run gives a turn no more slots than the engine has.
LEMMA SlotsBound ==
    ASSUME NEW t \in Turns
    PROVE  Slots(t) \in Nat /\ Slots(t) <= MaxConc
<1>1. Picks[t] \in SUBSET Specialists
  OBVIOUS
<1>2. IsFiniteSet(Picks[t])
  BY <1>1, FS_Subset
<1>3. Cardinality(Picks[t]) \in Nat
  BY <1>2, FS_CardinalityType
<1>4. QED
  BY <1>3 DEF Slots

\* What a step that moves one goroutine does to the set of those that work.
LEMMA MoveBusy ==
    ASSUME TypeOK, NEW t \in Turns, NEW s \in Specialists, NEW p \in Places,
           Move(t, s, p)
    PROVE  /\ task' \in [Turns -> [Specialists -> Places]]
           /\ task'[t][s] = p
           /\ \A u \in Turns, x \in Specialists :
                 u # t \/ x # s => task'[u][x] = task[u][x]
           /\ \A u \in Turns \ {t} : Busy(u)' = Busy(u)
           /\ Busy(t)' = IF p \in Working THEN Busy(t) \cup {s}
                                          ELSE Busy(t) \ {s}
<1>1. /\ task' \in [Turns -> [Specialists -> Places]]
      /\ task'[t][s] = p
      /\ \A u \in Turns, x \in Specialists :
            u # t \/ x # s => task'[u][x] = task[u][x]
  BY DEF TypeOK, Move, Places
<1>2. \A u \in Turns \ {t} : Busy(u)' = Busy(u)
  BY <1>1 DEF Busy
<1>3. Busy(t)' = IF p \in Working THEN Busy(t) \cup {s} ELSE Busy(t) \ {s}
  BY <1>1 DEF Busy
<1>4. QED
  BY <1>1, <1>2, <1>3

\* A step of a goroutine that holds its slot and keeps it.
LEMMA KeepsSlot ==
    ASSUME IInv, NEW t \in Turns, NEW s \in Specialists, NEW p \in Working,
           task[t][s] \in Working, Move(t, s, p), UNCHANGED sem
    PROVE  Counted'
<1>1. Busy(t)' = Busy(t) /\ \A u \in Turns \ {t} : Busy(u)' = Busy(u)
  BY MoveBusy DEF IInv, Places, Busy
<1>2. QED
  BY <1>1 DEF IInv, Counted

\* A step that moves no goroutine and takes no slot.
LEMMA KeepsTasks ==
    ASSUME Counted, UNCHANGED <<task, sem>>
    PROVE  Counted'
BY DEF Counted, Busy
-----------------------------------------------------------------------------
LEMMA InitInv == Init => IInv
<1> SUFFICES ASSUME Init PROVE IInv
  OBVIOUS
<1>1. TypeOK
  BY DEF Init, TypeOK, Statuses
<1>2. \A t \in Turns : Busy(t) = {}
  BY DEF Init, Busy, Working
<1>3. Counted
  BY <1>2, FS_EmptySet DEF Init, Counted
<1>4. QED
  BY <1>1, <1>3 DEF Init, IInv, Dispatched, HasResult, Rested

\* Building the contexts, merging and the end of a context move no goroutine.
LEMMA TurnStep ==
    ASSUME IInv, NEW t \in Turns,
           \/ \E s \in Specialists : Build(t, s)
           \/ Collect(t) \/ Merge(t) \/ End(t)
    PROVE  IInv'
<1> USE DEF IInv
<1>1. ASSUME NEW s \in Specialists, Build(t, s) PROVE IInv'
  <2>1. TypeOK'
    BY <1>1 DEF Build, TypeOK
  <2>2. Counted'
    BY <1>1, KeepsTasks DEF Build
  <2>3. Dispatched' /\ HasResult' /\ Rested'
    BY <1>1 DEF Build, Dispatched, HasResult, Rested
  <2>4. QED
    BY <2>1, <2>2, <2>3
<1>2. ASSUME Collect(t) PROVE IInv'
  <2>1. TypeOK'
    BY <1>2 DEF Collect, TypeOK
  <2>2. Counted'
    BY <1>2, KeepsTasks DEF Collect
  <2>3. Dispatched' /\ HasResult'
    BY <1>2 DEF Collect, TypeOK, Dispatched, HasResult
  <2>4. Rested'
    BY <1>2 DEF Collect, TypeOK, Rested, Waited, At
  <2>5. QED
    BY <2>1, <2>2, <2>3, <2>4
<1>3. ASSUME Merge(t) PROVE IInv'
  <2>1. shown' \in [Turns -> SUBSET (Specialists \X Turns)]
    BY <1>3 DEF Merge, TypeOK
  <2>2. TypeOK'
    BY <1>3, <2>1 DEF Merge, TypeOK
  <2>3. Counted'
    BY <1>3, KeepsTasks DEF Merge
  <2>4. Dispatched' /\ HasResult' /\ Rested'
    BY <1>3 DEF Merge, TypeOK, Dispatched, HasResult, Rested
  <2>5. QED
    BY <2>2, <2>3, <2>4
<1>4. ASSUME End(t) PROVE IInv'
  <2>1. TypeOK'
    BY <1>4 DEF End, TypeOK
  <2>2. Counted'
    BY <1>4, KeepsTasks DEF End
  <2>3. Dispatched' /\ HasResult' /\ Rested'
    BY <1>4 DEF End, Dispatched, HasResult, Rested
  <2>4. QED
    BY <2>1, <2>2, <2>3
<1>5. QED
  BY <1>1, <1>2, <1>3, <1>4

\* The goroutines start without a slot.
LEMMA DispatchStep ==
    ASSUME IInv, NEW t \in Turns, Dispatch(t)
    PROVE  IInv'
<1> USE DEF IInv
<1>1. TypeOK'
  BY DEF Dispatch, TypeOK
<1>2. \A u \in Turns : Busy(u)' = Busy(u)
  <2>1. \A u \in Turns \ {t}, s \in Specialists : task'[u][s] = task[u][s]
    BY DEF Dispatch, TypeOK
  <2>2. \A s \in Specialists : task[t][s] = "none" /\ task'[t][s] \in {"none", "waiting"}
    BY DEF Dispatch, TypeOK, Dispatched
  <2>3. QED
    BY <2>1, <2>2 DEF Busy, Working
<1>3. Counted'
  BY <1>2 DEF Dispatch, Counted
<1>4. Dispatched'
  BY DEF Dispatch, TypeOK, Dispatched
<1>5. HasResult'
  BY DEF Dispatch, TypeOK, HasResult
<1>6. Rested'
  BY DEF Dispatch, TypeOK, Rested
<1>7. QED
  BY <1>1, <1>3, <1>4, <1>5, <1>6

\* What every step of a goroutine keeps, where it ends with a result.
LEMMA GoroutineFrame ==
    ASSUME IInv, NEW t \in Turns, NEW s \in Specialists,
           NEW p \in Places \ {"none", "waiting"},
           task[t][s] \in {"waiting"} \cup Working, Move(t, s, p),
           UNCHANGED <<phase, built, reports, ended, shown>>,
           result' \in [Turns -> [Specialists -> Statuses]],
           \A u \in Turns, x \in Specialists :
               u # t \/ x # s => result'[u][x] = result[u][x],
           p \in {"leaving", "over"} => result'[t][s] # "none"
    PROVE  Dispatched' /\ HasResult' /\ Rested'
<1> USE DEF IInv
<1>1. /\ task' \in [Turns -> [Specialists -> Places]]
      /\ task'[t][s] = p
      /\ \A u \in Turns, x \in Specialists :
            u # t \/ x # s => task'[u][x] = task[u][x]
  BY MoveBusy
<1>2. Dispatched'
  BY <1>1 DEF Dispatched, Working, Places
<1>3. HasResult'
  BY <1>1 DEF HasResult
<1>4. phase[t] = "dispatch" /\ s \in Picks[t]
  BY DEF TypeOK, Dispatched, Rested, Working
<1>5. Rested'
  BY <1>1, <1>4 DEF Rested
<1>6. QED
  BY <1>2, <1>3, <1>5

LEMMA TakeSlotStep ==
    ASSUME IInv, NEW t \in Turns, NEW s \in Specialists, TakeSlot(t, s)
    PROVE  IInv'
<1> USE DEF IInv
<1>1. task[t][s] = "waiting" /\ Move(t, s, "slot") /\ "slot" \in Working
  BY DEF TakeSlot, At, Working
<1>2. /\ task' \in [Turns -> [Specialists -> Places]]
      /\ \A u \in Turns \ {t} : Busy(u)' = Busy(u)
      /\ Busy(t)' = Busy(t) \cup {s}
  BY <1>1, MoveBusy DEF Places
<1>3. s \notin Busy(t)
  BY <1>1 DEF Busy, Working
<1>4. Cardinality(Busy(t)') = Cardinality(Busy(t)) + 1
  BY <1>2, <1>3, BusyFinite, FS_AddElement
<1>5. sem[t] \in Nat /\ sem[t] < MaxConc
  BY SlotsBound DEF TakeSlot, TypeOK
<1>6. TypeOK'
  <2>1. sem' \in [Turns -> 0 .. MaxConc]
    BY <1>5 DEF TakeSlot, TypeOK
  <2>2. QED
    BY <1>2, <2>1 DEF TakeSlot, TypeOK, Places
<1>7. Counted'
  BY <1>2, <1>4 DEF TakeSlot, TypeOK, Counted
<1>8. Dispatched' /\ HasResult' /\ Rested'
  BY <1>1, GoroutineFrame DEF TakeSlot, TypeOK, Places
<1>9. QED
  BY <1>6, <1>7, <1>8

LEMMA GiveUpStep ==
    ASSUME IInv, NEW t \in Turns, NEW s \in Specialists, GiveUp(t, s)
    PROVE  IInv'
<1> USE DEF IInv
<1>1. task[t][s] = "waiting" /\ Move(t, s, "over") /\ "over" \notin Working
  BY DEF GiveUp, At, Working
<1>2. /\ task' \in [Turns -> [Specialists -> Places]]
      /\ \A u \in Turns \ {t} : Busy(u)' = Busy(u)
      /\ Busy(t)' = Busy(t) \ {s}
  BY <1>1, MoveBusy DEF Places
<1>3. s \notin Busy(t)
  BY <1>1 DEF Busy, Working
<1>4. Counted'
  <2>1. \A u \in Turns : Busy(u)' = Busy(u)
    BY <1>2, <1>3
  <2>2. QED
    BY <2>1 DEF GiveUp, Counted
<1>5. TypeOK'
  BY <1>2 DEF GiveUp, Result, TypeOK, Places, Statuses
<1>6. Dispatched' /\ HasResult' /\ Rested'
  <2>1. result'[t][s] = "timed_out"
    BY DEF GiveUp, Result, TypeOK
  <2>2. \A u \in Turns, x \in Specialists :
            u # t \/ x # s => result'[u][x] = result[u][x]
    BY DEF GiveUp, Result, TypeOK
  <2>3. "over" \in Places \ {"none", "waiting"}
    BY DEF Places
  <2>4. /\ result' \in [Turns -> [Specialists -> Statuses]]
        /\ UNCHANGED <<phase, built, reports, ended, shown>>
    BY <1>5 DEF GiveUp, TypeOK
  <2>5. QED
    BY <1>1, <2>1, <2>2, <2>3, <2>4, GoroutineFrame
<1>7. QED
  BY <1>4, <1>5, <1>6

\* A goroutine that holds its slot decides on a result, or goes on without one.
LEMMA WorkStep ==
    ASSUME IInv, NEW t \in Turns, NEW s \in Specialists,
           Invoke(t, s) \/ UseTools(t, s) \/ AskModel(t, s) \/ Panic(t, s)
    PROVE  IInv'
<1> USE DEF IInv
<1>1. PICK p \in Working :
          /\ task[t][s] \in Working
          /\ Move(t, s, p)
          /\ UNCHANGED <<phase, built, reports, sem, ended, shown>>
          /\ \/ p # "leaving" /\ UNCHANGED result
             \/ \E status \in Statuses \ {"none"} : Result(t, s, status)
  BY DEF Invoke, UseTools, AskModel, Panic, At, Working, Statuses
<1>2. task' \in [Turns -> [Specialists -> Places]]
  BY <1>1, MoveBusy DEF Places
<1>3. /\ result' \in [Turns -> [Specialists -> Statuses]]
      /\ \A u \in Turns, x \in Specialists :
            u # t \/ x # s => result'[u][x] = result[u][x]
      /\ p = "leaving" => result'[t][s] # "none"
  <2>1. CASE p # "leaving" /\ UNCHANGED result
    BY <2>1 DEF TypeOK
  <2>2. ASSUME NEW status \in Statuses \ {"none"}, Result(t, s, status)
        PROVE  <1>3!1 /\ <1>3!2 /\ <1>3!3
    BY <2>2 DEF Result, TypeOK
  <2>3. QED
    BY <1>1, <2>1, <2>2
<1>4. TypeOK'
  BY <1>1, <1>2, <1>3 DEF TypeOK, Places
<1>5. Counted'
  BY <1>1, KeepsSlot
<1>6. Dispatched' /\ HasResult' /\ Rested'
  BY <1>1, <1>3, GoroutineFrame DEF Places, Working
<1>7. QED
  BY <1>4, <1>5, <1>6

\* The slot that is released was taken: the semaphore is not empty.
LEMMA LeaveStep ==
    ASSUME IInv, NEW t \in Turns, NEW s \in Specialists, Leave(t, s)
    PROVE  IInv'
<1> USE DEF IInv
<1>1. task[t][s] = "leaving" /\ Move(t, s, "over") /\ "over" \notin Working
  BY DEF Leave, At, Working
<1>2. /\ task' \in [Turns -> [Specialists -> Places]]
      /\ \A u \in Turns \ {t} : Busy(u)' = Busy(u)
      /\ Busy(t)' = Busy(t) \ {s}
  BY <1>1, MoveBusy DEF Places
<1>3. s \in Busy(t)
  BY <1>1 DEF Busy, Working
<1>4. /\ Cardinality(Busy(t)') = Cardinality(Busy(t)) - 1
      /\ Cardinality(Busy(t)) \in Nat \ {0}
  BY <1>2, <1>3, BusyFinite, FS_RemoveElement, FS_EmptySet
<1>5. Counted'
  BY <1>2, <1>4 DEF Leave, TypeOK, Counted
<1>6. TypeOK'
  <2>1. sem[t] \in Nat \ {0} /\ sem[t] <= MaxConc
    BY <1>4 DEF TypeOK, Counted
  <2>2. sem' \in [Turns -> 0 .. MaxConc]
    <3>1. sem' = [sem EXCEPT ![t] = sem[t] - 1] /\ sem[t] - 1 \in 0 .. MaxConc
      BY <2>1 DEF Leave
    <3>2. QED
      BY <3>1 DEF TypeOK
  <2>3. QED
    BY <1>2, <2>2 DEF Leave, TypeOK, Places
<1>7. Dispatched' /\ HasResult' /\ Rested'
  <2>1. result'[t][s] # "none"
    BY <1>1 DEF Leave, HasResult
  <2>2. "over" \in Places \ {"none", "waiting"} /\ "leaving" \in Working
    BY DEF Places, Working
  <2>3. QED
    BY <1>1, <2>1, <2>2, GoroutineFrame DEF Leave, TypeOK
<1>8. QED
  BY <1>5, <1>6, <1>7
-----------------------------------------------------------------------------
LEMMA NextInv == IInv /\ [Next]_vars => IInv'
<1> SUFFICES ASSUME IInv, [Next]_vars PROVE IInv'
  OBVIOUS
<1>1. CASE UNCHANGED vars
  BY <1>1 DEF vars, IInv, TypeOK, Counted, Busy, Dispatched, HasResult, Rested
<1>2. ASSUME NEW t \in Turns, Supervise(t) \/ End(t) PROVE IInv'
  BY <1>2, TurnStep, DispatchStep DEF Supervise
<1>3. ASSUME NEW t \in Turns, NEW s \in Specialists, Specialist(t, s) PROVE IInv'
  BY <1>3, TakeSlotStep, GiveUpStep, WorkStep, LeaveStep DEF Specialist
<1>4. QED
  BY <1>1, <1>2, <1>3 DEF Next

LEMMA Inductive == Spec => []IInv
BY InitInv, NextInv, PTL DEF Spec

\* Turns, goroutines and semaphores are well formed in every reachable state.
THEOREM TypeCorrect == Spec => []TypeOK
<1>1. IInv => TypeOK
  BY DEF IInv
<1>2. QED
  BY <1>1, Inductive, PTL

\* The semaphore of a turn counts exactly the specialists at work, and they
\* are never more than Engine.MaxConc, for any panel.
THEOREM PanelIsBounded == Spec => []BoundedPanel
<1>1. IInv => BoundedPanel
  BY DEF IInv, Counted, TypeOK, BoundedPanel
<1>2. QED
  BY <1>1, Inductive, PTL

\* When Run has returned, no goroutine of the panel is left and each
\* specialist has a result.
THEOREM MergeFindsPanelQuiet == Spec => []QuietAfterMerge
<1>1. IInv => QuietAfterMerge
  BY DEF IInv, Rested, HasResult, QuietAfterMerge, At
<1>2. QED
  BY <1>1, Inductive, PTL

\* A turn that is over gets no more successes (runParticipantTurn looks at the
\* context after the model).
THEOREM NoSuccessAfterEnd == Spec => SuccessBeforeEnd
<1>1. IInv /\ [Next]_vars => [NoLateSuccess]_vars
  <2> SUFFICES ASSUME IInv, Next PROVE NoLateSuccess
    BY DEF vars
  <2>1. CASE UNCHANGED result
    BY <2>1 DEF NoLateSuccess
  <2>2. ASSUME NEW t \in Turns, NEW s \in Specialists, NEW status \in Statuses,
               Result(t, s, status), t \in ended => status # "success"
        PROVE  NoLateSuccess
    BY <2>2 DEF Result, IInv, TypeOK, NoLateSuccess
  <2>3. ASSUME NEW t \in Turns, NEW s \in Specialists, Specialist(t, s)
        PROVE  NoLateSuccess
    <3>1. \/ UNCHANGED result
          \/ \E status \in Statuses : /\ Result(t, s, status)
                                      /\ t \in ended => status # "success"
      BY <2>3 DEF Specialist, TakeSlot, GiveUp, Invoke, UseTools, AskModel,
                  Panic, Leave, Statuses
    <3>2. QED
      BY <2>1, <2>2, <3>1
  <2>4. ASSUME NEW t \in Turns, Supervise(t) \/ End(t) PROVE UNCHANGED result
    BY <2>4 DEF Supervise, Build, Dispatch, Collect, Merge, End
  <2>5. QED
    BY <2>1, <2>3, <2>4 DEF Next
<1>2. QED
  BY <1>1, Inductive, PTL DEF Spec, SuccessBeforeEnd
=============================================================================
