--------------------- MODULE ActionAuthorizationProofs ---------------------
(***************************************************************************)
(* Theorems about ActionAuthorization, for any set of actions, users,      *)
(* executors and write steps, any shapes of plans and any number of        *)
(* restarts.                                                               *)
(*                                                                         *)
(* The inductive invariant adds to the types: the two statuses of an       *)
(* action agree (Agree); the decision is recorded exactly from approval or *)
(* rejection on, and comes from somebody entitled to it (Entitled); what   *)
(* an executor holds was approved (HeldApproved); and nothing touched the  *)
(* plan or the task of an action that was not (Untouched).  A refused      *)
(* action was never executed (NotExecuted), else Refuse would part its     *)
(* statuses.                                                               *)
(***************************************************************************)
EXTENDS ActionAuthorization, TLAPS

Decided(a) == status[a] \in {"approved", "rejected", "executed"}
Approved(a) == status[a] \in {"approved", "executed"}

Entitled == \A a \in Actions :
    IF Decided(a) THEN decided[a] \in Approvers /\ decided[a] # Requester[a]
                  ELSE decided[a] = NoUser

HeldApproved == \A e \in Executors :
    IF ex[e].pc = "idle" THEN ex[e].act = NoAction
    ELSE /\ ex[e].act \in Actions
         /\ Approved(ex[e].act)
         /\ ex[e].pc \in {"run", "rerun"} => ex[e].at \in StepIds

Untouched == \A a \in Actions : ~ Approved(a) =>
    /\ a \notin taskDone
    /\ \A s \in StepIds : step[a][s] \in {"absent", "pending"}

NotExecuted == \A a \in Blocked :
    status[a] # "executed" /\ \A e \in Executors : ~ Holds(e, a)

IInv == /\ TypeOK
        /\ StatusesAgree
        /\ Entitled
        /\ HeldApproved
        /\ Untouched
        /\ NotExecuted

USE ConstantsAssumption DEF ConstantsAssumption

-----------------------------------------------------------------------------
\* A plan is made of known statuses.
LEMMA PlanType ==
    ASSUME NEW a \in Actions
    PROVE  /\ buildSkillTurnPlan(a) \in [StepIds -> StepStatuses]
           /\ \A s \in StepIds : buildSkillTurnPlan(a)[s] \in {"absent", "pending"}
BY DEF buildSkillTurnPlan, StepStatuses

\* continueRun keeps a plan a plan, and sets steps to pending only.
LEMMA ContinuedType ==
    ASSUME NEW p \in [StepIds -> StepStatuses], NEW b \in BOOLEAN
    PROVE  /\ Continued(p, b) \in [StepIds -> StepStatuses]
           /\ \A s \in StepIds : Continued(p, b)[s] \in {p[s], "pending"}
BY DEF Continued, StepStatuses, StepIds

\* What the first locked section of executeAction does to the plans.
LEMMA PrepareStep ==
    ASSUME step \in [Actions -> [StepIds -> StepStatuses]],
           NEW a \in Actions, NEW c \in BOOLEAN, Prepare(a, c)
    PROVE  /\ step' \in [Actions -> [StepIds -> StepStatuses]]
           /\ \A b \in Actions \ {a} : step'[b] = step[b]
<1>1. ASSUME step' = step
      PROVE  /\ step' \in [Actions -> [StepIds -> StepStatuses]]
             /\ \A b \in Actions \ {a} : step'[b] = step[b]
  BY <1>1
<1>2. ASSUME \E ensured \in BOOLEAN :
              step' = [step EXCEPT ![a] = Continued(@, ensured)]
      PROVE  /\ step' \in [Actions -> [StepIds -> StepStatuses]]
             /\ \A b \in Actions \ {a} : step'[b] = step[b]
  <2>1. PICK b \in BOOLEAN : step' = [step EXCEPT ![a] = Continued(@, b)]
    BY <1>2
  <2>2. Continued(step[a], b) \in [StepIds -> StepStatuses]
    BY ContinuedType
  <2>3. QED
    BY <2>1, <2>2
<1>3. QED
  BY <1>1, <1>2 DEF Prepare

LEMMA FreeType ==
    /\ Free \in ExecutorType
    /\ Free.pc = "idle" /\ Free.act = NoAction
BY DEF Free, ExecutorType

-----------------------------------------------------------------------------
LEMMA InitIInv == Init => IInv
<1> SUFFICES ASSUME Init PROVE IInv
  OBVIOUS
<1>1. TypeOK
  BY FreeType DEF Init, TypeOK, NoPlan, StepStatuses, Statuses
<1>2. StatusesAgree /\ Entitled /\ HeldApproved /\ Untouched /\ NotExecuted
  BY FreeType DEF Init, StatusesAgree, Entitled, HeldApproved, Untouched,
                  NotExecuted, Holds, Decided, Approved, NoPlan
<1>3. QED
  BY <1>1, <1>2 DEF IInv

-----------------------------------------------------------------------------
(***************************************************************************)
(* One lemma per action: it preserves IInv.                                *)
(***************************************************************************)
LEMMA QueueStep ==
    ASSUME IInv, NEW a \in Actions, Queue(a)
    PROVE  IInv'
<1>1. TypeOK'
  BY PlanType DEF IInv, TypeOK, Queue, Statuses
<1>2. StatusesAgree' /\ Entitled'
  BY DEF IInv, TypeOK, Queue, Statuses, StatusesAgree, Entitled, Decided
<1>3. HeldApproved' /\ NotExecuted'
  BY DEF IInv, TypeOK, Queue, HeldApproved, Approved, NotExecuted, Holds
<1>4. Untouched'
  BY PlanType DEF IInv, TypeOK, Queue, Untouched, Approved
<1>5. QED
  BY <1>1, <1>2, <1>3, <1>4 DEF IInv

LEMMA DecideStep ==
    ASSUME IInv, NEW a \in Actions, NEW u \in Users,
           NEW verdict \in {"approved", "rejected"}, Decide(a, u, verdict)
    PROVE  IInv' /\ status[a] = "pending"
<1>1. status[a] = "pending" /\ req[a] = "pending"
  BY DEF IInv, StatusesAgree, Decide, Undecided
<1>2. TypeOK'
  BY DEF IInv, TypeOK, Decide, Statuses
<1>3. StatusesAgree' /\ Entitled'
  BY DEF IInv, TypeOK, Decide, Statuses, StatusesAgree, Entitled, Decided,
         canApproveActionLocked
<1>4. HeldApproved' /\ NotExecuted'
  BY <1>1 DEF IInv, TypeOK, Decide, HeldApproved, Approved, NotExecuted, Holds
<1>5. Untouched'
  BY <1>1 DEF IInv, TypeOK, Decide, Untouched, Approved
<1>6. QED
  BY <1>1, <1>2, <1>3, <1>4, <1>5 DEF IInv

LEMMA BeginStep ==
    ASSUME IInv, NEW e \in Executors, NEW a \in Actions, NEW c \in BOOLEAN,
           Begin(e, a, c)
    PROVE  IInv'
<1> DEFINE new == Ended(a, "pick", "none")
<1>1. Approved(a) /\ a \notin Blocked
  BY DEF Begin, MayExecute, Approved
<1>2. ex' = [ex EXCEPT ![e] = new]
  BY DEF Begin
<1>3. new \in ExecutorType /\ new.act = a /\ new.pc = "pick"
  BY DEF Ended, ExecutorType
<1>4. /\ step' \in [Actions -> [StepIds -> StepStatuses]]
      /\ \A b \in Actions \ {a} : step'[b] = step[b]
  BY PrepareStep DEF Begin, IInv, TypeOK
<1> HIDE DEF new
<1>5. TypeOK'
  BY <1>2, <1>3, <1>4 DEF IInv, TypeOK, Begin
<1>6. StatusesAgree' /\ Entitled'
  BY DEF IInv, Begin, StatusesAgree, Entitled, Decided
<1>7. HeldApproved' /\ NotExecuted'
  BY <1>1, <1>2, <1>3 DEF IInv, TypeOK, Begin, HeldApproved, Approved,
                          NotExecuted, Holds
<1>8. Untouched'
  BY <1>1, <1>4 DEF IInv, Begin, Untouched, Approved
<1>9. QED
  BY <1>5, <1>6, <1>7, <1>8 DEF IInv

LEMMA RefuseStep ==
    ASSUME IInv, NEW a \in Actions, NEW c \in BOOLEAN, Refuse(a, c)
    PROVE  IInv' /\ status' = status
<1>1. status[a] = "approved"
  BY DEF Refuse, MayExecute, IInv, NotExecuted
<1>2. status' = status
  BY <1>1 DEF Refuse, IInv, TypeOK
<1>3. /\ step' \in [Actions -> [StepIds -> StepStatuses]]
      /\ \A b \in Actions \ {a} : step'[b] = step[b]
  BY PrepareStep DEF Refuse, IInv, TypeOK
<1>4. TypeOK'
  BY <1>2, <1>3 DEF IInv, TypeOK, Refuse
<1>5. StatusesAgree' /\ Entitled' /\ HeldApproved' /\ NotExecuted'
  BY <1>2 DEF IInv, Refuse, StatusesAgree, Entitled, Decided, HeldApproved,
              Approved, NotExecuted, Holds
<1>6. Untouched'
  BY <1>1, <1>2, <1>3 DEF IInv, Refuse, Untouched, Approved
<1>7. QED
  BY <1>2, <1>4, <1>5, <1>6 DEF IInv

(***************************************************************************)
(* The unlocked loop moves an executor and the plan it holds, and nothing  *)
(* else the invariant speaks of.                                           *)
(***************************************************************************)
LEMMA GoToType ==
    ASSUME NEW x \in ExecutorType, NEW at \in StepIds
    PROVE  /\ \A pc \in {"run", "rerun"} :
                  /\ GoTo(x, pc, at) \in ExecutorType
                  /\ GoTo(x, pc, at).pc = pc
                  /\ GoTo(x, pc, at).at = at
                  /\ GoTo(x, pc, at).act = x.act
           /\ GoTo(x, "finish", NoStep) \in ExecutorType
           /\ GoTo(x, "finish", NoStep).pc = "finish"
           /\ GoTo(x, "finish", NoStep).act = x.act
BY DEF GoTo, ExecutorType

LEMMA EndedType ==
    ASSUME NEW a \in Actions, NEW res \in Outcomes,
           NEW pc \in {"pick", "retry", "finish"}
    PROVE  /\ Ended(a, pc, res) \in ExecutorType
           /\ Ended(a, pc, res).pc = pc
           /\ Ended(a, pc, res).act = a
BY DEF Ended, ExecutorType

LEMMA Moved ==
    ASSUME IInv, NEW e \in Executors, ex[e].pc # "idle",
           NEW x \in ExecutorType, x.pc # "idle", x.act = ex[e].act,
           x.pc \in {"run", "rerun"} => x.at \in StepIds,
           ex' = [ex EXCEPT ![e] = x],
           step' \in [Actions -> [StepIds -> StepStatuses]],
           \A b \in Actions \ {ex[e].act} : step'[b] = step[b],
           wins' \in [Actions -> [StepIds -> 0 .. 2]],
           UNCHANGED <<status, req, decided, typed, nextRun, open, taskDone,
                       overlapped, restarts>>
    PROVE  IInv'
<1>1. ex[e].act \in Actions /\ Approved(ex[e].act)
  BY DEF IInv, HeldApproved
<1>2. TypeOK'
  BY DEF IInv, TypeOK
<1>3. StatusesAgree' /\ Entitled'
  BY DEF IInv, StatusesAgree, Entitled, Decided
<1>4. HeldApproved' /\ NotExecuted'
  BY <1>1 DEF IInv, TypeOK, HeldApproved, Approved, NotExecuted, Holds
<1>5. Untouched'
  BY <1>1 DEF IInv, Untouched, Approved
<1>6. QED
  BY <1>2, <1>3, <1>4, <1>5 DEF IInv

LEMMA PickStep ==
    ASSUME IInv, NEW e \in Executors, Pick(e)
    PROVE  IInv'
<1> DEFINE a == ex[e].act
<1>1. ex[e] \in ExecutorType /\ ex[e].pc = "pick"
  BY DEF Pick, IInv, TypeOK
<1>2. UNCHANGED step /\ UNCHANGED wins
      /\ step \in [Actions -> [StepIds -> StepStatuses]]
      /\ wins \in [Actions -> [StepIds -> 0 .. 2]]
  BY DEF Pick, IInv, TypeOK
<1>3. CASE \E s \in nextPendingSkillTurnStep(a) :
               ex' = [ex EXCEPT ![e] = GoTo(@, "run", s)]
  <2>1. PICK s \in StepIds : ex' = [ex EXCEPT ![e] = GoTo(@, "run", s)]
    BY <1>3 DEF nextPendingSkillTurnStep, Ready
  <2> DEFINE x == GoTo(ex[e], "run", s)
  <2>2. x \in ExecutorType /\ x.pc = "run" /\ x.at = s /\ x.act = ex[e].act
    BY <1>1, GoToType
  <2>3. ex' = [ex EXCEPT ![e] = x]
    BY <2>1
  <2> HIDE DEF x
  <2>4. QED
    BY <1>1, <1>2, <2>2, <2>3, Moved DEF Pick
<1>4. CASE ex' = [ex EXCEPT ![e] = GoTo(@, "finish", NoStep)]
  <2> DEFINE x == GoTo(ex[e], "finish", NoStep)
  <2>1. x \in ExecutorType /\ x.pc = "finish" /\ x.act = ex[e].act
    BY <1>1, GoToType DEF StepIds
  <2>2. ex' = [ex EXCEPT ![e] = x]
    BY <1>4
  <2> HIDE DEF x
  <2>3. QED
    BY <1>1, <1>2, <2>1, <2>2, Moved DEF Pick
<1>5. QED
  BY <1>3, <1>4 DEF Pick

LEMMA RetryStep ==
    ASSUME IInv, NEW e \in Executors, Retry(e)
    PROVE  IInv'
<1> DEFINE a == ex[e].act
           first == stepDepsSatisfied(a, Run) /\ Ready(a) \cap Writes = {}
           x == IF first THEN GoTo(ex[e], "rerun", Run)
                         ELSE GoTo(ex[e], "finish", NoStep)
<1>1. ex[e] \in ExecutorType /\ ex[e].pc = "retry" /\ a \in Actions
  BY DEF Retry, IInv, TypeOK, HeldApproved
<1>2. x \in ExecutorType /\ x.pc \in {"rerun", "finish"} /\ x.act = ex[e].act
      /\ (x.pc = "rerun" => x.at = Run)
  BY <1>1, GoToType DEF StepIds
<1>3. ex' = [ex EXCEPT ![e] = x]
  BY DEF Retry
<1> HIDE DEF first, x
<1>4. step' = [step EXCEPT ![a] = [@ EXCEPT ![Run] = "pending"]]
  BY DEF Retry
<1>5. [step[a] EXCEPT ![Run] = "pending"] \in [StepIds -> StepStatuses]
  BY <1>1 DEF IInv, TypeOK, StepStatuses
<1>6. /\ step' \in [Actions -> [StepIds -> StepStatuses]]
      /\ \A b \in Actions \ {a} : step'[b] = step[b]
  BY <1>4, <1>5 DEF IInv, TypeOK
<1>7. wins' \in [Actions -> [StepIds -> 0 .. 2]]
  BY DEF Retry, IInv, TypeOK
<1>8. QED
  BY <1>1, <1>2, <1>3, <1>6, <1>7, Moved DEF Retry, StepIds

LEMMA CallStep ==
    ASSUME IInv, NEW e \in Executors, NEW outcome \in Outcomes, Call(e, outcome)
    PROVE  IInv'
<1> DEFINE x == Ended(ex[e].act, "finish", outcome)
<1>1. ex[e].pc = "pick" /\ ex[e].act \in Actions
  BY DEF Call, IInv, HeldApproved
<1>2. x \in ExecutorType /\ x.pc = "finish" /\ x.act = ex[e].act
  BY <1>1, EndedType
<1>3. ex' = [ex EXCEPT ![e] = x]
  BY DEF Call
<1> HIDE DEF x
<1>4. /\ step' \in [Actions -> [StepIds -> StepStatuses]]
      /\ wins' \in [Actions -> [StepIds -> 0 .. 2]]
      /\ UNCHANGED step
  BY DEF Call, IInv, TypeOK
<1>5. QED
  BY <1>1, <1>2, <1>3, <1>4, Moved DEF Call

LEMMA RunStepStep ==
    ASSUME IInv, NEW e \in Executors, NEW outcome \in Outcomes,
           RunStep(e, outcome)
    PROVE  IInv'
<1> DEFINE a == ex[e].act
           s == ex[e].at
           marked == [step[a] EXCEPT ![s] = outcome]
<1>1. ex[e].pc \in {"run", "rerun"} /\ a \in Actions /\ s \in StepIds
  BY DEF RunStep, IInv, HeldApproved
<1>2. PICK pc \in {"pick", "retry", "finish"} :
          ex' = [ex EXCEPT ![e] = Ended(a, pc, outcome)]
  BY DEF RunStep, AfterTool
<1> DEFINE x == Ended(a, pc, outcome)
<1>3. x \in ExecutorType /\ x.pc = pc /\ x.act = ex[e].act
  BY <1>1, EndedType
<1>4. ex' = [ex EXCEPT ![e] = x]
  BY <1>2
<1> HIDE DEF x
<1>5. marked \in [StepIds -> StepStatuses]
  BY <1>1 DEF IInv, TypeOK, StepStatuses, Outcomes
<1>6. [marked EXCEPT ![Run] = "pending"] \in [StepIds -> StepStatuses]
  BY <1>5 DEF StepStatuses
<1>7. \/ step' = [step EXCEPT ![a] = marked]
      \/ step' = [step EXCEPT ![a] = [marked EXCEPT ![Run] = "pending"]]
  BY DEF RunStep
<1> HIDE DEF marked
<1>8. /\ step' \in [Actions -> [StepIds -> StepStatuses]]
      /\ \A b \in Actions \ {a} : step'[b] = step[b]
  <2>1. PICK p \in [StepIds -> StepStatuses] : step' = [step EXCEPT ![a] = p]
    BY <1>5, <1>6, <1>7
  <2>2. QED
    BY <1>1, <2>1 DEF IInv, TypeOK
<1>9. wins' \in [Actions -> [StepIds -> 0 .. 2]]
  <2>1. wins \in [Actions -> [StepIds -> 0 .. 2]]
    BY DEF IInv, TypeOK
  <2>2. CASE wins' = wins
    BY <2>1, <2>2
  <2>3. CASE /\ wins[a][s] < 2
             /\ wins' = [wins EXCEPT ![a] = [@ EXCEPT ![s] = wins[a][s] + 1]]
    <3>1. wins[a] \in [StepIds -> 0 .. 2] /\ wins[a][s] + 1 \in 0 .. 2
      BY SMTT(30), <1>1, <2>1, <2>3
    <3>2. [wins[a] EXCEPT ![s] = wins[a][s] + 1] \in [StepIds -> 0 .. 2]
      BY <1>1, <3>1
    <3>3. QED
      BY <2>1, <2>3, <3>2
  <2>4. QED
    BY <2>2, <2>3 DEF RunStep
<1>10. QED
  BY <1>1, <1>3, <1>4, <1>8, <1>9, Moved DEF RunStep

(***************************************************************************)
(* The last locked section sets an approved action to approved or executed.*)
(***************************************************************************)
LEMMA Concluded ==
    ASSUME IInv, NEW e \in Executors, ex[e].pc = "finish",
           NEW result \in {"approved", "executed"},
           Conclude(ex[e].act, result),
           nextRun' \subseteq Actions,
           taskDone' \in {taskDone, taskDone \cup {ex[e].act}},
           ex' = [ex EXCEPT ![e] = Free],
           UNCHANGED <<decided, step, typed, open, overlapped, wins, restarts>>
    PROVE  IInv' /\ \A b \in Actions : ~ Approved(b) => status'[b] = status[b]
<1> DEFINE a == ex[e].act
<1>1. a \in Actions /\ Approved(a) /\ a \notin Blocked
  BY DEF IInv, HeldApproved, NotExecuted, Holds
<1>2. /\ status' = [status EXCEPT ![a] = result]
      /\ req' = [req EXCEPT ![a] = result]
  BY DEF Conclude
<1>3. \A b \in Actions : ~ Approved(b) => status'[b] = status[b]
  BY <1>1, <1>2 DEF IInv, TypeOK
<1>4. TypeOK'
  BY <1>1, <1>2, FreeType DEF IInv, TypeOK, Statuses
<1>5. StatusesAgree' /\ Entitled'
  BY <1>1, <1>2 DEF IInv, TypeOK, StatusesAgree, Entitled, Decided, Approved
<1>6. HeldApproved' /\ NotExecuted'
  <2>1. ex'[e].pc = "idle" /\ ex'[e].act = NoAction
    BY FreeType DEF IInv, TypeOK
  <2>2. \A f \in Executors \ {e} : ex'[f] = ex[f]
    BY DEF IInv, TypeOK
  <2>3. \A b \in Actions : Approved(b) => Approved(b)'
    BY <1>1, <1>2 DEF IInv, TypeOK, Approved
  <2>4. HeldApproved'
    BY <2>1, <2>2, <2>3 DEF IInv, HeldApproved
  <2>5. NotExecuted'
    BY <1>1, <1>2, <2>1, <2>2 DEF IInv, TypeOK, NotExecuted, Holds
  <2>6. QED
    BY <2>4, <2>5
<1>7. Untouched'
  BY <1>1, <1>2 DEF IInv, TypeOK, Untouched, Approved
<1>8. QED
  BY <1>3, <1>4, <1>5, <1>6, <1>7 DEF IInv

LEMMA FinishStep ==
    ASSUME IInv, NEW e \in Executors, FinishFailed(e) \/ FinishSucceeded(e)
    PROVE  IInv' /\ \A b \in Actions : ~ Approved(b) => status'[b] = status[b]
<1>1. ex[e].act \in Actions /\ ex[e].pc = "finish" /\ nextRun \subseteq Actions
  BY DEF FinishFailed, FinishSucceeded, IInv, HeldApproved, TypeOK
<1>2. CASE FinishFailed(e)
  <2>1. nextRun' \subseteq Actions
    BY <1>1, <1>2 DEF FinishFailed, KeepNextRun
  <2>2. QED
    BY <1>1, <1>2, <2>1, Concluded DEF FinishFailed
<1>3. CASE FinishSucceeded(e)
  <2>1. nextRun' \subseteq Actions
    BY <1>1, <1>3 DEF FinishSucceeded, KeepNextRun
  <2>2. PICK result \in {"approved", "executed"} : Conclude(ex[e].act, result)
    BY <1>3 DEF FinishSucceeded
  <2>3. QED
    BY <1>1, <1>3, <2>1, <2>2, Concluded DEF FinishSucceeded
<1>4. QED
  BY <1>2, <1>3

LEMMA OtherStep ==
    ASSUME IInv, PatchSession \/ Restart \/ UNCHANGED vars
    PROVE  IInv' /\ UNCHANGED <<status, decided>>
<1>1. UNCHANGED <<status, decided>>
  BY DEF PatchSession, Restart, vars
<1>2. TypeOK'
  <2>1. CASE PatchSession
    BY <2>1, Zenon DEF IInv, TypeOK, PatchSession
  <2>2. CASE Restart
    BY <2>2 DEF IInv, TypeOK, Restart
  <2>3. CASE UNCHANGED vars
    BY <2>3 DEF IInv, TypeOK, vars
  <2>4. QED
    BY <2>1, <2>2, <2>3
<1>3. StatusesAgree' /\ Entitled' /\ HeldApproved' /\ Untouched' /\ NotExecuted'
  BY DEF IInv, StatusesAgree, Entitled, HeldApproved, Untouched, NotExecuted,
         Decided, Approved, Holds, PatchSession, Restart, vars
<1>4. QED
  BY <1>1, <1>2, <1>3 DEF IInv

-----------------------------------------------------------------------------
\* Every step preserves IInv and keeps the decisions taken.
LEMMA RequestStep ==
    ASSUME IInv, NEW a \in Actions, Request(a)
    PROVE  IInv' /\ DecisionKept
<1>1. CASE Queue(a)
  <2>1. IInv'
    BY <1>1, QueueStep
  <2>2. DecisionKept
    BY <1>1 DEF Queue, DecisionKept, IInv, TypeOK
  <2>3. QED
    BY <2>1, <2>2
<1>2. ASSUME NEW u \in Users, NEW verdict \in {"approved", "rejected"},
             Decide(a, u, verdict)
      PROVE  IInv' /\ DecisionKept
  <2>1. IInv' /\ status[a] = "pending"
    BY <1>2, DecideStep
  <2>2. decided[a] = NoUser
    BY <2>1 DEF IInv, Entitled, Decided
  <2>3. DecisionKept
    BY <1>2, <2>2 DEF Decide, DecisionKept, IInv, TypeOK
  <2>4. QED
    BY <2>1, <2>3
<1>3. ASSUME NEW c \in BOOLEAN, Refuse(a, c)
      PROVE  IInv' /\ DecisionKept
  <2>1. IInv' /\ status' = status
    BY <1>3, RefuseStep
  <2>2. QED
    BY <1>3, <2>1 DEF Refuse, DecisionKept
<1>4. ASSUME NEW c \in BOOLEAN, NEW e \in Executors, Begin(e, a, c)
      PROVE  IInv' /\ DecisionKept
  <2>1. IInv'
    BY <1>4, BeginStep
  <2>2. QED
    BY <1>4, <2>1 DEF Begin, DecisionKept
<1>5. QED
  BY <1>1, <1>2, <1>3, <1>4 DEF Request, approveActionSingle, rejectAction

LEMMA ExecutorStepStep ==
    ASSUME IInv, NEW e \in Executors, ExecutorStep(e)
    PROVE  IInv' /\ DecisionKept
<1>1. CASE Pick(e) \/ Retry(e)
  BY <1>1, PickStep, RetryStep DEF Pick, Retry, DecisionKept
<1>2. ASSUME NEW outcome \in Outcomes, RunStep(e, outcome) \/ Call(e, outcome)
      PROVE  IInv' /\ DecisionKept
  <2>1. IInv'
    BY <1>2, RunStepStep, CallStep
  <2>2. QED
    BY <1>2, <2>1 DEF RunStep, Call, DecisionKept
<1>3. CASE FinishFailed(e) \/ FinishSucceeded(e)
  <2>1. IInv' /\ \A b \in Actions : ~ Approved(b) => status'[b] = status[b]
    BY <1>3, FinishStep
  <2>2. decided' = decided
    BY <1>3 DEF FinishFailed, FinishSucceeded
  <2>3. QED
    BY <2>1, <2>2 DEF DecisionKept, Approved
<1>4. QED
  BY <1>1, <1>2, <1>3 DEF ExecutorStep

LEMMA NextStep ==
    ASSUME IInv, [Next]_vars
    PROVE  IInv' /\ DecisionKept
<1>1. CASE \E a \in Actions : Request(a)
  BY <1>1, RequestStep
<1>2. CASE \E e \in Executors : ExecutorStep(e)
  BY <1>2, ExecutorStepStep
<1>3. CASE PatchSession \/ Restart \/ UNCHANGED vars
  BY <1>3, OtherStep DEF DecisionKept
<1>4. QED
  BY <1>1, <1>2, <1>3 DEF Next

LEMMA Inductive == Spec => []IInv
<1>1. IInv /\ [Next]_vars => IInv'
  BY NextStep
<1>2. QED
  BY InitIInv, <1>1, PTL DEF Spec

-----------------------------------------------------------------------------
\* The state of actions, plans and executors is always well formed.
THEOREM TypeCorrect == Spec => []TypeOK
<1>1. IInv => TypeOK
  BY DEF IInv
<1>2. QED
  BY <1>1, Inductive, PTL

\* The two records of a decision always agree.
THEOREM StatusesAlwaysAgree == Spec => []StatusesAgree
<1>1. IInv => StatusesAgree
  BY DEF IInv
<1>2. QED
  BY <1>1, Inductive, PTL

\* Whatever ran, or is being executed, was approved by an approver who did
\* not ask for it.
THEOREM OnlyApprovedActionsRun == Spec => []OnlyApprovedRuns
<1>1. ASSUME IInv PROVE OnlyApprovedRuns
  <2> SUFFICES ASSUME NEW a \in Actions,
                      \/ \E e \in Executors : Holds(e, a)
                      \/ \E s \in StepIds : step[a][s] \notin {"absent", "pending"}
                      \/ a \in taskDone
               PROVE  /\ status[a] \in {"approved", "executed"}
                      /\ decided[a] \in Approvers
                      /\ decided[a] # Requester[a]
    BY DEF OnlyApprovedRuns
  <2>1. CASE \E e \in Executors : Holds(e, a)
    <3>1. Approved(a)
      BY <1>1, <2>1 DEF IInv, HeldApproved, Holds
    <3>2. QED
      BY <1>1, <3>1 DEF IInv, Entitled, Approved, Decided
  <2>2. CASE ~ \E e \in Executors : Holds(e, a)
    <3>1. Approved(a)
      BY <1>1, <2>2 DEF IInv, Untouched
    <3>2. QED
      BY <1>1, <3>1 DEF IInv, Entitled, Approved, Decided
  <2>3. QED
    BY <2>1, <2>2
<1>2. QED
  BY <1>1, Inductive, PTL

\* No step takes back or repeats a decision, those of executeAction included.
THEOREM DecisionsAreFinal == Spec => DecisionIsFinal
<1>1. IInv /\ [Next]_vars => [DecisionKept]_vars
  BY NextStep
<1>2. QED
  BY <1>1, Inductive, PTL DEF Spec, DecisionIsFinal

-----------------------------------------------------------------------------
(***************************************************************************)
(* What executions leave behind, for any constants of ActionAuthorization: *)
(* a step succeeds once, a run follows its writes, and the task of an      *)
(* action is completed when nothing of the action is left to do.           *)
(*                                                                         *)
(* The invariant speaks of one action at a time (Orderly): steps touch the *)
(* plan of the action they are about, and Elsewhere covers the others.     *)
(* What the code promises only while one executor holds the action is      *)
(* Alone.                                                                  *)
(***************************************************************************)

\* A write marked as successful succeeded.
SuccessCounted(a) ==
    \A w \in Writes : step[a][w] = "success" => wins[a][w] > 0

\* RunFollowsWrites, for one action.
RunAfterWrites(a) ==
    /\ a \in typed /\ Shape[a] = "injected"
    /\ \/ step[a][Run] # "pending" /\ status[a] # "none"
       \/ \E e \in Executors : Holds(e, a) /\ ex[e].at = Run
    => \A w \in Writes : wins[a][w] > 0

\* An action without a plan has no step, and nobody is at one.
StepsPlanned(a) ==
    /\ HasPlan(a) \/ step[a] = NoPlan
    /\ \A e \in Executors : Holds(e, a) /\ ex[e].pc \in {"run", "rerun", "retry"} => HasPlan(a)

\* What an executor that nobody disturbs knows of the plan.
Undisturbed(e, a) ==
    /\ ex[e].pc \in {"run", "rerun"} => step[a][ex[e].at] = "pending"
    /\ ex[e].pc = "retry" => step[a][Run] = "failed" /\ ex[e].res = "failed"
    /\ a \in typed /\ ex[e].pc = "finish" /\ ex[e].res = "success" => ~ skillTurnHasPending(a)

\* A step that succeeded still says so.
WonOnce(a) ==
    \A s \in StepIds : wins[a][s] < 2 /\ (wins[a][s] = 1 => step[a][s] = "success")

\* An action whose task was completed is over, and nothing starts it again.
DoneRests(a) ==
    a \in typed /\ a \in taskDone =>
        /\ status[a] = "executed" /\ a \notin nextRun /\ ~ skillTurnHasPending(a)
        /\ \A e \in Executors : ~ Holds(e, a)

Alone(a) ==
    /\ \A e, f \in Executors : Holds(e, a) /\ Holds(f, a) => e = f
    /\ \A e \in Executors : Holds(e, a) => Undisturbed(e, a)
    /\ WonOnce(a)
    /\ DoneRests(a)

Orderly(a) ==
    /\ SuccessCounted(a)
    /\ RunAfterWrites(a)
    /\ StepsPlanned(a)
    /\ a \notin overlapped => Alone(a)

EInv == IInv /\ \A a \in Actions : Orderly(a)

-----------------------------------------------------------------------------
LEMMA EInit == Init => EInv
<1> SUFFICES ASSUME Init, NEW a \in Actions PROVE Orderly(a)
  BY InitIInv DEF EInv
<1>1. \A e \in Executors : ~ Holds(e, a)
  BY FreeType DEF Init, Holds
<1>2. SuccessCounted(a) /\ RunAfterWrites(a) /\ StepsPlanned(a)
  BY <1>1 DEF Init, SuccessCounted, RunAfterWrites, StepsPlanned, NoPlan, StepIds
<1>3. Alone(a)
  BY <1>1 DEF Init, Alone, WonOnce, DoneRests
<1> QED BY <1>2, <1>3 DEF Orderly

\* A step that is not about action b leaves b as orderly as it was.
LEMMA Elsewhere ==
    ASSUME NEW b \in Actions, Orderly(b),
           step'[b] = step[b], wins'[b] = wins[b], status'[b] = status[b],
           b \in typed' <=> b \in typed,
           b \in nextRun' <=> b \in nextRun,
           b \in taskDone' <=> b \in taskDone,
           b \in overlapped => b \in overlapped',
           \A e \in Executors : Holds(e, b)' => Holds(e, b) /\ ex'[e] = ex[e]
    PROVE  Orderly(b)'
<1>1. Ready(b)' = Ready(b)
  BY DEF Ready, stepDepsSatisfied, Deps
<1>2. SuccessCounted(b)' /\ RunAfterWrites(b)' /\ StepsPlanned(b)'
  BY DEF Orderly, SuccessCounted, RunAfterWrites, StepsPlanned
<1>3. ASSUME Alone(b) PROVE Alone(b)'
  BY <1>1, <1>3 DEF Alone, WonOnce, DoneRests, Undisturbed, skillTurnHasPending
<1> QED BY <1>2, <1>3 DEF Orderly

\* continueRun makes a run pending that failed or was not there.
LEMMA PrepareKeeps ==
    ASSUME IInv, NEW a \in Actions, NEW c \in BOOLEAN, Prepare(a, c)
    PROVE  /\ \A s \in StepIds :
                  \/ step'[a][s] = step[a][s]
                  \/ step[a][s] # "success" /\ step'[a][s] = "pending"
           /\ ~ HasPlan(a) => step'[a] = step[a]
<1>1. CASE step' = step
  BY <1>1
<1>2. ASSUME HasPlan(a), NEW b \in BOOLEAN, step' = [step EXCEPT ![a] = Continued(@, b)]
      PROVE  \A s \in StepIds :
                 \/ step'[a][s] = step[a][s]
                 \/ step[a][s] # "success" /\ step'[a][s] = "pending"
  <2>1. step'[a] = Continued(step[a], b)
    BY <1>2 DEF IInv, TypeOK
  <2>2. step[a] \in [StepIds -> StepStatuses]
    BY DEF IInv, TypeOK
  <2> QED BY <2>1, <2>2 DEF Continued
<1> QED BY <1>1, <1>2 DEF Prepare

\* An action nobody holds gives nobody else a hold.
LEMMA Unheld ==
    ASSUME IInv, NEW a \in Actions, ~ Approved(a)
    PROVE  \A e \in Executors : ~ Holds(e, a)
BY DEF IInv, HeldApproved, Holds

-----------------------------------------------------------------------------
(***************************************************************************)
(* One lemma per action.                                                   *)
(***************************************************************************)
LEMMA QueueOrderly ==
    ASSUME EInv, NEW a \in Actions, Queue(a), NEW b \in Actions
    PROVE  Orderly(b)'
<1> USE DEF EInv
<1>1. CASE b # a
  <2>1. \A e \in Executors : Holds(e, b)' => Holds(e, b) /\ ex'[e] = ex[e]
    BY DEF Queue, Holds
  <2>2. /\ step'[b] = step[b] /\ status'[b] = status[b] /\ wins' = wins
        /\ nextRun' = nextRun /\ taskDone' = taskDone /\ overlapped' = overlapped
        /\ b \in typed' <=> b \in typed
    BY <1>1 DEF Queue, IInv, TypeOK
  <2> QED BY <2>1, <2>2, Elsewhere
<1>2. CASE b = a
  <2>1. ~ Approved(a)
    BY DEF Queue, Approved
  <2>2. \A e \in Executors : ~ Holds(e, a)'
    BY <2>1, Unheld DEF Queue, Holds
  <2>3. a \notin taskDone' /\ \A s \in StepIds : step[a][s] # "success"
    BY <2>1 DEF IInv, Untouched, Queue
  <2>4. step'[a] = buildSkillTurnPlan(a)
    BY DEF Queue, IInv, TypeOK
  <2>5. SuccessCounted(a)'
    BY <2>4, PlanType DEF SuccessCounted, StepIds
  <2>6. RunAfterWrites(a)'
    <3>1. Shape[a] = "injected" => step'[a][Run] = "pending"
      BY <2>4 DEF buildSkillTurnPlan, InPlan, StepIds
    <3> QED BY <2>2, <3>1 DEF RunAfterWrites
  <2>7. StepsPlanned(a)'
    <3>1. ~ HasPlan(a) => step'[a] = NoPlan
      BY <2>4 DEF buildSkillTurnPlan, InPlan, HasPlan, NoPlan
    <3> QED BY <2>2, <3>1 DEF StepsPlanned
  <2>8. ASSUME a \notin overlapped' PROVE Alone(a)'
    <3>1. WonOnce(a)'
      BY <2>3, <2>8 DEF Queue, Orderly, Alone, WonOnce
    <3> QED BY <2>2, <2>3, <3>1 DEF Alone, DoneRests
  <2> QED BY <1>2, <2>5, <2>6, <2>7, <2>8 DEF Orderly
<1> QED BY <1>1, <1>2

LEMMA DecideOrderly ==
    ASSUME EInv, NEW a \in Actions, NEW u \in Users,
           NEW verdict \in {"approved", "rejected"}, Decide(a, u, verdict),
           NEW b \in Actions
    PROVE  Orderly(b)'
<1> USE DEF EInv
<1>1. /\ UNCHANGED <<step, typed, nextRun, taskDone, ex, overlapped, wins>>
      /\ \A e \in Executors : Holds(e, b)' => Holds(e, b) /\ ex'[e] = ex[e]
  BY DEF Decide, Holds
<1>2. CASE b # a
  <2>1. status'[b] = status[b]
    BY <1>2 DEF Decide, IInv, TypeOK
  <2> QED BY <1>1, <2>1, Elsewhere
<1>3. CASE b = a
  <2>1. status[a] = "pending" /\ ~ Approved(a)
    BY DecideStep DEF Approved
  <2>2. a \notin taskDone /\ \A e \in Executors : ~ Holds(e, a)
    BY <2>1, Unheld DEF IInv, Untouched
  <2>3. SuccessCounted(a)' /\ RunAfterWrites(a)' /\ StepsPlanned(a)'
    BY <1>1, <1>3, <2>1, <2>2
    DEF Orderly, SuccessCounted, RunAfterWrites, StepsPlanned, Holds
  <2>4. ASSUME Alone(a) PROVE Alone(a)'
    BY <1>1, <2>2, <2>4 DEF Alone, WonOnce, DoneRests, Holds
  <2> QED BY <1>1, <1>3, <2>3, <2>4 DEF Orderly
<1> QED BY <1>2, <1>3

LEMMA BeginOrderly ==
    ASSUME EInv, NEW e \in Executors, NEW a \in Actions, NEW c \in BOOLEAN,
           Begin(e, a, c), NEW b \in Actions
    PROVE  Orderly(b)'
<1> USE DEF EInv
<1> DEFINE new == Ended(a, "pick", "none")
<1>1. new.act = a /\ new.pc = "pick" /\ new.at = NoStep
  BY DEF Ended
<1>2. ex' = [ex EXCEPT ![e] = new] /\ ex \in [Executors -> ExecutorType]
  BY DEF Begin, IInv, TypeOK
<1> HIDE DEF new
<1>3. /\ UNCHANGED <<status, typed, nextRun, taskDone, wins>>
      /\ \A x \in Actions \ {a} : step'[x] = step[x]
  BY PrepareStep DEF Begin, IInv, TypeOK
<1>4. CASE b # a
  <2>1. \A f \in Executors : Holds(f, b)' => Holds(f, b) /\ ex'[f] = ex[f]
    BY <1>1, <1>2, <1>4 DEF Holds
  <2>2. b \in overlapped => b \in overlapped'
    BY DEF Begin
  <2> QED BY <1>3, <1>4, <2>1, <2>2, Elsewhere
<1>5. CASE b = a
  <2>1. /\ \A s \in StepIds :
               \/ step'[a][s] = step[a][s]
               \/ step[a][s] # "success" /\ step'[a][s] = "pending"
        /\ ~ HasPlan(a) => step'[a] = step[a]
    BY PrepareKeeps DEF Begin
  <2>2. \A f \in Executors : Holds(f, a)' => f = e \/ (Holds(f, a) /\ ex'[f] = ex[f])
    BY <1>2 DEF Holds
  <2>3. SuccessCounted(a)'
    BY <1>3, <1>5, <2>1 DEF Orderly, SuccessCounted, StepIds
  <2>4. RunAfterWrites(a)'
    <3>1. status[a] # "none" /\ ex'[e].at # Run
      BY <1>1, <1>2 DEF Begin, MayExecute, StepIds
    <3>2. step'[a][Run] # "pending" => step[a][Run] # "pending"
      BY <2>1 DEF StepIds
    <3> QED BY <1>3, <1>5, <2>2, <3>1, <3>2 DEF Orderly, RunAfterWrites
  <2>5. StepsPlanned(a)'
    BY <1>1, <1>2, <1>5, <2>1, <2>2 DEF Orderly, StepsPlanned
  <2>6. ASSUME a \notin overlapped' PROVE Alone(a)'
    <3>1. a \notin overlapped /\ Alone(a) /\ \A f \in Executors : ~ Holds(f, a)
      BY <1>5, <2>6 DEF Begin, Orderly
    <3>2. WonOnce(a)'
      BY <1>3, <2>1, <3>1 DEF Alone, WonOnce
    <3>3. ~ (a \in typed /\ a \in taskDone)
      BY <3>1 DEF Alone, DoneRests, Begin, MayExecute
    <3>4. Undisturbed(e, a)'
      BY <1>1, <1>2 DEF Undisturbed
    <3> QED BY <1>3, <2>2, <3>1, <3>2, <3>3, <3>4 DEF Alone, DoneRests
  <2> QED BY <1>5, <2>3, <2>4, <2>5, <2>6 DEF Orderly
<1> QED BY <1>4, <1>5

LEMMA RefuseOrderly ==
    ASSUME EInv, NEW a \in Actions, NEW c \in BOOLEAN, Refuse(a, c), NEW b \in Actions
    PROVE  Orderly(b)'
<1> USE DEF EInv
<1>1. /\ UNCHANGED <<status, typed, nextRun, taskDone, wins, ex, overlapped>>
      /\ \A x \in Actions \ {a} : step'[x] = step[x]
  <2>1. status' = status
    BY RefuseStep
  <2>2. \A x \in Actions \ {a} : step'[x] = step[x]
    BY PrepareStep DEF Refuse, IInv, TypeOK
  <2> QED BY <2>1, <2>2 DEF Refuse
<1>2. CASE b # a
  <2>1. \A f \in Executors : Holds(f, b)' => Holds(f, b) /\ ex'[f] = ex[f]
    BY <1>1 DEF Holds
  <2> QED BY <1>1, <1>2, <2>1, Elsewhere
<1>3. CASE b = a
  <2>1. /\ \A s \in StepIds :
               \/ step'[a][s] = step[a][s]
               \/ step[a][s] # "success" /\ step'[a][s] = "pending"
        /\ ~ HasPlan(a) => step'[a] = step[a]
    BY PrepareKeeps DEF Refuse
  <2>2. status[a] = "approved" /\ \A f \in Executors : ~ Holds(f, a)
    BY DEF Refuse, MayExecute, IInv, NotExecuted
  <2>3. \A f \in Executors : ~ Holds(f, a)'
    BY <1>1, <2>2 DEF Holds
  <2>4. SuccessCounted(a)'
    BY <1>1, <1>3, <2>1 DEF Orderly, SuccessCounted, StepIds
  <2>5. RunAfterWrites(a)'
    <3>1. step'[a][Run] # "pending" => step[a][Run] # "pending"
      BY <2>1 DEF StepIds
    <3> QED BY <1>1, <1>3, <2>2, <2>3, <3>1 DEF Orderly, RunAfterWrites
  <2>6. StepsPlanned(a)'
    BY <1>3, <2>1, <2>3 DEF Orderly, StepsPlanned
  <2>7. ASSUME a \notin overlapped' PROVE Alone(a)'
    <3>1. Alone(a)
      BY <1>1, <1>3, <2>7 DEF Orderly
    <3>2. WonOnce(a)'
      BY <1>1, <2>1, <3>1 DEF Alone, WonOnce
    <3>3. ~ (a \in typed /\ a \in taskDone)
      BY <2>2, <3>1 DEF Alone, DoneRests
    <3> QED BY <1>1, <2>3, <3>2, <3>3 DEF Alone, DoneRests
  <2> QED BY <1>3, <2>4, <2>5, <2>6, <2>7 DEF Orderly
<1> QED BY <1>2, <1>3

\* Executor e at work on action a leaves the other actions alone.
LEMMA WorkElsewhere ==
    ASSUME EInv, NEW e \in Executors, NEW a \in Actions,
           ex'[e].act \in {a, NoAction},
           \A f \in Executors \ {e} : ex'[f] = ex[f],
           NEW b \in Actions, b # a,
           step'[b] = step[b], wins'[b] = wins[b], status'[b] = status[b],
           typed' = typed, overlapped' = overlapped,
           b \in nextRun' <=> b \in nextRun,
           b \in taskDone' <=> b \in taskDone
    PROVE  Orderly(b)'
<1>1. Orderly(b) /\ b # NoAction
  BY DEF EInv
<1>2. \A f \in Executors : Holds(f, b)' => Holds(f, b) /\ ex'[f] = ex[f]
  BY <1>1 DEF Holds
<1> QED BY <1>1, <1>2, Elsewhere

\* The fields of an executor that moved.
LEMMA MovedFields ==
    ASSUME NEW x, NEW a, NEW pc, NEW at, NEW res
    PROVE  /\ GoTo(x, pc, at).pc = pc /\ GoTo(x, pc, at).at = at
           /\ GoTo(x, pc, at).act = x.act /\ GoTo(x, pc, at).res = x.res
           /\ Ended(a, pc, res).pc = pc /\ Ended(a, pc, res).at = NoStep
           /\ Ended(a, pc, res).act = a /\ Ended(a, pc, res).res = res
BY DEF GoTo, Ended

LEMMA PickOrderly ==
    ASSUME EInv, NEW e \in Executors, NEW a \in Actions, a = ex[e].act,
           Pick(e), NEW b \in Actions
    PROVE  Orderly(b)'
<1> USE DEF EInv
<1>1. /\ UNCHANGED <<status, step, typed, nextRun, taskDone, overlapped, wins>>
      /\ ex \in [Executors -> ExecutorType] /\ a \in Actions /\ HasPlan(a)
  BY DEF Pick, IInv, TypeOK, HeldApproved
<1>2. PICK x : /\ ex' = [ex EXCEPT ![e] = x] /\ x.act = a
               /\ \/ x.pc = "run" /\ x.at \in nextPendingSkillTurnStep(a)
                  \/ x.pc = "finish" /\ x.at = NoStep /\ nextPendingSkillTurnStep(a) = {}
  <2>1. CASE \E s \in nextPendingSkillTurnStep(a) :
                 ex' = [ex EXCEPT ![e] = GoTo(@, "run", s)]
    <3>1. PICK s \in nextPendingSkillTurnStep(a) :
                 ex' = [ex EXCEPT ![e] = GoTo(ex[e], "run", s)]
      BY <2>1
    <3> DEFINE y == GoTo(ex[e], "run", s)
    <3>2. y.pc = "run" /\ y.at = s /\ y.act = a
      BY MovedFields
    <3>3. ex' = [ex EXCEPT ![e] = y]
      BY <3>1
    <3> HIDE DEF y
    <3> QED BY <3>2, <3>3
  <2>2. CASE /\ nextPendingSkillTurnStep(a) = {}
             /\ ex' = [ex EXCEPT ![e] = GoTo(@, "finish", NoStep)]
    <3> DEFINE y == GoTo(ex[e], "finish", NoStep)
    <3>1. ex' = [ex EXCEPT ![e] = y]
      BY <2>2
    <3>2. y.pc = "finish" /\ y.at = NoStep /\ y.act = a
      BY MovedFields
    <3> HIDE DEF y
    <3> QED BY <2>2, <3>1, <3>2
  <2> QED BY <2>1, <2>2 DEF Pick
<1>3. CASE b # a
  <2>1. ex'[e].act \in {a, NoAction} /\ \A f \in Executors \ {e} : ex'[f] = ex[f]
    BY <1>1, <1>2
  <2> QED BY <1>1, <1>3, <2>1, WorkElsewhere
<1>4. CASE b = a
  <2>1. \A f \in Executors : Holds(f, a)' => f = e \/ (Holds(f, a) /\ ex'[f] = ex[f])
    BY <1>1, <1>2 DEF Holds
  <2>2. Holds(e, a) /\ ex'[e] = x
    BY <1>1, <1>2 DEF Holds
  <2>3. x.pc = "run" => x.at \in Ready(a)
    BY <1>2 DEF nextPendingSkillTurnStep
  <2>4. x.pc = "finish" => ~ skillTurnHasPending(a)
    BY <1>2 DEF nextPendingSkillTurnStep, skillTurnHasPending
  <2>5. SuccessCounted(a)' /\ StepsPlanned(a)'
    BY <1>1, <1>4, <2>1 DEF Orderly, SuccessCounted, StepsPlanned
  <2>6. RunAfterWrites(a)'
    <3>1. ASSUME x.at = Run, a \in typed, Shape[a] = "injected"
          PROVE  \A w \in Writes : wins[a][w] > 0
      <4>1. Run \in Ready(a)
        BY <1>2, <2>3, <3>1 DEF StepIds
      <4>2. \A w \in Writes : step[a][w] = "success"
        BY <3>1, <4>1 DEF Ready, stepDepsSatisfied, Deps
      <4> QED BY <1>4, <4>2 DEF Orderly, SuccessCounted
    <3> QED BY <1>1, <1>4, <2>1, <2>2, <3>1 DEF Orderly, RunAfterWrites
  <2>7. ASSUME Alone(a) PROVE Alone(a)'
    <3>1. skillTurnHasPending(a)' = skillTurnHasPending(a)
      BY <1>1 DEF skillTurnHasPending, Ready, stepDepsSatisfied, Deps
    <3>2. Undisturbed(e, a)'
      BY <1>1, <1>2, <2>2, <2>3, <2>4, <3>1 DEF Undisturbed, Ready
    <3>3. \A f \in Executors : Holds(f, a)' => f = e
      BY <2>1, <2>2, <2>7 DEF Alone
    <3>4. WonOnce(a)' /\ DoneRests(a)'
      BY <1>1, <2>2, <2>7 DEF Alone, WonOnce, DoneRests
    <3> QED BY <3>2, <3>3, <3>4 DEF Alone
  <2> QED BY <1>1, <1>4, <2>5, <2>6, <2>7 DEF Orderly
<1> QED BY <1>3, <1>4

LEMMA RetryOrderly ==
    ASSUME EInv, NEW e \in Executors, NEW a \in Actions, a = ex[e].act,
           Retry(e), NEW b \in Actions
    PROVE  Orderly(b)'
<1> USE DEF EInv
<1> DEFINE first == stepDepsSatisfied(a, Run) /\ Ready(a) \cap Writes = {}
           x == IF first THEN GoTo(ex[e], "rerun", Run)
                         ELSE GoTo(ex[e], "finish", NoStep)
<1>1. /\ UNCHANGED <<status, typed, nextRun, taskDone, overlapped, wins>>
      /\ ex \in [Executors -> ExecutorType] /\ a \in Actions
      /\ step \in [Actions -> [StepIds -> StepStatuses]] /\ ex[e].pc = "retry"
  BY DEF Retry, IInv, TypeOK, HeldApproved
<1>2. /\ x.act = a /\ x.res = ex[e].res
      /\ \/ x.pc = "rerun" /\ x.at = Run /\ stepDepsSatisfied(a, Run)
         \/ x.pc = "finish" /\ x.at = NoStep
  BY MovedFields
<1>3. ex' = [ex EXCEPT ![e] = x]
  BY DEF Retry
<1> HIDE DEF first, x
<1>4. step' = [step EXCEPT ![a] = [@ EXCEPT ![Run] = "pending"]]
  BY DEF Retry
<1>5. /\ \A y \in Actions \ {a} : step'[y] = step[y]
      /\ step'[a][Run] = "pending"
      /\ \A s \in StepIds \ {Run} : step'[a][s] = step[a][s]
  BY <1>1, <1>4 DEF StepIds
<1>6. CASE b # a
  <2>1. ex'[e].act \in {a, NoAction} /\ \A f \in Executors \ {e} : ex'[f] = ex[f]
    BY <1>1, <1>2, <1>3
  <2> QED BY <1>1, <1>5, <1>6, <2>1, WorkElsewhere
<1>7. CASE b = a
  <2>1. \A f \in Executors : Holds(f, a)' => f = e \/ (Holds(f, a) /\ ex'[f] = ex[f])
    BY <1>1, <1>3 DEF Holds
  <2>2. Holds(e, a) /\ ex'[e] = x
    BY <1>1, <1>3 DEF Holds
  <2>3. SuccessCounted(a)'
    BY <1>1, <1>5, <1>7 DEF Orderly, SuccessCounted, StepIds
  <2>4. StepsPlanned(a)'
    BY <1>1, <1>7, <2>2 DEF Orderly, StepsPlanned
  <2>5. RunAfterWrites(a)'
    <3>1. ASSUME x.at = Run, a \in typed, Shape[a] = "injected"
          PROVE  \A w \in Writes : wins[a][w] > 0
      <4>1. \A w \in Writes : step[a][w] = "success"
        BY <1>2, <3>1 DEF stepDepsSatisfied, Deps, StepIds
      <4> QED BY <1>7, <4>1 DEF Orderly, SuccessCounted
    <3> QED BY <1>1, <1>5, <1>7, <2>1, <2>2, <3>1 DEF Orderly, RunAfterWrites
  <2>6. ASSUME Alone(a) PROVE Alone(a)'
    <3>1. step[a][Run] = "failed" /\ ex[e].res = "failed"
      BY <1>1, <2>2, <2>6 DEF Alone, Undisturbed
    <3>2. Undisturbed(e, a)'
      BY <1>2, <1>5, <2>2, <3>1 DEF Undisturbed
    <3>3. \A f \in Executors : Holds(f, a)' => f = e
      BY <2>1, <2>2, <2>6 DEF Alone
    <3>4. WonOnce(a)'
      BY <1>1, <1>5, <2>6, <3>1 DEF Alone, WonOnce
    <3>5. DoneRests(a)'
      BY <1>1, <2>2, <2>6 DEF Alone, DoneRests
    <3> QED BY <3>2, <3>3, <3>4, <3>5 DEF Alone
  <2> QED BY <1>1, <1>7, <2>3, <2>4, <2>5, <2>6 DEF Orderly
<1> QED BY <1>6, <1>7

LEMMA CallOrderly ==
    ASSUME EInv, NEW e \in Executors, NEW a \in Actions, a = ex[e].act,
           NEW outcome \in Outcomes, Call(e, outcome),
           NEW b \in Actions
    PROVE  Orderly(b)'
<1> USE DEF EInv
<1> DEFINE x == Ended(a, "finish", outcome)
<1>1. /\ UNCHANGED <<status, step, typed, nextRun, taskDone, overlapped, wins>>
      /\ ex \in [Executors -> ExecutorType] /\ a \in Actions /\ ~ HasPlan(a)
  BY DEF Call, IInv, TypeOK, HeldApproved
<1>2. x.act = a /\ x.pc = "finish" /\ x.at = NoStep
  BY MovedFields
<1>3. ex' = [ex EXCEPT ![e] = x]
  BY DEF Call
<1> HIDE DEF x
<1>4. CASE b # a
  <2>1. ex'[e].act \in {a, NoAction} /\ \A f \in Executors \ {e} : ex'[f] = ex[f]
    BY <1>1, <1>2, <1>3
  <2> QED BY <1>1, <1>4, <2>1, WorkElsewhere
<1>5. CASE b = a
  <2>1. \A f \in Executors : Holds(f, a)' => f = e \/ (Holds(f, a) /\ ex'[f] = ex[f])
    BY <1>1, <1>3 DEF Holds
  <2>2. Holds(e, a) /\ ex'[e] = x
    BY <1>1, <1>3 DEF Holds
  <2>3. SuccessCounted(a)' /\ StepsPlanned(a)'
    BY <1>1, <1>2, <1>5, <2>1, <2>2 DEF Orderly, SuccessCounted, StepsPlanned
  <2>4. RunAfterWrites(a)'
    BY <1>1, <1>2, <1>5, <2>1, <2>2 DEF Orderly, RunAfterWrites, StepIds
  <2>5. ~ skillTurnHasPending(a)'
    <3>1. step'[a] = NoPlan
      BY <1>1, <1>5 DEF Orderly, StepsPlanned
    <3> QED BY <3>1 DEF skillTurnHasPending, Ready, NoPlan
  <2>6. ASSUME Alone(a) PROVE Alone(a)'
    <3>1. Undisturbed(e, a)'
      BY <1>2, <2>2, <2>5 DEF Undisturbed
    <3>2. \A f \in Executors : Holds(f, a)' => f = e
      BY <2>1, <2>2, <2>6 DEF Alone
    <3>3. WonOnce(a)' /\ DoneRests(a)'
      BY <1>1, <2>2, <2>6 DEF Alone, WonOnce, DoneRests
    <3> QED BY <3>1, <3>2, <3>3 DEF Alone
  <2> QED BY <1>1, <1>5, <2>3, <2>4, <2>6 DEF Orderly
<1> QED BY <1>4, <1>5

LEMMA RunStepOrderly ==
    ASSUME EInv, NEW e \in Executors, NEW a \in Actions, a = ex[e].act,
           NEW outcome \in Outcomes, RunStep(e, outcome),
           NEW s, s = ex[e].at,
           NEW b \in Actions
    PROVE  Orderly(b)'
<1> USE DEF EInv
<1> DEFINE marked == [step[a] EXCEPT ![s] = outcome]
<1>1. /\ UNCHANGED <<status, typed, nextRun, taskDone, overlapped>>
      /\ ex \in [Executors -> ExecutorType] /\ a \in Actions /\ s \in StepIds
      /\ step \in [Actions -> [StepIds -> StepStatuses]]
      /\ wins \in [Actions -> [StepIds -> 0 .. 2]]
      /\ ex[e].pc \in {"run", "rerun"}
  BY DEF RunStep, IInv, TypeOK, HeldApproved
<1>2. PICK pc \in AfterTool(e, a, s, outcome) :
          ex' = [ex EXCEPT ![e] = Ended(a, pc, outcome)]
  BY DEF RunStep
<1> DEFINE x == Ended(a, pc, outcome)
<1>3. x.act = a /\ x.pc = pc /\ x.at = NoStep /\ x.res = outcome
  BY MovedFields
<1>4. ex' = [ex EXCEPT ![e] = x]
  BY <1>2
<1> HIDE DEF x
<1>5. /\ pc \in {"pick", "retry", "finish"}
      /\ pc = "retry" => outcome = "failed" /\ s = Run
      /\ pc = "finish" => outcome # "success"
  BY <1>2 DEF AfterTool
<1>6. /\ \A y \in Actions \ {a} : step'[y] = step[y]
      /\ step'[a][s] = outcome
      /\ \A t \in StepIds \ {s} :
             \/ step'[a][t] = step[a][t]
             \/ t = Run /\ step[a][t] = "absent" /\ step'[a][t] = "pending"
  <2>1. CASE step' = [step EXCEPT ![a] = marked]
    BY <1>1, <2>1
  <2>2. CASE /\ s # Run /\ step[a][Run] = "absent"
             /\ step' = [step EXCEPT ![a] = [marked EXCEPT ![Run] = "pending"]]
    BY <1>1, <2>2
  <2> QED BY <2>1, <2>2 DEF RunStep
<1>7. /\ \A y \in Actions \ {a} : wins'[y] = wins[y]
      /\ \A t \in StepIds \ {s} : wins'[a][t] = wins[a][t]
      /\ wins'[a][s] = IF outcome = "success" /\ wins[a][s] < 2
                       THEN wins[a][s] + 1 ELSE wins[a][s]
  <2>1. CASE outcome = "success" /\ wins[a][s] < 2
    <3>1. wins' = [wins EXCEPT ![a] = [@ EXCEPT ![s] = wins[a][s] + 1]]
      BY <2>1 DEF RunStep
    <3> QED BY <1>1, <2>1, <3>1
  <2>2. CASE ~ (outcome = "success" /\ wins[a][s] < 2)
    BY <2>2 DEF RunStep
  <2> QED BY <2>1, <2>2
<1> HIDE DEF marked
<1>8. CASE b # a
  <2>1. ex'[e].act \in {a, NoAction} /\ \A f \in Executors \ {e} : ex'[f] = ex[f]
    BY <1>1, <1>3, <1>4
  <2> QED BY SMTT(30), <1>1, <1>6, <1>7, <1>8, <2>1, WorkElsewhere
<1>9. CASE b = a
  <2>1. \A f \in Executors : Holds(f, a)' => f = e \/ (Holds(f, a) /\ ex'[f] = ex[f])
    BY <1>1, <1>4 DEF Holds
  <2>2. Holds(e, a) /\ ex'[e] = x
    BY <1>1, <1>4 DEF Holds
  <2>3. \A t \in StepIds : wins[a][t] \in 0 .. 2 /\ (wins[a][t] > 0 => wins'[a][t] > 0)
    BY <1>1, <1>7
  <2>4. SuccessCounted(a)'
    <3> SUFFICES ASSUME NEW w \in Writes, step'[a][w] = "success" PROVE wins'[a][w] > 0
      BY DEF SuccessCounted
    <3>1. CASE w = s
      BY <1>6, <1>7, <2>3, <3>1 DEF StepIds
    <3>2. CASE w # s
      BY <1>6, <1>9, <2>3, <3>2 DEF Orderly, SuccessCounted, StepIds
    <3> QED BY <3>1, <3>2
  <2>5. StepsPlanned(a)'
    <3>1. HasPlan(a)
      BY <1>1, <1>9, <2>2 DEF Orderly, StepsPlanned
    <3> QED BY <3>1 DEF StepsPlanned
  <2>6. RunAfterWrites(a)'
    <3> SUFFICES ASSUME a \in typed, Shape[a] = "injected",
                        \/ step'[a][Run] # "pending" /\ status[a] # "none"
                        \/ \E f \in Executors : Holds(f, a)' /\ ex'[f].at = Run
                 PROVE  \A w \in Writes : wins[a][w] > 0
      BY <1>1, <2>3 DEF RunAfterWrites, StepIds
    <3>1. CASE s = Run
      BY <1>9, <2>2, <3>1 DEF Orderly, RunAfterWrites
    <3>2. CASE s # Run /\ step'[a][Run] # "pending" /\ status[a] # "none"
      BY <1>6, <1>9, <3>2 DEF Orderly, RunAfterWrites, StepIds
    <3>3. CASE \E f \in Executors : Holds(f, a)' /\ ex'[f].at = Run
      BY <1>3, <1>9, <2>1, <2>2, <3>3 DEF Orderly, RunAfterWrites, StepIds
    <3> QED BY <3>1, <3>2, <3>3 DEF Holds
  <2>7. ASSUME Alone(a) PROVE Alone(a)'
    <3>1. step[a][s] = "pending"
      BY <1>1, <2>2, <2>7 DEF Alone, Undisturbed
    <3>2. wins[a][s] = 0
      <4>1. wins[a][s] < 2 /\ wins[a][s] # 1
        BY <1>1, <2>7, <3>1 DEF Alone, WonOnce
      <4>2. wins[a][s] \in 0 .. 2
        BY <1>1, <2>3
      <4> QED BY <4>1, <4>2
    <3>3. WonOnce(a)'
      <4> SUFFICES ASSUME NEW t \in StepIds
                   PROVE  wins'[a][t] < 2 /\ (wins'[a][t] = 1 => step'[a][t] = "success")
        BY DEF WonOnce
      <4>1. CASE t = s
        BY <1>6, <1>7, <3>2, <4>1
      <4>2. CASE t # s
        BY <1>6, <1>7, <2>7, <4>2 DEF Alone, WonOnce
      <4> QED BY <4>1, <4>2
    <3>4. Undisturbed(e, a)'
      BY <1>3, <1>5, <1>6, <2>2 DEF Undisturbed
    <3>5. \A f \in Executors : Holds(f, a)' => f = e
      BY <2>1, <2>2, <2>7 DEF Alone
    <3>6. DoneRests(a)'
      BY <1>1, <2>2, <2>7 DEF Alone, DoneRests
    <3> QED BY <3>3, <3>4, <3>5, <3>6 DEF Alone
  <2> QED BY <1>1, <1>9, <2>4, <2>5, <2>6, <2>7 DEF Orderly
<1> QED BY <1>8, <1>9

LEMMA FinishOrderly ==
    ASSUME EInv, NEW e \in Executors, NEW a \in Actions, a = ex[e].act,
           FinishFailed(e) \/ FinishSucceeded(e),
           NEW b \in Actions
    PROVE  Orderly(b)'
<1> USE DEF EInv
<1>1. /\ UNCHANGED <<step, typed, overlapped, wins>> /\ ex' = [ex EXCEPT ![e] = Free]
      /\ ex \in [Executors -> ExecutorType] /\ a \in Actions /\ status[a] # "none"
      /\ status \in [Actions -> Statuses] /\ ex[e].pc = "finish" /\ Free.act = NoAction
  BY FreeType DEF FinishFailed, FinishSucceeded, IInv, TypeOK, HeldApproved, Approved
<1>2. CASE b # a
  <2>1. PICK result : status' = [status EXCEPT ![a] = result]
    BY DEF FinishFailed, FinishSucceeded, Conclude
  <2>2. status'[b] = status[b]
    BY <1>1, <1>2, <2>1
  <2>3. (b \in nextRun' <=> b \in nextRun) /\ (b \in taskDone' <=> b \in taskDone)
    BY <1>2 DEF FinishFailed, FinishSucceeded, KeepNextRun
  <2>4. ex'[e].act \in {a, NoAction} /\ \A f \in Executors \ {e} : ex'[f] = ex[f]
    BY <1>1
  <2> QED BY <1>1, <1>2, <2>2, <2>3, <2>4, WorkElsewhere
<1>3. CASE b = a
  <2>1. \A f \in Executors : Holds(f, a)' => Holds(f, a) /\ f # e /\ ex'[f] = ex[f]
    BY <1>1 DEF Holds
  <2>2. Holds(e, a)
    BY DEF Holds
  <2>3. SuccessCounted(a)' /\ StepsPlanned(a)' /\ RunAfterWrites(a)'
    BY <1>1, <1>3, <2>1
    DEF Orderly, SuccessCounted, StepsPlanned, RunAfterWrites
  <2>4. ASSUME Alone(a) PROVE Alone(a)'
    <3>1. \A f \in Executors : ~ Holds(f, a)'
      BY <2>1, <2>2, <2>4 DEF Alone
    <3>2. WonOnce(a)'
      BY <1>1, <2>4 DEF Alone, WonOnce
    <3>3. skillTurnHasPending(a)' = skillTurnHasPending(a)
      BY <1>1 DEF skillTurnHasPending, Ready, stepDepsSatisfied, Deps
    <3>4. DoneRests(a)'
      <4> SUFFICES ASSUME a \in typed, a \in taskDone'
                   PROVE  /\ status'[a] = "executed" /\ a \notin nextRun'
                          /\ ~ skillTurnHasPending(a)
        BY <1>1, <3>1, <3>3 DEF DoneRests
      <4>1. a \notin taskDone
        BY <2>2, <2>4 DEF Alone, DoneRests
      <4>2. ex[e].res = "success" /\ FinishSucceeded(e)
        BY <4>1 DEF FinishFailed, FinishSucceeded
      <4>3. ~ skillTurnHasPending(a)
        BY <1>1, <2>2, <2>4, <4>2 DEF Alone, Undisturbed
      <4> QED BY <1>1, <4>2, <4>3 DEF FinishSucceeded, Conclude
    <3> QED BY <3>1, <3>2, <3>4 DEF Alone
  <2> QED BY <1>1, <1>3, <2>3, <2>4 DEF Orderly
<1> QED BY <1>2, <1>3

LEMMA OtherOrderly ==
    ASSUME EInv, PatchSession \/ Restart \/ UNCHANGED vars, NEW b \in Actions
    PROVE  Orderly(b)'
<1> USE DEF EInv
<1>1. CASE PatchSession \/ UNCHANGED vars
  <2>1. UNCHANGED <<status, step, typed, nextRun, taskDone, ex, overlapped, wins>>
    BY <1>1 DEF PatchSession, vars
  <2>2. \A e \in Executors : Holds(e, b)' => Holds(e, b) /\ ex'[e] = ex[e]
    BY <2>1 DEF Holds
  <2> QED BY <2>1, <2>2, Elsewhere
<1>2. CASE Restart
  <2>1. UNCHANGED <<status, step, nextRun, taskDone, ex, overlapped, wins>> /\ typed' = {}
    BY <1>2 DEF Restart
  <2>2. \A e \in Executors : ~ Holds(e, b)'
    BY <1>2, <2>1 DEF Restart, IInv, HeldApproved, Holds
  <2>3. SuccessCounted(b)' /\ RunAfterWrites(b)' /\ StepsPlanned(b)'
    BY <2>1, <2>2 DEF Orderly, SuccessCounted, RunAfterWrites, StepsPlanned
  <2>4. ASSUME Alone(b) PROVE Alone(b)'
    BY <2>1, <2>2, <2>4 DEF Alone, WonOnce, DoneRests
  <2> QED BY <2>1, <2>3, <2>4 DEF Orderly
<1> QED BY <1>1, <1>2

-----------------------------------------------------------------------------
LEMMA EStep == EInv /\ [Next]_vars => EInv'
<1> SUFFICES ASSUME EInv, [Next]_vars, NEW b \in Actions PROVE Orderly(b)'
  BY NextStep DEF EInv
<1>1. ASSUME NEW a \in Actions, Request(a) PROVE Orderly(b)'
  BY <1>1, QueueOrderly, DecideOrderly, RefuseOrderly, BeginOrderly
  DEF Request, approveActionSingle, rejectAction
<1>2. ASSUME NEW e \in Executors, ExecutorStep(e) PROVE Orderly(b)'
  <2>1. ex[e].pc # "idle"
    BY <1>2 DEF ExecutorStep, Pick, Retry, RunStep, Call, FinishFailed, FinishSucceeded
  <2>2. PICK a \in Actions : a = ex[e].act
    BY <2>1 DEF EInv, IInv, HeldApproved
  <2>3. CASE Pick(e) \/ Retry(e)
    BY <2>2, <2>3, PickOrderly, RetryOrderly
  <2>4. ASSUME NEW outcome \in Outcomes, RunStep(e, outcome) \/ Call(e, outcome)
        PROVE  Orderly(b)'
    BY <2>2, <2>4, RunStepOrderly, CallOrderly
  <2>5. CASE FinishFailed(e) \/ FinishSucceeded(e)
    BY <2>2, <2>5, FinishOrderly
  <2> QED BY SMTT(30), <1>2, <2>3, <2>4, <2>5 DEF ExecutorStep
<1> QED BY <1>1, <1>2, OtherOrderly DEF Next

LEMMA AlwaysOrderly == Spec => []EInv
BY EInit, EStep, PTL DEF Spec

\* No step succeeds twice unless executions of its action overlapped, whatever
\* retries and requests to continue there are.
THEOREM StepsSucceedOnce == Spec => []StepSucceedsOnce
<1>1. EInv => StepSucceedsOnce
  BY DEF EInv, Orderly, Alone, WonOnce, StepSucceedsOnce
<1> QED BY <1>1, AlwaysOrderly, PTL

\* In the process that planned it, the run of injected writes is attempted
\* when each of them has succeeded, overlapping executions included.
THEOREM RunsFollowWrites == Spec => []RunFollowsWrites
<1>1. EInv => RunFollowsWrites
  <2> SUFFICES ASSUME EInv, NEW a \in typed, Shape[a] = "injected",
                      \/ step[a][Run] # "pending" /\ status[a] # "none"
                      \/ \E e \in Executors : Holds(e, a) /\ ex[e].at = Run
               PROVE  \A w \in Writes : wins[a][w] > 0
    BY DEF RunFollowsWrites
  <2> QED BY DEF EInv, IInv, TypeOK, Orderly, RunAfterWrites
<1> QED BY <1>1, AlwaysOrderly, PTL

\* A completed task belongs to an action that is executed and rests, unless
\* executions overlapped or the plan was read back.
THEOREM DoneTasksRest == Spec => []TaskDoneAgrees
<1>1. EInv => TaskDoneAgrees
  BY DEF EInv, IInv, TypeOK, Orderly, Alone, DoneRests, TaskDoneAgrees
<1> QED BY <1>1, AlwaysOrderly, PTL
=============================================================================
