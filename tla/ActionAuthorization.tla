------------------------ MODULE ActionAuthorization ------------------------
(***************************************************************************)
(* The authorization of a copilot's write: the action an agent or a user   *)
(* queues, the one decision a person takes on it (approveActionSingle,     *)
(* rejectAction), and its execution (executeAction), which holds           *)
(* Store.Lock only to begin and to finish: its steps run unlocked on a     *)
(* plan it shares with every other execution of the same action.           *)
(*                                                                         *)
(* A plan (buildSkillTurnPlan) is some write steps and a run step.  Where  *)
(* the writes were injected for the run (injectWriteStepsForRunDependen-   *)
(* cies), the run names them in `deps`, a []string: a plan that came back  *)
(* from the database has a []any there, which stepDepsSatisfied does not   *)
(* recognise.                                                              *)
(*                                                                         *)
(* Actions without an authorizationRequest are the business of the legacy  *)
(* seat signing and are not here.  Two unlocked executions that write one  *)
(* map race; the outcomes here are those of the map accesses in some order *)
(* (the Go runtime may also abort the process: then nothing more happens). *)
(***************************************************************************)
EXTENDS Naturals, FiniteSets

CONSTANTS Actions, Users, NoUser,
          Executors,     \* executeAction requests being served
          NoAction, NoStep,
          Writes,        \* ids of the write steps of a plan
          Approvers,     \* users canApproveActionLocked accepts: admins,
                         \* candidates, holders of action.approve
          Requester,     \* who asked for each action; NoUser for an agent
          Shape,         \* what buildSkillTurnPlan made of each action
          Blocked,       \* actions whose tool has no executor, or may not run
          MaxRestarts    \* bound: restarts of the process

Run == "run"
StepIds == Writes \cup {Run}
\* No plan at all (the tool is no skill); a run; a write whose path gives no
\* command; a write and the run of what it wrote; writes injected for a run.
Shapes == {"call", "run", "write", "writeRun", "injected"}

ASSUME ConstantsAssumption ==
    /\ NoUser \notin Users
    /\ NoAction \notin Actions
    /\ NoStep \notin StepIds
    /\ Run \notin Writes
    /\ Approvers \subseteq Users
    /\ Requester \in [Actions -> Users \cup {NoUser}]
    /\ Shape \in [Actions -> Shapes]
    /\ Blocked \subseteq Actions
    /\ MaxRestarts \in Nat

VARIABLES
    status,      \* action.status, "none" before the action is queued
    req,         \* action.authorizationRequest.status
    decided,     \* authorizationRequest.decidedById
    step,        \* step[a][s]: status of step s of the plan of action a
    typed,       \* actions whose deps still are the []string of this process
    nextRun,     \* actions with a nextRunCommand
    open,        \* the session is writable and in execute mode
    taskDone,    \* actions whose execution completed the linked task
    ex,          \* ex[e]: where executor e stands
    overlapped,  \* actions two executors ever held at once
    wins,        \* wins[a][s]: how often step s of a succeeded, up to 2
    restarts

vars == <<status, req, decided, step, typed, nextRun, open, taskDone, ex,
          overlapped, wins, restarts>>

Statuses == {"none", "pending", "approved", "rejected", "executed"}
StepStatuses == {"absent", "pending", "success", "failed", "denied"}
Outcomes == {"success", "failed", "denied"}
ExecutorType == [pc : {"idle", "pick", "run", "retry", "rerun", "finish"},
                 act : Actions \cup {NoAction}, at : StepIds \cup {NoStep},
                 res : Outcomes \cup {"none"}]
Free == [pc |-> "idle", act |-> NoAction, at |-> NoStep, res |-> "none"]

\* Executor record x at another point of its execution.
GoTo(x, pc, at) == [pc |-> pc, act |-> x.act, at |-> at, res |-> x.res]
Ended(a, pc, res) == [pc |-> pc, act |-> a, at |-> NoStep, res |-> res]

Holds(e, a) == ex[e].act = a

TypeOK ==
    /\ status \in [Actions -> Statuses]
    /\ req \in [Actions -> Statuses]
    /\ decided \in [Actions -> Users \cup {NoUser}]
    /\ step \in [Actions -> [StepIds -> StepStatuses]]
    /\ typed \subseteq Actions
    /\ nextRun \subseteq Actions
    /\ open \in BOOLEAN
    /\ taskDone \subseteq Actions
    /\ ex \in [Executors -> ExecutorType]
    /\ overlapped \subseteq Actions
    /\ wins \in [Actions -> [StepIds -> 0 .. 2]]
    /\ restarts \in 0 .. MaxRestarts

-----------------------------------------------------------------------------
(***************************************************************************)
(* Plans                                                                   *)
(***************************************************************************)
FirstWrite == CHOOSE w \in Writes : TRUE

InPlan(a) == CASE Shape[a] = "call" -> {}
               [] Shape[a] = "run" -> {Run}
               [] Shape[a] = "write" -> {FirstWrite}
               [] Shape[a] = "writeRun" -> {FirstWrite, Run}
               [] Shape[a] = "injected" -> StepIds

HasPlan(a) == Shape[a] # "call"
NoPlan == [s \in StepIds |-> "absent"]
\* Mutation of buildSkillTurnPlan: steps start in a status of another field.
buildQueuedPlan(a) ==
    [s \in StepIds |-> IF s \in InPlan(a) THEN "queued" ELSE "absent"]

buildSkillTurnPlan(a) ==
    [s \in StepIds |-> IF s \in InPlan(a) THEN "pending" ELSE "absent"]

\* The deps of the run step that stepDepsSatisfied can read.
Deps(a) == IF Shape[a] = "injected" /\ a \in typed THEN Writes ELSE {}

\* Mutation of stepDepsSatisfied: one dependency is enough.
anyDepSatisfied(a, s) ==
    s = Run /\ Deps(a) # {} => \E w \in Deps(a) : step[a][w] = "success"

stepDepsSatisfied(a, s) ==
    s = Run => \A w \in Deps(a) : step[a][w] = "success"

\* Mutation of Ready: a step that succeeded is taken for one to run.
ReadyUnlessFailed(a) == {s \in StepIds : /\ step[a][s] \in {"pending", "success"}
                                         /\ stepDepsSatisfied(a, s)}

Ready(a) == {s \in StepIds : step[a][s] = "pending" /\ stepDepsSatisfied(a, s)}

\* The writes come before the run in every plan.
nextPendingSkillTurnStep(a) ==
    IF Ready(a) \cap Writes # {} THEN Ready(a) \cap Writes ELSE Ready(a)

skillTurnHasPending(a) == Ready(a) # {}

\* Mutation of Continued: every step of the plan is reset, not only the runs.
ContinuedFromStart(p, ensured) ==
    [s \in StepIds |-> IF p[s] # "absent" \/ (s = Run /\ ensured)
                       THEN "pending" ELSE "absent"]

\* continueRun: failed runs are pending again, and a plan without a run gets
\* one when the request or the action names a command (ensured).
Continued(p, ensured) ==
    [p EXCEPT ![Run] = CASE @ = "failed" -> "pending"
                         [] @ = "absent" /\ ensured -> "pending"
                         [] OTHER -> @]

-----------------------------------------------------------------------------
Init ==
    /\ status = [a \in Actions |-> "none"]
    /\ req = [a \in Actions |-> "none"]
    /\ decided = [a \in Actions |-> NoUser]
    /\ step = [a \in Actions |-> NoPlan]
    /\ typed = {}
    /\ nextRun = {}
    /\ open = TRUE
    /\ taskDone = {}
    /\ ex = [e \in Executors |-> Free]
    /\ overlapped = {}
    /\ wins = [a \in Actions |-> [s \in StepIds |-> 0]]
    /\ restarts = 0

\* queueToolAuthorization: the copilot met a tool that needs approval.
Queue(a) ==
    /\ status[a] = "none"
    /\ open
    /\ status' = [status EXCEPT ![a] = "pending"]
    /\ req' = [req EXCEPT ![a] = "pending"]
    /\ step' = [step EXCEPT ![a] = buildSkillTurnPlan(a)]
    /\ typed' = typed \cup {a}
    /\ UNCHANGED <<decided, nextRun, open, taskDone, ex, overlapped, wins,
                   restarts>>

canApproveActionLocked(u, a) == u \in Approvers /\ u # Requester[a]

\* Mutation of Undecided: an approval may be revised until the execution.
UndecidedUntilExecuted(a) == status[a] \in {"pending", "approved"}

\* The guard of both decisions: refused only when neither status is pending.
Undecided(a) == status[a] = "pending" \/ req[a] = "pending"

Decide(a, u, verdict) ==
    /\ Undecided(a)
    /\ canApproveActionLocked(u, a)
    /\ status' = [status EXCEPT ![a] = verdict]
    /\ req' = [req EXCEPT ![a] = verdict]
    /\ decided' = [decided EXCEPT ![a] = u]
    /\ UNCHANGED <<step, typed, nextRun, open, taskDone, ex, overlapped, wins,
                   restarts>>

approveActionSingle(u, a) == Decide(a, u, "approved")
rejectAction(u, a) == Decide(a, u, "rejected")

\* PATCH of the session: mode, handoff or status.
PatchSession ==
    /\ open' = ~ open
    /\ UNCHANGED <<status, req, decided, step, typed, nextRun, taskDone, ex,
                   overlapped, wins, restarts>>

(***************************************************************************)
(* executeAction, first locked section                                     *)
(***************************************************************************)
\* Mutation of MayExecute: continueRun is trusted with the status.
MayExecuteContinued(a, continueRun) ==
    /\ open
    /\ \/ status[a] = "approved"
       \/ continueRun /\ (a \in nextRun \/ skillTurnHasPending(a))

MayExecute(a, continueRun) ==
    /\ open
    /\ \/ status[a] = "approved"
       \/ /\ continueRun
          /\ status[a] = "executed"
          /\ a \in nextRun \/ skillTurnHasPending(a)

\* The plan as the request leaves it.  The command may also come in the
\* request, so that a run step may be added without a nextRunCommand.
Prepare(a, continueRun) ==
    IF continueRun /\ HasPlan(a)
    THEN \E ensured \in BOOLEAN :
             /\ a \in nextRun => ensured
             /\ step' = [step EXCEPT ![a] = Continued(@, ensured)]
    ELSE UNCHANGED step

Begin(e, a, continueRun) ==
    /\ ex[e].pc = "idle"
    /\ MayExecute(a, continueRun)
    /\ a \notin Blocked
    /\ Prepare(a, continueRun)
    /\ ex' = [ex EXCEPT ![e] = Ended(a, "pick", "none")]
    /\ overlapped' = IF \E f \in Executors : Holds(f, a)
                     THEN overlapped \cup {a} ELSE overlapped
    /\ UNCHANGED <<status, req, decided, typed, nextRun, open, taskDone, wins,
                   restarts>>

\* The executor is not there or may not run the tool: the action stays approved.
Refuse(a, continueRun) ==
    /\ MayExecute(a, continueRun)
    /\ a \in Blocked
    /\ Prepare(a, continueRun)
    /\ status' = [status EXCEPT ![a] = "approved"]
    /\ UNCHANGED <<req, decided, typed, nextRun, open, taskDone, ex, overlapped,
                   wins, restarts>>

(***************************************************************************)
(* executeAction, unlocked: the loop over the steps                        *)
(***************************************************************************)
Pick(e) ==
    /\ ex[e].pc = "pick"
    /\ HasPlan(ex[e].act)
    /\ \/ \E s \in nextPendingSkillTurnStep(ex[e].act) :
              ex' = [ex EXCEPT ![e] = GoTo(@, "run", s)]
       \/ /\ nextPendingSkillTurnStep(ex[e].act) = {}
          /\ ex' = [ex EXCEPT ![e] = GoTo(@, "finish", NoStep)]
    /\ UNCHANGED <<status, req, decided, step, typed, nextRun, open, taskDone,
                   overlapped, wins, restarts>>

\* The tool answers.  A success goes on with the loop, and the output of a
\* write may name the command of a run step the plan did not have; anything
\* else leaves the loop, but for a run that missed its files the first time.
AfterTool(e, a, s, outcome) ==
    IF outcome = "success" THEN {"pick"}
    ELSE IF /\ outcome = "failed" /\ s = Run /\ ex[e].pc = "run"
            /\ \E w \in Deps(a) : step[a][w] = "success"
         THEN {"retry", "finish"}
         ELSE {"finish"}

RunStep(e, outcome) ==
    /\ ex[e].pc \in {"run", "rerun"}
    /\ LET a == ex[e].act
           s == ex[e].at
           marked == [step[a] EXCEPT ![s] = outcome]
       IN  /\ \/ step' = [step EXCEPT ![a] = marked]
              \/ /\ s # Run
                 /\ outcome = "success"
                 /\ step[a][Run] = "absent"
                 /\ step' = [step EXCEPT ![a] = [marked EXCEPT ![Run] = "pending"]]
           /\ wins' = IF outcome = "success" /\ wins[a][s] < 2
                      THEN [wins EXCEPT ![a] = [@ EXCEPT ![s] = wins[a][s] + 1]]
                      ELSE wins
           /\ \E pc \in AfterTool(e, a, s, outcome) :
                  ex' = [ex EXCEPT ![e] = Ended(a, pc, outcome)]
    /\ UNCHANGED <<status, req, decided, typed, nextRun, open, taskDone,
                   overlapped, restarts>>

\* canRetryRunAfterDeps: the run is pending again, and run again once if it
\* is the step the loop would pick.
Retry(e) ==
    /\ ex[e].pc = "retry"
    /\ LET a == ex[e].act
           first == /\ stepDepsSatisfied(a, Run)
                    /\ Ready(a) \cap Writes = {}
       IN  /\ step' = [step EXCEPT ![a] = [@ EXCEPT ![Run] = "pending"]]
           /\ ex' = [ex EXCEPT ![e] =
                        IF first THEN GoTo(@, "rerun", Run)
                                 ELSE GoTo(@, "finish", NoStep)]
    /\ UNCHANGED <<status, req, decided, typed, nextRun, open, taskDone,
                   overlapped, wins, restarts>>

\* Without a plan: one call, and the run its output names when it names one.
Call(e, outcome) ==
    /\ ex[e].pc = "pick"
    /\ ~ HasPlan(ex[e].act)
    /\ ex' = [ex EXCEPT ![e] = Ended(ex[e].act, "finish", outcome)]
    /\ UNCHANGED <<status, req, decided, step, typed, nextRun, open, taskDone,
                   overlapped, wins, restarts>>

(***************************************************************************)
(* executeAction, last locked section: no status is read again             *)
(***************************************************************************)
\* preferredNextRunCommand keeps the command there was, or finds one.
KeepNextRun(a) == nextRun' \in {nextRun, nextRun \cup {a}}

\* Mutation of Conclude: the status inside authorizationRequest is forgotten.
ConcludeOuterStatus(a, result) ==
    /\ status' = [status EXCEPT ![a] = result]
    /\ UNCHANGED req

Conclude(a, result) ==
    /\ status' = [status EXCEPT ![a] = result]
    /\ req' = [req EXCEPT ![a] = result]

FinishFailed(e) ==
    /\ ex[e].pc = "finish"
    /\ ex[e].res # "success"
    /\ Conclude(ex[e].act, "approved")
    /\ KeepNextRun(ex[e].act)
    /\ ex' = [ex EXCEPT ![e] = Free]
    /\ UNCHANGED <<decided, step, typed, open, taskDone, overlapped, wins,
                   restarts>>

\* Mutation of FinishSucceeded: an executed action keeps its nextRunCommand.
FinishSucceededKeepingCommand(e) ==
    /\ ex[e].pc = "finish"
    /\ ex[e].res = "success"
    /\ LET a == ex[e].act
       IN  /\ taskDone' = taskDone \cup {a}
           /\ Conclude(a, IF skillTurnHasPending(a) THEN "approved" ELSE "executed")
           /\ KeepNextRun(a)
    /\ ex' = [ex EXCEPT ![e] = Free]
    /\ UNCHANGED <<decided, step, typed, open, overlapped, wins, restarts>>

FinishSucceeded(e) ==
    /\ ex[e].pc = "finish"
    /\ ex[e].res = "success"
    /\ LET a == ex[e].act
       IN  /\ taskDone' = taskDone \cup {a}
           /\ \/ /\ skillTurnHasPending(a)
                 /\ Conclude(a, "approved")
                 /\ KeepNextRun(a)
              \/ /\ ~ skillTurnHasPending(a)
                 /\ Conclude(a, "executed")
                 /\ nextRun' = nextRun \ {a}
    /\ ex' = [ex EXCEPT ![e] = Free]
    /\ UNCHANGED <<decided, step, typed, open, overlapped, wins, restarts>>

(***************************************************************************)
(* The process stops with nothing running and every document written (as   *)
(* DurableCollection says a quiet store is), and reads the actions back.   *)
(***************************************************************************)
Restart ==
    /\ restarts < MaxRestarts
    /\ \A e \in Executors : ex[e].pc = "idle"
    /\ restarts' = restarts + 1
    /\ typed' = {}
    /\ UNCHANGED <<status, req, decided, step, nextRun, open, taskDone, ex,
                   overlapped, wins>>

ExecutorStep(e) == \/ Pick(e)
                   \/ Retry(e)
                   \/ \E outcome \in Outcomes : RunStep(e, outcome) \/ Call(e, outcome)
                   \/ FinishFailed(e)
                   \/ FinishSucceeded(e)

Request(a) == \/ Queue(a)
              \/ \E u \in Users : approveActionSingle(u, a) \/ rejectAction(u, a)
              \/ \E continueRun \in BOOLEAN :
                     IF a \in Blocked
                     THEN Refuse(a, continueRun)
                     ELSE \E e \in Executors : Begin(e, a, continueRun)

Next == \/ \E a \in Actions : Request(a)
        \/ \E e \in Executors : ExecutorStep(e)
        \/ PatchSession
        \/ Restart

Spec == Init /\ [][Next]_vars

\* A tool call returns or runs into its timeout, and the handler goes on.
LiveSpec == Spec /\ \A e \in Executors : WF_vars(ExecutorStep(e))

-----------------------------------------------------------------------------
\* The two records of one decision never disagree between two requests, so
\* the guard of a decision, which looks for either to be pending
\* (rejectAction, approveActionSingle), never opens a decided action again.
StatusesAgree == \A a \in Actions : status[a] = req[a]

\* The person who decided an action decided it once and for all, whatever
\* executions reset its status afterwards (the tails of executeAction).
DecisionKept ==
    \A a \in Actions : decided[a] # NoUser =>
        /\ decided'[a] = decided[a]
        /\ status[a] = "rejected" => status'[a] = "rejected"
DecisionIsFinal == [][DecisionKept]_vars

\* An action under execution, or with a step that ran, was approved by an
\* approver who did not ask for it, at every point of the unlocked loop.
OnlyApprovedRuns ==
    \A a \in Actions :
        \/ \E e \in Executors : Holds(e, a)
        \/ \E s \in StepIds : step[a][s] \notin {"absent", "pending"}
        \/ a \in taskDone
        => /\ status[a] \in {"approved", "executed"}
           /\ decided[a] \in Approvers
           /\ decided[a] # Requester[a]

\* Retries, continueRun and the second run of executeAction repeat no step
\* that succeeded, unless two executions of the action overlapped.
StepSucceedsOnce ==
    \A a \in Actions, s \in StepIds : a \notin overlapped => wins[a][s] < 2

\* The run of injected writes is not attempted before each of them has
\* succeeded, however executions of the action interleave, in the process that
\* planned it (nextPendingSkillTurnStep, resetFailedRunStepsForContinue).
RunFollowsWrites ==
    \A a \in typed : /\ Shape[a] = "injected"
                     /\ \/ step[a][Run] # "pending" /\ status[a] # "none"
                        \/ \E e \in Executors : Holds(e, a) /\ ex[e].at = Run
                     => \A w \in Writes : wins[a][w] > 0

\* Unless executions overlapped or the plan lost its deps, a linked task that
\* was completed belongs to an action that is executed and runs no more.
TaskDoneAgrees ==
    \A a \in typed \ overlapped :
        a \in taskDone => /\ status[a] = "executed"
                          /\ \A e \in Executors : ~ Holds(e, a)

\* Once nobody asks for another execution, every execution ends, whatever
\* the others do to the plan it shares.  (While continueRun requests go on,
\* one loop may run for ever on the steps the others set back to pending.)
RequestsStop ==
    <>[][\A e \in Executors, a \in Actions, continueRun \in BOOLEAN :
             ~ Begin(e, a, continueRun)]_vars
ExecutionsEnd ==
    RequestsStop => \A e \in Executors : ex[e].pc # "idle" ~> ex[e].pc = "idle"

\* What the comment of injectWriteStepsForRunDependencies promises: the write
\* -> run order is enforced even if the plan was perturbed.
WritesThenRun ==
    \A a \in Actions : Shape[a] = "injected" /\ wins[a][Run] > 0
        => \A w \in Writes : wins[a][w] > 0
=============================================================================
