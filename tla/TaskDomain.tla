----------------------------- MODULE TaskDomain -----------------------------
(***************************************************************************)
(* Controlled tasks: created, moved along a board, approved or turned      *)
(* down, taken over by a person, tried again.  The pages send the version  *)
(* of the task they saw with every request; this domain does not look at   *)
(* it, so a request acts on whatever the task has become.                  *)
(***************************************************************************)
EXTENDS ConsoleApi

Stages == {"pending", "running", "human_action", "risk", "completed", "archived"}

statusFor(stage) ==
    CASE stage \in {"running", "risk"} -> "in_progress"
      [] stage = "human_action" -> "review"
      [] stage \in {"completed", "archived"} -> stage
      [] OTHER -> "pending"

ControlledTask ==
    [owner : Users, stage : Stages,
     status : {"pending", "in_progress", "review", "completed", "archived"},
     risk : {"none", "overdue", "failed"}, dispatch : {"none", "assign", "assist"},
     assist : {"none", "pending", "accepted", "rejected"}, required : BOOLEAN,
     approval : {"not_required", "pending", "approved", "rejected"},
     retries : Nat, paused : BOOLEAN, takenOver : BOOLEAN, version : Nat, audits : Nat]

\* A task of a seed or a form; risk is the risk of its deadline.
controlledTask(owner, stage, risk, dispatch) ==
    [owner |-> owner, stage |-> stage, status |-> statusFor(stage), risk |-> risk,
     dispatch |-> dispatch, assist |-> IF dispatch = "assist" THEN "pending" ELSE "none",
     required |-> dispatch = "assist",
     approval |-> IF dispatch = "assist" THEN "pending" ELSE "not_required",
     retries |-> 0, paused |-> FALSE, takenOver |-> FALSE, version |-> 1, audits |-> 0]

\* One task that waits for another department, one past its deadline, one plain.
mockTasks ==
    [assist  |-> controlledTask("u1", "human_action", "none", "assist"),
     overdue |-> controlledTask("u1", "running", "overdue", "none"),
     plain   |-> controlledTask("u1", "pending", "none", "assign")]

NewIds == {"new"}

Init == db = [tasks |-> mockTasks, log |-> <<>>] /\ NetInit

\* write: every change counts a version and an audit event.
write(t) == [t EXCEPT !.version = @ + 1, !.audits = @ + 1]

canReadTask(u, t) == isAdministrator(u) \/ t.owner = u

-----------------------------------------------------------------------------
(* The pages. *)

\* The one main button of the task drawer.
getPrimaryAction(t) ==
    CASE t.stage = "risk" /\ t.risk = "failed" -> "takeover"
      [] t.stage = "risk" /\ t.risk # "failed" -> "retry"
      [] t.stage = "pending" -> "start"
      [] t.stage = "running" -> "pause"
      [] t.stage = "human_action" -> "human_action"
      [] OTHER -> "archive"

PrimaryRequest(u, id) ==
    LET Move(stage) == {Req("transition", u, id, stage, db.tasks[id].version)}
        primary == getPrimaryAction(db.tasks[id])
    IN  CASE primary = "retry" -> {Req("retry", u, id, NoArg, db.tasks[id].version)}
          [] primary = "takeover" -> {Req("takeover", u, id, NoArg, db.tasks[id].version)}
          [] primary = "start" -> Move("running")
          [] primary = "pause" -> Move("human_action")
          [] primary = "archive" -> Move("archived")
          [] primary = "human_action" -> {}

\* The governance tab, for administrators.
Governance(u, id) ==
    LET t == db.tasks[id]
    IN  (IF t.approval = "pending"
         THEN {Req("approve", u, id, verdict, t.version) : verdict \in {"approved", "rejected"}} ELSE {})
        \cup (IF t.risk = "failed" \/ t.stage = "risk"
              THEN {Req(op, u, id, NoArg, t.version) : op \in {"takeover", "retry"}} ELSE {})

TaskLifecycleDrawer(u, id) ==
    IF ~roleCanMutate(u) THEN {}
    ELSE PrimaryRequest(u, id) \cup (IF isAdministrator(u) THEN Governance(u, id) ELSE {})

\* A card may be dropped on any other column, the risk column included.
TaskLifecycleBoard(u, id) ==
    {Req("transition", u, id, stage, db.tasks[id].version) :
        stage \in {"pending", "running", "human_action", "risk", "completed"} \ {db.tasks[id].stage}}

Offers(u) ==
    IF ~roleCanMutate(u) THEN {}
    ELSE (UNION {TaskLifecycleBoard(u, id) \cup TaskLifecycleDrawer(u, id) :
                     id \in {x \in DOMAIN db.tasks : canReadTask(u, db.tasks[x])}})
         \cup {Req("create", u, id, NoArg, 0) : id \in {x \in NewIds : Vacant(x, db.tasks)}}

-----------------------------------------------------------------------------
(* The routes. *)

create(r) ==
    LET new == [write(controlledTask(r.by, "pending", "none", "none")) EXCEPT !.version = 1]
    IN  /\ r.op = "create"
        /\ Handle(Admitted(r, "plain"),
                  Logged([db EXCEPT !.tasks = [id \in DOMAIN @ \cup {r.id} |-> IF id \in DOMAIN @ THEN @[id] ELSE new]], r))

\* The scope check in front of every route of one task.
InScope(r) == Admitted(r, "plain") /\ r.id \in DOMAIN db.tasks /\ canReadTask(r.by, db.tasks[r.id])

Refused(t, stage) ==
    \/ t.required /\ stage \in {"running", "completed"} /\ t.approval # "approved"
    \/ t.stage = "risk" \/ t.risk # "none"

moved(t, stage) == [t EXCEPT !.stage = stage, !.status = statusFor(stage)]

\* Mutant: a task that waits for its approval may be moved.
transitionUnapproved(r) ==
    /\ r.op = "transition"
    /\ Handle(InScope(r), Logged([db EXCEPT !.tasks[r.id] = write(moved(@, r.arg))], r))

\* Mutant: the status stays behind the stage.
transitionStageOnly(r) ==
    /\ r.op = "transition"
    /\ Handle(InScope(r) /\ ~Refused(db.tasks[r.id], r.arg),
              Logged([db EXCEPT !.tasks[r.id] = write([@ EXCEPT !.stage = r.arg])], r))

\* Mutant: the move leaves no audit event.
transitionUnlogged(r) ==
    /\ r.op = "transition"
    /\ Handle(InScope(r) /\ ~Refused(db.tasks[r.id], r.arg),
              [db EXCEPT !.tasks[r.id] = write(moved(@, r.arg))])

transition(r) ==
    /\ r.op = "transition"
    /\ Handle(InScope(r) /\ ~Refused(db.tasks[r.id], r.arg),
              Logged([db EXCEPT !.tasks[r.id] = write(moved(@, r.arg))], r))

\* A decision may be taken again; accepting help puts the task back to pending.
decided(t, verdict) ==
    LET help == t.dispatch = "assist"
        back == help /\ verdict = "approved"
    IN  [t EXCEPT !.approval = verdict,
                  !.assist = IF ~help THEN t.assist ELSE IF back THEN "accepted" ELSE "rejected",
                  !.stage = IF back THEN "pending" ELSE t.stage,
                  !.status = IF back THEN "pending" ELSE t.status]

approve(r) ==
    /\ r.op = "approve"
    /\ Handle(InScope(r) /\ isAdministrator(r.by),
              Logged([db EXCEPT !.tasks[r.id] = write(decided(@, r.arg))], r))

taken(t) == [t EXCEPT !.stage = "human_action", !.status = "review", !.paused = TRUE, !.takenOver = TRUE]

takeover(r) ==
    /\ r.op = "takeover"
    /\ Handle(InScope(r) /\ isAdministrator(r.by),
              Logged([db EXCEPT !.tasks[r.id] = write(taken(@))], r))

\* Trying again starts the task whatever became of its approval.
again(t) ==
    [t EXCEPT !.stage = "running", !.status = "in_progress", !.risk = "none", !.retries = t.retries + 1,
              !.paused = FALSE]

retry(r) ==
    /\ r.op = "retry"
    /\ Handle(/\ InScope(r) /\ isAdministrator(r.by)
              /\ db.tasks[r.id].stage = "risk" \/ db.tasks[r.id].risk # "none",
              Logged([db EXCEPT !.tasks[r.id] = write(again(@))], r))

Next ==
    \/ MayAsk /\ \E u \in Actors : \E r \in Offers(u) : Ask(r)
    \/ \E r \in BagToSet(net.out) :
          /\ Arrives(r)
          /\ create(r) \/ transition(r) \/ approve(r) \/ takeover(r) \/ retry(r)

-----------------------------------------------------------------------------
TypeOK ==
    \A id \in DOMAIN db.tasks :
        /\ db.tasks[id] \in ControlledTask
        /\ db.tasks[id].required <=> db.tasks[id].approval # "not_required"

\* A task that needs an approval runs or ends only after an administrator
\* approved it or, for a task at risk, told it to try again; what the page
\* showed when the request was made does not matter.
RunsAfterApproval ==
    \A id \in DOMAIN db.tasks :
        db.tasks[id].required /\ db.tasks[id].stage \in {"running", "completed"} =>
            \E i \in DOMAIN db.log :
                /\ db.log[i].id = id /\ isAdministrator(db.log[i].by)
                /\ <<db.log[i].op, db.log[i].arg>> \in {<<"retry", NoArg>>, <<"approve", "approved">>}

\* The status other pages count by is the one of the stage.
StatusFollowsStage ==
    \A id \in DOMAIN db.tasks : db.tasks[id].status = statusFor(db.tasks[id].stage)

Events(id) == {i \in DOMAIN db.log : db.log[i].id = id}

\* Every change of a task left its event, in the task and in the audit log.
TasksAudited ==
    \A id \in DOMAIN db.tasks :
        /\ db.tasks[id].version = db.tasks[id].audits + (IF id \in NewIds THEN 0 ELSE 1)
        /\ db.tasks[id].audits = Cardinality(Events(id))
=============================================================================
