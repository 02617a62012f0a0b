---------------------------- MODULE HomeAggregate ----------------------------
(***************************************************************************)
(* The figures of the home page and of the operations overview, both       *)
(* computed from the rows of the workspace whenever a page asks, and the   *)
(* acknowledgement of an alert, which is kept apart from the rows: an      *)
(* alert is a task that needs attention at the moment of the question.     *)
(* The rows are changed by their own domains, in any way; an age counts    *)
(* full hours since the row was updated.                                   *)
(***************************************************************************)
EXTENDS ConsoleApi, FiniteSetsExt

CONSTANTS
    Buckets,     \* the hours the trend shows: 12 on the page
    TaskCount,   \* bound: the tasks of the workspace
    EmployeeCount   \* bound: its employees

Statuses == {"pending", "in_progress", "review", "completed", "archived"}
Risks == {"none", "low", "warning"}
Priorities == {"P0", "P2"}
Lifecycles == {"active", "paused", "pending_approval", "archived"}

TaskRows == [status : Statuses, risk : Risks, priority : Priorities, age : 0..Buckets]

Closed(t) == t.status \in {"completed", "archived"}

\* The ids of the rows that satisfy a condition.
Of(rows, Cond(_)) == {i \in DOMAIN rows : Cond(rows[i])}

Count(rows, Cond(_)) == Cardinality(Of(rows, Cond))

\* Mutant: what is older than the window counts for its first hour.
hourSlotClamped(age) == IF age >= Buckets THEN 1 ELSE Buckets - age

\* The column of an age, newest last; an age outside the window has none.
hourSlot(age) == IF age >= Buckets THEN 0 ELSE Buckets - age

employeeHealthScore(active, total) == IF total = 0 THEN 0 ELSE (active * 200 + total) \div (2 * total)

-----------------------------------------------------------------------------
(* The home page. *)

taskCompletion(tasks) ==
    [done |-> Count(tasks, Closed), doing |-> Count(tasks, LAMBDA t : t.status = "in_progress"),
     review |-> Count(tasks, LAMBDA t : t.status = "review"),
     todo |-> Count(tasks, LAMBDA t : t.status = "pending")]

needsAttention(t) ==
    \/ t.status = "review"
    \/ t.risk = "warning"
    \/ t.priority = "P0" /\ ~Closed(t)

slaAlerts(tasks) == Of(tasks, needsAttention)

agentCallSummary(employees) ==
    [healthy |-> Count(employees, LAMBDA e : e = "active"),
     warning |-> Count(employees, LAMBDA e : e = "paused"),
     offline |-> Count(employees, LAMBDA e : e \notin {"active", "paused"})]

homeHealth(employees) ==
    LET agents == agentCallSummary(employees)
    IN  employeeHealthScore(agents.healthy, agents.healthy + agents.warning + agents.offline)

\* How many tasks, and how many alerts, fall into each hour.
trend24h(tasks) ==
    [n \in 1..Buckets |-> [tasks |-> Count(tasks, LAMBDA t : hourSlot(t.age) = n),
                           alerts |-> Count(tasks, LAMBDA t : hourSlot(t.age) = n /\ needsAttention(t))]]

suggestion(tasks, employees) ==
    (IF taskCompletion(tasks).review > 0 THEN {"review"} ELSE {})
    \cup (IF slaAlerts(tasks) # {} THEN {"alert"} ELSE {})
    \cup (IF agentCallSummary(employees).healthy > 0 THEN {"collab"}
          ELSE IF employees = <<>> THEN {"onboard"} ELSE {})

-----------------------------------------------------------------------------
(* The operations overview. *)

openTasks(tasks) == Count(tasks, LAMBDA t : ~Closed(t))

riskTasks(tasks) == Count(tasks, LAMBDA t : t.risk # "none")

pendingTasks(tasks) == Of(tasks, LAMBDA t : t.status \in {"review", "pending"} \/ t.risk = "warning")

activeDE(employees) == Count(employees, LAMBDA e : e = "active")

opsHealth(employees) ==
    LET pendingDE == Count(employees, LAMBDA e : e = "pending_approval")
    IN  employeeHealthScore(activeDE(employees), activeDE(employees) + pendingDE)

-----------------------------------------------------------------------------
NewTask == [status |-> "pending", risk |-> "none", priority |-> "P2", age |-> 0]

Init ==
    /\ db \in {[tasks |-> [i \in 1..TaskCount |-> NewTask], employees |-> <<>>, acked |-> {}],
               [tasks |-> <<>>, employees |-> [i \in 1..EmployeeCount |-> "pending_approval"], acked |-> {}]}
    /\ net = 0

\* Another domain updates a row.
Updated ==
    /\ UNCHANGED net
    /\ \/ \E i \in DOMAIN db.tasks : \E row \in TaskRows :
             row.age = 0 /\ db' = [db EXCEPT !.tasks[i] = row]
       \/ \E i \in DOMAIN db.employees : \E lifecycle \in Lifecycles : db' = [db EXCEPT !.employees[i] = lifecycle]

HourPasses ==
    /\ UNCHANGED net
    /\ db' = [db EXCEPT !.tasks = [i \in DOMAIN @ |-> [@[i] EXCEPT !.age = IF @ = Buckets THEN @ ELSE @ + 1]]]

\* An administrator acknowledges what is an alert when the request arrives; a P0
\* only with a note.  The acknowledgement outlives the alert.
acknowledge ==
    /\ UNCHANGED net
    /\ \E u \in Actors, i \in DOMAIN db.tasks, note \in BOOLEAN :
          LET refused == \/ ~isAdministrator(u)
                         \/ i \notin slaAlerts(db.tasks)
                         \/ db.tasks[i].priority = "P0" /\ ~note
          IN  Handle(~refused, [db EXCEPT !.acked = @ \cup {i}])

Next == Updated \/ HourPasses \/ acknowledge

-----------------------------------------------------------------------------
TypeOK == db.acked \subseteq 1..TaskCount

\* The two pages count the same rows: the columns of the home page add up to the
\* tasks and to what the overview calls open; what waits on the overview is an
\* alert or has not begun, and an alert that is missing there is one by its
\* priority alone; who is active on one page is healthy on the other, and the
\* overview, which leaves paused employees out, never looks worse.
PagesAgree ==
    LET c == taskCompletion(db.tasks)
    IN  /\ c.done + c.doing + c.review + c.todo = Len(db.tasks)
        /\ c.doing + c.review + c.todo = openTasks(db.tasks)
        /\ \A i \in pendingTasks(db.tasks) : i \in slaAlerts(db.tasks) \/ db.tasks[i].status = "pending"
        /\ \A i \in slaAlerts(db.tasks) \ pendingTasks(db.tasks) :
              db.tasks[i].priority = "P0" /\ db.tasks[i].status = "in_progress"
        /\ "review" \in suggestion(db.tasks, db.employees) => "alert" \in suggestion(db.tasks, db.employees)
        /\ Cardinality(Of(db.tasks, LAMBDA t : t.risk = "warning")) <= riskTasks(db.tasks)
        /\ activeDE(db.employees) = agentCallSummary(db.employees).healthy
        /\ opsHealth(db.employees) >= homeHealth(db.employees)

\* Every task of the window stands in one hour of the trend, an alert beside it,
\* and when an hour passes without an update the trend moves by one column.
TrendMoves ==
    LET now == trend24h(db.tasks)
        later == trend24h([i \in DOMAIN db.tasks |-> [db.tasks[i] EXCEPT !.age = @ + 1]])
    IN  /\ MapThenSumSet(LAMBDA n : now[n].tasks, 1..Buckets) = Count(db.tasks, LAMBDA t : t.age < Buckets)
        /\ \A n \in 1..Buckets : now[n].alerts <= now[n].tasks
        /\ \A n \in 1..(Buckets - 1) : later[n] = now[n + 1]
        /\ later[Buckets].tasks = 0
=============================================================================
