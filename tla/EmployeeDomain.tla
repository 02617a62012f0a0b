--------------------------- MODULE EmployeeDomain ---------------------------
(***************************************************************************)
(* Digital employees: configured, evaluated, released, paused and resumed. *)
(* A configuration form is a copy of the employee as it was when the form  *)
(* opened: saving the contract writes back the execution modes of then.    *)
(* The bound capabilities are a count, the ones with a mode another: the   *)
(* second set is nested in the first, or the first in the second.          *)
(***************************************************************************)
EXTENDS ConsoleApi

Lifecycles == {"draft", "testing", "pending_approval", "active", "paused", "quarantined"}
InService == {"active", "paused", "quarantined"}

DigitalEmployee ==
    [template : {NoArg, "certified"}, env : {"sandbox", "staging", "production"},
     lifecycle : Lifecycles,
     profile : BOOLEAN, duties : BOOLEAN,      \* filled in, not the placeholders
     contract : BOOLEAN,                       \* a structured policy is stored
     caps : 0..2, modes : 0..2,
     eval : {"not_started", "passed", "failed"},
     release : {"not_released", "pending_approval", "released"},
     by : Users \cup {NoArg}, approver : Users \cup {NoArg},
     control : {NoArg, "paused", "quarantined", "resumed"}]

DigitalEmployeeConfigurationVersion == {"current", "superseded"}

DigitalEmployeeTemplate == [status : {"certified", "review", "deprecated"}, adopted : Nat]

\* A new employee; a template brings its duties and one capability.
Fresh(template) ==
    [template |-> template, env |-> "sandbox", lifecycle |-> "draft",
     profile |-> FALSE, duties |-> template # NoArg, contract |-> FALSE,
     caps |-> IF template = NoArg THEN 0 ELSE 1, modes |-> 0,
     eval |-> "not_started", release |-> "not_released", by |-> NoArg, approver |-> NoArg,
     control |-> NoArg]

Configured(env) ==
    [Fresh(NoArg) EXCEPT !.env = env, !.profile = TRUE, !.duties = TRUE, !.contract = TRUE,
                         !.caps = 1, !.modes = 1, !.eval = "passed", !.lifecycle = "testing"]

\* One that waits for a release nobody is on record for, one evaluated, one
\* still to be.
mockDigitalEmployees ==
    [secops |-> [Configured("staging") EXCEPT !.lifecycle = "pending_approval",
                                             !.release = "pending_approval"],
     guard  |-> Configured("staging"),
     change |-> [Configured("sandbox") EXCEPT !.eval = "not_started", !.lifecycle = "draft"]]

mockDigitalEmployeeTemplates ==
    [certified |-> [status |-> "certified", adopted |-> 0], review |-> [status |-> "review", adopted |-> 0]]

Init ==
    /\ db = [employees |-> mockDigitalEmployees,
             templates |-> mockDigitalEmployeeTemplates,
             adoptions |-> [id \in {} |-> NoArg],
             versions  |-> [id \in DOMAIN mockDigitalEmployees |-> <<"current">>],
             log       |-> <<>>]
    /\ NetInit

-----------------------------------------------------------------------------
(* What the pages work out about an employee. *)

\* The policy a form opens with: the stored one, or one made from the bindings.
resolveBoundaryPolicy(e) == IF e.contract THEN e.modes ELSE e.caps

roleSetupCompleteness(e) ==
    [profileOk |-> e.profile, boundaryOk |-> e.contract /\ e.duties,
     ready |-> e.profile /\ e.contract /\ e.duties]

capabilityAssemblyCompleteness(e) ==
    [assetsOk |-> e.caps > 0, modesOk |-> e.caps > 0 /\ e.contract /\ e.modes >= e.caps]

releaseOnboardingCompleteness(e) ==
    LET role == roleSetupCompleteness(e)
    IN  [configReady |-> /\ role.profileOk /\ (role.boundaryOk \/ e.duties)
                         /\ capabilityAssemblyCompleteness(e).assetsOk,
         stage |-> IF e.release # "not_released" THEN e.release
                   ELSE CASE e.eval = "passed" -> "ready_to_request"
                          [] e.eval = "failed" -> "eval_failed"
                          [] OTHER -> "pending_eval"]

releaseRequestedBySelf(u, e) == e.by = u

-----------------------------------------------------------------------------
(* The pages. *)

EmployeePlaza(u) ==
    {Req("adopt", u, "eAdopted", t, 0) :
        t \in {x \in {"certified"} : db.templates[x].status # "deprecated" /\ Vacant("eAdopted", db.employees)}}
    \cup (IF ~isAdministrator(u) THEN {}
          ELSE {Req("govern", u, t, IF db.templates[t].status = "review" THEN "certified" ELSE "deprecated", 0) :
                   t \in {x \in DOMAIN db.templates : db.templates[x].status # "deprecated"}})

PublishDepartmentTemplateModal(u) ==
    {Req("publishTemplate", u, t, NoArg, 0) : 
        t \in {x \in {"department"} : isAdministrator(u) /\ Vacant(x, db.templates)}}

CreateEmployeeModal(u) ==
    When(Vacant("eNew", db.employees), {Req("create", u, "eNew", NoArg, 0)})

\* The form of the contract, which sends the modes it opened with, and the one
\* of the capabilities, which gives every bound one a mode.
EmployeeConfigurationWorkbench(u, id) ==
    LET e == db.employees[id]
    IN  {Req("configure", u, id, arg, resolveBoundaryPolicy(e)) : arg \in {"placeholder", "production"}}
        \cup {Req("assemble", u, id, NoArg, n) : n \in {1, 2} \ {e.caps}}

\* The release tab.
ContextualEmployeeDetail(u, id) ==
    LET e == db.employees[id]
        gate == releaseOnboardingCompleteness(e)
        self == releaseRequestedBySelf(u, e)
        One(cond, op, arg) == IF cond THEN {Req(op, u, id, arg, 0)} ELSE {}
    IN  One(e.release = "not_released" /\ e.eval # "passed" /\ gate.configReady, "evaluate", NoArg)
        \cup One(gate.stage = "ready_to_request", "release", NoArg)
        \cup One(e.release = "pending_approval" /\ (~self \/ isAdministrator(u)), "lifecycle", "active")
        \cup One(e.release = "pending_approval" /\ self /\ ~isAdministrator(u), "withdraw", NoArg)
        \cup One(e.release = "pending_approval" /\ ~self /\ isAdministrator(u), "reject", NoArg)

\* The operations tab: a reason is given, or the resumption confirmed.
OperationsDisposeModal(u, id) ==
    LET e == db.employees[id]
    IN  IF ~isAdministrator(u) THEN {}
        ELSE CASE e.lifecycle = "active" ->
                    {Req("lifecycle", u, id, target, 0) : target \in {"paused", "quarantined"}}
               [] e.lifecycle \in {"paused", "quarantined"} /\ e.release = "released" ->
                    {Req("lifecycle", u, id, "active", 1)}
               [] OTHER -> {}

Offers(u) ==
    IF ~roleCanMutate(u) THEN {}
    ELSE EmployeePlaza(u) \cup PublishDepartmentTemplateModal(u) \cup CreateEmployeeModal(u)
         \cup UNION {EmployeeConfigurationWorkbench(u, id) \cup ContextualEmployeeDetail(u, id)
                     \cup OperationsDisposeModal(u, id) : id \in DOMAIN db.employees}

-----------------------------------------------------------------------------
(* The routes. *)

\* The row of employee r.id becomes e; the record of its adoption follows.
Saved(e, r) ==
    Logged([db EXCEPT !.employees[r.id] = e,
                      !.adoptions = [id \in DOMAIN @ |-> IF id = r.id THEN e.lifecycle ELSE @[id]]], r)

Writable(r) == Admitted(r, "plain") /\ RoleOf[r.by] # "auditor" /\ r.id \in DOMAIN db.employees

publishTemplate(r) ==
    /\ r.op = "publishTemplate"
    /\ Handle(Admitted(r, "plain") /\ isAdministrator(r.by),
              Logged([db EXCEPT !.templates = Unshifted(@, r.id, [status |-> "certified", adopted |-> 0])], r))

govern(r) ==
    /\ r.op = "govern"
    /\ Handle(Admitted(r, "plain") /\ isAdministrator(r.by),
              Logged([db EXCEPT !.templates[r.id].status = r.arg], r))

adopt(r) ==
    /\ r.op = "adopt"
    /\ Handle(/\ Admitted(r, "plain")
              /\ db.templates[r.arg].status # "deprecated",
              Logged([db EXCEPT !.employees = Unshifted(@, r.id, Fresh(r.arg)),
                                !.templates[r.arg].adopted = @ + 1,
                                !.adoptions = Unshifted(@, r.id, "draft")], r))

createEmployee(r) ==
    /\ r.op = "create"
    /\ Handle(Admitted(r, "plain"),
              Logged([db EXCEPT !.employees = Unshifted(@, r.id, Fresh(NoArg))], r))

\* A new current version takes the place of the last.
Revised(id) ==
    LET v == IF id \in DOMAIN db.versions THEN db.versions[id] ELSE <<>>
    IN  Unshifted(db.versions, id, Append([i \in DOMAIN v |-> "superseded"], "current"))

\* What a saved form writes: the contract keeps the capabilities as they are
\* and brings its own modes, the capabilities bring both.
applyDigitalEmployeeConfiguration(e, r) ==
    CASE r.op = "assemble" -> [e EXCEPT !.caps = r.seen, !.modes = r.seen, !.contract = TRUE]
      [] r.op = "configure" /\ r.arg = "placeholder" -> [e EXCEPT !.modes = r.seen, !.contract = TRUE]
      [] OTHER -> [e EXCEPT !.modes = r.seen, !.contract = TRUE, !.profile = TRUE, !.duties = TRUE,
                            !.env = r.arg]

configure(r) ==
    /\ r.op \in {"configure", "assemble"}
    /\ Handle(Writable(r),
              Logged([db EXCEPT !.employees[r.id] = applyDigitalEmployeeConfiguration(@, r),
                                !.versions = Revised(r.id)], r))

evaluate(r) ==
    /\ r.op = "evaluate"
    /\ LET e == db.employees[r.id]
           passed == e.duties /\ e.caps > 0
       IN  Handle(Writable(r),
                  Saved([e EXCEPT !.eval = IF passed THEN "passed" ELSE "failed",
                                  !.lifecycle = IF passed /\ @ = "draft" THEN "testing" ELSE @],
                        [r EXCEPT !.arg = IF passed THEN "passed" ELSE "failed"]))

\* Every gate of a release.
Ready(e) == e.profile /\ e.duties /\ e.caps > 0 /\ e.eval = "passed"

\* An administrator releases at once, in his own name; a user only in the sandbox.
release(r) ==
    /\ r.op = "release"
    /\ LET e == db.employees[r.id]
           asks == e.env # "sandbox" /\ ~isAdministrator(r.by)
           signs == e.env # "sandbox" /\ isAdministrator(r.by)
       IN  Handle(Writable(r) /\ Ready(e) /\ ~(e.release = "released" /\ e.lifecycle = "active"),
                  Saved([e EXCEPT !.lifecycle = IF asks THEN "pending_approval" ELSE "active",
                                  !.release = IF asks THEN "pending_approval" ELSE "released",
                                  !.by = r.by, !.approver = IF signs THEN r.by ELSE NoArg], r))

withdraw(r) ==
    /\ r.op = "withdraw"
    /\ LET e == db.employees[r.id]
       IN  Handle(Writable(r) /\ e.release = "pending_approval" /\ e.by = r.by,
                  Saved([e EXCEPT !.release = "not_released", !.by = NoArg, !.approver = NoArg,
                                  !.lifecycle = IF e.eval = "passed" THEN "testing" ELSE "draft"], r))

reject(r) ==
    /\ r.op = "reject"
    /\ LET e == db.employees[r.id]
       IN  Handle(/\ Writable(r) /\ isAdministrator(r.by) /\ e.release = "pending_approval" /\ e.by # r.by,
                  Saved([e EXCEPT !.release = "not_released", !.by = NoArg, !.approver = NoArg,
                                  !.lifecycle = "testing"], r))

\* Back to work after a pause, once confirmed.
Resume(e, r) == e.release = "released" /\ e.lifecycle \in {"paused", "quarantined"} /\ r.seen = 1

\* Mutant: a confirmation does not look whether the request still stands.
ConfirmAny(e, r) == isAdministrator(r.by) \/ e.by # r.by

\* The release that was asked for: not by the one who asked, unless an administrator.
Confirm(e, r) == e.release = "pending_approval" /\ (isAdministrator(r.by) \/ e.by # r.by)

activate(r) ==
    /\ r.op = "lifecycle" /\ r.arg = "active"
    /\ LET e == db.employees[r.id]
       IN  Handle(Writable(r) /\ (Resume(e, r) \/ Confirm(e, r)),
                  Saved(IF Resume(e, r) THEN [e EXCEPT !.lifecycle = "active", !.control = "resumed"]
                        ELSE [e EXCEPT !.lifecycle = "active", !.release = "released", !.approver = r.by], r))

halt(r) ==
    /\ r.op = "lifecycle" /\ r.arg \in {"paused", "quarantined"}
    /\ LET e == db.employees[r.id]
       IN  Handle(Writable(r) /\ isAdministrator(r.by) /\ e.lifecycle \in {"active", "paused"},
                  Saved([e EXCEPT !.lifecycle = r.arg, !.control = r.arg], r))

Next ==
    \/ MayAsk /\ \E u \in Actors : \E r \in Offers(u) : Ask(r)
    \/ \E r \in BagToSet(net.out) :
          /\ Arrives(r)
          /\ \/ publishTemplate(r) \/ govern(r) \/ adopt(r) \/ createEmployee(r) \/ configure(r)
             \/ evaluate(r) \/ release(r) \/ withdraw(r) \/ reject(r) \/ activate(r) \/ halt(r)

-----------------------------------------------------------------------------
TypeOK ==
    /\ \A id \in DOMAIN db.employees : db.employees[id] \in DigitalEmployee
    /\ \A id \in DOMAIN db.templates : db.templates[id] \in DigitalEmployeeTemplate
    /\ \A id \in DOMAIN db.versions : db.versions[id] \in Seq(DigitalEmployeeConfigurationVersion)

\* An employee is in service only under a release; no release is confirmed that
\* was withdrawn or rejected while the confirmation was under way.
ServesUnderRelease ==
    /\ \A id \in DOMAIN db.employees :
          db.employees[id].lifecycle \in InService => db.employees[id].release = "released"
    /\ \A i, j \in DOMAIN db.log :
          /\ i < j /\ db.log[i].id = db.log[j].id
          /\ db.log[i].op \in {"withdraw", "reject"} /\ db.log[j].arg = "active"
          => \E k \in i..j : db.log[k].op = "release" /\ db.log[k].id = db.log[j].id

\* A user's own release is signed by somebody else.
ReleaseCountersigned ==
    \A id \in DOMAIN db.employees :
        LET e == db.employees[id]
        IN  e.approver = e.by /\ e.by # NoArg => isAdministrator(e.by)

\* The record of an adoption mirrors the employee, and one version is current.
RecordsMirror ==
    /\ \A id \in DOMAIN db.adoptions : db.adoptions[id] = db.employees[id].lifecycle
    /\ \A id \in DOMAIN db.versions :
          Cardinality({i \in DOMAIN db.versions[id] : db.versions[id][i] = "current"}) = 1
=============================================================================
