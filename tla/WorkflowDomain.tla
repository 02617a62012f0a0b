--------------------------- MODULE WorkflowDomain ---------------------------
(***************************************************************************)
(* One workflow of a workspace on the server: the shared draft, its        *)
(* versions, the runs, the skills made from a version, the templates made  *)
(* from a canvas.  A graph is what the checks tell apart: empty; one that  *)
(* only reads; one that writes outside without approval, audit and a way   *)
(* back; one that writes with them; one with a policy node as well.  The   *)
(* request of an editor carries the graph of its canvas in arg and the     *)
(* version it has open in seen.                                            *)
(***************************************************************************)
EXTENDS ConsoleApi

Graphs == {"empty", "reads", "writes", "governed", "policed"}
Risks == {"low", "mid", "high"}

hasExternalWrite(g) == g \in {"writes", "governed", "policed"}
hasSandboxGovernance(g) == g \in {"governed", "policed"}

WorkflowVersionRecord == [graph : Graphs, status : {"draft", "published"}, recorded : BOOLEAN, revision : BOOLEAN]
WorkflowRunRecord ==
    [graph : Graphs, status : {"success", "failed", "running"}, env : {"sandbox", "production"},
     attempt : Nat, parent : Nat]
WorkflowSkill == [risk : Risks, status : {"draft", "published"}, approvalRequired : BOOLEAN]

workflowVersionFromGraph(g, status) == [graph |-> g, status |-> status, recorded |-> TRUE, revision |-> FALSE]

\* The published versions of long ago, the draft, and one a generation left.
buildInitialWorkflowVersions ==
    <<workflowVersionFromGraph("writes", "published"), workflowVersionFromGraph("policed", "draft"),
      [workflowVersionFromGraph("governed", "draft") EXCEPT !.revision = TRUE]>>

mockWorkflowRuns ==
    <<[graph |-> "policed", status |-> "failed", env |-> "sandbox", attempt |-> 1, parent |-> 0]>>

workflowControlFor ==
    [draft |-> [graph |-> "policed", status |-> "active"],
     versions |-> buildInitialWorkflowVersions, runs |-> mockWorkflowRuns]

Init ==
    /\ db = [draft |-> workflowControlFor.draft, versions |-> workflowControlFor.versions,
             runs |-> workflowControlFor.runs,
             skills |-> [v \in {} |-> NoArg], templates |-> [id \in {"tplOwn"} |-> "u2"], log |-> <<>>]
    /\ NetInit

-----------------------------------------------------------------------------
(* The pages. *)

\* What the canvas refuses to check or run, before it asks the server.
evaluateWorkflowStructure(g) ==
    (IF g = "empty" THEN {"trigger"} ELSE {})
    \cup (IF hasExternalWrite(g) /\ ~hasSandboxGovernance(g) THEN {"approval", "audit", "compensate"} ELSE {})

canWrite(u) == May(u, "workflow.write") /\ roleCanMutate(u)
canExecute(u) == May(u, "workflow.execute") /\ roleCanMutate(u)

saveCanvas(u, v) ==
    {Req("save", u, "wf", g, v) : g \in {x \in {"empty", "writes"} : db.versions[v].status # "published"}}

saveAsVersion(u) == {Req("saveAs", u, "wf", g, 0) : g \in {"reads"}}

\* An administrator publishes; others ask for a release, see AccessControl.
requestProductionRelease(u, v) == IF isAdministrator(u) THEN {Req("publish", u, "wf", NoArg, v)} ELSE {}

runWorkflow(u, v) ==
    {Req("run", u, "wf", g, v) : g \in {x \in {"reads", "writes", "governed"} : evaluateWorkflowStructure(x) = {}}}

rollbackVersion(u, v) == IF db.versions[v].recorded THEN {Req("rollback", u, "wf", NoArg, v)} ELSE {}

\* The skill tab: the version is open, clean, and was checked.
publishAsSkillApi(u, v) ==
    {Req("publishSkill", u, "wf", risk, v) :
        risk \in {x \in {"mid", "high"} : evaluateWorkflowStructure(db.versions[v].graph) = {}}}

saveAsPersonalTemplate(u) == 
    When(Vacant("tplNew", db.templates), {Req("addTemplate", u, "tplNew", "reads", 0)})
deletePersonalTemplate(u) == {Req("delTemplate", u, id, NoArg, 0) : id \in DOMAIN db.templates}

HistoryView(u) ==
    {Req("retry", u, "wf", NoArg, i) : i \in {j \in DOMAIN db.runs : db.runs[j].status = "failed"}}

\* The skills page.
PromoteSkill(u) ==
    {Req("promote", u, "wf", NoArg, v) : v \in {x \in DOMAIN db.skills : db.skills[x].status = "draft" /\ isAdministrator(u)}}

\* A client of the interface may write to a version that is published.
DraftClients(u) == {Req("save", u, "wf", "reads", v) : v \in {1}}

Workflows(u, v) == saveCanvas(u, v) \cup requestProductionRelease(u, v) \cup rollbackVersion(u, v) \cup publishAsSkillApi(u, v)

Offers(u) ==
    (IF canWrite(u)
     THEN DraftClients(u) \cup saveAsVersion(u) \cup saveAsPersonalTemplate(u) \cup deletePersonalTemplate(u) \cup PromoteSkill(u)
          \cup UNION {Workflows(u, v) : v \in DOMAIN db.versions}
     ELSE {})
    \cup (IF canExecute(u) THEN HistoryView(u) \cup UNION {runWorkflow(u, v) : v \in {1, 3}} ELSE {})

-----------------------------------------------------------------------------
(* The routes. *)

\* Mutant: a published version may be saved over.
saveDraftOver(r) ==
    /\ r.op = "save"
    /\ Handle(Admitted(r, "plain"),
              Logged([db EXCEPT !.draft.graph = r.arg, !.versions[r.seen].graph = r.arg], r))

\* The draft is written first: when the version turns out to be published the
\* request fails and the draft has changed.
saveDraft(r) ==
    /\ r.op = "save"
    /\ LET drafted == [db EXCEPT !.draft.graph = r.arg]
       IN  db' = IF ~Admitted(r, "plain") THEN db
                 ELSE IF db.versions[r.seen].status = "published" THEN drafted
                 ELSE Logged([drafted EXCEPT !.versions[r.seen] =
                                 [@ EXCEPT !.graph = r.arg, !.recorded = TRUE]], r)

Saved(g, status) == Append(db.versions, workflowVersionFromGraph(g, status))

createVersion(r) ==
    /\ r.op = "saveAs"
    /\ Handle(Admitted(r, "plain") /\ May(r.by, "workflow.write") /\ r.arg # "empty",
              Logged([db EXCEPT !.versions = Saved(r.arg, "draft")], r))

\* Mutant: what was checked in the editor is not looked at again.
publishUnchecked(r) ==
    /\ r.op = "publish"
    /\ Handle(Admitted(r, "publish") /\ May(r.by, "workflow.write"),
              Logged([db EXCEPT !.versions = Saved(db.draft.graph, "published"), !.draft.status = "published"], r))

\* What is published is the server's draft, whatever the editor has open.
publish(r) ==
    /\ r.op = "publish"
    /\ Handle(/\ Admitted(r, "publish") /\ May(r.by, "workflow.write")
              /\ hasExternalWrite(db.draft.graph) => hasSandboxGovernance(db.draft.graph),
              Logged([db EXCEPT !.versions = Saved(db.draft.graph, "published"), !.draft.status = "published"], r))

rollback(r) ==
    /\ r.op = "rollback"
    /\ LET target == db.versions[r.seen]
       IN  Handle(/\ Admitted(r, "plain") /\ May(r.by, "workflow.write")
                  /\ target.graph # "empty" /\ target.recorded,
                  Logged([db EXCEPT !.draft = [graph |-> target.graph, status |-> "active"],
                                    !.versions = Saved(target.graph, "draft")], r))

\* The canvas sends its graph, the version's or the draft's takes the place of an empty one.
runnableDraft(r) ==
    IF r.arg # "empty" THEN r.arg
    ELSE IF db.versions[r.seen].revision THEN db.versions[r.seen].graph
    ELSE db.draft.graph

\* Sandbox only, from these pages; graphs that write need their governance there too.
run(r) ==
    /\ r.op = "run"
    /\ LET g == runnableDraft(r)
       IN  Handle(/\ Admitted(r, "plain") /\ May(r.by, "workflow.execute") /\ g # "empty"
                  /\ hasExternalWrite(g) => hasSandboxGovernance(g),
                  Logged([db EXCEPT !.runs = Append(@, [graph |-> g, status |-> "running", env |-> "sandbox",
                                                        attempt |-> 1, parent |-> 0])], r))

\* A failed run may be tried again any number of times, side by side.
retryRun(r) ==
    /\ r.op = "retry"
    /\ LET failed == db.runs[r.seen]
       IN  Handle(Admitted(r, "plain") /\ May(r.by, "workflow.execute") /\ failed.status = "failed",
                  Logged([db EXCEPT !.runs = Append(@, [failed EXCEPT !.status = "running",
                                                        !.attempt = @ + 1, !.parent = r.seen])], r))

\* One skill a version: publishing it again writes over it, its status included.
publishAsSkill(r) ==
    /\ r.op = "publishSkill"
    /\ Handle(Admitted(r, "plain") /\ May(r.by, "workflow.write"),
              Logged([db EXCEPT !.skills =
                         Unshifted(@, r.seen, [risk |-> r.arg, approvalRequired |-> r.arg # "low",
                                              status |-> IF r.arg = "high" /\ RoleOf[r.by] = "user" THEN "draft" ELSE "published"])], r))

promoteWorkflowSkill(r) ==
    /\ r.op = "promote"
    /\ Handle(Admitted(r, "publish") /\ isAdministrator(r.by) /\ r.seen \in DOMAIN db.skills,
              Logged([db EXCEPT !.skills[r.seen].status = "published"], r))

createTemplate(r) ==
    /\ r.op = "addTemplate"
    /\ Handle(Admitted(r, "plain") /\ r.arg # "empty",
              Logged([db EXCEPT !.templates = Unshifted(@, r.id, r.by)], r))

personalTplDelete(r) ==
    /\ r.op = "delTemplate"
    /\ Handle(/\ Admitted(r, "plain") /\ r.id \in DOMAIN db.templates
              /\ db.templates[r.id] = r.by \/ isAdministrator(r.by),
              Logged([db EXCEPT !.templates = [id \in DOMAIN @ \ {r.id} |-> @[id]]], r))

Next ==
    \/ MayAsk /\ \E u \in Actors : \E r \in Offers(u) : Ask(r)
    \/ \E r \in BagToSet(net.out) :
          /\ Arrives(r)
          /\ \/ saveDraft(r) \/ createVersion(r) \/ publish(r) \/ rollback(r) \/ run(r) \/ retryRun(r)
             \/ publishAsSkill(r) \/ promoteWorkflowSkill(r) \/ createTemplate(r) \/ personalTplDelete(r)

-----------------------------------------------------------------------------
TypeOK ==
    /\ db.draft \in [graph : Graphs, status : {"active", "published"}]
    /\ \A v \in DOMAIN db.versions : db.versions[v] \in WorkflowVersionRecord
    /\ \A i \in DOMAIN db.runs : db.runs[i] \in WorkflowRunRecord
    /\ \A v \in DOMAIN db.skills : db.skills[v] \in WorkflowSkill

\* What is published by hand or run has its governance, though somebody else
\* saves over the shared draft between the check in the editor and the request.
WritesGoverned ==
    /\ \A i \in DOMAIN db.runs :
          hasExternalWrite(db.runs[i].graph) => db.runs[i].env = "sandbox" /\ hasSandboxGovernance(db.runs[i].graph)
    /\ \A v \in DOMAIN db.versions \ DOMAIN buildInitialWorkflowVersions :
          db.versions[v].status = "published" /\ hasExternalWrite(db.versions[v].graph)
             => hasSandboxGovernance(db.versions[v].graph)
    /\ \A v \in DOMAIN db.skills :
          db.skills[v].risk = "high" /\ db.skills[v].status = "published"
             => \E i \in DOMAIN db.log : db.log[i].op \in {"publishSkill", "promote"} /\ isAdministrator(db.log[i].by)

\* A retry descends from a failed run, one attempt later, with the same graph.
RetriesDescend ==
    \A i \in DOMAIN db.runs :
        LET p == db.runs[i].parent
        IN  IF p = 0 THEN db.runs[i].attempt = 1
            ELSE /\ p < i /\ db.runs[p].status = "failed" /\ db.runs[p].graph = db.runs[i].graph
                 /\ db.runs[i].attempt = db.runs[p].attempt + 1

\* A published version is never written again.
PublishedFixed ==
    \A v \in DOMAIN db.versions :
        db.versions[v].status = "published" => v \in DOMAIN db'.versions /\ db'.versions[v] = db.versions[v]
=============================================================================
