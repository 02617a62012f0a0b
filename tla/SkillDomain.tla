----------------------------- MODULE SkillDomain -----------------------------
(***************************************************************************)
(* The skill centre: the skills of the workspace, the catalogue they are   *)
(* installed from, the integrations behind them, their health and their    *)
(* bindings to agents and workflows.  skills is the list as the server     *)
(* keeps it, newest first: its order matters because uninstalling looks    *)
(* the skill up in the list by a copy, does not find it, and takes the     *)
(* last one out instead.                                                   *)
(***************************************************************************)
EXTENDS ConsoleApi

Lifecycles == {"enabled", "disabled", "pending_approval", "quarantined", "deprecated"}
SkillIds == {"s1", "s2", "s12", "k1", "k2", "k3", "k4"}
CatalogIds == {"cLow", "cVuln", "cBad", "cTool", "c1", "c2", "c3"}
HealthStatuses == {"healthy", "attention", "paused", "quarantined"}

\* The ways into the workspace; the last two ask for no review.
Origins == {"store", "package", "connection", "import", "create"}

\* cleared: nothing against it, or an approval ticket went with it.
Skill == [high : BOOLEAN, life : Lifecycles, version : Nat, cleared : BOOLEAN, origin : Origins]

CatalogEntry ==
    [high : BOOLEAN, trusted : BOOLEAN, vulnerabilities : 0 .. 3, blocked : BOOLEAN,
     scope : {"workspace", "global"}]

SkillIntegrationStatus ==
    {"draft", "validating", "pending_approval", "enabled", "failed", "quarantined", "disabled"}

SkillIntegration ==
    [status : SkillIntegrationStatus, production : BOOLEAN, approval : BOOLEAN, skill : SkillIds \cup {NoArg}]

Entry(high, vulnerabilities, blocked) ==
    [high |-> high, trusted |-> TRUE, vulnerabilities |-> vulnerabilities, blocked |-> blocked,
     scope |-> "global"]

mockSkillCatalog ==
    [cLow |-> Entry(FALSE, 0, FALSE), cVuln |-> Entry(FALSE, 1, FALSE), cBad |-> Entry(FALSE, 3, FALSE),
     cTool |-> Entry(TRUE, 0, TRUE)]

skillAsset(high, cleared, origin) ==
    [high |-> high, life |-> "enabled", version |-> 1, cleared |-> cleared, origin |-> origin]

mockSkills == <<"s1", "s2", "s12">>

mockSkillIntegrations ==
    [gitlab |-> [status |-> "enabled", production |-> TRUE, approval |-> TRUE, skill |-> NoArg],
     itsm |-> [status |-> "pending_approval", production |-> TRUE, approval |-> TRUE, skill |-> NoArg],
     diagnosis |-> [status |-> "failed", production |-> FALSE, approval |-> FALSE, skill |-> "s2"]]

\* s1 runs somewhere now, s2 is only referred to.
mockSkillImpacts == [s1 |-> 1, s2 |-> 0]

Init ==
    /\ db = [skills       |-> mockSkills,
             asset        |-> [id \in Range(mockSkills) |-> skillAsset(id = "s2", TRUE, "store")],
             perms        |-> Range(mockSkills),
             catalog      |-> mockSkillCatalog,
             health       |-> [s2 |-> "attention"],
             integrations |-> mockSkillIntegrations,
             bindings     |-> {<<"a1", "s1">>},
             log          |-> <<>>]
    /\ NetInit

-----------------------------------------------------------------------------
(* What is computed from the tables. *)

activeRuns(id) == IF id \in DOMAIN mockSkillImpacts THEN mockSkillImpacts[id] ELSE 0

installed == Range(db.skills)

NewNames == {"k1", "k2", "k3", "k4"}
NewId == CHOOSE id \in NewNames : id \notin DOMAIN db.asset
NewEntry == CHOOSE id \in {"c1", "c2", "c3"} : id \notin DOMAIN db.catalog

needsApproval(e) == e.high \/ e.vulnerabilities > 0 \/ ~e.trusted

\* The verdict the page asks for before it installs.
preflight(e) ==
    IF e.blocked \/ e.vulnerabilities >= 3 THEN "blocked"
    ELSE IF needsApproval(e) THEN "review_required"
    ELSE "approved"

-----------------------------------------------------------------------------
(* The pages. *)

\* The store: what the verdict blocks cannot be confirmed; what it wants
\* reviewed is confirmed with the number of an approval.
confirmStoreInstall(u) ==
    {Req("install", u, c, IF preflight(db.catalog[c]) = "review_required" THEN "ticket" ELSE NoArg, 0) :
        c \in {x \in DOMAIN db.catalog : preflight(db.catalog[x]) # "blocked"}}

\* Other clients leave out the ticket, or the verdict.
InstallClients(u) == {Req("install", u, c, NoArg, 0) : c \in {"cBad", "cVuln"}}

handleUninstall(u) == {Req("uninstall", u, id, NoArg, 0) : id \in installed}

handleBatchUpgrade(u) == {Req("upgrade", u, id, NoArg, 0) : id \in installed \cap {"s1"}}

lifecycleMutation(u) == {Req("lifecycle", u, id, s, 0) : id \in installed \cap {"s2"}, s \in {"quarantined", "enabled"}}

permissionMutation(u) == {Req("permission", u, id, NoArg, 0) : id \in installed \cap {"s2"}}

\* Promotion to the store, to everybody by administrators only.
publishToCatalog(u) ==
    {Req("promote", u, id, ticket, 0) : id \in installed \cap {"s2"}, ticket \in {NoArg, "ticket"}}
    \cup When(isAdministrator(u), {Req("promoteAll", u, id, "ticket", 0) : id \in installed \cap {"s2"}})

syncCatalog(u) == When(isAdministrator(u), {Req("sync", u, "registry", NoArg, 0)})

\* What is pasted may name a risk.
ImportSkillModal(u) ==
    {Req("import", u, "skill", risk, 0) : risk \in {NoArg, "high"}}
    \cup {Req("importPackage", u, "skill", NoArg, 0)}

\* A route that no page uses: a skill made from nothing.
SkillClients(u) == {Req("create", u, "skill", risk, 0) : risk \in {NoArg, "high"}}

CapabilityConfigModal(u) == {Req("connect", u, "mcp", NoArg, 0)}

IntegrationWorkspace(u) ==
    {Req("test", u, i, NoArg, 0) : i \in DOMAIN db.integrations}
    \cup {Req("discover", u, i, NoArg, 0) :
             i \in {x \in DOMAIN db.integrations : db.integrations[x].status # "failed"}}

\* Another route that no page uses: any field of an integration is overwritten,
\* its status or whether what it writes wants an approval.
IntegrationClients(u) ==
    {Req("amend", u, i, to, 0) : i \in DOMAIN db.integrations \cap {"itsm", "diagnosis"},
                                 to \in {"enabled", "pending_approval", "unguarded"}}

GovernanceWorkspace(u) ==
    {Req(op, u, id, NoArg, 0) : op \in {"revalidate", "isolate", "pause"}, id \in DOMAIN db.health}

\* Binding a skill to an agent happens on the agent's page.
CapabilityBindings(u) ==
    {Req("bind", u, id, "a2", 0) : id \in installed \cap {"s12"}}
    \cup {Req("unbind", u, b[2], b[1], 0) : b \in db.bindings}

Skills(u) ==
    confirmStoreInstall(u) \cup handleUninstall(u) \cup handleBatchUpgrade(u) \cup lifecycleMutation(u)
    \cup permissionMutation(u) \cup publishToCatalog(u) \cup syncCatalog(u) \cup ImportSkillModal(u)

Offers(u) ==
    When(roleCanMutate(u),
         Skills(u) \cup InstallClients(u) \cup SkillClients(u) \cup CapabilityConfigModal(u)
         \cup IntegrationWorkspace(u) \cup IntegrationClients(u) \cup GovernanceWorkspace(u)
         \cup CapabilityBindings(u))

-----------------------------------------------------------------------------
(* The routes. *)

\* Bounds the skills added; the server's numbers never run out.
NameLeft == \E id \in NewNames : id \notin DOMAIN db.asset

\* A new skill goes in front, with the permissions of every role.
Added(d, asset) ==
    [d EXCEPT !.skills = <<NewId>> \o @, !.asset = Unshifted(@, NewId, asset), !.perms = @ \cup {NewId}]

\* Mutant: the ticket is asked for only in the page.
installTrusting(r) ==
    /\ r.op = "install" /\ NameLeft
    /\ LET e == db.catalog[r.id]
       IN  Handle(Admitted(r, "plain") /\ e.vulnerabilities < 3 /\ ~e.blocked,
                  Logged(Added(db, skillAsset(e.high, ~needsApproval(e) \/ r.arg = "ticket", "store")), r))

\* The verdict is reached again.  The same entry can be installed twice: the
\* skill gets a number of its own, which is not looked for in the catalogue.
install(r) ==
    /\ r.op = "install" /\ NameLeft
    /\ LET e == db.catalog[r.id]
       IN  Handle(/\ Admitted(r, "plain") /\ e.vulnerabilities < 3 /\ ~e.blocked
                  /\ needsApproval(e) => r.arg = "ticket",
                  Logged(Added(db, skillAsset(e.high, ~needsApproval(e) \/ r.arg = "ticket", "store")), r))

\* Present(r): the skill is in the list; its routes work on a copy of it.
Present(r) == Admitted(r, "plain") /\ r.id \in installed

\* The copy is not found in the list: the last skill goes.  What is deleted of
\* the skill that was asked for are its permissions.
uninstall(r) ==
    /\ r.op = "uninstall"
    /\ Handle(Present(r) /\ activeRuns(r.id) = 0,
              Logged([db EXCEPT !.skills = Front(@), !.perms = @ \ {r.id}], r))

upgrade(r) ==
    /\ r.op = "upgrade"
    /\ Handle(Present(r), Logged([db EXCEPT !.asset[r.id].version = @ + 1], r))

lifecycle(r) ==
    /\ r.op = "lifecycle"
    /\ Handle(Present(r), Logged([db EXCEPT !.asset[r.id].life = r.arg], r))

permissions(r) ==
    /\ r.op = "permission"
    /\ Handle(Present(r) /\ r.id \in db.perms, Logged(db, r))

catalogPublish(r) ==
    /\ r.op \in {"promote", "promoteAll"}
    /\ LET high == db.asset[r.id].high
           scope == IF r.op = "promote" THEN "workspace" ELSE "global"
       IN  Handle(/\ Present(r)
                  /\ high \/ scope # "workspace" => r.arg = "ticket"
                  /\ scope # "workspace" => isAdministrator(r.by),
                  Logged([db EXCEPT !.catalog = Unshifted(@, NewEntry,
                             [high |-> high, trusted |-> FALSE, vulnerabilities |-> 0, blocked |-> FALSE,
                              scope |-> scope])], r))

catalogSync(r) ==
    /\ r.op = "sync"
    /\ Handle(Admitted(r, "plain") /\ isAdministrator(r.by),
              Logged([db EXCEPT !.catalog = Unshifted(@, NewEntry, Entry(FALSE, 0, FALSE))], r))

NewIntegration(skill, status, approval) ==
    [status |-> status, production |-> FALSE, approval |-> approval, skill |-> skill]

\* A skill of the risk it says it has, which nobody approves.
skillsCreate(r) ==
    /\ r.op = "create" /\ NameLeft
    /\ Handle(Admitted(r, "plain"), Logged(Added(db, skillAsset(r.arg = "high", r.arg # "high", "create")), r))

\* So with what is imported, but its integration waits for its first test; a
\* package is of middling risk and enabled at once.
skillsImport(r) ==
    /\ r.op = "import" /\ NameLeft
    /\ Handle(Admitted(r, "plain"),
              Logged([Added(db, skillAsset(r.arg = "high", r.arg # "high", "import")) EXCEPT
                         !.integrations =
                             Unshifted(@, NewId, NewIntegration(NoArg, "validating", r.arg = "high"))], r))

importPackage(r) ==
    /\ r.op = "importPackage" /\ NameLeft
    /\ Handle(Admitted(r, "plain"),
              Logged([Added(db, skillAsset(FALSE, TRUE, "package")) EXCEPT
                         !.integrations = Unshifted(@, NewId, NewIntegration(NewId, "enabled", FALSE))], r))

mcpConnections(r) ==
    /\ r.op = "connect" /\ NameLeft
    /\ Handle(Admitted(r, "plain") /\ isAdministrator(r.by),
              Logged([Added(db, skillAsset(FALSE, TRUE, "connection")) EXCEPT
                         !.integrations = Unshifted(@, NewId, NewIntegration(NoArg, "validating", TRUE))], r))

\* Mutant: a test that passes enables whatever waits.
integrationTestAny(r) ==
    /\ r.op = "test"
    /\ Handle(Admitted(r, "plain"), Logged([db EXCEPT !.integrations[r.id].status = "enabled"], r))

\* A test of a skill that is gone marks the integration as failed, and throws.
integrationTest(r) ==
    /\ r.op = "test"
    /\ LET i == db.integrations[r.id]
       IN  Handle(Admitted(r, "plain"),
                  IF i.skill # NoArg /\ i.skill \notin installed
                  THEN Logged([db EXCEPT !.integrations[r.id].status = "failed"], r)
                  ELSE Logged([db EXCEPT !.integrations[r.id].status =
                                  IF @ \in {"draft", "validating", "failed"} THEN "enabled" ELSE @], r))

integrationDiscover(r) ==
    /\ r.op = "discover"
    /\ LET i == db.integrations[r.id]
       IN  Handle(Admitted(r, "plain") /\ i.status # "failed",
                  Logged([db EXCEPT !.integrations[r.id].status =
                             IF i.approval /\ i.production THEN "pending_approval" ELSE "enabled"], r))

\* Whatever the body says is written; who may approve is not asked.
integrationLifecycle(r) ==
    /\ r.op = "amend"
    /\ Handle(Admitted(r, "plain"),
              Logged(IF r.arg = "unguarded" THEN [db EXCEPT !.integrations[r.id].approval = FALSE]
                     ELSE [db EXCEPT !.integrations[r.id].status = r.arg], r))

governanceSkillAction(r) ==
    /\ r.op \in {"revalidate", "isolate", "pause"}
    /\ Handle(Admitted(r, "plain"),
              Logged([db EXCEPT !.health[r.id] = CASE r.op = "revalidate" -> "healthy"
                                                   [] r.op = "isolate" -> "quarantined"
                                                   [] r.op = "pause" -> "paused"], r))

capabilityTarget(r) ==
    \/ r.op = "bind" /\ Handle(Present(r), Logged([db EXCEPT !.bindings = @ \cup {<<r.arg, r.id>>}], r))
    \/ /\ r.op = "unbind"
       /\ Handle(Admitted(r, "plain") /\ <<r.arg, r.id>> \in db.bindings,
                 Logged([db EXCEPT !.bindings = @ \ {<<r.arg, r.id>>}], r))

Next ==
    \/ MayAsk /\ \E u \in Actors : \E r \in Offers(u) : Ask(r)
    \/ \E r \in BagToSet(net.out) :
          /\ Arrives(r)
          /\ \/ install(r) \/ uninstall(r) \/ upgrade(r) \/ lifecycle(r) \/ permissions(r)
             \/ catalogPublish(r) \/ catalogSync(r) \/ skillsCreate(r) \/ skillsImport(r)
             \/ importPackage(r) \/ mcpConnections(r) \/ integrationTest(r)
             \/ integrationDiscover(r) \/ integrationLifecycle(r) \/ governanceSkillAction(r)
             \/ capabilityTarget(r)

-----------------------------------------------------------------------------
TypeOK ==
    /\ installed \subseteq DOMAIN db.asset /\ DOMAIN db.asset \subseteq SkillIds
    /\ \A id \in DOMAIN db.asset : db.asset[id] \in Skill
    /\ DOMAIN db.catalog \subseteq CatalogIds
    /\ \A c \in DOMAIN db.catalog : db.catalog[c] \in CatalogEntry
    /\ \A i \in DOMAIN db.integrations : db.integrations[i] \in SkillIntegration
    /\ \A id \in DOMAIN db.health : db.health[id] \in HealthStatuses

\* What a review was asked for is in the workspace with a ticket, however often its
\* entry was installed, promoted and installed again; what came without one was
\* imported or made there, where the server asks for no review.
InstalledCleared ==
    \A id \in installed : db.asset[id].cleared \/ db.asset[id].origin \in {"import", "create"}

\* An integration that writes in production leaves the queue for approval by none
\* of the buttons, neither by a test nor by another discovery, unless an order to
\* change that very integration is on record.
ApprovalAwaited ==
    \A i \in DOMAIN db.integrations :
        (db.integrations[i].status = "pending_approval") =>
            \/ db'.integrations[i].status = "pending_approval"
            \/ \E k \in DOMAIN db'.log : db'.log[k].op = "amend" /\ db'.log[k].id = i
=============================================================================
