---------------------------- MODULE AccessControl ----------------------------
(***************************************************************************)
(* Who may do what: access grants and their reviews, approvals of          *)
(* production releases, zero-trust policies and temporary authorizations,  *)
(* the workspaces and the organisation settings.  An account keeps the     *)
(* role of its token whatever becomes of its grant, as the code does.      *)
(***************************************************************************)
EXTENDS ConsoleApi

AccessGrant == [subject : Users \cup {"partner", "guest"}, status : {"active", "expiring", "expired"}]

ReleaseApproval == [submitter : Users, status : {"pending", "approved", "rejected"}]

ZeroTrustPolicy == [baseline : BOOLEAN, enabled : BOOLEAN, version : Nat]

TemporaryAuthorization == [env : {"sandbox", "staging", "production"}, status : {"active", "revoked"}]

Workspace == [owner : Users \cup {"member"}, status : {"active", "frozen"}, bound : BOOLEAN]

mockAccessGrants ==
    [gAdmin |-> [subject |-> "u1", status |-> "active"],
     gUser |-> [subject |-> "u2", status |-> "active"],
     gPartner |-> [subject |-> "partner", status |-> "expiring"]]

Init ==
    /\ db = [grants   |-> mockAccessGrants,
             review   |-> "open",
             releases |-> [channel |-> [submitter |-> "u2", status |-> "pending"]],
             policies |-> [base |-> [baseline |-> TRUE, enabled |-> TRUE, version |-> 3]],
             temp     |-> [zta |-> [env |-> "staging", status |-> "active"]],
             spaces   |-> [w1 |-> [owner |-> "u1", status |-> "active", bound |-> TRUE],
                           w2 |-> [owner |-> "u1", status |-> "active", bound |-> FALSE]],
             settings |-> [profile |-> 0, notify |-> TRUE, backups |-> 0],
             log      |-> <<>>]
    /\ NetInit

\* The workspaces an account's grant names: one that is made here is in none of them.
workspaceIds(u) == IF u = "u4" THEN {"w1"} ELSE {"w1", "w2"}

\* The verdict on a publication: a user's has to be approved while the policy stands.
evaluateZeroTrust(u) ==
    CASE RoleOf[u] = "auditor" /\ db.policies.base.enabled -> "deny"
      [] RoleOf[u] = "user" /\ db.policies.base.enabled -> "approval_required"
      [] OTHER -> "allow"

-----------------------------------------------------------------------------
(* The pages. *)

\* The approvals tab: two buttons on every pending release.
Approvals(u) ==
    {Req(op, u, id, NoArg, 0) : op \in {"approve", "reject"},
        id \in {x \in DOMAIN db.releases : db.releases[x].status = "pending"}}

Controls(u) == IF db.review = "open" THEN {Req("completeReview", u, "review", NoArg, 0)} ELSE {}

GrantDialog(u) ==
    {Req("grant", u, "gNew", arg, 0) : arg \in {x \in {"active", "expiring"} : Vacant("gNew", db.grants)}}

\* No page revokes or extends a grant; clients of the interface do.
GrantActions(u) == {Req(op, u, id, NoArg, 0) : op \in {"revokeGrant", "extendGrant"}, id \in DOMAIN db.grants}

\* Only rows that are no baseline have a toggle.
Policies(u) ==
    {Req("togglePolicy", u, id, IF db.policies[id].enabled THEN "off" ELSE "on", db.policies[id].version) :
        id \in {x \in DOMAIN db.policies : ~db.policies[x].baseline}}

\* Other clients send what they like: a baseline may be asked to stop.
PolicyClients(u) ==
    {Req("togglePolicy", u, "base", "off", db.policies.base.version)}
    \cup When(Vacant("custom", db.policies), {Req("createPolicy", u, "custom", NoArg, 0)})

Authorizations(u) ==
    {Req("revokeTemp", u, id, NoArg, 0) : id \in {x \in DOMAIN db.temp : db.temp[x].status = "active"}}

\* The dialog offers no production; other clients may ask for it.
AuthorizationDialog(u) ==
    {Req("authorize", u, "ztaNew", env, 0) :
        env \in {x \in {"sandbox", "production"} : Vacant("ztaNew", db.temp)}}

\* The settings tab of the workspace page.
WorkspaceSettings(u) ==
    {Req(op, u, w, NoArg, 0) : op \in {"transfer", "freeze"}, w \in DOMAIN db.spaces}
    \cup {Req("bind", u, w, NoArg, 0) : w \in DOMAIN db.spaces}

\* Other clients may insist.
WorkspaceClients(u) == {Req("freeze", u, w, "force", 0) : w \in {x \in DOMAIN db.spaces : db.spaces[x].bound}}

CreateWizard(u) == When(Vacant("w5", db.spaces), {Req("createWorkspace", u, "w5", NoArg, 0)})

TenantPanel(u) ==
    {Req("saveProfile", u, "tenant", NoArg, 0),
     Req("patchNotify", u, "notify", IF db.settings.notify THEN "off" ELSE "on", 0)}

BackupPanel(u) == {Req("backup", u, "backup", NoArg, 0)}

AuditExport(u) == {Req("export", u, "audit", NoArg, 0)}

SubmitRelease(u) ==
    When(Vacant("rNew", db.releases), {Req("submit", u, "rNew", NoArg, 0)})

Offers(u) ==
    IF isAdministrator(u)
    THEN Approvals(u) \cup Controls(u) \cup GrantDialog(u) \cup GrantActions(u) \cup Policies(u)
         \cup PolicyClients(u) \cup Authorizations(u) \cup AuthorizationDialog(u)
         \cup WorkspaceSettings(u) \cup WorkspaceClients(u) \cup CreateWizard(u) \cup TenantPanel(u) \cup BackupPanel(u)
         \cup AuditExport(u) \cup SubmitRelease(u)
    ELSE AuditExport(u) \cup SubmitRelease(u) \cup Approvals(u)

-----------------------------------------------------------------------------
(* The routes. *)

grant(r) ==
    /\ r.op = "grant"
    /\ Handle(Admitted(r, "platform") /\ May(r.by, "access.write"),
              Logged([db EXCEPT !.grants = Unshifted(@, r.id, [subject |-> "guest", status |-> r.arg])], r))

\* Mutant: administrators may change their own grant.
grantActionAny(r) ==
    /\ r.op \in {"revokeGrant", "extendGrant"}
    /\ Handle(Admitted(r, "platform") /\ May(r.by, "access.write"),
              Logged([db EXCEPT !.grants[r.id].status = IF r.op = "revokeGrant" THEN "expired" ELSE "active"], r))

grantAction(r) ==
    /\ r.op \in {"revokeGrant", "extendGrant"}
    /\ Handle(Admitted(r, "platform") /\ May(r.by, "access.write") /\ db.grants[r.id].subject # r.by,
              Logged([db EXCEPT !.grants[r.id].status = IF r.op = "revokeGrant" THEN "expired" ELSE "active"], r))

completeReview(r) ==
    /\ r.op = "completeReview"
    /\ Handle(Admitted(r, "platform") /\ May(r.by, "access.write"),
              Logged([db EXCEPT !.review = "completed"], r))

submit(r) ==
    /\ r.op = "submit"
    /\ Handle(Admitted(r, "plain") /\ RoleOf[r.by] # "auditor" /\ evaluateZeroTrust(r.by) # "deny",
              Logged([db EXCEPT !.releases = Unshifted(@, r.id, [submitter |-> r.by, status |-> "pending"])], r))

\* The status of the release is not looked at: a later decision replaces an earlier one.
approvalAction(r) ==
    /\ r.op \in {"approve", "reject"}
    /\ Handle(/\ Admitted(r, "plain") /\ May(r.by, "release.approve")
              /\ db.releases[r.id].submitter # r.by,
              Logged([db EXCEPT !.releases[r.id].status =
                          IF r.op = "approve" THEN "approved" ELSE "rejected"], r))

createPolicy(r) ==
    /\ r.op = "createPolicy"
    /\ Handle(Admitted(r, "plain") /\ isAdministrator(r.by),
              Logged([db EXCEPT !.policies =
                         Unshifted(@, r.id, [baseline |-> FALSE, enabled |-> TRUE, version |-> 1])], r))

toggled(p, on) == [p EXCEPT !.enabled = on, !.version = @ + 1]

togglePolicy(r) ==
    /\ r.op = "togglePolicy"
    /\ Handle(/\ Admitted(r, "plain") /\ isAdministrator(r.by)
              /\ ~(db.policies[r.id].baseline /\ r.arg = "off"),
              Logged([db EXCEPT !.policies[r.id] = toggled(db.policies[r.id], r.arg = "on")], r))

authorize(r) ==
    /\ r.op = "authorize"
    /\ Handle(Admitted(r, "plain") /\ isAdministrator(r.by) /\ r.arg # "production",
              Logged([db EXCEPT !.temp = Unshifted(@, r.id, [env |-> r.arg, status |-> "active"])], r))

revokeTemp(r) ==
    /\ r.op = "revokeTemp"
    /\ Handle(Admitted(r, "plain") /\ isAdministrator(r.by),
              Logged([db EXCEPT !.temp[r.id].status = "revoked"], r))

createWorkspace(r) ==
    /\ r.op = "createWorkspace"
    /\ Handle(Admitted(r, "plain") /\ May(r.by, "workspace.write"),
              Logged([db EXCEPT !.spaces = Unshifted(@, r.id, [owner |-> "u1", status |-> "active", bound |-> FALSE])], r))

\* A workspace in use is frozen only by force; one that is frozen can still be bound.
workspaceAction(r) ==
    /\ r.op \in {"freeze", "transfer", "bind"}
    /\ LET w == db.spaces[r.id]
       IN  Handle(/\ Admitted(r, "plain") /\ May(r.by, "workspace.write")
                  /\ r.id \in workspaceIds(r.by)
                  /\ ~(r.op = "freeze" /\ w.bound /\ r.arg # "force"),
                  Logged([db EXCEPT !.spaces[r.id] =
                     CASE r.op = "freeze" -> [w EXCEPT !.status = "frozen"]
                       [] r.op = "transfer" -> [w EXCEPT !.owner = "member"]
                       [] r.op = "bind" -> [w EXCEPT !.bound = TRUE]], r))

saveProfile(r) ==
    /\ r.op = "saveProfile"
    /\ Handle(Admitted(r, "plain") /\ isAdministrator(r.by),
              Logged([db EXCEPT !.settings.profile = @ + 1], r))

patchNotify(r) ==
    /\ r.op = "patchNotify"
    /\ Handle(Admitted(r, "plain") /\ isAdministrator(r.by),
              Logged([db EXCEPT !.settings.notify = r.arg = "on"], r))

backup(r) ==
    /\ r.op = "backup"
    /\ Handle(Admitted(r, "plain") /\ isAdministrator(r.by),
              Logged([db EXCEPT !.settings.backups = @ + 1], r))

\* An auditor may export by permission, but the gate keeps every POST from him.
export(r) ==
    /\ r.op = "export"
    /\ Handle(Admitted(r, "plain") /\ May(r.by, "audit.export"), Logged(db, r))

Next ==
    \/ MayAsk /\ \E u \in Actors : \E r \in Offers(u) : Ask(r)
    \/ \E r \in BagToSet(net.out) :
          /\ Arrives(r)
          /\ \/ grant(r) \/ grantAction(r) \/ completeReview(r)
             \/ submit(r) \/ approvalAction(r)
             \/ createPolicy(r) \/ togglePolicy(r) \/ authorize(r) \/ revokeTemp(r)
             \/ createWorkspace(r) \/ workspaceAction(r)
             \/ saveProfile(r) \/ patchNotify(r) \/ backup(r) \/ export(r)

-----------------------------------------------------------------------------
TypeOK ==
    /\ \A id \in DOMAIN db.grants : db.grants[id] \in AccessGrant
    /\ db.review \in {"open", "completed"}
    /\ \A id \in DOMAIN db.releases : db.releases[id] \in ReleaseApproval
    /\ \A id \in DOMAIN db.policies : db.policies[id] \in ZeroTrustPolicy
    /\ \A id \in DOMAIN db.temp : db.temp[id] \in TemporaryAuthorization
    /\ \A id \in DOMAIN db.spaces : db.spaces[id] \in Workspace

\* A production release is decided by an administrator who did not submit it,
\* and nobody changes the grant that is his own; the log says who did what.
DutiesSeparated ==
    /\ \A id \in DOMAIN db.releases : db.releases[id].status # "pending" =>
          LET by == Doers({"approve", "reject"}, id)
          IN  by # {} /\ \A u \in by : isAdministrator(u) /\ u # db.releases[id].submitter
    /\ \A id \in DOMAIN db.grants : db.grants[id].subject \notin Doers({"revokeGrant", "extendGrant"}, id)

\* The tenant's baseline stays on, and nothing temporary reaches production.
BaselineHolds ==
    /\ \A id \in DOMAIN db.policies : db.policies[id].baseline => db.policies[id].enabled
    /\ \A id \in DOMAIN db.temp : db.temp[id].env # "production"
=============================================================================
