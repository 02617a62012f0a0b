---------------------------- MODULE ChannelDomain ----------------------------
(***************************************************************************)
(* The channel control plane: deployments that carry messages, a delivery  *)
(* policy with its checked and published versions, the attempts made under *)
(* it and the channels of the older page.  A deployment can be disabled or *)
(* deleted between the check of a policy and its publication, and a dead   *)
(* letter is delivered again by hand.  Credentials and the audit events    *)
(* are left out.  removed is history: the deployments that were deleted,   *)
(* whose names do not come back.                                           *)
(***************************************************************************)
EXTENDS ConsoleApi

Kinds == {"feishu", "dingtalk", "wecom", "weixin", "webhook"}
Modes == {"websocket", "webhook", "stream", "long_poll", NoArg}
DeploymentIds == {"feishu", "other"}

\* path: a callback address is shown; keys: the encryption key and token of one.
ChannelDeployment ==
    [kind : Kinds, status : {"draft", "active", "disabled"}, mode : Modes, path : BOOLEAN, keys : BOOLEAN]

\* What a policy delivers through; a fallback may be missing.
Route == [primary : DeploymentIds, fallback : DeploymentIds \cup {NoArg}, restricted : BOOLEAN]

DeliveryPolicyDraft == [route : Route, status : {"draft", "ready", "published"}]

DeliveryAttempt == [via : DeploymentIds, status : {"delivered", "dead_letter"}, attempts : Nat]

channelDeployments ==
    [feishu |-> [kind |-> "feishu", status |-> "active", mode |-> "webhook", path |-> TRUE, keys |-> FALSE]]

deliveryPolicy ==
    [route |-> [primary |-> "feishu", fallback |-> NoArg, restricted |-> FALSE], status |-> "draft"]

deliveryAttempts == <<[via |-> "feishu", status |-> "dead_letter", attempts |-> 3]>>

mockChannels == [c1 |-> TRUE, c4 |-> FALSE]

Init ==
    /\ db = [deployments |-> channelDeployments, policy |-> deliveryPolicy, versions |-> <<>>,
             attempts |-> deliveryAttempts, enabled |-> mockChannels, sent |-> 0, templates |-> 0,
             removed |-> {}]
    /\ NetInit

-----------------------------------------------------------------------------
(* What is computed from the tables. *)

Named(route) == {route.primary, route.fallback} \ {NoArg}

\* Of what a kind of deployment may carry: nothing restricted leaves by a webhook.
KindOf(id) == IF id \in DOMAIN db.deployments THEN db.deployments[id].kind ELSE NoArg

validateDeliveryPolicy(route) ==
    /\ route.primary # route.fallback
    /\ \A id \in Named(route) :
          /\ id \in DOMAIN db.deployments
          /\ db.deployments[id].status = "active"
          /\ ~(route.restricted /\ KindOf(id) = "webhook")

InVersions == UNION {Named(db.versions[v]) : v \in DOMAIN db.versions}

\* The badge the list derives: what the policy in force refers to.
policyRefs == IF db.policy.status = "published" THEN Named(db.policy.route) ELSE {}

isWebhookInboundMode(d) == d.mode = "webhook" \/ (d.mode = NoArg /\ d.path)

-----------------------------------------------------------------------------
(* The pages. *)

\* How a kind connects of its own accord; all but Weixin can take callbacks too.
OwnMode(kind) ==
    CASE kind \in {"feishu", "wecom"} -> "websocket"
      [] kind = "dingtalk" -> "stream"
      [] kind = "weixin" -> "long_poll"
      [] OTHER -> NoArg

ModeSent(r) == IF r.seen = 1 THEN "webhook" ELSE OwnMode(r.arg)

\* The name of a new deployment is fresh: it was never that of another.
mockId == {id \in {"other"} : Vacant(id, db.deployments) /\ id \notin db.removed}

\* seen is 1 for the callback mode.
FormModes(kind) == IF kind \in {"feishu", "wecom", "dingtalk"} THEN {0, 1} ELSE {0}

DeploymentCreateModal(u) ==
    UNION {{Req("connect", u, id, kind, m) : id \in mockId, m \in FormModes(kind)} : kind \in Kinds \ {"webhook"}}

\* The drawer opens with the mode of the deployment, and a save sends one.
DeploymentEditDrawer(u) ==
    UNION {{Req("edit", u, id, db.deployments[id].kind, m) : m \in FormModes(db.deployments[id].kind)} :
               id \in DOMAIN db.deployments}

deploymentDeletionAction(id) == id \notin policyRefs

Deployments(u) ==
    {Req("verify", u, id, NoArg, 0) : id \in DOMAIN db.deployments}
    \cup {Req("enable", u, id, NoArg, 0) :
             id \in {x \in DOMAIN db.deployments : db.deployments[x].status = "disabled"}}
    \cup {Req("disable", u, id, NoArg, 0) :
             id \in {x \in DOMAIN db.deployments : db.deployments[x].status = "active"}}
    \cup {Req("delete", u, id, NoArg, 0) : id \in {x \in DOMAIN db.deployments : deploymentDeletionAction(x)}}

PolicyDrawer(u) ==
    {Req("validate", u, "p0", NoArg, 0)}
    \cup When(db.policy.status = "ready", {Req("publish", u, "p0", NoArg, 0)})

\* A queue shows the dead letters.
Failures(u) ==
    {Req("replay", u, "p0", NoArg, a) :
        a \in {x \in DOMAIN db.attempts : db.attempts[x].status = "dead_letter"}}

Templates(u) == {Req("template", u, NoArg, NoArg, 0)}

\* Drafts are written, versions brought back and messages sent by other clients.
ControlClients(u) ==
    {Req("draft", u, "p0", what, 0) : what \in {"other", "feishu", "restricted"}}
    \cup {Req("rollback", u, "p0", NoArg, v) : v \in DOMAIN db.versions}
    \cup {Req("deliver", u, "p0", what, 0) : what \in {"well", "fails"}}
    \cup {Req("connect", u, id, "webhook", 0) : id \in mockId}
    \cup UNION {{Req("toggle", u, c, NoArg, 0), Req("send", u, c, NoArg, 0)} : c \in DOMAIN db.enabled}

Offers(u) ==
    When(isAdministrator(u),
         DeploymentCreateModal(u) \cup DeploymentEditDrawer(u) \cup Deployments(u) \cup PolicyDrawer(u)
         \cup Failures(u) \cup Templates(u) \cup ControlClients(u))

-----------------------------------------------------------------------------
(* Deployments. *)

requireChannel(r) == Admitted(r, "platform")

OnDeployment(r) == requireChannel(r) /\ r.id \in DOMAIN db.deployments

\* A callback address goes with the mode, keys with the address of Feishu.
createDeployment(r) ==
    /\ r.op = "connect"
    /\ Handle(requireChannel(r),
              [db EXCEPT !.deployments =
                  Unshifted(@, r.id, [kind |-> r.arg, status |-> "draft", mode |-> ModeSent(r),
                                      path |-> ModeSent(r) = "webhook",
                                      keys |-> r.arg = "feishu" /\ ModeSent(r) = "webhook"])])

verify(r) ==
    /\ r.op = "verify"
    /\ Handle(OnDeployment(r), [db EXCEPT !.deployments[r.id].status = "active"])

disable(r) ==
    /\ r.op = "disable"
    /\ Handle(OnDeployment(r), [db EXCEPT !.deployments[r.id].status = "disabled"])

\* The status is set, whatever it was.
enable(r) ==
    /\ r.op = "enable"
    /\ Handle(OnDeployment(r), [db EXCEPT !.deployments[r.id].status = "active"])

\* Mutant: leaving the callback mode keeps the address.
editKeepsPath(r) ==
    /\ r.op = "edit"
    /\ LET hook == ModeSent(r) = "webhook"
       IN  Handle(OnDeployment(r),
                  [db EXCEPT !.deployments[r.id].mode = ModeSent(r),
                             !.deployments[r.id].path = @ \/ hook,
                             !.deployments[r.id].keys = r.arg = "feishu" /\ hook])

edit(r) ==
    /\ r.op = "edit"
    /\ LET hook == ModeSent(r) = "webhook"
       IN  Handle(OnDeployment(r),
                  [db EXCEPT !.deployments[r.id].mode = ModeSent(r),
                             !.deployments[r.id].path = hook,
                             !.deployments[r.id].keys = r.arg = "feishu" /\ hook])

\* Only versions hold a deployment, not a policy that waits for its publication.
removeDeployment(r) ==
    /\ r.op = "delete"
    /\ Handle(OnDeployment(r) /\ r.id \notin InVersions,
              [db EXCEPT !.deployments = [id \in DOMAIN @ \ {r.id} |-> @[id]], !.removed = @ \cup {r.id}])

-----------------------------------------------------------------------------
(* The delivery policy. *)

\* Mutant: an edited policy stays as checked as it was.
patchDraftKeepsStatus(r) ==
    /\ r.op = "draft"
    /\ Handle(requireChannel(r),
              [db EXCEPT !.policy.route = IF r.arg = "restricted" THEN [@ EXCEPT !.restricted = TRUE]
                                   ELSE [@ EXCEPT !.fallback = r.arg]])

\* The draft sent is merged in; nothing of it is checked here.
patchDraft(r) ==
    /\ r.op = "draft"
    /\ Handle(requireChannel(r),
              [db EXCEPT !.policy.route = IF r.arg = "restricted" THEN [@ EXCEPT !.restricted = TRUE]
                                   ELSE [@ EXCEPT !.fallback = r.arg],
                         !.policy.status = "draft"])

validatePolicy(r) ==
    /\ r.op = "validate"
    /\ Handle(requireChannel(r),
              [db EXCEPT !.policy.status = IF validateDeliveryPolicy(db.policy.route) THEN "ready" ELSE "draft"])

\* The newest version comes last.
publishPolicy(r) ==
    /\ r.op = "publish"
    /\ Handle(requireChannel(r) /\ db.policy.status = "ready",
              [db EXCEPT !.versions = Append(@, db.policy.route), !.policy.status = "published"])

rollbackPolicy(r) ==
    /\ r.op = "rollback"
    /\ Handle(requireChannel(r) /\ validateDeliveryPolicy(db.versions[r.seen]),
              [db EXCEPT !.versions = Append(@, @[r.seen]),
                         !.policy = [route |-> db.versions[r.seen], status |-> "published"]])

\* Through the primary deployment, whatever became of it.
deliver(r) ==
    /\ r.op = "deliver"
    /\ Handle(requireChannel(r) /\ db.policy.status = "published",
              [db EXCEPT !.attempts =
                  Append(@, [via |-> db.policy.route.primary,
                             status |-> IF r.arg = "fails" THEN "dead_letter" ELSE "delivered",
                             attempts |-> IF r.arg = "fails" THEN 3 ELSE 1])])

\* Mutant: what was delivered in the meantime is delivered again.
replayAgain(r) ==
    /\ r.op = "replay"
    /\ Handle(requireChannel(r),
              [db EXCEPT !.attempts[r.seen].status = "delivered", !.attempts[r.seen].attempts = @ + 1])

replay(r) ==
    /\ r.op = "replay"
    /\ Handle(requireChannel(r) /\ db.attempts[r.seen].status = "dead_letter",
              [db EXCEPT !.attempts[r.seen].status = "delivered", !.attempts[r.seen].attempts = @ + 1])

-----------------------------------------------------------------------------
(* The older page. *)

channelAction(r) ==
    /\ r.op \in {"toggle", "send"}
    /\ Handle(requireChannel(r) /\ (r.op = "send" => db.enabled[r.id]),
              IF r.op = "toggle" THEN [db EXCEPT !.enabled[r.id] = ~@] ELSE [db EXCEPT !.sent = @ + 1])

createTemplate(r) ==
    /\ r.op = "template"
    /\ Handle(requireChannel(r), [db EXCEPT !.templates = @ + 1])

Next ==
    \/ MayAsk /\ \E u \in Actors : \E r \in Offers(u) : Ask(r)
    \/ \E r \in BagToSet(net.out) :
          /\ Arrives(r)
          /\ \/ createDeployment(r) \/ verify(r) \/ disable(r) \/ enable(r) \/ edit(r) \/ removeDeployment(r)
             \/ patchDraft(r) \/ validatePolicy(r) \/ publishPolicy(r) \/ rollbackPolicy(r)
             \/ deliver(r) \/ replay(r) \/ channelAction(r) \/ createTemplate(r)

-----------------------------------------------------------------------------
(* Properties. *)

\* The tables hold what the types of the client say.
TypeOK ==
    /\ \A id \in DOMAIN db.deployments : id \in DeploymentIds /\ db.deployments[id] \in ChannelDeployment
    /\ db.policy \in DeliveryPolicyDraft
    /\ \A v \in DOMAIN db.versions : db.versions[v] \in Route
    /\ \A a \in DOMAIN db.attempts : db.attempts[a] \in DeliveryAttempt
    /\ db.sent \in Nat /\ db.templates \in Nat

\* No published version of a policy was left unchecked: no version repeats a
\* deployment, and none sends restricted data by a webhook.
VersionsChecked ==
    \A v \in DOMAIN db.versions :
        LET route == db.versions[v]
        IN  /\ route.primary # route.fallback
            /\ ~\E id \in Named(route) : route.restricted /\ KindOf(id) = "webhook"

\* The policy in force is the newest of its versions, so a rollback and a
\* delivery mean the same one; and a deployment shows a callback address, and
\* keeps the keys of one, exactly when it is in callback mode.
InForceIsNewest ==
    /\ db.policy.status = "published" => db.versions # <<>> /\ db.policy.route = Last(db.versions)
    /\ \A id \in DOMAIN db.deployments :
          LET d == db.deployments[id]
          IN  /\ isWebhookInboundMode(d) <=> d.path
              /\ d.keys => d.path

\* A dead letter is delivered once more, not twice, however often the button
\* is pressed before the queue is read again.
ReplayedOnce ==
    \A a \in DOMAIN db.attempts :
        LET x == db.attempts[a]
        IN  IF x.status = "dead_letter" THEN x.attempts = 3 ELSE x.attempts \in {1, 4}
=============================================================================
