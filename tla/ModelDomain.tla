----------------------------- MODULE ModelDomain -----------------------------
(***************************************************************************)
(* The model control plane: providers with one model each, and routing     *)
(* policies that name them.  Only administrators reach its routes.  A      *)
(* policy is checked when it is validated and when a version of it is      *)
(* brought back; publishing looks at the status alone, so what becomes of  *)
(* a provider in between does not stop it.  A provider that published      *)
(* policies use cannot be deleted, but it can be disabled.                 *)
(***************************************************************************)
EXTENDS ConsoleApi

ProviderStatuses == {"standby", "active", "disabled"}
Residencies == {"cn", "global"}
RoutingStatuses == {"draft", "ready", "published"}
ProviderIds == {"p1", "p5", "pNew"}

ModelProvider == [status : ProviderStatuses, available : BOOLEAN, residency : Residencies]

\* What a policy routes; a model goes by the name of its provider.
Routing ==
    [primary : ProviderIds, fallback : ProviderIds \cup {NoArg}, restricted : BOOLEAN, egress : BOOLEAN]

RoutingPolicyDraft == [routing : Routing, status : RoutingStatuses]

modelProviders ==
    [p1 |-> [status |-> "active", available |-> TRUE, residency |-> "global"],
     p5 |-> [status |-> "active", available |-> TRUE, residency |-> "cn"]]

routingPolicies ==
    [r0 |-> [routing |-> [primary |-> "p1", fallback |-> "p5", restricted |-> FALSE, egress |-> TRUE],
             status |-> "published"],
     r2 |-> [routing |-> [primary |-> "p5", fallback |-> NoArg, restricted |-> TRUE, egress |-> FALSE],
             status |-> "published"]]

routingVersions == [id \in DOMAIN routingPolicies |-> <<routingPolicies[id].routing>>]

Init ==
    /\ db = [providers |-> modelProviders, policies |-> routingPolicies, versions |-> routingVersions,
             drills |-> {}, log |-> <<>>]
    /\ NetInit

-----------------------------------------------------------------------------
(* What is computed from the tables. *)

Selected(routing) == {routing.primary, routing.fallback} \ {NoArg}

Available(p) == p \in DOMAIN db.providers /\ db.providers[p].available

\* What no later change of a provider can spoil.
WellFormed(routing) ==
    /\ routing.primary # routing.fallback
    /\ ~(routing.restricted /\ routing.egress)

validateRoutingPolicy(routing) ==
    /\ WellFormed(routing)
    /\ \A p \in Selected(routing) : Available(p)
    /\ routing.restricted => \A p \in Selected(routing) : db.providers[p].residency = "cn"

Published == {id \in DOMAIN db.policies : db.policies[id].status = "published"}

providerImpact(p) == {id \in Published : p \in Selected(db.policies[id].routing)}

governanceDrillEligibility == {id \in Published : db.policies[id].routing.fallback # NoArg}

-----------------------------------------------------------------------------
(* The pages. *)

\* The list: a provider that published policies refer to has no delete button.
AccessWorkspace(u) ==
    {Req("delete", u, p, NoArg, 0) : p \in {x \in DOMAIN db.providers : providerImpact(x) = {}}}

ProviderForm(u) == When(Vacant("pNew", db.providers), {Req("connect", u, "pNew", NoArg, 0)})

\* The drawer: verify, stop new traffic, move to another region, change the key.
ProviderDetail(u) ==
    {Req(op, u, p, NoArg, 0) : op \in {"test", "rotate"}, p \in DOMAIN db.providers}
    \cup {Req("disable", u, p, NoArg, 0) :
             p \in {x \in DOMAIN db.providers : db.providers[x].status # "disabled"}}
    \cup {Req("move", u, p, region, 0) : p \in {"p5"}, region \in {"global"}}

CreatePolicyForm(u) ==
    When(Vacant("r3", db.policies),
         {Req("draft", u, "r3", p, 0) : p \in {x \in {"p1", "pNew"} : Available(x)}})

\* The draft tab: another fallback or primary model, or a wider reach.
FallbackChainEditor(u, id) ==
    {Req("fallback", u, id, p, 0) :
        p \in {x \in ProviderIds : Available(x) /\ x # db.policies[id].routing.primary}}

PolicyDetail(u, id) ==
    LET policy == db.policies[id]
    IN  FallbackChainEditor(u, id)
        \cup When(~policy.routing.restricted, {Req("egress", u, id, NoArg, 0)})
        \cup {Req("validate", u, id, NoArg, 0)}
        \cup When(policy.status = "ready", {Req("publish", u, id, NoArg, 0)})
        \cup When(policy.status = "published", {Req("unpublish", u, id, NoArg, 0)})
        \cup {Req("rollback", u, id, NoArg, v) : v \in DOMAIN db.versions[id]}

FailoverDrillForm(u) == {Req("drill", u, id, "sandbox", 0) : id \in governanceDrillEligibility}

\* A client of the interface may send a whole draft.
PolicyClients(u, id) == {Req("restrict", u, id, NoArg, 0)}

Offers(u) ==
    When(isAdministrator(u),
         AccessWorkspace(u) \cup ProviderForm(u) \cup ProviderDetail(u) \cup CreatePolicyForm(u)
         \cup FailoverDrillForm(u)
         \cup UNION {PolicyDetail(u, id) \cup PolicyClients(u, id) : id \in DOMAIN db.policies})

-----------------------------------------------------------------------------
(* The routes. *)

\* A route of the control plane on a row that is still there.
Reaches(r, table) == Admitted(r, "platform") /\ r.id \in DOMAIN table

createProvider(r) ==
    /\ r.op = "connect"
    /\ Handle(Admitted(r, "platform"),
              Logged([db EXCEPT !.providers =
                         Unshifted(@, r.id, [status |-> "standby", available |-> TRUE, residency |-> "cn"])], r))

\* A disabled provider answers as healthy and stays disabled.
testProvider(r) ==
    /\ r.op = "test"
    /\ Handle(Reaches(r, db.providers),
              Logged(IF db.providers[r.id].status = "disabled" THEN db
                     ELSE [db EXCEPT !.providers[r.id].status = "active",
                                     !.providers[r.id].available = TRUE], r))

\* Another key puts an active provider on standby; its model stays available.
updateProvider(r) ==
    /\ r.op \in {"move", "rotate"}
    /\ Handle(Reaches(r, db.providers),
              Logged(IF r.op = "move" THEN [db EXCEPT !.providers[r.id].residency = r.arg]
                     ELSE [db EXCEPT !.providers[r.id].status = IF @ = "active" THEN "standby" ELSE @], r))

disableProvider(r) ==
    /\ r.op = "disable"
    /\ Handle(Reaches(r, db.providers),
              Logged([db EXCEPT !.providers[r.id].status = "disabled",
                                !.providers[r.id].available = FALSE], r))

\* A refusal is written to the audit log before the handler throws.
Refused(r) == Logged(db, [r EXCEPT !.op = "refused"])

removeProvider(r) ==
    /\ r.op = "delete"
    /\ Handle(Reaches(r, db.providers),
              IF providerImpact(r.id) # {} THEN Refused(r)
              ELSE Logged([db EXCEPT !.providers = Restrict(@, DOMAIN @ \ {r.id})], r))

createPolicy(r) ==
    /\ r.op = "draft"
    /\ LET routing == [primary |-> r.arg, fallback |-> NoArg, restricted |-> FALSE, egress |-> FALSE]
       IN  Handle(Admitted(r, "platform"),
                  Logged([db EXCEPT !.policies = Unshifted(@, r.id, [routing |-> routing, status |-> "draft"]),
                                    !.versions = Unshifted(@, r.id, <<>>)], r))

Redrawn(routing, r) ==
    CASE r.op = "fallback" -> [routing EXCEPT !.fallback = r.arg]
      [] r.op = "egress" -> [routing EXCEPT !.egress = ~@]
      [] r.op = "restrict" -> [routing EXCEPT !.restricted = TRUE]

\* Mutant: an edit leaves the verdict of the last validation in place.
updatePolicyOnly(r) ==
    /\ r.op \in {"fallback", "egress", "restrict"}
    /\ Handle(Reaches(r, db.policies), Logged([db EXCEPT !.policies[r.id].routing = Redrawn(@, r)], r))

\* Whatever the policy was, it is a draft now: an edit takes a published one off line.
updatePolicy(r) ==
    /\ r.op \in {"fallback", "egress", "restrict"}
    /\ Handle(Reaches(r, db.policies),
              Logged([db EXCEPT !.policies[r.id].routing = Redrawn(@, r), !.policies[r.id].status = "draft"], r))

\* Validating a published policy takes it off line too.
validatePolicy(r) ==
    /\ r.op = "validate"
    /\ Handle(Reaches(r, db.policies),
              Logged([db EXCEPT !.policies[r.id].status =
                         IF validateRoutingPolicy(db.policies[r.id].routing) THEN "ready" ELSE "draft"], r))

publishPolicy(r) ==
    /\ r.op = "publish"
    /\ Handle(Reaches(r, db.policies),
              IF db.policies[r.id].status # "ready" THEN Refused(r)
              ELSE Logged([db EXCEPT !.versions[r.id] = Append(@, db.policies[r.id].routing),
                                     !.policies[r.id].status = "published"], r))

unpublishPolicy(r) ==
    /\ r.op = "unpublish"
    /\ Handle(Reaches(r, db.policies),
              IF db.policies[r.id].status # "published" THEN Refused(r)
              ELSE Logged([db EXCEPT !.policies[r.id].status = "draft"], r))

\* The old version has to pass today's check, and comes back as a new version.
rollbackPolicy(r) ==
    /\ r.op = "rollback"
    /\ LET target == db.versions[r.id][r.seen]
       IN  Handle(Reaches(r, db.policies),
                  IF ~validateRoutingPolicy(target) THEN Refused(r)
                  ELSE Logged([db EXCEPT !.versions[r.id] = Append(@, target),
                                         !.policies[r.id] = [routing |-> target, status |-> "published"]], r))

\* A drill fails over in the sandbox; it leaves only its evidence.
failoverDrill(r) ==
    /\ r.op = "drill"
    /\ LET policy == db.policies[r.id]
       IN  Handle(Reaches(r, db.policies),
                  IF policy.status # "published" \/ ~validateRoutingPolicy(policy.routing) THEN Refused(r)
                  ELSE IF policy.routing.fallback = NoArg THEN db
                  ELSE Logged([db EXCEPT !.drills = @ \cup {policy.routing}], r))

Next ==
    \/ MayAsk /\ \E u \in Actors : \E r \in Offers(u) : Ask(r)
    \/ \E r \in BagToSet(net.out) :
          /\ Arrives(r)
          /\ \/ createProvider(r) \/ testProvider(r) \/ updateProvider(r) \/ disableProvider(r)
             \/ removeProvider(r) \/ createPolicy(r) \/ updatePolicy(r) \/ validatePolicy(r)
             \/ publishPolicy(r) \/ unpublishPolicy(r) \/ rollbackPolicy(r) \/ failoverDrill(r)

-----------------------------------------------------------------------------
TypeOK ==
    /\ DOMAIN db.providers \subseteq ProviderIds
    /\ \A p \in DOMAIN db.providers : db.providers[p] \in ModelProvider
    /\ \A id \in DOMAIN db.policies : db.policies[id] \in RoutingPolicyDraft

\* Whatever was edited in between, a version that went on line was well formed
\* when it was checked: restricted data never leaves, no model backs itself up.
VersionsChecked == \A id \in DOMAIN db.versions : \A i \in DOMAIN db.versions[id] : WellFormed(db.versions[id][i])

\* What a published policy routes is what its newest version recorded.
PublishedIsNewest ==
    \A id \in Published : db.versions[id] # <<>> /\ Last(db.versions[id]) = db.policies[id].routing
=============================================================================
