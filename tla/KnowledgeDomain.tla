--------------------------- MODULE KnowledgeDomain ---------------------------
(***************************************************************************)
(* Documents, the packages that list them, the published versions of a     *)
(* package, and what is bound to a package.  A document names its package  *)
(* and a package its documents: two records of one fact, which uploads,    *)
(* attachments and removals keep in step.  Parsing and reindexing finish   *)
(* on a timer, whatever happened to the documents in the meantime.         *)
(* Audit events and retrieval scores are left out.                         *)
(***************************************************************************)
EXTENDS ConsoleApi

DocStatuses == {"parsing", "indexing", "ready", "published"}
PackageStatuses == {"draft", "review", "published"}
VersionStatuses == PackageStatuses \cup {"deprecated"}

DocIds == {"k1", "k8", "kNew"}
PackageIds == {"runbook", "security", "review", "pNew", "default"}
NoPackage == NoArg

KnowledgeDoc == [status : DocStatuses, packageId : PackageIds \cup {NoPackage}]

\* versions: the status of each version, the current one first.
KnowledgePackage ==
    [status : PackageStatuses, documentIds : SUBSET DocIds, consumers : Nat, versions : Seq(VersionStatuses)]

\* lock: who chose the version, the server (the one in force) or the client.
KnowledgeConsumerBinding == [packageId : PackageIds, version : Nat, lock : {"current", "named"}]

mockKnowledgeDocs ==
    [k1 |-> [status |-> "ready", packageId |-> "runbook"],
     k8 |-> [status |-> "ready", packageId |-> "security"]]

Package(status, documents, consumers) ==
    [status |-> status, documentIds |-> documents, consumers |-> consumers, versions |-> <<status>>]

mockKnowledgePackages ==
    [runbook  |-> Package("published", {"k1"}, 1),
     security |-> Package("published", {"k8"}, 0),
     review   |-> Package("review", {}, 0)]

mockKnowledgeBindings == {[packageId |-> "runbook", version |-> 1, lock |-> "current"]}

\* A binding needs one of these; no route creates them.
mockKnowledgeProfiles == {"runbook"}

Init ==
    /\ db = [docs |-> mockKnowledgeDocs, packages |-> mockKnowledgePackages,
             bindings |-> mockKnowledgeBindings, profiles |-> mockKnowledgeProfiles,
             evaluations |-> [runbook |-> "passed", security |-> "needs_review"],
             jobs |-> [security |-> "failed"], timers |-> {},
             sources |-> [siem |-> "attention"], versionRetention |-> TRUE]
    /\ NetInit

-----------------------------------------------------------------------------
(* The pages: what a role that may write sees. *)

packageReadyToPublish(p) == db.packages[p].documentIds # {}

NewKnowledgePackageModal(u) ==
    When(Vacant("pNew", db.packages), {Req("createPackage", u, "pNew", NoArg, 0)})

\* The assets tab uploads without naming a package; a client may name one.
UploadDocModal(u) ==
    When(Vacant("kNew", db.docs),
         {Req("upload", u, "kNew", p, 0) : p \in {NoPackage} \cup DOMAIN db.packages})

Assets(u) ==
    {Req("deleteDoc", u, d, NoArg, 0) : d \in DOMAIN db.docs} \cup {Req("reindex", u, NoArg, NoArg, 0)}

AttachDocsModal(u, p) ==
    {Req("attach", u, p, d, 0) : d \in DOMAIN db.docs \ db.packages[p].documentIds}

PackageWorkbench(u) ==
    LET filled == {p \in DOMAIN db.packages : packageReadyToPublish(p)}
        unused == {p \in DOMAIN db.packages : db.packages[p].consumers = 0}
        open   == {p \in filled : db.packages[p].status # "published"}
    IN  (UNION {AttachDocsModal(u, p) : p \in DOMAIN db.packages})
        \cup {Req("process", u, p, NoArg, 0) : p \in filled}
        \cup {Req("publish", u, p, NoArg, 0) : p \in open}
        \cup {Req("deletePackage", u, p, NoArg, 0) : p \in unused}

\* The processing tab starts the first package that is not published.
ProcessingWorkbench(u) ==
    {Req("retryJob", u, p, NoArg, 0) : p \in {x \in DOMAIN db.jobs : db.jobs[x] = "failed"}}
    \cup {Req("sync", u, s, NoArg, 0) : s \in DOMAIN db.sources}

ConnectSourceModal(u) ==
    When(Vacant("sNew", db.sources), {Req("connectSource", u, "sNew", NoArg, 0)})

EvaluationSection(u) ==
    {Req("evaluate", u, p, NoArg, 0) : p \in db.profiles \cap DOMAIN db.packages}

GovernanceSection(u) == {Req("retention", u, NoArg, NoArg, 0)}

\* Bindings are made by what consumes a package, not by a page; it may name a
\* version, one there was or one there is not.  A client may ask for any removal.
PackageClients(u) ==
    {Req(op, u, p, NoArg, 0) : op \in {"bind", "deletePackage"}, p \in DOMAIN db.packages}
    \cup UNION {{Req("bind", u, p, "named", v) : v \in 1 .. Len(db.packages[p].versions) + 1} :
                    p \in db.profiles \cap DOMAIN db.packages}

Offers(u) ==
    When(roleCanMutate(u),
         NewKnowledgePackageModal(u) \cup UploadDocModal(u) \cup Assets(u) \cup PackageWorkbench(u)
         \cup ProcessingWorkbench(u) \cup ConnectSourceModal(u) \cup EvaluationSection(u)
         \cup GovernanceSection(u) \cup PackageClients(u))

-----------------------------------------------------------------------------
(* Documents. *)

Writes(r) == Admitted(r, "knowledge")

\* Without a package given, a draft or package under review takes the document;
\* without one of those a default package is made for it.
Takers(r, packages) ==
    LET waiting == {p \in DOMAIN packages : packages[p].status \in {"draft", "review"}}
    IN  IF r.arg # NoPackage THEN {r.arg}
        ELSE IF waiting # {} THEN waiting
        ELSE {"default"}

WithDefault(p) ==
    IF p \in DOMAIN db.packages THEN db.packages ELSE Unshifted(db.packages, p, Package("draft", {}, 0))

uploadDoc(r) ==
    /\ r.op = "upload"
    /\ IF Writes(r) /\ r.arg \in DOMAIN db.packages \cup {NoPackage}
       THEN \E p \in Takers(r, db.packages) :
                db' = [db EXCEPT !.docs = Unshifted(@, r.id, [status |-> "parsing", packageId |-> p]),
                                 !.packages = [WithDefault(p) EXCEPT ![p].documentIds = @ \cup {r.id}],
                                 !.timers = @ \cup {{r.id}}]
       ELSE UNCHANGED db

deleteKnowledgeDocsByIds(r) ==
    /\ r.op = "deleteDoc"
    /\ Handle(Writes(r) /\ r.id \in DOMAIN db.docs,
              [db EXCEPT !.docs = [d \in DOMAIN @ \ {r.id} |-> @[d]],
                         !.packages = [p \in DOMAIN @ |->
                                          [@[p] EXCEPT !.documentIds = db.packages[p].documentIds \ {r.id}]],
                         !.timers = {docs \ {r.id} : docs \in @}])

\* No seeded or uploaded document fails, so all are taken.
reindex(r) ==
    /\ r.op = "reindex"
    /\ Handle(Writes(r),
              [db EXCEPT !.docs = [d \in DOMAIN @ |-> [@[d] EXCEPT !.status = "indexing"]],
                         !.timers = @ \cup {DOMAIN db.docs}])

\* The timer of an upload or of a reindexing ends; what was published is ready again.
Indexed ==
    /\ \E docs \in db.timers :
          db' = [db EXCEPT !.docs = [d \in DOMAIN @ |->
                                        IF d \in docs THEN [@[d] EXCEPT !.status = "ready"] ELSE @[d]],
                           !.timers = @ \ {docs}]
    /\ UNCHANGED net

-----------------------------------------------------------------------------
(* Packages. *)

OnPackage(r) == Writes(r) /\ r.id \in DOMAIN db.packages

createPackage(r) ==
    /\ r.op = "createPackage"
    /\ Handle(Writes(r), [db EXCEPT !.packages = Unshifted(@, r.id, Package("draft", {}, 0))])

\* Mutant: the document is not told of its new package.
attachOneSided(r) ==
    /\ r.op = "attach"
    /\ Handle(OnPackage(r) /\ r.arg \in DOMAIN db.docs,
              [db EXCEPT !.docs[r.arg].packageId = r.id])

\* The package it came from goes on listing the document.
attach(r) ==
    /\ r.op = "attach"
    /\ LET grows == r.arg \notin db.packages[r.id].documentIds
       IN  Handle(OnPackage(r) /\ r.arg \in DOMAIN db.docs,
                  [db EXCEPT !.docs[r.arg].packageId = r.id,
                             !.packages[r.id].documentIds = @ \cup {r.arg},
                             !.packages[r.id].status = IF grows /\ @ = "published" THEN "review" ELSE @])

Members(p) ==
    IF db.packages[p].documentIds # {} THEN db.packages[p].documentIds
    ELSE {d \in DOMAIN db.docs : db.docs[d].packageId = p}

Publishable(p) == {d \in Members(p) : d \in DOMAIN db.docs /\ db.docs[d].status \in {"ready", "published"}}

\* The version replaced is deprecated and the new one put in front.  No route
\* archives or deprecates a package, which is refused too.
publish(r) ==
    /\ r.op = "publish"
    /\ Handle(/\ OnPackage(r)
              /\ Admitted(r, "publish")
              /\ Publishable(r.id) # {}
              /\ r.id \in DOMAIN db.evaluations => db.evaluations[r.id] # "failed",
              [db EXCEPT !.packages[r.id].status = "published",
                         !.packages[r.id].documentIds = Members(r.id),
                         !.packages[r.id].versions = <<"published", "deprecated">> \o Tail(@),
                         !.docs = [d \in DOMAIN @ |-> IF d \in Publishable(r.id)
                                                      THEN [@[d] EXCEPT !.status = "published"]
                                                      ELSE @[d]]])

\* Processing takes a published package out of service; nothing ends the job.
process(r) ==
    /\ r.op = "process"
    /\ Handle(OnPackage(r) /\ db.packages[r.id].documentIds # {},
              [db EXCEPT !.packages[r.id].status = "review", !.jobs = Unshifted(@, r.id, "running")])

\* Mutant: what uses the package is not asked for.
deletePackageInUse(r) ==
    /\ r.op = "deletePackage"
    /\ Handle(OnPackage(r), [db EXCEPT !.packages = [p \in DOMAIN @ \ {r.id} |-> @[p]]])

\* Mutant: the documents go on naming the package.
deletePackageOnly(r) ==
    /\ r.op = "deletePackage"
    /\ Handle(/\ OnPackage(r)
              /\ db.packages[r.id].consumers = 0
              /\ \A b \in db.bindings : b.packageId # r.id,
              [db EXCEPT !.packages = [p \in DOMAIN @ \ {r.id} |-> @[p]]])

deletePackage(r) ==
    /\ r.op = "deletePackage"
    /\ Handle(/\ OnPackage(r)
              /\ db.packages[r.id].consumers = 0
              /\ \A b \in db.bindings : b.packageId # r.id,
              [db EXCEPT !.packages = [p \in DOMAIN @ \ {r.id} |-> @[p]],
                         !.docs = [d \in DOMAIN @ |-> IF @[d].packageId = r.id
                                                      THEN [@[d] EXCEPT !.packageId = NoPackage]
                                                      ELSE @[d]],
                         !.jobs = [p \in DOMAIN @ \ {r.id} |-> @[p]],
                         !.profiles = @ \ {r.id},
                         !.evaluations = [p \in DOMAIN @ \ {r.id} |-> @[p]]])

retryJob(r) ==
    /\ r.op = "retryJob"
    /\ Handle(Writes(r) /\ r.id \in DOMAIN db.jobs, [db EXCEPT !.jobs[r.id] = "running"])

runEvaluation(r) ==
    /\ r.op = "evaluate"
    /\ Handle(OnPackage(r) /\ r.id \in db.profiles,
              [db EXCEPT !.evaluations = Unshifted(@, r.id, "passed")])

\* The version in force is locked, or the one the body names, which nobody looks up.
boundVersion(r) ==
    IF r.arg = "named" THEN [packageId |-> r.id, version |-> r.seen, lock |-> "named"]
    ELSE [packageId |-> r.id, version |-> Len(db.packages[r.id].versions), lock |-> "current"]

bind(r) ==
    /\ r.op = "bind"
    /\ Handle(/\ OnPackage(r)
              /\ r.id \in db.profiles
              /\ db.packages[r.id].status = "published"
              /\ Head(db.packages[r.id].versions) = "published",
              [db EXCEPT !.bindings = @ \cup {boundVersion(r)}, !.packages[r.id].consumers = @ + 1])

-----------------------------------------------------------------------------
(* Sources and the retention policy. *)

createSource(r) ==
    /\ r.op = "connectSource"
    /\ Handle(Writes(r), [db EXCEPT !.sources = Unshifted(@, r.id, "attention")])

syncSource(r) ==
    /\ r.op = "sync"
    /\ Handle(Writes(r) /\ r.id \in DOMAIN db.sources, [db EXCEPT !.sources[r.id] = "healthy"])

patchGovernance(r) ==
    /\ r.op = "retention"
    /\ Handle(Writes(r), [db EXCEPT !.versionRetention = ~@])

Next ==
    \/ MayAsk /\ \E u \in Actors : \E r \in Offers(u) : Ask(r)
    \/ Indexed
    \/ \E r \in BagToSet(net.out) :
          /\ Arrives(r)
          /\ \/ uploadDoc(r) \/ deleteKnowledgeDocsByIds(r) \/ reindex(r)
             \/ createPackage(r) \/ attach(r) \/ publish(r) \/ process(r) \/ deletePackage(r)
             \/ retryJob(r) \/ runEvaluation(r) \/ bind(r)
             \/ createSource(r) \/ syncSource(r) \/ patchGovernance(r)

-----------------------------------------------------------------------------
(* Properties. *)

\* The tables hold what the types of the client say.
TypeOK ==
    /\ DOMAIN db.docs \subseteq DocIds
    /\ \A d \in DOMAIN db.docs : db.docs[d] \in KnowledgeDoc
    /\ DOMAIN db.packages \subseteq PackageIds
    /\ \A p \in DOMAIN db.packages : db.packages[p] \in KnowledgePackage
    /\ db.bindings \subseteq KnowledgeConsumerBinding
    /\ db.timers \subseteq SUBSET DocIds
    /\ \A p \in DOMAIN db.jobs : db.jobs[p] \in {"running", "failed"}
    /\ \A s \in DOMAIN db.sources : db.sources[s] \in {"attention", "healthy"}
    /\ db.versionRetention \in BOOLEAN

\* A document that names a package is on the list of that package, which
\* exists, and no package lists a document that was deleted: the search scope
\* of a package and the badge of a document say the same.
MembershipMirrors ==
    /\ \A d \in DOMAIN db.docs :
          LET p == db.docs[d].packageId
          IN  p # NoPackage => p \in DOMAIN db.packages /\ d \in db.packages[p].documentIds
    /\ \A p \in DOMAIN db.packages : db.packages[p].documentIds \subseteq DOMAIN db.docs

\* What is bound keeps its knowledge: the package of a binding is there, the
\* version the server locked it to went on line, whatever was published since,
\* and no other version than the newest is the one in force.  A version that the
\* client named may be one that never was.
BindingsKept ==
    /\ \A b \in db.bindings :
          /\ b.packageId \in DOMAIN db.packages
          /\ b.lock = "current" =>
                LET versions == db.packages[b.packageId].versions
                IN  versions[Len(versions) + 1 - b.version] \in {"published", "deprecated"}
    /\ \A p \in DOMAIN db.packages :
          \A i \in DOMAIN db.packages[p].versions :
             db.packages[p].versions[i] = "published" => i = 1
=============================================================================
