------------------------- MODULE OrchestrationDomain -------------------------
(***************************************************************************)
(* Assisted orchestration: a session collects documents and messages, its  *)
(* candidates are generated and adjusted, one of them is applied as a new  *)
(* draft version; a one-shot generation is the same without a session.     *)
(* The page guards only the buttons, each request stands for the session   *)
(* its page had adopted.                                                   *)
(***************************************************************************)
EXTENDS ConsoleApi

\* A candidate: its number, and the kind of node a person may take away or not.
OrchestrationCandidate == [version : Nat, trimmed : BOOLEAN]

SessionStatus == {"drafting", "ready", "applied", "discarded"}

OrchestrationSession ==
    [owner : Users, status : SessionStatus, goal : BOOLEAN, documents : 0..3,
     said : Nat, active : Nat, rev : Nat, template : {NoArg, "pending_approval"}]

WorkflowGenerationRecord == [status : {"review_required", "applied", "discarded"}, rev : Nat]

\* candidates are kept newest last: the first of the code is the last here.
emptySession(u) ==
    [owner |-> u, status |-> "drafting", goal |-> TRUE, documents |-> 0, said |-> 0,
     candidates |-> <<>>, active |-> 0, rev |-> 0, template |-> NoArg]

\* One session without a goal and with all the documents it may have, one that
\* was generated, and one generation to look at.
Init ==
    /\ db = [sessions |-> [sNew |-> [emptySession("u2") EXCEPT !.goal = FALSE, !.documents = 2],
                           sReady |-> [emptySession("u2") EXCEPT !.status = "ready", !.active = 1,
                                          !.candidates = <<[version |-> 1, trimmed |-> FALSE]>>]],
             generations |-> [gen |-> [status |-> "review_required", rev |-> 0]],
             versions |-> <<>>,      \* the drafts made, each by its session or generation
             templateCandidates |-> <<>>,
             deposited |-> {},       \* the sessions whose document is in the knowledge centre
             knowledge |-> "ready",  \* a document of the knowledge centre to refer to
             log |-> <<>>]
    /\ NetInit

-----------------------------------------------------------------------------
(* The page of a session. *)

activeCandidate(s) == s.active

onUploadMarkdown(u, id) == {Req("document", u, id, "upload", 0)}
onAttachKnowledge(u, id) == When(db.knowledge = "ready", {Req("document", u, id, "knowledge", 0)})

\* syncGoal goes before every message and every generation.
syncGoal(u, id) == When(~db.sessions[id].goal, {Req("patch", u, id, "goal", 0)})
onSend(u, id) == {Req("message", u, id, NoArg, 0)}
onGenerate(u, id) == {Req("generate", u, id, NoArg, 0)}
onRetrieve(u, id) == {Req("retrieve", u, id, NoArg, 0)}
onDeposit(u, id) == When(db.sessions[id].documents > 0, {Req("deposit", u, id, NoArg, 0)})

onActivateCandidate(u, id) ==
    {Req("activate", u, id, NoArg, c) :
        c \in {x \in DOMAIN db.sessions[id].candidates : x # activeCandidate(db.sessions[id])}}

onPatchCandidate(u, id) ==
    {Req("adjust", u, id, NoArg, c) : c \in {activeCandidate(db.sessions[id])} \ {0}}

onProposeTemplate(u, id) ==
    {Req("propose", u, id, NoArg, 0) :
        c \in {x \in {activeCandidate(db.sessions[id])} \ {0} : db.sessions[id].template = NoArg}}

onApply(u, id) ==
    {Req("apply", u, id, NoArg, c) :
        c \in {x \in {activeCandidate(db.sessions[id])} \ {0} : db.sessions[id].status # "applied"}}

onDiscard(u, id) == {Req("discard", u, id, NoArg, 0)}

WorkflowOrchestrationSessionPage(u, id) ==
    onUploadMarkdown(u, id) \cup onAttachKnowledge(u, id) \cup syncGoal(u, id) \cup onSend(u, id)
    \cup onGenerate(u, id) \cup onRetrieve(u, id) \cup onDeposit(u, id) \cup onActivateCandidate(u, id)
    \cup onPatchCandidate(u, id) \cup onProposeTemplate(u, id) \cup onApply(u, id) \cup onDiscard(u, id)

\* Opening the page without a session creates one, once.
bootstrapSession(u) == 
    When(Vacant("sFresh", db.sessions), {Req("create", u, "sFresh", NoArg, 0)})

WorkflowAIGeneratorDrawer(u) ==
    {Req(op, u, "gen", NoArg, 0) :
        op \in {x \in {"applyGeneration", "discardGeneration"} : db.generations["gen"].status = "review_required"}}

Offers(u) ==
    bootstrapSession(u)
    \cup (IF u = "u1" THEN WorkflowAIGeneratorDrawer(u) ELSE {})   \* a generation belongs to the first account
    \cup UNION {WorkflowOrchestrationSessionPage(u, id) : id \in {x \in DOMAIN db.sessions : db.sessions[x].owner = u}}

-----------------------------------------------------------------------------
(* The routes. *)

orchestrationSessionPath(r) ==
    Admitted(r, "plain") /\ r.id \in DOMAIN db.sessions /\ db.sessions[r.id].owner = r.by

Session(r, s) == Logged([db EXCEPT !.sessions[r.id] = s], r)

createSession(r) ==
    /\ r.op = "create"
    /\ Handle(Admitted(r, "plain"), Logged([db EXCEPT !.sessions = Unshifted(@, r.id, emptySession(r.by))], r))

patchSession(r) ==
    /\ r.op = "patch"
    /\ Handle(orchestrationSessionPath(r), Session(r, [db.sessions[r.id] EXCEPT !.goal = TRUE]))

\* Mutant: the limit is the page's to keep.
attachAny(r) ==
    /\ r.op = "document"
    /\ Handle(orchestrationSessionPath(r),
              Session(r, [db.sessions[r.id] EXCEPT !.documents = @ + 1, !.said = @ + 1]))

attach(r) ==
    /\ r.op = "document"
    /\ Handle(/\ orchestrationSessionPath(r) /\ db.sessions[r.id].documents < 3
              /\ r.arg = "knowledge" => db.knowledge = "ready",
              Session(r, [db.sessions[r.id] EXCEPT !.documents = @ + 1, !.said = @ + 1]))

\* The first thing said becomes the goal.
message(r) ==
    /\ r.op = "message"
    /\ Handle(orchestrationSessionPath(r), Session(r, [db.sessions[r.id] EXCEPT !.goal = TRUE, !.said = @ + 2]))

invokeOrchestrationModel(s) == [s EXCEPT !.said = @ + 1]

buildOrchestrationCandidate(s) == [version |-> Len(s.candidates) + 1, trimmed |-> FALSE]

\* A session that was applied or discarded opens again when it generates.
generate(r) ==
    /\ r.op = "generate"
    /\ LET s == db.sessions[r.id]
       IN  Handle(orchestrationSessionPath(r) /\ (s.goal \/ s.documents > 0 \/ s.said > 0),
                  Session(r, [invokeOrchestrationModel(s) EXCEPT
                                 !.candidates = Append(@, buildOrchestrationCandidate(s)),
                                 !.active = Len(s.candidates) + 1, !.status = "ready"]))

\* Mutant: a session may be applied twice.
applyAgain(r) ==
    /\ r.op = "apply"
    /\ Handle(orchestrationSessionPath(r) /\ r.seen \in DOMAIN db.sessions[r.id].candidates,
              Logged([db EXCEPT !.versions = Append(@, [from |-> r.id, candidate |-> r.seen]),
                                !.sessions[r.id] = [@ EXCEPT !.status = "applied", !.rev = Len(db.versions) + 1]], r))

apply(r) ==
    /\ r.op = "apply"
    /\ LET s == db.sessions[r.id]
       IN  Handle(/\ orchestrationSessionPath(r) /\ s.status \notin {"applied", "discarded"}
                  /\ r.seen \in DOMAIN s.candidates,
                  Logged([db EXCEPT !.versions = Append(@, [from |-> r.id, candidate |-> r.seen]),
                                    !.sessions[r.id] = [s EXCEPT !.status = "applied",
                                                                 !.rev = Len(db.versions) + 1]], r))

\* Nothing is looked at: a session that was applied becomes a discarded one.
discard(r) ==
    /\ r.op = "discard"
    /\ Handle(orchestrationSessionPath(r), Session(r, [db.sessions[r.id] EXCEPT !.status = "discarded"]))

activateCandidate(r) ==
    /\ r.op = "activate"
    /\ Handle(orchestrationSessionPath(r) /\ r.seen \in DOMAIN db.sessions[r.id].candidates,
              Session(r, [db.sessions[r.id] EXCEPT !.active = r.seen]))

\* The copy takes the number after the newest, and is shown.
patchOrchestrationCandidate(s, c) ==
    [s EXCEPT !.candidates = Append(@, [version |-> @[Len(@)].version + 1, trimmed |-> TRUE]),
              !.active = Len(s.candidates) + 1, !.said = @ + 1]

adjust(r) ==
    /\ r.op = "adjust"
    /\ LET s == db.sessions[r.id]
       IN  Handle(orchestrationSessionPath(r) /\ r.seen \in DOMAIN s.candidates,
                  Session(r, patchOrchestrationCandidate(s, r.seen)))

retrieveRunbook(r) ==
    /\ r.op = "retrieve"
    /\ Handle(orchestrationSessionPath(r), Session(r, invokeOrchestrationModel(db.sessions[r.id])))

\* Mutant: a proposal that waits does not keep the next one out.
proposeAnyTemplate(r) ==
    /\ r.op = "propose"
    /\ LET s == db.sessions[r.id]
       IN  Handle(orchestrationSessionPath(r) /\ s.candidates # <<>>,
                  Logged([db EXCEPT !.templateCandidates = Append(@, r.id),
                                    !.sessions[r.id] = [s EXCEPT !.template = "pending_approval", !.said = @ + 1]], r))

proposeTemplate(r) ==
    /\ r.op = "propose"
    /\ LET s == db.sessions[r.id]
       IN  Handle(orchestrationSessionPath(r) /\ s.candidates # <<>> /\ s.template # "pending_approval",
                  Logged([db EXCEPT !.templateCandidates = Append(@, r.id),
                                    !.sessions[r.id] = [s EXCEPT !.template = "pending_approval", !.said = @ + 1]], r))

\* A document goes to the knowledge centre once; it is ready there a second later.
depositKnowledge(r) ==
    /\ r.op = "deposit"
    /\ Handle(orchestrationSessionPath(r) /\ db.sessions[r.id].documents > 0 /\ r.id \notin db.deposited,
              Logged([db EXCEPT !.deposited = @ \cup {r.id}, !.sessions[r.id].said = @ + 1], r))

generationAction(r) ==
    /\ r.op \in {"applyGeneration", "discardGeneration"}
    /\ LET g == db.generations[r.id]
       IN  Handle(Admitted(r, "plain") /\ (r.op = "applyGeneration" => g.status = "review_required"),
                  IF r.op = "discardGeneration"
                  THEN Logged([db EXCEPT !.generations[r.id].status = "discarded"], r)
                  ELSE Logged([db EXCEPT !.versions = Append(@, [from |-> r.id, candidate |-> 1]),
                                         !.generations[r.id] = [status |-> "applied", rev |-> Len(db.versions) + 1]], r))

Next ==
    \/ MayAsk /\ \E u \in Actors : \E r \in Offers(u) : Ask(r)
    \/ \E r \in BagToSet(net.out) :
          /\ Arrives(r)
          /\ \/ createSession(r) \/ patchSession(r) \/ attach(r) \/ message(r) \/ generate(r) \/ apply(r)
             \/ discard(r) \/ activateCandidate(r) \/ adjust(r) \/ retrieveRunbook(r) \/ proposeTemplate(r)
             \/ depositKnowledge(r) \/ generationAction(r)

-----------------------------------------------------------------------------
TypeOK ==
    /\ \A id \in DOMAIN db.sessions :
          LET s == db.sessions[id]
          IN  /\ [f \in DOMAIN s \ {"candidates"} |-> s[f]] \in OrchestrationSession
              /\ \A c \in DOMAIN s.candidates : s.candidates[c] \in OrchestrationCandidate
    /\ \A id \in DOMAIN db.generations : db.generations[id] \in WorkflowGenerationRecord

\* Between two generations of a session at most one of its candidates became a
\* version, however many apply requests were under way.
AppliedOncePerGeneration ==
    \A i, j \in DOMAIN db.log :
        /\ i < j /\ db.log[i].id = db.log[j].id
        /\ db.log[i].op \in {"apply", "applyGeneration"} /\ db.log[j].op = db.log[i].op
        => \E k \in i..j : db.log[k].op = "generate" /\ db.log[k].id = db.log[j].id

\* What a session points at is there: its candidate, numbered in order; the
\* version it was applied as; the proposal that waits, the only one.
SessionPointsRight ==
    \A id \in DOMAIN db.sessions :
        LET s == db.sessions[id]
        IN  /\ s.active \in DOMAIN s.candidates \cup {0}
            /\ \A c \in DOMAIN s.candidates : s.candidates[c].version = c
            /\ s.status = "applied" => s.rev \in DOMAIN db.versions
            /\ s.rev # 0 => db.versions[s.rev].from = id
            /\ Len(SelectSeq(db.templateCandidates, LAMBDA x : x = id)) = IF s.template = NoArg THEN 0 ELSE 1
=============================================================================
