--------------------------- MODULE CopilotComposer ---------------------------
(***************************************************************************)
(* The composer under a conversation: the draft, the mode, the tools that  *)
(* are switched on, the files and the Enter key.  A change of mode is      *)
(* shown at once and taken back when the server refuses it; a turn whose   *)
(* mode differs from its session's waits for that answer, with everything  *)
(* it read when Enter was pressed.  A draft is what the page finds in it;  *)
(* a tool is one of each kind.  Messages are CopilotChat's.                *)
(***************************************************************************)
EXTENDS ConsoleApi

RunMode == {"ask", "plan", "agent"}
SessionMode == {"investigate", "execute"}
DEFAULT_RUN_MODE == "plan"

SessionIds == {"s1", "s2"}
Files == {"f"}

\* say: a question; make: it asks for a document; @write: it names the tool
\* that writes; /search and /skill: commands that send.
Drafts == {NoArg, "say", "make", "@write", "/search", "/skill"}

-----------------------------------------------------------------------------
(* The tools of an expert. *)

ToolKind == [retrieve |-> "platform", todo |-> "platform", slides |-> "skill", write |-> "runtime", flow |-> "workflow",
             banned |-> "tool"]
Tools == DOMAIN ToolKind

PLATFORM_TOOLS == {t \in Tools : ToolKind[t] = "platform"}

\* What writes asks for an approval, by the table of the runtime's tools.
RUNTIME_TOOL_META == {"write"}

\* The boundary policy of the one expert: what it has and what it may not use.
capabilities == {"slides", "write", "flow", "banned"}
modeOf(t) == IF t = "banned" THEN "prohibited" ELSE "autonomous"

requiresApproval(t) == t \in RUNTIME_TOOL_META \/ modeOf(t) = "approval_required"

unavailable(t) == ToolKind[t] = "workflow"

\* No expert, no tools but the platform's.
buildExpertTools(expert) ==
    {t \in PLATFORM_TOOLS \cup (IF expert THEN capabilities ELSE {}) : modeOf(t) # "prohibited"}

defaultEnabledToolKeys(av) == {t \in av : ~requiresApproval(t) /\ ~unavailable(t)}

defaultAssembledSkillKeys(av) == {t \in defaultEnabledToolKeys(av) : ToolKind[t] = "skill"}

ensureDefaultSkillsEnabled(on, av) ==
    IF on \cap av = {} THEN defaultEnabledToolKeys(av) ELSE (on \cap av) \cup defaultAssembledSkillKeys(av)

approvalToolKeys(av) == {t \in av : ~unavailable(t) /\ requiresApproval(t)}

toolsForExecuteMode(base, av) == base \cup approvalToolKeys(av)

isOfficeDocumentTool(t) == t = "slides"

\* Answering only reads.
ASK_READ_TOOL_RE == {"retrieve"}

\* What a mode sends, of the tools that are on.
mapRunModeToDispatch(run, av, on) ==
    CASE run = "ask" -> [mode |-> "investigate", tools |-> defaultEnabledToolKeys(av) \cap ASK_READ_TOOL_RE]
      [] run = "plan" ->
            LET kept == {t \in on \cap av : ~unavailable(t) /\ (~requiresApproval(t) \/ isOfficeDocumentTool(t))}
            IN  [mode |-> "investigate",
                 tools |-> IF kept = {} THEN defaultEnabledToolKeys(av) ELSE ensureDefaultSkillsEnabled(kept, av)]
      [] OTHER ->
            [mode |-> "execute",
             tools |-> toolsForExecuteMode(
                           IF on = {} THEN defaultEnabledToolKeys(av) ELSE ensureDefaultSkillsEnabled(on, av), av)]

deriveRunMode(s) == IF s.run # NoArg THEN s.run ELSE IF s.mode = "execute" THEN "agent" ELSE DEFAULT_RUN_MODE

-----------------------------------------------------------------------------
(* The text. *)

isWriteExecutionIntent(draft) == draft = "make"

mergeMentionedTools(base, draft, av) == IF draft = "@write" THEN base \cup ({"write"} \cap av) ELSE base

parseSlashCommand(draft) == draft \in {"/search", "/skill"}

\* What a command sends with, besides what is on.
planSlashSend(draft) == IF draft = "/search" THEN {"retrieve"} ELSE {}

-----------------------------------------------------------------------------
(* The models a run can name: the providers' that are not disabled, those  *)
(* of the routing in force first.  A demo alias is no model.               *)

ModelKeys == {"m1", "m2", "demo"}
isDemoCopilotModelKey(key) == key \in {NoArg, "demo"}

buildCopilotModelOptions(enabled, routed) ==
    SetToSeq(enabled \cap routed) \o SetToSeq(enabled \ routed)

defaultCopilotModelKey(options, routed, active) ==
    LET First(S) == IF \E i \in DOMAIN options : options[i] \in S
                    THEN options[Min({i \in DOMAIN options : options[i] \in S})] ELSE NoArg
    IN  IF First(routed \cap active) # NoArg THEN First(routed \cap active)
        ELSE IF First(routed) # NoArg THEN First(routed)
        ELSE IF First(active) # NoArg THEN First(active)
        ELSE IF options # <<>> THEN options[1]
        ELSE NoArg

matchCopilotModelKey(options, bound) == IF bound \in ToSet(options) THEN bound ELSE NoArg

resolveCopilotModelId(options, key) ==
    IF key \in ToSet(options) \/ options = <<>> THEN key ELSE options[1]

\* The choice of the page, then the expert's, then what there is.
resolveSendModelId(key, bound, options) ==
    LET runModelId == resolveCopilotModelId(options, key)
    IN  IF ~isDemoCopilotModelKey(key) /\ ~isDemoCopilotModelKey(runModelId) THEN runModelId
        ELSE IF matchCopilotModelKey(options, bound) # NoArg THEN bound
        ELSE IF bound # NoArg THEN bound
        ELSE IF ~isDemoCopilotModelKey(runModelId) THEN runModelId
        ELSE NoArg

-----------------------------------------------------------------------------
(* The page. *)

Session == [expert : BOOLEAN, mode : SessionMode, run : RunMode \cup {NoArg}, tools : SUBSET Tools,
            open : {"active", "closed", "handoff"}]

\* A chip under the draft; id says which upload filled it.
Chip == [file : Files, state : {"uploading", "ready", "failed"}, id : Nat]

\* A turn as it was composed; command: by a slash command.
Turn == [session : SessionIds, draft : Drafts, run : RunMode, mode : SessionMode, tools : SUBSET Tools,
         files : SUBSET Nat, command : BOOLEAN]

Init ==
    /\ db = [sessions |-> [s1 |-> [expert |-> TRUE, mode |-> "investigate", run |-> NoArg, tools |-> {}, open |-> "active"],
                           s2 |-> [expert |-> FALSE, mode |-> "execute", run |-> "agent", tools |-> {"retrieve"},
                                   open |-> "active"]],
             active |-> "s1", run |-> DEFAULT_RUN_MODE, on |-> defaultEnabledToolKeys(buildExpertTools(TRUE)),
             draft |-> NoArg, chips |-> <<>>, uploads |-> 0, typing |-> FALSE, sent |-> <<>>]
    /\ NetInit

Active(d) == d.sessions[d.active]

availableTools(d) == buildExpertTools(Active(d).expert)

\* A page whose session turned to investigation puts the tools that write away.
Unloaded(new) ==
    IF Active(new).mode = "investigate" /\ Active(db).mode # "investigate"
    THEN [new EXCEPT !.on = {t \in @ : ~(t \in availableTools(new) /\ requiresApproval(t))}] ELSE new

patchSessionLocal(d, s, new) == [d EXCEPT !.sessions[s] = new]

\* What a person does: counted with the requests, and it may send some.
Hand(new, requests) ==
    /\ net.made < MaxRequests
    /\ db' = Unloaded(new)
    /\ net' = [out |-> net.out (+) SetToBag(requests), made |-> net.made + 1]

-----------------------------------------------------------------------------
(* The mode of a session. *)

\* What follows the answer: nothing, the tools that write, or a turn.
Nothing == [kind |-> "nothing"]
UnlockTools == [kind |-> "unlock"]
ThenSend(turn) == [kind |-> "send", turn |-> turn, seen |-> Active(db), on |-> db.on]

Switchable(d) == Active(d).open = "active"

Switched(session, mode, run, unlock) ==
    [session EXCEPT !.mode = mode, !.run = run,
                    !.tools = IF mode = "execute" /\ unlock
                              THEN @ \cup approvalToolKeys(buildExpertTools(session.expert)) ELSE @]

\* Shown at once; before is what a refusal brings back.
Patch(d, next) == [op |-> "patch", id |-> d.active, before |-> Active(d), next |-> next]

setCollaborationMode(d, mode, run, unlock) ==
    patchSessionLocal(d, d.active, Switched(Active(d), mode, run, unlock))

handleRunModeChange(run) ==
    LET to == mapRunModeToDispatch(run, availableTools(db), db.on)
        chosen == [db EXCEPT !.run = run, !.on = to.tools]
    IN  /\ Switchable(db)
        /\ Hand(setCollaborationMode(chosen, to.mode, run, run = "agent"), {Patch(db, Nothing)})

\* The tools become the session's too, when they differ, with the rest of the
\* session as the handler had seen it.
persistRunConfig(d, s, seen, tools) ==
    IF seen.tools = tools THEN d ELSE patchSessionLocal(d, s, [seen EXCEPT !.tools = tools])

-----------------------------------------------------------------------------
(* The draft. *)

onInputChange(draft) ==
    /\ draft # db.draft
    /\ Hand([db EXCEPT !.draft = draft], {})

\* A tool named with @ is switched on.  Naming the one that writes under a plan
\* asks for the execution mode, which saving the tools takes back on the page.
applyMentionToken(t) ==
    LET base == IF db.on = {} THEN defaultEnabledToolKeys(availableTools(db)) ELSE db.on
        named == [db EXCEPT !.draft = IF t = "write" THEN "@write" ELSE "say", !.on = base \cup {t}]
        unlocks == requiresApproval(t) /\ db.run = "plan" /\ Switchable(db)
        asked == IF unlocks THEN setCollaborationMode(named, "execute", "agent", TRUE) ELSE named
    IN  /\ t \in availableTools(db)
        /\ Hand(persistRunConfig(asked, db.active, Active(db), base \cup {t}), IF unlocks THEN {Patch(db, UnlockTools)} ELSE {})

\* The list of tools, for administrators: one that writes is locked but for execution.
toggleTool(t) ==
    LET locked == requiresApproval(t) /\ db.run # "agent"
        next == IF t \in db.on THEN db.on \ {t} ELSE db.on \cup {t}
    IN  /\ t \in availableTools(db) /\ ~unavailable(t)
        /\ locked => db.run = "plan" /\ Switchable(db)
        /\ IF locked
           THEN Hand(setCollaborationMode(db, "execute", "agent", TRUE), {Patch(db, UnlockTools)})
           ELSE Hand(persistRunConfig([db EXCEPT !.on = next], db.active, Active(db), next), {})

selectAllTools ==
    /\ db.on # availableTools(db)
    /\ Hand(persistRunConfig([db EXCEPT !.on = availableTools(db)], db.active, Active(db), availableTools(db)), {})

-----------------------------------------------------------------------------
(* Files. *)

Uploading == {i \in DOMAIN db.chips : db.chips[i].state = "uploading"}

\* A file goes to the conversation that is open.
addAttachments(f) ==
    /\ db.uploads < MaxInFlight
    /\ Hand([db EXCEPT !.chips = Append(@, [file |-> f, state |-> "uploading", id |-> 0]), !.uploads = @ + 1],
            {[op |-> "upload", file |-> f, id |-> db.uploads + 1]})

removeAttachment(i) ==
    /\ i \in DOMAIN db.chips
    /\ Hand([db EXCEPT !.chips = RemoveAt(@, i)], {})

\* The first chip of that name that still waits.
Waiting(f) == {i \in Uploading : db.chips[i].file = f /\ db.chips[i].id = 0}

\* Mutant: the first chip of that name, whether it waits or not.
markUploadByName(r, state) ==
    LET found == {i \in DOMAIN db.chips : db.chips[i].file = r.file}
    IN  IF found = {} THEN db
        ELSE [db EXCEPT !.chips[Min(found)].state = state, !.chips[Min(found)].id = IF state = "ready" THEN r.id ELSE 0]

markUpload(r, state) ==
    IF Waiting(r.file) = {} THEN db
    ELSE [db EXCEPT !.chips[Min(Waiting(r.file))].state = state,
                    !.chips[Min(Waiting(r.file))].id = IF state = "ready" THEN r.id ELSE 0]

uploaded(r) ==
    /\ r.op = "upload"
    /\ \E state \in {"ready", "failed"} : db' = markUpload(r, state)

-----------------------------------------------------------------------------
(* Enter. *)

Sendable == db.draft # NoArg /\ ~db.typing /\ Switchable(db)

\* Mutant: under a plan the tools that were named go with it.
toolsOfPlan(tools, av, run) ==
    CASE run = "agent" -> toolsForExecuteMode(tools, av)
      [] OTHER -> tools

\* Asking takes no named tool along, a plan none that writes.
toolsOf(tools, av, run) ==
    CASE run = "ask" -> mapRunModeToDispatch("ask", av, {}).tools
      [] run = "plan" -> {t \in tools \cap av : ~requiresApproval(t)}
      [] OTHER -> toolsForExecuteMode(tools, av)

\* A question that would write is refused in the asking mode.
AskRefuses(tools) ==
    db.run = "ask" /\ (isWriteExecutionIntent(db.draft) \/ \E t \in tools : requiresApproval(t))

\* The turn goes out with what was read at Enter: the session of then is
\* written back with the tools of the turn before the turn's mode is.
dispatchSend(d, next) ==
    LET turn == next.turn
        kept == persistRunConfig(d, turn.session, next.seen, turn.tools)
        was == kept.sessions[turn.session]
        now == IF turn.command THEN [was EXCEPT !.tools = turn.tools]
               ELSE [was EXCEPT !.tools = turn.tools, !.mode = turn.mode, !.run = turn.run]
    IN  [patchSessionLocal(kept, turn.session, now) EXCEPT
            !.on = IF turn.tools = next.on \/ turn.draft = "/skill" THEN @ ELSE turn.tools,
            !.sent = Append(@, turn), !.draft = NoArg, !.chips = IF turn.command THEN @ ELSE <<>>, !.typing = TRUE]

handleSend ==
    LET av == availableTools(db)
        to == mapRunModeToDispatch(db.run, av, db.on)
        merged == mergeMentionedTools(to.tools, db.draft, av)
        turn == [session |-> db.active, draft |-> db.draft, run |-> db.run, mode |-> to.mode,
                 tools |-> toolsOf(merged, av, db.run), files |-> {db.chips[i].id : i \in DOMAIN db.chips},
                 command |-> FALSE]
        switches == to.mode # Active(db).mode \/ Active(db).run # db.run
    IN  /\ Sendable /\ ~parseSlashCommand(db.draft) /\ ~AskRefuses(merged)
        /\ \A i \in DOMAIN db.chips : db.chips[i].state = "ready"
        /\ IF switches
           THEN Hand(setCollaborationMode(db, to.mode, db.run, TRUE), {Patch(db, ThenSend(turn))})
           ELSE Hand(dispatchSend(db, ThenSend(turn)), {[op |-> "reply", id |-> db.active]})

\* A command sends with the tools that are on, whatever the mode.
applySlashAction ==
    LET base == IF db.on = {} THEN defaultEnabledToolKeys(availableTools(db)) ELSE db.on
        turn == [session |-> db.active, draft |-> db.draft, run |-> deriveRunMode(Active(db)), mode |-> Active(db).mode,
                 tools |-> base \cup planSlashSend(db.draft), files |-> {}, command |-> TRUE]
    IN  /\ Sendable /\ parseSlashCommand(db.draft)
        /\ Hand(dispatchSend(db, ThenSend(turn)), {[op |-> "reply", id |-> db.active]})

-----------------------------------------------------------------------------
(* Answers. *)

patched(r) ==
    /\ r.op = "patch"
    /\ db' = Unloaded(CASE r.next.kind = "send" -> dispatchSend(db, r.next)
                        [] r.next.kind = "unlock" -> [db EXCEPT !.on = toolsForExecuteMode(@, availableTools(db))]
                        [] OTHER -> db)

\* The mode, the tools and nothing else go back; what should follow does not.
patchFailed(r) ==
    /\ r.op = "patch"
    /\ db' = Unloaded(patchSessionLocal(db, r.id,
                  [db.sessions[r.id] EXCEPT !.mode = r.before.mode, !.run = r.before.run, !.tools = r.before.tools]))

replied(r) == r.op = "reply" /\ db' = [db EXCEPT !.typing = FALSE]

-----------------------------------------------------------------------------
(* The rest of the page. *)

\* The composer takes the mode and the tools of the session; chips and draft stay.
switchSession(s) ==
    LET there == [db EXCEPT !.active = s, !.run = deriveRunMode(db.sessions[s]),
                            !.on = ensureDefaultSkillsEnabled(db.sessions[s].tools,
                                                              buildExpertTools(db.sessions[s].expert))]
    IN  /\ s # db.active
        /\ Hand(there, {})

closeout == Active(db).open # "closed" /\ Hand(patchSessionLocal(db, db.active, [Active(db) EXCEPT !.open = "closed"]), {})

handoff ==
    /\ Active(db).open = "active"
    /\ Hand(patchSessionLocal(db, db.active, [Active(db) EXCEPT !.open = "handoff", !.mode = "investigate"]), {})

Next ==
    \/ \E run \in RunMode : handleRunModeChange(run)
    \/ \E draft \in Drafts \ {"@write"} : onInputChange(draft)
    \/ \E t \in Tools : applyMentionToken(t) \/ toggleTool(t)
    \/ selectAllTools
    \/ \E f \in Files : addAttachments(f)
    \/ \E i \in 1..MaxInFlight : removeAttachment(i)
    \/ handleSend \/ applySlashAction
    \/ \E s \in SessionIds : switchSession(s)
    \/ closeout \/ handoff
    \/ \E r \in BagToSet(net.out) : Arrives(r) /\ (uploaded(r) \/ patched(r) \/ patchFailed(r) \/ replied(r))

-----------------------------------------------------------------------------
(* Properties. *)

\* Sessions, chips and turns have the shapes of the page.
TypeOK ==
    /\ db.sessions \in [SessionIds -> Session]
    /\ db.run \in RunMode /\ db.on \subseteq Tools /\ db.draft \in Drafts
    /\ \A i \in DOMAIN db.chips : db.chips[i] \in Chip
    /\ \A i \in DOMAIN db.sent : db.sent[i] \in Turn

\* A tool that asks for an approval leaves with a composed turn only under the
\* execution mode, however the mode, the tools and the draft were arrived at.
WritesOnlyInExecute ==
    \A i \in DOMAIN db.sent :
        LET turn == db.sent[i]
        IN  ~turn.command => /\ (\E t \in turn.tools : requiresApproval(t)) => turn.mode = "execute" /\ turn.run = "agent"
                             /\ isWriteExecutionIntent(turn.draft) => turn.run # "ask"

\* Every chip that waits has an upload that will fill it, or Send would be
\* refused for ever; and no two chips are filled by one upload.
UploadsUnderWay ==
    /\ Cardinality(Uploading) <= BagCardinality(
           [r \in {x \in BagToSet(net.out) : x.op = "upload"} |-> net.out[r]])
    /\ \A i, j \in DOMAIN db.chips : i # j /\ db.chips[i].id # 0 => db.chips[i].id # db.chips[j].id

\* As long as a real model is offered, the one that is sent is offered, and no
\* demo alias is, whatever the page had chosen before, unless the expert names
\* a model nobody offers.
NeverDemo ==
    \A enabled \in SUBSET {"m1", "m2"}, routed \in SUBSET {"m1"}, active \in SUBSET {"m1", "m2"},
       key \in ModelKeys \cup {NoArg}, bound \in {NoArg, "m1", "m2"} :
        LET options == buildCopilotModelOptions(enabled, routed)
            chosen == resolveSendModelId(key, bound, options)
        IN  enabled # {} => /\ chosen # "demo" /\ defaultCopilotModelKey(options, routed, active) \in enabled
                            /\ bound \in enabled \cup {NoArg} => chosen \in enabled
=============================================================================
