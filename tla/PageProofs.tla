----------------------------- MODULE PageProofs -----------------------------
(***************************************************************************)
(* The pages that have no table of their own and the delivery tools of two *)
(* skills: what a page shows or sends, and what a command reports, against *)
(* what was decided, entered or written meanwhile by somebody else.  Each  *)
(* section instantiates its component, states an invariant that its steps  *)
(* keep and draws the component's properties from it; the number of        *)
(* requests, captures, processes and versions is any.                      *)
(***************************************************************************)
EXTENDS ConsoleApi, FiniteSetTheorems, SequenceTheorems, WellFoundedInduction, TLAPS

CONSTANTS
    DecisionRequests,   \* bound: the requests about one message
    HistoryLimit,       \* bound of the undo stack, 50 in the page
    MaxCaptures,        \* bound: how often a device is asked for
    MediaKept,          \* the attachments the composer keeps: 4 on the page
    Procs,              \* the processes of a delivery
    Deliverers,         \* those of them that deliver
    MaxRuns             \* bound: the commands that are ever started

\* What the sections ask of the bounds: a delivery is one process's.
CountedCaptures == MaxCaptures \in Nat

SomeHistory == HistoryLimit \in Nat \ {0}

OneDeliverer == MaxRuns \in Nat \ {0} /\ \A p, q \in Deliverers : p = q

-----------------------------------------------------------------------------
(* The composer: a turn is well composed when Enter is pressed, and it is  *)
(* the turn of then that leaves, whatever the page has become.             *)

Composer == INSTANCE CopilotComposer

WellComposed(turn) ==
    ~turn.command => /\ (\E t \in turn.tools : Composer!requiresApproval(t)) => turn.mode = "execute" /\ turn.run = "agent"
                     /\ Composer!isWriteExecutionIntent(turn.draft) => turn.run # "ask"

WellTurn == {turn \in Composer!Turn : WellComposed(turn)}

ComposerPage ==
    [sessions : [Composer!SessionIds -> Composer!Session], active : Composer!SessionIds, run : Composer!RunMode,
     on : SUBSET Composer!Tools, draft : Composer!Drafts, chips : Seq(Composer!Chip), uploads : Nat, typing : BOOLEAN,
     sent : Seq(WellTurn)]

\* What a change of the mode carries, and what may follow its answer.
CarriesTurn(r) ==
    /\ r.op = "patch" => /\ r.id \in Composer!SessionIds /\ r.before \in Composer!Session
                         /\ r.next.kind = "send" => r.next.turn \in WellTurn /\ r.next.seen \in Composer!Session
    /\ r.op = "upload" => r.id \in Nat

ComposerInv ==
    /\ db \in ComposerPage
    /\ net = [out |-> net.out, made |-> net.made]
    /\ \A r \in DOMAIN net.out : CarriesTurn(r)

LEMMA ComposerBags ==
    \A B, S : /\ DOMAIN Composer!(+)(B, Composer!SetToBag(S)) = DOMAIN B \cup S
              /\ DOMAIN Composer!(-)(B, Composer!SetToBag(S)) \subseteq DOMAIN B
BY DEF Composer!(+), Composer!(-), Composer!SetToBag

LEMMA ToolsOffered == \A expert \in BOOLEAN : Composer!buildExpertTools(expert) \subseteq Composer!Tools
BY DEF Composer!buildExpertTools, Composer!PLATFORM_TOOLS, Composer!capabilities, Composer!Tools, Composer!ToolKind

\* What a mode sends: execution for the agent, investigation otherwise, and the
\* tools are of those there are.
LEMMA Dispatched ==
    ASSUME NEW run \in Composer!RunMode, NEW av \in SUBSET Composer!Tools, NEW on \in SUBSET Composer!Tools
    PROVE  /\ Composer!mapRunModeToDispatch(run, av, on).mode \in Composer!SessionMode
           /\ run = "agent" => Composer!mapRunModeToDispatch(run, av, on).mode = "execute"
           /\ Composer!mapRunModeToDispatch(run, av, on).tools \in SUBSET Composer!Tools
<1> USE DEF Composer!defaultEnabledToolKeys, Composer!ensureDefaultSkillsEnabled, Composer!defaultAssembledSkillKeys,
            Composer!toolsForExecuteMode, Composer!approvalToolKeys, Composer!SessionMode
<1>1. CASE run = "ask"
  BY <1>1 DEF Composer!mapRunModeToDispatch
<1>2. CASE run = "plan"
  <2> DEFINE kept == {t \in on \cap av : /\ ~Composer!unavailable(t)
                                         /\ ~Composer!requiresApproval(t) \/ Composer!isOfficeDocumentTool(t)}
  <2>1. Composer!mapRunModeToDispatch(run, av, on)
          = [mode |-> "investigate",
             tools |-> IF kept = {} THEN Composer!defaultEnabledToolKeys(av) ELSE Composer!ensureDefaultSkillsEnabled(kept, av)]
    BY <1>2 DEF Composer!mapRunModeToDispatch
  <2>2. kept \subseteq Composer!Tools
    OBVIOUS
  <2> HIDE DEF kept
  <2> QED BY <1>2, <2>1, <2>2
<1>3. CASE run = "agent"
  BY <1>3 DEF Composer!mapRunModeToDispatch
<1> QED BY <1>1, <1>2, <1>3 DEF Composer!RunMode

\* What a turn takes along: under a plan or a question, nothing that writes.
LEMMA TakenAlong ==
    ASSUME NEW run \in Composer!RunMode, NEW av \in SUBSET Composer!Tools, NEW tools \in SUBSET Composer!Tools
    PROVE  /\ Composer!toolsOf(tools, av, run) \in SUBSET Composer!Tools
           /\ run # "agent" => \A t \in Composer!toolsOf(tools, av, run) : ~Composer!requiresApproval(t)
<1> USE DEF Composer!defaultEnabledToolKeys, Composer!toolsForExecuteMode, Composer!approvalToolKeys
<1>1. CASE run = "ask"
  BY <1>1 DEF Composer!toolsOf, Composer!mapRunModeToDispatch
<1>2. CASE run = "plan"
  BY <1>2 DEF Composer!toolsOf
<1>3. CASE run = "agent"
  BY <1>3 DEF Composer!toolsOf
<1> QED BY <1>1, <1>2, <1>3 DEF Composer!RunMode

LEMMA PageTyped ==
    ASSUME NEW d \in ComposerPage
    PROVE  /\ Composer!Active(d) \in Composer!Session /\ Composer!availableTools(d) \in SUBSET Composer!Tools
           /\ \A s \in Composer!SessionIds : d.sessions[s] \in Composer!Session
<1>1. Composer!Active(d) \in Composer!Session /\ \A s \in Composer!SessionIds : d.sessions[s] \in Composer!Session
  BY DEF ComposerPage, Composer!Active
<1> QED BY <1>1, ToolsOffered DEF Composer!availableTools, Composer!Session

LEMMA SessionWritten ==
    ASSUME NEW d \in ComposerPage, NEW s \in Composer!SessionIds, NEW new \in Composer!Session
    PROVE  /\ Composer!patchSessionLocal(d, s, new) \in ComposerPage
           /\ Composer!patchSessionLocal(d, s, new).sent = d.sent
BY DEF ComposerPage, Composer!patchSessionLocal

LEMMA ToolsPersisted ==
    ASSUME NEW d \in ComposerPage, NEW s \in Composer!SessionIds, NEW seen \in Composer!Session,
           NEW tools \in SUBSET Composer!Tools
    PROVE  Composer!persistRunConfig(d, s, seen, tools) \in ComposerPage
<1>1. [seen EXCEPT !.tools = tools] \in Composer!Session
  BY DEF Composer!Session
<1> QED BY <1>1, SessionWritten DEF Composer!persistRunConfig

LEMMA ModeSet ==
    ASSUME NEW d \in ComposerPage, NEW mode \in Composer!SessionMode, NEW run \in Composer!RunMode, NEW unlock \in BOOLEAN
    PROVE  Composer!setCollaborationMode(d, mode, run, unlock) \in ComposerPage
<1> DEFINE session == Composer!Active(d)
           more == Composer!approvalToolKeys(Composer!buildExpertTools(session.expert))
           tools == IF mode = "execute" /\ unlock THEN session.tools \cup more ELSE session.tools
           new == Composer!Switched(session, mode, run, unlock)
<1>1. session \in Composer!Session /\ d.active \in Composer!SessionIds
  BY PageTyped DEF ComposerPage
<1>2. more \subseteq Composer!Tools
  BY <1>1, ToolsOffered DEF Composer!approvalToolKeys, Composer!Session
<1>3. new = [session EXCEPT !.mode = mode, !.run = run, !.tools = tools]
  BY DEF Composer!Switched
<1> HIDE DEF session, more
<1>4. tools \subseteq Composer!Tools
  BY <1>1, <1>2 DEF Composer!Session
<1> HIDE DEF tools, new
<1>5. new \in Composer!Session
  BY <1>1, <1>3, <1>4 DEF Composer!Session
<1> QED BY <1>1, <1>5, SessionWritten DEF Composer!setCollaborationMode, session, new

LEMMA PageUnloaded ==
    ASSUME NEW new \in ComposerPage
    PROVE  Composer!Unloaded(new) \in ComposerPage
<1> DEFINE on == {t \in new.on : ~(t \in Composer!availableTools(new) /\ Composer!requiresApproval(t))}
<1>1. on \in SUBSET Composer!Tools
  BY DEF ComposerPage
<1>2. Composer!Unloaded(new) \in {new, [new EXCEPT !.on = on]}
  BY DEF Composer!Unloaded
<1> HIDE DEF on
<1> QED BY <1>1, <1>2 DEF ComposerPage

\* Something a person does.
LEMMA ComposerHands ==
    ASSUME ComposerInv, NEW new \in ComposerPage, NEW S, Composer!Hand(new, S), \A r \in S : CarriesTurn(r)
    PROVE  ComposerInv'
<1>1. db' = Composer!Unloaded(new)
      /\ net' = [out |-> Composer!(+)(net.out, Composer!SetToBag(S)), made |-> net.made + 1]
  BY DEF Composer!Hand
<1>2. DOMAIN net'.out = DOMAIN net.out \cup S /\ net' = [out |-> net'.out, made |-> net'.made]
  BY <1>1, ComposerBags
<1>3. \A r \in DOMAIN net'.out : CarriesTurn(r)
  BY <1>2 DEF ComposerInv
<1> QED BY <1>1, <1>2, <1>3, PageUnloaded DEF ComposerInv

\* An answer.
LEMMA ComposerAnswers ==
    ASSUME ComposerInv, NEW r, Composer!Arrives(r), NEW new \in ComposerPage, db' = new
    PROVE  ComposerInv'
<1>1. net' = [out |-> Composer!(-)(net.out, Composer!SetToBag({r})), made |-> net.made]
  BY DEF Composer!Arrives, ComposerInv
<1>2. DOMAIN net'.out \subseteq DOMAIN net.out /\ net' = [out |-> net'.out, made |-> net'.made]
  BY <1>1, ComposerBags
<1> QED BY <1>2 DEF ComposerInv

\* A turn leaves as it was composed.
LEMMA TurnLeaves ==
    ASSUME NEW d \in ComposerPage, NEW next, next.turn \in WellTurn, next.seen \in Composer!Session
    PROVE  Composer!dispatchSend(d, next) \in ComposerPage
<1> DEFINE turn == next.turn
           kept == Composer!persistRunConfig(d, turn.session, next.seen, turn.tools)
           was == kept.sessions[turn.session]
           now == IF turn.command THEN [was EXCEPT !.tools = turn.tools]
                  ELSE [was EXCEPT !.tools = turn.tools, !.mode = turn.mode, !.run = turn.run]
           base == Composer!patchSessionLocal(kept, turn.session, now)
           on == IF turn.tools = next.on \/ turn.draft = "/skill" THEN base.on ELSE turn.tools
           sent == Append(base.sent, turn)
           chips == IF turn.command THEN base.chips ELSE <<>>
           e == [base EXCEPT !.on = on, !.sent = sent, !.draft = Composer!NoArg, !.chips = chips, !.typing = TRUE]
<1>1. /\ turn \in WellTurn /\ turn.session \in Composer!SessionIds /\ turn.tools \in SUBSET Composer!Tools
      /\ turn.run \in Composer!RunMode /\ turn.mode \in Composer!SessionMode
  BY DEF WellTurn, Composer!Turn
<1>2. Composer!dispatchSend(d, next) = e
  BY DEF Composer!dispatchSend
<1> HIDE DEF turn
<1>3. kept \in ComposerPage
  BY <1>1, ToolsPersisted DEF turn
<1> HIDE DEF kept
<1>4. was \in Composer!Session
  BY <1>1, <1>3, PageTyped
<1> HIDE DEF was
<1>5. now \in Composer!Session
  BY <1>1, <1>4 DEF Composer!Session
<1> HIDE DEF now
<1>6. base \in ComposerPage
  BY <1>1, <1>3, <1>5, SessionWritten
<1> HIDE DEF base
<1>7. base.sent \in Seq(WellTurn) /\ base.chips \in Seq(Composer!Chip) /\ base.on \in SUBSET Composer!Tools
  BY <1>6 DEF ComposerPage
<1>8. on \in SUBSET Composer!Tools /\ sent \in Seq(WellTurn) /\ chips \in Seq(Composer!Chip)
  BY <1>1, <1>7, AppendProperties
<1>9. Composer!NoArg \in Composer!Drafts
  BY DEF Composer!Drafts
<1>10. e = [base EXCEPT !.on = on, !.sent = sent, !.draft = Composer!NoArg, !.chips = chips, !.typing = TRUE]
  OBVIOUS
<1> HIDE DEF on, sent, chips, e
<1>11. e \in ComposerPage
  BY <1>6, <1>8, <1>9, <1>10 DEF ComposerPage
<1> QED BY <1>2, <1>11

LEMMA CarriesNothing == (\A r \in {} : CarriesTurn(r)) /\ \A id : CarriesTurn([op |-> "reply", id |-> id])
BY DEF CarriesTurn

\* A change of the mode that no turn waits for.
LEMMA PatchCarries ==
    ASSUME ComposerInv, NEW next, next \in {Composer!Nothing, Composer!UnlockTools}
    PROVE  CarriesTurn(Composer!Patch(db, next))
<1>1. Composer!Active(db) \in Composer!Session /\ db.active \in Composer!SessionIds
  BY PageTyped DEF ComposerInv, ComposerPage
<1>2. next.kind # "send"
  BY DEF Composer!Nothing, Composer!UnlockTools
<1> QED BY <1>1, <1>2 DEF CarriesTurn, Composer!Patch

LEMMA RunModeKeeps ==
    ASSUME ComposerInv, NEW run \in Composer!RunMode, Composer!handleRunModeChange(run)
    PROVE  ComposerInv'
<1> DEFINE to == Composer!mapRunModeToDispatch(run, Composer!availableTools(db), db.on)
           chosen == [db EXCEPT !.run = run, !.on = to.tools]
           new == Composer!setCollaborationMode(chosen, to.mode, run, run = "agent")
           S == {Composer!Patch(db, Composer!Nothing)}
<1>1. db \in ComposerPage /\ Composer!availableTools(db) \in SUBSET Composer!Tools /\ db.on \in SUBSET Composer!Tools
  BY PageTyped DEF ComposerInv, ComposerPage
<1>2. to.mode \in Composer!SessionMode /\ to.tools \in SUBSET Composer!Tools
  BY <1>1, Dispatched
<1>3. Composer!Hand(new, S)
  BY DEF Composer!handleRunModeChange
<1> HIDE DEF to
<1>4. chosen \in ComposerPage
  BY <1>1, <1>2 DEF ComposerPage
<1> HIDE DEF chosen
<1>5. new \in ComposerPage
  BY <1>2, <1>4, ModeSet
<1>6. \A r \in S : CarriesTurn(r)
  BY PatchCarries
<1> HIDE DEF new, S
<1> QED BY <1>3, <1>5, <1>6, ComposerHands

LEMMA InputKeeps ==
    ASSUME ComposerInv, NEW draft \in Composer!Drafts, Composer!onInputChange(draft)
    PROVE  ComposerInv'
<1> DEFINE new == [db EXCEPT !.draft = draft]
           S == {}
<1>1. new \in ComposerPage
  BY DEF ComposerInv, ComposerPage
<1>2. Composer!Hand(new, S) /\ \A r \in S : CarriesTurn(r)
  BY DEF Composer!onInputChange
<1> HIDE DEF new, S
<1> QED BY <1>1, <1>2, ComposerHands

LEMMA MentionKeeps ==
    ASSUME ComposerInv, NEW t \in Composer!Tools, Composer!applyMentionToken(t)
    PROVE  ComposerInv'
<1> DEFINE base == IF db.on = {} THEN Composer!defaultEnabledToolKeys(Composer!availableTools(db)) ELSE db.on
           draft == IF t = "write" THEN "@write" ELSE "say"
           named == [db EXCEPT !.draft = draft, !.on = base \cup {t}]
           unlocks == Composer!requiresApproval(t) /\ db.run = "plan" /\ Composer!Switchable(db)
           asked == IF unlocks THEN Composer!setCollaborationMode(named, "execute", "agent", TRUE) ELSE named
           new == Composer!persistRunConfig(asked, db.active, Composer!Active(db), base \cup {t})
           S == IF unlocks THEN {Composer!Patch(db, Composer!UnlockTools)} ELSE {}
<1>1. /\ db \in ComposerPage /\ Composer!availableTools(db) \in SUBSET Composer!Tools /\ db.on \in SUBSET Composer!Tools
      /\ Composer!Active(db) \in Composer!Session /\ db.active \in Composer!SessionIds
  BY PageTyped DEF ComposerInv, ComposerPage
<1>2. base \cup {t} \in SUBSET Composer!Tools /\ draft \in Composer!Drafts
  BY <1>1 DEF Composer!defaultEnabledToolKeys, Composer!Drafts
<1>3. Composer!Hand(new, S)
  BY DEF Composer!applyMentionToken
<1> HIDE DEF base, draft, unlocks
<1>4. named \in ComposerPage
  BY <1>1, <1>2 DEF ComposerPage
<1> HIDE DEF named
<1>5. asked \in ComposerPage
  BY <1>4, ModeSet DEF Composer!SessionMode, Composer!RunMode
<1> HIDE DEF asked
<1>6. new \in ComposerPage
  BY <1>1, <1>2, <1>5, ToolsPersisted
<1>7. \A r \in S : CarriesTurn(r)
  BY PatchCarries
<1> HIDE DEF new, S
<1> QED BY <1>3, <1>6, <1>7, ComposerHands

LEMMA ToolsKeep ==
    ASSUME ComposerInv, (\E t \in Composer!Tools : Composer!toggleTool(t)) \/ Composer!selectAllTools
    PROVE  ComposerInv'
<1>1. /\ db \in ComposerPage /\ Composer!availableTools(db) \in SUBSET Composer!Tools /\ db.on \in SUBSET Composer!Tools
      /\ Composer!Active(db) \in Composer!Session /\ db.active \in Composer!SessionIds
  BY PageTyped DEF ComposerInv, ComposerPage
<1>2. ASSUME NEW on \in SUBSET Composer!Tools,
             Composer!Hand(Composer!persistRunConfig([db EXCEPT !.on = on], db.active, Composer!Active(db), on), {})
      PROVE  ComposerInv'
  <2> DEFINE chosen == [db EXCEPT !.on = on]
             new == Composer!persistRunConfig(chosen, db.active, Composer!Active(db), on)
             S == {}
  <2>1. chosen \in ComposerPage
    BY <1>1 DEF ComposerPage
  <2>2. Composer!Hand(new, S) /\ \A r \in S : CarriesTurn(r)
    BY <1>2
  <2> HIDE DEF chosen, S
  <2>3. new \in ComposerPage
    BY <1>1, <2>1, ToolsPersisted
  <2> HIDE DEF new
  <2> QED BY <2>2, <2>3, ComposerHands
<1>3. CASE Composer!selectAllTools
  BY <1>1, <1>2, <1>3 DEF Composer!selectAllTools
<1>4. ASSUME NEW t \in Composer!Tools, Composer!toggleTool(t) PROVE ComposerInv'
  <2> DEFINE next == IF t \in db.on THEN db.on \ {t} ELSE db.on \cup {t}
             S == {Composer!Patch(db, Composer!UnlockTools)}
             new == Composer!setCollaborationMode(db, "execute", "agent", TRUE)
  <2>1. next \in SUBSET Composer!Tools
    BY <1>1
  <2>2. \/ Composer!Hand(new, S)
        \/ Composer!Hand(Composer!persistRunConfig([db EXCEPT !.on = next], db.active, Composer!Active(db), next), {})
    BY <1>4 DEF Composer!toggleTool
  <2>3. new \in ComposerPage
    BY <1>1, ModeSet DEF Composer!SessionMode, Composer!RunMode
  <2>4. \A r \in S : CarriesTurn(r)
    BY PatchCarries
  <2> HIDE DEF next, S, new
  <2> QED BY <1>2, <2>1, <2>2, <2>3, <2>4, ComposerHands
<1> QED BY <1>3, <1>4

LEMMA AttachmentsKeep ==
    ASSUME ComposerInv, (\E f \in Composer!Files : Composer!addAttachments(f)) \/ (\E i : Composer!removeAttachment(i))
    PROVE  ComposerInv'
<1>1. /\ db \in ComposerPage /\ db.chips \in Seq(Composer!Chip) /\ db.uploads \in Nat
      /\ DOMAIN db.chips = 1..Len(db.chips) /\ Len(db.chips) \in Nat
  BY DEF ComposerInv, ComposerPage
<1>2. ASSUME NEW f \in Composer!Files, Composer!addAttachments(f) PROVE ComposerInv'
  <2> DEFINE chips == Append(db.chips, [file |-> f, state |-> "uploading", id |-> 0])
             uploads == db.uploads + 1
             new == [db EXCEPT !.chips = chips, !.uploads = uploads]
             S == {[op |-> "upload", file |-> f, id |-> db.uploads + 1]}
  <2>1. [file |-> f, state |-> "uploading", id |-> 0] \in Composer!Chip
    BY DEF Composer!Chip
  <2>2. chips \in Seq(Composer!Chip) /\ uploads \in Nat
    BY <1>1, <2>1, AppendProperties
  <2>3. Composer!Hand(new, S)
    BY Zenon, <1>2 DEF Composer!addAttachments
  <2>4. \A r \in S : CarriesTurn(r)
    BY <2>2 DEF CarriesTurn
  <2> HIDE DEF chips, uploads, S
  <2>5. new \in ComposerPage
    BY <1>1, <2>2 DEF ComposerPage
  <2> HIDE DEF new
  <2> QED BY <2>3, <2>4, <2>5, ComposerHands
<1>3. ASSUME NEW i, Composer!removeAttachment(i) PROVE ComposerInv'
  <2> DEFINE chips == Composer!RemoveAt(db.chips, i)
             new == [db EXCEPT !.chips = chips]
             S == {}
  <2>1. i \in 1..Len(db.chips)
    BY <1>1, <1>3 DEF Composer!removeAttachment
  <2>2. SubSeq(db.chips, 1, i - 1) \in Seq(Composer!Chip) /\ SubSeq(db.chips, i + 1, Len(db.chips)) \in Seq(Composer!Chip)
    <3>1. \A j \in 1..Len(db.chips) : db.chips[j] \in Composer!Chip
      BY <1>1, ElementOfSeq
    <3>2. \A j \in 1..i - 1 : db.chips[j] \in Composer!Chip
      BY <1>1, <2>1, <3>1
    <3>3. \A j \in i + 1..Len(db.chips) : db.chips[j] \in Composer!Chip
      BY <1>1, <2>1, <3>1
    <3>4. i - 1 \in Int /\ i + 1 \in Int /\ 1 \in Int /\ Len(db.chips) \in Int
      BY <1>1, <2>1
    <3> QED BY <3>2, <3>3, <3>4, SubSeqProperties
  <2>3. chips \in Seq(Composer!Chip)
    BY <2>2, ConcatProperties DEF Composer!RemoveAt
  <2>4. Composer!Hand(new, S) /\ \A r \in S : CarriesTurn(r)
    BY <1>3 DEF Composer!removeAttachment
  <2> HIDE DEF chips, S
  <2>5. new \in ComposerPage
    BY <1>1, <2>3 DEF ComposerPage
  <2> HIDE DEF new
  <2> QED BY <2>4, <2>5, ComposerHands
<1> QED BY <1>2, <1>3

\* A chip is filled, wherever it is.
LEMMA ChipWritten ==
    ASSUME NEW chips \in Seq(Composer!Chip), NEW k, NEW state \in {"ready", "failed"}, NEW id \in Nat
    PROVE  [[chips EXCEPT ![k] = [@ EXCEPT !.state = state]] EXCEPT ![k] = [@ EXCEPT !.id = id]] \in Seq(Composer!Chip)
<1>0. DOMAIN chips = 1..Len(chips)
  OBVIOUS
<1>1. CASE k \in 1..Len(chips)
  <2> DEFINE c == [[chips[k] EXCEPT !.state = state] EXCEPT !.id = id]
  <2>1. chips[k] \in Composer!Chip
    BY <1>1, ElementOfSeq
  <2>2. c \in Composer!Chip
    BY <2>1 DEF Composer!Chip
  <2>3. [[chips EXCEPT ![k] = [@ EXCEPT !.state = state]] EXCEPT ![k] = [@ EXCEPT !.id = id]] = [chips EXCEPT ![k] = c]
    BY <1>0, <1>1
  <2> HIDE DEF c
  <2> QED BY <1>1, <2>2, <2>3, ExceptSeq
<1>2. CASE k \notin 1..Len(chips)
  <2>1. [[chips EXCEPT ![k] = [@ EXCEPT !.state = state]] EXCEPT ![k] = [@ EXCEPT !.id = id]] = chips
    BY <1>0, <1>2
  <2> QED BY <2>1
<1> QED BY <1>1, <1>2

LEMMA UploadMarked ==
    ASSUME ComposerInv, NEW r, r.id \in Nat, NEW state \in {"ready", "failed"}
    PROVE  Composer!markUpload(r, state) \in ComposerPage
<1> DEFINE k == Composer!Min(Composer!Waiting(r.file))
           id == IF state = "ready" THEN r.id ELSE 0
           chips == [[db.chips EXCEPT ![k] = [@ EXCEPT !.state = state]] EXCEPT ![k] = [@ EXCEPT !.id = id]]
           new == [db EXCEPT !.chips[k].state = state, !.chips[k].id = id]
<1>1. Composer!markUpload(r, state) \in {db, new}
  BY DEF Composer!markUpload
<1>2. db \in ComposerPage /\ db.chips \in Seq(Composer!Chip) /\ id \in Nat
  BY DEF ComposerInv, ComposerPage
<1> HIDE DEF k, id
<1>3. chips \in Seq(Composer!Chip)
  BY <1>2, ChipWritten
<1>4. new = [db EXCEPT !.chips = chips]
  BY <1>2 DEF ComposerPage
<1> HIDE DEF chips, new
<1>5. new \in ComposerPage
  BY <1>2, <1>3, <1>4 DEF ComposerPage
<1> QED BY <1>1, <1>2, <1>5

\* What Enter makes of the page: a turn that is well composed.
LEMMA EnterKeeps ==
    ASSUME ComposerInv, Composer!handleSend
    PROVE  ComposerInv'
<1> DEFINE av == Composer!availableTools(db)
           to == Composer!mapRunModeToDispatch(db.run, av, db.on)
           merged == Composer!mergeMentionedTools(to.tools, db.draft, av)
           tools == Composer!toolsOf(merged, av, db.run)
           files == {db.chips[i].id : i \in DOMAIN db.chips}
           turn == [session |-> db.active, draft |-> db.draft, run |-> db.run, mode |-> to.mode,
                    tools |-> tools, files |-> files, command |-> FALSE]
           next == Composer!ThenSend(turn)
           asked == Composer!setCollaborationMode(db, to.mode, db.run, TRUE)
           sent == Composer!dispatchSend(db, next)
           A == {Composer!Patch(db, next)}
           R == {[op |-> "reply", id |-> db.active]}
<1>1. /\ db \in ComposerPage /\ av \in SUBSET Composer!Tools /\ db.on \in SUBSET Composer!Tools
      /\ Composer!Active(db) \in Composer!Session /\ db.active \in Composer!SessionIds
      /\ db.run \in Composer!RunMode /\ db.draft \in Composer!Drafts /\ db.chips \in Seq(Composer!Chip)
  BY PageTyped DEF ComposerInv, ComposerPage
<1>2. ~Composer!AskRefuses(merged)
  BY DEF Composer!handleSend
<1>3. Composer!Hand(asked, A) \/ Composer!Hand(sent, R)
  BY DEF Composer!handleSend
<1> HIDE DEF av
<1>4. /\ to.mode \in Composer!SessionMode /\ (db.run = "agent" => to.mode = "execute")
      /\ to.tools \in SUBSET Composer!Tools
  BY <1>1, Dispatched
<1> HIDE DEF to
<1>5. merged \in SUBSET Composer!Tools
  BY <1>1, <1>4 DEF Composer!mergeMentionedTools
<1>6. db.run = "ask" => ~Composer!isWriteExecutionIntent(db.draft)
  BY <1>2 DEF Composer!AskRefuses
<1> HIDE DEF merged
<1>7. /\ tools \in SUBSET Composer!Tools
      /\ db.run # "agent" => \A t \in tools : ~Composer!requiresApproval(t)
  BY <1>1, <1>5, TakenAlong
<1>8. files \in SUBSET Nat
  <2>1. \A i \in DOMAIN db.chips : db.chips[i] \in Composer!Chip
    BY <1>1, ElementOfSeq
  <2> QED BY <2>1 DEF Composer!Chip
<1> HIDE DEF tools, files
<1>9. turn \in Composer!Turn
  BY <1>1, <1>4, <1>7, <1>8 DEF Composer!Turn
<1>10. WellComposed(turn)
  BY <1>4, <1>6, <1>7 DEF WellComposed
<1>11. /\ next.kind = "send" /\ next.turn = turn /\ next.seen = Composer!Active(db)
  BY DEF Composer!ThenSend
<1> HIDE DEF turn, next
<1>12. next.turn \in WellTurn /\ next.seen \in Composer!Session
  BY <1>1, <1>9, <1>10, <1>11 DEF WellTurn
<1>13. asked \in ComposerPage /\ sent \in ComposerPage
  BY <1>1, <1>4, <1>12, ModeSet, TurnLeaves
<1>14. (\A r \in A : CarriesTurn(r)) /\ \A r \in R : CarriesTurn(r)
  BY <1>1, <1>12, CarriesNothing DEF CarriesTurn, Composer!Patch
<1> HIDE DEF asked, sent, A, R
<1> QED BY <1>3, <1>13, <1>14, ComposerHands

\* The mode that a session's record stands for.
LEMMA ModeDerived ==
    ASSUME NEW s \in Composer!Session
    PROVE  Composer!deriveRunMode(s) \in Composer!RunMode
BY DEF Composer!deriveRunMode, Composer!Session, Composer!RunMode, Composer!DEFAULT_RUN_MODE

\* A command's turn.
LEMMA SlashKeeps ==
    ASSUME ComposerInv, Composer!applySlashAction
    PROVE  ComposerInv'
<1> DEFINE base == IF db.on = {} THEN Composer!defaultEnabledToolKeys(Composer!availableTools(db)) ELSE db.on
           tools == base \cup Composer!planSlashSend(db.draft)
           run == Composer!deriveRunMode(Composer!Active(db))
           turn == [session |-> db.active, draft |-> db.draft, run |-> run, mode |-> Composer!Active(db).mode,
                    tools |-> tools, files |-> {}, command |-> TRUE]
           next == Composer!ThenSend(turn)
           sent == Composer!dispatchSend(db, next)
           R == {[op |-> "reply", id |-> db.active]}
<1>1. /\ db \in ComposerPage /\ Composer!availableTools(db) \in SUBSET Composer!Tools /\ db.on \in SUBSET Composer!Tools
      /\ Composer!Active(db) \in Composer!Session /\ db.active \in Composer!SessionIds /\ db.draft \in Composer!Drafts
  BY PageTyped DEF ComposerInv, ComposerPage
<1>2. Composer!Hand(sent, R)
  BY DEF Composer!applySlashAction
<1>3. tools \in SUBSET Composer!Tools
  BY <1>1 DEF Composer!defaultEnabledToolKeys, Composer!planSlashSend, Composer!Tools, Composer!ToolKind
<1>4. run \in Composer!RunMode
  BY <1>1, ModeDerived
<1> HIDE DEF tools, run
<1>5. turn \in Composer!Turn
  BY <1>1, <1>3, <1>4 DEF Composer!Turn, Composer!Session
<1>6. WellComposed(turn)
  BY DEF WellComposed
<1>7. next.turn = turn /\ next.seen = Composer!Active(db)
  BY DEF Composer!ThenSend
<1> HIDE DEF turn, next
<1>8. sent \in ComposerPage
  BY <1>1, <1>5, <1>6, <1>7, TurnLeaves DEF WellTurn
<1>9. \A r \in R : CarriesTurn(r)
  BY CarriesNothing
<1> HIDE DEF sent, R
<1> QED BY <1>2, <1>8, <1>9, ComposerHands

\* The answers to what the page asked.
LEMMA RepliesKeep ==
    ASSUME ComposerInv, NEW r \in DOMAIN net.out, Composer!Arrives(r),
           Composer!uploaded(r) \/ Composer!patched(r) \/ Composer!patchFailed(r) \/ Composer!replied(r)
    PROVE  ComposerInv'
<1>1. db \in ComposerPage /\ CarriesTurn(r) /\ Composer!availableTools(db) \in SUBSET Composer!Tools
  BY PageTyped DEF ComposerInv
<1>2. CASE Composer!uploaded(r)
  <2>1. PICK state \in {"ready", "failed"} : db' = Composer!markUpload(r, state)
    BY <1>2 DEF Composer!uploaded
  <2>2. r.id \in Nat
    BY <1>1, <1>2 DEF CarriesTurn, Composer!uploaded
  <2>3. Composer!markUpload(r, state) \in ComposerPage
    BY <2>2, UploadMarked
  <2> QED BY <2>1, <2>3, ComposerAnswers
<1>3. CASE Composer!patched(r)
  <2> DEFINE more == Composer!toolsForExecuteMode(db.on, Composer!availableTools(db))
             unlocked == [db EXCEPT !.on = more]
             sent == Composer!dispatchSend(db, r.next)
             new == CASE r.next.kind = "send" -> sent [] r.next.kind = "unlock" -> unlocked [] OTHER -> db
  <2>1. db' = Composer!Unloaded(new) /\ r.op = "patch"
    BY <1>1, <1>3 DEF Composer!patched, ComposerPage
  <2>2. more \in SUBSET Composer!Tools
    BY <1>1 DEF ComposerPage, Composer!toolsForExecuteMode, Composer!approvalToolKeys
  <2> HIDE DEF more
  <2>3. unlocked \in ComposerPage
    BY <1>1, <2>2 DEF ComposerPage
  <2>4. r.next.kind = "send" => sent \in ComposerPage
    BY <1>1, <2>1, TurnLeaves DEF CarriesTurn
  <2> HIDE DEF unlocked, sent
  <2>5. new \in ComposerPage
    BY <1>1, <2>3, <2>4
  <2> HIDE DEF new
  <2>6. Composer!Unloaded(new) \in ComposerPage
    BY <2>5, PageUnloaded
  <2> QED BY <2>1, <2>6, ComposerAnswers
<1>4. CASE Composer!patchFailed(r)
  <2> DEFINE s == [db.sessions[r.id] EXCEPT !.mode = r.before.mode, !.run = r.before.run, !.tools = r.before.tools]
             new == Composer!patchSessionLocal(db, r.id, s)
  <2>1. db' = Composer!Unloaded(new) /\ r.id \in Composer!SessionIds /\ r.before \in Composer!Session
    BY <1>1, <1>4 DEF Composer!patchFailed, CarriesTurn
  <2>2. s \in Composer!Session
    BY <1>1, <2>1, PageTyped DEF Composer!Session
  <2> HIDE DEF s
  <2>3. new \in ComposerPage
    BY <1>1, <2>1, <2>2, SessionWritten
  <2> HIDE DEF new
  <2>4. Composer!Unloaded(new) \in ComposerPage
    BY <2>3, PageUnloaded
  <2> QED BY <2>1, <2>4, ComposerAnswers
<1>5. CASE Composer!replied(r)
  <2> DEFINE new == [db EXCEPT !.typing = FALSE]
  <2>1. db' = new /\ new \in ComposerPage
    BY <1>1, <1>5 DEF Composer!replied, ComposerPage
  <2> HIDE DEF new
  <2> QED BY <2>1, ComposerAnswers
<1> QED BY <1>2, <1>3, <1>4, <1>5

\* Another conversation, and one that ends or is handed over.
LEMMA SessionsKeep ==
    ASSUME ComposerInv,
           (\E s \in Composer!SessionIds : Composer!switchSession(s)) \/ Composer!closeout \/ Composer!handoff
    PROVE  ComposerInv'
<1> DEFINE S == {}
<1>1. /\ db \in ComposerPage /\ Composer!Active(db) \in Composer!Session /\ db.active \in Composer!SessionIds
      /\ \A r \in S : CarriesTurn(r)
  BY PageTyped DEF ComposerInv, ComposerPage
<1>2. ASSUME NEW s \in Composer!SessionIds, Composer!switchSession(s) PROVE ComposerInv'
  <2> DEFINE session == db.sessions[s]
             run == Composer!deriveRunMode(session)
             av == Composer!buildExpertTools(session.expert)
             on == Composer!ensureDefaultSkillsEnabled(session.tools, av)
             new == [db EXCEPT !.active = s, !.run = run, !.on = on]
  <2>1. Composer!Hand(new, S)
    BY Zenon, <1>2 DEF Composer!switchSession
  <2>2. session \in Composer!Session
    BY <1>1, PageTyped
  <2> HIDE DEF session, S
  <2>3. run \in Composer!RunMode
    BY <2>2, ModeDerived
  <2>4. av \in SUBSET Composer!Tools
    BY <2>2, ToolsOffered DEF Composer!Session
  <2> HIDE DEF run, av
  <2>5. on \in SUBSET Composer!Tools
    BY <2>2, <2>4 DEF Composer!ensureDefaultSkillsEnabled, Composer!defaultEnabledToolKeys,
                      Composer!defaultAssembledSkillKeys, Composer!Session
  <2> HIDE DEF on
  <2>6. new \in ComposerPage
    BY <1>1, <2>3, <2>5 DEF ComposerPage
  <2> HIDE DEF new
  <2> QED BY <1>1, <2>1, <2>6, ComposerHands
<1>3. CASE Composer!closeout
  <2> DEFINE c == [Composer!Active(db) EXCEPT !.open = "closed"]
             new == Composer!patchSessionLocal(db, db.active, c)
  <2>1. Composer!Hand(new, S)
    BY <1>3 DEF Composer!closeout
  <2>2. c \in Composer!Session
    BY <1>1 DEF Composer!Session
  <2> HIDE DEF c, S
  <2>3. new \in ComposerPage
    BY <1>1, <2>2, SessionWritten
  <2> HIDE DEF new
  <2> QED BY <1>1, <2>1, <2>3, ComposerHands
<1>4. CASE Composer!handoff
  <2> DEFINE c == [Composer!Active(db) EXCEPT !.open = "handoff", !.mode = "investigate"]
             new == Composer!patchSessionLocal(db, db.active, c)
  <2>1. Composer!Hand(new, S)
    BY <1>4 DEF Composer!handoff
  <2>2. c \in Composer!Session
    BY <1>1 DEF Composer!Session, Composer!SessionMode
  <2> HIDE DEF c, S
  <2>3. new \in ComposerPage
    BY <1>1, <2>2, SessionWritten
  <2> HIDE DEF new
  <2> QED BY <1>1, <2>1, <2>3, ComposerHands
<1> QED BY <1>2, <1>3, <1>4

LEMMA ComposerInit == Composer!Init => ComposerInv
<1> DEFINE s1 == [expert |-> TRUE, mode |-> "investigate", run |-> Composer!NoArg, tools |-> {}, open |-> "active"]
           s2 == [expert |-> FALSE, mode |-> "execute", run |-> "agent", tools |-> {"retrieve"}, open |-> "active"]
           on == Composer!defaultEnabledToolKeys(Composer!buildExpertTools(TRUE))
<1> SUFFICES ASSUME Composer!Init PROVE ComposerInv
  OBVIOUS
<1>1. s1 \in Composer!Session /\ s2 \in Composer!Session
  BY DEF Composer!Session, Composer!SessionMode, Composer!RunMode, Composer!Tools, Composer!ToolKind
<1>2. on \in SUBSET Composer!Tools
  BY ToolsOffered DEF Composer!defaultEnabledToolKeys
<1>3. db = [sessions |-> [s1 |-> s1, s2 |-> s2], active |-> "s1", run |-> Composer!DEFAULT_RUN_MODE, on |-> on,
            draft |-> Composer!NoArg, chips |-> <<>>, uploads |-> 0, typing |-> FALSE, sent |-> <<>>]
  BY DEF Composer!Init
<1> HIDE DEF s1, s2, on
<1>4. [s1 |-> s1, s2 |-> s2] \in [Composer!SessionIds -> Composer!Session]
  BY <1>1 DEF Composer!SessionIds
<1>5. Composer!NoArg \in Composer!Drafts /\ Composer!DEFAULT_RUN_MODE \in Composer!RunMode /\ "s1" \in Composer!SessionIds
  BY DEF Composer!Drafts, Composer!DEFAULT_RUN_MODE, Composer!RunMode, Composer!SessionIds
<1>6. <<>> \in Seq(Composer!Chip) /\ <<>> \in Seq(WellTurn)
  OBVIOUS
<1>7. db \in ComposerPage
  BY <1>2, <1>3, <1>4, <1>5, <1>6 DEF ComposerPage
<1>8. net = [out |-> Composer!EmptyBag, made |-> 0]
  BY DEF Composer!Init, Composer!NetInit
<1>9. DOMAIN net.out = {}
  BY <1>8 DEF Composer!EmptyBag, Composer!SetToBag
<1> QED BY <1>7, <1>8, <1>9 DEF ComposerInv

LEMMA ComposerNext == ComposerInv /\ [Composer!Next]_vars => ComposerInv'
<1> SUFFICES ASSUME ComposerInv, [Composer!Next]_vars PROVE ComposerInv'
  OBVIOUS
<1>1. CASE UNCHANGED vars
  BY <1>1 DEF ComposerInv, vars
<1>2. CASE \E run \in Composer!RunMode : Composer!handleRunModeChange(run)
  BY <1>2, RunModeKeeps
<1>3. CASE \E draft \in Composer!Drafts \ {"@write"} : Composer!onInputChange(draft)
  BY <1>3, InputKeeps
<1>4. CASE \E t \in Composer!Tools : Composer!applyMentionToken(t) \/ Composer!toggleTool(t)
  BY <1>4, MentionKeeps, ToolsKeep
<1>5. CASE Composer!selectAllTools
  BY <1>5, ToolsKeep
<1>6. CASE (\E f \in Composer!Files : Composer!addAttachments(f)) \/ (\E i \in 1..MaxInFlight : Composer!removeAttachment(i))
  BY <1>6, AttachmentsKeep
<1>7. CASE Composer!handleSend \/ Composer!applySlashAction
  BY <1>7, EnterKeeps, SlashKeeps
<1>8. CASE (\E s \in Composer!SessionIds : Composer!switchSession(s)) \/ Composer!closeout \/ Composer!handoff
  BY <1>8, SessionsKeep
<1>9. CASE \E r \in Composer!BagToSet(net.out) :
               Composer!Arrives(r) /\ (\/ Composer!uploaded(r) \/ Composer!patched(r)
                                       \/ Composer!patchFailed(r) \/ Composer!replied(r))
  BY <1>9, RepliesKeep DEF Composer!BagToSet
<1> QED BY <1>1, <1>2, <1>3, <1>4, <1>5, <1>6, <1>7, <1>8, <1>9 DEF Composer!Next

LEMMA ComposerHolds == ComposerInv => Composer!WritesOnlyInExecute /\ Composer!TypeOK
<1> SUFFICES ASSUME ComposerInv PROVE Composer!WritesOnlyInExecute /\ Composer!TypeOK
  OBVIOUS
<1>1. db \in ComposerPage
  BY DEF ComposerInv
<1>2. \A i \in DOMAIN db.sent : db.sent[i] \in Composer!Turn /\ WellComposed(db.sent[i])
  BY <1>1, ElementOfSeq DEF ComposerPage, WellTurn
<1>3. \A i \in DOMAIN db.chips : db.chips[i] \in Composer!Chip
  BY <1>1, ElementOfSeq DEF ComposerPage
<1> QED BY <1>1, <1>2, <1>3 DEF ComposerPage, WellComposed, Composer!TypeOK, Composer!WritesOnlyInExecute

\* A tool that asks for an approval leaves with a composed turn only in the
\* execution mode, whatever became of the mode, the tools and the session while
\* the turn waited for its answer.
THEOREM TurnsLeaveCleared ==
    Composer!Init /\ [][Composer!Next]_vars => [](Composer!WritesOnlyInExecute /\ Composer!TypeOK)
BY ComposerInit, ComposerNext, ComposerHolds, PTL

-----------------------------------------------------------------------------
(* The decisions on a message: what a page shows as authorized was, and what *)
(* it shows as executed ran, whichever copy of the message an answer brings. *)

Approvals == INSTANCE CopilotApprovals WITH MaxRequests <- DecisionRequests

DecisionDb ==
    [requester : Approvals!Requesters, status : {"pending", "approved", "rejected", "executed"},
     by : Approvals!Pages \cup {NoArg}, open : BOOLEAN, tasks : Nat, wins : Nat, marker : BOOLEAN, failed : BOOLEAN,
     more : BOOLEAN, page : [Approvals!Pages -> Approvals!Page]]

\* Somebody who may authorize the write has, and did not ask for it.
MayAuthorize(d, u) ==
    /\ d.requester = NoArg \/ d.requester # u
    /\ Approvals!isAdministrator(u) \/ u \in Approvals!approverCandidateIds

Authorized(d) == d.status \in {"approved", "executed"} /\ MayAuthorize(d, d.by)

Truthful(copy, d) ==
    /\ copy \in Approvals!Copy
    /\ copy.decision = "approved" => Authorized(d)
    /\ Approvals!showsExecuted(copy) => d.wins > 0

DecisionGood(d) ==
    /\ d \in DecisionDb
    /\ d.status \in {"approved", "executed"} => Authorized(d)
    /\ d.wins > 0 => Authorized(d)
    /\ d.marker /\ ~d.failed => d.wins > 0
    /\ \A u \in Approvals!Pages : Truthful(d.page[u].copy, d)

\* What requests and answers carry.
Deciding == {"approve", "patch", "approved", "refused"}
Running == {"task", "execute"}

CarriesTruth(r, d) ==
    /\ r.by \in Approvals!Pages
    /\ r.op \in Deciding => r = [op |-> r.op, by |-> r.by, seen |-> r.seen] /\ Truthful(r.seen, d)
    /\ r.op = "approved" => Authorized(d)
    /\ r.op \in Running => /\ r = [op |-> r.op, by |-> r.by, seen |-> r.seen, continue |-> r.continue]
                           /\ r.continue \in BOOLEAN /\ Truthful(r.seen, d)
    /\ r.op = "executed" => /\ {r.continue, r.ok, r.more} \subseteq BOOLEAN /\ Truthful(r.seen, d)
                            /\ r.ok => d.wins > 0
    /\ r.op = "fetched" => /\ r.msg.decision \in {"pending", "approved", "rejected"}
                           /\ {r.msg.marker, r.msg.failed} \subseteq BOOLEAN
                           /\ r.msg.decision = "approved" => Authorized(d)
                           /\ r.msg.marker /\ ~r.msg.failed => d.wins > 0

DecisionInv ==
    /\ DecisionGood(db)
    /\ net = [out |-> net.out, made |-> net.made]
    /\ \A r \in DOMAIN net.out : CarriesTruth(r, db)

\* What was authorized stays so, and what ran has run.
DecisionStands(d, e) == (Authorized(d) => Authorized(e)) /\ (d.wins > 0 => e.wins > 0)

LEMMA TruthStands ==
    ASSUME NEW d, NEW e, DecisionStands(d, e)
    PROVE  /\ \A copy : Truthful(copy, d) => Truthful(copy, e)
           /\ \A r : CarriesTruth(r, d) => CarriesTruth(r, e)
<1>1. \A copy : Truthful(copy, d) => Truthful(copy, e)
  BY DEF DecisionStands, Truthful
<1> QED BY <1>1 DEF DecisionStands, CarriesTruth

\* What the bag of requests holds after a step.
LEMMA DecisionBags ==
    \A B, S, T :
        /\ DOMAIN Approvals!(+)(B, Approvals!SetToBag(S)) = DOMAIN B \cup S
        /\ DOMAIN Approvals!(-)(B, Approvals!SetToBag(S)) \subseteq DOMAIN B
        /\ DOMAIN Approvals!(+)(Approvals!(-)(B, Approvals!SetToBag(T)), Approvals!SetToBag(S)) \subseteq DOMAIN B \cup S
BY DEF Approvals!(+), Approvals!(-), Approvals!SetToBag

LEMMA DecisionMoves ==
    ASSUME DecisionInv, DecisionGood(db'), DecisionStands(db, db'), NEW S,
           net' = [out |-> net'.out, made |-> net'.made], DOMAIN net'.out \subseteq DOMAIN net.out \cup S,
           \A r \in S : CarriesTruth(r, db')
    PROVE  DecisionInv'
BY TruthStands DEF DecisionInv

\* A page is written: its own fields, and a copy that is true.
LEMMA PageTurns ==
    ASSUME DecisionGood(db), NEW u \in Approvals!Pages, NEW page \in Approvals!Page, Truthful(page.copy, db),
           NEW open \in BOOLEAN, NEW e, e = [db EXCEPT !.open = open, !.page[u] = page]
    PROVE  DecisionGood(e) /\ DecisionStands(db, e)
<1>1. /\ db \in DecisionDb /\ e \in DecisionDb /\ e.requester = db.requester /\ e.status = db.status /\ e.by = db.by
      /\ e.wins = db.wins /\ e.marker = db.marker /\ e.failed = db.failed
      /\ e.page[u] = page /\ \A v \in Approvals!Pages \ {u} : e.page[v] = db.page[v]
  BY DEF DecisionGood, DecisionDb
<1>2. Authorized(e) <=> Authorized(db)
  BY <1>1 DEF Authorized, MayAuthorize
<1>3. \A copy : Truthful(copy, db) => Truthful(copy, e)
  BY <1>1, <1>2 DEF Truthful
<1>4. \A v \in Approvals!Pages : Truthful(e.page[v].copy, e)
  BY <1>1, <1>3 DEF DecisionGood
<1> QED BY <1>1, <1>2, <1>4 DEF DecisionGood, DecisionStands

\* Somebody does something on a page, and may send a request.
LEMMA HandKeeps ==
    ASSUME DecisionInv, NEW u \in Approvals!Pages, NEW page \in Approvals!Page, Truthful(page.copy, db),
           NEW open \in BOOLEAN, NEW e, e = [db EXCEPT !.open = open, !.page[u] = page], NEW S, Approvals!Hand(e, S),
           \A r \in S : CarriesTruth(r, db)
    PROVE  DecisionInv'
<1>1. db' = e /\ net' = [out |-> Approvals!(+)(net.out, Approvals!SetToBag(S)), made |-> net.made + 1]
  BY DEF Approvals!Hand
<1>2. DecisionGood(db') /\ DecisionStands(db, db')
  BY Zenon, <1>1, PageTurns DEF DecisionInv
<1>3. \A r \in S : CarriesTruth(r, db')
  BY <1>2, TruthStands
<1>4. DOMAIN net'.out \subseteq DOMAIN net.out \cup S /\ net' = [out |-> net'.out, made |-> net'.made]
  BY <1>1, DecisionBags
<1> QED BY <1>2, <1>3, <1>4, DecisionMoves

\* A request ends.
LEMMA EndsKeeps ==
    ASSUME DecisionInv, NEW r, NEW e, Approvals!Ends(r, e), DecisionGood(e), DecisionStands(db, e)
    PROVE  DecisionInv'
<1> DEFINE S == {}
<1>1. db' = e /\ net' = [out |-> Approvals!(-)(net.out, Approvals!SetToBag({r})), made |-> net.made]
  BY DEF Approvals!Ends, Approvals!Arrives, DecisionInv
<1>2. DOMAIN net'.out \subseteq DOMAIN net.out \cup S /\ net' = [out |-> net'.out, made |-> net'.made]
  BY <1>1, DecisionBags
<1>3. \A s \in S : CarriesTruth(s, db')
  OBVIOUS
<1>4. DecisionGood(db') /\ DecisionStands(db, db')
  BY <1>1
<1> HIDE DEF S
<1> QED BY <1>2, <1>3, <1>4, DecisionMoves

\* An answer arrives on a page.
LEMMA AnswerKeeps ==
    ASSUME DecisionInv, NEW u \in Approvals!Pages, NEW page \in Approvals!Page, Truthful(page.copy, db),
           NEW r, NEW e, e = [db EXCEPT !.open = db.open, !.page[u] = page], Approvals!Ends(r, e)
    PROVE  DecisionInv'
<1>1. DecisionGood(e) /\ DecisionStands(db, e)
  BY Zenon, PageTurns DEF DecisionInv, DecisionGood, DecisionDb
<1> QED BY <1>1, EndsKeeps

\* A request goes on as another one.
LEMMA BecomesKeeps ==
    ASSUME DecisionInv, NEW r, NEW next, NEW e, Approvals!Becomes(r, next, e), DecisionGood(e), DecisionStands(db, e),
           CarriesTruth(next, e)
    PROVE  DecisionInv'
<1> DEFINE S == {next}
<1>1. db' = e /\ net' = [out |-> Approvals!(+)(Approvals!(-)(net.out, Approvals!SetToBag({r})), Approvals!SetToBag({next})),
                         made |-> net.made]
  BY DEF Approvals!Becomes, DecisionInv
<1>2. DOMAIN net'.out \subseteq DOMAIN net.out \cup S /\ net' = [out |-> net'.out, made |-> net'.made]
  BY <1>1, DecisionBags
<1>3. (\A s \in S : CarriesTruth(s, db')) /\ DecisionGood(db') /\ DecisionStands(db, db')
  BY <1>1
<1> HIDE DEF S
<1> QED BY <1>2, <1>3, DecisionMoves

\* The shape of a page, and of what a person does on it.
LEMMA PageShape ==
    ASSUME DecisionInv, NEW u \in Approvals!Pages
    PROVE  /\ db.page[u] \in Approvals!Page /\ db.open \in BOOLEAN /\ Truthful(db.page[u].copy, db)
           /\ db = [db EXCEPT !.open = db.open, !.page[u] = db.page[u]]
BY DEF DecisionInv, DecisionGood, DecisionDb
\* What a request carries, whoever sends it.
LEMMA RequestsCarry ==
    \A u \in Approvals!Pages : \A copy, d :
        /\ CarriesTruth([op |-> "reject", by |-> u], d)
        /\ CarriesTruth([op |-> "fetch", by |-> u], d)
        /\ CarriesTruth([op |-> "rate", by |-> u], d)
        /\ Truthful(copy, d) =>
               /\ CarriesTruth([op |-> "approve", by |-> u, seen |-> copy], d)
               /\ CarriesTruth([op |-> "patch", by |-> u, seen |-> copy], d)
               /\ CarriesTruth([op |-> "refused", by |-> u, seen |-> copy], d)
               /\ CarriesTruth([op |-> "task", by |-> u, seen |-> copy, continue |-> FALSE], d)
               /\ CarriesTruth([op |-> "execute", by |-> u, seen |-> copy, continue |-> TRUE], d)
BY DEF CarriesTruth, Deciding, Running

\* What a person does on a page.
LEMMA OnApproveKeeps ==
    ASSUME DecisionInv, NEW u \in Approvals!Pages, Approvals!onApprove(u)
    PROVE  DecisionInv'
<1> DEFINE page == [db.page[u] EXCEPT !.dialog = "authorize", !.submitting = FALSE]
           e == [db EXCEPT !.open = db.open, !.page[u] = page]
           S == {}
<1>1. page \in Approvals!Page /\ (db.open) \in BOOLEAN
  BY ZenonT(40), PageShape DEF Approvals!Page, Approvals!Copy, NoArg, Approvals!NoArg
<1>2. Truthful(page.copy, db)
  BY Zenon, PageShape DEF Approvals!Page, Approvals!Copy, NoArg, Approvals!NoArg, Truthful, Approvals!showsExecuted
<1>3. Approvals!Hand(e, S)
  <2>1. db = [db EXCEPT !.open = db.open]
    BY DEF DecisionDb, DecisionInv, DecisionGood
  <2>2. e = [db EXCEPT !.page[u] = page]
    BY <2>1
  <2>3. e = [db EXCEPT !.page[u].dialog = "authorize", !.page[u].submitting = FALSE]
    BY <2>2 DEF DecisionDb, DecisionInv, DecisionGood
  <2> QED BY <2>3 DEF Approvals!onApprove
<1>4. \A r \in S : CarriesTruth(r, db)
  BY Zenon, PageShape, RequestsCarry
<1> HIDE DEF page, S
<1> QED BY Zenon, <1>1, <1>2, <1>3, <1>4, HandKeeps

LEMMA OnRequestRejectKeeps ==
    ASSUME DecisionInv, NEW u \in Approvals!Pages, Approvals!onRequestReject(u)
    PROVE  DecisionInv'
<1> DEFINE page == [db.page[u] EXCEPT !.dialog = "reject"]
           e == [db EXCEPT !.open = db.open, !.page[u] = page]
           S == {}
<1>1. page \in Approvals!Page /\ (db.open) \in BOOLEAN
  BY Zenon, PageShape DEF Approvals!Page, Approvals!Copy, NoArg, Approvals!NoArg
<1>2. Truthful(page.copy, db)
  BY Zenon, PageShape DEF Approvals!Page, Approvals!Copy, NoArg, Approvals!NoArg, Truthful, Approvals!showsExecuted
<1>3. Approvals!Hand(e, S)
  BY ZenonT(40), PageShape
     DEF Approvals!onRequestReject, Approvals!Of, Approvals!Page, NoArg, Approvals!NoArg, DecisionDb, DecisionInv, DecisionGood
<1>4. \A r \in S : CarriesTruth(r, db)
  BY Zenon, PageShape, RequestsCarry
<1> HIDE DEF page, S
<1> QED BY Zenon, <1>1, <1>2, <1>3, <1>4, HandKeeps

LEMMA OnCloseKeeps ==
    ASSUME DecisionInv, NEW u \in Approvals!Pages, Approvals!onClose(u)
    PROVE  DecisionInv'
<1> DEFINE page == [db.page[u] EXCEPT !.dialog = NoArg]
           e == [db EXCEPT !.open = db.open, !.page[u] = page]
           S == {}
<1>1. page \in Approvals!Page /\ (db.open) \in BOOLEAN
  BY ZenonT(40), PageShape DEF Approvals!Page, Approvals!Copy, NoArg, Approvals!NoArg
<1>2. Truthful(page.copy, db)
  BY Zenon, PageShape DEF Approvals!Page, Approvals!Copy, NoArg, Approvals!NoArg, Truthful, Approvals!showsExecuted
<1>3. Approvals!Hand(e, S)
  BY Zenon, PageShape
     DEF Approvals!onClose, Approvals!Of, Approvals!Page, NoArg, Approvals!NoArg, DecisionDb, DecisionInv, DecisionGood
<1>4. \A r \in S : CarriesTruth(r, db)
  BY Zenon, PageShape, RequestsCarry
<1> HIDE DEF page, S
<1> QED BY Zenon, <1>1, <1>2, <1>3, <1>4, HandKeeps

LEMMA ConfirmKeeps ==
    ASSUME DecisionInv, NEW u \in Approvals!Pages, Approvals!confirm(u)
    PROVE  DecisionInv'
<1> DEFINE page == [db.page[u] EXCEPT !.submitting = TRUE]
           e == [db EXCEPT !.open = db.open, !.page[u] = page]
           S == {[op |-> IF db.page[u].execute THEN "approve" ELSE "patch", by |-> u, seen |-> db.page[u].copy]}
<1>1. page \in Approvals!Page /\ (db.open) \in BOOLEAN
  BY ZenonT(40), PageShape DEF Approvals!Page, Approvals!Copy, NoArg, Approvals!NoArg
<1>2. Truthful(page.copy, db)
  BY Zenon, PageShape DEF Approvals!Page, Approvals!Copy, NoArg, Approvals!NoArg, Truthful, Approvals!showsExecuted
<1>3. Approvals!Hand(e, S)
  BY Zenon, PageShape
     DEF Approvals!confirm, Approvals!Of, Approvals!Page, NoArg, Approvals!NoArg, DecisionDb, DecisionInv, DecisionGood
<1>4. \A r \in S : CarriesTruth(r, db)
  <2>1. Truthful(db.page[u].copy, db)
    BY Zenon, PageShape
  <2>2. CASE db.page[u].execute
    <3>1. S = {[op |-> "approve", by |-> u, seen |-> db.page[u].copy]}
      BY <2>2
    <3> QED BY <2>1, <3>1, RequestsCarry
  <2>3. CASE ~db.page[u].execute
    <3>1. S = {[op |-> "patch", by |-> u, seen |-> db.page[u].copy]}
      BY <2>3
    <3> QED BY <2>1, <3>1, RequestsCarry
  <2> QED BY <2>2, <2>3
<1> HIDE DEF page, S
<1> QED BY Zenon, <1>1, <1>2, <1>3, <1>4, HandKeeps

LEMMA ConfirmRejectKeeps ==
    ASSUME DecisionInv, NEW u \in Approvals!Pages, Approvals!confirmReject(u)
    PROVE  DecisionInv'
<1> DEFINE page == [db.page[u] EXCEPT !.dialog = NoArg, !.copy = Approvals!turnedDown(@)]
           e == [db EXCEPT !.open = db.open, !.page[u] = page]
           S == {[op |-> "reject", by |-> u]}
<1>1. page \in Approvals!Page /\ (db.open) \in BOOLEAN
  BY ZenonT(40), PageShape DEF Approvals!Page, Approvals!Copy, NoArg, Approvals!NoArg, Approvals!turnedDown
<1>2. Truthful(page.copy, db)
  BY ZenonT(40), PageShape
     DEF Approvals!Page, Approvals!Copy, NoArg, Approvals!NoArg, Truthful, Approvals!showsExecuted, Approvals!turnedDown
<1>3. Approvals!Hand(e, S)
  <2>1. db = [db EXCEPT !.open = db.open]
    BY DEF DecisionDb, DecisionInv, DecisionGood
  <2>2. e = [db EXCEPT !.page[u] = page]
    BY <2>1
  <2> DEFINE shut == [db.page[u] EXCEPT !.dialog = NoArg]
  <2>3. [db EXCEPT !.page[u].dialog = NoArg] = [db EXCEPT !.page[u] = shut] /\ u \in DOMAIN db.page /\ db \in DecisionDb
    BY DEF DecisionDb, DecisionInv, DecisionGood
  <2>4. page = [shut EXCEPT !.copy = Approvals!turnedDown(shut.copy)]
    BY Zenon, PageShape DEF Approvals!Page
  <2> HIDE DEF shut, page
  <2>5. [[db EXCEPT !.page[u].dialog = NoArg] EXCEPT !.page[u].copy = Approvals!turnedDown(@)]
            = [db EXCEPT !.page[u] = [shut EXCEPT !.copy = Approvals!turnedDown(shut.copy)]]
    <3> DEFINE new == Approvals!turnedDown(shut.copy)
               once == [db EXCEPT !.page[u] = shut]
               twice == [once EXCEPT !.page[u].copy = new]
    <3> HIDE DEF new, once, twice
    <3>1. once.page[u] = shut /\ [once EXCEPT !.page[u].copy = new] = [db EXCEPT !.page[u] = [shut EXCEPT !.copy = new]]
      <4>1. once = [db EXCEPT !.page[u] = shut] /\ twice = [once EXCEPT !.page[u].copy = new]
        BY DEF once, twice
      <4>2. once.page[u] = shut /\ twice = [db EXCEPT !.page[u] = [shut EXCEPT !.copy = new]]
        <5>1. once.page = [db.page EXCEPT ![u] = shut] /\ once.page[u] = shut /\ DOMAIN once = DOMAIN db
              /\ \A f \in DOMAIN db \ {"page"} : once[f] = db[f]
          BY <2>3, <4>1 DEF DecisionDb
        <5>2. [once.page EXCEPT ![u] = [once.page[u] EXCEPT !.copy = new]]
                = [db.page EXCEPT ![u] = [shut EXCEPT !.copy = new]]
          BY <5>1
        <5> QED BY <4>1, <5>1, <5>2
      <4> QED BY <4>1, <4>2
    <3>2. [db EXCEPT !.page[u].dialog = NoArg] = once
      BY <2>3 DEF once
    <3>3. [once EXCEPT !.page[u].copy = Approvals!turnedDown(@)] = [once EXCEPT !.page[u].copy = new]
      BY <3>1 DEF new
    <3> QED BY <3>1, <3>2, <3>3 DEF new
  <2>6. e = [[db EXCEPT !.page[u].dialog = NoArg] EXCEPT !.page[u].copy = Approvals!turnedDown(@)]
    BY <2>2, <2>4, <2>5
  <2> QED BY <2>6 DEF Approvals!confirmReject, Approvals!reject, NoArg, Approvals!NoArg
<1>4. \A r \in S : CarriesTruth(r, db)
  BY Zenon, PageShape, RequestsCarry
<1> HIDE DEF page, S
<1> QED BY Zenon, <1>1, <1>2, <1>3, <1>4, HandKeeps

LEMMA ExecuteAuthorizedKeeps ==
    ASSUME DecisionInv, NEW u \in Approvals!Pages, Approvals!executeAuthorized(u)
    PROVE  DecisionInv'
<1> DEFINE page == db.page[u]
           e == [db EXCEPT !.open = db.open, !.page[u] = page]
           S == {[op |-> "task", by |-> u, seen |-> db.page[u].copy, continue |-> FALSE]}
<1>1. page \in Approvals!Page /\ (db.open) \in BOOLEAN
  BY Zenon, PageShape DEF Approvals!Page, Approvals!Copy, NoArg, Approvals!NoArg
<1>2. Truthful(page.copy, db)
  BY Zenon, PageShape DEF Approvals!Page, Approvals!Copy, NoArg, Approvals!NoArg, Truthful, Approvals!showsExecuted
<1>3. Approvals!Hand(e, S)
  BY Zenon, PageShape
     DEF Approvals!executeAuthorized, Approvals!Of, Approvals!Page, NoArg, Approvals!NoArg, DecisionDb, DecisionInv, DecisionGood
<1>4. \A r \in S : CarriesTruth(r, db)
  BY ZenonT(40), PageShape, RequestsCarry
<1> HIDE DEF page, S
<1> QED BY Zenon, <1>1, <1>2, <1>3, <1>4, HandKeeps

LEMMA ContinueSkillTurnKeeps ==
    ASSUME DecisionInv, NEW u \in Approvals!Pages, Approvals!continueSkillTurn(u)
    PROVE  DecisionInv'
<1> DEFINE page == db.page[u]
           e == [db EXCEPT !.open = db.open, !.page[u] = page]
           S == {[op |-> "execute", by |-> u, seen |-> db.page[u].copy, continue |-> TRUE]}
<1>1. page \in Approvals!Page /\ (db.open) \in BOOLEAN
  BY Zenon, PageShape DEF Approvals!Page, Approvals!Copy, NoArg, Approvals!NoArg
<1>2. Truthful(page.copy, db)
  BY Zenon, PageShape DEF Approvals!Page, Approvals!Copy, NoArg, Approvals!NoArg, Truthful, Approvals!showsExecuted
<1>3. Approvals!Hand(e, S)
  BY Zenon, PageShape
     DEF Approvals!continueSkillTurn, Approvals!Of, Approvals!Page, NoArg, Approvals!NoArg, DecisionDb, DecisionInv, DecisionGood
<1>4. \A r \in S : CarriesTruth(r, db)
  BY ZenonT(40), PageShape, RequestsCarry
<1> HIDE DEF page, S
<1> QED BY Zenon, <1>1, <1>2, <1>3, <1>4, HandKeeps

LEMMA FetchConversationKeeps ==
    ASSUME DecisionInv, NEW u \in Approvals!Pages, Approvals!fetchConversation(u)
    PROVE  DecisionInv'
<1> DEFINE page == db.page[u]
           e == [db EXCEPT !.open = db.open, !.page[u] = page]
           S == {[op |-> "fetch", by |-> u]}
<1>1. page \in Approvals!Page /\ (db.open) \in BOOLEAN
  BY Zenon, PageShape DEF Approvals!Page, Approvals!Copy, NoArg, Approvals!NoArg
<1>2. Truthful(page.copy, db)
  BY Zenon, PageShape DEF Approvals!Page, Approvals!Copy, NoArg, Approvals!NoArg, Truthful, Approvals!showsExecuted
<1>3. Approvals!Hand(e, S)
  BY Zenon, PageShape
     DEF Approvals!fetchConversation, Approvals!Of, Approvals!Page, NoArg, Approvals!NoArg, DecisionDb, DecisionInv, DecisionGood
<1>4. \A r \in S : CarriesTruth(r, db)
  BY Zenon, PageShape, RequestsCarry
<1> HIDE DEF page, S
<1> QED BY Zenon, <1>1, <1>2, <1>3, <1>4, HandKeeps

LEMMA SetCollaborationModeKeeps ==
    ASSUME DecisionInv, NEW u \in Approvals!Pages, Approvals!setCollaborationMode(u)
    PROVE  DecisionInv'
<1> DEFINE page == [db.page[u] EXCEPT !.execute = FALSE]
           e == [db EXCEPT !.open = FALSE, !.page[u] = page]
           S == {}
<1>1. page \in Approvals!Page /\ (FALSE) \in BOOLEAN
  BY ZenonT(40), PageShape DEF Approvals!Page, Approvals!Copy, NoArg, Approvals!NoArg
<1>2. Truthful(page.copy, db)
  BY Zenon, PageShape DEF Approvals!Page, Approvals!Copy, NoArg, Approvals!NoArg, Truthful, Approvals!showsExecuted
<1>3. Approvals!Hand(e, S)
  BY Zenon, PageShape
     DEF Approvals!setCollaborationMode, Approvals!Of, Approvals!Page, NoArg, Approvals!NoArg, DecisionDb, DecisionInv, DecisionGood
<1>4. \A r \in S : CarriesTruth(r, db)
  BY Zenon, PageShape, RequestsCarry
<1> HIDE DEF page, S
<1> QED BY Zenon, <1>1, <1>2, <1>3, <1>4, HandKeeps

LEMMA HandleSubmitKeeps ==
    ASSUME DecisionInv, NEW u \in Approvals!Pages, Approvals!handleSubmit(u)
    PROVE  DecisionInv'
<1> DEFINE page == [db.page[u] EXCEPT !.rating = TRUE]
           e == [db EXCEPT !.open = db.open, !.page[u] = page]
           S == {[op |-> "rate", by |-> u]}
<1>1. page \in Approvals!Page /\ (db.open) \in BOOLEAN
  BY ZenonT(40), PageShape DEF Approvals!Page, Approvals!Copy, NoArg, Approvals!NoArg
<1>2. Truthful(page.copy, db)
  BY Zenon, PageShape DEF Approvals!Page, Approvals!Copy, NoArg, Approvals!NoArg, Truthful, Approvals!showsExecuted
<1>3. Approvals!Hand(e, S)
  BY Zenon, PageShape
     DEF Approvals!handleSubmit, Approvals!Of, Approvals!Page, NoArg, Approvals!NoArg, DecisionDb, DecisionInv, DecisionGood
<1>4. \A r \in S : CarriesTruth(r, db)
  BY Zenon, PageShape, RequestsCarry
<1> HIDE DEF page, S
<1> QED BY Zenon, <1>1, <1>2, <1>3, <1>4, HandKeeps

LEMMA OnFeedbackKeeps ==
    ASSUME DecisionInv, NEW u \in Approvals!Pages, Approvals!onFeedback(u)
    PROVE  DecisionInv'
<1>0. db = [db EXCEPT !.open = db.open] /\ {} = {} /\ \A r \in {} : CarriesTruth(r, db)
  BY DEF DecisionDb, DecisionInv, DecisionGood
<1> DEFINE S == {}
<1>1. CASE Approvals!Hand([db EXCEPT !.page[u].dialog = "feedback", !.page[u].rating = FALSE], {})
  <2> DEFINE page == [db.page[u] EXCEPT !.dialog = "feedback", !.rating = FALSE]
             e == [db EXCEPT !.open = db.open, !.page[u] = page]
  <2>1. page \in Approvals!Page /\ db.open \in BOOLEAN /\ Truthful(page.copy, db)
    BY Zenon, PageShape DEF Approvals!Page
  <2>2. e = [db EXCEPT !.page[u] = page]
    BY <1>0
  <2>3. e = [db EXCEPT !.page[u].dialog = "feedback", !.page[u].rating = FALSE]
    BY <2>2 DEF DecisionDb, DecisionInv, DecisionGood
  <2>4. Approvals!Hand(e, S) /\ \A r \in S : CarriesTruth(r, db)
    BY <1>1, <2>3
  <2> HIDE DEF page, S
  <2> QED BY Zenon, <2>1, <2>4, HandKeeps
<1>2. CASE Approvals!Hand(Approvals!setFeedback(u, db, NoArg), {})
  <2> DEFINE page == [db.page[u] EXCEPT !.copy = Approvals!set_feedback(@, NoArg)]
             e == [db EXCEPT !.open = db.open, !.page[u] = page]
  <2>1. page \in Approvals!Page /\ db.open \in BOOLEAN /\ Truthful(page.copy, db)
    BY ZenonT(40), PageShape
       DEF Approvals!Page, Approvals!Copy, Approvals!set_feedback, Truthful, Approvals!showsExecuted,
                     NoArg, Approvals!NoArg
  <2>2. e = [db EXCEPT !.page[u] = page]
    BY <1>0
  <2>3. e = Approvals!setFeedback(u, db, NoArg)
    BY <2>2 DEF DecisionDb, DecisionInv, DecisionGood, Approvals!Page, Approvals!setFeedback
  <2>4. Approvals!Hand(e, S) /\ \A r \in S : CarriesTruth(r, db)
    BY <1>2, <2>3
  <2> HIDE DEF page, S
  <2> QED BY Zenon, <2>1, <2>4, HandKeeps
<1> QED BY Zenon, <1>1, <1>2 DEF Approvals!onFeedback, NoArg, Approvals!NoArg

\* What an answer does to the page that waits for it.
LEMMA Waited ==
    ASSUME DecisionInv, NEW r \in Approvals!BagToSet(net.out)
    PROVE  /\ CarriesTruth(r, db) /\ r.by \in Approvals!Pages
           /\ db.page[r.by] \in Approvals!Page /\ db.open \in BOOLEAN /\ Truthful(db.page[r.by].copy, db)
           /\ db = [db EXCEPT !.open = db.open] /\ r.by \in DOMAIN db.page
           /\ db.page[r.by] = [db.page[r.by] EXCEPT !.copy = db.page[r.by].copy]
BY DEF DecisionInv, DecisionGood, DecisionDb, CarriesTruth, Approvals!BagToSet, Approvals!Page

LEMMA ApproveKeeps ==
    ASSUME DecisionInv, NEW r \in Approvals!BagToSet(net.out), Approvals!approve(r)
    PROVE  DecisionInv'
<1> DEFINE page == [db.page[r.by] EXCEPT !.copy = Approvals!signedBy(r.seen), !.dialog = Approvals!NoArg, !.submitting = FALSE]
           e == [db EXCEPT !.open = db.open, !.page[r.by] = page]
<1>1. page \in Approvals!Page /\ Truthful(page.copy, db)
  <2>1. Truthful(r.seen, db) /\ Authorized(db)
    BY Waited DEF Approvals!approve, CarriesTruth, Deciding, Running
  <2>2. Truthful(Approvals!signedBy(r.seen), db)
    BY <2>1, Waited DEF Truthful, Approvals!Copy, Authorized, Approvals!showsExecuted, Approvals!signedBy
  <2>3. Truthful(page.copy, db)
    BY <2>2, Waited DEF Approvals!Page
  <2> QED BY Zenon, <2>2, <2>3, Waited DEF Approvals!Page, Truthful, NoArg, Approvals!NoArg
<1>2. e = [db EXCEPT !.page[r.by] = page]
  BY Waited
<1>3. e = [db EXCEPT !.page[r.by].copy = Approvals!signedBy(r.seen), !.page[r.by].dialog = Approvals!NoArg, !.page[r.by].submitting = FALSE]
  BY ZenonT(40), <1>2, Waited DEF Approvals!Page, NoArg, Approvals!NoArg, Approvals!signedBy
<1>4. Approvals!Ends(r, e) /\ r.by \in Approvals!Pages
  BY <1>3, Waited DEF Approvals!approve
<1> HIDE DEF page
<1> QED BY Zenon, <1>1, <1>4, AnswerKeeps

LEMMA RefusedKeeps ==
    ASSUME DecisionInv, NEW r \in Approvals!BagToSet(net.out), Approvals!refused(r)
    PROVE  DecisionInv'
<1> DEFINE page == [db.page[r.by] EXCEPT !.submitting = FALSE]
           e == [db EXCEPT !.open = db.open, !.page[r.by] = page]
<1>1. page \in Approvals!Page /\ Truthful(page.copy, db)
  BY ZenonT(40), Waited
     DEF Approvals!refused, Approvals!Page, Approvals!Copy, Truthful, CarriesTruth, Deciding, Running,
                Approvals!showsExecuted, NoArg, Approvals!NoArg
<1>2. e = [db EXCEPT !.page[r.by] = page]
  BY Waited
<1>3. e = [db EXCEPT !.page[r.by].submitting = FALSE]
  BY Zenon, <1>2, Waited DEF Approvals!Page, NoArg, Approvals!NoArg
<1>4. Approvals!Ends(r, e) /\ r.by \in Approvals!Pages
  BY <1>3, Waited DEF Approvals!refused
<1> HIDE DEF page
<1> QED BY Zenon, <1>1, <1>4, AnswerKeeps

LEMMA ExecutedKeeps ==
    ASSUME DecisionInv, NEW r \in Approvals!BagToSet(net.out), Approvals!executed(r)
    PROVE  DecisionInv'
<1> DEFINE page == [db.page[r.by] EXCEPT !.copy = Approvals!appendExecuteResultOnce(r.seen, r)]
           e == [db EXCEPT !.open = db.open, !.page[r.by] = page]
<1>1. page \in Approvals!Page /\ Truthful(page.copy, db)
  <2>1. Truthful(r.seen, db) /\ {r.continue, r.ok, r.more} \subseteq BOOLEAN /\ (r.ok => db.wins > 0)
    BY Waited DEF Approvals!executed, CarriesTruth, Deciding, Running
  <2>2. Truthful(Approvals!appendExecuteResultOnce(r.seen, r), db)
    BY ZenonT(40), <2>1, Waited
       DEF Truthful, Approvals!Copy, Authorized, Approvals!showsExecuted, Approvals!appendExecuteResultOnce
  <2>3. Truthful(page.copy, db)
    BY <2>2, Waited DEF Approvals!Page
  <2> QED BY Zenon, <2>2, <2>3, Waited DEF Approvals!Page, Truthful, NoArg, Approvals!NoArg
<1>2. e = [db EXCEPT !.page[r.by] = page]
  BY Waited
<1>3. e = [db EXCEPT !.page[r.by].copy = Approvals!appendExecuteResultOnce(r.seen, r)]
  BY Zenon, <1>2, Waited DEF Approvals!Page, NoArg, Approvals!NoArg, Approvals!appendExecuteResultOnce
<1>4. Approvals!Ends(r, e) /\ r.by \in Approvals!Pages
  BY <1>3, Waited DEF Approvals!executed
<1> HIDE DEF page
<1> QED BY Zenon, <1>1, <1>4, AnswerKeeps

LEMMA MergeMessagePairKeeps ==
    ASSUME DecisionInv, NEW r \in Approvals!BagToSet(net.out), Approvals!mergeMessagePair(r)
    PROVE  DecisionInv'
<1> DEFINE page == [db.page[r.by] EXCEPT !.copy = [@ EXCEPT !.decision = r.msg.decision, !.marker = r.msg.marker, !.failed = r.msg.failed]]
           e == [db EXCEPT !.open = db.open, !.page[r.by] = page]
<1>1. page \in Approvals!Page /\ Truthful(page.copy, db)
  <2>1. /\ r.msg.decision \in {"pending", "approved", "rejected"} /\ {r.msg.marker, r.msg.failed} \subseteq BOOLEAN
        /\ r.msg.decision = "approved" => Authorized(db)
        /\ r.msg.marker /\ ~r.msg.failed => db.wins > 0
    BY Waited DEF Approvals!mergeMessagePair, CarriesTruth, Deciding, Running
  <2>2. Truthful([db.page[r.by].copy EXCEPT !.decision = r.msg.decision, !.marker = r.msg.marker, !.failed = r.msg.failed], db)
    BY <2>1, Waited DEF Truthful, Approvals!Copy, Authorized, Approvals!showsExecuted
  <2>3. Truthful(page.copy, db)
    BY <2>2, Waited DEF Approvals!Page
  <2> QED BY Zenon, <2>2, <2>3, Waited DEF Approvals!Page, Truthful, NoArg, Approvals!NoArg
<1>2. e = [db EXCEPT !.page[r.by] = page]
  BY Waited
<1>3. e = [db EXCEPT !.page[r.by].copy = [@ EXCEPT !.decision = r.msg.decision, !.marker = r.msg.marker, !.failed = r.msg.failed]]
  BY Zenon, <1>2, Waited DEF Approvals!Page, NoArg, Approvals!NoArg
<1>4. Approvals!Ends(r, e) /\ r.by \in Approvals!Pages
  BY <1>3, Waited DEF Approvals!mergeMessagePair
<1> HIDE DEF page
<1> QED BY Zenon, <1>1, <1>4, AnswerKeeps

LEMMA OnSubmitKeeps ==
    ASSUME DecisionInv, NEW r \in Approvals!BagToSet(net.out), Approvals!onSubmit(r)
    PROVE  DecisionInv'
<1> DEFINE page == [db.page[r.by] EXCEPT !.rating = FALSE, !.dialog = Approvals!NoArg, !.copy = Approvals!set_feedback(@, "dislike")]
           e == [db EXCEPT !.open = db.open, !.page[r.by] = page]
<1>1. page \in Approvals!Page /\ Truthful(page.copy, db)
  <2>1. TRUE
    BY Waited DEF Approvals!onSubmit, CarriesTruth, Deciding, Running
  <2>2. Truthful(Approvals!set_feedback(db.page[r.by].copy, "dislike"), db)
    BY <2>1, Waited DEF Truthful, Approvals!Copy, Authorized, Approvals!showsExecuted, Approvals!set_feedback
  <2>3. Truthful(page.copy, db)
    BY <2>2, Waited DEF Approvals!Page
  <2> QED BY Zenon, <2>2, <2>3, Waited DEF Approvals!Page, Truthful, NoArg, Approvals!NoArg
<1>2. e = [db EXCEPT !.page[r.by] = page]
  BY Waited
<1>3. e = Approvals!setFeedback(r.by, [db EXCEPT !.page[r.by].rating = FALSE, !.page[r.by].dialog = Approvals!NoArg], "dislike")
  <2>1. db.page[r.by] \in Approvals!Page /\ r.by \in DOMAIN db.page /\ db \in DecisionDb
    BY Waited DEF DecisionInv, DecisionGood
  <2> DEFINE closed == [db EXCEPT !.page[r.by].rating = FALSE, !.page[r.by].dialog = Approvals!NoArg]
             shut == [db.page[r.by] EXCEPT !.rating = FALSE, !.dialog = Approvals!NoArg]
  <2>2. closed = [db EXCEPT !.page[r.by] = shut]
    BY <2>1 DEF Approvals!Page, DecisionDb
  <2>3. shut.copy = db.page[r.by].copy
    BY <2>1 DEF Approvals!Page
  <2>4. page = [shut EXCEPT !.copy = Approvals!set_feedback(shut.copy, "dislike")]
    BY <2>1, <2>3 DEF Approvals!Page
  <2> HIDE DEF shut, page
  <2>5. [closed EXCEPT !.page[r.by].copy = Approvals!set_feedback(@, "dislike")]
            = [db EXCEPT !.page[r.by] = [shut EXCEPT !.copy = Approvals!set_feedback(shut.copy, "dislike")]]
    <3> DEFINE new == Approvals!set_feedback(shut.copy, "dislike")
               once == [db EXCEPT !.page[r.by] = shut]
               twice == [once EXCEPT !.page[r.by].copy = new]
    <3> HIDE DEF new, once, twice
    <3>1. once.page[r.by] = shut
          /\ [once EXCEPT !.page[r.by].copy = new] = [db EXCEPT !.page[r.by] = [shut EXCEPT !.copy = new]]
      <4>1. once = [db EXCEPT !.page[r.by] = shut] /\ twice = [once EXCEPT !.page[r.by].copy = new]
        BY DEF once, twice
      <4>2. once.page[r.by] = shut /\ twice = [db EXCEPT !.page[r.by] = [shut EXCEPT !.copy = new]]
        <5>1. once.page = [db.page EXCEPT ![r.by] = shut] /\ once.page[r.by] = shut /\ DOMAIN once = DOMAIN db
              /\ \A f \in DOMAIN db \ {"page"} : once[f] = db[f]
          BY <2>1, <4>1, Waited DEF DecisionDb
        <5>2. [once.page EXCEPT ![r.by] = [once.page[r.by] EXCEPT !.copy = new]]
                = [db.page EXCEPT ![r.by] = [shut EXCEPT !.copy = new]]
          BY <5>1
        <5> QED BY <4>1, <5>1, <5>2
      <4> QED BY <4>1, <4>2
    <3>2. [once EXCEPT !.page[r.by].copy = Approvals!set_feedback(@, "dislike")] = [once EXCEPT !.page[r.by].copy = new]
      BY <3>1 DEF new
    <3> QED BY <2>2, <3>1, <3>2 DEF once, new
  <2> QED BY <1>2, <2>4, <2>5 DEF Approvals!setFeedback
<1>4. Approvals!Ends(r, e) /\ r.by \in Approvals!Pages
  BY <1>3, Waited DEF Approvals!onSubmit
<1> HIDE DEF page
<1> QED BY Zenon, <1>1, <1>4, AnswerKeeps

LEMMA PatchSessionRemoteKeeps ==
    ASSUME DecisionInv, NEW r \in Approvals!BagToSet(net.out), Approvals!patchSessionRemote(r)
    PROVE  DecisionInv'
<1>1. PICK arrived \in BOOLEAN :
        Approvals!Becomes(r, [r EXCEPT !.op = "approve"], [db EXCEPT !.open = @ \/ arrived, !.page[r.by].execute = TRUE])
  BY Zenon DEF Approvals!patchSessionRemote
<1> DEFINE page == [db.page[r.by] EXCEPT !.execute = TRUE]
           e == [db EXCEPT !.open = db.open \/ arrived, !.page[r.by] = page]
           next == [op |-> "approve", by |-> r.by, seen |-> r.seen]
<1>2. page \in Approvals!Page /\ Truthful(page.copy, db) /\ (db.open \/ arrived) \in BOOLEAN
  BY Waited DEF Approvals!Page
<1>3. e = [db EXCEPT !.open = @ \/ arrived, !.page[r.by].execute = TRUE]
  BY Waited
<1>4. [r EXCEPT !.op = "approve"] = next /\ Truthful(r.seen, db)
  <2>1. r.op = "patch" /\ r = [op |-> r.op, by |-> r.by, seen |-> r.seen] /\ Truthful(r.seen, db)
    BY Waited DEF Approvals!patchSessionRemote, CarriesTruth, Deciding
  <2> QED BY <2>1
<1>5. CarriesTruth(next, db)
  BY <1>4, Waited, RequestsCarry
<1>6. Approvals!Becomes(r, next, e)
  BY <1>1, <1>3, <1>4
<1>7. r.by \in Approvals!Pages
  BY Waited
<1> HIDE DEF page, next
<1>8. DecisionGood(e) /\ DecisionStands(db, e)
  BY Zenon, <1>2, <1>7, PageTurns DEF DecisionInv
<1>9. CarriesTruth(next, e)
  BY <1>5, <1>8, TruthStands
<1> HIDE DEF e
<1> QED BY <1>6, <1>8, <1>9, BecomesKeeps

\* The server's side: what a route changes, and what goes back.
LEMMA RouteGoes ==
    ASSUME DecisionInv, NEW e \in DecisionDb, e.page = db.page, DecisionStands(db, e),
           e.status \in {"approved", "executed"} => Authorized(e), e.wins > 0 => Authorized(e),
           e.marker /\ ~e.failed => e.wins > 0
    PROVE  DecisionGood(e)
BY TruthStands DEF DecisionInv, DecisionGood

LEMMA ApproveActionKeeps ==
    ASSUME DecisionInv, NEW r \in Approvals!BagToSet(net.out), Approvals!approveAction(r)
    PROVE  DecisionInv'
<1>0. /\ db \in DecisionDb /\ r.op = "approve" /\ r = [op |-> r.op, by |-> r.by, seen |-> r.seen] /\ Truthful(r.seen, db)
      /\ r.by \in Approvals!Pages
  BY Waited DEF Approvals!approveAction, CarriesTruth, Deciding, DecisionInv, DecisionGood
<1>1. CASE /\ Approvals!Decides(r)
           /\ \E answer \in {"approved", "refused"} :
                  Approvals!Becomes(r, [r EXCEPT !.op = answer], [db EXCEPT !.status = "approved", !.by = r.by])
  <2>1. PICK answer \in {"approved", "refused"} :
            Approvals!Becomes(r, [r EXCEPT !.op = answer], [db EXCEPT !.status = "approved", !.by = r.by])
    BY <1>1
  <2> DEFINE e == [db EXCEPT !.status = "approved", !.by = r.by]
             next == [op |-> answer, by |-> r.by, seen |-> r.seen]
  <2>2. /\ e \in DecisionDb /\ e.status = "approved" /\ e.by = r.by /\ e.page = db.page /\ e.wins = db.wins
        /\ e.marker = db.marker /\ e.failed = db.failed /\ e.requester = db.requester
    BY <1>0 DEF DecisionDb
  <2>3. Authorized(e)
    BY Zenon, <1>1, <2>2
       DEF Approvals!Decides, Approvals!canApproveActionLocked, Authorized, MayAuthorize, NoArg, Approvals!NoArg
  <2>4. DecisionStands(db, e) /\ (db.marker /\ ~db.failed => db.wins > 0)
    BY <2>2, <2>3 DEF DecisionStands, DecisionInv, DecisionGood
  <2>5. DecisionGood(e)
    BY <2>2, <2>3, <2>4, RouteGoes
  <2>6. CarriesTruth(next, e)
    BY <1>0, <2>3, <2>4, TruthStands DEF CarriesTruth, Deciding, Running
  <2>7. Approvals!Becomes(r, next, e)
    <3>1. [r EXCEPT !.op = answer] = next
      BY <1>0
    <3> QED BY <2>1, <3>1
  <2> HIDE DEF e, next
  <2> QED BY <2>4, <2>5, <2>6, <2>7, BecomesKeeps
<1>2. CASE Approvals!Becomes(r, [r EXCEPT !.op = "refused"], db)
  <2> DEFINE next == [op |-> "refused", by |-> r.by, seen |-> r.seen]
  <2>1. [r EXCEPT !.op = "refused"] = next
    BY <1>0
  <2>2. CarriesTruth(next, db)
    BY <1>0, RequestsCarry
  <2>3. DecisionGood(db) /\ DecisionStands(db, db)
    BY DEF DecisionInv, DecisionStands
  <2> HIDE DEF next
  <2> QED BY <1>2, <2>1, <2>2, <2>3, BecomesKeeps
<1> QED BY <1>1, <1>2 DEF Approvals!approveAction

LEMMA RejectActionKeeps ==
    ASSUME DecisionInv, NEW r \in Approvals!BagToSet(net.out), Approvals!rejectAction(r)
    PROVE  DecisionInv'
<1>0. db \in DecisionDb /\ r.by \in Approvals!Pages /\ (db.marker /\ ~db.failed => db.wins > 0)
      /\ (db.wins > 0 => Authorized(db)) /\ DecisionGood(db) /\ DecisionStands(db, db)
  BY Waited DEF DecisionInv, DecisionGood, DecisionStands
<1> DEFINE e == [db EXCEPT !.status = "rejected", !.by = r.by]
<1>1. CASE Approvals!Decides(r)
  <2>1. db.status = "pending" /\ ~Authorized(db)
    BY <1>1 DEF Approvals!Decides, Authorized
  <2>2. /\ e \in DecisionDb /\ e.status = "rejected" /\ e.page = db.page /\ e.wins = db.wins
        /\ e.marker = db.marker /\ e.failed = db.failed
    BY <1>0 DEF DecisionDb
  <2>3. DecisionStands(db, e)
    BY <2>1, <2>2 DEF DecisionStands
  <2>4. DecisionGood(e)
    BY <1>0, <2>1, <2>2, <2>3, RouteGoes
  <2>5. Approvals!Ends(r, e)
    BY <1>1 DEF Approvals!rejectAction
  <2> HIDE DEF e
  <2> QED BY <2>3, <2>4, <2>5, EndsKeeps
<1>2. CASE ~Approvals!Decides(r)
  <2>1. Approvals!Ends(r, db)
    BY <1>2 DEF Approvals!rejectAction
  <2> QED BY <1>0, <2>1, EndsKeeps
<1> QED BY <1>1, <1>2

LEMMA CreateTaskKeeps ==
    ASSUME DecisionInv, NEW r \in Approvals!BagToSet(net.out), Approvals!createTask(r)
    PROVE  DecisionInv'
<1>0. /\ r = [op |-> r.op, by |-> r.by, seen |-> r.seen, continue |-> r.continue] /\ r.continue \in BOOLEAN
      /\ Truthful(r.seen, db) /\ r.by \in Approvals!Pages /\ DecisionGood(db) /\ DecisionStands(db, db)
  BY Waited DEF DecisionInv, DecisionStands, CarriesTruth, Approvals!createTask, Running
<1>1. CASE Approvals!Becomes(r, [r EXCEPT !.op = "execute"], [db EXCEPT !.tasks = @ + 1])
  <2> DEFINE e == [db EXCEPT !.tasks = @ + 1]
             next == [op |-> "execute", by |-> r.by, seen |-> r.seen, continue |-> r.continue]
  <2>1. /\ e \in DecisionDb /\ e.status = db.status /\ e.by = db.by /\ e.page = db.page /\ e.wins = db.wins
        /\ e.marker = db.marker /\ e.failed = db.failed /\ e.requester = db.requester
    BY <1>0 DEF DecisionDb, DecisionGood
  <2>2. DecisionStands(db, e) /\ (Authorized(db) => Authorized(e))
    BY <2>1 DEF DecisionStands, Authorized, MayAuthorize
  <2>3. DecisionGood(e)
    BY <1>0, <2>1, <2>2, RouteGoes DEF DecisionGood
  <2>4. CarriesTruth(next, e)
    BY <1>0, <2>2, TruthStands DEF CarriesTruth, Deciding, Running
  <2>5. [r EXCEPT !.op = "execute"] = next
    BY <1>0
  <2> HIDE DEF e, next
  <2> QED BY <1>1, <2>2, <2>3, <2>4, <2>5, BecomesKeeps DEF e
<1>2. CASE Approvals!Ends(r, db)
  BY <1>0, <1>2, EndsKeeps
<1> QED BY <1>1, <1>2 DEF Approvals!createTask

LEMMA ExecuteActionKeeps ==
    ASSUME DecisionInv, NEW r \in Approvals!BagToSet(net.out), Approvals!executeAction(r)
    PROVE  DecisionInv'
<1>0. /\ r.op = "execute" /\ r.continue \in BOOLEAN /\ Truthful(r.seen, db) /\ r.by \in Approvals!Pages
      /\ DecisionGood(db) /\ DecisionStands(db, db) /\ db \in DecisionDb
  BY Zenon, Waited DEF DecisionInv, DecisionGood, DecisionStands, CarriesTruth, Approvals!executeAction, Running
<1>1. CASE /\ Approvals!MayExecute(r)
           /\ \E ok, more \in BOOLEAN :
                  Approvals!Becomes(r, Approvals!Executed(r, ok, more),
                         [db EXCEPT !.status = IF ok THEN "executed" ELSE "approved", !.wins = IF ok THEN @ + 1 ELSE @,
                                    !.marker = TRUE, !.failed = ~ok, !.more = more])
  <2>1. PICK ok \in BOOLEAN, more \in BOOLEAN :
                  Approvals!Becomes(r, Approvals!Executed(r, ok, more),
                         [db EXCEPT !.status = IF ok THEN "executed" ELSE "approved", !.wins = IF ok THEN @ + 1 ELSE @,
                                    !.marker = TRUE, !.failed = ~ok, !.more = more])
    BY Zenon, <1>1
  <2> DEFINE e == [db EXCEPT !.status = IF ok THEN "executed" ELSE "approved", !.wins = IF ok THEN @ + 1 ELSE @,
                                    !.marker = TRUE, !.failed = ~ok, !.more = more]
             next == Approvals!Executed(r, ok, more)
  <2>2. Authorized(db)
    BY <1>0, <1>1 DEF Approvals!MayExecute, DecisionGood
  <2>3. db.wins \in Nat
    BY <1>0 DEF DecisionDb
  <2> DEFINE wins == IF ok THEN db.wins + 1 ELSE db.wins
             status == IF ok THEN "executed" ELSE "approved"
  <2>m. wins \in Nat /\ (ok => wins > 0) /\ (db.wins > 0 => wins > 0) /\ status \in {"approved", "executed"}
    BY <2>3
  <2>n. e = [db EXCEPT !.status = status, !.wins = wins, !.marker = TRUE, !.failed = ~ok, !.more = more]
    OBVIOUS
  <2> HIDE DEF wins, status
  <2>4. /\ e \in DecisionDb /\ e.status \in {"approved", "executed"} /\ e.by = db.by /\ e.page = db.page
        /\ e.wins = wins /\ e.failed = ~ok /\ e.requester = db.requester
    <3> HIDE DEF e
    <3> QED BY <1>0, <2>m, <2>n DEF DecisionDb
  <2>5. Authorized(e)
    BY <2>2, <2>4 DEF Authorized, MayAuthorize
  <2>6. (ok => e.wins > 0) /\ (db.wins > 0 => e.wins > 0)
    BY <2>m, <2>4
  <2>7. DecisionStands(db, e)
    BY <2>5, <2>6 DEF DecisionStands
  <2>8. DecisionGood(e)
    BY <2>4, <2>5, <2>6, <2>7, RouteGoes
  <2>9. CarriesTruth(next, e)
    BY <1>0, <2>6, <2>7, TruthStands DEF CarriesTruth, Deciding, Running, Approvals!Executed
  <2>10. Approvals!Becomes(r, next, e)
    BY <2>1
  <2> HIDE DEF e, next
  <2> QED BY <2>7, <2>8, <2>9, <2>10, BecomesKeeps
<1>2. CASE Approvals!Becomes(r, Approvals!Executed(r, FALSE, FALSE), db)
  <2> DEFINE next == Approvals!Executed(r, FALSE, FALSE)
  <2>1. CarriesTruth(next, db)
    BY <1>0 DEF CarriesTruth, Deciding, Running, Approvals!Executed
  <2> HIDE DEF next
  <2> QED BY <1>0, <1>2, <2>1, BecomesKeeps DEF next
<1> QED BY ZenonT(40), <1>1, <1>2 DEF Approvals!executeAction

LEMMA GetConversationKeeps ==
    ASSUME DecisionInv, NEW r \in Approvals!BagToSet(net.out), Approvals!getConversation(r)
    PROVE  DecisionInv'
<1> DEFINE next == [op |-> "fetched", by |-> r.by, msg |-> Approvals!ofServer]
<1>1. /\ r.by \in Approvals!Pages /\ DecisionGood(db) /\ DecisionStands(db, db) /\ db \in DecisionDb
  BY Waited DEF DecisionInv, DecisionGood, DecisionStands
<1>2. CarriesTruth(next, db)
  BY <1>1 DEF CarriesTruth, Deciding, Running, Approvals!ofServer, DecisionGood, DecisionDb
<1>3. Approvals!Becomes(r, next, db)
  BY DEF Approvals!getConversation
<1> HIDE DEF next
<1> QED BY <1>1, <1>2, <1>3, BecomesKeeps

LEMMA DecisionsInit == Approvals!Init => DecisionInv
<1> SUFFICES ASSUME Approvals!Init PROVE DecisionInv
  OBVIOUS
<1> DEFINE copy == [decision |-> "pending", linked |-> FALSE, marker |-> FALSE, failed |-> FALSE, more |-> FALSE,
                    feedback |-> Approvals!NoArg]
<1>1. PICK requester \in Approvals!Requesters, execute \in BOOLEAN :
        db = [requester |-> requester, status |-> "pending", by |-> Approvals!NoArg, open |-> execute, tasks |-> 0, wins |-> 0,
             marker |-> FALSE, failed |-> FALSE, more |-> FALSE,
             page |-> [u \in Approvals!Pages |->
                [copy |-> copy, dialog |-> Approvals!NoArg, submitting |-> FALSE, execute |-> execute, rating |-> FALSE]]]
  BY DEF Approvals!Init
<1>2. copy \in Approvals!Copy /\ copy.decision = "pending" /\ ~copy.marker
  BY DEF Approvals!Copy
<1> HIDE DEF copy
<1>3. db \in DecisionDb
  BY Zenon, <1>1, <1>2 DEF DecisionDb, Approvals!Page, NoArg, Approvals!NoArg
<1>4. \A u \in Approvals!Pages : Truthful(db.page[u].copy, db)
  BY <1>1, <1>2 DEF Truthful, Approvals!showsExecuted
<1>5. DecisionGood(db)
  <2>1. db.status = "pending" /\ db.wins = 0 /\ ~db.marker
    BY <1>1
  <2> QED BY <2>1, <1>3, <1>4 DEF DecisionGood
<1>6. net = [out |-> net.out, made |-> net.made] /\ DOMAIN net.out = {}
  BY DEF Approvals!Init, Approvals!NetInit, Approvals!EmptyBag, Approvals!SetToBag
<1> QED BY <1>5, <1>6 DEF DecisionInv

LEMMA DecisionsNext == DecisionInv /\ [Approvals!Next]_<<db, net>> => DecisionInv'
<1> SUFFICES ASSUME DecisionInv, [Approvals!Next]_<<db, net>> PROVE DecisionInv'
  OBVIOUS
<1>1. CASE \E u \in Approvals!Pages :
           \/ Approvals!onApprove(u) \/ Approvals!onRequestReject(u) \/ Approvals!onClose(u) \/ Approvals!confirm(u)
           \/ Approvals!confirmReject(u) \/ Approvals!executeAuthorized(u) \/ Approvals!continueSkillTurn(u)
           \/ Approvals!fetchConversation(u) \/ Approvals!setCollaborationMode(u)
           \/ Approvals!onFeedback(u) \/ Approvals!handleSubmit(u)
  BY <1>1, OnApproveKeeps, OnRequestRejectKeeps, OnCloseKeeps, ConfirmKeeps, ConfirmRejectKeeps,
     ExecuteAuthorizedKeeps, ContinueSkillTurnKeeps, FetchConversationKeeps, SetCollaborationModeKeeps,
     OnFeedbackKeeps, HandleSubmitKeeps
<1>2. CASE \E r \in Approvals!BagToSet(net.out) :
           \/ Approvals!patchSessionRemote(r) \/ Approvals!approveAction(r) \/ Approvals!approve(r)
           \/ Approvals!refused(r) \/ Approvals!rejectAction(r)
           \/ Approvals!createTask(r) \/ Approvals!executeAction(r) \/ Approvals!executed(r)
           \/ Approvals!getConversation(r) \/ Approvals!mergeMessagePair(r) \/ Approvals!onSubmit(r)
  BY <1>2, PatchSessionRemoteKeeps, ApproveActionKeeps, ApproveKeeps, RefusedKeeps, RejectActionKeeps,
     CreateTaskKeeps, ExecuteActionKeeps, ExecutedKeeps, GetConversationKeeps, MergeMessagePairKeeps, OnSubmitKeeps
<1>3. CASE UNCHANGED <<db, net>>
  BY <1>3 DEF DecisionInv, DecisionGood, Truthful, CarriesTruth, Authorized, MayAuthorize
<1> QED BY <1>1, <1>2, <1>3 DEF Approvals!Next

LEMMA DecisionsHold == DecisionInv => Approvals!ShownAuthorized /\ Approvals!ShownExecuted
<1> SUFFICES ASSUME DecisionInv PROVE Approvals!ShownAuthorized /\ Approvals!ShownExecuted
  OBVIOUS
<1>1. (\E u \in Approvals!Pages : db.page[u].copy.decision = "approved") \/ db.wins > 0 => Authorized(db)
  BY DEF DecisionInv, DecisionGood, Truthful
<1>2. Approvals!ShownAuthorized
  BY Zenon, <1>1
     DEF Approvals!ShownAuthorized, Approvals!Of, Authorized, MayAuthorize, Approvals!canApproveActionLocked,
              NoArg, Approvals!NoArg
<1>3. Approvals!ShownExecuted
  BY DEF DecisionInv, DecisionGood, Truthful, Approvals!ShownExecuted, Approvals!Of
<1> QED BY <1>2, <1>3

\* No page shows a write as authorized that nobody who may authorized, nor as
\* executed before it ran, whichever copy of the message an answer brings.
THEOREM DecisionsAreShown ==
    Approvals!Init /\ [][Approvals!Next]_<<db, net>> => [](Approvals!ShownAuthorized /\ Approvals!ShownExecuted)
BY DecisionsInit, DecisionsNext, DecisionsHold, PTL

-----------------------------------------------------------------------------
(* The microphone and the camera: a capture goes its way alone, and what it *)
(* keeps is its own.                                                        *)

Media == INSTANCE CopilotMedia

Stages == {"unused", "asking", "recording", "drawing", "read", "rejected", "reported"}

Capture == [source : Media!Devices \cup {NoArg}, stage : Stages, holds : BOOLEAN]

KeptMedia == [of : Media!Captures, size : {"small"}]

MediaShape ==
    /\ db = [mark |-> db.mark, able |-> db.able, capture |-> db.capture, media |-> db.media]
    /\ db.capture \in [Media!Captures -> Capture] /\ db.media \in Seq(KeptMedia) /\ net \in 0..MaxCaptures

MediaInv ==
    /\ MediaShape
    /\ \A c \in Media!Captures : /\ db.capture[c].stage = "reported" => ~db.capture[c].holds
                                 /\ c > net => db.capture[c].stage = "unused"
    /\ \A i \in DOMAIN db.media : db.capture[db.media[i].of].stage = "reported"
    /\ \A i, j \in DOMAIN db.media : db.media[i].of = db.media[j].of => i = j

LEMMA KeptOnes == \A media \in Seq(KeptMedia) : \A i \in DOMAIN media : media[i].of \in Media!Captures /\ media[i].size = "small"
<1> SUFFICES ASSUME NEW media \in Seq(KeptMedia), NEW i \in DOMAIN media PROVE media[i] \in KeptMedia
  BY DEF KeptMedia
<1>1. i \in 1..Len(media)
  OBVIOUS
<1> QED BY <1>1, ElementOfSeq

\* A capture that did not report goes on.
LEMMA CaptureGoes ==
    ASSUME MediaInv, NEW c \in Media!Captures, NEW k \in Capture, db.capture[c].stage # "reported", net' \in 0..MaxCaptures,
           NEW media \in Seq(KeptMedia), \A i \in DOMAIN media : media[i].of = c => k.stage = "reported",
           \A i \in DOMAIN media : media[i].of # c => db.capture[media[i].of].stage = "reported",
           \A i, j \in DOMAIN media : media[i].of = media[j].of => i = j,
           NEW mark, NEW able, db' = [mark |-> mark, able |-> able, capture |-> [db.capture EXCEPT ![c] = k], media |-> media],
           k.stage = "reported" => ~k.holds, c <= net', \A d \in Media!Captures : d > net' => d > net
    PROVE  MediaInv'
<1>1. /\ db'.capture \in [Media!Captures -> Capture] /\ db'.capture[c] = k /\ db'.media = media
      /\ \A d \in Media!Captures : d # c => db'.capture[d] = db.capture[d]
  BY DEF MediaInv, MediaShape
<1>2. MediaShape'
  BY <1>1 DEF MediaShape
<1>3. \A d \in Media!Captures : db'.capture[d].stage = "reported" => ~db'.capture[d].holds
  BY <1>1 DEF MediaInv
<1>4. \A d \in Media!Captures : d > net' => db'.capture[d].stage = "unused"
  <2> SUFFICES ASSUME NEW d \in Media!Captures, d > net' PROVE db'.capture[d].stage = "unused"
    OBVIOUS
  <2>1. d # c /\ d > net
    BY DEF Media!Captures
  <2> QED BY <1>1, <2>1 DEF MediaInv
<1>5. \A i \in DOMAIN media : media[i].of \in Media!Captures
  BY KeptOnes
<1>6. \A i \in DOMAIN media : db'.capture[media[i].of].stage = "reported"
  BY <1>1, <1>5
<1> QED BY <1>1, <1>2, <1>3, <1>4, <1>6 DEF MediaInv

\* The same for a step of a capture that keeps nothing.
LEMMA CaptureSteps ==
    ASSUME MediaInv, NEW c \in Media!Captures, NEW k \in Capture, db.capture[c].stage \notin {"reported", "unused"},
           net' = net, NEW mark, k.stage = "reported" => ~k.holds,
           db' = [mark |-> mark, able |-> db.able, capture |-> [db.capture EXCEPT ![c] = k], media |-> db.media]
    PROVE  MediaInv'
<1>1. db.media \in Seq(KeptMedia) /\ net \in 0..MaxCaptures /\ c <= net
  <2>1. net \in 0..MaxCaptures /\ ~(c > net) /\ c \in 1..MaxCaptures
    BY DEF MediaInv, MediaShape, Media!Captures
  <2> QED BY <2>1 DEF MediaInv, MediaShape
<1>2. \A i \in DOMAIN db.media : db.media[i].of # c /\ db.capture[db.media[i].of].stage = "reported"
  BY DEF MediaInv
<1>3. \A i, j \in DOMAIN db.media : db.media[i].of = db.media[j].of => i = j
  BY DEF MediaInv
<1> QED BY <1>1, <1>2, <1>3, CaptureGoes

LEMMA CapturesKeep ==
    ASSUME MediaInv, NEW c \in Media!Captures,
           \/ Media!notSupported(c) \/ Media!getUserMedia(c) \/ Media!recorderStops(c) \/ Media!recorderErrors(c)
           \/ Media!drawImage(c) \/ Media!drawFails(c) \/ Media!readFails(c)
    PROVE  MediaInv'
<1>1. /\ db = [mark |-> db.mark, able |-> db.able, capture |-> db.capture, media |-> db.media]
      /\ db.capture[c] \in Capture /\ c \in DOMAIN db.capture
  BY DEF MediaInv, MediaShape
<1>2. ASSUME NEW stage \in Stages, NEW holds \in BOOLEAN, Media!Goes(c, stage, holds), stage # "reported"
      PROVE  db' = [mark |-> db.mark, able |-> db.able, media |-> db.media,
                    capture |-> [db.capture EXCEPT ![c] = [db.capture[c] EXCEPT !.stage = stage, !.holds = holds]]]
             /\ [db.capture[c] EXCEPT !.stage = stage, !.holds = holds] \in Capture
             /\ [db.capture[c] EXCEPT !.stage = stage, !.holds = holds].stage # "reported"
  BY <1>1, <1>2 DEF Media!Goes, Capture
<1>3. ASSUME Media!Reports(c, db.media)
      PROVE  db' = [mark |-> Media!NoDevice, able |-> db.able, media |-> db.media,
                    capture |-> [db.capture EXCEPT ![c] = [db.capture[c] EXCEPT !.stage = "reported", !.holds = FALSE]]]
             /\ [db.capture[c] EXCEPT !.stage = "reported", !.holds = FALSE] \in Capture
             /\ ~[db.capture[c] EXCEPT !.stage = "reported", !.holds = FALSE].holds
  BY <1>1, <1>3 DEF Media!Reports, Capture, Stages
<1>4. CASE Media!notSupported(c) \/ Media!drawFails(c)
  <2>1. db.capture[c].stage \notin {"reported", "unused"} /\ net' = net /\ Media!Reports(c, db.media)
    BY <1>4 DEF Media!notSupported, Media!drawFails, Media!At
  <2> DEFINE k == [db.capture[c] EXCEPT !.stage = "reported", !.holds = FALSE]
  <2>2. db' = [mark |-> Media!NoDevice, able |-> db.able, media |-> db.media, capture |-> [db.capture EXCEPT ![c] = k]]
        /\ k \in Capture /\ ~k.holds
    BY <1>3, <2>1
  <2> HIDE DEF k
  <2> QED BY <2>1, <2>2, CaptureSteps
<1>5. ASSUME NEW stage \in Stages, NEW holds \in BOOLEAN, Media!Goes(c, stage, holds), stage # "reported",
             db.capture[c].stage \notin {"reported", "unused"}, net' = net
      PROVE  MediaInv'
  <2> DEFINE k == [db.capture[c] EXCEPT !.stage = stage, !.holds = holds]
  <2>1. db' = [mark |-> db.mark, able |-> db.able, media |-> db.media, capture |-> [db.capture EXCEPT ![c] = k]]
        /\ k \in Capture /\ k.stage # "reported"
    BY Zenon, <1>2, <1>5
  <2> HIDE DEF k
  <2> QED BY <2>1, <1>5, CaptureSteps
<1>6. CASE Media!getUserMedia(c)
  <2> DEFINE stage == IF db.capture[c].source = "mic" THEN "recording" ELSE "drawing"
  <2>1. stage \in Stages /\ stage # "reported" /\ TRUE \in BOOLEAN
    BY DEF Stages
  <2>2. Media!Goes(c, stage, TRUE) /\ db.capture[c].stage \notin {"reported", "unused"} /\ net' = net
    BY <1>6 DEF Media!getUserMedia, Media!At
  <2> HIDE DEF stage
  <2> QED BY <1>5, <2>1, <2>2
<1>7. CASE \/ Media!recorderStops(c) \/ Media!recorderErrors(c) \/ Media!drawImage(c) \/ Media!readFails(c)
  <2>1. PICK stage \in {"read", "rejected"}, holds \in BOOLEAN : Media!Goes(c, stage, holds)
    BY <1>7 DEF Media!recorderStops, Media!recorderErrors, Media!drawImage, Media!readFails
  <2>2. db.capture[c].stage \notin {"reported", "unused"} /\ net' = net
    BY <1>7 DEF Media!recorderStops, Media!recorderErrors, Media!drawImage, Media!readFails, Media!At
  <2>3. stage \in Stages /\ stage # "reported"
    BY DEF Stages
  <2> QED BY <1>5, <2>1, <2>2, <2>3
<1> QED BY <1>4, <1>6, <1>7

\* What was kept goes to the end; the oldest may go.
LEMMA OnCaptureKeeps ==
    ASSUME MediaInv, NEW c \in Media!Captures, Media!onCapture(c)
    PROVE  MediaInv'
<1> DEFINE k == [db.capture[c] EXCEPT !.stage = "reported", !.holds = FALSE]
           one == [of |-> c, size |-> "small"]
           more == Append(db.media, one)
<1>1. /\ db = [mark |-> db.mark, able |-> db.able, capture |-> db.capture, media |-> db.media]
      /\ db.capture[c] \in Capture /\ db.media \in Seq(KeptMedia) /\ c \in DOMAIN db.capture
      /\ net \in 0..MaxCaptures
  BY DEF MediaInv, MediaShape
<1>2. k \in Capture /\ k.stage = "reported" /\ ~k.holds
  BY <1>1 DEF Capture, Stages
<1>3. PICK size \in Media!Sizes :
        Media!Reports(c, IF Media!isOverCap(size) THEN db.media ELSE Media!Kept(Append(db.media, [of |-> c, size |-> size])))
  BY DEF Media!onCapture
<1>4. size # "big" => size = "small"
  BY DEF Media!Sizes
<1>5. db.capture[c].stage = "read" /\ net' = net
  BY DEF Media!onCapture, Media!At
<1>6. \E media \in {db.media, more, Tail(more)} :
        db' = [mark |-> Media!NoDevice, able |-> db.able, media |-> media, capture |-> [db.capture EXCEPT ![c] = k]]
  BY <1>1, <1>3, <1>4 DEF Media!Reports, Media!Kept, Media!isOverCap
<1>7. /\ one \in KeptMedia /\ one.of = c /\ more \in Seq(KeptMedia) /\ Len(more) = Len(db.media) + 1 /\ Len(db.media) \in Nat
      /\ \A i \in 1..Len(db.media) : more[i] = db.media[i]
      /\ more[Len(db.media) + 1] = one
  BY <1>1, AppendProperties DEF KeptMedia
<1>8. \A i \in 1..Len(db.media) : db.media[i].of # c /\ db.capture[db.media[i].of].stage = "reported"
  BY <1>1, <1>5 DEF MediaInv
<1>9. \A i, j \in 1..Len(db.media) : db.media[i].of = db.media[j].of => i = j
  BY <1>1 DEF MediaInv
<1> HIDE DEF one, more, k
<1>10. /\ \A i \in 1..Len(more) : more[i].of # c => db.capture[more[i].of].stage = "reported"
       /\ \A i, j \in 1..Len(more) : more[i].of = more[j].of => i = j
  <2>1. \A i \in 1..Len(more) : i \in 1..Len(db.media) \/ i = Len(db.media) + 1
    BY <1>7
  <2> QED BY <2>1, <1>7, <1>8, <1>9
<1>11. /\ Tail(more) \in Seq(KeptMedia) /\ Len(Tail(more)) = Len(more) - 1
       /\ \A i \in 1..Len(Tail(more)) : i + 1 \in 1..Len(more) /\ Tail(more)[i] = more[i + 1]
  BY <1>7
<1>12. /\ \A i \in 1..Len(Tail(more)) : Tail(more)[i].of # c => db.capture[Tail(more)[i].of].stage = "reported"
       /\ \A i, j \in 1..Len(Tail(more)) : Tail(more)[i].of = Tail(more)[j].of => i = j
  BY <1>10, <1>11
<1>13. c <= net
  <2>1. net \in 0..MaxCaptures /\ ~(c > net) /\ c \in 1..MaxCaptures
    BY <1>1, <1>5 DEF MediaInv, Media!Captures
  <2> QED BY <2>1
<1>14. PICK media \in {db.media, more, Tail(more)} :
        db' = [mark |-> Media!NoDevice, able |-> db.able, media |-> media, capture |-> [db.capture EXCEPT ![c] = k]]
  BY <1>6
<1>15. /\ media \in Seq(KeptMedia) /\ DOMAIN media = 1..Len(media)
       /\ \A i \in 1..Len(media) : media[i].of # c => db.capture[media[i].of].stage = "reported"
       /\ \A i, j \in 1..Len(media) : media[i].of = media[j].of => i = j
  <2>1. media = db.media \/ media = more \/ media = Tail(more)
    OBVIOUS
  <2>2. CASE media = db.media
    BY <2>2, <1>1, <1>8, <1>9
  <2>3. CASE media = more
    BY <2>3, <1>7, <1>10
  <2>4. CASE media = Tail(more)
    BY <2>4, <1>11, <1>12
  <2> QED BY <2>1, <2>2, <2>3, <2>4
<1> QED BY <1>2, <1>5, <1>13, <1>14, <1>15, <1>1, CaptureGoes

LEMMA ButtonsKeep ==
    ASSUME CountedCaptures, MediaInv, NEW device \in Media!Devices, Media!handleMedia(device)
    PROVE  MediaInv'
<1>1. /\ db = [mark |-> db.mark, able |-> db.able, capture |-> db.capture, media |-> db.media]
      /\ db.capture \in [Media!Captures -> Capture] /\ db.media \in Seq(KeptMedia) /\ net \in 0..MaxCaptures
  BY DEF MediaInv, MediaShape
<1>2. CASE db' = [db EXCEPT !.mark = NoArg] /\ UNCHANGED net
  <2>1. db'.capture = db.capture /\ db'.media = db.media
        /\ db' = [mark |-> db'.mark, able |-> db'.able, capture |-> db'.capture, media |-> db'.media] /\ net' = net
    BY <1>1, <1>2
  <2> QED BY <2>1 DEF MediaInv, MediaShape
<1>3. CASE /\ net < MaxCaptures /\ net' = net + 1
           /\ db' = [db EXCEPT !.mark = device,
                               !.capture[net + 1] = [source |-> device, stage |-> "asking", holds |-> FALSE]]
  <2> DEFINE k == [source |-> device, stage |-> "asking", holds |-> FALSE]
             c == net + 1
  <2>1. c \in 1..MaxCaptures /\ c > net /\ net' \in 0..MaxCaptures /\ c <= net' /\ \A d \in 1..MaxCaptures : d > net' => d > net
    BY <1>1, <1>3 DEF CountedCaptures
  <2>2. k \in Capture /\ k.stage # "reported"
    BY DEF Capture, Stages
  <2>3. db' = [mark |-> device, able |-> db.able, media |-> db.media, capture |-> [db.capture EXCEPT ![c] = k]]
    BY <1>1, <1>3
  <2> HIDE DEF k, c
  <2>4. db.capture[c].stage = "unused" /\ c \in Media!Captures
    BY <2>1 DEF MediaInv, Media!Captures
  <2>5. \A i \in DOMAIN db.media : db.media[i].of # c /\ db.capture[db.media[i].of].stage = "reported"
    BY <2>4 DEF MediaInv
  <2>6. \A i, j \in DOMAIN db.media : db.media[i].of = db.media[j].of => i = j
    BY DEF MediaInv
  <2> QED BY <1>1, <2>1, <2>2, <2>3, <2>4, <2>5, <2>6, CaptureGoes DEF Media!Captures
<1> QED BY Zenon, <1>2, <1>3 DEF Media!handleMedia, Media!NoDevice, Media!NoArg, NoArg

LEMMA MediaInit == CountedCaptures /\ Media!Init => MediaInv
<1> SUFFICES ASSUME CountedCaptures, Media!Init PROVE MediaInv
  OBVIOUS
<1>1. Media!Unused \in Capture /\ Media!Unused.stage = "unused"
  BY DEF Media!Unused, Capture, Stages, Media!NoDevice, NoArg, Media!NoArg
<1>2. /\ db = [mark |-> db.mark, able |-> db.able, capture |-> db.capture, media |-> db.media]
      /\ db.capture = [c \in Media!Captures |-> Media!Unused] /\ db.media = <<>> /\ net = 0 /\ DOMAIN db.media = {}
  BY DEF Media!Init
<1>3. net \in 0..MaxCaptures /\ db.media \in Seq(KeptMedia)
  BY <1>2 DEF CountedCaptures
<1> QED BY <1>1, <1>2, <1>3 DEF MediaInv, MediaShape

LEMMA MediaNext == CountedCaptures /\ MediaInv /\ [Media!Next]_vars => MediaInv'
<1> SUFFICES ASSUME CountedCaptures, MediaInv, [Media!Next]_vars PROVE MediaInv'
  OBVIOUS
<1>1. CASE Media!setDisabled
  <2>1. db = [mark |-> db.mark, able |-> db.able, capture |-> db.capture, media |-> db.media]
    BY DEF MediaInv, MediaShape
  <2>2. db'.capture = db.capture /\ db'.media = db.media
        /\ db' = [mark |-> db'.mark, able |-> db'.able, capture |-> db'.capture, media |-> db'.media] /\ net' = net
    BY <1>1, <2>1 DEF Media!setDisabled
  <2> QED BY <2>2 DEF MediaInv, MediaShape
<1>2. CASE UNCHANGED vars
  BY <1>2 DEF vars, MediaInv, MediaShape
<1> QED BY <1>1, <1>2, ButtonsKeep, CapturesKeep, OnCaptureKeeps DEF Media!Next

LEMMA MediaHolds == MediaInv => Media!ReportedReleased
<1> SUFFICES ASSUME MediaInv PROVE Media!ReportedReleased
  OBVIOUS
<1>1. \A i \in DOMAIN db.media : db.media[i].size # "big"
  <2>1. db.media \in Seq(KeptMedia)
    BY DEF MediaInv, MediaShape
  <2> QED BY <2>1, KeptOnes
<1> QED BY <1>1 DEF MediaInv, Media!ReportedReleased

\* A capture that reported holds no device, and what it kept is its own and
\* within the limit, whatever other captures run beside it.
THEOREM CapturesAreReleased ==
    ASSUME CountedCaptures
    PROVE  Media!Init /\ [][Media!Next]_vars => []Media!ReportedReleased
<1>1. Media!Init => MediaInv
  BY MediaInit
<1>2. MediaInv /\ [Media!Next]_vars => MediaInv'
  BY MediaNext
<1> QED BY <1>1, <1>2, MediaHolds, PTL

-----------------------------------------------------------------------------
(* The dialog that connects a provider: what it sends is accepted. *)

Connect == INSTANCE ProviderConnect

AcceptedPayload ==
    {p \in [protocol : Connect!Protocols, named : BOOLEAN, model : Connect!ModelNames, credential : BOOLEAN] :
        Connect!Accepted(p)}

ConnectDialog ==
    [draft : Connect!ProviderConnectDraft, session : BOOLEAN, discover : Connect!Protocols \cup {"idle"},
     test : {"idle", "ok", "noKey"}, keyAtCall : [discover : BOOLEAN, test : BOOLEAN],
     listed : SUBSET Connect!ModelNames, create : SUBSET AcceptedPayload, outcome : {"idle", "created"}]

LEMMA DraftsMade == \A p \in Connect!Protocols : Connect!createProviderConnectDraft(p) \in Connect!ProviderConnectDraft
BY DEF Connect!createProviderConnectDraft, Connect!ProviderConnectDraft, Connect!PROVIDER_CONNECT_PRESETS,
       Connect!Azure, Connect!Addresses, Connect!ModelNames

LEMMA ModelsPicked ==
    ASSUME NEW current, NEW p \in Connect!Protocols
    PROVE  Connect!pickModelAfterDiscover(current, Connect!catalogModelsForProtocol(p)) \in Connect!ModelNames
<1> DEFINE models == Connect!catalogModelsForProtocol(p)
<1>1. models \subseteq Connect!ModelNames /\ \E m : m \in models
  BY DEF Connect!catalogModelsForProtocol, Connect!ModelNames
<1> HIDE DEF models
<1>2. (CHOOSE m \in models : TRUE) \in models
  BY <1>1
<1>3. Connect!pickModelAfterDiscover(current, models) \in Connect!ModelNames
  BY <1>1, <1>2 DEF Connect!pickModelAfterDiscover
<1> QED BY <1>3 DEF models

LEMMA PatchKeeps ==
    ASSUME db \in ConnectDialog, Connect!patch
    PROVE  db' \in ConnectDialog
<1>1. db.draft \in Connect!ProviderConnectDraft /\ db.listed \subseteq Connect!ModelNames /\ db.session \in BOOLEAN
  BY DEF ConnectDialog
<1>2. ASSUME NEW draft \in Connect!ProviderConnectDraft, NEW session \in BOOLEAN,
             db' = [db EXCEPT !.draft = draft, !.session = session]
      PROVE  db' \in ConnectDialog
  BY <1>2 DEF ConnectDialog
<1>3. db = [db EXCEPT !.session = db.session]
  BY DEF ConnectDialog
<1>4. ASSUME NEW b \in BOOLEAN, db' = [db EXCEPT !.draft.key = b, !.session = @ \/ b]
      PROVE  db' \in ConnectDialog
  <2> DEFINE draft == [db.draft EXCEPT !.key = b]
  <2>1. draft \in Connect!ProviderConnectDraft /\ (db.session \/ b) \in BOOLEAN
    BY <1>1 DEF Connect!ProviderConnectDraft
  <2>2. db' = [db EXCEPT !.draft = draft, !.session = db.session \/ b]
    BY <1>4 DEF ConnectDialog
  <2> HIDE DEF draft
  <2> QED BY Zenon, <1>2, <2>1, <2>2
<1>5. ASSUME NEW draft \in Connect!ProviderConnectDraft, db' = [db EXCEPT !.draft = draft]
      PROVE  db' \in ConnectDialog
  BY <1>5 DEF ConnectDialog
<1>6. \A b \in BOOLEAN : /\ [db.draft EXCEPT !.named = b] \in Connect!ProviderConnectDraft
                         /\ [db.draft EXCEPT !.version = b] \in Connect!ProviderConnectDraft
  BY <1>1 DEF Connect!ProviderConnectDraft
<1>7. \A a \in Connect!Addresses : [db.draft EXCEPT !.url = a] \in Connect!ProviderConnectDraft
  BY <1>1 DEF Connect!ProviderConnectDraft
<1>8. \A m \in db.listed \cup {Connect!NoArg} : [db.draft EXCEPT !.model = m] \in Connect!ProviderConnectDraft
  BY <1>1 DEF Connect!ProviderConnectDraft, Connect!ModelNames
<1>9. CASE \E b \in BOOLEAN : db' = [db EXCEPT !.draft.named = b]
  <2>1. PICK b \in BOOLEAN : db' = [db EXCEPT !.draft = [db.draft EXCEPT !.named = b]]
    BY <1>9
  <2> QED BY <2>1, <1>5, <1>6
<1>10. CASE \E b \in BOOLEAN : db' = [db EXCEPT !.draft.version = b]
  <2>1. PICK b \in BOOLEAN : db' = [db EXCEPT !.draft = [db.draft EXCEPT !.version = b]]
    BY <1>10
  <2> QED BY <2>1, <1>5, <1>6
<1>11. CASE \E a \in Connect!Addresses : db' = [db EXCEPT !.draft.url = a]
  <2>1. PICK a \in Connect!Addresses : db' = [db EXCEPT !.draft = [db.draft EXCEPT !.url = a]]
    BY <1>11
  <2> QED BY <2>1, <1>5, <1>7
<1>12. CASE \E m \in db.listed \cup {Connect!NoArg} : db' = [db EXCEPT !.draft.model = m]
  <2>1. PICK m \in db.listed \cup {Connect!NoArg} : db' = [db EXCEPT !.draft = [db.draft EXCEPT !.model = m]]
    BY <1>12
  <2> QED BY <2>1, <1>5, <1>8
<1> QED BY Zenon, <1>4, <1>9, <1>10, <1>11, <1>12 DEF Connect!patch

LEMMA SubmitKeeps ==
    ASSUME db \in ConnectDialog, Connect!submit
    PROVE  db' \in ConnectDialog
<1> DEFINE payload == Connect!providerConnectToPayload(db.draft, db.session)
           draft == [db.draft EXCEPT !.key = FALSE]
<1>1. db.draft \in Connect!ProviderConnectDraft /\ db.session \in BOOLEAN
  BY DEF ConnectDialog
<1>2. Connect!validateProviderConnectDraft(db.draft, db.session) = {}
  BY DEF Connect!submit
<1>3. /\ db.draft.named /\ db.draft.model # Connect!NoArg
      /\ db.draft.protocol = "ollama" \/ Connect!resolveProviderCredential(db.draft, db.session)
  BY <1>2 DEF Connect!validateProviderConnectDraft
<1>4. /\ payload.named = db.draft.named /\ payload.model = db.draft.model
      /\ payload.credential = (Connect!resolveProviderCredential(db.draft, db.session) \/ db.draft.protocol = "ollama")
      /\ payload \in [protocol : Connect!Protocols, named : BOOLEAN, model : Connect!ModelNames, credential : BOOLEAN]
  BY <1>1 DEF Connect!providerConnectToPayload, Connect!ProviderConnectDraft
<1>5. Connect!Accepted(payload)
  BY <1>3, <1>4 DEF Connect!Accepted
<1>6. draft \in Connect!ProviderConnectDraft /\ payload \in AcceptedPayload
  BY <1>1, <1>4, <1>5 DEF Connect!ProviderConnectDraft, AcceptedPayload
<1>7. db' = [db EXCEPT !.create = {payload}, !.session = FALSE, !.draft = draft]
  BY DEF Connect!submit
<1> HIDE DEF payload, draft
<1> QED BY <1>6, <1>7 DEF ConnectDialog

LEMMA ConnectInit == Connect!Init => db \in ConnectDialog
<1> DEFINE draft == Connect!createProviderConnectDraft("openai_compatible")
<1>1. draft \in Connect!ProviderConnectDraft
  BY DraftsMade DEF Connect!Protocols
<1> HIDE DEF draft
<1>2. [discover |-> FALSE, test |-> FALSE] \in [discover : BOOLEAN, test : BOOLEAN]
  OBVIOUS
<1> SUFFICES ASSUME Connect!Init PROVE db \in ConnectDialog
  OBVIOUS
<1>3. db = [draft |-> draft, session |-> FALSE, discover |-> "idle", test |-> "idle",
                            keyAtCall |-> [discover |-> FALSE, test |-> FALSE], listed |-> {},
                            create |-> {}, outcome |-> "idle"]
  BY DEF Connect!Init, Connect!Idle, draft
<1>4. db.keyAtCall \in [discover : BOOLEAN, test : BOOLEAN] /\ db.draft = draft /\ db.listed = {} /\ db.create = {}
  BY <1>2, <1>3
<1> QED BY <1>1, <1>3, <1>4 DEF ConnectDialog

LEMMA ConnectNext == db \in ConnectDialog /\ [Connect!Next]_vars => db' \in ConnectDialog
<1> SUFFICES ASSUME db \in ConnectDialog, [Connect!Next]_vars PROVE db' \in ConnectDialog
  OBVIOUS
<1>0. db.draft \in Connect!ProviderConnectDraft /\ db.session \in BOOLEAN
      /\ db.keyAtCall \in [discover : BOOLEAN, test : BOOLEAN]
  BY DEF ConnectDialog
<1>1. CASE Connect!switchProtocol
  <2>1. PICK p \in Connect!Protocols :
            db' = [db EXCEPT !.draft = Connect!applyProviderConnectProtocol(@, p), !.listed = {}]
    BY Zenon, <1>1 DEF Connect!switchProtocol
  <2> DEFINE draft == Connect!applyProviderConnectProtocol(db.draft, p)
  <2>2. draft \in Connect!ProviderConnectDraft
    BY <1>0, DraftsMade DEF Connect!applyProviderConnectProtocol, Connect!ProviderConnectDraft
  <2>3. db' = [db EXCEPT !.draft = draft, !.listed = {}]
    BY <2>1
  <2> HIDE DEF draft
  <2> QED BY <2>2, <2>3 DEF ConnectDialog
<1>2. CASE Connect!discoverModels
  <2> DEFINE keys == [db.keyAtCall EXCEPT !.discover = db.draft.key]
  <2>1. keys \in [discover : BOOLEAN, test : BOOLEAN] /\ db.draft.protocol \in Connect!Protocols
    BY <1>0 DEF Connect!ProviderConnectDraft
  <2>2. db' = [db EXCEPT !.discover = db.draft.protocol, !.keyAtCall = keys]
    BY <1>2 DEF Connect!discoverModels
  <2> HIDE DEF keys
  <2> QED BY <2>1, <2>2 DEF ConnectDialog
<1>3. CASE Connect!onDiscovered
  <2> DEFINE models == Connect!catalogModelsForProtocol(db.discover)
             draft == [db.draft EXCEPT !.model = Connect!pickModelAfterDiscover(@, models)]
             session == db.session \/ db.keyAtCall.discover
  <2>1. db.discover \in Connect!Protocols
    BY <1>3 DEF Connect!onDiscovered, ConnectDialog, Connect!Idle
  <2>2. models \subseteq Connect!ModelNames
    BY <2>1 DEF Connect!catalogModelsForProtocol, Connect!ModelNames
  <2>3. draft \in Connect!ProviderConnectDraft
    BY <1>0, <2>1, ModelsPicked DEF Connect!ProviderConnectDraft
  <2>4. session \in BOOLEAN
    BY <1>0
  <2>5. db' = [db EXCEPT !.discover = "idle", !.listed = models, !.session = session, !.draft = draft]
    BY <1>3 DEF Connect!onDiscovered, Connect!Idle
  <2> HIDE DEF models, draft, session
  <2> QED BY <2>2, <2>3, <2>4, <2>5 DEF ConnectDialog
<1>4. CASE Connect!onDiscoverFailed
  BY <1>4 DEF Connect!onDiscoverFailed, ConnectDialog, Connect!Idle
<1>5. CASE Connect!testConnection
  <2> DEFINE keys == [db.keyAtCall EXCEPT !.test = db.draft.key]
             test == IF Connect!resolveProviderCredential(db.draft, db.session) THEN "ok" ELSE "noKey"
  <2>1. keys \in [discover : BOOLEAN, test : BOOLEAN] /\ test \in {"idle", "ok", "noKey"}
    BY <1>0 DEF Connect!ProviderConnectDraft
  <2>2. db' = [db EXCEPT !.keyAtCall = keys, !.test = test]
    BY <1>5 DEF Connect!testConnection
  <2> HIDE DEF keys, test
  <2> QED BY <2>1, <2>2 DEF ConnectDialog
<1>6. CASE Connect!onTested
  <2>1. (db.session \/ (db.test = "ok" /\ db.keyAtCall.test)) \in BOOLEAN
    BY <1>0
  <2>2. db' = [db EXCEPT !.test = "idle", !.session = db.session \/ (db.test = "ok" /\ db.keyAtCall.test)]
    BY <1>6 DEF Connect!onTested, Connect!Idle
  <2> QED BY <2>1, <2>2 DEF ConnectDialog
<1>7. CASE Connect!onCreated
  <2>1. \A payload \in db.create : Connect!Accepted(payload)
    BY DEF ConnectDialog, AcceptedPayload
  <2>2. db' = [db EXCEPT !.create = {}, !.outcome = "created"]
    BY <1>7, <2>1 DEF Connect!onCreated
  <2> QED BY <2>2 DEF ConnectDialog
<1>8. CASE Connect!onCreateFailed
  BY <1>8 DEF Connect!onCreateFailed, ConnectDialog
<1>9. CASE UNCHANGED vars
  BY <1>9 DEF vars
<1> QED BY <1>1, <1>2, <1>3, <1>4, <1>5, <1>6, <1>7, <1>8, <1>9, PatchKeeps, SubmitKeeps DEF Connect!Next

LEMMA ConnectHolds == db \in ConnectDialog => Connect!FormAccepted /\ Connect!TypeOK
BY DEF ConnectDialog, Connect!FormAccepted, Connect!TypeOK, Connect!Idle

\* What the dialog sends to connect a provider passes the route's checks.
THEOREM FormsAreAccepted ==
    Connect!Init /\ [][Connect!Next]_vars => [](Connect!FormAccepted /\ Connect!TypeOK)
<1> DEFINE Inv == db \in ConnectDialog
<1>1. Connect!Init => Inv
  BY ConnectInit
<1>2. Inv /\ [Connect!Next]_vars => Inv'
  BY ConnectNext
<1>3. Inv => Connect!FormAccepted /\ Connect!TypeOK
  BY ConnectHolds
<1> QED BY <1>1, <1>2, <1>3, PTL

-----------------------------------------------------------------------------
(* The canvas and its undo stack, for every limit of the stack and every   *)
(* number of requests under way.                                           *)

Canvas == INSTANCE WorkflowCanvas

\* A graph whose edges join two of its nodes.
Graphs ==
    {g \in [nodes : SUBSET Canvas!Ids, edges : SUBSET (Canvas!Ids \X Canvas!Ids), rev : Nat] :
        \A e \in g.edges : e[1] # e[2] /\ {e[1], e[2]} \subseteq g.nodes}

CanvasVersion == [graph : Graphs, published : BOOLEAN]

CanvasShape(d) ==
    d = [canvas |-> d.canvas, stack |-> d.stack, idx |-> d.idx, baseline |-> d.baseline, versions |-> d.versions,
         active |-> d.active, gate |-> d.gate, remote |-> d.remote, draft |-> d.draft, log |-> d.log]

HistoryAt(d) ==
    /\ d.canvas \in Graphs /\ d.stack \in Seq(Graphs)
    /\ d.idx \in 1..Len(d.stack) /\ Len(d.stack) <= HistoryLimit /\ d.stack[d.idx] = d.canvas

VersionsAt(d) ==
    /\ d.remote \in Seq(CanvasVersion) /\ d.remote # <<>> /\ d.draft \in Graphs
    /\ DOMAIN d.versions \subseteq DOMAIN d.remote \cup {Canvas!Template}
    /\ \A v \in DOMAIN d.versions : d.versions[v] \in CanvasVersion
    /\ d.active \in DOMAIN d.remote \cup {Canvas!Template}

CanvasInv ==
    /\ CanvasShape(db) /\ HistoryAt(db) /\ VersionsAt(db)
    /\ net = [out |-> net.out, made |-> net.made]
    /\ \A r \in DOMAIN net.out : r.seen \in Graphs

LEMMA GraphEdits ==
    ASSUME NEW g \in Graphs, NEW n \in Canvas!Ids
    PROVE  /\ [g EXCEPT !.nodes = @ \cup {n}] \in Graphs
           /\ [g EXCEPT !.nodes = @ \ {n}, !.edges = {e \in @ : n \notin {e[1], e[2]}}] \in Graphs
           /\ [g EXCEPT !.rev = @ + 1] \in Graphs
           /\ [g EXCEPT !.nodes = @ \cup {n}, !.rev = @ + 1] \in Graphs
           /\ \A e : [g EXCEPT !.edges = @ \ {e}] \in Graphs
           /\ \A from, to \in g.nodes : from # to => [g EXCEPT !.edges = @ \cup {<<from, to>>}] \in Graphs
<1> DEFINE rev == g.rev + 1
<1>1. rev \in Nat
  BY DEF Graphs
<1>2. [g EXCEPT !.rev = @ + 1] = [g EXCEPT !.rev = rev]
      /\ [g EXCEPT !.nodes = @ \cup {n}, !.rev = @ + 1] = [g EXCEPT !.nodes = @ \cup {n}, !.rev = rev]
  OBVIOUS
<1> HIDE DEF rev
<1>3. [g EXCEPT !.nodes = @ \cup {n}] \in Graphs
  BY DEF Graphs
<1>4. [g EXCEPT !.nodes = @ \ {n}, !.edges = {e \in @ : n \notin {e[1], e[2]}}] \in Graphs
  BY Zenon DEF Graphs
<1>5. [g EXCEPT !.rev = rev] \in Graphs /\ [g EXCEPT !.nodes = @ \cup {n}, !.rev = rev] \in Graphs
  BY <1>1 DEF Graphs
<1>6. \A e : [g EXCEPT !.edges = @ \ {e}] \in Graphs
  BY DEF Graphs
<1>7. ASSUME NEW from \in g.nodes, NEW to \in g.nodes, from # to
      PROVE  [g EXCEPT !.edges = @ \cup {<<from, to>>}] \in Graphs
  <2>1. {from, to} \subseteq Canvas!Ids
    BY DEF Graphs
  <2> QED BY <1>7, <2>1 DEF Graphs
<1> QED BY <1>2, <1>3, <1>4, <1>5, <1>6, <1>7

LEMMA GraphsKnown == {Canvas!EMPTY, Canvas!SAMPLE, Canvas!templateSnapshot} \subseteq Graphs
<1>1. Canvas!EMPTY \in Graphs
  BY DEF Canvas!EMPTY, Canvas!Graph, Graphs, Canvas!Ids
<1>2. {<<1, 2>>, <<2, 3>>} \subseteq Canvas!Ids \X Canvas!Ids /\ {1, 2, 3} \subseteq Canvas!Ids
  BY DEF Canvas!Ids
<1>3. Canvas!SAMPLE \in Graphs
  BY <1>2 DEF Canvas!SAMPLE, Canvas!Graph, Graphs
<1>4. Canvas!templateSnapshot \in Graphs
  BY <1>2 DEF Canvas!templateSnapshot, Canvas!Graph, Graphs
<1> QED BY <1>1, <1>3, <1>4

\* What is pushed is on top, at the end of a stack that is cut to its limit.
LEMMA Pushed ==
    ASSUME SomeHistory, NEW d, CanvasShape(d), HistoryAt(d), NEW g \in Graphs
    PROVE  /\ CanvasShape(Canvas!Drawn(d, g)) /\ HistoryAt(Canvas!Drawn(d, g))
           /\ Canvas!Drawn(d, g).versions = d.versions /\ Canvas!Drawn(d, g).active = d.active
           /\ Canvas!Drawn(d, g).remote = d.remote /\ Canvas!Drawn(d, g).draft = d.draft
<1> DEFINE kept == Append(SubSeq(d.stack, 1, d.idx), g)
           capped == IF Len(kept) > HistoryLimit THEN Tail(kept) ELSE kept
           idx == Len(capped)
<1>1. /\ d.stack \in Seq(Graphs) /\ Len(d.stack) \in Nat /\ d.idx \in 1..Len(d.stack) /\ Len(d.stack) <= HistoryLimit
      /\ HistoryLimit \in Nat \ {0}
  BY DEF HistoryAt, SomeHistory
<1>2. SubSeq(d.stack, 1, d.idx) \in Seq(Graphs) /\ Len(SubSeq(d.stack, 1, d.idx)) = d.idx
  BY <1>1
<1>3. kept \in Seq(Graphs) /\ Len(kept) = d.idx + 1 /\ kept[d.idx + 1] = g
  BY <1>2, AppendProperties
<1> HIDE DEF kept
<1>4. capped \in Seq(Graphs) /\ Len(capped) \in Nat \ {0} /\ Len(capped) <= HistoryLimit /\ capped[Len(capped)] = g
  <2>1. CASE Len(kept) > HistoryLimit
    <3>1. Tail(kept) \in Seq(Graphs) /\ Len(Tail(kept)) = d.idx /\ Tail(kept)[d.idx] = kept[d.idx + 1]
      BY <1>1, <1>3
    <3> QED BY <1>1, <1>3, <2>1, <3>1
  <2>2. CASE ~(Len(kept) > HistoryLimit)
    BY <1>1, <1>3, <2>2
  <2> QED BY <2>1, <2>2
<1>5. Canvas!Drawn(d, g) = [[d EXCEPT !.canvas = g] EXCEPT !.stack = capped, !.idx = idx]
  BY DEF Canvas!Drawn, Canvas!pushHistory, kept, CanvasShape
<1> DEFINE e == Canvas!Drawn(d, g)
<1> HIDE DEF capped, e
<1>6. idx \in 1..Len(capped)
  BY <1>4
<1> HIDE DEF idx
<1>7. e = [[d EXCEPT !.canvas = g] EXCEPT !.stack = capped, !.idx = idx]
  BY <1>5 DEF e
<1>8. /\ CanvasShape(e) /\ e.canvas = g /\ e.stack = capped /\ e.idx = idx
      /\ e.versions = d.versions /\ e.active = d.active /\ e.remote = d.remote /\ e.draft = d.draft
  BY <1>7 DEF CanvasShape
<1>9. HistoryAt(e)
  BY <1>4, <1>6, <1>8 DEF HistoryAt, idx
<1> QED BY <1>8, <1>9 DEF e

\* What the bag of requests holds after a step.
LEMMA CanvasBags ==
    \A B, r : /\ DOMAIN Canvas!(+)(B, Canvas!SetToBag({r})) = DOMAIN B \cup {r}
              /\ DOMAIN Canvas!(-)(B, Canvas!SetToBag({r})) \subseteq DOMAIN B
BY DEF Canvas!(+), Canvas!(-), Canvas!SetToBag

\* A hand on the canvas.
LEMMA HandsKeep ==
    ASSUME CanvasInv, NEW e, Canvas!Hand(e), CanvasShape(e), HistoryAt(e), VersionsAt(e),
           e.remote = db.remote
    PROVE  CanvasInv' /\ db'.remote = db.remote
<1>1. db' = e /\ net' = [net EXCEPT !.made = @ + 1]
  BY DEF Canvas!Hand
<1>2. net'.out = net.out /\ net' = [out |-> net'.out, made |-> net'.made]
  BY <1>1 DEF CanvasInv
<1>3. \A r \in DOMAIN net'.out : r.seen \in Graphs
  BY <1>2 DEF CanvasInv
<1> QED BY <1>1, <1>2, <1>3 DEF CanvasInv

\* A hand that draws.
LEMMA DrawingsKeep ==
    ASSUME SomeHistory, CanvasInv, NEW g \in Graphs, Canvas!Hand(Canvas!Drawn(db, g))
    PROVE  CanvasInv' /\ db'.remote = db.remote
<1> DEFINE e == Canvas!Drawn(db, g)
<1>1. /\ CanvasShape(e) /\ HistoryAt(e) /\ e.versions = db.versions /\ e.active = db.active
      /\ e.remote = db.remote /\ e.draft = db.draft
  BY Pushed DEF CanvasInv
<1> HIDE DEF e
<1>2. VersionsAt(e)
  BY <1>1 DEF CanvasInv, VersionsAt
<1> QED BY <1>1, <1>2, HandsKeep DEF e

LEMMA UndoKeeps ==
    ASSUME CanvasInv, Canvas!undo \/ Canvas!redo
    PROVE  CanvasInv' /\ db'.remote = db.remote
<1>1. /\ db.stack \in Seq(Graphs) /\ Len(db.stack) \in Nat /\ db.idx \in 1..Len(db.stack)
      /\ Len(db.stack) <= HistoryLimit /\ CanvasShape(db)
  BY DEF CanvasInv, HistoryAt
<1>2. PICK i \in 1..Len(db.stack) : Canvas!Hand([db EXCEPT !.idx = i, !.canvas = db.stack[i]])
  <2>1. CASE Canvas!undo
    <3>1. db.idx - 1 \in 1..Len(db.stack)
      BY <1>1, <2>1 DEF Canvas!undo
    <3> QED BY Zenon, <2>1, <3>1 DEF Canvas!undo
  <2>2. CASE Canvas!redo
    <3>1. db.idx + 1 \in 1..Len(db.stack)
      BY <1>1, <2>2 DEF Canvas!redo
    <3> QED BY Zenon, <2>2, <3>1 DEF Canvas!redo
  <2> QED BY Zenon, <2>1, <2>2
<1> DEFINE e == [db EXCEPT !.idx = i, !.canvas = db.stack[i]]
<1>3. db.stack[i] \in Graphs
  BY <1>1, ElementOfSeq
<1>5. Canvas!Hand(e) /\ e = [db EXCEPT !.idx = i, !.canvas = db.stack[i]]
  BY <1>2
<1> HIDE DEF e
<1>4. /\ CanvasShape(e) /\ e.canvas = db.stack[i] /\ e.idx = i /\ e.stack = db.stack /\ e.versions = db.versions
      /\ e.active = db.active /\ e.remote = db.remote /\ e.draft = db.draft
  BY <1>1, <1>5 DEF CanvasShape
<1>6. HistoryAt(e) /\ VersionsAt(e)
  BY <1>1, <1>3, <1>4 DEF CanvasInv, HistoryAt, VersionsAt
<1> QED BY <1>4, <1>5, <1>6, HandsKeep

LEMMA CanvasTyped ==
    ASSUME CanvasInv
    PROVE  db.canvas \in Graphs /\ db.canvas.nodes \subseteq Canvas!Ids
BY DEF CanvasInv, HistoryAt, Graphs

LEMMA NodesKeep ==
    ASSUME SomeHistory, CanvasInv, NEW n \in Canvas!Ids,
           Canvas!addNode(n) \/ Canvas!deleteNode(n) \/ Canvas!duplicateNode(n)
    PROVE  CanvasInv' /\ db'.remote = db.remote
<1>1. PICK g \in Graphs : Canvas!Hand(Canvas!Drawn(db, g))
  BY Zenon, CanvasTyped, GraphEdits DEF Canvas!addNode, Canvas!deleteNode, Canvas!duplicateNode
<1> QED BY <1>1, DrawingsKeep

LEMMA DrawnKeeps ==
    ASSUME SomeHistory, CanvasInv,
           \/ Canvas!updateNode \/ Canvas!confirmClearCanvas
           \/ (\E a, b \in Canvas!Ids : Canvas!onConnect(a, b)) \/ (\E e \in db.canvas.edges : Canvas!deleteEdge(e))
    PROVE  CanvasInv' /\ db'.remote = db.remote
<1>0. 1 \in Canvas!Ids
  BY DEF Canvas!Ids
<1>1. CASE Canvas!updateNode
  <2>1. PICK g \in Graphs : Canvas!Hand(Canvas!Drawn(db, g))
    BY Zenon, <1>0, <1>1, CanvasTyped, GraphEdits DEF Canvas!updateNode
  <2> QED BY <2>1, DrawingsKeep
<1>2. CASE Canvas!confirmClearCanvas
  BY <1>2, GraphsKnown, DrawingsKeep DEF Canvas!confirmClearCanvas
<1>3. CASE \E a, b \in Canvas!Ids : Canvas!onConnect(a, b)
  <2>1. PICK a \in Canvas!Ids, b \in Canvas!Ids : Canvas!onConnect(a, b)
    BY <1>3
  <2>2. [db.canvas EXCEPT !.edges = @ \cup {<<a, b>>}] \in Graphs
    BY Zenon, <1>0, <2>1, CanvasTyped, GraphEdits DEF Canvas!onConnect
  <2> QED BY <2>1, <2>2, DrawingsKeep DEF Canvas!onConnect
<1>4. CASE \E e \in db.canvas.edges : Canvas!deleteEdge(e)
  <2>1. PICK e \in db.canvas.edges : Canvas!deleteEdge(e)
    BY <1>4
  <2>2. [db.canvas EXCEPT !.edges = @ \ {e}] \in Graphs
    BY Zenon, <1>0, CanvasTyped, GraphEdits
  <2> QED BY <2>1, <2>2, DrawingsKeep DEF Canvas!deleteEdge
<1> QED BY <1>1, <1>2, <1>3, <1>4

LEMMA OpenedKeeps ==
    ASSUME SomeHistory, CanvasInv,
           \/ Canvas!resetCanvas \/ (\E v \in DOMAIN db.versions : Canvas!loadSnapshot(v))
           \/ (\E blocked \in BOOLEAN : Canvas!createTemplateDraft(blocked))
    PROVE  CanvasInv' /\ db'.remote = db.remote
<1>1. CASE Canvas!resetCanvas
  <2> DEFINE d == Canvas!Drawn(db, Canvas!SAMPLE)
             e == [d EXCEPT !.gate = FALSE]
  <2>1. /\ CanvasShape(d) /\ HistoryAt(d) /\ d.versions = db.versions /\ d.active = db.active
        /\ d.remote = db.remote /\ d.draft = db.draft
    BY GraphsKnown, Pushed DEF CanvasInv
  <2> HIDE DEF d
  <2>3. Canvas!Hand(e) /\ e = [d EXCEPT !.gate = FALSE]
    BY <1>1 DEF Canvas!resetCanvas, d
  <2> HIDE DEF e
  <2>2. /\ CanvasShape(e) /\ e.canvas = d.canvas /\ e.stack = d.stack /\ e.idx = d.idx /\ e.versions = d.versions
        /\ e.active = d.active /\ e.remote = d.remote /\ e.draft = d.draft
    BY <2>1, <2>3 DEF CanvasShape
  <2>4. HistoryAt(e) /\ VersionsAt(e)
    BY <2>1, <2>2 DEF HistoryAt, VersionsAt, CanvasInv
  <2> QED BY <2>1, <2>2, <2>3, <2>4, HandsKeep
<1>2. ASSUME NEW v \in DOMAIN db.versions, Canvas!loadSnapshot(v) PROVE CanvasInv' /\ db'.remote = db.remote
  <2> DEFINE g == db.versions[v].graph
             d == Canvas!Drawn(db, g)
             e == [d EXCEPT !.active = v, !.baseline = g]
  <2>0. g \in Graphs /\ Canvas!VersionOf(db.versions, v) = db.versions[v]
    BY DEF CanvasInv, VersionsAt, CanvasVersion, Canvas!VersionOf
  <2>3. Canvas!Hand(e)
    BY Zenon, <1>2, <2>0 DEF Canvas!loadSnapshot
  <2> HIDE DEF g
  <2>1. /\ CanvasShape(d) /\ HistoryAt(d) /\ d.versions = db.versions /\ d.active = db.active
        /\ d.remote = db.remote /\ d.draft = db.draft
    BY <2>0, Pushed DEF CanvasInv
  <2>5. e = [d EXCEPT !.active = v, !.baseline = g]
    OBVIOUS
  <2> HIDE DEF d, e
  <2>2. /\ CanvasShape(e) /\ e.canvas = d.canvas /\ e.stack = d.stack /\ e.idx = d.idx /\ e.versions = d.versions
        /\ e.active = v /\ e.remote = d.remote /\ e.draft = d.draft
    BY <2>1, <2>5 DEF CanvasShape
  <2>4. HistoryAt(e) /\ VersionsAt(e)
    BY <2>1, <2>2 DEF HistoryAt, VersionsAt, CanvasInv
  <2> QED BY <2>1, <2>2, <2>3, <2>4, HandsKeep
<1>3. ASSUME NEW blocked \in BOOLEAN, Canvas!createTemplateDraft(blocked) PROVE CanvasInv' /\ db'.remote = db.remote
  <2> DEFINE g == Canvas!templateSnapshot
             row == [graph |-> g, published |-> FALSE]
             d == Canvas!Drawn(db, g)
             versions == Canvas!Unshifted(db.versions, Canvas!Template, row)
             e == [d EXCEPT !.versions = versions, !.active = Canvas!Template, !.gate = blocked]
  <2>1. /\ CanvasShape(d) /\ HistoryAt(d) /\ d.versions = db.versions /\ d.active = db.active
        /\ d.remote = db.remote /\ d.draft = db.draft
    BY GraphsKnown, Pushed DEF CanvasInv
  <2>3. Canvas!Hand(e)
    BY Zenon, <1>3, <2>1 DEF Canvas!createTemplateDraft
  <2>5. row \in CanvasVersion
    BY GraphsKnown DEF CanvasVersion
  <2> HIDE DEF g, d, row
  <2>6. /\ DOMAIN versions \subseteq DOMAIN db.remote \cup {Canvas!Template}
        /\ \A v \in DOMAIN versions : versions[v] \in CanvasVersion
    BY <2>5 DEF Canvas!Unshifted, CanvasInv, VersionsAt
  <2> HIDE DEF versions
  <2>7. e = [d EXCEPT !.versions = versions, !.active = Canvas!Template, !.gate = blocked]
    OBVIOUS
  <2> HIDE DEF e
  <2>2. /\ CanvasShape(e) /\ e.canvas = d.canvas /\ e.stack = d.stack /\ e.idx = d.idx /\ e.versions = versions
        /\ e.active = Canvas!Template /\ e.remote = d.remote /\ e.draft = d.draft
    BY <2>1, <2>7 DEF CanvasShape
  <2>4. HistoryAt(e) /\ VersionsAt(e)
    BY <2>1, <2>2, <2>6 DEF HistoryAt, VersionsAt, CanvasInv
  <2> QED BY <2>1, <2>2, <2>3, <2>4, HandsKeep
<1> QED BY <1>1, <1>2, <1>3

\* A request goes out; the page may count as clean from here.
LEMMA SendKeeps ==
    ASSUME CanvasInv, NEW r, NEW e, Canvas!Send(r, e), r.seen \in Graphs,
           CanvasShape(e), HistoryAt(e), VersionsAt(e), e.remote = db.remote
    PROVE  CanvasInv' /\ db'.remote = db.remote
<1>1. db' = e /\ net' = [out |-> Canvas!(+)(net.out, Canvas!SetToBag({r})), made |-> net.made + 1]
  BY DEF Canvas!Send
<1>2. net' = [out |-> net'.out, made |-> net'.made] /\ DOMAIN net'.out = DOMAIN net.out \cup {r}
  BY <1>1, CanvasBags
<1> QED BY <1>1, <1>2 DEF CanvasInv

LEMMA RequestsSent ==
    ASSUME CanvasInv, NEW u, NEW op, NEW e, NEW g \in Graphs, Canvas!Send(Canvas!Req(op, u, db.active, Canvas!NoArg, g), e),
           CanvasShape(e), HistoryAt(e), VersionsAt(e), e.remote = db.remote
    PROVE  CanvasInv' /\ db'.remote = db.remote
<1> DEFINE r == Canvas!Req(op, u, db.active, Canvas!NoArg, g)
<1>1. r.seen \in Graphs
  BY DEF Canvas!Req
<1> HIDE DEF r
<1> QED BY <1>1, SendKeeps DEF r

LEMMA SavesKeep ==
    ASSUME CanvasInv, NEW u,
           \/ Canvas!saveCanvas(u) \/ Canvas!saveAsVersion(u) \/ Canvas!rollbackVersionApi(u)
           \/ Canvas!requestProductionRelease(u) \/ Canvas!applyGeneration(u)
    PROVE  CanvasInv' /\ db'.remote = db.remote
<1>1. CanvasShape(db) /\ HistoryAt(db) /\ VersionsAt(db) /\ db.canvas \in Graphs
  BY CanvasTyped DEF CanvasInv
<1>2. CASE Canvas!saveCanvas(u)
  <2> DEFINE versions == [v \in DOMAIN db.versions |->
                             IF v = db.active THEN [db.versions[v] EXCEPT !.graph = db.canvas] ELSE db.versions[v]]
             e == [db EXCEPT !.baseline = db.canvas, !.versions = versions]
  <2>1. Canvas!Send(Canvas!Req("save", u, db.active, Canvas!NoArg, db.canvas), e)
        /\ e = [db EXCEPT !.baseline = db.canvas, !.versions = versions]
    BY <1>2 DEF Canvas!saveCanvas
  <2>2. DOMAIN versions = DOMAIN db.versions /\ \A v \in DOMAIN versions : versions[v] \in CanvasVersion
    BY <1>1 DEF VersionsAt, CanvasVersion
  <2> HIDE DEF versions, e
  <2>3. /\ CanvasShape(e) /\ e.canvas = db.canvas /\ e.stack = db.stack /\ e.idx = db.idx /\ e.versions = versions
        /\ e.active = db.active /\ e.remote = db.remote /\ e.draft = db.draft
    BY <1>1, <2>1 DEF CanvasShape
  <2>4. HistoryAt(e) /\ VersionsAt(e)
    BY <1>1, <2>2, <2>3 DEF HistoryAt, VersionsAt
  <2> QED BY <1>1, <2>1, <2>3, <2>4, RequestsSent
<1>3. CASE Canvas!saveAsVersion(u)
  BY <1>1, <1>3, RequestsSent DEF Canvas!saveAsVersion
<1>4. CASE Canvas!rollbackVersionApi(u)
  BY <1>1, <1>4, RequestsSent, GraphsKnown DEF Canvas!rollbackVersionApi
<1>5. CASE Canvas!requestProductionRelease(u)
  BY <1>1, <1>5, RequestsSent, GraphsKnown DEF Canvas!requestProductionRelease
<1>6. CASE Canvas!applyGeneration(u)
  BY <1>1, <1>6, RequestsSent, GraphsKnown DEF Canvas!applyGeneration
<1> QED BY <1>2, <1>3, <1>4, <1>5, <1>6

\* An answer arrives.
LEMMA ServedKeeps ==
    ASSUME CanvasInv, NEW r, NEW e, Canvas!Served(r, e), CanvasShape(e), HistoryAt(e), VersionsAt(e)
    PROVE  CanvasInv' /\ db'.remote = e.remote
<1>1. db' = Canvas!Logged(e, r) /\ net' = [net EXCEPT !.out = Canvas!(-)(@, Canvas!SetToBag({r}))]
  BY DEF Canvas!Served, Canvas!Arrives
<1>2. net' = [out |-> net'.out, made |-> net'.made] /\ DOMAIN net'.out \subseteq DOMAIN net.out
  <2>1. net = [out |-> net.out, made |-> net.made]
    BY DEF CanvasInv
  <2>2. net'.out = Canvas!(-)(net.out, Canvas!SetToBag({r})) /\ net' = [out |-> net'.out, made |-> net'.made]
    BY <1>1, <2>1
  <2> QED BY <2>2, CanvasBags
<1> DEFINE log == Append(e.log, [op |-> r.op, by |-> r.by, id |-> r.id, arg |-> r.arg])
<1>3. db' = [e EXCEPT !.log = log]
  BY <1>1 DEF Canvas!Logged
<1> HIDE DEF log
<1>4. /\ CanvasShape(db') /\ db'.canvas = e.canvas /\ db'.stack = e.stack /\ db'.idx = e.idx /\ db'.versions = e.versions
      /\ db'.active = e.active /\ db'.remote = e.remote /\ db'.draft = e.draft
  BY <1>3 DEF CanvasShape
<1>5. HistoryAt(db') /\ VersionsAt(db')
  BY <1>4 DEF HistoryAt, VersionsAt
<1> QED BY <1>2, <1>4, <1>5 DEF CanvasInv

\* A new version at the end, of a page whose history is its own.
LEMMA VersionsGrow ==
    ASSUME NEW d, CanvasShape(d), VersionsAt(d), NEW g \in Graphs, NEW published \in BOOLEAN
    PROVE  LET e == Canvas!NewVersion(d, g, published)
           IN  /\ e = [d EXCEPT !.remote = e.remote] /\ e.remote \in Seq(CanvasVersion) /\ e.remote # <<>>
               /\ Len(e.remote) = Len(d.remote) + 1 /\ DOMAIN e.remote = 1..Len(d.remote) + 1 /\ Len(d.remote) \in Nat
               /\ \A v \in DOMAIN d.remote : v \in DOMAIN e.remote /\ e.remote[v] = d.remote[v]
<1> DEFINE row == [graph |-> g, published |-> published]
           e == Canvas!NewVersion(d, g, published)
<1>1. d.remote \in Seq(CanvasVersion) /\ row \in CanvasVersion
  BY DEF VersionsAt, CanvasVersion
<1>2. e = [d EXCEPT !.remote = Append(d.remote, row)]
  BY DEF Canvas!NewVersion
<1> HIDE DEF e, row
<1>3. e.remote = Append(d.remote, row)
  BY <1>2 DEF CanvasShape
<1>4. /\ e.remote \in Seq(CanvasVersion) /\ e.remote # <<>> /\ Len(e.remote) = Len(d.remote) + 1
      /\ \A v \in 1..Len(d.remote) : e.remote[v] = d.remote[v]
  BY <1>1, <1>3, AppendProperties
<1>5. DOMAIN d.remote = 1..Len(d.remote) /\ Len(d.remote) \in Nat /\ DOMAIN e.remote = 1..Len(e.remote)
  BY <1>1, <1>4
<1>6. \A v \in 1..Len(d.remote) : v \in 1..Len(d.remote) + 1
  BY <1>5
<1> QED BY <1>2, <1>3, <1>4, <1>5, <1>6 DEF e

LEMMA OnSavedKeeps ==
    ASSUME CanvasInv, NEW r \in DOMAIN net.out, Canvas!onSaved(r)
    PROVE  CanvasInv' /\ Canvas!PublishedFixed
<1> DEFINE drafted == [db EXCEPT !.draft = r.seen]
           row == [db.remote[r.id] EXCEPT !.graph = r.seen]
           remote == [db.remote EXCEPT ![r.id] = row]
           e == [drafted EXCEPT !.remote = remote]
<1>1. /\ r.seen \in Graphs /\ CanvasShape(db) /\ HistoryAt(db) /\ VersionsAt(db)
      /\ db.remote \in Seq(CanvasVersion) /\ DOMAIN db.remote = 1..Len(db.remote)
  BY DEF CanvasInv, VersionsAt
<1>2. /\ CanvasShape(drafted) /\ drafted.canvas = db.canvas /\ drafted.stack = db.stack /\ drafted.idx = db.idx
      /\ drafted.versions = db.versions /\ drafted.active = db.active /\ drafted.remote = db.remote
      /\ drafted.draft = r.seen
  <2>1. drafted = [db EXCEPT !.draft = r.seen]
    OBVIOUS
  <2> HIDE DEF drafted
  <2> QED BY <1>1, <2>1 DEF CanvasShape
<1>3. CASE r.id \in DOMAIN db.remote /\ ~db.remote[r.id].published
  <2>1. Canvas!Served(r, e) /\ e = [drafted EXCEPT !.remote = remote]
    <3>1. Canvas!Served(r, [drafted EXCEPT !.remote[r.id].graph = r.seen])
      BY <1>3 DEF Canvas!onSaved
    <3> HIDE DEF drafted
    <3> QED BY <1>2, <3>1
  <2>2. db.remote[r.id] \in CanvasVersion
    BY <1>1, <1>3, ElementOfSeq
  <2>3. row \in CanvasVersion
    BY <1>1, <2>2 DEF CanvasVersion
  <2> HIDE DEF drafted, row
  <2>4. /\ remote \in Seq(CanvasVersion) /\ remote # <<>> /\ DOMAIN remote = DOMAIN db.remote
        /\ \A v \in DOMAIN db.remote : v # r.id => remote[v] = db.remote[v]
    <3>1. remote \in Seq(CanvasVersion) /\ Len(remote) = Len(db.remote)
      BY <1>1, <1>3, <2>3, ExceptSeq
    <3> QED BY <1>1, <3>1 DEF VersionsAt
  <2> HIDE DEF e, remote
  <2>5. /\ CanvasShape(e) /\ e.canvas = db.canvas /\ e.stack = db.stack /\ e.idx = db.idx
        /\ e.versions = db.versions /\ e.active = db.active /\ e.remote = remote /\ e.draft = r.seen
    BY <1>2, <2>1 DEF CanvasShape
  <2>6. HistoryAt(e) /\ VersionsAt(e)
    BY <1>1, <2>4, <2>5 DEF HistoryAt, VersionsAt
  <2>7. CanvasInv' /\ db'.remote = remote
    BY <2>1, <2>5, <2>6, ServedKeeps
  <2> QED BY <1>3, <2>4, <2>7 DEF Canvas!PublishedFixed
<1>4. CASE ~(r.id \in DOMAIN db.remote /\ ~db.remote[r.id].published)
  <2>1. Canvas!Served(r, drafted)
    BY <1>4 DEF Canvas!onSaved
  <2> HIDE DEF drafted
  <2>2. HistoryAt(drafted) /\ VersionsAt(drafted)
    BY <1>1, <1>2 DEF HistoryAt, VersionsAt
  <2>3. CanvasInv' /\ db'.remote = db.remote
    BY <1>2, <2>1, <2>2, ServedKeeps
  <2> QED BY <2>3 DEF Canvas!PublishedFixed
<1> QED BY <1>3, <1>4

\* What a new version does to the page: the open one is the new one or stays.
LEMMA GrownKeeps ==
    ASSUME CanvasInv, NEW r, NEW d, CanvasShape(d), HistoryAt(d), VersionsAt(d), d.remote = db.remote,
           NEW g \in Graphs, NEW published \in BOOLEAN, NEW e, Canvas!Served(r, e), CanvasShape(e), HistoryAt(e),
           e.remote = Canvas!NewVersion(d, g, published).remote, e.versions = d.versions, e.draft = d.draft,
           e.active \in {d.active, Len(d.remote) + 1}
    PROVE  CanvasInv' /\ Canvas!PublishedFixed
<1>1. /\ e.remote \in Seq(CanvasVersion) /\ e.remote # <<>>
      /\ DOMAIN e.remote = 1..Len(d.remote) + 1 /\ Len(d.remote) \in Nat
      /\ \A v \in DOMAIN d.remote : v \in DOMAIN e.remote /\ e.remote[v] = d.remote[v]
  BY VersionsGrow
<1>2. Len(d.remote) + 1 \in DOMAIN e.remote
  BY <1>1
<1>3. VersionsAt(e)
  BY <1>1, <1>2 DEF VersionsAt
<1>4. CanvasInv' /\ db'.remote = e.remote
  BY <1>3, ServedKeeps
<1> QED BY <1>1, <1>4 DEF Canvas!PublishedFixed

LEMMA AnswersKeep ==
    ASSUME SomeHistory, CanvasInv, NEW r \in DOMAIN net.out,
           \/ Canvas!onVersionSaved(r) \/ Canvas!onPublished(r) \/ Canvas!onRolledBack(r)
           \/ Canvas!onGenerationApplied(r)
    PROVE  CanvasInv' /\ Canvas!PublishedFixed
<1>1. r.seen \in Graphs /\ CanvasShape(db) /\ HistoryAt(db) /\ VersionsAt(db) /\ db.draft \in Graphs
  BY DEF CanvasInv, VersionsAt
<1>2. CASE Canvas!Served(r, db)
  <2>1. CanvasInv' /\ db'.remote = db.remote
    BY <1>1, <1>2, ServedKeeps
  <2> QED BY <2>1 DEF Canvas!PublishedFixed
<1>3. CASE Canvas!onVersionSaved(r)
  <2> DEFINE grown == Canvas!NewVersion(db, r.seen, FALSE)
             e == [grown EXCEPT !.active = Len(db.remote) + 1]
  <2>1. Canvas!Served(r, e) /\ e = [grown EXCEPT !.active = Len(db.remote) + 1]
    BY <1>3 DEF Canvas!onVersionSaved
  <2>2. grown = [db EXCEPT !.remote = grown.remote]
    BY <1>1, VersionsGrow
  <2> HIDE DEF e, grown
  <2>3. /\ CanvasShape(e) /\ e.canvas = db.canvas /\ e.stack = db.stack /\ e.idx = db.idx /\ e.versions = db.versions
        /\ e.active = Len(db.remote) + 1 /\ e.remote = grown.remote /\ e.draft = db.draft
    <3>1. /\ CanvasShape(grown) /\ grown.canvas = db.canvas /\ grown.stack = db.stack /\ grown.idx = db.idx
          /\ grown.versions = db.versions /\ grown.draft = db.draft
      BY <1>1, <2>2 DEF CanvasShape
    <3> QED BY <3>1, <2>1 DEF CanvasShape
  <2>4. HistoryAt(e)
    BY <1>1, <2>3 DEF HistoryAt
  <2> QED BY <1>1, <2>1, <2>3, <2>4, GrownKeeps DEF grown
<1>4. CASE Canvas!Served(r, Canvas!NewVersion(db, db.draft, TRUE))
  <2> DEFINE e == Canvas!NewVersion(db, db.draft, TRUE)
  <2>1. e = [db EXCEPT !.remote = e.remote]
    BY <1>1, VersionsGrow
  <2> HIDE DEF e
  <2>2. /\ CanvasShape(e) /\ e.canvas = db.canvas /\ e.stack = db.stack /\ e.idx = db.idx /\ e.versions = db.versions
        /\ e.active = db.active /\ e.draft = db.draft
    BY <1>1, <2>1 DEF CanvasShape
  <2>3. HistoryAt(e) /\ e.active \in {db.active, Len(db.remote) + 1}
    BY <1>1, <2>2 DEF HistoryAt
  <2> QED BY <1>1, <1>4, <2>2, <2>3, GrownKeeps DEF e
<1>5. CASE Canvas!onRolledBack(r)
  <2> DEFINE g == Canvas!VersionOf(db.remote, r.id).graph
             drafted == [db EXCEPT !.draft = g]
             grown == Canvas!NewVersion(drafted, g, FALSE)
             e == [grown EXCEPT !.canvas = g, !.stack = <<g>>, !.idx = 1, !.active = Len(db.remote) + 1]
  <2>1. CASE Canvas!Served(r, e) /\ r.id \in DOMAIN db.remote
    <3>1. g \in Graphs
      <4>1. r.id \in 1..Len(db.remote) /\ db.remote \in Seq(CanvasVersion)
        BY <1>1, <2>1 DEF VersionsAt
      <4>2. db.remote[r.id] \in CanvasVersion
        BY <4>1, ElementOfSeq
      <4> QED BY <2>1, <4>2 DEF Canvas!VersionOf, CanvasVersion
    <3> HIDE DEF g
    <3>2. /\ CanvasShape(drafted) /\ HistoryAt(drafted) /\ VersionsAt(drafted) /\ drafted.remote = db.remote
          /\ drafted.versions = db.versions /\ drafted.draft = g /\ drafted.active = db.active
      <4>1. drafted = [db EXCEPT !.draft = g]
        OBVIOUS
      <4> HIDE DEF drafted
      <4>2. /\ CanvasShape(drafted) /\ drafted.canvas = db.canvas /\ drafted.stack = db.stack /\ drafted.idx = db.idx
            /\ drafted.versions = db.versions /\ drafted.active = db.active /\ drafted.remote = db.remote
            /\ drafted.draft = g
        BY <1>1, <4>1 DEF CanvasShape
      <4> QED BY <1>1, <3>1, <4>2 DEF HistoryAt, VersionsAt
    <3> HIDE DEF drafted
    <3>3. grown = [drafted EXCEPT !.remote = grown.remote]
      BY <3>1, <3>2, VersionsGrow
    <3>4. e = [grown EXCEPT !.canvas = g, !.stack = <<g>>, !.idx = 1, !.active = Len(db.remote) + 1]
      OBVIOUS
    <3> HIDE DEF grown, e
    <3>5. /\ CanvasShape(grown) /\ grown.versions = db.versions /\ grown.draft = g
      BY <3>2, <3>3 DEF CanvasShape
    <3>6. /\ CanvasShape(e) /\ e.canvas = g /\ e.stack = <<g>> /\ e.idx = 1 /\ e.versions = db.versions
          /\ e.active = Len(db.remote) + 1 /\ e.remote = grown.remote /\ e.draft = g
      BY <3>4, <3>5 DEF CanvasShape
    <3>7. HistoryAt(e)
      <4>1. <<g>> \in Seq(Graphs) /\ Len(<<g>>) = 1 /\ <<g>>[1] = g /\ 1 \in 1..1
        BY <3>1
      <4>2. 1 <= HistoryLimit
        BY DEF SomeHistory
      <4> QED BY <3>1, <3>6, <4>1, <4>2 DEF HistoryAt
    <3> QED BY <2>1, <3>1, <3>2, <3>6, <3>7, GrownKeeps DEF grown
  <2>2. Canvas!Served(r, db) \/ (Canvas!Served(r, e) /\ r.id \in DOMAIN db.remote)
    BY <1>5 DEF Canvas!onRolledBack
  <2> QED BY <1>2, <2>1, <2>2
<1>6. CASE Canvas!onGenerationApplied(r)
  <2> DEFINE grown == Canvas!NewVersion(db, r.seen, FALSE)
             drawn == Canvas!Drawn(grown, r.seen)
             e == [drawn EXCEPT !.active = Len(db.remote) + 1]
  <2>1. Canvas!Served(r, e) /\ e = [drawn EXCEPT !.active = Len(db.remote) + 1]
    BY <1>6 DEF Canvas!onGenerationApplied
  <2>2. grown = [db EXCEPT !.remote = grown.remote]
    BY <1>1, VersionsGrow
  <2> HIDE DEF e, grown
  <2>3. CanvasShape(grown) /\ grown.canvas = db.canvas /\ grown.stack = db.stack /\ grown.idx = db.idx
        /\ grown.versions = db.versions /\ grown.draft = db.draft
    BY <1>1, <2>2 DEF CanvasShape
  <2>4. HistoryAt(grown)
    BY <1>1, <2>3 DEF HistoryAt
  <2>5. /\ CanvasShape(drawn) /\ HistoryAt(drawn) /\ drawn.versions = db.versions
        /\ drawn.remote = grown.remote /\ drawn.draft = db.draft
    BY <1>1, <2>3, <2>4, Pushed
  <2> HIDE DEF drawn
  <2>6. /\ CanvasShape(e) /\ e.canvas = drawn.canvas /\ e.stack = drawn.stack /\ e.idx = drawn.idx
        /\ e.versions = db.versions /\ e.active = Len(db.remote) + 1 /\ e.remote = grown.remote /\ e.draft = db.draft
    BY <2>1, <2>5 DEF CanvasShape
  <2>7. HistoryAt(e)
    BY <2>5, <2>6 DEF HistoryAt
  <2> QED BY <1>1, <2>1, <2>6, <2>7, GrownKeeps DEF grown
<1> QED BY <1>2, <1>3, <1>4, <1>5, <1>6 DEF Canvas!onPublished

LEMMA FetchedKeeps ==
    ASSUME CanvasInv, Canvas!mapRemoteVersion
    PROVE  CanvasInv' /\ db'.remote = db.remote
<1> DEFINE active == IF db.active \in DOMAIN db.remote THEN db.active ELSE Len(db.remote)
<1>1. db' = [db EXCEPT !.versions = db.remote, !.active = active] /\ net' = net
  BY DEF Canvas!mapRemoteVersion
<1>2. /\ db.remote \in Seq(CanvasVersion) /\ db.remote # <<>>
      /\ DOMAIN db.remote = 1..Len(db.remote) /\ Len(db.remote) \in Nat
  BY DEF CanvasInv, VersionsAt
<1>3. active \in DOMAIN db.remote /\ \A v \in DOMAIN db.remote : db.remote[v] \in CanvasVersion
  <2>1. Len(db.remote) \in 1..Len(db.remote)
    BY <1>2
  <2> QED BY <1>2, <2>1, ElementOfSeq
<1> HIDE DEF active
<1>4. /\ CanvasShape(db') /\ db'.canvas = db.canvas /\ db'.stack = db.stack /\ db'.idx = db.idx
      /\ db'.versions = db.remote /\ db'.active = active /\ db'.remote = db.remote /\ db'.draft = db.draft
  BY <1>1 DEF CanvasInv, CanvasShape
<1>5. HistoryAt(db') /\ VersionsAt(db')
  BY <1>3, <1>4 DEF CanvasInv, HistoryAt, VersionsAt
<1> QED BY <1>1, <1>4, <1>5 DEF CanvasInv

LEMMA CanvasInit == SomeHistory /\ Canvas!Init => CanvasInv
<1> SUFFICES ASSUME SomeHistory, Canvas!Init PROVE CanvasInv
  OBVIOUS
<1> DEFINE g == Canvas!SAMPLE
           versions == [v \in 1..2 |-> [graph |-> g, published |-> v = 1]]
<1>0. g \in Graphs
  BY GraphsKnown
<1>1. db = [canvas |-> g, stack |-> <<g>>, idx |-> 1, baseline |-> g, versions |-> versions, active |-> 2, gate |-> FALSE,
            remote |-> versions, draft |-> g, log |-> <<>>]
  BY DEF Canvas!Init
<1>2. net = [out |-> net.out, made |-> net.made] /\ DOMAIN net.out = {}
  BY DEF Canvas!Init, Canvas!NetInit, Canvas!EmptyBag, Canvas!SetToBag
<1> HIDE DEF g
<1>3. /\ DOMAIN versions = 1..2 /\ versions \in [1..2 -> CanvasVersion]
  BY <1>0 DEF CanvasVersion
<1>4. [1..2 -> CanvasVersion] \subseteq UNION {[1..n -> CanvasVersion] : n \in Nat}
  OBVIOUS
<1>5. versions # <<>> /\ versions \in Seq(CanvasVersion)
  <2>1. versions \in Seq(CanvasVersion)
    BY <1>3, <1>4, SeqDef, Zenon
  <2>2. 1 \in DOMAIN versions /\ 1 \notin DOMAIN <<>>
    BY <1>3
  <2> QED BY <2>1, <2>2
<1>6. <<g>> \in Seq(Graphs) /\ Len(<<g>>) = 1 /\ <<g>>[1] = g /\ 1 \in 1..1
  BY <1>0
<1>7. 1 <= HistoryLimit /\ 2 \in 1..2
  BY DEF SomeHistory
<1> HIDE DEF versions
<1>8. HistoryAt(db)
  BY <1>0, <1>1, <1>6, <1>7 DEF HistoryAt
<1>9. VersionsAt(db)
  BY <1>0, <1>1, <1>3, <1>5, <1>7 DEF VersionsAt
<1> QED BY <1>1, <1>2, <1>8, <1>9 DEF CanvasInv, CanvasShape

LEMMA CanvasNext == SomeHistory /\ CanvasInv /\ [Canvas!Next]_vars => CanvasInv' /\ [Canvas!PublishedFixed]_vars
<1> SUFFICES ASSUME SomeHistory, CanvasInv, [Canvas!Next]_vars PROVE CanvasInv' /\ [Canvas!PublishedFixed]_vars
  OBVIOUS
<1>1. CASE Canvas!Edit
  <2>1. CanvasInv' /\ db'.remote = db.remote
    BY <1>1, UndoKeeps, NodesKeep, DrawnKeeps, OpenedKeeps DEF Canvas!Edit
  <2> QED BY <2>1 DEF Canvas!PublishedFixed
<1>2. CASE Canvas!mapRemoteVersion
  BY <1>2, FetchedKeeps DEF Canvas!PublishedFixed
<1>3. CASE \E u \in Actors : \/ Canvas!saveCanvas(u) \/ Canvas!saveAsVersion(u) \/ Canvas!rollbackVersionApi(u)
                            \/ Canvas!requestProductionRelease(u) \/ Canvas!applyGeneration(u)
  BY <1>3, SavesKeep DEF Canvas!PublishedFixed
<1>4. CASE \E r \in Canvas!BagToSet(net.out) :
              \/ Canvas!onSaved(r) \/ Canvas!onVersionSaved(r) \/ Canvas!onPublished(r) \/ Canvas!onRolledBack(r)
              \/ Canvas!onGenerationApplied(r)
  BY <1>4, OnSavedKeeps, AnswersKeep DEF Canvas!BagToSet
<1>5. CASE UNCHANGED vars
  BY <1>5 DEF vars, CanvasInv, CanvasShape, HistoryAt, VersionsAt
<1> QED BY <1>1, <1>2, <1>3, <1>4, <1>5 DEF Canvas!Next

LEMMA CanvasHolds == CanvasInv => Canvas!HistoryFollowsCanvas /\ Canvas!TypeOK
<1> SUFFICES ASSUME CanvasInv PROVE Canvas!HistoryFollowsCanvas /\ Canvas!TypeOK
  OBVIOUS
<1>1. /\ db.stack \in Seq(Graphs) /\ DOMAIN db.stack = 1..Len(db.stack)
      /\ db.remote \in Seq(CanvasVersion) /\ DOMAIN db.remote = 1..Len(db.remote)
  BY DEF CanvasInv, HistoryAt, VersionsAt
<1>2. \A i \in DOMAIN db.stack : db.stack[i] \in Graphs
  BY <1>1, ElementOfSeq
<1>3. \A v \in DOMAIN db.remote : db.remote[v] \in CanvasVersion
  BY <1>1, ElementOfSeq
<1>4. Canvas!HistoryFollowsCanvas
  BY <1>1, <1>2 DEF CanvasInv, HistoryAt, Canvas!HistoryFollowsCanvas, Graphs
<1>5. Canvas!TypeOK
  BY <1>3, CanvasTyped DEF CanvasInv, VersionsAt, Canvas!TypeOK, CanvasVersion
<1> QED BY <1>4, <1>5

\* The undo stack shows the canvas, and a published version keeps its graph,
\* whichever answers come late.
THEOREM CanvasIsFollowed ==
    ASSUME SomeHistory
    PROVE  Canvas!Init /\ [][Canvas!Next]_vars
               => [](Canvas!HistoryFollowsCanvas /\ Canvas!TypeOK) /\ [][Canvas!PublishedFixed]_vars
<1>1. Canvas!Init => CanvasInv
  BY CanvasInit
<1>2. CanvasInv /\ [Canvas!Next]_vars => CanvasInv' /\ [Canvas!PublishedFixed]_vars
  BY CanvasNext
<1> QED BY <1>1, <1>2, CanvasHolds, PTL

-----------------------------------------------------------------------------
(* The spreadsheets skill, for any processes of which one delivers: while a  *)
(* delivery is under way nothing is reported, and what is reported is there. *)

Sheets == INSTANCE SpreadsheetDelivery WITH disk <- db, procs <- net

SheetReport == [of : Sheets!Files, req : DOMAIN Sheets!Specs, drawn : SUBSET Sheets!Files, alone : BOOLEAN]

SheetDisk ==
    [cand : Sheets!Files, out : Sheets!Files, pages : SUBSET Sheets!Files, left : SUBSET Sheets!Files,
     report : SheetReport, intact : BOOLEAN, windows : BOOLEAN, runs : 0..MaxRuns]

Drawing == {"clear", "draw", "list"}
Sealing == {"copy", "compare", "seal", "verify"}
Replacing == {"staged", "aside", "converted", "copying"}

SheetProc ==
    [at : {"idle"} \cup Drawing \cup Sealing \cup Replacing, held : Sheets!Files,
     req : DOMAIN Sheets!Specs, aside : Sheets!Files, drawn : SUBSET Sheets!Files, alone : BOOLEAN]

\* The audit that a report stands for, of a file and requirements, by whether the
\* sources are as they were.
SheetPasses(intact, f, spec) ==
    LET b == Sheets!Books[f.kind]
        s == Sheets!Specs[spec]
        sources == IF s.backed # {} /\ ~intact THEN {"source_file_integrity"} ELSE {}
        uncovered == IF Sheets!Stated(spec) THEN Sheets!evaluateRequirements(b, s) \cup sources ELSE {}
        failures == Sheets!collectWorkbookFacts(b) \cup Sheets!collectChartFailures(b) \cup uncovered
    IN  failures = {} /\ (Sheets!Stated(spec) /\ uncovered = {}) /\ Sheets!evaluateWarningDispositions(b, s)

\* Who delivers, before the deliverable is there and once it is.
SheetDelivers(p, s, d) ==
    /\ s.at \in Sealing => s.req # "none"
    /\ s.req # "none" => /\ p \in Deliverers /\ s.at \in Drawing \cup Sealing
                         /\ d.report.of = Sheets!Missing
                         /\ s.at # "verify" => d.out = Sheets!Missing

\* What a process that was left alone has drawn.
SheetDraws(s, d) ==
    s.alone => /\ s.at = "draw" => d.pages = {}
               /\ s.at = "list" => d.pages = {d.cand}
               /\ s.at = "copy" => s.drawn \subseteq {d.cand}
               /\ s.at \in Sealing \ {"copy"} => s.drawn \subseteq {s.held}

\* What is to take the place of the candidate is there.
SheetReplaces(s) ==
    /\ s.at \in Replacing => s.held # Sheets!Missing
    /\ s.at = "aside" => s.aside # Sheets!Missing

SheetReported(d) ==
    /\ d.report.of # Sheets!Missing => /\ d.out = d.report.of
                                       /\ d.intact => SheetPasses(d.intact, d.report.of, d.report.req)
    /\ d.report.alone => d.report.drawn \subseteq {d.report.of}

SheetInv ==
    /\ db \in SheetDisk /\ net \in [Procs -> SheetProc]
    /\ SheetReported(db)
    /\ \A p \in Procs : SheetDelivers(p, net[p], db) /\ SheetDraws(net[p], db) /\ SheetReplaces(net[p])

LEMMA SheetPassing ==
    \A f, spec : Sheets!Deliverable(Sheets!auditXlsx(f, spec)) <=> SheetPasses(db.intact, f, spec)
BY ZenonT(40) DEF Sheets!Deliverable, Sheets!auditXlsx, Sheets!evaluateSourceFiles, SheetPasses

LEMMA SheetFiles ==
    /\ Sheets!Missing \in Sheets!Files /\ Sheets!Torn \in Sheets!Files /\ Sheets!Torn # Sheets!Missing
    /\ \A k \in Sheets!Kinds, n \in 1..MaxRuns :
          Sheets!File(k, n) \in Sheets!Files /\ Sheets!File(k, n) # Sheets!Missing
    /\ \A k \in Sheets!Kinds : Sheets!recalculateWorkbook(k) \in Sheets!Kinds
    /\ ~Sheets!Readable(Sheets!Missing)
BY
   DEF Sheets!Missing, Sheets!Torn, Sheets!Files, Sheets!File, Sheets!Kinds, Sheets!Books, Sheets!recalculateWorkbook, Sheets!Readable

LEMMA SheetIdle ==
    /\ Sheets!Idle \in SheetProc /\ Sheets!Idle.at = "idle" /\ Sheets!Idle.req = "none"
    /\ Sheets!NoReport \in SheetReport /\ Sheets!NoReport.of = Sheets!Missing /\ Sheets!NoReport.drawn = {}
BY SheetFiles DEF Sheets!Idle, Sheets!NoReport, SheetProc, SheetReport, Sheets!Specs

\* One process goes on and the candidate and the pages stay.
LEMMA SheetGoes ==
    ASSUME SheetInv, NEW p \in Procs, NEW new \in SheetProc, Sheets!Goes(p, new),
           db' \in SheetDisk, db'.cand = db.cand, db'.pages = db.pages, SheetReported(db'),
           SheetDelivers(p, new, db'), SheetDraws(new, db'), SheetReplaces(new),
           \A q \in Procs \ {p} : SheetDelivers(q, net[q], db')
    PROVE  SheetInv'
<1>1. net' \in [Procs -> SheetProc] /\ net'[p] = new /\ \A q \in Procs \ {p} : net'[q] = net[q]
  BY DEF SheetInv, Sheets!Goes
<1>2. \A q \in Procs \ {p} : SheetDraws(net[q], db') /\ SheetReplaces(net[q])
  BY DEF SheetInv, SheetDraws
<1>3. \A q \in Procs : SheetDelivers(q, net'[q], db') /\ SheetDraws(net'[q], db') /\ SheetReplaces(net'[q])
  BY <1>1, <1>2
<1> QED BY <1>1, <1>3 DEF SheetInv

\* One process touches the candidate or the pages: nobody else is alone.
LEMMA SheetTouches ==
    ASSUME SheetInv, NEW p \in Procs, NEW new \in SheetProc, Sheets!GoesAndTouches(p, new),
           db' \in SheetDisk, db'.out = db.out, db'.report = db.report, db'.intact = db.intact,
           SheetDelivers(p, new, db'), SheetDraws(new, db'), SheetReplaces(new)
    PROVE  SheetInv'
<1>1. net' \in [Procs -> SheetProc] /\ net'[p] = new
      /\ \A q \in Procs \ {p} : net'[q] = [net[q] EXCEPT !.alone = FALSE]
  BY DEF SheetInv, Sheets!GoesAndTouches, SheetProc
<1>2. \A q \in Procs \ {p} : SheetDelivers(q, net'[q], db') /\ SheetDraws(net'[q], db') /\ SheetReplaces(net'[q])
  <2> SUFFICES ASSUME NEW q \in Procs \ {p}
               PROVE  SheetDelivers(q, net'[q], db') /\ SheetDraws(net'[q], db') /\ SheetReplaces(net'[q])
    OBVIOUS
  <2>1. /\ net'[q].at = net[q].at /\ net'[q].req = net[q].req /\ net'[q].alone = FALSE
        /\ net'[q].held = net[q].held /\ net'[q].aside = net[q].aside
    BY <1>1 DEF SheetInv, SheetProc
  <2> QED BY <2>1 DEF SheetInv, SheetDelivers, SheetDraws, SheetReplaces
<1>3. \A q \in Procs : SheetDelivers(q, net'[q], db') /\ SheetDraws(net'[q], db') /\ SheetReplaces(net'[q])
  BY <1>1, <1>2
<1>4. SheetReported(db')
  BY DEF SheetInv, SheetReported
<1> QED BY <1>1, <1>3, <1>4 DEF SheetInv

\* A command starts: what it holds, if it replaces the candidate, is its own.
LEMMA SheetStarts ==
    ASSUME SheetInv, NEW p \in Procs, NEW new \in SheetProc, Sheets!Goes(p, new), db.runs < MaxRuns, OneDeliverer,
           db' = [db EXCEPT !.runs = @ + 1], new.at \in {"clear", "staged", "converted"},
           new.req # "none" => new.at = "clear" /\ p \in Deliverers /\ db.out = Sheets!Missing, SheetReplaces(new)
    PROVE  SheetInv'
<1>1. db' \in SheetDisk /\ db'.cand = db.cand /\ db'.pages = db.pages /\ db'.out = db.out
      /\ db'.report = db.report /\ db'.intact = db.intact
  BY DEF SheetInv, SheetDisk, OneDeliverer
<1>2. SheetReported(db') /\ \A q \in Procs \ {p} : SheetDelivers(q, net[q], db')
  BY <1>1 DEF SheetInv, SheetReported, SheetDelivers
<1>3. SheetDelivers(p, new, db') /\ SheetDraws(new, db')
  BY <1>1 DEF SheetInv, SheetReported, SheetDelivers, SheetDraws, Sealing, Drawing
<1> QED BY <1>1, <1>2, <1>3, SheetGoes

LEMMA CommandsKeep ==
    ASSUME SheetInv, OneDeliverer, NEW p \in Procs,
           \/ Sheets!commandBuild(p) \/ Sheets!commandRecalculate(p) \/ Sheets!convertLegacyXls(p)
           \/ Sheets!commandRender(p) \/ Sheets!commandDeliver(p)
    PROVE  SheetInv'
<1> USE SheetFiles, SheetIdle
<1>0. Sheets!Starts(p) => db.runs < MaxRuns /\ db.runs + 1 \in 1..MaxRuns
  BY DEF SheetInv, SheetDisk, Sheets!Starts, OneDeliverer
<1>1. ASSUME NEW k \in Sheets!Kinds, NEW at \in {"staged", "converted"}, Sheets!Starts(p),
             Sheets!Goes(p, [Sheets!Idle EXCEPT !.at = at,
                                 !.held = Sheets!File(Sheets!recalculateWorkbook(k), db.runs + 1)]),
             db' = [db EXCEPT !.runs = @ + 1]
      PROVE  SheetInv'
  <2> DEFINE f == Sheets!File(Sheets!recalculateWorkbook(k), db.runs + 1)
             new == [Sheets!Idle EXCEPT !.at = at, !.held = f]
  <2>1. f \in Sheets!Files /\ f # Sheets!Missing
    BY <1>0, <1>1
  <2> HIDE DEF f
  <2>2. new \in SheetProc /\ new.at = at /\ new.req = "none" /\ new.held = f
    BY <2>1 DEF SheetProc, Replacing
  <2>3. Sheets!Goes(p, new)
    BY <1>1 DEF f
  <2> HIDE DEF new
  <2>4. SheetReplaces(new)
    BY <2>1, <2>2 DEF SheetReplaces
  <2> QED BY <1>0, <1>1, <2>2, <2>3, <2>4, SheetStarts
<1>2. ASSUME NEW spec \in DOMAIN Sheets!Specs, Sheets!Starts(p), spec # "none" => p \in Deliverers /\ db.out = Sheets!Missing,
             Sheets!Goes(p, [Sheets!Idle EXCEPT !.at = "clear", !.req = spec]), db' = [db EXCEPT !.runs = @ + 1]
      PROVE  SheetInv'
  <2> DEFINE new == [Sheets!Idle EXCEPT !.at = "clear", !.req = spec]
  <2>1. new \in SheetProc /\ new.at = "clear" /\ new.req = spec
    BY <1>2 DEF SheetProc, Drawing
  <2>2. Sheets!Goes(p, new)
    BY <1>2
  <2> HIDE DEF new
  <2>3. SheetReplaces(new)
    BY SMTT(30), <2>1 DEF SheetReplaces, Replacing
  <2> QED BY <1>0, <1>2, <2>1, <2>2, <2>3, SheetStarts
<1>3. CASE Sheets!commandBuild(p)
  BY ZenonT(40), <1>1, <1>3 DEF Sheets!commandBuild
<1>4. CASE Sheets!commandRecalculate(p) \/ Sheets!convertLegacyXls(p)
  BY Zenon, <1>1, <1>4 DEF Sheets!commandRecalculate, Sheets!convertLegacyXls
<1>5. CASE Sheets!commandRender(p)
  <2>1. [Sheets!Idle EXCEPT !.at = "clear"] = [Sheets!Idle EXCEPT !.at = "clear", !.req = "none"] /\ "none" \in DOMAIN Sheets!Specs
    BY DEF SheetProc, Sheets!Specs
  <2> QED BY Zenon, <1>2, <1>5, <2>1 DEF Sheets!commandRender
<1>6. CASE Sheets!commandDeliver(p)
  BY Zenon, <1>2, <1>6 DEF Sheets!commandDeliver
<1> QED BY <1>3, <1>4, <1>5, <1>6

\* The candidate is replaced by the file a process holds or had put aside, by
\* half a file, or by nothing while it stands under another name.
LEMMA ReplacementsKeep ==
    ASSUME SheetInv, NEW p \in Procs,
           \/ Sheets!replaceFileAtomically(p) \/ Sheets!moveAside(p) \/ Sheets!putInPlace(p) \/ Sheets!putBack(p)
           \/ Sheets!copyBegins(p) \/ Sheets!copyEnds(p)
    PROVE  SheetInv'
<1> DEFINE s == net[p]
<1>1. s \in SheetProc /\ SheetReplaces(s) /\ SheetDelivers(p, s, db) /\ db \in SheetDisk
  BY DEF SheetInv
<1>2. s.at \in Replacing => s.req = "none"
  BY <1>1 DEF SheetDelivers, Replacing, Drawing, Sealing
<1> HIDE DEF s
<1>3. ASSUME NEW new \in SheetProc, NEW f \in Sheets!Files, Sheets!GoesAndTouches(p, new), db' = [db EXCEPT !.cand = f],
             SheetReplaces(new), new.req = "none", new.at \in Replacing \cup {"idle"}
      PROVE  SheetInv'
  <2>1. /\ db' \in SheetDisk /\ db'.out = db.out /\ db'.report = db.report /\ db'.intact = db.intact
    BY <1>1, <1>3 DEF SheetDisk
  <2>2. SheetDelivers(p, new, db') /\ SheetDraws(new, db')
    BY <1>3 DEF SheetDelivers, SheetDraws, Sealing, Replacing
  <2> QED BY <1>3, <2>1, <2>2, SheetTouches
<1>4. SheetReplaces(Sheets!Idle) /\ Sheets!Idle \in SheetProc /\ Sheets!Idle.req = "none" /\ Sheets!Idle.at = "idle"
  BY SheetIdle DEF SheetReplaces, Replacing
<1>5. s.held \in Sheets!Files /\ s.aside \in Sheets!Files
  BY <1>1 DEF SheetProc
<1>6. CASE Sheets!replaceFileAtomically(p) \/ Sheets!putInPlace(p) \/ Sheets!copyEnds(p)
  BY <1>3, <1>4, <1>5, <1>6 DEF Sheets!replaceFileAtomically, Sheets!putInPlace, Sheets!copyEnds, s
<1>7. CASE Sheets!putBack(p)
  BY <1>3, <1>4, <1>5, <1>7 DEF Sheets!putBack, s
<1>8. CASE Sheets!moveAside(p)
  <2> DEFINE new == [s EXCEPT !.at = "aside", !.aside = db.cand]
  <2>1. s.at = "staged" /\ db.cand \in Sheets!Files \ {Sheets!Missing} /\ Sheets!GoesAndTouches(p, new)
        /\ db' = [db EXCEPT !.cand = Sheets!Missing]
    BY <1>1, <1>8 DEF Sheets!moveAside, Sheets!At, s, SheetDisk
  <2>2. new \in SheetProc /\ new.at = "aside" /\ new.req = s.req /\ new.held = s.held /\ new.aside = db.cand
    BY <1>1, <2>1 DEF SheetProc, Replacing
  <2>3. s.req = "none" /\ s.held # Sheets!Missing
    BY <1>1, <1>2, <2>1 DEF SheetReplaces, Replacing
  <2> HIDE DEF new
  <2>4. SheetReplaces(new)
    BY <2>1, <2>2, <2>3 DEF SheetReplaces, Replacing
  <2> QED BY <1>3, <2>1, <2>2, <2>3, <2>4, SheetFiles DEF Replacing
<1>9. CASE Sheets!copyBegins(p)
  <2> DEFINE new == [s EXCEPT !.at = "copying"]
  <2>1. s.at = "converted" /\ Sheets!GoesAndTouches(p, new) /\ db' = [db EXCEPT !.cand = Sheets!Torn]
    BY <1>9 DEF Sheets!copyBegins, Sheets!At, s
  <2>2. new \in SheetProc /\ new.at = "copying" /\ new.req = s.req /\ new.held = s.held
    BY <1>1 DEF SheetProc, Replacing
  <2>3. s.req = "none" /\ s.held # Sheets!Missing
    BY <1>1, <1>2, <2>1 DEF SheetReplaces, Replacing
  <2> HIDE DEF new
  <2>4. SheetReplaces(new)
    BY <2>2, <2>3 DEF SheetReplaces, Replacing
  <2> QED BY <1>3, <2>1, <2>2, <2>3, <2>4, SheetFiles DEF Replacing
<1> QED BY <1>6, <1>7, <1>8, <1>9

\* The pages are cleared and drawn.
LEMMA DrawingKeeps ==
    ASSUME SheetInv, NEW p \in Procs, Sheets!clearPages(p) \/ Sheets!drawPages(p)
    PROVE  SheetInv'
<1> DEFINE s == net[p]
<1>1. s \in SheetProc /\ SheetReplaces(s) /\ SheetDelivers(p, s, db) /\ SheetDraws(s, db) /\ db \in SheetDisk
  BY DEF SheetInv
<1> HIDE DEF s
<1>2. ASSUME NEW at \in {"draw", "list"}, s.at \in {"clear", "draw"},
             Sheets!GoesAndTouches(p, [s EXCEPT !.at = at]), NEW pages \in SUBSET Sheets!Files,
             db' = [db EXCEPT !.pages = pages],
             s.alone => pages = IF at = "draw" THEN {} ELSE {db.cand}
      PROVE  SheetInv'
  <2> DEFINE new == [s EXCEPT !.at = at]
  <2>1. /\ db' \in SheetDisk /\ db'.out = db.out /\ db'.report = db.report /\ db'.intact = db.intact
        /\ db'.cand = db.cand /\ db'.pages = pages
    BY <1>1, <1>2 DEF SheetDisk
  <2>2. /\ new \in SheetProc /\ new.at = at /\ new.req = s.req /\ new.alone = s.alone
    BY <1>1 DEF SheetProc, Drawing
  <2>3. Sheets!GoesAndTouches(p, new)
    BY <1>2
  <2> HIDE DEF new
  <2>4. SheetDelivers(p, new, db')
    BY <1>1, <1>2, <2>1, <2>2 DEF SheetDelivers, Drawing, Sealing
  <2>5. SheetDraws(new, db') /\ SheetReplaces(new)
    BY <1>2, <2>1, <2>2 DEF SheetDraws, SheetReplaces, Sealing, Replacing
  <2> QED BY <2>1, <2>2, <2>3, <2>4, <2>5, SheetTouches
<1>3. CASE Sheets!clearPages(p)
  <2>1. s.at = "clear" /\ db' = [db EXCEPT !.pages = {}] /\ Sheets!GoesAndTouches(p, [s EXCEPT !.at = "draw"])
    BY <1>3 DEF Sheets!clearPages, Sheets!At, s
  <2>2. {} \in SUBSET Sheets!Files
    OBVIOUS
  <2> QED BY <1>2, <2>1, <2>2
<1>4. CASE Sheets!drawPages(p)
  <2> DEFINE pages == db.pages \cup {db.cand}
  <2>1. pages \in SUBSET Sheets!Files
    BY <1>1 DEF SheetDisk
  <2>2. s.at = "draw" /\ db' = [db EXCEPT !.pages = pages] /\ Sheets!GoesAndTouches(p, [s EXCEPT !.at = "list"])
    BY <1>4 DEF Sheets!drawPages, Sheets!At, s
  <2>3. s.alone => pages = {db.cand}
    BY <1>1, <2>2 DEF SheetDraws
  <2> HIDE DEF pages
  <2> QED BY <1>2, <2>1, <2>2, <2>3
<1> QED BY <1>3, <1>4

\* A process goes on, or gives up, and touches no file.
LEMMA SheetGoesOn ==
    ASSUME SheetInv, NEW p \in Procs, UNCHANGED db,
           \/ Sheets!listPages(p) \/ Sheets!copyCandidate(p) \/ Sheets!compareHashes(p) \/ Sheets!fails(p)
    PROVE  SheetInv'
<1> DEFINE s == net[p]
<1>1. s \in SheetProc /\ SheetReplaces(s) /\ SheetDelivers(p, s, db) /\ SheetDraws(s, db) /\ db \in SheetDisk
  BY DEF SheetInv
<1> HIDE DEF s
<1>2. ASSUME NEW new \in SheetProc, Sheets!Goes(p, new), SheetDelivers(p, new, db), SheetDraws(new, db), SheetReplaces(new)
      PROVE  SheetInv'
  <2>1. /\ db' \in SheetDisk /\ db'.cand = db.cand /\ db'.pages = db.pages /\ SheetReported(db')
        /\ \A q \in Procs \ {p} : SheetDelivers(q, net[q], db')
        /\ SheetDelivers(p, new, db') /\ SheetDraws(new, db')
    BY <1>2 DEF SheetInv
  <2> QED BY <1>2, <2>1, SheetGoes
<1>3. SheetDelivers(p, Sheets!Idle, db) /\ SheetDraws(Sheets!Idle, db) /\ SheetReplaces(Sheets!Idle) /\ Sheets!Idle \in SheetProc
  BY SheetIdle DEF SheetDelivers, SheetDraws, SheetReplaces, Sealing, Replacing
<1>4. CASE Sheets!Goes(p, Sheets!Idle)
  BY <1>2, <1>3, <1>4
<1>5. CASE Sheets!listPages(p) /\ ~Sheets!Goes(p, Sheets!Idle)
  <2> DEFINE new == [s EXCEPT !.at = "copy", !.drawn = db.pages]
  <2>1. s.at = "list" /\ s.req # "none" /\ Sheets!Goes(p, new)
    BY <1>5 DEF Sheets!listPages, Sheets!At, Sheets!Stated, s
  <2>2. new \in SheetProc /\ new.at = "copy" /\ new.req = s.req /\ new.alone = s.alone /\ new.drawn = db.pages
    BY <1>1 DEF SheetProc, SheetDisk, Sealing
  <2> HIDE DEF new
  <2>3. SheetDelivers(p, new, db) /\ SheetDraws(new, db) /\ SheetReplaces(new)
    BY <1>1, <2>1, <2>2 DEF SheetDelivers, SheetDraws, SheetReplaces, Sealing, Replacing
  <2> QED BY <1>2, <2>1, <2>2, <2>3
<1>6. CASE Sheets!copyCandidate(p)
  <2> DEFINE new == [s EXCEPT !.at = "compare", !.held = db.cand]
  <2>1. s.at = "copy" /\ Sheets!Goes(p, new)
    BY <1>6 DEF Sheets!copyCandidate, Sheets!At, s
  <2>2. /\ new \in SheetProc /\ new.at = "compare" /\ new.req = s.req /\ new.alone = s.alone /\ new.drawn = s.drawn
        /\ new.held = db.cand
    BY <1>1 DEF SheetProc, SheetDisk, Sealing
  <2> HIDE DEF new
  <2>3. SheetDelivers(p, new, db) /\ SheetDraws(new, db) /\ SheetReplaces(new)
    BY <1>1, <2>1, <2>2 DEF SheetDelivers, SheetDraws, SheetReplaces, Sealing, Replacing
  <2> QED BY <1>2, <2>1, <2>2, <2>3
<1>7. CASE Sheets!compareHashes(p) /\ ~Sheets!Goes(p, Sheets!Idle)
  <2> DEFINE new == [s EXCEPT !.at = "seal"]
  <2>1. s.at = "compare" /\ Sheets!Goes(p, new)
    BY <1>7 DEF Sheets!compareHashes, Sheets!At, s
  <2>2. /\ new \in SheetProc /\ new.at = "seal" /\ new.req = s.req /\ new.alone = s.alone /\ new.drawn = s.drawn
        /\ new.held = s.held
    BY <1>1 DEF SheetProc, Sealing
  <2> HIDE DEF new
  <2>3. SheetDelivers(p, new, db) /\ SheetDraws(new, db) /\ SheetReplaces(new)
    BY <1>1, <2>1, <2>2 DEF SheetDelivers, SheetDraws, SheetReplaces, Sealing, Replacing
  <2> QED BY <1>2, <2>1, <2>2, <2>3
<1>8. CASE Sheets!fails(p)
  BY <1>4, <1>8 DEF Sheets!fails
<1> QED BY <1>4, <1>5, <1>6, <1>7, <1>8

\* The copy takes its place: nothing is reported before it was audited there.
LEMMA SealKeeps ==
    ASSUME SheetInv, OneDeliverer, NEW p \in Procs, Sheets!seal(p)
    PROVE  SheetInv'
<1> DEFINE s == net[p]
           new == [s EXCEPT !.at = "verify"]
<1>1. s \in SheetProc /\ SheetReplaces(s) /\ SheetDelivers(p, s, db) /\ SheetDraws(s, db) /\ db \in SheetDisk
  BY DEF SheetInv
<1>2. s.at = "seal" /\ Sheets!Goes(p, new) /\ db' = [db EXCEPT !.out = s.held]
  BY DEF Sheets!seal, Sheets!At
<1> HIDE DEF s
<1>3. /\ new \in SheetProc /\ new.at = "verify" /\ new.req = s.req /\ new.alone = s.alone /\ new.drawn = s.drawn
      /\ new.held = s.held
  BY <1>1 DEF SheetProc, Sealing
<1>4. /\ db' \in SheetDisk /\ db'.cand = db.cand /\ db'.pages = db.pages /\ db'.report = db.report
      /\ db'.intact = db.intact
  BY <1>1, <1>2 DEF SheetDisk, SheetProc
<1> HIDE DEF new
<1>5. p \in Deliverers /\ s.req # "none" /\ db.report.of = Sheets!Missing
  BY <1>1, <1>2 DEF SheetDelivers, Sealing
<1>6. SheetReported(db') /\ SheetDelivers(p, new, db') /\ SheetDraws(new, db') /\ SheetReplaces(new)
  BY <1>1, <1>2, <1>3, <1>4, <1>5
     DEF SheetInv, SheetReported, SheetDelivers, SheetDraws, SheetReplaces, Sealing, Replacing
<1>7. \A q \in Procs \ {p} : SheetDelivers(q, net[q], db')
  BY <1>5 DEF SheetInv, SheetDelivers, OneDeliverer, Sealing
<1> QED BY <1>2, <1>3, <1>4, <1>6, <1>7, SheetGoes

LEMMA VerifyKeeps ==
    ASSUME SheetInv, OneDeliverer, NEW p \in Procs, Sheets!verifyFinal(p)
    PROVE  SheetInv'
<1> DEFINE s == net[p]
           r == [of |-> db.out, req |-> s.req, drawn |-> s.drawn, alone |-> s.alone]
<1>1. s \in SheetProc /\ SheetDelivers(p, s, db) /\ SheetDraws(s, db) /\ db \in SheetDisk
  BY DEF SheetInv
<1>2. s.at = "verify" /\ Sheets!Goes(p, Sheets!Idle)
      /\ \/ db' = db
         \/ db' = [db EXCEPT !.out = Sheets!Missing]
         \/ /\ SheetPasses(db.intact, db.out, s.req) /\ db.out = s.held
            /\ db' = [db EXCEPT !.report = r]
  BY SheetPassing DEF Sheets!verifyFinal, Sheets!At
<1> HIDE DEF s
<1>3. r \in SheetReport /\ r.of = db.out /\ r.req = s.req /\ r.drawn = s.drawn /\ r.alone = s.alone
  BY <1>1 DEF SheetReport, SheetProc, SheetDisk
<1> HIDE DEF r
<1>4. /\ db' \in SheetDisk /\ db'.cand = db.cand /\ db'.pages = db.pages /\ db'.intact = db.intact
      /\ \/ db'.out = db.out /\ db'.report = db.report
         \/ db'.out = Sheets!Missing /\ db'.report = db.report
         \/ /\ SheetPasses(db.intact, db.out, s.req) /\ db.out = s.held
            /\ db'.out = db.out /\ db'.report = r
  BY <1>1, <1>2, <1>3, SheetFiles DEF SheetDisk
<1>5. p \in Deliverers /\ db.report.of = Sheets!Missing
  BY <1>1, <1>2 DEF SheetDelivers, Sealing
<1>6. s.alone => s.drawn \subseteq {s.held}
  BY <1>1, <1>2 DEF SheetDraws, Sealing
<1>7. SheetReported(db')
  BY <1>3, <1>4, <1>5, <1>6 DEF SheetInv, SheetReported
<1>8. SheetDelivers(p, Sheets!Idle, db') /\ SheetDraws(Sheets!Idle, db') /\ SheetReplaces(Sheets!Idle) /\ Sheets!Idle \in SheetProc
  BY SheetIdle DEF SheetDelivers, SheetDraws, SheetReplaces, Sealing, Replacing
<1>9. \A q \in Procs \ {p} : SheetDelivers(q, net[q], db')
  BY <1>5 DEF SheetInv, SheetDelivers, OneDeliverer, Sealing
<1> QED BY <1>2, <1>4, <1>7, <1>8, <1>9, SheetGoes

LEMMA SheetAccidentsKeep ==
    ASSUME SheetInv, Sheets!sourceChanges \/ \E p \in Procs : Sheets!killed(p)
    PROVE  SheetInv'
<1>1. CASE Sheets!sourceChanges
  <2>1. /\ net' = net /\ db' \in SheetDisk /\ db'.cand = db.cand /\ db'.pages = db.pages /\ db'.out = db.out
        /\ db'.report = db.report /\ db'.intact = FALSE
    BY <1>1 DEF Sheets!sourceChanges, SheetInv, SheetDisk
  <2> QED BY <2>1 DEF SheetInv, SheetReported, SheetDelivers, SheetDraws
<1>2. ASSUME NEW p \in Procs, Sheets!killed(p) PROVE SheetInv'
  <2> DEFINE left == db.left \cup ({net[p].aside} \ {Sheets!Missing})
  <2>1. db \in SheetDisk /\ left \in SUBSET Sheets!Files
    BY DEF SheetInv, SheetDisk, SheetProc
  <2>2. Sheets!Goes(p, Sheets!Idle) /\ db' = [db EXCEPT !.left = left]
    BY <1>2 DEF Sheets!killed
  <2> HIDE DEF left
  <2>3. /\ db' \in SheetDisk /\ db'.cand = db.cand /\ db'.pages = db.pages /\ db'.out = db.out
        /\ db'.report = db.report /\ db'.intact = db.intact
    BY <2>1, <2>2 DEF SheetDisk
  <2>4. SheetDelivers(p, Sheets!Idle, db') /\ SheetDraws(Sheets!Idle, db') /\ SheetReplaces(Sheets!Idle) /\ Sheets!Idle \in SheetProc
    BY SheetIdle DEF SheetDelivers, SheetDraws, SheetReplaces, Sealing, Replacing
  <2>5. SheetReported(db') /\ \A q \in Procs \ {p} : SheetDelivers(q, net[q], db')
    BY <2>3 DEF SheetInv, SheetReported, SheetDelivers
  <2> QED BY <2>2, <2>3, <2>4, <2>5, SheetGoes
<1> QED BY <1>1, <1>2

LEMMA SheetsInit == OneDeliverer /\ Sheets!Init => SheetInv
<1> SUFFICES ASSUME OneDeliverer, Sheets!Init PROVE SheetInv
  OBVIOUS
<1>1. Sheets!File("charted", 1) \in Sheets!Files
  BY SheetFiles DEF OneDeliverer, Sheets!Kinds, Sheets!Books
<1>2. Sheets!Cardinality({}) = 0 /\ \A x : Sheets!Cardinality({x}) = 1
  <2>1. \A S : Sheets!Cardinality(S) = Cardinality(S)
    BY DEF Sheets!Cardinality, Cardinality, Sheets!IsFiniteSet, IsFiniteSet
  <2> QED BY <2>1, FS_EmptySet, FS_Singleton
<1>3. PICK w \in BOOLEAN, was \in {{}, {Sheets!File("charted", 1)}} :
          db = [cand |-> IF was = {} THEN Sheets!Missing ELSE Sheets!File("charted", 1), out |-> Sheets!Missing,
                pages |-> was, left |-> {}, report |-> Sheets!NoReport, intact |-> TRUE, windows |-> w,
                runs |-> Sheets!Cardinality(was)]
  BY DEF Sheets!Init
<1>4. was \in SUBSET Sheets!Files /\ Sheets!Cardinality(was) \in 0..MaxRuns
  <2>1. MaxRuns \in Nat \ {0}
    BY DEF OneDeliverer
  <2>2. CASE was = {}
    BY <1>2, <2>1, <2>2
  <2>3. CASE was = {Sheets!File("charted", 1)}
    <3>1. Sheets!Cardinality(was) = 1
      BY <1>2, <2>3
    <3> QED BY <1>1, <2>1, <2>3, <3>1
  <2> QED BY <2>2, <2>3
<1>5. db \in SheetDisk /\ db.report = Sheets!NoReport
  BY <1>1, <1>3, <1>4, SheetFiles, SheetIdle DEF SheetDisk
<1>6. net = [p \in Procs |-> Sheets!Idle]
  BY DEF Sheets!Init
<1> QED BY <1>5, <1>6, SheetIdle DEF SheetInv, SheetReported, SheetDelivers, SheetDraws, SheetReplaces, Sealing, Replacing

LEMMA SheetsNext == OneDeliverer /\ SheetInv /\ [Sheets!Next]_vars => SheetInv'
<1> SUFFICES ASSUME OneDeliverer, SheetInv, [Sheets!Next]_vars PROVE SheetInv'
  OBVIOUS
<1>1. CASE UNCHANGED vars
  BY <1>1 DEF vars, SheetInv, SheetReported, SheetDelivers, SheetDraws, SheetReplaces
<1>2. CASE Sheets!sourceChanges
  BY <1>2, SheetAccidentsKeep
<1>3. ASSUME NEW p \in Procs, Sheets!Step(p) PROVE SheetInv'
  <2>1. (Sheets!listPages(p) \/ Sheets!copyCandidate(p) \/ Sheets!compareHashes(p) \/ Sheets!fails(p)) => UNCHANGED db
    BY DEF Sheets!listPages, Sheets!copyCandidate, Sheets!compareHashes, Sheets!fails
  <2> QED BY <1>3, <2>1, CommandsKeep, ReplacementsKeep, DrawingKeeps, SheetGoesOn, SealKeeps, VerifyKeeps, SheetAccidentsKeep
          DEF Sheets!Step
<1> QED BY <1>1, <1>2, <1>3 DEF Sheets!Next

LEMMA SheetsHold == SheetInv => Sheets!ReportedIsThere /\ Sheets!DrawnIsDelivered /\ Sheets!TypeOK
<1> SUFFICES ASSUME SheetInv PROVE Sheets!ReportedIsThere /\ Sheets!DrawnIsDelivered /\ Sheets!TypeOK
  OBVIOUS
<1>1. Sheets!ReportedIsThere
  BY SheetPassing DEF SheetInv, SheetReported, Sheets!ReportedIsThere
<1>2. Sheets!DrawnIsDelivered
  BY DEF SheetInv, SheetReported, Sheets!DrawnIsDelivered
<1>3. Sheets!TypeOK
  BY DEF SheetInv, SheetDisk, SheetReport, SheetProc, Sheets!TypeOK
<1> QED BY <1>1, <1>2, <1>3

\* What steps in for the candidate is there, whoever replaces it.
LEMMA SheetStays == SheetInv /\ [Sheets!Next]_vars => [Sheets!CandidateKept]_vars
<1> SUFFICES ASSUME SheetInv, Sheets!Next, db.cand # Sheets!Missing, db'.cand = Sheets!Missing
             PROVE  \E p \in Procs : net'[p].aside = db.cand
  BY DEF Sheets!CandidateKept
<1>1. db \in SheetDisk /\ \A p \in Procs : net[p] \in SheetProc /\ SheetReplaces(net[p])
  BY DEF SheetInv
<1>2. \A x : db' # [db EXCEPT !.runs = x] /\ db' # [db EXCEPT !.pages = x] /\ db' # [db EXCEPT !.out = x]
      /\ db' # [db EXCEPT !.report = x] /\ db' # [db EXCEPT !.left = x] /\ db' # [db EXCEPT !.intact = x]
      /\ db' # db
  BY <1>1 DEF SheetDisk
<1>3. \A x : db' = [db EXCEPT !.cand = x] => x = Sheets!Missing
  BY <1>1 DEF SheetDisk
<1>4. PICK p \in Procs : Sheets!Step(p)
  <2>1. ~Sheets!sourceChanges
    BY <1>2 DEF Sheets!sourceChanges
  <2> QED BY <2>1 DEF Sheets!Next
<1>5. Sheets!moveAside(p)
  <2>1. ~(Sheets!commandBuild(p) \/ Sheets!commandRecalculate(p) \/ Sheets!convertLegacyXls(p)
          \/ Sheets!commandRender(p) \/ Sheets!commandDeliver(p))
    BY Zenon, <1>2 DEF Sheets!commandBuild, Sheets!commandRecalculate, Sheets!convertLegacyXls, Sheets!commandRender,
                Sheets!commandDeliver
  <2>2. ~(Sheets!clearPages(p) \/ Sheets!drawPages(p) \/ Sheets!killed(p) \/ Sheets!seal(p))
    BY <1>2 DEF Sheets!clearPages, Sheets!drawPages, Sheets!killed, Sheets!seal
  <2>3. ~(Sheets!listPages(p) \/ Sheets!copyCandidate(p) \/ Sheets!compareHashes(p) \/ Sheets!fails(p))
    BY <1>2 DEF Sheets!listPages, Sheets!copyCandidate, Sheets!compareHashes, Sheets!fails
  <2>4. ~Sheets!verifyFinal(p)
    BY <1>2 DEF Sheets!verifyFinal
  <2>5. ~(Sheets!replaceFileAtomically(p) \/ Sheets!putInPlace(p) \/ Sheets!copyEnds(p) \/ Sheets!putBack(p)
          \/ Sheets!copyBegins(p))
    BY <1>1, <1>3, SheetFiles DEF Sheets!replaceFileAtomically, Sheets!putInPlace, Sheets!copyEnds, Sheets!putBack,
         Sheets!copyBegins, Sheets!At, SheetReplaces, Replacing
  <2> QED BY <1>4, <2>1, <2>2, <2>3, <2>4, <2>5 DEF Sheets!Step
<1>6. net'[p].aside = db.cand
  BY <1>1, <1>5 DEF Sheets!moveAside, Sheets!GoesAndTouches, SheetProc
<1> QED BY <1>6

\* What a report calls delivered is there and passed its audit, its pages were
\* those of the workbook delivered if nobody else was at them, and a replacement
\* never loses the candidate, whatever else runs and wherever it is killed.
THEOREM WorkbooksAreAsReported ==
    ASSUME OneDeliverer
    PROVE  Sheets!Spec => /\ [](Sheets!ReportedIsThere /\ Sheets!DrawnIsDelivered /\ Sheets!TypeOK)
                          /\ [][Sheets!CandidateKept]_vars
<1>1. Sheets!Init => SheetInv
  BY SheetsInit
<1>2. SheetInv /\ [Sheets!Next]_vars => SheetInv'
  BY SheetsNext
<1>3. SheetInv /\ [Sheets!Next]_vars => [Sheets!CandidateKept]_vars
  BY SheetStays
<1>4. Sheets!Spec => Sheets!Init /\ [][Sheets!Next]_vars
  BY DEF Sheets!Spec, vars
<1> QED BY <1>1, <1>2, <1>3, <1>4, SheetsHold, PTL

-----------------------------------------------------------------------------
(* The presentations skill, for any processes of which one delivers.  What   *)
(* was seen to be another deck stays another: a number is written only once. *)

Decks == INSTANCE DeckDelivery WITH disk <- db, procs <- net

DeckOption == Decks!Options \cup {Decks!NoOptions}

DeckDispositions == [of : Decks!Files, ids : SUBSET {"overlap"}]

DeckReport ==
    [of : Decks!Files, status : {"none", "passed", "blocked"}, seal : BOOLEAN, opt : DeckOption,
     drawn : SUBSET Decks!Files, mine : BOOLEAN, dispositions : DeckDispositions]

DeckDisk ==
    [cand : Decks!Files, out : Decks!Files, pages : SUBSET Decks!Files, report : DeckReport,
     dispositions : DeckDispositions, renderer : BOOLEAN, runs : 0..MaxRuns]

Looking == {"audit", "clear", "draw", "list", "final"}
DeckSealing == {"copy", "remove", "rename", "check"}
Converting == {"converted", "clearway", "place"}

DeckProc ==
    [at : {"idle", "write", "inspect", "reread"} \cup Looking \cup DeckSealing \cup Converting, run : 0..MaxRuns,
     made : BOOLEAN, opt : DeckOption, first : Decks!Files, ok : BOOLEAN, drawn : SUBSET Decks!Files,
     mine : BOOLEAN, held : Decks!Files]

\* The verdict a seal stands for.
DeckGood(f, opt, dispositions) ==
    LET a == Decks!auditPptx(f, opt, dispositions) IN a.bound /\ a.passed /\ Decks!Gated(a, opt)

UsedBy(s, d) == IF s.opt.using THEN d.dispositions ELSE Decks!NoDispositions

\* Dispositions are those of all the warnings of a deck.
Disposed(d) ==
    d.dispositions = Decks!NoDispositions
    \/ /\ Decks!Readable(d.dispositions.of)
       /\ d.dispositions.ids = Decks!Decks[d.dispositions.of.kind].warns

\* The number of the deck a process has yet to put in place.
Pending(s) ==
    IF s.at = "write" THEN {s.run} ELSE IF s.at \in Converting THEN {s.held.n} ELSE {}

\* A number is pending once, and no deck there is, or was looked at, has it.
DeckNumbers ==
    /\ db.cand.n <= db.runs
    /\ \A p \in Procs : Pending(net[p]) \subseteq 1..db.runs /\ net[p].first.n <= db.runs
                        /\ db.cand.n \notin Pending(net[p])
    /\ \A p, q \in Procs : net[q].first.n \notin Pending(net[p])
    /\ \A p, q \in Procs : p # q => Pending(net[p]) \cap Pending(net[q]) = {}

DeckDelivers(p, s) == s.at \in {"inspect"} \cup Looking \cup DeckSealing \/ s.made => p \in Deliverers

\* What an audit found holds of the deck it was asked about, or that deck is gone.
DeckAudited(s, d) ==
    s.at \in Looking => /\ Decks!Readable(s.first)
                        /\ s.at # "audit" /\ s.ok /\ d.cand = s.first => DeckGood(s.first, s.opt, UsedBy(s, d))

DeckDraws(s, d) ==
    s.mine => /\ s.at = "draw" => d.pages = {}
              /\ s.at = "list" /\ d.cand = s.first => d.pages = {s.first}
              /\ s.at = "final" /\ s.ok /\ d.cand = s.first => s.drawn = {s.first}

\* A sealing has passed, and is not sealed yet.
DeckSeals(s, d) ==
    s.at \in DeckSealing => /\ ~d.report.seal /\ d.report.opt = s.opt
                            /\ DeckGood(d.report.of, d.report.opt, d.report.dispositions)
                            /\ d.report.mine => d.report.drawn = {d.report.of}

DeckReported(d) ==
    d.report.seal => /\ d.report.opt.inPlace \/ d.out = d.report.of
                     /\ DeckGood(d.report.of, d.report.opt, d.report.dispositions)
                     /\ d.report.mine => d.report.drawn = {d.report.of}

DeckRuns(p, s, d) == DeckDelivers(p, s) /\ DeckAudited(s, d) /\ DeckDraws(s, d) /\ DeckSeals(s, d)

DeckInv ==
    /\ db \in DeckDisk /\ net \in [Procs -> DeckProc]
    /\ DeckNumbers /\ Disposed(db) /\ DeckReported(db)
    /\ \A p \in Procs : DeckRuns(p, net[p], db)

LEMMA DeckFiles ==
    /\ Decks!Missing \in Decks!Files /\ Decks!Torn \in Decks!Files
    /\ Decks!Missing.n = 0 /\ Decks!Torn.n = 0
    /\ ~Decks!Readable(Decks!Missing) /\ ~Decks!Readable(Decks!Torn)
    /\ \A k \in Decks!Kinds, n \in 1..MaxRuns : Decks!File(k, n) \in Decks!Files
    /\ \A k, n : Decks!File(k, n).n = n
    /\ \A f \in Decks!Files : Decks!Readable(f) => f.n \in 1..MaxRuns
    /\ \A f \in Decks!Files : f.n \in {0} \cup 1..MaxRuns
BY DEF Decks!Missing, Decks!Torn, Decks!Files, Decks!File, Decks!Kinds, Decks!Decks, Decks!Readable

LEMMA DeckIdle ==
    OneDeliverer =>
        /\ Decks!Idle \in DeckProc /\ Decks!Idle.at = "idle" /\ Decks!Idle.made = FALSE
        /\ Decks!Idle.first = Decks!Missing /\ Pending(Decks!Idle) = {}
        /\ \A p, d : DeckRuns(p, Decks!Idle, d)
BY DeckFiles
   DEF OneDeliverer, Decks!Idle, DeckProc, DeckOption, DeckRuns, DeckDelivers, DeckAudited, DeckDraws, DeckSeals,
   Looking, DeckSealing, Converting, Pending

LEMMA DeckUses == \A p : Decks!Used(p) = UsedBy(net[p], db)
BY DEF Decks!Used, UsedBy

\* One process goes on: it puts no deck in place but one whose number it held,
\* and only the one that delivers writes the report and the deliverable.
LEMMA DeckGoes ==
    ASSUME OneDeliverer, DeckInv, NEW p \in Procs, NEW new \in DeckProc,
           \/ Decks!Goes(p, new) /\ db'.pages = db.pages
           \/ Decks!GoesAndDraws(p, new),
           db' \in DeckDisk, db'.dispositions = db.dispositions, db.runs <= db'.runs,
           \/ db'.cand \in {db.cand, Decks!Missing, Decks!Torn}
           \/ db'.cand.n \in Pending(net[p]) /\ Pending(new) = {},
           Pending(new) \subseteq Pending(net[p]) \cup {db.runs + 1}, Pending(new) \subseteq 1..db'.runs,
           new.first = net[p].first \/ new.first \in {Decks!Missing, db.cand},
           p \in Deliverers \/ (db'.report = db.report /\ db'.out = db.out),
           DeckRuns(p, new, db'), DeckReported(db')
    PROVE  DeckInv'
<1>1. /\ net' \in [Procs -> DeckProc] /\ net'[p] = new
      /\ \A q \in Procs \ {p} : \/ net'[q] = net[q] /\ db'.pages = db.pages
                                \/ net'[q] = [net[q] EXCEPT !.mine = FALSE]
  <2>1. net \in [Procs -> DeckProc] /\ \A q \in Procs : [net[q] EXCEPT !.mine = FALSE] \in DeckProc
    BY DEF DeckInv, DeckProc
  <2> QED BY <2>1 DEF Decks!Goes, Decks!GoesAndDraws
<1>2. \A q \in Procs \ {p} :
         /\ net'[q].at = net[q].at /\ net'[q].run = net[q].run /\ net'[q].held = net[q].held
         /\ net'[q].first = net[q].first /\ net'[q].made = net[q].made /\ net'[q].opt = net[q].opt
         /\ net'[q].ok = net[q].ok /\ net'[q].drawn = net[q].drawn
         /\ net'[q].mine => net[q].mine /\ db'.pages = db.pages
  BY <1>1 DEF DeckInv, DeckProc
<1>3. \A q \in Procs \ {p} : Pending(net'[q]) = Pending(net[q])
  BY <1>2 DEF Pending
<1>4. db.runs \in Nat /\ db'.runs \in Nat /\ \A q \in Procs : net[q].first.n \in Nat
  BY DeckFiles DEF DeckInv, DeckDisk, DeckProc
<1>5. db.cand.n \in Nat /\ db'.cand.n \in Nat /\ Decks!Missing.n = 0 /\ Decks!Torn.n = 0
  BY DeckFiles DEF DeckInv, DeckDisk
<1>6. \A q \in Procs : Pending(net[q]) \subseteq 1..db.runs
  BY DEF DeckInv, DeckNumbers
<1>7. new.first.n \in Nat /\ new.first.n <= db.runs /\ \A q \in Procs : new.first.n \notin Pending(net[q])
  BY <1>4, <1>5, <1>6 DEF DeckInv, DeckNumbers
<1>8. DeckNumbers'
  <2>1. db'.cand.n <= db'.runs /\ \A q \in Procs : db'.cand.n \notin Pending(net'[q])
    <3>1. CASE db'.cand \in {db.cand, Decks!Missing, Decks!Torn}
      BY <1>1, <1>3, <1>4, <1>5, <1>6, <3>1 DEF DeckInv, DeckNumbers
    <3>2. CASE db'.cand.n \in Pending(net[p]) /\ Pending(new) = {}
      BY <1>1, <1>3, <1>4, <1>5, <1>6, <3>2 DEF DeckInv, DeckNumbers
    <3> QED BY <3>1, <3>2
  <2>2. \A q \in Procs : Pending(net'[q]) \subseteq 1..db'.runs /\ net'[q].first.n <= db'.runs
    BY <1>1, <1>2, <1>3, <1>4, <1>6, <1>7 DEF DeckInv, DeckNumbers
  <2>3. \A q, r \in Procs : net'[q].first.n \notin Pending(net'[r])
    <3>1. \A q \in Procs : net'[q].first.n \in Nat /\ net'[q].first.n <= db.runs
                           /\ \A r \in Procs : net'[q].first.n \notin Pending(net[r])
      BY <1>1, <1>2, <1>4, <1>7 DEF DeckInv, DeckNumbers
    <3> QED BY <1>1, <1>3, <1>4, <3>1
  <2>4. \A q, r \in Procs : q # r => Pending(net'[q]) \cap Pending(net'[r]) = {}
    <3>1. \A q \in Procs \ {p} : Pending(new) \cap Pending(net[q]) = {}
      BY <1>4, <1>6 DEF DeckInv, DeckNumbers
    <3> QED BY <1>1, <1>3, <3>1 DEF DeckInv, DeckNumbers
  <2> QED BY <2>1, <2>2, <2>3, <2>4 DEF DeckNumbers
<1>9. \A q \in Procs \ {p} : DeckRuns(q, net'[q], db')
  <2> SUFFICES ASSUME NEW q \in Procs \ {p} PROVE DeckRuns(q, net'[q], db')
    OBVIOUS
  <2>1. DeckRuns(q, net[q], db) /\ net[q] \in DeckProc
    BY DEF DeckInv
  <2>2. DeckDelivers(q, net'[q])
    BY <1>2, <2>1 DEF DeckRuns, DeckDelivers
  <2>3. Decks!Readable(net[q].first) /\ db'.cand = net[q].first => db.cand = net[q].first
    BY <2>1, DeckFiles DEF DeckInv, DeckNumbers
  <2>4. UsedBy(net'[q], db') = UsedBy(net[q], db)
    BY <1>2 DEF UsedBy
  <2>5. DeckAudited(net'[q], db')
    BY <1>2, <2>1, <2>3, <2>4 DEF DeckRuns, DeckAudited
  <2>6. DeckDraws(net'[q], db')
    BY <1>2, <2>1, <2>3 DEF DeckRuns, DeckAudited, DeckDraws, Looking
  <2>7. DeckSeals(net'[q], db')
    BY <1>2, <2>1 DEF DeckRuns, DeckDelivers, DeckSeals, OneDeliverer
  <2> QED BY <2>2, <2>5, <2>6, <2>7 DEF DeckRuns
<1>10. Disposed(db')
  BY DEF DeckInv, Disposed
<1> QED BY <1>1, <1>8, <1>9, <1>10 DEF DeckInv

Apart == {"idle", "write", "reread"} \cup Converting

LEMMA DeckApart == \A p, s, d : s.at \in Apart /\ (s.made => p \in Deliverers) => DeckRuns(p, s, d)
BY DEF Apart, Converting, Looking, DeckSealing, DeckRuns, DeckDelivers, DeckAudited, DeckDraws, DeckSeals

\* A process that goes on and touches no more than the candidate.
LEMMA DeckGoesOn ==
    ASSUME OneDeliverer, DeckInv, NEW p \in Procs, NEW new \in DeckProc, Decks!Goes(p, new),
           NEW f \in Decks!Files, db' = [db EXCEPT !.cand = f],
           f \in {db.cand, Decks!Missing} \/ (f.n \in Pending(net[p]) /\ Pending(new) = {}),
           Pending(new) \subseteq Pending(net[p]),
           new.first = net[p].first \/ new.first \in {Decks!Missing, db.cand},
           DeckRuns(p, new, [db EXCEPT !.cand = f])
    PROVE  DeckInv'
<1>1. db \in DeckDisk /\ DeckReported(db)
  BY DEF DeckInv
<1>2. /\ db' \in DeckDisk /\ db'.pages = db.pages /\ db'.dispositions = db.dispositions /\ db'.runs = db.runs
      /\ db'.report = db.report /\ db'.out = db.out /\ db'.cand = f /\ db.runs \in Nat
  BY <1>1 DEF DeckDisk
<1>3. DeckReported(db') /\ DeckRuns(p, new, db')
  BY <1>1, <1>2 DEF DeckReported
<1>4. db.runs <= db'.runs /\ Pending(new) \subseteq 1..db'.runs
  BY <1>2 DEF DeckInv, DeckNumbers
<1> QED BY <1>2, <1>3, <1>4, DeckGoes

LEMMA DeckEnds ==
    ASSUME OneDeliverer, DeckInv, NEW p \in Procs, Decks!Ends(p),
           db' = db \/ db' = [db EXCEPT !.cand = Decks!Missing]
    PROVE  DeckInv'
<1>1. db = [db EXCEPT !.cand = db.cand] /\ db.cand \in Decks!Files /\ Decks!Missing \in Decks!Files
  BY DeckFiles DEF DeckInv, DeckDisk
<1>2. Decks!Goes(p, Decks!Idle)
  BY DEF Decks!Ends
<1> QED BY <1>1, <1>2, DeckIdle, DeckGoesOn

\* A command starts: its run gets a number that no deck has.
LEMMA DeckStarts ==
    ASSUME OneDeliverer, DeckInv, NEW p \in Procs, NEW new \in DeckProc, Decks!Goes(p, new), db.runs < MaxRuns,
           \/ db' = [db EXCEPT !.runs = @ + 1, !.cand = Decks!Torn]
           \/ db' = [db EXCEPT !.runs = @ + 1],
           Pending(new) \subseteq {db.runs + 1}, new.first = Decks!Missing, DeckRuns(p, new, db')
    PROVE  DeckInv'
<1>1. db \in DeckDisk /\ DeckReported(db)
  BY DEF DeckInv
<1>2. /\ db' \in DeckDisk /\ db'.pages = db.pages /\ db'.dispositions = db.dispositions /\ db'.runs = db.runs + 1
      /\ db'.report = db.report /\ db'.out = db.out /\ db'.cand \in {db.cand, Decks!Torn} /\ db.runs \in Nat
  <2>1. db.runs \in Nat /\ db.runs + 1 \in 0..MaxRuns
    BY <1>1 DEF DeckDisk, OneDeliverer
  <2> QED BY <1>1, <2>1, DeckFiles DEF DeckDisk
<1>3. DeckReported(db')
  BY <1>1, <1>2 DEF DeckReported
<1>4. db.runs <= db'.runs /\ Pending(new) \subseteq 1..db'.runs
  BY <1>2
<1> QED BY <1>2, <1>3, <1>4, DeckGoes

LEMMA DeckCommandsKeep ==
    ASSUME OneDeliverer, DeckInv, NEW p \in Procs,
           Decks!buildCommand(p) \/ Decks!deliverBuilder(p) \/ Decks!deliverInput(p) \/ Decks!convertLegacyPpt(p)
    PROVE  DeckInv'
<1>1. db.runs < MaxRuns /\ db.runs + 1 \in 1..MaxRuns /\ db.runs + 1 \in 0..MaxRuns
  <2>1. db.runs < MaxRuns
    BY Zenon DEF Decks!Starts, Decks!buildCommand, Decks!deliverBuilder, Decks!deliverInput, Decks!convertLegacyPpt
  <2>2. db.runs \in 0..MaxRuns
    BY DEF DeckInv, DeckDisk
  <2> QED BY <2>1, <2>2 DEF OneDeliverer
<1> USE DeckIdle
<1>2. ASSUME NEW new \in DeckProc, Decks!Goes(p, new), new.at = "write", new.run = db.runs + 1,
             new.made => p \in Deliverers, new.first = Decks!Missing,
             db' = [db EXCEPT !.runs = @ + 1, !.cand = Decks!Torn]
      PROVE  DeckInv'
  <2>1. Pending(new) = {db.runs + 1} /\ DeckRuns(p, new, db')
    BY <1>2, DeckApart DEF Pending, Apart
  <2> QED BY <1>1, <1>2, <2>1, DeckStarts
<1>3. CASE Decks!buildCommand(p)
  <2> DEFINE new == [Decks!Idle EXCEPT !.at = "write", !.run = db.runs + 1]
  <2>1. Decks!Goes(p, new) /\ db' = [db EXCEPT !.runs = @ + 1, !.cand = Decks!Torn]
    BY <1>3 DEF Decks!buildCommand
  <2>2. new \in DeckProc /\ new.at = "write" /\ new.run = db.runs + 1 /\ new.made = FALSE /\ new.first = Decks!Missing
    BY <1>1 DEF DeckProc
  <2> HIDE DEF new
  <2> QED BY <1>2, <2>1, <2>2
<1>4. CASE Decks!deliverBuilder(p)
  <2>1. PICK opt \in Decks!Options :
           /\ p \in Deliverers
           /\ Decks!Goes(p, [Decks!Idle EXCEPT !.at = "write", !.run = db.runs + 1, !.made = TRUE, !.opt = opt])
           /\ db' = [db EXCEPT !.runs = @ + 1, !.cand = Decks!Torn]
    BY Zenon, <1>4 DEF Decks!deliverBuilder
  <2> DEFINE new == [Decks!Idle EXCEPT !.at = "write", !.run = db.runs + 1, !.made = TRUE, !.opt = opt]
  <2>2. opt \in DeckOption
    BY DEF DeckOption
  <2>3. new \in DeckProc /\ new.at = "write" /\ new.run = db.runs + 1 /\ new.first = Decks!Missing
    BY <1>1, <2>2 DEF DeckProc
  <2>4. Decks!Goes(p, new)
    BY <2>1
  <2> HIDE DEF new
  <2> QED BY <1>2, <2>1, <2>3, <2>4
<1>5. CASE Decks!deliverInput(p)
  <2>1. PICK opt \in Decks!Options : /\ p \in Deliverers /\ Decks!Goes(p, [Decks!Idle EXCEPT !.at = "inspect", !.opt = opt])
                                    /\ db' = [db EXCEPT !.runs = @ + 1]
    BY Zenon, <1>5 DEF Decks!deliverInput
  <2> DEFINE new == [Decks!Idle EXCEPT !.at = "inspect", !.opt = opt]
  <2>2. new \in DeckProc /\ new.at = "inspect" /\ new.first = Decks!Missing
    BY DEF DeckProc, DeckOption
  <2>3. Decks!Goes(p, new)
    BY <2>1
  <2> HIDE DEF new
  <2>4. Pending(new) = {} /\ DeckRuns(p, new, db')
    BY <2>1, <2>2
       DEF Pending, Converting, Looking, DeckSealing, DeckRuns, DeckDelivers, DeckAudited, DeckDraws, DeckSeals
  <2> QED BY <1>1, <2>1, <2>2, <2>3, <2>4, DeckStarts
<1>6. CASE Decks!convertLegacyPpt(p)
  <2>1. PICK k \in Decks!Kinds :
           /\ Decks!Goes(p, [Decks!Idle EXCEPT !.at = "converted", !.held = Decks!File(k, db.runs + 1)])
           /\ db' = [db EXCEPT !.runs = @ + 1]
    BY Zenon, <1>6 DEF Decks!convertLegacyPpt
  <2> DEFINE f == Decks!File(k, db.runs + 1)
             new == [Decks!Idle EXCEPT !.at = "converted", !.held = f]
  <2>2. f \in Decks!Files /\ f.n = db.runs + 1
    BY <1>1, DeckFiles
  <2>3. Decks!Goes(p, new)
    BY <2>1
  <2> HIDE DEF f
  <2>4. new \in DeckProc /\ new.at = "converted" /\ new.first = Decks!Missing /\ new.held = f /\ new.made = FALSE
    BY <2>2 DEF DeckProc, Converting
  <2> HIDE DEF new
  <2>5. Pending(new) = {db.runs + 1} /\ DeckRuns(p, new, db')
    BY <2>2, <2>4, DeckApart DEF Pending, Apart, Converting
  <2> QED BY <1>1, <2>1, <2>3, <2>4, <2>5, DeckStarts
<1> QED BY <1>3, <1>4, <1>5, <1>6

\* A deck is written, or a converted one put in place.
LEMMA DeckPlacingKeeps ==
    ASSUME OneDeliverer, DeckInv, NEW p \in Procs,
           \/ Decks!buildDeck(p) \/ Decks!atomicCopy(p) \/ Decks!removeInTheWay(p) \/ Decks!placeConverted(p)
           \/ Decks!rereadConverted(p)
    PROVE  DeckInv'
<1> DEFINE s == net[p]
<1>1. s \in DeckProc /\ db \in DeckDisk /\ DeckRuns(p, s, db) /\ Pending(s) \subseteq 1..db.runs
  BY DEF DeckInv, DeckNumbers
<1>2. db = [db EXCEPT !.cand = db.cand] /\ db.cand \in Decks!Files /\ Decks!Missing \in Decks!Files
      /\ db.runs \in 0..MaxRuns
  BY <1>1, DeckFiles DEF DeckDisk
<1> HIDE DEF s
<1>3. ASSUME NEW at \in {"inspect", "place", "clearway", "reread"}, Decks!Goes(p, [s EXCEPT !.at = at]),
             NEW f \in Decks!Files, db' = [db EXCEPT !.cand = f],
             IF at \in {"place", "clearway"} THEN s.at \in Converting /\ f \in {db.cand, Decks!Missing}
             ELSE f.n \in Pending(s),
             at = "inspect" => s.made
      PROVE  DeckInv'
  <2> DEFINE new == [s EXCEPT !.at = at]
  <2>1. /\ new \in DeckProc /\ new.at = at /\ new.first = s.first /\ new.held = s.held /\ new.made = s.made
    BY <1>1 DEF DeckProc, Converting
  <2>2. Decks!Goes(p, new)
    BY <1>3
  <2> HIDE DEF new
  <2>3. IF at \in {"place", "clearway"} THEN Pending(new) = Pending(s) ELSE Pending(new) = {}
    BY <1>3, <2>1 DEF Pending, Converting
  <2>4. s.made => p \in Deliverers
    BY <1>1 DEF DeckRuns, DeckDelivers
  <2>5. \A d : DeckRuns(p, new, d)
    <3>1. CASE at = "inspect"
      BY <1>3, <2>1, <2>4, <3>1 DEF Looking, DeckSealing, DeckRuns, DeckDelivers, DeckAudited, DeckDraws, DeckSeals
    <3>2. CASE at # "inspect"
      BY <2>1, <2>4, <3>2, DeckApart DEF Apart, Converting
    <3> QED BY <3>1, <3>2
  <2> QED BY <1>3, <2>1, <2>2, <2>3, <2>5, DeckGoesOn DEF s
<1>4. CASE Decks!buildDeck(p)
  <2>1. PICK k \in Decks!Kinds :
           /\ s.at = "write" /\ db' = [db EXCEPT !.cand = Decks!File(k, s.run)]
           /\ Decks!Goes(p, IF s.made THEN [s EXCEPT !.at = "inspect"] ELSE Decks!Idle)
    BY <1>4 DEF Decks!buildDeck, Decks!At, s
  <2> DEFINE f == Decks!File(k, s.run)
  <2>2. Pending(s) = {s.run}
    BY <2>1 DEF Pending
  <2>3. f \in Decks!Files /\ f.n \in Pending(s)
    <3>1. s.run \in 1..MaxRuns
      BY <1>1, <1>2, <2>2 DEF OneDeliverer
    <3> QED BY <2>2, <3>1, DeckFiles
  <2>4. db' = [db EXCEPT !.cand = f]
    BY <2>1
  <2> HIDE DEF f
  <2>5. CASE s.made
    BY <1>3, <2>1, <2>3, <2>4, <2>5
  <2>6. CASE ~s.made
    BY <2>1, <2>3, <2>4, <2>6, DeckIdle, DeckGoesOn DEF s
  <2> QED BY <2>5, <2>6
<1>5. CASE Decks!atomicCopy(p)
  <2>1. db' = db /\ s.at = "converted"
        /\ \/ Decks!Goes(p, [s EXCEPT !.at = "place"])
           \/ Decks!Goes(p, [s EXCEPT !.at = "clearway"])
           \/ Decks!Ends(p)
    BY <1>5 DEF Decks!atomicCopy, Decks!At, Decks!Ends, s
  <2> QED BY <1>2, <1>3, <2>1, DeckEnds DEF Converting
<1>6. CASE Decks!removeInTheWay(p)
  <2>1. db' = [db EXCEPT !.cand = Decks!Missing] /\ s.at = "clearway" /\ Decks!Goes(p, [s EXCEPT !.at = "place"])
    BY <1>6 DEF Decks!removeInTheWay, Decks!At, s
  <2> QED BY <1>2, <1>3, <2>1 DEF Converting
<1>7. CASE Decks!placeConverted(p)
  <2>1. db' = [db EXCEPT !.cand = s.held] /\ s.at = "place" /\ Decks!Goes(p, [s EXCEPT !.at = "reread"])
    BY <1>7 DEF Decks!placeConverted, Decks!At, s
  <2>2. s.held \in Decks!Files /\ s.held.n \in Pending(s)
    BY <1>1, <2>1 DEF DeckProc, Pending, Converting
  <2> QED BY <1>3, <2>1, <2>2
<1>8. CASE Decks!rereadConverted(p)
  BY <1>8, DeckEnds DEF Decks!rereadConverted
<1> QED BY <1>4, <1>5, <1>6, <1>7, <1>8

\* The candidate is inspected and audited.
LEMMA DeckAuditKeeps ==
    ASSUME OneDeliverer, DeckInv, NEW p \in Procs, Decks!inspectPptx(p) \/ Decks!audit(p)
    PROVE  DeckInv'
<1> DEFINE s == net[p]
<1>1. s \in DeckProc /\ db \in DeckDisk /\ DeckRuns(p, s, db)
  BY DEF DeckInv
<1>2. db = [db EXCEPT !.cand = db.cand] /\ db.cand \in Decks!Files
  BY <1>1 DEF DeckDisk
<1> HIDE DEF s
<1>3. ASSUME NEW new \in DeckProc, Decks!Goes(p, new), UNCHANGED db, s.at \in {"inspect", "audit"},
             new.at \in {"audit", "clear", "final"}, new.first = db.cand \/ (new.first = s.first /\ s.at = "audit"),
             Decks!Readable(db.cand),
             new.at # "audit" /\ new.ok /\ db.cand = new.first => DeckGood(new.first, new.opt, UsedBy(new, db)),
             new.mine /\ new.at = "final" => ~new.ok
      PROVE  DeckInv'
  <2>1. p \in Deliverers /\ (s.at = "audit" => Decks!Readable(s.first))
    BY <1>1, <1>3 DEF DeckRuns, DeckDelivers, DeckAudited, Looking
  <2>2. Pending(new) = {}
    BY <1>3 DEF Pending, Converting
  <2>3. DeckRuns(p, new, db)
    BY <1>3, <2>1 DEF DeckRuns, DeckDelivers, DeckAudited, DeckDraws, DeckSeals, DeckSealing
  <2> QED BY <1>2, <1>3, <2>2, <2>3, DeckGoesOn DEF s
<1>4. CASE Decks!inspectPptx(p)
  <2> DEFINE new == [s EXCEPT !.at = "audit", !.first = db.cand]
  <2>1. Decks!Goes(p, new) /\ UNCHANGED db /\ s.at = "inspect" /\ Decks!Readable(db.cand)
    BY <1>4 DEF Decks!inspectPptx, Decks!At, s
  <2>2. new \in DeckProc /\ new.at = "audit" /\ new.first = db.cand
    BY <1>1, <1>2 DEF DeckProc, Looking
  <2> HIDE DEF new
  <2> QED BY <1>3, <2>1, <2>2
<1>5. CASE Decks!audit(p) /\ ~Decks!Ends(p)
  <2> DEFINE a == Decks!auditPptx(db.cand, s.opt, UsedBy(s, db))
             ok == db.renderer /\ a.passed /\ Decks!Gated(a, s.opt)
             at == IF db.renderer THEN "clear" ELSE "final"
             new == [s EXCEPT !.at = at, !.ok = ok]
  <2>1. s.at = "audit" /\ Decks!Readable(db.cand) /\ UNCHANGED db /\ Decks!Goes(p, IF ~a.bound THEN Decks!Idle ELSE new)
    BY <1>5, DeckUses DEF Decks!audit, Decks!At, s
  <2>2. a.bound /\ Decks!Goes(p, new)
    BY <1>5, <2>1 DEF Decks!Ends
  <2>3. ok \in BOOLEAN /\ at \in {"clear", "final"} /\ (at = "final" => ~ok)
    BY DEF Decks!Gated
  <2>4. ok => DeckGood(db.cand, s.opt, UsedBy(s, db))
    BY <2>2 DEF DeckGood
  <2> HIDE DEF ok, at
  <2>5. /\ new \in DeckProc /\ new.at = at /\ new.ok = ok /\ new.first = s.first /\ new.opt = s.opt
    BY <1>1, <2>3 DEF DeckProc, Looking
  <2> HIDE DEF new
  <2>6. UsedBy(new, db) = UsedBy(s, db)
    BY <2>5 DEF UsedBy
  <2> QED BY <1>3, <2>1, <2>2, <2>3, <2>4, <2>5, <2>6
<1>6. CASE Decks!Ends(p) /\ Decks!audit(p)
  BY <1>6, DeckEnds DEF Decks!audit
<1> QED BY <1>4, <1>5, <1>6

\* The slides are cleared, drawn and counted: if nobody else was at them, they
\* show the deck that was inspected, or that deck is gone.
LEMMA DeckDrawingKeeps ==
    ASSUME OneDeliverer, DeckInv, NEW p \in Procs,
           Decks!clearPriorSlides(p) \/ Decks!renderPptx(p) \/ Decks!listSlides(p)
    PROVE  DeckInv'
<1> DEFINE s == net[p]
<1>1. s \in DeckProc /\ db \in DeckDisk /\ DeckRuns(p, s, db)
  BY DEF DeckInv
<1>2. db = [db EXCEPT !.pages = db.pages] /\ db.pages \in SUBSET Decks!Files /\ db.cand \in Decks!Files
  BY <1>1 DEF DeckDisk
<1> HIDE DEF s
<1>3. ASSUME NEW at \in {"draw", "list", "final"}, NEW drawn \in SUBSET Decks!Files, NEW ok \in BOOLEAN,
             NEW pages \in SUBSET Decks!Files,
             \/ Decks!Goes(p, [s EXCEPT !.at = at, !.drawn = drawn, !.ok = ok]) /\ pages = db.pages
             \/ Decks!GoesAndDraws(p, [s EXCEPT !.at = at, !.drawn = drawn, !.ok = ok]),
             db' = [db EXCEPT !.pages = pages], s.at \in {"clear", "draw", "list"}, ok => s.ok,
             s.mine => /\ at = "draw" => pages = {}
                       /\ at = "list" /\ db.cand = s.first => pages = {s.first}
                       /\ at = "final" /\ ok /\ db.cand = s.first => drawn = {s.first}
      PROVE  DeckInv'
  <2> DEFINE new == [s EXCEPT !.at = at, !.drawn = drawn, !.ok = ok]
  <2>1. /\ new \in DeckProc /\ new.at = at /\ new.drawn = drawn /\ new.ok = ok /\ new.mine = s.mine
        /\ new.first = s.first /\ new.opt = s.opt /\ new.made = s.made
    BY <1>1 DEF DeckProc, Looking
  <2>2. \/ Decks!Goes(p, new) /\ pages = db.pages
        \/ Decks!GoesAndDraws(p, new)
    BY <1>3
  <2> HIDE DEF new
  <2>3. /\ db' \in DeckDisk /\ db'.pages = pages /\ db'.cand = db.cand /\ db'.dispositions = db.dispositions
        /\ db'.runs = db.runs /\ db'.report = db.report /\ db'.out = db.out /\ db.runs \in Nat
    BY <1>1, <1>3 DEF DeckDisk
  <2>4. UsedBy(new, db') = UsedBy(s, db) /\ Pending(new) = {}
    BY <1>3, <2>1, <2>3 DEF UsedBy, Pending, Converting
  <2>5. DeckDelivers(p, new) /\ DeckAudited(new, db')
    BY <1>1, <1>3, <2>1, <2>3, <2>4 DEF DeckRuns, DeckDelivers, DeckAudited, Looking
  <2>6. DeckDraws(new, db') /\ DeckSeals(new, db')
    BY <1>3, <2>1, <2>3 DEF DeckDraws, DeckSeals, DeckSealing
  <2>7. DeckReported(db')
    BY <2>3 DEF DeckInv, DeckReported
  <2>8. db.runs <= db'.runs /\ Pending(new) \subseteq 1..db'.runs
    BY <2>3, <2>4
  <2> QED BY <1>3, <2>1, <2>2, <2>3, <2>4, <2>5, <2>6, <2>7, <2>8, DeckGoes DEF DeckRuns, s
<1>4. s.ok \in BOOLEAN /\ s.drawn \in SUBSET Decks!Files
  BY <1>1 DEF DeckProc
<1>5. \A at : [s EXCEPT !.at = at] = [s EXCEPT !.at = at, !.drawn = s.drawn, !.ok = s.ok]
  BY <1>1 DEF DeckProc
<1>6. \A at, ok : [s EXCEPT !.at = at, !.ok = ok] = [s EXCEPT !.at = at, !.drawn = s.drawn, !.ok = ok]
  BY <1>1 DEF DeckProc
<1>7. CASE Decks!clearPriorSlides(p)
  <2>1. s.at = "clear" /\ db' = [db EXCEPT !.pages = {}] /\ Decks!GoesAndDraws(p, [s EXCEPT !.at = "draw"])
    BY <1>7 DEF Decks!clearPriorSlides, Decks!At, s
  <2>2. {} \in SUBSET Decks!Files
    OBVIOUS
  <2> QED BY Zenon, <1>3, <1>4, <1>5, <2>1, <2>2
<1>8. CASE Decks!renderPptx(p) /\ Decks!Readable(db.cand)
  <2> DEFINE pages == db.pages \cup {db.cand}
  <2>1. s.at = "draw" /\ db' = [db EXCEPT !.pages = pages] /\ Decks!GoesAndDraws(p, [s EXCEPT !.at = "list"])
    BY <1>8 DEF Decks!renderPptx, Decks!At, s
  <2>2. pages \in SUBSET Decks!Files
    BY <1>2
  <2>3. s.mine /\ db.cand = s.first => pages = {s.first}
    BY SMTT(30), <1>1, <2>1 DEF DeckRuns, DeckDraws
  <2> HIDE DEF pages
  <2> QED BY Zenon, <1>3, <1>4, <1>5, <2>1, <2>2, <2>3
<1>9. CASE Decks!renderPptx(p) /\ ~Decks!Readable(db.cand)
  <2>1. s.at = "draw" /\ db' = db /\ Decks!Goes(p, [s EXCEPT !.at = "final", !.ok = FALSE])
    BY <1>9 DEF Decks!renderPptx, Decks!At, s
  <2> QED BY Zenon, <1>2, <1>3, <1>4, <1>6, <2>1
<1>10. CASE Decks!listSlides(p)
  <2> DEFINE counted == \E f \in db.pages : Decks!Decks[f.kind].drawn = Decks!Decks[s.first.kind].slides
             ok == s.ok /\ counted
  <2>1. s.at = "list" /\ db' = db /\ Decks!Goes(p, [s EXCEPT !.at = "final", !.drawn = db.pages, !.ok = ok])
    BY <1>10 DEF Decks!listSlides, Decks!At, s
  <2>2. ok \in BOOLEAN /\ (ok => s.ok)
    BY <1>4
  <2> HIDE DEF ok
  <2>3. s.mine /\ db.cand = s.first => db.pages = {s.first}
    BY <1>1, <2>1 DEF DeckRuns, DeckDraws
  <2> QED BY Zenon, <1>2, <1>3, <1>4, <2>1, <2>2, <2>3
<1> QED BY <1>7, <1>8, <1>9, <1>10

\* The verdict is about the deck that was inspected, audited and drawn.
LEMMA DeckVerdictKeeps ==
    ASSUME OneDeliverer, DeckInv, NEW p \in Procs, Decks!verifyFinalPptx(p)
    PROVE  DeckInv'
<1> DEFINE s == net[p]
           ok == s.ok /\ db.cand = s.first
           report == [of |-> db.cand, status |-> IF ok THEN "passed" ELSE "blocked", seal |-> FALSE, opt |-> s.opt,
                      drawn |-> s.drawn, mine |-> s.mine, dispositions |-> UsedBy(s, db)]
           at == IF s.opt.inPlace THEN "check" ELSE "copy"
           new == IF ok THEN [s EXCEPT !.at = at] ELSE Decks!Idle
<1>1. s \in DeckProc /\ db \in DeckDisk /\ DeckRuns(p, s, db)
  BY DEF DeckInv
<1>2. s.at = "final" /\ Decks!Goes(p, new) /\ db' = [db EXCEPT !.report = report]
  BY DeckUses DEF Decks!verifyFinalPptx, Decks!At, Decks!Report
<1> HIDE DEF s
<1>3. p \in Deliverers
  BY <1>1, <1>2 DEF DeckRuns, DeckDelivers, Looking
<1>4. UsedBy(s, db) \in DeckDispositions
  BY <1>1, DeckFiles DEF UsedBy, DeckDisk, DeckDispositions, Decks!NoDispositions
<1>5. /\ report \in DeckReport /\ report.of = db.cand /\ report.seal = FALSE /\ report.opt = s.opt
      /\ report.drawn = s.drawn /\ report.mine = s.mine /\ report.dispositions = UsedBy(s, db)
  BY <1>1, <1>4 DEF DeckReport, DeckDisk, DeckProc
<1> HIDE DEF report
<1>6. /\ db' \in DeckDisk /\ db'.report = report /\ db'.pages = db.pages /\ db'.cand = db.cand /\ db'.out = db.out
      /\ db'.dispositions = db.dispositions /\ db'.runs = db.runs /\ db.runs \in Nat
  BY <1>1, <1>2, <1>5 DEF DeckDisk
<1>7. DeckReported(db')
  BY <1>5, <1>6 DEF DeckReported
<1>8. CASE ~ok
  BY <1>2, <1>6, <1>7, <1>8, DeckIdle, DeckGoes, <1>3
<1>9. CASE ok
  <2> DEFINE then == [s EXCEPT !.at = at]
  <2>1. at \in {"check", "copy"} /\ Decks!Goes(p, then)
    BY <1>2, <1>9
  <2> HIDE DEF at
  <2>2. then \in DeckProc /\ then.at = at /\ then.opt = s.opt /\ then.first = s.first
    BY <1>1, <2>1 DEF DeckProc, DeckSealing
  <2> HIDE DEF then
  <2>3. DeckGood(s.first, s.opt, UsedBy(s, db)) /\ (s.mine => s.drawn = {s.first})
    BY <1>1, <1>2, <1>9 DEF DeckRuns, DeckAudited, DeckDraws, Looking
  <2>4. DeckSeals(then, db')
    BY <1>5, <1>6, <1>9, <2>2, <2>3 DEF DeckSeals
  <2>5. DeckRuns(p, then, db')
    BY <1>3, <2>1, <2>2, <2>4 DEF DeckRuns, DeckDelivers, DeckAudited, DeckDraws, Looking
  <2>6. Pending(then) = {}
    BY <2>1, <2>2 DEF Pending, Converting
  <2>7. db.runs <= db'.runs
    BY <1>6
  <2> QED BY <1>3, <1>6, <1>7, <2>1, <2>2, <2>5, <2>6, <2>7, DeckGoes DEF s
<1> QED BY <1>8, <1>9

\* The copy, the rename and the second look, by the only one that delivers.
LEMMA DeckSealsKeep ==
    ASSUME OneDeliverer, DeckInv, NEW p \in Procs,
           Decks!sealCopy(p) \/ Decks!sealRemove(p) \/ Decks!sealRename(p)
    PROVE  DeckInv'
<1> DEFINE s == net[p]
<1>1. s \in DeckProc /\ db \in DeckDisk /\ DeckRuns(p, s, db)
  BY DEF DeckInv
<1>2. /\ db = [db EXCEPT !.out = db.out] /\ db.cand \in Decks!Files /\ Decks!Missing \in Decks!Files
      /\ db.out \in Decks!Files /\ s.held \in Decks!Files /\ s = [s EXCEPT !.held = s.held]
      /\ \A at : [s EXCEPT !.at = at] = [s EXCEPT !.at = at, !.held = s.held]
  BY Zenon, <1>1, DeckFiles DEF DeckDisk, DeckProc
<1> HIDE DEF s
<1>3. ASSUME NEW at \in {"remove", "rename", "check"}, NEW held \in Decks!Files, NEW out \in Decks!Files,
             s.at \in {"copy", "remove", "rename"}, db' = [db EXCEPT !.out = out],
             Decks!Goes(p, [s EXCEPT !.at = at, !.held = held])
      PROVE  DeckInv'
  <2> DEFINE new == [s EXCEPT !.at = at, !.held = held]
  <2>1. /\ new \in DeckProc /\ new.at = at /\ new.first = s.first /\ new.opt = s.opt
    BY <1>1 DEF DeckProc, DeckSealing
  <2>2. Decks!Goes(p, new)
    BY <1>3
  <2> HIDE DEF new
  <2>3. /\ db' \in DeckDisk /\ db'.report = db.report /\ db'.pages = db.pages /\ db'.cand = db.cand
        /\ db'.dispositions = db.dispositions /\ db'.runs = db.runs /\ db.runs \in Nat
    BY <1>1, <1>3 DEF DeckDisk
  <2>4. p \in Deliverers /\ ~db.report.seal
    BY <1>1, <1>3 DEF DeckRuns, DeckDelivers, DeckSeals, DeckSealing
  <2>5. DeckReported(db')
    BY <2>3, <2>4 DEF DeckReported
  <2>6. DeckRuns(p, new, db')
    BY <1>1, <1>3, <2>1, <2>3, <2>4 DEF DeckRuns, DeckDelivers, DeckAudited, DeckDraws, DeckSeals, Looking, DeckSealing
  <2>7. Pending(new) = {} /\ db.runs <= db'.runs
    BY <2>1, <2>3 DEF Pending, Converting
  <2> QED BY <2>1, <2>2, <2>3, <2>4, <2>5, <2>6, <2>7, DeckGoes DEF s
<1>4. CASE Decks!sealCopy(p)
  <2>1. s.at = "copy" /\ db' = db /\ Decks!Goes(p, [s EXCEPT !.at = "remove", !.held = db.cand])
    BY <1>4 DEF Decks!sealCopy, Decks!At, s
  <2> QED BY Zenon, <1>2, <1>3, <2>1
<1>5. CASE Decks!sealRemove(p)
  <2>1. s.at = "remove" /\ db' = [db EXCEPT !.out = Decks!Missing] /\ Decks!Goes(p, [s EXCEPT !.at = "rename"])
    BY <1>5 DEF Decks!sealRemove, Decks!At, s
  <2> QED BY Zenon, <1>2, <1>3, <2>1
<1>6. CASE Decks!sealRename(p)
  <2>1. s.at = "rename" /\ db' = [db EXCEPT !.out = s.held] /\ Decks!Goes(p, [s EXCEPT !.at = "check"])
    BY <1>6 DEF Decks!sealRename, Decks!At, s
  <2> QED BY Zenon, <1>2, <1>3, <2>1
<1> QED BY <1>4, <1>5, <1>6

LEMMA DeckCheckKeeps ==
    ASSUME OneDeliverer, DeckInv, NEW p \in Procs, Decks!sealCheck(p)
    PROVE  DeckInv'
<1> DEFINE s == net[p]
<1>1. s \in DeckProc /\ db \in DeckDisk /\ DeckRuns(p, s, db)
  BY DEF DeckInv
<1>2. s.at = "check" /\ Decks!Ends(p) /\ Decks!Goes(p, Decks!Idle)
  BY DEF Decks!sealCheck, Decks!At, Decks!Ends
<1>3. CASE db' = db
  BY <1>2, <1>3, DeckEnds
<1>4. CASE db' # db
  <2> DEFINE cand == IF s.made THEN Decks!Missing ELSE db.cand
             report == [db.report EXCEPT !.seal = TRUE]
  <2>1. /\ (IF s.opt.inPlace THEN db.cand ELSE db.out) = db.report.of
        /\ db' = [db EXCEPT !.report.seal = TRUE, !.cand = cand]
    BY <1>4 DEF Decks!sealCheck, Decks!Sealed
  <2> HIDE DEF s
  <2>2. cand \in Decks!Files /\ cand \in {db.cand, Decks!Missing}
    BY <1>1, DeckFiles DEF DeckDisk
  <2>3. /\ report \in DeckReport /\ report.of = db.report.of /\ report.opt = db.report.opt
        /\ report.drawn = db.report.drawn /\ report.mine = db.report.mine
        /\ report.dispositions = db.report.dispositions
    BY <1>1 DEF DeckReport, DeckDisk
  <2>4. db' = [db EXCEPT !.report = report, !.cand = cand]
    BY <2>1
  <2> HIDE DEF cand, report
  <2>5. /\ db' \in DeckDisk /\ db'.report = report /\ db'.pages = db.pages /\ db'.cand = cand /\ db'.out = db.out
        /\ db'.dispositions = db.dispositions /\ db'.runs = db.runs /\ db.runs \in Nat
    <3> DEFINE mid == [db EXCEPT !.report = report]
    <3>1. /\ mid \in DeckDisk /\ mid.report = report /\ mid.pages = db.pages /\ mid.out = db.out
          /\ mid.dispositions = db.dispositions /\ mid.runs = db.runs /\ db.runs \in Nat
      BY <1>1, <2>3 DEF DeckDisk
    <3>2. db' = [mid EXCEPT !.cand = cand]
      BY <2>4
    <3> HIDE DEF mid
    <3> QED BY <2>2, <3>1, <3>2 DEF DeckDisk
  <2>6. p \in Deliverers
    BY <1>1, <1>2 DEF DeckRuns, DeckDelivers, DeckSealing
  <2>7. DeckReported(db')
    BY <1>1, <1>2, <2>1, <2>3, <2>5 DEF DeckReported, DeckRuns, DeckSeals, DeckSealing
  <2>8. db.runs <= db'.runs
    BY <2>5
  <2> QED BY <1>2, <2>2, <2>5, <2>6, <2>7, <2>8, DeckIdle, DeckGoes
<1> QED BY <1>3, <1>4

\* Dispositions of the deck that was audited are those it was audited with.
LEMMA DisposedAgain ==
    ASSUME NEW f, NEW opt, NEW d, NEW e, Disposed(d), Disposed(e), e.dispositions # Decks!NoDispositions,
           DeckGood(f, opt, d.dispositions), e.dispositions.of = f
    PROVE  DeckGood(f, opt, e.dispositions)
<1> DEFINE warns == Decks!Decks[f.kind].warns
<1>1. e.dispositions.ids = warns
  BY DEF Disposed
<1>2. d.dispositions = Decks!NoDispositions \/ d.dispositions.ids = warns
  BY DeckFiles DEF Disposed, DeckGood, Decks!auditPptx
<1>3. CASE d.dispositions.ids = warns
  BY <1>1, <1>3 DEF DeckGood, Decks!auditPptx, Decks!Gated
<1>4. CASE d.dispositions = Decks!NoDispositions
  <2>1. d.dispositions.ids = {}
    BY <1>4 DEF Decks!NoDispositions
  <2>2. \A w \in warns : w \in d.dispositions.ids
    BY DEF DeckGood, Decks!auditPptx
  <2> QED BY <1>1, <1>3, <2>1, <2>2
<1> QED BY <1>2, <1>3, <1>4

LEMMA DisposeKeeps ==
    ASSUME OneDeliverer, DeckInv, Decks!dispose
    PROVE  DeckInv'
<1> DEFINE new == [of |-> db.cand, ids |-> Decks!Decks[db.cand.kind].warns]
<1>1. db \in DeckDisk /\ Decks!Readable(db.cand) /\ net' = net /\ db' = [db EXCEPT !.dispositions = new]
  BY DEF DeckInv, Decks!dispose
<1>2. new \in DeckDispositions /\ new.of = db.cand /\ new.ids = Decks!Decks[db.cand.kind].warns
  BY <1>1 DEF DeckDispositions, DeckDisk, Decks!Decks, Decks!Kinds, Decks!Readable, Decks!Deck
<1>3. new # Decks!NoDispositions
  BY <1>1, <1>2, DeckFiles DEF Decks!NoDispositions
<1> HIDE DEF new
<1>4. /\ db' \in DeckDisk /\ db'.report = db.report /\ db'.pages = db.pages /\ db'.cand = db.cand /\ db'.out = db.out
      /\ db'.dispositions = new /\ db'.runs = db.runs
  BY <1>1, <1>2 DEF DeckDisk
<1>5. Disposed(db') /\ Disposed(db)
  BY <1>1, <1>2, <1>4 DEF Disposed, DeckInv
<1>6. DeckReported(db') /\ DeckNumbers'
  BY <1>1, <1>4 DEF DeckInv, DeckReported, DeckNumbers
<1>7. ASSUME NEW p \in Procs PROVE DeckRuns(p, net[p], db')
  <2> DEFINE s == net[p]
  <2>1. DeckRuns(p, s, db)
    BY DEF DeckInv
  <2> HIDE DEF s
  <2>2. DeckAudited(s, db')
    <3> SUFFICES ASSUME s.at \in Looking, s.at # "audit", s.ok, db.cand = s.first
                 PROVE  DeckGood(s.first, s.opt, UsedBy(s, db'))
      BY <1>4, <2>1 DEF DeckAudited, DeckRuns
    <3>1. DeckGood(s.first, s.opt, UsedBy(s, db))
      BY <2>1 DEF DeckAudited, DeckRuns
    <3>2. CASE s.opt.using
      BY <1>2, <1>3, <1>4, <1>5, <3>1, <3>2, DisposedAgain DEF UsedBy
    <3>3. CASE ~s.opt.using
      BY <3>1, <3>3 DEF UsedBy
    <3> QED BY <3>2, <3>3
  <2>3. DeckDelivers(p, s) /\ DeckDraws(s, db') /\ DeckSeals(s, db')
    BY <1>4, <2>1 DEF DeckRuns, DeckDraws, DeckSeals
  <2> QED BY <2>2, <2>3 DEF DeckRuns, s
<1> QED BY <1>1, <1>4, <1>5, <1>6, <1>7 DEF DeckInv

LEMMA DecksInit == OneDeliverer /\ Decks!Init => DeckInv
<1> SUFFICES ASSUME OneDeliverer, Decks!Init PROVE DeckInv
  OBVIOUS
<1> DEFINE f == Decks!File("crowded", 1)
<1>1. f \in Decks!Files /\ f.n = 1 /\ 1 \in 0..MaxRuns
  BY DeckFiles DEF OneDeliverer, Decks!Kinds, Decks!Decks
<1> HIDE DEF f
<1>2. /\ Decks!NoReport \in DeckReport /\ Decks!NoReport.seal = FALSE /\ Decks!NoDispositions \in DeckDispositions
  BY DeckFiles DEF Decks!NoReport, DeckReport, DeckDispositions, Decks!NoDispositions, DeckOption
<1>3. PICK r \in BOOLEAN :
         db = [cand |-> f, out |-> Decks!Missing, pages |-> {f}, report |-> Decks!NoReport,
               dispositions |-> Decks!NoDispositions, renderer |-> r, runs |-> 1]
  BY DEF Decks!Init, f
<1>4. db \in DeckDisk
  BY <1>1, <1>2, <1>3, DeckFiles DEF DeckDisk
<1>5. Disposed(db) /\ DeckReported(db)
  BY <1>2, <1>3 DEF Disposed, DeckReported
<1>6. net = [p \in Procs |-> Decks!Idle]
  BY DEF Decks!Init
<1>7. DeckNumbers
  BY <1>1, <1>3, <1>6, DeckIdle, DeckFiles DEF DeckNumbers
<1> QED BY <1>4, <1>5, <1>6, <1>7, DeckIdle DEF DeckInv

LEMMA DecksNext == OneDeliverer /\ DeckInv /\ [Decks!Next]_vars => DeckInv'
<1> SUFFICES ASSUME OneDeliverer, DeckInv, [Decks!Next]_vars PROVE DeckInv'
  OBVIOUS
<1>1. CASE UNCHANGED vars
  BY <1>1 DEF vars, DeckInv, DeckNumbers, Disposed, DeckReported, DeckRuns, DeckAudited, DeckDraws, DeckSeals, UsedBy
<1>2. CASE Decks!dispose
  BY <1>2, DisposeKeeps
<1>3. ASSUME NEW p \in Procs, Decks!Step(p) PROVE DeckInv'
  <2>1. Decks!fails(p) \/ Decks!killed(p) => DeckInv'
    BY DeckEnds DEF Decks!fails, Decks!killed
  <2> QED BY <1>3, <2>1, DeckCommandsKeep, DeckPlacingKeeps, DeckAuditKeeps, DeckDrawingKeeps, DeckVerdictKeeps,
             DeckSealsKeep, DeckCheckKeeps DEF Decks!Step
<1> QED BY <1>1, <1>2, <1>3 DEF Decks!Next

LEMMA DecksHold == DeckInv => Decks!SealedIsVerified /\ Decks!DrawnIsSealed /\ Decks!TypeOK
<1> SUFFICES ASSUME DeckInv PROVE Decks!SealedIsVerified /\ Decks!DrawnIsSealed /\ Decks!TypeOK
  OBVIOUS
<1>1. Decks!SealedIsVerified /\ Decks!DrawnIsSealed
  BY DEF DeckInv, DeckReported, DeckGood, Decks!SealedIsVerified, Decks!DrawnIsSealed
<1>2. Decks!TypeOK
  BY DEF DeckInv, DeckDisk, DeckReport, DeckProc, DeckOption, Decks!TypeOK
<1> QED BY <1>1, <1>2

\* A seal stands for a deck that passed its audit, that is at the deliverable, and
\* whose slides were looked at if nobody else drew there, whatever is rebuilt,
\* converted, explained or killed in between: of any processes one delivers.
THEOREM DecksAreAsSealed ==
    ASSUME OneDeliverer
    PROVE  Decks!Spec => [](Decks!SealedIsVerified /\ Decks!DrawnIsSealed /\ Decks!TypeOK)
<1>1. Decks!Init => DeckInv
  BY DecksInit
<1>2. DeckInv /\ [Decks!Next]_vars => DeckInv'
  BY DecksNext
<1>3. Decks!Spec => Decks!Init /\ [][Decks!Next]_vars
  BY DEF Decks!Spec, vars
<1> QED BY <1>1, <1>2, <1>3, DecksHold, PTL

-----------------------------------------------------------------------------
(* The list of sessions, the one that is open and the address: what is in  *)
(* use survives the lists that arrive, and what was deleted stays away.    *)

Sessions == INSTANCE CopilotSessions

\* What holds of 0 and of the next number with each number below n holds up to n.
LEMMA Climb ==
    ASSUME NEW n \in Nat, NEW S, 0 \in S, \A k \in 0..(n - 1) : k \in S => k + 1 \in S
    PROVE  \A k \in 0..n : k \in S
<1> DEFINE Left == {k \in Nat : k <= n /\ k \notin S}
           Smaller == {ss \in Nat \X Nat : ss[1] < ss[2]}
<1> SUFFICES ASSUME Left # {} PROVE FALSE
  OBVIOUS
<1>1. IsWellFoundedOn(Smaller, Nat)
  BY NatLessThanWellFounded DEF OpToRel
<1>2. Left \in SUBSET Nat
  OBVIOUS
<1> HIDE DEF Left, Smaller
<1>3. PICK i \in Left : \A j \in Left : ~ (<<j, i>> \in Smaller)
  BY <1>1, <1>2, WFMin
<1>4. i \in Nat /\ i <= n /\ i \notin S /\ i # 0
  BY <1>3 DEF Left
<1>5. i - 1 \in S
  <2>0. <<i - 1, i>> \in Smaller
    BY <1>4 DEF Smaller
  <2>1. i - 1 \notin Left
    BY <1>3, <2>0
  <2> QED BY <2>1, <1>4 DEF Left
<1> QED BY <1>4, <1>5

\* A list that is filtered keeps those of its elements that are asked for.
LEMMA KeptIs ==
    ASSUME NEW T, NEW list \in Seq(T), NEW ids
    PROVE  /\ Sessions!Kept(list, ids) \in Seq(T)
           /\ Sessions!ToSet(Sessions!Kept(list, ids)) = Sessions!ToSet(list) \cap ids
<1> DEFINE n == Len(list)
           step(f, k) == IF k = 0 THEN <<>>
                         ELSE IF list[k] \in ids THEN Append(f[k - 1], list[k])
                         ELSE f[k - 1]
           Keeps(f, m) == f = [k \in 0..m |-> step(f, k)]
           S == {m \in 0..n : \E f : Keeps(f, m)}
<1>1. n \in Nat /\ DOMAIN list = 1..n /\ \A k \in 1..n : list[k] \in T
  OBVIOUS
<1> HIDE DEF n
<1>2. 0 \in S
  <2>1. Keeps([k \in 0..0 |-> <<>>], 0)
    OBVIOUS
  <2> HIDE DEF Keeps
  <2> QED BY <1>1, <2>1
<1>3. ASSUME NEW m \in 0..(n - 1), m \in S PROVE m + 1 \in S
  <2>1. PICK f : Keeps(f, m)
    BY <1>3
  <2> DEFINE g == [k \in 0..(m + 1) |-> IF k = m + 1 THEN step(f, m + 1) ELSE f[k]]
  <2>2. ASSUME NEW k \in 0..(m + 1) PROVE g[k] = step(g, k)
    <3>1. CASE k = m + 1
      <4>1. g[m] = f[m] /\ (m + 1) - 1 = m
        BY <1>1
      <4> QED BY <3>1, <4>1, <1>1
    <3>2. CASE k # m + 1
      <4>0. m \in Nat /\ k \in 0..m
        BY <3>2, <1>1
      <4>1. f[k] = step(f, k) /\ k \in 0..m
        BY <2>1, <4>0
      <4>2. k = 0 \/ g[k - 1] = f[k - 1]
        BY <4>1, <1>1
      <4> QED BY <3>2, <4>1, <4>2, <1>1
    <3> QED BY <3>1, <3>2
  <2>3. Keeps(g, m + 1)
    BY <2>2
  <2> HIDE DEF Keeps
  <2> QED BY <2>3, <1>1
<1> HIDE DEF S
<1>4. n \in S
  BY <1>1, <1>2, <1>3, Climb
<1>5. PICK kept : Keeps(kept, n) /\ Sessions!Kept(list, ids) = kept[n]
  <2>1. \E f : Keeps(f, n)
    BY <1>4 DEF S
  <2>2. Keeps(CHOOSE f : Keeps(f, n), n)
    BY <2>1, Zenon
  <2>3. Sessions!Kept(list, ids) = (CHOOSE f : Keeps(f, n))[n]
    BY Zenon DEF Sessions!Kept, n
  <2> QED BY <2>2, <2>3
<1> DEFINE Good == {m \in 0..n : /\ kept[m] \in Seq(T)
                                 /\ Sessions!ToSet(kept[m]) = {list[i] : i \in 1..m} \cap ids}
<1>6. 0 \in Good
  <2>1. kept[0] = <<>>
    BY <1>1, <1>5
  <2>2. Sessions!ToSet(<<>>) = {} /\ {list[i] : i \in 1..0} = {}
    BY DEF Sessions!ToSet
  <2>3. <<>> \in Seq(T) /\ 0 \in 0..n
    BY <1>1
  <2> QED BY <2>1, <2>2, <2>3
<1>7. ASSUME NEW m \in 0..(n - 1), m \in Good PROVE m + 1 \in Good
  <2>1. /\ m + 1 \in 1..n /\ m + 1 > 0
        /\ kept[m + 1] = IF list[m + 1] \in ids THEN Append(kept[m], list[m + 1]) ELSE kept[m]
    <3>1. m + 1 \in 0..n /\ m + 1 > 0 /\ (m + 1) - 1 = m
      BY <1>1
    <3>2. kept[m + 1] = step(kept, m + 1)
      BY <1>5, <3>1
    <3> QED BY <3>1, <3>2, <1>1
  <2>2. {list[i] : i \in 1..(m + 1)} = {list[i] : i \in 1..m} \cup {list[m + 1]}
    BY <2>1, <1>1
  <2>3. CASE list[m + 1] \in ids
    <3> DEFINE q == kept[m]
    <3>1. q \in Seq(T) /\ kept[m + 1] = Append(q, list[m + 1]) /\ list[m + 1] \in T
      BY <1>1, <1>7, <2>1, <2>3
    <3> HIDE DEF q
    <3>2. Append(q, list[m + 1]) \in Seq(T) /\ DOMAIN Append(q, list[m + 1]) = 1..(Len(q) + 1)
      BY <3>1, AppendProperties
    <3>3. Sessions!ToSet(Append(q, list[m + 1])) = Sessions!ToSet(q) \cup {list[m + 1]}
      BY SMTT(30), <3>1, <3>2, AppendProperties DEF Sessions!ToSet
    <3>4. Sessions!ToSet(q) = {list[i] : i \in 1..m} \cap ids
      BY <1>7 DEF q
    <3>5. Sessions!ToSet(kept[m + 1]) = {list[i] : i \in 1..(m + 1)} \cap ids
      <4> DEFINE U == {list[i] : i \in 1..m}
                 V == {list[i] : i \in 1..(m + 1)}
      <4>1. V = U \cup {list[m + 1]} /\ Sessions!ToSet(kept[m + 1]) = (U \cap ids) \cup {list[m + 1]}
        BY <2>2, <3>1, <3>3, <3>4
      <4> HIDE DEF U, V
      <4>2. Sessions!ToSet(kept[m + 1]) = V \cap ids
        BY <2>3, <4>1
      <4> QED BY <4>2 DEF V
    <3>6. kept[m + 1] \in Seq(T)
      BY <3>1, <3>2
    <3>7. m + 1 \in 0..n
      BY <2>1, <1>1
    <3> QED BY <3>5, <3>6, <3>7
  <2>4. CASE list[m + 1] \notin ids
    BY <2>1, <2>2, <2>4, <1>7
  <2> QED BY <2>3, <2>4
<1> HIDE DEF Good
<1>8. n \in Good
  BY <1>1, <1>6, <1>7, Climb
<1>9. Sessions!ToSet(list) = {list[i] : i \in 1..n}
  BY <1>1 DEF Sessions!ToSet
<1> QED BY <1>5, <1>8, <1>9 DEF Good

\* A finite set of sessions as a sequence.
LEMMA SessionsAsSeq ==
    ASSUME NEW S \in SUBSET Sessions!SessionIds
    PROVE  Sessions!SetToSeq(S) \in Seq(S) /\ Sessions!ToSet(Sessions!SetToSeq(S)) \subseteq S
<1> DEFINE n == Cardinality(S)
<1>1. IsFiniteSet(S)
  <2>1. IsFiniteSet({"s1"}) /\ IsFiniteSet({"s2"}) /\ IsFiniteSet({"t1"}) /\ IsFiniteSet({"n1"})
    BY FS_Singleton
  <2>2. IsFiniteSet({"s1"} \cup {"s2"}) /\ IsFiniteSet({"t1"} \cup {"n1"})
    BY <2>1, FS_Union
  <2>3. IsFiniteSet(({"s1"} \cup {"s2"}) \cup ({"t1"} \cup {"n1"}))
    BY <2>2, FS_Union
  <2>4. Sessions!SessionIds = ({"s1"} \cup {"s2"}) \cup ({"t1"} \cup {"n1"})
    BY DEF Sessions!SessionIds
  <2> QED BY <2>3, <2>4, FS_Subset
<1>2. Sessions!Cardinality(S) = n
  BY DEF Sessions!Cardinality, Cardinality
<1>3. n \in Nat /\ \E f : f \in Bijection(1..n, S)
  <2>1. n \in Nat /\ ExistsBijection(1..n, S)
    BY <1>1, FS_CardinalityType
  <2> QED BY <2>1 DEF ExistsBijection
<1> HIDE DEF n
<1>4. \E f \in [1..n -> S] : Sessions!IsInjective(f)
  BY <1>3 DEF Bijection, Injection, IsInjective, Sessions!IsInjective
<1> DEFINE q == Sessions!SetToSeq(S)
<1>5. q \in [1..n -> S] /\ Sessions!IsInjective(q)
  BY <1>2, <1>4 DEF Sessions!SetToSeq
<1> HIDE DEF q
<1>6. q \in Seq(S)
  <2>1. [1..n -> S] \subseteq UNION {[1..k -> S] : k \in Nat}
    BY <1>3
  <2> QED BY <1>5, <2>1, SeqDef, Zenon
<1>7. Sessions!ToSet(q) \subseteq S
  BY <1>5 DEF Sessions!ToSet
<1> QED BY <1>6, <1>7 DEF q

SessionsShape(d) ==
    d = [ws |-> d.ws, was |-> d.was, home |-> d.home, server |-> d.server, local |-> d.local, full |-> d.full,
         tomb |-> d.tomb, active |-> d.active, typing |-> d.typing, route |-> d.route, remembered |-> d.remembered,
         list |-> d.list, fetching |-> d.fetching, due |-> d.due, ready |-> d.ready, link |-> d.link,
         experts |-> d.experts, posting |-> d.posting]

SessionLists == {Sessions!Unknown} \cup {Sessions!ListOf(ids) : ids \in SUBSET Sessions!SessionIds}

\* What the effects read and none of them writes.
Given(d, e) ==
    /\ d.ws = e.ws /\ d.home = e.home /\ d.server = e.server /\ d.full = e.full /\ d.tomb = e.tomb
    /\ d.typing = e.typing /\ d.list = e.list /\ d.fetching = e.fetching

SessionsTyped(d) ==
    /\ SessionsShape(d)
    /\ d.ws \in Sessions!Workspaces /\ DOMAIN d.home = Sessions!SessionIds
    /\ d.local \in Seq(Sessions!SessionIds)
    /\ d.server \subseteq Sessions!SessionIds /\ d.tomb \subseteq Sessions!SessionIds
    /\ d.list \in [Sessions!Workspaces -> SessionLists]

\* The open session is in the list, of this workspace unless it has messages
\* or was just made, and what was deleted is not in the list.
OpenListed(d) == d.active = Sessions!NoArg \/ d.active \in Sessions!Local(d)

OpenHere(d) == d.active \in {Sessions!NoArg, Sessions!Made} \cup d.full \/ d.home[d.active] = d.ws

BuriedAway(d) == Sessions!Local(d) \cap d.tomb \subseteq {Sessions!Made}

SessionsGood(d) == SessionsTyped(d) /\ OpenListed(d) /\ OpenHere(d) /\ BuriedAway(d)

\* An effect that opens a session, remembers it or writes it to the address.
Opens(x, d, e) ==
    /\ SessionsShape(x) /\ Given(x, d) /\ x.local = d.local /\ x.due = d.due /\ x.was = d.was
    /\ \/ x.active \in {d.active, Sessions!NoArg}
       \/ x.active \in Sessions!Local(d) /\ e.home[x.active] = e.ws

LEMMA OpensKeeps ==
    ASSUME NEW d, NEW e, NEW x, SessionsGood(d), Given(d, e), Opens(x, d, e)
    PROVE  SessionsGood(x) /\ Given(x, e) /\ x.local = d.local /\ x.due = d.due /\ x.was = d.was
<1>1. SessionsTyped(x) /\ BuriedAway(x)
  BY DEF SessionsGood, SessionsTyped, Opens, Given, BuriedAway, Sessions!Local
<1>2. OpenListed(x)
  BY DEF SessionsGood, OpenListed, Opens, Given, Sessions!Local
<1>3. OpenHere(x)
  BY DEF SessionsGood, OpenHere, Opens, Given
<1> QED BY <1>1, <1>2, <1>3 DEF SessionsGood, Opens, Given

LEMMA SwitchOpens ==
    ASSUME NEW d, NEW e, SessionsShape(d), NEW s, e.home[s] = e.ws, NEW seen
    PROVE  Opens(Sessions!switchSession(seen, d, s), d, e)
<1> DEFINE remembered == [d.remembered EXCEPT ![d.home[s]] = s]
           kept == IF s \in Sessions!Local(seen) THEN [d EXCEPT !.remembered = remembered] ELSE d
           x == IF s \in Sessions!Local(d) THEN [kept EXCEPT !.active = s] ELSE kept
<1>1. Sessions!switchSession(seen, d, s) = x
  <2>1. Sessions!rememberCopilotSession(d, s) = [d EXCEPT !.remembered = remembered]
    BY DEF Sessions!rememberCopilotSession
  <2>2. Sessions!Local(kept) = Sessions!Local(d)
    BY DEF SessionsShape, Sessions!Local
  <2> QED BY <2>1, <2>2 DEF Sessions!switchSession
<1> HIDE DEF remembered
<1>2. Opens(kept, d, e) /\ kept.active = d.active
  BY DEF SessionsShape, Opens, Given
<1> HIDE DEF kept
<1>3. Opens(x, d, e)
  BY <1>2 DEF SessionsShape, Opens, Given
<1> QED BY <1>1, <1>3

\* The address may be written too.
LEMMA AddressOpens ==
    ASSUME NEW d, NEW e, NEW x, Opens(x, d, e), NEW route, NEW link, NEW posting
    PROVE  /\ Opens([x EXCEPT !.route = route], d, e)
           /\ Opens([x EXCEPT !.link = link], d, e)
           /\ Opens([x EXCEPT !.link = link, !.posting = posting], d, e)
           /\ Opens([x EXCEPT !.active = Sessions!NoArg, !.route = route], d, e)
<1>1. ASSUME NEW y, SessionsShape(y), Given(y, x), y.local = x.local, y.due = x.due, y.was = x.was,
             y.active \in {x.active, Sessions!NoArg}
      PROVE  Opens(y, d, e)
  BY <1>1 DEF Opens, Given
<1> DEFINE written == [x EXCEPT !.route = route]
           followed == [x EXCEPT !.link = link]
           asked == [followed EXCEPT !.posting = posting]
           closed == [x EXCEPT !.active = Sessions!NoArg]
           left == [closed EXCEPT !.route = route]
<1>2. SessionsShape(x)
  BY DEF Opens
<1>3. SessionsShape(written) /\ Given(written, x) /\ written.local = x.local /\ written.due = x.due
      /\ written.was = x.was /\ written.active = x.active
  BY <1>2 DEF SessionsShape, Given
<1>4. SessionsShape(followed) /\ Given(followed, x) /\ followed.local = x.local /\ followed.due = x.due
      /\ followed.was = x.was /\ followed.active = x.active
  BY <1>2 DEF SessionsShape, Given
<1>5. SessionsShape(closed) /\ Given(closed, x) /\ closed.local = x.local /\ closed.due = x.due
      /\ closed.was = x.was /\ closed.active = Sessions!NoArg
  BY <1>2 DEF SessionsShape, Given
<1>6. SessionsShape(asked) /\ Given(asked, followed) /\ asked.local = followed.local /\ asked.due = followed.due
      /\ asked.was = followed.was /\ asked.active = followed.active
  <2> HIDE DEF followed
  <2> QED BY <1>4 DEF SessionsShape, Given
<1>7. SessionsShape(left) /\ Given(left, closed) /\ left.local = closed.local /\ left.due = closed.due
      /\ left.was = closed.was /\ left.active = closed.active
  <2> HIDE DEF closed
  <2> QED BY <1>5 DEF SessionsShape, Given
<1>8. asked = [x EXCEPT !.link = link, !.posting = posting]
      /\ left = [x EXCEPT !.active = Sessions!NoArg, !.route = route]
  OBVIOUS
<1> HIDE DEF written, followed, asked, closed, left
<1>9. Opens(written, d, e) /\ Opens(followed, d, e)
  BY <1>1, <1>3, <1>4
<1>10. Opens(asked, d, e)
  BY <1>1, <1>4, <1>6 DEF Given
<1>11. Opens(left, d, e)
  BY <1>1, <1>5, <1>7 DEF Given
<1> QED BY <1>8, <1>9, <1>10, <1>11 DEF written, followed

\* The sessions of the workspace, and those of them an expert has.
LEMMA VisibleIs ==
    ASSUME NEW d, d.local \in Seq(Sessions!SessionIds)
    PROVE  /\ Sessions!visible(d) \in Seq(Sessions!SessionIds)
           /\ Sessions!ToSet(Sessions!visible(d)) =
                 {s \in Sessions!Local(d) : d.home[s] = d.ws}
<1> DEFINE here == {s \in Sessions!SessionIds : d.home[s] = d.ws}
<1>1. Sessions!visible(d) = Sessions!Kept(d.local, here)
  BY DEF Sessions!visible, Sessions!sessionInWorkspace
<1>2. Sessions!Local(d) \subseteq Sessions!SessionIds
  BY ElementOfSeq DEF Sessions!Local, Sessions!ToSet
<1> QED BY <1>1, <1>2, KeptIs DEF Sessions!Local

LEMMA FirstOf ==
    ASSUME NEW T, NEW q \in Seq(T), q # <<>>
    PROVE  q[1] \in Sessions!ToSet(q)
BY DEF Sessions!ToSet

LEMMA EffectsOpen ==
    ASSUME NEW seen, SessionsTyped(seen), NEW d, SessionsTyped(d), Given(d, seen)
    PROVE  /\ Opens(Sessions!deepLink(seen, d), d, seen)
           /\ Opens(Sessions!urlSync(seen, d), d, seen)
           /\ Opens(Sessions!expertLink(seen, d), d, seen)
           /\ Opens(Sessions!autoSelect(seen, d), d, seen)
<1>1. Opens(d, d, seen) /\ SessionsShape(d)
  BY DEF SessionsTyped, Opens, Given
<1>2. Opens(Sessions!deepLink(seen, d), d, seen)
  <2>1. CASE Sessions!RouteLeads(seen)
    BY <1>1, <2>1, SwitchOpens DEF Sessions!deepLink, Sessions!RouteLeads, Sessions!sessionInWorkspace
  <2>2. CASE ~Sessions!RouteLeads(seen)
    BY <1>1, <2>2 DEF Sessions!deepLink
  <2> QED BY <2>1, <2>2
<1>3. Opens(Sessions!urlSync(seen, d), d, seen)
  BY Zenon, <1>1, AddressOpens DEF Sessions!urlSync
<1> DEFINE visible == Sessions!visible(seen)
           existing == Sessions!Kept(visible, Sessions!OfExpert)
           there == Sessions!ToSet(visible)
<1>4. /\ visible \in Seq(Sessions!SessionIds) /\ there = {s \in Sessions!Local(seen) : seen.home[s] = seen.ws}
      /\ existing \in Seq(Sessions!SessionIds) /\ Sessions!ToSet(existing) \subseteq there
  BY VisibleIs, KeptIs DEF SessionsTyped
<1>5. Opens(Sessions!expertLink(seen, d), d, seen)
  <2>1. CASE existing # <<>>
    <3>1. seen.home[existing[1]] = seen.ws
      BY <1>4, <2>1, FirstOf
    <3>2. Opens(Sessions!switchSession(seen, d, existing[1]), d, seen)
      BY <1>1, <3>1, SwitchOpens
    <3>3. Opens([Sessions!switchSession(seen, d, existing[1]) EXCEPT !.link = FALSE], d, seen)
      BY ZenonT(40), <3>2, AddressOpens
    <3> QED BY <1>1, <2>1, <3>3 DEF Sessions!expertLink
  <2>2. CASE existing = <<>>
    BY Zenon, <1>1, <2>2, AddressOpens DEF Sessions!expertLink
  <2> QED BY <2>1, <2>2
<1>6. Opens(Sessions!autoSelect(seen, d), d, seen)
  <2> DEFINE last == d.remembered[seen.ws]
             first == visible[1]
  <2>1. ASSUME NEW s \in there
        PROVE  /\ Opens(Sessions!switchSession(seen, d, s), d, seen)
               /\ Opens([Sessions!switchSession(seen, d, s) EXCEPT !.route = s], d, seen)
    <3>1. Opens(Sessions!switchSession(seen, d, s), d, seen)
      BY <1>1, <1>4, SwitchOpens
    <3> QED BY Zenon, <3>1, AddressOpens
  <2>2. there # {} => first \in there
    <3>1. there # {} => visible # <<>>
      BY DEF Sessions!ToSet
    <3> QED BY <1>4, <3>1, FirstOf
  <2>3. Opens([d EXCEPT !.active = Sessions!NoArg, !.route = Sessions!NoArg], d, seen)
    BY Zenon, <1>1, AddressOpens
  <2> HIDE DEF visible, there
  <2> DEFINE stays == ~seen.ready \/ Sessions!sessionsLoading(seen) \/ seen.typing \/ seen.active \in there
  <2>4. Sessions!autoSelect(seen, d) =
            IF stays THEN d
            ELSE IF seen.route \in there THEN Sessions!switchSession(seen, d, seen.route)
            ELSE IF last \in there THEN [Sessions!switchSession(seen, d, last) EXCEPT !.route = last]
            ELSE IF there # {} THEN [Sessions!switchSession(seen, d, first) EXCEPT !.route = first]
            ELSE [d EXCEPT !.active = Sessions!NoArg, !.route = Sessions!NoArg]
    BY DEF Sessions!autoSelect, visible, there
  <2> HIDE DEF stays, last, first
  <2> QED BY <1>1, <2>1, <2>2, <2>3, <2>4
<1> QED BY <1>2, <1>3, <1>5, <1>6

\* What a field that no list or session depends on leaves.
Beside(y, d) == SessionsShape(y) /\ Given(y, d) /\ y.was = d.was /\ y.active = d.active

LEMMA ReadyWritten ==
    ASSUME NEW d, SessionsShape(d), NEW v
    PROVE  LET y == [d EXCEPT !.ready = v] IN Beside(y, d) /\ y.local = d.local /\ y.due = d.due
BY DEF Beside, Given, SessionsShape

LEMMA DueWritten ==
    ASSUME NEW d, SessionsShape(d), NEW v
    PROVE  LET y == [d EXCEPT !.due = v] IN Beside(y, d) /\ y.local = d.local /\ y.due = v
BY DEF Beside, Given, SessionsShape

LEMMA Beyond ==
    ASSUME NEW a \in Nat, NEW b \in Nat, NEW i \in Int, 1 <= i, i <= a + b, ~ (i <= a)
    PROVE  i - a \in 1..b /\ i = a + (i - a)
OBVIOUS

\* A list that was read is imported: what is in use stays, what was deleted
\* does not come back.
LEMMA ImportKeeps ==
    ASSUME NEW d, SessionsTyped(d), OpenListed(d), BuriedAway(d), NEW ids \in SUBSET Sessions!SessionIds, NEW w
    PROVE  LET x == Sessions!importSessions(d, ids, w)
           IN  /\ x = [d EXCEPT !.local = x.local] /\ x.local \in Seq(Sessions!SessionIds)
               /\ \A s \in Sessions!Local(d) :
                     d.home[s] # w \/ s = d.active \/ s \in d.full \/ s = Sessions!Made => s \in Sessions!Local(x)
               /\ Sessions!Local(x) \cap d.tomb \subseteq {Sessions!Made}
<1> DEFINE filtered == ids \ d.tomb
           brought == Sessions!SetToSeq(filtered \ Sessions!ToSet(d.local))
           more == d.local \o brought
           merged == [d EXCEPT !.local = more]
           wanted == {s \in Sessions!SessionIds : d.home[s] # w} \cup filtered \cup {d.active, Sessions!Made} \cup d.full
           fewer == Sessions!Kept(more, wanted)
           x == Sessions!importSessions(d, ids, w)
<1>1. x = IF filtered = {} THEN merged ELSE [merged EXCEPT !.local = fewer]
  <2>1. Sessions!merge_sessions(d, filtered) = merged
    BY DEF Sessions!merge_sessions
  <2>2. Sessions!reconcile_sessions(merged, w, filtered) = [merged EXCEPT !.local = fewer]
    BY DEF Sessions!reconcile_sessions, SessionsTyped, SessionsShape
  <2> HIDE DEF merged, fewer
  <2>3. x = IF filtered = {} THEN Sessions!merge_sessions(d, filtered)
            ELSE Sessions!reconcile_sessions(Sessions!merge_sessions(d, filtered), w, filtered)
    BY DEF Sessions!importSessions
  <2> QED BY <2>1, <2>2, <2>3
<1>2. /\ more \in Seq(Sessions!SessionIds)
      /\ Sessions!ToSet(more) \subseteq Sessions!Local(d) \cup filtered
      /\ Sessions!Local(d) \subseteq Sessions!ToSet(more)
  <2> DEFINE S == filtered \ Sessions!ToSet(d.local)
  <2>1. S \in SUBSET Sessions!SessionIds
    OBVIOUS
  <2>2. brought \in Seq(S) /\ Sessions!ToSet(brought) \subseteq S
    BY <2>1, SessionsAsSeq
  <2>3. d.local \in Seq(Sessions!SessionIds) /\ brought \in Seq(Sessions!SessionIds)
    BY <2>1, <2>2, SeqMonotonic DEF SessionsTyped
  <2>4. S \subseteq filtered
    OBVIOUS
  <2> HIDE DEF brought, S, filtered
  <2>5. /\ Sessions!ToSet(more) \subseteq Sessions!ToSet(d.local) \cup Sessions!ToSet(brought)
        /\ Sessions!ToSet(d.local) \subseteq Sessions!ToSet(more)
        /\ more \in Seq(Sessions!SessionIds)
    <3>1. /\ more \in Seq(Sessions!SessionIds) /\ Len(more) = Len(d.local) + Len(brought)
          /\ \A i \in 1..Len(d.local) : more[i] = d.local[i]
          /\ \A i \in 1..Len(brought) : more[Len(d.local) + i] = brought[i]
      BY <2>3, ConcatProperties
    <3>2. /\ Len(d.local) \in Nat /\ Len(brought) \in Nat
          /\ DOMAIN more = 1..Len(more) /\ DOMAIN d.local = 1..Len(d.local) /\ DOMAIN brought = 1..Len(brought)
      BY <2>3, <3>1, LenProperties
    <3> HIDE DEF more
    <3>3. \A i \in DOMAIN more : more[i] \in Sessions!ToSet(d.local) \cup Sessions!ToSet(brought)
      <4> SUFFICES ASSUME NEW i \in DOMAIN more, i \notin 1..Len(d.local) PROVE more[i] \in Sessions!ToSet(brought)
        BY <3>1, <3>2 DEF Sessions!ToSet
      <4>1. i \in Int /\ 1 <= i /\ i <= Len(d.local) + Len(brought) /\ ~ (i <= Len(d.local))
        BY <3>1, <3>2
      <4>2. i - Len(d.local) \in 1..Len(brought) /\ i = Len(d.local) + (i - Len(d.local))
        BY <3>2, <4>1, Beyond
      <4>3. more[i] = brought[i - Len(d.local)]
        BY <3>1, <4>2
      <4> QED BY <3>2, <4>2, <4>3 DEF Sessions!ToSet
    <3>4. Sessions!ToSet(d.local) \subseteq Sessions!ToSet(more)
      <4>1. \A i \in DOMAIN d.local : i \in DOMAIN more /\ more[i] = d.local[i]
        BY <3>1, <3>2
      <4> QED BY <4>1 DEF Sessions!ToSet
    <3>5. Sessions!ToSet(more) \subseteq Sessions!ToSet(d.local) \cup Sessions!ToSet(brought)
      BY <3>3 DEF Sessions!ToSet
    <3> QED BY <3>1, <3>4, <3>5
  <2> QED BY <2>2, <2>4, <2>5 DEF Sessions!Local
<1>3. /\ fewer \in Seq(Sessions!SessionIds)
      /\ Sessions!ToSet(fewer) = Sessions!ToSet(more) \cap wanted
  BY <1>2, KeptIs
<1>4. Sessions!Local(d) \cap d.tomb \subseteq {Sessions!Made} /\ filtered \cap d.tomb = {}
  BY DEF BuriedAway
<1>5. \A s \in Sessions!Local(d) :
         d.home[s] # w \/ s = d.active \/ s \in d.full \/ s = Sessions!Made => s \in wanted
  <2>1. Sessions!Local(d) \subseteq Sessions!SessionIds
    BY ElementOfSeq DEF SessionsTyped, Sessions!Local, Sessions!ToSet
  <2> QED BY <2>1
<1>6. SessionsShape(d)
  BY DEF SessionsTyped
<1> HIDE DEF filtered, more, fewer, wanted, x
<1>7. x.local \in {more, fewer} /\ x = [d EXCEPT !.local = x.local]
  BY <1>1, <1>6 DEF SessionsShape
<1>8. x.local \in Seq(Sessions!SessionIds)
  BY <1>2, <1>3, <1>7
<1>9. \A s \in Sessions!Local(d) :
         d.home[s] # w \/ s = d.active \/ s \in d.full \/ s = Sessions!Made => s \in Sessions!Local(x)
  BY <1>2, <1>3, <1>5, <1>7 DEF Sessions!Local
<1>10. Sessions!Local(x) \cap d.tomb \subseteq {Sessions!Made}
  BY <1>2, <1>3, <1>4, <1>7 DEF Sessions!Local
<1> QED BY <1>7, <1>8, <1>9, <1>10 DEF x

LEMMA ListNames ==
    ASSUME NEW list \in SessionLists
    PROVE  (IF list.known THEN list.ids ELSE {}) \in SUBSET Sessions!SessionIds
<1>1. CASE list = Sessions!Unknown
  BY <1>1 DEF Sessions!Unknown
<1>2. CASE list # Sessions!Unknown
  <2>1. PICK ids \in SUBSET Sessions!SessionIds : list = Sessions!ListOf(ids)
    BY <1>2 DEF SessionLists
  <2>2. list.ids = ids
    BY <2>1 DEF Sessions!ListOf
  <2> QED BY <2>2
<1> QED BY <1>1, <1>2

LEMMA SessionListed ==
    ASSUME NEW d, SessionsTyped(d)
    PROVE  Sessions!sessionHistory(d) \in SUBSET Sessions!SessionIds
<1>1. d.list[d.ws] \in SessionLists
  BY DEF SessionsTyped
<1> QED BY <1>1, ListNames DEF Sessions!sessionHistory

\* What every render leaves: the list keeps what is in use, and nothing is due.
LEMMA PassKeeps ==
    ASSUME NEW e, SessionsTyped(e), OpenListed(e), BuriedAway(e), e.was = e.ws => OpenHere(e)
    PROVE  LET x == Sessions!Pass(e)
           IN  /\ SessionsGood(x) /\ Given(x, e) /\ x.was = x.ws /\ ~ x.due
               /\ \A s \in Sessions!Local(e) :
                     \/ ~ e.due
                     \/ s \in e.full \/ s = Sessions!Made
                     \/ IF e.was = e.ws THEN s = e.active ELSE e.home[s] # e.ws
                     => s \in Sessions!Local(x)
<1> DEFINE d1 == Sessions!workspaceChanged(e, e)
           d2 == Sessions!historyImported(e, d1)
           d3 == Sessions!deepLink(e, d2)
           d4 == Sessions!urlSync(e, d3)
           d5 == Sessions!expertLink(e, d4)
           x == Sessions!autoSelect(e, d5)
<1>1. Sessions!Pass(e) = x
  BY DEF Sessions!Pass
<1>2. /\ SessionsTyped(d1) /\ OpenListed(d1) /\ BuriedAway(d1) /\ OpenHere(d1) /\ Given(d1, e)
      /\ d1.local = e.local /\ d1.was = d1.ws /\ d1.due = e.due
      /\ e.was = e.ws => d1.active = e.active
  <2>1. CASE e.was = e.ws
    <3>1. d1 = e
      BY <2>1 DEF Sessions!workspaceChanged
    <3> QED BY <2>1, <3>1 DEF Given
  <2>2. CASE e.was # e.ws
    <3> DEFINE y1 == [e EXCEPT !.was = e.ws]
               y2 == [y1 EXCEPT !.ready = FALSE]
               y3 == [y2 EXCEPT !.active = Sessions!NoArg]
               y4 == [y3 EXCEPT !.route = Sessions!NoArg]
    <3>1. d1 = y4
      BY <2>2 DEF Sessions!workspaceChanged
    <3>2. /\ SessionsShape(y1) /\ Given(y1, e) /\ y1.local = e.local /\ y1.due = e.due /\ y1.was = e.ws
      BY DEF SessionsTyped, SessionsShape, Given
    <3> HIDE DEF y1
    <3>3. /\ SessionsShape(y2) /\ Given(y2, y1) /\ y2.local = y1.local /\ y2.due = y1.due /\ y2.was = y1.was
      BY <3>2, ReadyWritten DEF Given, Beside
    <3> HIDE DEF y2
    <3>4. /\ SessionsShape(y3) /\ Given(y3, y2) /\ y3.local = y2.local /\ y3.due = y2.due /\ y3.was = y2.was
          /\ y3.active = Sessions!NoArg
      BY <3>3 DEF SessionsShape, Given
    <3> HIDE DEF y3
    <3>5. /\ SessionsShape(y4) /\ Given(y4, y3) /\ y4.local = y3.local /\ y4.due = y3.due /\ y4.was = y3.was
          /\ y4.active = y3.active
      BY <3>4 DEF SessionsShape, Given
    <3> HIDE DEF y4, d1
    <3>6. /\ SessionsShape(d1) /\ Given(d1, e) /\ d1.local = e.local
          /\ d1.was = e.ws /\ d1.due = e.due /\ d1.active = Sessions!NoArg
      BY <3>1, <3>2, <3>3, <3>4, <3>5 DEF Given
    <3>7. SessionsTyped(d1) /\ OpenListed(d1) /\ BuriedAway(d1) /\ OpenHere(d1)
      BY <3>6 DEF SessionsTyped, OpenListed, BuriedAway, OpenHere, Given, Sessions!Local
    <3> QED BY <2>2, <3>6, <3>7 DEF Given
  <2> QED BY <2>1, <2>2
<1>3. /\ SessionsGood(d2) /\ Given(d2, e) /\ d2.was = d1.was /\ ~ d2.due
      /\ \A s \in Sessions!Local(e) :
            ~ e.due \/ e.home[s] # e.ws \/ s = d1.active \/ s \in e.full \/ s = Sessions!Made
               => s \in Sessions!Local(d2)
  <2> HIDE DEF d1
  <2> DEFINE ids == Sessions!sessionHistory(e)
             y == Sessions!importSessions(d1, ids, e.ws)
             over == [d1 EXCEPT !.due = FALSE]
             empty == [over EXCEPT !.ready = TRUE]
             put == [y EXCEPT !.due = FALSE]
             full == [put EXCEPT !.ready = TRUE]
  <2>0. ~ e.due => d2 = d1
    BY DEF Sessions!historyImported
  <2>1. \/ d2 = d1 /\ ~ e.due
        \/ d2 = over \/ d2 = empty \/ d2 = full
    <3>1. CASE ~ e.due
      BY <3>1 DEF Sessions!historyImported
    <3>2. CASE e.due
      <4>1. d2 = over \/ d2 = [d1 EXCEPT !.due = FALSE, !.ready = TRUE]
            \/ d2 = [y EXCEPT !.due = FALSE, !.ready = TRUE]
        BY <3>2 DEF Sessions!historyImported
      <4> QED BY <4>1
    <3> QED BY <3>1, <3>2
  <2>2. /\ y = [d1 EXCEPT !.local = y.local] /\ y.local \in Seq(Sessions!SessionIds)
        /\ \A s \in Sessions!Local(d1) :
              d1.home[s] # e.ws \/ s = d1.active \/ s \in d1.full \/ s = Sessions!Made => s \in Sessions!Local(y)
        /\ Sessions!Local(y) \cap d1.tomb \subseteq {Sessions!Made}
    BY <1>2, ImportKeeps, SessionListed
  <2> HIDE DEF y, d2
  <2>3. SessionsShape(d1)
    BY <1>2 DEF SessionsTyped
  <2>4. Beside(y, d1)
    BY <2>2, <2>3 DEF SessionsShape, Given, Beside
  <2>5. Beside(over, d1) /\ over.local = d1.local /\ over.due = FALSE
    BY <2>3, DueWritten
  <2>6. Beside(put, y) /\ put.local = y.local /\ put.due = FALSE
    BY <2>4, DueWritten DEF Beside
  <2> HIDE DEF over, put
  <2>7. Beside(empty, over) /\ empty.local = over.local /\ empty.due = over.due
    BY <2>5, ReadyWritten DEF Beside
  <2>8. Beside(full, put) /\ full.local = put.local /\ full.due = put.due
    BY <2>6, ReadyWritten DEF Beside
  <2> HIDE DEF empty, full
  <2>9. /\ Beside(d2, d1) /\ ~ d2.due
        /\ \/ d2.local = d1.local
           \/ d2.local = y.local
    <3>1. CASE d2 = d1 /\ ~ e.due
      BY <1>2, <2>3, <3>1 DEF Beside, Given
    <3>2. CASE d2 = over
      BY <3>2, <2>5
    <3>3. CASE d2 = empty
      BY <3>3, <2>5, <2>7 DEF Beside, Given
    <3>4. CASE d2 = full
      BY <3>4, <2>4, <2>6, <2>8 DEF Beside, Given
    <3> QED BY <2>1, <3>1, <3>2, <3>3, <3>4
  <2>10. ~ e.due => d2.local = d1.local
    BY <2>0
  <2>11. SessionsTyped(d2) /\ Given(d2, e) /\ d2.was = d1.was /\ d2.active = d1.active
    BY <1>2, <2>2, <2>9 DEF SessionsTyped, Given, Beside
  <2>12. Sessions!Local(d1) \cap ({d1.active} \ {Sessions!NoArg}) \subseteq Sessions!Local(d2)
    BY <2>2, <2>9 DEF Sessions!Local
  <2>13. OpenListed(d2) /\ OpenHere(d2)
    BY <1>2, <2>11, <2>12 DEF OpenListed, OpenHere, Given
  <2>14. Sessions!Local(d2) \cap d2.tomb \subseteq {Sessions!Made}
    BY <1>2, <2>2, <2>9, <2>11 DEF BuriedAway, Given, Sessions!Local
  <2>15. \A s \in Sessions!Local(d1) :
            ~ e.due \/ d1.home[s] # e.ws \/ s = d1.active \/ s \in d1.full \/ s = Sessions!Made
               => s \in Sessions!Local(d2)
    BY <2>2, <2>9, <2>10 DEF Sessions!Local
  <2> QED BY <1>2, <2>9, <2>11, <2>13, <2>14, <2>15 DEF SessionsGood, BuriedAway, Given, Sessions!Local
<1> HIDE DEF d1, d2
<1>4. SessionsGood(d3) /\ Given(d3, e) /\ d3.local = d2.local /\ d3.due = d2.due /\ d3.was = d2.was
  BY <1>3, EffectsOpen, OpensKeeps DEF SessionsGood
<1> HIDE DEF d3
<1>5. SessionsGood(d4) /\ Given(d4, e) /\ d4.local = d3.local /\ d4.due = d3.due /\ d4.was = d3.was
  BY <1>4, EffectsOpen, OpensKeeps DEF SessionsGood
<1> HIDE DEF d4
<1>6. SessionsGood(d5) /\ Given(d5, e) /\ d5.local = d4.local /\ d5.due = d4.due /\ d5.was = d4.was
  BY <1>5, EffectsOpen, OpensKeeps DEF SessionsGood
<1> HIDE DEF d5
<1>7. SessionsGood(x) /\ Given(x, e) /\ x.local = d5.local /\ x.due = d5.due /\ x.was = d5.was
  BY <1>6, EffectsOpen, OpensKeeps DEF SessionsGood
<1> HIDE DEF x
<1>8. x.local = d2.local /\ ~ x.due /\ x.was = x.ws
  BY <1>2, <1>3, <1>4, <1>5, <1>6, <1>7 DEF Given
<1>9. \A s \in Sessions!Local(e) :
         \/ ~ e.due
         \/ s \in e.full \/ s = Sessions!Made
         \/ IF e.was = e.ws THEN s = e.active ELSE e.home[s] # e.ws
         => s \in Sessions!Local(x)
  BY <1>2, <1>3, <1>8 DEF Sessions!Local
<1> QED BY <1>1, <1>7, <1>8, <1>9

\* What may still be under way when the page has come to rest.
SessionsOpen(d) ==
    SessionsTyped(d) /\ OpenListed(d) /\ BuriedAway(d) /\ (d.was = d.ws => OpenHere(d))

\* What the next renders leave in the list.
Unswept(e, s) ==
    \/ ~ e.due
    \/ s \in e.full \/ s = Sessions!Made
    \/ IF e.was = e.ws THEN s = e.active ELSE e.home[s] # e.ws

LEMMA SettledKeeps ==
    ASSUME NEW e, SessionsOpen(e)
    PROVE  LET x == Sessions!Settled(e)
           IN  /\ SessionsGood(x) /\ Given(x, e) /\ x.was = x.ws /\ ~ x.due
               /\ \A s \in Sessions!Local(e) : Unswept(e, s) => s \in Sessions!Local(x)
<1> DEFINE Rests(x) == /\ SessionsGood(x) /\ Given(x, e) /\ x.was = x.ws /\ ~ x.due
                       /\ \A s \in Sessions!Local(e) : Unswept(e, s) => s \in Sessions!Local(x)
<1>1. Rests(Sessions!Pass(e))
  BY PassKeeps DEF SessionsOpen, Unswept
<1>2. ASSUME NEW d, Rests(d) PROVE Rests(Sessions!Pass(d))
  <2>1. /\ SessionsGood(Sessions!Pass(d)) /\ Given(Sessions!Pass(d), d)
        /\ Sessions!Pass(d).was = Sessions!Pass(d).ws /\ ~ Sessions!Pass(d).due
        /\ \A s \in Sessions!Local(d) : s \in Sessions!Local(Sessions!Pass(d))
    BY <1>2, PassKeeps DEF SessionsGood
  <2> QED BY <1>2, <2>1 DEF Given
<1> HIDE DEF Rests
<1>3. Rests(Sessions!Pass(Sessions!Pass(e))) /\ Rests(Sessions!Pass(Sessions!Pass(Sessions!Pass(e))))
  BY <1>1, <1>2
<1>4. Rests(Sessions!Settled(e))
  BY <1>1, <1>3 DEF Sessions!Settled
<1> QED BY <1>4 DEF Rests

\* A list names sessions there are, a session that is asked for is the one
\* that can be made here, and one that is deleted is some workspace's.
RequestRight(r) ==
    /\ r.op = "listed" => r.ids \in SUBSET Sessions!SessionIds
    /\ r.op \in {"new", "created"} => r.id = Sessions!Made
    /\ r.op \in {"delete", "deleted"} => r.ws \in Sessions!Workspaces

RequestsRight(out) == \A r \in DOMAIN out : RequestRight(r)

SessionInv ==
    /\ SessionsGood(db) /\ db.was = db.ws /\ ~ db.due
    /\ net = [out |-> net.out, made |-> net.made] /\ RequestsRight(net.out)

LEMMA SessionBags ==
    ASSUME NEW B, RequestsRight(B), NEW S, NEW T, \A r \in T : RequestRight(r)
    PROVE  RequestsRight(Sessions!(+)(Sessions!(-)(B, Sessions!SetToBag(S)), Sessions!SetToBag(T)))
<1>1. DOMAIN Sessions!(+)(Sessions!(-)(B, Sessions!SetToBag(S)), Sessions!SetToBag(T)) \subseteq DOMAIN B \cup T
  BY DEF Sessions!(+), Sessions!(-), Sessions!SetToBag
<1> QED BY <1>1 DEF RequestsRight

\* The place of the session that is made is known when it is asked for.
Placed(y, d) ==
    \E v, w : y = [[d EXCEPT !.posting = v] EXCEPT !.home = [d.home EXCEPT ![Sessions!Made] = w]]

LEMMA PlaceWritten ==
    ASSUME NEW d, SessionsGood(d), NEW y, Placed(y, d)
    PROVE  /\ SessionsGood(y) /\ y.local = d.local /\ y.ws = d.ws /\ y.was = d.was /\ y.due = d.due
           /\ y.tomb = d.tomb
<1> PICK v, w : y = [[d EXCEPT !.posting = v] EXCEPT !.home = [d.home EXCEPT ![Sessions!Made] = w]]
  BY Zenon DEF Placed
<1> DEFINE place == [d.home EXCEPT ![Sessions!Made] = w]
           p == [d EXCEPT !.posting = v]
<1>1. DOMAIN place = DOMAIN d.home /\ \A s : s # Sessions!Made /\ s \in DOMAIN d.home => place[s] = d.home[s]
  OBVIOUS
<1>3. SessionsShape(p) /\ Given(p, d) /\ p.was = d.was /\ p.local = d.local /\ p.active = d.active /\ p.due = d.due
  BY DEF SessionsGood, SessionsTyped, SessionsShape, Given
<1>2. y = [p EXCEPT !.home = place]
  OBVIOUS
<1> HIDE DEF place, p
<1>4. /\ SessionsShape(y) /\ y.home = place /\ y.ws = p.ws /\ y.was = p.was /\ y.server = p.server /\ y.local = p.local
      /\ y.full = p.full /\ y.tomb = p.tomb /\ y.active = p.active /\ y.list = p.list /\ y.due = p.due
  BY <1>2, <1>3 DEF SessionsShape
<1>5. /\ y.ws = d.ws /\ y.was = d.was /\ y.server = d.server /\ y.local = d.local
      /\ y.full = d.full /\ y.tomb = d.tomb /\ y.active = d.active /\ y.list = d.list /\ y.due = d.due
  BY <1>3, <1>4 DEF Given
<1>6. SessionsTyped(y) /\ OpenListed(y) /\ BuriedAway(y)
  BY <1>1, <1>4, <1>5 DEF SessionsGood, SessionsTyped, OpenListed, BuriedAway, Sessions!Local
<1>7. Sessions!Local(d) \subseteq Sessions!SessionIds
  BY ElementOfSeq DEF SessionsGood, SessionsTyped, Sessions!Local, Sessions!ToSet
<1>8. OpenHere(y)
  BY <1>1, <1>4, <1>5, <1>7 DEF SessionsGood, SessionsTyped, OpenHere, OpenListed
<1> QED BY <1>5, <1>6, <1>8 DEF SessionsGood

\* What a handler may do to the page before its effects run.
Touches(e) ==
    /\ SessionsOpen(e)
    /\ Sessions!Local(db) \subseteq Sessions!Local(e) \cup e.tomb
    /\ \/ ~ e.due
       \/ /\ e.full = db.full /\ e.active = db.active
          /\ e.was = e.ws \/ db.active \in {Sessions!NoArg, Sessions!Made} \cup db.full \/ e.home[db.active] # e.ws

LEMMA StepStays ==
    ASSUME SessionInv, NEW e, Touches(e), NEW gone, NEW requests, \A r \in requests : RequestRight(r), NEW made,
           Sessions!Step(e, gone, requests, made)
    PROVE  SessionInv' /\ Sessions!InUseStays
<1> DEFINE last == Sessions!Settled(e)
           v == FALSE
           w == IF last.posting THEN last.ws ELSE last.home[Sessions!Made]
           asked == requests \cup (IF last.posting THEN {Sessions!Post(last.ws)} ELSE {})
<1>1. /\ SessionsGood(last) /\ Given(last, e) /\ last.was = last.ws /\ ~ last.due
      /\ \A s \in Sessions!Local(e) : Unswept(e, s) => s \in Sessions!Local(last)
  BY SettledKeeps DEF Touches
<1>2. /\ db' = [last EXCEPT !.posting = v, !.home[Sessions!Made] = w]
      /\ net' = [out |-> Sessions!(+)(Sessions!(-)(net.out, Sessions!SetToBag(gone)), Sessions!SetToBag(asked)),
                 made |-> made]
  BY DEF Sessions!Step
<1> HIDE DEF last, v, w
<1>3. /\ SessionsGood(db') /\ (db').local = last.local /\ (db').ws = last.ws /\ (db').was = last.was
      /\ (db').due = last.due /\ (db').tomb = last.tomb
  <2>1. db' = [[last EXCEPT !.posting = v] EXCEPT !.home = [last.home EXCEPT ![Sessions!Made] = w]]
    BY <1>1, <1>2 DEF SessionsGood, SessionsTyped, SessionsShape
  <2>2. Placed(db', last)
    BY Zenon, <2>1 DEF Placed
  <2> QED BY <1>1, <2>2, PlaceWritten
<1>4. \A r \in asked : RequestRight(r)
  BY DEF RequestRight, Sessions!Post
<1> HIDE DEF asked
<1>5. RequestsRight(net'.out) /\ net' = [out |-> net'.out, made |-> net'.made]
  BY <1>2, <1>4, SessionBags DEF SessionInv
<1>6. SessionInv'
  BY <1>1, <1>3, <1>5
     DEF SessionInv, SessionsGood, SessionsTyped, SessionsShape, OpenListed, OpenHere, BuriedAway, Sessions!Local
<1>7. ASSUME NEW s \in Sessions!Local(db), s \notin e.tomb,
             s = db.active \/ s \in db.full \/ s = Sessions!Made
      PROVE  s \in Sessions!Local(last)
  <2>1. s \in Sessions!Local(e)
    BY <1>7 DEF Touches
  <2>2. s # Sessions!NoArg
    <3>1. s \in Sessions!SessionIds
      BY ElementOfSeq DEF SessionInv, SessionsGood, SessionsTyped, Sessions!Local, Sessions!ToSet
    <3> QED BY Zenon, <3>1 DEF Sessions!SessionIds, Sessions!NoArg
  <2>3. Unswept(e, s)
    BY <1>7, <2>2 DEF Touches, Unswept
  <2> QED BY <1>1, <2>1, <2>3
<1>8. Sessions!InUseStays
  BY <1>1, <1>3, <1>7 DEF Sessions!InUseStays, Sessions!Local, Given
<1> QED BY <1>6, <1>8

\* A field that no list depends on is written.
Like(y, d) ==
    /\ SessionsShape(y)
    /\ y.ws = d.ws /\ y.was = d.was /\ y.home = d.home /\ y.server = d.server /\ y.local = d.local
    /\ y.full = d.full /\ y.tomb = d.tomb /\ y.active = d.active /\ y.list = d.list

LEMMA FieldWritten ==
    ASSUME NEW d, SessionsShape(d), NEW v
    PROVE  /\ Like([d EXCEPT !.route = v], d) /\ Like([d EXCEPT !.remembered = v], d)
           /\ Like([d EXCEPT !.fetching = v], d) /\ Like([d EXCEPT !.typing = v], d)
           /\ Like([d EXCEPT !.experts = v], d) /\ Like([d EXCEPT !.due = v], d)
BY DEF Like, SessionsShape

LEMMA LikeKeeps ==
    ASSUME NEW d, NEW y, Like(y, d)
    PROVE  SessionsOpen(d) => SessionsOpen(y)
<1> SUFFICES ASSUME SessionsOpen(d) PROVE SessionsOpen(y)
  OBVIOUS
<1>1. SessionsTyped(y)
  BY DEF SessionsOpen, SessionsTyped, Like
<1>2. OpenListed(y) /\ BuriedAway(y) /\ (y.was = y.ws => OpenHere(y))
  BY DEF SessionsOpen, Like, OpenListed, BuriedAway, OpenHere, Sessions!Local
<1> QED BY <1>1, <1>2 DEF SessionsOpen

\* A page on which nothing in use was touched, whether its list is due or not.
Undisturbed(d) ==
    /\ SessionsOpen(d)
    /\ Sessions!Local(db) \subseteq Sessions!Local(d) \cup d.tomb
    /\ d.full = db.full /\ d.active = db.active
    /\ d.was = d.ws \/ db.active \in {Sessions!NoArg, Sessions!Made} \cup db.full \/ d.home[db.active] # d.ws

LEMMA UndisturbedTouches ==
    ASSUME NEW d, Undisturbed(d), NEW y, Like(y, d)
    PROVE  Undisturbed(y) /\ Touches(y)
<1>1. SessionsOpen(y)
  BY LikeKeeps DEF Undisturbed
<1>2. Undisturbed(y)
  BY <1>1 DEF Undisturbed, Like, Sessions!Local
<1> QED BY <1>2 DEF Undisturbed, Touches

LEMMA PageUndisturbed ==
    ASSUME SessionInv
    PROVE  Undisturbed(db) /\ Like(db, db) /\ SessionsShape(db)
BY DEF SessionInv, SessionsGood, SessionsTyped, SessionsOpen, Undisturbed, Like

\* A list is asked for anew.
LEMMA RefetchTouches ==
    ASSUME NEW d, Undisturbed(d), NEW w
    PROVE  Touches(Sessions!Refetching(d, w))
<1> DEFINE more == d.fetching \cup {w}
           v == TRUE
           d1 == [d EXCEPT !.fetching = more]
           d2 == [d1 EXCEPT !.due = v]
<1>1. Sessions!Refetching(d, w) = d2
  BY DEF Sessions!Refetching
<1> HIDE DEF more, v
<1>2. SessionsShape(d)
  BY DEF Undisturbed, SessionsOpen, SessionsTyped
<1>3. Like(d1, d)
  BY <1>2, FieldWritten
<1> HIDE DEF d1
<1>4. Like(d2, d1)
  <2>1. SessionsShape(d1)
    BY <1>3 DEF Like
  <2> QED BY <2>1, FieldWritten
<1> HIDE DEF d2
<1> QED BY <1>1, <1>3, <1>4, UndisturbedTouches

LEMMA SwitchKeeps ==
    ASSUME SessionInv, NEW w \in Sessions!Workspaces, Sessions!switchWorkspace(w)
    PROVE  SessionInv' /\ Sessions!InUseStays
<1> DEFINE d == [db EXCEPT !.ws = w]
           asked == {[op |-> "list", ws |-> w]}
<1>1. Sessions!Step(Sessions!Refetching(d, w), Sessions!Listing(w), asked, net.made + 1) /\ w # db.ws
  BY DEF Sessions!switchWorkspace, Sessions!Hand
<1>2. \A r \in asked : RequestRight(r)
  BY DEF RequestRight
<1> HIDE DEF asked
<1>3. /\ SessionsShape(d) /\ d.ws = w /\ d.was = db.was /\ d.home = db.home /\ d.server = db.server /\ d.local = db.local
      /\ d.full = db.full /\ d.tomb = db.tomb /\ d.active = db.active /\ d.list = db.list
  BY DEF SessionInv, SessionsGood, SessionsTyped, SessionsShape
<1> HIDE DEF d
<1>4. SessionsTyped(d) /\ OpenListed(d) /\ BuriedAway(d)
  BY <1>3 DEF SessionInv, SessionsGood, SessionsTyped, OpenListed, BuriedAway, Sessions!Local
<1>5. Undisturbed(d)
  BY <1>1, <1>3, <1>4 DEF SessionInv, SessionsGood, SessionsOpen, Undisturbed, OpenHere, Sessions!Local
<1> QED BY <1>1, <1>2, <1>5, RefetchTouches, StepStays

\* A step that writes one such field.
LEMMA FieldsKeep ==
    ASSUME SessionInv, NEW s
    PROVE  /\ Sessions!followLink(s) => SessionInv' /\ Sessions!InUseStays
           /\ Sessions!expertsLoaded(s) => SessionInv' /\ Sessions!InUseStays
           /\ Sessions!createFailed(s) => SessionInv' /\ Sessions!InUseStays
           /\ Sessions!turnEnds => SessionInv' /\ Sessions!InUseStays
<1> DEFINE yes == TRUE
           no == FALSE
           asked == {[op |-> "list", ws |-> db.ws]}
<1>0. SessionsShape(db) /\ Undisturbed(db)
  BY PageUndisturbed
<1>1. Touches(db) /\ \A v : Touches([db EXCEPT !.route = v]) /\ Touches([db EXCEPT !.experts = v])
  BY <1>0, PageUndisturbed, FieldWritten, UndisturbedTouches
<1>2. \A v : Undisturbed([db EXCEPT !.typing = v])
  BY <1>0, FieldWritten, UndisturbedTouches
<1>3. \A r \in {} : RequestRight(r)
  OBVIOUS
<1>4. \A r \in asked : RequestRight(r)
  BY DEF RequestRight
<1> HIDE DEF asked
<1>5. ASSUME Sessions!followLink(s) PROVE SessionInv' /\ Sessions!InUseStays
  <2>1. Sessions!Step([db EXCEPT !.route = s], {}, {}, net.made + 1)
    BY <1>5 DEF Sessions!followLink, Sessions!Hand
  <2> QED BY <1>1, <1>3, <2>1, StepStays
<1>6. ASSUME Sessions!expertsLoaded(s) PROVE SessionInv' /\ Sessions!InUseStays
  <2>1. Sessions!Step([db EXCEPT !.experts = yes], {s}, {}, net.made)
    BY <1>6 DEF Sessions!expertsLoaded, Sessions!Answer
  <2> HIDE DEF yes
  <2>2. Touches([db EXCEPT !.experts = yes])
    BY <1>1
  <2> QED BY <1>3, <2>1, <2>2, StepStays
<1>7. ASSUME Sessions!createFailed(s) PROVE SessionInv' /\ Sessions!InUseStays
  <2>1. Sessions!Step(db, {s}, {}, net.made)
    BY <1>7 DEF Sessions!createFailed, Sessions!Answer
  <2> QED BY <1>1, <1>3, <2>1, StepStays
<1>8. ASSUME Sessions!turnEnds PROVE SessionInv' /\ Sessions!InUseStays
  <2> DEFINE d == [db EXCEPT !.typing = no]
  <2>1. Sessions!Step(Sessions!Refetching(d, db.ws), Sessions!Listing(db.ws), asked, net.made)
    BY <1>8 DEF Sessions!turnEnds, asked
  <2> HIDE DEF no
  <2>2. Undisturbed(d)
    BY <1>2
  <2> HIDE DEF d
  <2> QED BY <1>4, <2>1, <2>2, RefetchTouches, StepStays
<1> QED BY <1>5, <1>6, <1>7, <1>8

LEMMA OpenKeeps ==
    ASSUME SessionInv, NEW s \in Sessions!SessionIds, Sessions!openSession(s)
    PROVE  SessionInv' /\ Sessions!InUseStays
<1> DEFINE x == Sessions!switchSession(db, db, s)
           e == [x EXCEPT !.route = s]
<1>1. Sessions!Step(e, {}, {}, net.made + 1) /\ s \in Sessions!ToSet(Sessions!visible(db))
  BY DEF Sessions!openSession, Sessions!Hand
<1>2. SessionsTyped(db) /\ SessionsGood(db) /\ Given(db, db) /\ SessionsShape(db)
  BY DEF SessionInv, SessionsGood, SessionsTyped, Given
<1>3. db.home[s] = db.ws
  BY <1>1, <1>2, VisibleIs DEF SessionsTyped
<1>4. Opens(x, db, db)
  BY <1>2, <1>3, SwitchOpens
<1> HIDE DEF x
<1>5. Opens(e, db, db)
  BY Zenon, <1>4, AddressOpens
<1> HIDE DEF e
<1>6. SessionsGood(e) /\ e.local = db.local /\ e.due = db.due
  BY <1>2, <1>5, OpensKeeps
<1>7. Touches(e)
  BY <1>6 DEF SessionInv, SessionsGood, SessionsOpen, Touches, Sessions!Local
<1> QED BY <1>1, <1>7, StepStays

LEMMA PickerKeeps ==
    ASSUME SessionInv, Sessions!openNewSessionPicker
    PROVE  SessionInv' /\ Sessions!InUseStays
<1> DEFINE place == [db.home EXCEPT ![Sessions!Made] = db.ws]
           e == [db EXCEPT !.home = place]
           asked == {Sessions!Post(db.ws)}
<1>1. Sessions!Step(e, {}, asked, net.made + 1)
  BY DEF Sessions!openNewSessionPicker, Sessions!Hand
<1>2. \A r \in asked : RequestRight(r)
  BY DEF RequestRight, Sessions!Post
<1> HIDE DEF asked
<1>3. SessionsShape(db)
  BY DEF SessionInv, SessionsGood, SessionsTyped
<1>4. e = [[db EXCEPT !.posting = db.posting] EXCEPT !.home = [db.home EXCEPT ![Sessions!Made] = db.ws]]
  BY <1>3 DEF SessionsShape
<1> HIDE DEF e
<1>5. Placed(e, db)
  BY Zenon, <1>4 DEF Placed
<1>6. SessionsGood(e) /\ e.local = db.local /\ e.due = db.due
  BY <1>5, PlaceWritten DEF SessionInv
<1>7. Touches(e)
  BY <1>6 DEF SessionInv, SessionsGood, SessionsOpen, Touches, Sessions!Local
<1> QED BY <1>1, <1>2, <1>7, StepStays

\* Something is said: the open session has messages.
LEMMA SayKeeps ==
    ASSUME SessionInv, Sessions!say
    PROVE  SessionInv' /\ Sessions!InUseStays
<1> DEFINE more == db.full \cup {db.active}
           yes == TRUE
           d == [db EXCEPT !.full = more]
           e == [d EXCEPT !.typing = yes]
<1>1. Sessions!Step(e, {}, {}, net.made + 1)
  <2>1. e = [db EXCEPT !.full = @ \cup {db.active}, !.typing = TRUE]
    BY DEF SessionInv, SessionsGood, SessionsTyped, SessionsShape
  <2> HIDE DEF e
  <2> QED BY <2>1 DEF Sessions!say, Sessions!Hand
<1> HIDE DEF yes, more
<1>2. /\ SessionsShape(d) /\ d.ws = db.ws /\ d.was = db.was /\ d.home = db.home /\ d.server = db.server
      /\ d.local = db.local /\ d.full = more /\ d.tomb = db.tomb /\ d.active = db.active /\ d.list = db.list
      /\ d.due = db.due
  BY DEF SessionInv, SessionsGood, SessionsTyped, SessionsShape
<1> HIDE DEF d
<1>3. SessionsOpen(d)
  BY <1>2 DEF more, SessionInv, SessionsGood, SessionsTyped, OpenListed, OpenHere, BuriedAway, SessionsOpen,
              Sessions!Local
<1>4. Like(e, d) /\ e.due = d.due
  BY <1>2 DEF Like, SessionsShape
<1> HIDE DEF e
<1>5. SessionsOpen(e) /\ e.local = db.local /\ ~ e.due
  BY <1>2, <1>3, <1>4, LikeKeeps DEF Like, SessionInv
<1>6. Touches(e)
  BY <1>5 DEF Touches, Sessions!Local
<1> QED BY <1>1, <1>6, StepStays

\* Another tab deletes, and what the server has is not what is shown here.
LEMMA ServerWritten ==
    ASSUME SessionInv, NEW server \in SUBSET Sessions!SessionIds
    PROVE  LET d == [db EXCEPT !.server = server]
           IN  Undisturbed(d) /\ d.due = db.due /\ d.was = db.was /\ d.ws = db.ws /\ d.local = db.local /\ SessionsGood(d)
<1> DEFINE d == [db EXCEPT !.server = server]
<1>1. /\ SessionsShape(d) /\ d.ws = db.ws /\ d.was = db.was /\ d.home = db.home /\ d.server = server
      /\ d.local = db.local /\ d.full = db.full /\ d.tomb = db.tomb /\ d.active = db.active /\ d.list = db.list
      /\ d.due = db.due
  BY DEF SessionInv, SessionsGood, SessionsTyped, SessionsShape
<1> HIDE DEF d
<1>2. SessionsGood(d)
  BY <1>1 DEF SessionInv, SessionsGood, SessionsTyped, OpenListed, OpenHere, BuriedAway, Sessions!Local
<1>3. Undisturbed(d)
  BY <1>1, <1>2 DEF SessionInv, SessionsGood, SessionsOpen, Undisturbed, Sessions!Local
<1> QED BY <1>1, <1>2, <1>3 DEF d

LEMMA ElsewhereKeeps ==
    ASSUME SessionInv, NEW s, Sessions!elsewhere(s)
    PROVE  SessionInv' /\ Sessions!InUseStays
<1> DEFINE server == db.server \ {s}
           d == [db EXCEPT !.server = server]
<1>1. Sessions!Step(d, {}, {}, net.made + 1)
  BY DEF Sessions!elsewhere, Sessions!Hand
<1>2. server \in SUBSET Sessions!SessionIds
  BY DEF SessionInv, SessionsGood, SessionsTyped
<1> HIDE DEF server
<1>3. Undisturbed(d)
  BY <1>2, ServerWritten
<1>4. Like(d, d)
  BY <1>3 DEF Undisturbed, SessionsOpen, SessionsTyped, Like
<1> HIDE DEF d
<1> QED BY <1>1, <1>3, <1>4, UndisturbedTouches, StepStays

\* The server answers what it was asked.
LEMMA SessionsServedKeep ==
    ASSUME SessionInv, NEW r \in DOMAIN net.out, Sessions!served(r)
    PROVE  SessionInv' /\ Sessions!InUseStays
<1>1. ASSUME NEW answer, RequestRight(answer), NEW server \in SUBSET Sessions!SessionIds,
             Sessions!Becomes(r, answer, server)
      PROVE  SessionInv' /\ Sessions!InUseStays
  <2>1. /\ db' = [db EXCEPT !.server = server]
        /\ net' = [out |-> Sessions!(+)(Sessions!(-)(net.out, Sessions!SetToBag({r})), Sessions!SetToBag({answer})),
                   made |-> net.made]
    BY <1>1 DEF Sessions!Becomes, SessionInv
  <2>2. RequestsRight(net'.out) /\ net' = [out |-> net'.out, made |-> net'.made]
    BY <1>1, <2>1, SessionBags DEF SessionInv
  <2>3. /\ (db').due = db.due /\ (db').was = db.was /\ (db').ws = db.ws /\ (db').local = db.local
        /\ SessionsGood(db')
    BY <1>1, <2>1, ServerWritten
  <2>4. SessionInv'
    BY <2>2, <2>3
       DEF SessionInv, SessionsGood, SessionsTyped, SessionsShape, OpenListed, OpenHere, BuriedAway, Sessions!Local
  <2> QED BY <2>3, <2>4 DEF Sessions!InUseStays, Sessions!Local
<1>2. db.server \subseteq Sessions!SessionIds /\ RequestRight(r)
  BY DEF SessionInv, SessionsGood, SessionsTyped, RequestsRight
<1>3. CASE r.op = "list"
  <2> DEFINE ids == {s \in db.server : db.home[s] = r.ws}
             answer == [op |-> "listed", ws |-> r.ws, ids |-> ids]
  <2>1. Sessions!Becomes(r, answer, db.server)
    BY <1>3 DEF Sessions!served
  <2>2. RequestRight(answer)
    BY <1>2 DEF RequestRight
  <2> HIDE DEF answer
  <2> QED BY <1>1, <1>2, <2>1, <2>2
<1>4. CASE r.op = "new"
  <2> DEFINE answer == [r EXCEPT !.op = "created"]
             server == db.server \cup {r.id}
  <2>1. Sessions!Becomes(r, answer, server)
    BY <1>4 DEF Sessions!served
  <2>2. r.id = Sessions!Made /\ server \in SUBSET Sessions!SessionIds
    BY <1>2, <1>4 DEF RequestRight, Sessions!Made, Sessions!SessionIds
  <2>3. RequestRight(answer)
    BY <2>2 DEF RequestRight
  <2> HIDE DEF answer, server
  <2> QED BY <1>1, <2>1, <2>2, <2>3
<1>5. CASE r.op = "delete"
  <2> DEFINE answer == [r EXCEPT !.op = "deleted"]
             server == db.server \ {r.id}
  <2>1. Sessions!Becomes(r, answer, server)
    BY <1>5 DEF Sessions!served
  <2>2. server \in SUBSET Sessions!SessionIds
    BY <1>2
  <2>3. RequestRight(answer)
    BY <1>2, <1>5 DEF RequestRight
  <2> HIDE DEF answer, server
  <2> QED BY <1>1, <2>1, <2>2, <2>3
<1> QED BY <1>3, <1>4, <1>5 DEF Sessions!served

\* The session that is deleted leaves the list for the graves.
LEMMA DeleteKeeps ==
    ASSUME SessionInv, NEW s \in Sessions!SessionIds, Sessions!deleteSession(s)
    PROVE  SessionInv' /\ Sessions!InUseStays
<1> DEFINE graves == db.tomb \cup {s}
           b1 == [db EXCEPT !.tomb = graves]
           kept == [b1.remembered EXCEPT ![b1.home[s]] = IF @ = s THEN Sessions!NoArg ELSE @]
           b2 == [b1 EXCEPT !.remembered = kept]
           fewer == Sessions!Kept(b2.local, Sessions!SessionIds \ {s})
           rest == [b2 EXCEPT !.local = fewer]
           same == Sessions!Kept(fewer, {x \in Sessions!SessionIds : b2.home[x] = b2.home[s]})
           next == IF same # <<>> THEN same[1] ELSE Sessions!NoArg
           e == IF b2.active # s THEN rest ELSE [rest EXCEPT !.active = next]
           asked == {[op |-> "delete", id |-> s, ws |-> db.ws]}
<1>1. /\ Sessions!Step(Sessions!del_session(b2, s), {}, asked, net.made + 1)
      /\ s \in Sessions!ToSet(Sessions!visible(db))
  BY DEF Sessions!deleteSession, Sessions!Hand, Sessions!clearCopilotLastSession
<1>2. \A r \in asked : RequestRight(r)
  BY DEF RequestRight, SessionInv, SessionsGood, SessionsTyped
<1> HIDE DEF asked, kept, graves
<1>3. db.home[s] = db.ws
  BY <1>1, VisibleIs DEF SessionInv, SessionsGood, SessionsTyped
<1>4. /\ SessionsShape(b1) /\ b1.ws = db.ws /\ b1.was = db.was /\ b1.home = db.home /\ b1.server = db.server
      /\ b1.local = db.local /\ b1.full = db.full /\ b1.tomb = graves /\ b1.active = db.active /\ b1.list = db.list
      /\ b1.due = db.due
  BY DEF SessionInv, SessionsGood, SessionsTyped, SessionsShape
<1> HIDE DEF b1
<1>5. Like(b2, b1) /\ b2.due = b1.due
  BY <1>4 DEF Like, SessionsShape
<1> HIDE DEF b2
<1>6. /\ fewer \in Seq(Sessions!SessionIds)
      /\ Sessions!ToSet(fewer) = Sessions!Local(db) \ {s}
  <2>1. b2.local = db.local /\ db.local \in Seq(Sessions!SessionIds)
    BY <1>4, <1>5 DEF Like, SessionInv, SessionsGood, SessionsTyped
  <2>2. Sessions!Local(db) \subseteq Sessions!SessionIds
    BY <2>1, ElementOfSeq DEF Sessions!Local, Sessions!ToSet
  <2> QED BY <2>1, <2>2, KeptIs DEF Sessions!Local
<1> HIDE DEF fewer
<1>7. next = Sessions!NoArg \/ (next \in Sessions!ToSet(fewer) /\ db.home[next] = db.ws)
  <2> DEFINE here == {x \in Sessions!SessionIds : b2.home[x] = b2.home[s]}
  <2>1. same \in Seq(Sessions!SessionIds) /\ Sessions!ToSet(same) = Sessions!ToSet(fewer) \cap here
    BY <1>6, KeptIs
  <2>2. b2.home = db.home
    BY <1>4, <1>5 DEF Like
  <2> HIDE DEF same
  <2>3. same # <<>> => same[1] \in Sessions!ToSet(fewer) \cap here
    BY <2>1, FirstOf
  <2> QED BY <1>3, <2>2, <2>3
<1>8. Sessions!del_session(b2, s) = e
  <2>1. SessionsShape(b2)
    BY <1>5 DEF Like
  <2>2. rest.local = fewer
    BY <2>1 DEF SessionsShape
  <2> DEFINE R == [b2 EXCEPT !.local = Sessions!Kept(b2.local, Sessions!SessionIds \ {s})]
             others == Sessions!Kept(R.local, {x \in Sessions!SessionIds : b2.home[x] = b2.home[s]})
  <2>3. R = rest
    BY DEF fewer
  <2>4. Sessions!del_session(b2, s) = IF b2.active # s THEN R
            ELSE [R EXCEPT !.active = IF others # <<>> THEN others[1] ELSE Sessions!NoArg]
    BY DEF Sessions!del_session
  <2> HIDE DEF rest, R
  <2>5. others = same
    BY <2>2, <2>3
  <2> HIDE DEF others, same
  <2> QED BY <2>3, <2>4, <2>5
<1> HIDE DEF next
<1>9. /\ SessionsShape(rest) /\ rest.ws = b2.ws /\ rest.was = b2.was /\ rest.home = b2.home /\ rest.server = b2.server
      /\ rest.local = fewer /\ rest.full = b2.full /\ rest.tomb = b2.tomb /\ rest.active = b2.active
      /\ rest.list = b2.list /\ rest.due = b2.due
  BY <1>5 DEF Like, SessionsShape
<1> HIDE DEF rest
<1>10. /\ SessionsShape(e) /\ e.ws = rest.ws /\ e.was = rest.was /\ e.home = rest.home /\ e.server = rest.server
       /\ e.local = rest.local /\ e.full = rest.full /\ e.tomb = rest.tomb /\ e.list = rest.list /\ e.due = rest.due
       /\ e.active = IF b2.active # s THEN b2.active ELSE next
  BY <1>9 DEF SessionsShape
<1> HIDE DEF e
<1>11. /\ SessionsShape(e) /\ e.ws = db.ws /\ e.was = db.was /\ e.home = db.home /\ e.server = db.server
       /\ e.local = fewer /\ e.full = db.full /\ e.tomb = db.tomb \cup {s} /\ e.list = db.list /\ e.due = db.due
       /\ e.active = IF db.active # s THEN db.active ELSE next
  BY <1>4, <1>5, <1>9, <1>10 DEF Like, graves
<1>12. SessionsTyped(e) /\ OpenListed(e) /\ BuriedAway(e) /\ OpenHere(e)
  <2>1. SessionsTyped(e)
    BY <1>6, <1>11 DEF SessionInv, SessionsGood, SessionsTyped
  <2>2. OpenListed(e) /\ BuriedAway(e) /\ OpenHere(e)
    BY <1>6, <1>7, <1>11 DEF SessionInv, SessionsGood, OpenListed, BuriedAway, OpenHere, Sessions!Local
  <2> QED BY <2>1, <2>2
<1>13. Touches(e)
  BY <1>6, <1>11, <1>12 DEF Touches, SessionsOpen, SessionInv, Sessions!Local
<1> QED BY <1>1, <1>2, <1>8, <1>13, StepStays

\* A list that arrives is what the page has of it.
LEMMA ListWritten ==
    ASSUME NEW d, Undisturbed(d), NEW w, NEW ids \in SUBSET Sessions!SessionIds
    PROVE  Undisturbed([d EXCEPT !.list[w] = Sessions!ListOf(ids)])
<1> DEFINE lists == [d.list EXCEPT ![w] = Sessions!ListOf(ids)]
           e == [d EXCEPT !.list = lists]
<1>1. lists \in [Sessions!Workspaces -> SessionLists]
  <2>1. d.list \in [Sessions!Workspaces -> SessionLists] /\ Sessions!ListOf(ids) \in SessionLists
    BY DEF Undisturbed, SessionsOpen, SessionsTyped, SessionLists
  <2> QED BY <2>1
<1>2. e = [d EXCEPT !.list[w] = Sessions!ListOf(ids)]
  OBVIOUS
<1> HIDE DEF lists
<1>3. /\ SessionsShape(e) /\ e.ws = d.ws /\ e.was = d.was /\ e.home = d.home /\ e.server = d.server
      /\ e.local = d.local /\ e.full = d.full /\ e.tomb = d.tomb /\ e.active = d.active /\ e.list = lists
  BY DEF Undisturbed, SessionsOpen, SessionsTyped, SessionsShape
<1> HIDE DEF e
<1>4. SessionsTyped(e)
  BY <1>1, <1>3 DEF Undisturbed, SessionsOpen, SessionsTyped
<1>5. OpenListed(e) /\ BuriedAway(e) /\ (e.was = e.ws => OpenHere(e))
  BY <1>3 DEF Undisturbed, SessionsOpen, OpenListed, OpenHere, BuriedAway, Sessions!Local
<1>6. Undisturbed(e)
  BY <1>3, <1>4, <1>5 DEF Undisturbed, SessionsOpen, Sessions!Local
<1> QED BY <1>2, <1>6

\* The answer to a list.
LEMMA ListedKeeps ==
    ASSUME SessionInv, NEW r \in DOMAIN net.out, Sessions!listed(r) \/ Sessions!listFailed(r)
    PROVE  SessionInv' /\ Sessions!InUseStays
<1> DEFINE fewer == db.fetching \ {r.ws}
           v == db.due \/ r.ws = db.ws
<1>1. ASSUME NEW d, Undisturbed(d), d.fetching = db.fetching, d.due = db.due
      PROVE  Touches([d EXCEPT !.fetching = fewer, !.due = v])
  <2> HIDE DEF fewer, v
  <2> DEFINE d1 == [d EXCEPT !.fetching = fewer]
             d2 == [d1 EXCEPT !.due = v]
  <2>1. SessionsShape(d)
    BY <1>1 DEF Undisturbed, SessionsOpen, SessionsTyped
  <2>2. Like(d1, d)
    BY <2>1, FieldWritten
  <2> HIDE DEF d1
  <2>3. SessionsShape(d1)
    BY <2>2 DEF Like
  <2>4. Like(d2, d1)
    BY <2>3, FieldWritten
  <2> HIDE DEF d2
  <2>5. Touches(d2)
    BY <1>1, <2>2, <2>4, UndisturbedTouches
  <2> QED BY <2>5 DEF d1, d2
<1>2. Undisturbed(db) /\ SessionsShape(db)
  BY PageUndisturbed
<1>3. CASE Sessions!listed(r)
  <2> DEFINE d == [db EXCEPT !.list[r.ws] = Sessions!ListOf(r.ids)]
             e == [d EXCEPT !.fetching = fewer, !.due = v]
  <2>1. r.op = "listed"
        /\ Sessions!Step([db EXCEPT !.list[r.ws] = Sessions!ListOf(r.ids), !.fetching = fewer, !.due = v], {r}, {}, net.made)
    BY <1>3 DEF Sessions!listed, Sessions!Answer
  <2>2. e = [db EXCEPT !.list[r.ws] = Sessions!ListOf(r.ids), !.fetching = fewer, !.due = v]
    BY <1>2 DEF SessionsShape
  <2>3. d.fetching = db.fetching /\ d.due = db.due
    BY <1>2 DEF SessionsShape
  <2>4. r.ids \in SUBSET Sessions!SessionIds
    BY <2>1 DEF SessionInv, RequestsRight, RequestRight
  <2>5. Undisturbed(d)
    BY <1>2, <2>4, ListWritten
  <2> HIDE DEF d, fewer, v
  <2>6. Touches(e)
    BY Zenon, <1>1, <2>3, <2>5
  <2> HIDE DEF e
  <2>7. Sessions!Step(e, {r}, {}, net.made)
    BY <2>1, <2>2
  <2> QED BY <2>6, <2>7, StepStays
<1>4. CASE Sessions!listFailed(r)
  <2> DEFINE e == [db EXCEPT !.fetching = fewer, !.due = v]
  <2>1. Sessions!Step(e, {r}, {}, net.made)
    BY <1>4 DEF Sessions!listFailed, Sessions!Answer
  <2>2. Touches(e)
    BY Zenon, <1>1, <1>2
  <2> HIDE DEF e
  <2> QED BY <2>1, <2>2, StepStays
<1> QED BY <1>3, <1>4

\* A session was made: it opens, and its place is known.
LEMMA CreatedKeeps ==
    ASSUME SessionInv, NEW r \in DOMAIN net.out, Sessions!created(r)
    PROVE  SessionInv' /\ Sessions!InUseStays
<1> DEFINE s == r.id
           longer == IF s \in Sessions!ToSet(db.local) THEN db.local ELSE Append(db.local, s)
           d0 == [db EXCEPT !.local = longer]
           d == [d0 EXCEPT !.active = s]
           remembered == [d.remembered EXCEPT ![d.home[s]] = s]
           d1 == [d EXCEPT !.remembered = remembered]
           e == [d1 EXCEPT !.route = s]
<1>1. Sessions!Step(e, {r}, {}, net.made) /\ s = Sessions!Made
  <2>1. r.op = "created" /\ RequestRight(r)
    BY DEF Sessions!created, SessionInv, RequestsRight
  <2>2. Sessions!new_session(db, s) = d
    BY DEF Sessions!new_session
  <2> HIDE DEF d
  <2>3. Sessions!rememberCopilotSession(d, s) = d1
    BY DEF Sessions!rememberCopilotSession
  <2> HIDE DEF d1
  <2>4. Sessions!Step(e, {r}, {}, net.made)
    BY <2>2, <2>3 DEF Sessions!created, Sessions!Answer
  <2> QED BY <2>1, <2>4 DEF RequestRight
<1>2. longer \in Seq(Sessions!SessionIds) /\ Sessions!ToSet(longer) = Sessions!Local(db) \cup {Sessions!Made}
  <2>1. db.local \in Seq(Sessions!SessionIds) /\ Sessions!Made \in Sessions!SessionIds
    BY DEF SessionInv, SessionsGood, SessionsTyped, Sessions!Made, Sessions!SessionIds
  <2>2. CASE s \in Sessions!ToSet(db.local)
    BY <1>1, <2>1, <2>2 DEF Sessions!Local
  <2>3. CASE s \notin Sessions!ToSet(db.local)
    <3> DEFINE q == Append(db.local, Sessions!Made)
    <3>1. /\ q \in Seq(Sessions!SessionIds) /\ Len(q) = Len(db.local) + 1 /\ q[Len(q)] = Sessions!Made
          /\ \A i \in 1..Len(db.local) : q[i] = db.local[i]
          /\ DOMAIN q = 1..Len(q) /\ DOMAIN db.local = 1..Len(db.local) /\ Len(db.local) \in Nat
      BY <2>1, AppendProperties, LenProperties
    <3>2. longer = q
      BY <1>1, <2>3
    <3> HIDE DEF q, longer
    <3>3. Sessions!ToSet(q) = Sessions!ToSet(db.local) \cup {Sessions!Made}
      BY <3>1 DEF Sessions!ToSet
    <3> QED BY <3>1, <3>2, <3>3 DEF Sessions!Local
  <2> QED BY <2>2, <2>3
<1> HIDE DEF longer, remembered
<1>0. SessionsShape(db)
  BY DEF SessionInv, SessionsGood, SessionsTyped
<1>9. Given(d0, db) /\ SessionsShape(d0) /\ d0.local = longer /\ d0.was = db.was /\ d0.due = db.due
  BY <1>0 DEF SessionsShape, Given
<1> HIDE DEF d0
<1>3. /\ SessionsShape(d) /\ d.ws = db.ws /\ d.was = db.was /\ d.home = db.home /\ d.server = db.server
      /\ d.local = longer /\ d.full = db.full /\ d.tomb = db.tomb /\ d.active = s /\ d.list = db.list
      /\ d.due = db.due
  BY <1>9 DEF SessionsShape, Given
<1> HIDE DEF d
<1>4. SessionsOpen(d)
  <2>1. SessionsTyped(d)
    BY <1>2, <1>3 DEF SessionInv, SessionsGood, SessionsTyped
  <2>2. OpenListed(d) /\ OpenHere(d) /\ BuriedAway(d)
    BY <1>1, <1>2, <1>3 DEF SessionInv, SessionsGood, OpenListed, OpenHere, BuriedAway, Sessions!Local
  <2> QED BY <2>1, <2>2 DEF SessionsOpen
<1>5. Like(d1, d) /\ d1.due = d.due
  BY <1>3 DEF Like, SessionsShape
<1> HIDE DEF d1
<1>6. Like(e, d1) /\ e.due = d1.due
  BY <1>5 DEF Like, SessionsShape
<1> HIDE DEF e
<1>7. SessionsOpen(e)
  BY <1>4, <1>5, <1>6, LikeKeeps
<1>8. Touches(e)
  BY <1>2, <1>3, <1>5, <1>6, <1>7 DEF Touches, Like, Sessions!Local, SessionInv
<1> QED BY <1>1, <1>8, StepStays

\* The answer to a deletion: the grave is emptied when it was done, and the
\* list is asked for anew.
LEMMA DeletedKeeps ==
    ASSUME SessionInv, NEW r \in DOMAIN net.out, Sessions!deleted(r)
    PROVE  SessionInv' /\ Sessions!InUseStays
<1> DEFINE asked == {[op |-> "list", ws |-> db.ws]}
           graves == db.tomb \ {r.id}
           emptied == [db EXCEPT !.tomb = graves]
           risen == IF r.op = "deleted" THEN emptied ELSE db
           cached == IF db.list[r.ws].known THEN db.list[r.ws].ids ELSE {}
           ids == cached \ {r.id}
           v == db.due \/ r.ws = db.ws
           d == [risen EXCEPT !.list[r.ws] = Sessions!ListOf(ids)]
           e == [d EXCEPT !.due = v]
<1>1. Undisturbed(db) /\ SessionsShape(db)
  BY PageUndisturbed
<1>2. Undisturbed(risen) /\ risen.due = db.due /\ SessionsShape(risen)
  <2>1. /\ SessionsShape(emptied) /\ Given([emptied EXCEPT !.tomb = db.tomb], db)
        /\ emptied.ws = db.ws /\ emptied.was = db.was /\ emptied.home = db.home /\ emptied.server = db.server
        /\ emptied.local = db.local /\ emptied.full = db.full /\ emptied.tomb = graves /\ emptied.active = db.active
        /\ emptied.list = db.list /\ emptied.due = db.due
    BY <1>1 DEF SessionsShape, Given
  <2> HIDE DEF emptied
  <2>2. SessionsTyped(emptied)
    BY <2>1 DEF SessionInv, SessionsGood, SessionsTyped
  <2>3. OpenListed(emptied) /\ OpenHere(emptied) /\ BuriedAway(emptied)
    BY <2>1 DEF SessionInv, SessionsGood, OpenListed, OpenHere, BuriedAway, Sessions!Local
  <2>4. Undisturbed(emptied)
    BY <1>1, <2>1, <2>2, <2>3 DEF SessionsOpen, Undisturbed, SessionInv, Sessions!Local
  <2> QED BY <1>1, <2>1, <2>4
<1>3. Sessions!Step(Sessions!Refetching([risen EXCEPT !.list[r.ws] = Sessions!ListOf(ids), !.due = v], db.ws),
                    {r} \cup Sessions!Listing(db.ws), asked, net.made)
  BY <1>1 DEF Sessions!deleted, SessionsShape
<1>4. \A q \in asked : RequestRight(q)
  BY DEF RequestRight
<1> HIDE DEF asked, v, risen
<1>5. e = [risen EXCEPT !.list[r.ws] = Sessions!ListOf(ids), !.due = v]
  OBVIOUS
<1>6. ids \in SUBSET Sessions!SessionIds
  <2>1. r.ws \in Sessions!Workspaces
    BY DEF Sessions!deleted, SessionInv, RequestsRight, RequestRight
  <2>2. db.list[r.ws] \in SessionLists
    BY <2>1 DEF SessionInv, SessionsGood, SessionsTyped
  <2>3. cached \in SUBSET Sessions!SessionIds
    BY <2>2, ListNames
  <2> QED BY <2>3
<1> HIDE DEF ids
<1>7. Undisturbed(d)
  BY <1>2, <1>6, ListWritten
<1> HIDE DEF d
<1>8. Undisturbed(e)
  <2>1. SessionsShape(d)
    BY <1>7 DEF Undisturbed, SessionsOpen, SessionsTyped
  <2>2. Like(e, d)
    BY <2>1, FieldWritten
  <2> HIDE DEF e
  <2> QED BY <1>7, <2>2, UndisturbedTouches
<1> HIDE DEF e
<1>9. Touches(Sessions!Refetching(e, db.ws))
  BY <1>8, RefetchTouches
<1> QED BY <1>3, <1>4, <1>5, <1>9, StepStays

LEMMA SessionsInit == Sessions!Init => SessionInv
<1> SUFFICES ASSUME Sessions!Init PROVE SessionInv
  OBVIOUS
<1> DEFINE no == FALSE
           home == [s1 |-> "w1", s2 |-> "w1", t1 |-> "w2", n1 |-> Sessions!NoArg]
           remembered == [w1 |-> "s1", w2 |-> Sessions!NoArg]
           lists == [w \in Sessions!Workspaces |-> Sessions!Unknown]
           asked == {[op |-> "list", ws |-> "w1"], [op |-> "experts"]}
<1>1. PICK address, expert :
        db = [ws |-> "w1", was |-> "w1", home |-> home, server |-> {"s1", "s2", "t1"}, local |-> <<>>, full |-> {},
              tomb |-> {}, active |-> Sessions!NoArg, typing |-> no, route |-> address, remembered |-> remembered,
              list |-> lists, fetching |-> {"w1"}, due |-> no, ready |-> no,
              link |-> expert, experts |-> no, posting |-> no]
  BY DEF Sessions!Init
<1>2. ~ no
  OBVIOUS
<1>3. DOMAIN home = Sessions!SessionIds /\ lists \in [Sessions!Workspaces -> SessionLists]
  BY DEF Sessions!SessionIds, SessionLists
<1>4. <<>> \in Seq(Sessions!SessionIds) /\ Sessions!ToSet(<<>>) = {}
  BY DEF Sessions!ToSet
<1>5. net = [out |-> Sessions!SetToBag(asked), made |-> 0]
  BY DEF Sessions!Init
<1>6. \A r \in asked : RequestRight(r)
  BY DEF RequestRight
<1> HIDE DEF no, home, remembered, lists, asked
<1>7. RequestsRight(net.out) /\ net = [out |-> net.out, made |-> net.made]
  BY <1>5, <1>6 DEF RequestsRight, Sessions!SetToBag
<1>8. SessionsShape(db) /\ db.was = db.ws /\ db.due = no
  BY <1>1 DEF SessionsShape
<1>9. SessionsTyped(db)
  BY <1>1, <1>3, <1>4, <1>8 DEF SessionsTyped, Sessions!Workspaces, Sessions!SessionIds
<1>10. OpenListed(db) /\ OpenHere(db) /\ BuriedAway(db)
  BY <1>1, <1>4 DEF OpenListed, OpenHere, BuriedAway, Sessions!Local
<1> QED BY <1>2, <1>7, <1>8, <1>9, <1>10 DEF SessionInv, SessionsGood

LEMMA SessionsNext == SessionInv /\ [Sessions!Next]_vars => SessionInv' /\ Sessions!InUseStays
<1> SUFFICES ASSUME SessionInv, [Sessions!Next]_vars PROVE SessionInv' /\ Sessions!InUseStays
  OBVIOUS
<1>1. CASE UNCHANGED vars
  BY <1>1 DEF vars, SessionInv, SessionsGood, SessionsTyped, SessionsShape, OpenListed, OpenHere, BuriedAway,
              Sessions!Local, RequestsRight, Sessions!InUseStays
<1>2. CASE Sessions!Next
  <2>1. ASSUME NEW r \in Sessions!BagToSet(net.out) PROVE r \in DOMAIN net.out
    BY DEF Sessions!BagToSet
  <2> QED BY <1>2, <2>1, SwitchKeeps, FieldsKeep, OpenKeeps, PickerKeeps, SayKeeps, ElsewhereKeeps, SessionsServedKeep,
             DeleteKeeps, ListedKeeps, CreatedKeeps, DeletedKeeps DEF Sessions!Next
<1> QED BY <1>1, <1>2

LEMMA SessionsHold == SessionInv => Sessions!DeletedStaysAway
<1> SUFFICES ASSUME SessionInv PROVE Sessions!DeletedStaysAway
  OBVIOUS
<1>1. Sessions!NoArg \notin db.tomb
  BY Zenon DEF SessionInv, SessionsGood, SessionsTyped, Sessions!SessionIds, Sessions!NoArg
<1> QED BY <1>1 DEF SessionInv, SessionsGood, OpenListed, BuriedAway, Sessions!DeletedStaysAway

\* A list that arrives never takes away the session that is open, one with
\* messages or the one just made, and a session deleted here stays away until
\* the server has confirmed it, but for the one whose making is answered later.
THEOREM SessionsInUseStay ==
    Sessions!Init /\ [][Sessions!Next]_vars => []Sessions!DeletedStaysAway /\ [][Sessions!InUseStays]_vars
BY SessionsInit, SessionsNext, SessionsHold, PTL
=============================================================================
