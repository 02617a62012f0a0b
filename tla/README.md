# Digital employee platform: formal models

This directory holds TLA+ models of the platform: the Go server under
`src/backend`, the console under `src/frontend` with the routes its
demonstration API answers, and the delivery tools of two built-in skills; the
TLC runs that check them and theorems about them checked by TLAPS. Paths below
are relative to `src/backend/internal/` unless they start with `src/`; `mock.ts`
is `src/frontend/packages/api/src/mock.ts`, `useChat.ts` and `Copilot.tsx` are in
`hooks/` and `pages/` of `src/frontend/web/src/`.

1. [The system](#the-system): components, state, interactions
2. [The modules](#the-modules): what each models and how it reads against the code
3. [The runs](#the-runs): what is checked, on which instances, what it shows
4. [Fairness](#fairness)
5. [The proofs](#the-proofs)
6. [What the code does that a document or a comment does not say](#divergences)
7. [What is not modelled](#what-is-not-modelled)
8. [The plan](#the-plan)

Run everything from this directory:

    tlasany DurableCollection.tla
    tlc -workers 2 -config MCDurableSafe.cfg MCDurableCollection
    tlapm DurableCollectionProofs.tla

## The system

The backend is one Go server (`server/`) that can be started as a monolith or
as a few processes that each answer a part of its routes (`apprun/`,
`server/servicemode.go`). All of its state is in one `Store` (`store/`): slices
and maps of JSON documents under one read-write lock. A handler locks the
store, changes documents, unlocks, and asks for the collections it touched to
be written. Nothing is read from the database after the start. Long work (the
model, the tools of a skill, the specialists of a panel) runs without the lock,
and its result is written under the lock again.

    request --> handler --(Store.Lock)--> documents in memory
                   |                          |  snapshot
                   |                          v
                   |                    persist goroutine --> rows in the table
                   |                                              |
                   +--(no lock)--> model, tools, specialists      | restart
                                                                  v
                                                        documents in memory

The console is a React application of one page per domain. A page fetches rows,
offers buttons by what it shows, and sends requests to routes that the Go server
or, in the demonstration build, `mock.ts` answers; the latter holds every rule of
the domains (who may, in which status, with which second signature) and is the
reference of the console's modules. The Copilot page is a program of its own: it
streams replies, recovers turns after a reload, merges what the server kept,
and keeps drafts, tools, sessions and decisions in step with it.

    page (cached rows) --request, any order, any delay--> gate of roles --> route --> tables, audit log
         ^                                                                              |
         +-------------------------- answer, refetch <----------------------------------+

The skills are command line tools that meet in files only: a candidate, its
pages, a report and a deliverable.

### Components

| Component | Its state | Its operations | Talks to | What is hard | What makes it correct |
|---|---|---|---|---|---|
| Durable store: `store/persist.go`, `infra/kv.go`, `infra/kernel.go`, `apprun/run.go` | documents in memory, rows in PostgreSQL, goroutines in flight | snapshot, upsert, delete, hydrate | every handler | nothing orders two goroutines, a statement may be refused, the process may stop anywhere | what a client was told survives; memory and table converge |
| Identifiers: `store/store.go` | one counter per process | `ID`, `BumpSeqFromPrefixedIDs` | every creation | the counter starts again | an id names one document |
| Action authorization: `server/authorization*.go`, `handlers_actions.go`, `skill_turn*.go` | an action with its request, its plan of steps, its linked task | queue, approve, reject, execute, retry, continue | durable store, skills, tasks | the loop over the steps runs unlocked and the tail writes statuses it did not read again | only what was approved runs; a decision is final; no step is done twice |
| Copilot turns: `server/handlers_c.go`, `copilot_turn_state.go`, `copilot_ratelimit.go` | messages of a conversation, answers remembered, one record per turn | register, replay, ask, run, commit, cancel | models, panel, durable store | retries overlap, cancellation races every step, the memory is lost by a restart | a message is answered once, a cancelled turn says nothing |
| Specialist panel: `server/copilot_multi.go`, `session_panel.go`, `agentos/subagent.go` | a semaphore, a result per specialist, a shared map of reports | build, dispatch, invoke, merge | copilot turns, memory | panics, timeouts, cancellation and several turns at once | slots are given back, the merge finds everybody at rest |
| Sessions: `handlers_contract.go`, `session_share.go`, `session_governance.go` | a session with mode, owner and status | create, patch, hand over, close, share | turns, actions, channels | checks that are stale when the change is made | a closed session changes no more |
| Tasks: `task_domain.go`, `task_fsm.go` | lifecycle, version, audit entries | transition, approve, take over, retry | actions, sessions | optimistic versions, goroutines that snapshot late | an edit never overwrites one it has not seen |
| Releases: `dual_approval.go`, `handlers_a.go`, `handlers_b.go` | an employee or a package, the first signature | submit, approve, countersign, reject | audit | long sequences of decisions | high risk takes two signers of one submission |
| Channels: `handlers_channel*.go`, `session_routing.go`, `channel/`, `feishu/`, `wecom/`, `dingtalk/`, `weixin/` | the last 500 inbound events, dead letters | receive, recognise repeats, route, reply, retry | sessions, turns | deliveries are repeated and overlap | a message is routed once |
| Project plans: `pmsop/` | stages and tasks | start, complete, block, unblock | none | status derived from the tasks | a plan is blocked while a task is |
| Heartbeat: `heartbeat/` | who is present, subscribers | touch, sweep, subscribe | event streams | a bounded buffer between lock and channel | nobody blocks |
| Knowledge, memory, skills, models | assets, candidates, packages, routes | publish, ingest, install, invoke | turns | mostly one lock and one document | as the durable store |
| Policy, identity, vault, publisher keys | rules, tokens, keys | checks of one request | every handler | none kept | pure functions |
| Audit, usage, metrics | entries and counters | append | buses and tables | best effort by design | none relied on |
| Console routes: `mock.ts` | tables of tasks, grants, employees, workflows, models, skills, channels, packages, memories; the audit log | one route per button | the pages | two people act on what their pages showed; a handler checks a status that another route changes | nothing takes effect before its approval; records of one fact agree; one-time effects happen once |
| Workflow canvas, provider dialog: `Workflows.tsx`, `Models.tsx` | canvas, undo stack, baseline; drafts per protocol | edit, undo, save, validate, try | routes | answers arrive after further edits | a published version keeps its graph; what is submitted would be accepted |
| Copilot conversation: `useChat.ts`, `features/copilot/conversation-merge.ts` | messages, pending turn, one abort and one timer for the page | send, stop, retry, recover, merge | server turns | streams, reloads, late answers and conversations of any age | no question disappears, no aborted reply goes on, no id is doubled |
| Copilot stream: `useChat.ts`, `features/copilot/human-thought.ts` | segments, thoughts, a stand-in message | one handler per event | conversation | four records of one reply | the reply that is complete is the one that was heard |
| Copilot composer, media: `Copilot.tsx`, `features/copilot/` | draft, mode, tools, files; the device in use | type, switch, send, capture | sessions, turns | a mode shown before it is granted, answers after a switch of session | no writing tool leaves outside the execution mode; what was reported holds no device |
| Copilot sessions, decisions, drawer: `Copilot.tsx` | the list, the open session, tombstones, the address; copies of a message; what is selected | five effects; approve, run, rate; open, restore | server sessions and actions | effects that trigger one another, copies put back | effects come to rest, a deleted session stays away, the drawer is about the open session |
| Skill tools: `src/backend/builtin/skills/` | candidate, pages, report, deliverable | build, audit, draw, deliver | other processes over the files | a process killed between two files, two processes | what is reported as delivered passed the audit and is what was drawn |
| Home and operations: `home-live-aggregate.ts` | none but acknowledgements | figures from rows | all rows | two pages compute one figure | both agree |
| Runtimes, views, commands, generated code | none here | | the server over HTTP | | |

`PROJECT.json` lists every part with its files.

### Where the system is hard

Six mechanisms account for almost every hazard listed in `PROJECT.json`:

- **Writes behind the answer.** `Persist` snapshots the whole collection under a
  read lock and hands it to a goroutine. Two goroutines interleave statement by
  statement, and some snapshots share the live maps while others copy them.
- **Work without the lock.** Executions, turns and panels read state, run for
  seconds and write back. Whatever happened in between (a second execution, a
  decision, a cancellation, the end of the session) is seen only where the code
  looks again.
- **Retries.** The client repeats a message, `continueRun` repeats an execution,
  a channel repeats a delivery. None of the three marks the work as under way.
- **Restarts.** Counters, turn records, remembered answers and Go types inside
  JSON (`[]string` becomes `[]any`) do not survive.
- **Pages behind the tables.** What a page shows is as old as its last fetch, a
  request may arrive after any other one, and effects of a page read what the
  last render showed.
- **Derived statuses.** One fact is kept in two fields (`status` and
  `authorizationRequest.status`, an action and its task, a plan and its tasks).

## The modules

    DocLife  <==implements==  DurableCollection     (MCDurableCollection)
                                    |  what a restart reads back
              +---------------------+--------------------+
              v                                          v
    ActionAuthorization (MCActionAuthorization)   CopilotTurn (MCCopilotTurn)
                                                         |  runs, in panel mode
                                                         v
                                               SpecialistPanel (MCSpecialistPanel)

    DurableCollection, ActionAuthorization, CopilotTurn, SpecialistPanel  (MCServerLive)

    ConversationMerge  --used by-->  CopilotChat     (MCCopilotChat)

    ConsoleApi  <--extends--  TaskDomain, AccessControl, EmployeeDomain,
                              WorkflowDomain, OrchestrationDomain, WorkflowCanvas,
                              ModelDomain, ProviderConnect, SkillDomain,
                              ChannelDomain, KnowledgeDomain, MemoryDomain,
                              CopilotComposer, CopilotSessions, CopilotApprovals,
                              CopilotStream, CopilotMedia, HomeAggregate,
                              ContextDrawer                       (MCConsole)
    SpreadsheetDelivery, DeckDelivery                             (MCConsole)

    GovernanceProofs, PageProofs  --instances in-->  ConsoleProofs  <--extends--  MCConsole
    CopilotChat  <--extends--  CopilotChatProofs

The arrows from `DurableCollection` are assumptions on a restart, not `INSTANCE`s:
`ActionAuthorization` restarts from a quiet store, which by `QuietHasRows` and
`SoloSnapshotConverges` holds what memory held, and `CopilotTurn` restarts
from any snapshot it ever took, which allows every order of the goroutines of
`DurableCollection`. The four modules of the server and
`CopilotChat` have their proofs in `<module>Proofs`. `GovernanceProofs` has those of access,
workflows, knowledge, skills, tasks and employees, the domains where somebody decides what
takes effect; `PageProofs` has those of the pages and tools that show and report it: composer,
decisions, media, provider form, canvas, workbooks, decks and sessions. `ConsoleProofs` adds
memory, channels, models and orchestration, puts all 21 domains side by side (`ConsoleSpec`)
and states the properties of them; `MCConsole` extends it with the two questions only the
run answers, so that the run and the theorems speak of one specification and the same formulas.
`PROJECT.json` maps the definitions to the lines they stand for; a helper whose lines lie
within those of another definition of its module has no row of its own.

### DurableCollection and DocLife

One collection. A document is an id with a version, the number of times a
handler wrote it; contents are left out.

| State | Code |
|---|---|
| `live`, `obj` | the collection in `Store`, the maps in it |
| `rows` | `platform.kv_documents`, or the kernel table of the collection |
| `job[j]` | one goroutine of `PersistCollection`: snapshot left to write and the document already marshalled |
| `pc`, `arg` | a handler between `Unlock` and its answer |
| `purge` | goroutines of `PersistDelete` |
| `made` | documents made under an id so far: `minted` have one, `twice` more than one |
| `handed`, `clashed` | `Store.ID`: ids handed out since the restart, and those that a document in memory had |
| `removed`, `clean` | history: deletions answered; whether the last goroutine ran alone |

`Create`, `Update` and `Remove` end where the handler releases the lock. `Named` says
who names a new document: the request, as `createSession` and `touchSessionLocked` let
it, or `Store.ID`. Either id is compared with the documents in memory only, so that
another document may be made under the id of one that was deleted, while its row or a
goroutine may still hold it. The versions of two documents of one id are not told apart.
`Persist` is the snapshot, which may come after other handlers ran. `Marshal`
and `Upsert` are separate because a snapshot that shares the live maps reads
them when it marshals. `UpsertFails` ends the goroutine with the rest unwritten.
`DeleteSync` and `DeleteAsync` are `PersistDeleteSync` and `PersistDelete`.
`Restart` is the end of the process at any point followed by `HydrateFrom`.

`DocLife` says what this promises about one document whatever the goroutines
do: unborn, alive, leaving, gone. Only a restart brings a leaving document back, and
nothing brings back one that is gone. That a request makes another document under an id
that is not in memory is an edge of its own, which counts the documents of the id: the
other edges keep the count.

### ActionAuthorization

Actions, the decision on each, and executors that run approved ones.

| State | Code |
|---|---|
| `status`, `req` | `action.status`, `authorizationRequest.status` |
| `decided` | `decidedById` |
| `step[a]` | the plan of `buildSkillTurnPlan`: some writes and one run |
| `typed` | whether `deps` is still the `[]string` of the process that planned it |
| `nextRun` | `nextRunCommand` present |
| `open` | the session is writable and in execute mode |
| `taskDone` | the linked task was completed by the execution |
| `ex[e]` | an `executeAction` request: its action, its point, its step, its last outcome |
| `overlapped`, `wins` | history: executions that overlapped; successes per step |

`Queue`, `approveActionSingle`, `rejectAction` and `PatchSession` are handlers.
`executeAction` is cut where it releases and takes the lock: `Begin`/`Refuse`
(first locked section with the preparation of `continueRun`), `Pick`, `RunStep`,
`Retry`, `Call` (unlocked), `FinishFailed`/`FinishSucceeded` (last locked
section, which reads no status again). A tool is a choice of outcome.

### CopilotTurn

One conversation. A request carries a `clientMsgId` and is its own correlation id.

| State | Code |
|---|---|
| `messages` | `Store.Messages` of the conversation: question, acknowledgement, answer |
| `snapshots` | what the table of messages may hold |
| `memo` | `streamIdempot` and `Store.CopilotIdempotency` |
| `turn` | `copilotTurnStates` |
| `pc`, `found`, `replied` | where the handler stands, what it read, what it replayed |
| `early`, `sharing`, `mixing`, `blank` | history: cancelled in time; message carried twice at once; turns that ran beside others; answers without a text to store |

`copilotStream` is cut at each lock and each access to a `sync.Map`: a record is
loaded and stored in two steps both at registration and at the end. `Cancel`
may come at any point, before the request included. The model is one step that
answers or fails. `CommitNothing` is the reply in segments or steps of which nothing is left
once markup is stripped and segments are trimmed: no message is stored, and the turn
is finished as done all the same.

### SpecialistPanel

Turns of several conversations, each with the specialists it picked.

| State | Code |
|---|---|
| `phase` | `runMultiAgentTurn`: contexts, dispatch, merge |
| `built`, `reports` | contexts built; `participantMemoryBudgetReports`, shared by all turns |
| `task`, `sem` | the goroutines of `Engine.Run` and its semaphore |
| `ended` | the context of the turn is over (cancelled or timed out) |
| `result`, `shown` | results; the memory reports sent with the turn |

`TakeSlot` and `GiveUp` are the two cases of the `select`; `Invoke`, `UseTools`,
`AskModel` and `Panic` are `safeInvoke` around the specialist's turn; `Leave` is
the deferred release; `Collect` is `wg.Wait`; `Merge` takes every report there is.

### MCServerLive

The four server modules side by side with the fairness each states. They share no
variable, so that their disjoint sum (`which`) checks each as if alone. `Blocked`
holds an action whose tool may not run, which is the case `Refuse` is for.

### CopilotChat and ConversationMerge

One tab and one conversation. `turns` are numbered; `typing`, `abort`, `corr` and the
timer exist once for the page, as in `useChat.ts`. `ConversationMerge` is the pure part:
which messages of the server's conversation and of the page are one, whose content
wins and in which order they are shown. Each of the page's reducers and each handler
that waits is an action; the server is what the page can see of it.

### ConsoleApi and the domains of the console

`ConsoleApi` has what all pages share: requests under way (`net`), their arrival in any
order, the gate of roles, the audit log. A domain gives `db` its tables, one operator
for the buttons its page offers (with the guard of the page) and one action per route
(with the guard of the route, which is another one).

| Module | Code | State (`db`) |
|---|---|---|
| `TaskDomain` | `Tasks.tsx`, its routes | tasks with stage, status and approval |
| `AccessControl` | `ZeroTrust.tsx` | grants, reviews, policies, workspaces |
| `EmployeeDomain` | `DigitalEmployees.tsx` | employees, releases, configuration versions, open forms |
| `WorkflowDomain` | `Workflows.tsx` | shared draft, versions, runs, retries |
| `OrchestrationDomain` | `Workflows.tsx` | sessions, candidates, applied generations |
| `WorkflowCanvas` | `Workflows.tsx` | canvas, undo stack, baseline, fetched versions |
| `ModelDomain`, `ProviderConnect` | `Models.tsx` | providers, policies, versions; the dialog's drafts |
| `SkillDomain` | `Skills.tsx` | installed skills as a list, integrations, bindings |
| `ChannelDomain` | `Channels.tsx` | deployments, policy versions, deliveries |
| `KnowledgeDomain` | `Knowledge.tsx` | documents, packages, bindings, timers |
| `MemoryDomain` | `Memory.tsx` | records, candidates, signatures |
| `CopilotComposer` | `Copilot.tsx` | draft, mode shown and granted, tools, files |
| `CopilotSessions` | `Copilot.tsx`, `useChat.ts` | list, tombstones, address, open session per workspace |
| `CopilotApprovals` | `Copilot.tsx`, `useChat.ts`, `server/authorization.go` | the action, a copy of its message per page |
| `CopilotStream` | `useChat.ts` | router, thoughts, stand-in, list |
| `CopilotMedia` | `composer-media.ts` | captures, the mark of the page |
| `HomeAggregate` | `home-live-aggregate.ts` | tasks, employees, acknowledgements |
| `ContextDrawer` | `Copilot.tsx`, `expert-context.ts` | selection, saved selections, messages |
| `SpreadsheetDelivery` | `spreadsheet_cli.mjs` | files and processes (`disk`, `procs`) |
| `DeckDelivery` | `pptx_cli.mjs` and its `lib/` | files and processes |

In `CopilotSessions` and `ContextDrawer` the effects of one render are one step: React
runs them together, each with the values of that render, before the next event. In the
two delivery modules every access to a shared file is a step, because another process
or the end of this one may come between any two.

## The runs

State counts are of distinct states.

| Run | Instance | What is checked |
|---|---|---|
| `durable_safe` (1.2 M) | 2 ids that requests may name, 2 documents under each, 1 handler, 2 goroutines, 2 versions, 1 refusal, 1 restart, copied snapshots | `TypeOK`, `QuietHasRows` (at rest, no document without a row), `SoloSnapshotConverges` (one quiet write repairs the table), `ImplementsDocLife` |
| `durable_removed` | 1 document, 2 handlers, 2 goroutines | violated: `RemovedStaysRemoved` |
| `durable_ids` | 1 id that `Store.ID` hands out, 1 restart | violated: `IdsNameOneDocument` |
| `action_injected` (2.6 M) | a plan of two writes and a run beside a call without a plan, 2 executors, 1 restart | `StatusesAgree`, `OnlyApprovedRuns`, `StepSucceedsOnce`, `RunFollowsWrites`, `TaskDoneAgrees`, `DecisionIsFinal` |
| `action_deps` | one plan of a write and a run, 1 restart | violated: `WritesThenRun` |
| `turn_safe` (1.9 M) | 3 requests, two of one message, 1 restart | `AnsweredOnce`, `CancelledStoresNothing`, `ReplayIsOwn`, `DoneHasAnswer` |
| `turn_retry` | 2 requests of one message | violated: `OneAnswerPerMessage` |
| `panel_reports` | 2 turns with one specialist | violated: `ReportsReachTheirTurn` |
| `server_live` | 2 documents, 2 handlers and 2 goroutines; a write whose plan grows a run and a call whose tool may not run, 2 executors; 2 requests of one acknowledged message with 1 restart; a panel of 4 over 2 slots | `EventuallyStored`, `ExecutionsEnd`, `TurnsSettle`, `EveryPanelEnds`; for the panel `BoundedPanel`, `QuietAfterMerge`, `SuccessBeforeEnd`; `TypeOK` |
| `chat` | 1 conversation, 2 turns, 2 texts, 1 poll, 1 fault | `TypeOK`, `UniqueIds`, `AbortedNeverStreams`, `HydrateKeepsUserBubbles` |
| `chat_reload` | 1 turn, 1 reload | violated: `ReloadedTurnSettles` |
| `console` (1.6 M) | the 21 domains, see below | `TypeOK`, `ApprovedBeforeEffect`, `ClearedBeforeUse`, `ShownAsIs`, `RecordsAgree`, `DerivedAgrees`, `Audited`, `DutiesSeparated`, `AppliedOnce`, `PublishedStays`, `SettledStays`: each asks one question of every domain it concerns |

**Bounds.** `MaxVersion`, `MaxMade`, `MaxFaults` and `MaxCrashes` bound writes of one
document, documents of one id, refused statements and restarts; `MaxRestarts` bounds restarts of the
other modules. Two goroutines are the least that overlap, two versions the least
with which a late goroutine writes something older, one restart the least that
loses what the process kept. Two executors are the least that share a plan, two
writes the least of which one can have failed while the other succeeded. Three
requests are the least with which a repeated message and a foreign one
interleave, and three specialists over two slots the least with one waiting. The
theorems below remove the bounds for the properties they name.

In `console`, `MaxRequests` is 3 and `MaxInFlight` 2: a request, one that overtakes it
and one that follows; channels (`ChannelRequests`) and memory (`MemoryRequests`) take 4 and
approvals 5, whose chains are longer. `MemoryRows`, 6, bounds the memories and the candidates
of self-evolution that the pages add to the seeded ones.
Requests start from seeded tables that hold a row of each status, so that three of them
reach what a fresh table would need many for. `Actors` are an administrator, a
user and an auditor of `mock.ts`; the domains with fewer have at least two people wherever
duties are separated. Deliveries have two processes that run
three commands, one of which delivers at a time (`Deliverers`): a candidate, one that
replaces it and the delivery of either. A stream has `MaxEvents` 4 before its end and
`MaxThoughts` 2, a page `MaxCaptures` 3, home `Buckets` 2 of its 24 hours, a drawer
`MaxActs` 5 over four messages of two sessions. In `chat`, two turns are the least of
which one is answered again while the other runs.

**What the console's properties say of each domain.**

| Property | Domains and what they promise |
|---|---|
| `ApprovedBeforeEffect` | a controlled task runs after its approval; an employee serves under a release; a run that writes was governed; a routing or delivery version was checked; a skill was cleared, unless it was imported or created here; who is bound to the current version of a package keeps one that was published |
| `ClearedBeforeUse` | a writing tool leaves only in the execution mode; what a page offers to execute was authorized; a deliverable passed its audit |
| `RecordsAgree` | stage and status of a task; an adoption and its employee; a policy in force and its newest version; a memory and its one candidate; a retry and its run; documents and packages |
| `ShownAsIs` | undo stack and canvas; form and what the server accepts; shown and executed; pages drawn and file delivered; marks and devices; conversations deleted and conversations listed |
| `DerivedAgrees` | a session and its candidate; uploads and chips, models offered and the one that is sent; open session, address and list; figures of both pages; text shown and text heard; drawer and session |
| `Audited` | every change of a task is in the log |
| `DutiesSeparated` | who approves a grant, a release or a memory is not who asked; the baseline policies hold |
| `AppliedOnce` | a generation is applied, a dead letter delivered and a memory evolved once |
| `PublishedStays` | a published workflow version keeps its graph whatever request reaches it, in the tables and on the canvas; replacing a workbook never loses the candidate |
| `SettledStays` | an integration that waits for approval goes on waiting unless it is amended itself; a list takes no session away that is in use |

`HydrateKeepsUserBubbles` of the chat says that, after the server's conversation is poured
in, for each question that was shown one is left that asks what was asked under its name,
here or at the server. That the question's own text stays would be too much: a question that was edited
keeps its key, an older text of the server's wins under that key, and `collapseDuplicateTurns`
may drop the turn when a later one asks the same. With two turns this does not happen; the
attempt to prove the stronger form found the case, and TLC shows it with four turns and three
texts.

**Deadlock** is not checked: every one of these systems comes to rest once its
bounded requests are served.

**Symmetry** is used for executors, write steps, documents and the two requests of
one message, in safety runs only; `FirstWrite`, a `CHOOSE`, is not used by the
shapes of the runs that permute writes.

**What the conditions inside properties mean.** They mark what the code does not
promise, and each is a history variable the reader can look for:
`StepSucceedsOnce` and `TaskDoneAgrees` say nothing of executions that
overlapped, because nothing in the code keeps two requests from executing one
approved action; `TaskDoneAgrees` and `RunFollowsWrites` say nothing of a plan
that was read back (`action_deps` shows why); `AnsweredOnce` says nothing of a
message two requests carried at once (`turn_retry`), nor, after a restart, of
turns that ran beside others, whose answers the search does not find;
`QuietHasRows` and `SoloSnapshotConverges` say nothing of an id that two documents
had, be it because a request named it again or because the counter started again
(`durable_ids`); `DoneHasAnswer` says nothing of an answer that had no text.
`BindingsKept` (in `ApprovedBeforeEffect`) speaks of bindings that name no version, since
a version that the request names is stored as it is; `InstalledCleared` (there too) excepts
skills that were imported or created, for which the server asks no review; `ApprovalAwaited`
(in `SettledStays`) excepts an integration whose own row was amended, by the one route that
takes any status. Each exception is a mark that only that route sets (`lock`, `origin`,
an `amend` in the log), so that no other route profits from it.

## Fairness

Safety runs assume none. The live specifications assume weak fairness of
what is already running and never of a request, a cancellation or a restart:

- `DurableCollection!LiveSpec`: the goroutines, the rest of a handler and the
  DELETEs. The Go scheduler runs them all, and a statement returns or fails.
- `ActionAuthorization!LiveSpec`: the executors. A tool call has a timeout.
  `ExecutionsEnd` further assumes that requests stop at some point: the loop of
  one execution has no bound of its own, and `continueRun` requests that
  come for ever may feed it for ever.
- `CopilotTurn!LiveSpec`: a request being served. The model has a timeout
  (`copilotStreamTimeout`) and no step waits for another request.
- `CopilotChat!FairSpec`: the page's effects and the server's turn, which ends by its
  own timeout; never the user.
- `SpecialistPanel!LiveSpec`: the turn and each specialist. The model's stream has a
  timeout of its own. Who gets a free slot is left open: each specialist takes
  one at most once, so weak fairness is enough.

## The proofs

About 17800 obligations, for every value of the constants.

| Module | Theorems | Assumptions on constants |
|---|---|---|
| `DurableCollectionProofs` | `TypeCorrect`, `QuietHasRowsAlways`, `Refinement`, `SoloSnapshotsConverge` | `BoundsAssumption` |
| `ActionAuthorizationProofs` | `TypeCorrect`, `StatusesAlwaysAgree`, `OnlyApprovedActionsRun`, `DecisionsAreFinal`, `StepsSucceedOnce`, `RunsFollowWrites`, `DoneTasksRest` | `ConstantsAssumption` |
| `CopilotTurnProofs` | `TypeCorrect`, `CancelledTurnsStoreNothing`, `ReplaysAreOwn`, `DoneTurnsHaveAnswers`, `MessagesAnsweredOnce` | `TurnAssumption` |
| `SpecialistPanelProofs` | `TypeCorrect`, `PanelIsBounded`, `MergeFindsPanelQuiet`, `NoSuccessAfterEnd` | `PanelAssumption` |
| `GovernanceProofs` | `AccessTypeCorrect`, `DutiesStaySeparated`, `BaselineAlwaysHolds`; `WorkflowsStayGoverned`; `KnowledgeStaysBound`; `SkillsStayCleared`, `ApprovalsAreAwaited`; `TasksStayControlled`; `EmployeesAreTyped`, `ServesOnlyUnderRelease`, `ReleaseAlwaysCountersigned`, `RecordsAlwaysMirror` | `ActorsAssumption`, `BoundsAssumption`, `StaffAccounts` |
| `PageProofs` | `TurnsLeaveCleared`, `DecisionsAreShown`, `CapturesAreReleased`, `FormsAreAccepted`, `CanvasIsFollowed`, `WorkbooksAreAsReported`, `DecksAreAsSealed`, `SessionsInUseStay` | `ActorsAssumption`, `BoundsAssumption`, `SomeHistory`, `CountedCaptures`, `OneDeliverer` |
| `ConsoleProofs` | `MemorySigned`, `MemoriesWaitOnce`; `ChannelsReplayOnce`, `ChannelsStayChecked`; `OrchAppliesOnce`; `RoutesStayChecked`; of the 21 domains together `AlwaysAudited`, `DutiesAlwaysSeparated`, `AlwaysAppliedOnce`, `AlwaysApproved`, `RecordsAlwaysAgree`, `AlwaysCleared`, `AlwaysShownAsIs`, `PublishedAlwaysStays`, `SettledAlwaysStays` | `ActorsAssumption`, `BoundsAssumption`, `PagesAssumption` |
| `CopilotChatProofs` | `ChatIsTyped`, `IdsStayUnique`, `AbortedStreamsSettle`, `HydrateKeepsQuestions` | `ChatAssumption` |

`PagesAssumption` is what the assumptions of `PageProofs` say of the constants of the
console: an undo stack holds something, captures are counted, and one process delivers, the only
case in which the tools promise anything. `StaffAccounts` says that who asks is an account.

Each component has an invariant `IInv`, one lemma per action or group of actions
that preserves it, and theorems that follow from it.

- **Durable collection.** `QuietHasRows` is not inductive: it says nothing while a
  goroutine runs. `NotForgotten` says where the row of a live document will come
  from (it is there, or a goroutine still holds the document, or the handler
  has yet to take its snapshot). It needs `DeletingGone` (a document whose
  DELETE is pending is out of memory, or shares its id) and the bookkeeping
  `WritingKnown`, `TodoKnown`, `LiveKnown`, `RowsKnown` (only minted documents appear
  anywhere). `Refinement` maps each step to an edge of `DocLife` or to a stutter;
  that a row never appears for a document that left no trace is `TodoKnown`
  and `WritingKnown` at the INSERT; that an id has another document only by `Create` is the
  count, which every other step keeps. For `SoloSnapshotConverges`, `Converging` says that while
  nothing overlapped and no snapshot is due, no goroutine holds an older version of
  a document than memory, and each document is stored or held: a snapshot taken
  alone makes it so, and a change to memory leaves a snapshot due.
- **Actions.** The tail of an execution writes the status without reading it, so
  that a decision is final only if nobody holds a rejected action. `HeldApproved`
  says that an action under execution is approved or executed; that it stays so
  needs `StatusesAgree` (otherwise the guard of a decision, which accepts either
  status, would open again) and `Entitled` (who decided it could).
  `Untouched` says that an undecided or rejected action has no step that ran, and
  `NotExecuted` that a blocked one is never held nor executed, so that `Refuse`, which
  writes one of the two statuses only, finds it approved and leaves them equal.
- **Executions** (on top of the one before). `Orderly`
  speaks of one action at a time: a step is about one action and `Elsewhere` covers
  the others. Whatever overlaps, a write marked successful succeeded, and a run is
  picked only behind such marks. While one executor has the action (`Alone`), the
  step it is at is still pending (`Undisturbed`), a step that succeeded once still
  says so (`WonOnce`), and an action whose task is completed is executed with
  nothing left and without the command that `continueRun` would need (`DoneRests`).
- **Turns.** `BodyPlace` says where a request with a stored answer can stand, in
  memory and in every snapshot a restart may read; `Settled` and `DoneStored` tie the
  record to it, `EarlyCancelled` says that a cancellation in time is still in the
  record and that the request stands at no step that would overwrite it or store an
  answer, and `OwnMemory` that what is
  remembered or found for a message was said for it. `BlankSilent` says that a turn that stored no text still has none, which
  sets it apart from those whose answer was lost. The search of the
  messages needs a least element (`Least`, by the well-foundedness of the naturals)
  and `ScanOwn`.
- **Answers** (on top of the one before). A message that is
  answered is remembered or found before the model runs for it again: in memory
  until the first restart (`Remembered`), and after one by the search in every
  snapshot the restart may have read (`AnswersFindable`); `Overlaps` says that turns
  which run at once are counted as such.
  `Unanswered` says that a request on its way to the model has no answer yet, and
  `QuestionLast` that a turn which ran beside no other finds its question last.
- **Panel.** `Counted` says that the semaphore counts the specialists at work. Each step
  of a goroutine changes that set by one element at most (`MoveBusy`, from the
  cardinality theorems), so that whatever path a specialist takes, panic included,
  the count is kept. `Dispatched`, `HasResult` and `Rested` give the merge.
- **Tasks of the console.** `RunsAfterApproval` speaks of tasks that run; the
  route that lets a task run looks at its approval. `ApprovedIsLogged` joins the two: where
  the approval says approved, an administrator's event is in the log. A
  decision must not mark a task that needs none as approved, since the route of decisions
  does not look: `AskedToDecide` says that a decision under way names a task that
  needs one, which stays true because tasks stay and never come to need an
  approval or cease to (`RequiredKept`). What is proved holds for any accounts
  and any number of requests under way; the version the page saw is
  never used. `TasksAudited` counts the events of a task with `SelectSeq`; what the
  library says of `SelectSeq` and `Append` is enough, since the log only grows at its end.
- **Access.** The handlers look at who asks and never at the log, the properties at the
  log: `DecisionsLogged` and `OwnGrantKept` say of each event that it names a row and was
  not done by the one it concerns, `DecidedIsLogged` that a release is not decided
  without an event. They would fail if a submitted release took the name of one that was
  decided: `SubmittedOnce` says that a release under way has no row and one request.
- **Employees.** `Sound` says of a row that it serves under a release only. That a
  withdrawn release is not revived by a request under way relates two events of the log
  (`NoneRevived`); it follows from `TakenBackStays`, which says where the employee stands
  between them: not released, or asked for again.
- **Self-evolution.** `Signed` says of a candidate which signatures its status stands for,
  and that its effects are counted once; the routes of both signatures look at the
  status alone. **Memories that wait** (`Waiting`): the refinement proposes sets
  of memories, some of which wait already; the candidates it adds are as many as the
  memories that do not, each once (`SetAsSeq`).
- **Deliveries.** A dead letter that was delivered again is no dead letter (`Tried`),
  whatever other attempts are added. **Delivery policies**: the check of a policy looks at
  deployments that may go before it is published. `Policy` says that the deployments
  of a version were of the right kind when they were there, and a name keeps its kind for
  good (`Lasting`), which needs `ConnectedOnce`: a name that is being connected has no row,
  never had one and is asked for once. **Routing policies** (`Routes`): a policy that is
  ready is still as it was validated, since every edit makes it a draft again.
- **Orchestration.** That two applications of one session have a generation between them
  is a statement about the log. `ApplyRests` says where the session stands after the first:
  at rest, or generated for again (`Reopened`); a generation that is applied is spent for
  good.
- **Workflows.** `WorkflowData` says of every version published since the start that its
  graph is governed, of every run that its parent failed with its graph; the draft that a
  request saves or publishes is judged when it arrives, not when the editor checked
  it. `WorkflowKept` gives `PublishedStays`.
- **Knowledge.** Documents name packages and packages list documents (`DocsListed`,
  `PackagesGood`), and a binding names a package, and where the server chose
  the version, one that went on line (`BindingsGood`). A new package would break the first if it took the name of one
  that has documents: `PackageOnce`, as for access and channels. An index timer writes only
  the documents that are still there.
- **Skills.** What is installed is a list that removals shorten and several routes extend;
  `ListCleared` says that every name on it is of a row that is cleared or came in where
  nobody is asked (`Vouched`), and every route that writes a row of the table or puts a name
  on the list keeps it so; an upgrade or a change of lifecycle keeps where the row came from.
- **Integrations.** The test of an integration and its discovery write a status without a look
  at the one that is there. `ApprovalInv` says of what waits for an approval, and is not in the log as
  amended (`Amended`), that it is in production, asks for one and stands for no skill: the discovery then writes the waiting status again,
  and the test, which fails an integration whose skill is gone, cannot fail it. A route that
  brings a skill in writes a row under a name no integration has.
- **Composer.** What leaves with a turn was read when Enter was pressed, and the turn may
  wait for the answer to a change of mode meanwhile; `ComposerInv` says of a turn in a request that
  it was composed well, which nothing that happens later can change.
- **Decisions.** A page's copy of a message may be older than the action, and a handler that
  waited puts its own copy back. `DecisionInv` says of every copy, on a page or in a handler, that what it shows as
  authorized or executed had happened, which stays true since neither is ever undone.
- **Media** (`MediaInv`): a mark is taken back where the device is released or was never held.
  **Provider form** (`ConnectDialog`): a draft of each protocol is one its route takes or
  is not sendable. **Canvas** (`CanvasInv`): the stack ends with the canvas,
  and a version that was fetched keeps the graph it was published with.
- **Workbooks and decks** (`SheetInv`, `DeckInv`): what a process knows at each point of its
  program of the files: as long as one process delivers, a file it wrote or audited is the one it goes on
  to name in its report, whichever command is killed and whatever the others draw.
- **Sessions.** Five effects run after each render, each with the values of that render, and set one another
  off. `SessionInv` says that the open session is listed, and, unless the workspace has just been
  left, belongs to it, that no session with a tombstone is listed, and that between two steps nothing
  is due; it is
  shown of one pass of the effects first (`PassKeeps`) and then of the passes a step takes
  (`SettledKeeps`). What a list leaves is computed by a filter: `Kept` is a recursive function of the length,
  and `KeptIs` says which names it leaves, by the least length at which it would not (`Climb`).
- **Conversation.** `IInv` of the chat joins `TypeOK` with what the list (`Sound`) and the conversations of
  the server (`ServerSound`) are: ids are unique, a turn's question comes under its key; and with
  what is under way (`Underway`): a reply that streams has its
  stream, its abort and its timer. The merge is a fold over the messages. It is unfolded step by step
  (`Iterates`): what a step puts into the result (`Puts`), under which keys (`KeysIn`) and what it
  was told (`Told`) hold at every length if they hold at the next one. The model binds the result of a merge to a
  name before it is used (`PutNext`), so that TLC computes it once; it is the
  same merge.
- **The domains side by side.** `GovernedInv` and `PagesInv` are each domain's invariant in the behaviours
  about it; the theorems of `ConsoleSpec` say of the
  formulas the `console` run checks that they hold whatever the bounds. The accounts of each domain
  are those its pages are open to (`Assumed`).

Only model-checked:

- the liveness properties (`EventuallyStored`, `ExecutionsEnd`, `TurnsSettle`,
  `EveryPanelEnds`), which the provers cannot do;
- in `console`, `TypeOK`, which speaks of all 21 domains and is part of the
  invariants of most of them, and `DerivedAgrees`: its parts count, add and filter (the figures of two pages, the
  rounds after which effects come to rest, what a stream's segments fold into), and each would
  take an induction over its data.

Worth proving next: `CompletedAsHeard` of the stream, for which the lemmas about folds of the
chat are a start, `SessionPointsRight` of orchestration and `UploadsUnderWay` of the composer.

## Divergences

Shown by a run (`findings` in `PROJECT.json`):

- `durable_removed`: a goroutine started before a removal writes the row back after
  `PersistDeleteSync` deleted it; the next start reads it.
- `durable_ids`: `HydrateFrom` moves the counter past the ids of skills and memory
  audits only. After a restart, the counter hands out an id of a session that was read
  back, and the creation is answered with that session. Ids of actions, messages and
  tasks are exposed to the same.
- `action_deps`: `deps` read back from JSON is a `[]any`, which `stepDepsSatisfied`
  takes for no dependency: the run no longer waits for a write that failed.
- `turn_retry`: a repeated `clientMsgId` runs the model a second time while the first
  turn still runs.
- `panel_reports`: one turn takes the memory budget report of another.
- `chat_reload`: a page that is loaded again while a reply streams learns that the turn
  is done, and shows the reply as in flight for ever.

Met while reading, without a run of their own:

- `src/backend/README.md:421` says that a closed or handed-over session refuses
  writes. `copilotStream` checks the session under a read lock
  (`server/handlers_c.go:534`) and appends the user message under a later lock
  (line 683) without looking again; the answer is appended without a look at all.
- A turn refused by policy or budget, or answered by a replay, leaves its record
  running (`handlers_c.go:545`); that is why `TurnsSettle` starts at the user message.
- `finishCopilotTurn` loads and stores in two steps (`copilot_turn_state.go:71`): a
  cancellation in between is overwritten. The test in
  `copilot_turn_state_test.go:18` asks that it is kept, one call after another.
- A reply in segments or steps whose text is markup only stores no message
  (`copilot_react.go:292`), and its turn still ends as done (`handlers_c.go:1074`).
- An acknowledgement stored before the model ran is replayed as the whole answer of
  a turn that failed (`copilot_ratelimit.go:166`).
- `skillTurnHasPending` (`skill_turn.go:309`) does not count a pending run whose
  dependency failed, so that an action may be executed with a step left.
- `copilot_multi.go:464` compares 15 characters with a prefix of 16: the panic event is
  never sent. Line 452 drops the tool calls that the comment at 337 says are kept.
  The comment at 299 says that a client that disconnects cancels the panel, whose context
  is `context.Background()` (`handlers_c.go:815`). Line 309 reads the length of a map without
  its lock.
- `agentos/subagent.go:53` says that the metric is called for every task; a task that gives
  up while it waits for a slot returns before it (91–98).
- `pmsop/pmsop.go:243` says that `Apply` is pure; it writes through a pointer into the
  stages of its input.

### The console and the Copilot page

Met while the modules were written; each is what the module does, since it is what the
code does, and the properties are stated around it.

- *Tasks* (`mock.ts`): the version a page sends is not looked at; an approval can be decided
  again; a retry goes past the approval.
- *Access*: an account keeps its role whatever becomes of its grant; extending a revoked
  grant makes it active; a release is decided whatever its status; a workspace with active
  bindings cannot be frozen except by force, which no page offers, but a frozen one can be bound.
- *Employees*: the comment of the release type says that the approver differs from who
  asked, and an administrator's own release names him twice; a release to the sandbox
  followed by a configuration for production needs no approval; the contract form writes
  back the execution modes it was opened with; the route that approves a configuration
  version is never called; the error at `mock.ts:3651` says that an administrator has to confirm a
  release, and the route lets any other user do so.
- *Workflows*: saving over a published version throws after the shared draft was
  overwritten (4411–4424); publishing takes the server's shared draft and not the graph
  the editor validated (4539). The canvas takes its clean baseline before the server
  answers; a validation that arrives after edits leaves a passed preflight; a refetch
  after `createTemplateDraft` opens another version than the one on the canvas.
- *Orchestration*: generating after applying or discarding opens the session again; a failed
  run can be retried many times at once; publishing a skill again as high risk makes
  it a draft while bindings stay.
- *Models*: publishing does not validate again; validating a published policy takes it out of
  service silently; the test of a disabled provider says healthy; a late answer of
  a test fills in the models of another protocol and remembers the key after submission.
- *Channels*: a deployment deleted between validation and publication leaves a version that
  names it (5774); a delivery uses a disabled primary (5788).
- *Knowledge*: attaching a document elsewhere leaves it in the list of the package it was in;
  processing a published, bound package takes it to review for good; reindexing turns published
  documents to ready; deleting documents can empty a published package; a binding may name any
  version (4991), while the comment at 4835 says that who is bound locks the published one.
- *Skills*: removing a skill looks a copy up in the list (`indexOf` gives -1) and takes the last
  skill out instead (5270–5276); the import (5181) and the creation (5172) put a high-risk skill into the
  workspace with neither ticket nor review; the lifecycle of an integration (5050) takes whatever the
  request says, so that one that waits for its approval may be enabled, or its guard taken off;
  installing one entry twice makes two skills; a pause of many turns quarantined ones into paused ones.
- *Memory*: rejecting a knowledge candidate revives a record that was revoked or had
  expired (3218); approving again makes a second package; an evolved candidate can still
  be rejected; refinement writes long-term memories without the approval of the policy.
- *Conversation* (`useChat.ts`): `typing`, `abort`, `corr` and the timer are one for all turns; a failed
  send leaves the pending turn and blocks until Retry; `replaceAndSend` keeps the
  `clientMsgId`, so that the server replays the old answer; a late status answer turns
  `typing` on after a clear; a list read before a deletion brings the session back once its
  tombstone is gone; `/clear` clears nothing.
- *Stream*: segments of one reply share a `clientMsgId`, so that a second segment takes the
  first one's place in the list until its next event, and thoughts appended meanwhile are
  lost there, against the comment of `copilot-segment-router.ts:22`; text of an artifact folded into
  the host is gone at completion until the conversation is fetched; a thought appended alone
  is taken back by the next write of the stand-in.
- *Composer*: two presses of Enter while the mode is being granted send twice; draft and
  files stay on a switch of session; a tool named with @ under a plan, toggled, sets the
  session to execution while the page still shows a plan; slash commands send with whatever tools are on.
- *Media*: nobody calls `recorder.stop`: a second press takes the mark back only; an error of
  the recorder leaves the microphone on; there is one mark for two devices.
- *Sessions*: a link to an expert can be lost on the first load; a refused deletion keeps its
  tombstone; the list of an inactive workspace, read before a deletion, brings the
  session back; the answer to a creation opens a session that was deleted meanwhile, or
  one of another workspace.
- *Decisions*: the dialog's "approve and execute" never executes (`Copilot.tsx:3254`–3268: the handler was
  made before the approval); a handler that waits puts back its copy of the message and
  with it undoes a rating given meanwhile; a rejection is shown though the server refused it;
  a failed execution that names no run cannot be started again, and one without a plan shows as
  executed after a reload; taking a rating back is not sent.
- *Drawer*: switching from a session with a message's drawer to one with a saved one closes the
  restored drawer and erases what was saved, against the comment at `Copilot.tsx:1907`; a
  drawer of a whole session stays open and is saved under the next one; the tab shown may
  be offered no more; the evidence tab counts repeated citations that the list shows once.
- *Home*: an acknowledgement outlives its alert, so that a task in need again shows as
  acknowledged; the two pages' success rates and health scores are different figures; low
  risk counts as risk and is not pending.

### The skills

- *Workbooks*: pages are drawn from the candidate before it is copied and never compared with
  the hash of the deliverable; a final file that cannot be read throws before it is removed;
  whether the deliverable exists is asked once, and a failure after sealing removes
  whatever is there then; recalculation and conversion write their output before the audit.
  On Windows a failed second rename puts an older candidate over a newer one.
- *Decks*: `sealFile` removes the old deliverable before the rename, so that a kill in between loses it;
  a sealed file whose hash differs throws and stays, with a report that says passed;
  a conversion looks once whether its target exists.

## What is not modelled

- Several server collections changed by one handler and written by separate goroutines
  (the store has no transaction across them), the wholesale replacement of a
  collection (`infra/kv.go:94`), a lift into kernel tables that stops half-way (`apprun/run.go:229`),
  the SQLite hook and the peer store.
- The server's own routes of tasks, releases, channels, knowledge, memory and skills. Their rules are
  checked in the console's modules against `mock.ts`, whose handlers have the same names; the server's
  differ in places a model of theirs would have to settle: the release whose status is not looked
  at (`server/handlers_a.go:752`), a task's version that may be left out (`task_domain.go:142`), the inbound list
  that keeps 500 events (`handlers_channel_webhooks.go:190`), a rejection that keeps the first signature
  (`handlers_b.go:236`).
- Actions signed by seats, which have no authorization request.
- What a model says, how a prompt is built, how an answer is cut into segments:
  `CopilotTurn` takes one outcome, `CopilotStream` any order of events.
- How the specialists of a panel are picked and how their answers are merged into text.
- Two unlocked executions write one Go map. The models allow the outcomes of the
  accesses in some order; the Go runtime may also end the process, which then is the
  end of a behaviour, or a restart.
- External services (PostgreSQL, Redis, the channels, Temporal, the Python runtimes),
  except for what a call to them may answer.
- Of the front end: layout, wording, charts, previews, search and grouping, the seeded rows, and
  routes that only read. Of the tools: what is drawn, what XML says, the rules of the audits one by one.
- Smaller omissions, on which no property rests: the owner of a record, who may change it beside
  the administrators (`mock.ts:2947`; memory); the production mode of a workflow's run (4480); the name
  that is compared beside the account when a release is confirmed (3653) and the targets draft and
  testing of that route (3642). A message appended to a session that is not there is dropped by
  `CopilotChat`, where the reducer would throw (`useChat.ts:409`). A handler that panics leaves the record
  of its turn running; `CopilotTurn` has no panics. The one approver of `action_injected` makes no request;
  two of them, and one who asks for himself, are left to the theorems.
- Two deliveries at once: the tools promise nothing of two deliverers of one file.
- Protocol definitions, commands and generated code, which keep no state of the platform.

## The plan

What is left, in this order; each module comes with its runs, then its proofs.

| Module | Question | Composes |
|---|---|---|
| `ChannelInbound` | is a delivered message routed exactly once, under repeats, overlaps and the limit of 500? | an abstract `Delivery` (received, routed once) it is shown to implement where it does |
| `KernelStore` | what may a crash leave of a conversation that is rewritten, a replaced collection or a half-done lift? | takes the place of the table in `DurableCollection` |
| `SessionLife` | does a closed or handed-over session of the server change? | `CopilotTurn`, `ActionAuthorization` |
| `PMSOP` | does the status of a plan follow its tasks? | |
| `Heartbeat` | does every subscription return? | |

Specifications to state: a turn answered at most once (abstract), implemented by
`CopilotTurn` where no two requests share a message; `Delivery` for the channels; a panel
as one step per specialist.

Theorems to prove next are at the end of [the proofs](#the-proofs).
