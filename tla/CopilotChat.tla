---------------------------- MODULE CopilotChat ----------------------------
(***************************************************************************)
(* The chat page of one browser tab against the server: sessions and their *)
(* messages, the streams of the replies, Stop, the time limit, reloading   *)
(* the page, and the two ways a page that lost a stream learns of its end: *)
(* asking for the status of the turn, and merging the conversation the     *)
(* server kept.                                                            *)
(*                                                                         *)
(* A turn is one request for a reply; turns are numbered in the order they *)
(* are made, and the clock is that order.  typing, abort, corr and the     *)
(* timer exist once for the page, not once per turn.  Texts stand for what *)
(* users ask; the answer to a text has that text.  conv, srv and the       *)
(* actions named Server... are the server as far as the page can see it.   *)
(***************************************************************************)
EXTENDS ConversationMerge, FiniteSets

CONSTANTS
    Sessions,   \* the conversations of the page
    Texts,      \* what a user may ask
    MaxTurns,   \* bound: the turns that are ever requested
    MaxAsks,    \* bound: status queries under way at once
    MaxFaults   \* bound: reloads, failed connections, refused turns, deletions

ASSUME ChatAssumption ==
    /\ Sessions # {}
    /\ {MaxTurns, MaxAsks, MaxFaults} \subseteq Nat

Turns == 1..MaxTurns
NoText == "none"
NoSession == "none"

VARIABLES
    tab,     \* the reducer's state
    timer,   \* timeoutRef: the turn it will abort, or 0
    turn,    \* every turn's request as the page holds it
    poll,    \* turnRecoveryRef: the turn it asks for, or 0
    asks,    \* the status answers on their way
    snap,    \* the conversation in the query cache, as it was when fetched
    conv,    \* external: the messages the server keeps for a conversation
    srv,     \* external: the status the server records for a turn
    faults   \* how many faults there were

vars == <<tab, timer, turn, poll, asks, snap, conv, srv, faults>>

UserMsg(t, text) ==
    [id |-> <<"u", t>>, role |-> "user", corr |-> t, key |-> <<"c", t>>, srv |-> NoName,
     text |-> text, stamp |-> 3 * t, status |-> "succeeded"]

ReplyMsg(t) ==
    [id |-> <<"r", t>>, role |-> "assistant", corr |-> t, key |-> <<"p", t>>, srv |-> NoName,
     text |-> NoText, stamp |-> 3 * t + 1, status |-> "streaming"]

(***************************************************************************)
(* The reducer.  A session is absent, live, or a ghost: an object that     *)
(* update_session made of a patch alone, without a list of messages.       *)
(***************************************************************************)
Live(st, s) == st.kind[s] = "live"

AppendMsg(st, s, m) ==
    LET msgs == st.msgs[s]
        same == {i \in DOMAIN msgs : \/ msgs[i].id = m.id
                                     \/ m.key # NoName /\ msgs[i].key = m.key}
    IN  IF ~Live(st, s) THEN st
        ELSE IF same = {} THEN [st EXCEPT !.msgs[s] = Append(@, m)]
        ELSE [st EXCEPT !.msgs[s][CHOOSE i \in same : \A j \in same : i <= j] = m]

\* Mutant: the message is appended whether the list has it or not.
ReplaceMsgAppends(st, s, mid, m) ==
    IF ~Live(st, s) THEN st ELSE [st EXCEPT !.msgs[s] = Append(@, m)]

ReplaceMsg(st, s, mid, m) ==
    IF ~Live(st, s) THEN st
    ELSE IF \E i \in DOMAIN st.msgs[s] : st.msgs[s][i].id = mid
    THEN [st EXCEPT !.msgs[s] =
             [i \in DOMAIN @ |-> IF @[i].id = mid THEN m ELSE @[i]]]
    ELSE [st EXCEPT !.msgs[s] = Append(@, m)]

SetStatus(st, s, mids, status) ==
    IF ~Live(st, s) THEN st
    ELSE [st EXCEPT !.msgs[s] =
             [i \in DOMAIN @ |-> IF @[i].id \in mids THEN [@[i] EXCEPT !.status = status]
                                                     ELSE @[i]]]

Without(msgs, mid) ==
    FoldLeft(LAMBDA left, m : IF m.id = mid THEN left ELSE Append(left, m), <<>>, msgs)

DelMsg(st, s, mid) == [st EXCEPT !.msgs[s] = Without(@, mid)]

\* update_session with a new pendingTurn; an absent session becomes a ghost.
SetPending(st, s, t) ==
    [st EXCEPT !.pending[s] = t, !.kind[s] = IF @ = "absent" THEN "ghost" ELSE @]

\* del_session: the first session left becomes the active one.
DelSession(st, s) ==
    LET left == {x \in Sessions \ {s} : st.kind[x] = "live"}
    IN  [st EXCEPT !.kind[s] = "absent", !.msgs[s] = <<>>, !.pending[s] = 0,
                   !.active = IF @ # s THEN @
                              ELSE IF left = {} THEN NoSession
                              ELSE CHOOSE x \in left : TRUE]

\* sync_session: an empty list never replaces messages the page has.
SyncSession(st, s, msgs) ==
    IF msgs = <<>> THEN st
    ELSE [st EXCEPT !.kind[s] = "live", !.msgs[s] = dedupeConversationMessages(msgs)]

Idle(st) == [st EXCEPT !.typing = FALSE, !.abort = 0]

IdleAndUnbound(st) == [Idle(st) EXCEPT !.corr = 0]

Messages(s) == {tab.msgs[s][i] : i \in DOMAIN tab.msgs[s]}

sessionHasActiveTurn(s) ==
    \/ tab.pending[s] # 0
    \/ \E m \in Messages(s) : isStreaming(m)

-----------------------------------------------------------------------------
Init ==
    /\ tab = [kind |-> [s \in Sessions |-> "live"], msgs |-> [s \in Sessions |-> <<>>],
              pending |-> [s \in Sessions |-> 0],
              active |-> NoSession,
              typing |-> FALSE, abort |-> 0, corr |-> 0]
    /\ timer = 0 /\ poll = 0 /\ asks = {}
    /\ turn = [t \in Turns |-> [sid |-> NoSession, phase |-> "unused", aborted |-> FALSE,
                                skip |-> FALSE, key |-> NoName, text |-> NoText]]
    /\ snap = [s \in Sessions |-> <<>>]
    /\ conv = [s \in Sessions |-> <<>>]
    /\ srv = [t \in Turns |-> "unknown"]
    /\ faults = 0

IsNext(t) == turn[t].phase = "unused" /\ \A x \in 1..(t - 1) : turn[x].phase # "unused"

\* The request of turn t waits for its timer; it takes over the page's one
\* abort controller, correlation id and time limit.
Request(t, s, key, text, skip, st) ==
    /\ turn' = [turn EXCEPT ![t] = [sid |-> s, phase |-> "queued", aborted |-> FALSE,
                                    skip |-> skip, key |-> key, text |-> text]]
    /\ tab' = [st EXCEPT !.corr = t, !.abort = t, !.typing = TRUE]
    /\ timer' = t
    /\ UNCHANGED <<poll, asks, snap, conv, srv, faults>>

send(t, text) ==
    LET s == tab.active
    IN  /\ IsNext(t) /\ s # NoSession /\ Live(tab, s)
        /\ ~tab.typing
        /\ ~sessionHasActiveTurn(s)
        /\ Request(t, s, <<"c", t>>, text, FALSE, AppendMsg(tab, s, UserMsg(t, text)))

\* An edited question keeps its names and cuts off all that followed it.
replaceAndSend(t, i, text) ==
    LET s == tab.active
        asked == tab.msgs[s][i]
        edited == [asked EXCEPT !.text = text, !.corr = t, !.stamp = 3 * t]
    IN  /\ IsNext(t) /\ s # NoSession /\ Live(tab, s)
        /\ i \in DOMAIN tab.msgs[s] /\ asked.role = "user"
        /\ ~tab.typing
        /\ Request(t, s, asked.key, text, FALSE,
                   [tab EXCEPT !.msgs[s] = Append(SubSeq(@, 1, i - 1), edited)])

\* The reply at i is replaced by the placeholder of another one to the same
\* question; neither typing nor a pending turn is looked at, and the page
\* only hides the button while that very reply streams.
regenerate(t, i) ==
    LET s == tab.active
        asked == tab.msgs[s][i - 1]
    IN  /\ IsNext(t) /\ s # NoSession /\ Live(tab, s)
        /\ i \in DOMAIN tab.msgs[s] /\ i > 1
        /\ tab.msgs[s][i].status # "streaming"
        /\ asked.role = "user"
        /\ Request(t, s, asked.key, asked.text, TRUE,
                   [tab EXCEPT !.msgs[s][i] = ReplyMsg(t)])

\* Mutant: the message gets the status of the request log.
CancelledAsLogged(st, t) ==
    Idle(SetStatus(st, turn[t].sid, {<<"r", t>>}, "aborted"))

\* Mutant: the page is idle, the message is left as it was.
CancelledUnmarked(st, t) == Idle(st)

\* The catch of a stream whose controller was aborted.
Cancelled(st, t) ==
    Idle(SetStatus(st, turn[t].sid, {<<"r", t>>}, "cancelled"))

\* What an abort of turn t does: an open stream rejects at once, a request
\* that still waits for its timer only finds its signal aborted later.
Aborting(t) ==
    [turn EXCEPT ![t].aborted = TRUE, ![t].phase = IF @ = "open" THEN "closed" ELSE @]

\* The timer of the request fires: the placeholder and the pending turn are
\* written, then the request is made, which fails at once when aborted.
launchReply(t) ==
    LET s == turn[t].sid
        shown == IF turn[t].skip THEN tab ELSE AppendMsg(tab, s, ReplyMsg(t))
        st == SetPending(shown, s, t)
    IN  /\ turn[t].phase = "queued"
        /\ turn' = [turn EXCEPT ![t].phase = IF turn[t].aborted THEN "closed" ELSE "open"]
        /\ tab' = IF turn[t].aborted THEN Cancelled(st, t) ELSE st
        /\ UNCHANGED <<timer, poll, asks, snap, conv, srv, faults>>

\* Stop aborts the controller of the page (the time limit of a stream that has
\* ended is left out: it finds nothing to abort), then marks what the active session
\* has of the current correlation id: its unfinished messages, or else the
\* first message it finds.  It clears the pending turn of the active session
\* and asks the server to cancel, in the name of the active conversation.
stop ==
    LET t == tab.corr
        s == tab.active
        a == tab.abort
        mine == {m \in Messages(s) : m.corr = t}
        live == {m \in mine : m.status \in {"streaming", "in_flight"}}
        first == {m \in mine : \A x \in mine : m.stamp <= x.stamp}
        idle == Idle(tab)
        marked == IF t = 0 \/ s = NoSession \/ ~Live(tab, s) THEN idle
                  ELSE SetPending(SetStatus(idle, s, {m.id : m \in IF live = {} THEN first ELSE live},
                                            "cancelled"), s, 0)
    IN  /\ tab.typing
        /\ turn' = IF a = 0 THEN turn ELSE Aborting(a)
        /\ timer' = IF timer = a /\ a # 0 /\ turn[a].phase = "open" THEN 0 ELSE timer
        /\ tab' = [(IF a # 0 /\ turn[a].phase = "open" THEN Cancelled(marked, a) ELSE marked)
                      EXCEPT !.corr = 0]
        /\ srv' = IF t # 0 /\ turn[t].sid = s /\ srv[t] = "running"
                  THEN [srv EXCEPT ![t] = "cancelled"] ELSE srv
        /\ UNCHANGED <<poll, asks, snap, conv, faults>>

\* The time limit only aborts.
Timeout ==
    /\ timer # 0 /\ turn[timer].phase \in {"queued", "open"}
    /\ turn' = Aborting(timer)
    /\ tab' = IF turn[timer].phase = "open" THEN Cancelled(tab, timer) ELSE tab
    /\ timer' = 0
    /\ UNCHANGED <<poll, asks, snap, conv, srv, faults>>

-----------------------------------------------------------------------------
\* Events of an open stream.  Those of an aborted one are dropped.
Hears(t) == turn[t].phase = "open" /\ ~turn[t].aborted

Shown(t, status, text) ==
    ReplaceMsg(tab, turn[t].sid, <<"r", t>>,
               [ReplyMsg(t) EXCEPT !.status = status, !.text = text])

\* A delta, or the end of the segment while the turn goes on.
onEvent(t, status) ==
    /\ Hears(t) /\ srv[t] \in {"running", "done"}
    /\ status \in {"streaming", "succeeded"}
    /\ tab' = Shown(t, status, turn[t].text)
    /\ UNCHANGED <<timer, turn, poll, asks, snap, conv, srv, faults>>

\* The reply the server keeps for the question of turn t: that of an earlier
\* turn when the question was answered before.
Kept(t) ==
    LET c == conv[turn[t].sid]
        of == {i \in DOMAIN c : /\ c[i].role = "user" /\ c[i].key = turn[t].key
                                /\ i < Len(c) /\ c[i + 1].role = "assistant"}
    IN  IF of = {} THEN {} ELSE {c[(CHOOSE i \in of : TRUE) + 1]}

\* completeStream: by the done event, or because the stream ended without one
\* (answer is then empty).
Completed(t, answer) ==
    LET text == IF answer = {} THEN NoText ELSE (CHOOSE m \in answer : TRUE).text
        srvId == IF answer = {} THEN <<"local", t>> ELSE (CHOOSE m \in answer : TRUE).id
        final == [ReplyMsg(t) EXCEPT !.status = "succeeded", !.text = text, !.srv = srvId]
    IN  IdleAndUnbound(ReplaceMsg(tab, turn[t].sid, <<"r", t>>, final))

completeStream(t, answer) ==
    /\ tab' = SetPending(Completed(t, answer), turn[t].sid, 0)
    /\ turn' = [turn EXCEPT ![t].phase = "closed"]
    /\ timer' = 0
    /\ UNCHANGED <<poll, asks, snap, conv, srv, faults>>

Done(t) ==
    /\ Hears(t) /\ srv[t] \in {"done", "replayed"}
    /\ completeStream(t, Kept(t))

\* After an error event the connection may be closed before the abort reaches
\* it: the stream then ends as if it had succeeded.
StreamEnds(t) ==
    /\ turn[t].phase = "open" /\ turn[t].aborted
    /\ completeStream(t, {})

\* finishError; the pending turn stays.
Failed(t) == IdleAndUnbound(Shown(t, "failed", NoText))

\* The error event shows the failure, then aborts its own stream.
ErrorEvent(t) ==
    /\ Hears(t) /\ srv[t] \in {"denied", "failed"}
    /\ tab' = Failed(t)
    /\ turn' = [turn EXCEPT ![t].aborted = TRUE]
    /\ timer' = 0
    /\ UNCHANGED <<poll, asks, snap, conv, srv, faults>>

\* The aborted stream rejects: the failure is overwritten by a cancellation.
ErrorAborts(t) ==
    /\ turn[t].phase = "open" /\ turn[t].aborted
    /\ tab' = Cancelled(tab, t)
    /\ turn' = [turn EXCEPT ![t].phase = "closed"]
    /\ UNCHANGED <<timer, poll, asks, snap, conv, srv, faults>>

\* The request is refused outright or its connection breaks, or a proxy ends it
\* cleanly, which is taken for the end of the answer.
NetFail(t) ==
    /\ Hears(t) /\ faults < MaxFaults
    /\ faults' = faults + 1
    /\ tab' \in {Failed(t), SetPending(Completed(t, {}), turn[t].sid, 0)}
    /\ turn' = [turn EXCEPT ![t].phase = "closed"]
    /\ timer' = 0
    /\ UNCHANGED <<poll, asks, snap, conv, srv>>

-----------------------------------------------------------------------------
switchSession(s) ==
    /\ s # tab.active /\ Live(tab, s)
    /\ tab' = [tab EXCEPT !.active = s]
    /\ UNCHANGED <<timer, turn, poll, asks, snap, conv, srv, faults>>

delMessage(i) ==
    LET s == tab.active
    IN  /\ s # NoSession /\ i \in DOMAIN tab.msgs[s]
        /\ faults < MaxFaults
        /\ faults' = faults + 1
        /\ tab' = DelMsg(tab, s, tab.msgs[s][i].id)
        /\ UNCHANGED <<timer, turn, poll, asks, snap, conv, srv>>

\* A request waits no longer than a timer of 0 ms: nobody deletes its session
\* in between.
delSession(s) ==
    /\ tab.kind[s] # "absent"
    /\ \A t \in Turns : turn[t].sid = s => turn[t].phase # "queued"
    /\ faults < MaxFaults
    /\ faults' = faults + 1
    /\ tab' = DelSession(tab, s)
    /\ conv' = [conv EXCEPT ![s] = <<>>]
    /\ UNCHANGED <<timer, turn, poll, asks, snap, srv>>

\* The page is loaded again: what is stored survives, what runs does not.
\* A message that streamed is in flight now; a ghost gets an empty list.
loadState ==
    /\ faults < MaxFaults
    /\ faults' = faults + 1
    /\ tab' = [tab EXCEPT
                  !.kind = [s \in Sessions |-> IF @[s] = "ghost" THEN "live" ELSE @[s]],
                  !.msgs = [s \in Sessions |-> [i \in DOMAIN @[s] |->
                               IF @[s][i].status = "streaming"
                               THEN [@[s][i] EXCEPT !.status = "in_flight"] ELSE @[s][i]]],
                  !.typing = FALSE, !.abort = 0, !.corr = 0]
    /\ turn' = [t \in Turns |-> IF turn[t].phase \in {"queued", "open"}
                                THEN [turn[t] EXCEPT !.phase = "gone"] ELSE turn[t]]
    /\ timer' = 0 /\ poll' = 0 /\ asks' = {}
    /\ snap' = [s \in Sessions |-> <<>>]
    /\ UNCHANGED <<conv, srv>>

-----------------------------------------------------------------------------
\* Recovery: the turn a session waits for.
InFlight(s) == {i \in DOMAIN tab.msgs[s] : tab.msgs[s][i].status = "in_flight"}

Awaited(s) ==
    IF tab.pending[s] # 0 THEN tab.pending[s]
    ELSE IF InFlight(s) = {} THEN 0
    ELSE tab.msgs[s][CHOOSE i \in InFlight(s) : \A j \in InFlight(s) : i <= j].corr

\* The answer of the status endpoint; an unknown turn is an error, read as null.
StatusOf(t) ==
    CASE srv[t] = "unknown" -> "null"
      [] srv[t] \in {"running", "denied", "replayed"} -> "running"
      [] OTHER -> srv[t]

recoverPendingTurn ==
    LET s == tab.active
    IN  /\ s # NoSession /\ Live(tab, s) /\ Awaited(s) # 0
        /\ ~tab.typing
        /\ Cardinality(asks) < MaxAsks
        /\ asks' = asks \cup {[sid |-> s, turn |-> Awaited(s), by |-> "page",
                               status |-> StatusOf(Awaited(s))]}
        /\ UNCHANGED <<tab, timer, turn, poll, snap, conv, srv, faults>>

PollTurn ==
    /\ poll # 0 /\ Cardinality(asks) < MaxAsks
    /\ asks' = asks \cup {[sid |-> turn[poll].sid, turn |-> poll, by |-> "poll",
                           status |-> StatusOf(poll)]}
    /\ UNCHANGED <<tab, timer, turn, poll, snap, conv, srv, faults>>

\* An answer arrives.  Only a final one frees the session and ends the poll;
\* null is taken for running.
applyStatus(a) ==
    /\ a \in asks
    /\ asks' = asks \ {a}
    /\ \/ /\ a.status \in {"done", "cancelled", "failed"}
          /\ tab' = [SetPending(tab, a.sid, 0) EXCEPT !.typing = FALSE]
          /\ poll' = 0
       \/ /\ a.status \in {"running", "null"}
          /\ tab' = IF a.status = "running" THEN [tab EXCEPT !.typing = TRUE] ELSE tab
          /\ poll' = IF a.by = "page" /\ poll = 0 THEN a.turn ELSE poll
    /\ UNCHANGED <<timer, turn, snap, conv, srv, faults>>

\* The query of the conversation answers into the cache.
FetchConversation(s) ==
    /\ s = tab.active /\ snap[s] # conv[s]
    /\ snap' = [snap EXCEPT ![s] = conv[s]]
    /\ UNCHANGED <<tab, timer, turn, poll, asks, conv, srv, faults>>

\* The effect that pours the cached conversation into the active session.  It
\* runs whenever one of its inputs changes, a refresh of the list included.
Hydrate(s) ==
    /\ s = tab.active /\ Live(tab, s)
    /\ ~shouldSkipConversationHydrate(tab.typing, tab.msgs[s], snap[s])
    /\ \E resolved \in {resolveHydratedMessages(tab.msgs[s], snap[s])} :
          tab' = SyncSession(tab, s, resolved)
    /\ UNCHANGED <<timer, turn, poll, asks, snap, conv, srv, faults>>

-----------------------------------------------------------------------------
\* The server as the page sees it.  A request reaches it while its stream is
\* open; a question it answered before is answered from the record.
ServerAccepts(t) ==
    LET s == turn[t].sid
        asked == [UserMsg(t, turn[t].text) EXCEPT !.id = <<"su", t>>, !.key = turn[t].key,
                                                  !.stamp = @ + 1]
    IN  /\ Hears(t) /\ srv[t] = "unknown"
        /\ \/ /\ Kept(t) # {}
              /\ srv' = [srv EXCEPT ![t] = "replayed"]
              /\ UNCHANGED <<conv, faults>>
           \/ /\ Kept(t) = {}
              /\ conv' = [conv EXCEPT ![s] = Append(@, asked)]
              /\ srv' = [srv EXCEPT ![t] = "running"]
              /\ UNCHANGED faults
           \/ /\ faults < MaxFaults
              /\ faults' = faults + 1
              /\ srv' = [srv EXCEPT ![t] = "denied"]
              /\ UNCHANGED conv
        /\ UNCHANGED <<tab, timer, turn, poll, asks, snap>>

\* The turn ends on the server, whether anyone still listens or not.
ServerEnds(t, outcome) ==
    LET s == turn[t].sid
        answer == [ReplyMsg(t) EXCEPT !.key = NoName, !.text = turn[t].text, !.stamp = @ + 1,
                                      !.status = "succeeded"]
    IN  /\ srv[t] = "running" /\ outcome \in {"done", "failed"}
        /\ srv' = [srv EXCEPT ![t] = outcome]
        /\ conv' = IF outcome = "done" THEN [conv EXCEPT ![s] = Append(@, answer)] ELSE conv
        /\ UNCHANGED <<tab, timer, turn, poll, asks, snap, faults>>

-----------------------------------------------------------------------------
Stream(t) ==
    \/ \E status \in {"streaming", "succeeded"} : onEvent(t, status)
    \/ Done(t) \/ StreamEnds(t) \/ ErrorEvent(t) \/ ErrorAborts(t) \/ NetFail(t)

User ==
    \/ \E t \in Turns, text \in Texts : send(t, text)
    \/ \E t \in Turns, i \in 1..(2 * MaxTurns), text \in Texts : replaceAndSend(t, i, text)
    \/ \E t \in Turns, i \in 1..(2 * MaxTurns) : regenerate(t, i)
    \/ \E s \in Sessions : switchSession(s) \/ delSession(s)
    \/ \E i \in 1..(2 * MaxTurns) : delMessage(i)
    \/ stop \/ loadState

Next ==
    \/ User \/ Timeout
    \/ \E t \in Turns : launchReply(t) \/ Stream(t) \/ ServerAccepts(t)
    \/ \E t \in Turns, o \in {"done", "failed"} : ServerEnds(t, o)
    \/ recoverPendingTurn \/ PollTurn
    \/ \E a \in asks : applyStatus(a)
    \/ \E s \in Sessions : FetchConversation(s) \/ Hydrate(s)

Spec == Init /\ [][Next]_vars

\* Timers fire, answers arrive, effects run and the server ends its turns; no
\* user is obliged to do anything.
FairSpec ==
    /\ Spec
    /\ WF_vars(Timeout) /\ WF_vars(recoverPendingTurn) /\ WF_vars(PollTurn)
    /\ WF_vars(\E a \in asks : applyStatus(a))
    /\ \A t \in Turns :
         /\ WF_vars(launchReply(t)) /\ WF_vars(Stream(t))
         /\ WF_vars(ServerAccepts(t)) /\ WF_vars(ServerEnds(t, "done"))
    /\ \A s \in Sessions : WF_vars(FetchConversation(s)) /\ WF_vars(Hydrate(s))

-----------------------------------------------------------------------------
Names == ({"u", "c", "r", "p", "su", "local"} \X Turns) \cup {NoName}
Statuses == {"streaming", "in_flight", "succeeded", "failed", "cancelled"}
MessageSet ==
    [id : Names, role : {"user", "assistant"}, corr : Turns, key : Names, srv : Names,
     text : Texts \cup {NoText}, stamp : Nat, status : Statuses]

Tab ==
    [kind : [Sessions -> {"absent", "live", "ghost"}],
     msgs : [Sessions -> Seq(MessageSet)],
     pending : [Sessions -> Turns \cup {0}],
     active : Sessions \cup {NoSession},
     typing : BOOLEAN, abort : Turns \cup {0}, corr : Turns \cup {0}]

TypeOK ==
    /\ tab \in Tab
    /\ timer \in Turns \cup {0} /\ poll \in Turns \cup {0}
    /\ turn \in [Turns -> [sid : Sessions \cup {NoSession},
                           phase : {"unused", "queued", "open", "closed", "gone"},
                           aborted : BOOLEAN, skip : BOOLEAN,
                           key : Names, text : Texts \cup {NoText}]]
    /\ asks \subseteq [sid : Sessions, turn : Turns, by : {"page", "poll"},
                       status : {"null", "running", "done", "cancelled", "failed"}]
    /\ snap \in [Sessions -> Seq(MessageSet)] /\ conv \in [Sessions -> Seq(MessageSet)]
    /\ srv \in [Turns -> {"unknown", "running", "replayed", "denied", "done", "failed",
                          "cancelled"}]
    /\ faults \in Nat

\* dedupeConversationMessages says the page keeps "one message per id, so that
\* React keys do not clash": however streams, edits, second answers and stale
\* snapshots interleave, no session shows two messages of one id.
UniqueIds ==
    \A s \in Sessions : \A i, j \in DOMAIN tab.msgs[s] :
        tab.msgs[s][i].id = tab.msgs[s][j].id => i = j

\* What was asked under the name of m, here or at the server.
AskedAs(s, m) ==
    {x.text : x \in {x \in Messages(s) \cup Range(snap[s]) : x.role = "user" /\ x.key = m.key}}

\* Whatever snapshot is poured in, however old it is, no question the user
\* asked disappears: there is one left that asks what was asked under its name,
\* whether it stays, takes the text the server has of it, or is folded into a
\* turn that asks the same.
HydrateKeepsUserBubbles ==
    [][\A s \in Sessions : Hydrate(s) =>
         \A m \in Messages(s) : m.role = "user" =>
            \E n \in Messages(s)' : n.role = "user" /\ n.text \in AskedAs(s, m)]_vars

\* A stream that was aborted, by Stop before or after its request went out, by
\* the time limit or by an error event, never leaves its reply streaming.
AbortedNeverStreams ==
    \A t \in Turns : turn[t].phase = "closed" /\ turn[t].aborted =>
        \A s \in Sessions : \A m \in Messages(s) :
            m.id = <<"r", t>> => ~isStreaming(m)

\* Copilot.tsx says the page "resumes a running turn after a refresh: polls its
\* status and takes the final conversation when it is done": a reply that was
\* in flight when the page was loaded again is settled once its turn is done.
ReloadedTurnSettles ==
    \A t \in Turns : \A s \in Sessions :
        (srv[t] = "done" /\ tab.active = s /\ \E m \in Messages(s) : m.id = <<"r", t>>)
            ~> (tab.active # s \/ \A m \in Messages(s) : m.id = <<"r", t>> => ~isStreaming(m))
=============================================================================
