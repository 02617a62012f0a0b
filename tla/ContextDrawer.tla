---------------------------- MODULE ContextDrawer ----------------------------
(***************************************************************************)
(* The drawer beside a conversation: it shows what lies behind one message *)
(* or behind the whole session.  What is selected is one state of the page *)
(* for every session; it is saved under the open session and restored when *)
(* a session is opened.  Three effects keep it: they all run after a       *)
(* render, in order, with the values of that render, and what they set is  *)
(* rendered before the user acts again.                                    *)
(***************************************************************************)
EXTENDS ConsoleApi, FiniteSetsExt

CONSTANT MaxActs   \* bound: what users and the server do

Sessions == {"s1", "s2"}
NoMessage == NoArg
Tabs == {"overview", "document", "evidence", "approvals", "audit"}

\* What hangs on a message: citations, tool calls by outcome, memories, an
\* approval that is asked for, a document.
Plain == [of |-> "s2", cites |-> {}, success |-> 0, failed |-> 0, memory |-> {}, approval |-> FALSE, document |-> FALSE]

Data ==
    [cited |-> [Plain EXCEPT !.of = "s1", !.cites = {"c1", "c2"}, !.success = 2, !.memory = {"k1"}],
     filed |-> [Plain EXCEPT !.of = "s1", !.cites = {"c1"}, !.failed = 1, !.memory = {"k1"}, !.document = TRUE],
     asked |-> [Plain EXCEPT !.approval = TRUE],
     plain |-> Plain]

Messages == DOMAIN Data

\* Sessions that belong to an expert have a drawer even without such data.
Staffed == {"s2"}

messageHasContext(id) == Data[id] # [Plain EXCEPT !.of = Data[id].of]

SumOf(ids, Value(_)) == MapThenSumSet(Value, ids)

\* pending: the approvals nobody decided yet.
deriveWorkbenchSummary(ids, decided) ==
    [evidence |-> SumOf(ids, LAMBDA id : Cardinality(Data[id].cites)),
     executions |-> SumOf(ids, LAMBDA id : Data[id].success + Data[id].failed),
     documents |-> Cardinality({id \in ids : Data[id].document}),
     pendingApprovals |-> Cardinality({id \in ids \ decided : Data[id].approval})]

\* A citation or a memory that several messages have is listed once.
deriveExpertContextOverview(ids, decided) ==
    [citations |-> UNION {Data[id].cites : id \in ids},
     memoryHits |-> UNION {Data[id].memory : id \in ids},
     total |-> SumOf(ids, LAMBDA id : Data[id].success + Data[id].failed),
     success |-> SumOf(ids, LAMBDA id : Data[id].success),
     failed |-> SumOf(ids, LAMBDA id : Data[id].failed),
     attempted |-> \E id \in ids : Data[id].cites \cup Data[id].memory # {},
     pendingApprovals |-> Cardinality({id \in ids \ decided : Data[id].approval})]

-----------------------------------------------------------------------------
Closed == [open |-> FALSE, scope |-> "session", tab |-> "overview", id |-> NoMessage, artifact |-> NoMessage, pinned |-> FALSE]

Here(d) == {id \in d.messages : Data[id].of = d.current}

hasSelectedContext(d) == d.sel.scope = "message" /\ d.sel.id \in Here(d) /\ messageHasContext(d.sel.id)

hasSessionContext(d) ==
    LET summary == deriveWorkbenchSummary(Here(d), d.decided)
    IN  summary.evidence + summary.executions + summary.documents + summary.pendingApprovals > 0

canOpenExpertContext(d) == d.current \in Staffed \/ hasSessionContext(d)

contextMessages(d) == IF d.sel.scope = "message" /\ d.sel.id \in Here(d) THEN {d.sel.id} ELSE Here(d)

visibleContextTabs(d) ==
    LET summary == deriveWorkbenchSummary(contextMessages(d), d.decided)
    IN  {"overview"} \cup (IF summary.documents > 0 THEN {"document"} ELSE {})
                     \cup (IF summary.evidence > 0 THEN {"evidence"} ELSE {})
                     \cup (IF summary.pendingApprovals > 0 THEN {"approvals"} ELSE {})
                     \cup (IF summary.executions > 0 THEN {"audit"} ELSE {})

\* What the effects of a render depend on.
Rendered(d) ==
    [current |-> d.current, sel |-> d.sel, selected |-> hasSelectedContext(d), able |-> canOpenExpertContext(d)]

Init ==
    /\ db = [current |-> "s1", messages |-> {"cited", "asked"}, decided |-> {}, sel |-> Closed,
             saved |-> [s \in Sessions |-> Closed], last |-> [current |-> NoArg], rounds |-> 0]
    /\ net = 0

-----------------------------------------------------------------------------
(* The effects. *)

\* The saved selection of the session that was opened, when it still says something.
Restored(d) ==
    LET saved == d.saved[d.current]
        valid == IF saved.scope = "session" THEN hasSessionContext(d)
                 ELSE saved.id \in Here(d) /\ messageHasContext(saved.id)
    IN  IF d.last.current # d.current /\ saved.open /\ valid
        THEN [saved EXCEPT !.artifact = NoMessage] ELSE d.sel

\* Under the open session, even when the selection is still that of the last one.
Persisted(d) == [d.saved EXCEPT ![d.current] = IF d.sel.open THEN d.sel ELSE Closed]

\* Mutant: only a selection of the whole session is looked at.
FitsSession(d) == d.sel.scope = "session" => canOpenExpertContext(d)

Fits(d) ==
    \/ d.sel.scope = "session" /\ canOpenExpertContext(d)
    \/ hasSelectedContext(d)

\* A drawer that shows nothing of this session closes, and with it one that was
\* restored in the same round.
effects ==
    /\ db.last # Rendered(db)
    /\ UNCHANGED net
    /\ LET sel == Restored(db)
           closes == db.sel.open /\ ~Fits(db)
       IN  db' = [db EXCEPT !.last = Rendered(db), !.saved = Persisted(db), !.rounds = @ + 1,
                            !.sel = IF closes /\ sel.open THEN [sel EXCEPT !.open = FALSE, !.id = NoMessage] ELSE sel]

Settled == db.last = Rendered(db)

-----------------------------------------------------------------------------
(* What users and the server do between renders. *)

Does(new) == Settled /\ net < MaxActs /\ net' = net + 1 /\ db' = [new EXCEPT !.rounds = 0]

\* The tabs a message's own buttons open.
Offered(id) ==
    (IF Data[id].cites # {} THEN {"evidence"} ELSE {}) \cup (IF Data[id].document THEN {"document"} ELSE {})
    \cup (IF Data[id].approval THEN {"approvals"} ELSE {})
    \cup (IF Data[id].success + Data[id].failed > 0 THEN {"audit"} ELSE {})

Opened(tab, scope, id) ==
    [db EXCEPT !.sel = [open |-> TRUE, scope |-> scope, tab |-> tab, id |-> id,
                        artifact |-> IF tab = "document" THEN id ELSE NoMessage, pinned |-> @.pinned]]

openContext ==
    \/ canOpenExpertContext(db) /\ Does(Opened("overview", "session", NoMessage))
    \/ \E id \in Here(db) : \E tab \in Offered(id) : messageHasContext(id) /\ Does(Opened(tab, "message", id))

closeContext == db.sel.open /\ Does([db EXCEPT !.sel.open = FALSE])

\* A shown document stays chosen only while its tab does.
setContextTab ==
    \E tab \in visibleContextTabs(db) :
       /\ db.sel.open
       /\ Does([db EXCEPT !.sel.tab = tab, !.sel.artifact = IF tab = "document" THEN @ ELSE NoMessage])

pin == db.sel.open /\ Does([db EXCEPT !.sel.pinned = ~@])

switchSession == \E s \in Sessions \ {db.current} : Does([db EXCEPT !.current = s])

reload == Does([db EXCEPT !.sel = Closed, !.last = [current |-> NoArg]])

\* A reply arrives, is deleted, or its approval is decided.
messagesChange ==
    \E id \in Messages :
       \/ id \notin db.messages /\ Does([db EXCEPT !.messages = @ \cup {id}])
       \/ id \in Here(db) /\ Does([db EXCEPT !.messages = @ \ {id}])
       \/ /\ id \in db.messages \ db.decided /\ Data[id].approval
          /\ Does([db EXCEPT !.decided = @ \cup {id}])

Next ==
    \/ effects \/ openContext \/ closeContext \/ setContextTab \/ pin \/ switchSession \/ reload \/ messagesChange

-----------------------------------------------------------------------------
TypeOK ==
    /\ db.messages \subseteq Messages /\ db.current \in Sessions
    /\ db.sel.tab \in Tabs /\ db.sel.id \in Messages \cup {NoMessage}

\* Once a change was rendered, an open drawer is about the open session: its
\* message is there and has something to show, its document is that message's;
\* what is saved under a session is about that session; and a change comes to
\* rest after three rounds of effects.
DrawerSettles ==
    /\ db.rounds <= 3
    /\ Settled =>
         /\ db.sel.open => Fits(db)
         /\ db.sel.open /\ db.sel.scope = "message" => db.sel.id \in Here(db) /\ messageHasContext(db.sel.id)
         /\ db.sel.open /\ db.sel.artifact # NoMessage => db.sel.artifact = db.sel.id
         /\ db.saved[db.current] = IF db.sel.open THEN db.sel ELSE Closed
         /\ \A s \in Sessions :
               db.saved[s].open /\ db.saved[s].scope = "message" => Data[db.saved[s].id].of = s

\* The figures of one message never exceed those of its session, the tabs count
\* what the lists show or more, and every call that counts has an outcome.
FiguresAgree ==
    LET whole == deriveExpertContextOverview(Here(db), db.decided)
        counts == deriveWorkbenchSummary(Here(db), db.decided)
    IN  /\ counts.evidence >= Cardinality(whole.citations) /\ counts.executions = whole.total
        /\ counts.pendingApprovals = whole.pendingApprovals
        /\ whole.citations # {} => whole.attempted
        /\ \A id \in Here(db) :
              LET part == deriveExpertContextOverview({id}, db.decided)
              IN  /\ part.citations \subseteq whole.citations /\ part.memoryHits \subseteq whole.memoryHits
                  /\ part.success + part.failed <= whole.total /\ part.pendingApprovals <= whole.pendingApprovals
=============================================================================
