-------------------------- MODULE CopilotSessions --------------------------
(***************************************************************************)
(* The list of conversations, the one that is open, the address bar and    *)
(* the session each workspace remembers.  Five effects of the page keep    *)
(* them together; they all run after a render and read what that render    *)
(* showed, while their updates apply one after the other (Pass).  The      *)
(* server is read when a request reaches it and its answer comes later;    *)
(* asking for a list again drops the answer that was awaited.              *)
(***************************************************************************)
EXTENDS ConsoleApi

Workspaces == {"w1", "w2"}
SessionIds == {"s1", "s2", "t1", "n1"}

\* The session that is made here: younger than five minutes for as long as a
\* behaviour lasts, and empty until something is said in it.
Made == "n1"

\* The active sessions of the expert a link may name.
OfExpert == {"s2"}

Unknown == [known |-> FALSE]
ListOf(ids) == [known |-> TRUE, ids |-> ids]

Init ==
    /\ \E address \in {NoArg, "s2", "t1"}, expert \in BOOLEAN :
       db = [ws |-> "w1", was |-> "w1", home |-> [s1 |-> "w1", s2 |-> "w1", t1 |-> "w2", n1 |-> NoArg],
             server |-> {"s1", "s2", "t1"}, local |-> <<>>, full |-> {}, tomb |-> {},
             active |-> NoArg, typing |-> FALSE, route |-> address, remembered |-> [w1 |-> "s1", w2 |-> NoArg],
             list |-> [w \in Workspaces |-> Unknown], fetching |-> {"w1"}, due |-> FALSE, ready |-> FALSE,
             link |-> expert, experts |-> FALSE, posting |-> FALSE]
    /\ net = [out |-> SetToBag({[op |-> "list", ws |-> "w1"], [op |-> "experts"]}), made |-> 0]

Local(d) == ToSet(d.local)

sessionInWorkspace(d, s) == d.home[s] = d.ws

\* The sessions of a list that are among ids, in the order of the list.
Kept(list, ids) ==
    LET kept[n \in 0 .. Len(list)] ==
            IF n = 0 THEN <<>>
            ELSE IF list[n] \in ids THEN Append(kept[n - 1], list[n])
            ELSE kept[n - 1]
    IN  kept[Len(list)]

visible(d) == Kept(d.local, {s \in SessionIds : sessionInWorkspace(d, s)})

sessionHistory(d) == IF d.list[d.ws].known THEN d.list[d.ws].ids ELSE {}

sessionsLoading(d) == ~d.list[d.ws].known /\ d.ws \in d.fetching

-----------------------------------------------------------------------------
(* The hook. *)

rememberCopilotSession(d, s) == [d EXCEPT !.remembered[d.home[s]] = s]

clearCopilotLastSession(d, s) == [d EXCEPT !.remembered[d.home[s]] = IF @ = s THEN NoArg ELSE @]

\* The reducer opens a session that is there; it is remembered when the render had it.
switchSession(seen, d, s) ==
    LET kept == IF s \in Local(seen) THEN rememberCopilotSession(d, s) ELSE d
    IN  IF s \in Local(d) THEN [kept EXCEPT !.active = s] ELSE kept

merge_sessions(d, ids) == [d EXCEPT !.local = @ \o SetToSeq(ids \ ToSet(@))]

\* What a list of the workspace does not name goes, but for the session that
\* is open, those with messages and the one just made.
reconcile_sessions(d, w, ids) ==
    [d EXCEPT !.local = Kept(@, {s \in SessionIds : d.home[s] # w} \cup ids \cup {d.active, Made} \cup d.full)]

\* Mutant: a session deleted here is merged again.
importDeleted(d, ids, w) ==
    LET merged == merge_sessions(d, ids)
    IN  IF ids = {} THEN merged ELSE reconcile_sessions(merged, w, ids)

\* An empty list takes nothing away.
importSessions(d, ids, w) ==
    LET filtered == ids \ d.tomb
        merged == merge_sessions(d, filtered)
    IN  IF filtered = {} THEN merged ELSE reconcile_sessions(merged, w, filtered)

del_session(d, s) ==
    LET rest == [d EXCEPT !.local = Kept(@, SessionIds \ {s})]
        same == Kept(rest.local, {x \in SessionIds : d.home[x] = d.home[s]})
    IN  IF d.active # s THEN rest
        ELSE [rest EXCEPT !.active = IF same # <<>> THEN same[1] ELSE NoArg]

new_session(d, s) ==
    [d EXCEPT !.local = IF s \in ToSet(@) THEN @ ELSE Append(@, s), !.active = s]

-----------------------------------------------------------------------------
(* The effects, in the order of the page: seen is the render they read. *)

\* Another workspace: what was open there is closed.
workspaceChanged(seen, d) ==
    IF seen.was = seen.ws THEN d
    ELSE [d EXCEPT !.was = seen.ws, !.ready = FALSE, !.active = NoArg, !.route = NoArg]

\* The list came, failed, or is asked for again.
historyImported(seen, d) ==
    IF ~seen.due THEN d
    ELSE CASE seen.list[seen.ws].known ->
                [importSessions(d, sessionHistory(seen), seen.ws) EXCEPT !.due = FALSE, !.ready = TRUE]
           [] sessionsLoading(seen) -> [d EXCEPT !.due = FALSE]
           [] OTHER -> [d EXCEPT !.due = FALSE, !.ready = TRUE]

\* The address names a session of this workspace.
RouteLeads(seen) ==
    /\ seen.route # NoArg
    /\ seen.route \in Local(seen) \cup sessionHistory(seen)
    /\ sessionInWorkspace(seen, seen.route)

\* From the address to the session.
deepLink(seen, d) ==
    IF seen.ready /\ seen.route # seen.active /\ RouteLeads(seen)
    THEN switchSession(seen, d, seen.route) ELSE d

\* Mutant: the address is overwritten although it leads somewhere.
urlFollows(seen, d) ==
    IF /\ seen.ready /\ seen.active \notin {NoArg, seen.route}
       /\ seen.active \in Local(seen) /\ sessionInWorkspace(seen, seen.active)
    THEN [d EXCEPT !.route = seen.active] ELSE d

\* From the session to the address, unless the address leads somewhere.
urlSync(seen, d) ==
    IF /\ seen.ready /\ seen.active \notin {NoArg, seen.route}
       /\ seen.active \in Local(seen) /\ sessionInWorkspace(seen, seen.active)
       /\ ~RouteLeads(seen)
    THEN [d EXCEPT !.route = seen.active] ELSE d

\* A link to an expert opens one of its sessions here, or asks for one.
expertLink(seen, d) ==
    LET existing == Kept(visible(seen), OfExpert)
    IN  IF ~(seen.ready /\ seen.link /\ seen.experts) THEN d
        ELSE IF existing # <<>> THEN [switchSession(seen, d, existing[1]) EXCEPT !.link = FALSE]
        ELSE [d EXCEPT !.link = FALSE, !.posting = TRUE]

\* Nothing of this workspace is open and no turn runs: the address, the session
\* remembered, the first one, or none.
autoSelect(seen, d) ==
    LET there == ToSet(visible(seen))
        last == d.remembered[seen.ws]
        shown(s) == [switchSession(seen, d, s) EXCEPT !.route = s]
    IN  IF ~seen.ready \/ sessionsLoading(seen) \/ seen.typing \/ seen.active \in there THEN d
        ELSE IF seen.route \in there THEN switchSession(seen, d, seen.route)
        ELSE IF last \in there THEN shown(last)
        ELSE IF there # {} THEN shown(visible(seen)[1])
        ELSE [d EXCEPT !.active = NoArg, !.route = NoArg]

Pass(seen) ==
    autoSelect(seen, expertLink(seen, urlSync(seen, deepLink(seen,
        historyImported(seen, workspaceChanged(seen, seen))))))

\* Renders follow each other until nothing moves: EffectsSettle says that three
\* always do.
Settled(d) ==
    LET once == Pass(d)
        twice == Pass(once)
    IN  IF once = d THEN d ELSE IF twice = once THEN once ELSE Pass(twice)

-----------------------------------------------------------------------------
(* Requests. *)

Listing(w) == {r \in BagToSet(net.out) : r.op \in {"list", "listed"} /\ r.ws = w}

Post(w) == [op |-> "new", id |-> Made, ws |-> w]

\* d, once its renders settled; gone are the requests that end, an effect may
\* add one to those that go out.
Step(d, gone, requests, made) ==
    LET last == Settled(d)
        asked == requests \cup (IF last.posting THEN {Post(last.ws)} ELSE {})
    IN  /\ db' = [last EXCEPT !.posting = FALSE, !.home[Made] = IF last.posting THEN last.ws ELSE @]
        /\ net' = [out |-> (net.out (-) SetToBag(gone)) (+) SetToBag(asked), made |-> made]

Hand(d, gone, requests) == net.made < MaxRequests /\ Step(d, gone, requests, net.made + 1)

Answer(r, d) == Step(d, {r}, {}, net.made)

\* A list is asked for anew, and what was under way for it is dropped.
Refetching(d, w) == [d EXCEPT !.fetching = @ \cup {w}, !.due = TRUE]

Unmade == db.home[Made] = NoArg

-----------------------------------------------------------------------------
(* The page. *)

switchWorkspace(w) ==
    /\ w # db.ws
    /\ Hand(Refetching([db EXCEPT !.ws = w], w), Listing(w), {[op |-> "list", ws |-> w]})

followLink(s) == s # db.route /\ Hand([db EXCEPT !.route = s], {}, {})

openSession(s) ==
    /\ s \in ToSet(visible(db))
    /\ Hand([switchSession(db, db, s) EXCEPT !.route = s], {}, {})

openNewSessionPicker ==
    /\ Unmade /\ ~db.link
    /\ Hand([db EXCEPT !.home[Made] = db.ws], {}, {Post(db.ws)})

\* Gone at once, and kept away until the server has answered.
deleteSession(s) ==
    LET buried == clearCopilotLastSession([db EXCEPT !.tomb = @ \cup {s}], s)
    IN  /\ s \in ToSet(visible(db))
        /\ Hand(del_session(buried, s), {}, {[op |-> "delete", id |-> s, ws |-> db.ws]})

\* Something is said in the session that is open: a turn runs.
say ==
    /\ db.active # NoArg /\ ~db.typing
    /\ Hand([db EXCEPT !.full = @ \cup {db.active}, !.typing = TRUE], {}, {})

\* It ends: the list is asked for anew.
turnEnds ==
    /\ db.typing
    /\ Step(Refetching([db EXCEPT !.typing = FALSE], db.ws), Listing(db.ws), {[op |-> "list", ws |-> db.ws]}, net.made)

\* Another tab deletes a session.
elsewhere(s) == s \in db.server /\ Hand([db EXCEPT !.server = @ \ {s}], {}, {})

-----------------------------------------------------------------------------
(* The server, and its answers. *)

Becomes(r, answer, server) ==
    /\ db' = [db EXCEPT !.server = server]
    /\ net' = [net EXCEPT !.out = (@ (-) SetToBag({r})) (+) SetToBag({answer})]

served(r) ==
    \/ r.op = "list" /\ Becomes(r, [op |-> "listed", ws |-> r.ws, ids |-> {s \in db.server : db.home[s] = r.ws}], db.server)
    \/ r.op = "new" /\ Becomes(r, [r EXCEPT !.op = "created"], db.server \cup {r.id})
    \/ r.op = "delete" /\ Becomes(r, [r EXCEPT !.op = "deleted"], db.server \ {r.id})

listed(r) ==
    /\ r.op = "listed"
    /\ Answer(r, [db EXCEPT !.list[r.ws] = ListOf(r.ids), !.fetching = @ \ {r.ws}, !.due = @ \/ r.ws = db.ws])

listFailed(r) ==
    /\ r.op = "list"
    /\ Answer(r, [db EXCEPT !.fetching = @ \ {r.ws}, !.due = @ \/ r.ws = db.ws])

created(r) ==
    /\ r.op = "created"
    /\ Answer(r, [rememberCopilotSession(new_session(db, r.id), r.id) EXCEPT !.route = r.id])

createFailed(r) == r.op = "new" /\ Answer(r, db)

\* The tombstone goes when the server deleted the session; either way the
\* list that is cached, an empty one if none was, is asked for anew.
deleted(r) ==
    /\ r.op \in {"delete", "deleted"}
    /\ LET risen == IF r.op = "deleted" THEN [db EXCEPT !.tomb = @ \ {r.id}] ELSE db
           cached == IF db.list[r.ws].known THEN db.list[r.ws].ids ELSE {}
           without == [risen EXCEPT !.list[r.ws] = ListOf(cached \ {r.id}), !.due = @ \/ r.ws = db.ws]
       IN  Step(Refetching(without, db.ws), {r} \cup Listing(db.ws), {[op |-> "list", ws |-> db.ws]}, net.made)

expertsLoaded(r) == r.op = "experts" /\ Answer(r, [db EXCEPT !.experts = TRUE])

Next ==
    \/ \E w \in Workspaces : switchWorkspace(w)
    \/ \E s \in SessionIds : followLink(s) \/ openSession(s) \/ deleteSession(s) \/ elsewhere(s)
    \/ openNewSessionPicker \/ say \/ turnEnds
    \/ \E r \in BagToSet(net.out) : served(r) \/ listed(r) \/ listFailed(r) \/ created(r) \/ createFailed(r)
                                    \/ deleted(r) \/ expertsLoaded(r)

-----------------------------------------------------------------------------
(* Properties. *)

\* The page, its lists and its requests have the shapes the hook declares.
TypeOK ==
    /\ db.ws \in Workspaces /\ db.home \in [SessionIds -> Workspaces \cup {NoArg}]
    /\ {db.active, db.route} \subseteq SessionIds \cup {NoArg}
    /\ Local(db) \cup db.server \cup db.full \cup db.tomb \subseteq SessionIds
    /\ Cardinality(Local(db)) = Len(db.local)
    /\ db.remembered \in [Workspaces -> SessionIds \cup {NoArg}]

\* The five effects come to rest: whatever was done and whenever the answers
\* came, the address, the open session and what is remembered stop pulling
\* each other to and fro.
EffectsSettle == Pass(db) = db

\* Once the list is there and no turn runs, a session of another workspace or none at all is
\* not open as long as this workspace has one; and the address names the open
\* one, unless it names one that was deleted here.
SelectionShown ==
    db.ready /\ ~sessionsLoading(db) /\ ~db.typing =>
        /\ IF visible(db) = <<>> THEN db.active = NoArg ELSE db.active \in ToSet(visible(db))
        /\ db.route = db.active \/ db.route \in db.tomb

\* A session deleted here stays away until the server confirms it is gone,
\* although lists read before still name it.  The one exception is a session
\* whose making is answered after a list brought it and the user deleted it.
DeletedStaysAway == (Local(db) \cup {db.active}) \cap db.tomb \subseteq {Made}

\* A list never takes away what is being used: the open session, one with
\* messages, one just made.
InUseStays ==
    \A s \in Local(db) \ ToSet(db'.local) : s \in db'.tomb \/ ~(s = db.active \/ s \in db.full \/ s = Made)
=============================================================================
