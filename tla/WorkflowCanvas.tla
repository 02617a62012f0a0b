--------------------------- MODULE WorkflowCanvas ---------------------------
(***************************************************************************)
(* The editor of a workflow: the canvas, its undo stack, the baseline that *)
(* tells a dirty canvas from a clean one, the versions as last fetched and *)
(* the one that is open, with the answers of the server that come while    *)
(* the person goes on editing.  Of a graph only its nodes, its edges and   *)
(* rev, a number that stands for everything written on the nodes, are kept.*)
(* A version is named by its place on the server; Template is the draft a  *)
(* template leaves in the page alone.                                      *)
(***************************************************************************)
EXTENDS ConsoleApi

CONSTANT HistoryLimit   \* bound of the undo stack, 50 in the page

Ids == 1..3
Template == 9

Graph(nodes, edges, rev) == [nodes |-> nodes, edges |-> edges, rev |-> rev]
EMPTY == Graph({}, {}, 0)
SAMPLE == Graph({1, 2, 3}, {<<1, 2>>, <<2, 3>>}, 0)
templateSnapshot == Graph({1, 2}, {<<1, 2>>}, 0)

\* The page once the draft is there; the newest version is the last, and open.
Init ==
    /\ db = [canvas |-> SAMPLE, stack |-> <<SAMPLE>>, idx |-> 1, baseline |-> SAMPLE,
             versions |-> [v \in 1..2 |-> [graph |-> SAMPLE, published |-> v = 1]], active |-> 2, gate |-> FALSE,
             remote |-> [v \in 1..2 |-> [graph |-> SAMPLE, published |-> v = 1]], draft |-> SAMPLE, log |-> <<>>]
    /\ NetInit

isDirty == db.canvas # db.baseline

VersionOf(d, v) == IF v \in DOMAIN d THEN d[v] ELSE [graph |-> EMPTY, published |-> FALSE]

-----------------------------------------------------------------------------
(* The undo stack. *)

\* Mutant: the oldest entry leaves and the place in the stack stays behind.
pushHistoryStuck(d, g) ==
    LET kept == Append(SubSeq(d.stack, 1, d.idx), g)
    IN  [d EXCEPT !.stack = IF Len(kept) > HistoryLimit THEN Tail(kept) ELSE kept, !.idx = d.idx + 1]

pushHistory(d, g) ==
    LET kept == Append(SubSeq(d.stack, 1, d.idx), g)
        capped == IF Len(kept) > HistoryLimit THEN Tail(kept) ELSE kept
    IN  [d EXCEPT !.stack = capped, !.idx = Len(capped)]

\* An edit shows the new graph and pushes it.
Drawn(d, g) == pushHistory([d EXCEPT !.canvas = g], g)

\* A hand on the canvas: counted with the requests.
Hand(new) ==
    /\ net.made < MaxRequests
    /\ db' = new
    /\ net' = [net EXCEPT !.made = @ + 1]

undo == db.idx > 1 /\ Hand([db EXCEPT !.idx = @ - 1, !.canvas = db.stack[db.idx - 1]])

redo == db.idx < Len(db.stack) /\ Hand([db EXCEPT !.idx = @ + 1, !.canvas = db.stack[db.idx + 1]])

-----------------------------------------------------------------------------
(* Editing. *)

addNode(n) ==
    /\ n \notin db.canvas.nodes
    /\ Hand(Drawn(db, [db.canvas EXCEPT !.nodes = @ \cup {n}]))

\* Mutant: the edges of a deleted node stay.
deleteNodeOnly(n) ==
    /\ n \in db.canvas.nodes
    /\ Hand(Drawn(db, [db.canvas EXCEPT !.nodes = @ \ {n}]))

deleteNode(n) ==
    /\ n \in db.canvas.nodes
    /\ Hand(Drawn(db, [db.canvas EXCEPT !.nodes = @ \ {n}, !.edges = {e \in @ : n \notin {e[1], e[2]}}]))

duplicateNode(n) ==
    /\ db.canvas.nodes # {} /\ n \in Ids \ db.canvas.nodes
    /\ Hand(Drawn(db, [db.canvas EXCEPT !.nodes = @ \cup {n}, !.rev = @ + 1]))

\* Label, description, note, switched off, moved: what is written on a node.
updateNode ==
    /\ db.canvas.nodes # {}
    /\ Hand(Drawn(db, [db.canvas EXCEPT !.rev = @ + 1]))

onConnect(from, to) ==
    /\ {from, to} \subseteq db.canvas.nodes /\ from # to /\ <<from, to>> \notin db.canvas.edges
    /\ Hand(Drawn(db, [db.canvas EXCEPT !.edges = @ \cup {<<from, to>>}]))

deleteEdge(e) == e \in db.canvas.edges /\ Hand(Drawn(db, [db.canvas EXCEPT !.edges = @ \ {e}]))

confirmClearCanvas == Hand(Drawn(db, EMPTY))

\* The example takes the place of the canvas, and of the template it came from.
resetCanvas == Hand([Drawn(db, SAMPLE) EXCEPT !.gate = FALSE])

\* A version of the list is opened, and is the baseline.
loadSnapshot(v) ==
    LET g == VersionOf(db.versions, v).graph
    IN  /\ v \in DOMAIN db.versions
        /\ Hand([Drawn(db, g) EXCEPT !.active = v, !.baseline = g])

\* A draft of the page alone; blocked while the template wants a connector.
createTemplateDraft(blocked) ==
    Hand([Drawn(db, templateSnapshot) EXCEPT
             !.versions = Unshifted(@, Template, [graph |-> templateSnapshot, published |-> FALSE]),
             !.active = Template, !.gate = blocked])

Edit ==
    \/ undo \/ redo \/ updateNode \/ confirmClearCanvas \/ resetCanvas
    \/ \E n \in Ids : addNode(n) \/ deleteNode(n) \/ duplicateNode(n)
    \/ \E a, b \in Ids : onConnect(a, b)
    \/ \E e \in db.canvas.edges : deleteEdge(e)
    \/ \E v \in DOMAIN db.versions : loadSnapshot(v)
    \/ \E blocked \in BOOLEAN : createTemplateDraft(blocked)

-----------------------------------------------------------------------------
(* Requests and their answers. *)

Send(r, new) ==
    /\ net.made < MaxRequests /\ BagCardinality(net.out) < MaxInFlight
    /\ db' = new
    /\ net' = [out |-> net.out (+) SetToBag({r}), made |-> net.made + 1]

\* The canvas counts as clean from here, before the server said anything.
saveCanvas(u) ==
    /\ ~VersionOf(db.versions, db.active).published
    /\ Send(Req("save", u, db.active, NoArg, db.canvas),
            [db EXCEPT !.baseline = db.canvas,
                       !.versions = [v \in DOMAIN @ |-> IF v = db.active THEN [@[v] EXCEPT !.graph = db.canvas] ELSE @[v]]])

saveAsVersion(u) == db.canvas.nodes # {} /\ Send(Req("saveAs", u, db.active, NoArg, db.canvas), db)

rollbackVersionApi(u) ==
    db.active \in DOMAIN db.versions /\ Send(Req("rollback", u, db.active, NoArg, EMPTY), db)

requestProductionRelease(u) == ~db.gate /\ ~isDirty /\ Send(Req("publish", u, db.active, NoArg, EMPTY), db)

applyGeneration(u) == Send(Req("generate", u, db.active, NoArg, templateSnapshot), db)

Served(r, new) == Arrives(r) /\ db' = Logged(new, r)

\* The server's part: see WorkflowDomain.
onSaved(r) ==
    /\ r.op = "save"
    /\ LET drafted == [db EXCEPT !.draft = r.seen]
       IN  Served(r, IF r.id \in DOMAIN db.remote /\ ~db.remote[r.id].published
                     THEN [drafted EXCEPT !.remote[r.id].graph = r.seen] ELSE drafted)

NewVersion(d, g, published) == [d EXCEPT !.remote = Append(@, [graph |-> g, published |-> published])]

\* The new version is the open one; the canvas stays what it has become.
onVersionSaved(r) ==
    /\ r.op = "saveAs"
    /\ Served(r, [NewVersion(db, r.seen, FALSE) EXCEPT !.active = Len(db.remote) + 1])

\* Refused, or the server's own draft is the new version, whatever the canvas is.
onPublished(r) ==
    /\ r.op = "publish"
    /\ Served(r, db) \/ Served(r, NewVersion(db, db.draft, TRUE))

\* The canvas and its history begin anew from the version rolled back to.
onRolledBack(r) ==
    /\ r.op = "rollback"
    /\ LET g == VersionOf(db.remote, r.id).graph
       IN  IF r.id \notin DOMAIN db.remote \/ g.nodes = {} THEN Served(r, db)
           ELSE Served(r, [NewVersion([db EXCEPT !.draft = g], g, FALSE) EXCEPT
                              !.canvas = g, !.stack = <<g>>, !.idx = 1, !.active = Len(db.remote) + 1])

onGenerationApplied(r) ==
    /\ r.op = "generate"
    /\ Served(r, [Drawn(NewVersion(db, r.seen, FALSE), r.seen) EXCEPT !.active = Len(db.remote) + 1])

\* The versions are fetched: drafts the server does not know are gone, and the
\* newest version is open in the place of one that is gone.
mapRemoteVersion ==
    /\ db.versions # db.remote
    /\ db' = [db EXCEPT !.versions = db.remote,
                        !.active = IF @ \in DOMAIN db.remote THEN @ ELSE Len(db.remote)]
    /\ UNCHANGED net

Next ==
    \/ Edit \/ mapRemoteVersion
    \/ \E u \in Actors :
          saveCanvas(u) \/ saveAsVersion(u) \/ rollbackVersionApi(u) \/ requestProductionRelease(u) \/ applyGeneration(u)
    \/ \E r \in BagToSet(net.out) :
          onSaved(r) \/ onVersionSaved(r) \/ onPublished(r) \/ onRolledBack(r) \/ onGenerationApplied(r)

-----------------------------------------------------------------------------
TypeOK ==
    /\ db.canvas.nodes \subseteq Ids
    /\ db.active \in DOMAIN db.remote \cup {Template}
    /\ \A v \in DOMAIN db.remote : db.remote[v].published \in BOOLEAN

\* Undo and redo start from what is on the canvas, though a rollback, an
\* applied generation or a full stack came in between; and no graph that can
\* come back has an edge without its nodes.
HistoryFollowsCanvas ==
    /\ db.idx \in DOMAIN db.stack /\ Len(db.stack) <= HistoryLimit
    /\ db.stack[db.idx] = db.canvas
    /\ \A i \in DOMAIN db.stack :
          \A e \in db.stack[i].edges : e[1] # e[2] /\ {e[1], e[2]} \subseteq db.stack[i].nodes

\* A version once published keeps its graph.
PublishedFixed ==
    \A v \in DOMAIN db.remote : db.remote[v].published => db'.remote[v] = db.remote[v]
=============================================================================
