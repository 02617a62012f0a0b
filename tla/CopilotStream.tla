---------------------------- MODULE CopilotStream ----------------------------
(***************************************************************************)
(* How the page turns the events of one reply into messages.  Four records *)
(* of the reply exist side by side: the router's text of each segment, the *)
(* closure's list of thoughts, tools and tasks, the placeholder from which *)
(* the next version of a message is made, and the message list itself.     *)
(* The thoughts hang on the first segment, the host; an artifact's segment *)
(* is folded into the host's text.  A text is how many pieces of it came.  *)
(***************************************************************************)
EXTENDS ConsoleApi

CONSTANTS
    MaxEvents,    \* bound: the events before the last one
    MaxThoughts   \* bound: the thoughts heard before another event that may bring one

Host == "reply"
Second == "second"
Artifact == "artifact"
SegmentIds == {Host, Second, Artifact}
IndexOf == [reply |-> 0, second |-> 1, artifact |-> 2, action |-> 0]
WholeText == 1         \* bound: the pieces of a segment's text

-----------------------------------------------------------------------------
(* Thoughts. *)

Thought(kind, title, framework, detail) == [kind |-> kind, title |-> title, framework |-> framework, detail |-> detail]
Event(type, status) == [type |-> type, status |-> status, title |-> NoArg, framework |-> FALSE]

\* A thought the server worded itself; one with a framework is a phase of it.
Explicit(title, framework) == [type |-> "thought", status |-> NoArg, title |-> title, framework |-> framework]

\* The events that may end among the thoughts; outcomes that differ only in
\* their wording stand for one another.
ThoughtEvents ==
    {Explicit("goal", TRUE), Explicit("look", TRUE)}
    \cup {Event("stage", status) : status \in {"memoryHit", "memoryDegraded", "running"}}
    \cup {Event("plan", status) : status \in {"ready", "completed"}}
    \cup {Event("agent", "delegating"), Event("reflect", "ok"), Event("reflect", "failed")}

fromExplicitThought(e) == {Thought("plan", e.title, e.framework, NoArg)}

\* Recall with a hit, or degraded; the pipeline's heartbeat is no thought.
mapStageThought(e) ==
    CASE e.status = "memoryHit" -> {Thought("search", "recalled", FALSE, "titles")}
      [] e.status = "memoryDegraded" -> {Thought("search", "recalled", FALSE, NoArg)}
      [] OTHER -> {}

mapPlanThought(e) ==
    {CASE e.status = "ready" -> Thought("plan", "goal", FALSE, "steps")
       [] e.status = "completed" -> Thought("finalize", "planDone", FALSE, NoArg)}

mapReflectThought(e) == IF e.status = "failed" THEN {Thought("reflect", "unreviewed", FALSE, NoArg)} ELSE {}

mapAgentThought(e) == {Thought("plan", "delegated", FALSE, NoArg)}

\* The thought an event becomes, or none.
toHumanThoughtStep(e) ==
    CASE e.type = "thought" -> fromExplicitThought(e)
      [] e.type = "stage" -> mapStageThought(e)
      [] e.type = "plan" -> mapPlanThought(e)
      [] e.type = "reflect" -> mapReflectThought(e)
      [] e.type = "agent" -> mapAgentThought(e)
      [] e.type = "authorization" -> {Thought("analyze", "confirm", FALSE, NoArg)}
      [] OTHER -> {}

\* Whether the event says what the reply is busy with.
progressLabelFromEvent(e) ==
    \/ e.type = "thought"
    \/ e.type = "stage" /\ e.status = "running"
    \/ e.type = "plan" /\ e.status = "ready"
    \/ e.type = "tool" /\ e.status = "running"
    \/ e.type = "agent" /\ e.status = "delegating"

\* Two phases of one framework's plan say the same whatever their titles.
sameThoughtFingerprint(a, b) ==
    /\ a.kind = b.kind
    /\ \/ a.kind = "plan" /\ a.framework /\ b.framework
       \/ a.title = b.title

\* A thought that repeats the last one only brings its detail.
Merge(out, s) ==
    IF out # <<>> /\ sameThoughtFingerprint(Last(out), s)
    THEN [out EXCEPT ![Len(out)].detail = IF s.detail = NoArg THEN @ ELSE s.detail]
    ELSE Append(out, s)

mergeThoughtSteps(steps) == FoldLeft(Merge, <<>>, steps)

\* Mutant: the thought is not compared with the last one.
appendUnmerged(existing, next) == existing \o SetToSeq(next)

appendHumanThought(existing, next) == mergeThoughtSteps(existing \o SetToSeq(next))

-----------------------------------------------------------------------------
(* The message list. *)

Message(id) ==
    [id |-> id, text |-> 0, artifact |-> FALSE, steps |-> <<>>, tool |-> NoArg, task |-> NoArg, busy |-> FALSE,
     status |-> "streaming"]

Replaced(msgs, mid, m) ==
    IF \E i \in DOMAIN msgs : msgs[i].id = mid
    THEN [i \in DOMAIN msgs |-> IF msgs[i].id = mid THEN m ELSE msgs[i]]
    ELSE Append(msgs, m)

\* append_msg: the segments of a reply share its client id, so a new segment
\* takes the place of the first one in the list, which comes back with its own
\* next event.  The tasks and the progress line of the one replaced stay.
Appended(msgs, m) ==
    LET same == {i \in DOMAIN msgs : msgs[i].id \in SegmentIds}
        at == CHOOSE i \in same : \A j \in same : i <= j
    IN  IF same = {} THEN Append(msgs, m)
        ELSE [msgs EXCEPT ![at] = [m EXCEPT !.task = msgs[at].task, !.busy = msgs[at].busy]]

orderAssistantSegments(msgs) ==
    FoldLeft(LAMBDA out, n : out \o SelectSeq(msgs, LAMBDA m : IndexOf[m.id] = n), <<>>, <<0, 1, 2>>)

\* The next version of a message: in the list and as its placeholder.
Put(d, mid, m) == [d EXCEPT !.place = (mid :> m) @@ @, !.msgs = Replaced(@, mid, m)]

Place(d, mid) == IF mid \in DOMAIN d.place THEN d.place[mid] ELSE Message(Host)

\* What the closure knows, as the host shows it.
WithLists(d, m) == [m EXCEPT !.steps = d.steps, !.tool = d.tool, !.busy = d.live \/ m.busy]

ensureSegment(d, mid) ==
    IF mid \in DOMAIN d.place THEN Put(d, mid, d.place[mid])
    ELSE [d EXCEPT !.place = (mid :> Message(mid)) @@ @, !.msgs = Appended(@, Message(mid))]

patchSegment(d, mid, status) ==
    LET m == [Place(d, mid) EXCEPT !.text = d.text[mid], !.artifact = FALSE, !.status = status]
    IN  Put(d, mid, IF mid = Host THEN WithLists(d, m) ELSE m)

mergeArtifactIntoHost(d) ==
    IF d.text[Artifact] = 0 THEN d
    ELSE Put(d, Host, WithLists(d, [Place(d, Host) EXCEPT !.artifact = TRUE]))

\* A new thought is appended to the message alone; one that merged goes through
\* the placeholder.
ShowThought(d, merged) ==
    IF Len(merged) > Len(d.steps)
    THEN [d EXCEPT !.steps = merged,
                   !.msgs = [i \in DOMAIN @ |-> IF @[i].id = Host THEN [@[i] EXCEPT !.steps = Append(@, Last(merged))]
                                                                  ELSE @[i]]]
    ELSE Put([d EXCEPT !.steps = merged], Host, [Place(d, Host) EXCEPT !.steps = merged])

pushThought(d, e) ==
    LET next == toHumanThoughtStep(e)
        told == [d EXCEPT !.heard = @ \o SetToSeq(next)]
        shown == IF next = {} THEN told ELSE ShowThought(told, appendHumanThought(d.steps, next))
    IN  IF progressLabelFromEvent(e) /\ shown.steps = <<>>
        THEN Put([shown EXCEPT !.live = TRUE], Host, [Place(shown, Host) EXCEPT !.busy = TRUE])
        ELSE shown

patchTurnState(d) ==
    Put(d, Host, [Place(d, Host) EXCEPT !.steps = d.steps, !.task = d.task,
                                        !.busy = d.steps = <<>> /\ (d.live \/ @)])

-----------------------------------------------------------------------------
(* The events, in any order a server may send them. *)

Init ==
    /\ db = [msgs |-> <<Message(Host)>>, place |-> (Host :> Message(Host)), text |-> (Host :> 0), started |-> {},
             ended |-> {}, steps |-> <<>>, heard |-> <<>>, tool |-> NoArg, task |-> NoArg, live |-> FALSE, phase |-> "open"]
    /\ net = 0

Hears(new) == db.phase = "open" /\ net < MaxEvents /\ net' = net + 1 /\ db' = new

Ends(new) == db.phase = "open" /\ UNCHANGED net /\ db' = new

Routed(mid) == [db EXCEPT !.text = @ @@ (mid :> 0), !.started = @ \cup {mid}]

messageStart ==
    \E mid \in SegmentIds \ db.started :
       Hears(CASE mid = Artifact -> Routed(mid)
               [] mid = Host -> ensureSegment(Routed(mid), mid)
               [] OTHER -> LET new == ensureSegment(Routed(mid), mid)
                           IN  [new EXCEPT !.msgs = orderAssistantSegments(@)])

messageDelta ==
    \E mid \in (db.started \cup {Host}) \ db.ended :
       /\ db.text[mid] < WholeText
       /\ LET new == [db EXCEPT !.text[mid] = @ + 1]
          IN  Hears(IF mid = Artifact THEN new ELSE patchSegment(new, mid, "streaming"))

\* The end of a segment may bring its whole text; that of an artifact goes to the host.
messageDone ==
    \E mid \in db.started \ db.ended : \E n \in {db.text[mid], WholeText} :
       LET new == [db EXCEPT !.text[mid] = n, !.ended = @ \cup {mid}]
       IN  Hears(IF mid = Artifact THEN mergeArtifactIntoHost(new) ELSE patchSegment(new, mid, "succeeded"))

thought == Len(db.heard) < MaxThoughts /\ \E e \in ThoughtEvents : Hears(pushThought(db, e))

tool ==
    \E status \in {"running", "success"} :
       /\ db.tool \notin {status, "success"}
       /\ Hears(patchSegment(pushThought([db EXCEPT !.tool = status], Event("tool", status)), Host, "streaming"))

task ==
    \E status \in {"running", "done"} :
       /\ db.task \notin {status, "done"}
       /\ Hears(patchTurnState([db EXCEPT !.task = status]))

\* What waits for a person is a message of its own.
authorization ==
    /\ \A i \in DOMAIN db.msgs : db.msgs[i].id # "action"
    /\ Hears(pushThought([db EXCEPT !.msgs = Replaced(@, "action", [Message("action") EXCEPT !.status = "succeeded"])],
                         Event("authorization", NoArg)))

\* Mutant: the host keeps the thoughts of its placeholder.
FinalAsPlaced(d, mid) ==
    LET m == [Place(d, mid) EXCEPT !.text = d.text[mid], !.artifact = FALSE, !.busy = FALSE, !.status = "succeeded"]
    IN  IF mid = Host THEN [m EXCEPT !.tool = d.tool, !.task = d.task] ELSE m

Final(d, mid) ==
    LET m == [Place(d, mid) EXCEPT !.text = d.text[mid], !.artifact = FALSE, !.busy = FALSE, !.status = "succeeded"]
    IN  IF mid = Host THEN [m EXCEPT !.steps = d.steps, !.tool = d.tool, !.task = d.task] ELSE m

\* The end: every segment but the artifact's is written once more from the lists.
completeStream ==
    LET ids == SelectSeq(<<Host, Second>>, LAMBDA mid : mid \in DOMAIN db.text)
        all == FoldLeft(LAMBDA msgs, mid : Replaced(msgs, mid, Final(db, mid)), db.msgs, ids)
    IN  Ends([db EXCEPT !.phase = "done",
                        !.msgs = orderAssistantSegments(SelectSeq(all, LAMBDA m : m.id # Artifact))])

\* A refusal fails every segment the router knows.  The artifact's has no
\* placeholder and is added as a second message under the host's id.
failAllSegments ==
    LET ids == SelectSeq(<<Host, Second, Artifact>>, LAMBDA mid : mid \in DOMAIN db.text)
        Failed(mid) == LET m == [Place(db, mid) EXCEPT !.text = db.text[mid], !.status = "failed"]
                       IN  IF mid = Host THEN [m EXCEPT !.steps = db.steps, !.tool = db.tool] ELSE m
    IN  Ends([db EXCEPT !.phase = "failed",
                        !.msgs = FoldLeft(LAMBDA msgs, mid : Replaced(msgs, mid, Failed(mid)), @, ids)])

Next ==
    \/ messageStart \/ messageDelta \/ messageDone \/ thought \/ tool \/ task \/ authorization
    \/ completeStream \/ failAllSegments

-----------------------------------------------------------------------------
TypeOK ==
    /\ DOMAIN db.text \subseteq SegmentIds /\ DOMAIN db.place \subseteq SegmentIds
    /\ db.phase \in {"open", "done", "failed"}

Named(mid) == {i \in DOMAIN db.msgs : db.msgs[i].id = mid}

\* Whatever was overwritten on the way, a reply that is complete shows each of
\* its segments once, with all its text, every thought, tool and task on the
\* host, and no segment of an artifact.
CompletedAsHeard ==
    db.phase = "done" =>
      /\ Named(Artifact) = {}
      /\ \A mid \in DOMAIN db.text \ {Artifact} :
            \E i \in DOMAIN db.msgs :
               /\ Named(mid) = {i}
               /\ db.msgs[i].text = db.text[mid] /\ db.msgs[i].status = "succeeded"
               /\ mid = Host => <<db.msgs[i].steps, db.msgs[i].tool, db.msgs[i].task>> = <<db.steps, db.tool, db.task>>

\* Merging each thought as it comes gives what merging them all at once would,
\* and no thought repeats the one before it.
ThoughtsMerged ==
    /\ db.steps = mergeThoughtSteps(db.heard)
    /\ \A i \in 1..(Len(db.steps) - 1) : ~sameThoughtFingerprint(db.steps[i], db.steps[i + 1])
=============================================================================
