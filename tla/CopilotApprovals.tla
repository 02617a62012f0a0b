-------------------------- MODULE CopilotApprovals --------------------------
(***************************************************************************)
(* What people decide about one message of an expert, each on a page of    *)
(* their own: the authorization of the write it asks for, its execution,   *)
(* the run that is left over, and the rating of the answer.  A page keeps  *)
(* a copy of the message; a handler that waits for an answer puts back     *)
(* the copy it started from.  The routes are ActionAuthorization's: here   *)
(* each is one step, and the action has a plan.                            *)
(***************************************************************************)
EXTENDS ConsoleApi

Pages == {"u1", "u2"}

\* Who may authorize besides an administrator, and who asked: an agent or a user.
approverCandidateIds == {"u2"}
Requesters == {NoArg, "u2"}

\* A page's copy of the message.  linked: to a task; marker: the text holds a
\* result; failed: a call or a step of it failed; more: a run is left over.
Copy == [decision : {"pending", "approved", "rejected"}, linked : BOOLEAN, marker : BOOLEAN, failed : BOOLEAN,
         more : BOOLEAN, feedback : {NoArg, "dislike"}]

\* dialog: what is open over the message; submitting: the authorization is
\* under way; execute: the mode of the session, as the page has it.
Page == [copy : Copy, dialog : {NoArg, "authorize", "reject", "feedback"}, submitting : BOOLEAN, execute : BOOLEAN,
         rating : BOOLEAN]

Init ==
    /\ \E requester \in Requesters, execute \in BOOLEAN :
       db = [requester |-> requester, status |-> "pending", by |-> NoArg, open |-> execute, tasks |-> 0, wins |-> 0,
             marker |-> FALSE, failed |-> FALSE, more |-> FALSE,
             page |-> [u \in Pages |->
                [copy |-> [decision |-> "pending", linked |-> FALSE, marker |-> FALSE, failed |-> FALSE, more |-> FALSE,
                           feedback |-> NoArg],
                 dialog |-> NoArg, submitting |-> FALSE, execute |-> execute, rating |-> FALSE]]]
    /\ NetInit

Of(u) == db.page[u]

Hand(new, requests) ==
    /\ net.made < MaxRequests
    /\ db' = new
    /\ net' = [out |-> net.out (+) SetToBag(requests), made |-> net.made + 1]

\* r goes on as another request, or comes back as an answer.
Becomes(r, next, new) == db' = new /\ net' = [net EXCEPT !.out = (@ (-) SetToBag({r})) (+) SetToBag({next})]

Ends(r, new) == db' = new /\ Arrives(r)

-----------------------------------------------------------------------------
(* The authorization. *)

canSingleApprove(u) == Of(u).copy.decision = "pending" /\ (isAdministrator(u) \/ u \in approverCandidateIds)

\* What the dialog asks of its message, which may have been read anew.
canApprove(u) ==
    /\ Of(u).copy.decision \notin {"approved", "rejected"}
    /\ isAdministrator(u) \/ u \in approverCandidateIds

\* Either button; the dialog starts afresh.
onApprove(u) ==
    /\ canSingleApprove(u) /\ Of(u).dialog = NoArg
    /\ Hand([db EXCEPT !.page[u].dialog = "authorize", !.page[u].submitting = FALSE], {})

onRequestReject(u) ==
    /\ canSingleApprove(u) /\ Of(u).dialog = NoArg
    /\ Hand([db EXCEPT !.page[u].dialog = "reject"], {})

\* The dialog offers to cancel while its answer is awaited.
onClose(u) == Of(u).dialog # NoArg /\ Hand([db EXCEPT !.page[u].dialog = NoArg], {})

\* The session turns to execution first; the handler has the copy of this render.
confirm(u) ==
    LET asked == [op |-> IF Of(u).execute THEN "approve" ELSE "patch", by |-> u, seen |-> Of(u).copy]
    IN  /\ Of(u).dialog = "authorize" /\ canApprove(u) /\ ~Of(u).submitting
        /\ Hand([db EXCEPT !.page[u].submitting = TRUE], {asked})

\* A patch that fails is not noticed.
patchSessionRemote(r) ==
    /\ r.op = "patch"
    /\ \E arrived \in BOOLEAN :
           Becomes(r, [r EXCEPT !.op = "approve"], [db EXCEPT !.open = @ \/ arrived, !.page[r.by].execute = TRUE])

canApproveActionLocked(u) ==
    /\ db.requester = NoArg \/ db.requester # u
    /\ isAdministrator(u) \/ u \in approverCandidateIds

Decides(r) == db.status = "pending" /\ canApproveActionLocked(r.by)

\* The answer may be lost after the signature was taken.
approveAction(r) ==
    /\ r.op = "approve"
    /\ \/ /\ Decides(r)
          /\ \E answer \in {"approved", "refused"} :
                 Becomes(r, [r EXCEPT !.op = answer], [db EXCEPT !.status = "approved", !.by = r.by])
       \/ Becomes(r, [r EXCEPT !.op = "refused"], db)

\* Mutant: the signature is shown although the server refused it.
approveUnasked(r) ==
    /\ r.op \in {"approved", "refused"}
    /\ Ends(r, [db EXCEPT !.page[r.by].copy = [r.seen EXCEPT !.decision = "approved"],
                          !.page[r.by].dialog = NoArg, !.page[r.by].submitting = FALSE])

signedBy(seen) == [seen EXCEPT !.decision = "approved"]

\* The copy of the render comes back as approved.  The execution that should
\* follow looks at that render's copy, which was pending, and gives up.
approve(r) ==
    /\ r.op = "approved"
    /\ Ends(r, [db EXCEPT !.page[r.by].copy = signedBy(r.seen),
                          !.page[r.by].dialog = NoArg, !.page[r.by].submitting = FALSE])

\* The dialog stays, with the error.
refused(r) == r.op = "refused" /\ Ends(r, [db EXCEPT !.page[r.by].submitting = FALSE])

turnedDown(copy) == [copy EXCEPT !.decision = "rejected"]

\* Shown at once; whether the server follows is not noticed.
reject(u, new) == Hand([new EXCEPT !.page[u].copy = turnedDown(@)], {[op |-> "reject", by |-> u]})

confirmReject(u) == Of(u).dialog = "reject" /\ reject(u, [db EXCEPT !.page[u].dialog = NoArg])

rejectAction(r) ==
    /\ r.op = "reject"
    /\ Ends(r, IF Decides(r) THEN [db EXCEPT !.status = "rejected", !.by = r.by] ELSE db)

-----------------------------------------------------------------------------
(* The execution. *)

onExecuteAuthorized(u) == Of(u).copy.decision = "approved" /\ ~Of(u).copy.linked /\ ~Of(u).copy.marker

onContinueRun(u) == Of(u).copy.decision = "approved" /\ Of(u).copy.more

\* A task is made first, and linked when the execution answered.
executeAuthorized(u) ==
    /\ onExecuteAuthorized(u)
    /\ Hand(db, {[op |-> "task", by |-> u, seen |-> Of(u).copy, continue |-> FALSE]})

continueSkillTurn(u) ==
    /\ onContinueRun(u)
    /\ Hand(db, {[op |-> "execute", by |-> u, seen |-> Of(u).copy, continue |-> TRUE]})

createTask(r) ==
    /\ r.op = "task"
    /\ \/ Becomes(r, [r EXCEPT !.op = "execute"], [db EXCEPT !.tasks = @ + 1])
       \/ Ends(r, db)

MayExecute(r) ==
    /\ db.open
    /\ db.status = "approved" \/ (r.continue /\ db.status = "executed" /\ db.more)

Executed(r, ok, more) ==
    [op |-> "executed", by |-> r.by, seen |-> r.seen, continue |-> r.continue, ok |-> ok, more |-> more]

\* A plan that failed stays approved and may leave a run over; the text gets
\* its result either way.
executeAction(r) ==
    /\ r.op = "execute"
    /\ \/ /\ MayExecute(r)
          /\ \E ok, more \in BOOLEAN :
                 Becomes(r, Executed(r, ok, more),
                         [db EXCEPT !.status = IF ok THEN "executed" ELSE "approved", !.wins = IF ok THEN @ + 1 ELSE @,
                                    !.marker = TRUE, !.failed = ~ok, !.more = more])
       \/ Becomes(r, Executed(r, FALSE, FALSE), db)

\* Mutant: an answer that failed leaves no mark on the message.
appendResultOnly(seen, r) ==
    [seen EXCEPT !.marker = IF r.continue THEN @ ELSE TRUE, !.linked = @ \/ ~r.continue, !.more = r.more]

\* The first result stays in the text; every call that failed stays in the list.
appendExecuteResultOnce(seen, r) ==
    [seen EXCEPT !.marker = IF r.continue THEN @ ELSE TRUE, !.failed = @ \/ ~r.ok, !.linked = @ \/ ~r.continue,
                 !.more = r.more]

\* The badge of an execution that went well.
showsExecuted(copy) == copy.marker /\ ~copy.failed

executed(r) ==
    /\ r.op = "executed"
    /\ Ends(r, [db EXCEPT !.page[r.by].copy = appendExecuteResultOnce(r.seen, r)])

-----------------------------------------------------------------------------
(* The message is read anew, and the session changes. *)

fetchConversation(u) ==
    /\ \A r \in BagToSet(net.out) : r.op \notin {"fetch", "fetched"} \/ r.by # u
    /\ Hand(db, {[op |-> "fetch", by |-> u]})

ofServer == [decision |-> IF db.status = "executed" THEN "approved" ELSE db.status, marker |-> db.marker, failed |-> db.failed]

getConversation(r) == r.op = "fetch" /\ Becomes(r, [op |-> "fetched", by |-> r.by, msg |-> ofServer], db)

\* What the server has replaces what the page has; what it has not stays.
mergeMessagePair(r) ==
    /\ r.op = "fetched"
    /\ Ends(r, [db EXCEPT !.page[r.by].copy = [@ EXCEPT !.decision = r.msg.decision, !.marker = r.msg.marker,
                                                       !.failed = r.msg.failed]])

\* Someone takes the session back to investigation.
setCollaborationMode(u) ==
    /\ Of(u).execute
    /\ Hand([db EXCEPT !.open = FALSE, !.page[u].execute = FALSE], {})

-----------------------------------------------------------------------------
(* The rating. *)

set_feedback(copy, kind) == [copy EXCEPT !.feedback = kind]

\* Whatever thumb it was, and whether the server takes it or not.
setFeedback(u, new, kind) == [new EXCEPT !.page[u].copy = set_feedback(@, kind)]

\* Either thumb opens the form; pressing the one that is set takes it back,
\* on this page only.
onFeedback(u) ==
    /\ Of(u).dialog = NoArg
    /\ \/ Hand([db EXCEPT !.page[u].dialog = "feedback", !.page[u].rating = FALSE], {})
       \/ Of(u).copy.feedback # NoArg /\ Hand(setFeedback(u, db, NoArg), {})

\* The form waits half a second, and goes through with it when it was closed.
handleSubmit(u) ==
    /\ Of(u).dialog = "feedback" /\ ~Of(u).rating
    /\ Hand([db EXCEPT !.page[u].rating = TRUE], {[op |-> "rate", by |-> u]})

onSubmit(r) ==
    /\ r.op = "rate"
    /\ Ends(r, setFeedback(r.by, [db EXCEPT !.page[r.by].rating = FALSE, !.page[r.by].dialog = NoArg], "dislike"))

Next ==
    \/ \E u \in Pages :
           \/ onApprove(u) \/ onRequestReject(u) \/ onClose(u) \/ confirm(u) \/ confirmReject(u)
           \/ executeAuthorized(u) \/ continueSkillTurn(u)
           \/ fetchConversation(u) \/ setCollaborationMode(u)
           \/ onFeedback(u) \/ handleSubmit(u)
    \/ \E r \in BagToSet(net.out) :
           \/ patchSessionRemote(r) \/ approveAction(r) \/ approve(r) \/ refused(r) \/ rejectAction(r)
           \/ createTask(r) \/ executeAction(r) \/ executed(r)
           \/ getConversation(r) \/ mergeMessagePair(r) \/ onSubmit(r)

-----------------------------------------------------------------------------
(* Properties. *)

\* The pages and the action have the shapes of the code.
TypeOK ==
    /\ db.page \in [Pages -> Page]
    /\ db.status \in {"pending", "approved", "rejected", "executed"} /\ db.by \in Pages \cup {NoArg}
    /\ {db.tasks, db.wins} \subseteq 0..MaxRequests

\* A page that shows a write as authorized, and so offers to execute it, is
\* right: whatever answers crossed, someone who may authorize it did, and that
\* is not who asked for it.
ShownAuthorized ==
    (\E u \in Pages : Of(u).copy.decision = "approved") \/ db.wins > 0 =>
        db.status \in {"approved", "executed"} /\ canApproveActionLocked(db.by)

\* A page that shows a write as executed without a failure is right: it ran.
ShownExecuted ==
    \A u \in Pages : showsExecuted(Of(u).copy) => db.wins > 0
=============================================================================
