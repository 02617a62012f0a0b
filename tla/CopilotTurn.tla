---------------------------- MODULE CopilotTurn ----------------------------
(***************************************************************************)
(* The turns of one copilot conversation (copilotStream): a request brings *)
(* a user message, runs the model without any lock, and stores the answer. *)
(* A client repeats a message under the clientMsgId it had and a           *)
(* correlation id of its own; loadIdempotentTurn then replays the stored   *)
(* answer instead of running the model.  A turn can be cancelled by its    *)
(* correlation id at any time, even before it arrives.                     *)
(*                                                                         *)
(* A correlation id is a request here.  The memory of answers              *)
(* (streamIdempot, Store.CopilotIdempotency) and the turn records          *)
(* (copilotTurnStates) belong to the process; the messages are persisted   *)
(* in the background, and what a restart reads back is one of the          *)
(* snapshots taken since the last one (see DurableCollection).             *)
(***************************************************************************)
EXTENDS Naturals, FiniteSets, Sequences

CONSTANTS Requests,
          Msgs,          \* clientMsgIds
          MsgOf,         \* the clientMsgId each request carries
          Acked,         \* messages long enough for an ack segment
          MaxRestarts    \* bound: restarts of the process

ASSUME TurnAssumption == /\ MsgOf \in [Requests -> Msgs]
                         /\ Acked \subseteq Msgs
                         /\ MaxRestarts \in Nat

VARIABLES
    open,       \* the session takes turns: neither closed nor handed over
    messages,   \* Store.Messages of the conversation
    snapshots,  \* what the table of messages may hold
    memo,       \* remembered answer of each clientMsgId, {} for none
    turn,       \* status of each correlation id in copilotTurnStates
    pc,         \* where each request stands
    found,      \* what a request read back from the messages
    replied,    \* what was replayed to a request
    \* history
    early,      \* requests cancelled before their last look at `turn`
    sharing,    \* clientMsgIds two requests carried at the same time
    mixing,     \* clientMsgIds of a turn that ran beside another one
    blank,      \* requests whose answer had no text left to store
    restarts

vars == <<open, messages, snapshots, memo, turn, pc, found, replied, early,
          sharing, mixing, blank, restarts>>
history == <<sharing, mixing, blank, restarts>>

Message == [by : Requests, part : {"text", "ack", "body"}]
Statuses == {"none", "running", "done", "cancelled", "failed"}
Ended == {"refused", "denied", "replayed", "lost", "ended"}
Points == Ended \cup
    {"idle", "checked", "registerRunning", "registerCancelled", "registered",
     "scanned", "fresh", "asked", "running", "answered", "committing",
     "committed", "finishDone", "finishFailed", "settleDone", "settleFailed"}

TypeOK ==
    /\ open \in BOOLEAN
    /\ messages \in Seq(Message)
    /\ \A s \in snapshots : s \in Seq(Message)
    /\ memo \in [Msgs -> SUBSET Message]
    /\ turn \in [Requests -> Statuses]
    /\ pc \in [Requests -> Points]
    /\ found \in [Requests -> SUBSET Message]
    /\ replied \in [Requests -> SUBSET Message]
    /\ early \subseteq Requests
    /\ sharing \subseteq Msgs
    /\ mixing \subseteq Msgs
    /\ blank \subseteq Requests
    /\ restarts \in 0 .. MaxRestarts

-----------------------------------------------------------------------------
(***************************************************************************)
(* Reading the messages back                                               *)
(***************************************************************************)
Is(part, r) == [by |-> r, part |-> part]
Stored(r) == {i \in DOMAIN messages : messages[i].by = r}
AnsweredBy(r) == \E i \in Stored(r) : messages[i].part = "body"

Asks(i) == messages[i].part = "text"
\* The assistant messages between user message i and the next user message.
Following(i) == {j \in DOMAIN messages :
                   j > i /\ \A k \in i + 1 .. j : ~Asks(k)}

\* Mutation of Reply: whatever follows the message is its answer.
ReplyOfAnyTurn(i) == {messages[j] : j \in Following(i)}

\* Those of them that carry the correlation id of the user message.
Reply(i) == {messages[j] : j \in {n \in Following(i) :
                                    messages[n].by = messages[i].by}}

Questions(m) == {i \in DOMAIN messages :
                   Asks(i) /\ MsgOf[messages[i].by] = m /\ Reply(i) # {}}

\* Mutation of Scan: the messages are not searched.
ScanNothing(m) == {}

Scan(m) == IF Questions(m) = {} THEN {}
           ELSE Reply(CHOOSE i \in Questions(m) :
                        \A j \in Questions(m) : i <= j)

Running(r) == pc[r] \notin Ended \cup {"idle"}

Goto(r, p) == pc' = [pc EXCEPT ![r] = p]
Say(part, r) == messages' = Append(messages, Is(part, r))
Persist == snapshots' = snapshots \cup {messages'}

Init ==
    /\ open = TRUE
    /\ messages = <<>>
    /\ snapshots = {<<>>}
    /\ memo = [m \in Msgs |-> {}]
    /\ turn = [r \in Requests |-> "none"]
    /\ pc = [r \in Requests |-> "idle"]
    /\ found = [r \in Requests |-> {}]
    /\ replied = [r \in Requests |-> {}]
    /\ early = {}
    /\ sharing = {}
    /\ mixing = {}
    /\ blank = {}
    /\ restarts = 0

-----------------------------------------------------------------------------
(***************************************************************************)
(* A request, up to its user message                                       *)
(***************************************************************************)
\* The session is read and checked under RLock.
Admit(r) ==
    /\ pc[r] = "idle"
    /\ open
    /\ Goto(r, "checked")
    /\ LET others == {q \in Requests \ {r} : Running(q)}
           same == {q \in others : MsgOf[q] = MsgOf[r]}
       IN /\ sharing' = sharing \cup {MsgOf[q] : q \in same}
          /\ mixing' = mixing \cup {MsgOf[q] : q \in others}
                \cup (IF others = {} THEN {} ELSE {MsgOf[r]})
    /\ UNCHANGED <<open, messages, snapshots, memo, turn, found, replied,
                   early, blank, restarts>>

\* The rate limit, the content check or the check of the session.
Refuse(r) ==
    /\ pc[r] = "idle"
    /\ Goto(r, "refused")
    /\ UNCHANGED <<open, messages, snapshots, memo, turn, found, replied,
                   early, history>>

\* registerCopilotTurn looks for a cancellation that came first...
RegisterLoad(r) ==
    /\ pc[r] = "checked"
    /\ Goto(r, IF turn[r] = "cancelled" THEN "registerCancelled"
                                        ELSE "registerRunning")
    /\ UNCHANGED <<open, messages, snapshots, memo, turn, found, replied,
                   early, history>>

\* ...and stores its record in another step.
RegisterStore(r) ==
    /\ pc[r] \in {"registerRunning", "registerCancelled"}
    /\ turn' = [turn EXCEPT ![r] = IF pc[r] = "registerCancelled"
                                   THEN "cancelled" ELSE "running"]
    /\ Goto(r, "registered")
    /\ UNCHANGED <<open, messages, snapshots, memo, found, replied, early,
                   history>>

\* The zero-trust policy or the model budget refuses the turn: its record
\* stays as it is.
Deny(r) ==
    /\ pc[r] = "registered"
    /\ Goto(r, "denied")
    /\ UNCHANGED <<open, messages, snapshots, memo, turn, found, replied,
                   early, history>>

\* loadIdempotentTurn: the memory first, then the messages.
loadIdempotentTurn(r) ==
    /\ pc[r] = "registered"
    /\ LET m == MsgOf[r]
       IN IF memo[m] # {}
          THEN /\ replied' = [replied EXCEPT ![r] = memo[m]]
               /\ Goto(r, "replayed")
               /\ UNCHANGED found
          ELSE /\ found' = [found EXCEPT ![r] = Scan(m)]
               /\ Goto(r, IF Scan(m) = {} THEN "fresh" ELSE "scanned")
               /\ UNCHANGED replied
    /\ UNCHANGED <<open, messages, snapshots, memo, turn, early, history>>

\* What the scan found is remembered, then replayed.
ReplayScanned(r) ==
    /\ pc[r] = "scanned"
    /\ memo' = [memo EXCEPT ![MsgOf[r]] = found[r]]
    /\ replied' = [replied EXCEPT ![r] = found[r]]
    /\ Goto(r, "replayed")
    /\ UNCHANGED <<open, messages, snapshots, turn, found, early, history>>

AppendUser(r) ==
    /\ pc[r] = "fresh"
    /\ Say("text", r)
    /\ Persist
    /\ Goto(r, "asked")
    /\ UNCHANGED <<open, memo, turn, found, replied, early, history>>

-----------------------------------------------------------------------------
(***************************************************************************)
(* The model's turn                                                        *)
(***************************************************************************)
\* The ack segment is stored and streamed before the model is called; it is
\* not persisted on its own.
StartModel(r) ==
    /\ pc[r] = "asked"
    /\ IF MsgOf[r] \in Acked THEN Say("ack", r) ELSE UNCHANGED messages
    /\ Goto(r, "running")
    /\ UNCHANGED <<open, snapshots, memo, turn, found, replied, early, history>>

\* Mutation of ModelReturns: a failed turn is recorded as done.
ModelReturnsAlwaysDone(r) ==
    /\ pc[r] = "running"
    /\ \/ turn[r] = "cancelled" /\ Goto(r, "ended")
       \/ turn[r] # "cancelled" /\ Goto(r, "answered")
       \/ turn[r] # "cancelled" /\ Goto(r, "finishDone")
    /\ UNCHANGED <<open, messages, snapshots, memo, turn, found, replied,
                   early, history>>

\* The model answers, fails or is timed out, whether or not its context was
\* cancelled; the record of the turn decides.  finishCopilotTurn(cancelled)
\* leaves a cancelled record as it is.
ModelReturns(r) ==
    /\ pc[r] = "running"
    /\ \/ turn[r] = "cancelled" /\ Goto(r, "ended")
       \/ turn[r] # "cancelled" /\ Goto(r, "answered")
       \/ turn[r] # "cancelled" /\ Goto(r, "finishFailed")
    /\ UNCHANGED <<open, messages, snapshots, memo, turn, found, replied,
                   early, history>>

\* Mutation of Meter: the record is not read again before the commit.
MeterWithoutLook(r) ==
    /\ pc[r] = "answered"
    /\ Goto(r, "committing") \/ Goto(r, "finishFailed")
    /\ UNCHANGED <<open, messages, snapshots, memo, turn, found, replied,
                   early, history>>

\* Mutation of Meter: a turn over budget returns without settling its record.
MeterUnsettled(r) ==
    /\ pc[r] = "answered"
    /\ \/ Goto(r, IF turn[r] = "cancelled" THEN "ended" ELSE "committing")
       \/ Goto(r, "ended")
    /\ UNCHANGED <<open, messages, snapshots, memo, turn, found, replied,
                   early, history>>

\* The budget is checked once more, usage is metered, and the record is read
\* a last time.
Meter(r) ==
    /\ pc[r] = "answered"
    /\ \/ Goto(r, IF turn[r] = "cancelled" THEN "ended" ELSE "committing")
       \/ Goto(r, "finishFailed")
    /\ UNCHANGED <<open, messages, snapshots, memo, turn, found, replied,
                   early, history>>

Commit(r) ==
    /\ pc[r] = "committing"
    /\ Say("body", r)
    /\ Persist
    /\ Goto(r, "committed")
    /\ UNCHANGED <<open, memo, turn, found, replied, early, history>>

\* In the segmented modes a text that is only tool markup, or white space,
\* leaves no segment: no message is stored, and the turn goes on as answered.
CommitNothing(r) ==
    /\ pc[r] = "committing"
    /\ blank' = blank \cup {r}
    /\ UNCHANGED messages
    /\ Persist
    /\ Goto(r, "committed")
    /\ UNCHANGED <<open, memo, turn, found, replied, early, sharing, mixing,
                   restarts>>

\* What the turn stored, its ack segment included.
Said(r) == (IF r \in blank THEN {} ELSE {Is("body", r)}) \cup
           (IF MsgOf[r] \in Acked THEN {Is("ack", r)} ELSE {})

\* Mutation of rememberIdempotentTurn: nothing is remembered.
forgetIdempotentTurn(r) ==
    /\ pc[r] = "committed"
    /\ Goto(r, "finishDone")
    /\ UNCHANGED <<open, messages, snapshots, memo, turn, found, replied,
                   early, history>>

rememberIdempotentTurn(r) ==
    /\ pc[r] = "committed"
    /\ memo' = IF Said(r) = {} THEN memo
               ELSE [memo EXCEPT ![MsgOf[r]] = Said(r)]
    /\ Goto(r, "finishDone")
    /\ UNCHANGED <<open, messages, snapshots, turn, found, replied, early,
                   history>>

\* finishCopilotTurn looks at the record and leaves a cancelled one alone...
FinishLoad(r) ==
    /\ pc[r] \in {"finishDone", "finishFailed"}
    /\ Goto(r, CASE turn[r] = "cancelled" -> "ended"
                 [] turn[r] # "cancelled" /\ pc[r] = "finishDone" -> "settleDone"
                 [] OTHER -> "settleFailed")
    /\ UNCHANGED <<open, messages, snapshots, memo, turn, found, replied,
                   early, history>>

\* Mutation of FinishStore: a status the readers of the record do not know.
FinishStoreCompleted(r) ==
    /\ pc[r] \in {"settleDone", "settleFailed"}
    /\ turn' = [turn EXCEPT ![r] = "completed"]
    /\ Goto(r, "ended")
    /\ UNCHANGED <<open, messages, snapshots, memo, found, replied, early,
                   history>>

\* ...and writes the status in another step.
FinishStore(r) ==
    /\ pc[r] \in {"settleDone", "settleFailed"}
    /\ turn' = [turn EXCEPT ![r] = IF pc[r] = "settleDone" THEN "done"
                                                          ELSE "failed"]
    /\ Goto(r, "ended")
    /\ UNCHANGED <<open, messages, snapshots, memo, found, replied, early,
                   history>>

-----------------------------------------------------------------------------
(***************************************************************************)
(* The surroundings                                                        *)
(***************************************************************************)
\* Where a cancellation is still seen by the request.
BeforeLastLook == {"idle", "checked", "registerCancelled", "registered",
                   "fresh", "asked", "running", "answered"}

\* cancelCopilotTurn, at any time: a record is marked, or made.
Cancel(r) ==
    /\ turn[r] # "cancelled"
    /\ turn' = [turn EXCEPT ![r] = "cancelled"]
    /\ early' = IF pc[r] \in BeforeLastLook THEN early \cup {r} ELSE early
    /\ UNCHANGED <<open, messages, snapshots, memo, pc, found, replied, history>>

\* The session is closed, or handed over to a person.
CloseSession ==
    /\ open
    /\ open' = FALSE
    /\ UNCHANGED <<messages, snapshots, memo, turn, pc, found, replied, early,
                   history>>

\* The process restarts on the rows that were written.
Restart ==
    /\ restarts < MaxRestarts
    /\ restarts' = restarts + 1
    /\ \E s \in snapshots : messages' = s
    /\ snapshots' = {messages'}
    /\ memo' = [m \in Msgs |-> {}]
    /\ turn' = [r \in Requests |-> "none"]
    /\ pc' = [r \in Requests |-> IF Running(r) THEN "lost" ELSE pc[r]]
    /\ early' = {}
    /\ blank' = {}
    /\ UNCHANGED <<open, found, replied, sharing, mixing>>

Serve(r) ==
    \/ RegisterLoad(r) \/ RegisterStore(r) \/ Deny(r)
    \/ loadIdempotentTurn(r) \/ ReplayScanned(r) \/ AppendUser(r)
    \/ StartModel(r) \/ ModelReturns(r) \/ Meter(r)
    \/ Commit(r) \/ CommitNothing(r) \/ rememberIdempotentTurn(r)
    \/ FinishLoad(r) \/ FinishStore(r)

Next == \/ \E r \in Requests : Admit(r) \/ Refuse(r) \/ Serve(r) \/ Cancel(r)
        \/ CloseSession
        \/ Restart

Spec == Init /\ [][Next]_vars

\* A request being served goes on: no step waits for another request, and the
\* context of the model's run has a timeout (copilotStreamTimeout).
LiveSpec == Spec /\ \A r \in Requests : WF_vars(Serve(r))

-----------------------------------------------------------------------------
(***************************************************************************)
(* Properties                                                              *)
(***************************************************************************)
Answers(m) == {r \in Requests : MsgOf[r] = m /\ AnsweredBy(r)}

\* A message the client repeats after its first turn ended gets no second
\* answer, not even after a restart, whatever turns of other messages ran in
\* between.  Two requests that carry it at once may both run the model, and
\* after a restart the answers of turns that interleaved are not found again.
AnsweredOnce ==
    \A m \in Msgs : \/ m \in sharing
                    \/ restarts > 0 /\ m \in mixing
                    \/ Cardinality(Answers(m)) <= 1

\* A turn cancelled before its last look at its record stores no answer,
\* wherever it stood, unless the cancellation was lost at registration.
CancelledStoresNothing == \A r \in early : ~AnsweredBy(r)

\* What is replayed for a message was said in a turn of that message, however
\* the turns of the conversation interleaved.
ReplayIsOwn ==
    \A r \in Requests : \A x \in replied[r] :
        MsgOf[x.by] = MsgOf[r] /\ x.part # "text"

\* A turn whose record says done has its answer in the conversation, where a
\* client that stops polling finds it, unless the model left no text to store:
\* a failed, refused or cancelled turn is never recorded as done.
DoneHasAnswer ==
    \A r \in Requests : turn[r] = "done" => AnsweredBy(r) \/ r \in blank

\* A turn that stored its user message does not stay running for ever.
TurnsSettle == \A r \in Requests : pc[r] = "asked" ~> turn[r] # "running"

\* Violated. docs/实施方案-一问多回复.md:579: a repeated clientMsgId does not
\* run the model again.
OneAnswerPerMessage == \A m \in Msgs : Cardinality(Answers(m)) <= 1
=============================================================================
