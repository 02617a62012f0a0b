------------------------- MODULE CopilotTurnProofs -------------------------
(***************************************************************************)
(* Theorems about CopilotTurn, for any requests, messages and number of    *)
(* restarts.                                                               *)
(*                                                                         *)
(* The inductive invariant adds to the types: an answer of a request in    *)
(* the messages, or in a snapshot a restart may read back, says that the   *)
(* request is past its commit (BodyPlace), and a request past its commit   *)
(* has its answer until it lets go of it (Settled), unless there was no    *)
(* text to store (BlankSilent says it has none); a request cancelled in    *)
(* time still has that in its record and stands at no place it would       *)
(* commit from (EarlyCancelled); and whatever is remembered, found or      *)
(* replayed for a message was said in a turn of it (OwnMemory).            *)
(***************************************************************************)
EXTENDS CopilotTurn, FiniteSetTheorems, SequenceTheorems, WellFoundedInduction, TLAPS

HasBody(s, r) == \E i \in DOMAIN s : s[i].by = r /\ s[i].part = "body"

AfterCommit == {"committed", "finishDone", "settleDone", "ended", "lost"}
Committing == {"registerRunning", "committing", "committed", "finishDone",
               "settleDone", "settleFailed"}

\* What may be replayed for message m.
SaidFor(m) == {x \in Message : MsgOf[x.by] = m /\ x.part # "text"}

BodyPlace == \A s \in snapshots \cup {messages}, r \in Requests :
    HasBody(s, r) => pc[r] \in AfterCommit

Settled == \A r \in Requests :
    pc[r] \in {"committed", "finishDone", "settleDone"}
        => HasBody(messages, r) \/ r \in blank

DoneStored == \A r \in Requests :
    turn[r] = "done" => HasBody(messages, r) \/ r \in blank

BlankSilent == \A r \in blank : pc[r] \in AfterCommit /\ ~ HasBody(messages, r)

EarlyCancelled == \A r \in early :
    turn[r] = "cancelled" /\ pc[r] \notin Committing /\ ~ HasBody(messages, r)

OwnMemory == /\ \A m \in Msgs : memo[m] \subseteq SaidFor(m)
             /\ \A r \in Requests : /\ found[r] \subseteq SaidFor(MsgOf[r])
                                    /\ replied[r] \subseteq SaidFor(MsgOf[r])

IInv == /\ TypeOK
        /\ BodyPlace
        /\ Settled
        /\ DoneStored
        /\ BlankSilent
        /\ EarlyCancelled
        /\ OwnMemory

USE TurnAssumption DEF TurnAssumption

-----------------------------------------------------------------------------
\* A set of numbers that is not empty has a least one.
LEMMA Least ==
    ASSUME NEW S \in SUBSET Nat, S # {}
    PROVE  \E i \in S : \A j \in S : i <= j
<1> DEFINE Smaller == {ss \in Nat \X Nat : ss[1] < ss[2]}
<1>1. IsWellFoundedOn(Smaller, Nat)
  BY NatLessThanWellFounded DEF OpToRel
<1> HIDE DEF Smaller
<1>2. PICK i \in S : \A j \in S : ~ (<<j, i>> \in Smaller)
  BY <1>1, WFMin
<1>3. \A j \in S : ~ (j < i)
  BY <1>2 DEF Smaller
<1>4. QED
  BY <1>3

\* What loadIdempotentTurn finds among the messages was said by the model in a
\* turn of the message it looks for.
LEMMA ScanOwn ==
    ASSUME TypeOK, NEW m \in Msgs
    PROVE  Scan(m) \subseteq SaidFor(m)
<1>1. CASE Questions(m) = {}
  BY <1>1 DEF Scan
<1>2. CASE Questions(m) # {}
  <2>1. Questions(m) \in SUBSET Nat
    BY DEF Questions, TypeOK
  <2>2. PICK i \in Questions(m) : Scan(m) = Reply(i)
    <3>1. \E i \in Questions(m) : \A j \in Questions(m) : i <= j
      BY <1>2, <2>1, Least
    <3>2. QED
      BY <1>2, <3>1 DEF Scan
  <2>3. i \in DOMAIN messages /\ MsgOf[messages[i].by] = m
    BY DEF Questions
  <2>4. ASSUME NEW j \in Following(i), messages[j].by = messages[i].by
        PROVE  messages[j] \in SaidFor(m)
    <3>1. j \in DOMAIN messages /\ j \in i + 1 .. j /\ ~ Asks(j)
      BY <2>3 DEF Following, TypeOK
    <3>2. messages[j] \in Message
      BY <3>1 DEF TypeOK
    <3>3. QED
      BY <2>3, <2>4, <3>1, <3>2 DEF SaidFor, Asks
  <2>5. QED
    BY <2>2, <2>4 DEF Reply
<1>3. QED
  BY <1>1, <1>2

\* What a message appended to the conversation adds to it.
LEMMA SayStep ==
    ASSUME TypeOK, NEW r \in Requests, NEW part \in {"text", "ack", "body"},
           Say(part, r)
    PROVE  /\ messages' \in Seq(Message)
           /\ \A q \in Requests :
                 HasBody(messages', q) <=> \/ HasBody(messages, q)
                                           \/ q = r /\ part = "body"
<1>1. messages \in Seq(Message) /\ Is(part, r) \in Message
  BY DEF TypeOK, Is, Message
<1>2. messages' = Append(messages, Is(part, r))
  BY DEF Say
<1>3. /\ messages' \in Seq(Message)
      /\ Len(messages') = Len(messages) + 1
      /\ \A i \in 1 .. Len(messages) : messages'[i] = messages[i]
      /\ messages'[Len(messages) + 1] = Is(part, r)
  BY <1>1, <1>2, AppendProperties
<1>4. /\ DOMAIN messages = 1 .. Len(messages)
      /\ DOMAIN messages' = 1 .. Len(messages) + 1
      /\ Len(messages) \in Nat
  BY <1>1, <1>3
<1>5. Is(part, r).by = r /\ Is(part, r).part = part
  BY DEF Is
<1>6. ASSUME NEW q \in Requests
      PROVE  HasBody(messages', q) <=> \/ HasBody(messages, q)
                                       \/ q = r /\ part = "body"
  <2>1. ASSUME HasBody(messages', q)
        PROVE  HasBody(messages, q) \/ (q = r /\ part = "body")
    <3>1. PICK i \in DOMAIN messages' : messages'[i].by = q /\ messages'[i].part = "body"
      BY <2>1 DEF HasBody
    <3>2. CASE i \in 1 .. Len(messages)
      BY <1>3, <1>4, <3>1, <3>2 DEF HasBody
    <3>3. CASE i = Len(messages) + 1
      BY <1>3, <1>5, <3>1, <3>3
    <3>4. QED
      BY <1>4, <3>2, <3>3
  <2>2. ASSUME HasBody(messages, q) PROVE HasBody(messages', q)
    BY <1>3, <1>4, <2>2 DEF HasBody
  <2>3. ASSUME q = r, part = "body" PROVE HasBody(messages', q)
    BY <1>3, <1>4, <1>5, <2>3 DEF HasBody
  <2>4. QED
    BY <2>1, <2>2, <2>3
<1>7. QED
  BY <1>3, <1>6

LEMMA InitInv == Init => IInv
<1> SUFFICES ASSUME Init PROVE IInv
  OBVIOUS
<1>1. TypeOK
  BY DEF Init, TypeOK, Statuses, Points
<1>2. \A s \in snapshots \cup {messages} : s = << >>
  BY DEF Init
<1>3. \A r \in Requests : ~ HasBody(<< >>, r)
  BY DEF HasBody
<1>4. BodyPlace /\ Settled /\ DoneStored /\ BlankSilent /\ EarlyCancelled
  BY <1>2, <1>3 DEF Init, BodyPlace, Settled, DoneStored, BlankSilent, EarlyCancelled
<1>5. OwnMemory
  BY DEF Init, OwnMemory
<1>6. QED
  BY <1>1, <1>4, <1>5 DEF IInv
-----------------------------------------------------------------------------
\* A request moves on and no message is added: what keeps the invariant.
LEMMA MoveStep ==
    ASSUME IInv, NEW r \in Requests, NEW p \in Points, Goto(r, p),
           UNCHANGED <<messages, early>>,
           snapshots' \subseteq snapshots \cup {messages},
           \/ blank' = blank
           \/ blank' = blank \cup {r} /\ pc[r] = "committing" /\ p = "committed",
           turn' \in [Requests -> Statuses],
           \A q \in Requests : q # r => turn'[q] = turn[q],
           pc[r] \in AfterCommit => p \in AfterCommit,
           p \in {"committed", "finishDone", "settleDone"}
               => r \in blank' \/ pc[r] \in {"committed", "finishDone", "settleDone"},
           turn'[r] = "done" => turn[r] = "done" \/ HasBody(messages, r) \/ r \in blank,
           r \in early => turn'[r] = "cancelled" /\ p \notin Committing
    PROVE  /\ pc' \in [Requests -> Points]
           /\ BodyPlace' /\ Settled' /\ DoneStored' /\ BlankSilent' /\ EarlyCancelled'
<1> USE DEF IInv
<1>1. /\ pc' \in [Requests -> Points]
      /\ pc'[r] = p
      /\ \A q \in Requests : q # r => pc'[q] = pc[q]
  BY DEF Goto, TypeOK
<1>2. BodyPlace'
  BY <1>1 DEF BodyPlace
<1>3. Settled'
  BY <1>1 DEF Settled
<1>4. DoneStored'
  BY DEF DoneStored
<1>5. BlankSilent'
  <2>1. \A q \in blank : q \in Requests /\ pc'[q] \in AfterCommit /\ ~ HasBody(messages, q)
    BY <1>1 DEF BlankSilent, TypeOK
  <2>2. pc[r] = "committing" => ~ HasBody(messages, r)
    BY DEF BodyPlace, AfterCommit
  <2>3. p = "committed" => pc'[r] \in AfterCommit
    BY <1>1 DEF AfterCommit
  <2> QED BY <2>1, <2>2, <2>3 DEF BlankSilent, HasBody
<1>6. EarlyCancelled'
  BY <1>1 DEF EarlyCancelled, TypeOK
<1>7. QED
  BY <1>1, <1>2, <1>3, <1>4, <1>5, <1>6

\* The same for the steps that change nothing but the place of the request.
LEMMA PlaceStep ==
    ASSUME IInv, NEW r \in Requests, NEW p \in Points, Goto(r, p),
           UNCHANGED <<open, messages, snapshots, memo, turn, found, replied,
                       early, blank, restarts>>,
           sharing' \subseteq Msgs, mixing' \subseteq Msgs,
           pc[r] \in AfterCommit => p \in AfterCommit,
           p \in {"committed", "finishDone", "settleDone"}
               => pc[r] \in {"committed", "finishDone", "settleDone"},
           r \in early => p \notin Committing
    PROVE  IInv'
<1> USE DEF IInv
<1>1. turn' \in [Requests -> Statuses]
  BY DEF TypeOK
<1>2. r \in early => turn'[r] = "cancelled"
  BY DEF EarlyCancelled
<1>3. /\ pc' \in [Requests -> Points]
      /\ BodyPlace' /\ Settled' /\ DoneStored' /\ BlankSilent' /\ EarlyCancelled'
  BY <1>1, <1>2, MoveStep
<1>4. TypeOK'
  BY <1>3 DEF TypeOK
<1>5. OwnMemory'
  BY DEF OwnMemory
<1>6. QED
  BY <1>3, <1>4, <1>5

\* The places between the registration and the end that no rule of the
\* invariant singles out.
LEMMA PlainSteps ==
    ASSUME IInv, NEW r \in Requests,
           \/ Admit(r) \/ Refuse(r) \/ RegisterLoad(r) \/ Deny(r)
           \/ ModelReturns(r) \/ Meter(r) \/ FinishLoad(r)
    PROVE  IInv'
<1> USE DEF IInv
<1>1. r \in early => turn[r] = "cancelled" /\ pc[r] \notin Committing
  BY DEF EarlyCancelled
<1>2. ASSUME Admit(r) PROVE IInv'
  <2>1. sharing' \subseteq Msgs /\ mixing' \subseteq Msgs
    BY <1>2 DEF Admit, TypeOK
  <2>2. "checked" \in Points /\ "checked" \notin Committing /\ pc[r] = "idle"
    BY <1>2 DEF Admit, Points, Committing
  <2>3. QED
    BY <1>2, <2>1, <2>2, PlaceStep DEF Admit, AfterCommit
<1>3. ASSUME Refuse(r) PROVE IInv'
  <2>1. /\ "refused" \in Points /\ "refused" \notin Committing /\ pc[r] = "idle"
        /\ sharing' \subseteq Msgs /\ mixing' \subseteq Msgs
    BY <1>3 DEF Refuse, Points, Ended, Committing, history, TypeOK
  <2>2. QED
    BY <1>3, <2>1, PlaceStep DEF Refuse, history, AfterCommit
<1>4. ASSUME RegisterLoad(r) PROVE IInv'
  <2>1. PICK p \in {"registerCancelled", "registerRunning"} :
            Goto(r, p) /\ (turn[r] = "cancelled" => p = "registerCancelled")
    BY <1>4 DEF RegisterLoad
  <2>2. /\ p \in Points /\ (r \in early => p \notin Committing)
        /\ pc[r] = "checked"
        /\ sharing' \subseteq Msgs /\ mixing' \subseteq Msgs
    BY <1>1, <1>4, <2>1 DEF RegisterLoad, Points, Committing, history, TypeOK
  <2>3. QED
    BY <1>4, <2>1, <2>2, PlaceStep DEF RegisterLoad, history, AfterCommit
<1>5. ASSUME Deny(r) PROVE IInv'
  <2>1. /\ "denied" \in Points /\ "denied" \notin Committing /\ pc[r] = "registered"
        /\ sharing' \subseteq Msgs /\ mixing' \subseteq Msgs
    BY <1>5 DEF Deny, Points, Ended, Committing, history, TypeOK
  <2>2. QED
    BY <1>5, <2>1, PlaceStep DEF Deny, history, AfterCommit
<1>6. ASSUME ModelReturns(r) \/ Meter(r) PROVE IInv'
  <2>1. PICK p \in {"ended", "answered", "committing", "finishFailed"} :
            Goto(r, p) /\ (turn[r] = "cancelled" => p # "committing")
    BY <1>6 DEF ModelReturns, Meter
  <2>2. /\ p \in Points /\ (r \in early => p \notin Committing)
        /\ pc[r] \in {"running", "answered"}
        /\ sharing' \subseteq Msgs /\ mixing' \subseteq Msgs
        /\ UNCHANGED <<open, messages, snapshots, memo, turn, found, replied,
                       early, blank, restarts>>
    BY <1>1, <1>6, <2>1 DEF ModelReturns, Meter, Points, Ended, Committing,
                            history, TypeOK
  <2>3. QED
    BY <2>1, <2>2, PlaceStep DEF AfterCommit
<1>7. ASSUME FinishLoad(r) PROVE IInv'
  <2>1. PICK p \in {"ended", "settleDone", "settleFailed"} :
            /\ Goto(r, p)
            /\ turn[r] = "cancelled" => p = "ended"
            /\ p = "settleDone" => pc[r] = "finishDone"
            /\ p = "settleFailed" => pc[r] = "finishFailed"
    BY <1>7 DEF FinishLoad
  <2>2. /\ p \in Points /\ (r \in early => p \notin Committing)
        /\ pc[r] \in {"finishDone", "finishFailed"}
        /\ sharing' \subseteq Msgs /\ mixing' \subseteq Msgs
        /\ UNCHANGED <<open, messages, snapshots, memo, turn, found, replied,
                       early, blank, restarts>>
    BY <1>1, <1>7, <2>1 DEF FinishLoad, Points, Ended, Committing, history,
                            TypeOK
  <2>3. QED
    BY <2>1, <2>2, PlaceStep DEF AfterCommit
<1>8. QED
  BY <1>2, <1>3, <1>4, <1>5, <1>6, <1>7

-----------------------------------------------------------------------------
\* The steps that write the record of a turn.
LEMMA RegisterStoreStep ==
    ASSUME IInv, NEW r \in Requests, RegisterStore(r)
    PROVE  IInv'
<1> USE DEF IInv
<1>1. PICK status \in {"cancelled", "running"} :
          /\ turn' = [turn EXCEPT ![r] = status]
          /\ pc[r] = "registerCancelled" => status = "cancelled"
  BY DEF RegisterStore
<1>2. /\ turn' \in [Requests -> Statuses]
      /\ turn'[r] = status
      /\ \A q \in Requests : q # r => turn'[q] = turn[q]
  BY <1>1 DEF TypeOK, Statuses
<1>3. pc[r] \in {"registerRunning", "registerCancelled"}
  BY DEF RegisterStore
<1>4. r \in early => status = "cancelled"
  BY <1>1, <1>3 DEF EarlyCancelled, Committing
<1>5. /\ pc' \in [Requests -> Points]
      /\ BodyPlace' /\ Settled' /\ DoneStored' /\ BlankSilent' /\ EarlyCancelled'
  <2>1. "registered" \in Points /\ "registered" \notin Committing
    BY DEF Points, Committing
  <2>2. Goto(r, "registered") /\ UNCHANGED <<messages, snapshots, early, blank>>
    BY DEF RegisterStore, history
  <2>3. QED
    BY <1>2, <1>3, <1>4, <2>1, <2>2, MoveStep DEF AfterCommit
<1>6. TypeOK'
  BY <1>2, <1>5 DEF RegisterStore, history, TypeOK
<1>7. OwnMemory'
  BY DEF RegisterStore, OwnMemory
<1>8. QED
  BY <1>5, <1>6, <1>7

LEMMA FinishStoreStep ==
    ASSUME IInv, NEW r \in Requests, FinishStore(r)
    PROVE  IInv'
<1> USE DEF IInv
<1>1. PICK status \in {"done", "failed"} :
          /\ turn' = [turn EXCEPT ![r] = status]
          /\ status = "done" => pc[r] = "settleDone"
  BY DEF FinishStore
<1>2. /\ turn' \in [Requests -> Statuses]
      /\ turn'[r] = status
      /\ \A q \in Requests : q # r => turn'[q] = turn[q]
  BY <1>1 DEF TypeOK, Statuses
<1>3. pc[r] \in {"settleDone", "settleFailed"}
  BY DEF FinishStore
<1>4. r \notin early
  BY <1>3 DEF EarlyCancelled, Committing
<1>5. status = "done" => HasBody(messages, r) \/ r \in blank
  BY <1>1 DEF Settled
<1>6. /\ pc' \in [Requests -> Points]
      /\ BodyPlace' /\ Settled' /\ DoneStored' /\ BlankSilent' /\ EarlyCancelled'
  <2>1. "ended" \in Points /\ "ended" \in AfterCommit
    BY DEF Points, Ended, AfterCommit
  <2>2. Goto(r, "ended") /\ UNCHANGED <<messages, snapshots, early, blank>>
    BY DEF FinishStore, history
  <2>3. QED
    BY <1>2, <1>4, <1>5, <2>1, <2>2, MoveStep
<1>7. TypeOK'
  BY <1>2, <1>6 DEF FinishStore, history, TypeOK
<1>8. OwnMemory'
  BY DEF FinishStore, OwnMemory
<1>9. QED
  BY <1>6, <1>7, <1>8

-----------------------------------------------------------------------------
\* The steps that read or write the memory of answers.
LEMMA LoadStep ==
    ASSUME IInv, NEW r \in Requests, loadIdempotentTurn(r)
    PROVE  IInv'
<1> USE DEF IInv
<1>1. MsgOf[r] \in Msgs
  OBVIOUS
<1>2. PICK p \in {"replayed", "fresh", "scanned"} : Goto(r, p)
  BY DEF loadIdempotentTurn
<1>3. /\ p \in Points /\ p \notin Committing
      /\ pc[r] = "registered"
      /\ UNCHANGED <<open, messages, snapshots, memo, turn, early, history>>
  BY <1>2 DEF loadIdempotentTurn, Points, Ended, Committing
<1>4. /\ pc' \in [Requests -> Points]
      /\ BodyPlace' /\ Settled' /\ DoneStored' /\ BlankSilent' /\ EarlyCancelled'
  <2>1. turn \in [Requests -> Statuses] /\ (r \in early => turn[r] = "cancelled")
    BY DEF TypeOK, EarlyCancelled
  <2>2. p \notin {"committed", "finishDone", "settleDone"}
    BY <1>3 DEF Committing
  <2>3. QED
    BY <1>2, <1>3, <2>1, <2>2, MoveStep DEF AfterCommit, history
<1>5. PICK f \in SUBSET SaidFor(MsgOf[r]) :
          \/ found' = [found EXCEPT ![r] = f] /\ UNCHANGED replied
          \/ replied' = [replied EXCEPT ![r] = f] /\ UNCHANGED found
  BY <1>1, ScanOwn DEF loadIdempotentTurn, OwnMemory
<1>6. /\ found' \in [Requests -> SUBSET Message]
      /\ replied' \in [Requests -> SUBSET Message]
  BY <1>5 DEF TypeOK, SaidFor
<1>7. TypeOK'
  BY <1>3, <1>4, <1>6 DEF history, TypeOK
<1>8. OwnMemory'
  BY <1>3, <1>5 DEF TypeOK, OwnMemory
<1>9. QED
  BY <1>4, <1>7, <1>8

LEMMA ReplayStep ==
    ASSUME IInv, NEW r \in Requests, ReplayScanned(r)
    PROVE  IInv'
<1> USE DEF IInv
<1>1. MsgOf[r] \in Msgs /\ found[r] \subseteq SaidFor(MsgOf[r])
  BY DEF OwnMemory
<1>2. /\ pc[r] = "scanned" /\ Goto(r, "replayed")
      /\ memo' = [memo EXCEPT ![MsgOf[r]] = found[r]]
      /\ replied' = [replied EXCEPT ![r] = found[r]]
      /\ UNCHANGED <<open, messages, snapshots, turn, found, early, history>>
  BY DEF ReplayScanned
<1>3. /\ pc' \in [Requests -> Points]
      /\ BodyPlace' /\ Settled' /\ DoneStored' /\ BlankSilent' /\ EarlyCancelled'
  <2>1. turn \in [Requests -> Statuses] /\ (r \in early => turn[r] = "cancelled")
    BY DEF TypeOK, EarlyCancelled
  <2>2. "replayed" \in Points /\ "replayed" \notin Committing
    BY DEF Points, Ended, Committing
  <2>3. QED
    BY <1>2, <2>1, <2>2, MoveStep DEF AfterCommit, history
<1>4. /\ memo' \in [Msgs -> SUBSET Message]
      /\ replied' \in [Requests -> SUBSET Message]
  BY <1>1, <1>2 DEF TypeOK, SaidFor
<1>5. TypeOK'
  BY <1>2, <1>3, <1>4 DEF history, TypeOK
<1>6. OwnMemory'
  BY <1>1, <1>2 DEF TypeOK, OwnMemory
<1>7. QED
  BY <1>3, <1>5, <1>6

LEMMA RememberStep ==
    ASSUME IInv, NEW r \in Requests, rememberIdempotentTurn(r)
    PROVE  IInv'
<1> USE DEF IInv
<1>1. PICK f \in SUBSET {Is("body", r), Is("ack", r)} :
          memo' = memo \/ memo' = [memo EXCEPT ![MsgOf[r]] = f]
  <2>1. Said(r) \in SUBSET {Is("body", r), Is("ack", r)}
    BY DEF Said
  <2> QED BY <2>1 DEF rememberIdempotentTurn
<1>2. f \subseteq SaidFor(MsgOf[r])
  BY DEF SaidFor, Is, Message
<1>3. /\ pc[r] = "committed" /\ Goto(r, "finishDone")
      /\ UNCHANGED <<open, messages, snapshots, turn, found, replied, early, history>>
  BY DEF rememberIdempotentTurn
<1>4. /\ pc' \in [Requests -> Points]
      /\ BodyPlace' /\ Settled' /\ DoneStored' /\ BlankSilent' /\ EarlyCancelled'
  <2>1. turn \in [Requests -> Statuses] /\ r \notin early
    BY <1>3 DEF TypeOK, EarlyCancelled, Committing
  <2>2. "finishDone" \in Points /\ "finishDone" \in AfterCommit
    BY DEF Points, AfterCommit
  <2>3. QED
    BY <1>3, <2>1, <2>2, MoveStep DEF history
<1>5. memo' \in [Msgs -> SUBSET Message]
  BY <1>1, <1>2 DEF TypeOK, SaidFor
<1>6. TypeOK'
  BY <1>3, <1>4, <1>5 DEF history, TypeOK
<1>7. OwnMemory'
  BY <1>1, <1>2, <1>3 DEF TypeOK, OwnMemory
<1>8. QED
  BY <1>4, <1>6, <1>7

\* A turn whose answer has no text goes on as if it had stored one.
LEMMA BlankStep ==
    ASSUME IInv, NEW r \in Requests, CommitNothing(r)
    PROVE  IInv'
<1> USE DEF IInv
<1>1. /\ pc[r] = "committing" /\ Goto(r, "committed") /\ blank' = blank \cup {r}
      /\ snapshots' = snapshots \cup {messages}
      /\ UNCHANGED <<open, messages, memo, turn, found, replied, early, sharing, mixing,
                     restarts>>
  BY DEF CommitNothing, Persist
<1>2. /\ pc' \in [Requests -> Points]
      /\ BodyPlace' /\ Settled' /\ DoneStored' /\ BlankSilent' /\ EarlyCancelled'
  <2>1. turn \in [Requests -> Statuses] /\ r \notin early
    BY <1>1 DEF TypeOK, EarlyCancelled, Committing
  <2>2. "committed" \in Points /\ "committed" \in AfterCommit
    BY DEF Points, AfterCommit
  <2> QED BY <1>1, <2>1, <2>2, MoveStep
<1>3. TypeOK'
  BY <1>1, <1>2 DEF TypeOK
<1>4. OwnMemory'
  BY <1>1 DEF OwnMemory
<1> QED BY <1>2, <1>3, <1>4

-----------------------------------------------------------------------------
\* The steps that append a message: it is an answer exactly at the commit.
LEMMA SpeakStep ==
    ASSUME IInv, NEW r \in Requests, NEW part \in {"text", "ack", "body"},
           Say(part, r), NEW p \in {"asked", "running", "committed"}, Goto(r, p),
           part = "body" <=> p = "committed",
           p = "committed" => pc[r] = "committing",
           pc[r] \notin AfterCommit,
           snapshots' \subseteq snapshots \cup {messages'},
           UNCHANGED <<open, memo, turn, found, replied, early, history>>
    PROVE  IInv'
<1> USE DEF IInv
<1>1. /\ messages' \in Seq(Message)
      /\ \A q \in Requests : HasBody(messages', q) <=> \/ HasBody(messages, q)
                                                       \/ q = r /\ part = "body"
  BY SayStep
<1>2. /\ pc' \in [Requests -> Points]
      /\ pc'[r] = p
      /\ \A q \in Requests : q # r => pc'[q] = pc[q]
  BY DEF Goto, TypeOK, Points
<1>3. ~ HasBody(messages, r) /\ \A s \in snapshots : ~ HasBody(s, r)
  BY DEF BodyPlace
<1>4. TypeOK'
  BY <1>1, <1>2 DEF TypeOK, history
<1>5. BodyPlace'
  <2>1. ASSUME NEW q \in Requests, HasBody(messages', q) PROVE pc'[q] \in AfterCommit
    BY <1>1, <1>2, <1>3, <2>1 DEF BodyPlace, AfterCommit
  <2>2. ASSUME NEW q \in Requests, NEW s \in snapshots, HasBody(s, q)
        PROVE  pc'[q] \in AfterCommit
    BY <1>2, <1>3, <2>2 DEF BodyPlace
  <2>3. QED
    BY <2>1, <2>2 DEF BodyPlace
<1>6. Settled'
  BY <1>1, <1>2 DEF Settled, history
<1>7. DoneStored' /\ BlankSilent'
  <2>1. r \notin blank /\ blank' = blank /\ blank \subseteq Requests
    BY DEF BlankSilent, history, TypeOK
  <2>2. DoneStored'
    BY <1>1, <2>1 DEF DoneStored
  <2>3. BlankSilent'
    BY <1>1, <1>2, <2>1 DEF BlankSilent
  <2> QED BY <2>2, <2>3
<1>8. EarlyCancelled'
  <2>1. r \in early => p # "committed"
    BY DEF EarlyCancelled, Committing
  <2>2. QED
    BY <1>1, <1>2, <2>1 DEF EarlyCancelled, TypeOK, Committing
<1>9. OwnMemory'
  BY DEF OwnMemory
<1>10. QED
  BY <1>4, <1>5, <1>6, <1>7, <1>8, <1>9

LEMMA MessageSteps ==
    ASSUME IInv, NEW r \in Requests, AppendUser(r) \/ StartModel(r) \/ Commit(r)
    PROVE  IInv'
<1>1. CASE AppendUser(r)
  BY <1>1, SpeakStep DEF AppendUser, Persist, AfterCommit
<1>2. CASE StartModel(r) /\ MsgOf[r] \in Acked
  BY <1>2, SpeakStep DEF StartModel, AfterCommit
<1>3. CASE StartModel(r) /\ MsgOf[r] \notin Acked
  <2>1. /\ "running" \in Points /\ "running" \notin Committing /\ pc[r] = "asked"
        /\ sharing' \subseteq Msgs /\ mixing' \subseteq Msgs
    BY <1>3 DEF StartModel, Points, Committing, history, IInv, TypeOK
  <2>2. QED
    BY <1>3, <2>1, PlaceStep DEF StartModel, history, AfterCommit
<1>4. CASE Commit(r)
  BY <1>4, SpeakStep DEF Commit, Persist, AfterCommit
<1>5. QED
  BY <1>1, <1>2, <1>3, <1>4

-----------------------------------------------------------------------------
\* A cancellation changes one record, and is in time where a look at the
\* record is still to come.
LEMMA CancelStep ==
    ASSUME IInv, NEW r \in Requests, Cancel(r)
    PROVE  IInv'
<1> USE DEF IInv
<1>1. /\ turn' = [turn EXCEPT ![r] = "cancelled"]
      /\ UNCHANGED <<open, messages, snapshots, memo, pc, found, replied, history>>
      /\ \/ early' = early
         \/ early' = early \cup {r} /\ pc[r] \in BeforeLastLook
  BY DEF Cancel
<1>2. /\ turn' \in [Requests -> Statuses]
      /\ turn'[r] = "cancelled"
      /\ \A q \in Requests : q # r => turn'[q] = turn[q]
  BY <1>1 DEF TypeOK, Statuses
<1>3. TypeOK'
  BY <1>1, <1>2 DEF TypeOK, history
<1>4. BodyPlace' /\ Settled' /\ DoneStored' /\ BlankSilent' /\ OwnMemory'
  BY <1>1, <1>2 DEF BodyPlace, Settled, DoneStored, BlankSilent, OwnMemory, history
<1>5. EarlyCancelled'
  <2>1. pc[r] \in BeforeLastLook => pc[r] \notin Committing /\ ~ HasBody(messages, r)
    BY DEF BeforeLastLook, Committing, BodyPlace, AfterCommit
  <2>2. QED
    BY <1>1, <1>2, <2>1 DEF EarlyCancelled, TypeOK
<1>6. QED
  BY <1>3, <1>4, <1>5

\* After a restart the answers that are read back belong to requests that
\* are over, and no record is left.
LEMMA RestartStep ==
    ASSUME IInv, Restart
    PROVE  IInv'
<1> USE DEF IInv
<1>1. /\ messages' \in snapshots /\ snapshots' = {messages'}
      /\ memo' = [m \in Msgs |-> {}]
      /\ turn' = [r \in Requests |-> "none"]
      /\ pc' = [r \in Requests |-> IF Running(r) THEN "lost" ELSE pc[r]]
      /\ early' = {} /\ blank' = {}
      /\ restarts' \in 0 .. MaxRestarts
      /\ UNCHANGED <<open, found, replied, sharing, mixing>>
  BY DEF Restart, TypeOK
<1>2. TypeOK'
  BY <1>1 DEF TypeOK, Statuses, Points, Ended
<1>3. BodyPlace'
  BY <1>1 DEF BodyPlace, AfterCommit
<1>4. Settled'
  <2>1. \A r \in Requests : pc'[r] \in Ended \cup {"idle"}
    BY <1>1 DEF Running, Ended
  <2>2. QED
    BY <2>1 DEF Settled, Ended
<1>5. DoneStored' /\ BlankSilent' /\ EarlyCancelled'
  BY <1>1 DEF DoneStored, BlankSilent, EarlyCancelled
<1>6. OwnMemory'
  BY <1>1 DEF OwnMemory
<1>7. QED
  BY <1>2, <1>3, <1>4, <1>5, <1>6

LEMMA NextInv == IInv /\ [Next]_vars => IInv'
<1> SUFFICES ASSUME IInv, [Next]_vars PROVE IInv'
  OBVIOUS
<1>1. CASE UNCHANGED vars \/ CloseSession
  BY <1>1 DEF vars, CloseSession, history, IInv, TypeOK, BodyPlace, Settled,
              DoneStored, BlankSilent, EarlyCancelled, OwnMemory
<1>2. ASSUME NEW r \in Requests, Admit(r) \/ Refuse(r) \/ Serve(r) \/ Cancel(r)
      PROVE  IInv'
  BY <1>2, PlainSteps, RegisterStoreStep, FinishStoreStep, LoadStep, ReplayStep,
     RememberStep, BlankStep, MessageSteps, CancelStep DEF Serve
<1>3. CASE Restart
  BY <1>3, RestartStep
<1>4. QED
  BY <1>1, <1>2, <1>3 DEF Next

LEMMA Inductive == Spec => []IInv
BY InitInv, NextInv, PTL DEF Spec

\* The two ways to say that the answer of a request is in the messages.
LEMMA BodyAnswers ==
    ASSUME NEW r \in Requests
    PROVE  AnsweredBy(r) <=> HasBody(messages, r)
BY DEF AnsweredBy, Stored, HasBody

\* Messages, records and memory are well formed in every reachable state.
THEOREM TypeCorrect == Spec => []TypeOK
<1>1. IInv => TypeOK
  BY DEF IInv
<1>2. QED
  BY <1>1, Inductive, PTL

\* A turn cancelled before its last look at its record never stores an answer.
THEOREM CancelledTurnsStoreNothing == Spec => []CancelledStoresNothing
<1>1. IInv => CancelledStoresNothing
  BY BodyAnswers DEF IInv, TypeOK, EarlyCancelled, CancelledStoresNothing
<1>2. QED
  BY <1>1, Inductive, PTL

\* Whatever interleaves and restarts, a replay holds what was said for the
\* message that is repeated.
THEOREM ReplaysAreOwn == Spec => []ReplayIsOwn
<1>1. IInv => ReplayIsOwn
  BY DEF IInv, OwnMemory, SaidFor, ReplayIsOwn
<1>2. QED
  BY <1>1, Inductive, PTL

\* A record that says done is never ahead of the conversation, but for a turn
\* whose answer had no text to store.
THEOREM DoneTurnsHaveAnswers == Spec => []DoneHasAnswer
<1>1. IInv => DoneHasAnswer
  BY BodyAnswers DEF IInv, DoneStored, DoneHasAnswer
<1>2. QED
  BY <1>1, Inductive, PTL

-----------------------------------------------------------------------------
(***************************************************************************)
(* A message is answered once (AnsweredOnce), for any constants of         *)
(* CopilotTurn, restarts included.                                         *)
(*                                                                         *)
(* A request that runs the model found nothing when it looked              *)
(* (Unanswered).  That it would have found an answer has two reasons.      *)
(* Before the first restart the memory of answers holds it or is about to  *)
(* (Remembered); after one, the messages do, for a message whose turns     *)
(* never ran beside others: its answer follows its question with no other  *)
(* question in between (AnswersFindable), because the question stays the   *)
(* last one until the commit (QuestionLast).                               *)
(***************************************************************************)

Asking == {"asked", "running", "answered", "committing"}
Thinking == Asking \cup {"fresh"}

\* In messages s: r's answer follows r's question with no question in between.
Findable(s, r) ==
    \E i, j \in DOMAIN s :
        /\ i < j
        /\ s[i].by = r /\ s[i].part = "text"
        /\ s[j].by = r /\ s[j].part = "body"
        /\ \A k \in i + 1 .. j : s[k].part # "text"

\* r's question is the last one of s.
LastAsks(s, r) ==
    \E i \in DOMAIN s :
        /\ s[i].by = r /\ s[i].part = "text"
        /\ \A k \in DOMAIN s : k > i => s[k].part # "text"

\* The messages AnsweredOnce speaks of.
Plain(m) == m \notin sharing /\ (restarts = 0 \/ m \notin mixing)

Overlaps == \A q, r \in Requests : q # r /\ Running(q) /\ Running(r) =>
    /\ MsgOf[r] \in mixing
    /\ MsgOf[q] = MsgOf[r] => MsgOf[r] \in sharing

Unanswered == \A q, r \in Requests :
    pc[q] \in Thinking /\ MsgOf[r] = MsgOf[q] /\ Plain(MsgOf[q]) => ~ HasBody(messages, r)

Remembered == \A r \in Requests :
    restarts = 0 /\ HasBody(messages, r) => memo[MsgOf[r]] # {} \/ pc[r] = "committed"

AnswersFindable == \A s \in snapshots \cup {messages}, r \in Requests :
    MsgOf[r] \notin mixing /\ HasBody(s, r) => Findable(s, r)

QuestionLast == \A r \in Requests :
    pc[r] \in Asking /\ MsgOf[r] \notin mixing => LastAsks(messages, r)

OneAnswer == \A s \in snapshots \cup {messages}, q, r \in Requests :
    MsgOf[q] = MsgOf[r] /\ Plain(MsgOf[r]) /\ HasBody(s, q) /\ HasBody(s, r) => q = r

ScannedFound == \A r \in Requests : pc[r] = "scanned" => found[r] # {}

Answering == /\ Overlaps
             /\ Unanswered
             /\ Remembered
             /\ AnswersFindable
             /\ QuestionLast
             /\ OneAnswer
             /\ ScannedFound

AInv == IInv /\ Answering

-----------------------------------------------------------------------------
LEMMA AInit == Init => Answering
<1> SUFFICES ASSUME Init PROVE Answering
  OBVIOUS
<1>1. \A s \in snapshots \cup {messages}, r \in Requests : ~ HasBody(s, r)
  BY DEF Init, HasBody
<1>2. \A r \in Requests : pc[r] = "idle" /\ ~ Running(r)
  BY DEF Init, Running
<1> QED
  BY <1>1, <1>2
  DEF Answering, Overlaps, Unanswered, Remembered, AnswersFindable, QuestionLast,
      OneAnswer, ScannedFound, Thinking, Asking

\* What an appended message does to questions and answers.
LEMMA AppendKeeps ==
    ASSUME NEW s \in Seq(Message), NEW x \in Message, NEW q \in Requests
    PROVE  LET t == Append(s, x)
           IN  /\ Findable(s, q) => Findable(t, q)
               /\ LastAsks(s, q) /\ x.part # "text" => LastAsks(t, q)
               /\ x.part = "text" /\ x.by = q => LastAsks(t, q)
               /\ LastAsks(s, q) /\ x.part = "body" /\ x.by = q => Findable(t, q)
<1> DEFINE t == Append(s, x)
<1>1. /\ Len(s) \in Nat
      /\ DOMAIN s = 1 .. Len(s)
      /\ DOMAIN t = 1 .. Len(s) + 1
      /\ \A i \in 1 .. Len(s) : t[i] = s[i]
      /\ t[Len(s) + 1] = x
  BY AppendProperties
<1> HIDE DEF t
<1>2. ASSUME Findable(s, q) PROVE Findable(t, q)
  <2>1. PICK i \in DOMAIN s, j \in DOMAIN s :
            /\ i < j
            /\ s[i].by = q /\ s[i].part = "text"
            /\ s[j].by = q /\ s[j].part = "body"
            /\ \A k \in i + 1 .. j : s[k].part # "text"
    BY <1>2 DEF Findable
  <2>2. i \in DOMAIN t /\ j \in DOMAIN t /\ \A k \in i + 1 .. j : t[k] = s[k]
    BY <1>1, <2>1
  <2> QED BY <1>1, <2>1, <2>2 DEF Findable
<1>3. ASSUME LastAsks(s, q), x.part # "text" PROVE LastAsks(t, q)
  BY <1>1, <1>3 DEF LastAsks
<1>4. ASSUME x.part = "text", x.by = q PROVE LastAsks(t, q)
  BY <1>1, <1>4 DEF LastAsks
<1>5. ASSUME LastAsks(s, q), x.part = "body", x.by = q PROVE Findable(t, q)
  <2>1. PICK i \in DOMAIN s :
            /\ s[i].by = q /\ s[i].part = "text"
            /\ \A k \in DOMAIN s : k > i => s[k].part # "text"
    BY <1>5 DEF LastAsks
  <2> DEFINE j == Len(s) + 1
  <2>2. i \in DOMAIN t /\ j \in DOMAIN t /\ i < j /\ t[i] = s[i] /\ t[j] = x
    BY <1>1
  <2>3. \A k \in i + 1 .. j : t[k].part # "text"
    BY <1>1, <1>5, <2>1
  <2> QED BY <1>5, <2>1, <2>2, <2>3 DEF Findable
<1> QED BY <1>2, <1>3, <1>4, <1>5 DEF t

\* An answer that can be found is found by the search of the messages.
LEMMA ScanFinds ==
    ASSUME TypeOK, NEW r \in Requests, Findable(messages, r)
    PROVE  Scan(MsgOf[r]) # {}
<1>1. PICK i \in DOMAIN messages, j \in DOMAIN messages :
          /\ i < j
          /\ messages[i].by = r /\ messages[i].part = "text"
          /\ messages[j].by = r /\ messages[j].part = "body"
          /\ \A k \in i + 1 .. j : messages[k].part # "text"
  BY DEF Findable
<1>2. messages[j] \in Reply(i)
  <2>1. j > i
    BY <1>1 DEF TypeOK
  <2>2. j \in Following(i)
    BY <1>1, <2>1 DEF Following, Asks
  <2> QED BY <1>1, <2>2 DEF Reply
<1>3. i \in Questions(MsgOf[r])
  BY <1>1, <1>2 DEF Questions, Asks
<1>4. Questions(MsgOf[r]) \in SUBSET Nat
  BY DEF Questions, TypeOK
<1>5. PICK n \in Questions(MsgOf[r]) : Scan(MsgOf[r]) = Reply(n)
  <2>1. \E n \in Questions(MsgOf[r]) : \A k \in Questions(MsgOf[r]) : n <= k
    BY <1>3, <1>4, Least
  <2> QED BY <1>3, <2>1 DEF Scan
<1> QED BY <1>5 DEF Questions

-----------------------------------------------------------------------------
\* A request moves on and no message is added.
LEMMA MoveAnswering ==
    ASSUME AInv, NEW r \in Requests, NEW p, Goto(r, p),
           UNCHANGED <<messages, sharing, mixing, restarts>>,
           snapshots' \subseteq snapshots \cup {messages},
           Running(r) \/ p \in Ended,
           \A m \in Msgs : memo[m] # {} => memo'[m] # {},
           pc[r] = "committed" /\ HasBody(messages, r) => memo'[MsgOf[r]] # {},
           p \in Asking => pc[r] \in Asking,
           p \in Thinking =>
               \/ pc[r] \in Thinking
               \/ Plain(MsgOf[r]) =>
                      \A q \in Requests : MsgOf[q] = MsgOf[r] => ~ HasBody(messages, q),
           \A q \in Requests : q # r => found'[q] = found[q],
           p = "scanned" => found'[r] # {}
    PROVE  Answering'
<1> USE DEF AInv, Answering
<1>1. /\ pc'[r] = p
      /\ \A q \in Requests : q # r => pc'[q] = pc[q]
  BY DEF Goto, IInv, TypeOK
<1>2. \A q \in Requests : Running(q)' => Running(q)
  BY <1>1 DEF Running
<1>3. \A m \in Msgs : Plain(m)' = Plain(m)
  BY DEF Plain
<1>4. Overlaps'
  BY <1>2 DEF Overlaps
<1>5. Unanswered'
  BY <1>1, <1>3 DEF Unanswered
<1>6. Remembered'
  BY <1>1 DEF Remembered
<1>7. AnswersFindable' /\ OneAnswer'
  BY <1>3 DEF AnswersFindable, OneAnswer
<1>8. QuestionLast'
  BY <1>1 DEF QuestionLast
<1>9. ScannedFound'
  BY <1>1 DEF ScannedFound
<1> QED BY <1>4, <1>5, <1>6, <1>7, <1>8, <1>9

\* A request that arrives is alone, or is noted as running beside others.
LEMMA AdmitAnswering ==
    ASSUME AInv, NEW r \in Requests, Admit(r)
    PROVE  Answering'
<1> USE DEF AInv, Answering
<1> DEFINE others == {q \in Requests \ {r} : Running(q)}
<1>1. /\ pc[r] = "idle" /\ pc'[r] = "checked"
      /\ \A q \in Requests : q # r => pc'[q] = pc[q]
      /\ UNCHANGED <<messages, snapshots, memo, found, restarts>>
  BY DEF Admit, Goto, IInv, TypeOK
<1>2. /\ sharing' = sharing \cup {MsgOf[q] : q \in {y \in others : MsgOf[y] = MsgOf[r]}}
      /\ mixing' = mixing \cup {MsgOf[q] : q \in others}
                          \cup (IF others = {} THEN {} ELSE {MsgOf[r]})
  BY DEF Admit
<1>3. \A m \in Msgs : Plain(m)' => Plain(m)
  BY <1>1, <1>2 DEF Plain
<1>4. Overlaps'
  <2> SUFFICES ASSUME NEW q \in Requests, NEW x \in Requests, q # x, Running(q)', Running(x)'
               PROVE  /\ MsgOf[x] \in mixing'
                      /\ MsgOf[q] = MsgOf[x] => MsgOf[x] \in sharing'
    BY DEF Overlaps
  <2>1. CASE q # r /\ x # r
    <3>1. Running(q) /\ Running(x)
      BY <1>1, <2>1 DEF Running
    <3> QED BY <1>2, <3>1 DEF Overlaps
  <2>2. CASE q = r
    <3>1. x \in others
      BY <1>1, <2>2 DEF Running
    <3> QED BY <1>2, <2>2, <3>1
  <2>3. CASE x = r
    <3>1. q \in others
      BY <1>1, <2>3 DEF Running
    <3> QED BY <1>2, <2>3, <3>1
  <2> QED BY <2>1, <2>2, <2>3
<1> HIDE DEF others
<1>5. \A q \in Requests : /\ pc'[q] \in Thinking => pc[q] \in Thinking
                          /\ pc'[q] \in Asking => pc[q] \in Asking
                          /\ pc[q] = "committed" => pc'[q] = "committed"
                          /\ pc'[q] = "scanned" => pc[q] = "scanned"
  BY <1>1 DEF Thinking, Asking
<1>6. Unanswered' /\ Remembered' /\ ScannedFound'
  BY <1>1, <1>3, <1>5 DEF Unanswered, Remembered, ScannedFound
<1>7. AnswersFindable' /\ QuestionLast' /\ OneAnswer'
  BY <1>1, <1>2, <1>3, <1>5 DEF AnswersFindable, QuestionLast, OneAnswer
<1> QED BY <1>4, <1>6, <1>7

\* The look at the memory and at the messages finds the answer there is.
LEMMA LoadAnswering ==
    ASSUME AInv, NEW r \in Requests, loadIdempotentTurn(r)
    PROVE  Answering'
<1> USE DEF AInv, Answering
<1>1. /\ pc[r] = "registered" /\ Running(r) /\ MsgOf[r] \in Msgs
      /\ UNCHANGED <<messages, snapshots, memo, sharing, mixing, restarts>>
  BY DEF loadIdempotentTurn, Running, Ended, history
<1>2. CASE memo[MsgOf[r]] # {}
  <2>1. Goto(r, "replayed") /\ UNCHANGED found
    BY <1>2 DEF loadIdempotentTurn
  <2>2. "replayed" \notin Thinking /\ "replayed" \notin Asking
    BY DEF Thinking, Asking
  <2> QED BY <1>1, <2>1, <2>2, MoveAnswering
<1>3. CASE memo[MsgOf[r]] = {} /\ Scan(MsgOf[r]) # {}
  <2>1. Goto(r, "scanned") /\ found' = [found EXCEPT ![r] = Scan(MsgOf[r])]
    BY <1>3 DEF loadIdempotentTurn
  <2>2. /\ found'[r] # {}
        /\ \A q \in Requests : q # r => found'[q] = found[q]
    BY <1>3, <2>1 DEF IInv, TypeOK
  <2>3. "scanned" \notin Thinking /\ "scanned" \notin Asking
    BY DEF Thinking, Asking
  <2> QED BY <1>1, <2>1, <2>2, <2>3, MoveAnswering
<1>4. CASE memo[MsgOf[r]] = {} /\ Scan(MsgOf[r]) = {}
  <2>1. Goto(r, "fresh") /\ found' = [found EXCEPT ![r] = {}]
    BY <1>4 DEF loadIdempotentTurn
  <2>2. \A q \in Requests : q # r => found'[q] = found[q]
    BY <2>1 DEF IInv, TypeOK
  <2>3. ASSUME Plain(MsgOf[r]), NEW q \in Requests, MsgOf[q] = MsgOf[r], HasBody(messages, q)
        PROVE  FALSE
    <3>1. ~ Findable(messages, q)
      BY <1>4, <2>3, ScanFinds DEF IInv
    <3>2. restarts = 0
      BY <2>3, <3>1 DEF Plain, AnswersFindable
    <3>3. pc[q] = "committed"
      BY <1>4, <2>3, <3>2 DEF Remembered
    <3>4. q # r /\ Running(q)
      BY <1>1, <3>3 DEF Running, Ended
    <3> QED BY <1>1, <2>3, <3>4 DEF Overlaps, Plain
  <2>4. "fresh" \notin Asking
    BY DEF Asking
  <2> QED BY <1>1, <2>1, <2>2, <2>3, <2>4, MoveAnswering
<1> QED BY <1>2, <1>3, <1>4

\* The steps of a request that add no message and remember no answer.
LEMMA PlainAnswering ==
    ASSUME AInv, NEW r \in Requests,
           \/ Refuse(r) \/ RegisterLoad(r) \/ RegisterStore(r) \/ Deny(r)
           \/ ModelReturns(r) \/ Meter(r) \/ FinishLoad(r) \/ FinishStore(r)
           \/ StartModel(r) /\ MsgOf[r] \notin Acked
           \/ CommitNothing(r)
    PROVE  Answering'
<1>1. PICK p \in Points :
          /\ Goto(r, p)
          /\ Running(r) \/ p \in Ended
          /\ p \in Asking => pc[r] \in Asking
          /\ p \notin {"fresh", "scanned"} /\ pc[r] # "committed"
  <2>1. CASE Refuse(r)
    BY <2>1 DEF Refuse, Points, Ended, Asking
  <2>2. CASE RegisterLoad(r)
    BY <2>2 DEF RegisterLoad, Points, Ended, Asking, Running
  <2>3. CASE RegisterStore(r)
    BY <2>3 DEF RegisterStore, Points, Ended, Asking, Running
  <2>4. CASE Deny(r)
    BY <2>4 DEF Deny, Points, Ended, Asking, Running
  <2>5. CASE ModelReturns(r) \/ Meter(r)
    BY <2>5 DEF ModelReturns, Meter, Points, Ended, Asking, Running
  <2>6. CASE FinishLoad(r)
    BY <2>6 DEF FinishLoad, Points, Ended, Asking, Running
  <2>7. CASE FinishStore(r)
    BY <2>7 DEF FinishStore, Points, Ended, Asking, Running
  <2>8. CASE StartModel(r) /\ MsgOf[r] \notin Acked
    BY <2>8 DEF StartModel, Points, Ended, Asking, Running
  <2>9. CASE CommitNothing(r)
    BY <2>9 DEF CommitNothing, Points, Ended, Asking, Running
  <2> QED BY <2>1, <2>2, <2>3, <2>4, <2>5, <2>6, <2>7, <2>8, <2>9
<1>2. /\ UNCHANGED <<messages, memo, found, sharing, mixing, restarts>>
      /\ snapshots' \subseteq snapshots \cup {messages}
  BY DEF Refuse, RegisterLoad, RegisterStore, Deny, ModelReturns, Meter, FinishLoad,
         FinishStore, StartModel, CommitNothing, Persist, history
<1>3. p \in Thinking => pc[r] \in Thinking
  BY <1>1 DEF Thinking
<1> QED BY <1>1, <1>2, <1>3, MoveAnswering

\* The steps that remember an answer.
LEMMA RememberAnswering ==
    ASSUME AInv, NEW r \in Requests, ReplayScanned(r) \/ rememberIdempotentTurn(r)
    PROVE  Answering'
<1>1. \/ \E f : memo' = [memo EXCEPT ![MsgOf[r]] = f] /\ f # {}
      \/ memo' = memo /\ r \in blank
  <2>1. CASE ReplayScanned(r)
    BY <2>1 DEF ReplayScanned, AInv, Answering, ScannedFound
  <2>2. CASE rememberIdempotentTurn(r) /\ Said(r) # {}
    <3> DEFINE g == Said(r)
    <3>1. memo' = [memo EXCEPT ![MsgOf[r]] = g] /\ g # {}
      BY <2>2 DEF rememberIdempotentTurn
    <3> HIDE DEF g
    <3> QED BY <3>1
  <2>3. CASE rememberIdempotentTurn(r) /\ Said(r) = {}
    <3>1. r \in blank
      BY <2>3 DEF Said
    <3> QED BY <2>3, <3>1 DEF rememberIdempotentTurn
  <2> QED BY <2>1, <2>2, <2>3
<1>2. /\ HasBody(messages, r) => memo'[MsgOf[r]] # {}
      /\ \A m \in Msgs : memo[m] # {} => memo'[m] # {}
  BY <1>1 DEF AInv, IInv, TypeOK, BlankSilent
<1>3. PICK p \in {"replayed", "finishDone"} : Goto(r, p) /\ Running(r)
  BY DEF ReplayScanned, rememberIdempotentTurn, Running, Ended
<1>4. p \notin Thinking /\ p \notin Asking
  BY DEF Thinking, Asking
<1>5. UNCHANGED <<messages, snapshots, found, sharing, mixing, restarts>>
  BY DEF ReplayScanned, rememberIdempotentTurn, history
<1> QED BY <1>2, <1>3, <1>4, <1>5, MoveAnswering

-----------------------------------------------------------------------------
\* A message is added: a question when nobody answered, an ack, or the answer.
LEMMA SpeakAnswering ==
    ASSUME AInv, NEW r \in Requests, AppendUser(r) \/ StartModel(r) \/ Commit(r),
           NEW part \in {"text", "ack", "body"}, Say(part, r)
    PROVE  Answering'
<1> USE DEF AInv, Answering
<1>1. PICK p \in Points : /\ Goto(r, p)
                          /\ pc[r] \in Thinking /\ p \in Asking \cup {"committed"}
                          /\ pc[r] \in Asking \/ part = "text"
                          /\ part = "body" <=> p = "committed"
  <2>1. Is(part, r).part = part /\ Is("text", r).part = "text"
        /\ Is("ack", r).part = "ack" /\ Is("body", r).part = "body"
    BY DEF Is
  <2>2. ASSUME NEW other \in {"text", "ack", "body"}, Say(other, r) PROVE other = part
    <3>1. Append(messages, Is(other, r)) = Append(messages, Is(part, r))
      BY <2>2 DEF Say
    <3>2. Is(other, r) \in Message /\ Is(part, r) \in Message /\ messages \in Seq(Message)
      BY DEF Is, Message, IInv, TypeOK
    <3>3. Is(other, r) = Is(part, r)
      BY <3>1, <3>2, AppendProperties
    <3> QED BY <2>1, <3>3 DEF Is
  <2>3. CASE AppendUser(r)
    BY <2>2, <2>3 DEF AppendUser, Points, Thinking, Asking
  <2>4. CASE StartModel(r)
    <3>1. messages' # messages
      <4>1. Is(part, r) \in Message /\ messages \in Seq(Message)
        BY DEF Is, Message, IInv, TypeOK
      <4>2. Len(messages') = Len(messages) + 1 /\ Len(messages) \in Nat
        BY <4>1, AppendProperties DEF Say
      <4> QED BY <4>2
    <3> QED BY <2>2, <2>4, <3>1 DEF StartModel, Points, Thinking, Asking
  <2>5. CASE Commit(r)
    BY <2>2, <2>5 DEF Commit, Points, Thinking, Asking
  <2> QED BY <2>3, <2>4, <2>5
<1>2. UNCHANGED <<memo, found, sharing, mixing, restarts>>
      /\ snapshots' \subseteq snapshots \cup {messages'}
  BY DEF AppendUser, StartModel, Commit, Persist, history
<1>3. /\ pc'[r] = p
      /\ \A q \in Requests : q # r => pc'[q] = pc[q]
  BY <1>1 DEF Goto, IInv, TypeOK
<1>4. /\ messages \in Seq(Message) /\ Is(part, r) \in Message
      /\ messages' = Append(messages, Is(part, r))
      /\ Is(part, r).by = r /\ Is(part, r).part = part
  BY DEF Say, Is, Message, IInv, TypeOK
<1>5. \A q \in Requests :
          HasBody(messages', q) <=> HasBody(messages, q) \/ (q = r /\ part = "body")
  BY SayStep DEF IInv
<1>6. \A q \in Requests :
          /\ Findable(messages, q) => Findable(messages', q)
          /\ LastAsks(messages, q) /\ part # "text" => LastAsks(messages', q)
          /\ part = "text" /\ r = q => LastAsks(messages', q)
          /\ LastAsks(messages, q) /\ part = "body" /\ r = q => Findable(messages', q)
  BY <1>4, AppendKeeps
<1>7. Running(r) /\ \A q \in Requests : Running(q)' => Running(q)
  BY <1>1, <1>3 DEF Running, Ended, Thinking, Asking
<1>8. \A m \in Msgs : Plain(m)' = Plain(m)
  BY <1>2 DEF Plain
<1>9. \A q \in Requests : MsgOf[q] = MsgOf[r] /\ Plain(MsgOf[r]) => ~ HasBody(messages, q)
  BY <1>1 DEF Unanswered
<1>10. Overlaps'
  BY <1>2, <1>7 DEF Overlaps
<1>11. Unanswered'
  <2> SUFFICES ASSUME NEW q \in Requests, NEW x \in Requests, pc'[q] \in Thinking,
                      MsgOf[x] = MsgOf[q], Plain(MsgOf[q])
               PROVE  ~ HasBody(messages', x)
    BY <1>8 DEF Unanswered
  <2>1. CASE part # "body"
    <3>1. pc[q] \in Thinking
      BY <1>1, <1>3
    <3> QED BY <1>5, <2>1, <3>1 DEF Unanswered
  <2>2. CASE part = "body"
    <3>1. q # r
      BY <1>1, <1>3, <2>2 DEF Thinking, Asking
    <3>2. pc[q] \in Thinking /\ Running(q)
      BY <1>3, <3>1 DEF Thinking, Asking, Running, Ended
    <3>3. MsgOf[q] # MsgOf[r]
      BY <1>7, <3>1, <3>2 DEF Overlaps, Plain
    <3> QED BY <1>5, <3>2, <3>3 DEF Unanswered
  <2> QED BY <2>1, <2>2
<1>12. Remembered'
  <2>1. pc[r] # "committed"
    BY <1>1 DEF Thinking, Asking
  <2> QED BY <1>1, <1>2, <1>3, <1>5, <2>1 DEF Remembered
<1>13. AnswersFindable'
  <2> SUFFICES ASSUME NEW q \in Requests, MsgOf[q] \notin mixing, HasBody(messages', q)
               PROVE  Findable(messages', q)
    BY <1>2 DEF AnswersFindable
  <2>1. CASE HasBody(messages, q)
    BY <1>6, <2>1 DEF AnswersFindable
  <2>2. CASE q = r /\ part = "body"
    <3>1. LastAsks(messages, r)
      BY <1>1, <2>2 DEF QuestionLast
    <3> QED BY <1>6, <2>2, <3>1
  <2> QED BY <1>5, <2>1, <2>2
<1>14. QuestionLast'
  <2> SUFFICES ASSUME NEW q \in Requests, pc'[q] \in Asking, MsgOf[q] \notin mixing
               PROVE  LastAsks(messages', q)
    BY <1>2 DEF QuestionLast
  <2>1. CASE q = r
    BY <1>1, <1>6, <2>1 DEF QuestionLast
  <2>2. CASE q # r
    <3>1. Running(q)
      BY <1>3, <2>2 DEF Asking, Running, Ended
    <3> QED BY <1>7, <2>2, <3>1 DEF Overlaps
  <2> QED BY <2>1, <2>2
<1>15. OneAnswer'
  <2> SUFFICES ASSUME NEW q \in Requests, NEW x \in Requests, MsgOf[q] = MsgOf[x],
                      Plain(MsgOf[x]), HasBody(messages', q), HasBody(messages', x)
               PROVE  q = x
    BY <1>2, <1>8 DEF OneAnswer
  <2>1. CASE HasBody(messages, q) /\ HasBody(messages, x)
    BY <2>1 DEF OneAnswer
  <2>2. CASE q = r \/ x = r
    BY <1>5, <1>9, <2>2
  <2> QED BY <1>5, <2>1, <2>2
<1>16. ScannedFound'
  BY <1>1, <1>2, <1>3 DEF ScannedFound, Asking
<1> QED BY <1>10, <1>11, <1>12, <1>13, <1>14, <1>15, <1>16

\* What a restart reads back holds at most one answer of a message that was
\* alone, and one that can be found.
LEMMA RestartAnswering ==
    ASSUME AInv, Restart
    PROVE  Answering'
<1> USE DEF AInv, Answering
<1>1. /\ messages' \in snapshots /\ snapshots' = {messages'}
      /\ \A r \in Requests : pc'[r] \in Ended \cup {"idle"}
      /\ restarts \in Nat /\ restarts' = restarts + 1
      /\ UNCHANGED <<found, sharing, mixing>>
  <2>1. \A r \in Requests : pc'[r] \in Ended \cup {"idle"}
    BY DEF Restart, Running, Ended
  <2>2. restarts \in Nat
    BY DEF IInv, TypeOK
  <2>3. \E s \in snapshots : messages' = s
    BY DEF Restart
  <2> QED BY <2>1, <2>2, <2>3 DEF Restart
<1>2. \A r \in Requests : /\ ~ Running(r)'
                          /\ pc'[r] \notin Thinking /\ pc'[r] \notin Asking
                          /\ pc'[r] # "scanned"
  BY <1>1 DEF Running, Ended, Thinking, Asking
<1>3. restarts' # 0
  BY <1>1
<1>4. \A m \in Msgs : Plain(m)' => Plain(m)
  BY <1>1, <1>3 DEF Plain
<1>5. Overlaps' /\ Unanswered' /\ Remembered' /\ QuestionLast' /\ ScannedFound'
  BY <1>2, <1>3 DEF Overlaps, Unanswered, Remembered, QuestionLast, ScannedFound
<1>6. AnswersFindable' /\ OneAnswer'
  BY <1>1, <1>4 DEF AnswersFindable, OneAnswer
<1> QED BY <1>5, <1>6

LEMMA OtherAnswering ==
    ASSUME AInv, (\E r \in Requests : Cancel(r)) \/ CloseSession \/ UNCHANGED vars
    PROVE  Answering'
<1>1. UNCHANGED <<messages, snapshots, memo, pc, found, sharing, mixing, restarts>>
  BY DEF Cancel, CloseSession, vars, history
<1> QED
  BY <1>1
  DEF AInv, Answering, Overlaps, Unanswered, Remembered, AnswersFindable, QuestionLast,
      OneAnswer, ScannedFound, Plain, Running

LEMMA AStep == AInv /\ [Next]_vars => AInv'
<1> SUFFICES ASSUME AInv, [Next]_vars PROVE Answering'
  BY NextInv DEF AInv
<1>1. ASSUME NEW r \in Requests, Serve(r) PROVE Answering'
  <2>1. CASE AppendUser(r)
    BY <2>1, SpeakAnswering DEF AppendUser
  <2>2. CASE Commit(r)
    BY <2>2, SpeakAnswering DEF Commit
  <2>3. CASE StartModel(r) /\ MsgOf[r] \in Acked
    BY <2>3, SpeakAnswering DEF StartModel
  <2> QED
    BY <1>1, <2>1, <2>2, <2>3, PlainAnswering, LoadAnswering, RememberAnswering DEF Serve
<1>2. ASSUME NEW r \in Requests, Admit(r) \/ Refuse(r) PROVE Answering'
  BY <1>2, AdmitAnswering, PlainAnswering
<1> QED BY <1>1, <1>2, RestartAnswering, OtherAnswering DEF Next

\* A message is answered once: whatever the client repeats after a turn ended,
\* and whatever a restart reads back of turns that ran alone.
THEOREM MessagesAnsweredOnce == Spec => []AnsweredOnce
<1>1. AInv => AnsweredOnce
  <2> SUFFICES ASSUME AInv, NEW m \in Msgs, Plain(m)
               PROVE  Cardinality(Answers(m)) <= 1
    BY DEF AnsweredOnce, Plain, AInv, IInv, TypeOK
  <2>1. ASSUME NEW q \in Answers(m), NEW r \in Answers(m) PROVE q = r
    BY <2>1, BodyAnswers DEF Answers, AInv, Answering, OneAnswer
  <2>2. CASE Answers(m) = {}
    <3>1. Cardinality(Answers(m)) = 0
      BY <2>2, FS_EmptySet, Zenon
    <3> QED BY <3>1
  <2>3. CASE Answers(m) # {}
    <3>1. PICK r \in Answers(m) : TRUE
      BY <2>3
    <3>2. Answers(m) = {r}
      BY <2>1, <3>1
    <3>3. Cardinality(Answers(m)) = 1
      BY <3>2, FS_Singleton, Zenon
    <3> QED BY <3>3
  <2> QED BY <2>2, <2>3
<1>2. Init => AInv
  BY InitInv, AInit DEF AInv
<1> QED BY <1>1, <1>2, AStep, PTL DEF Spec
=============================================================================
