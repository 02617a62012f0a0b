---------------------------- MODULE MCServerLive ----------------------------
(***************************************************************************)
(* What must eventually happen in the server, asked of each component with *)
(* the fairness of its own scheduling: the goroutines that write a durable *)
(* collection, the executions of approved actions, the turns of a          *)
(* conversation and the panels of specialists.  The components share no    *)
(* variable, so the first state picks which one a behaviour is about.      *)
(***************************************************************************)
EXTENDS SpecialistPanel

CONSTANTS d1, d2, h1, h2, j1, j2,              \* DurableCollection
          a1, a2, u1, u2, e1, e2, w1,          \* ActionAuthorization
          r1, r2, m1, m2,                      \* CopilotTurn
          None

VARIABLES
    which,
    live, obj, made, handed, clashed, rows, job, purge, hPc, arg, removed,
    clean, faults, crashes,
    status, req, decided, step, typed, nextRun, aOpen, taskDone, ex,
    overlapped, wins, aRestarts,
    tOpen, messages, snapshots, memo, turn, tPc, found, replied, early,
    sharing, mixing, blank, tRestarts

Docs == {d1, d2}
Handlers == {h1, h2}
Jobs == {j1, j2}
Collection == INSTANCE DurableCollection WITH
    NoDoc <- None, MaxVersion <- 1, MaxMade <- 1, MaxFaults <- 0,
    MaxCrashes <- 0, Named <- FALSE, Copied <- FALSE, pc <- hPc

\* u1 is a member without any right to approve, who asked for a1; an agent
\* asked for a2, whose tool may not run.
Actions == {a1, a2}
Users == {u1, u2}
Executors == {e1, e2}
Writes == {w1}
Approvers == {u2}
Requester == [a \in Actions |-> IF a = a1 THEN u1 ELSE None]
Shape == [a \in Actions |-> IF a = a1 THEN "write" ELSE "call"]
Blocked == {a2}
Execution == INSTANCE ActionAuthorization WITH
    NoUser <- None, NoAction <- None, NoStep <- None, MaxRestarts <- 0,
    open <- aOpen, restarts <- aRestarts

\* Two requests that repeat one message.
Requests == {r1, r2}
Msgs == {m1, m2}
MsgOf == [r \in Requests |-> m1]
Acked == {m1}
Turn == INSTANCE CopilotTurn WITH
    MaxRestarts <- 1, open <- tOpen, pc <- tPc, restarts <- tRestarts

\* The turn of the panel picks every specialist.
AllPicked == [t \in Turns |-> Specialists]

collectionVars == <<live, obj, made, handed, clashed, rows, job, purge, hPc, arg,
                    removed, clean, faults, crashes>>
executionVars == <<status, req, decided, step, typed, nextRun, aOpen, taskDone,
                   ex, overlapped, wins, aRestarts>>
turnVars == <<tOpen, messages, snapshots, memo, turn, tPc, found, replied, early,
              sharing, mixing, blank, tRestarts>>
serverVars == <<which, collectionVars, executionVars, turnVars, vars>>

ServerInit ==
    /\ which \in {"collection", "execution", "turn", "panel"}
    /\ Collection!Init /\ Execution!Init /\ Turn!Init /\ Init

ServerNext ==
    /\ UNCHANGED which
    /\ \/ /\ which = "collection" /\ Collection!Next
          /\ UNCHANGED <<executionVars, turnVars, vars>>
       \/ /\ which = "execution" /\ Execution!Next
          /\ UNCHANGED <<collectionVars, turnVars, vars>>
       \/ /\ which = "turn" /\ Turn!Next
          /\ UNCHANGED <<collectionVars, executionVars, vars>>
       \/ /\ which = "panel" /\ Next
          /\ UNCHANGED <<collectionVars, executionVars, turnVars>>

\* The fairness each component's module explains.
ServerSpec ==
    /\ ServerInit /\ [][ServerNext]_serverVars
    /\ Collection!Fairness
    /\ \A e \in Executors : WF_executionVars(which = "execution" /\ Execution!ExecutorStep(e))
    /\ \A r \in Requests : WF_turnVars(which = "turn" /\ Turn!Serve(r))
    /\ \A t \in Turns : WF_vars(which = "panel" /\ Supervise(t))
    /\ \A t \in Turns, s \in Specialists : WF_vars(which = "panel" /\ Specialist(t, s))

-----------------------------------------------------------------------------
(***************************************************************************)
(* The liveness of each component, as its module states it of every        *)
(* document, executor and request.  They are interchangeable, so that it   *)
(* is asked of one of them.                                                *)
(***************************************************************************)
\* A document put in memory gets its row.
EventuallyStored == d1 \in live ~> (d1 \in Collection!Stored \cup Collection!twice \/ d1 \notin live)

\* Once nobody asks for another execution, the execution ends.
ExecutionsEnd ==
    Execution!RequestsStop => (ex[e1].pc # "idle" ~> ex[e1].pc = "idle")

\* A turn that stored its user message does not stay running for ever.
TurnsSettle == tPc[r1] = "asked" ~> turn[r1] # "running"

\* The panel's own property, asked of the behaviours about it: every turn
\* ends, whoever panics, refuses or is cancelled.
EveryPanelEnds == which = "panel" => PanelEnds
=============================================================================
