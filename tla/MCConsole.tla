------------------------------ MODULE MCConsole ------------------------------
(***************************************************************************)
(* The console's domains and the delivery tools of two skills, one         *)
(* behaviour for each: ConsoleSpec, with its theorems, and the questions   *)
(* that only the run answers.                                              *)
(***************************************************************************)
EXTENDS ConsoleProofs

-----------------------------------------------------------------------------
(* One property for each question, asked of every domain it concerns. *)

\* The rows of every domain have the shapes the client declares.
TypeOK ==
    CASE which = "tasks" -> Rules!Tasks!TypeOK
      [] which = "access" -> Rules!Access!TypeOK
      [] which = "employees" -> Rules!Employees!TypeOK
      [] which = "workflows" -> Rules!Workflows!TypeOK
      [] which = "orchestration" -> Orch!TypeOK
      [] which = "canvas" -> Pages!Canvas!TypeOK
      [] which = "models" -> Models!TypeOK
      [] which = "connect" -> Pages!Connect!TypeOK
      [] which = "skills" -> Rules!Skills!TypeOK
      [] which = "knowledge" -> Rules!Knowledge!TypeOK
      [] which = "channels" -> Channels!TypeOK
      [] which = "memory" -> Memory!TypeOK
      [] which = "composer" -> Pages!Composer!TypeOK
      [] which = "sessions" -> Pages!Sessions!TypeOK
      [] which = "approvals" -> Pages!Approvals!TypeOK
      [] which = "sheets" -> Pages!Sheets!TypeOK
      [] which = "decks" -> Pages!Decks!TypeOK
      [] which = "drawer" -> Drawer!TypeOK
      [] which = "home" -> Home!TypeOK
      [] which = "media" -> Pages!Media!TypeOK
      [] which = "stream" -> Stream!TypeOK

\* What is derived agrees with what it derives from: what the pages compute
\* comes to rest, the figures of two pages agree, and a reply that is complete
\* shows what its stream brought.
DerivedAgrees ==
    /\ which = "orchestration" => Orch!SessionPointsRight
    /\ which = "composer" => Pages!Composer!UploadsUnderWay /\ Pages!Composer!NeverDemo
    /\ which = "sessions" => Pages!Sessions!EffectsSettle /\ Pages!Sessions!SelectionShown
    /\ which = "drawer" => Drawer!DrawerSettles /\ Drawer!FiguresAgree
    /\ which = "home" => Home!PagesAgree /\ Home!TrendMoves
    /\ which = "stream" => Stream!CompletedAsHeard /\ Stream!ThoughtsMerged
=============================================================================
