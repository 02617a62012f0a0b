------------------------ MODULE SpreadsheetDelivery ------------------------
(***************************************************************************)
(* The spreadsheets skill: processes that build, recalculate, convert,     *)
(* render and deliver workbooks, and meet only in the files.  A build      *)
(* stages its workbook and renames it over the candidate; a recalculation  *)
(* and a conversion copy onto it; a delivery audits the candidate, draws   *)
(* it, copies it, and audits the copy once it is in place.  Every step     *)
(* between two looks at a shared file is a step of its own, and a process  *)
(* may be killed between any two.  A workbook is one of a few kinds that   *)
(* differ in what the audit looks at, with the serial number of the run    *)
(* that wrote it: two runs never write the same bytes.                     *)
(***************************************************************************)
EXTENDS Naturals, FiniteSets

CONSTANTS
    Procs,        \* the processes
    Deliverers,   \* those of them that deliver
    MaxRuns       \* bound: the commands that are ever started

VARIABLES
    disk,    \* the files that processes share, and what stands in the reports
    procs    \* procs[p]: what p does, and what it holds or has read

-----------------------------------------------------------------------------
(* Workbooks and requirements, as far as the audit tells them apart. *)

\* empty: the sheets without a row; wrong: those where a cell is not what the
\* requirements assert; chart: none, sound, or with holes in a series.
Book(sheets, empty, wrong, formulas, chart, blankPage) ==
    [sheets |-> sheets, empty |-> empty, wrong |-> wrong, formulas |-> formulas, chart |-> chart,
     blankPage |-> blankPage]

\* formulas: none, with results, without results, or with an error among them.
Books ==
    [model    |-> Book({1}, {}, {}, "results", "none", FALSE),
     stale    |-> Book({1}, {}, {}, "uncached", "none", FALSE),
     broken   |-> Book({1}, {}, {}, "error", "none", FALSE),
     charted  |-> Book({1, 2}, {}, {}, "none", "sound", FALSE),
     gappy    |-> Book({1, 2}, {}, {}, "none", "holes", FALSE),
     hollow   |-> Book({1, 2}, {2}, {}, "none", "none", FALSE),
     mistaken |-> Book({1}, {}, {1}, "results", "none", FALSE),
     sparse   |-> Book({1}, {}, {}, "results", "none", TRUE)]

Kinds == DOMAIN Books

\* A file: missing, half written, or what run number n wrote.
Missing == [kind |-> "missing", n |-> 0]
Torn == [kind |-> "torn", n |-> 0]
File(k, n) == [kind |-> k, n |-> n]
Readable(f) == f.kind \in Kinds
Files == {Missing, Torn} \cup [kind : Kinds, n : 1..MaxRuns]

Require(sheets, ranges, asserted, charts, backed, disposed, pages) ==
    [sheets |-> sheets, ranges |-> ranges, asserted |-> asserted, charts |-> charts, backed |-> backed,
     disposed |-> disposed, pages |-> pages]

\* ranges: formula ranges are named; asserted: the sheets with asserted cells;
\* charts: none asked for, loosely, or with their sources and points; backed:
\* the sheets that reproduce source files; disposed: the warnings explained.
Specs ==
    [figures |-> Require({1}, TRUE, {1}, "none", {1}, {}, 1),
     charts  |-> Require({1, 2}, FALSE, {1}, "complete", {}, {}, 2),
     loose   |-> Require({1, 2}, FALSE, {}, "loose", {}, {}, 2),
     waived  |-> Require({1, 2}, FALSE, {1}, "none", {}, {"blank_sheets"}, 2),
     none    |-> Require({}, FALSE, {}, "none", {}, {}, 0)]

\* The requirements of a file or of a builder: stated, or none.
Stated(s) == s # "none"

\* What must hold, by the name of its check.  The floors ask the requirements
\* themselves to say enough about what the workbook has.
evaluateRequirements(b, s) ==
    LET holds == [required_sheet |-> s.sheets \subseteq b.sheets,
                  required_formula_range |-> s.ranges => b.formulas # "none",
                  expected_cell |-> s.asserted \subseteq b.sheets \ b.wrong,
                  required_native_chart |->
                      /\ s.charts = "complete" => b.chart = "sound"
                      /\ s.charts = "loose" => b.chart # "none",
                  semantic_requirement_floor |-> s.asserted # {} \/ s.charts # "none",
                  formula_requirement_floor |-> b.formulas # "none" => s.ranges,
                  native_chart_requirement_floor |-> b.chart # "none" => s.charts = "complete",
                  source_backed_sheet_assertions |-> s.backed \subseteq s.asserted]
    IN  {c \in DOMAIN holds : ~holds[c]}

\* The sources are compared with the hashes that were written down for them.
evaluateSourceFiles(s) == IF s.backed # {} /\ ~disk.intact THEN {"source_file_integrity"} ELSE {}

collectWorkbookFacts(b) ==
    CASE b.formulas = "error" -> {"formula_error"}
      [] b.formulas = "uncached" -> {"missing_cached_formula_result"}
      [] OTHER -> {}

collectChartFailures(b) == IF b.chart = "holes" THEN {"chart_invalid_values"} ELSE {}

Warnings(b) ==
    (IF b.empty # {} THEN {"blank_sheets"} ELSE {})
    \cup (IF b.formulas = "uncached" THEN {"missing_cached_formula_results"} ELSE {})

evaluateWarningDispositions(b, s) == Warnings(b) \subseteq s.disposed

\* The audit of a file that can be read, without requirements or with them.
auditXlsx(f, spec) ==
    LET b == Books[f.kind]
        s == Specs[spec]
        uncovered == IF Stated(spec) THEN evaluateRequirements(b, s) \cup evaluateSourceFiles(s) ELSE {}
        failures == collectWorkbookFacts(b) \cup collectChartFailures(b) \cup uncovered
    IN  [sound |-> failures = {}, covered |-> Stated(spec) /\ uncovered = {},
         disposed |-> evaluateWarningDispositions(b, s)]

\* What a delivery asks of an audit.
Deliverable(audit) == audit.sound /\ audit.covered /\ audit.disposed

-----------------------------------------------------------------------------
\* A process that does nothing; alone tells whether the others kept their hands
\* off its files since it began to deliver.
Idle == [at |-> "idle", held |-> Missing, req |-> "none", aside |-> Missing, drawn |-> {}, alone |-> TRUE]

NoReport == [of |-> Missing, req |-> "none", drawn |-> {}, alone |-> TRUE]

\* An earlier session may have left a candidate, and its pages; windows: renaming
\* over a file that is open is refused there.
Init ==
    /\ \E w \in BOOLEAN, was \in {{}, {File("charted", 1)}} :
          disk = [cand |-> IF was = {} THEN Missing ELSE File("charted", 1), out |-> Missing, pages |-> was,
                  left |-> {}, report |-> NoReport, intact |-> TRUE, windows |-> w, runs |-> Cardinality(was)]
    /\ procs = [p \in Procs |-> Idle]

\* p goes on as new.
Goes(p, new) == procs' = [procs EXCEPT ![p] = new]

\* p goes on as new, having touched what a delivery under way looks at.
GoesAndTouches(p, new) ==
    procs' = [q \in Procs |-> IF q = p THEN new ELSE [procs[q] EXCEPT !.alone = FALSE]]

At(p, where) == procs[p].at = where

\* Another command starts in p.
Starts(p) == At(p, "idle") /\ disk.runs < MaxRuns

-----------------------------------------------------------------------------
(* Building: everything happens in a directory of its own but the last step. *)

workbookRequiresRequirements(b) == Cardinality(b.sheets) > 1 \/ b.formulas # "none" \/ b.chart # "none"

\* LibreOffice fills in the results; an error stays one.
recalculateWorkbook(k) == IF k = "stale" THEN "model" ELSE k

\* A build that is refused on the way has written nothing, and is left out.
commandBuild(p) ==
    /\ Starts(p)
    /\ \E k \in Kinds, spec \in DOMAIN Specs :
        LET built == File(recalculateWorkbook(k), disk.runs + 1)
        IN  /\ workbookRequiresRequirements(Books[k]) => Stated(spec)
            /\ auditXlsx(built, spec).sound
            /\ Goes(p, [Idle EXCEPT !.at = "staged", !.held = built])
            /\ disk' = [disk EXCEPT !.runs = @ + 1]

\* The staged workbook takes the place of the candidate in one rename.
replaceFileAtomically(p) ==
    /\ At(p, "staged")
    /\ GoesAndTouches(p, Idle)
    /\ disk' = [disk EXCEPT !.cand = procs[p].held]

\* Mutant: the file in the way is removed.
moveAsideByRemoving(p) ==
    /\ At(p, "staged") /\ disk.windows /\ disk.cand # Missing
    /\ GoesAndTouches(p, [procs[p] EXCEPT !.at = "aside", !.aside = Missing])
    /\ disk' = [disk EXCEPT !.cand = Missing]

\* The rename is refused: the file in the way steps aside under another name.
moveAside(p) ==
    /\ At(p, "staged") /\ disk.windows /\ disk.cand # Missing
    /\ GoesAndTouches(p, [procs[p] EXCEPT !.at = "aside", !.aside = disk.cand])
    /\ disk' = [disk EXCEPT !.cand = Missing]

putInPlace(p) ==
    /\ At(p, "aside")
    /\ GoesAndTouches(p, Idle)
    /\ disk' = [disk EXCEPT !.cand = procs[p].held]

\* The second rename fails too: the file that stepped aside comes back, whatever
\* has taken its place in between.
putBack(p) ==
    /\ At(p, "aside")
    /\ GoesAndTouches(p, Idle)
    /\ disk' = [disk EXCEPT !.cand = procs[p].aside]

-----------------------------------------------------------------------------
(* Recalculation and conversion: the result is copied into place, then audited. *)

\* Of any workbook that is safe to take through LibreOffice.
commandRecalculate(p) ==
    /\ Starts(p)
    /\ \E k \in Kinds :
        /\ Books[k].chart = "none"
        /\ Goes(p, [Idle EXCEPT !.at = "converted", !.held = File(recalculateWorkbook(k), disk.runs + 1)])
        /\ disk' = [disk EXCEPT !.runs = @ + 1]

\* Of an old workbook with a sheet that has rows.
convertLegacyXls(p) ==
    /\ Starts(p)
    /\ \E k \in Kinds :
        /\ Books[k].sheets # Books[k].empty
        /\ Goes(p, [Idle EXCEPT !.at = "converted", !.held = File(recalculateWorkbook(k), disk.runs + 1)])
        /\ disk' = [disk EXCEPT !.runs = @ + 1]

copyBegins(p) ==
    /\ At(p, "converted")
    /\ GoesAndTouches(p, [procs[p] EXCEPT !.at = "copying"])
    /\ disk' = [disk EXCEPT !.cand = Torn]

\* The audit that follows changes nothing, whatever it finds.
copyEnds(p) ==
    /\ At(p, "copying")
    /\ GoesAndTouches(p, Idle)
    /\ disk' = [disk EXCEPT !.cand = procs[p].held]

-----------------------------------------------------------------------------
(* Rendering, alone or for a delivery. *)

commandRender(p) ==
    /\ Starts(p) /\ Readable(disk.cand)
    /\ Goes(p, [Idle EXCEPT !.at = "clear"])
    /\ disk' = [disk EXCEPT !.runs = @ + 1]

\* Mutant: the pages of the last rendering stay.
clearNothing(p) ==
    /\ At(p, "clear") /\ Readable(disk.cand)
    /\ GoesAndTouches(p, [procs[p] EXCEPT !.at = "draw"])
    /\ UNCHANGED disk

clearPages(p) ==
    /\ At(p, "clear") /\ Readable(disk.cand)
    /\ GoesAndTouches(p, [procs[p] EXCEPT !.at = "draw"])
    /\ disk' = [disk EXCEPT !.pages = {}]

\* The candidate is read again, and its pages join those in the directory.
drawPages(p) ==
    /\ At(p, "draw") /\ Readable(disk.cand)
    /\ GoesAndTouches(p, [procs[p] EXCEPT !.at = "list"])
    /\ disk' = [disk EXCEPT !.pages = @ \cup {disk.cand}]

\* The pages are those the directory lists: the report of a rendering is done, a
\* delivery goes on when none is blank and they are not too many.
listPages(p) ==
    /\ At(p, "list")
    /\ LET drawn == disk.pages
           fits == \A f \in drawn : ~Books[f.kind].blankPage /\ Cardinality(Books[f.kind].sheets) <= Specs[procs[p].req].pages
       IN  Goes(p, IF Stated(procs[p].req) /\ drawn # {} /\ fits
                   THEN [procs[p] EXCEPT !.at = "copy", !.drawn = drawn] ELSE Idle)
    /\ UNCHANGED disk

-----------------------------------------------------------------------------
(* Delivering. *)

\* Mutant: a deliverable that exists is not looked for.
deliverAnyway(p) ==
    /\ p \in Deliverers /\ Starts(p) /\ Readable(disk.cand)
    /\ \E spec \in DOMAIN Specs :
        /\ Stated(spec) /\ Deliverable(auditXlsx(disk.cand, spec))
        /\ Goes(p, [Idle EXCEPT !.at = "clear", !.req = spec])
        /\ disk' = [disk EXCEPT !.runs = @ + 1]

\* Refused at once, or the audit of the candidate as it is lets it go on.
commandDeliver(p) ==
    /\ p \in Deliverers /\ Starts(p)
    /\ disk.out = Missing /\ Readable(disk.cand)
    /\ \E spec \in DOMAIN Specs :
        /\ Stated(spec) /\ Deliverable(auditXlsx(disk.cand, spec))
        /\ Goes(p, [Idle EXCEPT !.at = "clear", !.req = spec])
        /\ disk' = [disk EXCEPT !.runs = @ + 1]

\* The candidate is copied next to the deliverable ...
copyCandidate(p) ==
    /\ At(p, "copy") /\ disk.cand # Missing
    /\ Goes(p, [procs[p] EXCEPT !.at = "compare", !.held = disk.cand])
    /\ UNCHANGED disk

\* ... and must still be what was copied.
compareHashes(p) ==
    /\ At(p, "compare") /\ disk.cand # Missing
    /\ Goes(p, IF procs[p].held = disk.cand THEN [procs[p] EXCEPT !.at = "seal"] ELSE Idle)
    /\ UNCHANGED disk

seal(p) ==
    /\ At(p, "seal")
    /\ Goes(p, [procs[p] EXCEPT !.at = "verify"])
    /\ disk' = [disk EXCEPT !.out = procs[p].held]

\* Mutant: the copy in place is trusted for the hash it has.
verifyByHash(p) ==
    /\ At(p, "verify")
    /\ Goes(p, Idle)
    /\ disk' = [disk EXCEPT !.report = [of |-> procs[p].held, req |-> procs[p].req, drawn |-> procs[p].drawn,
                                        alone |-> procs[p].alone]]

\* Audited again: reported, or removed; a file that cannot be read ends the
\* command before it comes to remove it.
verifyFinal(p) ==
    /\ At(p, "verify")
    /\ Goes(p, Idle)
    /\ IF ~Readable(disk.out) THEN UNCHANGED disk
       ELSE IF Deliverable(auditXlsx(disk.out, procs[p].req)) /\ disk.out = procs[p].held
       THEN disk' = [disk EXCEPT !.report = [of |-> disk.out, req |-> procs[p].req, drawn |-> procs[p].drawn,
                                             alone |-> procs[p].alone]]
       ELSE disk' = [disk EXCEPT !.out = Missing]

-----------------------------------------------------------------------------
\* A step that finds its file gone or torn fails, and the command with it.
fails(p) ==
    /\ \/ procs[p].at \in {"clear", "draw"} /\ ~Readable(disk.cand)
       \/ procs[p].at \in {"copy", "compare"} /\ disk.cand = Missing
    /\ Goes(p, Idle)
    /\ UNCHANGED disk

\* A process is killed: what it moved aside is left under its other name.
killed(p) ==
    /\ ~At(p, "idle")
    /\ Goes(p, Idle)
    /\ disk' = [disk EXCEPT !.left = @ \cup ({procs[p].aside} \ {Missing})]

\* A source file is changed after its hash was written down.
sourceChanges == disk.intact /\ disk' = [disk EXCEPT !.intact = FALSE] /\ UNCHANGED procs

Step(p) ==
    \/ commandBuild(p) \/ replaceFileAtomically(p) \/ moveAside(p) \/ putInPlace(p) \/ putBack(p)
    \/ commandRecalculate(p) \/ convertLegacyXls(p) \/ copyBegins(p) \/ copyEnds(p)
    \/ commandRender(p) \/ clearPages(p) \/ drawPages(p) \/ listPages(p)
    \/ commandDeliver(p) \/ copyCandidate(p) \/ compareHashes(p) \/ seal(p) \/ verifyFinal(p)
    \/ fails(p) \/ killed(p)

Next == sourceChanges \/ \E p \in Procs : Step(p)

Spec == Init /\ [][Next]_<<disk, procs>>

-----------------------------------------------------------------------------
TypeOK ==
    /\ {disk.cand, disk.out, disk.report.of} \subseteq Files
    /\ disk.pages \cup disk.left \subseteq Files
    /\ \A p \in Procs : {procs[p].held, procs[p].aside} \subseteq Files /\ procs[p].req \in DOMAIN Specs

\* What a report calls delivered is there, as it was reported, and would pass
\* the audit with the requirements of its delivery but for a source that was
\* changed since; whatever was built, copied or killed in between.
ReportedIsThere ==
    LET r == disk.report
    IN  r.of # Missing => /\ disk.out = r.of
                          /\ disk.intact => Deliverable(auditXlsx(r.of, r.req))

\* When nobody touched the candidate or its pages meanwhile, the pages that were
\* looked at show the workbook that was delivered, and no other.
DrawnIsDelivered == disk.report.alone => disk.report.drawn \subseteq {disk.report.of}

\* A replacement never loses the candidate: it is in place, or under the name it
\* stepped aside to, for whoever looks for it.
CandidateKept ==
    disk.cand # Missing => disk'.cand # Missing \/ \E p \in Procs : procs'[p].aside = disk.cand
=============================================================================
