---------------------------- MODULE DeckDelivery ----------------------------
(***************************************************************************)
(* The presentations skill: processes that build, convert, verify and      *)
(* deliver decks, and meet only in the files: the candidate in the QA      *)
(* directory, its slide images, the delivery report and the deliverable.   *)
(* A delivery notes the hash of the candidate, audits it, draws it, looks  *)
(* at the hash again, and only then seals: it copies the candidate, takes  *)
(* the old deliverable away, renames the copy and reads it once more.      *)
(* Every look at a shared file is a step, and a process may be killed      *)
(* between any two.  A deck is one of a few kinds that differ in what the  *)
(* audit looks at, with the number of the run that wrote it: two runs      *)
(* never write the same bytes.                                             *)
(***************************************************************************)
EXTENDS Naturals, FiniteSets

CONSTANTS
    Procs,        \* the processes
    Deliverers,   \* those of them that deliver
    MaxRuns       \* bound: the commands that are ever started

VARIABLES
    disk,    \* the files that processes share
    procs    \* procs[p]: what p does, and what it holds or has read

-----------------------------------------------------------------------------
(* Decks, requirements and the audit. *)

\* terms: what the slides say; defects: what is wrong with any requirements;
\* warns: what must be looked at; drawn: the slides LibreOffice draws.
Deck(slides, terms, defects, warns, drawn) ==
    [slides |-> slides, terms |-> terms, defects |-> defects, warns |-> warns, drawn |-> drawn]

Decks ==
    [good    |-> Deck(2, {"goal", "plan"}, {}, {}, 2),
     crowded |-> Deck(2, {"goal", "plan"}, {}, {"overlap"}, 2),
     cut     |-> Deck(2, {"goal", "plan"}, {"out_of_bounds"}, {}, 2),
     silent  |-> Deck(1, {"goal"}, {}, {}, 1),
     hidden  |-> Deck(2, {"goal", "plan"}, {}, {}, 1)]

Kinds == DOMAIN Decks

\* A file: missing, half written, or what run number n wrote.
Missing == [kind |-> "missing", n |-> 0]
Torn == [kind |-> "torn", n |-> 0]
File(k, n) == [kind |-> k, n |-> n]
Readable(f) == f.kind \in Kinds
Files == {Missing, Torn} \cup [kind : Kinds, n : 1..MaxRuns]

\* The requirements a delivery is given or finds, or none; slides: the exact
\* number, or 0.
Specs ==
    [brief |-> [critical |-> {"goal"}, recommended |-> {"plan"}, slides |-> 0],
     exact |-> [critical |-> {"goal"}, recommended |-> {}, slides |-> 2],
     none  |-> [critical |-> {}, recommended |-> {}, slides |-> 0]]

\* Critical requirements that are missed are errors, the others warnings.
evaluateRequirements(d, spec) ==
    LET s == Specs[spec]
    IN  [errors   |-> (s.critical \ d.terms) \cup (IF s.slides \in {0, d.slides} THEN {} ELSE {"slide-count"}),
         warnings |-> s.recommended \ d.terms]

\* Dispositions are bound to one file by its hash, and to its warnings by their
\* names; the strict mode makes an overlap an error.
auditPptx(f, opt, dispositions) ==
    LET d == Decks[f.kind]
        coverage == evaluateRequirements(d, opt.spec)
        errors == d.defects \cup coverage.errors \cup (IF opt.strict THEN d.warns \cap {"overlap"} ELSE {})
        warnings == d.warns \cup coverage.warnings
    IN  [bound |-> dispositions.of \in {Missing, f} /\ dispositions.ids \subseteq warnings,
         passed |-> errors = {} /\ warnings \subseteq dispositions.ids,
         covered |-> opt.spec # "none" /\ coverage.errors = {}]

NoDispositions == [of |-> Missing, ids |-> {}]

Option(spec, strict, requireCoverage, inPlace, using) ==
    [spec |-> spec, strict |-> strict, requireCoverage |-> requireCoverage, inPlace |-> inPlace, using |-> using]

NoOptions == Option("none", FALSE, FALSE, FALSE, FALSE)

\* Bound: the ways a delivery is asked for that are tried.  strict: an overlap is
\* an error; inPlace: no deliverable but the input; using: with dispositions.
Options == {Option("brief", FALSE, FALSE, FALSE, TRUE), Option("exact", TRUE, FALSE, FALSE, FALSE),
            Option("none", FALSE, TRUE, FALSE, FALSE), Option("brief", FALSE, FALSE, TRUE, FALSE)}

\* Coverage is required when it is asked for, or when there are requirements.
Gated(audit, opt) == (opt.requireCoverage \/ opt.spec # "none") => audit.covered

-----------------------------------------------------------------------------
Idle == [at |-> "idle", run |-> 0, made |-> FALSE, opt |-> NoOptions, first |-> Missing, ok |-> FALSE, drawn |-> {}, mine |-> TRUE,
         held |-> Missing]

NoReport == [of |-> Missing, status |-> "none", seal |-> FALSE, opt |-> NoOptions, drawn |-> {}, mine |-> TRUE,
             dispositions |-> NoDispositions]

\* The first run has left a candidate with warnings, and its slides; renderer:
\* LibreOffice and a rasterizer are installed.
Init ==
    /\ \E r \in BOOLEAN :
          disk = [cand |-> File("crowded", 1), out |-> Missing, pages |-> {File("crowded", 1)}, report |-> NoReport, dispositions |-> NoDispositions,
                  renderer |-> r, runs |-> 1]
    /\ procs = [p \in Procs |-> Idle]

At(p, where) == procs[p].at = where
Starts(p) == At(p, "idle") /\ disk.runs < MaxRuns
Goes(p, new) == procs' = [procs EXCEPT ![p] = new]
Ends(p) == Goes(p, Idle)

\* What is in the QA directory of the others is no longer theirs alone.
GoesAndDraws(p, new) == procs' = [q \in Procs |-> IF q = p THEN new ELSE [procs[q] EXCEPT !.mine = FALSE]]

\* The dispositions a delivery was told to use.
Used(p) == IF procs[p].opt.using THEN disk.dispositions ELSE NoDispositions

-----------------------------------------------------------------------------
(* Building writes the candidate where it stands. *)

buildCommand(p) ==
    /\ Starts(p)
    /\ Goes(p, [Idle EXCEPT !.at = "write", !.run = disk.runs + 1])
    /\ disk' = [disk EXCEPT !.runs = @ + 1, !.cand = Torn]

\* With a builder the candidate is built first.
deliverBuilder(p) ==
    \E opt \in Options :
        /\ p \in Deliverers /\ Starts(p) /\ ~opt.inPlace
        /\ Goes(p, [Idle EXCEPT !.at = "write", !.run = disk.runs + 1, !.made = TRUE, !.opt = opt])
        /\ disk' = [disk EXCEPT !.runs = @ + 1, !.cand = Torn]

\* With an input that is taken as it is; there may be no deliverable but it.
deliverInput(p) ==
    \E opt \in Options :
        /\ p \in Deliverers /\ Starts(p)
        /\ Goes(p, [Idle EXCEPT !.at = "inspect", !.opt = opt])
        /\ disk' = [disk EXCEPT !.runs = @ + 1]

\* What the builder made of it; a build alone is done.
buildDeck(p) ==
    \E k \in Kinds :
        /\ At(p, "write")
        /\ disk' = [disk EXCEPT !.cand = File(k, procs[p].run)]
        /\ Goes(p, IF procs[p].made THEN [procs[p] EXCEPT !.at = "inspect"] ELSE Idle)

-----------------------------------------------------------------------------
(* Verifying. *)

inspectPptx(p) ==
    /\ At(p, "inspect") /\ Readable(disk.cand)
    /\ Goes(p, [procs[p] EXCEPT !.at = "audit", !.first = disk.cand])
    /\ UNCHANGED disk

\* Dispositions of another file end the command; without a renderer the drawing
\* is skipped, which is a warning, and warnings do not seal.
audit(p) ==
    /\ At(p, "audit") /\ Readable(disk.cand)
    /\ LET a == auditPptx(disk.cand, procs[p].opt, Used(p))
       IN  Goes(p, IF ~a.bound THEN Idle
                   ELSE [procs[p] EXCEPT !.at = IF disk.renderer THEN "clear" ELSE "final",
                                         !.ok = disk.renderer /\ a.passed /\ Gated(a, procs[p].opt)])
    /\ UNCHANGED disk

clearPriorSlides(p) ==
    /\ At(p, "clear")
    /\ GoesAndDraws(p, [procs[p] EXCEPT !.at = "draw"])
    /\ disk' = [disk EXCEPT !.pages = {}]

\* A drawing that fails is a verdict, not the end of the command.
renderPptx(p) ==
    /\ At(p, "draw")
    /\ IF Readable(disk.cand)
       THEN /\ GoesAndDraws(p, [procs[p] EXCEPT !.at = "list"])
            /\ disk' = [disk EXCEPT !.pages = @ \cup {disk.cand}]
       ELSE /\ Goes(p, [procs[p] EXCEPT !.at = "final", !.ok = FALSE])
            /\ UNCHANGED disk

\* As many images as the deck has slides, of whatever is in the directory.
listSlides(p) ==
    /\ At(p, "list")
    /\ LET counted == \E f \in disk.pages : Decks[f.kind].drawn = Decks[procs[p].first.kind].slides
       IN  Goes(p, [procs[p] EXCEPT !.at = "final", !.drawn = disk.pages, !.ok = @ /\ counted])
    /\ UNCHANGED disk

Report(p, f, ok) ==
    [of |-> f, status |-> IF ok THEN "passed" ELSE "blocked", seal |-> FALSE, opt |-> procs[p].opt,
     drawn |-> procs[p].drawn, mine |-> procs[p].mine, dispositions |-> Used(p)]

\* Mutant: the file is taken to be what it was.
verifyOnce(p) ==
    /\ At(p, "final") /\ Readable(disk.cand)
    /\ Goes(p, IF procs[p].ok THEN [procs[p] EXCEPT !.at = IF procs[p].opt.inPlace THEN "check" ELSE "copy"] ELSE Idle)
    /\ disk' = [disk EXCEPT !.report = Report(p, disk.cand, procs[p].ok)]

\* The verdict; a file that changed under the audit is never passed.
verifyFinalPptx(p) ==
    /\ At(p, "final") /\ Readable(disk.cand)
    /\ LET ok == procs[p].ok /\ disk.cand = procs[p].first
       IN  /\ Goes(p, IF ok THEN [procs[p] EXCEPT !.at = IF procs[p].opt.inPlace THEN "check" ELSE "copy"] ELSE Idle)
           /\ disk' = [disk EXCEPT !.report = Report(p, disk.cand, ok)]

-----------------------------------------------------------------------------
(* Sealing. *)

sealCopy(p) ==
    /\ At(p, "copy") /\ disk.cand # Missing
    /\ Goes(p, [procs[p] EXCEPT !.at = "remove", !.held = disk.cand])
    /\ UNCHANGED disk

sealRemove(p) ==
    /\ At(p, "remove")
    /\ Goes(p, [procs[p] EXCEPT !.at = "rename"])
    /\ disk' = [disk EXCEPT !.out = Missing]

sealRename(p) ==
    /\ At(p, "rename")
    /\ Goes(p, [procs[p] EXCEPT !.at = "check"])
    /\ disk' = [disk EXCEPT !.out = procs[p].held]

Sealed(p) == IF procs[p].opt.inPlace THEN disk.cand ELSE disk.out

\* Mutant: what was sealed is not read again.
sealUnread(p) ==
    /\ At(p, "check")
    /\ Ends(p)
    /\ disk' = [disk EXCEPT !.report.seal = TRUE]

\* The seal stands when the sealed file has the hash of the verified one; else it
\* stays where it is, without a seal.  A candidate that was built for it goes.
sealCheck(p) ==
    /\ At(p, "check")
    /\ Ends(p)
    /\ disk' = IF Sealed(p) = disk.report.of
               THEN [disk EXCEPT !.report.seal = TRUE, !.cand = IF procs[p].made THEN Missing ELSE @]
               ELSE disk

-----------------------------------------------------------------------------
(* Converting an old deck: verified in a directory of its own, then put in     *)
(* place of the candidate, if there is none or by force.                       *)

convertLegacyPpt(p) ==
    \E k \in Kinds \ {"hidden"} :
        /\ Starts(p)
        /\ Goes(p, [Idle EXCEPT !.at = "converted", !.held = File(k, disk.runs + 1)])
        /\ disk' = [disk EXCEPT !.runs = @ + 1]

\* Looked for once: what comes there later is replaced all the same.
atomicCopy(p) ==
    /\ At(p, "converted")
    /\ \E force \in BOOLEAN :
          Goes(p, IF disk.cand = Missing THEN [procs[p] EXCEPT !.at = "place"]
                  ELSE IF force THEN [procs[p] EXCEPT !.at = "clearway"] ELSE Idle)
    /\ UNCHANGED disk

removeInTheWay(p) ==
    /\ At(p, "clearway")
    /\ Goes(p, [procs[p] EXCEPT !.at = "place"])
    /\ disk' = [disk EXCEPT !.cand = Missing]

placeConverted(p) ==
    /\ At(p, "place")
    /\ Goes(p, [procs[p] EXCEPT !.at = "reread"])
    /\ disk' = [disk EXCEPT !.cand = procs[p].held]

\* Removed again when it is not what was verified.
rereadConverted(p) ==
    /\ At(p, "reread")
    /\ Ends(p)
    /\ disk' = IF Readable(disk.cand) /\ disk.cand # procs[p].held THEN [disk EXCEPT !.cand = Missing] ELSE disk

-----------------------------------------------------------------------------
\* Somebody looked at the slides and explains the warnings of this very file.
dispose ==
    /\ Readable(disk.cand) /\ Decks[disk.cand.kind].warns # {}
    /\ disk' = [disk EXCEPT !.dispositions = [of |-> disk.cand, ids |-> Decks[disk.cand.kind].warns]]
    /\ UNCHANGED procs

\* A step that finds its file gone or torn ends the command.
fails(p) ==
    /\ \/ procs[p].at \in {"inspect", "audit", "final"} /\ ~Readable(disk.cand)
       \/ At(p, "copy") /\ disk.cand = Missing
    /\ Ends(p)
    /\ UNCHANGED disk

killed(p) == ~At(p, "idle") /\ Ends(p) /\ UNCHANGED disk

Step(p) ==
    \/ buildCommand(p) \/ deliverBuilder(p) \/ deliverInput(p) \/ buildDeck(p)
    \/ inspectPptx(p) \/ audit(p) \/ clearPriorSlides(p) \/ renderPptx(p) \/ listSlides(p) \/ verifyFinalPptx(p)
    \/ sealCopy(p) \/ sealRemove(p) \/ sealRename(p) \/ sealCheck(p)
    \/ convertLegacyPpt(p) \/ atomicCopy(p) \/ removeInTheWay(p) \/ placeConverted(p) \/ rereadConverted(p)
    \/ fails(p) \/ killed(p)

Next == dispose \/ \E p \in Procs : Step(p)

Spec == Init /\ [][Next]_<<disk, procs>>

-----------------------------------------------------------------------------
TypeOK ==
    /\ {disk.cand, disk.out, disk.report.of} \subseteq Files
    /\ disk.pages \subseteq Files
    /\ \A p \in Procs : {procs[p].held, procs[p].first} \subseteq Files /\ procs[p].opt \in Options \cup {NoOptions}

\* A report that says sealed is about the file at the deliverable, and that file
\* passed the audit, with the requirements and the dispositions of its delivery,
\* whatever was rebuilt, converted or killed in between.
SealedIsVerified ==
    LET r == disk.report
        a == auditPptx(r.of, r.opt, r.dispositions)
    IN  r.seal => /\ r.opt.inPlace \/ disk.out = r.of
                  /\ a.bound /\ a.passed /\ Gated(a, r.opt)

\* The slides that were looked at show the sealed deck, even if the candidate was
\* rebuilt while they were drawn, unless another command drew there too.
DrawnIsSealed == disk.report.seal /\ disk.report.mine => disk.report.drawn = {disk.report.of}
=============================================================================
