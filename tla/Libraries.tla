------------------------------ MODULE Libraries ------------------------------
(***************************************************************************)
(* The libraries below the desktop and the command line, in one run: the   *)
(* comparison engine (SequenceDiff, SliderHeuristics), the view of its     *)
(* hunks (FileView), the export of a merge result with its markers         *)
(* (MergeExport), the headless resolver (ConflictResolution), and the      *)
(* command around it (ResolveCommand).                                     *)
(* They share no state: a behaviour is one of a single part, and the       *)
(* others keep their first state.                                          *)
(***************************************************************************)
EXTENDS SliderHeuristics

CONSTANTS None, Counted   \* the lines that counting is tried on

VARIABLE part   \* the part this behaviour is about, fixed

-----------------------------------------------------------------------------
(* The view of a comparison.                                               *)

CONSTANTS Scripts, Contexts, Targets

VARIABLES shown, mode, skip, context, opened, rows, search, emphasis, current

viewing == <<shown, mode, skip, context, opened, rows, search, emphasis, current>>

Viewing == INSTANCE FileView WITH script <- shown

-----------------------------------------------------------------------------
(* The export of a merge result.                                           *)

CONSTANTS ResultLines, MarkerSize, ExportOptions, Sources, MaxLines

VARIABLES text, parser, conflicts, outcome

exporting == <<text, parser, conflicts, outcome>>

Exporting == INSTANCE MergeExport WITH Lines <- ResultLines, Options <- ExportOptions

-----------------------------------------------------------------------------
(* The resolution of a file of conflicts.                                  *)

CONSTANTS InputFiles, Newline, Reviewed, Adaptation, Budget

VARIABLES input, matched, option, plan, output, draft, summary, budget

resolving == <<input, matched, option, plan, output, draft, summary, budget>>

Resolving == INSTANCE ConflictResolution WITH
  options <- option, report <- summary, left <- budget

-----------------------------------------------------------------------------
(* The command around it.                                                  *)

CONSTANTS InputPath, Path, Stdout, NoPath, FileOf, Existing, Irregular

VARIABLES arguments, files, printed, at, result, clean, written, interrupted, code

commanding == <<arguments, files, printed, at, result, clean, written, interrupted, code>>

Commanding == INSTANCE ResolveCommand WITH
  options <- arguments, status <- result, report <- written

\* Neither "-" nor an option that is not given is a path.
ASSUME CommandAssumption ==
  /\ InputPath \in Path
  /\ Stdout \notin Path /\ NoPath \notin Path

-----------------------------------------------------------------------------

all == <<part, vars, viewing, exporting, resolving, commanding>>

NoOutput ==
  [output |-> Stdout, report |-> NoPath, draft |-> NoPath,
   check |-> FALSE, strict |-> FALSE, overwrite |-> FALSE]

NoConflicts == [bytes |-> <<>>, blocks |-> <<>>]

\* Each part has a first state to keep.
ASSUME LibrariesAssumption ==
  /\ Alphabets # {} /\ 0 \in MaxDistances
  /\ <<>> \in Scripts /\ 0 \in Contexts /\ NoConflicts \in InputFiles /\ 0 \in DOMAIN Budget

InitAll ==
  /\ part \in {"diff", "view", "export", "resolve", "command"}
  /\ part # "diff" => job = "compute" /\ left = <<>> /\ right = <<>> /\ maxDistance = 0
  /\ part # "view" => shown = <<>> /\ context = 0
  /\ part # "resolve" => input = NoConflicts
  /\ part # "command" => arguments = NoOutput
  /\ Viewing!Init /\ Resolving!Init /\ Commanding!Init /\ Exporting!Init /\ Init
  \* Counting tells elements apart by equality alone: one alphabet is enough for it.
  /\ job = "count" => ToSet(left \o right) \subseteq Counted

Diffs == part = "diff" /\ UNCHANGED <<part, viewing, exporting, resolving, commanding>>
Views == part = "view" /\ UNCHANGED <<part, vars, exporting, resolving, commanding>>
Exports == part = "export" /\ UNCHANGED <<part, vars, viewing, resolving, commanding>>
Resolves == part = "resolve" /\ UNCHANGED <<part, vars, viewing, exporting, commanding>>
Commands == part = "command" /\ UNCHANGED <<part, vars, viewing, exporting, resolving>>

NextAll ==
  \/ Diffs /\ Compute
  \/ Diffs /\ Count
  \/ Diffs /\ NextDiagonal
  \/ Diffs /\ NextRound
  \/ Diffs /\ Found
  \/ Diffs /\ Stop
  \/ Views /\ Viewing!SetViewMode
  \/ Views /\ Viewing!SetUnchangedLinesSkipped
  \/ \E lines \in Contexts : Views /\ Viewing!SetContextLines(lines)
  \/ \E row \in ToSet(rows) : Views /\ Viewing!FoldClicked(row)
  \/ \E range \in Targets, emphasize \in BOOLEAN : Views /\ Viewing!RevealLines(range, emphasize)
  \/ \E side \in Viewing!Side :
       \E found \in SUBSET {range \in Targets : range.side = side /\ range.count = 1} :
         Views /\ Viewing!SetSearchHighlights(side, {range.start : range \in found})
  \/ Views /\ Viewing!ClearSearchHighlights
  \/ \E side \in Viewing!Side, row \in 0..Len(rows) - 1 : Views /\ Viewing!NavigateToNext(side, row)
  \/ \E side \in Viewing!Side, row \in 0..Len(rows) - 1 : Views /\ Viewing!NavigateToPrev(side, row)
  \/ Views /\ Viewing!NavigateOn
  \/ Views /\ Viewing!CursorMoved
  \/ \E line \in ResultLines : Exports /\ Exporting!Add(line)
  \/ Exports /\ Exporting!Capture
  \/ \E chosen \in ExportOptions : Exports /\ Exporting!Export(chosen)
  \/ \E source \in Sources : Exports /\ Exporting!ExportSource(source)
  \/ \E chosen \in Resolving!Option : Resolves /\ Resolving!Plan(chosen)
  \/ \E chosen \in Resolving!Option : Resolves /\ Resolving!PlanStops(chosen)
  \/ /\ Resolves /\ plan # None /\ plan.status = "Complete"
     /\ \E i \in DOMAIN plan.decisions, deferred \in BOOLEAN :
          \E reply \in plan.decisions[i].candidates \union Reviewed :
            Resolving!Review(i, reply, deferred)
  \/ \E isDraft \in BOOLEAN : Resolves /\ Resolving!Materialize(isDraft)
  \/ Resolves /\ Resolving!Report
  \/ Commands /\ Commanding!CheckArguments
  \/ Commands /\ Commanding!ReadInput
  \/ Commands /\ Commanding!Plan
  \/ Commands /\ Commanding!ReportFailure
  \/ Commands /\ Commanding!Gate
  \/ Commands /\ Commanding!PublishContent
  \/ Commands /\ Commanding!PublishDraft
  \/ Commands /\ Commanding!PublishReport
  \/ Commands /\ Commanding!Interrupt

SpecAll == InitAll /\ [][NextAll]_all

-----------------------------------------------------------------------------
(* The properties of the parts; SequenceDiff's keep their names.           *)

\* Whatever is folded, revealed, found and switched, every line is in one row, folds
\* keep the context, no highlight is on a fold, scrolling keeps matched lines next to
\* each other and navigation skips no change (FileView).
ViewIsFaithful == part = "view" => Viewing!ViewIsFaithful

\* The automaton accepts exactly the well-formed texts, a draft keeps its unresolved
\* conflicts in any style, and a resolved result has no marker (MergeExport).
ExportsAreSound ==
  /\ Exporting!BlocksAreTheMarkers /\ Exporting!DraftKeepsConflicts
  /\ Exporting!ResolvedHasNoMarkers

\* What a plan decides keeps every edit, is materialized faithfully and reported
\* truly, and an exact decision does not depend on the target (ConflictResolution).
ResolutionIsSound == []Resolving!PlansAreSound /\ Resolving!ExactIsWithoutDirection

\* Neither the input nor, without --overwrite, an existing file is written, and report
\* and exit code are true of what was published, unless two outputs are different
\* names of one file that is not there yet (ResolveCommand).
CommandIsTruthful == Commanding!InputIsPreserved /\ Commanding!ReportAndCodeAreTrue
=============================================================================
