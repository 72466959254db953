--------------------------- MODULE ConflictResolver ---------------------------
(***************************************************************************)
(* Reviewing an automatic conflict resolution (ConflictResolverWidget) in  *)
(* the desktop's dialog (ResolveDialog) or inside a host that keeps        *)
(* drafts.  A worker analyses the file; its plan is applied to RESULT as   *)
(* one undoable step; the user overrides, defers, edits, undoes.  RESULT   *)
(* and the plan are changed by the same undo steps, and the report that is *)
(* saved beside the output combines the two.                               *)
(*                                                                         *)
(* RESULT is reduced to one fragment per conflict (MergeEditing has the    *)
(* offsets), a text to the variant it holds.                               *)
(***************************************************************************)
EXTENDS Naturals, Sequences

CONSTANTS
  Conflict,      \* 1..n, in the order of the file
  Policy,        \* per policy, the conflicts it decides
  TooLarge,      \* the conflicts whose replacement exceeds the text limits
  Markers,       \* the text of a conflict in the input
  Candidate,     \* the other texts a plan proposes
  Edited,        \* a text typed without markers
  Touched,       \* the conflicts the user works on, a bound
  None,
  SaveRaces,     \* may an analysis end while the user is asked for a file?
  MaxCommands, MaxAnalyses  \* bounds on a session

Automatic == CHOOSE c \in Candidate : TRUE

VARIABLES
  owner,           \* "dialog" or "host", fixed
  result, clean,   \* the fragments of RESULT, now and as loaded or saved, or None
  plan,            \* the decisions, or None
  stack, index,    \* QUndoStack
  running, token,  \* an analysis runs; its cancellation is requested
  job,             \* policy it was given, and what it has found
  ready,           \* analysisFinished(true) came last: the dialog can save
  draft,           \* what the host has captured
  saving,          \* the texts captured by a save, while the user is asked
  published,       \* the output and the report last written
  analyses         \* analyses started

vars == <<owner, result, clean, plan, stack, index, running, token, job, ready, draft,
          saving, published, analyses>>
session == <<stack, index>>
analysis == <<running, token, job, ready, analyses>>
outside == <<owner, draft, saving, published>>

Seed == [c \in Conflict |-> [text |-> Markers, state |-> "Unresolved", mapped |-> TRUE]]
Undecided == [state |-> "NeedsReview", text |-> None]
Decided == {"Automatic", "Reviewed"}
Planned(p) == [c \in Conflict |->
  IF c \in Policy[p] THEN [state |-> "Automatic", text |-> Automatic] ELSE Undecided]

Loaded == result # None
Modified == result # clean
Texts(r) == [c \in Conflict |-> r[c].text]
\* A modal question keeps the user from everything else.
UserIsFree == saving = None

-----------------------------------------------------------------------------
(* QUndoStack: a macro is one command.                                     *)

Command(from, to, before, after) == [from |-> from, to |-> to, before |-> before, after |-> after]
\* A command that does not touch the plan has no decisions.
Push(command) ==
  /\ stack' = Append(SubSeq(stack, 1, index), command) /\ index' = index + 1
  /\ result' = command.to
  /\ plan' = IF command.after = None THEN plan ELSE command.after

\* RESULT has changed while an analysis runs: it is cancelled.
TokenAfter(now) == token \/ (running /\ now # clean)

Undo ==
  /\ UserIsFree /\ index > 0
  /\ index' = index - 1 /\ result' = stack[index].from
  /\ plan' = IF stack[index].before = None THEN plan ELSE stack[index].before
  /\ token' = TokenAfter(result')
  /\ UNCHANGED <<clean, stack, running, job, ready, analyses, outside>>

Redo ==
  /\ UserIsFree /\ index < Len(stack)
  /\ index' = index + 1 /\ result' = stack[index + 1].to
  /\ plan' = IF stack[index + 1].after = None THEN plan ELSE stack[index + 1].after
  /\ token' = TokenAfter(result')
  /\ UNCHANGED <<clean, stack, running, job, ready, analyses, outside>>

-----------------------------------------------------------------------------
(* The analysis.                                                           *)

Start(p) ==
  /\ running' = TRUE /\ token' = FALSE /\ analyses' = analyses + 1
  /\ job' = [policy |-> p, found |-> "nothing"]

\* setInput for the first analysis; later "Discard decisions and analyze".
Analyze(p) ==
  /\ UserIsFree /\ ~running /\ analyses < MaxAnalyses
  /\ IF Loaded THEN result' = Seed /\ clean' = Seed ELSE UNCHANGED <<result, clean>>
  /\ stack' = <<>> /\ index' = 0
  /\ Start(p)
  /\ UNCHANGED <<plan, ready, outside>>

\* planConflictResolution: it may fail, and stops when it sees the token.
Work ==
  /\ running /\ job.found = "nothing"
  /\ \E found \in {"plan", "failure"} : job' = [job EXCEPT !.found = found]
  /\ UNCHANGED <<result, clean, plan, session, running, token, ready, analyses, outside>>

Cancel ==
  /\ UserIsFree /\ running /\ ~token
  /\ token' = TRUE
  /\ UNCHANGED <<result, clean, plan, session, running, job, ready, analyses, outside>>

\* replaceConflictText, in order until one fails.
Applied(p) ==
  LET failing == Policy[p] \cap TooLarge
  IN [c \in Conflict |->
        IF c \in Policy[p] /\ \A f \in failing : c < f
          THEN [text |-> Automatic, state |-> "Resolved", mapped |-> TRUE] ELSE Seed[c]]

\* The watcher's finished handler.  A failed macro is undone, and can be redone.
Install(p) ==
  LET macro == Command(Seed, Applied(p), [c \in Conflict |-> Undecided], Planned(p))
      complete == Policy[p] \cap TooLarge = {}
  IN /\ clean' = Seed /\ stack' = <<macro>> /\ ready' = complete
     /\ IF complete THEN index' = 1 /\ result' = macro.to /\ plan' = macro.after
        ELSE index' = 0 /\ result' = macro.from /\ plan' = macro.before

FinishedWhenCancelled == Modified \/ job.found = "failure"
Dropped == token \/ Modified \/ job.found = "failure"

Finished ==
  /\ running /\ job.found # "nothing" /\ (UserIsFree \/ SaveRaces)
  /\ running' = FALSE /\ job' = None
  /\ IF Dropped THEN ready' = FALSE /\ UNCHANGED <<result, clean, plan, session>>
     ELSE Install(job.policy)
  /\ UNCHANGED <<token, analyses, outside>>

-----------------------------------------------------------------------------
(* The user reviews and edits RESULT.                                      *)

MayChange == UserIsFree /\ Loaded /\ Len(stack) < MaxCommands

\* Typing in a fragment; across its boundary, its place is lost.
Type(c, text, mapped) ==
  /\ MayChange
  /\ Push(Command(result, [result EXCEPT ![c] = [text |-> text, state |-> "NeedsReview",
                                                 mapped |-> @.mapped /\ mapped]], None, None))
  /\ token' = TokenAfter(result')
  /\ UNCHANGED <<clean, running, job, ready, analyses, outside>>

\* "Use selected RESULT range".
ReviewRange(c) ==
  /\ MayChange /\ ~running
  /\ Push(Command(result, [result EXCEPT ![c] = [text |-> @.text, state |-> "NeedsReview",
                                                 mapped |-> TRUE]], None, None))
  /\ UNCHANGED <<clean, analysis, outside>>

\* Apply candidate, Keep for review.  A macro whose replacement fails stays, empty.
ApplyTextOnly(c, text, deferred) ==
  Push(Command(result, [result EXCEPT ![c] = [text |-> text, mapped |-> TRUE,
         state |-> IF deferred THEN "NeedsReview" ELSE "Resolved"]], None, None))
Apply(c, text, deferred) ==
  Push(Command(result, [result EXCEPT ![c] = [text |-> text, mapped |-> TRUE,
         state |-> IF deferred THEN "NeedsReview" ELSE "Resolved"]], plan,
         [plan EXCEPT ![c] = [state |-> IF deferred THEN "Deferred" ELSE "Reviewed",
                              text |-> text]]))
ApplyCandidate(c, text, deferred) ==
  /\ MayChange /\ ~running /\ plan # None
  /\ IF result[c].mapped /\ c \notin TooLarge THEN Apply(c, text, deferred)
     ELSE Push(Command(result, result, None, None))
  /\ UNCHANGED <<clean, analysis, outside>>

AcceptCurrentText(c) ==
  /\ MayChange /\ ~running /\ plan # None
  /\ result[c].mapped /\ result[c].text # Markers
  /\ Push(Command(result, [result EXCEPT ![c].state = "Resolved"], plan,
                  [plan EXCEPT ![c] = [state |-> "Reviewed", text |-> result[c].text]]))
  /\ UNCHANGED <<clean, analysis, outside>>

-----------------------------------------------------------------------------
(* A draft of a host, which may be restored more than once.                *)

CaptureDraft ==
  /\ owner = "host" /\ ~running /\ Loaded /\ draft = None
  /\ draft' = [result |-> result, plan |-> plan]
  /\ UNCHANGED <<result, clean, plan, session, analysis, owner, saving, published>>

RestoreDraft ==
  /\ owner = "host" /\ ~running /\ draft # None /\ ~Modified
  /\ result' = draft.result /\ clean' = draft.result /\ plan' = draft.plan
  /\ stack' = <<>> /\ index' = 0 /\ ready' = TRUE
  /\ UNCHANGED <<running, token, job, analyses, outside>>

-----------------------------------------------------------------------------
(* "Save result as..." of the dialog; one save is followed to its end.      *)

\* report(): what is not resolved in RESULT needs a review, unless it is deferred.
Report == [c \in Conflict |->
  IF result[c].state # "Resolved" /\ plan[c].state # "Deferred" THEN "NeedsReview"
  ELSE plan[c].state]

SaveAs ==
  /\ owner = "dialog" /\ ready /\ UserIsFree /\ Loaded /\ published = None
  /\ saving' = Texts(result)
  /\ UNCHANGED <<result, clean, plan, session, analysis, owner, draft, published>>

SaveAbandoned ==
  /\ saving # None
  /\ saving' = None
  /\ UNCHANGED <<result, clean, plan, session, analysis, owner, draft, published>>

\* The output is written first; if its report cannot be, nothing counts as saved.
Published(report) ==
  published' = [output |-> saving, report |-> report]
SaveAnswered ==
  /\ saving # None /\ saving' = None
  /\ \/ Published(Report) /\ clean' = result
     \/ Published(None) /\ UNCHANGED clean
  /\ UNCHANGED <<result, plan, session, analysis, owner, draft>>

-----------------------------------------------------------------------------

Init ==
  /\ owner \in {"dialog", "host"} /\ result = None /\ clean = None /\ plan = None
  /\ stack = <<>> /\ index = 0 /\ running = FALSE /\ token = FALSE /\ job = None
  /\ ready = FALSE /\ draft = None /\ saving = None /\ published = None /\ analyses = 0

Edit ==
  \/ \E c \in Touched, mapped \in BOOLEAN : Type(c, Edited, mapped)
  \/ \E c \in Touched : Type(c, Markers, TRUE)
  \/ \E c \in Touched : ReviewRange(c)
  \/ \E c \in Touched, text \in Candidate, deferred \in BOOLEAN :
       ApplyCandidate(c, text, deferred)
  \/ \E c \in Touched : AcceptCurrentText(c)

Next ==
  \/ Undo \/ Redo \/ Edit
  \/ (\E p \in DOMAIN Policy : Analyze(p)) \/ Work \/ Cancel \/ Finished
  \/ CaptureDraft \/ RestoreDraft
  \/ SaveAs \/ SaveAbandoned \/ SaveAnswered

Spec == Init /\ [][Next]_vars

-----------------------------------------------------------------------------
(* Correctness.                                                            *)

\* Text and decisions share Undo and Redo (README): through every history of
\* edits, overrides, undone and redone macros, cancelled analyses and restored
\* drafts, a fragment that counts as resolved is decided in the plan, and holds
\* the very text that the decision records.
DecisionsFollowText == Loaded /\ plan # None => \A c \in Conflict :
  result[c].state = "Resolved" =>
    /\ plan[c].state \in Decided /\ plan[c].text = result[c].text
    /\ result[c].text # Markers /\ result[c].mapped

\* An analysis that ends late, cancelled, or after RESULT was touched (even if
\* the edit was undone again) changes neither RESULT nor what can be redone.
LateAnalysisChangesNothing ==
  [][running /\ ~running' /\ (stack # <<>> \/ token)
       => UNCHANGED <<result, clean, plan, stack, index>>]_vars

\* An automatic resolution is installed as a whole or not at all.
ResolutionIsAllOrNothing ==
  [][running /\ ~running' /\ result' # result /\ result' # Seed
       => \A c \in Conflict : plan'[c].state = "Automatic" => result'[c].state = "Resolved"]_vars

\* What counts as saved is what the output holds, and the report beside it is
\* about that text: a fragment it calls decided is not a conflict marker.
SavesAreTrue ==
  [][published' # published /\ published'.report # None =>
       /\ published'.output = Texts(clean')
       /\ \A c \in Conflict : published'.report[c] \in Decided =>
            published'.output[c] = plan[c].text]_vars

\* A save whose report could not be written leaves unsaved work unsaved.
UnreportedSaveIsNoSave ==
  [][published' # published /\ published'.report = None => clean' = clean]_vars
=============================================================================
