-------------------------- MODULE MergePresentation --------------------------
(***************************************************************************)
(* The comparisons shown between RESULT and its sources (MergePresentation *)
(* and the parts of MergePreviewWidget and MergeWidget that trigger it).   *)
(* A change cancels the comparison under way and asks for another after a  *)
(* delay; a worker compares; a late batch must not be shown.  In the mode  *)
(* that shows conflicts, the lines of unresolved conflicts are marked      *)
(* instead.                                                                *)
(*                                                                         *)
(* Documents and the states of conflicts are versions.                     *)
(***************************************************************************)
EXTENDS Naturals

CONSTANTS
  MaxChanges,    \* bound on the changes of documents, modes and conflicts
  None

Mode == {"Conflicts", "SourceDifferences"}

VARIABLES
  version,       \* of the documents of the panes
  conflicts,     \* version of the states and ranges of the conflicts
  mode, base,    \* the view mode; is BASE shown?
  revision, pending, timer,
  running, token,
  batch,         \* the input captured for the worker, and its outcome
  comparisons,   \* the inputs the installed comparisons are of, or None
  connected,     \* those the connectors between the panes are painted from
  marks,         \* what the lines of the panes are marked with
  failed         \* history: the installed batch could not be prepared

inputs == <<version, conflicts, mode, base>>
worker == <<running, batch>>
shown == <<comparisons, connected, marks, failed>>
vars == <<inputs, revision, pending, timer, worker, token, shown>>

\* A document change takes the conflicts with it.
Input == [version |-> version, base |-> base]
NoMarks == [kind |-> "none"]
ConflictMarks(v, c) == [kind |-> "conflicts", of |-> <<v, c>>]
Differences(input) == [kind |-> "differences", of |-> input]
Decorated(v, c, m, otherwise) == IF m = "Conflicts" THEN ConflictMarks(v, c) ELSE otherwise

\* requestUpdate().
Request ==
  /\ revision' = revision + 1 /\ pending' = TRUE /\ timer' = TRUE /\ token' = running
  /\ comparisons' = None /\ connected' = None
  /\ marks' = Decorated(version', conflicts', mode', NoMarks)

-----------------------------------------------------------------------------

\* A session is set, RESULT is edited, or other fragments are shown as sources.
Change ==
  /\ revision < MaxChanges
  /\ version' = version + 1 /\ conflicts' \in {conflicts, conflicts + 1}
  /\ UNCHANGED <<mode, base, worker, failed>>
  /\ Request

SetViewMode ==
  /\ revision < MaxChanges
  /\ mode' \in Mode
  /\ UNCHANGED <<version, conflicts, base, worker, failed>>
  /\ Request

SetBaseVisible ==
  /\ revision < MaxChanges
  /\ base' \in BOOLEAN
  /\ UNCHANGED <<version, conflicts, mode, worker, failed>>
  /\ Request

\* A conflict is marked as resolved or unresolved: presentationChanged.
ConflictStatesChanged ==
  /\ conflicts < MaxChanges
  /\ conflicts' = conflicts + 1
  /\ marks' = Decorated(version, conflicts', mode, marks)
  /\ connected' = IF mode = "Conflicts" THEN None ELSE connected
  /\ UNCHANGED <<version, mode, base, revision, pending, timer, worker, token,
                 comparisons, failed>>

\* The timer is a single shot; a worker that still runs is waited for.
StartUpdate ==
  /\ timer /\ timer' = FALSE
  /\ IF running THEN UNCHANGED <<worker, token>>
     ELSE /\ running' = TRUE /\ token' = FALSE
          /\ batch' = [revision |-> revision, of |-> Input, outcome |-> "nothing"]
  /\ UNCHANGED <<inputs, revision, pending, shown>>

\* A comparison can exceed its limits; it stops when it sees the token.
Work ==
  /\ running /\ batch.outcome = "nothing"
  /\ \E outcome \in {"compared", "failed"} \cup (IF token THEN {"cancelled"} ELSE {}) :
       batch' = [batch EXCEPT !.outcome = outcome]
  /\ UNCHANGED <<inputs, revision, pending, timer, running, token, shown>>

Install ==
  LET found == IF batch.outcome = "compared" THEN batch.of ELSE None
  IN /\ pending' = FALSE /\ comparisons' = found /\ failed' = (batch.outcome = "failed")
     /\ connected' = IF mode = "Conflicts" THEN None ELSE found
     /\ marks' = Decorated(version, conflicts, mode,
                   IF found = None THEN NoMarks ELSE Differences(found))
     /\ UNCHANGED timer

Outdated == batch.revision # revision

RestartForgotten == UNCHANGED timer
Restart == timer' = (timer \/ pending)

Finished ==
  /\ running /\ batch.outcome # "nothing"
  /\ running' = FALSE /\ batch' = None
  /\ IF Outdated THEN Restart /\ UNCHANGED <<pending, shown>> ELSE Install
  /\ UNCHANGED <<inputs, revision, token>>

Init ==
  /\ version = 0 /\ conflicts = 0 /\ mode = "SourceDifferences" /\ base = FALSE
  /\ revision = 0 /\ pending = FALSE /\ timer = FALSE
  /\ running = FALSE /\ token = FALSE /\ batch = None
  /\ comparisons = None /\ connected = None /\ marks = NoMarks /\ failed = FALSE

Next ==
  \/ Change \/ SetViewMode \/ SetBaseVisible \/ ConflictStatesChanged
  \/ StartUpdate \/ Work \/ Finished

\* Timers fire, workers end, and their results are delivered.
Fairness == WF_vars(StartUpdate) /\ WF_vars(Work) /\ WF_vars(Finished)
Spec == Init /\ [][Next]_vars
FairSpec == Spec /\ Fairness

-----------------------------------------------------------------------------
(* Correctness.                                                            *)

\* Comparisons, connectors and marks that are shown are those of the texts and
\* conflicts in the panes, at any moment, however late a worker is; what is shown
\* when nothing is pending is complete, or the failure was reported.
ShowsCurrentTexts ==
  /\ comparisons # None => comparisons = Input
  /\ connected # None => connected = comparisons /\ mode = "SourceDifferences"
  /\ marks = Decorated(version, conflicts, mode,
               IF comparisons = None THEN NoMarks ELSE Differences(Input))
  /\ revision > 0 /\ ~pending /\ ~failed => comparisons = Input

\* Every request ends in an installed batch: a timer that fires while a worker
\* runs, and a worker whose result is outdated, leave no request behind.
RequestsSettle == pending ~> ~pending
=============================================================================
