------------------------------- MODULE Workers -------------------------------
(***************************************************************************)
(* The parts of the desktop that hand work to a thread pool and install    *)
(* what comes back, in one specification: the directory view (DirView),    *)
(* the walk it asks for (DirScan), the saving of a merge result            *)
(* (MergeSave), syntax definitions (SyntaxCache), the comparisons of a     *)
(* merge (MergePresentation), and the conflict resolver                    *)
(* (ConflictResolver).  They share no state: a behaviour is one of a       *)
(* single part, and the others keep their first state.                     *)
(***************************************************************************)
EXTENDS DirView

VARIABLE part   \* the part this behaviour is about, fixed

-----------------------------------------------------------------------------
(* A merge saved while others write.                                       *)

CONSTANTS Document, Resolved, Original, Foreign, WriterRaces, MaxFileChanges

VARIABLES
  launchedReadOnly, disk, changes, read, stage, text, clean, editable, job, step, cancel,
  result, replaced, expected, savedStamp, resolvedSaved, discarded, exit

saving == <<launchedReadOnly, disk, changes, read, stage, text, clean, editable, job, step,
            cancel, result, replaced, expected, savedStamp, resolvedSaved, discarded, exit>>

Saving == INSTANCE MergeSave WITH MaxChanges <- MaxFileChanges, readOnly <- launchedReadOnly

-----------------------------------------------------------------------------
(* Editors that ask for syntax definitions.                                *)

CONSTANTS Editor, FileName, Candidates, Unusable, Unknown, MaxClears, MaxRequests

VARIABLES data, cache, epoch, waiting, loads, editors

syntax == <<data, cache, epoch, waiting, loads, editors>>

Syntax == INSTANCE SyntaxCache

ASSUME SyntaxAssumption ==
  /\ Candidates \in [FileName -> Seq(Syntax!Definition)]
  /\ None \notin FileName /\ None # Unknown
  /\ None \notin [key : Syntax!Key, data : Nat] /\ Unknown \notin [key : Syntax!Key, data : Nat]

-----------------------------------------------------------------------------
(* The presentation of a merge that changes.                               *)

CONSTANT MaxRevisions

VARIABLES
  version, conflicts, mode, base, revision, pending, timer, comparing, stop, batch,
  comparisons, connected, marks, failed

presentation == <<version, conflicts, mode, base, revision, pending, timer, comparing, stop,
                  batch, comparisons, connected, marks, failed>>

Presenting == INSTANCE MergePresentation WITH
  MaxChanges <- MaxRevisions, running <- comparing, token <- stop

-----------------------------------------------------------------------------
(* A walk through two trees.                                               *)

CONSTANTS ScanTree, ScanPath, ScanOptions, ScanContent, White, MaxEntries, MaxDepth, MaxRewrites

VARIABLES scanOptions, trees, writes, scanToken, frames, reading, found, outcome

scan == <<scanOptions, trees, writes, scanToken, frames, reading, found, outcome>>

Scanning == INSTANCE DirScan WITH
  Tree <- ScanTree, Path <- ScanPath, Options <- ScanOptions, Content <- ScanContent,
  MaxChanges <- MaxRewrites, options <- scanOptions, disk <- trees, changes <- writes,
  token <- scanToken, entries <- found, status <- outcome

Block == UNION {{content[n] : n \in DOMAIN content} : content \in ScanContent}
ScanNode == [kind : {"file", "dir", "link", "device"}, content : Seq(Block), time : Nat]
PathName == UNION {{p[n] : n \in DOMAIN p} : p \in ScanPath}
\* What has a path is in a directory, and that in another, up to the root.
IsTree(nodes) ==
  \A p \in ScanPath : nodes[p] # None =>
    \A n \in 1..Len(p) - 1 : LET d == SubSeq(p, 1, n)
                            IN d \in ScanPath /\ nodes[d] # None /\ nodes[d].kind = "dir"
ASSUME ScanAssumption ==
  /\ ScanContent \subseteq Seq(Block)
  /\ ScanPath \subseteq Seq(PathName) \ {<<>>} /\ IsFiniteSet(ScanPath)
  /\ ScanTree # {} /\ ScanTree \subseteq [Side -> [ScanPath -> ScanNode \union {None}]]
  /\ \A pair \in ScanTree, side \in Side : IsTree(pair[side])
  /\ MaxEntries \in Nat /\ MaxDepth \in Nat
  /\ None \notin ScanNode /\ None \notin Side
  /\ None \notin [stage : {"open", "read", "check"}, left : Seq(Block), right : Seq(Block)]

-----------------------------------------------------------------------------
(* A review of an automatic conflict resolution.                           *)

CONSTANTS Conflict, Policy, TooLarge, Markers, Candidate, Edited, Touched, SaveRaces,
          MaxCommands, MaxAnalyses

VARIABLES
  owner, fragments, cleanFragments, plan, stack, index, running, token, analysis, ready,
  draft, asking, published, analyses

resolver == <<owner, fragments, cleanFragments, plan, stack, index, running, token, analysis,
              ready, draft, asking, published, analyses>>

Resolving == INSTANCE ConflictResolver WITH
  result <- fragments, clean <- cleanFragments, job <- analysis, saving <- asking

Words == {Markers, Edited} \union Candidate
Fragments == [Conflict -> [text : Words, state : {"Unresolved", "NeedsReview", "Resolved"},
                           mapped : BOOLEAN]]
Verdict == {"NeedsReview", "Automatic", "Reviewed", "Deferred"}
Decisions == [Conflict -> [state : Verdict, text : Words \union {None}]]
ASSUME ResolverAssumption ==
  /\ Candidate # {} /\ Markers \notin Candidate /\ Touched \subseteq Conflict
  /\ None \notin Fragments /\ None \notin Decisions /\ None \notin [Conflict -> Verdict]

-----------------------------------------------------------------------------

all == <<part, vars, saving, syntax, presentation, scan, resolver>>

InitAll ==
  /\ part \in {"view", "save", "syntax", "present", "scan", "resolve"}
  /\ Init /\ (part # "view" => options = CHOOSE o \in Options : TRUE)
  /\ Saving!Init /\ (part # "save" => ~launchedReadOnly)
  /\ Syntax!Init
  /\ Presenting!Init
  /\ IF part = "scan" THEN Scanning!Init
     ELSE Scanning!InitWith(CHOOSE o \in ScanOptions : TRUE, CHOOSE t \in ScanTree : TRUE)
  /\ Resolving!Init /\ (part # "resolve" => owner = "dialog")

Views == part = "view" /\ UNCHANGED <<part, saving, syntax, presentation, scan, resolver>>
Saves == part = "save" /\ UNCHANGED <<part, vars, syntax, presentation, scan, resolver>>
Syntaxes == part = "syntax" /\ UNCHANGED <<part, vars, saving, presentation, scan, resolver>>
Presents == part = "present" /\ UNCHANGED <<part, vars, saving, syntax, scan, resolver>>
Scans == part = "scan" /\ UNCHANGED <<part, vars, saving, syntax, presentation, resolver>>
Resolves == part = "resolve" /\ UNCHANGED <<part, vars, saving, syntax, presentation, scan>>

ViewStep ==
  \/ Views /\ Refresh
  \/ Views /\ Worker
  \/ Views /\ Deliver
  \/ Views /\ CancelScan
  \/ \E l, t \in Root : Views /\ Reload(l, t)
  \/ Views /\ SwapSides
  \/ \E o \in Options : Views /\ SetOptions(o)
  \/ \E value \in BOOLEAN : Views /\ SetDifferencesOnly(value)
  \/ \E s \in Side, value \in BOOLEAN : Views /\ SetReadOnly(s, value)
  \/ Views /\ Activate
  \/ Views /\ NavigateUp
  \/ \E s \in Side : Views /\ Copy(s)
  \/ \E s \in Side : Views /\ Delete(s)
SaveStep ==
  \/ Saves /\ Saving!ReadStamp
  \/ Saves /\ Saving!ReadOpen
  \/ Saves /\ Saving!ReadRest
  \/ Saves /\ Saving!ReadAfter
  \/ Saves /\ Saving!PrepareExport
  \/ Saves /\ Saving!WriteTemporary
  \/ Saves /\ Saving!Commit
  \/ Saves /\ Saving!SaveFinished
  \/ \E d \in Document : Saves /\ Saving!Edit(d)
  \/ Saves /\ Saving!SetEditable
  \/ Saves /\ Saving!StartSave("Draft", FALSE)
  \/ \E closeAfter \in BOOLEAN : Saves /\ Saving!StartSave("Resolved", closeAfter)
  \/ Saves /\ Saving!SaveAndClose
  \/ Saves /\ Saving!CancelSave
  \/ Saves /\ Saving!Reject
  \/ Saves /\ Saving!RejectEarly
  \/ Saves /\ Saving!Others
SyntaxStep ==
  \/ \E e \in Editor, n \in FileName : Syntaxes /\ Syntax!SetSyntaxFileName(e, n)
  \/ \E k \in Syntax!Key : Syntaxes /\ Syntax!Parse(k)
  \/ \E k \in Syntax!Key : Syntaxes /\ Syntax!Deliver(k)
  \/ \E e \in Editor : Syntaxes /\ Syntax!SetColorScheme(e)
  \/ \E e \in Editor : Syntaxes /\ Syntax!ReloadSyntaxDefinitions(e)
  \/ \E e \in Editor : Syntaxes /\ Syntax!Destroy(e)
  \/ Syntaxes /\ Syntax!UpdateData
PresentStep ==
  \/ Presents /\ Presenting!Change
  \/ Presents /\ Presenting!SetViewMode
  \/ Presents /\ Presenting!SetBaseVisible
  \/ Presents /\ Presenting!ConflictStatesChanged
  \/ Presents /\ Presenting!StartUpdate
  \/ Presents /\ Presenting!Work
  \/ Presents /\ Presenting!Finished
ScanStep ==
  \/ Scans /\ Scanning!ListLeft
  \/ Scans /\ Scanning!ListRight
  \/ Scans /\ Scanning!CannotList
  \/ Scans /\ Scanning!NextName
  \/ Scans /\ Scanning!Return
  \/ Scans /\ Scanning!Open
  \/ Scans /\ Scanning!ReadBlock
  \/ Scans /\ Scanning!CheckLeft
  \/ Scans /\ Scanning!CheckRight
  \/ Scans /\ Scanning!Cancel
  \/ Scans /\ Scanning!Cancelled
  \/ \E s \in Side, p \in ScanPath, bytes \in ScanContent : Scans /\ Scanning!Rewrite(s, p, bytes)
ResolveStep ==
  \/ Resolves /\ Resolving!Undo
  \/ Resolves /\ Resolving!Redo
  \/ Resolves /\ Resolving!Edit
  \/ \E policy \in DOMAIN Policy : Resolves /\ Resolving!Analyze(policy)
  \/ Resolves /\ Resolving!Work
  \/ Resolves /\ Resolving!Cancel
  \/ Resolves /\ Resolving!Finished
  \/ Resolves /\ Resolving!CaptureDraft
  \/ Resolves /\ Resolving!RestoreDraft
  \/ Resolves /\ Resolving!SaveAs
  \/ Resolves /\ Resolving!SaveAbandoned
  \/ Resolves /\ Resolving!SaveAnswered

NextAll == ViewStep \/ SaveStep \/ SyntaxStep \/ PresentStep \/ ScanStep \/ ResolveStep

\* The fairness of each part, in the behaviours about it.
Fairness ==
  /\ WF_vars(part = "view" /\ Worker) /\ WF_vars(part = "view" /\ Deliver)
  /\ WF_saving(part = "save" /\ Saving!Worker)
  /\ \A k \in Syntax!Key : WF_syntax(part = "syntax" /\ (Syntax!Parse(k) \/ Syntax!Deliver(k)))
  /\ WF_presentation(part = "present" /\ Presenting!StartUpdate)
  /\ WF_presentation(part = "present" /\ Presenting!Work)
  /\ WF_presentation(part = "present" /\ Presenting!Finished)

SpecAll == InitAll /\ [][NextAll]_all /\ Fairness

-----------------------------------------------------------------------------
(* The properties of the parts; DirView's keep their names.                *)

\* Completion is told truthfully, and no foreign change of the file is replaced
\* unseen (MergeSave).
SavesAreSafe == Saving!CompletionIsTrue /\ Saving!ForeignChangesSurvive

\* A save that is reported as failed has replaced nothing, and text counts as clean
\* only once it has been read back (MergeSave).
DialogIsHonest == []Saving!ResultIsHonest /\ Saving!WorkIsKept

\* A result is shown only for what it was asked about: definitions read before a
\* clear do not come back, late answers do not change an editor that asks for another
\* file, and comparisons are of the texts in the panes (SyntaxCache, MergePresentation).
ResultsAreCurrent ==
  /\ Syntax!CacheSurvivesNoClear /\ Syntax!SettledEditorShowsItsFile
  /\ Presenting!ShowsCurrentTexts

\* Whatever is said of a file's content was true at one moment (DirScan).
VerifiedIsTrue == Scanning!VerifiedIsTrue

\* A scan that is ready is complete and summed up, and the limits are exact (DirScan).
ScanIsComplete == Scanning!ReadyScanIsComplete /\ Scanning!LimitsAreExact

\* Text and decisions stay together through every history (ConflictResolver).
DecisionsFollowText == Resolving!DecisionsFollowText

\* Late analyses change nothing, a plan is installed as a whole, and what counts as
\* saved is what was written, with a report about it (ConflictResolver).
ResolverStepsAreSound ==
  /\ Resolving!LateAnalysisChangesNothing /\ Resolving!ResolutionIsAllOrNothing
  /\ Resolving!SavesAreTrue /\ Resolving!UnreportedSaveIsNoSave

\* Whatever is asked of a worker comes to an end: scans, saves, loads, comparisons.
EverythingSettles ==
  /\ ScanEnds /\ Saving!SaveEnds /\ Syntax!EveryEditorSettles /\ Presenting!RequestsSettle
=============================================================================
