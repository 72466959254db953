------------------------------- MODULE DirView -------------------------------
(***************************************************************************)
(* The directory comparison (DirDiffWidget) and the requests its host      *)
(* answers.  Scans run on workers, one per refresh, and several may be     *)
(* under way: every refresh cancels the one before it, and only the result *)
(* of the newest is installed.  Everything else runs on the GUI thread.    *)
(*                                                                         *)
(* A path is the sequence of names below a root; whether a path is a       *)
(* directory does not change.  A scan reads both trees at one moment, and  *)
(* only the host's copies and deletions change them.                       *)
(***************************************************************************)
EXTENDS Naturals, Sequences, FiniteSets

CONSTANTS
  Root,          \* directories that can be compared
  Path, Dirs,    \* relative paths, and those of directories
  Content,       \* contents of files
  Options,       \* values of DirectoryScanOptions
  Alike,         \* per option value, the pairs of contents it takes for the same
  InitialTree,   \* what is on disk at the start
  None,          \* no root, no result
  MaxScans       \* bound on the number of scans

Top == <<>>
Parent(p) == SubSeq(p, 1, Len(p) - 1)
Below(p, q) == Len(p) <= Len(q) /\ SubSeq(q, 1, Len(p)) = p
Above(S) == UNION {{SubSeq(p, 1, k) : k \in 1..Len(p)} : p \in S}

\* A directory as a function from the paths that exist in it.
Tree == UNION {[S -> Content \union {"directory"}] : S \in SUBSET Path}
WellFormed(t) ==
  \A p \in DOMAIN t : /\ Above({p}) \subseteq DOMAIN t
                      /\ p \in Dirs <=> t[p] = "directory"

ASSUME DirViewAssumption ==
  /\ None \notin Root /\ Path \subseteq Seq(STRING) \ {Top} /\ Dirs \subseteq Path
  /\ \A p \in Path : Parent(p) \in Dirs \union {Top}
  /\ Alike \in [Options -> SUBSET (Content \X Content)]
  /\ InitialTree \in [Root -> Tree] /\ \A r \in Root : WellFormed(InitialTree[r])
  /\ MaxScans \in Nat

Side == {"left", "right"}
Other(s) == IF s = "left" THEN "right" ELSE "left"

VARIABLES
  root,             \* m_leftPath, m_rightPath
  readOnly,         \* m_leftReadOnly, m_rightReadOnly
  options, differencesOnly,
  entries,          \* m_entries: an entry names the root it was found under
  rows,             \* the entries in the table
  relative,         \* m_relative
  generation, scanning,
  scans,            \* the scans whose finished() has not been handled
  abandoned,        \* history: did the last scan end by Cancel scan, without a result?
  tree              \* the file system

chosen == <<root, readOnly, options>>
table == <<entries, rows, abandoned>>
request == <<generation, scanning, scans>>
vars == <<chosen, differencesOnly, table, relative, request, tree>>

Entry == [path : Path, left : Root \union {None}, right : Root \union {None},
          same : BOOLEAN]

-----------------------------------------------------------------------------
(* Scanning.                                                               *)

\* scanDirectories.  A directory is the same when all below it is.
Found(r, p) == IF p \in DOMAIN tree[r] THEN r ELSE None
Equal(l, r, o, p) ==
  \A q \in DOMAIN tree[l] \union DOMAIN tree[r] :
    Below(p, q) => /\ q \in DOMAIN tree[l] \cap DOMAIN tree[r]
                   /\ \/ tree[l][q] = tree[r][q]
                      \/ <<tree[l][q], tree[r][q]>> \in Alike[o]
ScanDirectories(l, r, o) ==
  {[path |-> p, left |-> Found(l, p), right |-> Found(r, p), same |-> Equal(l, r, o, p)] :
     p \in DOMAIN tree[l] \union DOMAIN tree[r]}

\* refresh, for the roots and options shown from now on.
NewScan(l, r, o) ==
  [generation |-> generation + 1, left |-> l, right |-> r, options |-> o,
   cancelled |-> FALSE, result |-> None]
KeepCurrent == scans
CancelCurrent ==
  {IF s.generation = generation THEN [s EXCEPT !.cancelled = TRUE] ELSE s : s \in scans}
RefreshFor(l, r, o) ==
  IF None \in {l, r} THEN UNCHANGED <<generation, scanning, scans>>
  ELSE /\ generation < MaxScans /\ generation' = generation + 1
       /\ scanning' = TRUE
       /\ scans' = CancelCurrent \union {NewScan(l, r, o)}

Refresh ==
  /\ RefreshFor(root["left"], root["right"], options)
  /\ UNCHANGED <<chosen, differencesOnly, table, relative, tree>>

\* The worker of scan s ends: cancelled, failed or with the entries.
WorkerEnds(s) ==
  /\ s \in scans /\ s.result = None
  /\ \E result \in IF s.cancelled THEN {[status |-> "Cancelled", entries |-> {}]}
                   ELSE {[status |-> "Failed", entries |-> {}],
                         [status |-> "Ready", entries |-> ScanDirectories(s.left, s.right, s.options)]} :
       scans' = (scans \ {s}) \union {[s EXCEPT !.result = result]}
  /\ UNCHANGED <<chosen, differencesOnly, table, relative, generation, scanning, tree>>

\* populate: the entries of the current directory that pass the filter.
Listing(es, where, filtered) ==
  {e \in es : Parent(e.path) = where /\ (filtered => ~e.same)}
Populated(es, where, filtered) == Listing(es, where, filtered)

\* finished(): an outdated result is dropped; a cancelled one leaves the old entries.
OutdatedIfCancelled(s) == s.cancelled
NeverOutdated(s) == FALSE
Outdated(s) == s.generation # generation
ScanFinished(s) ==
  /\ s \in scans /\ s.result # None
  /\ scans' = scans \ {s}
  /\ IF Outdated(s) THEN UNCHANGED <<table, scanning>>
     ELSE /\ scanning' = FALSE
          /\ abandoned' = (s.result.status = "Cancelled")
          /\ IF s.result.status = "Cancelled" THEN UNCHANGED <<entries, rows>>
             ELSE /\ entries' = s.result.entries
                  /\ rows' = Populated(entries', relative, differencesOnly)
  /\ UNCHANGED <<chosen, differencesOnly, relative, generation, tree>>

CancelScan ==
  /\ scanning
  /\ scans' = CancelCurrent
  /\ UNCHANGED <<chosen, differencesOnly, table, relative, generation, scanning, tree>>
-----------------------------------------------------------------------------
(* Roots, options and navigation.                                          *)

\* reload, with two existing directories entered: the table is not cleared.
Reload(l, r) ==
  /\ root' = [left |-> l, right |-> r] /\ relative' = Top
  /\ RefreshFor(l, r, options)
  /\ UNCHANGED <<readOnly, options, differencesOnly, table, tree>>

Swapped(f) == [s \in Side |-> f[Other(s)]]
SwapSides ==
  /\ root' = Swapped(root) /\ readOnly' = Swapped(readOnly)
  /\ RefreshFor(root["right"], root["left"], options)
  /\ UNCHANGED <<options, differencesOnly, table, relative, tree>>

\* setIgnoreLineEndings, setIgnoreEncoding, setExclusions and setDiffOptions.
SetOptions(o) ==
  /\ o # options /\ options' = o
  /\ RefreshFor(root["left"], root["right"], o)
  /\ UNCHANGED <<root, readOnly, differencesOnly, table, relative, tree>>

\* setDifferencesOnly; setHideEmptyDirectories repopulates the table likewise.
SetDifferencesOnly(value) ==
  /\ differencesOnly' = value
  /\ rows' = Populated(entries, relative, differencesOnly')
  /\ UNCHANGED <<chosen, entries, abandoned, relative, request, tree>>

SetReadOnly(s, value) ==
  /\ readOnly' = [readOnly EXCEPT ![s] = value]
  /\ UNCHANGED <<root, options, differencesOnly, table, relative, request, tree>>

MoveTo(where) ==
  /\ relative' = where /\ rows' = Populated(entries, where, differencesOnly)
  /\ UNCHANGED <<chosen, differencesOnly, entries, abandoned, request, tree>>

\* Both sides of an entry that is entered must still be there.
NavigateInto(name) ==
  LET where == Append(relative, name)
  IN /\ where \in Dirs
     /\ \E e \in entries :
          /\ e.path = where
          /\ \A s \in Side : e[s] # None => where \in DOMAIN tree[e[s]]
     /\ MoveTo(where)

\* onActivated, for a directory; a file is handed to the host.
Activate ==
  /\ ~scanning
  /\ \E e \in rows : e.path \in Dirs /\ NavigateInto(e.path[Len(e.path)])

\* navigateUp works during a scan as well.
NavigateUp == relative # Top /\ MoveTo(Parent(relative))
-----------------------------------------------------------------------------
(* Copying and deleting: the buttons and the host that answers them.       *)

\* updateActions: the buttons for what is selected.
HasSideEvenScanning(selected, s) == selected # {} /\ \A e \in selected : e[s] # None
HasSide(selected, s) == ~scanning /\ selected # {} /\ \A e \in selected : e[s] # None
CanCopyFrom(selected, s) == HasSide(selected, s) /\ ~readOnly[Other(s)]
CanDelete(selected, s) == HasSide(selected, s) /\ ~readOnly[s]

Chosen(selected) == {p \in Path : \E e \in selected : Below(e.path, p)}

\* The host plans against the roots; a missing source refuses the whole copy,
\* a failure on the way leaves a part of it.
Copy(s) ==
  \E selected \in SUBSET rows :
    LET from == root[s]
        to == root[Other(s)]
        planned == Chosen(selected) \cap DOMAIN tree[from]
    IN /\ CanCopyFrom(selected, s) /\ from # to
       /\ \A e \in selected : e.path \in DOMAIN tree[from]
       /\ \E done \in SUBSET planned :
            tree' = [tree EXCEPT ![to] =
              [p \in DOMAIN @ \union Above(done) |-> IF p \in Above(done) THEN tree[from][p] ELSE @[p]]]
       /\ RefreshFor(root["left"], root["right"], options)
       /\ UNCHANGED <<chosen, differencesOnly, table, relative>>

Delete(s) ==
  \E selected \in SUBSET rows :
    /\ CanDelete(selected, s)
    /\ \E done \in SUBSET selected :
         tree' = [tree EXCEPT ![root[s]] = [p \in DOMAIN @ \ Chosen(done) |-> @[p]]]
    /\ RefreshFor(root["left"], root["right"], options)
    /\ UNCHANGED <<chosen, differencesOnly, table, relative>>

-----------------------------------------------------------------------------
\* The desktop host permits writing on both sides.
Init ==
  /\ root = [s \in Side |-> None] /\ readOnly = [s \in Side |-> FALSE]
  /\ options \in Options /\ differencesOnly = FALSE
  /\ entries = {} /\ rows = {} /\ relative = Top
  /\ generation = 0 /\ scanning = FALSE /\ scans = {} /\ abandoned = FALSE
  /\ tree = InitialTree

Worker == \E s \in scans : WorkerEnds(s)
Deliver == \E s \in scans : ScanFinished(s)

Next ==
  \/ Refresh
  \/ Worker
  \/ Deliver
  \/ CancelScan
  \/ \E l, r \in Root : Reload(l, r)
  \/ SwapSides
  \/ \E o \in Options : SetOptions(o)
  \/ \E value \in BOOLEAN : SetDifferencesOnly(value)
  \/ \E s \in Side, value \in BOOLEAN : SetReadOnly(s, value)
  \/ Activate
  \/ NavigateUp
  \/ \E s \in Side : Copy(s) \/ Delete(s)

Spec == Init /\ [][Next]_vars

\* Every scan ends, and the event loop delivers what has ended.
FairSpec == Spec /\ WF_vars(Worker) /\ WF_vars(Deliver)
-----------------------------------------------------------------------------
Result == [status : {"Ready", "Failed", "Cancelled"}, entries : SUBSET Entry]
Scan == [generation : Nat \ {0}, left : Root, right : Root, options : Options,
         cancelled : BOOLEAN, result : Result \union {None}]

\* The members of DirDiffWidget hold values of their types.
TypeOK ==
  /\ root \in [Side -> Root \union {None}] /\ readOnly \in [Side -> BOOLEAN]
  /\ options \in Options /\ differencesOnly \in BOOLEAN
  /\ entries \in SUBSET Entry /\ rows \in SUBSET entries /\ relative \in Dirs \union {Top}
  /\ generation \in Nat /\ scanning \in BOOLEAN /\ scans \in SUBSET Scan
  /\ abandoned \in BOOLEAN
  /\ tree \in [Root -> Tree]

\* Whatever is refreshed, swapped or cancelled in between: a scan that still
\* works on unasked-for roots or options has been told to stop.
LiveScanIsCurrent ==
  \A s \in scans : ~s.cancelled =>
    /\ s.generation = generation /\ s.options = options
    /\ s.left = root["left"] /\ s.right = root["right"]

\* The table is disabled exactly while the newest scan is outstanding: no
\* result is awaited that will not come, and none comes unawaited.
ScanningAwaitsOneResult ==
  /\ scanning <=> \E s \in scans : s.generation = generation
  /\ \A s, u \in scans : s.generation = u.generation => s = u

\* Entries that can be acted on were found under the roots shown, on the sides
\* shown.  Not so once the user has cancelled a scan.
OfShownRoots == ~scanning => \A e \in entries, s \in Side : e[s] \in {None, root[s]}

\* The table can be acted on and the user has not cut its scan short.
Settled == ~scanning /\ ~abandoned

\* Then what can be acted on is what is on disk under the roots shown, compared
\* with the options shown, or nothing at all.
ShowsTheDisk ==
  Settled => \/ entries = {}
             \/ entries = ScanDirectories(root["left"], root["right"], options)

\* Then the table lists the current directory: what is selected in it is what its
\* path says.
ListsCurrentDirectory == Settled => rows = Listing(entries, relative, differencesOnly)

\* Then a copy or a deletion is offered only for what is there to be taken.
OffersWhatIsThere ==
  ~abandoned =>
    \A e \in rows, s \in Side :
      CanCopyFrom({e}, s) \/ CanDelete({e}, s) => e.path \in DOMAIN tree[root[s]]

\* What the table shows, lists and offers is true of the disk, although the disk,
\* the roots, the options and the directory change while scans are under way.
TableIsTrue == TypeOK /\ ShowsTheDisk /\ ListsCurrentDirectory /\ OffersWhatIsThere

\* Only a scan of the roots and options shown changes the entries.
InstallsOnlyCurrent ==
  [][entries' # entries =>
       \/ entries' = {}
       \/ \E s \in scans : /\ s.result # None /\ s.result.entries = entries'
                           /\ s.options = options
                           /\ s.left = root["left"] /\ s.right = root["right"]]_vars

\* A scan that starts comes to an end for the user, cancelled or not.
ScanEnds == scanning ~> ~scanning
=============================================================================
