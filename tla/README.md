# Formal model of diffmerge

TLA+ modules for diffmerge: the desktop comparison and merge application
(`diffmerge-gui`), the command `diffmerge-resolve` (`diffmerge-cli`), the shared
model library (`libdiffmodel`) and the diff engine (`libdiffcore`). TLC checks small
instances; TLAPS proves the theorems of section 5 for every value of the constants.
`PROJECT.json` is the index: components, runs, the source lines behind every
definition, hazards, findings, theorems.

## 1. The system

| Component | Source | State | Operations | What must hold |
|---|---|---|---|---|
| File view | `diffmerge-gui/src/fileview/` | per side: document, snapshot, clean text, modified/raw/editable flags, target, fingerprint; generation, token, timer, pending; presentation: mode, folds, highlights, current change | edit, copy block, undo, options, reload, load, swap, discard, save, switch modes, byte comparison; fold, reveal, search, scroll, navigate | unsaved text is never lost or hidden; blocks describe the text shown; files are not overwritten unasked; every line is in one row and no highlight is on a fold |
| Directory view | `diffmerge-gui/src/dirview/` | roots, entries, scanning, token, generation, busy | reload, refresh, cancel, swap, navigate, open, copy, trash | entries shown and acted on belong to the roots shown; copies do not overwrite what was not confirmed |
| Directory scan | `dirview/DirDiffModel.cpp` | recursion, entries, the file being read | list, compare, descend, cancel | what is said of a file was true; limits are exact; a ready scan is complete |
| Merge editor | `diffmerge-gui/src/merge/MergeWidget.cpp` | text, endings, conflicts, undo stack of 32, parallel metadata history | edit, choose, review, undo, redo, save | metadata follows the text through undo; a resolved file has no unreviewed conflict |
| Conflict resolver | `merge/ConflictResolverWidget.cpp`, `ResolveDialog.cpp` | plan, decisions, undo macros, analysis and its token, draft | analyse, cancel, choose, edit, undo, save with a report | text and decisions stay together; a late analysis changes nothing |
| Merge presentation | `merge/MergePresentation.cpp`, `MergePreviewWidget.cpp` | revision, timer, worker, comparisons, marks | request, compare, install | what is painted is of the texts shown; no request is lost |
| Result saving | `MergeResultSave.cpp`, `MergeDialog.cpp` | file stamps, captured document, exit code | read, validate, write, rename, verify, close | a foreign change is not overwritten unseen; the exit code is true |
| Syntax highlighting | `diffmerge-gui/src/editor/SyntaxLoader.cpp`, `DiffEditor.cpp` | cache, epoch, waiters, generation per editor | request, load, share, clear, destroy | no definition of a cleared cache returns; every editor settles |
| Main window | `MainWindow.cpp` | watched files, stamps, dialogs, current view | open, watch, refresh, save, close | every change on disk is offered once |
| Merge rules | `libdiffmodel/src/MergeExport.cpp`, `libdiffcore/src/ConflictMarkers.cpp` | none (pure) | import markers, export | a draft keeps its conflicts; a resolved result has none |
| Headless resolver | `libdiffcore/src/ConflictResolution.cpp` | none (pure) | plan, review, materialise, report | automatic decisions keep every edit |
| `diffmerge-resolve` | `diffmerge-cli/src/resolve_main.cpp` | order of publication, interrupt | check, plan, publish | report and exit code say what was written |
| Comparison model | `libdiffmodel/src/AlignedLineModel.cpp`, `ScrollSyncMapper.cpp`, `fileview/ViewProjection.cpp` | none (pure) | align, map lines, fold | rows cover both texts in order; scrolling keeps matched lines together |
| Diff engine | `libdiffcore/` | none (pure); budget counters | O(NP) script, counting, sliders | the script is valid and shortest; work stops at its limits |
| Tools | `diffmerge-corpus-dl/`, `diffmerge-slider-eval/`, `examples/`, `diffmerge-cli/src/main.cpp` | none | offline or sequential | out of scope |

Everything in the GUI but workers and other processes runs on one thread, so a
handler is atomic unless it opens a nested event loop. The hard behaviours are
therefore: results of workers that arrive after the state they were computed from
has changed; cancellation that races with completion; files that other processes
change between a check and its use; nested dialogs; long sequences of legal
calls that leave several flags describing different states; several outputs of which
one fails; and pure algorithms whose special cases meet only in rare inputs.

Interactions: the main window creates a file or a directory view and answers its
requests; both hand work to a thread pool and install what comes back. The directory
view asks for scans (`DirScan`) and copies (`DirCopy`). The merge dialog embeds the
editor, which asks for comparisons, and saves what `MergeExport` makes of RESULT. The
resolver widget runs the headless resolver in a worker and edits RESULT through the
merge editor. All editors share one cache of syntax definitions.

## 2. Modules

| Module | Models | Checked by |
|---|---|---|
| `FileEditing` | `FileDiffWidget` with `FileEditing.cpp`, `FileReload.cpp`, `ByteComparison.cpp` | `MCFileEditing`, `MCFileDisk`, `MCFileRace` |
| `FileView` | its presentation: `ViewProjection.cpp`, `AlignedLineModel.cpp`, `ScrollSyncMapper.cpp`, positions of `DiffEditor.cpp`, folds and navigation of `FileDiffWidget.cpp` | `MCLibraries` |
| `FileWatch` | the watching, refreshing and saving of `MainWindow.cpp` | `MCFileWatch`, `MCWatchSwap` |
| `DirView` | `DirDiffWidget.cpp`, the host's answers in `MainWindow.cpp`, a scan as one reading | `MCWorkers`, `MCDirCancelled` |
| `DirScan` | `DirDiffModel.cpp`: the walk, step by step | `MCWorkers` |
| `DirCopy` | `DirectoryOperations.cpp`, plan to commit | `MCDirCopy` |
| `UndoHistory` | abstract: what a bounded undo history promises | as a property |
| `MergeEditing` | `MergeWidget.cpp`; implements `UndoHistory` | `MCMergeEditing`, `MCMergeLimit` |
| `MergeSave` | `MergeResultSave.cpp`, the saving and closing of `MergeDialog.cpp` | `MCWorkers` |
| `MergePresentation` | `MergePresentation.cpp`, the queue of `MergePreviewWidget.cpp` | `MCWorkers` |
| `ConflictResolver` | `ConflictResolverWidget.cpp`, the saving of `ResolveDialog.cpp` | `MCWorkers` |
| `SyntaxCache` | `SyntaxLoader.cpp` and the requests of `DiffEditor.cpp` | `MCWorkers` |
| `ConflictMarkers` | `ConflictMarkers.cpp` of `libdiffcore` and the marker writer of `libdiffmodel` | through `MergeExport` |
| `MergeExport` | `MergeExport.cpp` | `MCLibraries` |
| `ConflictResolution` | `ConflictResolution.cpp` | `MCLibraries` |
| `ResolveCommand` | `resolve_main.cpp` | `MCLibraries` |
| `SequenceDiff` | `detail/Diff.h`, `SequenceDiff`, `DiffEngine::countChanges`, `ComputationControl` | `MCLibraries` |
| `SliderHeuristics` | `SliderHeuristics.cpp` and `DiffEngine::compute` on top of `SequenceDiff` | `MCLibraries`, `MCSliders` |
| `Workers` | the six parts that hand work to a thread pool, in one specification | `MCWorkers` |
| `Libraries` | the comparison engine and the libraries around it, in one specification | `MCLibraries` |
| `FileEditing_proofs` | proofs about `FileEditing`: types, then requests and blocks, then files and clean text | – |
| `MergeEditing_proofs`, `FileWatch_proofs`, `DirCopy_proofs` | proofs about the module of that name | – |
| `Workers_proofs` | proofs about `SyntaxCache`, `MergePresentation`, `ConflictResolver`, `MergeSave` and `DirScan` as parts of `Workers` | – |
| `Scan_proofs` | on top of it, the complete walk of `DirScan`, and the scans of `DirView` | – |
| `Libraries_proofs` | proofs about `ResolveCommand`, `SequenceDiff` and `SliderHeuristics` as parts of `Libraries` | – |
| `Distance_proofs` | on top of it, that the script of `SequenceDiff` is the shortest and its count exact | – |

`MCDirView` and `MCSequenceDiff` give two of them small constants. `Workers` extends
`DirView` and adds five other parts by `INSTANCE`; `MCWorkers` gives it constants, with
those of `MCDirView`. In the same way `Libraries` extends `SliderHeuristics`, which extends
`SequenceDiff`, and adds the other libraries; `MCLibraries` gives it constants, with those of
`MCSequenceDiff`. The parts of such a run share no state: `part` is chosen at the start, and the others keep
their first state, so the run is the union of the behaviours of its parts. Operators named like a slip
(`KeepCurrent`, `FoldOfEvery`, ...) beside the one they vary are wrong variants, used
nowhere: they show that a property can fail.

### FileEditing

`ed[side]` holds what `FileEditingState` and the editor document hold for a side;
`doc` is the document's text, `cleanText` the text the modified flag compares with,
`expected` the fingerprint. A text is the set of its lines, a change block one line
that only one side has: order does not matter to anything stated. `workers` are
computations whose `finished()` the GUI thread has not handled; `token` is the
generation whose token `m_editing` holds. Every request handler is one action;
`save` is three (`SaveBegin`, `SaveCommit`, `SaveRecord`, with `SaveAnswered` for
the encoding question), because other processes run between them and, inside the
question, so does the event loop. The answer may be to write `?` for what the encoding
cannot store: `saving.bytes` is then any other text than the one saved.

### FileView

One comparison, installed and unmodified, as a list of hunks; `rows` is
`m_projection`, rebuilt by every handler that changes mode, context, folds or
highlights. Positions are whole lines: the code maps them with `double`s, the model
with integers, which is the same as long as a matched line maps to a whole number
(see Known divergences). Search results and revealed ranges are given as ranges; how text
is found is not modelled. `ViewIsFaithful` is six statements about rows, folds,
highlights, scrolling, fillers and navigation.

### MergeEditing and UndoHistory

`text`, `current`, `history`, `lastIndex` are the members of `MergeEditingState`;
`stack` and `index` are Qt's `QUndoStack`, modelled from its documented behaviour:
a push drops what can be redone, the limit drops the oldest command, typing may be
merged into the last command. `captured` is the copy `captureExportInput` gives a host,
which saves it or restores it later as a draft; `Writable` are the texts within the limits.
The sidecar `history` is what can go wrong: it must
be cut, rebased and extended in step with a stack it only sees through
`indexChanged`. `UndoRestoresMetadata` says that `MergeEditing` implements
`UndoHistory` under the mapping of the stack's commands to past and future states,
the state being text *and* metadata. Two kinds of users (`user`, fixed in a behaviour)
keep the space small: one types, the other chooses new ranges; both use the conflict
buttons. A command is never reallocated at the address of a dropped one.

### MergeSave

`readMergeResultFile` is four actions (stamp, open with the first block, the other
block, stamp again), and it is used for loading, for both validations of a save, for
reading back, and for the last check before exit code 0. Between any two of them
other processes rewrite, replace, protect or remove the file; a reader that has the
file open keeps the replaced one. The widget is its text; `Exported` stands for
`prepareMergeExport`, of which `MergeExport` has the details.

### MergePresentation

Documents and conflict states are version numbers; a batch carries the versions it
was captured with. `comparisons`, `connected` and `marks` are what is painted, each
with the versions it belongs to, so that a stale one differs from the state.

### ConflictResolver

RESULT is one fragment per conflict, with its text, state and whether it still has a
place; a macro of the undo stack carries fragments and decisions before and after.
`owner` tells the dialog, which saves an output and a report, from a host, which keeps
a draft. A replacement beyond the text limits (`TooLarge`) makes a macro fail halfway.

### SyntaxCache

A key is a definition and a theme. What a definition includes is no part of its key, so
`data` counts the versions of the Kate data; a parsed definition keeps the one it was read
from, and `epoch` counts clears. `loads` run in any order; `waiting` are the requests
that joined each.

### DirView, DirScan and DirCopy

In `DirView` an entry names the root it was found under; the code does not keep it,
and that is the point of the properties. `abandoned` is history: a scan was cut short.
`Scans` of several generations are outstanding at once, and their results are
delivered in any order. `DirScan` is the worker: `frames` are the calls of `scan`, the
names of a directory come in any order, files are read block by block while others
rewrite them, and the stamps are compared afterwards. In `DirCopy` a file is read in
two halves, so a copy can mix two versions; other processes change either tree between
any two steps, any step may fail. Stamps (size and time) tell changes apart.

### FileWatch

The window's handlers are cut where they open a question, where they read a stamp
and where they read the file, so that foreign writes fall in between. `prompt` fixes
the environment of a behaviour: on a prompt machine notices are delivered before
anything else and nothing is written while the window is busy. The file view is
reduced to the text of a side and the content it was read from; `failed` is history: the
last reload of a side has failed. Not modelled: byte
fallback for undecodable files, the same file on both sides, the dialog loop of
`confirmModified`, notices that Qt drops in `removePaths`; `LoadFiles` is atomic.

### ConflictMarkers and MergeExport

A line is its first character, how often it is repeated, and the label behind it: what
the automaton looks at. `Read` is one turn of its loop. RESULT grows by any line until
it is captured with its conflicts, one of which may lie anywhere, and exported once:
what `BlocksAreTheMarkers` says is said of every text up to the bound.

### ConflictResolution and ResolveCommand

A file is a sequence of bytes with the ranges of its blocks. The comparison of BASE with
a side is any longest common subsequence, chosen once (`matched`), so the properties do
not rest on which of them the engine finds. Whether a target is a rewrite is measured in
tokens by the code; here either answer is possible. `ResolveCommand` is the program
around it: any read or write may fail, and SIGINT may arrive at any time. `FileOf` tells which
paths are names of one file, through a linked directory; the command recognizes them only
when the file is there (`Aliases`). Symbolic links to files are refused (`Irregular`).

### SequenceDiff and SliderHeuristics

One action per collected diagonal, as in `Diff::compare`; the array, the loop
variables and the trace are the code's. `Script` is `backtrack`, `unswapBlocks` and
`sequenceResultFromBlocks`; `Presented` applies the two merging options. `Stop`
is a throwing checkpoint. The reference is the longest common subsequence by dynamic
programming. `SliderHeuristics` sees of a line its indentation and a set of labels
(comment, blank, section, ...); `Back` and `Forward` are the two phases of
`adjustPosition`.

## 3. What the runs show

| Run | Bounds | Shows |
|---|---|---|
| `MCFileEditing` | one line, two option values, 2 superseding requests, limits may stop a worker, a save may ask and write another text | every interleaving of handlers and up to three workers keeps the inductive invariant's parts; `EditsSurvive` (no step but saving, discarding, loading or editing changes unsaved text); `BlocksComeBack` |
| `MCFileDisk` | as above with undecodable and binary contents, 2 foreign writes, one option value, no limits | fingerprints and the modified mark stay true to what was loaded or saved; lossy text is never editable |
| `MCFileRace` | a foreign write between commit and re-fingerprint | violation, see findings |
| `MCMergeEditing` | texts of up to 3 characters, two neighbouring conflicts, one of them empty; limit 2; two commands of a typist, three of a reviewer, who does not save, in texts of up to 2 | ranges stay apart and inside RESULT, endings match line breaks (`MetadataFitsText`), resolved text changes only with its state, saved is saved, and the editor implements `UndoHistory` |
| `MCMergeLimit` | three typed commands, limit 2 | violation |
| `MCDirCancelled` | two roots, three paths, two option values, 2 scans | violation |
| `MCDirCopy` | all trees over a directory, a path in it and a path beside it; 3 foreign changes | every commit is of the confirmed version of the file, nothing unmarked is replaced while it could be seen; undisturbed, a confirmed plan is carried out (`CopyIsSound`) |
| `MCFileWatch` | two files (interchangeable: symmetry), three contents, 2 foreign writes | once quiet the window shows the disk, its own saves are never asked about (`WatchIsSound`), a question is still true when answered |
| `MCWatchSwap` | the same | violation |
| `MCSliders` | inputs of up to 3 lines, one of them a mark | violation |
| `MCWorkers` | see below | six parts that hand work to a thread pool |
| `MCLibraries` | see below | five libraries, over all small inputs |

`MCWorkers`, part by part:

| Part | Bounds | Properties |
|---|---|---|
| `DirView` | two roots, three paths, two option values, 2 scans | `InstallsOnlyCurrent`, `LiveScanIsCurrent`, `ScanningAwaitsOneResult`; `TableIsTrue`: what is shown, listed and offered exists, unless a scan was cut short |
| `DirScan` | trees of at most three levels, 3 entries, depth 2, contents of up to two blocks, one foreign rewrite, normalised up to some size or not, an excluded name, a directory that cannot be listed | `VerifiedIsTrue`: whatever is said of a file's content was true at one moment; `ScanIsComplete`: a ready scan lists and sums up everything, and limits are exact |
| `MergeSave` | two documents, 3 foreign changes | `SavesAreSafe`: a foreign change is not replaced unseen, exit code 0 is true; `DialogIsHonest`: a failed save replaced nothing, text is clean only when read back |
| `SyntaxCache` | two editors, two file names, a definition that cannot be parsed, two themes; one change of the data, 2 requests per editor | `ResultsAreCurrent` |
| `MergePresentation` | 3 changes | `ResultsAreCurrent` |
| `ConflictResolver` | two conflicts, one with a replacement that is too large, two policies, 2 commands, 2 analyses | `DecisionsFollowText`; `ResolverStepsAreSound`: late analyses change nothing, resolutions are installed whole, saves and reports are true |
| all | | `EverythingSettles`: scans, saves, requests for syntax and comparisons end |

`MCLibraries`, part by part:

| Part | Bounds | Properties |
|---|---|---|
| `SequenceDiff`, `SliderHeuristics` | all pairs of inputs of up to 5 lines over 7 alphabets of two; limits 0, 1, 3; trace of up to 30 | `ScriptIsSound` (valid and in its types, merged or not), `DistanceIsExact` (shortest, and counted exactly up to the limit), `SlidBlocksAreTheSameEdit` |
| `FileView` | eight comparisons of up to four changes, context 0 and 1, four ranges to reveal or find | `ViewIsFaithful` |
| `MergeExport` | all texts of up to 6 lines of 9 kinds; five option sets; three sources | `ExportsAreSound`: the automaton accepts exactly the well-formed texts, drafts keep their conflicts, resolved results have none |
| `ConflictResolution` | one block with sides of up to 4 lines and two plans, or two blocks with one plan and two reviews | `ResolutionIsSound` |
| `ResolveCommand` | every command line over six paths: the input and another name of it, another existing file, a new file under two names, a symbolic link | `CommandIsTruthful`: the input and unconfirmed files are kept; report and exit code are true, unless two outputs name one new file (`NewFilesAreApart`) |

Why the bounds are enough to be interesting: a third request only repeats the
relation between a live worker and an obsolete one, which two requests have; two
foreign writes give a change and a change of mind, three a change in each of load,
validation and commit; an undo limit of two is the least at which the code can drop a
command and keep another; five lines and three distances let the search run several
rounds on both sides of `delta` and stop at its limit; six lines hold a complete block
with BASE and a line around it, or two blocks; the entry limit is below the largest
tree and the depth limit cuts the deepest.

`CHECK_DEADLOCK FALSE` is given everywhere because every model can stop: counters
reach their bounds, computations end, and users need not act.

**Fairness.** Nothing is assumed of users or other processes. `FileEditing!Fairness`:
Qt's event loop fires a running timer and delivers a finished worker (strong: both are
disabled for a while by a nested dialog), the thread pool runs every task to its end,
and the straight-line parts of `save` go on. `Workers!Fairness` states the same, weakly,
of each part in the behaviours about it: a scan is finished and delivered (`Worker`,
`Deliver`), the worker of a save runs on, each load is parsed and delivered, the timer
of the presentation fires and its worker is run and delivered. The analysis of
`ConflictResolver` and the walk of `DirScan` have no liveness property: both are loops over
finite data, cut short by their limits. The other modules have none either.

## 4. Findings

1. **A save may adopt foreign bytes** (`MCFileRace`, `FileEditing.cpp:405`): `save` reads
   the file again for its fingerprint instead of hashing what it wrote.
2. **Undo at the history limit** (`MCMergeLimit`, `MergeWidget.cpp:460`): the oldest step
   restores text without conflict states and endings.
3. **A cancelled directory scan** (`MCDirCancelled`, `DirDiffWidget.cpp:138`) leaves the
   old roots' table under the new roots.
4. **Swapping while a change is pending** (`MCWatchSwap`, `MainWindow.cpp:59`) takes the
   change for observed.
5. **Sliding onto a mark** (`MCSliders`, `SliderHeuristics.cpp:128`): a block moves onto a
   line that does not end it; hunks then insert the wrong line. Even without this
   rule, a block that slides back legally can pass the neighbouring equal hunk, which
   stays where it is: left `x`, right `y x x y x` with `x` indented. `Unmarked` excludes
   it from the theorem about sliding. This concerns the library, `diffmerge` and the merge presentation; the file view aligns by spacing
   and does not slide.

### Known divergences

Left out of the properties by an explicit condition, with the trace that needs it:

- *A failed recompute after an undo* (`FileEditing.cpp:236`): the comparison keeps the
  edited text while the mark is gone; skipping unchanged lines then shows the
  edited text unmarked. `UnmodifiedShowsClean` is checked without limits.
- *A save that writes `?`* (`FileEditing.cpp:394`): the characters that the user agrees to
  replace stay in the document, which is taken for clean: the side shows them unmarked
  until it is reloaded, and the fingerprint is of other text. `FingerprintIsOfClean` is
  checked and proved for saves that ask nothing (`AsksEncoding`).
- *Two outputs that name one new file* (`resolve_main.cpp:22-33`): two paths are compared as
  written, or as files if both exist. With `e` a directory and `d` a link to it,
  `diffmerge-resolve in -o d/x --report e/x` passes the checks; the content is published
  (line 132), the report then replaces it (line 139) and says `contentPublished`, and the
  exit code is 0 or 1. The repository's `README.md:1178` says that such aliases are refused.
  `NewFilesAreApart` excludes exactly this from what `CommandIsTruthful` says of report and
  exit code; the runs have such a pair of paths, and the input and existing files are
  safe with it, too.
- *A reload while a save asks for the encoding* (`FileEditing.cpp:395`): the text to write is
  captured before the question, the clean text is taken from the document after it. A side
  reloaded inside the question's event loop is then shown without the mark while the file
  holds what was captured. `AsksEncoding` admits the question; `UnmodifiedIsClean` is proved
  without it.
- *A failed reload* (`MainWindow.cpp:563`, `573`) keeps the new stamp, so the file is not tried
  again until it changes; the side may show older text. `failed` excepts it.
- *An empty range chosen inside a resolved conflict* (`MergeWidget.cpp:511`, `528`): choosing
  that range inserts its text into the other conflict, which stays resolved.
  `ResolvedTextStays` is about conflicts with a range of their own (`StandsAlone`).
- *A shared load and different fallbacks* (`SyntaxLoader.cpp:105`): a request joins the load of
  its first candidate with the other candidates of whoever asked first. Two file names that
  share an unusable first candidate and differ in the second then get the same definition,
  although the repository's `README.md:278` says that they are selected independently.
  `SharedFallback` excludes it; the constants of `MCWorkers` have no such names.
- *Leaving the skipped view without a model* (`FileDiffWidget.cpp:903`) blanks the panes.
- *An empty range chosen inside another conflict* (`MergeWidget.cpp:511`, `528`) can leave
  RESULT when the other one is replaced. `MappedRangesAreInText` is stated for typing.
- *A plan below a file of the destination* (`DirectoryOperations.cpp:30`) is accepted and
  fails after confirmation; `UndisturbedCopyIsComplete` exempts it.
- *A change between a reload and the stamp after it* (`MainWindow.cpp:573`, `575`) is taken for
  observed; `ShowsTheDisk` is stated for a prompt machine.
- *Saving a resolution while an analysis ends* (`ResolveDialog.cpp:63`): the bytes are
  captured before up to three modal questions, and an analysis delivered inside them
  changes RESULT; the report and the acknowledgement (lines 73, 76) are then about newer
  text than the output. `SaveRaces` admits it in the model; `SavesAreTrue` is checked
  without it.
- *A request that joins an older load* (`SyntaxLoader.cpp:107`): after a clear, an editor may
  be answered by a load that had started before it and show the old definition until it
  asks again. The cache itself stays current, which is what is checked.
- *A writer between the last validation and the rename* (`MergeResultSave.cpp:117`) is
  overwritten unseen; no file system call closes that gap. `ForeignChangesSurvive` is checked
  with `WriterRaces` false, which excludes exactly that step.
- *Exporting with shorter markers* (`MergeExport.cpp`): lines that were plain text beside
  longer markers can be markers in the export. The options checked keep or lengthen them.
- *Rules named by the matched lines* (`ConflictResolution.cpp`): whether moved lines are
  "independent edits" depends on which longest common subsequence is found; what is
  decided is sound for any.
- *An exact decision with an empty text* has a provenance piece of length 0 without input;
  `OutputIsFaithful` exempts it.
- *Next in the unified view* (`FileDiffWidget.cpp:360`): from an added line of a change the
  cursor counts as one of the left file, so Next may go up to the start of the same change,
  and changes with no equal row between them are mixed; `NavigationSkipsNothing` treats
  them as one.
- *Fillers that differ* (`SliderHeuristics.cpp:138`): the first rule compares lines without the
  white space around them, so blank lines that differ in it (or bare `//`, or bare `#`) are one
  filler, and a block slides over lines that it does not repeat: with `b` and `B` two blank
  lines, left `B` and right `b B`, the insertion of `b` becomes one of `B`. The alphabets of
  `MCSequenceDiff` have one line of each kind, and `FillersAreEqual` says so in the theorem.
- *Mapping lines with doubles* (`ScrollSyncMapper.cpp`): `(k / n) * n` can fall just below
  `k` (49 lines, for one), and the line mapped to is then one less before rounding. The model's
  arithmetic is exact.

## 5. What is proved

TLAPS proves the theorems below for every value of the constants that satisfies the
assumption of the module (`ConstantsAssumption`, `DirViewAssumption`, `SyntaxAssumption`,
`ResolverAssumption`, `ScanAssumption`, `SequenceDiffAssumption`, `SliderAssumption`,
`CommandAssumption`, `LibrariesAssumption`): mostly types, that `None` is none of the values it
stands beside, that a scanned tree is finite and closed under parents, and that each
part of `Libraries` has a first state to keep. TLC evaluates them in every run. "Unless" names a hypothesis of the
theorem; each stands for a divergence of section 4 or for a choice the host makes.

| Module | Theorem | States | Unless |
|---|---|---|---|
| `FileEditing_proofs` | `TypeCorrect` | `TypeOK` | |
| | `InvHolds`, `RecomputingIsScheduled`, `ObsoleteWorkIsCancelled`, `BlocksAreCurrent`, `UnsavedTextIsVisible` | `Inv`, `PendingIsScheduled`, `SupersededIsCancelled`, `ModelIsCurrent`, `ModifiedIsEditedInPlace` | |
| | `FilesAreKnown`, `LossyTextStaysReadOnly` | `FileInv`, `LossyTextIsReadOnly` | others write between a commit and the fingerprint after it (`WriterRaces`, finding 1) |
| | `FingerprintsAreOfCleanText` | `FingerprintIsOfClean` | the same, or a save asks a question (`AsksEncoding`) |
| | `UnmodifiedIsClean` | `UnmodifiedShowsClean` | recomputes fail or a save asks a question (`MayExceedLimits`, `AsksEncoding`) |
| | `UnsavedTextSurvives` | `EditsSurvive` | |
| `MergeEditing_proofs` | `InvHolds`, `HistoryIsParallel`, `EndingsStayWithText`, `OnlyStoredTextIsClean` | `Inv`, `HistoryFollowsStack`, `EndingsMatchText`, `CleanIsWhatWasStored` | |
| | `ConflictsKeepTheirPlaces` | `MetadataFitsText` | the session's own conflicts overlap (`SessionIsPlaced`) |
| | `LostPlacesAskForReview`, `ResolutionsStay` | `UnmappedNeedsReview`, `ResolvedTextStays` | the session itself calls a conflict without a place resolved (`SessionAsksForReview`) |
| | `ImplementsUndoHistory` | `UndoRestoresMetadata`: the refinement of `UndoHistory` | typed text is undone to a forgotten state (`UndoesToForgotten`, finding 2) |
| `FileWatch_proofs` | `WatchHolds`, `OwnSavesHold`, `QuestionsHold` | `WatchInv`, `WatchIsSound`, `QuestionsStayTrue` | |
| | `PromptHolds`, `SettledShowsTheDisk` | `PromptInv`, `ShowsTheDisk` | (both speak of prompt machines) |
| `DirCopy_proofs` | `CopyHolds`, `CopiesAreOfConfirmedFiles`, `ReplacementsAreMarked`, `UndisturbedPlansSucceed` | `CopyInv`, `CopiesTheConfirmedFile`, `ReplacesOnlyMarkedFiles`, `CopyIsSound` | |
| `Workers_proofs` | `NothingStaleReturns` | `CacheSurvivesNoClear`, `ShowsCurrentTexts` | |
| | `ResultsStayCurrent` | `ResultsAreCurrent` | candidates are shared and fallbacks are not (`SharedFallback`) |
| | `DecisionsFollow` | `DecisionsFollowText` | |
| | `ResolverStepsSound` | `ResolverStepsAreSound` | an analysis ends inside the questions of a save (`SaveRaces`) |
| | `SavesSafe`, `DialogHonest` | `SavesAreSafe`, `DialogIsHonest` | (the gap before the rename is part of the property) |
| | `VerifiedStaysTrue` | `VerifiedIsTrue` | |
| `Scan_proofs` | `ReadyIsComplete` | `ScanIsComplete` | |
| | `ScansAreOrdered`, `ObsoleteScansAreCancelled`, `OneResultIsAwaited`, `OnlyCurrentIsInstalled`, `TableTellsTheTruth` | `RequestInv`, `LiveScanIsCurrent`, `ScanningAwaitsOneResult`, `InstallsOnlyCurrent`, `TableIsTrue` | |
| `Libraries_proofs` | `CommandTruthful` | `CommandIsTruthful` | (two outputs that name one new file are excepted in the property, `NewFilesAreApart`) |
| | `SearchStaysInside` | `TypeOK` of `SequenceDiff`: no access of the search is outside its arrays | |
| | `ScriptsAreSound` | `ScriptIsSound` | |
| | `SlidingIsTheSameEdit` | `SlidBlocksAreTheSameEdit` | a line is a mark (`Unmarked`, finding 5), or fillers of one kind differ (`FillersAreEqual`) |
| `Distance_proofs` | `DistancesAreExact` | `DistanceIsExact` | |

### Why the invariants are what they are

**`FileEditing`.** No property is inductive alone. That no block is stale (`ModelIsCurrent`)
needs to know of each outstanding worker that it either is obsolete or was started from
the texts shown now (`LiveWorkerReadsCurrent`); that in turn needs that handlers which
change a text supersede it, and that a document which may be edited in place is whole
(`EditableIsRaw`), for a projected document would hide lines. Cancellation
(`SupersededIsCancelled`) needs the order of requests (`RequestsInOrder`): only the
token of the newest worker is held, so every older one must have been cancelled when it
was replaced. `FileInv` adds what a save that is under way will find (`RecordFindsSaved`);
`ShowInv` adds that live computations fit the mode shown and that a view without a model has
one coming (`WorkInv`), that a side without the mark shows its clean lines (`CleanInv`), and
that a save writes what its side shows (`SavedIsShown`).

**`MergeEditing`.** The sidecar sees of Qt's stack only its index and the name of its oldest
command. `HistoryFollowsStack` therefore needs that commands are named in the order of their
pushes and that the command before the first entry is older than all of them (`IdsGrow`):
then `Rebased` finds exactly what was forgotten. `MergesAreRecorded` says that a merge command
and the sidecar restore the same metadata. `GoodInv` says of every state that can come back,
from the history or from a draft, what is true of the present one; its step is a chain of
lemmas on `DocumentEdited` (a text is cut into prefix, middle and suffix, and line breaks
and ranges add up). For the refinement, `Pushed`, `Amended`, `Undone` and `Redone` say what
`undoIndexChanged` does to the history, entry by entry, and `StepRefines` maps each to the
step of `UndoHistory` it implements; all else but a load stutters. The excluded undo is
exactly the step by which `MCMergeLimit` violates the refinement.

**`FileWatch`.** `WatchInv` follows a save from its start to the stamp after it. On a prompt
machine `Followed` says of each side why it may differ from its file: a notice is waiting,
a question is open, the timer will report (`CanReport`), or the user, a swap or a failed
reload excuses it (`ObservedIsExcused`).

**`DirCopy`.** A stamp that has gone does not come back: the plan's stamps are older than every
change since (`CopyInv`), so a file whose stamp agrees at the end was that file throughout.
`Undisturbed` describes the trees halfway through a plan that nobody interferes with.

**`DirView`.** A result is accepted for having the newest generation; that it is then of the
roots and options shown needs `NewestIsOfShown`, of cancelled scans as well, and that needs
every handler that changes roots or options to refresh. The trees play no part in it;
`ViewInv` adds them for what is shown and offered.

**`SyntaxCache`.** A load was started by some request and carries the candidates that are left
of it (`IsSubject`). `CacheInv` bounds the data version of what is cached, loading and
parsed by the last clear; `EditorInv` says that an editor waits exactly where it is
registered, and that the best definition of a waiting request is that of its load
(`SameBest`), which is what `SharedFallback` is for.

**`ConflictResolver`.** `ResolverInv` says of the undo stack that each macro leads from the
fragments and decisions of the state before it to those after it (`History`, `Leads`), and
of each such state that text and decisions agree (`Agrees`); `SavingIsShown` that the questions
of a save are about what is still shown.

**`MergeSave`.** `SaveInv` holds of every read under way: what was read is still in the file,
or the file's time has moved past the stamp taken before (`FileIsSeen`). `Purposes`, `Progress`
and `Completions` say what the stamps and bytes at each stage were read for, so that the last
comparison is about the file that was written.

**`DirScan`.** A call's listing holds earlier states of the nodes on disk, and times never go
back (`FrameFits`, `EntriesFit`); while a node's time is that of the listing, the blocks
read so far are the beginning of the content listed (`ReadingFits`). Whichever block is read
when, agreement of both stamps at the end puts both contents at the moment of the listing.

That a ready scan is complete rests on what rewrites cannot change: names and kinds
(`Shape`), and with them the set of paths the walk has to show. `IsWalk` says that each such
path is listed or still due in exactly one open call (`Due`, `AllAreSeen`, `NoneIsDue`), that
open calls are nested (`AreNested`), that entries come in an order in which what is below
an entry follows it (`AreInOrder`, `AreFollowed`), and that an entry whose call is over
has the sum of all that is below it (`AreSummed`). When the last call returns nothing is
due. The limits are exact because the number of entries is the cardinality of what was seen.

**`ResolveCommand`.** `CommandInv` says by stage what has been written. Accepted arguments have
destinations that are not the input and, new files apart, not each other (`Accepted`): nothing
but the destinations is written. Where they are apart (`NewFilesAreApart`), the
contents of every file follow from the flags (`FilesFollowFlags`), the flags from the stage
(`FlagsFollowSteps`), and the exit code from the flags (`CodeFollowsFlags`).

**`SequenceDiff`: the search.** In a round the diagonals below `delta` are collected upwards and
those above it downwards. `Swept` says where the round stands: what is done has points at
least as far as the neighbour done before, what is not done is as the last round left it.
A round that goes on has left every point short of the end, which is why no point
overshoots on either side and `p` never exceeds `M`: the array bounds.

**`SequenceDiff`: the script.** `Recorded` says that what the array holds on a diagonal is what
the trace recorded there last. `Linked` says of every entry that it was reached, by one step and a
snake, from the last entry on the diagonal it names; only the first one starts at (0, 0).
The code searches the trace backwards for that diagonal, so `findMainBranch` finds a chain
(`Chain`), and hunks made along a chain follow each other from (0, 0) to the end (`Route`).
Joining adjacent deletions, exchanging the sides, and the two merging options keep a route.
What is defined along a sequence is a function on `0..n` that is recursive in its last argument;
`RecursionExists` and `StepByStep` get its equations from the well-foundedness of the naturals,
and a statement about each `i` in `0..n` is proved by the least `i` at which it fails:
that replaces the induction theorems of the library, whose operator parameters no
installed prover instantiates.

**`SequenceDiff`: the distance.** The reference is the table of longest common subsequences
(`IsTable`). `Price` is how many steps away from `delta` a way to a point needs; it is
computed from that table, and equal elements cost nothing (`PricesAre`). `Farthest` says of
`m_fp`, in every round, that on each diagonal it holds the furthest point whose price is at
most the rounds so far (`Limit`); so the end is found in the first round that pays for it
(`EndIsExact`). Why the script is as short as that: `RatesInv` gives every entry of the
trace a round, such that a step away from `delta` comes from an entry of an earlier one. On the way back
an entry's spare rounds (`Spare`) fall with each step, hence the main branch has at most
`Delta + 2 * p` of them (`MainBranchIsShort`), and every edit of the script is one
(`BacktrackChanges`). No valid script changes fewer elements (`ScriptsChangeEnough`):
along a script the table grows only by the lines of its equal hunks. For the counts, trimming common
ends (`TrimmingKeeps`) and exchanging the sides (`ExchangeKeeps`) change no distance, and
neither the difference in length nor that in copies of elements exceeds it
(`ImbalanceIsNeeded`): a count is refused for no reason but the limit.

**`SliderHeuristics`.** A block may move by `n` lines if the lines at either end repeat its own
(`Repeats`); every rule moves it within such a range, and a text without a block is then the same
before and after (`IsWithout`).

### Only model-checked

Liveness (`BlocksComeBack`, `EverythingSettles`), which the prover does not reach;
and `ExportsAreSound`, `ViewIsFaithful` and `ResolutionIsSound`, statements about texts that nested
folds build, for which each fold would have to be unfolded by hand as the recursive functions
of `SequenceDiff` are.

## 6. Not modelled

- File view: sides without a file, permission changes, how text is searched,
  `computeOtherTop` (which nothing in the application calls), horizontal scrolling.
- Merge editor: switching editability, a session without text, navigation.
- Merge sessions: `prepareMergeSession` validates and decodes its inputs in one pass, with
  no state of its own; labels, line endings and encodings of an export.
- Directory scan and operations: links and escaping paths beyond a file or directory that
  cannot be read.
- Headless resolver: the validation errors of `ConflictResolution.cpp:305-333` and `349-352`
  (another digest, ranges or replacements that do not fit), which no plan of the library
  itself meets; reviewed text is valid UTF-8.
- Merge export: the refusals that depend on the host alone (`MergeExport.cpp:56-108`):
  read-only sessions, missing or repeated conflict identities, unknown conflict states that
  were not confirmed; ranges of a host draft that are not in the text (`156-165`), and literal
  lines nobody reviewed after an edit (`198-199`).
- Engine: normalisation and interning of lines, spacing alignment, statistics, changed
  characters inside lines (`IntraLineDiffEngine.cpp`).
- Torn reads of the file view (`FileReload.cpp:44`) and byte identity of its save: the file
  view's files are read at once. `DirScan`, `DirCopy` and `MergeSave` read in blocks.
- Components without a module are listed in `PROJECT.json` with the reason. Painting,
  wording, layout and argument parsing stay out for good.

## 7. Plan

Built, in this order: `FileEditing`, `MergeEditing`, `DirView`, `DirCopy`, `FileWatch`,
`SequenceDiff`, `SliderHeuristics`; then `MergeSave`, `ResolveCommand`, `SyntaxCache`,
`ConflictResolver`, `DirScan`, `MergePresentation`, `ConflictMarkers`, `MergeExport`,
`ConflictResolution`, `FileView`. Next:

1. Proofs: the automaton of `MergeExport` and the rows of `FileView`, once their folds are
   recursive functions.
2. Spacing alignment and interning of lines, then `IntraLineDiffEngine.cpp`, as operators
   over small inputs.
3. `prepareMergeSession`, once `MergeExport` is checked with labels.
