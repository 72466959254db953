---------------------------- MODULE FileEditing ----------------------------
(***************************************************************************)
(* The file view of the desktop application (FileDiffWidget): two editors, *)
(* the comparison shown between them, the worker threads that recompute    *)
(* it, and the two files the sides are loaded from and saved to.           *)
(*                                                                         *)
(* A text is the set of its lines: order and repetition do not matter to   *)
(* anything said here.  A change block is one line only one side has, and  *)
(* copying the block makes the target agree with the source on it.         *)
(*                                                                         *)
(* Everything but the workers and the other processes that write the files *)
(* runs on the GUI thread, so a handler is one step, except save, which    *)
(* other processes (and, while it asks about the encoding, timers, results *)
(* and file reloads) can interleave with.                                  *)
(***************************************************************************)
EXTENDS Integers, FiniteSets

CONSTANTS
  Line,             \* the lines a text may hold
  Options,          \* the comparison options a host may choose
  Broken, Lossy,    \* file contents no encoding decodes exactly; the text shown
  Blobs,            \* file contents that are binary or too large to show
  Gone,             \* the content of a file that does not exist
  NoHash,           \* an empty fingerprint, which no file content has
  None,             \* no save in progress
  MayExceedLimits,  \* may a preparation stop at a work limit?
  AsksEncoding,     \* may a save ask about characters it cannot encode?
  WriterRaces,      \* may others write between commit and re-fingerprint?
  MaxGeneration,    \* bound on the requests that supersede a comparison
  MaxExternal       \* bound on the writes of other processes

Side == {"Left", "Right"}
File == {"f1", "f2"}
Text == SUBSET Line
Content == Broken \union Blobs \union Text
ByteStatus == {"NotApplicable", "Comparing", "Identical", "Different",
               "Cancelled", "Error"}

\* A save in progress: the text saved, the bytes to write (as the text they decode
\* to), and how far it is.
Saving == [side : Side, text : Text, bytes : Text, phase : {"ask", "write", "record"}]

ASSUME ConstantsAssumption ==
  /\ Lossy \in [Broken -> Text]
  /\ Blobs \intersect Broken = {}
  /\ \A t \in Text : t \notin Broken \union Blobs \union {Gone, NoHash}
  /\ Gone # NoHash /\ {Gone, NoHash} \intersect (Broken \union Blobs) = {}
  /\ \A s \in Saving : s # None
  /\ MayExceedLimits \in BOOLEAN /\ AsksEncoding \in BOOLEAN
  /\ WriterRaces \in BOOLEAN
  /\ MaxGeneration \in Nat /\ MaxExternal \in Nat

VARIABLES
  ed,          \* per side: the FileEditingState arrays and the document
  comparison,  \* m_comparison: the two snapshots compared, and the options
  model,       \* is m_model set, that is, are change blocks available?
  options,     \* m_options
  skip,        \* m_skipUnchanged
  unified,     \* m_viewMode = Unified
  binary,      \* m_binaryInput
  byteStatus,  \* m_byteStatus
  generation, token, timer, pending,  \* m_editing->...
  workers,     \* computations whose result the GUI thread has not received
  disk,        \* the content of each file
  saving,      \* the save in progress
  external     \* writes of other processes so far

view == <<skip, unified>>
request == <<generation, token, timer, pending, workers>>
shown == <<comparison, model, options, binary, byteStatus>>
files == <<disk, external>>
vars == <<ed, shown, view, request, files, saving>>

Other(s) == IF s = "Left" THEN "Right" ELSE "Left"

-----------------------------------------------------------------------------
(* What the handlers read.                                                 *)

\* text(side): the document once it is edited in place, else the snapshot.
Current(s) == IF ed[s].raw THEN ed[s].doc ELSE comparison.text[s]

IsEditable(s) == ed[s].editable /\ ~binary /\ ~ed[s].encodingUnsafe

Projected == skip \/ unified
Modified == \E s \in Side : ed[s].modified

\* The GUI thread is free for the user; and for timers, results and reloads.
Idle == saving = None
EventLoopRuns == IF saving = None THEN TRUE ELSE saving.phase = "ask"

\* decodeExact, or the lossy UTF-8 text of what it cannot decode.
Decoded(content) == IF content \in Broken THEN Lossy[content] ELSE content

Blocks == {b \in Line : b \in comparison.text["Left"]
                            <=> b \notin comparison.text["Right"]}

-----------------------------------------------------------------------------
(* Pieces the handlers share, as values of the state they leave behind.    *)

\* updateEditability: an editable side shows its whole text, editable in place.
UpdateEditability(e, text, projected, isBinary) ==
  [s \in Side |->
     IF /\ e[s].editable /\ ~isBinary /\ ~e[s].encodingUnsafe
        /\ ~projected /\ ~e[s].raw
     THEN [e[s] EXCEPT !.raw = TRUE, !.doc = text[s]]
     ELSE e[s]]

\* rebuildProjection while unchanged lines are skipped: rows replace documents.
Project(e, text) == [s \in Side |-> [e[s] EXCEPT !.raw = FALSE, !.doc = text[s]]]

\* installEditedComparison keeps the documents unless they are projections.
KeepDocuments(e, text) == IF skip THEN Project(e, text) ELSE e

\* setComparison and resetEditing, then the save target and encoding of a side.
FreshSide(e, text, encodingUnsafe, target, expected) ==
  [editable |-> e.editable, modified |-> FALSE, raw |-> e.editable /\ ~Projected,
   encodingUnsafe |-> encodingUnsafe, doc |-> text, clean |-> text, cleanText |-> text,
   target |-> target, expected |-> expected]

Show(text) ==
  /\ comparison' = [text |-> text, options |-> options]
  /\ model' = TRUE

Cancelled(ws) ==
  {IF w.gen = token THEN [w EXCEPT !.cancelled = TRUE] ELSE w : w \in ws}

\* ++generation and requestCancellation() on the token of the last worker.
SupersedeSilently ==
  /\ generation < MaxGeneration
  /\ generation' = generation + 1
  /\ UNCHANGED <<workers, token>>
Supersede ==
  /\ generation < MaxGeneration
  /\ generation' = generation + 1
  /\ workers' = Cancelled(workers)
  /\ UNCHANGED token

\* ... and no computation is wanted any more.
SupersedeOnly == Supersede /\ pending' = FALSE /\ UNCHANGED timer
SupersedeAndStop == Supersede /\ timer' = FALSE /\ pending' = FALSE

\* ... and a new one starts when the edits pause: change blocks are withdrawn.
SupersedeAndWait ==
  /\ Supersede /\ pending' = TRUE /\ model' = FALSE
  /\ UNCHANGED timer
SupersedeAndRestart ==
  /\ Supersede /\ timer' = TRUE /\ pending' = TRUE
  /\ model' = FALSE

-----------------------------------------------------------------------------
(* Editing.                                                                *)

\* documentEdited, for any change of the text of one editor (typing, Undo...).
DocumentEdited(s, t) ==
  /\ t # ed[s].doc
  /\ ed' = [ed EXCEPT ![s] = [@ EXCEPT !.doc = t, !.modified = t # ed[s].cleanText]]
  /\ SupersedeAndRestart
  /\ UNCHANGED <<comparison, options, binary, byteStatus, view, files, saving>>

Edit(s, t) ==
  /\ Idle /\ IsEditable(s) /\ ~Projected /\ ed[s].raw
  /\ DocumentEdited(s, t)

CopyChange(b, source) ==
  LET target == Other(source)
  IN /\ Idle /\ IsEditable(target) /\ ~ed[source].encodingUnsafe
     /\ ~pending /\ ~Projected
     /\ model /\ b \in Blocks
     /\ DocumentEdited(target, IF b \in Current(source)
                                 THEN Current(target) \union {b}
                                 ELSE Current(target) \ {b})

SetDiffOptions(o) ==
  /\ Idle /\ o # options
  /\ options' = o
  /\ IF binary THEN UNCHANGED <<request, model>> ELSE SupersedeAndRestart
  /\ UNCHANGED <<ed, comparison, binary, byteStatus, view, files, saving>>

SetEditable(s, on) ==
  /\ Idle /\ on # ed[s].editable
  /\ on \/ ~ed[s].modified
  /\ ed' = UpdateEditability([ed EXCEPT ![s].editable = on],
                             comparison.text, Projected, binary)
  /\ UNCHANGED <<shown, view, request, files, saving>>

-----------------------------------------------------------------------------
(* The worker.                                                             *)

\* recomputeEditedComparison, when the 300 ms timer fires.
TimerFires ==
  /\ EventLoopRuns /\ timer
  /\ timer' = FALSE
  /\ token' = generation
  /\ workers' = workers \union
       {[gen |-> generation, bytes |-> FALSE, cancelled |-> FALSE, options |-> options,
         text |-> [s \in Side |-> Current(s)]]}
  /\ UNCHANGED <<ed, shown, view, generation, pending, files, saving>>

\* A result of a superseded generation is dropped.
DropResult(w) ==
  /\ w.gen # generation
  /\ UNCHANGED <<ed, shown, pending>>

InstallAnyResult(w) ==
  /\ ~w.bytes
  /\ pending' = FALSE
  /\ comparison' = [text |-> w.text, options |-> w.options]
  /\ model' = TRUE
  /\ ed' = KeepDocuments(ed, w.text)
  /\ UNCHANGED <<options, binary, byteStatus>>
InstallResult(w) ==
  /\ ~w.bytes /\ w.gen = generation
  /\ pending' = FALSE
  /\ comparison' = [text |-> w.text, options |-> w.options]
  /\ model' = TRUE
  /\ ed' = KeepDocuments(ed, w.text)
  /\ UNCHANGED <<options, binary, byteStatus>>

\* ResourceLimit (or, for a cancelled token, Cancelled): reported, not installed.
ReportFailure(w) ==
  /\ ~w.bytes /\ w.gen = generation
  /\ MayExceedLimits \/ w.cancelled
  /\ pending' = FALSE
  /\ UNCHANGED <<ed, shown>>

\* compareBytes: a cancelled comparison may still have passed its last check.
ByteResult(w) ==
  /\ w.bytes /\ w.gen = generation
  /\ pending' = FALSE
  /\ \/ /\ \A f \in File : disk[f] # Gone
        /\ byteStatus' = IF disk["f1"] = disk["f2"] THEN "Identical" ELSE "Different"
     \/ byteStatus' = "Error"
     \/ w.cancelled /\ byteStatus' = "Cancelled"
  /\ UNCHANGED <<ed, comparison, model, options, binary>>

WorkerFinishes(w) ==
  /\ EventLoopRuns
  /\ workers' = workers \ {w}
  /\ DropResult(w) \/ InstallResult(w) \/ ReportFailure(w) \/ ByteResult(w)
  /\ UNCHANGED <<view, generation, token, timer, files, saving>>

CancelByteComparison ==
  /\ Idle /\ byteStatus = "Comparing"
  /\ Cancelled(workers) # workers
  /\ workers' = Cancelled(workers)
  /\ UNCHANGED <<ed, shown, view, generation, token, timer, pending, files, saving>>

-----------------------------------------------------------------------------
(* Loading, reloading, swapping and discarding.                            *)

\* loadByteComparison: two empty read-only texts, and a worker on the files.
LoadBytes(e, path) ==
  /\ generation < MaxGeneration
  /\ ed' = [s \in Side |-> FreshSide(e[s], {}, FALSE, path[s], NoHash)]
  /\ Show([s \in Side |-> {}])
  /\ binary' = TRUE /\ byteStatus' = "Comparing"
  /\ generation' = generation + 1
  /\ token' = generation + 1
  /\ timer' = FALSE /\ pending' = TRUE
  /\ workers' = Cancelled(workers) \union
       {[gen |-> generation + 1, bytes |-> TRUE, cancelled |-> FALSE,
         options |-> options, text |-> [s \in Side |-> {}]]}
  /\ UNCHANGED options

LoadText(path) ==
  LET content == [s \in Side |-> disk[path[s]]]
      text == [s \in Side |-> Decoded(content[s])]
  IN /\ ed' = [s \in Side |-> FreshSide(ed[s], text[s], content[s] \in Broken,
                                        path[s], content[s])]
     /\ Show(text)
     /\ binary' = FALSE /\ byteStatus' = "NotApplicable"
     /\ SupersedeAndStop
     /\ UNCHANGED options

LoadPaths(path) ==
  /\ ~Modified
  /\ \A s \in Side : disk[path[s]] # Gone
  /\ IF \E s \in Side : disk[path[s]] \in Blobs
       THEN LoadBytes(ed, path)
       ELSE LoadText(path) \/ (MayExceedLimits /\ LoadBytes(ed, path))

Targets == [s \in Side |-> ed[s].target]
SwappedTargets == [s \in Side |-> ed[Other(s)].target]

\* loadFromPaths, for the two files in either order.
LoadFromPaths ==
  /\ Idle
  /\ \E path \in {Targets, SwappedTargets} : LoadPaths(path)
  /\ UNCHANGED <<view, files, saving>>

\* What reloadSide makes of the side it reads.
ReadSideOnly(e, content) ==
  [e EXCEPT !.raw = FALSE, !.doc = Decoded(content), !.modified = FALSE,
            !.encodingUnsafe = content \in Broken, !.expected = content]
ReadSide(e, content) ==
  [e EXCEPT !.raw = FALSE, !.doc = Decoded(content), !.modified = FALSE,
            !.clean = Decoded(content), !.cleanText = Decoded(content),
            !.encodingUnsafe = content \in Broken, !.expected = content]

ReloadText(s, content) ==
  LET text == [comparison.text EXCEPT ![s] = Decoded(content),
                                      ![Other(s)] = Current(Other(s))]
      read == [ed EXCEPT ![s] = ReadSide(@, content)]
  IN /\ SupersedeAndStop
     /\ Show(text)
     /\ ed' = UpdateEditability(KeepDocuments(read, text), text, Projected, binary)
     /\ UNCHANGED <<options, binary, byteStatus>>

\* reloadSide: the host has confirmed that edits of that side may be lost.
ReloadSide(s) ==
  LET content == disk[ed[s].target]
  IN /\ EventLoopRuns
     /\ content # Gone
     /\ \/ binary /\ LoadPaths(Targets)
        \/ ~binary /\ content \notin Blobs /\ ReloadText(s, content)
        \/ /\ ~binary /\ ~Modified
           /\ content \in Blobs \/ MayExceedLimits
           /\ LoadBytes(ed, Targets)
     /\ UNCHANGED <<view, files, saving>>

\* Every per-side field is exchanged, and the editors with their documents.
SwappedHash == [s \in Side |-> [ed[Other(s)] EXCEPT !.expected = ed[s].expected]]
SwappedState == [s \in Side |-> ed[Other(s)]]

SwapText ==
  LET text == [s \in Side |-> Current(Other(s))]
  IN /\ SupersedeAndStop
     /\ Show(text)
     /\ ed' = UpdateEditability(KeepDocuments(SwappedState, text), text, Projected, binary)
     /\ UNCHANGED <<options, binary, byteStatus>>

\* A byte comparison restarts on the reversed paths; edit permissions follow.
SwapBytes ==
  LoadBytes([s \in Side |-> [ed[s] EXCEPT !.editable = ed[Other(s)].editable]],
            SwappedTargets)

SwapSides ==
  /\ Idle
  /\ IF binary THEN SwapBytes ELSE SwapText
  /\ UNCHANGED <<view, files, saving>>

\* discardChanges keeps what is known of the files: targets and fingerprints.
RehashedSide(s) ==
  FreshSide(ed[s], ed[s].clean, ed[s].encodingUnsafe, ed[s].target,
            disk[ed[s].target])
DecodableSide(s) ==
  FreshSide(ed[s], ed[s].clean, FALSE, ed[s].target, ed[s].expected)
CleanSide(s) ==
  FreshSide(ed[s], ed[s].clean, ed[s].encodingUnsafe, ed[s].target, ed[s].expected)

DiscardChanges ==
  /\ Idle /\ Modified
  /\ ed' = [s \in Side |-> CleanSide(s)]
  /\ Show([s \in Side |-> ed[s].clean])
  /\ SupersedeAndStop
  /\ UNCHANGED <<options, binary, byteStatus, view, files, saving>>

-----------------------------------------------------------------------------
(* Presentation: refused while text is modified or a result is awaited.    *)

\* Leaving the projection shows the documents of m_model, nothing without one.
Unproject(e, text) ==
  [s \in Side |-> [e[s] EXCEPT !.doc = IF model THEN text[s] ELSE {}]]

SkipAnyway ==
  /\ Idle /\ ~pending
  /\ skip' = ~skip
  /\ ed' = UpdateEditability(IF skip THEN Unproject(ed, comparison.text)
                                     ELSE Project(ed, comparison.text),
                             comparison.text, ~skip \/ unified, binary)
  /\ UNCHANGED <<unified, shown, request, files, saving>>
SetUnchangedLinesSkipped ==
  /\ Idle /\ ~Modified /\ ~pending
  /\ skip' = ~skip
  /\ ed' = UpdateEditability(IF skip THEN Unproject(ed, comparison.text)
                                     ELSE Project(ed, comparison.text),
                             comparison.text, ~skip \/ unified, binary)
  /\ UNCHANGED <<unified, shown, request, files, saving>>

SetViewMode ==
  /\ Idle /\ ~Modified /\ ~pending
  /\ unified' = ~unified
  /\ ed' = UpdateEditability(KeepDocuments(ed, comparison.text), comparison.text,
                             skip \/ ~unified, binary)
  /\ UNCHANGED <<skip, shown, request, files, saving>>

-----------------------------------------------------------------------------
(* Saving.                                                                 *)

\* The checks of save; a host overwrites a changed file only when confirmed.  An empty
\* text holds no character to ask about.
SaveBegin(s, overwriteChanged) ==
  /\ Idle /\ IsEditable(s)
  /\ overwriteChanged <=> disk[ed[s].target] # ed[s].expected
  /\ \E phase \in {"write"} \union (IF AsksEncoding /\ Current(s) # {} THEN {"ask"} ELSE {}) :
       saving' = [side |-> s, text |-> Current(s), bytes |-> Current(s), phase |-> phase]
  /\ UNCHANGED <<ed, shown, view, request, files>>

\* encodeForSave returns from its dialog: the save is cancelled, the file is switched
\* to UTF-8, or '?' replaces what cannot be stored, which may make any other text.
SaveAnswered ==
  /\ ~Idle /\ saving.phase = "ask"
  /\ saving' \in {None} \union
       {[saving EXCEPT !.phase = "write", !.bytes = written] : written \in Text}
  /\ UNCHANGED <<ed, shown, view, request, files>>

\* QSaveFile replaces the file, or fails and leaves it alone.
SaveCommit ==
  /\ ~Idle /\ saving.phase = "write"
  /\ \/ /\ disk' = [disk EXCEPT ![ed[saving.side].target] = saving.bytes]
        /\ saving' = [saving EXCEPT !.phase = "record"]
     \/ /\ saving' = None
        /\ UNCHANGED disk
  /\ UNCHANGED <<ed, shown, view, request, external>>

\* The saved text is the clean one, and the file is fingerprinted again.
SaveRecord ==
  /\ ~Idle /\ saving.phase = "record"
  /\ LET s == saving.side
         found == disk[ed[s].target]
     IN ed' = UpdateEditability(
                [ed EXCEPT ![s] = [@ EXCEPT !.clean = saving.text,
                   !.cleanText = Current(s), !.modified = FALSE,
                   !.expected = IF found = Gone THEN NoHash ELSE found]],
                comparison.text, Projected, binary)
  /\ saving' = None
  /\ UNCHANGED <<shown, view, request, files>>

\* Another process writes or deletes a file.
ExternalWrite(f, content) ==
  /\ external < MaxExternal
  /\ content # disk[f]
  /\ ~Idle /\ ~WriterRaces => saving.phase # "record"
  /\ disk' = [disk EXCEPT ![f] = content]
  /\ external' = external + 1
  /\ UNCHANGED <<ed, shown, view, request, saving>>

-----------------------------------------------------------------------------
\* Two text files have just been loaded.
Init ==
  /\ disk \in [File -> Text \union Broken]
  /\ \E editable \in [Side -> BOOLEAN] :
       ed = [s \in Side |->
         LET f == IF s = "Left" THEN "f1" ELSE "f2"
         IN [editable |-> editable[s], modified |-> FALSE, raw |-> editable[s],
             encodingUnsafe |-> disk[f] \in Broken, doc |-> Decoded(disk[f]),
             clean |-> Decoded(disk[f]), cleanText |-> Decoded(disk[f]),
             target |-> f, expected |-> disk[f]]]
  /\ options \in Options
  /\ comparison = [text |-> [s \in Side |-> ed[s].doc], options |-> options]
  /\ model = TRUE
  /\ skip = FALSE /\ unified = FALSE
  /\ binary = FALSE /\ byteStatus = "NotApplicable"
  /\ generation = 0 /\ token = 0 /\ timer = FALSE /\ pending = FALSE /\ workers = {}
  /\ saving = None /\ external = 0

Next ==
  \/ \E s \in Side, t \in Text : Edit(s, t)
  \/ \E b \in Line, s \in Side : CopyChange(b, s)
  \/ \E o \in Options : SetDiffOptions(o)
  \/ \E s \in Side, on \in BOOLEAN : SetEditable(s, on)
  \/ TimerFires
  \/ \E w \in workers : WorkerFinishes(w)
  \/ CancelByteComparison
  \/ LoadFromPaths
  \/ \E s \in Side : ReloadSide(s)
  \/ SwapSides
  \/ DiscardChanges
  \/ SetUnchangedLinesSkipped
  \/ SetViewMode
  \/ \E s \in Side, over \in BOOLEAN : SaveBegin(s, over)
  \/ SaveAnswered
  \/ SaveCommit
  \/ SaveRecord
  \/ \E f \in File, c \in Content \union {Gone} : ExternalWrite(f, c)

Spec == Init /\ [][Next]_vars

\* Qt delivers timers and results, a worker ends, and save is straight-line code.
Fairness ==
  /\ SF_vars(TimerFires)
  /\ SF_vars(\E w \in workers : WorkerFinishes(w))
  /\ WF_vars(SaveAnswered) /\ WF_vars(SaveCommit) /\ WF_vars(SaveRecord)

FairSpec == Spec /\ Fairness
-----------------------------------------------------------------------------
EditState == [editable : BOOLEAN, modified : BOOLEAN, raw : BOOLEAN,
              encodingUnsafe : BOOLEAN, doc : Text, clean : Text, cleanText : Text,
              target : File, expected : {Gone, NoHash} \union Content]
Comparison == [text : [Side -> Text], options : Options]
Worker == [gen : Nat, bytes : BOOLEAN, cancelled : BOOLEAN, options : Options,
           text : [Side -> Text]]

\* The variables hold the values the fields of FileEditingState can hold.
TypeOK ==
  /\ ed \in [Side -> EditState]
  /\ comparison \in Comparison /\ options \in Options
  /\ model \in BOOLEAN /\ skip \in BOOLEAN /\ unified \in BOOLEAN
  /\ binary \in BOOLEAN /\ timer \in BOOLEAN /\ pending \in BOOLEAN
  /\ byteStatus \in ByteStatus
  /\ generation \in Nat /\ token \in Nat /\ external \in Nat
  /\ workers \subseteq Worker
  /\ disk \in [File -> {Gone} \union Content]
  /\ saving \in {None} \union Saving

\* isRecomputing() is true exactly while a result is on its way: the debounce
\* timer runs or one worker of the current generation has not reported.  Were it
\* true otherwise the view would refuse navigation and copying for ever; were it
\* false too early a later result would move the blocks under the user's hand.
PendingIsScheduled ==
  /\ pending <=> timer \/ \E w \in workers : w.gen = generation
  /\ \A v, w \in workers : v.gen = w.gen => v = w
  /\ timer => \A w \in workers : w.gen # generation

\* A computation nobody waits for has been told to stop, whatever made it
\* obsolete: an edit, new options, a reload, a swap, a discard or another load.
SupersededIsCancelled ==
  \A w \in workers : w.gen # generation => w.cancelled

\* Whenever change blocks are available they compare what the sides show, under
\* the options chosen: no late result brings back obsolete coordinates.
ModelIsCurrent ==
  model /\ ~binary => /\ \A s \in Side : comparison.text[s] = Current(s)
                      /\ comparison.options = options

\* Unsaved text is in an editor that shows all of it and can be typed in, and
\* it differs from the clean text: no projection, lock or byte comparison hides it.
ModifiedIsEditedInPlace ==
  \A s \in Side : ed[s].modified =>
    ed[s].raw /\ IsEditable(s) /\ ~Projected /\ ed[s].doc # ed[s].cleanText

\* Why the invariants above are preserved: a worker of the current generation
\* holds the current token and computes from what the sides show now, and a side
\* that can be typed in has its whole text in its editor.
RequestsInOrder ==
  \A w \in workers : w.gen <= generation /\ (w.gen = generation => token = generation)

LiveWorkerReadsCurrent ==
  ~binary => \A w \in workers : w.gen = generation /\ ~w.bytes =>
    w.options = options /\ \A s \in Side : w.text[s] = Current(s)

EditableIsRaw == \A s \in Side : IsEditable(s) /\ ~Projected => ed[s].raw

Inv ==
  /\ TypeOK
  /\ PendingIsScheduled /\ SupersededIsCancelled /\ RequestsInOrder
  /\ ModelIsCurrent /\ LiveWorkerReadsCurrent
  /\ ModifiedIsEditedInPlace /\ EditableIsRaw

\* A side without the modified mark shows the text last loaded or saved.
UnmodifiedShowsClean ==
  Idle /\ ~binary => \A s \in Side : ~ed[s].modified => Current(s) = ed[s].clean

\* The bytes save compares the file with are those the clean text came from, so
\* a change on disk the user has not been shown is never overwritten unasked.  It is
\* claimed of saves that ask nothing (~AsksEncoding): after '?' was written the clean
\* text still holds the characters the file lacks.
FingerprintIsOfClean ==
  Idle /\ ~binary => \A s \in Side :
    ed[s].expected \notin {Gone, NoHash} => Decoded(ed[s].expected) = ed[s].clean

\* A side read from bytes no encoding decodes stays read-only through swaps,
\* discards and reloads, as saving it would write the lossy text.
LossyTextIsReadOnly ==
  Idle /\ ~binary => \A s \in Side : ed[s].expected \in Broken => ~IsEditable(s)

\* Edits disappear only by an edit, by their save, or by an action the user has
\* confirmed as discarding them; anything else leaves the modified text with its
\* file, in an editor, though maybe on the other side.
EditsSurvive ==
  [][\/ \E s \in Side, t \in Text : Edit(s, t)
     \/ \E b \in Line, s \in Side : CopyChange(b, s)
     \/ DiscardChanges \/ SaveRecord
     \/ \E s \in Side : /\ ReloadSide(s)
                        /\ ed'[Other(s)].modified = ed[Other(s)].modified
                        /\ ed[Other(s)].modified => ed'[Other(s)] = ed[Other(s)]
     \/ \A s \in Side : ed[s].modified => \E t \in Side : ed'[t] = ed[s]]_vars

\* Change blocks that an edit or new options withdrew come back, whatever is
\* requested meanwhile, unless the last computation stops at a limit: navigation
\* and copying are not refused for ever.
BlocksComeBack == ~model ~> model \/ ~pending

\* A save nobody confirmed finds on disk the bytes last loaded or saved.
UnaskedSaveFindsKnownBytes ==
  [][\A s \in Side : SaveBegin(s, FALSE) =>
       /\ disk[ed[s].target] # Gone
       /\ Decoded(disk[ed[s].target]) = ed[s].clean]_vars
=============================================================================
