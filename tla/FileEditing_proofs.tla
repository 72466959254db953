------------------------- MODULE FileEditing_proofs -------------------------
(***************************************************************************)
(* Proofs about FileEditing, for every value of its constants: its types,  *)
(* then the requests and the blocks, then what the view knows of the       *)
(* files.                                                                  *)
(***************************************************************************)
EXTENDS FileEditing, TLAPS

LEMMA DecodedIsText ==
  ASSUME NEW c \in Content, c \notin Blobs
  PROVE  Decoded(c) \in Text
BY ConstantsAssumption DEF Decoded, Content

LEMMA CurrentIsText ==
  ASSUME TypeOK, NEW s \in Side
  PROVE  Current(s) \in Text
BY DEF TypeOK, Current, EditState, Comparison

LEMMA UpdateKeepsType ==
  ASSUME NEW e \in [Side -> EditState], NEW text \in [Side -> Text],
         NEW projected \in BOOLEAN, NEW isBinary \in BOOLEAN
  PROVE  UpdateEditability(e, text, projected, isBinary) \in [Side -> EditState]
BY DEF UpdateEditability, EditState

LEMMA KeepKeepsType ==
  ASSUME NEW e \in [Side -> EditState], NEW text \in [Side -> Text]
  PROVE  KeepDocuments(e, text) \in [Side -> EditState]
BY ZenonT(30) DEF KeepDocuments, Project, EditState

LEMMA ProjectType ==
  ASSUME NEW e \in [Side -> EditState], NEW text \in [Side -> Text]
  PROVE  /\ Project(e, text) \in [Side -> EditState]
         /\ \A s \in Side : /\ Project(e, text)[s].modified = e[s].modified
                            /\ Project(e, text)[s].doc = text[s]
BY DEF Project, EditState

LEMMA UnprojectType ==
  ASSUME NEW e \in [Side -> EditState], NEW text \in [Side -> Text]
  PROVE  /\ Unproject(e, text) \in [Side -> EditState]
         /\ \A s \in Side : /\ Unproject(e, text)[s].modified = e[s].modified
                            /\ model => Unproject(e, text)[s].doc = text[s]
<1>1. {} \in Text
  BY DEF Text
<1>2. QED
  BY <1>1 DEF Unproject, EditState

LEMMA FreshSideType ==
  ASSUME TypeOK, NEW e \in EditState, NEW text \in Text, NEW u \in BOOLEAN,
         NEW f \in File, NEW x \in {Gone, NoHash} \union Content
  PROVE  FreshSide(e, text, u, f, x) \in EditState
BY DEF FreshSide, EditState, TypeOK, Projected

LEMMA CancelledType ==
  ASSUME NEW ws \in SUBSET Worker
  PROVE  Cancelled(ws) \in SUBSET Worker
BY DEF Cancelled, Worker

LEMMA SupersedeType ==
  ASSUME TypeOK, Supersede
  PROVE  generation' \in Nat /\ token' \in Nat /\ workers' \subseteq Worker
BY CancelledType DEF TypeOK, Supersede

-----------------------------------------------------------------------------
(* The type invariant, in the parts the provers take apart best.             *)

SidesOK == ed \in [Side -> EditState] /\ comparison \in Comparison
FlagsOK == /\ model \in BOOLEAN /\ skip \in BOOLEAN /\ unified \in BOOLEAN
           /\ binary \in BOOLEAN /\ timer \in BOOLEAN /\ pending \in BOOLEAN
RequestsOK == generation \in Nat /\ token \in Nat /\ workers \subseteq Worker
FilesOK == /\ disk \in [File -> {Gone} \union Content]
           /\ saving \in {None} \union Saving
ChoicesOK == options \in Options /\ byteStatus \in ByteStatus

LEMMA DocumentEditedType ==
  ASSUME TypeOK, NEW s \in Side, NEW t \in Text, DocumentEdited(s, t)
  PROVE  TypeOK'
<1>1. SidesOK'
  <2>1. ed[s] \in EditState
    BY DEF TypeOK
  <2>2. [ed[s] EXCEPT !.doc = t, !.modified = t # ed[s].cleanText] \in EditState
    BY <2>1 DEF EditState
  <2>3. ed' = [ed EXCEPT ![s] =
                 [ed[s] EXCEPT !.doc = t, !.modified = t # ed[s].cleanText]]
    BY Zenon DEF DocumentEdited
  <2>4. QED
    BY <2>2, <2>3 DEF DocumentEdited, TypeOK, SidesOK
<1>2. FlagsOK'
  BY DEF TypeOK, DocumentEdited, SupersedeAndRestart, view, FlagsOK
<1>3. RequestsOK'
  BY SupersedeType DEF DocumentEdited, SupersedeAndRestart, RequestsOK
<1>4. FilesOK' /\ ChoicesOK' /\ external' \in Nat
  BY DEF TypeOK, DocumentEdited, files, FilesOK, ChoicesOK
<1>5. QED
  BY <1>1, <1>2, <1>3, <1>4
  DEF TypeOK, SidesOK, FlagsOK, RequestsOK, FilesOK, ChoicesOK

LEMMA LoadBytesType ==
  ASSUME TypeOK, NEW e \in [Side -> EditState], NEW path \in [Side -> File],
         LoadBytes(e, path), UNCHANGED <<view, files, saving>>
  PROVE  TypeOK'
<1> DEFINE w == [gen |-> generation + 1, bytes |-> TRUE, cancelled |-> FALSE,
                 options |-> options, text |-> [s \in Side |-> {}]]
<1>1. {} \in Text
  BY DEF Text
<1>2. SidesOK'
  <2>1. \A s \in Side : FreshSide(e[s], {}, FALSE, path[s], NoHash) \in EditState
    BY <1>1, FreshSideType
  <2>2. comparison' \in Comparison
    BY <1>1 DEF TypeOK, LoadBytes, Show, Comparison
  <2>3. QED
    BY <2>1, <2>2 DEF LoadBytes, SidesOK
<1>3. FlagsOK'
  BY DEF TypeOK, LoadBytes, Show, view, FlagsOK
<1>4. RequestsOK'
  <2>1. w \in Worker
    BY <1>1 DEF TypeOK, Worker
  <2>2. workers' \subseteq Worker
    BY <2>1, CancelledType DEF TypeOK, LoadBytes
  <2>3. generation' \in Nat /\ token' \in Nat
    BY DEF TypeOK, LoadBytes
  <2>4. QED
    BY <2>2, <2>3 DEF RequestsOK
<1>5. FilesOK' /\ external' \in Nat
  BY DEF TypeOK, files, FilesOK
<1>6. ChoicesOK'
  BY DEF TypeOK, LoadBytes, ByteStatus, ChoicesOK
<1>7. QED
  BY <1>2, <1>3, <1>4, <1>5, <1>6
  DEF TypeOK, SidesOK, FlagsOK, RequestsOK, FilesOK, ChoicesOK

LEMMA LoadTextType ==
  ASSUME TypeOK, NEW path \in [Side -> File], LoadText(path),
         \A s \in Side : disk[path[s]] # Gone /\ disk[path[s]] \notin Blobs,
         UNCHANGED <<view, files, saving>>
  PROVE  TypeOK'
<1> DEFINE text == [s \in Side |-> Decoded(disk[path[s]])]
           content == [s \in Side |-> disk[path[s]]]
<1>1. \A s \in Side : disk[path[s]] \in Content
  BY DEF TypeOK
<1>2. text \in [Side -> Text]
  BY <1>1, DecodedIsText
<1>3. SidesOK'
  <2>1. \A s \in Side : FreshSide(ed[s], text[s], content[s] \in Broken, path[s],
                                  content[s]) \in EditState
    <3> SUFFICES ASSUME NEW s \in Side
        PROVE  FreshSide(ed[s], text[s], content[s] \in Broken, path[s],
                         content[s]) \in EditState
      OBVIOUS
    <3>1. ed[s] \in EditState /\ text[s] \in Text /\ path[s] \in File
      BY <1>2 DEF TypeOK
    <3>2. content[s] \in {Gone, NoHash} \union Content
      BY <1>1
    <3>3. (content[s] \in Broken) \in BOOLEAN
      OBVIOUS
    <3> HIDE DEF text, content
    <3>4. QED
      BY <3>1, <3>2, <3>3, FreshSideType
  <2>2. ed' \in [Side -> EditState]
    BY <2>1, Zenon DEF LoadText
  <2>3. comparison' \in Comparison
    <3>1. comparison' = [text |-> text, options |-> options]
      BY DEF LoadText, Show
    <3> HIDE DEF text
    <3>2. QED
      BY <1>2, <3>1 DEF TypeOK, Comparison
  <2>4. QED
    BY <2>2, <2>3 DEF SidesOK
<1>4. FlagsOK'
  BY DEF TypeOK, LoadText, Show, SupersedeAndStop, view, FlagsOK
<1>5. RequestsOK'
  BY SupersedeType DEF LoadText, SupersedeAndStop, RequestsOK
<1>6. FilesOK' /\ external' \in Nat
  BY DEF TypeOK, files, FilesOK
<1>7. ChoicesOK'
  BY DEF TypeOK, LoadText, ByteStatus, ChoicesOK
<1>8. QED
  BY <1>3, <1>4, <1>5, <1>6, <1>7
  DEF TypeOK, SidesOK, FlagsOK, RequestsOK, FilesOK, ChoicesOK

LEMMA LoadPathsType ==
  ASSUME TypeOK, NEW path \in [Side -> File], LoadPaths(path),
         UNCHANGED <<view, files, saving>>
  PROVE  TypeOK'
<1>1. ed \in [Side -> EditState]
  BY DEF TypeOK
<1>2. CASE LoadBytes(ed, path)
  BY <1>1, <1>2, LoadBytesType
<1>3. CASE LoadText(path) /\ ~LoadBytes(ed, path)
  <2>1. \A s \in Side : disk[path[s]] # Gone /\ disk[path[s]] \notin Blobs
    BY <1>3 DEF LoadPaths
  <2>2. QED
    BY <1>3, <2>1, LoadTextType
<1>4. QED
  BY <1>2, <1>3 DEF LoadPaths

LEMMA TargetsType ==
  ASSUME TypeOK
  PROVE  Targets \in [Side -> File] /\ SwappedTargets \in [Side -> File]
BY DEF TypeOK, EditState, Targets, SwappedTargets, Other, Side

LEMMA ReadSideType ==
  ASSUME TypeOK, NEW s \in Side, NEW content \in Content, content \notin Blobs
  PROVE  ReadSide(ed[s], content) \in EditState
<1> DEFINE unsafe == content \in Broken
           doc == Decoded(content)
<1>1. unsafe \in BOOLEAN /\ doc \in Text
  BY DecodedIsText
<1>2. ReadSide(ed[s], content) =
        [ed[s] EXCEPT !.raw = FALSE, !.doc = doc, !.modified = FALSE,
                      !.clean = doc, !.cleanText = doc,
                      !.encodingUnsafe = unsafe, !.expected = content]
  BY Zenon DEF ReadSide
<1>3. ed[s] \in EditState
  BY DEF TypeOK
<1> HIDE DEF unsafe, doc
<1>4. QED
  BY <1>1, <1>2, <1>3 DEF EditState

LEMMA ReloadTextType ==
  ASSUME TypeOK, NEW s \in Side, NEW content \in Content, content \notin Blobs,
         ReloadText(s, content), UNCHANGED <<view, files, saving>>
  PROVE  TypeOK'
<1> DEFINE text == [comparison.text EXCEPT ![s] = Decoded(content),
                                           ![Other(s)] = Current(Other(s))]
           read == [ed EXCEPT ![s] = ReadSide(ed[s], content)]
<1>1. Decoded(content) \in Text
  BY DecodedIsText
<1>2. Other(s) \in Side
  BY DEF Other, Side
<1>3. text \in [Side -> Text]
  BY <1>1, <1>2, CurrentIsText DEF TypeOK, Comparison
<1>4. read \in [Side -> EditState]
  <2>1. ed[s] \in EditState
    BY DEF TypeOK
  <2>2. ReadSide(ed[s], content) \in EditState
    BY ReadSideType
  <2>3. QED
    BY <2>2 DEF TypeOK
<1>5. SidesOK'
  <2>1. ed' = UpdateEditability(KeepDocuments(read, text), text, Projected, binary)
    BY DEF ReloadText
  <2>2. comparison' = [text |-> text, options |-> options]
    BY DEF ReloadText, Show
  <2> HIDE DEF text, read
  <2>3. KeepDocuments(read, text) \in [Side -> EditState]
    BY <1>3, <1>4, KeepKeepsType
  <2>4. Projected \in BOOLEAN /\ binary \in BOOLEAN
    BY DEF TypeOK, Projected
  <2>5. ed' \in [Side -> EditState]
    BY <2>1, <2>3, <2>4, <1>3, UpdateKeepsType
  <2>6. comparison' \in Comparison
    BY <2>2, <1>3 DEF TypeOK, Comparison
  <2>7. QED
    BY <2>5, <2>6 DEF SidesOK
<1>6. FlagsOK'
  BY DEF TypeOK, ReloadText, Show, SupersedeAndStop, view, FlagsOK
<1>7. RequestsOK'
  BY SupersedeType DEF ReloadText, SupersedeAndStop, RequestsOK
<1>8. FilesOK' /\ ChoicesOK' /\ external' \in Nat
  BY DEF TypeOK, ReloadText, files, FilesOK, ChoicesOK
<1>9. QED
  BY <1>5, <1>6, <1>7, <1>8
  DEF TypeOK, SidesOK, FlagsOK, RequestsOK, FilesOK, ChoicesOK

LEMMA SetDiffOptionsType ==
  ASSUME TypeOK, NEW o \in Options, SetDiffOptions(o)
  PROVE  TypeOK'
<1>1. FlagsOK'
  BY DEF TypeOK, SetDiffOptions, SupersedeAndRestart, request, view, FlagsOK
<1>2. RequestsOK'
  <2>1. CASE binary
    BY <2>1 DEF TypeOK, SetDiffOptions, request, RequestsOK
  <2>2. CASE ~binary
    BY <2>2, SupersedeType DEF SetDiffOptions, SupersedeAndRestart, RequestsOK
  <2>3. QED
    BY <2>1, <2>2
<1>3. SidesOK' /\ FilesOK' /\ ChoicesOK' /\ external' \in Nat
  BY DEF TypeOK, SetDiffOptions, files, SidesOK, FilesOK, ChoicesOK
<1>4. QED
  BY <1>1, <1>2, <1>3
  DEF TypeOK, SidesOK, FlagsOK, RequestsOK, FilesOK, ChoicesOK

LEMMA SetEditableType ==
  ASSUME TypeOK, NEW s \in Side, NEW on \in BOOLEAN, SetEditable(s, on)
  PROVE  TypeOK'
<1> DEFINE e == [ed EXCEPT ![s].editable = on]
<1>1. e \in [Side -> EditState]
  <2>1. ed[s] \in EditState
    BY DEF TypeOK
  <2>2. [ed[s] EXCEPT !.editable = on] \in EditState
    BY <2>1 DEF EditState
  <2>3. QED
    BY <2>2 DEF TypeOK
<1>2. ed' = UpdateEditability(e, comparison.text, Projected, binary)
  BY DEF SetEditable
<1> HIDE DEF e
<1>3. comparison.text \in [Side -> Text] /\ Projected \in BOOLEAN /\ binary \in BOOLEAN
  BY DEF TypeOK, Comparison, Projected
<1>4. ed' \in [Side -> EditState]
  BY <1>1, <1>2, <1>3, UpdateKeepsType
<1>5. QED
  BY <1>4, Zenon DEF TypeOK, SetEditable, shown, view, request, files

LEMMA TimerFiresType ==
  ASSUME TypeOK, TimerFires
  PROVE  TypeOK'
<1> DEFINE w == [gen |-> generation, bytes |-> FALSE, cancelled |-> FALSE,
                 options |-> options, text |-> [s \in Side |-> Current(s)]]
<1>1. w \in Worker
  BY CurrentIsText DEF TypeOK, Worker
<1>2. workers' = workers \union {w}
  BY DEF TimerFires
<1> HIDE DEF w
<1>3. RequestsOK'
  BY <1>1, <1>2, Zenon DEF TypeOK, TimerFires, RequestsOK
<1>4. QED
  BY <1>3, Zenon DEF TypeOK, TimerFires, shown, view, files, RequestsOK

LEMMA WorkerFinishesType ==
  ASSUME TypeOK, NEW w \in workers, WorkerFinishes(w)
  PROVE  TypeOK'
<1>1. w \in Worker /\ workers' \subseteq Worker
  BY DEF TypeOK, WorkerFinishes
<1>2. CASE DropResult(w)
  BY <1>1, <1>2, Zenon DEF TypeOK, WorkerFinishes, DropResult, shown, view, files
<1>3. CASE InstallResult(w)
  <2>1. w.text \in [Side -> Text] /\ w.options \in Options
    BY <1>1 DEF Worker
  <2>2. ed' \in [Side -> EditState]
    BY <1>3, <2>1, KeepKeepsType DEF TypeOK, InstallResult
  <2>3. comparison' \in Comparison
    BY <1>3, <2>1 DEF InstallResult, Comparison
  <2>4. QED
    BY <1>1, <1>3, <2>2, <2>3, Zenon
    DEF TypeOK, WorkerFinishes, InstallResult, view, files
<1>4. CASE ReportFailure(w)
  BY <1>1, <1>4, Zenon DEF TypeOK, WorkerFinishes, ReportFailure, shown, view, files
<1>5. CASE ByteResult(w)
  <2>1. byteStatus' \in ByteStatus
    BY <1>5 DEF ByteResult, ByteStatus
  <2>2. QED
    BY <1>1, <1>5, <2>1, Zenon DEF TypeOK, WorkerFinishes, ByteResult, view, files
<1>6. QED
  BY <1>2, <1>3, <1>4, <1>5 DEF WorkerFinishes

LEMMA ReloadSideType ==
  ASSUME TypeOK, NEW s \in Side, ReloadSide(s)
  PROVE  TypeOK'
<1> DEFINE content == disk[ed[s].target]
<1>1. UNCHANGED <<view, files, saving>>
  BY DEF ReloadSide
<1>2. Targets \in [Side -> File] /\ ed \in [Side -> EditState]
  BY TargetsType DEF TypeOK
<1>3. content \in Content
  BY DEF TypeOK, EditState, ReloadSide
<1>4. CASE LoadPaths(Targets)
  BY <1>1, <1>2, <1>4, LoadPathsType
<1>5. CASE content \notin Blobs /\ ReloadText(s, content)
  BY <1>1, <1>3, <1>5, ReloadTextType
<1>6. CASE LoadBytes(ed, Targets)
  BY <1>1, <1>2, <1>6, LoadBytesType
<1>7. QED
  BY <1>4, <1>5, <1>6 DEF ReloadSide

LEMMA SwapSidesType ==
  ASSUME TypeOK, SwapSides
  PROVE  TypeOK'
<1>1. UNCHANGED <<view, files, saving>>
  BY DEF SwapSides
<1>2. CASE SwapBytes
  <2> DEFINE e == [s \in Side |-> [ed[s] EXCEPT !.editable = ed[Other(s)].editable]]
  <2>1. e \in [Side -> EditState]
    BY DEF TypeOK, EditState, Other, Side
  <2>2. LoadBytes(e, SwappedTargets)
    BY <1>2 DEF SwapBytes
  <2> HIDE DEF e
  <2>3. QED
    BY <1>1, <2>1, <2>2, TargetsType, LoadBytesType
<1>3. CASE SwapText
  <2> DEFINE text == [s \in Side |-> Current(Other(s))]
  <2>1. text \in [Side -> Text]
    BY CurrentIsText DEF Other, Side
  <2>2. SwappedState \in [Side -> EditState]
    BY DEF TypeOK, SwappedState, Other, Side
  <2>3. ed' = UpdateEditability(KeepDocuments(SwappedState, text), text,
                                Projected, binary)
    BY <1>3 DEF SwapText
  <2>4. comparison' = [text |-> text, options |-> options]
    BY <1>3 DEF SwapText, Show
  <2> HIDE DEF text
  <2>5. SidesOK'
    <3>1. Projected \in BOOLEAN /\ binary \in BOOLEAN
      BY DEF TypeOK, Projected
    <3>2. KeepDocuments(SwappedState, text) \in [Side -> EditState]
      BY <2>1, <2>2, KeepKeepsType
    <3>3. ed' \in [Side -> EditState]
      BY <2>1, <2>3, <3>1, <3>2, UpdateKeepsType
    <3>4. QED
      BY <2>1, <2>4, <3>3 DEF TypeOK, Comparison, SidesOK
  <2>6. FlagsOK'
    BY <1>1, <1>3 DEF TypeOK, SwapText, Show, SupersedeAndStop, view, FlagsOK
  <2>7. RequestsOK'
    BY <1>3, SupersedeType DEF SwapText, SupersedeAndStop, RequestsOK
  <2>8. FilesOK' /\ ChoicesOK' /\ external' \in Nat
    BY <1>1, <1>3 DEF TypeOK, SwapText, files, FilesOK, ChoicesOK
  <2>9. QED
    BY <2>5, <2>6, <2>7, <2>8
    DEF TypeOK, SidesOK, FlagsOK, RequestsOK, FilesOK, ChoicesOK
<1>4. QED
  BY <1>2, <1>3 DEF SwapSides

LEMMA CopyChangeType ==
  ASSUME TypeOK, NEW b \in Line, NEW s \in Side, CopyChange(b, s)
  PROVE  TypeOK'
<1> DEFINE target == Other(s)
           t == IF b \in Current(s) THEN Current(target) \union {b}
                                    ELSE Current(target) \ {b}
<1>1. target \in Side
  BY DEF Other, Side
<1>2. t \in Text
  BY <1>1, CurrentIsText DEF Text
<1>3. DocumentEdited(target, t)
  BY DEF CopyChange
<1> HIDE DEF target, t
<1>4. QED
  BY <1>1, <1>2, <1>3, DocumentEditedType

LEMMA DiscardChangesType ==
  ASSUME TypeOK, DiscardChanges
  PROVE  TypeOK'
<1> DEFINE text == [s \in Side |-> ed[s].clean]
<1>1. \A s \in Side : CleanSide(s) \in EditState /\ ed[s].clean \in Text
  <2> SUFFICES ASSUME NEW s \in Side
      PROVE  CleanSide(s) \in EditState /\ ed[s].clean \in Text
    OBVIOUS
  <2>1. /\ ed[s] \in EditState
        /\ ed[s].clean \in Text
        /\ ed[s].encodingUnsafe \in BOOLEAN
        /\ ed[s].target \in File
        /\ ed[s].expected \in {Gone, NoHash} \union Content
    BY DEF TypeOK, EditState
  <2>2. QED
    BY <2>1, FreshSideType DEF CleanSide
<1>2. SidesOK'
  <2>1. comparison' = [text |-> text, options |-> options]
    BY DEF DiscardChanges, Show
  <2>2. text \in [Side -> Text]
    BY <1>1
  <2> HIDE DEF text
  <2>3. comparison' \in Comparison
    BY <2>1, <2>2 DEF TypeOK, Comparison
  <2>4. QED
    BY <1>1, <2>3 DEF DiscardChanges, SidesOK
<1>3. FlagsOK'
  BY DEF TypeOK, DiscardChanges, Show, SupersedeAndStop, view, FlagsOK
<1>4. RequestsOK'
  BY SupersedeType DEF DiscardChanges, SupersedeAndStop, RequestsOK
<1>5. FilesOK' /\ ChoicesOK' /\ external' \in Nat
  BY DEF TypeOK, DiscardChanges, files, FilesOK, ChoicesOK
<1>6. QED
  BY <1>2, <1>3, <1>4, <1>5
  DEF TypeOK, SidesOK, FlagsOK, RequestsOK, FilesOK, ChoicesOK

LEMMA SetUnchangedLinesSkippedType ==
  ASSUME TypeOK, SetUnchangedLinesSkipped
  PROVE  TypeOK'
<1> DEFINE e == IF skip THEN Unproject(ed, comparison.text)
                        ELSE Project(ed, comparison.text)
           projected == ~skip \/ unified
<1>1. e \in [Side -> EditState]
  <2>1. comparison.text \in [Side -> Text] /\ ed \in [Side -> EditState]
    BY DEF TypeOK, Comparison
  <2>2. QED
    BY <2>1, ProjectType, UnprojectType
<1>2. ed' = UpdateEditability(e, comparison.text, projected, binary)
  BY DEF SetUnchangedLinesSkipped
<1>3. /\ comparison.text \in [Side -> Text]
      /\ projected \in BOOLEAN /\ binary \in BOOLEAN
  BY DEF TypeOK, Comparison
<1> HIDE DEF e, projected
<1>4. ed' \in [Side -> EditState]
  BY <1>1, <1>2, <1>3, UpdateKeepsType
<1>5. skip' \in BOOLEAN
  BY DEF TypeOK, SetUnchangedLinesSkipped
<1>6. QED
  BY <1>4, <1>5, Zenon DEF TypeOK, SetUnchangedLinesSkipped, shown, request, files

LEMMA SetViewModeType ==
  ASSUME TypeOK, SetViewMode
  PROVE  TypeOK'
<1> DEFINE e == KeepDocuments(ed, comparison.text)
           projected == skip \/ ~unified
<1>1. /\ comparison.text \in [Side -> Text]
      /\ projected \in BOOLEAN /\ binary \in BOOLEAN
  BY DEF TypeOK, Comparison
<1>2. e \in [Side -> EditState]
  BY <1>1, KeepKeepsType DEF TypeOK
<1>3. ed' = UpdateEditability(e, comparison.text, projected, binary)
  BY DEF SetViewMode
<1> HIDE DEF e, projected
<1>4. ed' \in [Side -> EditState]
  BY <1>1, <1>2, <1>3, UpdateKeepsType
<1>5. unified' \in BOOLEAN
  BY DEF TypeOK, SetViewMode
<1>6. QED
  BY <1>4, <1>5, Zenon DEF TypeOK, SetViewMode, shown, request, files

LEMMA SaveBeginType ==
  ASSUME TypeOK, NEW s \in Side, NEW over \in BOOLEAN, SaveBegin(s, over)
  PROVE  TypeOK'
<1>1. saving' \in Saving
  <2>1. PICK phase \in {"write", "ask"} :
          saving' = [side |-> s, text |-> Current(s), bytes |-> Current(s), phase |-> phase]
    BY DEF SaveBegin
  <2>2. QED
    BY <2>1, CurrentIsText DEF Saving
<1>2. QED
  BY <1>1, Zenon DEF TypeOK, SaveBegin, shown, view, request, files

\* A save in progress is a record of its side, text, bytes and phase.
LEMMA SavingType ==
  ASSUME TypeOK, ~Idle
  PROVE  saving \in Saving /\ saving.side \in Side /\ saving.text \in Text /\ saving.bytes \in Text
BY DEF TypeOK, Idle, Saving

LEMMA SaveAnsweredType ==
  ASSUME TypeOK, SaveAnswered
  PROVE  TypeOK'
<1>1. saving' \in {None} \union Saving
  BY SavingType DEF SaveAnswered, Saving
<1>2. QED
  BY <1>1, Zenon DEF TypeOK, SaveAnswered, shown, view, request, files

LEMMA SaveCommitType ==
  ASSUME TypeOK, SaveCommit
  PROVE  TypeOK'
<1>1. /\ saving \in Saving
      /\ ed[saving.side].target \in File
      /\ saving.bytes \in Content
  BY SavingType DEF TypeOK, SaveCommit, EditState, Content
<1>2. FilesOK'
  BY <1>1 DEF TypeOK, SaveCommit, FilesOK, Saving
<1>3. QED
  BY <1>2, Zenon DEF TypeOK, SaveCommit, shown, view, request, FilesOK

LEMMA SaveRecordType ==
  ASSUME TypeOK, SaveRecord
  PROVE  TypeOK'
<1> DEFINE s == saving.side
           found == disk[ed[s].target]
           hash == IF found = Gone THEN NoHash ELSE found
           recorded == [ed[s] EXCEPT !.clean = saving.text, !.cleanText = Current(s),
                                     !.modified = FALSE, !.expected = hash]
           e == [ed EXCEPT ![s] = recorded]
<1>1. /\ s \in Side
      /\ saving.text \in Text
      /\ ed[s] \in EditState
  BY SavingType DEF TypeOK, SaveRecord
<1>2. Current(s) \in Text
  BY <1>1, CurrentIsText
<1>3. hash \in {Gone, NoHash} \union Content
  BY <1>1 DEF TypeOK, EditState
<1>4. ed' = UpdateEditability(e, comparison.text, Projected, binary)
  BY Zenon DEF SaveRecord
<1>5. recorded \in EditState
  <2> HIDE DEF s, hash
  <2>1. QED
    BY <1>1, <1>2, <1>3 DEF EditState
<1>6. /\ comparison.text \in [Side -> Text]
      /\ Projected \in BOOLEAN /\ binary \in BOOLEAN
  BY DEF TypeOK, Comparison, Projected
<1> HIDE DEF recorded
<1>7. e \in [Side -> EditState]
  BY <1>1, <1>5 DEF TypeOK
<1> HIDE DEF e
<1>8. ed' \in [Side -> EditState]
  BY <1>4, <1>6, <1>7, UpdateKeepsType
<1>9. saving' \in {None} \union Saving
  BY DEF SaveRecord
<1>10. QED
  BY <1>8, <1>9, Zenon DEF TypeOK, SaveRecord, shown, view, request, files

LEMMA ExternalWriteType ==
  ASSUME TypeOK, NEW f \in File, NEW c \in Content \union {Gone}, ExternalWrite(f, c)
  PROVE  TypeOK'
<1>1. disk' \in [File -> {Gone} \union Content]
  BY DEF TypeOK, ExternalWrite
<1>2. external' \in Nat
  BY DEF TypeOK, ExternalWrite
<1>3. QED
  BY <1>1, <1>2, Zenon DEF TypeOK, ExternalWrite, shown, view, request

LEMMA InitType == Init => TypeOK
<1> SUFFICES ASSUME Init PROVE TypeOK
  OBVIOUS
<1> DEFINE f(s) == IF s = "Left" THEN "f1" ELSE "f2"
<1>1. disk \in [File -> Content] /\ \A g \in File : disk[g] \notin Blobs
  BY ConstantsAssumption DEF Init, Content
<1>2. \A s \in Side : f(s) \in File /\ Decoded(disk[f(s)]) \in Text
  <2>1. \A s \in Side : f(s) \in File
    BY DEF Side, File
  <2>2. QED
    BY <1>1, <2>1, DecodedIsText
<1>3. ed \in [Side -> EditState]
  <2>1. PICK editable \in [Side -> BOOLEAN] :
          ed = [s \in Side |->
                 [editable |-> editable[s], modified |-> FALSE, raw |-> editable[s],
                  encodingUnsafe |-> disk[f(s)] \in Broken, doc |-> Decoded(disk[f(s)]),
                  clean |-> Decoded(disk[f(s)]), cleanText |-> Decoded(disk[f(s)]),
                  target |-> f(s), expected |-> disk[f(s)]]]
    BY Zenon DEF Init
  <2>2. \A s \in Side : (disk[f(s)] \in Broken) \in BOOLEAN
    OBVIOUS
  <2>3. \A s \in Side : disk[f(s)] \in {Gone, NoHash} \union Content
    BY <1>1, <1>2
  <2> HIDE DEF f
  <2>4. QED
    BY <2>1, <1>2, <2>2, <2>3 DEF EditState
<1>4. comparison \in Comparison
  <2>1. \A s \in Side : ed[s].doc \in Text
    BY <1>3 DEF EditState
  <2>2. QED
    BY <2>1 DEF Init, Comparison
<1>5. options \in Options /\ byteStatus \in ByteStatus
  BY DEF Init, ByteStatus
<1>6. generation \in Nat /\ token \in Nat /\ external \in Nat
  BY DEF Init
<1>7. disk \in [File -> {Gone} \union Content]
  BY <1>1
<1>8. QED
  BY <1>3, <1>4, <1>5, <1>6, <1>7, Zenon DEF TypeOK, Init

LEMMA NextType == TypeOK /\ [Next]_vars => TypeOK'
<1> SUFFICES ASSUME TypeOK, [Next]_vars PROVE TypeOK'
  OBVIOUS
<1>1. ASSUME NEW s \in Side, NEW t \in Text, Edit(s, t) PROVE TypeOK'
  BY <1>1, DocumentEditedType DEF Edit
<1>2. ASSUME NEW b \in Line, NEW s \in Side, CopyChange(b, s) PROVE TypeOK'
  BY <1>2, CopyChangeType
<1>3. ASSUME NEW o \in Options, SetDiffOptions(o) PROVE TypeOK'
  BY <1>3, SetDiffOptionsType
<1>4. ASSUME NEW s \in Side, NEW on \in BOOLEAN, SetEditable(s, on) PROVE TypeOK'
  BY <1>4, SetEditableType
<1>5. CASE TimerFires
  BY <1>5, TimerFiresType
<1>6. ASSUME NEW w \in workers, WorkerFinishes(w) PROVE TypeOK'
  BY <1>6, WorkerFinishesType
<1>7. CASE CancelByteComparison
  <2>1. workers' \subseteq Worker
    BY <1>7, CancelledType DEF TypeOK, CancelByteComparison
  <2>2. QED
    BY <1>7, <2>1, Zenon DEF TypeOK, CancelByteComparison, shown, view, files
<1>8. CASE LoadFromPaths
  BY <1>8, TargetsType, LoadPathsType DEF LoadFromPaths
<1>9. ASSUME NEW s \in Side, ReloadSide(s) PROVE TypeOK'
  BY <1>9, ReloadSideType
<1>10. CASE SwapSides
  BY <1>10, SwapSidesType
<1>11. CASE DiscardChanges
  BY <1>11, DiscardChangesType
<1>12. CASE SetUnchangedLinesSkipped
  BY <1>12, SetUnchangedLinesSkippedType
<1>13. CASE SetViewMode
  BY <1>13, SetViewModeType
<1>14. ASSUME NEW s \in Side, NEW over \in BOOLEAN, SaveBegin(s, over) PROVE TypeOK'
  BY <1>14, SaveBeginType
<1>15. CASE SaveAnswered
  BY <1>15, SaveAnsweredType
<1>16. CASE SaveCommit
  BY <1>16, SaveCommitType
<1>17. CASE SaveRecord
  BY <1>17, SaveRecordType
<1>18. ASSUME NEW f \in File, NEW c \in Content \union {Gone}, ExternalWrite(f, c)
       PROVE  TypeOK'
  BY <1>18, ExternalWriteType
<1>19. CASE UNCHANGED vars
  BY <1>19, Zenon DEF TypeOK, vars, shown, view, request, files
<1>20. QED
  BY <1>1, <1>2, <1>3, <1>4, <1>5, <1>6, <1>7, <1>8, <1>9, <1>10, <1>11, <1>12,
     <1>13, <1>14, <1>15, <1>16, <1>17, <1>18, <1>19 DEF Next

\* The fields of the file view hold values of their types in every behaviour.
THEOREM TypeCorrect == Spec => []TypeOK
BY InitType, NextType, PTL DEF Spec

-----------------------------------------------------------------------------
(* The requests: generation, token, timer, pending and workers.              *)

RequestInv == PendingIsScheduled /\ SupersededIsCancelled /\ RequestsInOrder

\* A cancelled worker is the worker it was, except that it has been told to stop.
LEMMA CancelledWorker ==
  ASSUME TypeOK, NEW v \in Cancelled(workers)
  PROVE  \E w \in workers :
           /\ v = IF w.gen = token THEN [w EXCEPT !.cancelled = TRUE] ELSE w
           /\ v \in Worker /\ w \in Worker
           /\ v.gen = w.gen /\ v.bytes = w.bytes
           /\ v.options = w.options /\ v.text = w.text
           /\ w.gen = token => v.cancelled
           /\ w.cancelled => v.cancelled
<1>1. PICK w \in workers :
        v = IF w.gen = token THEN [w EXCEPT !.cancelled = TRUE] ELSE w
  BY DEF Cancelled
<1>2. w \in Worker
  BY DEF TypeOK
<1>3. CASE w.gen = token
  <2>1. v = [w EXCEPT !.cancelled = TRUE]
    BY <1>1, <1>3
  <2>2. /\ v \in Worker /\ v.gen = w.gen /\ v.bytes = w.bytes
        /\ v.options = w.options /\ v.text = w.text /\ v.cancelled = TRUE
    BY <1>2, <2>1 DEF Worker
  <2>3. QED
    BY <1>1, <1>2, <2>2
<1>4. CASE w.gen # token
  BY <1>1, <1>2, <1>4
<1>5. QED
  BY <1>3, <1>4

\* Cancelling creates no worker, removes none and merges none.
LEMMA CancelledGenerations ==
  ASSUME TypeOK
  PROVE  /\ \A v \in Cancelled(workers) : \E w \in workers : v.gen = w.gen
         /\ \A w \in workers : \E v \in Cancelled(workers) : v.gen = w.gen
         /\ (\A v, w \in workers : v.gen = w.gen => v = w) =>
               \A v, w \in Cancelled(workers) : v.gen = w.gen => v = w
<1>1. \A v \in Cancelled(workers) : \E w \in workers : v.gen = w.gen
  BY CancelledWorker
<1>2. \A w \in workers : \E v \in Cancelled(workers) : v.gen = w.gen
  <2> SUFFICES ASSUME NEW w \in workers
      PROVE  \E v \in Cancelled(workers) : v.gen = w.gen
    OBVIOUS
  <2>1. w \in Worker
    BY DEF TypeOK
  <2>2. [w EXCEPT !.cancelled = TRUE].gen = w.gen
    BY <2>1 DEF Worker
  <2>3. (IF w.gen = token THEN [w EXCEPT !.cancelled = TRUE] ELSE w)
           \in Cancelled(workers)
    BY Zenon DEF Cancelled
  <2>4. QED
    BY <2>2, <2>3
<1>3. ASSUME \A v, w \in workers : v.gen = w.gen => v = w,
             NEW v1 \in Cancelled(workers), NEW v2 \in Cancelled(workers),
             v1.gen = v2.gen
      PROVE  v1 = v2
  <2>1. PICK w1 \in workers :
          /\ v1 = IF w1.gen = token THEN [w1 EXCEPT !.cancelled = TRUE] ELSE w1
          /\ v1.gen = w1.gen
    BY CancelledWorker
  <2>2. PICK w2 \in workers :
          /\ v2 = IF w2.gen = token THEN [w2 EXCEPT !.cancelled = TRUE] ELSE w2
          /\ v2.gen = w2.gen
    BY CancelledWorker
  <2>3. w1 = w2
    BY <1>3, <2>1, <2>2
  <2>4. QED
    BY <2>1, <2>2, <2>3
<1>4. QED
  BY <1>1, <1>2, <1>3

\* Superseding leaves no worker of the new generation and cancels every older one.
LEMMA SupersedeFacts ==
  ASSUME TypeOK, RequestInv, workers' = Cancelled(workers), generation' = generation + 1
  PROVE  \A w \in workers' : w.gen < generation' /\ w.cancelled
<1> SUFFICES ASSUME NEW v \in workers'
    PROVE  v.gen < generation' /\ v.cancelled
  OBVIOUS
<1>1. PICK w \in workers : /\ w \in Worker /\ v.gen = w.gen
                           /\ w.gen = token => v.cancelled
                           /\ w.cancelled => v.cancelled
  BY CancelledWorker
<1>2. w.gen \in Nat /\ generation \in Nat /\ w.gen <= generation
  BY <1>1 DEF TypeOK, Worker, RequestInv, RequestsInOrder
<1>3. CASE w.gen = generation
  <2>1. w.gen = token
    BY <1>3 DEF RequestInv, RequestsInOrder
  <2>2. QED
    BY <1>1, <1>2, <2>1
<1>4. CASE w.gen # generation
  <2>1. w.cancelled
    BY <1>4 DEF RequestInv, SupersededIsCancelled
  <2>2. QED
    BY <1>1, <1>2, <2>1
<1>5. QED
  BY <1>3, <1>4

\* ... so no worker is due, whichever way the timer is then left.
LEMMA SupersedeKeepsRequests ==
  ASSUME TypeOK, RequestInv, workers' = Cancelled(workers),
         generation' = generation + 1, timer' \in BOOLEAN, pending' = timer'
  PROVE  RequestInv'
<1>1. \A w \in workers' : w.gen < generation' /\ w.cancelled
  BY SupersedeFacts
<1>2. \A w \in workers' : w.gen \in Nat /\ generation' \in Nat
  <2>1. \A w \in workers : w.gen \in Nat
    BY DEF TypeOK, Worker
  <2>2. \A v \in workers' : v.gen \in Nat
    BY <2>1, CancelledGenerations
  <2>3. generation' \in Nat
    BY DEF TypeOK
  <2>4. QED
    BY <2>2, <2>3
<1>3. \A w \in workers' : w.gen # generation' /\ w.gen <= generation'
  BY <1>1, <1>2
<1>4. PendingIsScheduled'
  <2>1. \A v, w \in workers' : v.gen = w.gen => v = w
    BY CancelledGenerations DEF RequestInv, PendingIsScheduled
  <2>2. QED
    BY <1>3, <2>1 DEF PendingIsScheduled
<1>5. SupersededIsCancelled' /\ RequestsInOrder'
  BY <1>1, <1>3 DEF SupersededIsCancelled, RequestsInOrder
<1>6. QED
  BY <1>4, <1>5 DEF RequestInv

LEMMA StopKeepsRequests ==
  ASSUME TypeOK, RequestInv, SupersedeAndStop
  PROVE  RequestInv'
BY SupersedeKeepsRequests DEF SupersedeAndStop, Supersede

LEMMA RestartKeepsRequests ==
  ASSUME TypeOK, RequestInv, SupersedeAndRestart
  PROVE  RequestInv'
BY SupersedeKeepsRequests DEF SupersedeAndRestart, Supersede

LEMMA LoadBytesKeepsRequests ==
  ASSUME TypeOK, RequestInv, NEW e, NEW path, LoadBytes(e, path)
  PROVE  RequestInv'
<1> DEFINE old == Cancelled(workers)
           n == [gen |-> generation + 1, bytes |-> TRUE, cancelled |-> FALSE,
                 options |-> options, text |-> [s \in Side |-> {}]]
<1>1. /\ workers' = old \union {n} /\ generation' = generation + 1
      /\ token' = generation + 1 /\ timer' = FALSE /\ pending' = TRUE
  BY DEF LoadBytes
<1>2. n.gen = generation + 1 /\ generation \in Nat
  BY DEF TypeOK
<1> HIDE DEF n
<1>3. \A w \in old : w.gen \in Nat /\ w.gen <= generation /\ w.cancelled
  <2> SUFFICES ASSUME NEW v \in old
      PROVE  v.gen \in Nat /\ v.gen <= generation /\ v.cancelled
    OBVIOUS
  <2>1. PICK w \in workers : /\ w \in Worker /\ v.gen = w.gen
                             /\ w.gen = token => v.cancelled
                             /\ w.cancelled => v.cancelled
    BY CancelledWorker
  <2>2. w.gen \in Nat /\ w.gen <= generation
    BY <2>1 DEF Worker, RequestInv, RequestsInOrder
  <2>3. w.gen = token \/ w.cancelled
    BY DEF RequestInv, RequestsInOrder, SupersededIsCancelled
  <2>4. QED
    BY <2>1, <2>2, <2>3
<1>4. \A v, w \in old : v.gen = w.gen => v = w
  BY CancelledGenerations DEF RequestInv, PendingIsScheduled
<1> HIDE DEF old
<1>5. \A w \in old : w.gen # generation + 1
  BY <1>2, <1>3
<1>6. \A v, w \in workers' : v.gen = w.gen => v = w
  BY <1>1, <1>2, <1>4, <1>5
<1>7. PendingIsScheduled'
  BY <1>1, <1>2, <1>6 DEF PendingIsScheduled
<1>8. SupersededIsCancelled'
  BY <1>1, <1>2, <1>3 DEF SupersededIsCancelled
<1>9. RequestsInOrder'
  BY <1>1, <1>2, <1>3 DEF RequestsInOrder
<1>10. QED
  BY <1>7, <1>8, <1>9 DEF RequestInv

LEMMA TimerKeepsRequests ==
  ASSUME TypeOK, RequestInv, TimerFires
  PROVE  RequestInv'
<1> DEFINE n == [gen |-> generation, bytes |-> FALSE, cancelled |-> FALSE,
                 options |-> options, text |-> [s \in Side |-> Current(s)]]
<1>1. /\ timer /\ timer' = FALSE /\ token' = generation
      /\ generation' = generation /\ pending' = pending
      /\ workers' = workers \union {n}
  BY DEF TimerFires
<1>2. n.gen = generation /\ generation \in Nat
  BY DEF TypeOK
<1> HIDE DEF n
<1>3. \A w \in workers : w.gen # generation
  BY <1>1 DEF RequestInv, PendingIsScheduled
<1>4. PendingIsScheduled'
  BY <1>1, <1>2, <1>3 DEF RequestInv, PendingIsScheduled
<1>5. SupersededIsCancelled'
  BY <1>1, <1>2 DEF RequestInv, SupersededIsCancelled
<1>6. RequestsInOrder'
  BY <1>1, <1>2, <1>3 DEF RequestInv, RequestsInOrder
<1>7. QED
  BY <1>4, <1>5, <1>6 DEF RequestInv

LEMMA WorkerKeepsRequests ==
  ASSUME TypeOK, RequestInv, NEW w \in workers, WorkerFinishes(w)
  PROVE  RequestInv'
<1>1. /\ workers' = workers \ {w} /\ generation' = generation
      /\ token' = token /\ timer' = timer
  BY DEF WorkerFinishes
<1>2. \/ w.gen # generation /\ pending' = pending
      \/ w.gen = generation /\ pending' = FALSE
  BY DEF WorkerFinishes, DropResult, InstallResult, ReportFailure, ByteResult
<1>3. PendingIsScheduled'
  BY <1>1, <1>2 DEF RequestInv, PendingIsScheduled
<1>4. SupersededIsCancelled' /\ RequestsInOrder'
  BY <1>1 DEF RequestInv, SupersededIsCancelled, RequestsInOrder
<1>5. QED
  BY <1>3, <1>4 DEF RequestInv

LEMMA CancelKeepsRequests ==
  ASSUME TypeOK, RequestInv, CancelByteComparison
  PROVE  RequestInv'
<1>1. /\ workers' = Cancelled(workers) /\ generation' = generation
      /\ token' = token /\ timer' = timer /\ pending' = pending
  BY DEF CancelByteComparison
<1>2. PendingIsScheduled'
  <2>1. (\E w \in workers' : w.gen = generation) <=>
        (\E w \in workers : w.gen = generation)
    BY <1>1, CancelledGenerations
  <2>2. \A v, w \in workers' : v.gen = w.gen => v = w
    BY <1>1, CancelledGenerations DEF RequestInv, PendingIsScheduled
  <2>3. QED
    BY <1>1, <2>1, <2>2 DEF RequestInv, PendingIsScheduled
<1>3. SupersededIsCancelled'
  BY <1>1, CancelledWorker DEF RequestInv, SupersededIsCancelled
<1>4. RequestsInOrder'
  BY <1>1, CancelledGenerations DEF RequestInv, RequestsInOrder
<1>5. QED
  BY <1>2, <1>3, <1>4 DEF RequestInv

LEMMA NextKeepsRequests ==
  ASSUME TypeOK, RequestInv, [Next]_vars
  PROVE  RequestInv'
<1>1. ASSUME UNCHANGED <<generation, token, timer, pending, workers>>
      PROVE  RequestInv'
  BY <1>1 DEF RequestInv, PendingIsScheduled, SupersededIsCancelled, RequestsInOrder
<1>2. ASSUME NEW path, LoadPaths(path) PROVE RequestInv'
  BY <1>2, LoadBytesKeepsRequests, StopKeepsRequests DEF LoadPaths, LoadText
<1>3. ASSUME NEW s \in Side, NEW t \in Text, Edit(s, t) PROVE RequestInv'
  BY <1>3, RestartKeepsRequests DEF Edit, DocumentEdited
<1>4. ASSUME NEW b \in Line, NEW s \in Side, CopyChange(b, s) PROVE RequestInv'
  BY <1>4, RestartKeepsRequests DEF CopyChange, DocumentEdited
<1>5. ASSUME NEW o \in Options, SetDiffOptions(o) PROVE RequestInv'
  <2>1. CASE binary
    BY <1>1, <1>5, <2>1 DEF SetDiffOptions, request
  <2>2. CASE ~binary
    BY <1>5, <2>2, RestartKeepsRequests DEF SetDiffOptions
  <2>3. QED
    BY <2>1, <2>2
<1>6. ASSUME NEW s \in Side, NEW on \in BOOLEAN, SetEditable(s, on) PROVE RequestInv'
  BY <1>1, <1>6 DEF SetEditable, request
<1>7. CASE TimerFires
  BY <1>7, TimerKeepsRequests
<1>8. ASSUME NEW w \in workers, WorkerFinishes(w) PROVE RequestInv'
  BY <1>8, WorkerKeepsRequests
<1>9. CASE CancelByteComparison
  BY <1>9, CancelKeepsRequests
<1>10. CASE LoadFromPaths
  BY <1>2, <1>10 DEF LoadFromPaths
<1>11. ASSUME NEW s \in Side, ReloadSide(s) PROVE RequestInv'
  BY <1>2, <1>11, LoadBytesKeepsRequests, StopKeepsRequests DEF ReloadSide, ReloadText
<1>12. CASE SwapSides
  BY <1>12, LoadBytesKeepsRequests, StopKeepsRequests DEF SwapSides, SwapBytes, SwapText
<1>13. CASE DiscardChanges
  BY <1>13, StopKeepsRequests DEF DiscardChanges
<1>14. CASE SetUnchangedLinesSkipped \/ SetViewMode
  BY <1>1, <1>14 DEF SetUnchangedLinesSkipped, SetViewMode, request
<1>15. CASE SaveAnswered \/ SaveCommit \/ SaveRecord
  BY <1>1, <1>15 DEF SaveAnswered, SaveCommit, SaveRecord, request
<1>16. ASSUME NEW s \in Side, NEW over \in BOOLEAN, SaveBegin(s, over) PROVE RequestInv'
  BY <1>1, <1>16 DEF SaveBegin, request
<1>17. ASSUME NEW f \in File, NEW c \in Content \union {Gone}, ExternalWrite(f, c)
       PROVE  RequestInv'
  BY <1>1, <1>17 DEF ExternalWrite, request
<1>18. CASE UNCHANGED vars
  BY <1>1, <1>18 DEF vars, request
<1>19. QED
  BY <1>3, <1>4, <1>5, <1>6, <1>7, <1>8, <1>9, <1>10, <1>11, <1>12, <1>13, <1>14,
     <1>15, <1>16, <1>17, <1>18 DEF Next

-----------------------------------------------------------------------------
(* The texts: what the sides show, what is compared, what is modified.       *)

TextInv == /\ ModelIsCurrent /\ LiveWorkerReadsCurrent
           /\ ModifiedIsEditedInPlace /\ EditableIsRaw

\* updateEditability changes no text; it fills the editors that can be typed in.
LEMMA UpdateFacts ==
  ASSUME NEW e \in [Side -> EditState], NEW text \in [Side -> Text],
         NEW projected \in BOOLEAN, NEW isBinary \in BOOLEAN,
         NEW u, u = UpdateEditability(e, text, projected, isBinary),
         NEW s \in Side
  PROVE  /\ u[s].editable = e[s].editable /\ u[s].modified = e[s].modified
         /\ u[s].encodingUnsafe = e[s].encodingUnsafe
         /\ u[s].cleanText = e[s].cleanText
         /\ (IF u[s].raw THEN u[s].doc ELSE text[s]) =
              (IF e[s].raw THEN e[s].doc ELSE text[s])
         /\ e[s].raw => u[s].raw /\ u[s].doc = e[s].doc
         /\ (u[s].editable /\ ~isBinary /\ ~u[s].encodingUnsafe /\ ~projected)
              => u[s].raw
<1>1. e[s] \in EditState
  OBVIOUS
<1>2. QED
  BY <1>1 DEF UpdateEditability, EditState

\* Installing a comparison keeps the documents unless they are projections.
LEMMA KeepFacts ==
  ASSUME TypeOK, NEW e \in [Side -> EditState], NEW text \in [Side -> Text],
         NEW k, k = KeepDocuments(e, text), NEW s \in Side
  PROVE  /\ ~skip => k = e
         /\ skip => ~k[s].raw
         /\ k[s].editable = e[s].editable /\ k[s].modified = e[s].modified
         /\ k[s].encodingUnsafe = e[s].encodingUnsafe
         /\ k[s].cleanText = e[s].cleanText
<1>1. e[s] \in EditState
  OBVIOUS
<1>2. CASE skip
  BY <1>1, <1>2 DEF KeepDocuments, Project, EditState
<1>3. CASE ~skip
  BY <1>3 DEF KeepDocuments
<1>4. QED
  BY <1>2, <1>3

\* A new generation has no live worker yet.
LEMMA NoLiveWorker ==
  ASSUME TypeOK, RequestInv, Supersede
  PROVE  LiveWorkerReadsCurrent'
<1>1. \A w \in workers' : w.gen < generation'
  BY SupersedeFacts DEF Supersede
<1>2. \A w \in workers' : w.gen \in Nat
  BY SupersedeType DEF Worker
<1>3. generation' \in Nat
  BY SupersedeType
<1>4. \A w \in workers' : w.gen # generation'
  BY <1>1, <1>2, <1>3
<1>5. QED
  BY <1>4 DEF LiveWorkerReadsCurrent

LEMMA DocumentEditedTexts ==
  ASSUME TypeOK, RequestInv, TextInv, NEW s \in Side, NEW t \in Text,
         IsEditable(s), ~Projected, DocumentEdited(s, t)
  PROVE  TextInv'
<1>1. /\ ed' = [ed EXCEPT ![s] =
                  [ed[s] EXCEPT !.doc = t, !.modified = t # ed[s].cleanText]]
      /\ model' = FALSE /\ Supersede
      /\ binary' = binary /\ skip' = skip /\ unified' = unified
  BY Zenon DEF DocumentEdited, SupersedeAndRestart, view
<1>2. ed[s] \in EditState /\ ed \in [Side -> EditState]
  BY DEF TypeOK
<1>3. /\ ed'[s].doc = t /\ ed'[s].modified = (t # ed[s].cleanText)
      /\ ed'[s].cleanText = ed[s].cleanText /\ ed'[s].raw = ed[s].raw
      /\ ed'[s].editable = ed[s].editable
      /\ ed'[s].encodingUnsafe = ed[s].encodingUnsafe
  BY <1>1, <1>2 DEF EditState
<1>4. \A r \in Side : r # s => ed'[r] = ed[r]
  BY <1>1, <1>2
<1>5. ed[s].raw
  BY DEF TextInv, EditableIsRaw
<1>6. \A r \in Side : IsEditable(r)' <=> IsEditable(r)
  BY <1>1, <1>3, <1>4 DEF IsEditable
<1>7. Projected' <=> Projected
  BY <1>1 DEF Projected
<1>8. ModelIsCurrent'
  BY <1>1 DEF ModelIsCurrent
<1>9. LiveWorkerReadsCurrent'
  BY <1>1, NoLiveWorker
<1>10. ModifiedIsEditedInPlace'
  BY <1>3, <1>4, <1>5, <1>6, <1>7 DEF TextInv, ModifiedIsEditedInPlace
<1>11. EditableIsRaw'
  BY <1>3, <1>4, <1>6, <1>7 DEF TextInv, EditableIsRaw
<1>12. QED
  BY <1>8, <1>9, <1>10, <1>11 DEF TextInv

LEMMA SetDiffOptionsTexts ==
  ASSUME TypeOK, RequestInv, TextInv, NEW o \in Options, SetDiffOptions(o)
  PROVE  TextInv'
<1>1. /\ ed' = ed /\ comparison' = comparison /\ binary' = binary
      /\ skip' = skip /\ unified' = unified
  BY DEF SetDiffOptions, view
<1>2. ModelIsCurrent' /\ LiveWorkerReadsCurrent'
  <2>1. CASE binary
    BY <1>1, <2>1 DEF ModelIsCurrent, LiveWorkerReadsCurrent
  <2>2. CASE ~binary
    BY <2>2, NoLiveWorker DEF SetDiffOptions, SupersedeAndRestart, ModelIsCurrent
  <2>3. QED
    BY <2>1, <2>2
<1>3. ModifiedIsEditedInPlace' /\ EditableIsRaw'
  BY <1>1 DEF TextInv, ModifiedIsEditedInPlace, EditableIsRaw, IsEditable, Projected
<1>4. QED
  BY <1>2, <1>3 DEF TextInv

\* The common end of most handlers: updateEditability on sides e.
LEMMA FilledTexts ==
  ASSUME NEW e \in [Side -> EditState], NEW text \in [Side -> Text],
         NEW projected \in BOOLEAN, NEW isBinary \in BOOLEAN,
         ed' = UpdateEditability(e, text, projected, isBinary),
         comparison'.text = text, binary' = isBinary, Projected' <=> projected
  PROVE  /\ \A r \in Side : Current(r)' = IF e[r].raw THEN e[r].doc ELSE text[r]
         /\ EditableIsRaw'
         /\ (\A r \in Side : e[r].modified =>
               /\ e[r].raw /\ e[r].editable /\ ~isBinary /\ ~e[r].encodingUnsafe
               /\ ~projected /\ e[r].doc # e[r].cleanText)
              => ModifiedIsEditedInPlace'
<1>1. \A r \in Side :
        /\ ed'[r].editable = e[r].editable /\ ed'[r].modified = e[r].modified
        /\ ed'[r].encodingUnsafe = e[r].encodingUnsafe
        /\ ed'[r].cleanText = e[r].cleanText
        /\ (IF ed'[r].raw THEN ed'[r].doc ELSE text[r]) =
             (IF e[r].raw THEN e[r].doc ELSE text[r])
        /\ e[r].raw => ed'[r].raw /\ ed'[r].doc = e[r].doc
        /\ (ed'[r].editable /\ ~isBinary /\ ~ed'[r].encodingUnsafe /\ ~projected)
             => ed'[r].raw
  BY UpdateFacts
<1>2. \A r \in Side : Current(r)' = IF ed'[r].raw THEN ed'[r].doc ELSE text[r]
  BY DEF Current
<1>3. EditableIsRaw'
  BY <1>1 DEF EditableIsRaw, IsEditable
<1>4. ASSUME \A r \in Side : e[r].modified =>
               /\ e[r].raw /\ e[r].editable /\ ~isBinary /\ ~e[r].encodingUnsafe
               /\ ~projected /\ e[r].doc # e[r].cleanText
      PROVE  ModifiedIsEditedInPlace'
  BY <1>1, <1>4 DEF ModifiedIsEditedInPlace, IsEditable
<1>5. QED
  BY <1>1, <1>2, <1>3, <1>4

\* The common end of a load and a discard: both sides start afresh.
LEMMA FreshTexts ==
  ASSUME TypeOK, RequestInv, NEW text \in [Side -> Text],
         Show(text), options' = options, Supersede, UNCHANGED view,
         \A s \in Side : /\ ed'[s].editable = ed[s].editable /\ ~ed'[s].modified
                         /\ ed'[s].raw <=> (ed[s].editable /\ ~Projected)
                         /\ ed'[s].doc = text[s]
  PROVE  TextInv'
<1>1. /\ comparison'.text = text /\ comparison'.options = options'
      /\ Projected' <=> Projected
  BY DEF Show, view, Projected
<1>2. ModelIsCurrent'
  BY <1>1 DEF ModelIsCurrent, Current
<1>3. ModifiedIsEditedInPlace' /\ EditableIsRaw'
  BY <1>1 DEF ModifiedIsEditedInPlace, EditableIsRaw, IsEditable
<1>4. QED
  BY <1>2, <1>3, NoLiveWorker DEF TextInv

LEMMA SetEditableTexts ==
  ASSUME TypeOK, TextInv, NEW s \in Side, NEW on \in BOOLEAN, SetEditable(s, on)
  PROVE  TextInv'
<1> DEFINE e == [ed EXCEPT ![s].editable = on]
<1>1. /\ UNCHANGED <<comparison, model, options, binary, skip, unified, workers, generation>>
      /\ on \/ ~ed[s].modified
      /\ ed' = UpdateEditability(e, comparison.text, Projected, binary)
  BY DEF SetEditable, shown, view, request
<1>2. /\ \A r \in Side : ed[r] \in EditState
      /\ comparison.text \in [Side -> Text]
      /\ Projected \in BOOLEAN /\ binary \in BOOLEAN
      /\ comparison'.text = comparison.text /\ binary' = binary
      /\ Projected' <=> Projected
  BY <1>1 DEF TypeOK, Comparison, Projected
<1>3. e \in [Side -> EditState]
  <2>1. [ed[s] EXCEPT !.editable = on] \in EditState
    BY <1>2 DEF EditState
  <2>2. QED
    BY <2>1 DEF TypeOK
<1>4. \A r \in Side : /\ e[r].raw = ed[r].raw /\ e[r].doc = ed[r].doc
                      /\ e[r].modified = ed[r].modified
                      /\ e[r].encodingUnsafe = ed[r].encodingUnsafe
                      /\ e[r].cleanText = ed[r].cleanText
                      /\ ed[r].modified /\ ed[r].editable => e[r].editable
  <2> SUFFICES ASSUME NEW r \in Side
      PROVE  /\ e[r].raw = ed[r].raw /\ e[r].doc = ed[r].doc
             /\ e[r].modified = ed[r].modified
             /\ e[r].encodingUnsafe = ed[r].encodingUnsafe
             /\ e[r].cleanText = ed[r].cleanText
             /\ ed[r].modified /\ ed[r].editable => e[r].editable
    OBVIOUS
  <2>1. CASE r = s
    BY <1>1, <1>2, <2>1 DEF EditState
  <2>2. CASE r # s
    BY <2>2 DEF TypeOK
  <2>3. QED
    BY <2>1, <2>2
<1> HIDE DEF e
<1>5. /\ \A r \in Side : Current(r)' = IF e[r].raw THEN e[r].doc ELSE comparison.text[r]
      /\ EditableIsRaw'
      /\ (\A r \in Side : e[r].modified =>
            /\ e[r].raw /\ e[r].editable /\ ~binary /\ ~e[r].encodingUnsafe
            /\ ~Projected /\ e[r].doc # e[r].cleanText)
           => ModifiedIsEditedInPlace'
  BY <1>1, <1>2, <1>3, FilledTexts
<1>6. \A r \in Side : Current(r)' = Current(r)
  BY <1>4, <1>5 DEF Current
<1>7. ModelIsCurrent' /\ LiveWorkerReadsCurrent'
  BY <1>1, <1>6 DEF TextInv, ModelIsCurrent, LiveWorkerReadsCurrent
<1>8. ModifiedIsEditedInPlace'
  BY <1>4, <1>5 DEF TextInv, ModifiedIsEditedInPlace, IsEditable
<1>9. QED
  BY <1>5, <1>7, <1>8 DEF TextInv

LEMMA TimerTexts ==
  ASSUME TypeOK, TextInv, TimerFires
  PROVE  TextInv'
<1> DEFINE n == [gen |-> generation, bytes |-> FALSE, cancelled |-> FALSE,
                 options |-> options, text |-> [s \in Side |-> Current(s)]]
<1>1. /\ UNCHANGED <<ed, comparison, model, options, binary, skip, unified, generation>>
      /\ workers' = workers \union {n}
  BY DEF TimerFires, shown, view
<1>2. n.options = options /\ \A s \in Side : n.text[s] = Current(s)
  OBVIOUS
<1> HIDE DEF n
<1>3. \A s \in Side : Current(s)' = Current(s)
  BY <1>1 DEF Current
<1>4. ModelIsCurrent' /\ LiveWorkerReadsCurrent'
  BY <1>1, <1>2, <1>3 DEF TextInv, ModelIsCurrent, LiveWorkerReadsCurrent
<1>5. ModifiedIsEditedInPlace' /\ EditableIsRaw'
  BY <1>1 DEF TextInv, ModifiedIsEditedInPlace, EditableIsRaw, IsEditable, Projected
<1>6. QED
  BY <1>4, <1>5 DEF TextInv

\* Steps that leave the view and its requests alone, or only lose a worker.
LEMMA UnchangedTexts ==
  ASSUME TextInv, workers' \subseteq workers,
         UNCHANGED <<ed, comparison, model, options, binary, skip, unified, generation>>
  PROVE  TextInv'
<1>1. \A s \in Side : Current(s)' = Current(s)
  BY DEF Current
<1>2. ModelIsCurrent' /\ LiveWorkerReadsCurrent'
  BY <1>1 DEF TextInv, ModelIsCurrent, LiveWorkerReadsCurrent
<1>3. ModifiedIsEditedInPlace' /\ EditableIsRaw'
  BY DEF TextInv, ModifiedIsEditedInPlace, EditableIsRaw, IsEditable, Projected
<1>4. QED
  BY <1>2, <1>3 DEF TextInv

LEMMA InstallResultTexts ==
  ASSUME TypeOK, RequestInv, TextInv, NEW w \in workers,
         WorkerFinishes(w), InstallResult(w)
  PROVE  TextInv'
<1>1. /\ w \in Worker /\ w.text \in [Side -> Text]
      /\ ed \in [Side -> EditState] /\ \A s \in Side : ed[s] \in EditState
  BY DEF TypeOK, Worker
<1>2. /\ ~w.bytes /\ w.gen = generation
      /\ comparison' = [text |-> w.text, options |-> w.options]
      /\ ed' = KeepDocuments(ed, w.text)
      /\ UNCHANGED <<options, binary, skip, unified, generation>>
      /\ workers' = workers \ {w}
  BY DEF WorkerFinishes, InstallResult, view
<1>3. \A s \in Side :
        /\ ~skip => ed' = ed
        /\ skip => ~ed'[s].raw
        /\ ed'[s].editable = ed[s].editable /\ ed'[s].modified = ed[s].modified
        /\ ed'[s].encodingUnsafe = ed[s].encodingUnsafe
        /\ ed'[s].cleanText = ed[s].cleanText
  BY <1>1, <1>2, KeepFacts
<1>4. ~binary => w.options = options /\ \A s \in Side : w.text[s] = Current(s)
  BY <1>2 DEF TextInv, LiveWorkerReadsCurrent
<1>5. ~binary => \A s \in Side : Current(s)' = w.text[s]
  <2> SUFFICES ASSUME ~binary, NEW s \in Side PROVE Current(s)' = w.text[s]
    OBVIOUS
  <2>1. CASE skip
    BY <1>2, <1>3, <2>1 DEF Current
  <2>2. CASE ~skip
    BY <1>2, <1>3, <1>4, <2>2 DEF Current
  <2>3. QED
    BY <2>1, <2>2
<1>6. ModelIsCurrent'
  BY <1>2, <1>4, <1>5 DEF ModelIsCurrent
<1>7. LiveWorkerReadsCurrent'
  BY <1>2 DEF RequestInv, PendingIsScheduled, LiveWorkerReadsCurrent
<1>8. ModifiedIsEditedInPlace'
  <2>1. CASE skip
    BY <1>2, <1>3, <2>1 DEF TextInv, ModifiedIsEditedInPlace, Projected
  <2>2. CASE ~skip
    BY <1>2, <1>3, <2>2 DEF TextInv, ModifiedIsEditedInPlace, Projected, IsEditable
  <2>3. QED
    BY <2>1, <2>2
<1>9. EditableIsRaw'
  <2>1. CASE skip
    BY <1>2, <2>1 DEF EditableIsRaw, Projected
  <2>2. CASE ~skip
    BY <1>2, <1>3, <2>2 DEF TextInv, EditableIsRaw, Projected, IsEditable
  <2>3. QED
    BY <2>1, <2>2
<1>10. QED
  BY <1>6, <1>7, <1>8, <1>9 DEF TextInv

LEMMA WorkerTexts ==
  ASSUME TypeOK, RequestInv, TextInv, NEW w \in workers, WorkerFinishes(w)
  PROVE  TextInv'
<1>1. CASE InstallResult(w)
  BY <1>1, InstallResultTexts
<1>2. CASE ~InstallResult(w)
  <2>1. /\ UNCHANGED <<ed, comparison, model, options, binary, skip, unified, generation>>
        /\ workers' \subseteq workers
    BY <1>2 DEF WorkerFinishes, DropResult, ReportFailure, ByteResult, shown, view
  <2>2. QED
    BY <2>1, UnchangedTexts
<1>3. QED
  BY <1>1, <1>2

LEMMA CancelTexts ==
  ASSUME TypeOK, TextInv, CancelByteComparison
  PROVE  TextInv'
<1>1. /\ UNCHANGED <<ed, comparison, model, options, binary, skip, unified, generation>>
      /\ workers' = Cancelled(workers)
  BY DEF CancelByteComparison, shown, view
<1>2. \A s \in Side : Current(s)' = Current(s)
  BY <1>1 DEF Current
<1>3. ModelIsCurrent'
  BY <1>1, <1>2 DEF TextInv, ModelIsCurrent
<1>4. LiveWorkerReadsCurrent'
  <2> SUFFICES ASSUME ~binary, NEW v \in workers', v.gen = generation, ~v.bytes
      PROVE  v.options = options /\ \A s \in Side : v.text[s] = Current(s)
    BY <1>1, <1>2 DEF LiveWorkerReadsCurrent
  <2>1. PICK w \in workers : /\ v.gen = w.gen /\ v.bytes = w.bytes
                             /\ v.options = w.options /\ v.text = w.text
    BY <1>1, CancelledWorker
  <2>2. QED
    BY <2>1 DEF TextInv, LiveWorkerReadsCurrent
<1>5. ModifiedIsEditedInPlace' /\ EditableIsRaw'
  BY <1>1 DEF TextInv, ModifiedIsEditedInPlace, EditableIsRaw, IsEditable, Projected
<1>6. QED
  BY <1>3, <1>4, <1>5 DEF TextInv

LEMMA LoadBytesTexts ==
  ASSUME TypeOK, NEW e, NEW path, LoadBytes(e, path)
  PROVE  TextInv'
<1>1. binary' = TRUE /\ \A s \in Side : ~ed'[s].modified
  BY DEF LoadBytes, FreshSide
<1>2. QED
  BY <1>1 DEF TextInv, ModelIsCurrent, LiveWorkerReadsCurrent,
              ModifiedIsEditedInPlace, EditableIsRaw, IsEditable

LEMMA LoadTextTexts ==
  ASSUME TypeOK, RequestInv, NEW path \in [Side -> File], LoadText(path),
         \A s \in Side : disk[path[s]] # Gone /\ disk[path[s]] \notin Blobs,
         UNCHANGED view
  PROVE  TextInv'
<1> DEFINE text == [s \in Side |-> Decoded(disk[path[s]])]
<1>1. text \in [Side -> Text]
  BY DecodedIsText DEF TypeOK
<1>2. /\ Show(text) /\ options' = options /\ Supersede
  BY DEF LoadText, SupersedeAndStop
<1>3. \A s \in Side : /\ ed'[s].editable = ed[s].editable /\ ~ed'[s].modified
                      /\ ed'[s].raw <=> (ed[s].editable /\ ~Projected)
                      /\ ed'[s].doc = text[s]
  BY DEF LoadText, FreshSide
<1> HIDE DEF text
<1>4. QED
  BY <1>1, <1>2, <1>3, FreshTexts

LEMMA DiscardTexts ==
  ASSUME TypeOK, RequestInv, DiscardChanges
  PROVE  TextInv'
<1> DEFINE text == [s \in Side |-> ed[s].clean]
<1>1. text \in [Side -> Text]
  BY DEF TypeOK, EditState
<1>2. Show(text) /\ options' = options /\ Supersede /\ UNCHANGED view
  BY DEF DiscardChanges, SupersedeAndStop
<1>3. \A s \in Side : /\ ed'[s].editable = ed[s].editable /\ ~ed'[s].modified
                      /\ ed'[s].raw <=> (ed[s].editable /\ ~Projected)
                      /\ ed'[s].doc = text[s]
  BY DEF DiscardChanges, CleanSide, FreshSide
<1> HIDE DEF text
<1>4. QED
  BY <1>1, <1>2, <1>3, FreshTexts

LEMMA ReloadTextTexts ==
  ASSUME TypeOK, RequestInv, TextInv, NEW s \in Side,
         NEW content \in Content, content \notin Blobs,
         ReloadText(s, content), UNCHANGED view
  PROVE  TextInv'
<1> DEFINE text == [comparison.text EXCEPT ![s] = Decoded(content),
                                           ![Other(s)] = Current(Other(s))]
           read == [ed EXCEPT ![s] = ReadSide(ed[s], content)]
           e == KeepDocuments(read, text)
<1>1. /\ Supersede /\ Show(text) /\ UNCHANGED <<options, binary>>
      /\ ed' = UpdateEditability(e, text, Projected, binary)
  BY DEF ReloadText, SupersedeAndStop
<1>2. /\ Other(s) \in Side /\ Other(s) # s
      /\ \A r \in Side : r # s => r = Other(s)
  BY DEF Other, Side
<1>3. /\ text \in [Side -> Text] /\ text[Other(s)] = Current(Other(s))
  <2>1. Decoded(content) \in Text /\ Current(Other(s)) \in Text
    BY <1>2, DecodedIsText, CurrentIsText
  <2>2. QED
    BY <1>2, <2>1 DEF TypeOK, Comparison
<1>4. /\ read \in [Side -> EditState] /\ ~read[s].raw /\ ~read[s].modified
      /\ \A r \in Side : r # s => read[r] = ed[r]
  <2>1. ed[s] \in EditState
    BY DEF TypeOK
  <2>2. ReadSide(ed[s], content) \in EditState
    BY ReadSideType
  <2>3. ~ReadSide(ed[s], content).raw /\ ~ReadSide(ed[s], content).modified
    BY <2>1 DEF ReadSide, EditState
  <2>4. QED
    BY <2>2, <2>3 DEF TypeOK
<1>5. /\ Projected \in BOOLEAN /\ binary \in BOOLEAN /\ binary' = binary
      /\ comparison'.text = text /\ comparison'.options = options'
      /\ Projected' <=> Projected
  BY <1>1 DEF TypeOK, Projected, view, Show
<1> HIDE DEF text, read
<1>6. e \in [Side -> EditState]
  BY <1>3, <1>4, KeepKeepsType
<1>7. \A r \in Side : /\ ~skip => e = read
                      /\ skip => ~e[r].raw
                      /\ e[r].editable = read[r].editable
                      /\ e[r].modified = read[r].modified
                      /\ e[r].encodingUnsafe = read[r].encodingUnsafe
                      /\ e[r].cleanText = read[r].cleanText
  BY <1>3, <1>4, KeepFacts
<1> HIDE DEF e
<1>8. /\ \A r \in Side : Current(r)' = IF e[r].raw THEN e[r].doc ELSE text[r]
      /\ EditableIsRaw'
      /\ (\A r \in Side : e[r].modified =>
            /\ e[r].raw /\ e[r].editable /\ ~binary /\ ~e[r].encodingUnsafe
            /\ ~Projected /\ e[r].doc # e[r].cleanText)
           => ModifiedIsEditedInPlace'
  BY <1>1, <1>3, <1>5, <1>6, FilledTexts
<1>9. \A r \in Side : e[r].raw => e[r].doc = text[r]
  <2> SUFFICES ASSUME NEW r \in Side, e[r].raw PROVE e[r].doc = text[r]
    OBVIOUS
  <2>1. e = read /\ r # s
    BY <1>4, <1>7
  <2>2. e[r] = ed[r] /\ r = Other(s)
    BY <1>2, <1>4, <2>1
  <2>3. QED
    BY <1>3, <2>2 DEF Current
<1>10. ModelIsCurrent'
  BY <1>5, <1>8, <1>9 DEF ModelIsCurrent
<1>11. ModifiedIsEditedInPlace'
  <2> SUFFICES ASSUME NEW r \in Side, e[r].modified
      PROVE  /\ e[r].raw /\ e[r].editable /\ ~binary /\ ~e[r].encodingUnsafe
             /\ ~Projected /\ e[r].doc # e[r].cleanText
    BY <1>8
  <2>1. r # s /\ ed[r].modified
    BY <1>4, <1>7
  <2>2. /\ ed[r].raw /\ IsEditable(r) /\ ~Projected /\ ed[r].doc # ed[r].cleanText
    BY <2>1 DEF TextInv, ModifiedIsEditedInPlace
  <2>3. e[r] = ed[r]
    BY <1>4, <1>7, <2>1, <2>2 DEF Projected
  <2>4. QED
    BY <2>2, <2>3 DEF IsEditable
<1>12. QED
  BY <1>1, <1>8, <1>10, <1>11, NoLiveWorker DEF TextInv

LEMMA SwapTextTexts ==
  ASSUME TypeOK, RequestInv, TextInv, SwapText, UNCHANGED view
  PROVE  TextInv'
<1> DEFINE text == [s \in Side |-> Current(Other(s))]
           e == KeepDocuments(SwappedState, text)
<1>1. /\ Supersede /\ Show(text) /\ UNCHANGED <<options, binary>>
      /\ ed' = UpdateEditability(e, text, Projected, binary)
  BY DEF SwapText, SupersedeAndStop
<1>2. \A s \in Side : Other(s) \in Side
  BY DEF Other, Side
<1>3. text \in [Side -> Text] /\ \A s \in Side : text[s] = Current(Other(s))
  BY <1>2, CurrentIsText
<1>4. /\ SwappedState \in [Side -> EditState]
      /\ \A s \in Side : SwappedState[s] = ed[Other(s)]
  BY <1>2 DEF TypeOK, SwappedState
<1>5. /\ Projected \in BOOLEAN /\ binary \in BOOLEAN /\ binary' = binary
      /\ comparison'.text = text /\ comparison'.options = options'
      /\ Projected' <=> Projected
  BY <1>1 DEF TypeOK, Projected, view, Show
<1> HIDE DEF text
<1>6. e \in [Side -> EditState]
  BY <1>3, <1>4, KeepKeepsType
<1>7. \A r \in Side : /\ ~skip => e = SwappedState
                      /\ skip => ~e[r].raw
                      /\ e[r].modified = SwappedState[r].modified
  BY <1>3, <1>4, KeepFacts
<1> HIDE DEF e
<1>8. /\ \A r \in Side : Current(r)' = IF e[r].raw THEN e[r].doc ELSE text[r]
      /\ EditableIsRaw'
      /\ (\A r \in Side : e[r].modified =>
            /\ e[r].raw /\ e[r].editable /\ ~binary /\ ~e[r].encodingUnsafe
            /\ ~Projected /\ e[r].doc # e[r].cleanText)
           => ModifiedIsEditedInPlace'
  BY <1>1, <1>3, <1>5, <1>6, FilledTexts
<1>9. \A r \in Side : e[r].raw => e[r].doc = text[r]
  BY <1>3, <1>4, <1>7 DEF Current
<1>10. ModelIsCurrent'
  BY <1>5, <1>8, <1>9 DEF ModelIsCurrent
<1>11. ModifiedIsEditedInPlace'
  <2> SUFFICES ASSUME NEW r \in Side, e[r].modified
      PROVE  /\ e[r].raw /\ e[r].editable /\ ~binary /\ ~e[r].encodingUnsafe
             /\ ~Projected /\ e[r].doc # e[r].cleanText
    BY <1>8
  <2>1. Other(r) \in Side /\ ed[Other(r)].modified
    BY <1>2, <1>4, <1>7
  <2>2. /\ ed[Other(r)].raw /\ IsEditable(Other(r)) /\ ~Projected
        /\ ed[Other(r)].doc # ed[Other(r)].cleanText
    BY <2>1 DEF TextInv, ModifiedIsEditedInPlace
  <2>3. e[r] = ed[Other(r)]
    BY <1>4, <1>7, <2>2 DEF Projected
  <2>4. QED
    BY <2>2, <2>3 DEF IsEditable
<1>12. QED
  BY <1>1, <1>8, <1>10, <1>11, NoLiveWorker DEF TextInv

\* A change of presentation: nothing is modified and no result is awaited.
LEMMA PresentationTexts ==
  ASSUME TypeOK, RequestInv, TextInv, NEW e \in [Side -> EditState],
         NEW projected \in BOOLEAN, ~Modified, ~pending,
         ed' = UpdateEditability(e, comparison.text, projected, binary),
         Projected' <=> projected,
         \A s \in Side : e[s].modified = ed[s].modified,
         model /\ ~binary => \A s \in Side : e[s].raw => e[s].doc = comparison.text[s],
         UNCHANGED <<shown, request>>
  PROVE  TextInv'
<1>1. /\ comparison.text \in [Side -> Text] /\ binary \in BOOLEAN
      /\ comparison'.text = comparison.text /\ binary' = binary
      /\ UNCHANGED <<comparison, model, options, workers, generation>>
      /\ ed' = UpdateEditability(e, comparison.text, projected, binary)
      /\ Projected' <=> projected
  BY DEF TypeOK, Comparison, shown, request
<1>2. /\ \A r \in Side : Current(r)' = IF e[r].raw THEN e[r].doc ELSE comparison.text[r]
      /\ EditableIsRaw'
      /\ (\A r \in Side : e[r].modified =>
            /\ e[r].raw /\ e[r].editable /\ ~binary /\ ~e[r].encodingUnsafe
            /\ ~projected /\ e[r].doc # e[r].cleanText)
           => ModifiedIsEditedInPlace'
  BY <1>1, FilledTexts
<1>3. ModelIsCurrent'
  BY <1>1, <1>2 DEF TextInv, ModelIsCurrent
<1>4. LiveWorkerReadsCurrent'
  BY <1>1 DEF RequestInv, PendingIsScheduled, LiveWorkerReadsCurrent
<1>5. ModifiedIsEditedInPlace'
  BY <1>2 DEF Modified
<1>6. QED
  BY <1>2, <1>3, <1>4, <1>5 DEF TextInv

LEMMA SetUnchangedLinesSkippedTexts ==
  ASSUME TypeOK, RequestInv, TextInv, SetUnchangedLinesSkipped
  PROVE  TextInv'
<1> DEFINE e == IF skip THEN Unproject(ed, comparison.text)
                        ELSE Project(ed, comparison.text)
           projected == ~skip \/ unified
<1>1. comparison.text \in [Side -> Text] /\ ed \in [Side -> EditState]
  BY DEF TypeOK, Comparison
<1>2. /\ e \in [Side -> EditState]
      /\ \A s \in Side : e[s].modified = ed[s].modified
      /\ model => \A s \in Side : e[s].doc = comparison.text[s]
  BY <1>1, ProjectType, UnprojectType
<1>3. projected \in BOOLEAN /\ (Projected' <=> projected)
  BY DEF SetUnchangedLinesSkipped, Projected
<1>4. /\ ed' = UpdateEditability(e, comparison.text, projected, binary)
      /\ ~Modified /\ ~pending /\ UNCHANGED <<shown, request>>
  BY DEF SetUnchangedLinesSkipped
<1> HIDE DEF e, projected
<1>5. QED
  BY <1>2, <1>3, <1>4, PresentationTexts

LEMMA SetViewModeTexts ==
  ASSUME TypeOK, RequestInv, TextInv, SetViewMode
  PROVE  TextInv'
<1> DEFINE e == KeepDocuments(ed, comparison.text)
           projected == skip \/ ~unified
<1>1. comparison.text \in [Side -> Text] /\ ed \in [Side -> EditState]
  BY DEF TypeOK, Comparison
<1>2. e \in [Side -> EditState]
  BY <1>1, KeepKeepsType
<1>3. \A s \in Side : e[s].modified = ed[s].modified
  BY <1>1, KeepFacts
<1>4. model /\ ~binary => \A s \in Side : e[s].raw => e[s].doc = comparison.text[s]
  <2>1. CASE skip
    BY <1>1, <2>1, KeepFacts
  <2>2. CASE ~skip
    BY <2>2 DEF KeepDocuments, TextInv, ModelIsCurrent, Current
  <2>3. QED
    BY <2>1, <2>2
<1>5. projected \in BOOLEAN /\ (Projected' <=> projected)
  BY DEF SetViewMode, Projected
<1>6. /\ ed' = UpdateEditability(e, comparison.text, projected, binary)
      /\ ~Modified /\ ~pending /\ UNCHANGED <<shown, request>>
  BY DEF SetViewMode
<1> HIDE DEF e, projected
<1>7. QED
  BY <1>2, <1>3, <1>4, <1>5, <1>6, PresentationTexts

LEMMA SaveRecordTexts ==
  ASSUME TypeOK, TextInv, SaveRecord
  PROVE  TextInv'
<1> DEFINE s == saving.side
           found == disk[ed[s].target]
           hash == IF found = Gone THEN NoHash ELSE found
           recorded == [ed[s] EXCEPT !.clean = saving.text, !.cleanText = Current(s),
                                     !.modified = FALSE, !.expected = hash]
           e == [ed EXCEPT ![s] = recorded]
<1>1. /\ ed' = UpdateEditability(e, comparison.text, Projected, binary)
      /\ UNCHANGED <<comparison, model, options, binary, skip, unified, workers, generation>>
  BY Zenon DEF SaveRecord, shown, view, request
<1>2. /\ s \in Side /\ saving.text \in Text /\ ed[s] \in EditState
      /\ Current(s) \in Text /\ hash \in {Gone, NoHash} \union Content
  BY SavingType, CurrentIsText DEF TypeOK, SaveRecord, EditState
<1>3. /\ recorded \in EditState /\ ~recorded.modified
      /\ recorded.raw = ed[s].raw /\ recorded.doc = ed[s].doc
      /\ recorded.editable = ed[s].editable
      /\ recorded.encodingUnsafe = ed[s].encodingUnsafe
  <2> HIDE DEF s, hash
  <2>1. QED
    BY <1>2 DEF EditState
<1> HIDE DEF recorded
<1>4. /\ e \in [Side -> EditState] /\ e[s] = recorded
      /\ \A r \in Side : r # s => e[r] = ed[r]
  BY <1>2, <1>3 DEF TypeOK
<1>5. /\ comparison.text \in [Side -> Text] /\ comparison'.text = comparison.text
      /\ Projected \in BOOLEAN /\ binary \in BOOLEAN /\ binary' = binary
      /\ Projected' <=> Projected
  BY <1>1 DEF TypeOK, Comparison, Projected
<1> HIDE DEF e, s
<1>6. /\ \A r \in Side : Current(r)' = IF e[r].raw THEN e[r].doc ELSE comparison.text[r]
      /\ EditableIsRaw'
      /\ (\A r \in Side : e[r].modified =>
            /\ e[r].raw /\ e[r].editable /\ ~binary /\ ~e[r].encodingUnsafe
            /\ ~Projected /\ e[r].doc # e[r].cleanText)
           => ModifiedIsEditedInPlace'
  BY <1>1, <1>4, <1>5, FilledTexts
<1>7. \A r \in Side : e[r].raw = ed[r].raw /\ e[r].doc = ed[r].doc
  BY <1>2, <1>3, <1>4
<1>8. \A r \in Side : Current(r)' = Current(r)
  BY <1>6, <1>7 DEF Current
<1>9. ModelIsCurrent' /\ LiveWorkerReadsCurrent'
  BY <1>1, <1>8 DEF TextInv, ModelIsCurrent, LiveWorkerReadsCurrent
<1>10. ModifiedIsEditedInPlace'
  <2> SUFFICES ASSUME NEW r \in Side, e[r].modified
      PROVE  /\ e[r].raw /\ e[r].editable /\ ~binary /\ ~e[r].encodingUnsafe
             /\ ~Projected /\ e[r].doc # e[r].cleanText
    BY <1>6
  <2>1. r # s /\ e[r] = ed[r]
    BY <1>3, <1>4
  <2>2. QED
    BY <2>1 DEF TextInv, ModifiedIsEditedInPlace, IsEditable
<1>11. QED
  BY <1>6, <1>9, <1>10 DEF TextInv

LEMMA NextKeepsTexts ==
  ASSUME TypeOK, RequestInv, TextInv, [Next]_vars
  PROVE  TextInv'
<1>1. ASSUME UNCHANGED <<ed, shown, view, request>> PROVE TextInv'
  BY <1>1, UnchangedTexts DEF shown, view, request
<1>2. ASSUME NEW path \in [Side -> File], LoadPaths(path), UNCHANGED view PROVE TextInv'
  <2>1. CASE LoadBytes(ed, path)
    BY <2>1, LoadBytesTexts
  <2>2. CASE ~LoadBytes(ed, path)
    BY <1>2, <2>2, LoadTextTexts DEF LoadPaths
  <2>3. QED
    BY <2>1, <2>2
<1>3. ASSUME NEW s \in Side, NEW t \in Text, Edit(s, t) PROVE TextInv'
  BY <1>3, DocumentEditedTexts DEF Edit
<1>4. ASSUME NEW b \in Line, NEW s \in Side, CopyChange(b, s) PROVE TextInv'
  <2> DEFINE target == Other(s)
             t == IF b \in Current(s) THEN Current(target) \union {b}
                                      ELSE Current(target) \ {b}
  <2>1. target \in Side
    BY DEF Other, Side
  <2>2. t \in Text
    BY <2>1, CurrentIsText DEF Text
  <2>3. IsEditable(target) /\ ~Projected /\ DocumentEdited(target, t)
    BY <1>4 DEF CopyChange
  <2> HIDE DEF target, t
  <2>4. QED
    BY <2>1, <2>2, <2>3, DocumentEditedTexts
<1>5. ASSUME NEW o \in Options, SetDiffOptions(o) PROVE TextInv'
  BY <1>5, SetDiffOptionsTexts
<1>6. ASSUME NEW s \in Side, NEW on \in BOOLEAN, SetEditable(s, on) PROVE TextInv'
  BY <1>6, SetEditableTexts
<1>7. CASE TimerFires
  BY <1>7, TimerTexts
<1>8. ASSUME NEW w \in workers, WorkerFinishes(w) PROVE TextInv'
  BY <1>8, WorkerTexts
<1>9. CASE CancelByteComparison
  BY <1>9, CancelTexts
<1>10. CASE LoadFromPaths
  BY <1>2, <1>10, TargetsType DEF LoadFromPaths
<1>11. ASSUME NEW s \in Side, ReloadSide(s) PROVE TextInv'
  <2> DEFINE content == disk[ed[s].target]
  <2>1. UNCHANGED view /\ content \in Content
    BY <1>11 DEF ReloadSide, TypeOK, EditState
  <2>2. CASE LoadPaths(Targets)
    BY <1>2, <2>1, <2>2, TargetsType
  <2>3. CASE content \notin Blobs /\ ReloadText(s, content)
    BY <2>1, <2>3, ReloadTextTexts
  <2>4. CASE LoadBytes(ed, Targets)
    BY <2>4, LoadBytesTexts
  <2>5. QED
    BY <1>11, <2>2, <2>3, <2>4 DEF ReloadSide
<1>12. CASE SwapSides
  BY <1>12, LoadBytesTexts, SwapTextTexts DEF SwapSides, SwapBytes
<1>13. CASE DiscardChanges
  BY <1>13, DiscardTexts
<1>14. CASE SetUnchangedLinesSkipped
  BY <1>14, SetUnchangedLinesSkippedTexts
<1>15. CASE SetViewMode
  BY <1>15, SetViewModeTexts
<1>16. CASE SaveRecord
  BY <1>16, SaveRecordTexts
<1>17. CASE SaveAnswered \/ SaveCommit
  BY <1>1, <1>17 DEF SaveAnswered, SaveCommit
<1>18. ASSUME NEW s \in Side, NEW over \in BOOLEAN, SaveBegin(s, over) PROVE TextInv'
  BY <1>1, <1>18 DEF SaveBegin
<1>19. ASSUME NEW f \in File, NEW c \in Content \union {Gone}, ExternalWrite(f, c)
       PROVE  TextInv'
  BY <1>1, <1>19 DEF ExternalWrite
<1>20. CASE UNCHANGED vars
  BY <1>1, <1>20 DEF vars
<1>21. QED
  BY <1>3, <1>4, <1>5, <1>6, <1>7, <1>8, <1>9, <1>10, <1>11, <1>12, <1>13, <1>14,
     <1>15, <1>16, <1>17, <1>18, <1>19, <1>20 DEF Next

-----------------------------------------------------------------------------
LEMMA InitInv == Init => Inv
<1> SUFFICES ASSUME Init PROVE Inv
  OBVIOUS
<1>1. TypeOK
  BY InitType
<1>2. RequestInv
  BY DEF Init, RequestInv, PendingIsScheduled, SupersededIsCancelled, RequestsInOrder
<1>3. \A s \in Side : ~ed[s].modified /\ (ed[s].raw <=> ed[s].editable)
  BY DEF Init
<1>4. ModifiedIsEditedInPlace /\ EditableIsRaw
  BY <1>3 DEF ModifiedIsEditedInPlace, EditableIsRaw, IsEditable
<1>5. ModelIsCurrent /\ LiveWorkerReadsCurrent
  BY DEF Init, ModelIsCurrent, LiveWorkerReadsCurrent, Current
<1>6. QED
  BY <1>1, <1>2, <1>4, <1>5 DEF Inv, RequestInv

LEMMA NextInv == Inv /\ [Next]_vars => Inv'
<1> SUFFICES ASSUME Inv, [Next]_vars PROVE Inv'
  OBVIOUS
<1>1. TypeOK /\ RequestInv /\ TextInv
  BY DEF Inv, RequestInv, TextInv
<1>2. TypeOK'
  BY <1>1, NextType
<1>3. RequestInv'
  BY <1>1, NextKeepsRequests
<1>4. TextInv'
  BY <1>1, NextKeepsTexts
<1>5. QED
  BY <1>2, <1>3, <1>4 DEF Inv, RequestInv, TextInv

\* The requests stay in order, and what the view shows agrees with what it compared.
THEOREM InvHolds == Spec => []Inv
BY InitInv, NextInv, PTL DEF Spec

\* isRecomputing() is true exactly while a result is on its way.
THEOREM RecomputingIsScheduled == Spec => []PendingIsScheduled
<1>1. Inv => PendingIsScheduled
  BY DEF Inv
<1>2. QED
  BY <1>1, InvHolds, PTL

\* Every computation nobody waits for has been told to stop.
THEOREM ObsoleteWorkIsCancelled == Spec => []SupersededIsCancelled
<1>1. Inv => SupersededIsCancelled
  BY DEF Inv
<1>2. QED
  BY <1>1, InvHolds, PTL

\* The change blocks on offer compare what the sides show under the options chosen.
THEOREM BlocksAreCurrent == Spec => []ModelIsCurrent
<1>1. Inv => ModelIsCurrent
  BY DEF Inv
<1>2. QED
  BY <1>1, InvHolds, PTL

\* Unsaved text is never behind a projection, a lock or a byte comparison.
THEOREM UnsavedTextIsVisible == Spec => []ModifiedIsEditedInPlace
<1>1. Inv => ModifiedIsEditedInPlace
  BY DEF Inv
<1>2. QED
  BY <1>1, InvHolds, PTL

-----------------------------------------------------------------------------
(* The fingerprints that guard a save, the read-only mark of text that was *)
(* not decoded exactly, and the clean text of a side without the modified  *)
(* mark.                                                                   *)

\* The fingerprint of a side is of the bytes its clean text came from, unless a save
\* replaced characters, and lossy text is marked.
SideIsKnown(e) ==
  /\ e.expected \notin {Gone, NoHash} /\ ~AsksEncoding => Decoded(e.expected) = e.clean
  /\ e.expected \in Broken => e.encodingUnsafe
SidesAreKnown == \A s \in Side : SideIsKnown(ed[s])

\* Between the rename and the second fingerprint the file holds what was written, which
\* is the text saved unless a question may replace characters.
Recording == saving # None /\ saving.phase = "record"
RecordFindsSaved ==
  /\ Recording => disk[ed[saving.side].target] = saving.bytes
  /\ saving # None /\ ~AsksEncoding => saving.phase # "ask" /\ saving.bytes = saving.text

FileInv == SidesAreKnown /\ RecordFindsSaved

-----------------------------------------------------------------------------
(* A step leaves what is known of a side, takes it from a side, reads it   *)
(* from bytes, or forgets it.                                              *)

KeepsKnown(new, old) ==
  new.expected = old.expected /\ new.clean = old.clean /\ new.encodingUnsafe = old.encodingUnsafe
ReadFrom(new, c) ==
  /\ new.expected = c /\ (~AsksEncoding => new.clean = Decoded(c))
  /\ c \in Broken => new.encodingUnsafe
SideFollows(e, s) ==
  \/ \E t \in Side : KeepsKnown(e[s], ed[t])
  \/ \E c \in Content : ReadFrom(e[s], c)
  \/ e[s].expected = NoHash

LEMMA FollowingIsKnown ==
  ASSUME SidesAreKnown, \A s \in Side : SideFollows(ed', s)
  PROVE  SidesAreKnown'
<1> SUFFICES ASSUME NEW s \in Side PROVE SideIsKnown(ed'[s])
  BY DEF SidesAreKnown, SideIsKnown, Decoded
<1>1. CASE \E t \in Side : KeepsKnown(ed'[s], ed[t])
  BY <1>1 DEF SidesAreKnown, SideIsKnown, KeepsKnown
<1>2. CASE \E c \in Content : ReadFrom(ed'[s], c)
  BY <1>2 DEF ReadFrom, SideIsKnown
<1>3. CASE ed'[s].expected = NoHash
  BY <1>3, ConstantsAssumption DEF SideIsKnown
<1> QED BY <1>1, <1>2, <1>3 DEF SideFollows

\* updateEditability and the projections touch documents only.
LEMMA UpdateKeepsKnown ==
  ASSUME NEW e \in [Side -> EditState], NEW text, NEW projected, NEW isBinary, NEW s \in Side
  PROVE  KeepsKnown(UpdateEditability(e, text, projected, isBinary)[s], e[s])
<1>1. e[s] \in EditState
  OBVIOUS
<1> QED BY <1>1 DEF KeepsKnown, UpdateEditability, EditState

LEMMA ProjectKeepsKnown ==
  ASSUME NEW e \in [Side -> EditState], NEW text, NEW s \in Side
  PROVE  /\ KeepsKnown(Project(e, text)[s], e[s])
         /\ KeepsKnown(Unproject(e, text)[s], e[s])
         /\ KeepsKnown(KeepDocuments(e, text)[s], e[s])
<1>1. e[s] \in EditState
  OBVIOUS
<1>2. KeepsKnown(Project(e, text)[s], e[s]) /\ KeepsKnown(Unproject(e, text)[s], e[s])
  BY <1>1 DEF KeepsKnown, Project, Unproject, EditState
<1> QED BY <1>2 DEF KeepDocuments, KeepsKnown

\* The end of the handlers that show texts anew.
LEMMA ShowingFollows ==
  ASSUME NEW e \in [Side -> EditState], NEW text \in [Side -> Text],
         NEW projected, NEW isBinary, NEW s \in Side, SideFollows(e, s)
  PROVE  SideFollows(UpdateEditability(KeepDocuments(e, text), text, projected, isBinary), s)
<1> DEFINE kept == KeepDocuments(e, text)
           new == UpdateEditability(kept, text, projected, isBinary)
<1>1. kept \in [Side -> EditState]
  BY KeepKeepsType
<1>2. KeepsKnown(new[s], kept[s]) /\ KeepsKnown(kept[s], e[s])
  BY <1>1, UpdateKeepsKnown, ProjectKeepsKnown
<1> HIDE DEF kept, new
<1>3. KeepsKnown(new[s], e[s])
  BY <1>2 DEF KeepsKnown
<1>4. SideFollows(new, s)
  BY <1>3 DEF SideFollows, KeepsKnown, ReadFrom
<1> QED BY <1>4 DEF new, kept

LEMMA OwnSideFollows ==
  ASSUME NEW e, NEW s \in Side, KeepsKnown(e[s], ed[s])
  PROVE  SideFollows(e, s)
BY DEF SideFollows

-----------------------------------------------------------------------------
LEMMA LoadPathsFollow ==
  ASSUME TypeOK, NEW path \in [Side -> File], LoadPaths(path), NEW s \in Side
  PROVE  SideFollows(ed', s)
<1>1. CASE LoadBytes(ed, path)
  <2>1. ed'[s].expected = NoHash
    BY <1>1 DEF LoadBytes, FreshSide
  <2> QED BY <2>1 DEF SideFollows
<1>2. CASE LoadText(path)
  <2>1. disk[path[s]] \in Content
    BY DEF TypeOK, LoadPaths
  <2>2. ReadFrom(ed'[s], disk[path[s]])
    BY <1>2 DEF LoadText, FreshSide, ReadFrom
  <2> QED BY <2>1, <2>2 DEF SideFollows
<1> QED BY <1>1, <1>2 DEF LoadPaths

LEMMA ReloadTextFollows ==
  ASSUME TypeOK, NEW r \in Side, NEW content \in Content, content \notin Blobs,
         ReloadText(r, content), NEW s \in Side
  PROVE  SideFollows(ed', s)
<1> DEFINE text == [comparison.text EXCEPT ![r] = Decoded(content),
                                           ![Other(r)] = Current(Other(r))]
           read == [ed EXCEPT ![r] = ReadSide(ed[r], content)]
<1>1. ed' = UpdateEditability(KeepDocuments(read, text), text, Projected, binary)
  BY DEF ReloadText
<1>2. text \in [Side -> Text]
  <2>1. Decoded(content) \in Text /\ Current(Other(r)) \in Text
    BY DecodedIsText, CurrentIsText DEF Other, Side
  <2> QED BY <2>1 DEF TypeOK, Comparison
<1>3. read \in [Side -> EditState]
  BY ReadSideType DEF TypeOK
<1>4. ReadFrom(ReadSide(ed[r], content), content)
  <2>1. ed[r] \in EditState
    BY DEF TypeOK
  <2> QED BY <2>1 DEF ReadFrom, ReadSide, EditState
<1>5. SideFollows(read, s)
  BY <1>4 DEF SideFollows, KeepsKnown, TypeOK
<1> HIDE DEF text, read
<1> QED BY <1>1, <1>2, <1>3, <1>5, ShowingFollows

LEMMA SwapFollows ==
  ASSUME TypeOK, SwapText, NEW s \in Side
  PROVE  SideFollows(ed', s)
<1> DEFINE text == [r \in Side |-> Current(Other(r))]
<1>1. ed' = UpdateEditability(KeepDocuments(SwappedState, text), text, Projected, binary)
  BY DEF SwapText
<1>2. \A r \in Side : Other(r) \in Side
  BY DEF Other, Side
<1>3. text \in [Side -> Text]
  BY <1>2, CurrentIsText
<1>4. SwappedState \in [Side -> EditState] /\ SwappedState[s] = ed[Other(s)]
  BY <1>2 DEF TypeOK, SwappedState
<1>5. SideFollows(SwappedState, s)
  BY <1>2, <1>4 DEF SideFollows, KeepsKnown
<1> HIDE DEF text
<1> QED BY <1>1, <1>3, <1>4, <1>5, ShowingFollows

LEMMA SaveRecordFollows ==
  ASSUME TypeOK, RecordFindsSaved, SaveRecord, NEW s \in Side
  PROVE  SideFollows(ed', s)
<1> DEFINE r == saving.side
           found == disk[ed[r].target]
           recorded == [ed[r] EXCEPT !.clean = saving.text, !.cleanText = Current(r),
                          !.modified = FALSE, !.expected = IF found = Gone THEN NoHash ELSE found]
           e == [ed EXCEPT ![r] = recorded]
<1>1. ed' = UpdateEditability(e, comparison.text, Projected, binary)
  BY Zenon DEF SaveRecord
<1>2. /\ r \in Side /\ saving.text \in Text /\ ed[r] \in EditState /\ Current(r) \in Text
      /\ found = saving.bytes /\ saving.bytes \in Text
      /\ ~AsksEncoding => saving.bytes = saving.text
  BY SavingType, CurrentIsText DEF TypeOK, SaveRecord, EditState, RecordFindsSaved, Recording, Idle
<1>3. saving.bytes \notin Broken /\ saving.bytes # Gone /\ saving.bytes \in Content
  BY <1>2, ConstantsAssumption DEF Content
<1> HIDE DEF r, found
<1>4. recorded \in EditState /\ ReadFrom(recorded, saving.bytes)
  BY <1>2, <1>3 DEF EditState, ReadFrom, Decoded
<1> HIDE DEF recorded
<1>5. e \in [Side -> EditState] /\ (s = r => e[s] = recorded) /\ (s # r => e[s] = ed[s])
  BY <1>2, <1>4 DEF TypeOK
<1> HIDE DEF e
<1>6. KeepsKnown(ed'[s], e[s])
  BY <1>1, <1>5, UpdateKeepsKnown
<1>7. CASE s = r
  BY <1>3, <1>4, <1>5, <1>6, <1>7 DEF SideFollows, ReadFrom, KeepsKnown
<1>8. CASE s # r
  BY <1>5, <1>6, <1>8, OwnSideFollows
<1> QED BY <1>7, <1>8

\* What no action below touches.
LEMMA UnchangedFollows ==
  ASSUME ed' = ed, NEW s \in Side
  PROVE  SideFollows(ed', s)
BY DEF SideFollows, KeepsKnown

LEMMA NextFollows ==
  ASSUME TypeOK, RecordFindsSaved, [Next]_vars, NEW s \in Side
  PROVE  SideFollows(ed', s)
<1>1. ASSUME NEW r \in Side, NEW t \in Text, DocumentEdited(r, t) PROVE SideFollows(ed', s)
  <2>1. ed[s] \in EditState /\ ed[r] \in EditState
    BY DEF TypeOK
  <2>2. ed' = [ed EXCEPT ![r] = [ed[r] EXCEPT !.doc = t, !.modified = t # ed[r].cleanText]]
    BY <1>1 DEF DocumentEdited
  <2>3. KeepsKnown(ed'[s], ed[s])
    BY <2>1, <2>2 DEF KeepsKnown, EditState, TypeOK
  <2> QED BY <2>3, OwnSideFollows
<1>2. ASSUME NEW r \in Side, NEW t \in Text, Edit(r, t) PROVE SideFollows(ed', s)
  BY <1>1, <1>2 DEF Edit
<1>3. ASSUME NEW b \in Line, NEW r \in Side, CopyChange(b, r) PROVE SideFollows(ed', s)
  <2> DEFINE target == Other(r)
             t == IF b \in Current(r) THEN Current(target) \union {b}
                                      ELSE Current(target) \ {b}
  <2>1. target \in Side /\ t \in Text
    BY CurrentIsText DEF Other, Side, Text
  <2>2. DocumentEdited(target, t)
    BY <1>3 DEF CopyChange
  <2> HIDE DEF target, t
  <2> QED BY <1>1, <2>1, <2>2
<1>4. ASSUME NEW o \in Options, SetDiffOptions(o) PROVE SideFollows(ed', s)
  BY <1>4, UnchangedFollows DEF SetDiffOptions
<1>5. ASSUME NEW r \in Side, NEW on \in BOOLEAN, SetEditable(r, on) PROVE SideFollows(ed', s)
  <2> DEFINE e == [ed EXCEPT ![r].editable = on]
  <2>1. ed' = UpdateEditability(e, comparison.text, Projected, binary)
    BY <1>5 DEF SetEditable
  <2>2. ed[r] \in EditState /\ ed[s] \in EditState
    BY DEF TypeOK
  <2>3. e \in [Side -> EditState] /\ KeepsKnown(e[s], ed[s])
    <3>1. [ed[r] EXCEPT !.editable = on] \in EditState
      BY <2>2 DEF EditState
    <3> QED BY <2>2, <3>1 DEF KeepsKnown, TypeOK, EditState
  <2> HIDE DEF e
  <2>4. KeepsKnown(ed'[s], e[s])
    BY <2>1, <2>3, UpdateKeepsKnown
  <2> QED BY <2>3, <2>4, OwnSideFollows DEF KeepsKnown
<1>6. CASE TimerFires \/ CancelByteComparison
  BY <1>6, UnchangedFollows DEF TimerFires, CancelByteComparison
<1>7. ASSUME NEW w \in workers, WorkerFinishes(w) PROVE SideFollows(ed', s)
  <2>1. CASE ed' = ed
    BY <2>1, UnchangedFollows
  <2>2. CASE ed' = KeepDocuments(ed, w.text)
    BY <2>2, ProjectKeepsKnown, OwnSideFollows DEF TypeOK
  <2> QED BY <1>7, <2>1, <2>2 DEF WorkerFinishes, DropResult, InstallResult, ReportFailure, ByteResult
<1>8. CASE LoadFromPaths
  BY <1>8, LoadPathsFollow, TargetsType DEF LoadFromPaths
<1>9. ASSUME NEW r \in Side, ReloadSide(r) PROVE SideFollows(ed', s)
  <2> DEFINE content == disk[ed[r].target]
  <2>1. content \in Content
    BY <1>9 DEF ReloadSide, TypeOK, EditState
  <2>2. CASE LoadPaths(Targets)
    BY <2>2, LoadPathsFollow, TargetsType
  <2>3. CASE content \notin Blobs /\ ReloadText(r, content)
    BY <2>1, <2>3, ReloadTextFollows
  <2>4. CASE LoadBytes(ed, Targets)
    BY <2>4 DEF LoadBytes, FreshSide, SideFollows
  <2> QED BY <1>9, <2>2, <2>3, <2>4 DEF ReloadSide
<1>10. CASE SwapSides
  <2>1. CASE SwapText
    BY <2>1, SwapFollows
  <2>2. CASE SwapBytes
    BY <2>2 DEF SwapBytes, LoadBytes, FreshSide, SideFollows
  <2> QED BY <1>10, <2>1, <2>2 DEF SwapSides
<1>11. CASE DiscardChanges
  <2>1. KeepsKnown(ed'[s], ed[s])
    BY <1>11 DEF DiscardChanges, CleanSide, FreshSide, KeepsKnown
  <2> QED BY <2>1, OwnSideFollows
<1>12. ASSUME NEW e \in [Side -> EditState], NEW projected,
              KeepsKnown(e[s], ed[s]),
              ed' = UpdateEditability(e, comparison.text, projected, binary)
       PROVE  SideFollows(ed', s)
  BY <1>12, UpdateKeepsKnown, OwnSideFollows DEF KeepsKnown
<1>13. comparison.text \in [Side -> Text] /\ ed \in [Side -> EditState]
  BY DEF TypeOK, Comparison
<1>14. CASE SetUnchangedLinesSkipped
  <2> DEFINE e == IF skip THEN Unproject(ed, comparison.text) ELSE Project(ed, comparison.text)
  <2>1. e \in [Side -> EditState] /\ KeepsKnown(e[s], ed[s])
    BY <1>13, ProjectType, UnprojectType, ProjectKeepsKnown
  <2>2. ed' = UpdateEditability(e, comparison.text, ~skip \/ unified, binary)
    BY <1>14 DEF SetUnchangedLinesSkipped
  <2> HIDE DEF e
  <2> QED BY <1>12, <2>1, <2>2
<1>15. CASE SetViewMode
  <2> DEFINE e == KeepDocuments(ed, comparison.text)
  <2>1. e \in [Side -> EditState] /\ KeepsKnown(e[s], ed[s])
    BY <1>13, KeepKeepsType, ProjectKeepsKnown
  <2>2. ed' = UpdateEditability(e, comparison.text, skip \/ ~unified, binary)
    BY <1>15 DEF SetViewMode
  <2> HIDE DEF e
  <2> QED BY <1>12, <2>1, <2>2
<1>16. CASE SaveRecord
  BY <1>16, SaveRecordFollows
<1>17. CASE SaveAnswered \/ SaveCommit
  BY <1>17, UnchangedFollows DEF SaveAnswered, SaveCommit
<1>18. ASSUME NEW r \in Side, NEW over \in BOOLEAN, SaveBegin(r, over) PROVE SideFollows(ed', s)
  BY <1>18, UnchangedFollows DEF SaveBegin
<1>19. ASSUME NEW f \in File, NEW c \in Content \union {Gone}, ExternalWrite(f, c)
       PROVE  SideFollows(ed', s)
  BY <1>19, UnchangedFollows DEF ExternalWrite
<1>20. CASE UNCHANGED vars
  BY <1>20, UnchangedFollows DEF vars
<1> QED BY <1>2, <1>3, <1>4, <1>5, <1>6, <1>7, <1>8, <1>9, <1>10, <1>11, <1>14, <1>15, <1>16,
           <1>17, <1>18, <1>19, <1>20 DEF Next

-----------------------------------------------------------------------------
(* The save.                                                               *)

\* While the file is fingerprinted nothing else runs in the window.
LEMMA OnlyRecordsWhileRecording ==
  ASSUME Recording, [Next]_vars
  PROVE  \/ SaveRecord
         \/ \E f \in File, c \in Content \union {Gone} : ExternalWrite(f, c)
         \/ UNCHANGED vars
<1>1. ~Idle /\ ~EventLoopRuns /\ saving.phase = "record"
  BY DEF Recording, Idle, EventLoopRuns
<1> QED
  BY <1>1 DEF Next, Edit, CopyChange, SetDiffOptions, SetEditable, TimerFires, WorkerFinishes,
     CancelByteComparison, LoadFromPaths, ReloadSide, SwapSides, DiscardChanges,
     SetUnchangedLinesSkipped, SetViewMode, SaveBegin, SaveAnswered, SaveCommit

\* Only the rename begins the recording.
LEMMA OnlyCommitsStartRecording ==
  ASSUME TypeOK, [Next]_vars, ~Recording, Recording'
  PROVE  SaveCommit /\ saving' = [saving EXCEPT !.phase = "record"]
<1>1. saving' # saving
  BY DEF Recording
<1>2. ASSUME NEW s \in Side, NEW over \in BOOLEAN, SaveBegin(s, over) PROVE FALSE
  BY <1>2 DEF SaveBegin, Recording
<1>3. CASE SaveAnswered
  <2>1. /\ saving \in Saving
        /\ \E written \in Text : saving' = [saving EXCEPT !.phase = "write", !.bytes = written]
    BY <1>3 DEF SaveAnswered, Recording, TypeOK, Idle
  <2> QED BY <2>1 DEF Recording, Saving
<1>4. CASE SaveRecord
  BY <1>4 DEF SaveRecord, Recording
<1>5. CASE SaveCommit
  BY <1>5 DEF SaveCommit, Recording
<1> QED
  BY <1>1, <1>2, <1>3, <1>4, <1>5 DEF Next, Edit, CopyChange, DocumentEdited, SetDiffOptions,
     SetEditable, TimerFires, WorkerFinishes, CancelByteComparison, LoadFromPaths, ReloadSide,
     SwapSides, DiscardChanges, SetUnchangedLinesSkipped, SetViewMode, ExternalWrite, vars

\* Without a question the bytes written are the text saved.
LEMMA NextWritesText ==
  ASSUME TypeOK, RecordFindsSaved, [Next]_vars, saving' # None, ~AsksEncoding
  PROVE  saving'.phase # "ask" /\ saving'.bytes = saving'.text
<1>1. CASE saving' = saving
  BY <1>1 DEF RecordFindsSaved
<1>2. ASSUME NEW s \in Side, NEW over \in BOOLEAN, SaveBegin(s, over)
      PROVE  saving'.phase # "ask" /\ saving'.bytes = saving'.text
  BY <1>2 DEF SaveBegin
<1>3. CASE SaveAnswered
  BY <1>3 DEF SaveAnswered, Idle, RecordFindsSaved
<1>4. CASE SaveRecord
  BY <1>4 DEF SaveRecord
<1>5. CASE SaveCommit
  <2>1. saving \in Saving /\ saving # None /\ saving' = [saving EXCEPT !.phase = "record"]
    BY <1>5 DEF SaveCommit, TypeOK, Idle
  <2> QED BY <2>1 DEF RecordFindsSaved, Saving
<1> QED
  BY <1>1, <1>2, <1>3, <1>4, <1>5 DEF Next, Edit, CopyChange, DocumentEdited, SetDiffOptions,
     SetEditable, TimerFires, WorkerFinishes, CancelByteComparison, LoadFromPaths, ReloadSide,
     SwapSides, DiscardChanges, SetUnchangedLinesSkipped, SetViewMode, ExternalWrite, vars

LEMMA NextKeepsRecording ==
  ASSUME TypeOK, ~WriterRaces, RecordFindsSaved, [Next]_vars
  PROVE  RecordFindsSaved'
<1>0. saving' # None /\ ~AsksEncoding => saving'.phase # "ask" /\ saving'.bytes = saving'.text
  BY NextWritesText
<1> SUFFICES ASSUME Recording'
    PROVE  disk'[ed'[saving'.side].target] = saving'.bytes
  BY <1>0 DEF RecordFindsSaved
<1>1. CASE Recording
  <2>1. CASE SaveRecord
    BY <2>1 DEF SaveRecord, Recording
  <2>2. ASSUME NEW f \in File, NEW c \in Content \union {Gone}, ExternalWrite(f, c) PROVE FALSE
    BY <1>1, <2>2 DEF ExternalWrite, Recording, Idle
  <2>3. CASE UNCHANGED vars
    BY <1>1, <2>3 DEF vars, files, RecordFindsSaved
  <2> QED BY <1>1, <2>1, <2>2, <2>3, OnlyRecordsWhileRecording
<1>2. CASE ~Recording
  <2>1. SaveCommit /\ saving' = [saving EXCEPT !.phase = "record"]
    BY <1>2, OnlyCommitsStartRecording
  <2>2. /\ saving \in Saving /\ ed' = ed /\ saving'.side = saving.side /\ saving'.bytes = saving.bytes
    BY <2>1 DEF SaveCommit, TypeOK, Idle, Saving
  <2>3. disk' = [disk EXCEPT ![ed[saving.side].target] = saving.bytes]
    BY <2>1, <2>2 DEF SaveCommit, Recording
  <2>4. ed[saving.side].target \in DOMAIN disk
    BY <2>2 DEF TypeOK, Saving, EditState
  <2> QED BY <2>2, <2>3, <2>4
<1> QED BY <1>1, <1>2

-----------------------------------------------------------------------------
LEMMA InitFileInv == Init => FileInv
<1> SUFFICES ASSUME Init PROVE FileInv
  OBVIOUS
<1>1. SidesAreKnown
  <2> SUFFICES ASSUME NEW s \in Side PROVE SideIsKnown(ed[s])
    BY DEF SidesAreKnown
  <2> DEFINE f == IF s = "Left" THEN "f1" ELSE "f2"
  <2>1. /\ ed[s].expected = disk[f] /\ ed[s].clean = Decoded(disk[f])
        /\ ed[s].encodingUnsafe = (disk[f] \in Broken)
    BY DEF Init
  <2> QED BY <2>1 DEF SideIsKnown
<1>2. RecordFindsSaved
  BY DEF Init, RecordFindsSaved, Recording
<1> QED BY <1>1, <1>2 DEF FileInv

LEMMA NextFileInv ==
  ASSUME TypeOK, ~WriterRaces, FileInv, [Next]_vars
  PROVE  FileInv'
BY NextFollows, FollowingIsKnown, NextKeepsRecording DEF FileInv

\* What is known of the files stays true, if nobody writes between the rename of a save
\* and its second fingerprint.
THEOREM FilesAreKnown ==
  ASSUME ~WriterRaces
  PROVE  Spec => []FileInv
<1>1. Init => FileInv
  BY InitFileInv
<1>2. TypeOK /\ FileInv /\ [Next]_vars => FileInv'
  BY NextFileInv
<1> QED BY <1>1, <1>2, TypeCorrect, PTL DEF Spec

\* The fingerprint a save compares the file with is of the bytes the clean text came
\* from, however often sides were swapped, reloaded, saved and discarded, if no save
\* replaces characters that the encoding of the file cannot store.
THEOREM FingerprintsAreOfCleanText ==
  ASSUME ~WriterRaces, ~AsksEncoding
  PROVE  Spec => []FingerprintIsOfClean
<1>1. FileInv => FingerprintIsOfClean
  BY DEF FileInv, SidesAreKnown, SideIsKnown, FingerprintIsOfClean
<1> QED BY <1>1, FilesAreKnown, PTL

\* Text that was not decoded exactly cannot be edited, on whichever side it ends up.
THEOREM LossyTextStaysReadOnly ==
  ASSUME ~WriterRaces
  PROVE  Spec => []LossyTextIsReadOnly
<1>1. FileInv => LossyTextIsReadOnly
  BY DEF FileInv, SidesAreKnown, SideIsKnown, LossyTextIsReadOnly, IsEditable
<1> QED BY <1>1, FilesAreKnown, PTL

-----------------------------------------------------------------------------
(* The work in progress.  Bytes are compared by the live worker of a byte  *)
(* comparison and by nothing else; without one, blocks that are withdrawn  *)
(* are on their way, as the live worker is never told to stop.             *)

WorkInv ==
  /\ timer => ~binary
  /\ byteStatus = "Comparing" => binary
  /\ \A w \in workers : w.gen = generation => (w.bytes <=> binary) /\ (w.bytes \/ ~w.cancelled)
  /\ ~binary /\ ~model => pending

\* The ends of the handlers that supersede.
LEMMA SupersededIsNotLive ==
  ASSUME TypeOK, RequestInv, workers' = Cancelled(workers), generation' = generation + 1
  PROVE  \A w \in workers' : w.gen # generation'
<1>1. \A w \in workers' : w.gen < generation'
  BY SupersedeFacts
<1>2. \A w \in workers' : w.gen \in Nat
  BY CancelledType DEF Worker, TypeOK
<1> QED BY <1>1, <1>2 DEF TypeOK

LEMMA StopKeepsWork ==
  ASSUME TypeOK, RequestInv, WorkInv, SupersedeAndStop, model' = TRUE,
         byteStatus' = "Comparing" => binary'
  PROVE  WorkInv'
BY SupersededIsNotLive DEF SupersedeAndStop, Supersede, WorkInv

LEMMA RestartKeepsWork ==
  ASSUME TypeOK, RequestInv, WorkInv, ~binary, SupersedeAndRestart, UNCHANGED <<binary, byteStatus>>
  PROVE  WorkInv'
BY SupersededIsNotLive DEF SupersedeAndRestart, Supersede, WorkInv

LEMMA LoadBytesKeepsWork ==
  ASSUME TypeOK, RequestInv, NEW e, NEW path, LoadBytes(e, path)
  PROVE  WorkInv'
<1> DEFINE n == [gen |-> generation + 1, bytes |-> TRUE, cancelled |-> FALSE,
                 options |-> options, text |-> [s \in Side |-> {}]]
<1>1. /\ workers' = Cancelled(workers) \union {n} /\ generation' = generation + 1
      /\ timer' = FALSE /\ binary' = TRUE
  BY DEF LoadBytes
<1>2. \A w \in Cancelled(workers) : w.gen # generation + 1
  <2>1. \A w \in workers : w.gen \in Nat /\ w.gen <= generation /\ generation \in Nat
    BY DEF TypeOK, Worker, RequestInv, RequestsInOrder
  <2>2. \A w \in workers : w.gen # generation + 1
    BY <2>1
  <2> QED BY <2>2, CancelledGenerations
<1>3. n.bytes
  OBVIOUS
<1> HIDE DEF n
<1> QED BY <1>1, <1>2, <1>3 DEF WorkInv

LEMMA WorkerKeepsWork ==
  ASSUME TypeOK, ~MayExceedLimits, WorkInv, NEW w \in workers, WorkerFinishes(w)
  PROVE  WorkInv'
<1>1. workers' \subseteq workers /\ UNCHANGED <<timer, generation>>
  BY DEF WorkerFinishes
<1>2. CASE DropResult(w)
  BY <1>1, <1>2 DEF DropResult, WorkInv, shown
<1>3. CASE InstallResult(w)
  BY <1>1, <1>3 DEF InstallResult, WorkInv
<1>4. CASE ReportFailure(w)
  BY <1>4 DEF ReportFailure, WorkInv
<1>5. CASE ByteResult(w)
  <2>1. binary /\ UNCHANGED binary
    BY <1>5 DEF ByteResult, WorkInv
  <2> QED BY <1>1, <2>1 DEF WorkInv
<1> QED BY <1>2, <1>3, <1>4, <1>5 DEF WorkerFinishes

LEMMA NextKeepsWork ==
  ASSUME TypeOK, ~MayExceedLimits, RequestInv, WorkInv, [Next]_vars
  PROVE  WorkInv'
<1>1. ASSUME UNCHANGED <<shown, request>> PROVE WorkInv'
  BY <1>1 DEF WorkInv, shown, request
<1>2. ASSUME NEW path, LoadPaths(path) PROVE WorkInv'
  <2>1. CASE LoadText(path)
    BY <2>1, StopKeepsWork DEF LoadText, Show
  <2> QED BY <1>2, <2>1, LoadBytesKeepsWork DEF LoadPaths
<1>3. ASSUME NEW s \in Side, NEW t \in Text, IsEditable(s), DocumentEdited(s, t) PROVE WorkInv'
  BY <1>3, RestartKeepsWork DEF DocumentEdited, IsEditable
<1>4. ASSUME NEW s \in Side, NEW t \in Text, Edit(s, t) PROVE WorkInv'
  BY <1>3, <1>4 DEF Edit
<1>5. ASSUME NEW b \in Line, NEW s \in Side, CopyChange(b, s) PROVE WorkInv'
  <2> DEFINE target == Other(s)
             t == IF b \in Current(s) THEN Current(target) \union {b}
                                      ELSE Current(target) \ {b}
  <2>1. target \in Side /\ t \in Text
    BY CurrentIsText DEF Other, Side, Text
  <2>2. IsEditable(target) /\ DocumentEdited(target, t)
    BY <1>5 DEF CopyChange
  <2> HIDE DEF target, t
  <2> QED BY <1>3, <2>1, <2>2
<1>6. ASSUME NEW o \in Options, SetDiffOptions(o) PROVE WorkInv'
  <2>1. CASE binary
    BY <1>6, <2>1 DEF SetDiffOptions, WorkInv, request
  <2>2. CASE ~binary
    BY <1>6, <2>2, RestartKeepsWork DEF SetDiffOptions
  <2> QED BY <2>1, <2>2
<1>7. ASSUME NEW s \in Side, NEW on \in BOOLEAN, SetEditable(s, on) PROVE WorkInv'
  BY <1>1, <1>7 DEF SetEditable
<1>8. CASE TimerFires
  <2> DEFINE n == [gen |-> generation, bytes |-> FALSE, cancelled |-> FALSE,
                   options |-> options, text |-> [s \in Side |-> Current(s)]]
  <2>1. /\ workers' = workers \union {n} /\ timer /\ ~timer'
        /\ UNCHANGED <<shown, generation, pending>>
    BY <1>8 DEF TimerFires
  <2>2. ~n.bytes /\ ~n.cancelled
    OBVIOUS
  <2> HIDE DEF n
  <2> QED BY <2>1, <2>2 DEF WorkInv, shown
<1>9. ASSUME NEW w \in workers, WorkerFinishes(w) PROVE WorkInv'
  BY <1>9, WorkerKeepsWork
<1>10. CASE CancelByteComparison
  <2>1. /\ UNCHANGED <<shown, generation, timer, pending>> /\ binary
        /\ workers' = Cancelled(workers)
    BY <1>10 DEF CancelByteComparison, WorkInv
  <2>2. \A v \in workers' : \E w \in workers : v.gen = w.gen /\ v.bytes = w.bytes
    BY <2>1, CancelledWorker
  <2> QED BY <2>1, <2>2 DEF WorkInv, shown
<1>11. CASE LoadFromPaths
  BY <1>2, <1>11 DEF LoadFromPaths
<1>12. ASSUME NEW s \in Side, ReloadSide(s) PROVE WorkInv'
  <2>1. CASE \E c : ReloadText(s, c)
    BY <2>1, StopKeepsWork DEF ReloadText, Show, WorkInv
  <2> QED BY <1>2, <1>12, <2>1, LoadBytesKeepsWork DEF ReloadSide
<1>13. CASE SwapSides
  <2>1. CASE SwapText
    BY <2>1, StopKeepsWork DEF SwapText, Show, WorkInv
  <2> QED BY <1>13, <2>1, LoadBytesKeepsWork DEF SwapSides, SwapBytes
<1>14. CASE DiscardChanges
  BY <1>14, StopKeepsWork DEF DiscardChanges, Show, WorkInv
<1>15. CASE SetUnchangedLinesSkipped \/ SetViewMode
  BY <1>1, <1>15 DEF SetUnchangedLinesSkipped, SetViewMode
<1>16. CASE SaveAnswered \/ SaveCommit \/ SaveRecord
  BY <1>1, <1>16 DEF SaveAnswered, SaveCommit, SaveRecord
<1>17. ASSUME NEW s \in Side, NEW over \in BOOLEAN, SaveBegin(s, over) PROVE WorkInv'
  BY <1>1, <1>17 DEF SaveBegin
<1>18. ASSUME NEW f \in File, NEW c \in Content \union {Gone}, ExternalWrite(f, c) PROVE WorkInv'
  BY <1>1, <1>18 DEF ExternalWrite
<1>19. CASE UNCHANGED vars
  BY <1>1, <1>19 DEF vars
<1> QED BY <1>4, <1>5, <1>6, <1>7, <1>8, <1>9, <1>10, <1>11, <1>12, <1>13, <1>14, <1>15,
           <1>16, <1>17, <1>18, <1>19 DEF Next

-----------------------------------------------------------------------------
(* The clean text: what a side without the modified mark shows.            *)

SideIsClean(e, x) == e.modified \/ x = e.clean
CleanInv ==
  /\ \A s \in Side : ed[s].cleanText = ed[s].clean
  /\ ~binary => \A s \in Side : SideIsClean(ed[s], Current(s))

\* What is being saved is what its side shows: without a question nothing runs between.
SavedIsShown ==
  saving # None => saving.phase # "ask" /\ saving.text = Current(saving.side)

\* updateEditability changes neither what is shown nor what is clean.
LEMMA FilledIsClean ==
  ASSUME NEW e \in [Side -> EditState], NEW text \in [Side -> Text],
         NEW projected \in BOOLEAN, binary \in BOOLEAN,
         ed' = UpdateEditability(e, text, projected, binary),
         comparison'.text = text, binary' = binary, Projected' <=> projected,
         \A s \in Side : e[s].cleanText = e[s].clean,
         ~binary => \A s \in Side : SideIsClean(e[s], IF e[s].raw THEN e[s].doc ELSE text[s])
  PROVE  CleanInv'
<1>1. \A s \in Side : /\ ed'[s].modified = e[s].modified /\ ed'[s].cleanText = e[s].cleanText
                      /\ Current(s)' = IF e[s].raw THEN e[s].doc ELSE text[s]
  BY UpdateFacts, FilledTexts
<1>2. \A s \in Side : ed'[s].clean = e[s].clean
  BY UpdateKeepsKnown DEF KeepsKnown
<1> QED BY <1>1, <1>2 DEF CleanInv, SideIsClean

\* Texts shown anew, in documents or in their place.
LEMMA ShownIsClean ==
  ASSUME TypeOK, NEW e \in [Side -> EditState], NEW text \in [Side -> Text],
         NEW projected \in BOOLEAN,
         ed' = UpdateEditability(KeepDocuments(e, text), text, projected, binary),
         comparison'.text = text, binary' = binary, Projected' <=> projected,
         \A s \in Side : e[s].cleanText = e[s].clean,
         ~binary => \A s \in Side : /\ SideIsClean(e[s], text[s])
                                    /\ e[s].raw => e[s].doc = text[s]
  PROVE  CleanInv'
<1> DEFINE k == KeepDocuments(e, text)
<1>1. k \in [Side -> EditState] /\ binary \in BOOLEAN
  BY KeepKeepsType DEF TypeOK
<1>2. \A s \in Side : /\ ~skip => k = e
                      /\ skip => ~k[s].raw
                      /\ k[s].modified = e[s].modified /\ k[s].cleanText = e[s].cleanText
                      /\ k[s].clean = e[s].clean
  BY KeepFacts, ProjectKeepsKnown DEF KeepsKnown
<1> HIDE DEF k
<1>3. ~binary => \A s \in Side : SideIsClean(k[s], IF k[s].raw THEN k[s].doc ELSE text[s])
  BY <1>2 DEF SideIsClean
<1>4. ed' = UpdateEditability(k, text, projected, binary)
  BY DEF k
<1> QED BY <1>1, <1>2, <1>3, <1>4, FilledIsClean

\* Sides that start afresh show their clean text.
LEMMA FreshIsClean ==
  ASSUME NEW text,
         \A s \in Side : ed'[s].doc = text[s] /\ ed'[s].clean = text[s] /\ ed'[s].cleanText = text[s],
         comparison'.text = text
  PROVE  CleanInv'
BY DEF CleanInv, SideIsClean, Current

LEMMA LoadBytesIsClean ==
  ASSUME NEW e, NEW path, LoadBytes(e, path)
  PROVE  CleanInv'
<1>1. binary' /\ \A s \in Side : ed'[s].cleanText = ed'[s].clean
  BY DEF LoadBytes, FreshSide
<1> QED BY <1>1 DEF CleanInv

LEMMA LoadPathsIsClean ==
  ASSUME NEW path, LoadPaths(path)
  PROVE  CleanInv'
<1>1. ASSUME LoadText(path) PROVE CleanInv'
  <2> DEFINE text == [s \in Side |-> Decoded(disk[path[s]])]
  <2>1. /\ \A s \in Side : /\ ed'[s].doc = text[s] /\ ed'[s].clean = text[s]
                           /\ ed'[s].cleanText = text[s]
        /\ comparison'.text = text
    BY <1>1 DEF LoadText, FreshSide, Show
  <2> HIDE DEF text
  <2> QED BY <2>1, FreshIsClean
<1> QED BY <1>1, LoadBytesIsClean DEF LoadPaths

LEMMA DocumentEditedIsClean ==
  ASSUME TypeOK, TextInv, CleanInv, NEW s \in Side, NEW t \in Text,
         IsEditable(s), ~Projected, DocumentEdited(s, t)
  PROVE  CleanInv'
<1>1. /\ ed' = [ed EXCEPT ![s] = [ed[s] EXCEPT !.doc = t, !.modified = t # ed[s].cleanText]]
      /\ UNCHANGED <<comparison, binary>>
  BY Zenon DEF DocumentEdited
<1>2. ed[s] \in EditState /\ ed[s].raw
  BY DEF TypeOK, TextInv, EditableIsRaw
<1>3. /\ ed'[s].doc = t /\ ed'[s].modified = (t # ed[s].cleanText) /\ ed'[s].raw
      /\ ed'[s].cleanText = ed[s].cleanText /\ ed'[s].clean = ed[s].clean
      /\ \A r \in Side : r # s => ed'[r] = ed[r]
  BY <1>1, <1>2 DEF EditState, TypeOK
<1>4. Current(s)' = t /\ \A r \in Side : r # s => Current(r)' = Current(r)
  BY <1>1, <1>3 DEF Current
<1> QED BY <1>1, <1>3, <1>4 DEF CleanInv, SideIsClean

LEMMA SetEditableIsClean ==
  ASSUME TypeOK, CleanInv, NEW s \in Side, NEW on \in BOOLEAN, SetEditable(s, on)
  PROVE  CleanInv'
<1> DEFINE e == [ed EXCEPT ![s].editable = on]
<1>1. /\ UNCHANGED <<comparison, binary>> /\ (Projected' <=> Projected) /\ Projected \in BOOLEAN
      /\ ed' = UpdateEditability(e, comparison.text, Projected, binary)
  BY DEF SetEditable, shown, view, Projected, TypeOK
<1>2. \A r \in Side : ed[r] \in EditState
  BY DEF TypeOK
<1>3. e \in [Side -> EditState]
  <2>1. [ed[s] EXCEPT !.editable = on] \in EditState
    BY <1>2 DEF EditState
  <2> QED BY <2>1 DEF TypeOK
<1>4. \A r \in Side : /\ e[r].raw = ed[r].raw /\ e[r].doc = ed[r].doc
                      /\ e[r].modified = ed[r].modified
                      /\ e[r].clean = ed[r].clean /\ e[r].cleanText = ed[r].cleanText
  BY <1>2 DEF TypeOK, EditState
<1> HIDE DEF e
<1>5. ~binary => \A r \in Side :
        SideIsClean(e[r], IF e[r].raw THEN e[r].doc ELSE comparison.text[r])
  BY <1>4 DEF CleanInv, SideIsClean, Current
<1> QED BY <1>1, <1>3, <1>4, <1>5, FilledIsClean DEF CleanInv, TypeOK, Comparison

\* A result of the current generation compares what the sides show.
LEMMA InstallResultIsClean ==
  ASSUME TypeOK, WorkInv, TextInv, CleanInv, NEW w \in workers,
         WorkerFinishes(w), InstallResult(w)
  PROVE  CleanInv'
<1>1. /\ w.text \in [Side -> Text] /\ comparison'.text = w.text
      /\ ed' = KeepDocuments(ed, w.text) /\ binary' = binary /\ ~binary
      /\ w.gen = generation /\ ~w.bytes
  BY DEF TypeOK, Worker, InstallResult, WorkInv
<1>2. \A s \in Side : w.text[s] = Current(s)
  BY <1>1 DEF TextInv, LiveWorkerReadsCurrent
<1>3. \A s \in Side : /\ ~skip => ed' = ed
                      /\ skip => ~ed'[s].raw
                      /\ ed'[s].modified = ed[s].modified /\ ed'[s].cleanText = ed[s].cleanText
                      /\ ed'[s].clean = ed[s].clean
  BY <1>1, KeepFacts, ProjectKeepsKnown DEF KeepsKnown, TypeOK
<1>4. \A s \in Side : Current(s)' = Current(s)
  BY <1>1, <1>2, <1>3 DEF Current
<1> QED BY <1>1, <1>3, <1>4 DEF CleanInv, SideIsClean

LEMMA ReloadTextIsClean ==
  ASSUME TypeOK, CleanInv, NEW r \in Side, NEW content \in Content, content \notin Blobs,
         ReloadText(r, content), UNCHANGED view
  PROVE  CleanInv'
<1> DEFINE text == [comparison.text EXCEPT ![r] = Decoded(content),
                                           ![Other(r)] = Current(Other(r))]
           read == [ed EXCEPT ![r] = ReadSide(ed[r], content)]
<1>1. /\ ed' = UpdateEditability(KeepDocuments(read, text), text, Projected, binary)
      /\ comparison'.text = text /\ binary' = binary
      /\ Projected \in BOOLEAN /\ (Projected' <=> Projected)
  BY DEF ReloadText, Show, view, Projected, TypeOK
<1>2. /\ Other(r) \in Side /\ Other(r) # r
      /\ \A s \in Side : s # r => s = Other(r)
  BY DEF Other, Side
<1>3. /\ text \in [Side -> Text]
      /\ text[r] = Decoded(content) /\ text[Other(r)] = Current(Other(r))
  <2>1. Decoded(content) \in Text /\ Current(Other(r)) \in Text
    BY <1>2, DecodedIsText, CurrentIsText
  <2> QED BY <1>2, <2>1 DEF TypeOK, Comparison
<1>4. /\ read \in [Side -> EditState]
      /\ ~read[r].raw /\ read[r].clean = Decoded(content) /\ read[r].cleanText = Decoded(content)
      /\ read[Other(r)] = ed[Other(r)]
  <2>1. ed[r] \in EditState /\ ReadSide(ed[r], content) \in EditState
    BY ReadSideType DEF TypeOK
  <2>2. /\ ~ReadSide(ed[r], content).raw
        /\ ReadSide(ed[r], content).clean = Decoded(content)
        /\ ReadSide(ed[r], content).cleanText = Decoded(content)
    BY <2>1 DEF ReadSide, EditState
  <2> QED BY <1>2, <2>1, <2>2 DEF TypeOK
<1> HIDE DEF text, read
<1>5. \A s \in Side : read[s].cleanText = read[s].clean
  BY <1>2, <1>4 DEF CleanInv
<1>6. ~binary => \A s \in Side : /\ SideIsClean(read[s], text[s])
                                 /\ read[s].raw => read[s].doc = text[s]
  <2> SUFFICES ASSUME ~binary, NEW s \in Side
      PROVE  SideIsClean(read[s], text[s]) /\ (read[s].raw => read[s].doc = text[s])
    OBVIOUS
  <2>1. CASE s = r
    BY <1>3, <1>4, <2>1 DEF SideIsClean
  <2>2. CASE s = Other(r)
    BY <1>2, <1>3, <1>4, <2>2 DEF SideIsClean, CleanInv, Current
  <2> QED BY <1>2, <2>1, <2>2
<1> QED BY <1>1, <1>3, <1>4, <1>5, <1>6, ShownIsClean

LEMMA SwapTextIsClean ==
  ASSUME TypeOK, CleanInv, SwapText, UNCHANGED view
  PROVE  CleanInv'
<1> DEFINE text == [s \in Side |-> Current(Other(s))]
<1>1. /\ ed' = UpdateEditability(KeepDocuments(SwappedState, text), text, Projected, binary)
      /\ comparison'.text = text /\ binary' = binary
      /\ Projected \in BOOLEAN /\ (Projected' <=> Projected)
  BY DEF SwapText, Show, view, Projected, TypeOK
<1>2. \A s \in Side : Other(s) \in Side
  BY DEF Other, Side
<1>3. text \in [Side -> Text] /\ \A s \in Side : text[s] = Current(Other(s))
  BY <1>2, CurrentIsText
<1>4. SwappedState \in [Side -> EditState] /\ \A s \in Side : SwappedState[s] = ed[Other(s)]
  BY <1>2 DEF TypeOK, SwappedState
<1> HIDE DEF text
<1>5. \A s \in Side : SwappedState[s].cleanText = SwappedState[s].clean
  BY <1>2, <1>4 DEF CleanInv
<1>6. ~binary => \A s \in Side : /\ SideIsClean(SwappedState[s], text[s])
                                 /\ SwappedState[s].raw => SwappedState[s].doc = text[s]
  BY <1>2, <1>3, <1>4 DEF CleanInv, SideIsClean, Current
<1> QED BY <1>1, <1>3, <1>4, <1>5, <1>6, ShownIsClean

\* Presentation changes only while blocks are shown, and those compare what is shown.
LEMMA ShownIsCompared ==
  ASSUME WorkInv, TextInv, CleanInv, ~pending, ~binary
  PROVE  model /\ \A s \in Side : comparison.text[s] = Current(s) /\ SideIsClean(ed[s], comparison.text[s])
BY DEF WorkInv, TextInv, ModelIsCurrent, CleanInv

LEMMA SkippingIsClean ==
  ASSUME TypeOK, WorkInv, TextInv, CleanInv, SetUnchangedLinesSkipped
  PROVE  CleanInv'
<1> DEFINE e == IF skip THEN Unproject(ed, comparison.text) ELSE Project(ed, comparison.text)
           projected == ~skip \/ unified
<1>1. comparison.text \in [Side -> Text] /\ ed \in [Side -> EditState]
  BY DEF TypeOK, Comparison
<1>2. /\ e \in [Side -> EditState]
      /\ \A s \in Side : e[s].modified = ed[s].modified
      /\ model => \A s \in Side : e[s].doc = comparison.text[s]
  BY <1>1, ProjectType, UnprojectType
<1>3. \A s \in Side : e[s].clean = ed[s].clean /\ e[s].cleanText = ed[s].cleanText
  <2>1. \A s \in Side : ed[s] \in EditState
    BY <1>1
  <2> QED BY <1>1, <2>1 DEF Project, Unproject, EditState
<1>4. /\ ed' = UpdateEditability(e, comparison.text, projected, binary) /\ ~pending
      /\ UNCHANGED <<comparison, binary>>
      /\ projected \in BOOLEAN /\ (Projected' <=> projected)
  BY DEF SetUnchangedLinesSkipped, shown, Projected
<1> HIDE DEF e, projected
<1>5. ~binary => \A s \in Side : SideIsClean(e[s], IF e[s].raw THEN e[s].doc ELSE comparison.text[s])
  BY <1>2, <1>3, <1>4, ShownIsCompared DEF SideIsClean
<1> QED BY <1>1, <1>2, <1>3, <1>4, <1>5, FilledIsClean DEF CleanInv, TypeOK

LEMMA ViewModeIsClean ==
  ASSUME TypeOK, WorkInv, TextInv, CleanInv, SetViewMode
  PROVE  CleanInv'
<1>1. /\ ed' = UpdateEditability(KeepDocuments(ed, comparison.text), comparison.text,
                                 skip \/ ~unified, binary)
      /\ ~pending /\ UNCHANGED <<comparison, binary>> /\ (Projected' <=> skip \/ ~unified)
      /\ comparison.text \in [Side -> Text] /\ ed \in [Side -> EditState]
      /\ (skip \/ ~unified) \in BOOLEAN
  BY DEF SetViewMode, shown, Projected, TypeOK, Comparison
<1>2. \A s \in Side : ed[s].cleanText = ed[s].clean
  BY DEF CleanInv
<1>3. ~binary => \A s \in Side : /\ SideIsClean(ed[s], comparison.text[s])
                                 /\ ed[s].raw => ed[s].doc = comparison.text[s]
  BY <1>1, ShownIsCompared DEF Current
<1> QED BY <1>1, <1>2, <1>3, ShownIsClean

LEMMA SaveRecordIsClean ==
  ASSUME TypeOK, CleanInv, SavedIsShown, SaveRecord
  PROVE  CleanInv'
<1> DEFINE r == saving.side
           found == disk[ed[r].target]
           hash == IF found = Gone THEN NoHash ELSE found
           recorded == [ed[r] EXCEPT !.clean = saving.text, !.cleanText = Current(r),
                          !.modified = FALSE, !.expected = hash]
           e == [ed EXCEPT ![r] = recorded]
<1>1. /\ ed' = UpdateEditability(e, comparison.text, Projected, binary)
      /\ UNCHANGED <<comparison, binary>> /\ (Projected' <=> Projected) /\ Projected \in BOOLEAN
  BY Zenon DEF SaveRecord, shown, view, Projected, TypeOK
<1>2. /\ r \in Side /\ saving.text \in Text /\ ed[r] \in EditState /\ Current(r) = saving.text
      /\ hash \in {Gone, NoHash} \union Content
  BY SavingType DEF TypeOK, SaveRecord, EditState, SavedIsShown, Idle
<1>3. /\ recorded \in EditState
      /\ recorded.raw = ed[r].raw /\ recorded.doc = ed[r].doc
      /\ recorded.clean = saving.text /\ recorded.cleanText = saving.text
  <2> HIDE DEF r, hash
  <2> QED BY <1>2 DEF EditState
<1> HIDE DEF recorded
<1>4. /\ e \in [Side -> EditState] /\ e[r] = recorded
      /\ \A s \in Side : s # r => e[s] = ed[s]
  BY <1>2, <1>3 DEF TypeOK
<1> HIDE DEF e, r
<1>5. \A s \in Side : e[s].cleanText = e[s].clean
  BY <1>3, <1>4 DEF CleanInv
<1>6. ~binary => \A s \in Side : SideIsClean(e[s], IF e[s].raw THEN e[s].doc ELSE comparison.text[s])
  <2>1. \A s \in Side : (IF e[s].raw THEN e[s].doc ELSE comparison.text[s]) = Current(s)
    BY <1>2, <1>3, <1>4 DEF Current
  <2> QED BY <1>2, <1>3, <1>4, <2>1 DEF CleanInv, SideIsClean
<1> QED BY <1>1, <1>4, <1>5, <1>6, FilledIsClean DEF TypeOK, Comparison

LEMMA NextIsClean ==
  ASSUME TypeOK, WorkInv, TextInv, CleanInv, SavedIsShown, [Next]_vars
  PROVE  CleanInv'
<1>1. ASSUME UNCHANGED <<ed, comparison, binary>> PROVE CleanInv'
  BY <1>1 DEF CleanInv, SideIsClean, Current
<1>2. ASSUME NEW s \in Side, NEW t \in Text, Edit(s, t) PROVE CleanInv'
  BY <1>2, DocumentEditedIsClean DEF Edit
<1>3. ASSUME NEW b \in Line, NEW s \in Side, CopyChange(b, s) PROVE CleanInv'
  <2> DEFINE target == Other(s)
             t == IF b \in Current(s) THEN Current(target) \union {b}
                                      ELSE Current(target) \ {b}
  <2>1. target \in Side /\ t \in Text
    BY CurrentIsText DEF Other, Side, Text
  <2>2. IsEditable(target) /\ ~Projected /\ DocumentEdited(target, t)
    BY <1>3 DEF CopyChange
  <2> HIDE DEF target, t
  <2> QED BY <2>1, <2>2, DocumentEditedIsClean
<1>4. ASSUME NEW o \in Options, SetDiffOptions(o) PROVE CleanInv'
  BY <1>1, <1>4 DEF SetDiffOptions
<1>5. ASSUME NEW s \in Side, NEW on \in BOOLEAN, SetEditable(s, on) PROVE CleanInv'
  BY <1>5, SetEditableIsClean
<1>6. CASE TimerFires \/ CancelByteComparison
  BY <1>1, <1>6 DEF TimerFires, CancelByteComparison, shown
<1>7. ASSUME NEW w \in workers, WorkerFinishes(w) PROVE CleanInv'
  <2>1. CASE InstallResult(w)
    BY <1>7, <2>1, InstallResultIsClean
  <2>2. CASE ~InstallResult(w)
    BY <1>1, <1>7, <2>2 DEF WorkerFinishes, DropResult, ReportFailure, ByteResult, shown
  <2> QED BY <2>1, <2>2
<1>8. CASE LoadFromPaths
  BY <1>8, LoadPathsIsClean DEF LoadFromPaths
<1>9. ASSUME NEW s \in Side, ReloadSide(s) PROVE CleanInv'
  <2> DEFINE content == disk[ed[s].target]
  <2>1. UNCHANGED view /\ content \in Content
    BY <1>9 DEF ReloadSide, TypeOK, EditState
  <2>2. CASE content \notin Blobs /\ ReloadText(s, content)
    BY <2>1, <2>2, ReloadTextIsClean
  <2> QED BY <1>9, <2>2, LoadPathsIsClean, LoadBytesIsClean DEF ReloadSide
<1>10. CASE SwapSides
  BY <1>10, LoadBytesIsClean, SwapTextIsClean DEF SwapSides, SwapBytes
<1>11. CASE DiscardChanges
  <2> DEFINE text == [s \in Side |-> ed[s].clean]
  <2>1. /\ \A s \in Side : /\ ed'[s].doc = text[s] /\ ed'[s].clean = text[s]
                           /\ ed'[s].cleanText = text[s]
        /\ comparison'.text = text
    BY <1>11 DEF DiscardChanges, CleanSide, FreshSide, Show
  <2> HIDE DEF text
  <2> QED BY <2>1, FreshIsClean
<1>12. CASE SetUnchangedLinesSkipped
  BY <1>12, SkippingIsClean
<1>13. CASE SetViewMode
  BY <1>13, ViewModeIsClean
<1>14. CASE SaveRecord
  BY <1>14, SaveRecordIsClean
<1>15. CASE SaveAnswered \/ SaveCommit
  BY <1>1, <1>15 DEF SaveAnswered, SaveCommit, shown
<1>16. ASSUME NEW s \in Side, NEW over \in BOOLEAN, SaveBegin(s, over) PROVE CleanInv'
  BY <1>1, <1>16 DEF SaveBegin, shown
<1>17. ASSUME NEW f \in File, NEW c \in Content \union {Gone}, ExternalWrite(f, c) PROVE CleanInv'
  BY <1>1, <1>17 DEF ExternalWrite, shown
<1>18. CASE UNCHANGED vars
  BY <1>1, <1>18 DEF vars, shown
<1> QED BY <1>2, <1>3, <1>4, <1>5, <1>6, <1>7, <1>8, <1>9, <1>10, <1>11, <1>12, <1>13, <1>14,
           <1>15, <1>16, <1>17, <1>18 DEF Next

-----------------------------------------------------------------------------
LEMMA NextIsSaved ==
  ASSUME TypeOK, ~AsksEncoding, SavedIsShown, [Next]_vars
  PROVE  SavedIsShown'
<1>1. ASSUME UNCHANGED <<ed, comparison, saving>> PROVE SavedIsShown'
  BY <1>1 DEF SavedIsShown, Current
<1>2. ASSUME NEW s \in Side, NEW over \in BOOLEAN, SaveBegin(s, over) PROVE SavedIsShown'
  <2>1. /\ saving' = [side |-> s, text |-> Current(s), bytes |-> Current(s), phase |-> "write"]
        /\ UNCHANGED <<ed, comparison>>
    BY <1>2 DEF SaveBegin, shown
  <2> QED BY <2>1 DEF SavedIsShown, Current
<1>3. CASE SaveCommit
  <2>1. /\ saving \in Saving /\ saving # None /\ UNCHANGED <<ed, comparison>>
        /\ saving' \in {None, [saving EXCEPT !.phase = "record"]}
    BY <1>3 DEF SaveCommit, TypeOK, Idle, shown
  <2> QED BY <2>1 DEF SavedIsShown, Current, Saving
<1>4. CASE SaveRecord
  BY <1>4 DEF SaveRecord, SavedIsShown
<1>5. ASSUME NEW f \in File, NEW c \in Content \union {Gone}, ExternalWrite(f, c) PROVE SavedIsShown'
  BY <1>1, <1>5 DEF ExternalWrite, shown
<1>6. CASE UNCHANGED vars
  BY <1>1, <1>6 DEF vars, shown
<1>7. CASE saving = None
  <2>1. saving' = None \/ \E s \in Side, over \in BOOLEAN : SaveBegin(s, over)
    BY <1>7 DEF Next, Edit, CopyChange, DocumentEdited, SetDiffOptions, SetEditable, TimerFires,
       WorkerFinishes, CancelByteComparison, LoadFromPaths, ReloadSide, SwapSides, DiscardChanges,
       SetUnchangedLinesSkipped, SetViewMode, SaveAnswered, SaveCommit, SaveRecord, Idle,
       ExternalWrite, vars
  <2> QED BY <1>2, <2>1 DEF SavedIsShown
<1>8. CASE saving # None
  <2>1. ~Idle /\ ~EventLoopRuns /\ saving.phase # "ask"
    BY <1>8 DEF Idle, EventLoopRuns, SavedIsShown
  <2> QED
    BY <1>3, <1>4, <1>5, <1>6, <2>1 DEF Next, Edit, CopyChange, SetDiffOptions, SetEditable,
       TimerFires, WorkerFinishes, CancelByteComparison, LoadFromPaths, ReloadSide, SwapSides,
       DiscardChanges, SetUnchangedLinesSkipped, SetViewMode, SaveBegin, SaveAnswered
<1> QED BY <1>7, <1>8

\* What is clean, shown and wanted stays so.
ShowInv == WorkInv /\ CleanInv /\ SavedIsShown

LEMMA InitShowInv == Init => ShowInv
<1> SUFFICES ASSUME Init PROVE ShowInv
  OBVIOUS
<1>1. WorkInv /\ SavedIsShown
  BY DEF Init, WorkInv, SavedIsShown
<1>2. \A s \in Side : ed[s].clean = ed[s].doc /\ ed[s].cleanText = ed[s].doc
  BY DEF Init
<1>3. comparison.text = [s \in Side |-> ed[s].doc]
  BY DEF Init
<1>4. CleanInv
  BY <1>2, <1>3 DEF CleanInv, SideIsClean, Current
<1> QED BY <1>1, <1>4 DEF ShowInv

\* A side without the modified mark shows the text last loaded or saved: every way of
\* showing texts anew, and every result, keeps what is typed, clean and marked together.
THEOREM UnmodifiedIsClean ==
  ASSUME ~MayExceedLimits, ~AsksEncoding
  PROVE  Spec => []UnmodifiedShowsClean
<1>1. Init => ShowInv
  BY InitShowInv
<1>2. Inv /\ ShowInv /\ [Next]_vars => ShowInv'
  BY NextKeepsWork, NextIsClean, NextIsSaved DEF Inv, RequestInv, TextInv, ShowInv
<1>3. ShowInv => UnmodifiedShowsClean
  BY DEF ShowInv, CleanInv, SideIsClean, UnmodifiedShowsClean
<1> QED BY <1>1, <1>2, <1>3, InvHolds, PTL DEF Spec

-----------------------------------------------------------------------------
(* Unsaved text is in an editor, and the handlers leave such editors alone. *)

Survives == \A s \in Side : ed[s].modified => \E t \in Side : ed'[t] = ed[s]

LEMMA RawStays ==
  ASSUME NEW e, NEW text, NEW projected, NEW isBinary, NEW s \in Side, e[s].raw
  PROVE  UpdateEditability(e, text, projected, isBinary)[s] = e[s]
BY DEF UpdateEditability

LEMMA NothingUnsavedSurvives ==
  ASSUME ~Modified
  PROVE  Survives
BY DEF Modified, Survives

\* A lock is refused to a modified side, and the other side is left alone.
LEMMA SetEditableSurvives ==
  ASSUME TypeOK, TextInv, NEW s \in Side, NEW on \in BOOLEAN, SetEditable(s, on)
  PROVE  Survives
<1> SUFFICES ASSUME NEW r \in Side, ed[r].modified PROVE ed'[r] = ed[r]
  BY DEF Survives
<1>1. ed[r].raw /\ ed[r].editable
  BY DEF TextInv, ModifiedIsEditedInPlace, IsEditable
<1>2. r # s
  <2>1. CASE on
    BY <1>1, <2>1 DEF SetEditable
  <2>2. CASE ~on
    BY <2>2 DEF SetEditable
  <2> QED BY <2>1, <2>2
<1> DEFINE e == [ed EXCEPT ![s].editable = on]
<1>3. e[r] = ed[r]
  BY <1>2 DEF TypeOK
<1>4. ed' = UpdateEditability(e, comparison.text, Projected, binary)
  BY DEF SetEditable
<1> HIDE DEF e
<1> QED BY <1>1, <1>3, <1>4, RawStays

\* A reload of one side keeps the unsaved text of the other.
LEMMA ReloadSurvives ==
  ASSUME TypeOK, TextInv, NEW s \in Side, ReloadSide(s)
  PROVE  /\ ed'[Other(s)].modified = ed[Other(s)].modified
         /\ ed[Other(s)].modified => ed'[Other(s)] = ed[Other(s)]
<1> DEFINE o == Other(s)
           content == disk[ed[s].target]
<1>1. /\ o \in Side /\ o # s
      /\ ed[s] \in EditState /\ ed[o] \in EditState /\ content \in Content
  BY DEF Other, Side, TypeOK, ReloadSide, EditState
<1>2. ASSUME ~Modified, \A r \in Side : ed'[r].modified = FALSE
      PROVE  ed'[o].modified = ed[o].modified /\ ~ed[o].modified
  BY <1>1, <1>2 DEF Modified, EditState
<1>3. CASE LoadPaths(Targets) \/ (~Modified /\ LoadBytes(ed, Targets))
  <2>1. ~Modified /\ \A r \in Side : ed'[r].modified = FALSE
    BY <1>3 DEF LoadPaths, LoadText, LoadBytes, FreshSide
  <2> QED BY <1>2, <2>1
<1>4. CASE content \notin Blobs /\ ReloadText(s, content)
  <2> DEFINE text == [comparison.text EXCEPT ![s] = Decoded(content),
                                             ![Other(s)] = Current(Other(s))]
             read == [ed EXCEPT ![s] = ReadSide(ed[s], content)]
             kept == KeepDocuments(read, text)
  <2>1. ed' = UpdateEditability(kept, text, Projected, binary)
    BY <1>4 DEF ReloadText
  <2>2. read \in [Side -> EditState] /\ read[o] = ed[o]
    BY <1>1, <1>4, ReadSideType DEF TypeOK
  <2>3. text \in [Side -> Text] /\ Projected \in BOOLEAN /\ binary \in BOOLEAN
    <3>1. Decoded(content) \in Text /\ Current(Other(s)) \in Text
      BY <1>1, <1>4, DecodedIsText, CurrentIsText
    <3> QED BY <1>1, <3>1 DEF TypeOK, Comparison, Projected
  <2> HIDE DEF text, read
  <2>4. kept \in [Side -> EditState] /\ kept[o].modified = ed[o].modified /\ (~skip => kept = read)
    BY <1>1, <2>2, <2>3, KeepKeepsType, KeepFacts
  <2> HIDE DEF kept
  <2>5. ed'[o].modified = ed[o].modified
    BY <1>1, <2>1, <2>3, <2>4, UpdateFacts
  <2>6. ed[o].modified => ~skip /\ ed[o].raw
    BY <1>1 DEF TextInv, ModifiedIsEditedInPlace, Projected
  <2>7. ed[o].modified => ed'[o] = ed[o]
    BY <1>1, <2>1, <2>2, <2>4, <2>6, RawStays
  <2> QED BY <2>5, <2>7
<1> QED BY <1>3, <1>4 DEF ReloadSide

LEMMA SwapSurvives ==
  ASSUME TypeOK, TextInv, SwapSides
  PROVE  Survives
<1> SUFFICES ASSUME NEW s \in Side, ed[s].modified PROVE ed'[Other(s)] = ed[s]
  BY DEF Survives, Other, Side
<1>1. /\ Other(s) \in Side /\ Other(Other(s)) = s
      /\ ed[s].raw /\ ~binary /\ ~skip
  BY DEF Other, Side, TextInv, ModifiedIsEditedInPlace, IsEditable, Projected
<1>2. ed' = UpdateEditability(SwappedState, [r \in Side |-> Current(Other(r))], Projected, binary)
  BY <1>1 DEF SwapSides, SwapText, KeepDocuments
<1>3. SwappedState[Other(s)] = ed[s]
  BY <1>1 DEF SwappedState
<1> QED BY <1>1, <1>2, <1>3, RawStays

\* Edits disappear only by an edit, by their save, or by an action the user confirmed as
\* discarding them.
THEOREM UnsavedTextSurvives == Spec => EditsSurvive
<1>1. ASSUME TypeOK, TextInv, [Next]_vars
      PROVE  \/ \E s \in Side, t \in Text : Edit(s, t)
             \/ \E b \in Line, s \in Side : CopyChange(b, s)
             \/ DiscardChanges \/ SaveRecord
             \/ \E s \in Side : /\ ReloadSide(s)
                                /\ ed'[Other(s)].modified = ed[Other(s)].modified
                                /\ ed[Other(s)].modified => ed'[Other(s)] = ed[Other(s)]
             \/ Survives
  <2>1. ed' = ed => Survives
    BY DEF Survives
  <2>2. ASSUME NEW s \in Side, NEW on \in BOOLEAN, SetEditable(s, on) PROVE Survives
    BY <1>1, <2>2, SetEditableSurvives
  <2>3. ASSUME NEW w \in workers, WorkerFinishes(w) PROVE Survives
    <3>1. CASE Modified
      <4>1. ~skip
        BY <1>1, <3>1 DEF Modified, TextInv, ModifiedIsEditedInPlace, Projected
      <4> QED BY <2>1, <2>3, <4>1 DEF WorkerFinishes, DropResult, InstallResult, ReportFailure,
                                      ByteResult, KeepDocuments
    <3> QED BY <3>1, NothingUnsavedSurvives
  <2>4. CASE LoadFromPaths \/ SetUnchangedLinesSkipped \/ SetViewMode
    BY <2>4, NothingUnsavedSurvives DEF LoadFromPaths, LoadPaths, SetUnchangedLinesSkipped, SetViewMode
  <2>5. ASSUME NEW s \in Side, ReloadSide(s)
        PROVE  /\ ed'[Other(s)].modified = ed[Other(s)].modified
               /\ ed[Other(s)].modified => ed'[Other(s)] = ed[Other(s)]
    BY <1>1, <2>5, ReloadSurvives
  <2>6. CASE SwapSides
    BY <1>1, <2>6, SwapSurvives
  <2>7. CASE \/ TimerFires \/ CancelByteComparison \/ SaveAnswered \/ SaveCommit
             \/ \E o \in Options : SetDiffOptions(o)
             \/ \E s \in Side, over \in BOOLEAN : SaveBegin(s, over)
             \/ \E f \in File, c \in Content \union {Gone} : ExternalWrite(f, c)
             \/ UNCHANGED vars
    BY <2>1, <2>7 DEF TimerFires, CancelByteComparison, SaveAnswered, SaveCommit, SetDiffOptions,
       SaveBegin, ExternalWrite, vars
  <2> QED BY <1>1, <2>2, <2>3, <2>4, <2>5, <2>6, <2>7 DEF Next
<1>2. Inv => TypeOK /\ TextInv
  BY DEF Inv, TextInv
<1> QED BY <1>1, <1>2, InvHolds, PTL DEF Spec, EditsSurvive, Survives
=============================================================================
