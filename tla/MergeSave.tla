------------------------------ MODULE MergeSave ------------------------------
(***************************************************************************)
(* Saving RESULT from the conflict editor (MergeDialog, MergeResultSave):  *)
(* the file is read, edited and replaced through a temporary file, while   *)
(* other processes may rewrite, replace, protect or remove it.  The        *)
(* dialog's exit code tells a version control system whether the merge is  *)
(* complete.                                                               *)
(*                                                                         *)
(* A file is read in two blocks, so its bytes are a pair.  The time of a   *)
(* file tells apart all changes of its content, the inode all              *)
(* replacements.  The widget is reduced to its text; MergeEditing has it.  *)
(***************************************************************************)
EXTENDS Naturals

CONSTANTS
  Document,     \* the texts RESULT may hold
  Resolved,     \* those of them without an unresolved conflict
  Original,     \* the document on disk at the start
  Foreign,      \* documents other processes write
  None,         \* no stamp, no file, no exit code
  WriterRaces,  \* may others write between the last validation and the rename?
  MaxChanges      \* bound on the changes of the file

Disposition == {"Draft", "Resolved"}
\* What prepareMergeExport makes of a document.
Exported(d, as) == [document |-> d, as |-> as]
Whole(content) == <<content, content>>
File(inode, time, writable, bytes) ==
  [inode |-> inode, time |-> time, writable |-> writable, bytes |-> bytes]

VARIABLES
  readOnly,        \* launch.readOnly, fixed
  disk, changes,     \* the file, or None; the number of its changes
  read,            \* how far readMergeResultFile is, what for, and what it has seen
  stage,           \* of the dialog
  text, clean,     \* the document of the widget, and the one loaded or saved
  editable,
  job, step,       \* the captured document of a save, and how far its worker is
  cancel,          \* saveCancellation is requested
  result,          \* the worker's status
  replaced,        \* has this save replaced the file?
  expected,        \* the stamp RESULT is expected to have
  savedStamp, resolvedSaved,
  discarded,       \* history: the user has given up unsaved changes
  exit             \* what runMergeDialog returned

file == <<disk, changes>>
widget == <<text, clean, editable>>
worker == <<read, step, result, replaced>>
dialog == <<stage, job, cancel, expected, savedStamp, resolvedSaved, discarded, exit>>
vars == <<readOnly, file, widget, worker, dialog>>

Saving == stage = "open" /\ step # "idle"
Modified == text # clean
Unresolved == text \notin Resolved

-----------------------------------------------------------------------------
(* readMergeResultFile: stamp, open, blocks, stamp.                        *)

Metadata(f) == [inode |-> f.inode, time |-> f.time, writable |-> f.writable]

\* opened is what a reader that has the file open finds in it.
ReadAt(purpose, at, before, opened, bytes) ==
  [for |-> purpose, at |-> at, before |-> before, opened |-> opened, bytes |-> bytes]
Reading(purpose) == ReadAt(purpose, "stamp", None, Whole(None), Whole(None))
NoRead == Reading("nothing")
\* The same read, further on.
Go(at, before, opened, bytes) == read' = ReadAt(read.for, at, before, opened, bytes)

\* The token is the save's; verifying and the last check have fresh ones.
ReadCancelled == read.for \in {"validate", "revalidate"} /\ cancel

Finish(status) ==
  /\ result' = status /\ step' = "finished" /\ read' = NoRead /\ UNCHANGED replaced
  /\ UNCHANGED <<file, widget, dialog>>

Leave(code) ==
  /\ stage' = "left" /\ exit' = code /\ read' = NoRead
  /\ UNCHANGED <<file, widget, step, result, replaced, job, cancel, expected, savedStamp,
                 resolvedSaved, discarded>>

\* What the caller makes of a read that failed.
ReadFailed(status) ==
  \/ /\ read.for = "load"
     /\ read' = NoRead /\ stage' = "failed"
     /\ UNCHANGED <<file, widget, step, result, replaced, job, cancel, expected, savedStamp,
                    resolvedSaved, discarded, exit>>
  \/ read.for \in {"validate", "revalidate"} /\ Finish(status)
  \/ read.for = "verify" /\ Finish("Stale")
  \/ read.for = "final" /\ Leave(1)

\* The file was read while nobody changed it: the whole stamp, with fingerprint.
Loaded(stamp) ==
  /\ read.for = "load"
  /\ stage' = "open" /\ read' = NoRead /\ expected' = stamp
  /\ text' = stamp.bytes[1].document /\ clean' = text'
  /\ editable' = ~readOnly
  /\ UNCHANGED <<file, step, result, replaced, job, cancel, savedStamp,
                 resolvedSaved, discarded, exit>>

Validated(stamp) ==
  /\ read.for \in {"validate", "revalidate"}
  /\ IF stamp # expected THEN Finish("Stale")
     ELSE IF ~stamp.writable THEN Finish("Error")
     ELSE /\ step' = IF read.for = "validate" THEN "write" ELSE "commit"
          /\ read' = NoRead
          /\ UNCHANGED <<result, replaced, file, widget, dialog>>

Verified(stamp) ==
  /\ read.for = "verify"
  /\ IF stamp.bytes = Whole(Exported(job.document, job.as)) /\ stamp.writable = expected.writable
       THEN /\ result' = "Saved" /\ step' = "finished"
            /\ Go("seen", stamp, read.opened, read.bytes)
            /\ UNCHANGED <<replaced, file, widget, dialog>>
       ELSE Finish("Stale")

Confirmed(stamp) == read.for = "final" /\ Leave(IF stamp = savedStamp THEN 0 ELSE 1)

Accept(stamp) == Loaded(stamp) \/ Validated(stamp) \/ Verified(stamp) \/ Confirmed(stamp)

ReadStamp ==
  /\ read.for # "nothing" /\ read.at = "stamp"
  /\ IF ReadCancelled THEN ReadFailed("Cancelled")
     ELSE IF disk = None THEN ReadFailed("Unsupported")
     ELSE /\ Go("open", Metadata(disk), read.opened, read.bytes)
          /\ UNCHANGED <<file, widget, step, result, replaced, dialog>>
  /\ UNCHANGED readOnly

\* Opens the file, makes sure it is the one stamped, and reads a block.
ReadOpen ==
  /\ read.at = "open"
  /\ IF disk = None THEN ReadFailed("Error")
     ELSE IF disk.inode # read.before.inode THEN ReadFailed("Stale")
     ELSE IF ReadCancelled THEN ReadFailed("Cancelled")
     ELSE /\ Go("rest", read.before, disk.bytes, <<disk.bytes[1], read.bytes[2]>>)
          /\ UNCHANGED <<file, widget, step, result, replaced, dialog>>
  /\ UNCHANGED readOnly

ReadRest ==
  /\ read.at = "rest"
  /\ IF ReadCancelled THEN ReadFailed("Cancelled")
     ELSE /\ Go("after", read.before, Whole(None), <<read.bytes[1], read.opened[2]>>)
          /\ UNCHANGED <<file, widget, step, result, replaced, dialog>>
  /\ UNCHANGED readOnly

Seen == File(read.before.inode, read.before.time, read.before.writable, read.bytes)

ReadAfterUnchecked ==
  /\ read.at = "after"
  /\ IF ReadCancelled THEN ReadFailed("Cancelled") ELSE Accept(Seen)
  /\ UNCHANGED readOnly
ReadAfter ==
  /\ read.at = "after"
  /\ IF disk = None \/ (disk # None /\ Metadata(disk) # read.before) THEN ReadFailed("Stale")
     ELSE IF ReadCancelled THEN ReadFailed("Cancelled")
     ELSE Accept(Seen)
  /\ UNCHANGED readOnly

-----------------------------------------------------------------------------
(* saveMergeResultFile, in its own thread; validating is reading above.    *)

\* The export itself may fail; so may any operation on the temporary file.
PrepareExport ==
  /\ step = "start"
  /\ \/ cancel /\ Finish("Cancelled")
     \/ ~cancel /\ Finish("Error")
     \/ /\ ~cancel /\ step' = "validate" /\ read' = Reading("validate")
        /\ UNCHANGED <<result, replaced, file, widget, dialog>>
  /\ UNCHANGED readOnly

WriteTemporary ==
  /\ step = "write"
  /\ \/ cancel /\ Finish("Cancelled")
     \/ ~cancel /\ Finish("Error")
     \/ /\ ~cancel /\ step' = "revalidate" /\ read' = Reading("revalidate")
        /\ UNCHANGED <<result, replaced, file, widget, dialog>>
  /\ UNCHANGED readOnly

Commit ==
  /\ step = "commit"
  /\ \/ cancel /\ Finish("Cancelled")
     \/ ~cancel /\ Finish("Error")
     \/ /\ ~cancel
        /\ changes' = changes + 1
        /\ disk' = File(changes + 1, changes + 1, expected.writable,
                       Whole(Exported(job.document, job.as)))
        /\ replaced' = TRUE /\ step' = "verify" /\ read' = Reading("verify")
        /\ UNCHANGED <<result, widget, dialog>>
  /\ UNCHANGED readOnly

-----------------------------------------------------------------------------
(* The dialog.                                                             *)

Edit(d) ==
  /\ stage = "open" /\ editable /\ ~Saving /\ d # text
  /\ text' = d
  /\ UNCHANGED <<readOnly, file, clean, editable, worker, dialog>>

\* The check box Edit RESULT.
SetEditable ==
  /\ stage = "open" /\ ~Saving /\ ~readOnly
  /\ editable' = ~editable
  /\ UNCHANGED <<readOnly, file, text, clean, worker, dialog>>

\* requestSave and startSave, once the user has answered every question.  The
\* widgets are disabled until the worker has finished.
StartSave(as, closeAfter) ==
  /\ stage = "open" /\ ~Saving /\ editable /\ changes < MaxChanges
  /\ as = "Resolved" => ~Unresolved
  /\ job' = [document |-> text, as |-> as, closeAfter |-> closeAfter]
  /\ step' = "start" /\ cancel' = FALSE /\ replaced' = FALSE /\ resolvedSaved' = FALSE
  /\ result' = "none" /\ read' = NoRead
  /\ UNCHANGED <<readOnly, file, widget, stage, expected, savedStamp, discarded, exit>>

\* reject() offers a draft as long as conflicts are unresolved.
SaveAndClose ==
  /\ Modified
  /\ StartSave(IF Unresolved THEN "Draft" ELSE "Resolved", TRUE)

CancelSave ==
  /\ Saving /\ ~cancel /\ cancel' = TRUE
  /\ UNCHANGED <<readOnly, file, widget, worker, stage, job, expected, savedStamp,
                 resolvedSaved, discarded, exit>>

\* exec() returns; a complete merge is checked once more.
Close ==
  /\ discarded' = Modified
  /\ IF readOnly \/ ~resolvedSaved \/ savedStamp = None \/ Modified
       THEN stage' = "left" /\ exit' = 1 /\ read' = NoRead
       ELSE stage' = "closed" /\ read' = Reading("final") /\ UNCHANGED exit
  /\ UNCHANGED <<file, widget, job, cancel, expected, savedStamp, resolvedSaved>>
Reject ==
  /\ stage = "open" /\ ~Saving /\ Close
  /\ UNCHANGED <<readOnly, step, result, replaced>>

\* Closing before RESULT is loaded, or after loading failed.
RejectEarly ==
  /\ stage \in {"loading", "failed"}
  /\ stage' = "left" /\ exit' = 1 /\ read' = NoRead
  /\ UNCHANGED <<readOnly, file, widget, step, result, replaced, job, cancel, expected,
                 savedStamp, resolvedSaved, discarded>>

AcknowledgesRename == replaced
Acknowledges == result = "Saved"

\* The handler of finished.
SaveFinished ==
  /\ step = "finished" /\ step' = "idle" /\ job' = None
  /\ UNCHANGED <<readOnly, file, text, editable, cancel, discarded, result, replaced>>
  /\ IF ~Acknowledges
       THEN /\ read' = NoRead
            /\ UNCHANGED <<clean, stage, expected, savedStamp, resolvedSaved, exit>>
       ELSE LET acknowledged == job.document = text
            IN /\ expected' = read.before /\ savedStamp' = read.before
               /\ clean' = IF acknowledged THEN text ELSE clean
               /\ resolvedSaved' = (acknowledged /\ job.as = "Resolved")
               /\ IF job.closeAfter /\ acknowledged
                    THEN \* accept(), after which the file is checked
                      IF readOnly \/ job.as # "Resolved"
                        THEN stage' = "left" /\ exit' = 1 /\ read' = NoRead
                        ELSE stage' = "closed" /\ read' = Reading("final") /\ UNCHANGED exit
                    ELSE read' = NoRead /\ UNCHANGED <<stage, exit>>

-----------------------------------------------------------------------------
(* Other processes.                                                        *)

MayChange ==
  /\ changes < MaxChanges /\ stage # "left" /\ changes' = changes + 1
  /\ WriterRaces \/ step # "commit"
  /\ UNCHANGED <<readOnly, widget, step, result, replaced, dialog>>

\* Writes into the file, seen by whoever has it open.
Rewrite(content) ==
  /\ disk # None /\ MayChange
  /\ disk' = File(disk.inode, changes + 1, disk.writable, Whole(content))
  /\ IF read.at = "rest" /\ read.before.inode = disk.inode
       THEN Go("rest", read.before, Whole(content), read.bytes) ELSE UNCHANGED read

Replace(content) ==
  /\ MayChange
  /\ disk' = File(changes + 1, changes + 1, TRUE, Whole(content))
  /\ UNCHANGED read

Protect ==
  /\ disk # None /\ MayChange /\ UNCHANGED read
  /\ disk' = File(disk.inode, disk.time, ~disk.writable, disk.bytes)

Remove == disk # None /\ MayChange /\ UNCHANGED read /\ disk' = None

Init ==
  /\ readOnly \in BOOLEAN
  /\ changes = 0
  /\ disk = File(0, 0, TRUE, Whole(Exported(Original, "Draft")))
  /\ read = Reading("load") /\ stage = "loading"
  /\ text = Original /\ clean = Original /\ editable = FALSE
  /\ job = None /\ step = "idle" /\ cancel = FALSE /\ result = "none" /\ replaced = FALSE
  /\ expected = None /\ savedStamp = None /\ resolvedSaved = FALSE
  /\ discarded = FALSE /\ exit = None

Worker ==
  \/ ReadStamp \/ ReadOpen \/ ReadRest \/ ReadAfter
  \/ PrepareExport \/ WriteTemporary \/ Commit
  \/ SaveFinished

Others == \/ \E d \in Foreign : Rewrite(Exported(d, "Foreign")) \/ Replace(Exported(d, "Foreign"))
          \/ Protect
          \/ Remove

Next ==
  \/ Worker
  \/ \E d \in Document : Edit(d)
  \/ SetEditable
  \/ \E as \in Disposition, closeAfter \in BOOLEAN :
       (as = "Draft" => ~closeAfter) /\ StartSave(as, closeAfter)
  \/ SaveAndClose
  \/ CancelSave
  \/ Reject
  \/ RejectEarly
  \/ Others

Spec == Init /\ [][Next]_vars
FairSpec == Spec /\ WF_vars(Worker)
-----------------------------------------------------------------------------
\* Exit code 0 tells the caller that the merge is complete: at that moment the file
\* is the one saved, and holds the text shown, in which no conflict is left.
CompletionIsTrue ==
  [][exit # 0 /\ exit' = 0 =>
       /\ disk = savedStamp
       /\ savedStamp.bytes = Whole(Exported(text, "Resolved")) /\ text \in Resolved]_vars

\* The rename replaces only what RESULT was loaded or last saved as, unless another
\* process writes after the last validation.
ForeignChangesSurvive ==
  [][replaced' /\ ~replaced => WriterRaces \/ disk = expected]_vars

\* A save that is reported as cancelled or failed has not replaced the file, and one
\* reported as saved has been read back.
ResultIsHonest ==
  step = "finished" =>
    /\ replaced => result \in {"Saved", "Stale"}
    /\ result = "Saved" => replaced /\ read.before.bytes = Whole(Exported(job.document, job.as))

\* Text counts as clean only once it has been read back from the file, and the dialog
\* closes over other text only if the user gives it up.
WorkIsKept ==
  [][stage = "open" =>
       /\ clean' # clean => read.before # None /\ read.before.bytes = Whole(Exported(clean', job.as))
       /\ stage' # "open" /\ ~discarded' => text' = clean']_vars

\* Every save ends, cancelled or not, and so does the check of a complete merge.
SaveEnds == (step # "idle" \/ stage = "closed") ~> (step = "idle" /\ stage # "closed")
=============================================================================
