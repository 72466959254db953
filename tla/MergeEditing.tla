---------------------------- MODULE MergeEditing ----------------------------
(***************************************************************************)
(* The editable RESULT of a merge (MergeWidget).  Next to the text it      *)
(* keeps the ending of every line and the range and state of every         *)
(* conflict; a sidecar history, parallel to Qt's undo stack, gives them    *)
(* back when a step is undone.  Everything runs on the GUI thread.         *)
(*                                                                         *)
(* A text is a sequence of characters, "n" being the line break.  Offsets  *)
(* count from 0, as in the code.  The undo stack is Qt's: it drops its     *)
(* oldest command at the limit and its redoable commands at a push, and    *)
(* typing may be merged into the last command.                             *)
(***************************************************************************)
EXTENDS Integers, Sequences, FiniteSets

CONSTANTS
  Text,            \* the texts the document may hold
  Writable,        \* those within the limits, which can be serialised
  InitialText, InitialMetadata,
  Fragment,        \* per conflict, the texts and endings a choice may insert
  Conflict, Ending,
  LF,              \* the ending of lines added to a file that has none
  UndoLimit,
  None,            \* no save in progress
  MaxCommands      \* bound on the commands a user of each kind pushes

State == {"Unresolved", "NeedsReview", "Resolved"}
ConflictState == [start : Nat, length : Nat, mapped : BOOLEAN, state : State]
Metadata == [endings : Seq(Ending), conflicts : [Conflict -> ConflictState]]

\* Everybody uses the conflict buttons; one types and the other chooses new ranges.
User == {"typist", "reviewer"}

Newlines(t) == Cardinality({i \in DOMAIN t : t[i] = "n"})

ASSUME ConstantsAssumption ==
  /\ Text \subseteq Seq(STRING) /\ Writable \subseteq Text /\ LF \in Ending
  /\ InitialText \in Writable /\ InitialMetadata \in Metadata
  /\ Len(InitialMetadata.endings) = Newlines(InitialText)
  /\ \A c \in Conflict : \A f \in Fragment[c] :
       f.text \in Seq(STRING) /\ f.endings \in Seq(Ending) /\ Len(f.endings) = Newlines(f.text)
  /\ None \notin [text : Text, metadata : Metadata]
  /\ UndoLimit \in Nat \ {0, 1} /\ MaxCommands \in [User -> Nat]

VARIABLES
  user,              \* the kind of user, fixed
  text,              \* m_editing->text, the text of the document
  current,           \* m_editing->current
  clean, cleanText,  \* the metadata and text last loaded or saved
  history,           \* entry i + 1: the state at index i, and the command before it
  lastIndex,
  stack, index,      \* QUndoStack: the commands, and how many are done
  pushed,            \* commands pushed so far; names the next one
  captured           \* the copy a host has: to be saved, or kept as a draft

vars == <<user, text, current, clean, cleanText, history, lastIndex, stack, index,
          pushed, captured>>

Mid(t, from, to) == SubSeq(t, from + 1, to)
Largest(S) == CHOOSE k \in S : \A l \in S : l <= k
Smaller(a, b) == IF a < b THEN a ELSE b

End(c) == c.start + c.length
ValidRange(t, c) == End(c) <= Len(t)
Overlap(c, d) == c.start < End(d) /\ d.start < End(c) /\ c.length > 0 /\ d.length > 0

\* resultBytes() can serialise a text with one ending for each line break.
Serializable(t, m) == t \in Writable /\ Len(m.endings) = Newlines(t)
Modified == text # cleanText \/ current # clean

-----------------------------------------------------------------------------
(* documentEdited: what a change of the text does to the metadata.         *)

CommonPrefix(s, t) ==
  Largest({k \in 0..Smaller(Len(s), Len(t)) : Mid(s, 0, k) = Mid(t, 0, k)})
CommonSuffix(s, t, prefix) ==
  Largest({k \in 0..Smaller(Len(s), Len(t)) - prefix :
             Mid(s, Len(s) - k, Len(s)) = Mid(t, Len(t) - k, Len(t))})

\* Line breaks typed in take the ending of the line before them.
EndingsKept(e, leading, removed, inserted) ==
  SubSeq(e, 1, leading) \o inserted \o SubSeq(e, leading + 1, Len(e))
ReplaceEndings(e, leading, removed, inserted) ==
  SubSeq(e, 1, leading) \o inserted \o SubSeq(e, leading + removed + 1, Len(e))
DefaultEnding(e, leading) ==
  IF leading \in 1..Len(e) THEN e[leading] ELSE IF e = <<>> THEN LF ELSE e[1]

\* An edit before a conflict moves it, one inside asks for a review, and one
\* across its boundary loses its place.
Touches(c, prefix, end) == c.mapped /\ end > c.start /\ prefix < End(c)
Precedes(c, end) == c.mapped /\ end <= c.start
Inside(c, prefix, end) == prefix >= c.start /\ end < End(c)
Touched(c, prefix, end, inserted, mapped, state) ==
  LET first == Smaller(c.start, prefix)
      last == IF End(c) > end THEN End(c) - end + prefix + inserted ELSE prefix + inserted
  IN [start |-> first, length |-> last - first, mapped |-> mapped, state |-> state]

MovedKeepsState(c, prefix, end, inserted) ==
  IF Precedes(c, end) THEN [c EXCEPT !.start = @ + inserted - (end - prefix)]
  ELSE IF Touches(c, prefix, end)
    THEN Touched(c, prefix, end, inserted, Inside(c, prefix, end), c.state)
  ELSE c
Moved(c, prefix, end, inserted) ==
  IF Precedes(c, end) THEN [c EXCEPT !.start = @ + inserted - (end - prefix)]
  ELSE IF Touches(c, prefix, end)
    THEN Touched(c, prefix, end, inserted, Inside(c, prefix, end), "NeedsReview")
  ELSE c

DocumentEdited(m, before, next) ==
  LET prefix == CommonPrefix(before, next)
      suffix == CommonSuffix(before, next, prefix)
      end == Len(before) - suffix
      inserted == Len(next) - suffix - prefix
      leading == Newlines(Mid(before, 0, prefix))
      added == Newlines(Mid(next, prefix, prefix + inserted))
  IN [endings |-> ReplaceEndings(m.endings, leading, Newlines(Mid(before, prefix, end)),
                    [i \in 1..added |-> DefaultEnding(m.endings, leading)]),
      conflicts |-> [c \in Conflict |-> Moved(m.conflicts[c], prefix, end, inserted)]]

\* A replacement may be signalled as a removal followed by an insertion.
Signalled(m, before, next) ==
  LET prefix == CommonPrefix(before, next)
      kept == Mid(before, 0, prefix) \o
              Mid(before, Len(before) - CommonSuffix(before, next, prefix), Len(before))
  IN {DocumentEdited(m, before, next),
      DocumentEdited(DocumentEdited(m, before, kept), kept, next)}

-----------------------------------------------------------------------------
(* undoIndexChanged.                                                       *)

\* QUndoStack forgot its oldest commands: so does the sidecar.
NotRebased(h, s) == h
Rebased(h, s) ==
  LET at == {i \in 2..Len(h) : s # <<>> /\ h[i].command = s[1].id}
  IN IF at = {} THEN h
     ELSE LET i == CHOOSE i \in at : \A j \in at : i <= j
          IN SubSeq(h, i - 1, Len(h))

CommandAt(s, i) == IF i = 0 THEN 0 ELSE s[i].id

MatchesText(h, s, i, t) == i < Len(h) /\ h[i + 1].text = t
Matches(h, s, i, t) ==
  i < Len(h) /\ h[i + 1].command = CommandAt(s, i) /\ h[i + 1].text = t

Entry(s, i, t, m) == [metadata |-> m, text |-> t, command |-> CommandAt(s, i)]

\* Qt's stack s now stands at index i; t is the text and m the metadata the
\* signals left, which a merge command has forced.  A state known from before is
\* restored; anything else is recorded, and forgets what could be redone.
UndoIndexChanged(s, i, t, m, forced) ==
  LET h == Rebased(history, s)
      matches == Matches(h, s, i, t)
      kept == IF i >= lastIndex /\ ~matches THEN SubSeq(h, 1, i) ELSE h
  IN /\ stack' = s /\ index' = i /\ lastIndex' = i /\ text' = t
     /\ current' = IF matches /\ ~forced THEN h[i + 1].metadata ELSE m
     /\ history' = IF matches /\ ~forced THEN h
                   ELSE IF i < Len(kept) THEN [kept EXCEPT ![i + 1] = Entry(s, i, t, m)]
                   ELSE Append(kept, Entry(s, i, t, m))

-----------------------------------------------------------------------------
(* The undo stack.                                                         *)

Push(command, t, m, forced) ==
  LET all == Append(SubSeq(stack, 1, index), command)
      s == IF Len(all) > UndoLimit THEN Tail(all) ELSE all
  IN /\ pushed < MaxCommands[user] /\ pushed' = pushed + 1
     /\ UndoIndexChanged(s, Len(s), t, m, forced)
     /\ UNCHANGED <<user, clean, cleanText, captured>>

\* Typing, pasting or deleting: a native command of the editor.
Type ==
  \E t \in Text \ {text} :
    /\ user = "typist"
    /\ \E m \in Signalled(current, text, t) :
         Push([id |-> pushed + 1, native |-> TRUE, before |-> text, after |-> t],
              t, m, FALSE)

\* Typing that Qt merges into the last command: no new command is pushed.
TypeMore ==
  \E t \in Text \ {text} :
    /\ user = "typist" /\ index > 0 /\ stack[index].native
    /\ pushed < MaxCommands[user] /\ pushed' = pushed + 1
    /\ \E m \in Signalled(current, text, t) :
         UndoIndexChanged(SubSeq(stack, 1, index - 1) \o <<[stack[index] EXCEPT !.after = t]>>,
                          index, t, m, FALSE)
    /\ UNCHANGED <<user, clean, cleanText, captured>>

\* A merge command installs its own metadata after the document's signals.
PushMerge(t, m) ==
  Push([id |-> pushed + 1, native |-> FALSE, before |-> text, after |-> t,
        undo |-> current, redo |-> m], t, m, TRUE)

\* A native command says only which text it restores.
Undo ==
  /\ index > 0
  /\ LET command == stack[index]
     IN IF command.native
          THEN \E m \in Signalled(current, text, command.before) :
                 UndoIndexChanged(stack, index - 1, command.before, m, FALSE)
          ELSE UndoIndexChanged(stack, index - 1, command.before, command.undo, TRUE)
  /\ UNCHANGED <<user, clean, cleanText, pushed, captured>>

Redo ==
  /\ index < Len(stack)
  /\ LET command == stack[index + 1]
     IN IF command.native
          THEN \E m \in Signalled(current, text, command.after) :
                 UndoIndexChanged(stack, index + 1, command.after, m, FALSE)
          ELSE UndoIndexChanged(stack, index + 1, command.after, command.redo, TRUE)
  /\ UNCHANGED <<user, clean, cleanText, pushed, captured>>

-----------------------------------------------------------------------------
(* The conflict buttons.                                                   *)

Replaceable(c) ==
  /\ current.conflicts[c].mapped
  /\ ValidRange(text, current.conflicts[c])
  /\ Serializable(text, current)
  /\ \A d \in Conflict \ {c} :
       ~(current.conflicts[d].mapped /\ Overlap(current.conflicts[d], current.conflicts[c]))

\* replaceConflictFragment: the fragment and all metadata in one command.
Replaced(c, fragment, state) ==
  LET old == current.conflicts[c]
      delta == Len(fragment.text) - old.length
  IN [endings |-> ReplaceEndings(current.endings, Newlines(Mid(text, 0, old.start)),
                    Newlines(Mid(text, old.start, End(old))), fragment.endings),
      conflicts |-> [d \in Conflict |->
         LET other == current.conflicts[d]
         IN IF d = c THEN [old EXCEPT !.length = Len(fragment.text), !.state = state]
            ELSE IF other.mapped /\ other.start >= End(old)
              THEN [other EXCEPT !.start = @ + delta]
              ELSE other]]

\* chooseConflict, or replaceConflictText with its resolved flag.
ChooseConflict(c, fragment, state) ==
  LET old == current.conflicts[c]
      t == Mid(text, 0, old.start) \o fragment.text \o Mid(text, End(old), Len(text))
      m == Replaced(c, fragment, state)
  IN /\ Replaceable(c) /\ t \in Text /\ Serializable(t, m)
     /\ PushMerge(t, m)

\* markConflictResolved and markConflictUnresolved.
ChangeState(c, state) ==
  /\ current.conflicts[c].mapped /\ Serializable(text, current)
  /\ PushMerge(text, [current EXCEPT !.conflicts[c].state = state])

ReviewConflictRange(c) ==
  /\ user = "reviewer"
  /\ \E start \in 0..Len(text) : \E length \in 0..Len(text) - start :
       PushMerge(text, [current EXCEPT !.conflicts[c] =
         [start |-> start, length |-> length, mapped |-> TRUE, state |-> "NeedsReview"]])

-----------------------------------------------------------------------------
(* Saving, drafts and discarding.                                          *)

\* requestSave hands an owned copy to the host, which may take its time.
RequestSave ==
  /\ captured = None /\ Serializable(text, current)
  /\ captured' = [text |-> text, metadata |-> current]
  /\ UNCHANGED <<text, current, clean, cleanText, history, lastIndex, stack, index, user, pushed>>

\* acknowledgeSaved: clean only if nothing has changed since.
AcknowledgeAnySave ==
  /\ captured # None /\ captured' = None
  /\ clean' = current /\ cleanText' = text
  /\ UNCHANGED <<text, current, history, lastIndex, stack, index, user, pushed>>
AcknowledgeSaved ==
  /\ captured # None /\ captured' = None
  /\ IF captured = [text |-> text, metadata |-> current]
       THEN clean' = current /\ cleanText' = text
       ELSE UNCHANGED <<clean, cleanText>>
  /\ UNCHANGED <<text, current, history, lastIndex, stack, index, user, pushed>>

\* The host could not save.
SaveFailed ==
  /\ captured # None /\ captured' = None
  /\ UNCHANGED <<text, current, clean, cleanText, history, lastIndex, stack, index, user, pushed>>

\* Another document takes the place of RESULT, clean and without a history.
Load(t, m) ==
  /\ text' = t /\ current' = m /\ cleanText' = t /\ clean' = m
  /\ history' = <<[metadata |-> m, text |-> t, command |-> 0]>>
  /\ lastIndex' = 0 /\ stack' = <<>> /\ index' = 0
  /\ UNCHANGED <<user, pushed, captured>>

\* setSession again, with the session that was loaded.
DiscardChanges == Load(InitialText, InitialMetadata)

\* A host gives back what it has captured, over a RESULT without unsaved edits.
RestoreDraft ==
  /\ captured # None /\ ~Modified
  /\ \A c \in Conflict : LET range == captured.metadata.conflicts[c]
                        IN range.mapped => ValidRange(captured.text, range)
  /\ Load(captured.text, captured.metadata)

Init ==
  /\ user \in User /\ MaxCommands[user] > 0
  /\ text = InitialText /\ current = InitialMetadata
  /\ cleanText = InitialText /\ clean = InitialMetadata
  /\ history = <<[metadata |-> InitialMetadata, text |-> InitialText, command |-> 0]>>
  /\ lastIndex = 0 /\ stack = <<>> /\ index = 0 /\ pushed = 0
  /\ captured = None

Next ==
  \/ Type
  \/ TypeMore
  \/ Undo
  \/ Redo
  \/ \E c \in Conflict, state \in {"Resolved", "NeedsReview"} :
       \E fragment \in Fragment[c] : ChooseConflict(c, fragment, state)
  \/ \E c \in Conflict, state \in {"Resolved", "Unresolved"} : ChangeState(c, state)
  \/ \E c \in Conflict : ReviewConflictRange(c)
  \/ RequestSave
  \/ AcknowledgeSaved
  \/ SaveFailed
  \/ DiscardChanges
  \/ RestoreDraft

Spec == Init /\ [][Next]_vars
-----------------------------------------------------------------------------
Command == [id : Nat \ {0}, native : {TRUE}, before : Text, after : Text] \union
           [id : Nat \ {0}, native : {FALSE}, before : Text, after : Text,
            undo : Metadata, redo : Metadata]

\* The fields of MergeEditingState hold values of their types.
TypeOK ==
  /\ user \in User
  /\ text \in Text /\ cleanText \in Text
  /\ current \in Metadata /\ clean \in Metadata
  /\ history \in Seq([metadata : Metadata, text : Text, command : Nat])
  /\ stack \in Seq(Command) /\ Len(stack) <= UndoLimit
  /\ index \in 0..Len(stack) /\ lastIndex \in Nat /\ pushed \in Nat
  /\ captured \in {None} \union [text : Text, metadata : Metadata]

\* Every line break has exactly one ending, so the RESULT can be written if its text can.
EndingsMatchText == Len(current.endings) = Newlines(text)

\* The sidecar stays parallel to Qt's stack through pushes, merged typing, undo,
\* redo and forgotten commands: each entry is the state its command led to.
HistoryFollowsStack ==
  /\ Len(history) = Len(stack) + 1 /\ lastIndex = index
  /\ \A i \in DOMAIN stack :
       /\ history[i + 1].command = stack[i].id
       /\ history[i].text = stack[i].before /\ history[i + 1].text = stack[i].after
  /\ history[index + 1].text = text /\ history[index + 1].metadata = current

\* Until the user chooses ranges, a conflict that has not lost its place lies inside
\* the text.
MappedRangesAreInText ==
  user = "typist" => \A c \in Conflict : current.conflicts[c].mapped => ValidRange(text, current.conflicts[c])

\* Until the user chooses ranges, two conflicts never claim the same text.
RangesStayApart ==
  \A c, d \in Conflict :
    user = "typist" /\ c # d /\ current.conflicts[c].mapped /\ current.conflicts[d].mapped =>
      \/ End(current.conflicts[c]) <= current.conflicts[d].start
      \/ End(current.conflicts[d]) <= current.conflicts[c].start

\* Conflict ranges and line endings are computed anew for every edit from the
\* positions it reports; they stay those of the text.
MetadataFitsText == TypeOK /\ EndingsMatchText /\ MappedRangesAreInText /\ RangesStayApart

\* A conflict without a place is never taken for resolved.
UnmappedNeedsReview ==
  \A c \in Conflict :
    ~current.conflicts[c].mapped => current.conflicts[c].state = "NeedsReview"

Fragments(t, c) == Mid(t, c.start, End(c))

\* Its range is in the text, and no other conflict begins inside it.
StandsAlone(t, m, c) ==
  /\ ValidRange(t, m.conflicts[c])
  /\ \A d \in Conflict \ {c} : LET other == m.conflicts[d]
                              IN ~(other.mapped /\ m.conflicts[c].start < other.start
                                                /\ other.start < End(m.conflicts[c]))

\* The text of a resolved conflict with a range of its own changes only when that
\* conflict is chosen again, or by undo, redo, discard and restore: typing into it takes
\* the state away, and choosing another conflict moves it with its text.
ResolvedTextStays ==
  [][\A c \in Conflict :
       LET old == current.conflicts[c]
           new == current'.conflicts[c]
       IN /\ old.state = "Resolved" /\ new.state = "Resolved"
          /\ StandsAlone(text, current, c)
          => \/ Fragments(text, old) = Fragments(text', new)
             \/ Undo \/ Redo \/ DiscardChanges \/ RestoreDraft
             \/ \E f \in Fragment[c], state \in State : ChooseConflict(c, f, state)]_vars

\* What counts as clean was loaded, or is exactly what a save has written: a
\* late acknowledgement never clears an edit made while saving.
CleanIsWhatWasStored ==
  [][<<cleanText, clean>>' # <<cleanText, clean>> =>
       \/ <<cleanText, clean>>' = <<InitialText, InitialMetadata>>
       \/ captured = [text |-> cleanText', metadata |-> clean']]_vars

\* The text together with its metadata behaves like an editor with an undo
\* history of UndoLimit steps.
Known(entry) == [text |-> entry.text, metadata |-> entry.metadata]
History == INSTANCE UndoHistory WITH
  State <- [text : Text, metadata : Metadata],
  Initial <- [text |-> InitialText, metadata |-> InitialMetadata],
  Limit <- UndoLimit,
  now <- [text |-> text, metadata |-> current],
  past <- [i \in 1..index |-> Known(history[i])],
  future <- [i \in 1..Len(history) - index - 1 |-> Known(history[index + 1 + i])]
UndoRestoresMetadata == History!Spec
=============================================================================
