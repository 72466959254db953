----------------------------- MODULE MergeExport -----------------------------
(***************************************************************************)
(* Exporting RESULT (prepareMergeExport): a draft keeps its unresolved     *)
(* conflicts as markers, in the same or another style; a resolved result   *)
(* has none.  The conflicts the editor tracks and the markers the text     *)
(* holds are checked against each other, and the exported ranges follow    *)
(* the text.                                                               *)
(*                                                                         *)
(* RESULT grows line by line and is then exported once.  The conflicts of  *)
(* its blocks are tracked with exact ranges, as import does; one more,     *)
(* that was edited, may lie anywhere.  Ranges are ranges of lines.         *)
(***************************************************************************)
EXTENDS ConflictMarkers, FiniteSets
LOCAL INSTANCE SequencesExt

CONSTANTS
  Lines,         \* the lines RESULT may have
  MarkerSize,    \* the length of its markers
  Options,       \* records: disposition, format, style, size
  Sources,       \* texts of a whole file that may replace RESULT
  MaxLines,      \* bound on RESULT
  None

VARIABLES
  text,          \* RESULT
  parser,        \* the automaton, having read it
  conflicts,     \* what was captured with it, or None
  outcome        \* of the export, or None

vars == <<text, parser, conflicts, outcome>>

State == {"Unresolved", "NeedsReview", "Resolved"}
Conflict(r, state, mapped) == [range |-> r, state |-> state, mapped |-> mapped]
Refused == [status |-> "Error"]
Exported(disposition, lines, tracked, size, markers) ==
  [status |-> "Ready", disposition |-> disposition, text |-> lines, conflicts |-> tracked,
   size |-> size, markers |-> markers]

-----------------------------------------------------------------------------

\* RESULT gets another line.
Add(line) ==
  /\ conflicts = None /\ Len(text) < MaxLines /\ ~parser.error
  /\ text' = Append(text, line) /\ parser' = Read(parser, line)
  /\ UNCHANGED <<conflicts, outcome>>

\* The widget is captured.  The states of the conflicts do not follow the text.
Capture ==
  /\ conflicts = None /\ Complete(parser)
  /\ LET blocks == parser.blocks
         tracked == {[i \in DOMAIN blocks |-> Conflict(blocks[i].lines, state, TRUE)] :
                       state \in {"Unresolved", "Resolved"}}
         edited == {Conflict(Range_(from, to), state, mapped) :
                      from \in 0..Len(text), to \in 0..Len(text), state \in State, mapped \in BOOLEAN}
     IN \E list \in tracked :
          \/ conflicts' = list
          \/ \E e \in edited :
               /\ e.range.to - e.range.from \in {0, 1} /\ (e.mapped \/ e.state # "Resolved")
               /\ conflicts' = Append(list, e)
          \/ list # <<>> /\ conflicts' = Tail(list)
  /\ UNCHANGED <<text, parser, outcome>>

-----------------------------------------------------------------------------
(* prepareMergeExport.                                                     *)

Overlap(a, b) == a.from < b.to /\ b.from < a.to
\* Sorted by start, no range begins before its predecessor's end.
Ordered(list) ==
  \A i, j \in DOMAIN list : i # j /\ list[i].range.from <= list[j].range.from =>
    \/ list[i].range.to <= list[j].range.from
    \/ list[i].range.from = list[j].range.from /\ list[j].range.to <= list[i].range.from

MapsAll(list) == \A i \in DOMAIN list : list[i].mapped
Tracks(list, block) == {i \in DOMAIN list : list[i].range = block.lines}

\* The text's markers are tracked by open conflicts, and every open conflict has
\* its markers.
MarkersMatch(list, blocks) ==
  /\ \A b \in DOMAIN blocks :
       LET tracking == Tracks(list, blocks[b])
       IN tracking # {} /\ \A i \in tracking : list[i].state # "Resolved"
  /\ \A i \in DOMAIN list : list[i].state # "Resolved" =>
       \E b \in DOMAIN blocks : list[i].range = blocks[b].lines

\* Blocks are rewritten from the last to the first, in the coordinates of the
\* original; the conflicts behind one move.
Shifted(c, block, length) ==
  LET delta == length - (block.lines.to - block.lines.from)
  IN IF c.range = block.lines THEN [c EXCEPT !.range.to = @ + delta]
     ELSE IF c.range.from >= block.lines.to
       THEN [c EXCEPT !.range = Range_(@.from + delta, @.to + delta)]
     ELSE c

Restyle(done, block, option) ==
  LET lines == Rendered(text, block, option.style # "Merge", option.size)
  IN [text |-> Replaced(done.text, block.lines, lines),
      conflicts |-> [i \in DOMAIN done.conflicts |->
                       Shifted(done.conflicts[i], block, Len(lines))]]
Restyled(option) ==
  FoldLeft(LAMBDA done, block : Restyle(done, block, option),
           [text |-> text, conflicts |-> conflicts], Reverse(parser.blocks))

Unresolved == \E i \in DOMAIN conflicts : conflicts[i].state # "Resolved"
Exportable(option) ==
  /\ option.disposition = "Resolved" => ~Unresolved
  /\ MapsAll(conflicts) /\ Ordered(conflicts)
  /\ MarkersMatch(conflicts, parser.blocks)
  /\ option.style \in {"Diff3", "ZDiff3"} =>
       \A b \in DOMAIN parser.blocks : HasBase(parser.blocks[b])

\* A host buffer keeps the bytes and all ambiguities of a draft.
Export(option) ==
  /\ conflicts # None /\ outcome = None
  /\ outcome' =
       IF option.disposition = "Draft" /\ option.format = "HostBuffer"
         THEN IF option.style = "Preserve"
                THEN Exported("Draft", text, conflicts, MarkerSize, FALSE) ELSE Refused
       ELSE IF ~Exportable(option) THEN Refused
       ELSE IF option.style = "Preserve"
         THEN Exported(option.disposition, text, conflicts, MarkerSize, TRUE)
       ELSE LET new == Restyled(option)
            IN Exported(option.disposition, new.text, new.conflicts, option.size, TRUE)
  /\ UNCHANGED <<text, parser, conflicts>>

\* A whole source replaces RESULT; it decides all conflicts.
ExportSource(source) ==
  /\ conflicts # None /\ outcome = None
  /\ LET parsed == Parse(source, MarkerSize, {})
     IN outcome' = IF Complete(parsed) /\ parsed.blocks = <<>>
          THEN Exported("Resolved", source,
                 [i \in DOMAIN conflicts |-> Conflict(NoRange, "Resolved", FALSE)],
                 MarkerSize, TRUE)
          ELSE Refused
  /\ UNCHANGED <<text, parser, conflicts>>

Init == text = <<>> /\ parser = Start(MarkerSize, {}) /\ conflicts = None /\ outcome = None
Next ==
  \/ \E line \in Lines : Add(line)
  \/ Capture
  \/ \E option \in Options : Export(option)
  \/ \E source \in Sources : ExportSource(source)
Spec == Init /\ [][Next]_vars

-----------------------------------------------------------------------------
(* Correctness.                                                            *)

\* What the automaton makes of every text: it is accepted exactly if it is a
\* sequence of plain lines and complete blocks (README, "Nested, missing,
\* repeated, orphan or out-of-order delimiters are diagnostics"); the blocks are
\* in order, and their fragments hold every line between the delimiters once.
Kind(i) == IF text[i].ch # "t" /\ text[i].run >= MarkerSize THEN text[i].ch ELSE "t"
Plain(r) == \A i \in r.from + 1..r.to : Kind(i) = "t"
WellFormed(i) == Kind(i) = "t" \/ ~(text[i].run # MarkerSize \/ text[i].label = "glued"
                                     \/ (text[i].ch = "=" /\ text[i].label # "none"))
Before(ch, i) == Cardinality({j \in 1..i : Kind(j) = ch})
BlocksAreTheMarkers ==
  /\ ~parser.error = (/\ \A i \in DOMAIN text : WellFormed(i)
       /\ \A i \in 1..Len(text) : LET n(ch) == Before(ch, i)
            IN n("<") >= n("=") /\ n("=") >= n(">") /\ n("<") - n(">") \in {0, 1}
               /\ (Kind(i) = "|" => n("<") > n("=") /\ \A j \in 1..i - 1 :
                      Kind(j) = "|" => \E k \in j + 1..i - 1 : Kind(k) = "="))
  /\ \A b \in DOMAIN parser.blocks :
       LET block == parser.blocks[b]
       IN /\ Plain(block.left) /\ Plain(block.right)
          /\ HasBase(block) => Plain(block.base)
          /\ Slice(text, block.lines) = Rendered(text, block, HasBase(block), MarkerSize)
          /\ b > 1 => parser.blocks[b - 1].lines.to <= block.lines.from

\* A draft keeps its unresolved regions as complete, well-formed markers in any
\* style: read again, it has the same blocks, with the same fragments, in the same
\* common text; and the exported ranges delimit them, while the range of a
\* resolved conflict still holds its text.
Fragments(t, block) == <<Slice(t, block.left), Slice(t, block.right)>>
Common(t, parsed, b) ==
  LET from == IF b = 1 THEN 0 ELSE parsed.blocks[b - 1].lines.to
      to == IF b > Len(parsed.blocks) THEN Len(t) ELSE parsed.blocks[b].lines.from
  IN SubSeq(t, from + 1, to)
DraftKeepsConflicts ==
  outcome # None /\ outcome.status = "Ready" /\ outcome.markers /\ outcome.disposition = "Draft" =>
    LET new == Parse(outcome.text, outcome.size, {})
    IN /\ Complete(new) /\ Len(new.blocks) = Len(parser.blocks)
       /\ \A b \in DOMAIN new.blocks :
            Fragments(outcome.text, new.blocks[b]) = Fragments(text, parser.blocks[b])
       /\ \A b \in 1..Len(new.blocks) + 1 : Common(outcome.text, new, b) = Common(text, parser, b)
       /\ \A i \in DOMAIN conflicts :
            LET c == outcome.conflicts[i]
            IN IF c.state = "Resolved"
                 THEN Slice(outcome.text, c.range) = Slice(text, conflicts[i].range)
                 ELSE \E b \in DOMAIN new.blocks : new.blocks[b].lines = c.range

\* What is exported as resolved has no conflict marker and no open conflict.
ResolvedHasNoMarkers ==
  outcome # None /\ outcome.status = "Ready" /\ outcome.disposition = "Resolved" =>
    /\ LET parsed == Parse(outcome.text, MarkerSize, {}) IN Complete(parsed) /\ parsed.blocks = <<>>
    /\ \A i \in DOMAIN outcome.conflicts : outcome.conflicts[i].state = "Resolved"
=============================================================================
