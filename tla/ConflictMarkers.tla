--------------------------- MODULE ConflictMarkers ---------------------------
(***************************************************************************)
(* The automaton that finds conflict blocks in a text                      *)
(* (parseConflictFile), the blocks that the merge views import from it,    *)
(* and how they are written again.                                         *)
(*                                                                         *)
(* A text is a sequence of lines; a line is what the automaton looks at:   *)
(* its first character, how often it is repeated, and the label behind     *)
(* it.  Lines and offsets count from 0, as in the code.                    *)
(***************************************************************************)
EXTENDS Integers, Sequences
LOCAL INSTANCE SequencesExt

\* "t" stands for any character that is no marker; glued is a label without a blank.
Char == {"t", "<", "|", "=", ">"}
LabelKind == {"none", "spaced", "glued"}
Line(ch, run, label) == [ch |-> ch, run |-> run, label |-> label]

\* A half-open range of lines.
Range_(from, to) == [from |-> from, to |-> to]
Slice(text, r) == SubSeq(text, r.from + 1, r.to)

NoRange == Range_(0, -1)
Start(size, literal) ==
  [size |-> size, literal |-> literal, at |-> 0, state |-> "Outside", from |-> 0,
   block |-> [lines |-> NoRange, left |-> NoRange, base |-> NoRange, right |-> NoRange],
   blocks |-> <<>>, error |-> FALSE]

IsText(p, line) == p.at \in p.literal \/ line.ch = "t" \/ line.run < p.size
Malformed(p, line) ==
  \/ line.run # p.size \/ line.label = "glued"
  \/ line.ch = "=" /\ line.label # "none"

\* The fragment that ends before this line.
Fragment(p) == Range_(p.from, p.at)

\* What a well-formed marker does.  A block without "|" has no base.
Marker(p, ch) ==
  LET next == [p EXCEPT !.from = p.at + 1]
  IN CASE p.state = "Outside" /\ ch = "<" ->
            [next EXCEPT !.state = "Left", !.block = Start(p.size, {}).block,
                         !.block.lines = Range_(p.at, p.at)]
       [] p.state = "Left" /\ ch = "|" ->
            [next EXCEPT !.state = "Base", !.block.left = Fragment(p)]
       [] p.state = "Left" /\ ch = "=" ->
            [next EXCEPT !.state = "Right", !.block.left = Fragment(p)]
       [] p.state = "Base" /\ ch = "=" ->
            [next EXCEPT !.state = "Right", !.block.base = Fragment(p)]
       [] p.state = "Right" /\ ch = ">" ->
            [next EXCEPT !.state = "Outside", !.blocks = Append(@,
              [p.block EXCEPT !.right = Fragment(p), !.lines.to = p.at + 1])]
       [] OTHER -> [p EXCEPT !.error = TRUE]

ReadForgiving(p, line) ==
  IF p.error THEN p
  ELSE LET q == IF IsText(p, line) \/ (p.state = "Right" /\ line.ch = "<" /\ line.run = p.size)
                  THEN p ELSE IF Malformed(p, line) THEN [p EXCEPT !.error = TRUE]
                  ELSE Marker(p, line.ch)
       IN [q EXCEPT !.at = p.at + 1]
Read(p, line) ==
  IF p.error THEN p
  ELSE LET q == IF IsText(p, line) THEN p
                ELSE IF Malformed(p, line) THEN [p EXCEPT !.error = TRUE]
                ELSE Marker(p, line.ch)
       IN [q EXCEPT !.at = p.at + 1]

\* At the end of the input.
Complete(p) == ~p.error /\ p.state = "Outside" /\ \A l \in p.literal : l \in 0..p.at - 1
Parse(text, size, literal) == FoldLeft(Read, Start(size, literal), text)
HasBase(block) == block.base # NoRange

-----------------------------------------------------------------------------
(* Blocks written with markers of another style and length.                *)

\* Labels are kept; a separator has none.
Rendered(text, block, withBase, size) ==
  LET opening == text[block.lines.from + 1]  closing == text[block.lines.to]
      bar == text[block.left.to + 1]
  IN <<Line("<", size, opening.label)>> \o Slice(text, block.left)
     \o (IF withBase THEN <<Line("|", size, bar.label)>> \o Slice(text, block.base) ELSE <<>>)
     \o <<Line("=", size, "none")>> \o Slice(text, block.right)
     \o <<Line(">", size, closing.label)>>

Replaced(text, r, lines) ==
  SubSeq(text, 1, r.from) \o lines \o SubSeq(text, r.to + 1, Len(text))
=============================================================================
