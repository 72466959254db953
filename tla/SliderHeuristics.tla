--------------------------- MODULE SliderHeuristics ---------------------------
(***************************************************************************)
(* DiffEngine::compute on lines: the script of SequenceDiff, then slider   *)
(* heuristics that move inserted or deleted blocks to boundaries a reader  *)
(* would choose (applySliderHeuristics, on unless switched off).           *)
(*                                                                         *)
(* The rules ask of a line how far it is indented and how it begins or     *)
(* ends; Indent and Label answer.  Interning keeps lines apart here, as it *)
(* does without normalisation.                                             *)
(***************************************************************************)
EXTENDS SequenceDiff

CONSTANTS
  Indent,   \* indentWidth of a line
  Label     \* what the rules find in the trimmed line

Labels == {"blank", "//", "bare //", "#", "bare #", "/*", "*/", "section", "mark", "},", "{"}

ASSUME SliderAssumption ==
  /\ Indent \in [Element -> Nat]
  /\ Label \in [Element -> SUBSET Labels]

-----------------------------------------------------------------------------
(* adjustPosition: where a block of size lines at position at ends up.     *)

Is(label, lines, at) == at \in 0..Len(lines) - 1 /\ label \in Label[lines[at + 1]]
Same(lines, at, other) == lines[at + 1] = lines[other + 1]

\* The lines before the block that equal the last lines of the block.
SlackBeyond(at, size, lines) ==
  Max({n \in 0..at :
         \A i \in 2..n : at + size - i < Len(lines) /\ Same(lines, at - i, at + size - i)})
Slack(at, size, lines) ==
  Max({n \in 0..at :
         \A i \in 1..n : at + size - i < Len(lines) /\ Same(lines, at - i, at + size - i)})

\* How many lines from the block's edge on have a property, at most limit.
Run(limit, Holds(_)) == Max({n \in 0..limit : \A i \in 1..n : Holds(i)})

\* H5, H3b, H6, H7, H2, H3 and H4, in this order: how far the block moves back.
Back(at, size, lines) ==
  LET slack == Slack(at, size, lines)
      line(i) == lines[at - i + 1]
      H5 == /\ at >= 2 /\ at + size <= Len(lines)
            /\ Is("},", lines, at - 2) /\ Is("{", lines, at - 1)
            /\ Same(lines, at - 2, at + size - 2) /\ Same(lines, at - 1, at + size - 1)
      H3b == slack > 0 /\ Is("/*", lines, at - slack) /\ Is("*/", lines, at - 1)
      comments == Run(slack, LAMBDA i : Is("//", lines, at - i))
      H7 == slack >= 2 /\ Is("blank", lines, at - 2) /\ ~Is("blank", lines, at - 1)
      outdented == {i \in 1..slack : Indent[line(i)] < Indent[line(0)]}
      H2 == /\ slack > 0 /\ Indent[line(slack)] = Indent[line(0)]
            /\ \A i \in 1..slack : Label[line(i)] \cap {"//", "#"} # {}
      H3 == /\ at > 0 /\ at + size <= Len(lines) /\ Same(lines, at - 1, at + size - 1)
            /\ Is("section", lines, at - 1)
      marks == {i \in 1..slack : Is("mark", lines, at - i)}
  IN IF H5 THEN 1
     ELSE IF H3b THEN slack
     ELSE IF comments > 0 THEN comments
     ELSE IF H7 THEN 1
     ELSE IF outdented # {} THEN Min(outdented)
     ELSE IF H2 THEN slack
     ELSE IF H3 THEN 1
     ELSE IF marks # {} THEN Max(marks)
     ELSE IF Is("mark", lines, at - 1) THEN 1
     ELSE 0

\* H1: the same kind of filler before and after the block moves across it.
Forward(at, size, lines) ==
  LET kind == {label \in {"blank", "bare //", "bare #"} : Is(label, lines, at)}
      Filler(i) == \E label \in kind : Is(label, lines, i)
      inside == Run(size, LAMBDA i : Filler(at + i - 1))
      after == Run(Len(lines), LAMBDA i : Filler(at + size + i - 1))
  IN IF inside < after THEN inside ELSE after

Adjusted(at, size, lines) ==
  IF at \notin 0..Len(lines) - 1 \/ size < 1 THEN at
  ELSE LET back == at - Back(at, size, lines) IN back + Forward(back, size, lines)

\* Both sides of the block move; what is around it stays.
Slid(h) ==
  LET delta == CASE h.type = "Insert" -> Adjusted(h.rs, h.rc, right) - h.rs
                 [] h.type = "Delete" -> Adjusted(h.ls, h.lc, left) - h.ls
                 [] OTHER -> 0
  IN [h EXCEPT !.ls = @ + delta, !.rs = @ + delta]
Computed == LET script == Presented(hunks, TRUE, TRUE) IN [i \in DOMAIN script |-> Slid(script[i])]

-----------------------------------------------------------------------------
\* A block that moves is still the same edit: without it, its side reads as it did
\* without the block at its old place, whichever rules moved it.
Without(lines, at, size) == SubSeq(lines, 1, at) \o SubSeq(lines, at + size + 1, Len(lines))
SlidBlocksAreTheSameEdit ==
  status = "complete" /\ job = "compute" =>
    LET script == Presented(hunks, TRUE, TRUE)
    IN \A i \in DOMAIN script :
         LET h == script[i]
         IN CASE h.type = "Insert" ->
                   Without(right, Slid(h).rs, h.rc) = Without(right, h.rs, h.rc)
              [] h.type = "Delete" ->
                   Without(left, Slid(h).ls, h.lc) = Without(left, h.ls, h.lc)
              [] OTHER -> Slid(h) = h

\* What a reader of the printed hunks relies on: the changes are in order, between
\* them lie as many lines on one side as on the other, and these lines are the same.
Changes(script) == SelectSeq(script, LAMBDA h : h.type # "Equal")
Explains(script, s, t) ==
  LET changes == Changes(script)
      End(i) == IF i = 0 THEN Hunk("Equal", 0, 0, 0, 0) ELSE changes[i]
      Start(i) == IF i > Len(changes) THEN Hunk("Equal", Len(s), 0, Len(t), 0) ELSE changes[i]
  IN \A i \in 0..Len(changes) :
       LET l == End(i).ls + End(i).lc
           r == End(i).rs + End(i).rc
           between == Start(i + 1).ls - l
       IN /\ between >= 0 /\ Start(i + 1).rs - r = between
          /\ \A n \in 1..between : s[l + n] = t[r + n]

SlidBlocksExplainTheFiles ==
  status = "complete" /\ job = "compute" => Explains(Computed, left, right)
=============================================================================
