--------------------------- MODULE MCSequenceDiff ---------------------------
(* Lines and their looks, for the runs of SequenceDiff and SliderHeuristics. *)
EXTENDS SliderHeuristics

CONSTANTS plain, other, inner, blank, hash, comment, doc, docEnd, open, close, mark

MCIndent == [e \in Element |-> IF e \in {inner, docEnd} THEN 1 ELSE 0]
MCLabel == [e \in Element |->
  CASE e = blank -> {"blank"}
    [] e = hash -> {"#", "bare #"}
    [] e = comment -> {"//"}
    [] e = doc -> {"/*", "section"}
    [] e = docEnd -> {"*/"}
    [] e = open -> {"{"}
    [] e = close -> {"},"}
    [] e = mark -> {"mark"}
    [] OTHER -> {}]

\* One alphabet per rule that may move a block, and one of plain lines.
MCAlphabets == {{plain, other}, {plain, inner}, {blank, plain}, {hash, plain},
                {comment, plain}, {doc, docEnd}, {open, close}}
MCMarked == {{mark, plain}}
=============================================================================
