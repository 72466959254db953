--------------------------- MODULE MCMergeEditing ---------------------------
(* Constants of the runs of MergeEditing: short texts, one or two conflicts. *)
EXTENDS MergeEditing

CONSTANTS MaxLength, CRLF, c1, c2, Typist, Reviewer

MCMaxCommands == [typist |-> Typist, reviewer |-> Reviewer]

MCText == UNION {[1..n -> {"x", "n"}] : n \in 0..MaxLength}
\* The limits admit two line breaks.
MCWritable == {t \in MCText : Newlines(t) <= 2}
\* Bound: whoever chooses ranges does so in shorter texts, and does not save them.
ShortReviews == user = "reviewer" => Len(text) <= 2 /\ captured = None

MCInitialText == <<"x", "n">>

\* The first line, which ends in CRLF, and if there are two the last.
MCInitialMetadata ==
  [endings |-> <<CRLF>>,
   conflicts |-> [c \in Conflict |->
     IF c = c1 THEN [start |-> 0, length |-> 2, mapped |-> TRUE, state |-> "Unresolved"]
               ELSE [start |-> 2, length |-> 0, mapped |-> TRUE, state |-> "Unresolved"]]]

\* A line of its own ending, for the first conflict nothing, for the second a character.
MCLine == [text |-> <<"n">>, endings |-> <<LF>>]
Unbroken(t) == [text |-> t, endings |-> <<>>]
MCFragment ==
  [c \in Conflict |-> {MCLine, Unbroken(IF c = c1 THEN <<>> ELSE <<"x">>)}]
=============================================================================
