----------------------------- MODULE MCLibraries -----------------------------
(* Constants of the run of Libraries; those of the comparison are MCSequenceDiff's. *)
EXTENDS Libraries, MCSequenceDiff

\* Comparisons with up to four changes: at an end of the files, next to each other,
\* with short and with long unchanged runs.
AppendHunk(script, shape) ==
  LET end == IF script = <<>> THEN Hunk("Equal", 0, 0, 0, 0) ELSE Last(script)
  IN Append(script, Hunk(shape[1], end.ls + end.lc, shape[2], end.rs + end.rc, shape[3]))
Eq(n) == <<"Equal", n, n>>
Ins == <<"Insert", 0, 2>>
Del == <<"Delete", 1, 0>>
Rep(l, r) == <<"Replace", l, r>>
MCScripts ==
  {FoldLeft(AppendHunk, <<>>, shapes) : shapes \in
     {<<>>, <<Eq(9)>>, <<Ins>>, <<Rep(3, 1), Eq(4), Ins, Eq(2)>>,
      <<Eq(1), Ins, Del, Eq(4), Rep(1, 1), Del, Eq(1)>>}
     \union {<<Eq(3), change, Eq(7)>> : change \in {Ins, Del, Rep(1, 3)}}}
Target(side, start, count) == [side |-> side, start |-> start, count |-> count]
MCTargets ==
  {Target("Left", 1, 2), Target("Left", 6, 1), Target("Right", 7, 1), Target("Right", 3, 0)}

\* RESULT of up to six lines, with markers of length 2.
MarkerLine(ch, length, label) == [ch |-> ch, run |-> length, label |-> label]
MCText == MarkerLine("t", 0, "none")
MCLines ==
  {MCText, MarkerLine("<", 2, "spaced"), MarkerLine("|", 2, "none"), MarkerLine("=", 2, "none"),
   MarkerLine(">", 2, "none"), MarkerLine("=", 1, "none"), MarkerLine("=", 3, "none"),
   MarkerLine("=", 2, "spaced"), MarkerLine(">", 2, "glued")}
Exported(disposition, format, style, size) ==
  [disposition |-> disposition, format |-> format, style |-> style, size |-> size]
MCExports ==
  {Exported("Draft", "Markers", "Preserve", 2), Exported("Draft", "Markers", "Merge", 2),
   Exported("Draft", "Markers", "Diff3", 3), Exported("Draft", "HostBuffer", "Preserve", 2),
   Exported("Resolved", "Markers", "Preserve", 2)}
MCSources ==
  {<<MCText>>, <<MarkerLine("=", 2, "none")>>,
   <<MarkerLine("<", 2, "none"), MarkerLine("=", 2, "none"), MarkerLine(">", 2, "none")>>}

\* Files with at most two conflicts.  A line is one or two bytes and a newline, 0; the
\* bytes 91 to 94 stand for the markers, 9 for the common text before a block.
One == <<1, 0>>
Two == <<2, 0>>
Three == <<3, 0>>
Four == <<4, 0>>
Piece(from, size) == [start |-> from, length |-> size]
WithBlock(file, block) ==
  LET begin == Len(file.bytes) + 1
      l == block[1]  base == block[2]  r == block[3]
      middle == IF base = None THEN <<>> ELSE <<92>> \o base
      body == <<91>> \o l \o middle \o <<93>> \o r \o <<94>>
  IN [bytes |-> file.bytes \o <<9>> \o body,
      blocks |-> Append(file.blocks,
        [envelope |-> Piece(begin, Len(body)), left |-> Piece(begin + 1, Len(l)),
         base |-> IF base = None THEN None ELSE Piece(begin + Len(l) + 2, Len(base)),
         right |-> Piece(begin + Len(l) + Len(middle) + 2, Len(r))])]
FileWith(blocks) == FoldLeft(WithBlock, [bytes |-> <<>>, blocks |-> <<>>], blocks)

\* Sides that change, move, drop or add lines, or extend one by some bytes.
Few == {<<>>, One, Two, One \o Two, Two \o One, One \o Four, Four \o Two}
Long == {Four \o Two \o Three, One \o Two \o Three \o Four, Four \o One \o Two \o Three,
         One \o Four \o Three, One \o Four \o Two \o Three, Two \o Three, Four \o Three, Four}
SingleBlocks ==
  {<<l, base, r>> : l \in Few, base \in {One \o Two, None, One}, r \in Few}
  \union {<<l, One \o Two \o Three, r>> : l \in Long, r \in Long}
  \union {<<l, One \o One, r>> :
            l \in {One, One \o Four, Four}, r \in {<<>>, Four \o One, Four}}
  \union {<<<<4, 1, 0>>, One, r>> : r \in Few}
PairedBlocks == {<<One \o Four, One \o Two, Two>>, <<One, None, Two>>, <<Four, One, <<>>>>}
MCInputs ==
  {FileWith(<<block>>) : block \in SingleBlocks}
  \union {FileWith(<<s, t>>) : s, t \in PairedBlocks} \union {FileWith(<<>>)}
MCBudget ==
  [n \in 0..2 |-> IF n = 1 THEN [plans |-> 2, reviews |-> 0] ELSE [plans |-> 1, reviews |-> 2]]
MCReviewed == {<<7, 0>>, <<>>}

\* The command with an input, a file a that exists, one that does not, each of them
\* but a with a second name through a linked directory, and a symbolic link.
MCPath == {"in", "linked/in", "a", "new", "linked/new", "symlink"}
MCFileOf ==
  [path \in MCPath |-> CASE path = "linked/in" -> "in" [] path = "linked/new" -> "new" [] OTHER -> path]
=============================================================================
