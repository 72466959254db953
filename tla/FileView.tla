------------------------------ MODULE FileView ------------------------------
(***************************************************************************)
(* How FileDiffWidget shows an unmodified comparison: the rows that        *)
(* ViewProjection makes of its hunks, side by side or unified, with long   *)
(* unchanged runs folded; folds that are opened by a click, by a revealed  *)
(* range or by search results; the positions that DiffEditor and           *)
(* ScrollSyncMapper translate between lines, rows and sides; navigation.   *)
(*                                                                         *)
(* Lines and blocks count from 0, as in the code, and -1 is no line.       *)
(* Rows are elements of a sequence; a row's position in the code is one    *)
(* less than its index.                                                    *)
(***************************************************************************)
EXTENDS Integers, Sequences, FiniteSets, SequencesExt

CONSTANTS
  Scripts,    \* the hunks of a comparison, in order
  Contexts,   \* numbers of context lines that are chosen
  Targets     \* ranges [side, start, count] that are revealed or, with one line, found

VARIABLES
  script,     \* the installed comparison
  mode,       \* m_viewMode
  skip,       \* m_skipUnchanged
  context,    \* m_contextLines
  opened,     \* m_openedFolds: each by the left line it starts with
  rows,       \* m_projection
  search,     \* m_leftSearch and m_rightSearch
  emphasis,   \* m_emphasis
  current     \* m_currentHunk

vars == <<script, mode, skip, context, opened, rows, search, emphasis, current>>

Side == {"Left", "Right"}
Opposite(side) == IF side = "Left" THEN "Right" ELSE "Left"
Larger(i, j) == IF i > j THEN i ELSE j
Start(h, side) == IF side = "Left" THEN h.ls ELSE h.rs
Count(h, side) == IF side = "Left" THEN h.lc ELSE h.rc
End(h, side) == Start(h, side) + Count(h, side)
LineCount(side) == IF script = <<>> THEN 0 ELSE End(Last(script), side)
Blocks == SelectSeq(script, LAMBDA h : h.type # "Equal")
NoEmphasis == [side |-> "Left", start |-> -1, count |-> 0]   \* no emphasis

-----------------------------------------------------------------------------
(* AlignedLineModel: both sides padded to the same rows.                   *)

AlignedRows ==
  LET At(h, side, i) == IF i < Count(h, side) THEN Start(h, side) + i ELSE -1
      Of(h) == [i \in 1..Larger(h.lc, h.rc) |->
                  [Left |-> At(h, "Left", i - 1), Right |-> At(h, "Right", i - 1), type |-> h.type]]
  IN FlattenSeq([n \in DOMAIN script |-> Of(script[n])])
DocLineBefore(side, aligned, row) ==
  Len(SelectSeq(SubSeq(aligned, 1, row), LAMBDA r : r[side] >= 0))
\* fillerRanges: runs of placeholders of one type, by the line they precede.
FillerRanges(side, aligned) ==
  LET Add(fillers, i) ==
        LET r == aligned[i]
            before == DocLineBefore(side, aligned, i)
            continues == i > 1 /\ aligned[i - 1][side] < 0 /\ aligned[i - 1].type = r.type
        IN IF r[side] >= 0 THEN fillers
           ELSE IF continues THEN [fillers EXCEPT ![Len(fillers)].count = @ + 1]
           ELSE Append(fillers, [line |-> before, count |-> 1])
  IN FoldLeft(Add, <<>>, [i \in DOMAIN aligned |-> i])

-----------------------------------------------------------------------------
(* ViewProjection.                                                         *)

Row(left, right, type) == [Left |-> left, Right |-> right, hidden |-> 0, type |-> type]
\* Between equal runs, everything removed comes before everything added.
AllRows ==
  LET Both(h) == [i \in 1..h.lc |-> Row(h.ls + i - 1, h.rs + i - 1, h.type)]
      Removed(h) == [i \in 1..h.lc |-> Row(h.ls + i - 1, -1, h.type)]
      Added(h) == [i \in 1..h.rc |-> Row(-1, h.rs + i - 1, h.type)]
      Flushed(made) == made.all \o made.removed \o made.added
      Take(made, h) ==
        IF h.type = "Equal"
          THEN [all |-> Flushed(made) \o Both(h), removed |-> <<>>, added |-> <<>>]
          ELSE [made EXCEPT !.removed = @ \o Removed(h), !.added = @ \o Added(h)]
  IN Flushed(FoldLeft(Take, [all |-> <<>>, removed |-> <<>>, added |-> <<>>], script))

\* What a run of equal rows from..to may hide: the context of the changes around
\* it stays, but the ends of the files need none.
FoldOfEvery(from, to, size, lines) == (from + lines)..(to - lines)
FoldOf(from, to, size, lines) ==
  (IF from = 1 THEN from ELSE from + lines)..(IF to = size THEN to ELSE to - lines)

\* The folds that stay closed, as positions in all, where equal rows are at equal.
Closed(all, equal, lines, open) ==
  {fold \in {FoldOf(i, Min({j \in equal : j >= i /\ j + 1 \notin equal}), Len(all), lines) :
              i \in {n \in equal : n - 1 \notin equal}} :
     fold # {} /\ all[Min(fold)].Left \notin open}
\* The first row of a fold stands for all of it.
WithFolds(all, folds) ==
  LET Take(made, i) ==
        IF \E fold \in folds : i \in fold /\ i # Min(fold) THEN made
        ELSE Append(made, [all[i] EXCEPT !.hidden = Cardinality(UNION {f \in folds : i \in f})])
  IN FoldLeft(Take, <<>>, [i \in DOMAIN all |-> i])
ProjectedFrom(all, skipped, lines, open) ==
  IF skipped
    THEN WithFolds(all, Closed(all, {i \in DOMAIN all : all[i].type = "Equal"}, lines, open))
    ELSE all
Projected(skipped, lines, open) == ProjectedFrom(AllRows, skipped, lines, open)

Covered(row, side) ==
  IF row[side] < 0 THEN {} ELSE row[side]..(row[side] + Larger(1, row.hidden) - 1)
\* The row that stands for a line, counted from 0; after the last one if none does.
RowIn(shown, side, line) ==
  LET at == {i \in DOMAIN shown : line \in Covered(shown[i], side)}
  IN IF at = {} THEN Len(shown) ELSE Min(at) - 1

-----------------------------------------------------------------------------
(* Positions.  Without folds a pane is its document; with them it shows    *)
(* the rows that have a line on its side.                                  *)

PaneRows(side) == SelectSeq(rows, LAMBDA r : r[side] >= 0)
DisplayLine(side, line) == IF skip THEN RowIn(PaneRows(side), side, line) ELSE line
OriginalLine(side, row) ==
  IF ~skip THEN row
  ELSE IF row \in 0..Len(PaneRows(side)) - 1 THEN PaneRows(side)[row + 1][side]
  ELSE LineCount(side)
UnifiedLine(side, line) == RowIn(rows, side, line)

\* ScrollSyncMapper::correspondingLine, of a whole line and rounded down.
CorrespondingLine(from, line) ==
  LET to == Opposite(from)
      at == {n \in DOMAIN script : line \in Start(script[n], from)..End(script[n], from) - 1}
  IN IF script = <<>> THEN line
     ELSE IF at = {} THEN LineCount(to) + line - LineCount(from)
     ELSE LET h == script[Min(at)]
              offset == line - Start(h, from)
          IN CASE h.type = "Equal" -> Start(h, to) + offset
               [] h.type = "Replace" -> Start(h, to) + (offset * Count(h, to)) \div Count(h, from)
               [] OTHER -> Start(h, to)

\* Where the other pane is put when a pane is scrolled to have row at its anchor.
ScrolledTo(from, row) ==
  DisplayLine(Opposite(from), CorrespondingLine(from, OriginalLine(from, row)))

-----------------------------------------------------------------------------
(* Folds and highlights.                                                   *)

Overlaps(row, range) ==
  LET first == row[range.side]
  IN range.start < first + row.hidden /\ range.start + Larger(1, range.count) > first
FoldsOf(shown, ranges) ==
  {r.Left : r \in {row \in ToSet(shown) : row.hidden > 0 /\ \E range \in ranges : Overlaps(row, range)}}
Marked == search \union ({emphasis} \ {NoEmphasis})

\* rebuildProjection: folds that hide a highlight are opened.
Rebuild(skipped, lines, open) ==
  /\ opened' = open \union FoldsOf(Projected(skipped, lines, open), Marked)
  /\ rows' = Projected(skipped, lines, opened')

OpenContaining(ranges) ==
  LET found == FoldsOf(rows, ranges)
  IN IF found # {} THEN Rebuild(skip, context, opened \union found)
                   ELSE UNCHANGED <<opened, rows>>

SetViewMode ==
  /\ mode' = IF mode = "SideBySide" THEN "Unified" ELSE "SideBySide"
  /\ Rebuild(skip, context, opened)
  /\ UNCHANGED <<script, skip, context, search, emphasis, current>>

SetUnchangedLinesSkipped ==
  /\ skip' = ~skip /\ Rebuild(~skip, context, {})
  /\ UNCHANGED <<script, mode, context, search, emphasis, current>>

SetContextLines(lines) ==
  /\ lines # context
  /\ context' = lines /\ Rebuild(skip, lines, {})
  /\ UNCHANGED <<script, mode, skip, search, emphasis, current>>

FoldClicked(row) ==
  /\ row.hidden > 0 /\ Rebuild(skip, context, opened \union {row.Left})
  /\ UNCHANGED <<script, mode, skip, context, search, emphasis, current>>

RevealLines(range, emphasize) ==
  /\ range.start + range.count <= LineCount(range.side)
  /\ OpenContaining({range})
  /\ emphasis' = IF emphasize THEN range ELSE NoEmphasis
  /\ current' = -1
  /\ UNCHANGED <<script, mode, skip, context, search>>

SetSearchHighlights(side, lines) ==
  LET ranges == {[side |-> side, start |-> line, count |-> 1] : line \in lines}
  IN /\ \A line \in lines : line <= LineCount(side)
     /\ OpenContaining(ranges)
     /\ search' = {range \in search : range.side # side} \union ranges
     /\ UNCHANGED <<script, mode, skip, context, emphasis, current>>

ClearSearchHighlights ==
  /\ search' = {} /\ emphasis' = NoEmphasis
  /\ UNCHANGED <<script, mode, skip, context, opened, rows, current>>

-----------------------------------------------------------------------------
(* Navigation.                                                             *)

\* The line of side that the cursor is at, in its pane or in the unified one.
CursorLine(side, row) ==
  IF mode = "SideBySide" \/ row \notin 0..Len(rows) - 1 THEN OriginalLine(side, row)
  ELSE LET r == rows[row + 1]
       IN IF r[side] >= 0 THEN r[side] ELSE CorrespondingLine(Opposite(side), r[Opposite(side)])
NextFrom(side, line) == {i \in DOMAIN Blocks : Start(Blocks[i], side) >= line}
PreviousFrom(side, line) == {i \in DOMAIN Blocks : Start(Blocks[i], side) <= line}

Navigate(block) ==
  /\ block \in DOMAIN Blocks /\ current' = block - 1
  /\ UNCHANGED <<script, mode, skip, context, opened, rows, search, emphasis>>
NavigateToNext(side, row) ==
  LET after == NextFrom(side, CursorLine(side, row))
  IN current < 0 /\ after # {} /\ Navigate(Min(after))
NavigateToPrev(side, row) ==
  LET before == PreviousFrom(side, CursorLine(side, row))
  IN current < 0 /\ before # {} /\ Navigate(Max(before))
\* While no cursor has moved, both go on from the current change.
NavigateOn == current >= 0 /\ (Navigate(current) \/ Navigate(current + 2))
CursorMoved ==
  /\ current # -1 /\ current' = -1
  /\ UNCHANGED <<script, mode, skip, context, opened, rows, search, emphasis>>

Init ==
  /\ script \in Scripts /\ context \in Contexts
  /\ mode = "SideBySide" /\ skip = FALSE /\ opened = {}
  /\ rows = Projected(FALSE, context, {})
  /\ search = {} /\ emphasis = NoEmphasis /\ current = -1

Next ==
  \/ SetViewMode
  \/ SetUnchangedLinesSkipped
  \/ \E lines \in Contexts : SetContextLines(lines)
  \/ \E row \in ToSet(rows) : FoldClicked(row)
  \/ \E range \in Targets, emphasize \in BOOLEAN : RevealLines(range, emphasize)
  \/ \E side \in Side :
       \E found \in SUBSET {range \in Targets : range.side = side /\ range.count = 1} :
         SetSearchHighlights(side, {range.start : range \in found})
  \/ ClearSearchHighlights
  \/ \E side \in Side, row \in 0..Len(rows) - 1 : NavigateToNext(side, row)
  \/ \E side \in Side, row \in 0..Len(rows) - 1 : NavigateToPrev(side, row)
  \/ NavigateOn
  \/ CursorMoved

Spec == Init /\ [][Next]_vars
-----------------------------------------------------------------------------
\* Every line of both files is in exactly one row, in order; a row with a line of
\* each side has lines that the comparison matched, and so has a fold, line by line.
EveryLineIsInARow ==
  \A side \in Side :
    LET pane == PaneRows(side)
        From(n) == IF n > Len(pane) THEN LineCount(side) ELSE pane[n][side]
    IN /\ From(1) = 0
       /\ \A n \in DOMAIN pane :
            /\ Covered(pane[n], side) = From(n)..From(n + 1) - 1
            /\ pane[n][Opposite(side)] >= 0 =>
                 /\ pane[n].type = "Equal"
                 /\ \A line \in Covered(pane[n], side) :
                      CorrespondingLine(side, line) - line = pane[n][Opposite(side)] - pane[n][side]

\* Folds hide nothing but lines further from every change than the context, only if
\* unchanged lines are skipped, and all of those until a fold is opened.
FoldsKeepContext ==
  LET all == AllRows
      Far(i) == \A j \in DOMAIN all : all[j].type # "Equal" => i - j > context \/ j - i > context
      Hidden(i) == \E r \in ToSet(rows) : r.hidden > 0 /\ all[i].Left \in Covered(r, "Left")
  IN \A i \in DOMAIN all :
       /\ Hidden(i) => skip /\ Far(i)
       /\ skip /\ opened = {} /\ Far(i) => Hidden(i)

\* A highlight is never on the text that stands for folded lines, whatever was
\* revealed, searched, opened and switched in whichever order; and what is painted
\* for a range in a pane has as many rows as the range has lines.
HighlightsAreShown ==
  /\ \A range \in Marked, r \in ToSet(rows) : ~(r.hidden > 0 /\ Overlaps(r, range))
  /\ \A range \in {b \in Marked : b.start < LineCount(b.side)}
                 \union {[side |-> side, start |-> Start(h, side), count |-> Count(h, side)] :
                           h \in ToSet(Blocks), side \in Side} :
       DisplayLine(range.side, range.start + range.count)
         - DisplayLine(range.side, range.start) = range.count

\* Scrolling one pane puts the matched line, or the same fold, next to its anchor,
\* and never moves the other pane against the direction of the scroll.
ScrollingStaysAligned ==
  \A from \in Side :
    LET pane == PaneRows(from)
        At(n) == IF skip THEN n - 1 ELSE pane[n][from]
    IN \A n \in DOMAIN pane :
         /\ pane[n][Opposite(from)] >= 0 =>
              ScrolledTo(from, At(n)) = DisplayLine(Opposite(from), pane[n][Opposite(from)])
         /\ n > 1 => ScrolledTo(from, At(n - 1)) <= ScrolledTo(from, At(n))

\* Padded by the fillers before it, a line is in the row the model aligned it to.
FillersAlign ==
  LET aligned == AlignedRows
  IN \A side \in Side, i \in DOMAIN aligned :
       aligned[i][side] >= 0 =>
         LET line == aligned[i][side]
             before == SelectSeq(FillerRanges(side, aligned), LAMBDA f : f.line <= line)
         IN /\ line + FoldLeft(LAMBDA n, f : n + f.count, 0, before) = i - 1
            /\ DocLineBefore(side, aligned, i - 1) = line

\* Next and Previous skip no change, wherever the cursor is and whatever is folded.  In
\* the unified view, where the cursor may be at a line of the other side, changes
\* without an equal row between them are one to the reader: their rows are mixed.
NavigationSkipsNothing ==
  \A side \in Side :
    LET own(h) == IF h.lc > 0 THEN "Left" ELSE "Right"
        Shown(h) == IF mode = "Unified" THEN UnifiedLine(own(h), Start(h, own(h)))
                    ELSE DisplayLine(side, Start(h, side))
        Apart(i, j) == mode = "Unified" => \E n \in i..j : rows[n + 1].type = "Equal"
        shown == [i \in DOMAIN Blocks |-> Shown(Blocks[i])]
        size == IF mode = "Unified" THEN Len(rows)
                ELSE IF skip THEN Len(PaneRows(side)) ELSE LineCount(side)
    IN \A row \in 0..size - 1, i \in DOMAIN Blocks :
         /\ shown[i] > row /\ Apart(row, shown[i]) => i \in NextFrom(side, CursorLine(side, row))
         /\ shown[i] < row /\ Apart(shown[i], row) => i \in PreviousFrom(side, CursorLine(side, row))

\* What the view promises of every comparison it shows.
ViewIsFaithful ==
  /\ EveryLineIsInARow /\ FoldsKeepContext /\ HighlightsAreShown
  /\ ScrollingStaysAligned /\ FillersAlign /\ NavigationSkipsNothing
=============================================================================
