---------------------------- MODULE SequenceDiff ----------------------------
(***************************************************************************)
(* The O(NP) engine of libdiffcore, which every comparison rests on: a     *)
(* search over diagonals that either records its trace and is turned into  *)
(* hunks (SequenceDiff::compute), or counts changes within a limit         *)
(* (DiffEngine::countChanges).  Each step collects one diagonal; another   *)
(* thread may cancel between any two.                                      *)
(*                                                                         *)
(* Points are (x, y) with x in the shorter sequence a, y in the longer b;  *)
(* diagonal k holds those with y - x = k, and fp[k] is the furthest y      *)
(* reached there.  Positions count from 0, as in the code.                 *)
(***************************************************************************)
EXTENDS Integers, Sequences, FiniteSets, SequencesExt

CONSTANTS
  Alphabets,     \* sets of lines, after interning; both inputs are over one of them
  MaxLength,     \* bound on the length of an input
  MaxTrace,      \* the trace entries a comparison may record
  MaxDistances   \* the limits of counting; 0 is none

ASSUME SequenceDiffAssumption ==
  /\ MaxLength \in Nat /\ MaxTrace \in Nat /\ MaxDistances \subseteq Nat

VARIABLES
  job, left, right, maxDistance,   \* what is asked
  status,
  a, b,                            \* m_a and m_b: what is searched
  fp, p, k,                        \* m_fp, and the loops of compare
  trace,                           \* m_collection
  distance,                        \* editDistance, or the distance counted
  hunks                            \* the script, before hunks are merged

Element == UNION Alphabets
asked == <<job, left, right, maxDistance>>
vars == <<asked, status, a, b, fp, p, k, trace, distance, hunks>>

Inputs(alphabet) == UNION {[1..n -> alphabet] : n \in 0..MaxLength}
Abs(i) == IF i < 0 THEN -i ELSE i
Type == {"Equal", "Insert", "Delete", "Replace"}
Hunk(type, ls, lc, rs, rc) ==
  [type |-> type, ls |-> ls, lc |-> lc, rs |-> rs, rc |-> rc]

M == Len(a)
N == Len(b)
Delta == N - M
Shorter(s, t) == IF Len(s) > Len(t) THEN t ELSE s
Longer(s, t) == IF Len(s) > Len(t) THEN s ELSE t

-----------------------------------------------------------------------------
(* The search.                                                             *)

\* The diagonals of round p: up to Delta, down to it, and Delta itself.
First(round) == IF -round < Delta THEN -round ELSE Delta
Following(d) ==
  IF d > Delta THEN d - 1
  ELSE IF d < Delta - 1 THEN d + 1
  ELSE IF p > 0 THEN Delta + p ELSE Delta

SnakeShort(d, y) ==
  LET x == y - d
      matching == {n \in 1..M : x + n <= M /\ y + n < N /\
                     \A i \in 1..n : a[x + i] = b[y + i]}
  IN y + Max(matching \union {0})

\* The y reached from y along diagonal d while elements match.
SnakeEnd(d, y) ==
  LET x == y - d
      matching == {n \in 1..M : x + n <= M /\ y + n <= N /\
                     \A i \in 1..n : a[x + i] = b[y + i]}
  IN y + Max(matching \union {0})

Inserting(d) == fp[d - 1] + 1 > fp[d + 1]
Furthest(d) == SnakeEnd(d, IF Inserting(d) THEN fp[d - 1] + 1 ELSE fp[d + 1])
Direction(d) == IF Inserting(d) THEN 1 ELSE -1

-----------------------------------------------------------------------------
(* From the trace to hunks.                                                *)

\* findMainBranch: backwards from the end, always to the last entry of the
\* diagonal that the step came from.
Preceded(e, branch) ==
  IF branch # <<>> /\ e.k # Head(branch).k - Head(branch).dir THEN branch
  ELSE <<e>> \o branch
MainBranch(entries) ==
  LET n == Len(entries)
      branch[i \in 0..n] == IF i = 0 THEN <<>> ELSE Preceded(entries[n - i + 1], branch[i - 1])
  IN branch[n]

\* backtrack: the path from (0, 0) to (M, N), one edit and what matches after it
\* at a time.  Deletions in a row become one hunk, insertions do not.
X(e) == e.y - e.k
Edit(e, dir) == IF dir < 0 THEN Hunk("Delete", X(e), 1, e.y, 0)
                           ELSE Hunk("Insert", X(e), 0, e.y, 1)
Matched(e, next) ==
  LET dx == X(next) - X(e)
      dy == next.y - e.y
      n == IF dx < dy THEN dx ELSE dy
  IN IF n > 0 THEN <<Hunk("Equal", X(next) - n, n, next.y - n, n)>> ELSE <<>>
AppendEdit(script, e, dir) ==
  LET last == script[Len(script)]
  IN IF script # <<>> /\ dir < 0 /\ last.type = "Delete"
       THEN [script EXCEPT ![Len(script)].lc = @ + 1]
       ELSE Append(script, Edit(e, dir))
Origin == [k |-> 0, y |-> 0]
Extended(script, e, next) == AppendEdit(script, e, next.dir) \o Matched(e, next)
Backtrack(branch) ==
  LET n == Len(branch) - 1
      script[i \in 0..n] == IF i = 0 THEN Matched(Origin, branch[1])
                            ELSE Extended(script[i - 1], branch[i], branch[i + 1])
  IN script[n]

\* unswapBlocks: x is the left side again.
UnswappedRangesOnly(h) == Hunk(h.type, h.rs, h.rc, h.ls, h.lc)
Unswapped(h) ==
  Hunk(CASE h.type = "Insert" -> "Delete" [] h.type = "Delete" -> "Insert" [] OTHER -> h.type,
       h.rs, h.rc, h.ls, h.lc)
Script(entries) ==
  LET script == Backtrack(MainBranch(entries))
  IN IF Len(left) > Len(right) THEN [i \in DOMAIN script |-> Unswapped(script[i])] ELSE script

\* mergeReplaceHunks: a run of changes becomes one hunk.
MergeChange(out, h) ==
  LET last == out[Len(out)]
  IN IF out = <<>> \/ h.type = "Equal" \/ last.type = "Equal" THEN Append(out, h)
     ELSE [out EXCEPT ![Len(out)] =
             Hunk(IF h.type = last.type THEN h.type ELSE "Replace", last.ls,
                  h.ls + h.lc - last.ls, last.rs, h.rs + h.rc - last.rs)]
MergeChanges(script) ==
  LET out[i \in 0..Len(script)] == IF i = 0 THEN <<>> ELSE MergeChange(out[i - 1], script[i])
  IN out[Len(script)]

\* coalesceAdjacentHunks: neighbours of one type become one hunk.
CoalesceOne(out, h) ==
  LET last == out[Len(out)]
  IN IF out = <<>> \/ h.type # last.type THEN Append(out, h)
     ELSE [out EXCEPT ![Len(out)].lc = @ + h.lc, ![Len(out)].rc = @ + h.rc]
Coalesce(script) ==
  LET out[i \in 0..Len(script)] == IF i = 0 THEN <<>> ELSE CoalesceOne(out[i - 1], script[i])
  IN out[Len(script)]

\* SequenceDiffOptions: mergeReplaceHunks and coalesceAdjacentSameType.
Presented(script, merge, coalesce) ==
  LET merged == IF merge THEN MergeChanges(script) ELSE script
  IN IF coalesce THEN Coalesce(merged) ELSE merged

-----------------------------------------------------------------------------
(* compute and countChanges.                                               *)

Search(s, t) ==
  /\ a' = Shorter(s, t) /\ b' = Longer(s, t)
  /\ fp' = [d \in -(Len(a') + 1)..Len(b') + 1 |-> -1]
  /\ p' = 0 /\ k' = 0
  /\ trace' = <<>> /\ status' = "searching"
  /\ UNCHANGED <<asked, distance, hunks>>

Finish(outcome, d, script) ==
  /\ status' = outcome /\ distance' = d /\ hunks' = script
  /\ UNCHANGED <<asked, a, b, fp, p, k, trace>>

\* Nothing on one side, or the same on both, needs no search.
Compute ==
  /\ status = "asked" /\ job = "compute"
  /\ IF left = right
       THEN Finish("complete", 0,
              IF left = <<>> THEN <<>> ELSE <<Hunk("Equal", 0, Len(left), 0, Len(right))>>)
     ELSE IF left = <<>> \/ right = <<>>
       THEN Finish("complete", Len(left) + Len(right),
              <<Hunk(IF right = <<>> THEN "Delete" ELSE "Insert", 0, Len(left), 0, Len(right))>>)
     ELSE Search(left, right)

Exceeds(d) == maxDistance > 0 /\ d > maxDistance
Prefix == Max({n \in 0..Len(left) : n <= Len(right) /\
                 \A i \in 1..n : left[i] = right[i]})
Trimmed(s, suffix) == SubSeq(s, Prefix + 1, Len(s) - suffix)
Suffix ==
  Max({n \in 0..Len(left) - Prefix : n <= Len(right) - Prefix /\
         \A i \in 0..n - 1 : left[Len(left) - i] = right[Len(right) - i]})
Occurrences(s, e) == Cardinality({i \in 1..Len(s) : s[i] = e})
\* The copies of its elements, numbered; what no script can do without: every copy
\* that only one side has.
Copies(s) == {c \in ToSet(s) \X (1..Len(s)) : c[2] <= Occurrences(s, c[1])}
Imbalance(s, t) == Cardinality((Copies(s) \ Copies(t)) \union (Copies(t) \ Copies(s)))

\* Equal ends are trimmed, and cheap lower bounds are tried first.
Count ==
  LET s == Trimmed(left, Suffix)
      t == Trimmed(right, Suffix)
      total == Len(s) + Len(t)
  IN /\ status = "asked" /\ job = "count"
     /\ IF Exceeds(Abs(Len(s) - Len(t))) \/ Exceeds(Imbalance(s, t))
          THEN Finish("tooMany", 0, <<>>)
        ELSE IF s = <<>> \/ t = <<>>
          THEN Finish(IF Exceeds(total) THEN "tooMany" ELSE "complete", total, <<>>)
        ELSE Search(s, t)

\* One diagonal.  Only compute records a trace, and no more than it may.
MayRecord == job = "compute" => Len(trace) < MaxTrace
Collect ==
  /\ status = "searching" /\ MayRecord
  /\ fp' = [fp EXCEPT ![k] = Furthest(k)]
  /\ trace' = IF job = "compute"
              THEN Append(trace, [k |-> k, y |-> Furthest(k), dir |-> Direction(k)])
              ELSE trace
  /\ UNCHANGED <<asked, a, b>>

NextDiagonal ==
  /\ k # Delta /\ Collect
  /\ k' = Following(k)
  /\ UNCHANGED <<status, p, distance, hunks>>

\* The end of a round: counting gives up once the next one is beyond its limit.
NextRound ==
  /\ k = Delta /\ Furthest(k) # N /\ Collect
  /\ IF job = "count" /\ Exceeds(Delta + 2 * (p + 1))
       THEN status' = "tooMany" /\ UNCHANGED <<p, k>>
       ELSE p' = p + 1 /\ k' = First(p + 1) /\ UNCHANGED status
  /\ UNCHANGED <<distance, hunks>>

Found ==
  /\ k = Delta /\ Furthest(k) = N /\ Collect
  /\ status' = "complete" /\ distance' = Delta + 2 * p
  /\ hunks' = IF job = "compute" THEN Script(trace') ELSE <<>>
  /\ UNCHANGED <<p, k>>

\* A checkpoint throws: the token is cancelled, the deadline has passed or a limit
\* is reached.  Nothing of the computation is kept.
Stop ==
  /\ status \in {"asked", "searching"}
  /\ status' = "stopped" /\ UNCHANGED <<asked, a, b, fp, p, k, trace, distance, hunks>>

Init ==
  /\ job \in {"compute", "count"}
  /\ \E alphabet \in Alphabets : left \in Inputs(alphabet) /\ right \in Inputs(alphabet)
  /\ maxDistance \in IF job = "count" THEN MaxDistances ELSE {0}
  /\ status = "asked" /\ a = <<>> /\ b = <<>>
  /\ fp = [d \in -1..1 |-> -1] /\ p = 0 /\ k = 0
  /\ trace = <<>> /\ distance = 0 /\ hunks = <<>>

Next == Compute \/ Count \/ NextDiagonal \/ NextRound \/ Found \/ Stop

Spec == Init /\ [][Next]_vars
-----------------------------------------------------------------------------
\* Members of Diff have their types, and the search stays inside: there are no more
\* rounds than the shorter side has elements, while diagonal k is collected k - 1 and
\* k + 1 are indices of m_fp, and no point reached is beyond the end of a sequence.
TypeOK ==
  /\ job \in {"compute", "count"} /\ left \in Seq(Element) /\ right \in Seq(Element)
  /\ status \in {"asked", "searching", "complete", "tooMany", "stopped"}
  /\ M <= N /\ p \in 0..M
  /\ k - 1 \in DOMAIN fp /\ k + 1 \in DOMAIN fp
  /\ \A d \in DOMAIN fp : fp[d] \in -1..N /\ fp[d] - d <= M
  /\ \A i \in DOMAIN trace :
       trace[i].y \in 0..N /\ trace[i].y - trace[i].k \in 0..M /\ trace[i].dir \in {-1, 1}

\* The hunks of a script follow each other through both sides without a gap; an
\* equal hunk matches element by element, and a change really touches its sides.
Covers(script, s, t) ==
  LET n == Len(script)
      At(i) == IF i = 0 THEN Hunk("Equal", 0, 0, 0, 0)
               ELSE IF i > n THEN Hunk("Equal", Len(s), 0, Len(t), 0) ELSE script[i]
  IN \A i \in 0..n :
       /\ At(i).ls + At(i).lc = At(i + 1).ls
       /\ At(i).rs + At(i).rc = At(i + 1).rs
Fits(h, s, t) ==
  /\ h \in [type : Type, ls : Nat, lc : Nat, rs : Nat, rc : Nat]
  /\ h.type = "Equal" => h.lc = h.rc /\ \A i \in 1..h.lc : s[h.ls + i] = t[h.rs + i]
  /\ h.type = "Insert" => h.lc = 0 /\ h.rc > 0
  /\ h.type = "Delete" => h.rc = 0 /\ h.lc > 0
  /\ h.type = "Replace" => h.lc > 0 /\ h.rc > 0
ValidScript(script, s, t) == Covers(script, s, t) /\ \A i \in DOMAIN script : Fits(script[i], s, t)

\* What compute returns turns the left side into the right one, however its hunks
\* are merged; merged and coalesced, neighbouring hunks differ in type.
ScriptIsValid ==
  status = "complete" /\ job = "compute" => \A merge, coalesce \in BOOLEAN :
    LET script == Presented(hunks, merge, coalesce)
    IN /\ ValidScript(script, left, right)
       /\ coalesce => \A i \in 1..Len(script) - 1 : script[i].type # script[i + 1].type

\* The search stays in its array, and what it returns is a script (TypeOK, ScriptIsValid).
ScriptIsSound == TypeOK /\ ScriptIsValid

\* The reference: the length of the longest common subsequence, by dynamic programming
\* row after row.
NextRow(above, e, t) ==
  LET row[j \in 0..Len(t)] ==
        IF j = 0 THEN 0
        ELSE IF e = t[j] THEN above[j - 1] + 1
        ELSE IF above[j] > row[j - 1] THEN above[j] ELSE row[j - 1]
  IN row
Common(s, t) ==
  LET rows[i \in 0..Len(s)] ==
        IF i = 0 THEN [j \in 0..Len(t) |-> 0] ELSE NextRow(rows[i - 1], s[i], t)
  IN rows[Len(s)][Len(t)]
Least == Len(left) + Len(right) - 2 * Common(left, right)
Touched(h) == IF h.type = "Equal" THEN 0 ELSE h.lc + h.rc
Changed(script) ==
  LET sum[i \in 0..Len(script)] == IF i = 0 THEN 0 ELSE sum[i - 1] + Touched(script[i])
  IN sum[Len(script)]

\* No script is shorter: the furthest points, the record of directions and the way
\* back through the trace together lose nothing.
ScriptIsMinimal ==
  status = "complete" /\ job = "compute" => distance = Least /\ Changed(hunks) = Least

\* Counting and comparing agree: counts are those of a shortest script, and they are
\* refused exactly if it is longer than the limit, for whichever reason.
CountsAreExact ==
  /\ status = "complete" /\ job = "count" =>
       distance = Least /\ (maxDistance = 0 \/ Least <= maxDistance)
  /\ status = "tooMany" => maxDistance > 0 /\ Least > maxDistance

\* What compute and countChanges say of two inputs is what the reference says.
DistanceIsExact == ScriptIsMinimal /\ CountsAreExact
=============================================================================
