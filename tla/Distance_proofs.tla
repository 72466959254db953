---------------------------- MODULE Distance_proofs ----------------------------
(***************************************************************************)
(* What compute and countChanges say of two inputs is what the reference   *)
(* says: a script is the shortest there is, a count is exact up to its     *)
(* limit, and only what is beyond it is refused.                           *)
(***************************************************************************)
EXTENDS Libraries_proofs

-----------------------------------------------------------------------------
(* The tables of the reference.                                            *)

\* g[i][j] is the length of the longest common subsequence of the first i elements
\* of s and the first j of t.
IsTable(g, s, t) ==
  /\ g \in [0..Len(s) -> [0..Len(t) -> Nat]]
  /\ \A i \in 0..Len(s) : g[i][0] = 0
  /\ \A j \in 0..Len(t) : g[0][j] = 0
  /\ \A i \in 1..Len(s), j \in 1..Len(t) :
       g[i][j] = IF s[i] = t[j] THEN g[i - 1][j - 1] + 1
                 ELSE IF g[i - 1][j] > g[i][j - 1] THEN g[i - 1][j] ELSE g[i][j - 1]

IsRow(row, above, e, t) ==
  /\ row[0] = 0
  /\ \A j \in 1..Len(t) :
       row[j] = IF e = t[j] THEN above[j - 1] + 1
                ELSE IF above[j] > row[j - 1] THEN above[j] ELSE row[j - 1]

LEMMA RowIs ==
  ASSUME NEW t, NEW n \in Nat, Len(t) = n, NEW above \in [0..n -> Nat], NEW e
  PROVE  NextRow(above, e, t) \in [0..n -> Nat] /\ IsRow(NextRow(above, e, t), above, e, t)
<1> DEFINE Cell(j, before) == IF e = t[j] THEN above[j - 1] + 1
                              ELSE IF above[j] > before THEN above[j] ELSE before
           step == [z \in (1..n) \X Nat |-> Cell(z[1], z[2])]
           Recurs(f) == f = [j \in 0..n |-> IF j = 0 THEN 0 ELSE Cell(j, f[j - 1])]
<1>1. \A j \in 1..n, before \in Nat : Cell(j, before) \in Nat
  <2>1. \A j \in 1..n : j \in 0..n /\ j - 1 \in 0..n
    OBVIOUS
  <2>2. \A j \in 1..n : above[j] \in Nat /\ above[j - 1] \in Nat
    BY <2>1
  <2> QED
    BY <2>2
<1>2. NextRow(above, e, t) = CHOOSE f : Recurs(f)
  BY DEF NextRow
<1> HIDE DEF Cell
<1>3. step \in [(1..n) \X Nat -> Nat]
  BY <1>1
<1>4. \A j \in 1..n, before \in Nat : step[<<j, before>>] = Cell(j, before)
  OBVIOUS
<1> HIDE DEF step
<1>5. PICK g : Recursion(g, Nat, n, 0, step)
  BY <1>3, RecursionExists
<1>6. g \in [0..n -> Nat] /\ g[0] = 0 /\ \A j \in 1..n : g[j] = step[<<j, g[j - 1]>>]
  BY <1>5 DEF Recursion
<1>7. \A j \in 1..n : g[j] = Cell(j, g[j - 1])
  <2>1. \A j \in 1..n : j - 1 \in 0..n /\ g[j - 1] \in Nat
    BY <1>6
  <2> QED
    BY <1>4, <1>6, <2>1
<1>8. Recurs(g)
  BY <1>6, <1>7
<1>9. Recurs(CHOOSE f : Recurs(f))
  <2> HIDE DEF Recurs
  <2> QED
    BY <1>8
<1> DEFINE row == CHOOSE f : Recurs(f)
<1>10. /\ DOMAIN row = 0..n /\ row = [j \in 0..n |-> row[j]] /\ row[0] = 0
       /\ \A j \in 1..n : row[j] = Cell(j, row[j - 1])
  <2>1. row = [j \in 0..n |-> IF j = 0 THEN 0 ELSE Cell(j, row[j - 1])]
    BY <1>9
  <2> HIDE DEF row
  <2>2. \A j \in 1..n : j \in 0..n /\ j # 0
    OBVIOUS
  <2>3. 0 \in 0..n
    OBVIOUS
  <2> QED
    BY <2>1, <2>2, <2>3
<1> HIDE DEF Recurs, row
<1>11. \A j \in 1..n : row[j - 1] \in Nat => row[j] \in Nat
  BY <1>1, <1>10
<1>12. row \in [0..n -> Nat]
  <2>1. row[0] \in Nat
    BY <1>10
  <2>2. DOMAIN row = 0..n /\ row = [j \in 0..n |-> row[j]]
    BY <1>10
  <2> HIDE DEF Cell
  <2> QED
    BY <1>11, <2>1, <2>2, StepsAreTyped
<1>13. NextRow(above, e, t) = row
  BY <1>2 DEF row
<1>14. IsRow(row, above, e, t)
  BY <1>10 DEF Cell, IsRow
<1> QED
  BY <1>12, <1>13, <1>14

LEMMA TableExists ==
  ASSUME NEW s, NEW t, NEW m \in Nat, NEW n \in Nat, Len(s) = m, Len(t) = n
  PROVE  \E g : IsTable(g, s, t) /\ Common(s, t) = g[m][n]
<1> DEFINE S == [0..n -> Nat]  base == [j \in 0..n |-> 0]
           step == [z \in (1..m) \X S |-> NextRow(z[2], s[z[1]], t)]
           Recurs(f) == f = [i \in 0..m |-> IF i = 0 THEN base ELSE NextRow(f[i - 1], s[i], t)]
<1>1. base \in S
  OBVIOUS
<1>2. \A i \in 1..m, above \in S : NextRow(above, s[i], t) \in S
  BY RowIs
<1>3. Common(s, t) = (CHOOSE f : Recurs(f))[m][n]
  BY DEF Common
<1>4. \A j \in 0..n : base[j] = 0
  OBVIOUS
<1> HIDE DEF S, base
<1>5. step \in [(1..m) \X S -> S]
  BY <1>2
<1>6. \A i \in 1..m, above \in S : step[<<i, above>>] = NextRow(above, s[i], t)
  OBVIOUS
<1> HIDE DEF step
<1>7. PICK g : Recursion(g, S, m, base, step)
  BY <1>1, <1>5, RecursionExists
<1>8. g \in [0..m -> S] /\ g[0] = base /\ \A i \in 1..m : g[i] = step[<<i, g[i - 1]>>]
  BY <1>7 DEF Recursion
<1>9. \A i \in 1..m : g[i] = NextRow(g[i - 1], s[i], t)
  <2>1. \A i \in 1..m : i - 1 \in 0..m /\ g[i - 1] \in S
    BY <1>8
  <2> QED
    BY <1>6, <1>8, <2>1
<1>10. Recurs(g)
  BY <1>8, <1>9
<1>11. Recurs(CHOOSE f : Recurs(f))
  <2> HIDE DEF Recurs
  <2> QED
    BY <1>10
<1> DEFINE built == CHOOSE f : Recurs(f)
<1>12. /\ DOMAIN built = 0..m /\ built = [i \in 0..m |-> built[i]] /\ built[0] = base
       /\ \A i \in 1..m : built[i] = NextRow(built[i - 1], s[i], t)
  <2>1. built = [i \in 0..m |-> IF i = 0 THEN base ELSE NextRow(built[i - 1], s[i], t)]
    BY <1>11
  <2> HIDE DEF built
  <2>2. \A i \in 1..m : i \in 0..m /\ i # 0
    OBVIOUS
  <2>3. 0 \in 0..m
    OBVIOUS
  <2> QED
    BY <2>1, <2>2, <2>3
<1>13. Common(s, t) = built[m][n]
  BY <1>3
<1> HIDE DEF Recurs, built
<1>14. \A i \in 1..m : built[i - 1] \in S => built[i] \in S
  BY <1>2, <1>12
<1>15. built \in [0..m -> S]
  BY <1>1, <1>12, <1>14, StepsAreTyped
<1>16. ASSUME NEW i \in 1..m
       PROVE  /\ built[i][0] = 0
              /\ \A j \in 1..n :
                   built[i][j] = IF s[i] = t[j] THEN built[i - 1][j - 1] + 1
                                ELSE IF built[i - 1][j] > built[i][j - 1] THEN built[i - 1][j]
                                ELSE built[i][j - 1]
  <2> DEFINE above == built[i - 1]  row == built[i]
  <2>1. i - 1 \in 0..m
    OBVIOUS
  <2>2. above \in S
    BY <1>15, <2>1
  <2>3. above \in [0..n -> Nat]
    BY <2>2 DEF S
  <2>4. row = NextRow(above, s[i], t)
    BY <1>12
  <2> HIDE DEF above, row
  <2>5. IsRow(row, above, s[i], t)
    BY <2>3, <2>4, RowIs
  <2>6. /\ row[0] = 0
        /\ \A j \in 1..n : row[j] = IF s[i] = t[j] THEN above[j - 1] + 1
                                     ELSE IF above[j] > row[j - 1] THEN above[j] ELSE row[j - 1]
    BY <2>5 DEF IsRow
  <2> QED
    BY <2>6 DEF above, row
<1>17. ASSUME NEW i \in 0..m PROVE built[i][0] = 0
  <2>1. i = 0 \/ i \in 1..m
    OBVIOUS
  <2>2. 0 \in 0..n
    OBVIOUS
  <2> QED
    BY <1>4, <1>12, <1>16, <2>1, <2>2
<1>18. IsTable(built, s, t)
  BY <1>4, <1>12, <1>15, <1>16, <1>17 DEF IsTable, S
<1> QED
  BY <1>13, <1>18

\* From a cell to the next one, in either direction, the length grows by at most one.
LEMMA TableSteps ==
  ASSUME NEW g, NEW s, NEW t, NEW m \in Nat, NEW n \in Nat, Len(s) = m, Len(t) = n, IsTable(g, s, t)
  PROVE  /\ \A i \in 1..m, j \in 0..n : g[i - 1][j] <= g[i][j] /\ g[i][j] <= g[i - 1][j] + 1
         /\ \A i \in 0..m, j \in 1..n : g[i][j - 1] <= g[i][j] /\ g[i][j] <= g[i][j - 1] + 1
<1> DEFINE Across(i) == \A j \in 1..n : g[i][j - 1] <= g[i][j] /\ g[i][j] <= g[i][j - 1] + 1
           Down(i, j) == g[i - 1][j] <= g[i][j] /\ g[i][j] <= g[i - 1][j] + 1
           H == {i \in 0..m : Across(i) /\ (i > 0 => \A j \in 0..n : Down(i, j))}
<1>1. \A i \in 0..m, j \in 0..n : g[i][j] \in Nat
  BY DEF IsTable
<1>2. 0 \in H
  <2>1. \A j \in 0..n : g[0][j] = 0
    BY DEF IsTable
  <2>2. \A j \in 1..n : j \in 0..n /\ j - 1 \in 0..n
    OBVIOUS
  <2> QED
    BY <2>1, <2>2
<1>3. ASSUME NEW i \in 1..m, i - 1 \in H PROVE i \in H
  <2>1. i \in 0..m /\ i - 1 \in 0..m /\ i > 0
    OBVIOUS
  <2>2. Across(i - 1)
    BY <1>3
  <2> DEFINE K == {j \in 0..n : Down(i, j) /\ (j > 0 => g[i][j - 1] <= g[i][j] /\ g[i][j] <= g[i][j - 1] + 1)}
  <2>3. 0 \in K
    <3>1. g[i][0] = 0 /\ g[i - 1][0] = 0
      BY <2>1 DEF IsTable
    <3> QED
      BY <3>1
  <2>4. ASSUME NEW j \in 1..n, j - 1 \in K PROVE j \in K
    <3> DEFINE w == g[i][j]  u == g[i - 1][j]  l == g[i][j - 1]  c == g[i - 1][j - 1]
    <3>1. j \in 0..n /\ j - 1 \in 0..n
      OBVIOUS
    <3>2. w \in Nat /\ u \in Nat /\ l \in Nat /\ c \in Nat
      BY <1>1, <2>1, <3>1
    <3>3. c <= u /\ u <= c + 1
      BY <2>2
    <3>4. c <= l /\ l <= c + 1
      BY <2>4
    <3>5. w = c + 1 \/ w = IF u > l THEN u ELSE l
      BY DEF IsTable
    <3> HIDE DEF w, u, l, c
    <3>6. u <= w /\ w <= u + 1 /\ l <= w /\ w <= l + 1
      BY <3>2, <3>3, <3>4, <3>5
    <3> QED
      BY <3>1, <3>6 DEF w, u, l
  <2> HIDE DEF K
  <2>5. \A j \in 0..n : j \in K
    BY <2>3, <2>4, StepByStep
  <2>6. \A j \in 0..n : Down(i, j)
    BY <2>5 DEF K
  <2>7. Across(i)
    <3>1. \A j \in 1..n : j \in 0..n /\ j > 0
      OBVIOUS
    <3> QED
      BY <2>5, <3>1 DEF K
  <2> QED
    BY <2>1, <2>6, <2>7
<1> HIDE DEF H
<1>4. \A i \in 0..m : i \in H
  BY <1>2, <1>3, StepByStep
<1>5. \A i \in 1..m : i \in 0..m /\ i > 0
  OBVIOUS
<1> QED
  BY <1>4, <1>5 DEF H

Graded(g, s, t) ==
  /\ \A i \in 0..Len(s), j \in 0..Len(t) : g[i][j] \in Nat /\ g[i][j] <= i /\ g[i][j] <= j
  /\ \A i \in 1..Len(s), j \in 1..Len(t) :
       /\ g[i - 1][j - 1] <= g[i][j] /\ g[i][j] <= g[i - 1][j - 1] + 1
       /\ s[i] = t[j] => g[i][j] = g[i - 1][j - 1] + 1

LEMMA TableBounds ==
  ASSUME NEW g, NEW s, NEW t, NEW m \in Nat, NEW n \in Nat, Len(s) = m, Len(t) = n, IsTable(g, s, t)
  PROVE  Graded(g, s, t)
<1>1. \A i \in 0..m, j \in 0..n : g[i][j] \in Nat
  BY DEF IsTable
<1>2. /\ \A i \in 1..m, j \in 0..n : g[i - 1][j] <= g[i][j] /\ g[i][j] <= g[i - 1][j] + 1
      /\ \A i \in 0..m, j \in 1..n : g[i][j - 1] <= g[i][j] /\ g[i][j] <= g[i][j - 1] + 1
  BY TableSteps
<1>3. ASSUME NEW j \in 0..n PROVE \A i \in 0..m : g[i][j] <= i
  <2> DEFINE H == {i \in 0..m : g[i][j] <= i}
  <2>1. 0 \in H
    BY DEF IsTable
  <2>2. ASSUME NEW i \in 1..m, i - 1 \in H PROVE i \in H
    <3>1. i \in 0..m /\ i - 1 \in 0..m /\ i \in Int
      OBVIOUS
    <3>2. g[i][j] \in Nat /\ g[i - 1][j] \in Nat
      BY <1>1, <3>1
    <3>3. g[i][j] <= g[i - 1][j] + 1 /\ g[i - 1][j] <= i - 1
      BY <1>2, <2>2
    <3> QED
      BY <3>1, <3>2, <3>3
  <2> HIDE DEF H
  <2>3. \A i \in 0..m : i \in H
    BY <2>1, <2>2, StepByStep
  <2> QED
    BY <2>3 DEF H
<1>4. ASSUME NEW i \in 0..m PROVE \A j \in 0..n : g[i][j] <= j
  <2> DEFINE H == {j \in 0..n : g[i][j] <= j}
  <2>1. 0 \in H
    BY DEF IsTable
  <2>2. ASSUME NEW j \in 1..n, j - 1 \in H PROVE j \in H
    <3>1. j \in 0..n /\ j - 1 \in 0..n /\ j \in Int
      OBVIOUS
    <3>2. g[i][j] \in Nat /\ g[i][j - 1] \in Nat
      BY <1>1, <3>1
    <3>3. g[i][j] <= g[i][j - 1] + 1 /\ g[i][j - 1] <= j - 1
      BY <1>2, <2>2
    <3> QED
      BY <3>1, <3>2, <3>3
  <2> HIDE DEF H
  <2>3. \A j \in 0..n : j \in H
    BY <2>1, <2>2, StepByStep
  <2> QED
    BY <2>3 DEF H
<1>5. ASSUME NEW i \in 1..m, NEW j \in 1..n
      PROVE  /\ g[i - 1][j - 1] <= g[i][j] /\ g[i][j] <= g[i - 1][j - 1] + 1
             /\ s[i] = t[j] => g[i][j] = g[i - 1][j - 1] + 1
  <2> DEFINE w == g[i][j]  u == g[i - 1][j]  l == g[i][j - 1]  c == g[i - 1][j - 1]
  <2>1. i \in 0..m /\ i - 1 \in 0..m /\ j \in 0..n /\ j - 1 \in 0..n
    OBVIOUS
  <2>2. w \in Nat /\ u \in Nat /\ l \in Nat /\ c \in Nat
    BY <1>1, <2>1
  <2>3. c <= u /\ u <= c + 1 /\ c <= l /\ l <= c + 1 /\ u <= w
    BY <1>2, <2>1
  <2>4. IF s[i] = t[j] THEN w = c + 1 ELSE w = IF u > l THEN u ELSE l
    BY DEF IsTable
  <2> HIDE DEF w, u, l, c
  <2>5. c <= w /\ w <= c + 1 /\ (s[i] = t[j] => w = c + 1)
    BY <2>2, <2>3, <2>4
  <2> QED
    BY <2>5 DEF w, c
<1> QED
  BY <1>1, <1>3, <1>4, <1>5 DEF Graded

LEMMA TableOf ==
  ASSUME NEW s \in Seq(Element), NEW t \in Seq(Element)
  PROVE  \E g : IsTable(g, s, t) /\ Graded(g, s, t) /\ Common(s, t) = g[Len(s)][Len(t)]
<1> DEFINE m == Len(s)  n == Len(t)
<1>1. m \in Nat /\ n \in Nat /\ Len(s) = m /\ Len(t) = n
  OBVIOUS
<1> HIDE DEF m, n
<1>2. PICK g : IsTable(g, s, t) /\ Common(s, t) = g[m][n]
  BY <1>1, TableExists
<1>3. Graded(g, s, t)
  BY <1>1, <1>2, TableBounds
<1> QED
  BY <1>1, <1>2, <1>3

\* A table after an equal beginning of length shift is the table of what follows it.
Begins(s, t, n) == \A i \in 1..n : s[i] = t[i]
IsTail(u, s, shift) == \A i \in 1..Len(u) : u[i] = s[shift + i]
Shifted(g, h, shift, m, n) == \A i \in 0..m, j \in 0..n : g[shift + i][shift + j] = shift + h[i][j]

LEMMA TablesAgree ==
  ASSUME NEW s, NEW t, NEW u, NEW v, NEW shift \in Nat, NEW m \in Nat, NEW n \in Nat,
         Len(u) = m, Len(v) = n, NEW ms \in Nat, NEW nt \in Nat, Len(s) = ms, Len(t) = nt,
         shift + m <= ms, shift + n <= nt,
         Begins(s, t, shift), IsTail(u, s, shift), IsTail(v, t, shift),
         NEW g, NEW h, IsTable(g, s, t), IsTable(h, u, v)
  PROVE  Shifted(g, h, shift, m, n)
<1>1. /\ \A i \in 0..ms, j \in 0..nt : g[i][j] \in Nat /\ g[i][j] <= i /\ g[i][j] <= j
      /\ \A i \in 1..ms, j \in 1..nt : s[i] = t[j] => g[i][j] = g[i - 1][j - 1] + 1
  <2>1. Graded(g, s, t)
    BY TableBounds
  <2> QED
    BY <2>1 DEF Graded
<1>2. \A i \in 0..m, j \in 0..n : h[i][j] \in Nat
  BY DEF IsTable
<1>3. /\ \A i \in 1..ms, j \in 0..nt : g[i - 1][j] <= g[i][j]
      /\ \A i \in 0..ms, j \in 1..nt : g[i][j - 1] <= g[i][j]
  BY TableSteps
<1>4. g[shift][shift] = shift
  <2> DEFINE H == {i \in 0..shift : g[i][i] = i}
  <2>1. 0 \in H
    BY DEF IsTable
  <2>2. ASSUME NEW i \in 1..shift, i - 1 \in H PROVE i \in H
    <3>1. i \in 1..ms /\ i \in 1..nt /\ i \in 0..shift
      OBVIOUS
    <3> QED
      BY <1>1, <2>2, <3>1 DEF Begins
  <2> HIDE DEF H
  <2>3. \A i \in 0..shift : i \in H
    BY <2>1, <2>2, StepByStep
  <2> QED
    BY <2>3 DEF H
<1> DEFINE Agrees(i, j) == g[shift + i][shift + j] = shift + h[i][j]
           H == {i \in 0..m : \A j \in 0..n : Agrees(i, j)}
<1>5. 0 \in H
  <2> DEFINE K == {j \in 0..n : g[shift][shift + j] = shift}
  <2>1. 0 \in K
    BY <1>4
  <2>2. ASSUME NEW j \in 1..n, j - 1 \in K PROVE j \in K
    <3>1. shift + j \in 1..nt /\ shift + j \in 0..nt /\ shift \in 0..ms /\ j \in 0..n
          /\ (shift + j) - 1 = shift + (j - 1)
      OBVIOUS
    <3>2. g[shift][shift + (j - 1)] <= g[shift][shift + j]
      BY <1>3, <3>1
    <3>3. g[shift][shift + j] \in Nat /\ g[shift][shift + j] <= shift
      BY <1>1, <3>1
    <3>4. g[shift][shift + (j - 1)] = shift
      BY <2>2
    <3> QED
      BY <3>1, <3>2, <3>3, <3>4
  <2> HIDE DEF K
  <2>3. \A j \in 0..n : j \in K
    BY <2>1, <2>2, StepByStep
  <2>4. \A j \in 0..n : h[0][j] = 0
    BY DEF IsTable
  <2>5. \A j \in 0..n : Agrees(0, j)
    <3> SUFFICES ASSUME NEW j \in 0..n PROVE g[shift + 0][shift + j] = shift + h[0][j]
      OBVIOUS
    <3>1. g[shift][shift + j] = shift
      BY <2>3 DEF K
    <3>2. h[0][j] = 0 /\ shift + 0 = shift
      BY <2>4
    <3> QED
      BY <3>1, <3>2
  <2> QED
    BY <2>5
<1>6. ASSUME NEW i \in 1..m, i - 1 \in H PROVE i \in H
  <2>1. /\ shift + i \in 1..ms /\ shift + i \in 0..ms /\ i \in 0..m /\ i - 1 \in 0..m
        /\ (shift + i) - 1 = shift + (i - 1) /\ shift \in 0..nt
    OBVIOUS
  <2> DEFINE K == {j \in 0..n : Agrees(i, j)}
  <2>2. 0 \in K
    <3>1. g[shift + (i - 1)][shift + 0] = shift + h[i - 1][0]
      BY <1>6
    <3>2. h[i - 1][0] = 0 /\ h[i][0] = 0
      BY <2>1 DEF IsTable
    <3>3. g[shift + (i - 1)][shift] <= g[shift + i][shift]
      BY <1>3, <2>1
    <3>4. g[shift + i][shift] \in Nat /\ g[shift + i][shift] <= shift
      BY <1>1, <2>1
    <3> QED
      BY <3>1, <3>2, <3>3, <3>4
  <2>3. ASSUME NEW j \in 1..n, j - 1 \in K PROVE j \in K
    <3>1. /\ shift + j \in 1..nt /\ shift + j \in 0..nt /\ j \in 0..n /\ j - 1 \in 0..n
          /\ (shift + j) - 1 = shift + (j - 1)
      OBVIOUS
    <3> DEFINE w == h[i][j]  x == h[i - 1][j]  l == h[i][j - 1]  c == h[i - 1][j - 1]
    <3>2. w \in Nat /\ x \in Nat /\ l \in Nat /\ c \in Nat
      BY <1>2, <2>1, <3>1
    <3>3. /\ g[shift + (i - 1)][shift + j] = shift + x
          /\ g[shift + i][shift + (j - 1)] = shift + l
          /\ g[shift + (i - 1)][shift + (j - 1)] = shift + c
      BY <1>6, <2>3, <3>1
    <3>4. IF u[i] = v[j] THEN w = c + 1 ELSE w = IF x > l THEN x ELSE l
      BY DEF IsTable
    <3> DEFINE z == g[shift + i][shift + j]
    <3>5. IF s[shift + i] = t[shift + j] THEN z = (shift + c) + 1
          ELSE z = IF shift + x > shift + l THEN shift + x ELSE shift + l
      <4> DEFINE p1 == shift + i  q1 == shift + j
      <4>1. z = IF s[p1] = t[q1] THEN g[p1 - 1][q1 - 1] + 1
                ELSE IF g[p1 - 1][q1] > g[p1][q1 - 1] THEN g[p1 - 1][q1] ELSE g[p1][q1 - 1]
        <5>1. p1 \in 1..ms /\ q1 \in 1..nt
          BY <2>1, <3>1
        <5>2. z = g[p1][q1]
          OBVIOUS
        <5> HIDE DEF p1, q1, z
        <5> QED
          BY <5>1, <5>2 DEF IsTable
      <4>2. p1 - 1 = shift + (i - 1) /\ q1 - 1 = shift + (j - 1)
        BY <2>1, <3>1
      <4> HIDE DEF z, x, l, c
      <4> QED
        BY <3>3, <4>1, <4>2
    <3>6. u[i] = s[shift + i] /\ v[j] = t[shift + j]
      BY DEF IsTail
    <3> HIDE DEF w, x, l, c, z
    <3>7. z = shift + w
      <4>1. CASE u[i] = v[j]
        BY <3>2, <3>4, <3>5, <3>6, <4>1
      <4>2. CASE u[i] # v[j]
        <5>1. w = IF x > l THEN x ELSE l
          BY <3>4, <4>2
        <5>2. z = IF shift + x > shift + l THEN shift + x ELSE shift + l
          BY <3>5, <3>6, <4>2
        <5> QED
          BY <3>2, <5>1, <5>2
      <4> QED
        BY <4>1, <4>2
    <3> QED
      BY <3>1, <3>7 DEF z, w
  <2> HIDE DEF K
  <2>4. \A j \in 0..n : j \in K
    BY <2>2, <2>3, StepByStep
  <2> QED
    BY <2>1, <2>4 DEF K
<1> HIDE DEF H
<1>7. \A i \in 0..m : i \in H
  BY <1>5, <1>6, StepByStep
<1> QED
  BY <1>7 DEF H, Shifted

LEMMA CommonIs ==
  ASSUME NEW s, NEW t, NEW m \in Nat, NEW n \in Nat, Len(s) = m, Len(t) = n,
         NEW g, IsTable(g, s, t)
  PROVE  Common(s, t) = g[m][n]
<1>1. PICK h : IsTable(h, s, t) /\ Common(s, t) = h[m][n]
  BY TableExists
<1> DEFINE zero == 0
<1>2. Shifted(g, h, zero, m, n)
  <2>1. Begins(s, t, zero) /\ IsTail(s, s, zero) /\ IsTail(t, t, zero)
    BY DEF Begins, IsTail
  <2>2. zero + m <= m /\ zero + n <= n /\ zero \in Nat
    OBVIOUS
  <2> HIDE DEF zero
  <2> QED
    BY <1>1, <2>1, <2>2, TablesAgree
<1>3. m \in 0..m /\ n \in 0..n /\ h[m][n] \in Nat
  BY <1>1 DEF IsTable
<1>4. g[zero + m][zero + n] = zero + h[m][n] /\ zero + m = m /\ zero + n = n
  BY <1>2, <1>3 DEF Shifted
<1> QED
  BY <1>1, <1>3, <1>4

LEMMA CommonIsSymmetric ==
  ASSUME NEW s, NEW t, NEW m \in Nat, NEW n \in Nat, Len(s) = m, Len(t) = n
  PROVE  Common(s, t) = Common(t, s)
<1>1. PICK g : IsTable(g, s, t) /\ Common(s, t) = g[m][n]
  BY TableExists
<1> DEFINE h == [j \in 0..n |-> [i \in 0..m |-> g[i][j]]]
<1>2. \A i \in 0..m, j \in 0..n : g[i][j] \in Nat
  BY <1>1 DEF IsTable
<1>3. h \in [0..n -> [0..m -> Nat]] /\ \A i \in 0..m, j \in 0..n : h[j][i] = g[i][j]
  BY <1>2
<1> HIDE DEF h
<1>4. /\ \A j \in 0..n : h[j][0] = 0
      /\ \A i \in 0..m : h[0][i] = 0
  <2>1. /\ \A i \in 0..m : g[i][0] = 0
        /\ \A j \in 0..n : g[0][j] = 0
    BY <1>1 DEF IsTable
  <2>2. 0 \in 0..m /\ 0 \in 0..n
    OBVIOUS
  <2>3. ASSUME NEW j \in 0..n PROVE h[j][0] = 0
    BY <1>3, <2>1, <2>2
  <2>4. ASSUME NEW i \in 0..m PROVE h[0][i] = 0
    BY <1>3, <2>1, <2>2
  <2> QED
    BY <2>3, <2>4
<1>5. ASSUME NEW j \in 1..n, NEW i \in 1..m
      PROVE  h[j][i] = IF t[j] = s[i] THEN h[j - 1][i - 1] + 1
                       ELSE IF h[j - 1][i] > h[j][i - 1] THEN h[j - 1][i] ELSE h[j][i - 1]
  <2>1. i \in 0..m /\ i - 1 \in 0..m /\ j \in 0..n /\ j - 1 \in 0..n
    OBVIOUS
  <2> DEFINE w == g[i][j]  u == g[i - 1][j]  l == g[i][j - 1]  c == g[i - 1][j - 1]
  <2>2. w \in Nat /\ u \in Nat /\ l \in Nat /\ c \in Nat
    BY <1>2, <2>1
  <2>3. w = IF s[i] = t[j] THEN c + 1 ELSE IF u > l THEN u ELSE l
    BY <1>1 DEF IsTable
  <2>4. h[j][i] = w /\ h[j - 1][i - 1] = c /\ h[j - 1][i] = l /\ h[j][i - 1] = u
    BY <1>3, <2>1
  <2> HIDE DEF w, u, l, c
  <2> QED
    BY <2>2, <2>3, <2>4
<1>6. IsTable(h, t, s)
  BY <1>3, <1>4, <1>5 DEF IsTable
<1>7. Common(t, s) = h[n][m]
  BY <1>6, CommonIs
<1>8. m \in 0..m /\ n \in 0..n
  OBVIOUS
<1> QED
  BY <1>1, <1>3, <1>7, <1>8

\* An equal end of length size counts in full.
Ends(s, t, n) == \A i \in 0..n - 1 : s[Len(s) - i] = t[Len(t) - i]
LEMMA EqualEndCounts ==
  ASSUME NEW s, NEW t, NEW m \in Nat, NEW n \in Nat, Len(s) = m, Len(t) = n,
         NEW g, IsTable(g, s, t), NEW size \in Nat, size <= m, size <= n, Ends(s, t, size)
  PROVE  g[m][n] = g[m - size][n - size] + size
<1>1. /\ \A i \in 0..m, j \in 0..n : g[i][j] \in Nat
      /\ \A i \in 1..m, j \in 1..n : s[i] = t[j] => g[i][j] = g[i - 1][j - 1] + 1
  <2>1. Graded(g, s, t)
    BY TableBounds
  <2> QED
    BY <2>1 DEF Graded
<1> DEFINE H == {q \in 0..size : g[m][n] = g[m - q][n - q] + q}
<1>2. 0 \in H
  <2>1. m \in 0..m /\ n \in 0..n /\ m - 0 = m /\ n - 0 = n
    OBVIOUS
  <2> QED
    BY <1>1, <2>1
<1>3. ASSUME NEW q \in 1..size, q - 1 \in H PROVE q \in H
  <2> DEFINE i == m - (q - 1)  j == n - (q - 1)
  <2>1. i \in 1..m /\ j \in 1..n /\ i - 1 = m - q /\ j - 1 = n - q /\ q - 1 \in 0..size - 1
        /\ m - q \in 0..m /\ n - q \in 0..n
    OBVIOUS
  <2>2. s[i] = t[j] /\ g[m][n] = g[i][j] + (q - 1)
    BY <1>3, <2>1 DEF Ends
  <2> HIDE DEF i, j
  <2>3. g[i][j] = g[m - q][n - q] + 1 /\ g[m - q][n - q] \in Nat
    BY <1>1, <2>1, <2>2
  <2> DEFINE w == g[m - q][n - q]  z == g[m][n]
  <2>4. z = (w + 1) + (q - 1) /\ w \in Nat
    BY <2>2, <2>3
  <2> HIDE DEF w, z
  <2>5. z = w + q
    BY <2>4
  <2> QED
    BY <2>5 DEF w, z
<1> HIDE DEF H
<1>4. \A q \in 0..size : q \in H
  BY <1>2, <1>3, StepByStep
<1>5. size \in 0..size
  OBVIOUS
<1> QED
  BY <1>4, <1>5 DEF H

-----------------------------------------------------------------------------
(* The bound that counting tries first: copies that only one side has.     *)

\* Occurrences among the first i elements, and the copies these are.
OccurrencesIn(s, i, e) == Cardinality({l \in 1..i : s[l] = e})
CopiesUpTo(s, i) == {c \in ToSet(s) \X (1..Len(s)) : c[2] <= OccurrencesIn(s, i, c[1])}
Difference(S, T) == (S \ T) \union (T \ S)

LEMMA OccurrencesGrow ==
  ASSUME NEW s, NEW i \in Nat, i > 0, NEW e
  PROVE  /\ OccurrencesIn(s, i - 1, e) \in Nat /\ OccurrencesIn(s, i - 1, e) <= i - 1
         /\ OccurrencesIn(s, i, e) = OccurrencesIn(s, i - 1, e) + IF s[i] = e THEN 1 ELSE 0
<1> DEFINE before == {l \in 1..i - 1 : s[l] = e}  now == {l \in 1..i : s[l] = e}
<1>1. IsFiniteSet(1..i - 1) /\ Cardinality(1..i - 1) = i - 1
  <2>1. 1 \in Int /\ i - 1 \in Int
    OBVIOUS
  <2>2. /\ IsFiniteSet(1..i - 1)
        /\ Cardinality(1..i - 1) = IF 1 > i - 1 THEN 0 ELSE i - 1 - 1 + 1
    BY <2>1, FS_Interval
  <2>3. (IF 1 > i - 1 THEN 0 ELSE i - 1 - 1 + 1) = i - 1
    OBVIOUS
  <2> QED
    BY <2>2, <2>3
<1>2. IsFiniteSet(before) /\ Cardinality(before) \in Nat /\ Cardinality(before) <= i - 1
  <2>1. before \subseteq 1..i - 1
    OBVIOUS
  <2>2. IsFiniteSet(before) /\ Cardinality(before) <= Cardinality(1..i - 1)
    BY <1>1, <2>1, FS_Subset
  <2>3. Cardinality(before) \in Nat
    BY <2>2, FS_CardinalityType
  <2> QED
    BY <1>1, <2>2, <2>3
<1>3. CASE s[i] = e
  <2>1. now = before \union {i} /\ i \notin before
    BY <1>3
  <2> HIDE DEF now, before
  <2>2. Cardinality(now) = Cardinality(before) + 1
    BY <1>2, <2>1, FS_AddElement
  <2> QED
    BY <1>2, <1>3, <2>2 DEF now, before, OccurrencesIn
<1>4. CASE s[i] # e
  <2>1. now = before
    BY <1>4
  <2> HIDE DEF now, before
  <2> QED
    BY <1>2, <1>4, <2>1 DEF now, before, OccurrencesIn
<1> QED
  BY <1>3, <1>4

LEMMA OccurrencesAre ==
  ASSUME NEW s, NEW m \in Nat, NEW e
  PROVE  \A i \in 0..m : OccurrencesIn(s, i, e) \in Nat /\ OccurrencesIn(s, i, e) <= i
<1>1. ASSUME NEW i \in 0..m PROVE OccurrencesIn(s, i, e) \in Nat /\ OccurrencesIn(s, i, e) <= i
  <2>1. i + 1 \in Nat /\ i + 1 > 0 /\ (i + 1) - 1 = i
    OBVIOUS
  <2>2. /\ OccurrencesIn(s, (i + 1) - 1, e) \in Nat
        /\ OccurrencesIn(s, (i + 1) - 1, e) <= (i + 1) - 1
    BY <2>1, OccurrencesGrow
  <2> QED
    BY <2>1, <2>2
<1> QED
  BY <1>1

LEMMA CopiesAreFinite ==
  ASSUME NEW s \in Seq(Element), NEW i
  PROVE  IsFiniteSet(CopiesUpTo(s, i))
<1>1. IsFiniteSet(ToSet(s)) /\ IsFiniteSet(1..Len(s))
  <2>1. Len(s) \in Nat /\ DOMAIN s = 1..Len(s)
    OBVIOUS
  <2>2. IsFiniteSet(1..Len(s))
    BY <2>1, FS_Interval
  <2>3. s \in Surjection(1..Len(s), ToSet(s))
    <3>1. s \in [1..Len(s) -> ToSet(s)] /\ \A e \in ToSet(s) : \E l \in 1..Len(s) : s[l] = e
      BY <2>1 DEF ToSet
    <3> QED
      BY <3>1 DEF Surjection
  <2> QED
    BY <2>2, <2>3, FS_Surjection
<1>2. IsFiniteSet(ToSet(s) \X (1..Len(s)))
  BY <1>1, FS_Product
<1>3. CopiesUpTo(s, i) \subseteq ToSet(s) \X (1..Len(s))
  BY DEF CopiesUpTo
<1> QED
  BY <1>2, <1>3, FS_Subset

\* The next element adds one copy, the next of its kind.
LEMMA CopiesGrow ==
  ASSUME NEW s \in Seq(Element), NEW i \in 1..Len(s)
  PROVE  LET c == <<s[i], OccurrencesIn(s, i - 1, s[i]) + 1>>
         IN CopiesUpTo(s, i) = CopiesUpTo(s, i - 1) \union {c}
<1> DEFINE n == OccurrencesIn(s, i - 1, s[i])  c == <<s[i], n + 1>>
<1>1. Len(s) \in Nat /\ i \in Nat /\ i > 0 /\ i <= Len(s) /\ DOMAIN s = 1..Len(s)
  OBVIOUS
<1>2. n \in Nat /\ n <= i - 1 /\ OccurrencesIn(s, i, s[i]) = n + 1
  BY <1>1, OccurrencesGrow
<1>3. ASSUME NEW e, e # s[i] PROVE OccurrencesIn(s, i, e) = OccurrencesIn(s, i - 1, e)
  BY <1>1, <1>3, OccurrencesGrow
<1>4. s[i] \in ToSet(s)
  BY <1>1 DEF ToSet
<1> HIDE DEF n
<1>5. c \in ToSet(s) \X (1..Len(s)) /\ c[1] = s[i] /\ c[2] = n + 1
  BY <1>1, <1>2, <1>4
<1>6. ASSUME NEW d \in ToSet(s) \X (1..Len(s))
      PROVE  d[2] <= OccurrencesIn(s, i, d[1]) <=> d[2] <= OccurrencesIn(s, i - 1, d[1]) \/ d = c
  <2>1. d = <<d[1], d[2]>> /\ d[2] \in Nat
    OBVIOUS
  <2>2. CASE d[1] = s[i]
    <3>1. OccurrencesIn(s, i, d[1]) = n + 1 /\ OccurrencesIn(s, i - 1, d[1]) = n
      BY <1>2, <2>2 DEF n
    <3>2. d = c <=> d[2] = n + 1
      BY <2>1, <2>2
    <3> QED
      BY <1>2, <2>1, <3>1, <3>2
  <2>3. CASE d[1] # s[i]
    <3>1. d # c
      BY <1>5, <2>3
    <3> QED
      BY <1>3, <2>3, <3>1
  <2> QED
    BY <2>2, <2>3
<1> HIDE DEF c
<1>7. CopiesUpTo(s, i) = CopiesUpTo(s, i - 1) \union {c}
  BY <1>5, <1>6 DEF CopiesUpTo
<1> QED
  BY <1>7 DEF c, n

LEMMA DifferenceGrows ==
  ASSUME NEW S, NEW T, IsFiniteSet(S), IsFiniteSet(T), NEW c
  PROVE  /\ Cardinality(Difference(S, T)) \in Nat
         /\ Cardinality(Difference(S \union {c}, T)) <= Cardinality(Difference(S, T)) + 1
         /\ Cardinality(Difference(S, T \union {c})) <= Cardinality(Difference(S, T)) + 1
<1> DEFINE D == Difference(S, T)
<1>1. IsFiniteSet(D)
  <2>1. IsFiniteSet(S \union T)
    BY FS_Union
  <2>2. D \subseteq S \union T
    BY DEF Difference
  <2> QED
    BY <2>1, <2>2, FS_Subset
<1>2. Cardinality(D) \in Nat
  BY <1>1, FS_CardinalityType
<1>3. /\ IsFiniteSet(D \union {c}) /\ Cardinality(D \union {c}) \in Nat
      /\ Cardinality(D \union {c}) <= Cardinality(D) + 1
  <2> HIDE DEF D
  <2>1. /\ IsFiniteSet(D \union {c})
        /\ Cardinality(D \union {c}) = IF c \in D THEN Cardinality(D) ELSE Cardinality(D) + 1
    BY <1>1, FS_AddElement
  <2> QED
    BY <1>2, <2>1
<1>4. /\ Difference(S \union {c}, T) \subseteq D \union {c}
      /\ Difference(S, T \union {c}) \subseteq D \union {c}
  BY DEF Difference
<1> HIDE DEF D
<1>5. ASSUME NEW U, U \subseteq D \union {c} PROVE Cardinality(U) <= Cardinality(D) + 1
  <2>1. IsFiniteSet(U) /\ Cardinality(U) <= Cardinality(D \union {c})
    BY <1>3, <1>5, FS_Subset
  <2>2. Cardinality(U) \in Nat
    BY <2>1, FS_CardinalityType
  <2> QED
    BY <1>2, <1>3, <2>1, <2>2
<1> QED
  BY <1>2, <1>4, <1>5 DEF D

\* A copy that replaces another one that the sides now share adds nothing.
LEMMA DifferenceMoves ==
  ASSUME NEW S, NEW T, IsFiniteSet(S), IsFiniteSet(T), NEW c, NEW d,
         c = d \/ (c \in T /\ c \notin S) \/ (d \in S /\ d \notin T)
  PROVE  Cardinality(Difference(S \union {c}, T \union {d})) <= Cardinality(Difference(S, T))
<1> DEFINE D == Difference(S, T)  new == Difference(S \union {c}, T \union {d})
<1>1. IsFiniteSet(D)
  <2>1. IsFiniteSet(S \union T)
    BY FS_Union
  <2>2. D \subseteq S \union T
    BY DEF Difference
  <2> QED
    BY <2>1, <2>2, FS_Subset
<1>2. Cardinality(D) \in Nat
  BY <1>1, FS_CardinalityType
<1>3. ASSUME NEW x \in D, NEW y, new \subseteq (D \ {x}) \union {y}
      PROVE  Cardinality(new) <= Cardinality(D)
  <2> HIDE DEF D, new
  <2>1. IsFiniteSet(D \ {x}) /\ Cardinality(D \ {x}) = Cardinality(D) - 1
    BY <1>1, FS_RemoveElement
  <2>2. Cardinality(D \ {x}) \in Nat
    BY <2>1, FS_CardinalityType
  <2> DEFINE R == D \ {x}
  <2> HIDE DEF R
  <2>3. /\ IsFiniteSet(R \union {y})
        /\ Cardinality(R \union {y}) = IF y \in R THEN Cardinality(R) ELSE Cardinality(R) + 1
    BY <2>1, FS_AddElement DEF R
  <2>4. IsFiniteSet(new) /\ Cardinality(new) <= Cardinality(R \union {y})
    BY <1>3, <2>3, FS_Subset DEF R
  <2>5. Cardinality(new) \in Nat
    BY <2>4, FS_CardinalityType
  <2> QED
    BY <1>2, <2>1, <2>2, <2>3, <2>4, <2>5 DEF R
<1>4. CASE c = d
  <2>1. new \subseteq D
    BY <1>4 DEF Difference
  <2> HIDE DEF D, new
  <2>2. Cardinality(new) <= Cardinality(D)
    BY <1>1, <2>1, FS_Subset
  <2> QED
    BY <2>2 DEF D, new
<1>5. CASE c # d /\ c \in T /\ c \notin S
  <2>1. c \in D /\ new \subseteq (D \ {c}) \union {d}
    BY <1>5 DEF Difference
  <2> HIDE DEF D, new
  <2> QED
    BY <1>3, <2>1 DEF D, new
<1>6. CASE c # d /\ d \in S /\ d \notin T
  <2>1. d \in D /\ new \subseteq (D \ {d}) \union {c}
    BY <1>6 DEF Difference
  <2> HIDE DEF D, new
  <2> QED
    BY <1>3, <2>1 DEF D, new
<1> QED
  BY <1>4, <1>5, <1>6

\* Of two sides that go on with the same element, the one that has had it more often has
\* the copy that the other one adds.
LEMMA CopiesMove ==
  ASSUME NEW s \in Seq(Element), NEW t \in Seq(Element), NEW i \in 1..Len(s), NEW j \in 1..Len(t),
         s[i] = t[j]
  PROVE  Cardinality(Difference(CopiesUpTo(s, i), CopiesUpTo(t, j)))
           <= Cardinality(Difference(CopiesUpTo(s, i - 1), CopiesUpTo(t, j - 1)))
<1> DEFINE e == s[i]  m == OccurrencesIn(s, i - 1, e)  n == OccurrencesIn(t, j - 1, e)
           S == CopiesUpTo(s, i - 1)  T == CopiesUpTo(t, j - 1)
<1>1. Len(s) \in Nat /\ Len(t) \in Nat /\ DOMAIN s = 1..Len(s) /\ DOMAIN t = 1..Len(t)
      /\ i \in Nat /\ j \in Nat /\ i > 0 /\ j > 0 /\ i <= Len(s) /\ j <= Len(t)
  OBVIOUS
<1>2. m \in Nat /\ n \in Nat /\ m <= i - 1 /\ n <= j - 1
  BY <1>1, OccurrencesGrow
<1>3. e \in ToSet(s) /\ e \in ToSet(t)
  BY <1>1 DEF ToSet
<1>4. /\ CopiesUpTo(s, i) = S \union {<<e, m + 1>>}
      /\ CopiesUpTo(t, j) = T \union {<<e, n + 1>>}
  BY CopiesGrow
<1> HIDE DEF e
<1>5. ASSUME NEW l \in Nat \ {0}, l <= i
      PROVE  <<e, l>> \in S <=> l <= m
  <2>1. <<e, l>> \in ToSet(s) \X (1..Len(s)) /\ <<e, l>>[1] = e /\ <<e, l>>[2] = l
    BY <1>1, <1>3, <1>5
  <2> HIDE DEF m
  <2> QED
    BY <2>1 DEF CopiesUpTo, m
<1>6. ASSUME NEW l \in Nat \ {0}, l <= j
      PROVE  <<e, l>> \in T <=> l <= n
  <2>1. <<e, l>> \in ToSet(t) \X (1..Len(t)) /\ <<e, l>>[1] = e /\ <<e, l>>[2] = l
    BY <1>1, <1>3, <1>6
  <2> HIDE DEF n
  <2> QED
    BY <2>1 DEF CopiesUpTo, n
<1>7. ASSUME NEW l \in Nat \ {0} PROVE (<<e, l>> \in S => l <= m) /\ (<<e, l>> \in T => l <= n)
  <2>1. <<e, l>>[1] = e /\ <<e, l>>[2] = l
    OBVIOUS
  <2> QED
    BY <2>1 DEF CopiesUpTo
<1>8. IsFiniteSet(S) /\ IsFiniteSet(T)
  BY CopiesAreFinite
<1> HIDE DEF S, T, m, n
<1> DEFINE c == <<e, m + 1>>  d == <<e, n + 1>>
<1>9. m + 1 \in Nat \ {0} /\ n + 1 \in Nat \ {0}
  BY <1>2
<1>10. c = d \/ (c \in T /\ c \notin S) \/ (d \in S /\ d \notin T)
  <2>1. CASE m = n
    BY <2>1
  <2>2. CASE m < n
    <3>1. m + 1 <= n /\ m + 1 <= j /\ ~(m + 1 <= m)
      BY <1>1, <1>2, <2>2
    <3>2. c \in T /\ c \notin S
      BY <1>6, <1>7, <1>9, <3>1
    <3> QED
      BY <3>2
  <2>3. CASE n < m
    <3>1. n + 1 <= m /\ n + 1 <= i /\ ~(n + 1 <= n)
      BY <1>1, <1>2, <2>3
    <3>2. d \in S /\ d \notin T
      BY <1>5, <1>7, <1>9, <3>1
    <3> QED
      BY <3>2
  <2> QED
    BY <1>2, <2>1, <2>2, <2>3
<1> HIDE DEF c, d
<1>11. Cardinality(Difference(S \union {c}, T \union {d})) <= Cardinality(Difference(S, T))
  BY <1>8, <1>10, DifferenceMoves
<1> QED
  BY <1>4, <1>11 DEF c, d, S, T

\* No script is shorter than the imbalance.
LEMMA ImbalanceIsNeeded ==
  ASSUME NEW s \in Seq(Element), NEW t \in Seq(Element)
  PROVE  /\ Imbalance(s, t) \in Nat
         /\ Imbalance(s, t) <= Len(s) + Len(t) - 2 * Common(s, t)
<1> DEFINE m == Len(s)  n == Len(t)
           Apart(i, j) == Cardinality(Difference(CopiesUpTo(s, i), CopiesUpTo(t, j)))
<1>1. m \in Nat /\ n \in Nat /\ m = Len(s) /\ n = Len(t) /\ DOMAIN s = 1..m /\ DOMAIN t = 1..n
  OBVIOUS
<1>2. PICK g : IsTable(g, s, t) /\ Common(s, t) = g[m][n]
  BY TableOf
<1>3. Imbalance(s, t) = Apart(m, n)
  <2>1. \A e : Occurrences(s, e) = OccurrencesIn(s, m, e) /\ Occurrences(t, e) = OccurrencesIn(t, n, e)
    BY DEF Occurrences, OccurrencesIn
  <2>2. Copies(s) = CopiesUpTo(s, m) /\ Copies(t) = CopiesUpTo(t, n)
    BY <2>1 DEF Copies, CopiesUpTo
  <2> QED
    BY <2>2 DEF Imbalance, Difference
<1>4. \A i \in 0..m, j \in 0..n : Apart(i, j) \in Nat
  BY CopiesAreFinite, DifferenceGrows
<1>5. ASSUME NEW i \in 1..m, NEW j \in 0..n PROVE Apart(i, j) <= Apart(i - 1, j) + 1
  <2>1. IsFiniteSet(CopiesUpTo(s, i - 1)) /\ IsFiniteSet(CopiesUpTo(t, j))
    BY CopiesAreFinite
  <2>2. CopiesUpTo(s, i) = CopiesUpTo(s, i - 1) \union {<<s[i], OccurrencesIn(s, i - 1, s[i]) + 1>>}
    BY CopiesGrow
  <2> QED
    BY <2>1, <2>2, DifferenceGrows
<1>6. ASSUME NEW i \in 0..m, NEW j \in 1..n PROVE Apart(i, j) <= Apart(i, j - 1) + 1
  <2>1. IsFiniteSet(CopiesUpTo(s, i)) /\ IsFiniteSet(CopiesUpTo(t, j - 1))
    BY CopiesAreFinite
  <2>2. CopiesUpTo(t, j) = CopiesUpTo(t, j - 1) \union {<<t[j], OccurrencesIn(t, j - 1, t[j]) + 1>>}
    BY CopiesGrow
  <2> QED
    BY <2>1, <2>2, DifferenceGrows
<1>7. ASSUME NEW i \in 1..m, NEW j \in 1..n, s[i] = t[j] PROVE Apart(i, j) <= Apart(i - 1, j - 1)
  BY <1>7, CopiesMove
<1>8. Apart(0, 0) = 0
  <2>1. \A e : OccurrencesIn(s, 0, e) = 0 /\ OccurrencesIn(t, 0, e) = 0
    <3>1. ASSUME NEW e, NEW q PROVE OccurrencesIn(q, 0, e) = 0
      <4>1. {l \in 1..0 : q[l] = e} = {}
        OBVIOUS
      <4> QED
        BY <4>1, FS_EmptySet DEF OccurrencesIn
    <3> QED
      BY <3>1
  <2>2. CopiesUpTo(s, 0) = {} /\ CopiesUpTo(t, 0) = {}
    BY <1>1, <2>1 DEF CopiesUpTo
  <2>3. Difference({}, {}) = {}
    BY DEF Difference
  <2> QED
    BY <2>2, <2>3, FS_EmptySet
<1> HIDE DEF Apart
<1>9. \A i \in 0..m, j \in 0..n : g[i][j] \in Nat
  BY <1>1, <1>2 DEF IsTable
<1> DEFINE Fine(i, j) == Apart(i, j) <= i + j - 2 * g[i][j]
           H == {i \in 0..m : \A j \in 0..n : Fine(i, j)}
<1> HIDE DEF m, n
<1>10. /\ \A i \in 0..m : g[i][0] = 0
       /\ \A j \in 0..n : g[0][j] = 0
  BY <1>1, <1>2 DEF IsTable
<1>11. 0 \in H
  <2> DEFINE K == {j \in 0..n : Fine(0, j)}
  <2>1. 0 \in K
    BY <1>1, <1>8, <1>10
  <2>2. ASSUME NEW j \in 1..n, j - 1 \in K PROVE j \in K
    <3>1. j \in 0..n /\ j - 1 \in 0..n /\ 0 \in 0..m
      BY <1>1
    <3>2. Apart(0, j) <= Apart(0, j - 1) + 1 /\ Apart(0, j) \in Nat /\ Apart(0, j - 1) \in Nat
      BY <1>4, <1>6, <3>1
    <3>3. g[0][j] = 0 /\ g[0][j - 1] = 0
      BY <1>10, <3>1
    <3>4. Fine(0, j - 1)
      BY <2>2
    <3> QED
      BY <3>1, <3>2, <3>3, <3>4
  <2> HIDE DEF K
  <2>3. \A j \in 0..n : j \in K
    BY <1>1, <2>1, <2>2, StepByStep
  <2> QED
    BY <1>1, <2>3 DEF K
<1>12. ASSUME NEW i \in 1..m, i - 1 \in H PROVE i \in H
  <2>1. i \in 0..m /\ i - 1 \in 0..m /\ i \in Int
    BY <1>1
  <2> DEFINE K == {j \in 0..n : Fine(i, j)}
  <2>2. 0 \in K
    <3>1. 0 \in 0..n
      BY <1>1
    <3>2. Apart(i, 0) <= Apart(i - 1, 0) + 1 /\ Apart(i, 0) \in Nat /\ Apart(i - 1, 0) \in Nat
      BY <1>4, <1>5, <2>1, <3>1
    <3>3. g[i][0] = 0 /\ g[i - 1][0] = 0
      BY <1>10, <2>1
    <3>4. Fine(i - 1, 0)
      BY <1>12, <3>1
    <3> QED
      BY <2>1, <3>1, <3>2, <3>3, <3>4
  <2>3. ASSUME NEW j \in 1..n, j - 1 \in K PROVE j \in K
    <3>1. j \in 0..n /\ j - 1 \in 0..n /\ j \in Int
      BY <1>1
    <3> DEFINE w == g[i][j]  u == g[i - 1][j]  l == g[i][j - 1]  c == g[i - 1][j - 1]
               W == Apart(i, j)  U == Apart(i - 1, j)  L == Apart(i, j - 1)  C == Apart(i - 1, j - 1)
    <3>2. /\ w \in Nat /\ u \in Nat /\ l \in Nat /\ c \in Nat
          /\ W \in Nat /\ U \in Nat /\ L \in Nat /\ C \in Nat
      BY <1>4, <1>9, <2>1, <3>1
    <3>3. U <= (i - 1) + j - 2 * u /\ C <= (i - 1) + (j - 1) - 2 * c
      BY <1>12, <3>1
    <3>4. L <= i + (j - 1) - 2 * l
      BY <2>3
    <3>5. W <= U + 1 /\ W <= L + 1 /\ (s[i] = t[j] => W <= C)
      BY <1>5, <1>6, <1>7, <2>1, <3>1
    <3>6. w = IF s[i] = t[j] THEN c + 1 ELSE IF u > l THEN u ELSE l
      BY <1>1, <1>2 DEF IsTable
    <3> HIDE DEF w, u, l, c, W, U, L, C
    <3>7. W <= i + j - 2 * w
      <4>1. CASE s[i] = t[j]
        BY <2>1, <3>1, <3>2, <3>3, <3>5, <3>6, <4>1
      <4>2. CASE s[i] # t[j] /\ u > l
        BY <2>1, <3>1, <3>2, <3>3, <3>5, <3>6, <4>2
      <4>3. CASE s[i] # t[j] /\ ~(u > l)
        <5>1. w = l
          BY <3>6, <4>3
        <5>2. W <= L + 1
          BY <3>5
        <5> QED
          BY <2>1, <3>1, <3>2, <3>4, <5>1, <5>2
      <4> QED
        BY <4>1, <4>2, <4>3
    <3> QED
      BY <3>1, <3>7 DEF w, W
  <2> HIDE DEF K
  <2>4. \A j \in 0..n : j \in K
    BY <1>1, <2>2, <2>3, StepByStep
  <2> QED
    BY <2>1, <2>4 DEF K
<1> HIDE DEF H
<1>13. \A i \in 0..m : i \in H
  BY <1>1, <1>11, <1>12, StepByStep
<1>14. Fine(m, n) /\ m \in 0..m /\ n \in 0..n
  BY <1>1, <1>13 DEF H
<1> QED
  BY <1>1, <1>2, <1>3, <1>4, <1>14

-----------------------------------------------------------------------------
(* What is searched is what was asked for: trimming equal ends and          *)
(* exchanging the sides leave the distance as it is.                        *)

LEMMA PrefixIs ==
  ASSUME left \in Seq(Element), right \in Seq(Element)
  PROVE  Prefix \in 0..Len(left) /\ Prefix <= Len(right) /\ Begins(left, right, Prefix)
<1> DEFINE S == {n \in 0..Len(left) : n <= Len(right) /\ \A i \in 1..n : left[i] = right[i]}
<1>1. Len(left) \in Nat /\ Len(right) \in Nat
  OBVIOUS
<1>2. S \in SUBSET (0..Len(left)) /\ 0 \in S
  BY <1>1
<1>3. \A n \in S : n \in 0..Len(left) /\ n <= Len(right) /\ Begins(left, right, n)
  BY DEF Begins
<1>4. Prefix = Max(S)
  BY DEF Prefix
<1> HIDE DEF S
<1>5. Max(S) \in S
  BY <1>1, <1>2, LargestIsIn
<1> QED
  BY <1>3, <1>4, <1>5

LEMMA SuffixIs ==
  ASSUME left \in Seq(Element), right \in Seq(Element)
  PROVE  /\ Suffix \in Nat /\ Prefix + Suffix <= Len(left) /\ Prefix + Suffix <= Len(right)
         /\ Ends(left, right, Suffix)
<1>1. Len(left) \in Nat /\ Len(right) \in Nat /\ Prefix \in 0..Len(left) /\ Prefix <= Len(right)
  BY PrefixIs
<1> DEFINE remaining == Len(left) - Prefix
           S == {n \in 0..remaining : n <= Len(right) - Prefix /\
                   \A i \in 0..n - 1 : left[Len(left) - i] = right[Len(right) - i]}
<1>2. remaining \in Nat
  BY <1>1
<1>3. S \in SUBSET (0..remaining) /\ 0 \in S
  BY <1>1, <1>2
<1>4. \A n \in S : n \in 0..remaining /\ n <= Len(right) - Prefix /\ Ends(left, right, n)
  BY DEF Ends
<1>5. Suffix = Max(S)
  BY DEF Suffix
<1> HIDE DEF S, remaining
<1>6. Max(S) \in S
  BY <1>2, <1>3, LargestIsIn
<1>7. Suffix \in 0..remaining /\ Suffix <= Len(right) - Prefix /\ Ends(left, right, Suffix)
  BY <1>4, <1>5, <1>6
<1> QED
  BY <1>1, <1>7 DEF remaining

LEMMA TrimmedIs ==
  ASSUME left \in Seq(Element), right \in Seq(Element), NEW s \in {left, right}
  PROVE  /\ Len(Trimmed(s, Suffix)) = Len(s) - Suffix - Prefix
         /\ IsTail(Trimmed(s, Suffix), s, Prefix)
<1> DEFINE u == Trimmed(s, Suffix)  from == Prefix + 1  to == Len(s) - Suffix
<1>1. s \in Seq(Element) /\ Len(s) \in Nat /\ Prefix \in Nat /\ Suffix \in Nat /\ Prefix + Suffix <= Len(s)
  BY PrefixIs, SuffixIs
<1>2. from \in 1..Len(s) + 1 /\ to \in from - 1..Len(s)
  BY <1>1
<1>3. u = SubSeq(s, from, to)
  BY DEF Trimmed
<1> HIDE DEF u, from, to
<1>4. /\ Len(SubSeq(s, from, to)) = (to - from) + 1
      /\ \A i \in 1..(to - from) + 1 : SubSeq(s, from, to)[i] = s[(from + i) - 1]
  BY <1>1, <1>2, SubSeqProperties
<1>5. Len(u) = Len(s) - Suffix - Prefix /\ (to - from) + 1 = Len(s) - Suffix - Prefix
  BY <1>1, <1>3, <1>4 DEF from, to
<1>6. ASSUME NEW i \in 1..Len(u) PROVE u[i] = s[Prefix + i]
  <2>1. i \in 1..(to - from) + 1
    BY <1>5
  <2>2. (from + i) - 1 = Prefix + i
    BY <1>1, <1>5 DEF from
  <2> QED
    BY <1>3, <1>4, <2>1, <2>2
<1> QED
  BY <1>5, <1>6 DEF IsTail, u

\* The distance of s and t, as that of left and right.
Apart(s, t) == Len(s) + Len(t) - 2 * Common(s, t)

\* What the cheap tests find: the distance is at least the difference of the lengths,
\* and all there is if one side is empty.
LEMMA ApartIs ==
  ASSUME NEW s \in Seq(Element), NEW t \in Seq(Element)
  PROVE  /\ Common(s, t) \in Nat /\ Apart(s, t) \in Nat
         /\ Abs(Len(s) - Len(t)) \in Nat /\ Abs(Len(s) - Len(t)) <= Apart(s, t)
         /\ s = <<>> \/ t = <<>> => Apart(s, t) = Len(s) + Len(t)
         /\ s = t => Apart(s, t) = 0
<1> DEFINE m == Len(s)  n == Len(t)  c == Common(s, t)
<1>1. m \in Nat /\ n \in Nat /\ Len(s) = m /\ Len(t) = n /\ (s = <<>> => m = 0) /\ (t = <<>> => n = 0)
  OBVIOUS
<1>2. PICK g : IsTable(g, s, t) /\ Graded(g, s, t) /\ Common(s, t) = g[m][n]
  BY TableOf
<1>4. m \in 0..m /\ n \in 0..n
  BY <1>1
<1>5. c \in Nat /\ c <= m /\ c <= n
  BY <1>1, <1>2, <1>4 DEF Graded
<1>6. ASSUME s = t PROVE c = m
  <2>1. m = n
    BY <1>6
  <2>2. Ends(s, t, m)
    BY <1>6 DEF Ends
  <2>3. g[m][n] = g[m - m][n - m] + m
    <3>1. m <= m /\ m <= n
      BY <1>1, <2>1
    <3> HIDE DEF m, n
    <3> QED
      BY <1>1, <1>2, <2>2, <3>1, EqualEndCounts
  <2>4. m - m = 0 /\ n - m = 0 /\ 0 \in 0..n
    BY <1>1, <2>1
  <2>5. g[0][0] = 0
    BY <1>2, <2>4 DEF IsTable
  <2> QED
    BY <1>1, <1>2, <2>3, <2>4, <2>5
<1>7. Apart(s, t) = m + n - 2 * c
  BY DEF Apart
<1> HIDE DEF m, n, c
<1>8. Abs(m - n) = IF m < n THEN n - m ELSE m - n
  BY <1>1 DEF Abs
<1>9. ASSUME s = t PROVE m = n
  BY <1>1, <1>9
<1>10. m + n - 2 * c \in Nat /\ Abs(m - n) \in Nat /\ Abs(m - n) <= m + n - 2 * c
  BY <1>1, <1>5, <1>8
<1>11. (s = <<>> \/ t = <<>>) => c = 0
  BY <1>1, <1>5
<1> QED
  BY <1>1, <1>5, <1>6, <1>7, <1>9, <1>10, <1>11 DEF c

LEMMA TrimmingKeeps ==
  ASSUME left \in Seq(Element), right \in Seq(Element)
  PROVE  Apart(Trimmed(left, Suffix), Trimmed(right, Suffix)) = Least
<1> DEFINE s == Trimmed(left, Suffix)  t == Trimmed(right, Suffix)
           ml == Len(left)  nr == Len(right)  m == Len(s)  n == Len(t)
<1>1. /\ ml \in Nat /\ nr \in Nat /\ Prefix \in Nat /\ Suffix \in Nat
      /\ Prefix + Suffix <= ml /\ Prefix + Suffix <= nr
      /\ Begins(left, right, Prefix) /\ Ends(left, right, Suffix)
  BY PrefixIs, SuffixIs
<1>2. m = ml - Suffix - Prefix /\ n = nr - Suffix - Prefix /\ IsTail(s, left, Prefix) /\ IsTail(t, right, Prefix)
  BY TrimmedIs
<1>3. m \in Nat /\ n \in Nat
  BY <1>1, <1>2
<1>4. PICK g : IsTable(g, left, right) /\ Common(left, right) = g[ml][nr]
  BY TableOf
<1>5. PICK h : IsTable(h, s, t) /\ Common(s, t) = h[m][n]
  <2>1. s \in Seq(Element) /\ t \in Seq(Element)
    BY TrimmedIsSeq
  <2> HIDE DEF s, t
  <2> QED
    BY <2>1, TableOf
<1>6. Len(s) = m /\ Len(t) = n /\ Len(left) = ml /\ Len(right) = nr
  OBVIOUS
<1> HIDE DEF s, t, ml, nr, m, n
<1>7. g[ml][nr] = g[ml - Suffix][nr - Suffix] + Suffix
  <2>1. Suffix <= ml /\ Suffix <= nr
    BY <1>1
  <2> QED
    BY <1>1, <1>4, <1>6, <2>1, EqualEndCounts
<1>8. Shifted(g, h, Prefix, m, n)
  <2>1. Prefix + m <= ml /\ Prefix + n <= nr
    BY <1>1, <1>2, <1>3
  <2> QED
    BY <1>1, <1>2, <1>3, <1>4, <1>5, <1>6, <2>1, TablesAgree
<1>9. g[ml - Suffix][nr - Suffix] = Prefix + h[m][n]
  <2>1. m \in 0..m /\ n \in 0..n /\ Prefix + m = ml - Suffix /\ Prefix + n = nr - Suffix
    BY <1>1, <1>2, <1>3
  <2>2. g[Prefix + m][Prefix + n] = Prefix + h[m][n]
    BY <1>8, <2>1 DEF Shifted
  <2> QED
    BY <2>1, <2>2
<1>10. h[m][n] \in Nat
  <2>1. m \in 0..m /\ n \in 0..n
    BY <1>3
  <2> QED
    BY <1>5, <1>6, <2>1 DEF IsTable
<1>11. Common(left, right) = (Prefix + h[m][n]) + Suffix
  BY <1>4, <1>7, <1>9
<1> DEFINE c == h[m][n]
<1>12. Apart(s, t) = m + n - 2 * c /\ Least = ml + nr - 2 * ((Prefix + c) + Suffix) /\ c \in Nat
  BY <1>5, <1>6, <1>10, <1>11 DEF Apart, Least
<1> HIDE DEF c
<1>13. Apart(s, t) = Least
  BY <1>1, <1>2, <1>3, <1>12
<1> QED
  BY <1>13 DEF s, t

LEMMA ExchangeKeeps ==
  ASSUME NEW s \in Seq(Element), NEW t \in Seq(Element)
  PROVE  /\ Apart(Shorter(s, t), Longer(s, t)) = Apart(s, t)
         /\ Len(Longer(s, t)) - Len(Shorter(s, t)) = Abs(Len(s) - Len(t))
<1> DEFINE m == Len(s)  n == Len(t)
<1>1. m \in Nat /\ n \in Nat /\ Len(s) = m /\ Len(t) = n
  OBVIOUS
<1> HIDE DEF m, n
<1>2. Common(s, t) = Common(t, s)
  BY <1>1, CommonIsSymmetric
<1>3. Abs(m - n) = (IF m > n THEN m - n ELSE n - m) /\ m + n = n + m
  BY <1>1 DEF Abs
<1>4. CASE m > n
  <2>1. Shorter(s, t) = t /\ Longer(s, t) = s
    BY <1>1, <1>4 DEF Shorter, Longer
  <2>2. Apart(t, s) = Apart(s, t)
    <3> DEFINE c == Common(s, t)
    <3>1. c \in Nat
      BY ApartIs
    <3>2. Apart(s, t) = m + n - 2 * c /\ Apart(t, s) = n + m - 2 * c
      BY <1>1, <1>2 DEF Apart
    <3> HIDE DEF c
    <3> QED
      BY <1>1, <3>1, <3>2
  <2> QED
    BY <1>1, <1>3, <1>4, <2>1, <2>2
<1>5. CASE ~(m > n)
  <2>1. Shorter(s, t) = s /\ Longer(s, t) = t
    BY <1>1, <1>5 DEF Shorter, Longer
  <2> QED
    BY <1>1, <1>3, <1>5, <2>1
<1> QED
  BY <1>4, <1>5

-----------------------------------------------------------------------------
(* The furthest points.  The price of a point counts the steps away from   *)
(* Delta that the way to it needs; after diagonal d in round p, m_fp[d] is *)
(* the furthest point there whose price is at most p.                      *)

Price(g, gap, x, y) == (IF x >= y - gap THEN x ELSE y - gap) - g[x][y]

\* What a deletion and an insertion cost that lead to diagonal d.
Down(gap, d) == IF d < gap THEN 1 ELSE 0
Up(gap, d) == IF d > gap THEN 1 ELSE 0

PricesAreBounded(g, gap, m, n) == \A x \in 0..m, y \in 0..n :
  LET price == Price(g, gap, x, y)
  IN /\ price \in Nat /\ price >= x - y /\ price >= y - gap - x
     /\ x = 0 \/ y = 0 => price = IF x >= y - gap THEN x ELSE y - gap
DeletionsCost(g, gap, m, n) == \A x \in 1..m, y \in 0..n :
  Price(g, gap, x, y) <= Price(g, gap, x - 1, y) + Down(gap, y - x)
InsertionsCost(g, gap, m, n) == \A x \in 0..m, y \in 1..n :
  Price(g, gap, x, y) <= Price(g, gap, x, y - 1) + Up(gap, y - x)
DiagonalsCost(g, s, t, gap) == \A x \in 1..Len(s), y \in 1..Len(t) :
  LET price == Price(g, gap, x, y)
  IN /\ price >= Price(g, gap, x - 1, y - 1)
     /\ s[x] = t[y] => price = Price(g, gap, x - 1, y - 1)
     /\ s[x] # t[y] => \/ price = Price(g, gap, x - 1, y) + Down(gap, y - x)
                       \/ price = Price(g, gap, x, y - 1) + Up(gap, y - x)
Priced(g, s, t, gap) ==
  /\ PricesAreBounded(g, gap, Len(s), Len(t))
  /\ DeletionsCost(g, gap, Len(s), Len(t)) /\ InsertionsCost(g, gap, Len(s), Len(t))
  /\ DiagonalsCost(g, s, t, gap)

LEMMA PricesAre ==
  ASSUME NEW g, NEW s, NEW t, NEW m \in Nat, NEW gap \in Nat, NEW n \in Nat, n = m + gap,
         Len(s) = m, Len(t) = n, IsTable(g, s, t)
  PROVE  Priced(g, s, t, gap)
<1>1. /\ \A i \in 0..m, j \in 0..n : g[i][j] \in Nat /\ g[i][j] <= i /\ g[i][j] <= j
      /\ \A i \in 1..m, j \in 1..n :
           /\ g[i - 1][j - 1] <= g[i][j] /\ g[i][j] <= g[i - 1][j - 1] + 1
           /\ s[i] = t[j] => g[i][j] = g[i - 1][j - 1] + 1
  <2>1. Graded(g, s, t)
    BY TableBounds
  <2> QED
    BY <2>1 DEF Graded
<1>2. /\ \A i \in 1..m, j \in 0..n : g[i - 1][j] <= g[i][j] /\ g[i][j] <= g[i - 1][j] + 1
      /\ \A i \in 0..m, j \in 1..n : g[i][j - 1] <= g[i][j] /\ g[i][j] <= g[i][j - 1] + 1
  BY TableSteps
<1>3. PricesAreBounded(g, gap, m, n)
  <2> SUFFICES ASSUME NEW x \in 0..m, NEW y \in 0..n
               PROVE  LET price == Price(g, gap, x, y)
                      IN /\ price \in Nat /\ price >= x - y /\ price >= y - gap - x
                         /\ x = 0 \/ y = 0 => price = IF x >= y - gap THEN x ELSE y - gap
    BY DEF PricesAreBounded
  <2> DEFINE w == g[x][y]
  <2>1. w \in Nat /\ w <= x /\ w <= y
    BY <1>1
  <2>2. Price(g, gap, x, y) = (IF x >= y - gap THEN x ELSE y - gap) - w
    BY DEF Price
  <2> HIDE DEF w
  <2> QED
    BY <2>1, <2>2
<1>4. DeletionsCost(g, gap, m, n)
  <2> SUFFICES ASSUME NEW x \in 1..m, NEW y \in 0..n
               PROVE  Price(g, gap, x, y) <= Price(g, gap, x - 1, y) + Down(gap, y - x)
    BY DEF DeletionsCost
  <2> DEFINE w == g[x][y]  u == g[x - 1][y]
  <2>1. x \in 0..m /\ x - 1 \in 0..m
    OBVIOUS
  <2>2. w \in Nat /\ u \in Nat /\ u <= w
    BY <1>1, <1>2, <2>1
  <2>3. /\ Price(g, gap, x, y) = (IF x >= y - gap THEN x ELSE y - gap) - w
        /\ Price(g, gap, x - 1, y) = (IF x - 1 >= y - gap THEN x - 1 ELSE y - gap) - u
        /\ Down(gap, y - x) = IF y - x < gap THEN 1 ELSE 0
    BY DEF Price, Down
  <2> HIDE DEF w, u
  <2> QED
    BY <2>1, <2>2, <2>3
<1>5. InsertionsCost(g, gap, m, n)
  <2> SUFFICES ASSUME NEW x \in 0..m, NEW y \in 1..n
               PROVE  Price(g, gap, x, y) <= Price(g, gap, x, y - 1) + Up(gap, y - x)
    BY DEF InsertionsCost
  <2> DEFINE w == g[x][y]  l == g[x][y - 1]
  <2>1. y \in 0..n /\ y - 1 \in 0..n
    OBVIOUS
  <2>2. w \in Nat /\ l \in Nat /\ l <= w
    BY <1>1, <1>2, <2>1
  <2>3. /\ Price(g, gap, x, y) = (IF x >= y - gap THEN x ELSE y - gap) - w
        /\ Price(g, gap, x, y - 1) = (IF x >= y - 1 - gap THEN x ELSE y - 1 - gap) - l
        /\ Up(gap, y - x) = IF y - x > gap THEN 1 ELSE 0
    BY DEF Price, Up
  <2> HIDE DEF w, l
  <2> QED
    BY <2>1, <2>2, <2>3
<1>6. ASSUME NEW x \in 1..m, NEW y \in 1..n
      PROVE  LET price == Price(g, gap, x, y)
             IN /\ price >= Price(g, gap, x - 1, y - 1)
                /\ s[x] = t[y] => price = Price(g, gap, x - 1, y - 1)
                /\ s[x] # t[y] => \/ price = Price(g, gap, x - 1, y) + Down(gap, y - x)
                                  \/ price = Price(g, gap, x, y - 1) + Up(gap, y - x)
  <2> DEFINE w == g[x][y]  u == g[x - 1][y]  l == g[x][y - 1]  c == g[x - 1][y - 1]
  <2>1. x \in 0..m /\ x - 1 \in 0..m /\ y \in 0..n /\ y - 1 \in 0..n
    OBVIOUS
  <2>2. w \in Nat /\ u \in Nat /\ l \in Nat /\ c \in Nat
    BY <1>1, <2>1
  <2>3. c <= w /\ w <= c + 1 /\ (s[x] = t[y] => w = c + 1)
    BY <1>1
  <2>4. s[x] # t[y] => w = u \/ w = l
    BY DEF IsTable
  <2>5. /\ Price(g, gap, x, y) = (IF x >= y - gap THEN x ELSE y - gap) - w
        /\ Price(g, gap, x - 1, y - 1) = (IF x - 1 >= y - 1 - gap THEN x - 1 ELSE y - 1 - gap) - c
        /\ Price(g, gap, x - 1, y) = (IF x - 1 >= y - gap THEN x - 1 ELSE y - gap) - u
        /\ Price(g, gap, x, y - 1) = (IF x >= y - 1 - gap THEN x ELSE y - 1 - gap) - l
        /\ Down(gap, y - x) = (IF y - x < gap THEN 1 ELSE 0)
        /\ Up(gap, y - x) = (IF y - x > gap THEN 1 ELSE 0)
    BY DEF Price, Down, Up
  <2> HIDE DEF w, u, l, c
  <2>6. Price(g, gap, x, y) >= Price(g, gap, x - 1, y - 1)
    BY <2>1, <2>2, <2>3, <2>5
  <2>7. ASSUME s[x] = t[y] PROVE Price(g, gap, x, y) = Price(g, gap, x - 1, y - 1)
    BY <2>1, <2>2, <2>3, <2>5, <2>7
  <2>8. ASSUME s[x] # t[y], w = u PROVE Price(g, gap, x, y) = Price(g, gap, x - 1, y) + Down(gap, y - x)
    <3>1. CASE y - x < gap
      <4>1. /\ Price(g, gap, x, y) = x - u /\ Price(g, gap, x - 1, y) = (x - 1) - u
            /\ Down(gap, y - x) = 1
        BY <2>1, <2>2, <2>5, <2>8, <3>1
      <4> QED
        BY <2>2, <4>1
    <3>2. CASE ~(y - x < gap)
      <4>1. /\ Price(g, gap, x, y) = (y - gap) - u /\ Price(g, gap, x - 1, y) = (y - gap) - u
            /\ Down(gap, y - x) = 0
        BY <2>1, <2>2, <2>5, <2>8, <3>2
      <4> QED
        BY <2>2, <4>1
    <3> QED
      BY <3>1, <3>2
  <2>9. ASSUME s[x] # t[y], w = l PROVE Price(g, gap, x, y) = Price(g, gap, x, y - 1) + Up(gap, y - x)
    <3>1. CASE y - x > gap
      <4>1. /\ Price(g, gap, x, y) = (y - gap) - l /\ Price(g, gap, x, y - 1) = (y - 1 - gap) - l
            /\ Up(gap, y - x) = 1
        BY <2>1, <2>2, <2>5, <2>9, <3>1
      <4> QED
        BY <2>2, <4>1
    <3>2. CASE ~(y - x > gap)
      <4>1. /\ Price(g, gap, x, y) = x - l /\ Price(g, gap, x, y - 1) = x - l
            /\ Up(gap, y - x) = 0
        BY <2>1, <2>2, <2>5, <2>9, <3>2
      <4> QED
        BY <2>2, <4>1
    <3> QED
      BY <3>1, <3>2
  <2> QED
    BY <2>4, <2>6, <2>7, <2>8, <2>9
<1>7. DiagonalsCost(g, s, t, gap)
  BY <1>6 DEF DiagonalsCost
<1> QED
  BY <1>3, <1>4, <1>5, <1>7 DEF Priced

\* Along a diagonal prices do not fall; along a snake they stay.
Matches(s, t, x, y, size) == \A i \in 1..size : s[x + i] = t[y + i]

LEMMA DiagonalsGrow ==
  ASSUME NEW g, NEW s, NEW t, NEW gap \in Nat, NEW m \in Nat, NEW n \in Nat, Len(s) = m, Len(t) = n,
         Priced(g, s, t, gap), NEW x \in Nat, NEW y \in Nat, NEW size \in Nat, x + size <= m, y + size <= n
  PROVE  /\ Price(g, gap, x, y) <= Price(g, gap, x + size, y + size)
         /\ Matches(s, t, x, y, size) => Price(g, gap, x, y) = Price(g, gap, x + size, y + size)
<1> DEFINE At(i) == Price(g, gap, x + i, y + i)
           matches == Matches(s, t, x, y, size)
           H == {i \in 0..size : At(0) <= At(i) /\ (matches => At(0) = At(i))}
<1>1. ASSUME NEW i \in 0..size PROVE At(i) \in Nat
  <2>1. x + i \in 0..m /\ y + i \in 0..n
    OBVIOUS
  <2> QED
    BY <2>1 DEF Priced, PricesAreBounded
<1>2. ASSUME NEW i \in 1..size PROVE At(i) >= At(i - 1) /\ (matches => At(i) = At(i - 1))
  <2> DEFINE v == x + i  w == y + i
  <2>1. v \in 1..m /\ w \in 1..n /\ v - 1 = x + (i - 1) /\ w - 1 = y + (i - 1)
    OBVIOUS
  <2>2. matches => s[v] = t[w]
    BY DEF Matches
  <2> HIDE DEF matches
  <2>3. At(i) = Price(g, gap, v, w) /\ At(i - 1) = Price(g, gap, v - 1, w - 1)
    BY <2>1
  <2> HIDE DEF At, v, w
  <2> QED
    BY <2>1, <2>2, <2>3 DEF Priced, DiagonalsCost
<1> HIDE DEF At, matches
<1>3. 0 \in H
  <2>1. 0 \in 0..size
    OBVIOUS
  <2> QED
    BY <1>1, <2>1
<1>4. ASSUME NEW i \in 1..size, i - 1 \in H PROVE i \in H
  <2>1. i \in 0..size /\ i - 1 \in 0..size /\ 0 \in 0..size
    OBVIOUS
  <2>2. At(0) \in Nat /\ At(i) \in Nat /\ At(i - 1) \in Nat
    BY <1>1, <2>1
  <2> QED
    BY <1>2, <1>4, <2>1, <2>2
<1> HIDE DEF H
<1>5. \A i \in 0..size : i \in H
  BY <1>3, <1>4, StepByStep
<1>6. size \in H
  BY <1>5
<1>7. At(0) <= At(size) /\ (matches => At(0) = At(size))
  BY <1>6 DEF H
<1>8. x + 0 = x /\ y + 0 = y
  OBVIOUS
<1> QED
  BY <1>7, <1>8 DEF At, matches

LEMMA SnakeIsFree ==
  ASSUME NEW g, NEW s, NEW t, NEW gap \in Nat, NEW m \in Nat, NEW n \in Nat, Len(s) = m, Len(t) = n,
         Priced(g, s, t, gap), NEW x \in Nat, NEW y \in Nat, NEW size \in Nat, x + size <= m, y + size <= n,
         Matches(s, t, x, y, size)
  PROVE  Price(g, gap, x, y) = Price(g, gap, x + size, y + size)
BY DiagonalsGrow

\* The price that points on diagonal d may have: that of the round in which it was
\* collected last.
Limit(gap, round, here, d) == IF Visited(gap, round, here, d) THEN round ELSE round - 1
Farthest(g, f, m, gap, round, here) ==
  \A x \in 0..m, y \in 0..m + gap :
    Price(g, gap, x, y) <= Limit(gap, round, here, y - x) <=> y <= f[y - x]

LEMMA LimitIs ==
  ASSUME NEW gap \in Nat, NEW round \in Nat, NEW here \in -round..gap + round
  PROVE  /\ \A d \in Int : Limit(gap, round, here, d) = round \/ Limit(gap, round, here, d) = round - 1
         /\ Limit(gap, round, here, here) = round - 1
         /\ here > gap => Limit(gap, round, here, here - 1) = round - 1
         /\ here < gap => Limit(gap, round, here, here + 1) = round - 1
         /\ here <= gap /\ here > -round => Limit(gap, round, here, here - 1) = round
         /\ here >= gap /\ here < gap + round => Limit(gap, round, here, here + 1) = round
<1>1. ~Visited(gap, round, here, here)
  BY DEF Visited
<1>2. here > gap => ~Visited(gap, round, here, here - 1)
  BY DEF Visited
<1>3. here < gap => ~Visited(gap, round, here, here + 1)
  BY DEF Visited
<1>4. here <= gap /\ here > -round => Visited(gap, round, here, here - 1)
  BY DEF Visited
<1>5. here >= gap /\ here < gap + round => Visited(gap, round, here, here + 1)
  BY DEF Visited
<1> QED
  BY <1>1, <1>2, <1>3, <1>4, <1>5 DEF Limit

\* Within a round, only the diagonal that was collected has a new limit.
LEMMA LimitGoesOn ==
  ASSUME NEW gap \in Nat, NEW round \in Nat, NEW here \in -round..gap + round, here # gap, NEW d \in Int
  PROVE  Limit(gap, round, Succeeding(gap, round, here), d)
           = IF d = here THEN round ELSE Limit(gap, round, here, d)
<1> DEFINE next == Succeeding(gap, round, here)
<1>1. \/ here < gap - 1 /\ next = here + 1
      \/ here = gap - 1 /\ round > 0 /\ next = gap + round
      \/ here = gap - 1 /\ round = 0 /\ next = gap
      \/ here > gap /\ next = here - 1
  BY DEF Succeeding
<1> HIDE DEF next
<1>2. Visited(gap, round, next, d) <=> Visited(gap, round, here, d) \/ d = here
  BY <1>1 DEF Visited
<1>3. Limit(gap, round, next, d) = IF d = here THEN round ELSE Limit(gap, round, here, d)
  BY <1>2 DEF Limit
<1> QED
  BY <1>3 DEF next

\* A round that begins has the limits of the one that ended.
LEMMA LimitStarts ==
  ASSUME NEW gap \in Nat, NEW round \in Nat, NEW d \in Int
  PROVE  Limit(gap, round, -round, d) = round - 1
<1>1. -round <= gap
  OBVIOUS
<1>2. ~Visited(gap, round, -round, d)
  BY <1>1 DEF Visited
<1> QED
  BY <1>2 DEF Limit

LEMMA Neighbours ==
  ASSUME NEW m \in Nat \ {0}, NEW gap \in Nat, NEW f, NEW round, NEW here,
         Table(f, m, gap), Swept(f, m, gap, round, here)
  PROVE  /\ round \in Nat /\ round <= m /\ here \in -round..gap + round /\ here \in Int
         /\ here - 1 \in Int /\ here + 1 \in Int
         /\ f[here - 1] \in -1..m + gap /\ f[here + 1] \in -1..m + gap
<1>1. round \in Nat /\ round <= m /\ here \in -round..gap + round /\ here \in Int
  BY DEF Swept
<1>2. here - 1 \in -(m + 1)..m + gap + 1 /\ here + 1 \in -(m + 1)..m + gap + 1
  BY <1>1
<1>3. \A d \in -(m + 1)..m + gap + 1 : f[d] \in -1..m + gap
  BY DEF Table
<1>4. here - 1 \in Int /\ here + 1 \in Int
  BY <1>1
<1> QED
  BY <1>1, <1>2, <1>3, <1>4

\* The point from which a step goes on costs no more than the round.
LEMMA StepStartsCheap ==
  ASSUME NEW g, NEW s, NEW t, NEW m \in Nat \ {0}, NEW gap \in Nat, Len(s) = m, Len(t) = m + gap,
         Priced(g, s, t, gap), NEW f, NEW round, NEW here,
         Table(f, m, gap), Swept(f, m, gap, round, here), Farthest(g, f, m, gap, round, here)
  PROVE  Price(g, gap, From(f, here) - here, From(f, here)) <= round
<1> DEFINE n == m + gap  y == From(f, here)  x == y - here  u == f[here - 1]  v == f[here + 1]
           before == Limit(gap, round, here, here - 1)  after == Limit(gap, round, here, here + 1)
<1>1. n \in Nat /\ round \in Nat /\ round <= m /\ here \in -round..gap + round /\ here \in Int
  BY Neighbours
<1>2. y \in 0..n /\ x \in 0..m
  BY SweepReaches
<1>3. u \in -1..n /\ v \in -1..n
  BY Neighbours
<1>4. y = IF u + 1 > v THEN u + 1 ELSE v
  BY DEF From
<1>5. /\ before = round \/ before = round - 1
      /\ after = round \/ after = round - 1
      /\ here > gap => before = round - 1
      /\ here < gap => after = round - 1
  <2>1. here - 1 \in Int /\ here + 1 \in Int
    BY <1>1
  <2>2. \A d \in Int : Limit(gap, round, here, d) = round \/ Limit(gap, round, here, d) = round - 1
    BY <1>1, LimitIs
  <2>3. here > gap => Limit(gap, round, here, here - 1) = round - 1
    BY <1>1, LimitIs
  <2>4. here < gap => Limit(gap, round, here, here + 1) = round - 1
    BY <1>1, LimitIs
  <2> QED
    BY <2>1, <2>2, <2>3, <2>4
<1>6. \A i \in 0..m, j \in 0..n :
        Price(g, gap, i, j) <= Limit(gap, round, here, j - i) <=> j <= f[j - i]
  BY DEF Farthest
<1>7. /\ PricesAreBounded(g, gap, m, n) /\ DeletionsCost(g, gap, m, n) /\ InsertionsCost(g, gap, m, n)
  BY DEF Priced
<1>8. y - x = here
  BY <1>1, <1>2
<1> DEFINE price == Price(g, gap, x, y)
<1>9. price \in Nat /\ (x = 0 \/ y = 0 => price = IF x >= y - gap THEN x ELSE y - gap)
  BY <1>2, <1>7 DEF PricesAreBounded
<1>10. CASE x = 0 \/ y = 0
  <2> HIDE DEF price, x, y
  <2>1. price = IF x >= y - gap THEN x ELSE y - gap
    BY <1>9, <1>10
  <2>2. (x = 0 /\ y - gap <= round) \/ (y = 0 /\ x <= round)
    BY <1>1, <1>2, <1>8, <1>10
  <2>3. price <= round
    BY <1>1, <1>2, <2>1, <2>2
  <2> QED
    BY <2>3 DEF price, x, y
<1>11. CASE x # 0 /\ y # 0 /\ u + 1 > v
  <2> DEFINE last == Price(g, gap, x, y - 1)
  <2>1. y \in 1..n /\ y - 1 \in 0..n /\ (y - 1) - x = here - 1 /\ y - 1 = u
    <3>1. y = u + 1
      BY <1>4, <1>11
    <3> HIDE DEF y, u, v
    <3> QED
      BY <1>1, <1>2, <1>3, <1>8, <1>11, <3>1
  <2>2. last <= before <=> y - 1 <= f[here - 1]
    <3> HIDE DEF x, y
    <3>1. Price(g, gap, x, y - 1) <= Limit(gap, round, here, (y - 1) - x) <=> y - 1 <= f[(y - 1) - x]
      BY <1>2, <1>6, <2>1
    <3> QED
      BY <2>1, <3>1
  <2>3. last <= before
    BY <1>3, <2>1, <2>2
  <2>4. last \in Nat
    BY <1>2, <1>7, <2>1 DEF PricesAreBounded
  <2>5. price <= last + Up(gap, y - x)
    <3> HIDE DEF x, y
    <3> QED
      BY <1>2, <1>7, <2>1 DEF InsertionsCost
  <2>6. Up(gap, y - x) = IF here > gap THEN 1 ELSE 0
    BY <1>8 DEF Up
  <2> HIDE DEF price, last, before, x, y
  <2>7. price <= round
    BY <1>1, <1>5, <1>9, <2>3, <2>4, <2>5, <2>6
  <2> QED
    BY <2>7 DEF price, x, y
<1>12. CASE x # 0 /\ y # 0 /\ ~(u + 1 > v)
  <2> DEFINE last == Price(g, gap, x - 1, y)
  <2>1. x \in 1..m /\ x - 1 \in 0..m /\ y - (x - 1) = here + 1 /\ y = v
    <3>1. y = v
      BY <1>4, <1>12
    <3> HIDE DEF y, u, v
    <3> QED
      BY <1>1, <1>2, <1>3, <1>8, <1>12, <3>1
  <2>2. last <= after <=> y <= f[here + 1]
    <3> HIDE DEF x, y
    <3>1. Price(g, gap, x - 1, y) <= Limit(gap, round, here, y - (x - 1)) <=> y <= f[y - (x - 1)]
      BY <1>2, <1>6, <2>1
    <3> QED
      BY <2>1, <3>1
  <2>3. last <= after
    BY <1>3, <2>1, <2>2
  <2>4. last \in Nat
    BY <1>2, <1>7, <2>1 DEF PricesAreBounded
  <2>5. price <= last + Down(gap, y - x)
    <3> HIDE DEF x, y
    <3> QED
      BY <1>2, <1>7, <2>1 DEF DeletionsCost
  <2>6. Down(gap, y - x) = IF here < gap THEN 1 ELSE 0
    BY <1>8 DEF Down
  <2> HIDE DEF price, last, after, x, y
  <2>7. price <= round
    BY <1>1, <1>5, <1>9, <2>3, <2>4, <2>5, <2>6
  <2> QED
    BY <2>7 DEF price, x, y
<1> QED
  BY <1>10, <1>11, <1>12

\* Where a snake ends, the next point of the diagonal costs more than the round.
LEMMA StepStopsDear ==
  ASSUME NEW g, NEW s, NEW t, NEW m \in Nat \ {0}, NEW gap \in Nat, Len(s) = m, Len(t) = m + gap,
         Priced(g, s, t, gap), NEW f, NEW round, NEW here,
         Table(f, m, gap), Swept(f, m, gap, round, here), Farthest(g, f, m, gap, round, here),
         NEW x \in 1..m, NEW y \in 1..m + gap, y - x = here, s[x] # t[y],
         y > f[here - 1] + 1, y > f[here + 1]
  PROVE  Price(g, gap, x, y) > round
<1> DEFINE n == m + gap  u == f[here - 1]  v == f[here + 1]
           before == Limit(gap, round, here, here - 1)  after == Limit(gap, round, here, here + 1)
<1>1. n \in Nat /\ round \in Nat /\ round <= m /\ here \in -round..gap + round /\ here \in Int
  BY Neighbours
<1>2. u \in -1..n /\ v \in -1..n
  BY Neighbours
<1>3. /\ before = round \/ before = round - 1
      /\ after = round \/ after = round - 1
      /\ here <= gap /\ here > -round => before = round
      /\ here >= gap /\ here < gap + round => after = round
  <2>1. here - 1 \in Int /\ here + 1 \in Int
    BY <1>1
  <2>2. \A d \in Int : Limit(gap, round, here, d) = round \/ Limit(gap, round, here, d) = round - 1
    BY <1>1, LimitIs
  <2>3. here <= gap /\ here > -round => Limit(gap, round, here, here - 1) = round
    BY <1>1, LimitIs
  <2>4. here >= gap /\ here < gap + round => Limit(gap, round, here, here + 1) = round
    BY <1>1, LimitIs
  <2> QED
    BY <2>1, <2>2, <2>3, <2>4
<1>4. \A i \in 0..m, j \in 0..n :
        Price(g, gap, i, j) <= Limit(gap, round, here, j - i) <=> j <= f[j - i]
  BY DEF Farthest
<1>5. PricesAreBounded(g, gap, m, n) /\ DiagonalsCost(g, s, t, gap)
  BY DEF Priced
<1>6. /\ x \in 0..m /\ x - 1 \in 0..m /\ y \in 0..n /\ y - 1 \in 0..n
      /\ y - (x - 1) = here + 1 /\ (y - 1) - x = here - 1
  BY <1>1
<1> DEFINE price == Price(g, gap, x, y)  over == Price(g, gap, x - 1, y)  down == Price(g, gap, x, y - 1)
<1>7. /\ over \in Nat /\ down \in Nat /\ price \in Nat
      /\ over >= y - gap - (x - 1) /\ down >= x - (y - 1)
  BY <1>5, <1>6 DEF PricesAreBounded
<1>8. price = over + Down(gap, y - x) \/ price = down + Up(gap, y - x)
  BY <1>1, <1>5 DEF DiagonalsCost
<1>9. Down(gap, y - x) = (IF here < gap THEN 1 ELSE 0) /\ Up(gap, y - x) = (IF here > gap THEN 1 ELSE 0)
  BY DEF Down, Up
<1>10. ~(over <= after)
  <2>1. Price(g, gap, x - 1, y) <= Limit(gap, round, here, y - (x - 1)) <=> y <= f[y - (x - 1)]
    BY <1>4, <1>6
  <2> QED
    BY <1>2, <1>6, <2>1
<1>11. ~(down <= before)
  <2>1. Price(g, gap, x, y - 1) <= Limit(gap, round, here, (y - 1) - x) <=> y - 1 <= f[(y - 1) - x]
    BY <1>4, <1>6
  <2> QED
    BY <1>2, <1>6, <2>1
<1> HIDE DEF price, over, down, before, after, u, v
<1>12. ASSUME price = over + Down(gap, y - x) PROVE price > round
  <2>1. CASE here < gap
    <3>1. price = over + 1
      BY <1>1, <1>9, <1>12, <2>1
    <3>2. after \in Int /\ after >= round - 1
      BY <1>1, <1>3
    <3>3. over \in Nat
      BY <1>7
    <3> QED
      BY <1>1, <1>10, <3>1, <3>2, <3>3
  <2>2. CASE here >= gap /\ here < gap + round
    BY <1>1, <1>3, <1>7, <1>9, <1>10, <1>12, <2>2
  <2>3. CASE here = gap + round
    BY <1>1, <1>6, <1>7, <1>9, <1>12, <2>3
  <2> QED
    BY <1>1, <2>1, <2>2, <2>3
<1>13. ASSUME price = down + Up(gap, y - x) PROVE price > round
  <2>1. CASE here > gap
    <3>1. price = down + 1
      BY <1>1, <1>9, <1>13, <2>1
    <3>2. before \in Int /\ before >= round - 1
      BY <1>1, <1>3
    <3>3. down \in Nat
      BY <1>7
    <3> QED
      BY <1>1, <1>11, <3>1, <3>2, <3>3
  <2>2. CASE here <= gap /\ here > -round
    BY <1>1, <1>3, <1>7, <1>9, <1>11, <1>13, <2>2
  <2>3. CASE here = -round
    BY <1>1, <1>6, <1>7, <1>9, <1>13, <2>3
  <2> QED
    BY <1>1, <2>1, <2>2, <2>3
<1> QED
  BY <1>8, <1>12, <1>13 DEF price

\* What matches after (x, y) ends at (z - d, z): there the elements differ or a side ends.
SnakeFrom(s, t, d, y, z) ==
  /\ z >= y /\ \A i \in 1..z - y : s[y - d + i] = t[y + i]
  /\ z - d < Len(s) /\ z < Len(t) => s[z - d + 1] # t[z + 1]

LEMMA StepIsExact ==
  ASSUME NEW g, NEW s, NEW t, NEW m \in Nat \ {0}, NEW gap \in Nat, Len(s) = m, Len(t) = m + gap,
         Priced(g, s, t, gap), NEW f, NEW round, NEW here,
         Table(f, m, gap), Swept(f, m, gap, round, here), Farthest(g, f, m, gap, round, here),
         NEW z, Reaches(f, m, gap, round, here, z), SnakeFrom(s, t, here, From(f, here), z)
  PROVE  \A x \in 0..m, y \in 0..m + gap :
           y - x = here => (Price(g, gap, x, y) <= round <=> y <= z)
<1> DEFINE n == m + gap  y0 == From(f, here)  x0 == y0 - here
<1>1. n \in Nat /\ round \in Nat /\ here \in Int
  BY Neighbours
<1>2. y0 \in 0..n /\ x0 \in 0..m
  BY SweepReaches
<1>3. /\ z \in 0..n /\ z - here \in 0..m /\ z >= f[here - 1] + 1 /\ z >= f[here + 1]
  BY DEF Reaches
<1>4. f[here - 1] \in Int /\ f[here + 1] \in Int
  BY Neighbours
<1>5. z >= y0 /\ (\A i \in 1..z - y0 : s[x0 + i] = t[y0 + i])
      /\ (z - here < m /\ z < n => s[z - here + 1] # t[z + 1])
  BY DEF SnakeFrom
<1>6. Price(g, gap, x0, y0) <= round
  BY StepStartsCheap
<1>7. \A x \in 0..m, y \in 0..n : Price(g, gap, x, y) \in Nat
  BY DEF Priced, PricesAreBounded
<1> HIDE DEF y0
<1>8. Price(g, gap, z - here, z) <= round
  <2> DEFINE size == z - y0
  <2>1. size \in Nat /\ x0 \in Nat /\ y0 \in Nat /\ x0 + size = z - here /\ y0 + size = z
        /\ x0 + size <= m /\ y0 + size <= n
    <3>1. z >= y0
      BY <1>5
    <3> QED
      BY <1>1, <1>2, <1>3, <3>1
  <2>2. Matches(s, t, x0, y0, size)
    BY <1>5 DEF Matches
  <2> HIDE DEF size, x0, n
  <2>3. Price(g, gap, x0, y0) = Price(g, gap, x0 + size, y0 + size)
    <3>1. Len(t) = n /\ m \in Nat
      BY DEF n
    <3> QED
      BY <1>1, <2>1, <2>2, <3>1, SnakeIsFree
  <2> QED
    BY <1>6, <2>1, <2>3
<1> SUFFICES ASSUME NEW x \in 0..m, NEW y \in 0..n, y - x = here
             PROVE  Price(g, gap, x, y) <= round <=> y <= z
  OBVIOUS
<1>9. CASE y <= z
  <2> DEFINE size == z - y
  <2>1. size \in Nat /\ x \in Nat /\ y \in Nat /\ x + size = z - here /\ y + size = z
        /\ x + size <= m /\ y + size <= n
    BY <1>1, <1>3, <1>9
  <2> HIDE DEF size
  <2>2. Price(g, gap, x, y) <= Price(g, gap, x + size, y + size)
    BY <1>1, <2>1, DiagonalsGrow
  <2>3. Price(g, gap, x, y) \in Nat /\ Price(g, gap, z - here, z) \in Nat
    BY <1>3, <1>7
  <2>4. Price(g, gap, x, y) <= round
    BY <1>1, <1>8, <2>1, <2>2, <2>3
  <2> QED
    BY <1>9, <2>4
<1>10. CASE y > z
  <2> DEFINE x1 == z - here + 1  y1 == z + 1  size == y - y1
  <2>1. /\ x1 \in 1..m /\ y1 \in 1..n /\ y1 - x1 = here /\ size \in Nat /\ x1 + size = x /\ y1 + size = y
        /\ z - here < m /\ z < n /\ y1 > f[here - 1] + 1 /\ y1 > f[here + 1]
        /\ x1 \in Nat /\ y1 \in Nat /\ x1 + size <= m /\ y1 + size <= n
        /\ x1 \in 0..m /\ y1 \in 0..n
    BY <1>1, <1>3, <1>4, <1>10
  <2>2. s[x1] # t[y1]
    BY <1>5, <2>1
  <2> HIDE DEF x1, y1, size
  <2>3. Price(g, gap, x1, y1) > round
    BY <2>1, <2>2, StepStopsDear
  <2>4. Price(g, gap, x1, y1) <= Price(g, gap, x1 + size, y1 + size)
    BY <1>1, <2>1, DiagonalsGrow
  <2>5. Price(g, gap, x, y) \in Nat /\ Price(g, gap, x1, y1) \in Nat
    BY <1>7, <2>1
  <2>6. ~(Price(g, gap, x, y) <= round)
    <3>1. Price(g, gap, x1, y1) <= Price(g, gap, x, y)
      BY <2>1, <2>4
    <3> DEFINE high == Price(g, gap, x, y)  low == Price(g, gap, x1, y1)
    <3>2. low <= high /\ low > round /\ low \in Nat /\ high \in Nat
      BY <2>3, <2>5, <3>1
    <3> HIDE DEF high, low
    <3>3. ~(high <= round)
      BY <1>1, <3>2
    <3> QED
      BY <3>3 DEF high
  <2>7. ~(y <= z)
    BY <1>3, <1>10
  <2> QED
    BY <2>6, <2>7
<1>11. y <= z \/ y > z
  BY <1>3
<1> QED
  BY <1>9, <1>10, <1>11

LEMMA GreatestIsThere ==
  ASSUME NEW n \in Nat, NEW T \in SUBSET (0..n), T # {}
  PROVE  \E q \in T : \A i \in T : i <= q
<1> DEFINE U == {n - i : i \in T}
<1>1. U \in SUBSET Nat /\ U # {}
  <2>1. \A i \in T : n - i \in Nat
    OBVIOUS
  <2> QED
    BY <2>1
<1>2. Min(U) \in U /\ \A i \in U : Min(U) <= i
  BY <1>1, SmallestIsIn
<1>3. PICK q \in T : Min(U) = n - q
  BY <1>2
<1>4. \A i \in T : n - q <= n - i
  BY <1>2, <1>3
<1>5. \A i \in T : i <= q
  BY <1>4
<1> QED
  BY <1>5

LEMMA FarthestStarts ==
  ASSUME NEW g, NEW s, NEW t, NEW m \in Nat \ {0}, NEW gap \in Nat, Len(s) = m, Len(t) = m + gap,
         Priced(g, s, t, gap), NEW f, f = [d \in -(m + 1)..m + gap + 1 |-> -1]
  PROVE  Farthest(g, f, m, gap, 0, 0)
<1> SUFFICES ASSUME NEW x \in 0..m, NEW y \in 0..m + gap
             PROVE  Price(g, gap, x, y) <= Limit(gap, 0, 0, y - x) <=> y <= f[y - x]
  BY DEF Farthest
<1>1. y - x \in -(m + 1)..m + gap + 1 /\ y - x \in Int
  OBVIOUS
<1>2. f[y - x] = -1
  BY <1>1
<1>3. Limit(gap, 0, 0, y - x) = -1
  <2>1. ~Visited(gap, 0, 0, y - x)
    BY <1>1 DEF Visited
  <2> QED
    BY <2>1 DEF Limit
<1>4. Price(g, gap, x, y) \in Nat
  BY DEF Priced, PricesAreBounded
<1> QED
  BY <1>2, <1>3, <1>4

LEMMA FarthestGoesOn ==
  ASSUME NEW g, NEW s, NEW t, NEW m \in Nat \ {0}, NEW gap \in Nat, Len(s) = m, Len(t) = m + gap,
         Priced(g, s, t, gap), NEW f, NEW round, NEW here,
         Table(f, m, gap), Swept(f, m, gap, round, here), Farthest(g, f, m, gap, round, here),
         NEW z, Reaches(f, m, gap, round, here, z), SnakeFrom(s, t, here, From(f, here), z), here # gap
  PROVE  Farthest(g, [f EXCEPT ![here] = z], m, gap, round, Succeeding(gap, round, here))
<1> DEFINE h == [f EXCEPT ![here] = z]  next == Succeeding(gap, round, here)
<1>1. round \in Nat /\ round <= m /\ here \in -round..gap + round /\ here \in Int
  BY Neighbours
<1>2. \A x \in 0..m, y \in 0..m + gap : y - x = here => (Price(g, gap, x, y) <= round <=> y <= z)
  BY StepIsExact
<1>3. \A x \in 0..m, y \in 0..m + gap :
        Price(g, gap, x, y) <= Limit(gap, round, here, y - x) <=> y <= f[y - x]
  BY DEF Farthest
<1>4. \A d \in Int : Limit(gap, round, next, d) = IF d = here THEN round ELSE Limit(gap, round, here, d)
  BY <1>1, LimitGoesOn
<1>5. \A d \in -(m + 1)..m + gap + 1 : h[d] = IF d = here THEN z ELSE f[d]
  BY DEF Table
<1> HIDE DEF h, next
<1> SUFFICES ASSUME NEW x \in 0..m, NEW y \in 0..m + gap
             PROVE  Price(g, gap, x, y) <= Limit(gap, round, next, y - x) <=> y <= h[y - x]
  BY DEF Farthest, h, next
<1>6. y - x \in Int /\ y - x \in -(m + 1)..m + gap + 1
  OBVIOUS
<1>7. /\ Limit(gap, round, next, y - x) = IF y - x = here THEN round ELSE Limit(gap, round, here, y - x)
      /\ h[y - x] = IF y - x = here THEN z ELSE f[y - x]
  BY <1>4, <1>5, <1>6
<1>8. CASE y - x = here
  BY <1>2, <1>7, <1>8
<1>9. CASE y - x # here
  BY <1>3, <1>7, <1>9
<1> QED
  BY <1>8, <1>9

LEMMA FarthestNextRound ==
  ASSUME NEW g, NEW s, NEW t, NEW m \in Nat \ {0}, NEW gap \in Nat, Len(s) = m, Len(t) = m + gap,
         Priced(g, s, t, gap), NEW f, NEW round,
         Table(f, m, gap), Swept(f, m, gap, round, gap), Farthest(g, f, m, gap, round, gap),
         NEW z, Reaches(f, m, gap, round, gap, z), SnakeFrom(s, t, gap, From(f, gap), z)
  PROVE  Farthest(g, [f EXCEPT ![gap] = z], m, gap, round + 1, -(round + 1))
<1> DEFINE h == [f EXCEPT ![gap] = z]  next == -(round + 1)
<1>1. round \in Nat /\ round <= m /\ round + 1 \in Nat
  BY Neighbours
<1>2. \A x \in 0..m, y \in 0..m + gap : y - x = gap => (Price(g, gap, x, y) <= round <=> y <= z)
  BY StepIsExact
<1>3. \A x \in 0..m, y \in 0..m + gap :
        Price(g, gap, x, y) <= Limit(gap, round, gap, y - x) <=> y <= f[y - x]
  BY DEF Farthest
<1>4. \A d \in Int : Limit(gap, round + 1, next, d) = round
  <2>1. \A d \in Int : Limit(gap, round + 1, -(round + 1), d) = (round + 1) - 1
    BY <1>1, LimitStarts
  <2> QED
    BY <1>1, <2>1
<1>5. \A d \in -(m + 1)..m + gap + 1 : h[d] = IF d = gap THEN z ELSE f[d]
  BY DEF Table
<1>6. PricesAreBounded(g, gap, m, m + gap)
  BY DEF Priced
<1>7. Untouched(f, m, gap, round, gap)
  BY DEF Swept
<1> HIDE DEF h, next
<1> SUFFICES ASSUME NEW x \in 0..m, NEW y \in 0..m + gap
             PROVE  Price(g, gap, x, y) <= Limit(gap, round + 1, next, y - x) <=> y <= h[y - x]
  BY DEF Farthest, h, next
<1> DEFINE d == y - x  price == Price(g, gap, x, y)
<1>8. d \in Int /\ d \in -(m + 1)..m + gap + 1 /\ d = y - x
  OBVIOUS
<1>9. Limit(gap, round + 1, next, d) = round /\ h[d] = IF d = gap THEN z ELSE f[d]
  BY <1>4, <1>5, <1>8
<1>10. price \in Nat /\ price >= x - y /\ price >= y - gap - x
  BY <1>6 DEF PricesAreBounded
<1>11. CASE d = gap
  BY <1>2, <1>9, <1>11
<1>12. CASE d # gap /\ d \in -round..gap + round
  <2>1. Visited(gap, round, gap, d)
    BY <1>1, <1>8, <1>12 DEF Visited
  <2>2. Limit(gap, round, gap, d) = round
    BY <2>1 DEF Limit
  <2>3. price <= Limit(gap, round, gap, d) <=> y <= f[d]
    BY <1>3
  <2> QED
    BY <1>9, <1>12, <2>2, <2>3
<1>13. CASE d # gap /\ d \notin -round..gap + round
  <2> HIDE DEF d
  <2>1. ~Visited(gap, round, gap, d) /\ ~Earlier(gap, round, gap, d)
    BY <1>1, <1>8, <1>13 DEF Visited, Earlier
  <2>2. f[d] = -1
    BY <1>7, <1>8, <2>1 DEF Untouched
  <2>3. h[d] = -1 /\ ~(y <= h[d])
    BY <1>9, <1>13, <2>2
  <2> HIDE DEF price
  <2>4. ~(price <= round)
    BY <1>1, <1>8, <1>10, <1>13
  <2> QED
    BY <1>9, <2>3, <2>4 DEF d, price
<1> QED
  BY <1>11, <1>12, <1>13

\* The end is reached in the round that is its price.
LEMMA EndIsExact ==
  ASSUME NEW g, NEW s, NEW t, NEW m \in Nat \ {0}, NEW gap \in Nat, Len(s) = m, Len(t) = m + gap,
         Priced(g, s, t, gap), NEW f, NEW round,
         Table(f, m, gap), Swept(f, m, gap, round, gap), Farthest(g, f, m, gap, round, gap),
         NEW z, Reaches(f, m, gap, round, gap, z), SnakeFrom(s, t, gap, From(f, gap), z)
  PROVE  /\ Price(g, gap, m, m + gap) \in Nat
         /\ z = m + gap => Price(g, gap, m, m + gap) = round
         /\ z # m + gap => Price(g, gap, m, m + gap) > round
<1> DEFINE n == m + gap  price == Price(g, gap, m, n)
<1>1. round \in Nat /\ round <= m /\ gap \in -round..gap + round
  BY Neighbours
<1>2. m \in 0..m /\ n \in 0..n /\ n - m = gap
  OBVIOUS
<1>3. price <= round <=> n <= z
  BY <1>2, StepIsExact
<1>4. price \in Nat
  BY <1>2 DEF Priced, PricesAreBounded
<1>5. z \in 0..n
  BY DEF Reaches
<1>6. ~(price <= round - 1)
  <2>1. CASE round = 0
    BY <1>4, <2>1
  <2>2. CASE round > 0
    <3>1. Limit(gap, round, gap, gap) = round - 1
      BY <1>1, LimitIs
    <3>2. price <= round - 1 <=> n <= f[gap]
      BY <1>2, <3>1 DEF Farthest
    <3>3. Earlier(gap, round, gap, gap) /\ gap \in 1 - round..gap
      BY <1>1, <2>2 DEF Earlier, Visited
    <3>4. f[gap] - gap \in round - 1..m - 1
      BY <3>3 DEF Swept, LeftBelow
    <3>5. f[gap] \in Int
      <4>1. gap \in -(m + 1)..m + gap + 1
        OBVIOUS
      <4> QED
        BY <4>1 DEF Table
    <3>6. ~(n <= f[gap])
      BY <1>1, <3>4, <3>5
    <3> QED
      BY <3>2, <3>6
  <2> QED
    BY <1>1, <2>1, <2>2
<1> HIDE DEF price
<1>7. ASSUME z = n PROVE price = round
  BY <1>1, <1>3, <1>4, <1>5, <1>6, <1>7
<1>8. ASSUME z # n PROVE price > round
  BY <1>1, <1>3, <1>4, <1>5, <1>8
<1> QED
  BY <1>4, <1>7, <1>8 DEF price

\* What the engine reaches is the end of a snake.
LEMMA SnakeEnds ==
  ASSUME a \in Seq(Element), b \in Seq(Element), NEW d \in Int, NEW y \in 0..N, y - d \in 0..M
  PROVE  SnakeFrom(a, b, d, y, SnakeEnd(d, y))
<1> DEFINE x == y - d
           S == {n \in 1..M : x + n <= M /\ y + n <= N /\ \A i \in 1..n : a[x + i] = b[y + i]}
           T == S \union {0}
           z == SnakeEnd(d, y)
<1>1. M \in Nat /\ N \in Nat /\ Len(a) = M /\ Len(b) = N
  BY DEF M, N
<1>2. T \in SUBSET (0..M) /\ T # {} /\ 0 \in T
  BY <1>1
<1>3. z = y + Max(T)
  BY DEF SnakeEnd
<1>4. \A n \in 1..M : x + n <= M /\ y + n <= N /\ (\A i \in 1..n : a[x + i] = b[y + i]) => n \in T
  OBVIOUS
<1>5. \A n \in T : \A i \in 1..n : a[x + i] = b[y + i]
  OBVIOUS
<1> HIDE DEF S, T
<1>6. Max(T) \in T /\ \A n \in T : n <= Max(T)
  <2>1. PICK q \in T : \A n \in T : n <= q
    BY <1>1, <1>2, GreatestIsThere
  <2>2. \A n \in T : q >= n
    BY <1>1, <1>2, <2>1
  <2>3. Max(T) \in T /\ \A n \in T : Max(T) >= n
    BY <2>1, <2>2 DEF Max
  <2> QED
    BY <1>1, <1>2, <2>3
<1> DEFINE q == Max(T)
<1>7. q \in Nat /\ z = y + q /\ z - y = q /\ z - d = x + q
  <2>1. q \in 0..M
    BY <1>2, <1>6
  <2>2. q \in Nat /\ z = y + q
    BY <1>1, <1>3, <2>1
  <2> HIDE DEF q, z
  <2>3. x = y - d /\ y \in Int
    BY <1>1
  <2> HIDE DEF x
  <2> QED
    BY <2>2, <2>3
<1> HIDE DEF q, z
<1>8. z >= y /\ \A i \in 1..z - y : a[y - d + i] = b[y + i]
  BY <1>5, <1>6, <1>7 DEF q
<1>9. ASSUME z - d < M, z < N, a[z - d + 1] = b[z + 1] PROVE FALSE
  <2>1. q + 1 \in 1..M /\ x + (q + 1) <= M /\ y + (q + 1) <= N
    BY <1>1, <1>7, <1>9
  <2>2. \A i \in 1..q + 1 : a[x + i] = b[y + i]
    <3> SUFFICES ASSUME NEW i \in 1..q + 1 PROVE a[x + i] = b[y + i]
      OBVIOUS
    <3>1. CASE i = q + 1
      <4>1. x + i = z - d + 1 /\ y + i = z + 1
        BY <1>7, <3>1
      <4> QED
        BY <1>9, <4>1
    <3>2. CASE i \in 1..q
      BY <1>5, <1>6, <3>2 DEF q
    <3> QED
      BY <1>7, <3>1, <3>2
  <2>3. q + 1 \in T
    BY <1>4, <2>1, <2>2
  <2>4. q + 1 <= q
    BY <1>6, <2>3 DEF q
  <2> QED
    BY <1>7, <2>4
<1>10. SnakeFrom(a, b, d, y, z)
  BY <1>1, <1>8, <1>9 DEF SnakeFrom
<1> QED
  BY <1>10 DEF z

-----------------------------------------------------------------------------
(* What a script changes.                                                  *)

IsSum(f, script) ==
  /\ \A i \in 0..Len(script) : f[i] \in Int
  /\ f[0] = 0 /\ \A i \in 1..Len(script) : f[i] = f[i - 1] + Touched(script[i])

LEMMA TouchedIs ==
  ASSUME NEW script \in Seq(AnyHunks), NEW i \in 1..Len(script)
  PROVE  script[i] \in AnyHunks /\ Touched(script[i]) \in Int
<1>1. script[i] \in AnyHunks
  BY ElementOfSeq
<1> DEFINE lc == script[i].lc  rc == script[i].rc
<1>2. lc \in Int /\ rc \in Int
  BY <1>1 DEF AnyHunks
<1>3. Touched(script[i]) = IF script[i].type = "Equal" THEN 0 ELSE lc + rc
  BY DEF Touched
<1> HIDE DEF lc, rc
<1> QED
  BY <1>1, <1>2, <1>3

LEMMA SumIs ==
  ASSUME NEW script \in Seq(AnyHunks)
  PROVE  \E f : IsSum(f, script) /\ Changed(script) = f[Len(script)]
<1> DEFINE n == Len(script)
           step == [z \in (1..n) \X Int |-> z[2] + Touched(script[z[1]])]
           Recurs(f) == f = [i \in 0..n |-> IF i = 0 THEN 0 ELSE f[i - 1] + Touched(script[i])]
<1>1. n \in Nat
  OBVIOUS
<1>2. \A i \in 1..n : Touched(script[i]) \in Int
  BY TouchedIs
<1> HIDE DEF n
<1>3. step \in [(1..n) \X Int -> Int]
  <2>1. ASSUME NEW z \in (1..n) \X Int PROVE z[2] + Touched(script[z[1]]) \in Int
    <3>1. z[2] \in Int /\ Touched(script[z[1]]) \in Int
      BY <1>2
    <3> QED
      BY <3>1
  <2> QED
    BY <2>1
<1>4. \A i \in 1..n, j \in Int : step[<<i, j>>] = j + Touched(script[i])
  OBVIOUS
<1> HIDE DEF step
<1>5. PICK g : Recursion(g, Int, n, 0, step)
  <2>1. 0 \in Int
    OBVIOUS
  <2> QED
    BY <1>1, <1>3, <2>1, RecursionExists
<1>6. g \in [0..n -> Int] /\ g[0] = 0 /\ \A i \in 1..n : g[i] = step[<<i, g[i - 1]>>]
  BY <1>5 DEF Recursion
<1>7. \A i \in 1..n : g[i] = g[i - 1] + Touched(script[i])
  <2>1. \A i \in 1..n : i - 1 \in 0..n /\ g[i - 1] \in Int
    BY <1>1, <1>6
  <2> QED
    BY <1>4, <1>6, <2>1
<1>8. Recurs(g)
  BY <1>6, <1>7
<1>9. Changed(script) = (CHOOSE f : Recurs(f))[n]
  BY DEF Changed, n
<1>10. Recurs(CHOOSE f : Recurs(f))
  <2> HIDE DEF Recurs
  <2> QED
    BY <1>8
<1> DEFINE out == CHOOSE f : Recurs(f)
<1>11. /\ DOMAIN out = 0..n /\ out = [i \in 0..n |-> out[i]] /\ out[0] = 0
       /\ \A i \in 1..n : out[i] = out[i - 1] + Touched(script[i])
  <2>1. out = [i \in 0..n |-> IF i = 0 THEN 0 ELSE out[i - 1] + Touched(script[i])]
    BY <1>10
  <2> HIDE DEF out
  <2>2. \A i \in 1..n : i \in 0..n /\ i # 0
    OBVIOUS
  <2>3. 0 \in 0..n
    BY <1>1
  <2> QED
    BY <2>1, <2>2, <2>3
<1>12. Changed(script) = out[n]
  BY <1>9
<1> HIDE DEF out, Recurs
<1>13. out \in [0..n -> Int]
  <2>1. ASSUME NEW i \in 1..n, out[i - 1] \in Int PROVE out[i] \in Int
    <3>1. out[i] = out[i - 1] + Touched(script[i])
      BY <1>11
    <3>2. Touched(script[i]) \in Int
      BY <1>2
    <3> QED
      BY <2>1, <3>1, <3>2
  <2>2. out[0] \in Int
    BY <1>11
  <2> QED
    BY <1>1, <1>11, <2>1, <2>2, StepsAreTyped
<1>14. IsSum(out, script)
  BY <1>11, <1>13 DEF IsSum, n
<1> QED
  BY <1>12, <1>14 DEF n

LEMMA SumsAgree ==
  ASSUME NEW script, NEW other, NEW f, NEW g, IsSum(f, script), IsSum(g, other),
         NEW n \in Nat, Len(script) \in Nat, Len(other) \in Nat, n <= Len(script), n <= Len(other),
         \A i \in 1..n : Touched(script[i]) = Touched(other[i])
  PROVE  f[n] = g[n]
<1> DEFINE H == {i \in 0..n : f[i] = g[i]}
<1>1. 0 \in H
  BY DEF IsSum
<1>2. ASSUME NEW i \in 1..n, i - 1 \in H PROVE i \in H
  <2>1. i \in 1..Len(script) /\ i \in 1..Len(other)
    OBVIOUS
  <2>2. f[i] = f[i - 1] + Touched(script[i]) /\ g[i] = g[i - 1] + Touched(other[i])
    BY <2>1 DEF IsSum
  <2> QED
    BY <1>2, <2>2
<1> HIDE DEF H
<1>3. \A i \in 0..n : i \in H
  BY <1>1, <1>2, StepByStep
<1>4. n \in H
  BY <1>3
<1> QED
  BY <1>4 DEF H

LEMMA ChangedIs ==
  ASSUME NEW script \in Seq(AnyHunks)
  PROVE  Changed(script) \in Int /\ (script = <<>> => Changed(script) = 0)
<1>1. PICK f : IsSum(f, script) /\ Changed(script) = f[Len(script)]
  BY SumIs
<1>2. Len(script) \in Nat /\ (script = <<>> => Len(script) = 0)
  OBVIOUS
<1> QED
  BY <1>1, <1>2 DEF IsSum

\* A script that shares its first n hunks with another one, up to what they touch.
LEMMA ChangedShares ==
  ASSUME NEW script \in Seq(AnyHunks), NEW other \in Seq(AnyHunks), NEW n \in Nat, Len(other) = n + 1,
         Len(script) = n \/ Len(script) = n + 1,
         \A i \in 1..n : Touched(script[i]) = Touched(other[i])
  PROVE  /\ Len(script) = n => Changed(other) = Changed(script) + Touched(other[n + 1])
         /\ Len(script) = n + 1 =>
              Changed(other) = Changed(script) - Touched(script[n + 1]) + Touched(other[n + 1])
<1>1. PICK f : IsSum(f, script) /\ Changed(script) = f[Len(script)]
  BY SumIs
<1>2. PICK g : IsSum(g, other) /\ Changed(other) = g[Len(other)]
  BY SumIs
<1>3. f[n] = g[n]
  BY <1>1, <1>2, SumsAgree
<1>4. n + 1 \in 1..Len(other) /\ (n + 1) - 1 = n /\ n \in 0..Len(other)
  OBVIOUS
<1>5. g[n + 1] = g[n] + Touched(other[n + 1]) /\ g[n] \in Int /\ Touched(other[n + 1]) \in Int
  <2>1. Touched(other[n + 1]) \in Int
    BY <1>4, TouchedIs
  <2> QED
    BY <1>2, <1>4, <2>1 DEF IsSum
<1>6. ASSUME Len(script) = n + 1
      PROVE  f[n + 1] = f[n] + Touched(script[n + 1]) /\ Touched(script[n + 1]) \in Int
  <2>1. n + 1 \in 1..Len(script)
    BY <1>6
  <2>2. Touched(script[n + 1]) \in Int
    BY <2>1, TouchedIs
  <2> QED
    BY <1>1, <1>4, <2>1, <2>2 DEF IsSum
<1>7. CASE Len(script) = n
  BY <1>1, <1>2, <1>3, <1>5, <1>7
<1>8. CASE Len(script) = n + 1
  <2>1. Changed(script) = f[n] + Touched(script[n + 1])
    BY <1>1, <1>6, <1>8
  <2>2. Changed(other) = f[n] + Touched(other[n + 1])
    BY <1>2, <1>3, <1>5
  <2> DEFINE u == Touched(script[n + 1])  v == Touched(other[n + 1])  w == f[n]
  <2>3. u \in Int /\ v \in Int /\ w \in Int
    BY <1>3, <1>5, <1>6, <1>8
  <2>4. Changed(script) = w + u /\ Changed(other) = w + v
    BY <2>1, <2>2
  <2> HIDE DEF u, v, w
  <2>5. Changed(other) = Changed(script) - u + v
    BY <2>3, <2>4
  <2>6. Len(script) # n
    BY <1>8
  <2> QED
    BY <2>5, <2>6 DEF u, v
<1> QED
  BY <1>7, <1>8

LEMMA ChangedAlike ==
  ASSUME NEW script \in Seq(AnyHunks), NEW other \in Seq(AnyHunks), Len(script) = Len(other),
         \A i \in 1..Len(script) : Touched(script[i]) = Touched(other[i])
  PROVE  Changed(script) = Changed(other)
<1>1. PICK f : IsSum(f, script) /\ Changed(script) = f[Len(script)]
  BY SumIs
<1>2. PICK g : IsSum(g, other) /\ Changed(other) = g[Len(other)]
  BY SumIs
<1> DEFINE n == Len(script)
<1>3. n \in Nat /\ n <= Len(script) /\ n <= Len(other) /\ Len(other) = n
  OBVIOUS
<1>4. f[n] = g[n]
  BY <1>1, <1>2, <1>3, SumsAgree
<1> QED
  BY <1>1, <1>2, <1>4

LEMMA ChangedAppends ==
  ASSUME NEW script \in Seq(AnyHunks), NEW h \in AnyHunks
  PROVE  Changed(Append(script, h)) = Changed(script) + Touched(h)
<1> DEFINE n == Len(script)  new == Append(script, h)
<1>1. /\ n \in Nat /\ new \in Seq(AnyHunks) /\ Len(new) = n + 1 /\ new[n + 1] = h
      /\ \A i \in 1..n : new[i] = script[i]
  OBVIOUS
<1> HIDE DEF new
<1>2. \A i \in 1..n : Touched(script[i]) = Touched(new[i])
  BY <1>1
<1>3. Changed(new) = Changed(script) + Touched(new[n + 1])
  BY <1>1, <1>2, ChangedShares
<1> QED
  BY <1>1, <1>3 DEF new

LEMMA MatchedChangesNothing ==
  ASSUME NEW e, NEW next, NEW script \in Seq(AnyHunks),
         e.k \in Int, e.y \in Int, next.k \in Int, next.y \in Int
  PROVE  Changed(script \o Matched(e, next)) = Changed(script)
<1>1. CASE script \o Matched(e, next) = script
  BY <1>1
<1>2. ASSUME NEW n \in Nat \ {0},
             script \o Matched(e, next) = Append(script, EqualTo(X(next), next.y, n))
      PROVE  Changed(script \o Matched(e, next)) = Changed(script)
  <2> DEFINE h == EqualTo(X(next), next.y, n)
  <2>1. X(next) - n \in Int /\ next.y - n \in Int /\ n \in Int /\ "Equal" \in Type
    BY DEF X, Type
  <2>2. h \in AnyHunks /\ h.type = "Equal"
    BY <2>1, HunkIs DEF EqualTo
  <2> HIDE DEF h
  <2>3. Touched(h) = 0
    BY <2>2 DEF Touched
  <2>4. Changed(Append(script, h)) = Changed(script) + Touched(h)
    BY <2>2, ChangedAppends
  <2>5. Changed(script) \in Int
    BY ChangedIs
  <2> QED
    BY <1>2, <2>3, <2>4, <2>5 DEF h
<1> QED
  BY <1>1, <1>2, MatchedIs

\* Every edit changes one element.
LEMMA EditChangesOne ==
  ASSUME NEW script \in Seq(AnyHunks), NEW e \in Entry, NEW dir \in {-1, 1}
  PROVE  AppendEdit(script, e, dir) \in Seq(AnyHunks) /\ Changed(AppendEdit(script, e, dir)) = Changed(script) + 1
<1> DEFINE g == script[Len(script)]
<1>1. e.y \in Int /\ X(e) \in Int
  BY EntryIs
<1>2. CASE script # <<>> /\ dir < 0 /\ g.type = "Delete"
  <2>1. Len(script) \in 1..Len(script) /\ g \in AnyHunks
    BY <1>2, LastOfAny
  <2> DEFINE h == [g EXCEPT !.lc = g.lc + 1]  n == Len(script) - 1  new == [script EXCEPT ![Len(script)] = h]
  <2>2. g.lc \in Int /\ g.rc \in Int /\ g.lc + 1 \in Int
    BY <2>1 DEF AnyHunks
  <2>3. h \in AnyHunks /\ h.type = "Delete" /\ h.lc = g.lc + 1 /\ h.rc = g.rc
    BY <1>2, <2>1, <2>2 DEF AnyHunks
  <2>4. AppendEdit(script, e, dir) = [script EXCEPT ![Len(script)].lc = @ + 1]
    BY <1>2 DEF AppendEdit
  <2>5. [script EXCEPT ![Len(script)].lc = @ + 1] = new
    BY <2>1 DEF AnyHunks
  <2>6. Touched(g) = g.lc + g.rc /\ Touched(h) = h.lc + h.rc
    BY <1>2, <2>3 DEF Touched
  <2>7. Touched(h) = Touched(g) + 1 /\ Touched(g) \in Int
    <3> DEFINE lc == g.lc  rc == g.rc
    <3>1. lc \in Int /\ rc \in Int /\ Touched(g) = lc + rc /\ Touched(h) = (lc + 1) + rc
      BY <2>2, <2>3, <2>6
    <3> HIDE DEF lc, rc, g, h
    <3> QED
      BY <3>1
  <2> HIDE DEF h
  <2>8. /\ n \in Nat /\ Len(script) = n + 1 /\ new \in Seq(AnyHunks) /\ Len(new) = n + 1 /\ new[n + 1] = h
        /\ \A i \in 1..n : new[i] = script[i]
    BY <2>1, <2>3
  <2> HIDE DEF new, n
  <2>9. \A i \in 1..n : Touched(script[i]) = Touched(new[i])
    BY <2>8
  <2>10. Changed(new) = Changed(script) - Touched(script[n + 1]) + Touched(new[n + 1])
    BY <2>8, <2>9, ChangedShares
  <2>11. Changed(script) \in Int
    BY ChangedIs
  <2>12. Changed(new) = Changed(script) + 1
    <3>1. script[n + 1] = g
      BY <2>8
    <3> HIDE DEF g
    <3> QED
      BY <2>7, <2>8, <2>10, <2>11, <3>1
  <2> QED
    BY <2>4, <2>5, <2>8, <2>12
<1>3. CASE ~(script # <<>> /\ dir < 0 /\ g.type = "Delete")
  <2> DEFINE h == Edit(e, dir)
  <2>1. AppendEdit(script, e, dir) = Append(script, h)
    BY <1>3 DEF AppendEdit
  <2>2. "Insert" \in Type /\ "Delete" \in Type
    BY DEF Type
  <2>3. h \in AnyHunks /\ Touched(h) = 1
    <3>1. CASE dir < 0
      <4>1. h = Hunk("Delete", X(e), 1, e.y, 0)
        BY <3>1 DEF Edit
      <4>2. h \in AnyHunks /\ h.type = "Delete" /\ h.lc = 1 /\ h.rc = 0
        BY <1>1, <2>2, <4>1, HunkIs
      <4> HIDE DEF h
      <4> QED
        BY <4>2 DEF Touched
    <3>2. CASE ~(dir < 0)
      <4>1. h = Hunk("Insert", X(e), 0, e.y, 1)
        BY <3>2 DEF Edit
      <4>2. h \in AnyHunks /\ h.type = "Insert" /\ h.lc = 0 /\ h.rc = 1
        BY <1>1, <2>2, <4>1, HunkIs
      <4> HIDE DEF h
      <4> QED
        BY <4>2 DEF Touched
    <3> QED
      BY <3>1, <3>2
  <2> HIDE DEF h
  <2>4. Changed(Append(script, h)) = Changed(script) + Touched(h)
    BY <2>3, ChangedAppends
  <2>5. Append(script, h) \in Seq(AnyHunks)
    BY <2>3
  <2> QED
    BY <2>1, <2>3, <2>4, <2>5
<1> QED
  BY <1>2, <1>3

\* The script of a branch changes one element for each step of it.
LEMMA BacktrackChanges ==
  ASSUME NEW branch \in Seq(Entry), Len(branch) > 0
  PROVE  Backtrack(branch) \in Seq(AnyHunks) /\ Changed(Backtrack(branch)) = Len(branch) - 1
<1> DEFINE n == Len(branch) - 1
<1>1. /\ n \in Nat /\ 1 \in 1..Len(branch) /\ n \in 0..n /\ 0 \in 0..n
      /\ \A i \in 1..n : i \in 1..Len(branch) /\ i + 1 \in 1..Len(branch) /\ i - 1 \in 0..n /\ i \in 0..n
  OBVIOUS
<1>2. PICK out \in [0..n -> Seq(AnyHunks)] :
        /\ out[0] = Matched(Origin, branch[1])
        /\ \A i \in 1..n : out[i] = Extended(out[i - 1], branch[i], branch[i + 1])
        /\ Backtrack(branch) = out[n]
  BY BacktrackIs
<1>3. \A i \in 1..n : branch[i] \in Entry /\ branch[i + 1] \in Entry
  BY <1>1, ElementOfSeq
<1>4. branch[1] \in Entry
  BY <1>1, ElementOfSeq
<1> HIDE DEF n
<1> DEFINE H == {i \in 0..n : Changed(out[i]) = i}
<1>5. 0 \in H
  <2>1. branch[1].k \in Int /\ branch[1].y \in Int /\ Origin.k \in Int /\ Origin.y \in Int
    BY <1>4 DEF Entry, Origin
  <2>2. <<>> \in Seq(AnyHunks)
    OBVIOUS
  <2>3. Changed(<<>> \o Matched(Origin, branch[1])) = Changed(<<>>) /\ Changed(<<>>) = 0
    BY <2>1, <2>2, MatchedChangesNothing, ChangedIs
  <2>4. <<>> \o Matched(Origin, branch[1]) = Matched(Origin, branch[1])
    <3>1. \A h : <<>> \o <<h>> = <<h>>
      OBVIOUS
    <3>2. <<>> \o <<>> = <<>>
      OBVIOUS
    <3> QED
      BY <3>1, <3>2 DEF Matched
  <2> QED
    BY <1>1, <1>2, <2>3, <2>4
<1>6. ASSUME NEW i \in 1..n, i - 1 \in H PROVE i \in H
  <2> DEFINE e == branch[i]  f == branch[i + 1]  edited == AppendEdit(out[i - 1], e, f.dir)
  <2>1. e \in Entry /\ f \in Entry /\ out[i - 1] \in Seq(AnyHunks)
    BY <1>1, <1>3
  <2>2. f.dir \in {-1, 1} /\ e.k \in Int /\ e.y \in Int /\ f.k \in Int /\ f.y \in Int
    BY <2>1 DEF Entry
  <2>3. out[i] = edited \o Matched(e, f)
    BY <1>2 DEF Extended
  <2> HIDE DEF e, f
  <2>4. edited \in Seq(AnyHunks) /\ Changed(edited) = Changed(out[i - 1]) + 1
    BY <2>1, <2>2, EditChangesOne
  <2> HIDE DEF edited
  <2>5. Changed(edited \o Matched(e, f)) = Changed(edited)
    BY <2>2, <2>4, MatchedChangesNothing
  <2>6. Changed(out[i - 1]) = i - 1
    BY <1>6
  <2>7. Changed(out[i]) = (i - 1) + 1
    BY <2>3, <2>4, <2>5, <2>6
  <2>8. (i - 1) + 1 = i /\ i \in 0..n
    BY <1>1
  <2> QED
    BY <2>7, <2>8
<1> HIDE DEF H
<1>7. \A i \in 0..n : i \in H
  BY <1>1, <1>5, <1>6, StepByStep
<1>8. n \in H
  BY <1>1, <1>7
<1> QED
  BY <1>1, <1>2, <1>8 DEF H, n

\* Exchanging the sides changes nothing of that.
LEMMA UnswappedChanges ==
  ASSUME NEW script \in Seq(AnyHunks)
  PROVE  Changed([i \in DOMAIN script |-> Unswapped(script[i])]) = Changed(script)
<1> DEFINE n == Len(script)  new == [i \in DOMAIN script |-> Unswapped(script[i])]
<1>1. n \in Nat /\ DOMAIN script = 1..n
  OBVIOUS
<1>2. ASSUME NEW h \in AnyHunks
      PROVE  Unswapped(h) \in AnyHunks /\ Touched(Unswapped(h)) = Touched(h)
  <2> DEFINE u == Unswapped(h)
             type == CASE h.type = "Insert" -> "Delete" [] h.type = "Delete" -> "Insert" [] OTHER -> h.type
  <2>1. h.type \in Type /\ h.ls \in Int /\ h.lc \in Int /\ h.rs \in Int /\ h.rc \in Int
    BY DEF AnyHunks
  <2>2. type \in Type /\ (type = "Equal" <=> h.type = "Equal")
    BY <2>1 DEF Type
  <2>3. u = Hunk(type, h.rs, h.rc, h.ls, h.lc)
    BY DEF Unswapped
  <2> HIDE DEF type
  <2>4. u \in AnyHunks /\ u.type = type /\ u.lc = h.rc /\ u.rc = h.lc
    BY <2>1, <2>2, <2>3, HunkIs
  <2> HIDE DEF u
  <2>5. /\ Touched(u) = IF type = "Equal" THEN 0 ELSE h.rc + h.lc
        /\ Touched(h) = IF h.type = "Equal" THEN 0 ELSE h.lc + h.rc
    BY <2>4 DEF Touched
  <2>6. h.rc + h.lc = h.lc + h.rc
    BY <2>1
  <2> QED
    BY <2>2, <2>4, <2>5, <2>6 DEF u
<1>3. \A i \in 1..n : script[i] \in AnyHunks
  BY ElementOfSeq
<1>4. new = [i \in 1..n |-> Unswapped(script[i])]
  BY <1>1
<1>5. new \in Seq(AnyHunks) /\ Len(new) = n /\ \A i \in 1..n : new[i] = Unswapped(script[i])
  BY <1>1, <1>2, <1>3, <1>4
<1> HIDE DEF new
<1>6. \A i \in 1..n : Touched(new[i]) = Touched(script[i])
  BY <1>2, <1>3, <1>5
<1>7. Changed(new) = Changed(script)
  BY <1>5, <1>6, ChangedAlike
<1> QED
  BY <1>7 DEF new

-----------------------------------------------------------------------------
(* No script changes less than the distance.                               *)

LEMMA TableGrows ==
  ASSUME NEW g, NEW s, NEW t, NEW m \in Nat, NEW n \in Nat, Len(s) = m, Len(t) = n, IsTable(g, s, t),
         NEW x \in Nat, NEW y \in Nat, NEW c \in Nat, NEW e \in Nat, x + c <= m, y + e <= n
  PROVE  g[x][y] <= g[x + c][y + e]
<1>1. /\ \A i \in 1..m, j \in 0..n : g[i - 1][j] <= g[i][j]
      /\ \A i \in 0..m, j \in 1..n : g[i][j - 1] <= g[i][j]
  BY TableSteps
<1>2. \A i \in 0..m, j \in 0..n : g[i][j] \in Nat
  BY DEF IsTable
<1> DEFINE low == g[x][y]  Right(i) == g[x + i][y]  Lower(i) == g[x + c][y + i]
           H == {i \in 0..c : low <= Right(i)}
           K == {i \in 0..e : low <= Lower(i)}
<1>3. \A i \in 0..c : Right(i) \in Nat
  BY <1>2
<1>4. \A i \in 0..e : Lower(i) \in Nat
  BY <1>2
<1>5. ASSUME NEW i \in 1..c PROVE Right(i - 1) <= Right(i)
  <2> DEFINE v == x + i
  <2>1. v \in 1..m /\ v - 1 = x + (i - 1) /\ y \in 0..n
    OBVIOUS
  <2> HIDE DEF v
  <2>2. g[v - 1][y] <= g[v][y]
    BY <1>1, <2>1
  <2> QED
    BY <2>1, <2>2 DEF v
<1>6. ASSUME NEW i \in 1..e PROVE Lower(i - 1) <= Lower(i)
  <2> DEFINE v == y + i  w == x + c
  <2>1. v \in 1..n /\ v - 1 = y + (i - 1) /\ w \in 0..m
    OBVIOUS
  <2> HIDE DEF v, w
  <2>2. g[w][v - 1] <= g[w][v]
    BY <1>1, <2>1
  <2> QED
    BY <2>1, <2>2 DEF v, w
<1>7. Right(0) = low /\ Lower(0) = Right(c) /\ low \in Nat
  <2>1. x + 0 = x /\ y + 0 = y /\ x \in 0..m /\ y \in 0..n
    OBVIOUS
  <2> QED
    BY <1>2, <2>1
<1> HIDE DEF low, Right, Lower
<1>8. 0 \in H
  BY <1>7
<1>9. ASSUME NEW i \in 1..c, i - 1 \in H PROVE i \in H
  <2>1. i \in 0..c /\ i - 1 \in 0..c
    OBVIOUS
  <2>2. Right(i) \in Nat /\ Right(i - 1) \in Nat
    BY <1>3, <2>1
  <2> QED
    BY <1>5, <1>7, <1>9, <2>1, <2>2
<1> HIDE DEF H
<1>10. \A i \in 0..c : i \in H
  BY <1>8, <1>9, StepByStep
<1>11. low <= Right(c)
  <2>1. c \in H
    BY <1>10
  <2> QED
    BY <2>1 DEF H
<1>12. 0 \in K
  BY <1>7, <1>11
<1>13. ASSUME NEW i \in 1..e, i - 1 \in K PROVE i \in K
  <2>1. i \in 0..e /\ i - 1 \in 0..e
    OBVIOUS
  <2>2. Lower(i) \in Nat /\ Lower(i - 1) \in Nat
    BY <1>4, <2>1
  <2> QED
    BY <1>6, <1>7, <1>13, <2>1, <2>2
<1> HIDE DEF K
<1>14. \A i \in 0..e : i \in K
  BY <1>12, <1>13, StepByStep
<1>15. e \in K
  BY <1>14
<1> QED
  BY <1>15 DEF K, low, Lower

LEMMA EqualCounts ==
  ASSUME NEW g, NEW s, NEW t, NEW m \in Nat, NEW n \in Nat, Len(s) = m, Len(t) = n, IsTable(g, s, t),
         NEW x \in Nat, NEW y \in Nat, NEW c \in Nat, x + c <= m, y + c <= n, Matches(s, t, x, y, c)
  PROVE  g[x + c][y + c] = g[x][y] + c
<1>1. \A i \in 1..m, j \in 1..n : s[i] = t[j] => g[i][j] = g[i - 1][j - 1] + 1
  <2>1. Graded(g, s, t)
    BY TableBounds
  <2> QED
    BY <2>1 DEF Graded
<1>2. \A i \in 0..m, j \in 0..n : g[i][j] \in Nat
  BY DEF IsTable
<1> DEFINE At(i) == g[x + i][y + i]
           H == {i \in 0..c : At(i) = At(0) + i}
<1>3. \A i \in 0..c : At(i) \in Nat
  BY <1>2
<1>4. ASSUME NEW i \in 1..c PROVE At(i) = At(i - 1) + 1
  <2> DEFINE v == x + i  w == y + i
  <2>1. v \in 1..m /\ v - 1 = x + (i - 1) /\ w \in 1..n /\ w - 1 = y + (i - 1)
    OBVIOUS
  <2>2. s[v] = t[w]
    BY DEF Matches
  <2> HIDE DEF v, w
  <2>3. g[v][w] = g[v - 1][w - 1] + 1
    BY <1>1, <2>1, <2>2
  <2> QED
    BY <2>1, <2>3 DEF v, w
<1> HIDE DEF At
<1>5. 0 \in H
  <2>1. 0 \in 0..c
    OBVIOUS
  <2> QED
    BY <1>3, <2>1
<1>6. ASSUME NEW i \in 1..c, i - 1 \in H PROVE i \in H
  <2>1. i \in 0..c /\ i - 1 \in 0..c /\ 0 \in 0..c
    OBVIOUS
  <2>2. At(0) \in Nat /\ At(i - 1) \in Nat
    BY <1>3, <2>1
  <2> QED
    BY <1>4, <1>6, <2>1, <2>2
<1> HIDE DEF H
<1>7. \A i \in 0..c : i \in H
  BY <1>5, <1>6, StepByStep
<1>8. c \in H
  BY <1>7
<1>9. At(c) = At(0) + c
  BY <1>8 DEF H
<1>10. x + 0 = x /\ y + 0 = y
  OBVIOUS
<1> QED
  BY <1>9, <1>10 DEF At

\* One hunk lengthens the common part by no more than what it leaves untouched.
LEMMA HunkCounts ==
  ASSUME NEW g, NEW s, NEW t, NEW m \in Nat, NEW n \in Nat, Len(s) = m, Len(t) = n, IsTable(g, s, t),
         NEW h \in Hunks, Fits(h, s, t), h.ls + h.lc <= m, h.rs + h.rc <= n
  PROVE  (h.ls + h.lc) + (h.rs + h.rc) - 2 * g[h.ls + h.lc][h.rs + h.rc]
           <= h.ls + h.rs - 2 * g[h.ls][h.rs] + Touched(h)
<1> DEFINE x == h.ls  c == h.lc  y == h.rs  e == h.rc  u == g[x][y]  v == g[x + c][y + e]
<1>1. x \in Nat /\ c \in Nat /\ y \in Nat /\ e \in Nat
  BY DEF Hunks
<1>2. Touched(h) = IF h.type = "Equal" THEN 0 ELSE c + e
  BY DEF Touched
<1>3. h.type = "Equal" => c = e /\ Matches(s, t, x, y, c)
  BY DEF Fits, Matches
<1> HIDE DEF x, c, y, e
<1>4. x + c <= m /\ y + e <= n
  BY DEF x, c, y, e
<1>5. \A i \in 0..m, j \in 0..n : g[i][j] \in Nat
  BY DEF IsTable
<1>6. x \in 0..m /\ y \in 0..n /\ x + c \in 0..m /\ y + e \in 0..n
  BY <1>1, <1>4
<1>7. u \in Nat /\ v \in Nat
  BY <1>5, <1>6
<1>8. u <= v
  BY <1>1, <1>4, TableGrows
<1>9. h.type = "Equal" => v = u + c
  BY <1>1, <1>3, <1>4, EqualCounts
<1> HIDE DEF u, v
<1>10. (x + c) + (y + e) - 2 * v <= x + y - 2 * u + Touched(h)
  <2>1. CASE h.type = "Equal"
    BY <1>1, <1>2, <1>3, <1>7, <1>9, <2>1
  <2>2. CASE h.type # "Equal"
    BY <1>1, <1>2, <1>7, <1>8, <2>2
  <2> QED
    BY <2>1, <2>2
<1> QED
  BY <1>10 DEF x, c, y, e, u, v

\* A script does not go beyond its end.
LEMMA RouteStays ==
  ASSUME NEW script, NEW s, NEW t, NEW x \in Nat, NEW y \in Nat, Route(script, s, t, x, y)
  PROVE  \A i \in 0..Len(script) : EndL(script, i) \in 0..x /\ EndR(script, i) \in 0..y
<1> DEFINE n == Len(script)
           H == {j \in 0..n : EndL(script, n - j) \in 0..x /\ EndR(script, n - j) \in 0..y}
<1>1. n \in Nat /\ script \in Seq(Hunks)
  BY DEF Route
<1>2. x = EndL(script, n) /\ y = EndR(script, n) /\ \A i \in 1..n : Follows(script, s, t, i)
  BY DEF Route
<1>3. \A i \in 0..n : EndL(script, i) \in Nat /\ EndR(script, i) \in Nat
  BY <1>1, EndsAre
<1>4. ASSUME NEW i \in 1..n
      PROVE  EndL(script, i - 1) <= EndL(script, i) /\ EndR(script, i - 1) <= EndR(script, i)
  <2> DEFINE ls == script[i].ls  lc == script[i].lc  rs == script[i].rs  rc == script[i].rc
  <2>1. script[i] \in Hunks
    BY <1>1, ElementOfSeq
  <2>2. ls \in Nat /\ lc \in Nat /\ rs \in Nat /\ rc \in Nat
    BY <2>1 DEF Hunks
  <2>3. ls = EndL(script, i - 1) /\ rs = EndR(script, i - 1)
    BY <1>2 DEF Follows
  <2>4. EndL(script, i) = ls + lc /\ EndR(script, i) = rs + rc
    BY DEF EndL, EndR
  <2> HIDE DEF ls, lc, rs, rc
  <2> QED
    BY <2>2, <2>3, <2>4
<1> HIDE DEF n
<1>5. 0 \in H
  <2>1. n - 0 = n /\ 0 \in 0..n
    BY <1>1
  <2> QED
    BY <1>2, <2>1
<1>6. ASSUME NEW j \in 1..n, j - 1 \in H PROVE j \in H
  <2> DEFINE i == n - j
  <2>1. i + 1 \in 1..n /\ (i + 1) - 1 = i /\ n - (j - 1) = i + 1 /\ i \in 0..n /\ i + 1 \in 0..n /\ j \in 0..n
    BY <1>1
  <2>2. EndL(script, i + 1) \in 0..x /\ EndR(script, i + 1) \in 0..y
    BY <1>6, <2>1
  <2> HIDE DEF i
  <2>3. EndL(script, i) <= EndL(script, i + 1) /\ EndR(script, i) <= EndR(script, i + 1)
    BY <1>4, <2>1
  <2>4. EndL(script, i) \in Nat /\ EndR(script, i) \in Nat
    BY <1>3, <2>1
  <2>5. EndL(script, i) \in 0..x /\ EndR(script, i) \in 0..y
    BY <2>2, <2>3, <2>4
  <2> QED
    BY <2>1, <2>5 DEF i
<1> HIDE DEF H
<1>7. \A j \in 0..n : j \in H
  BY <1>1, <1>5, <1>6, StepByStep
<1>8. ASSUME NEW i \in 0..n PROVE EndL(script, i) \in 0..x /\ EndR(script, i) \in 0..y
  <2>1. n - i \in 0..n /\ n - (n - i) = i
    BY <1>1
  <2>2. n - i \in H
    BY <1>7, <2>1
  <2> QED
    BY <2>1, <2>2 DEF H
<1> QED
  BY <1>8 DEF n

LEMMA HunksAreAny ==
  ASSUME NEW script \in Seq(Hunks)
  PROVE  script \in Seq(AnyHunks)
<1>1. \A h \in Hunks : h \in AnyHunks
  BY DEF Hunks, AnyHunks
<1>2. \A i \in 1..Len(script) : script[i] \in AnyHunks
  BY <1>1, ElementOfSeq
<1> QED
  BY <1>2

LEMMA ScriptsChangeEnough ==
  ASSUME NEW s \in Seq(Element), NEW t \in Seq(Element), NEW script, Route(script, s, t, Len(s), Len(t))
  PROVE  Apart(s, t) <= Changed(script)
<1> DEFINE m == Len(s)  n == Len(t)  size == Len(script)
<1>1. m \in Nat /\ n \in Nat /\ size \in Nat /\ script \in Seq(Hunks)
  BY DEF Route
<1>2. PICK g : IsTable(g, s, t) /\ Graded(g, s, t) /\ Common(s, t) = g[m][n]
  BY TableOf
<1>3. script \in Seq(AnyHunks)
  BY <1>1, HunksAreAny
<1>4. PICK f : IsSum(f, script) /\ Changed(script) = f[size]
  BY <1>3, SumIs
<1>5. \A i \in 0..size : EndL(script, i) \in 0..m /\ EndR(script, i) \in 0..n
  BY <1>1, RouteStays
<1>6. m = EndL(script, size) /\ n = EndR(script, size) /\ \A i \in 1..size : Follows(script, s, t, i)
  BY DEF Route
<1>7. \A i \in 0..m, j \in 0..n : g[i][j] \in Nat
  BY <1>2 DEF IsTable
<1> DEFINE Left(i) == EndL(script, i) + EndR(script, i) - 2 * g[EndL(script, i)][EndR(script, i)]
           H == {i \in 0..size : Left(i) <= f[i]}
<1>8. \A i \in 0..size : Left(i) \in Int /\ f[i] \in Int
  <2>1. ASSUME NEW i \in 0..size PROVE Left(i) \in Int /\ f[i] \in Int
    <3> DEFINE x == EndL(script, i)  y == EndR(script, i)  w == g[x][y]
    <3>1. x \in Nat /\ y \in Nat /\ w \in Nat
      BY <1>1, <1>5, <1>7
    <3>2. Left(i) = x + y - 2 * w
      OBVIOUS
    <3> HIDE DEF x, y, w, Left
    <3> QED
      BY <1>4, <3>1, <3>2 DEF IsSum
  <2> QED
    BY <2>1
<1>9. Left(0) = 0 /\ f[0] = 0
  <2>1. EndL(script, 0) = 0 /\ EndR(script, 0) = 0
    BY DEF EndL, EndR
  <2>2. g[0][0] = 0
    BY <1>1, <1>2 DEF IsTable
  <2> QED
    BY <1>4, <2>1, <2>2 DEF IsSum
<1>10. ASSUME NEW i \in 1..size PROVE Left(i) <= Left(i - 1) + Touched(script[i]) /\ Touched(script[i]) \in Int
  <2> DEFINE h == script[i]
  <2>1. h \in Hunks /\ Touched(h) \in Int
    BY <1>1, <1>3, TouchedIs, ElementOfSeq
  <2>2. Fits(h, s, t) /\ h.ls = EndL(script, i - 1) /\ h.rs = EndR(script, i - 1)
    BY <1>6 DEF Follows
  <2>3. EndL(script, i) = h.ls + h.lc /\ EndR(script, i) = h.rs + h.rc
    BY DEF EndL, EndR
  <2>4. i \in 0..size
    OBVIOUS
  <2>5. EndL(script, i) \in 0..m /\ EndR(script, i) \in 0..n
    BY <1>5, <2>4
  <2>6. h.ls + h.lc <= m /\ h.rs + h.rc <= n
    BY <1>1, <2>3, <2>5
  <2> HIDE DEF h, m, n
  <2>7. Len(s) = m /\ Len(t) = n
    BY DEF m, n
  <2>8. (h.ls + h.lc) + (h.rs + h.rc) - 2 * g[h.ls + h.lc][h.rs + h.rc]
          <= h.ls + h.rs - 2 * g[h.ls][h.rs] + Touched(h)
    BY <1>1, <1>2, <2>1, <2>2, <2>6, <2>7, HunkCounts
  <2> QED
    BY <2>1, <2>2, <2>3, <2>8 DEF h
<1> HIDE DEF Left
<1>11. 0 \in H
  BY <1>1, <1>9
<1>12. ASSUME NEW i \in 1..size, i - 1 \in H PROVE i \in H
  <2>1. i \in 0..size /\ i - 1 \in 0..size
    OBVIOUS
  <2>2. f[i] = f[i - 1] + Touched(script[i])
    BY <1>4 DEF IsSum
  <2>3. Left(i) \in Int /\ Left(i - 1) \in Int /\ f[i - 1] \in Int
    BY <1>8, <2>1
  <2>4. Left(i - 1) <= f[i - 1]
    BY <1>12
  <2>5. Left(i) <= f[i]
    BY <1>10, <2>2, <2>3, <2>4
  <2> QED
    BY <2>1, <2>5
<1> HIDE DEF H
<1>13. \A i \in 0..size : i \in H
  BY <1>1, <1>11, <1>12, StepByStep
<1>14. size \in H
  BY <1>1, <1>13
<1>15. Left(size) <= f[size]
  BY <1>14 DEF H
<1>16. Left(size) = Apart(s, t)
  BY <1>2, <1>6 DEF Left, Apart
<1> QED
  BY <1>4, <1>15, <1>16

-----------------------------------------------------------------------------
(* The way back through the trace.  Each entry has the round in which it   *)
(* was recorded; a step away from Delta takes a round, a step towards it   *)
(* does not, so the main branch has no more steps than the distance.       *)

Cost(e, gap) == IF (e.dir = 1 /\ e.k > gap) \/ (e.dir = -1 /\ e.k < gap) THEN 1 ELSE 0
Rated(entries, r, gap) ==
  /\ r \in Seq(Nat) /\ Len(r) = Len(entries)
  /\ \A i, j \in 1..Len(entries) :
       LastOn(entries, i, entries[i].k - entries[i].dir, j) => r[j] + Cost(entries[i], gap) <= r[i]

\* What is left of an entry's rounds once it is back on Delta.
Spare(entries, r, gap, i) == 2 * r[i] - Abs(entries[i].k - gap)

\* A branch from entry h to the last one, with the entries from q on looked at.
Rising(entries, r, gap, branch, q, h) ==
  /\ branch \in Seq(Entry) /\ Len(branch) > 0
  /\ h \in q..Len(entries) /\ branch[1] = entries[h]
  /\ \A l \in q..h - 1 : entries[l].k # entries[h].k - entries[h].dir
  /\ Len(branch) - 1 + Spare(entries, r, gap, h) <= Spare(entries, r, gap, Len(entries))

LEMMA SpareIs ==
  ASSUME NEW entries \in Seq(Entry), NEW gap \in Nat, NEW r, Rated(entries, r, gap), NEW i \in 1..Len(entries)
  PROVE  /\ r[i] \in Nat /\ entries[i].k \in Int /\ entries[i].dir \in {-1, 1}
         /\ Spare(entries, r, gap, i) = 2 * r[i] - (IF entries[i].k < gap THEN gap - entries[i].k
                                                  ELSE entries[i].k - gap)
<1>1. r \in Seq(Nat) /\ i \in 1..Len(r)
  BY DEF Rated
<1>2. r[i] \in Nat
  BY <1>1, ElementOfSeq
<1>3. entries[i] \in Entry
  BY ElementOfSeq
<1>4. entries[i].k \in Int /\ entries[i].dir \in {-1, 1}
  BY <1>3 DEF Entry
<1> DEFINE d == entries[i].k
<1>5. Spare(entries, r, gap, i) = 2 * r[i] - Abs(d - gap)
  BY DEF Spare
<1> HIDE DEF d
<1>6. d \in Int
  BY <1>4 DEF d
<1>7. Abs(d - gap) = IF d < gap THEN gap - d ELSE d - gap
  <2>1. CASE d < gap
    <3>1. d - gap < 0 /\ -(d - gap) = gap - d
      BY <1>6, <2>1
    <3> QED
      BY <2>1, <3>1 DEF Abs
  <2>2. CASE ~(d < gap)
    <3>1. ~(d - gap < 0)
      BY <1>6, <2>2
    <3> QED
      BY <2>2, <3>1 DEF Abs
  <2> QED
    BY <2>1, <2>2
<1> QED
  BY <1>2, <1>4, <1>5, <1>7 DEF d

LEMMA SpareFalls ==
  ASSUME NEW entries \in Seq(Entry), NEW gap \in Nat, NEW r, Rated(entries, r, gap),
         NEW i \in 1..Len(entries), NEW j \in 1..Len(entries),
         LastOn(entries, i, entries[i].k - entries[i].dir, j)
  PROVE  Spare(entries, r, gap, j) + 1 <= Spare(entries, r, gap, i)
<1> DEFINE d == entries[i].k  e == entries[j].k  dir == entries[i].dir  u == r[i]  v == r[j]
           cost == Cost(entries[i], gap)
<1>1. /\ u \in Nat /\ v \in Nat /\ d \in Int /\ e \in Int /\ dir \in {-1, 1}
      /\ Spare(entries, r, gap, i) = 2 * u - (IF d < gap THEN gap - d ELSE d - gap)
      /\ Spare(entries, r, gap, j) = 2 * v - (IF e < gap THEN gap - e ELSE e - gap)
  BY SpareIs
<1>2. e = d - dir
  BY DEF LastOn
<1>3. v + cost <= u
  BY DEF Rated
<1>4. cost = IF (dir = 1 /\ d > gap) \/ (dir = -1 /\ d < gap) THEN 1 ELSE 0
  BY DEF Cost
<1> HIDE DEF d, e, dir, u, v, cost
<1>5. CASE dir = 1 /\ d > gap
  BY <1>1, <1>2, <1>3, <1>4, <1>5
<1>6. CASE dir = 1 /\ d <= gap
  BY <1>1, <1>2, <1>3, <1>4, <1>6
<1>7. CASE dir = -1 /\ d < gap
  BY <1>1, <1>2, <1>3, <1>4, <1>7
<1>8. CASE dir = -1 /\ d >= gap
  BY <1>1, <1>2, <1>3, <1>4, <1>8
<1>9. dir \in {-1, 1} /\ (d > gap \/ d <= gap) /\ (d < gap \/ d >= gap)
  BY <1>1
<1> QED
  BY <1>5, <1>6, <1>7, <1>8, <1>9

LEMMA PrecededRises ==
  ASSUME NEW entries \in Seq(Entry), NEW gap \in Nat, NEW r, Rated(entries, r, gap),
         NEW branch, NEW q \in 2..Len(entries), NEW h, Rising(entries, r, gap, branch, q, h)
  PROVE  \E j \in Nat : Rising(entries, r, gap, Preceded(entries[q - 1], branch), q - 1, j)
<1> DEFINE e == entries[q - 1]  d == entries[h].k - entries[h].dir  n == Len(entries)
<1>1. n \in Nat /\ q - 1 \in 1..n /\ q \in Nat
  OBVIOUS
<1>2. e \in Entry
  BY <1>1, ElementOfSeq
<1>3. /\ branch \in Seq(Entry) /\ Len(branch) > 0 /\ branch # <<>> /\ Head(branch) = branch[1]
      /\ h \in q..n /\ h \in Nat /\ h \in 1..n /\ branch[1] = entries[h]
  BY <1>1 DEF Rising
<1>4. CASE e.k # d
  <2>1. Preceded(e, branch) = branch
    BY <1>3, <1>4 DEF Preceded
  <2>2. \A l \in q - 1..h - 1 : entries[l].k # d
    <3>1. \A l \in q - 1..h - 1 : l = q - 1 \/ l \in q..h - 1
      BY <1>1, <1>3
    <3>2. \A l \in q..h - 1 : entries[l].k # d
      BY DEF Rising
    <3> QED
      BY <1>4, <3>1, <3>2
  <2>3. h \in q - 1..n
    BY <1>1, <1>3
  <2>4. Rising(entries, r, gap, branch, q - 1, h)
    BY <2>2, <2>3 DEF Rising
  <2> QED
    BY <1>3, <2>1, <2>4
<1>5. CASE e.k = d
  <2>1. Preceded(e, branch) = <<e>> \o branch
    BY <1>3, <1>5 DEF Preceded
  <2>2. LastOn(entries, h, d, q - 1)
    <3>1. q - 1 \in 1..h - 1 /\ (q - 1) + 1 = q
      BY <1>1, <1>3
    <3>2. \A l \in q..h - 1 : entries[l].k # d
      BY DEF Rising
    <3> QED
      BY <1>5, <3>1, <3>2 DEF LastOn
  <2>3. Spare(entries, r, gap, q - 1) + 1 <= Spare(entries, r, gap, h)
    BY <1>1, <1>3, <2>2, SpareFalls
  <2> DEFINE new == <<e>> \o branch
  <2>4. new \in Seq(Entry) /\ Len(new) = Len(branch) + 1 /\ new[1] = e
    <3>1. <<e>> \in Seq(Entry) /\ Len(<<e>>) = 1 /\ <<e>>[1] = e
      BY <1>2
    <3>2. /\ new \in Seq(Entry) /\ Len(new) = 1 + Len(branch)
          /\ \A i \in 1..1 + Len(branch) : new[i] = IF i <= 1 THEN <<e>>[i] ELSE branch[i - 1]
      BY <1>3, <3>1, ConcatProperties
    <3>3. Len(branch) \in Nat /\ 1 \in 1..1 + Len(branch)
      BY <1>3
    <3> HIDE DEF new
    <3> QED
      BY <3>1, <3>2, <3>3
  <2> HIDE DEF new
  <2>5. Len(new) - 1 + Spare(entries, r, gap, q - 1) <= Spare(entries, r, gap, n)
    <3> DEFINE u == Spare(entries, r, gap, q - 1)  v == Spare(entries, r, gap, h)
               w == Spare(entries, r, gap, n)  size == Len(branch)
    <3>1. size - 1 + v <= w
      BY DEF Rising
    <3>2. n \in 1..n
      BY <1>1
    <3>3. u \in Int /\ v \in Int /\ w \in Int
      <4>1. ASSUME NEW i \in 1..n PROVE Spare(entries, r, gap, i) \in Int
        <5> DEFINE c == entries[i].k  z == r[i]
        <5>1. /\ z \in Nat /\ c \in Int
              /\ Spare(entries, r, gap, i) = 2 * z - (IF c < gap THEN gap - c ELSE c - gap)
          BY SpareIs
        <5> HIDE DEF c, z
        <5> QED
          BY <5>1
      <4> QED
        BY <1>1, <1>3, <3>2, <4>1
    <3>4. size \in Nat /\ Len(new) = size + 1 /\ u + 1 <= v
      BY <1>3, <2>3, <2>4
    <3> HIDE DEF u, v, w, size
    <3>5. Len(new) - 1 + u <= w
      BY <3>1, <3>3, <3>4
    <3> QED
      BY <3>5 DEF u, w
  <2>6. Len(new) > 0
    BY <1>3, <2>4
  <2>7. q - 1 \in q - 1..n /\ \A l \in q - 1..(q - 1) - 1 : FALSE
    BY <1>1
  <2>8. Rising(entries, r, gap, new, q - 1, q - 1)
    BY <2>4, <2>5, <2>6, <2>7 DEF Rising
  <2> QED
    BY <1>1, <2>1, <2>8 DEF new
<1> QED
  BY <1>4, <1>5

LEMMA MainBranchIsShort ==
  ASSUME NEW entries, Traced(entries), NEW gap \in Nat, NEW r, Rated(entries, r, gap),
         Len(entries) > 0, entries[Len(entries)].k = gap
  PROVE  Len(MainBranch(entries)) - 1 <= gap + 2 * r[Len(entries)]
<1> DEFINE n == Len(entries)
<1>1. entries \in Seq(Entry) /\ n \in Nat /\ n > 0
  BY DEF Traced
<1>2. PICK out \in [0..n -> Seq(Entry)] :
        /\ out[0] = <<>>
        /\ \A i \in 1..n : out[i] = Preceded(entries[n - i + 1], out[i - 1])
        /\ MainBranch(entries) = out[n]
  BY <1>1, MainBranchIs
<1> DEFINE H == {i \in 0..n : i = 0 \/ \E h \in Nat : Rising(entries, r, gap, out[i], n - i + 1, h)}
<1>3. 0 \in H
  BY <1>1
<1>4. ASSUME NEW i \in 1..n, i - 1 \in H PROVE i \in H
  <2>1. out[i] = Preceded(entries[n - i + 1], out[i - 1])
    BY <1>2
  <2>2. CASE i = 1
    <3> DEFINE e == entries[n]
    <3>1. n \in 1..n /\ e \in Entry
      BY <1>1, ElementOfSeq
    <3>2. out[1] = <<e>> \o <<>>
      <4>1. n - 1 + 1 = n /\ 1 - 1 = 0
        BY <1>1
      <4> QED
        BY <1>2, <2>1, <2>2, <4>1 DEF Preceded
    <3>3. <<e>> \o <<>> = <<e>>
      OBVIOUS
    <3> HIDE DEF e
    <3>4. <<e>> \in Seq(Entry) /\ Len(<<e>>) = 1 /\ <<e>>[1] = e
      BY <3>1
    <3> DEFINE single == <<e>>
    <3> HIDE DEF single
    <3>5. /\ single \in Seq(Entry) /\ Len(single) = 1 /\ single[1] = e /\ out[1] = single
      BY <3>2, <3>3, <3>4 DEF single
    <3>6. Rising(entries, r, gap, single, n, n)
      <4>1. n \in n..n /\ \A l \in n..n - 1 : FALSE
        BY <1>1
      <4> DEFINE w == Spare(entries, r, gap, n)
      <4>2. w \in Int
        <5> DEFINE c == entries[n].k  z == r[n]
        <5>1. /\ z \in Nat /\ c \in Int
              /\ w = 2 * z - (IF c < gap THEN gap - c ELSE c - gap)
          BY <1>1, <3>1, SpareIs
        <5> HIDE DEF c, z, w
        <5> QED
          BY <5>1
      <4> HIDE DEF w
      <4>3. Len(single) - 1 + w <= w
        BY <3>5, <4>2
      <4> QED
        BY <3>5, <4>1, <4>3 DEF Rising, e, w
    <3>7. n - i + 1 = n
      BY <1>1, <2>2
    <3> QED
      BY <1>1, <2>2, <3>5, <3>6, <3>7
  <2>3. CASE i # 1
    <3> DEFINE q == n - i + 2
    <3>1. i - 1 # 0 /\ q \in 2..n /\ n - (i - 1) + 1 = q /\ n - i + 1 = q - 1 /\ i \in 0..n
      BY <1>1, <2>3
    <3>2. PICK h \in Nat : Rising(entries, r, gap, out[i - 1], q, h)
      BY <1>4, <3>1
    <3> HIDE DEF q
    <3>3. \E j \in Nat : Rising(entries, r, gap, Preceded(entries[q - 1], out[i - 1]), q - 1, j)
      BY <1>1, <3>1, <3>2, PrecededRises
    <3> QED
      BY <2>1, <3>1, <3>3
  <2> QED
    BY <2>2, <2>3
<1>5. n \in H
  <2> HIDE DEF n, H
  <2>1. \A i \in 0..n : i \in H
    BY <1>1, <1>3, <1>4, StepByStep
  <2> QED
    BY <1>1, <2>1
<1>6. PICK h \in Nat : Rising(entries, r, gap, out[n], 1, h)
  <2>1. n - n + 1 = 1
    BY <1>1
  <2> QED
    BY <1>1, <1>5, <2>1
<1> DEFINE branch == out[n]  size == Len(branch)
<1>7. /\ branch \in Seq(Entry) /\ h \in 1..n /\ branch[1] = entries[h]
      /\ size - 1 + Spare(entries, r, gap, h) <= Spare(entries, r, gap, n)
  BY <1>6 DEF Rising
<1>8. branch[1].k = 0
  <2>1. Chain(branch)
    BY <1>2, MainBranchIsChain
  <2> QED
    BY <2>1 DEF Chain, Starts
<1> DEFINE u == r[n]  v == r[h]  high == Spare(entries, r, gap, n)  low == Spare(entries, r, gap, h)
<1>9. u \in Nat /\ high = 2 * u - (IF gap < gap THEN gap - gap ELSE gap - gap)
  <2>1. n \in 1..n
    BY <1>1
  <2> QED
    BY <1>1, <2>1, SpareIs
<1>10. v \in Nat /\ low = 2 * v - (IF 0 < gap THEN gap - 0 ELSE 0 - gap)
  BY <1>1, <1>7, <1>8, SpareIs
<1>11. size \in Nat
  BY <1>7
<1> HIDE DEF u, v, high, low, size
<1>12. size - 1 + low <= high
  BY <1>7 DEF high, low
<1>13. size - 1 <= gap + 2 * u
  BY <1>9, <1>10, <1>11, <1>12
<1> QED
  BY <1>2, <1>13 DEF u, size, n

\* On a diagonal, the last entry is of a round that its points may cost.
Within(entries, r, gap, round, here) ==
  \A d \in Int, j \in 1..Len(entries) :
    LastOn(entries, Len(entries) + 1, d, j) => r[j] <= Limit(gap, round, here, d)

LEMMA RatesGrow ==
  ASSUME NEW gap \in Nat, NEW round \in Nat, NEW here, here \in -round..gap + round, NEW entries \in Seq(Entry),
         NEW r, Rated(entries, r, gap), Within(entries, r, gap, round, here), NEW e \in Entry, e.k = here
  PROVE  Rated(Append(entries, e), Append(r, round), gap)
<1> DEFINE n == Len(entries)  new == Append(entries, e)  rates == Append(r, round)
<1>1. n \in Nat /\ r \in Seq(Nat) /\ Len(r) = n
  BY DEF Rated
<1>2. /\ new \in Seq(Entry) /\ Len(new) = n + 1 /\ new[n + 1] = e /\ \A i \in 1..n : new[i] = entries[i]
      /\ rates \in Seq(Nat) /\ Len(rates) = n + 1 /\ rates[n + 1] = round /\ \A i \in 1..n : rates[i] = r[i]
  BY <1>1
<1>3. \A i \in 1..n + 1 : \A d, j : LastOn(new, i, d, j) <=> LastOn(entries, i, d, j)
  BY LastOnKeeps
<1> HIDE DEF new, rates, n
<1>4. ASSUME NEW i \in 1..n + 1, NEW j \in 1..n + 1, LastOn(new, i, new[i].k - new[i].dir, j)
      PROVE  rates[j] + Cost(new[i], gap) <= rates[i]
  <2>0. LastOn(entries, i, new[i].k - new[i].dir, j)
    BY <1>3, <1>4
  <2>1. LastOn(entries, i, new[i].k - new[i].dir, j) /\ j \in 1..i - 1
    BY <2>0 DEF LastOn
  <2>2. CASE i # n + 1
    <3>0. i \in 1..n
      BY <1>1, <2>2
    <3>1. i \in 1..n /\ j \in 1..n
      BY <1>1, <2>1, <3>0
    <3>2. LastOn(entries, i, entries[i].k - entries[i].dir, j)
      BY <1>2, <2>1, <3>1
    <3>3. r[j] + Cost(entries[i], gap) <= r[i]
      BY <3>1, <3>2 DEF Rated, n
    <3> QED
      BY <1>2, <3>1, <3>3
  <2>3. CASE i = n + 1
    <3> DEFINE d == here - e.dir  limit == Limit(gap, round, here, d)
    <3>1. j \in 1..n /\ e.dir \in {-1, 1} /\ here \in Int
      BY <1>1, <2>1, <2>3 DEF Entry
    <3>0. d \in Int /\ new[i].k - new[i].dir = d
      BY <1>2, <2>3, <3>1
    <3>2. LastOn(entries, n + 1, d, j) /\ d \in Int
      <4> HIDE DEF d
      <4> QED
        BY <2>1, <2>3, <3>0
    <3>3. r[j] <= limit
      BY <3>1, <3>2 DEF Within, n
    <3>4. limit = round \/ limit = round - 1
      BY <3>2, LimitIs
    <3>5. here > gap /\ e.dir = 1 => limit = round - 1
      BY LimitIs
    <3>6. here < gap /\ e.dir = -1 => limit = round - 1
      <4>1. e.dir = -1 => d = here + 1
        BY <3>1
      <4>2. here < gap => Limit(gap, round, here, here + 1) = round - 1
        BY LimitIs
      <4> QED
        BY <4>1, <4>2
    <3>7. Cost(e, gap) = IF (e.dir = 1 /\ here > gap) \/ (e.dir = -1 /\ here < gap) THEN 1 ELSE 0
      BY DEF Cost
    <3> DEFINE v == r[j]  cost == Cost(e, gap)
    <3>8. v \in Nat
      BY <1>1, <3>1, ElementOfSeq
    <3>9. v + cost <= round
      <4> HIDE DEF limit, v, d
      <4>1. CASE (e.dir = 1 /\ here > gap) \/ (e.dir = -1 /\ here < gap)
        <5>1. cost = 1 /\ limit = round - 1
          BY <3>5, <3>6, <3>7, <4>1
        <5> HIDE DEF cost
        <5>2. v <= limit
          BY <3>3 DEF v
        <5> QED
          BY <3>8, <5>1, <5>2
      <4>2. CASE ~((e.dir = 1 /\ here > gap) \/ (e.dir = -1 /\ here < gap))
        <5>1. cost = 0
          BY <3>7, <4>2
        <5> HIDE DEF cost
        <5>2. v <= limit
          BY <3>3 DEF v
        <5> QED
          BY <3>4, <3>8, <5>1, <5>2
      <4> QED
        BY <4>1, <4>2
    <3> QED
      BY <1>2, <2>3, <3>1, <3>9
  <2> QED
    BY <2>2, <2>3
<1>5. Rated(new, rates, gap)
  BY <1>2, <1>4 DEF Rated
<1> QED
  BY <1>2, <1>5 DEF new, rates

LEMMA WithinGoesOn ==
  ASSUME NEW gap \in Nat, NEW round \in Nat, NEW here \in Int, NEW entries \in Seq(Entry),
         NEW r, Rated(entries, r, gap), Within(entries, r, gap, round, here), NEW e \in Entry, e.k = here,
         NEW then \in Nat, NEW there \in Int,
         \A d \in Int : (IF d = here THEN round ELSE Limit(gap, round, here, d)) <= Limit(gap, then, there, d)
  PROVE  Within(Append(entries, e), Append(r, round), gap, then, there)
<1> DEFINE n == Len(entries)  new == Append(entries, e)  rates == Append(r, round)
<1>1. n \in Nat /\ r \in Seq(Nat) /\ Len(r) = n
  BY DEF Rated
<1>2. /\ new \in Seq(Entry) /\ Len(new) = n + 1 /\ new[n + 1] = e /\ \A i \in 1..n : new[i] = entries[i]
      /\ rates \in Seq(Nat) /\ Len(rates) = n + 1 /\ rates[n + 1] = round /\ \A i \in 1..n : rates[i] = r[i]
  BY <1>1
<1> HIDE DEF new, rates, n
<1>3. ASSUME NEW d \in Int, NEW j \in 1..n + 1, LastOn(new, n + 2, d, j)
      PROVE  rates[j] <= Limit(gap, then, there, d)
  <2>1. j \in 1..(n + 2) - 1 /\ new[j].k = d /\ \A l \in j + 1..(n + 2) - 1 : new[l].k # d
    BY <1>3 DEF LastOn
  <2>2. CASE j = n + 1
    <3>1. d = here /\ rates[j] = round
      BY <1>2, <2>1, <2>2
    <3>2. round <= Limit(gap, then, there, d)
      BY <3>1
    <3> QED
      BY <3>1, <3>2
  <2>3. CASE j # n + 1
    <3>1. j \in 1..n /\ n + 1 \in j + 1..(n + 2) - 1
      BY <1>1, <2>3
    <3>2. d # here /\ entries[j].k = d
      BY <1>2, <2>1, <3>1
    <3>3. LastOn(entries, n + 1, d, j)
      <4>1. \A l \in j + 1..(n + 1) - 1 : l \in 1..n /\ l \in j + 1..(n + 2) - 1
        BY <1>1, <3>1
      <4>2. j \in 1..(n + 1) - 1
        BY <1>1, <3>1
      <4> QED
        BY <1>2, <2>1, <3>2, <4>1, <4>2 DEF LastOn
    <3> DEFINE v == r[j]  old == Limit(gap, round, here, d)  limit == Limit(gap, then, there, d)
    <3>4. v <= old
      BY <3>1, <3>3 DEF Within, n
    <3>5. old <= limit
      BY <3>2
    <3>6. v \in Nat /\ old \in Int /\ limit \in Int
      <4>1. v \in Nat
        BY <1>1, <3>1, ElementOfSeq
      <4> QED
        BY <4>1 DEF Limit
    <3> HIDE DEF v, old, limit
    <3>7. v <= limit
      BY <3>4, <3>5, <3>6
    <3> QED
      BY <1>2, <3>1, <3>7 DEF v, limit
  <2> QED
    BY <2>2, <2>3
<1>4. Within(new, rates, gap, then, there)
  <2>1. Len(new) + 1 = n + 2
    BY <1>1, <1>2
  <2> QED
    BY <1>2, <1>3, <2>1 DEF Within
<1> QED
  BY <1>4 DEF new, rates

-----------------------------------------------------------------------------
(* The invariant: m_fp holds the furthest points there are, and the trace  *)
(* the round of each entry.                                                *)

RatesInv == \E r : Rated(trace, r, Delta) /\ Within(trace, r, Delta, p, k)
SearchExact ==
  /\ Least = Apart(a, b)
  /\ \A g : IsTable(g, a, b) => Farthest(g, fp, M, Delta, p, k)
  /\ job = "compute" => RatesInv
  /\ job = "count" => ~Exceeds(Delta + 2 * p)
ExactInv ==
  /\ ScriptInv /\ maxDistance \in Nat /\ DistanceIsExact
  /\ status = "searching" => SearchExact

LEMMA LeastIsPriced ==
  ASSUME a \in Seq(Element), b \in Seq(Element), M <= N, Least = Apart(a, b)
  PROVE  \E g : /\ IsTable(g, a, b) /\ Priced(g, a, b, Delta)
                /\ Price(g, Delta, M, M + Delta) \in Nat
                /\ Least = Delta + 2 * Price(g, Delta, M, M + Delta)
<1>1. M \in Nat /\ N \in Nat /\ Len(a) = M /\ Len(b) = N
  BY DEF M, N
<1>2. Delta \in Nat /\ N = M + Delta
  BY <1>1 DEF Delta
<1>3. PICK g : IsTable(g, a, b) /\ Graded(g, a, b) /\ Common(a, b) = g[Len(a)][Len(b)]
  BY TableOf
<1>4. Priced(g, a, b, Delta)
  BY <1>1, <1>2, <1>3, PricesAre
<1> DEFINE c == g[M][N]  price == Price(g, Delta, M, M + Delta)
<1>5. price \in Nat
  <2>1. M \in 0..Len(a) /\ M + Delta \in 0..Len(b)
    BY <1>1, <1>2
  <2> QED
    BY <1>4, <2>1 DEF Priced, PricesAreBounded
<1>6. c \in Nat
  <2>1. M \in 0..Len(a) /\ N \in 0..Len(b)
    BY <1>1
  <2> QED
    BY <1>3, <2>1 DEF Graded
<1>7. price = M - c
  <2>1. price = (IF M >= (M + Delta) - Delta THEN M ELSE (M + Delta) - Delta) - g[M][M + Delta]
    BY DEF Price
  <2>2. M >= (M + Delta) - Delta
    BY <1>1, <1>2
  <2> QED
    BY <1>2, <2>1, <2>2
<1>8. Least = M + N - 2 * c
  BY <1>1, <1>3 DEF Apart
<1> HIDE DEF c, price
<1>9. Least = Delta + 2 * price
  BY <1>1, <1>2, <1>6, <1>7, <1>8
<1> QED
  BY <1>3, <1>4, <1>5, <1>9 DEF price

LEMMA Collecting ==
  ASSUME ExactInv, Collect
  PROVE  /\ M \in Nat \ {0} /\ N \in Nat /\ Delta \in Nat /\ N = M + Delta
         /\ a \in Seq(Element) /\ b \in Seq(Element) /\ Len(a) = M /\ Len(b) = M + Delta
         /\ p \in Nat /\ k \in -p..Delta + p /\ k \in Int /\ SearchExact
         /\ Table(fp, M, Delta) /\ Swept(fp, M, Delta, p, k)
         /\ Reaches(fp, M, Delta, p, k, Furthest(k))
         /\ SnakeFrom(a, b, k, From(fp, k), Furthest(k))
         /\ fp' = [fp EXCEPT ![k] = Furthest(k)]
         /\ a' = a /\ b' = b /\ M' = M /\ N' = N /\ Delta' = Delta /\ Least' = Least
         /\ job' = job /\ left' = left /\ right' = right /\ maxDistance' = maxDistance
<1>1. SearchInv /\ status = "searching" /\ SearchExact
  BY DEF ExactInv, ScriptInv, Collect
<1>2. M \in Nat \ {0} /\ N \in Nat /\ Delta \in Nat /\ M + Delta = N
  <2>1. M \in Nat /\ N \in Nat /\ Delta \in Nat /\ M + Delta = N
    BY <1>1, Sizes
  <2>2. M > 0
    BY <1>1 DEF SearchInv
  <2> QED
    BY <2>1, <2>2
<1>3. a \in Seq(Element) /\ b \in Seq(Element) /\ Len(a) = M /\ Len(b) = M + Delta
  BY <1>1, <1>2 DEF SearchInv, M, N
<1>4. Table(fp, M, Delta) /\ Swept(fp, M, Delta, p, k)
  BY <1>1 DEF SearchInv
<1>5. p \in Nat /\ k \in -p..Delta + p /\ k \in Int
  BY <1>2, <1>4, Neighbours
<1>6. Reaches(fp, M, Delta, p, k, Furthest(k))
  BY <1>1, CollectingReaches
<1>7. SnakeFrom(a, b, k, From(fp, k), Furthest(k))
  <2>1. Furthest(k) = SnakeEnd(k, From(fp, k))
    BY DEF Furthest, Inserting, From
  <2>2. From(fp, k) \in 0..N /\ From(fp, k) - k \in 0..M
    BY <1>2, <1>4, SweepReaches
  <2> QED
    BY <1>3, <1>5, <2>1, <2>2, SnakeEnds
<1>8. /\ fp' = [fp EXCEPT ![k] = Furthest(k)] /\ a' = a /\ b' = b
      /\ job' = job /\ left' = left /\ right' = right /\ maxDistance' = maxDistance
  BY DEF Collect, asked
<1>9. M' = M /\ N' = N /\ Delta' = Delta /\ Least' = Least
  BY <1>8 DEF M, N, Delta, Least
<1> QED
  BY <1>1, <1>2, <1>3, <1>4, <1>5, <1>6, <1>7, <1>8, <1>9

\* At the end of a round the distance is known, or known to be larger.
LEMMA RoundIsExact ==
  ASSUME ExactInv, Collect, k = Delta
  PROVE  /\ Least \in Nat
         /\ Furthest(k) = N => Least = Delta + 2 * p
         /\ Furthest(k) # N => Least >= Delta + 2 * (p + 1)
<1>1. /\ M \in Nat \ {0} /\ Delta \in Nat /\ N = M + Delta /\ p \in Nat
      /\ a \in Seq(Element) /\ b \in Seq(Element) /\ Len(a) = M /\ Len(b) = M + Delta
      /\ SearchExact /\ Table(fp, M, Delta) /\ Swept(fp, M, Delta, p, Delta)
      /\ Reaches(fp, M, Delta, p, Delta, Furthest(k))
      /\ SnakeFrom(a, b, Delta, From(fp, Delta), Furthest(k))
  BY Collecting
<1> DEFINE z == Furthest(k)
<1>2. M <= N
  BY <1>1
<1>3. PICK g : /\ IsTable(g, a, b) /\ Priced(g, a, b, Delta)
               /\ Price(g, Delta, M, M + Delta) \in Nat
               /\ Least = Delta + 2 * Price(g, Delta, M, M + Delta)
  BY <1>1, <1>2, LeastIsPriced DEF SearchExact
<1>4. Farthest(g, fp, M, Delta, p, Delta)
  BY <1>1, <1>3 DEF SearchExact
<1> DEFINE price == Price(g, Delta, M, M + Delta)
<1> HIDE DEF z
<1>5. /\ z = M + Delta => price = p
      /\ z # M + Delta => price > p
  <2>1. Reaches(fp, M, Delta, p, Delta, z) /\ SnakeFrom(a, b, Delta, From(fp, Delta), z)
    BY <1>1 DEF z
  <2> QED
    BY <1>1, <1>3, <1>4, <2>1, EndIsExact
<1>6. price \in Nat /\ Least = Delta + 2 * price
  BY <1>3
<1> HIDE DEF price
<1>7. Least \in Nat
  BY <1>1, <1>6
<1>8. z = N => Least = Delta + 2 * p
  BY <1>1, <1>5, <1>6
<1>9. z # N => Least >= Delta + 2 * (p + 1)
  BY <1>1, <1>5, <1>6
<1> QED
  BY <1>7, <1>8, <1>9 DEF z

LEMMA RatesCollect ==
  ASSUME ExactInv, Collect, job = "compute"
  PROVE  \E r : /\ Rated(trace', r, Delta) /\ r[Len(trace')] = p
                /\ \A then \in Nat, there \in Int :
                     (\A d \in Int : (IF d = k THEN p ELSE Limit(Delta, p, k, d)) <= Limit(Delta, then, there, d))
                       => Within(trace', r, Delta, then, there)
<1> DEFINE e == [k |-> k, y |-> Furthest(k), dir |-> Direction(k)]
<1>1. /\ Delta \in Nat /\ p \in Nat /\ k \in -p..Delta + p /\ k \in Int
      /\ SearchExact /\ Reaches(fp, M, Delta, p, k, Furthest(k)) /\ M + Delta \in Nat
  BY Collecting
<1>2. PICK r : Rated(trace, r, Delta) /\ Within(trace, r, Delta, p, k)
  BY <1>1 DEF SearchExact, RatesInv
<1>3. trace \in Seq(Entry) /\ trace' = Append(trace, e)
  BY DEF ExactInv, ScriptInv, SearchInv, Collect
<1>4. e \in Entry /\ e.k = k
  <2>1. Furthest(k) \in Int
    BY <1>1 DEF Reaches
  <2>2. Direction(k) \in {-1, 1}
    BY DEF Direction
  <2> QED
    BY <1>1, <2>1, <2>2 DEF Entry
<1> HIDE DEF e
<1>5. Rated(Append(trace, e), Append(r, p), Delta) /\ Append(r, p)[Len(Append(trace, e))] = p
  <2>1. Delta \in Nat /\ p \in Nat /\ k \in -p..Delta + p /\ trace \in Seq(Entry) /\ e \in Entry /\ e.k = k
    BY <1>1, <1>3, <1>4
  <2>2. Rated(trace, r, Delta) /\ Within(trace, r, Delta, p, k)
    BY <1>2
  <2>3. Rated(Append(trace, e), Append(r, p), Delta)
    BY <2>1, <2>2, RatesGrow
  <2>4. Append(r, p)[Len(Append(trace, e))] = p
    <3>1. r \in Seq(Nat) /\ Len(r) = Len(trace)
      BY <2>2 DEF Rated
    <3>2. Len(Append(trace, e)) = Len(r) + 1
      BY <2>1, <3>1
    <3> QED
      BY <2>1, <3>1, <3>2
  <2> QED
    BY <2>3, <2>4
<1>6. ASSUME NEW then \in Nat, NEW there \in Int,
             \A d \in Int : (IF d = k THEN p ELSE Limit(Delta, p, k, d)) <= Limit(Delta, then, there, d)
      PROVE  Within(Append(trace, e), Append(r, p), Delta, then, there)
  BY <1>1, <1>2, <1>3, <1>4, <1>6, WithinGoesOn
<1> QED
  BY <1>3, <1>5, <1>6

LEMMA NextDiagonalIsExact == ExactInv /\ NextDiagonal => ExactInv'
<1> SUFFICES ASSUME ExactInv, NextDiagonal PROVE ExactInv'
  OBVIOUS
<1>1. /\ Collect /\ k # Delta /\ k' = Following(k) /\ p' = p /\ status' = status
      /\ status = "searching" /\ distance' = distance /\ hunks' = hunks
  BY DEF NextDiagonal, Collect
<1>2. /\ M \in Nat \ {0} /\ Delta \in Nat /\ p \in Nat /\ k \in -p..Delta + p /\ k \in Int
      /\ Len(a) = M /\ Len(b) = M + Delta
      /\ SearchExact /\ Table(fp, M, Delta) /\ Swept(fp, M, Delta, p, k)
      /\ Reaches(fp, M, Delta, p, k, Furthest(k))
      /\ SnakeFrom(a, b, k, From(fp, k), Furthest(k))
      /\ fp' = [fp EXCEPT ![k] = Furthest(k)]
      /\ a' = a /\ b' = b /\ M' = M /\ N' = N /\ Delta' = Delta /\ Least' = Least
      /\ job' = job /\ maxDistance' = maxDistance
  BY <1>1, Collecting
<1>3. k' = Succeeding(Delta, p, k)
  BY <1>1 DEF Following, Succeeding
<1>4. ScriptInv'
  BY NextDiagonalTraces DEF ExactInv
<1>5. ASSUME NEW g, IsTable(g, a, b) PROVE Farthest(g, fp', M, Delta, p, k')
  <2>1. M + Delta \in Nat /\ M \in Nat
    BY <1>2
  <2>2. Priced(g, a, b, Delta)
    BY <1>2, <1>5, <2>1, PricesAre
  <2>3. Farthest(g, fp, M, Delta, p, k)
    BY <1>2, <1>5 DEF SearchExact
  <2> DEFINE z == Furthest(k)
  <2>4. /\ fp' = [fp EXCEPT ![k] = z] /\ Reaches(fp, M, Delta, p, k, z)
        /\ SnakeFrom(a, b, k, From(fp, k), z)
    BY <1>2
  <2> HIDE DEF z
  <2>5. Farthest(g, [fp EXCEPT ![k] = z], M, Delta, p, Succeeding(Delta, p, k))
    BY <1>1, <1>2, <2>2, <2>3, <2>4, FarthestGoesOn
  <2> QED
    BY <1>3, <2>4, <2>5
<1>6. ASSUME job = "compute" PROVE \E r : Rated(trace', r, Delta) /\ Within(trace', r, Delta, p, k')
  <2>1. PICK r : /\ Rated(trace', r, Delta)
                 /\ \A then \in Nat, there \in Int :
                      (\A d \in Int : (IF d = k THEN p ELSE Limit(Delta, p, k, d)) <= Limit(Delta, then, there, d))
                        => Within(trace', r, Delta, then, there)
    BY <1>1, <1>6, RatesCollect
  <2>2. \A d \in Int : Limit(Delta, p, k', d) = IF d = k THEN p ELSE Limit(Delta, p, k, d)
    BY <1>1, <1>2, <1>3, LimitGoesOn
  <2>3. \A d \in Int : Limit(Delta, p, k', d) \in Int
    BY <1>2 DEF Limit
  <2>4. k' \in Int
    BY <1>2, <1>3 DEF Succeeding
  <2>5. \A d \in Int : (IF d = k THEN p ELSE Limit(Delta, p, k, d)) <= Limit(Delta, p, k', d)
    BY <2>2, <2>3
  <2> QED
    BY <1>2, <2>1, <2>4, <2>5
<1>7. SearchExact'
  <2>1. Least = Apart(a, b) /\ (job = "count" => ~Exceeds(Delta + 2 * p))
    BY <1>2 DEF SearchExact
  <2>2. Least' = Apart(a', b')
    BY <1>2, <2>1
  <2>3. \A g : IsTable(g, a', b') => Farthest(g, fp', M', Delta', p', k')
    BY <1>1, <1>2, <1>5
  <2>4. job' = "compute" => RatesInv'
    BY <1>1, <1>2, <1>6 DEF RatesInv
  <2>5. job' = "count" => ~Exceeds(Delta + 2 * p)'
    BY <1>1, <1>2, <2>1 DEF Exceeds
  <2> QED
    BY <2>2, <2>3, <2>4, <2>5 DEF SearchExact
<1>8. DistanceIsExact'
  BY <1>1 DEF DistanceIsExact, ScriptIsMinimal, CountsAreExact
<1> QED
  BY <1>2, <1>4, <1>7, <1>8 DEF ExactInv

LEMMA NextRoundIsExact == ExactInv /\ NextRound => ExactInv'
<1> SUFFICES ASSUME ExactInv, NextRound PROVE ExactInv'
  OBVIOUS
<1>1. /\ Collect /\ k = Delta /\ Furthest(k) # N /\ status = "searching"
      /\ distance' = distance /\ hunks' = hunks
  BY DEF NextRound, Collect
<1>2. /\ M \in Nat \ {0} /\ Delta \in Nat /\ p \in Nat /\ k \in -p..Delta + p /\ k \in Int
      /\ Len(a) = M /\ Len(b) = M + Delta
      /\ SearchExact /\ Table(fp, M, Delta) /\ Swept(fp, M, Delta, p, k)
      /\ Reaches(fp, M, Delta, p, k, Furthest(k))
      /\ SnakeFrom(a, b, k, From(fp, k), Furthest(k))
      /\ fp' = [fp EXCEPT ![k] = Furthest(k)]
      /\ a' = a /\ b' = b /\ M' = M /\ N' = N /\ Delta' = Delta /\ Least' = Least
      /\ job' = job /\ maxDistance' = maxDistance
  BY <1>1, Collecting
<1>3. ScriptInv' /\ maxDistance' \in Nat
  BY <1>2, NextRoundTraces DEF ExactInv
<1>4. Least \in Nat /\ Least >= Delta + 2 * (p + 1)
  BY <1>1, RoundIsExact
<1>5. CASE job = "count" /\ Exceeds(Delta + 2 * (p + 1))
  <2>1. status' = "tooMany"
    BY <1>5 DEF NextRound
  <2>2. maxDistance \in Nat /\ maxDistance > 0 /\ Delta + 2 * (p + 1) > maxDistance
    BY <1>5 DEF Exceeds, ExactInv
  <2>3. Least > maxDistance
    BY <1>2, <1>4, <2>2
  <2>4. DistanceIsExact'
    BY <1>2, <2>1, <2>2, <2>3 DEF DistanceIsExact, ScriptIsMinimal, CountsAreExact
  <2> QED
    BY <1>3, <2>1, <2>4 DEF ExactInv
<1>6. CASE ~(job = "count" /\ Exceeds(Delta + 2 * (p + 1)))
  <2>1. status' = status /\ p' = p + 1 /\ k' = First(p + 1)
    BY <1>6 DEF NextRound
  <2>2. k' = -(p + 1)
    BY <1>2, <2>1 DEF First
  <2>3. ASSUME NEW g, IsTable(g, a, b) PROVE Farthest(g, fp', M, Delta, p + 1, -(p + 1))
    <3>1. M + Delta \in Nat /\ M \in Nat
      BY <1>2
    <3>2. Priced(g, a, b, Delta)
      BY <1>2, <2>3, <3>1, PricesAre
    <3>3. Farthest(g, fp, M, Delta, p, Delta)
      BY <1>1, <1>2, <2>3 DEF SearchExact
    <3> DEFINE z == Furthest(k)
    <3>4. /\ fp' = [fp EXCEPT ![Delta] = z] /\ Reaches(fp, M, Delta, p, Delta, z)
          /\ SnakeFrom(a, b, Delta, From(fp, Delta), z) /\ Swept(fp, M, Delta, p, Delta)
      BY <1>1, <1>2
    <3> HIDE DEF z
    <3>5. Farthest(g, [fp EXCEPT ![Delta] = z], M, Delta, p + 1, -(p + 1))
      BY <1>2, <3>2, <3>3, <3>4, FarthestNextRound
    <3> QED
      BY <3>4, <3>5
  <2>4. ASSUME job = "compute"
        PROVE  \E r : Rated(trace', r, Delta) /\ Within(trace', r, Delta, p + 1, -(p + 1))
    <3>1. PICK r : /\ Rated(trace', r, Delta)
                   /\ \A then \in Nat, there \in Int :
                        (\A d \in Int : (IF d = k THEN p ELSE Limit(Delta, p, k, d)) <= Limit(Delta, then, there, d))
                          => Within(trace', r, Delta, then, there)
      BY <1>1, <2>4, RatesCollect
    <3>2. p + 1 \in Nat /\ -(p + 1) \in Int /\ (p + 1) - 1 = p
      BY <1>2
    <3>3. \A d \in Int : Limit(Delta, p + 1, -(p + 1), d) = (p + 1) - 1
      BY <1>2, <3>2, LimitStarts
    <3>4. \A d \in Int : Limit(Delta, p, k, d) = p \/ Limit(Delta, p, k, d) = p - 1
      BY <1>2, LimitIs
    <3>5. \A d \in Int : (IF d = k THEN p ELSE Limit(Delta, p, k, d)) <= Limit(Delta, p + 1, -(p + 1), d)
      BY <1>2, <3>2, <3>3, <3>4
    <3> QED
      BY <3>1, <3>2, <3>5
  <2>5. SearchExact'
    <3>1. Least' = Apart(a', b')
      BY <1>2 DEF SearchExact
    <3>2. \A g : IsTable(g, a', b') => Farthest(g, fp', M', Delta', p', k')
      BY <1>2, <2>1, <2>2, <2>3
    <3>3. job' = "compute" => RatesInv'
      BY <1>2, <2>1, <2>2, <2>4 DEF RatesInv
    <3>4. job' = "count" => ~Exceeds(Delta + 2 * p)'
      BY <1>2, <1>6, <2>1 DEF Exceeds
    <3> QED
      BY <3>1, <3>2, <3>3, <3>4 DEF SearchExact
  <2>6. DistanceIsExact'
    BY <1>1, <2>1 DEF DistanceIsExact, ScriptIsMinimal, CountsAreExact
  <2> QED
    BY <1>3, <2>5, <2>6 DEF ExactInv
<1> QED
  BY <1>5, <1>6

\* The script that is built has as many changes as the main branch has steps.
LEMMA FoundIsShort ==
  ASSUME ExactInv, Found, job = "compute"
  PROVE  Changed(hunks') \in Int /\ Changed(hunks') <= Delta + 2 * p
<1> DEFINE e == [k |-> k, y |-> Furthest(k), dir |-> Direction(k)]
           branch == MainBranch(trace')  script == Backtrack(branch)
<1>1. Collect /\ k = Delta /\ hunks' = Script(trace')
  BY DEF Found
<1>2. Delta \in Nat /\ p \in Nat /\ trace \in Seq(Entry)
  BY <1>1, Collecting DEF ExactInv, ScriptInv, SearchInv
<1>3. trace' = Append(trace, e) /\ Traced(trace') /\ Len(trace') > 0
  BY <1>1, TraceCollects DEF ExactInv
<1>4. trace'[Len(trace')].k = Delta
  <2>1. trace'[Len(trace')] = e
    BY <1>2, <1>3
  <2>2. e.k = k
    OBVIOUS
  <2> QED
    BY <1>1, <2>1, <2>2
<1>5. PICK r : Rated(trace', r, Delta) /\ r[Len(trace')] = p
  BY <1>1, RatesCollect
<1>6. Len(branch) - 1 <= Delta + 2 * p
  BY <1>2, <1>3, <1>4, <1>5, MainBranchIsShort
<1>7. branch \in Seq(Entry) /\ Len(branch) > 0
  BY <1>3, MainBranchIsChain DEF Chain
<1>8. hunks' = IF Len(left) > Len(right) THEN [i \in DOMAIN script |-> Unswapped(script[i])] ELSE script
  BY <1>1 DEF Script
<1> HIDE DEF branch
<1>9. script \in Seq(AnyHunks) /\ Changed(script) = Len(branch) - 1
  BY <1>7, BacktrackChanges
<1> HIDE DEF script
<1>10. Changed(hunks') = Changed(script)
  BY <1>8, <1>9, UnswappedChanges
<1>11. Len(branch) \in Nat
  BY <1>7
<1> QED
  BY <1>6, <1>9, <1>10, <1>11

LEMMA FoundIsExact == ExactInv /\ Found => ExactInv'
<1> SUFFICES ASSUME ExactInv, Found PROVE ExactInv'
  OBVIOUS
<1>1. Collect /\ k = Delta /\ Furthest(k) = N /\ status' = "complete" /\ distance' = Delta + 2 * p
  BY DEF Found
<1>2. ScriptInv'
  BY FoundTraces DEF ExactInv
<1>3. /\ Least' = Least /\ job' = job /\ left' = left /\ right' = right /\ maxDistance' = maxDistance
      /\ Delta \in Nat /\ p \in Nat /\ SearchExact
  BY <1>1, Collecting
<1>4. Least \in Nat /\ Least = Delta + 2 * p
  BY <1>1, RoundIsExact
<1>5. ASSUME job = "compute" PROVE Changed(hunks') = Least
  <2>1. Changed(hunks') \in Int /\ Changed(hunks') <= Delta + 2 * p
    BY <1>5, FoundIsShort
  <2>2. Route(hunks', left, right, Len(left), Len(right))
    BY <1>1, <1>2, <1>3, <1>5 DEF ScriptInv
  <2>3. left \in Seq(Element) /\ right \in Seq(Element)
    BY DEF ExactInv, ScriptInv, SearchInv
  <2>4. Apart(left, right) <= Changed(hunks')
    BY <2>2, <2>3, ScriptsChangeEnough
  <2>5. Least = Apart(left, right)
    BY DEF Least, Apart
  <2> QED
    BY <1>4, <2>1, <2>4, <2>5
<1>6. ASSUME job = "count" PROVE maxDistance = 0 \/ Least <= maxDistance
  <2>1. ~Exceeds(Delta + 2 * p) /\ maxDistance \in Nat
    BY <1>3, <1>6 DEF SearchExact, ExactInv
  <2> QED
    BY <1>4, <2>1 DEF Exceeds
<1>7. ScriptIsMinimal'
  BY <1>1, <1>3, <1>4, <1>5 DEF ScriptIsMinimal
<1>8. CountsAreExact'
  BY <1>1, <1>3, <1>4, <1>6 DEF CountsAreExact
<1>9. status' # "searching" /\ maxDistance' \in Nat
  BY <1>1, <1>3 DEF ExactInv
<1> QED
  BY <1>2, <1>7, <1>8, <1>9 DEF ExactInv, DistanceIsExact

LEMMA SearchingIsExact ==
  ASSUME ExactInv, NEW s \in Seq(Element), NEW t \in Seq(Element), s # <<>>, t # <<>>, Search(s, t),
         Apart(s, t) = Least, job = "count" => ~Exceeds(Abs(Len(s) - Len(t))), ScriptInv'
  PROVE  ExactInv'
<1>1. /\ a' = Shorter(s, t) /\ b' = Longer(s, t)
      /\ fp' = [d \in -(Len(a') + 1)..Len(b') + 1 |-> -1]
      /\ p' = 0 /\ k' = 0 /\ trace' = <<>> /\ status' = "searching"
      /\ job' = job /\ left' = left /\ right' = right /\ maxDistance' = maxDistance
  BY DEF Search, asked
<1>2. Len(s) \in Nat \ {0} /\ Len(t) \in Nat \ {0}
  BY EmptySeq
<1> DEFINE m == Len(a')  gap == Len(b') - Len(a')
<1>3. a' \in Seq(Element) /\ b' \in Seq(Element) /\ m \in Nat \ {0} /\ gap \in Nat
  BY <1>1, <1>2 DEF Shorter, Longer
<1>4. M' = m /\ N' = m + gap /\ Delta' = gap /\ Len(b') = m + gap /\ Len(a') = m
  BY <1>3 DEF M, N, Delta
<1>5. Apart(a', b') = Least /\ gap = Abs(Len(s) - Len(t))
  BY <1>1, ExchangeKeeps
<1> HIDE DEF m, gap
<1>6. fp' = [d \in -(m + 1)..m + gap + 1 |-> -1]
  BY <1>1, <1>4
<1>7. ASSUME NEW g, IsTable(g, a', b') PROVE Farthest(g, fp', m, gap, 0, 0)
  <2>1. m \in Nat /\ m + gap \in Nat
    BY <1>3
  <2> DEFINE shorter == a'  longer == b'
  <2>2. IsTable(g, shorter, longer) /\ Len(shorter) = m /\ Len(longer) = m + gap
    BY <1>4, <1>7
  <2> HIDE DEF shorter, longer
  <2>3. Priced(g, shorter, longer, gap)
    BY <1>3, <2>1, <2>2, PricesAre
  <2> QED
    BY <1>3, <1>6, <2>2, <2>3, FarthestStarts
<1>8. RatesInv'
  <2>1. <<>> \in Seq(Nat) /\ Len(<<>>) = 0 /\ Len(trace') = 0
    BY <1>1
  <2>2. Rated(trace', <<>>, gap) /\ Within(trace', <<>>, gap, 0, 0)
    BY <2>1 DEF Rated, Within
  <2> QED
    BY <1>1, <1>4, <2>2 DEF RatesInv
<1>9. Least' = Least
  BY <1>1 DEF Least
<1>10. ASSUME job = "count" PROVE ~Exceeds(Delta + 2 * p)'
  <2>1. Delta' + 2 * p' = Abs(Len(s) - Len(t))
    BY <1>1, <1>3, <1>4, <1>5
  <2>2. ~Exceeds(Abs(Len(s) - Len(t)))
    BY <1>10
  <2> QED
    BY <1>1, <2>1, <2>2 DEF Exceeds
<1>11. SearchExact'
  <2>1. \A g : IsTable(g, a', b') => Farthest(g, fp', M', Delta', p', k')
    BY <1>1, <1>4, <1>7
  <2> QED
    BY <1>1, <1>5, <1>8, <1>9, <1>10, <2>1 DEF SearchExact
<1>12. DistanceIsExact'
  BY <1>1 DEF DistanceIsExact, ScriptIsMinimal, CountsAreExact
<1> QED
  BY <1>1, <1>11, <1>12 DEF ExactInv

LEMMA ComputeIsExact == ExactInv /\ Compute => ExactInv'
<1> SUFFICES ASSUME ExactInv, Compute PROVE ExactInv'
  OBVIOUS
<1>1. ScriptInv' /\ job = "compute" /\ left \in Seq(Element) /\ right \in Seq(Element)
  BY ComputeTraces DEF ExactInv, ScriptInv, SearchInv, Compute
<1>2. Least = Apart(left, right) /\ Len(left) \in Nat /\ Len(right) \in Nat
  BY <1>1 DEF Least, Apart
<1>3. ASSUME NEW d, NEW script, Finish("complete", d, script), d = Least, Changed(script) = Least
      PROVE  ExactInv'
  <2>1. /\ status' = "complete" /\ distance' = d /\ hunks' = script
        /\ job' = job /\ left' = left /\ right' = right /\ maxDistance' = maxDistance
    BY <1>3 DEF Finish, asked
  <2>2. Least' = Least
    BY <2>1 DEF Least
  <2>3. DistanceIsExact'
    BY <1>1, <1>3, <2>1, <2>2 DEF DistanceIsExact, ScriptIsMinimal, CountsAreExact
  <2> QED
    BY <1>1, <2>1, <2>3 DEF ExactInv
<1>4. CASE left = right
  <2> DEFINE h == Hunk("Equal", 0, Len(left), 0, Len(right))
             script == IF left = <<>> THEN <<>> ELSE <<h>>
  <2>1. Finish("complete", 0, script)
    BY <1>1, <1>4 DEF Compute
  <2>2. Least = 0
    BY <1>1, <1>2, <1>4, ApartIs
  <2>3. Changed(<<>>) = 0 /\ <<>> \in Seq(AnyHunks)
    <3>1. <<>> \in Seq(AnyHunks)
      OBVIOUS
    <3> QED
      BY <3>1, ChangedIs
  <2>4. Changed(<<h>>) = 0
    <3>1. "Equal" \in Type
      BY DEF Type
    <3>2. h \in AnyHunks /\ h.type = "Equal"
      BY <1>2, <3>1, HunkIs
    <3> HIDE DEF h
    <3>3. Touched(h) = 0 /\ Append(<<>>, h) = <<h>>
      BY <3>2 DEF Touched
    <3>4. Changed(Append(<<>>, h)) = Changed(<<>>) + Touched(h)
      BY <2>3, <3>2, ChangedAppends
    <3> QED
      BY <2>3, <3>3, <3>4
  <2>5. Changed(script) = 0
    BY <2>3, <2>4
  <2> HIDE DEF script
  <2> QED
    BY <1>3, <2>1, <2>2, <2>5
<1>5. CASE left # right /\ (left = <<>> \/ right = <<>>)
  <2> DEFINE type == IF right = <<>> THEN "Delete" ELSE "Insert"
             h == Hunk(type, 0, Len(left), 0, Len(right))  total == Len(left) + Len(right)
  <2>1. Finish("complete", total, <<h>>)
    BY <1>1, <1>5 DEF Compute
  <2>2. Least = total
    BY <1>1, <1>2, <1>5, ApartIs
  <2>3. Changed(<<>>) = 0 /\ <<>> \in Seq(AnyHunks)
    <3>1. <<>> \in Seq(AnyHunks)
      OBVIOUS
    <3> QED
      BY <3>1, ChangedIs
  <2>4. Changed(<<h>>) = total
    <3>1. type \in Type /\ type # "Equal"
      BY DEF Type
    <3> HIDE DEF type
    <3>2. h \in AnyHunks /\ h.type = type /\ h.lc = Len(left) /\ h.rc = Len(right)
      BY <1>2, <3>1, HunkIs
    <3> HIDE DEF h
    <3>3. Touched(h) = total /\ Append(<<>>, h) = <<h>>
      BY <3>1, <3>2 DEF Touched
    <3>4. Changed(Append(<<>>, h)) = Changed(<<>>) + Touched(h)
      BY <2>3, <3>2, ChangedAppends
    <3>5. total \in Int
      BY <1>2
    <3> HIDE DEF total
    <3> QED
      BY <2>3, <3>3, <3>4, <3>5
  <2> HIDE DEF h, total
  <2> QED
    BY <1>3, <2>1, <2>2, <2>4
<1>6. CASE left # right /\ left # <<>> /\ right # <<>>
  <2>1. Search(left, right)
    BY <1>6 DEF Compute
  <2> QED
    BY <1>1, <1>2, <1>6, <2>1, SearchingIsExact
<1> QED
  BY <1>4, <1>5, <1>6

LEMMA CountIsExact == ExactInv /\ Count => ExactInv'
<1> SUFFICES ASSUME ExactInv, Count PROVE ExactInv'
  OBVIOUS
<1> DEFINE s == Trimmed(left, Suffix)  t == Trimmed(right, Suffix)
           gap == Abs(Len(s) - Len(t))  imbalance == Imbalance(s, t)  total == Len(s) + Len(t)
<1>1. ScriptInv' /\ job = "count" /\ left \in Seq(Element) /\ right \in Seq(Element) /\ maxDistance \in Nat
  BY CountTraces DEF ExactInv, ScriptInv, SearchInv, Count
<1>2. s \in Seq(Element) /\ t \in Seq(Element)
  BY <1>1, TrimmedIsSeq
<1>3. Apart(s, t) = Least
  BY <1>1, TrimmingKeeps
<1>4. IF Exceeds(gap) \/ Exceeds(imbalance) THEN Finish("tooMany", 0, <<>>)
      ELSE IF s = <<>> \/ t = <<>>
        THEN Finish(IF Exceeds(total) THEN "tooMany" ELSE "complete", total, <<>>)
      ELSE Search(s, t)
  BY DEF Count
<1> HIDE DEF s, t
<1>5. /\ gap \in Nat /\ gap <= Least /\ Least \in Nat
      /\ s = <<>> \/ t = <<>> => Least = total
  BY <1>2, <1>3, ApartIs
<1>6. imbalance \in Nat /\ imbalance <= Least
  BY <1>2, <1>3, ImbalanceIsNeeded DEF Apart
<1> DEFINE bound == Abs(Len(s) - Len(t))
<1>7. gap = bound
  OBVIOUS
<1> HIDE DEF gap, imbalance, total, bound
<1>8. ASSUME NEW verdict, NEW d, Finish(verdict, d, <<>>),
             \/ verdict = "complete" /\ d = Least /\ ~Exceeds(Least)
             \/ verdict = "tooMany" /\ maxDistance > 0 /\ Least > maxDistance
      PROVE  ExactInv'
  <2>1. /\ status' = verdict /\ distance' = d
        /\ job' = job /\ left' = left /\ right' = right /\ maxDistance' = maxDistance
    BY <1>8 DEF Finish, asked
  <2>2. Least' = Least
    BY <2>1 DEF Least
  <2>3. verdict = "complete" => d = Least /\ (maxDistance = 0 \/ Least <= maxDistance)
    BY <1>1, <1>5, <1>8 DEF Exceeds
  <2>4. ScriptIsMinimal'
    BY <1>1, <2>1 DEF ScriptIsMinimal
  <2>5. CountsAreExact'
    BY <1>1, <1>8, <2>1, <2>2, <2>3 DEF CountsAreExact
  <2>6. status' # "searching" /\ maxDistance' \in Nat
    BY <1>1, <1>8, <2>1
  <2> QED
    BY <1>1, <2>4, <2>5, <2>6 DEF ExactInv, DistanceIsExact
<1>9. CASE Exceeds(gap) \/ Exceeds(imbalance)
  <2>1. maxDistance > 0 /\ Least > maxDistance
    BY <1>1, <1>5, <1>6, <1>9 DEF Exceeds
  <2> QED
    BY <1>4, <1>8, <1>9, <2>1
<1>10. CASE ~(Exceeds(gap) \/ Exceeds(imbalance)) /\ (s = <<>> \/ t = <<>>)
  <2>1. Finish(IF Exceeds(total) THEN "tooMany" ELSE "complete", total, <<>>) /\ Least = total
    BY <1>4, <1>5, <1>10
  <2>2. CASE Exceeds(total)
    <3>1. maxDistance > 0 /\ Least > maxDistance
      BY <2>1, <2>2 DEF Exceeds
    <3>2. Finish("tooMany", total, <<>>)
      BY <2>1, <2>2
    <3> QED
      BY <1>8, <3>1, <3>2
  <2>3. CASE ~Exceeds(total)
    <3>1. Finish("complete", total, <<>>) /\ ~Exceeds(Least)
      BY <2>1, <2>3
    <3> QED
      BY <1>8, <2>1, <3>1
  <2> QED
    BY <2>2, <2>3
<1>11. CASE ~(Exceeds(gap) \/ Exceeds(imbalance)) /\ s # <<>> /\ t # <<>>
  <2>1. Search(s, t) /\ ~Exceeds(Abs(Len(s) - Len(t)))
    BY <1>4, <1>11 DEF gap
  <2> QED
    BY <1>1, <1>2, <1>3, <1>11, <2>1, SearchingIsExact
<1> QED
  BY <1>9, <1>10, <1>11

LEMMA ExactRests ==
  ASSUME ExactInv, ScriptInv', UNCHANGED <<asked, a, b, fp, p, k, trace, distance, hunks>>,
         status' = status \/ status' = "stopped"
  PROVE  ExactInv'
<1>1. /\ job' = job /\ left' = left /\ right' = right /\ maxDistance' = maxDistance /\ a' = a /\ b' = b
      /\ fp' = fp /\ p' = p /\ k' = k /\ trace' = trace /\ distance' = distance /\ hunks' = hunks
  BY DEF asked
<1>2. M' = M /\ N' = N /\ Delta' = Delta /\ Least' = Least
  BY <1>1 DEF M, N, Delta, Least
<1>3. SearchExact => SearchExact'
  <2>1. RatesInv => RatesInv'
    BY <1>1, <1>2 DEF RatesInv
  <2>2. ~Exceeds(Delta + 2 * p) => ~Exceeds(Delta + 2 * p)'
    BY <1>1, <1>2 DEF Exceeds
  <2> QED
    BY <1>1, <1>2, <2>1, <2>2 DEF SearchExact
<1>4. DistanceIsExact'
  BY <1>1, <1>2 DEF ExactInv, DistanceIsExact, ScriptIsMinimal, CountsAreExact
<1> QED
  BY <1>1, <1>3, <1>4 DEF ExactInv

LEMMA ExactStays == ExactInv /\ [NextAll]_all => ExactInv'
<1> SUFFICES ASSUME ExactInv, [NextAll]_all PROVE ExactInv'
  OBVIOUS
<1>1. \/ Compute \/ Count \/ NextDiagonal \/ NextRound \/ Found \/ Stop \/ UNCHANGED vars
  BY DEF NextAll, all, Views, Exports, Resolves, Commands
<1>2. ScriptInv'
  BY ScriptStays DEF ExactInv
<1>3. CASE Stop
  BY <1>2, <1>3, ExactRests DEF Stop
<1>4. CASE UNCHANGED vars
  BY <1>2, <1>4, ExactRests DEF vars
<1> QED
  BY <1>1, <1>3, <1>4, ComputeIsExact, CountIsExact, NextDiagonalIsExact, NextRoundIsExact, FoundIsExact

LEMMA ExactInit == InitAll => ExactInv
<1> SUFFICES ASSUME InitAll PROVE ExactInv
  OBVIOUS
<1>1. status = "asked" /\ maxDistance \in IF job = "count" THEN MaxDistances ELSE {0}
  BY DEF InitAll, Init
<1>2. maxDistance \in Nat
  BY <1>1, SequenceDiffAssumption
<1>3. DistanceIsExact
  BY <1>1 DEF DistanceIsExact, ScriptIsMinimal, CountsAreExact
<1> QED
  BY <1>1, <1>2, <1>3, ScriptInit DEF ExactInv

\* For any two inputs and any limit: the script that compute returns is a shortest one
\* and its distance is that of the longest common subsequence; countChanges gives the
\* same number, and refuses to count exactly if it is beyond the limit, whether the
\* lengths, the copies of the elements or the search itself tell (SequenceDiff.h,
\* SequenceDiff.cpp and DiffEngine.cpp).
THEOREM DistancesAreExact == SpecAll => []DistanceIsExact
<1>1. InitAll => ExactInv
  BY ExactInit
<1>2. ExactInv /\ [NextAll]_all => ExactInv'
  BY ExactStays
<1>3. ExactInv => DistanceIsExact
  BY DEF ExactInv
<1> QED
  BY <1>1, <1>2, <1>3, PTL DEF SpecAll
=============================================================================
