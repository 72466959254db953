------------------------- MODULE MergeEditing_proofs -------------------------
(***************************************************************************)
(* The editable RESULT keeps its sidecar history parallel to the undo      *)
(* stack, one ending for each line break, and its conflicts apart, and     *)
(* implements UndoHistory.                                                 *)
(***************************************************************************)
EXTENDS MergeEditing, FiniteSetTheorems, SequenceTheorems,
        WellFoundedInduction, TLAPS

-----------------------------------------------------------------------------
(* Numbers, characters and line breaks.                                    *)

LEMMA LargestIsIn ==
  ASSUME NEW n \in Nat, NEW S \in SUBSET (0..n), S # {}
  PROVE  Largest(S) \in S /\ \A l \in S : l <= Largest(S)
<1> DEFINE R == OpToRel(<, Nat)
           T == {n - k : k \in S}
<1>1. IsWellFoundedOn(R, Nat)
  BY NatLessThanWellFounded
<1>2. \A a, b \in Nat : <<a, b>> \in R <=> a < b
  BY DEF OpToRel
<1> HIDE DEF R
<1>3. T \subseteq Nat /\ T # {}
  <2>1. \A k \in S : n - k \in Nat
    OBVIOUS
  <2> QED BY <2>1
<1>4. PICK x \in T : \A y \in T : ~(<<y, x>> \in R)
  BY <1>1, <1>3, WFMin
<1>5. PICK k \in S : x = n - k
  BY <1>4
<1>6. \A l \in S : l <= k
  <2> SUFFICES ASSUME NEW l \in S PROVE l <= k
    OBVIOUS
  <2>1. n - l \in T /\ n - l \in Nat /\ x \in Nat
    BY <1>3, <1>4
  <2>2. ~(n - l < x)
    BY <1>2, <1>4, <2>1
  <2> QED BY <1>5, <2>2
<1> QED BY <1>6 DEF Largest

LEMMA NewlinesType ==
  ASSUME NEW t \in Seq(STRING)
  PROVE  IsFiniteSet({i \in DOMAIN t : t[i] = "n"}) /\ Newlines(t) \in Nat
<1>1. DOMAIN t = 1..Len(t) /\ Len(t) \in Nat
  OBVIOUS
<1>2. IsFiniteSet(1..Len(t))
  BY <1>1, FS_Interval
<1>3. IsFiniteSet({i \in DOMAIN t : t[i] = "n"})
  BY <1>1, <1>2, FS_Subset
<1> QED BY <1>3, FS_CardinalityType DEF Newlines

\* The line breaks of two texts are those of one and then those of the other.
LEMMA NewlinesConcat ==
  ASSUME NEW s \in Seq(STRING), NEW t \in Seq(STRING)
  PROVE  Newlines(s \o t) = Newlines(s) + Newlines(t)
<1> DEFINE A == {i \in DOMAIN s : s[i] = "n"}
           B == {i \in DOMAIN t : t[i] = "n"}
           C == {i \in DOMAIN (s \o t) : (s \o t)[i] = "n"}
           D == C \ A
           f == [i \in B |-> i + Len(s)]
<1>1. /\ Len(s) \in Nat /\ Len(t) \in Nat /\ DOMAIN s = 1..Len(s) /\ DOMAIN t = 1..Len(t)
      /\ DOMAIN (s \o t) = 1..(Len(s) + Len(t))
      /\ \A i \in 1..Len(s) : (s \o t)[i] = s[i]
      /\ \A i \in 1..Len(t) : (s \o t)[i + Len(s)] = t[i]
  OBVIOUS
<1>2. A \subseteq C
  BY <1>1
<1>3. \A d \in D : d - Len(s) \in B /\ d = (d - Len(s)) + Len(s)
  BY <1>1
<1>4. f \in [B -> D]
  BY <1>1
<1>5. \A d \in D : \E b \in B : f[b] = d
  BY <1>3
<1>6. \A a, b \in B : f[a] = f[b] => a = b
  BY <1>1
<1>7. ExistsBijection(B, D)
  <2> HIDE DEF f, A, B, C, D
  <2>1. IsInjective(f)
    BY <1>4, <1>6 DEF IsInjective
  <2>2. f \in Injection(B, D) /\ f \in Surjection(B, D)
    BY <1>4, <1>5, <2>1 DEF Injection, Surjection
  <2> QED BY <2>2 DEF Bijection, ExistsBijection
<1>8. IsFiniteSet(A) /\ IsFiniteSet(B)
  BY NewlinesType
<1> HIDE DEF f, A, B, D, C
<1>9. IsFiniteSet(D) /\ Cardinality(D) = Cardinality(B)
  BY <1>7, <1>8, FS_Bijection
<1>10. C = A \union D /\ A \intersect D = {}
  BY <1>2 DEF D
<1>11. Cardinality(C) = Cardinality(A) + Cardinality(D)
  <2>1. Cardinality(A \intersect D) = 0
    BY <1>10, FS_EmptySet
  <2>2. Cardinality(A) \in Nat /\ Cardinality(D) \in Nat
    BY <1>8, <1>9, FS_CardinalityType
  <2>3. Cardinality(A \union D) = Cardinality(A) + Cardinality(D) - Cardinality(A \intersect D)
    BY <1>8, <1>9, FS_Union
  <2> QED BY <1>10, <2>1, <2>2, <2>3
<1> QED BY <1>9, <1>11 DEF Newlines, A, B, C

LEMMA MidType ==
  ASSUME NEW s \in Seq(STRING), NEW a \in Nat, NEW b \in Nat, a <= b, b <= Len(s)
  PROVE  /\ Mid(s, a, b) \in Seq(STRING) /\ Len(Mid(s, a, b)) = b - a
         /\ \A i \in 1..(b - a) : Mid(s, a, b)[i] = s[a + i]
<1>1. Len(s) \in Nat
  OBVIOUS
<1> QED BY <1>1 DEF Mid

\* A text cut in two, and in three.
LEMMA NewlinesCut ==
  ASSUME NEW s \in Seq(STRING), NEW a \in Nat, NEW b \in Nat, a <= b, b <= Len(s)
  PROVE  Newlines(Mid(s, 0, b)) = Newlines(Mid(s, 0, a)) + Newlines(Mid(s, a, b))
<1> Len(s) \in Nat /\ a <= Len(s) /\ 0 \in Nat
  OBVIOUS
<1>1. Mid(s, 0, a) \in Seq(STRING) /\ Mid(s, a, b) \in Seq(STRING)
  <2>1. Mid(s, 0, a) \in Seq(STRING)
    BY MidType
  <2>2. Mid(s, a, b) \in Seq(STRING)
    BY MidType
  <2> QED BY <2>1, <2>2
<1>2. Mid(s, 0, b) = Mid(s, 0, a) \o Mid(s, a, b)
  BY ConcatAdjacentSubSeq DEF Mid
<1> QED BY <1>1, <1>2, NewlinesConcat

LEMMA MidAll ==
  ASSUME NEW s \in Seq(STRING)
  PROVE  Mid(s, 0, Len(s)) = s
BY DEF Mid

LEMMA NewlinesThree ==
  ASSUME NEW s \in Seq(STRING), NEW a \in Nat, NEW b \in Nat, a <= b, b <= Len(s)
  PROVE  /\ Newlines(s) = Newlines(Mid(s, 0, a)) + Newlines(Mid(s, a, b))
                            + Newlines(Mid(s, b, Len(s)))
         /\ Newlines(Mid(s, 0, a)) \in Nat /\ Newlines(Mid(s, a, b)) \in Nat
         /\ Newlines(Mid(s, b, Len(s))) \in Nat
<1>1. Len(s) \in Nat
  OBVIOUS
<1>2. Newlines(Mid(s, 0, b)) = Newlines(Mid(s, 0, a)) + Newlines(Mid(s, a, b))
  BY NewlinesCut
<1>3. Newlines(Mid(s, 0, Len(s))) = Newlines(Mid(s, 0, b)) + Newlines(Mid(s, b, Len(s)))
  BY <1>1, NewlinesCut
<1>4. /\ Mid(s, 0, a) \in Seq(STRING) /\ Mid(s, a, b) \in Seq(STRING)
      /\ Mid(s, b, Len(s)) \in Seq(STRING)
  <2>1. Mid(s, 0, a) \in Seq(STRING)
    BY <1>1, MidType
  <2>2. Mid(s, a, b) \in Seq(STRING)
    BY MidType
  <2>3. Mid(s, b, Len(s)) \in Seq(STRING)
    BY <1>1, MidType
  <2> QED BY <2>1, <2>2, <2>3
<1>5. Newlines(s) = Newlines(Mid(s, 0, Len(s)))
  BY MidAll
<1>6. /\ Newlines(Mid(s, 0, a)) \in Nat /\ Newlines(Mid(s, a, b)) \in Nat
      /\ Newlines(Mid(s, b, Len(s))) \in Nat
  BY <1>4, NewlinesType
<1> QED BY <1>2, <1>3, <1>5, <1>6

-----------------------------------------------------------------------------
(* What an edit does to the metadata.                                      *)

LEMMA SmallerIs ==
  ASSUME NEW a \in Int, NEW b \in Int
  PROVE  Smaller(a, b) \in {a, b} /\ Smaller(a, b) <= a /\ Smaller(a, b) <= b
BY DEF Smaller

LEMMA CommonPrefixIs ==
  ASSUME NEW s \in Seq(STRING), NEW t \in Seq(STRING)
  PROVE  /\ CommonPrefix(s, t) \in Nat
         /\ CommonPrefix(s, t) <= Smaller(Len(s), Len(t))
         /\ Mid(s, 0, CommonPrefix(s, t)) = Mid(t, 0, CommonPrefix(s, t))
<1> DEFINE n == Smaller(Len(s), Len(t))
           S == {k \in 0..n : Mid(s, 0, k) = Mid(t, 0, k)}
<1>1. n \in Nat
  BY SmallerIs
<1> HIDE DEF n
<1>2. 0 \in S
  BY <1>1 DEF Mid
<1>3. S \in SUBSET (0..n) /\ S # {}
  BY <1>2
<1>4. Largest(S) \in S
  BY <1>1, <1>3, LargestIsIn
<1> QED BY <1>1, <1>4 DEF CommonPrefix, n

LEMMA CommonSuffixIs ==
  ASSUME NEW s \in Seq(STRING), NEW t \in Seq(STRING), NEW p \in Nat,
         p <= Smaller(Len(s), Len(t))
  PROVE  LET k == CommonSuffix(s, t, p)
         IN /\ k \in Nat /\ p + k <= Len(s) /\ p + k <= Len(t)
            /\ Mid(s, Len(s) - k, Len(s)) = Mid(t, Len(t) - k, Len(t))
<1> DEFINE n == Smaller(Len(s), Len(t)) - p
           S == {k \in 0..n : Mid(s, Len(s) - k, Len(s)) = Mid(t, Len(t) - k, Len(t))}
<1>1. n \in Nat /\ n + p <= Len(s) /\ n + p <= Len(t) /\ Len(s) \in Nat /\ Len(t) \in Nat
  BY SmallerIs
<1> HIDE DEF n
<1>2. 0 \in S
  <2>1. Mid(s, Len(s) - 0, Len(s)) = <<>> /\ Mid(t, Len(t) - 0, Len(t)) = <<>>
    BY <1>1 DEF Mid
  <2> QED BY <1>1, <2>1
<1>3. S \in SUBSET (0..n) /\ S # {}
  BY <1>2
<1>4. Largest(S) \in S
  BY <1>1, <1>3, LargestIsIn
<1> QED BY <1>1, <1>4 DEF CommonSuffix, n

Fits(t, m) == m \in Metadata /\ Len(m.endings) = Newlines(t)

LEMMA ConcatThree ==
  ASSUME NEW S, NEW p \in Seq(S), NEW q \in Seq(S), NEW r \in Seq(S)
  PROVE  (p \o q) \o r \in Seq(S) /\ Len((p \o q) \o r) = Len(p) + Len(q) + Len(r)
<1>1. p \o q \in Seq(S) /\ Len(p \o q) = Len(p) + Len(q)
  OBVIOUS
<1> QED BY <1>1

\* Line endings stay one for each line break when a part of the text is replaced.
LEMMA EndingsReplaced ==
  ASSUME NEW e \in Seq(Ending), NEW f \in Seq(Ending),
         NEW leading \in Nat, NEW removed \in Nat, leading + removed <= Len(e)
  PROVE  /\ ReplaceEndings(e, leading, removed, f) \in Seq(Ending)
         /\ Len(ReplaceEndings(e, leading, removed, f)) = Len(e) - removed + Len(f)
<1> DEFINE a == SubSeq(e, 1, leading)
           b == SubSeq(e, leading + removed + 1, Len(e))
<1>1. Len(e) \in Nat /\ Len(f) \in Nat
  OBVIOUS
<1>2. a \in Seq(Ending) /\ Len(a) = leading
  BY <1>1
<1>3. b \in Seq(Ending) /\ Len(b) = Len(e) - (leading + removed)
  BY <1>1
<1>4. ReplaceEndings(e, leading, removed, f) = (a \o f) \o b
  BY DEF ReplaceEndings
<1>5. (a \o f) \o b \in Seq(Ending) /\ Len((a \o f) \o b) = Len(a) + Len(f) + Len(b)
  BY <1>2, <1>3, ConcatThree
<1>6. leading + Len(f) + (Len(e) - (leading + removed)) = Len(e) - removed + Len(f)
  BY <1>1
<1>7. Len(a) = leading /\ Len(b) = Len(e) - (leading + removed)
  BY <1>2, <1>3
<1> HIDE DEF a, b
<1> QED BY <1>4, <1>5, <1>6, <1>7

LEMMA MovedType ==
  ASSUME NEW c \in ConflictState, NEW prefix \in Nat, NEW end \in Nat, NEW inserted \in Nat,
         prefix <= end
  PROVE  Moved(c, prefix, end, inserted) \in ConflictState
BY SmallerIs
   DEF Moved, ConflictState, State, Precedes, Touches, Inside, Touched, End, Smaller

LEMMA DocumentEditedFits ==
  ASSUME NEW s \in Seq(STRING), NEW t \in Seq(STRING), NEW m, Fits(s, m)
  PROVE  Fits(t, DocumentEdited(m, s, t))
<1> DEFINE prefix == CommonPrefix(s, t)
           suffix == CommonSuffix(s, t, prefix)
           end == Len(s) - suffix
           inserted == Len(t) - suffix - prefix
           leading == Newlines(Mid(s, 0, prefix))
           removed == Newlines(Mid(s, prefix, end))
           added == Newlines(Mid(t, prefix, prefix + inserted))
           new == [i \in 1..added |-> DefaultEnding(m.endings, leading)]
           conflicts == [c \in Conflict |-> Moved(m.conflicts[c], prefix, end, inserted)]
<1>1. /\ prefix \in Nat /\ prefix <= Smaller(Len(s), Len(t))
      /\ Mid(s, 0, prefix) = Mid(t, 0, prefix)
  BY CommonPrefixIs
<1>2. /\ suffix \in Nat /\ prefix + suffix <= Len(s) /\ prefix + suffix <= Len(t)
      /\ Mid(s, Len(s) - suffix, Len(s)) = Mid(t, Len(t) - suffix, Len(t))
  BY <1>1, CommonSuffixIs
<1>3. DocumentEdited(m, s, t) =
        [endings |-> ReplaceEndings(m.endings, leading, removed, new), conflicts |-> conflicts]
  BY DEF DocumentEdited
<1>4. Len(s) \in Nat /\ Len(t) \in Nat
  OBVIOUS
<1> HIDE DEF prefix, suffix
<1>5. /\ end \in Nat /\ prefix <= end /\ end <= Len(s) /\ inserted \in Nat
      /\ prefix + inserted \in Nat /\ prefix <= prefix + inserted
      /\ prefix + inserted <= Len(t) /\ prefix + inserted = Len(t) - suffix
  BY <1>1, <1>2, <1>4
<1>6. /\ Newlines(s) = leading + removed + Newlines(Mid(s, end, Len(s)))
      /\ leading \in Nat /\ removed \in Nat /\ Newlines(Mid(s, end, Len(s))) \in Nat
  BY <1>1, <1>5, NewlinesThree
<1>7. /\ Newlines(t) = Newlines(Mid(t, 0, prefix)) + added
                         + Newlines(Mid(t, prefix + inserted, Len(t)))
      /\ added \in Nat
  <2>1. \A a, b \in Nat : a <= b /\ b <= Len(t) =>
          /\ Newlines(t) = Newlines(Mid(t, 0, a)) + Newlines(Mid(t, a, b))
                             + Newlines(Mid(t, b, Len(t)))
          /\ Newlines(Mid(t, a, b)) \in Nat
    BY NewlinesThree
  <2> QED BY <1>1, <1>5, <2>1
<1>8. /\ m.endings \in Seq(Ending) /\ m.conflicts \in [Conflict -> ConflictState]
      /\ Len(m.endings) = Newlines(s)
  BY DEF Fits, Metadata
<1> HIDE DEF end, inserted, leading, removed, added
<1>9. new \in Seq(Ending) /\ Len(new) = added
  <2>1. DefaultEnding(m.endings, leading) \in Ending
    BY <1>6, <1>8, ConstantsAssumption DEF DefaultEnding
  <2> QED BY <1>7, <2>1
<1>10. conflicts \in [Conflict -> ConflictState]
  BY <1>1, <1>5, <1>8, MovedType
<1> HIDE DEF new, conflicts
<1>11. /\ ReplaceEndings(m.endings, leading, removed, new) \in Seq(Ending)
       /\ Len(ReplaceEndings(m.endings, leading, removed, new))
             = Len(m.endings) - removed + Len(new)
  <2>1. leading + removed <= Len(m.endings)
    BY <1>6, <1>8
  <2> QED BY <1>6, <1>8, <1>9, <2>1, EndingsReplaced
<1>12. Newlines(Mid(s, end, Len(s))) = Newlines(Mid(t, prefix + inserted, Len(t)))
  BY <1>2, <1>5 DEF end
<1>13. Len(m.endings) - removed + Len(new) = Newlines(t)
  BY <1>1, <1>6, <1>7, <1>8, <1>9, <1>12 DEF leading
<1> QED BY <1>3, <1>10, <1>11, <1>13 DEF Fits, Metadata

LEMMA KeptType ==
  ASSUME NEW s \in Seq(STRING), NEW t \in Seq(STRING)
  PROVE  Mid(s, 0, CommonPrefix(s, t)) \o
           Mid(s, Len(s) - CommonSuffix(s, t, CommonPrefix(s, t)), Len(s)) \in Seq(STRING)
<1> DEFINE prefix == CommonPrefix(s, t)
           suffix == CommonSuffix(s, t, prefix)
<1>1. prefix \in Nat /\ prefix <= Smaller(Len(s), Len(t))
  BY CommonPrefixIs
<1>2. suffix \in Nat /\ prefix + suffix <= Len(s)
  BY <1>1, CommonSuffixIs
<1> HIDE DEF prefix, suffix
<1>3. /\ Len(s) \in Nat /\ 0 <= prefix /\ prefix <= Len(s) /\ 0 \in Nat
      /\ Len(s) - suffix \in Nat /\ Len(s) - suffix <= Len(s) /\ Len(s) <= Len(s)
  BY <1>1, <1>2
<1>4. Mid(s, 0, prefix) \in Seq(STRING)
  BY <1>1, <1>3, MidType
<1>5. Mid(s, Len(s) - suffix, Len(s)) \in Seq(STRING)
  BY <1>3, MidType
<1>6. Mid(s, 0, prefix) \o Mid(s, Len(s) - suffix, Len(s)) \in Seq(STRING)
  BY <1>4, <1>5
<1> QED BY <1>6 DEF prefix, suffix

\* However an edit is signalled, it leaves one ending for each line break.
LEMMA SignalledFits ==
  ASSUME NEW s \in Seq(STRING), NEW t \in Seq(STRING), NEW m, Fits(s, m),
         NEW n \in Signalled(m, s, t)
  PROVE  Fits(t, n)
<1> DEFINE prefix == CommonPrefix(s, t)
           suffix == CommonSuffix(s, t, prefix)
           kept == Mid(s, 0, prefix) \o Mid(s, Len(s) - suffix, Len(s))
<1>1. kept \in Seq(STRING)
  BY KeptType
<1>2. n \in {DocumentEdited(m, s, t), DocumentEdited(DocumentEdited(m, s, kept), kept, t)}
  BY DEF Signalled
<1> HIDE DEF kept
<1>3. Fits(kept, DocumentEdited(m, s, kept))
  BY <1>1, DocumentEditedFits
<1>4. Fits(t, DocumentEdited(DocumentEdited(m, s, kept), kept, t))
  BY <1>1, <1>3, DocumentEditedFits
<1>5. Fits(t, DocumentEdited(m, s, t))
  BY DocumentEditedFits
<1> QED BY <1>2, <1>4, <1>5

-----------------------------------------------------------------------------
(* The sidecar history follows Qt's stack.                                 *)

HEntry == [metadata : Metadata, text : Text, command : Nat]

\* Commands are named in the order of their pushes, and the one before the first
\* entry is older than every command on the stack: the sidecar finds how much the
\* stack forgot by the name of its oldest command.
IdsGrow ==
  /\ history[1].command <= pushed
  /\ \A i \in DOMAIN stack : history[1].command < stack[i].id /\ stack[i].id <= pushed
  /\ \A i, j \in DOMAIN stack : i < j => stack[i].id < stack[j].id

\* A merge command restores what the sidecar has recorded.
MergesAreRecorded ==
  \A i \in DOMAIN stack :
    ~stack[i].native => /\ stack[i].undo = history[i].metadata
                        /\ stack[i].redo = history[i + 1].metadata

HistInv == HistoryFollowsStack /\ IdsGrow /\ MergesAreRecorded

LEMMA RebasedSame ==
  ASSUME NEW h \in Seq(HEntry), NEW s \in Seq(Command),
         s # <<>> => \/ Len(h) >= 2 /\ h[2].command = s[1].id
                     \/ \A i \in 2..Len(h) : h[i].command # s[1].id
  PROVE  Rebased(h, s) = h
<1> DEFINE at == {i \in 2..Len(h) : s # <<>> /\ h[i].command = s[1].id}
           first == CHOOSE i \in at : \A j \in at : i <= j
<1>0. Len(h) \in Nat
  OBVIOUS
<1>1. CASE at = {}
  BY <1>1 DEF Rebased
<1>2. CASE at # {}
  <2>1. 2 \in at /\ at \subseteq 2..Len(h)
    BY <1>0, <1>2
  <2> HIDE DEF at
  <2>2. first = 2
    <3>1. \A j \in at : 2 <= j
      BY <1>0, <2>1
    <3>2. first \in at /\ \A j \in at : first <= j
      BY <2>1, <3>1
    <3> QED BY <1>0, <2>1, <3>1, <3>2
  <2>3. SubSeq(h, 1, Len(h)) = h
    OBVIOUS
  <2>4. Rebased(h, s) = SubSeq(h, first - 1, Len(h))
    BY <1>2 DEF Rebased, at
  <2> HIDE DEF first
  <2> QED BY <2>2, <2>3, <2>4
<1> QED BY <1>1, <1>2

LEMMA RebasedForgets ==
  ASSUME NEW h \in Seq(HEntry), NEW s \in Seq(Command), s # <<>>,
         Len(h) >= 3, h[3].command = s[1].id, h[2].command # s[1].id
  PROVE  Rebased(h, s) = SubSeq(h, 2, Len(h))
<1> DEFINE at == {i \in 2..Len(h) : s # <<>> /\ h[i].command = s[1].id}
           first == CHOOSE i \in at : \A j \in at : i <= j
<1>0. Len(h) \in Nat
  OBVIOUS
<1>1. 3 \in at /\ at \subseteq 3..Len(h)
  BY <1>0
<1>2. Rebased(h, s) = SubSeq(h, first - 1, Len(h))
  BY <1>1 DEF Rebased
<1> HIDE DEF at
<1>3. first = 3
  <2>1. \A j \in at : 3 <= j
    BY <1>0, <1>1
  <2>2. first \in at /\ \A j \in at : first <= j
    BY <1>1, <2>1
  <2> HIDE DEF first
  <2>3. first \in 3..Len(h) /\ first <= 3
    BY <1>1, <2>2
  <2> QED BY <1>0, <2>3
<1> HIDE DEF first
<1> QED BY <1>2, <1>3

\* A state that is not known is recorded behind those before it.
LEMMA RecordedNew ==
  ASSUME NEW h \in Seq(HEntry), NEW s, NEW i \in Nat, NEW t, NEW m, NEW forced,
         Rebased(history, s) = h, i <= Len(h), i >= lastIndex, ~Matches(h, s, i, t),
         UndoIndexChanged(s, i, t, m, forced)
  PROVE  /\ history' = Append(SubSeq(h, 1, i), Entry(s, i, t, m))
         /\ current' = m /\ stack' = s /\ index' = i /\ lastIndex' = i /\ text' = t
<1>1. Len(SubSeq(h, 1, i)) = i
  OBVIOUS
<1>2. ~(i < Len(SubSeq(h, 1, i)))
  BY <1>1
<1> QED BY <1>2 DEF UndoIndexChanged

LEMMA AppendToFirst ==
  ASSUME NEW S, NEW q \in Seq(S), NEW i \in 0..Len(q), NEW c \in S
  PROVE  LET r == Append(SubSeq(q, 1, i), c)
         IN /\ r \in Seq(S) /\ Len(r) = i + 1 /\ r[i + 1] = c
            /\ \A j \in 1..i : r[j] = q[j]
<1> DEFINE p == SubSeq(q, 1, i)
<1>1. p \in Seq(S) /\ Len(p) = i /\ \A j \in 1..i : p[j] = q[j]
  OBVIOUS
<1> HIDE DEF p
<1>2. Append(p, c) \in Seq(S) /\ Len(Append(p, c)) = i + 1
  BY <1>1
<1>3. Append(p, c)[i + 1] = c /\ \A j \in 1..i : Append(p, c)[j] = p[j]
  BY <1>1
<1> QED BY <1>1, <1>2, <1>3 DEF p

\* The next history of the sidecar, entry by entry, when Qt forgets k commands.
Shifted(k, command, t, m) ==
  /\ k \in {0, 1} /\ index' = index + 1 - k /\ lastIndex' = index' /\ index' \in 1..UndoLimit
  /\ k = 1 => index = Len(stack) /\ index = UndoLimit
  /\ stack' \in Seq(Command) /\ Len(stack') = index'
  /\ \A j \in 1..(index - k) : stack'[j] = stack[j + k]
  /\ stack'[index'] = command
  /\ history' \in Seq(HEntry) /\ Len(history') = index' + 1
  /\ \A j \in 1..(index + 1 - k) : history'[j] = history[j + k]
  /\ history'[index' + 1] = [metadata |-> m, text |-> t, command |-> command.id]
  /\ text' = t /\ current' = m

Pushed ==
  \E k \in {0, 1}, command \in Command, t \in Text, m \in Metadata :
    Shifted(k, command, t, m)

LEMMA PushShifts ==
  ASSUME TypeOK, HistInv, NEW t \in Text, NEW m \in Metadata, NEW forced,
         NEW command \in Command, command.id = pushed + 1, Push(command, t, m, forced)
  PROVE  \E k \in {0, 1} : Shifted(k, command, t, m)
<1> DEFINE all == Append(SubSeq(stack, 1, index), command)
<1>1. /\ stack \in Seq(Command) /\ history \in Seq(HEntry) /\ index \in 0..Len(stack)
      /\ Len(stack) \in Nat /\ Len(stack) <= UndoLimit /\ UndoLimit \in Nat /\ UndoLimit >= 2
      /\ Len(history) = Len(stack) + 1 /\ lastIndex = index /\ pushed \in Nat
  <2>1. /\ stack \in Seq(Command) /\ history \in Seq(HEntry) /\ index \in 0..Len(stack)
        /\ Len(stack) <= UndoLimit /\ pushed \in Nat
    BY DEF TypeOK, HEntry
  <2>2. Len(history) = Len(stack) + 1 /\ lastIndex = index
    BY DEF HistInv, HistoryFollowsStack
  <2>3. UndoLimit \in Nat /\ UndoLimit >= 2
    BY ConstantsAssumption
  <2> QED BY ONLY <2>1, <2>2, <2>3
<1>2. /\ all \in Seq(Command) /\ Len(all) = index + 1 /\ all[index + 1] = command
      /\ \A j \in 1..index : all[j] = stack[j]
  BY ONLY <1>1, command \in Command, AppendToFirst
<1>4. \A i \in 1..Len(stack) : stack[i].id \in Nat /\ stack[i].id = history[i + 1].command
  <2>1. \A i \in 1..Len(stack) : stack[i] \in Command
    BY <1>1
  <2>2. DOMAIN stack = 1..Len(stack)
    BY <1>1
  <2> QED BY <2>1, <2>2 DEF HistInv, HistoryFollowsStack, Command
<1>3. \A i \in 1..Len(history) : history[i].command <= pushed
  <2> SUFFICES ASSUME NEW i \in 1..Len(history) PROVE history[i].command <= pushed
    OBVIOUS
  <2>1. CASE i = 1
    BY <2>1 DEF HistInv, IdsGrow
  <2>2. CASE i # 1
    <3>1. i - 1 \in 1..Len(stack) /\ i = (i - 1) + 1 /\ DOMAIN stack = 1..Len(stack)
      BY <1>1, <2>2
    <3>2. stack[i - 1].id <= pushed
      BY <3>1 DEF HistInv, IdsGrow
    <3>3. stack[i - 1].id = history[(i - 1) + 1].command
      BY <1>4, <3>1
    <3> QED BY <3>1, <3>2, <3>3
  <2> QED BY <2>1, <2>2
<1> HIDE DEF all
<1>5. CASE Len(all) <= UndoLimit
  <2>1. UndoIndexChanged(all, index + 1, t, m, forced)
    BY <1>1, <1>2, <1>5 DEF Push, all
  <2>2. Rebased(history, all) = history
    <3>1. CASE index = 0
      <4>1. \A i \in 2..Len(history) : history[i].command # all[1].id
        BY <1>1, <1>2, <1>3, <3>1
      <4> QED BY <1>1, <1>2, <4>1, RebasedSame
    <3>2. CASE index > 0
      <4>1. Len(history) >= 2 /\ history[2].command = all[1].id
        <5>1. 1 \in 1..Len(stack) /\ all[1] = stack[1]
          BY <1>1, <1>2, <3>2
        <5> QED BY <1>1, <1>4, <5>1
      <4> QED BY <1>1, <1>2, <4>1, RebasedSame
    <3> QED BY <1>1, <3>1, <3>2
  <2>3. ~Matches(history, all, index + 1, t)
    BY <1>1, <1>2, <1>3 DEF Matches, CommandAt
  <2>4. /\ history' = Append(SubSeq(history, 1, index + 1), Entry(all, index + 1, t, m))
        /\ current' = m /\ stack' = all /\ index' = index + 1 /\ lastIndex' = index + 1
        /\ text' = t
    BY <1>1, <2>1, <2>2, <2>3, RecordedNew
  <2>5. Entry(all, index + 1, t, m) = [metadata |-> m, text |-> t, command |-> command.id]
    BY <1>1, <1>2 DEF Entry, CommandAt
  <2>6. [metadata |-> m, text |-> t, command |-> command.id] \in HEntry
    BY <1>1 DEF HEntry
  <2> DEFINE e == [metadata |-> m, text |-> t, command |-> command.id]
             kept == SubSeq(history, 1, index + 1)
  <2>7. /\ kept \in Seq(HEntry) /\ Len(kept) = index + 1
        /\ \A j \in 1..(index + 1) : kept[j] = history[j]
    BY <1>1
  <2> HIDE DEF e, kept
  <2>8. /\ Append(kept, e) \in Seq(HEntry) /\ Len(Append(kept, e)) = index + 2
        /\ Append(kept, e)[index + 2] = e
        /\ \A j \in 1..(index + 1) : Append(kept, e)[j] = history[j]
    BY <1>1, <2>6, <2>7 DEF e
  <2>9. history' = Append(kept, e)
    BY <2>4, <2>5 DEF e, kept
  <2>10. Shifted(0, command, t, m)
    BY <1>1, <1>2, <1>5, <2>4, <2>8, <2>9 DEF Shifted, e
  <2> QED BY <2>10
<1>6. CASE Len(all) > UndoLimit
  <2> DEFINE s == Tail(all)
             h == SubSeq(history, 2, Len(history))
  <2>1. index = UndoLimit /\ index = Len(stack) /\ index >= 2
    BY <1>1, <1>2, <1>6
  <2>2. /\ s \in Seq(Command) /\ Len(s) = index /\ s[index] = command
        /\ \A j \in 1..(index - 1) : s[j] = stack[j + 1]
    BY <1>1, <1>2, <2>1
  <2>3. /\ h \in Seq(HEntry) /\ Len(h) = index
        /\ \A j \in 1..index : h[j] = history[j + 1]
    BY <1>1, <2>1
  <2> HIDE DEF s, h
  <2>4. UndoIndexChanged(s, index, t, m, forced)
    BY <1>6, <2>2 DEF Push, s, all
  <2>5. Rebased(history, s) = h
    <3>1. s # <<>> /\ s[1] = stack[2]
      BY <2>1, <2>2
    <3>2. history[3].command = s[1].id /\ history[2].command # s[1].id /\ Len(history) >= 3
      <4>1. 1 \in DOMAIN stack /\ 2 \in DOMAIN stack /\ 1 < 2
        BY <1>1, <2>1
      <4>2. stack[1].id < stack[2].id
        BY <4>1 DEF HistInv, IdsGrow
      <4> QED BY <1>1, <1>4, <2>1, <3>1, <4>1, <4>2
    <3> QED BY <1>1, <2>2, <3>1, <3>2, RebasedForgets DEF h
  <2>6. ~Matches(h, s, index, t)
    BY <1>1, <2>3 DEF Matches
  <2>7. /\ history' = Append(SubSeq(h, 1, index), Entry(s, index, t, m))
        /\ current' = m /\ stack' = s /\ index' = index /\ lastIndex' = index
        /\ text' = t
    BY <1>1, <2>3, <2>4, <2>5, <2>6, RecordedNew
  <2>8. SubSeq(h, 1, index) = h
    BY <2>3
  <2>9. Entry(s, index, t, m) = [metadata |-> m, text |-> t, command |-> command.id]
    BY <2>1, <2>2 DEF Entry, CommandAt
  <2> DEFINE e == [metadata |-> m, text |-> t, command |-> command.id]
  <2>10. e \in HEntry
    BY <1>1 DEF HEntry
  <2> HIDE DEF e
  <2>11. /\ Append(h, e) \in Seq(HEntry) /\ Len(Append(h, e)) = index + 1
         /\ Append(h, e)[index + 1] = e
         /\ \A j \in 1..index : Append(h, e)[j] = h[j]
    BY <1>1, <2>1, <2>3, <2>10
  <2>12. history' = Append(h, e)
    BY <2>7, <2>8, <2>9 DEF e
  <2>13. Shifted(1, command, t, m)
    BY <1>1, <2>1, <2>2, <2>3, <2>7, <2>11, <2>12 DEF Shifted, e
  <2> QED BY <2>13
<1> QED BY <1>1, <1>2, <1>5, <1>6

\* What TypeOK and the invariant say of the stack and the history.
LEMMA HistFacts ==
  ASSUME TypeOK, HistInv
  PROVE  /\ stack \in Seq(Command) /\ history \in Seq(HEntry) /\ index \in 0..Len(stack)
         /\ Len(stack) \in Nat /\ Len(history) = Len(stack) + 1 /\ lastIndex = index
         /\ DOMAIN stack = 1..Len(stack) /\ DOMAIN history = 1..(Len(stack) + 1)
         /\ pushed \in Nat /\ history[1].command \in Nat /\ history[1].command <= pushed
         /\ \A i \in 1..Len(stack) :
              /\ stack[i] \in Command /\ stack[i].id \in Nat \ {0}
              /\ stack[i].before \in Text /\ stack[i].after \in Text
              /\ history[i + 1].command = stack[i].id
              /\ history[i].text = stack[i].before /\ history[i + 1].text = stack[i].after
              /\ history[1].command < stack[i].id /\ stack[i].id <= pushed
              /\ ~stack[i].native => /\ stack[i].undo = history[i].metadata
                                     /\ stack[i].redo = history[i + 1].metadata
              /\ \A j \in 1..Len(stack) : i < j => stack[i].id < stack[j].id
         /\ \A i \in 1..(Len(stack) + 1) : history[i] \in HEntry
         /\ history[index + 1].text = text /\ history[index + 1].metadata = current
<1>1. /\ stack \in Seq(Command) /\ history \in Seq(HEntry) /\ index \in 0..Len(stack)
      /\ Len(stack) \in Nat /\ Len(history) = Len(stack) + 1 /\ lastIndex = index
      /\ pushed \in Nat
  BY DEF TypeOK, HEntry, HistInv, HistoryFollowsStack
<1>2. DOMAIN stack = 1..Len(stack) /\ DOMAIN history = 1..(Len(stack) + 1)
  BY <1>1
<1>3. \A i \in 1..Len(stack) : stack[i] \in Command
  BY <1>1
<1>4. \A i \in 1..(Len(stack) + 1) : history[i] \in HEntry
  BY <1>1
<1>5. history[1].command \in Nat /\ history[1].command <= pushed
  <2>1. history[1] \in HEntry
    BY <1>1, <1>4
  <2> QED BY <2>1 DEF HEntry, HistInv, IdsGrow
<1>6. \A i \in 1..Len(stack) :
        stack[i].id \in Nat \ {0} /\ stack[i].before \in Text /\ stack[i].after \in Text
  BY <1>3 DEF Command
<1> QED BY <1>1, <1>2, <1>3, <1>4, <1>5, <1>6
        DEF HistInv, HistoryFollowsStack, IdsGrow, MergesAreRecorded

LEMMA PushKeepsHist ==
  ASSUME TypeOK, HistInv, NEW t \in Text, NEW m \in Metadata, NEW k \in {0, 1},
         NEW command \in Command, command.id = pushed + 1,
         command.before = text, command.after = t,
         ~command.native => command.undo = current /\ command.redo = m,
         Shifted(k, command, t, m), pushed' = pushed + 1
  PROVE  HistInv'
<1>1. /\ index \in 0..Len(stack) /\ Len(stack) \in Nat /\ pushed \in Nat
      /\ history[1].command \in Nat /\ history[1].command <= pushed
      /\ DOMAIN stack' = 1..index' /\ index' = index + 1 - k /\ index' \in Nat \ {0}
      /\ lastIndex' = index' /\ Len(stack') = index' /\ Len(history') = index' + 1
      /\ k = 1 => index = Len(stack)
  BY HistFacts, SMTT(30) DEF Shifted
<1>2. \A j \in 1..(index - k) :
        /\ j + k \in 1..Len(stack) /\ stack'[j] = stack[j + k]
        /\ history'[j] = history[j + k] /\ history'[j + 1] = history[(j + k) + 1]
  <2> SUFFICES ASSUME NEW j \in 1..(index - k)
               PROVE  /\ j + k \in 1..Len(stack) /\ stack'[j] = stack[j + k]
                      /\ history'[j] = history[j + k] /\ history'[j + 1] = history[(j + k) + 1]
    OBVIOUS
  <2>1. /\ j + k \in 1..Len(stack) /\ j \in 1..(index + 1 - k) /\ j + 1 \in 1..(index + 1 - k)
        /\ (j + 1) + k = (j + k) + 1
    BY <1>1
  <2>2. stack'[j] = stack[j + k]
    BY DEF Shifted
  <2>3. \A i \in 1..(index + 1 - k) : history'[i] = history[i + k]
    BY DEF Shifted
  <2>4. history'[j] = history[j + k]
    BY <2>1, <2>3
  <2>5. history'[j + 1] = history[(j + 1) + k]
    BY <2>1, <2>3
  <2> QED BY <2>1, <2>2, <2>4, <2>5
<1>3. /\ stack'[index'] = command /\ history'[index'] = history[index + 1]
      /\ history'[index' + 1] = [metadata |-> m, text |-> t, command |-> command.id]
      /\ history[index + 1].text = text /\ history[index + 1].metadata = current
  <2>1. index' \in 1..(index + 1 - k) /\ index' + k = index + 1
    BY <1>1
  <2> QED BY <2>1, HistFacts DEF Shifted
<1>4. \A j \in 1..index' : j \in 1..(index - k) \/ j = index'
  BY <1>1
<1>5. history'[1] = history[1 + k]
  <2>1. 1 \in 1..(index + 1 - k)
    BY <1>1
  <2> QED BY <2>1 DEF Shifted
<1>6. history'[1].command <= pushed /\ history'[1].command \in Nat
  <2>1. CASE k = 0
    BY <1>1, <1>5, <2>1
  <2>2. CASE k = 1
    <3>1. 1 \in 1..Len(stack)
      BY <1>1, <2>2
    <3>2. history[1 + 1].command = stack[1].id /\ stack[1].id <= pushed /\ stack[1].id \in Nat
      BY <3>1, HistFacts
    <3> QED BY <1>5, <2>2, <3>2
  <2> QED BY <2>1, <2>2
<1>7. HistoryFollowsStack'
  <2>1. \A j \in 1..index' :
          /\ history'[j + 1].command = stack'[j].id
          /\ history'[j].text = stack'[j].before /\ history'[j + 1].text = stack'[j].after
    <3>1. \A j \in 1..(index - k) :
            /\ history'[j + 1].command = stack'[j].id
            /\ history'[j].text = stack'[j].before /\ history'[j + 1].text = stack'[j].after
      BY <1>2, HistFacts, ZenonT(30)
    <3>2. /\ history'[index' + 1].command = stack'[index'].id
          /\ history'[index'].text = stack'[index'].before
          /\ history'[index' + 1].text = stack'[index'].after
      BY <1>3
    <3> QED BY <1>4, <3>1, <3>2
  <2>2. history'[index' + 1].text = text' /\ history'[index' + 1].metadata = current'
    BY <1>3 DEF Shifted
  <2> QED BY <1>1, <2>1, <2>2 DEF HistoryFollowsStack
<1>8. IdsGrow'
  <2>1. \A j \in 1..(index - k) : stack'[j].id <= pushed /\ stack'[j].id \in Nat
    BY <1>2, HistFacts
  <2>2. stack'[index'].id = pushed + 1
    BY <1>3
  <2>3. \A j \in 1..(index - k) : history'[1].command < stack'[j].id
    <3> SUFFICES ASSUME NEW j \in 1..(index - k) PROVE history'[1].command < stack'[j].id
      OBVIOUS
    <3>1. j + k \in 1..Len(stack) /\ stack'[j] = stack[j + k]
      BY <1>2
    <3>2. CASE k = 0
      BY <1>1, <1>5, <3>1, <3>2, HistFacts
    <3>3. CASE k = 1
      <4>1. 1 \in 1..Len(stack) /\ 1 < j + 1 /\ j + 1 \in 1..Len(stack)
        BY <1>1, <3>1, <3>3
      <4>2. stack[1].id < stack[j + 1].id /\ history[1 + 1].command = stack[1].id
        BY <4>1, HistFacts
      <4> QED BY <1>5, <3>1, <3>3, <4>2
    <3> QED BY <3>2, <3>3
  <2>4. \A i, j \in 1..(index - k) : i < j => stack'[i].id < stack'[j].id
    <3> SUFFICES ASSUME NEW i \in 1..(index - k), NEW j \in 1..(index - k), i < j
                 PROVE  stack'[i].id < stack'[j].id
      OBVIOUS
    <3>1. i + k \in 1..Len(stack) /\ stack'[i] = stack[i + k]
      BY ONLY <1>2, i \in 1..(index - k)
    <3>2. j + k \in 1..Len(stack) /\ stack'[j] = stack[j + k]
      BY ONLY <1>2, j \in 1..(index - k)
    <3>3. i \in Nat /\ j \in Nat /\ k \in Nat
      BY <1>1
    <3>4. i + k < j + k
      BY ONLY <3>3, i < j
    <3>5. stack[i + k].id < stack[j + k].id
      BY <3>1, <3>2, <3>4, HistFacts
    <3> QED BY ONLY <3>1, <3>2, <3>5
  <2>5. \A j \in 1..index' : history'[1].command < stack'[j].id /\ stack'[j].id <= pushed'
    BY <1>1, <1>4, <1>6, <2>1, <2>2, <2>3, SMTT(30)
  <2>6. \A i, j \in 1..index' : i < j => stack'[i].id < stack'[j].id
    <3> SUFFICES ASSUME NEW i \in 1..index', NEW j \in 1..index', i < j
                 PROVE  stack'[i].id < stack'[j].id
      OBVIOUS
    <3>1. i \in 1..(index - k)
      BY <1>1
    <3>2. CASE j = index'
      BY <1>1, <2>1, <2>2, <3>1, <3>2
    <3>3. CASE j \in 1..(index - k)
      BY <2>4, <3>1, <3>3
    <3> QED BY <1>4, <3>2, <3>3
  <2>7. history'[1].command <= pushed'
    BY <1>1, <1>6
  <2> QED BY <1>1, <2>5, <2>6, <2>7 DEF IdsGrow
<1>9. MergesAreRecorded'
  <2>1. \A j \in 1..(index - k) :
          ~stack'[j].native => /\ stack'[j].undo = history'[j].metadata
                               /\ stack'[j].redo = history'[j + 1].metadata
    BY <1>2, HistFacts, SMTT(30)
  <2>2. ~stack'[index'].native => /\ stack'[index'].undo = history'[index'].metadata
                                  /\ stack'[index'].redo = history'[index' + 1].metadata
    BY <1>3
  <2> QED BY <1>1, <1>4, <2>1, <2>2 DEF MergesAreRecorded
<1> QED BY <1>7, <1>8, <1>9 DEF HistInv

\* The command that typing is merged into, and the states after it are forgotten.
Amended(t, m) ==
  /\ stack' \in Seq(Command) /\ Len(stack') = index /\ index' = index /\ lastIndex' = index
  /\ \A j \in 1..(index - 1) : stack'[j] = stack[j]
  /\ stack'[index] = [stack[index] EXCEPT !.after = t]
  /\ history' \in Seq(HEntry) /\ Len(history') = index + 1
  /\ \A j \in 1..index : history'[j] = history[j]
  /\ history'[index + 1] = [metadata |-> m, text |-> t, command |-> stack[index].id]
  /\ text' = t /\ current' = m

LEMMA TypeMoreAmends ==
  ASSUME TypeOK, HistInv, NEW t \in Text, t # text, NEW m \in Metadata,
         index > 0, stack[index].native,
         UndoIndexChanged(SubSeq(stack, 1, index - 1) \o <<[stack[index] EXCEPT !.after = t]>>,
                          index, t, m, FALSE)
  PROVE  Amended(t, m)
<1> DEFINE command == [stack[index] EXCEPT !.after = t]
           first == SubSeq(stack, 1, index - 1)
           s == first \o <<command>>
           e == [metadata |-> m, text |-> t, command |-> stack[index].id]
           kept == SubSeq(history, 1, index)
<1>1. /\ index \in 1..Len(stack) /\ Len(stack) \in Nat /\ stack[index] \in Command
      /\ stack \in Seq(Command) /\ history \in Seq(HEntry) /\ Len(history) = Len(stack) + 1
      /\ lastIndex = index /\ stack[index].id \in Nat
  BY HistFacts
<1>2. command \in Command /\ command.id = stack[index].id
  BY <1>1 DEF Command
<1>3. e \in HEntry
  BY <1>1 DEF HEntry
<1>4. /\ first \in Seq(Command) /\ Len(first) = index - 1
      /\ \A j \in 1..(index - 1) : first[j] = stack[j]
  BY <1>1
<1>5. /\ kept \in Seq(HEntry) /\ Len(kept) = index
      /\ \A j \in 1..index : kept[j] = history[j]
  BY <1>1
<1> HIDE DEF command, first, kept, e
<1>6. /\ s \in Seq(Command) /\ Len(s) = index /\ s[index] = command
      /\ \A j \in 1..(index - 1) : s[j] = stack[j]
  <2>1. s = Append(first, command)
    BY <1>2, <1>4, AppendIsConcat
  <2>2. Append(first, command) \in Seq(Command) /\ Len(Append(first, command)) = index
    BY <1>1, <1>2, <1>4
  <2>3. Append(first, command)[index] = command
    BY <1>1, <1>2, <1>4
  <2>4. \A j \in 1..(index - 1) : Append(first, command)[j] = stack[j]
    BY <1>1, <1>2, <1>4
  <2> QED BY <2>1, <2>2, <2>3, <2>4
<1>7. UndoIndexChanged(s, index, t, m, FALSE)
  BY DEF s, first, command
<1> HIDE DEF s
<1>8. Rebased(history, s) = history
  <2>1. s # <<>> /\ s[1].id = stack[1].id
    BY <1>1, <1>2, <1>6
  <2>2. Len(history) >= 2 /\ history[1 + 1].command = stack[1].id
    <3>1. 1 \in 1..Len(stack)
      BY <1>1
    <3> QED BY <1>1, <3>1, HistFacts
  <2> QED BY <1>1, <1>6, <2>1, <2>2, RebasedSame
<1>9. ~Matches(history, s, index, t)
  BY HistFacts DEF Matches
<1>10. /\ history' = Append(kept, Entry(s, index, t, m))
       /\ current' = m /\ stack' = s /\ index' = index /\ lastIndex' = index /\ text' = t
  <2>1. index \in Nat /\ index <= Len(history) /\ index >= lastIndex
    BY <1>1
  <2> QED BY <1>1, <1>7, <1>8, <1>9, <2>1, RecordedNew DEF kept
<1>11. Entry(s, index, t, m) = e
  BY <1>1, <1>2, <1>6 DEF Entry, CommandAt, e
<1>12. /\ Append(kept, e) \in Seq(HEntry) /\ Len(Append(kept, e)) = index + 1
       /\ Append(kept, e)[index + 1] = e
       /\ \A j \in 1..index : Append(kept, e)[j] = history[j]
  BY <1>1, <1>3, <1>5
<1> QED BY <1>6, <1>10, <1>11, <1>12 DEF Amended, command, e

LEMMA AmendKeepsHist ==
  ASSUME TypeOK, HistInv, NEW t \in Text, NEW m \in Metadata,
         index > 0, stack[index].native, Amended(t, m), pushed' = pushed + 1
  PROVE  HistInv'
<1>1. /\ index \in 1..Len(stack) /\ Len(stack) \in Nat /\ DOMAIN stack' = 1..index
      /\ stack[index] \in Command /\ stack[index].id \in Nat /\ pushed \in Nat
      /\ Len(stack') = index' /\ Len(history') = index' + 1 /\ lastIndex' = index'
      /\ index' = index
  BY HistFacts DEF Amended
<1>2. \A j \in 1..(index - 1) :
        /\ j \in 1..Len(stack) /\ stack'[j] = stack[j]
        /\ history'[j] = history[j] /\ history'[j + 1] = history[j + 1]
  <2> SUFFICES ASSUME NEW j \in 1..(index - 1)
               PROVE  /\ j \in 1..Len(stack) /\ stack'[j] = stack[j]
                      /\ history'[j] = history[j] /\ history'[j + 1] = history[j + 1]
    OBVIOUS
  <2>1. j \in 1..Len(stack) /\ j \in 1..index /\ j + 1 \in 1..index
    BY <1>1
  <2> QED BY <2>1 DEF Amended
<1>3. /\ stack'[index].id = stack[index].id /\ stack'[index].before = stack[index].before
      /\ stack'[index].after = t /\ stack'[index].native
      /\ history'[index] = history[index]
      /\ history'[index + 1] = [metadata |-> m, text |-> t, command |-> stack[index].id]
  <2>1. index \in 1..index
    BY <1>1
  <2> QED BY <1>1, <2>1 DEF Amended, Command
<1>4. \A j \in 1..index : j \in 1..(index - 1) \/ j = index
  BY <1>1
<1>5. history'[1] = history[1]
  BY <1>1 DEF Amended
<1>6. \A j \in 1..index : j \in 1..Len(stack) /\ stack'[j].id = stack[j].id
  BY <1>1, <1>2, <1>3, <1>4
<1>7. HistoryFollowsStack'
  <2>1. \A j \in 1..index :
          /\ history'[j + 1].command = stack'[j].id
          /\ history'[j].text = stack'[j].before /\ history'[j + 1].text = stack'[j].after
    <3>1. \A j \in 1..(index - 1) :
            /\ history'[j + 1].command = stack'[j].id
            /\ history'[j].text = stack'[j].before /\ history'[j + 1].text = stack'[j].after
      BY <1>2, HistFacts, SMTT(30)
    <3>2. /\ history'[index + 1].command = stack'[index].id
          /\ history'[index].text = stack'[index].before
          /\ history'[index + 1].text = stack'[index].after
      BY <1>1, <1>3, HistFacts
    <3> QED BY <1>4, <3>1, <3>2
  <2>2. history'[index' + 1].text = text' /\ history'[index' + 1].metadata = current'
    BY <1>1, <1>3 DEF Amended
  <2> QED BY <1>1, <2>1, <2>2 DEF HistoryFollowsStack
<1>8. IdsGrow'
  <2>1. \A j \in 1..index : history'[1].command < stack'[j].id /\ stack'[j].id <= pushed'
    <3>1. \A j \in 1..index :
            history[1].command < stack[j].id /\ stack[j].id <= pushed /\ stack[j].id \in Nat
      BY <1>6, HistFacts
    <3> QED BY <1>1, <1>5, <1>6, <3>1
  <2>2. \A i, j \in 1..index : i < j => stack'[i].id < stack'[j].id
    BY <1>6, HistFacts
  <2>3. history'[1].command <= pushed'
    BY <1>1, <1>5, HistFacts
  <2> QED BY <1>1, <2>1, <2>2, <2>3 DEF IdsGrow
<1>9. MergesAreRecorded'
  BY <1>1, <1>2, <1>3, <1>4, HistFacts DEF MergesAreRecorded
<1> QED BY <1>7, <1>8, <1>9 DEF HistInv

\* Undo: e is the entry of the state that is restored.  It is recorded anew only for
\* the oldest state, when a command before it was forgotten.
Undone(e, m) ==
  /\ stack' = stack /\ index' = index - 1 /\ lastIndex' = index'
  /\ text' = stack[index].before /\ current' = e.metadata
  /\ e \in HEntry /\ e.text = history[index].text
  /\ index = 1 => e.command \in {0, history[1].command}
  /\ index > 1 => e.command = history[index].command
  /\ \/ e.metadata = history[index].metadata
     \/ index = 1 /\ stack[1].native /\ history[1].command # 0 /\ e.metadata = m
  /\ history' = [history EXCEPT ![index] = e]

LEMMA StackUnmoved ==
  ASSUME TypeOK, HistInv
  PROVE  Rebased(history, stack) = history
<1>1. /\ stack \in Seq(Command) /\ history \in Seq(HEntry) /\ Len(history) = Len(stack) + 1
      /\ Len(stack) \in Nat
  BY HistFacts
<1>2. stack # <<>> => Len(history) >= 2 /\ history[2].command = stack[1].id
  <2> SUFFICES ASSUME stack # <<>>
               PROVE  Len(history) >= 2 /\ history[2].command = stack[1].id
    OBVIOUS
  <2>1. 1 \in 1..Len(stack)
    BY <1>1
  <2>2. history[1 + 1].command = stack[1].id
    BY <2>1, HistFacts
  <2> QED BY <1>1, <2>1, <2>2
<1> QED BY <1>1, <1>2, RebasedSame

LEMMA UndoUndoes ==
  ASSUME TypeOK, HistInv, index > 0, NEW m \in Metadata, NEW forced \in BOOLEAN,
         forced = ~stack[index].native, forced => m = stack[index].undo,
         UndoIndexChanged(stack, index - 1, stack[index].before, m, forced)
  PROVE  \E e \in HEntry : Undone(e, m)
<1> DEFINE t == stack[index].before
           e == Entry(stack, index - 1, t, m)
           known == Matches(history, stack, index - 1, t)
<1>1. /\ index \in 1..Len(stack) /\ Len(stack) \in Nat /\ history \in Seq(HEntry)
      /\ Len(history) = Len(stack) + 1 /\ lastIndex = index /\ DOMAIN history = 1..Len(history)
      /\ history[index] \in HEntry /\ t \in Text /\ history[index].text = t
  <2>1. index \in 1..Len(stack) /\ index \in 1..(Len(stack) + 1)
    BY HistFacts
  <2> QED BY <2>1, HistFacts
<1>2. Rebased(history, stack) = history
  BY StackUnmoved
<1>3. ~(index - 1 >= lastIndex) /\ index - 1 < Len(history)
  BY <1>1
<1>4. /\ stack' = stack /\ index' = index - 1 /\ lastIndex' = index - 1 /\ text' = t
      /\ current' = IF known /\ ~forced THEN history[(index - 1) + 1].metadata ELSE m
      /\ history' = IF known /\ ~forced THEN history
                     ELSE [history EXCEPT ![(index - 1) + 1] = e]
  BY <1>2, <1>3 DEF UndoIndexChanged
<1>5. index > 1 => CommandAt(stack, index - 1) = history[index].command
  <2> SUFFICES ASSUME index > 1 PROVE CommandAt(stack, index - 1) = history[index].command
    OBVIOUS
  <2>1. index - 1 \in 1..Len(stack) /\ (index - 1) + 1 = index /\ index - 1 # 0
    BY <1>1
  <2>2. history[(index - 1) + 1].command = stack[index - 1].id
    BY <2>1, HistFacts
  <2> QED BY <2>1, <2>2 DEF CommandAt
<1>6. index = 1 => CommandAt(stack, index - 1) = 0
  BY DEF CommandAt
<1>7. CommandAt(stack, index - 1) \in Nat
  <2>1. history[index].command \in Nat
    BY <1>1 DEF HEntry
  <2>2. index = 1 \/ index > 1
    BY <1>1
  <2> QED BY <1>5, <1>6, <2>1, <2>2
<1>8. (index - 1) + 1 = index
  BY <1>1
<1>9. CASE known /\ ~forced
  <2>1. history' = history /\ current' = history[index].metadata
    BY <1>4, <1>8, <1>9
  <2>2. [history EXCEPT ![index] = history[index]] = history
    BY <1>1
  <2>3. Undone(history[index], m)
    BY <1>1, <1>4, <1>8, <2>1, <2>2 DEF Undone
  <2> QED BY <1>1, <2>3
<1>10. CASE ~(known /\ ~forced)
  <2>1. e \in HEntry /\ e.metadata = m /\ e.text = t /\ e.command = CommandAt(stack, index - 1)
    BY <1>1, <1>7 DEF Entry, HEntry
  <2>2. history' = [history EXCEPT ![index] = e] /\ current' = m
    BY <1>4, <1>8, <1>10
  <2>3. \/ m = history[index].metadata
        \/ index = 1 /\ stack[1].native /\ history[1].command # 0
    <3>1. CASE forced
      BY <1>1, <3>1, HistFacts
    <3>2. CASE ~forced
      <4>1. ~known
        BY <1>10, <3>2
      <4>2. history[index].command # CommandAt(stack, index - 1)
        BY <1>1, <1>3, <1>8, <4>1 DEF Matches
      <4>3. index = 1
        BY <1>1, <1>5, <4>2
      <4> QED BY <1>6, <3>2, <4>2, <4>3
    <3> QED BY <3>1, <3>2
  <2> HIDE DEF e
  <2>4. Undone(e, m)
    BY <1>1, <1>4, <1>5, <1>6, <2>1, <2>2, <2>3 DEF Undone
  <2> QED BY <2>1, <2>4
<1> QED BY <1>9, <1>10

LEMMA UndoKeepsHist ==
  ASSUME TypeOK, HistInv, index > 0, NEW m, NEW e \in HEntry, Undone(e, m), pushed' = pushed
  PROVE  HistInv'
<1>1. /\ index \in 1..Len(stack) /\ Len(stack) \in Nat /\ history \in Seq(HEntry)
      /\ Len(history) = Len(stack) + 1 /\ DOMAIN history = 1..(Len(stack) + 1)
      /\ DOMAIN stack = 1..Len(stack) /\ stack' = stack
  BY HistFacts DEF Undone
<1>2. /\ DOMAIN history' = 1..(Len(stack) + 1) /\ Len(history') = Len(stack) + 1
      /\ history'[index] = e
      /\ \A j \in 1..(Len(stack) + 1) : j # index => history'[j] = history[j]
  <2>1. history' \in Seq(HEntry) /\ Len(history') = Len(history)
    BY <1>1, ExceptSeq DEF Undone
  <2> QED BY <1>1, <2>1 DEF Undone
<1>3. \A j \in 1..(Len(stack) + 1) : history'[j].text = history[j].text
  BY <1>1, <1>2 DEF Undone
<1>4. \A j \in 2..(Len(stack) + 1) : history'[j].command = history[j].command
  BY <1>1, <1>2 DEF Undone
<1>5. history'[1].command \in {0, history[1].command}
  BY <1>1, <1>2 DEF Undone
<1>6. \A j \in 1..(Len(stack) + 1) :
        \/ history'[j].metadata = history[j].metadata
        \/ j = 1 /\ stack[1].native
  BY <1>1, <1>2 DEF Undone
<1>7. \A j \in 1..Len(stack) :
        /\ j \in 1..(Len(stack) + 1) /\ j + 1 \in 1..(Len(stack) + 1)
        /\ j + 1 \in 2..(Len(stack) + 1) /\ j + 1 # 1
  BY <1>1
<1>8. HistoryFollowsStack'
  <2>1. /\ index' = index - 1 /\ lastIndex' = index' /\ index' + 1 = index
        /\ text' = stack[index].before /\ current' = e.metadata
        /\ e.text = history[index].text /\ history[index].text = stack[index].before
    BY <1>1, HistFacts DEF Undone
  <2>2. \A j \in 1..Len(stack) :
          /\ history'[j + 1].command = stack[j].id
          /\ history'[j].text = stack[j].before /\ history'[j + 1].text = stack[j].after
    BY <1>3, <1>4, <1>7, HistFacts
  <2> QED BY <1>1, <1>2, <2>1, <2>2 DEF HistoryFollowsStack
<1>9. IdsGrow'
  <2>1. \A j \in 1..Len(stack) : history'[1].command < stack[j].id
    <3> SUFFICES ASSUME NEW j \in 1..Len(stack) PROVE history'[1].command < stack[j].id
      OBVIOUS
    <3>1. 0 < stack[j].id /\ history[1].command < stack[j].id
      BY HistFacts
    <3> QED BY <1>5, <3>1
  <2>2. history'[1].command <= pushed
    BY <1>5, HistFacts
  <2> QED BY <1>1, <2>1, <2>2, HistFacts DEF IdsGrow, Undone
<1>10. MergesAreRecorded'
  <2>1. \A j \in 1..Len(stack) :
          ~stack[j].native => /\ stack[j].undo = history'[j].metadata
                              /\ stack[j].redo = history'[j + 1].metadata
    BY <1>6, <1>7, HistFacts
  <2> QED BY <1>1, <2>1 DEF MergesAreRecorded
<1> QED BY <1>8, <1>9, <1>10 DEF HistInv

\* Redo restores the recorded state after the command.
Redone ==
  /\ stack' = stack /\ history' = history /\ index' = index + 1 /\ lastIndex' = index'
  /\ text' = stack[index + 1].after /\ current' = history[index + 2].metadata

LEMMA RedoRedoes ==
  ASSUME TypeOK, HistInv, index < Len(stack), NEW m \in Metadata, NEW forced \in BOOLEAN,
         forced = ~stack[index + 1].native, forced => m = stack[index + 1].redo,
         UndoIndexChanged(stack, index + 1, stack[index + 1].after, m, forced)
  PROVE  Redone
<1> DEFINE t == stack[index + 1].after
           e == Entry(stack, index + 1, t, m)
<1>1. /\ index + 1 \in 1..Len(stack) /\ Len(stack) \in Nat /\ history \in Seq(HEntry)
      /\ Len(history) = Len(stack) + 1 /\ lastIndex = index /\ DOMAIN history = 1..Len(history)
      /\ index \in Nat
  BY HistFacts
<1>2. /\ (index + 1) + 1 = index + 2 /\ index + 2 \in 1..(Len(stack) + 1) /\ index + 1 # 0
      /\ index + 1 < Len(history)
  BY <1>1
<1>3. /\ history[index + 2] \in HEntry /\ history[index + 2].text = t
      /\ history[index + 2].command = stack[index + 1].id
      /\ ~stack[index + 1].native => stack[index + 1].redo = history[index + 2].metadata
  BY <1>1, <1>2, HistFacts
<1>4. Rebased(history, stack) = history
  BY StackUnmoved
<1>5. Matches(history, stack, index + 1, t)
  BY <1>1, <1>2, <1>3 DEF Matches, CommandAt
<1>6. /\ stack' = stack /\ index' = index + 1 /\ lastIndex' = index + 1 /\ text' = t
      /\ current' = IF ~forced THEN history[(index + 1) + 1].metadata ELSE m
      /\ history' = IF ~forced THEN history ELSE [history EXCEPT ![(index + 1) + 1] = e]
  BY <1>2, <1>4, <1>5 DEF UndoIndexChanged
<1>7. CASE ~forced
  BY <1>2, <1>6, <1>7 DEF Redone
<1>8. CASE forced
  <2>1. e = history[index + 2]
    <3>1. /\ e = [metadata |-> m, text |-> t, command |-> stack[index + 1].id]
          /\ m = history[index + 2].metadata
      BY <1>2, <1>3, <1>8 DEF Entry, CommandAt
    <3> QED BY <1>3, <3>1 DEF HEntry
  <2>2. [history EXCEPT ![index + 2] = history[index + 2]] = history
    BY <1>1, <1>2
  <2>3. current' = history[index + 2].metadata
    BY <1>3, <1>6, <1>8
  <2>4. history' = [history EXCEPT ![index + 2] = e]
    BY <1>2, <1>6, <1>8
  <2> HIDE DEF e
  <2> QED BY <1>6, <2>1, <2>2, <2>3, <2>4 DEF Redone
<1> QED BY <1>7, <1>8

LEMMA RedoKeepsHist ==
  ASSUME TypeOK, HistInv, index < Len(stack), Redone, pushed' = pushed
  PROVE  HistInv'
<1>1. /\ index + 1 \in 1..Len(stack) /\ (index + 1) + 1 = index + 2
  BY HistFacts
<1>2. /\ history[index + 2].text = stack[index + 1].after
  BY <1>1, HistFacts
<1>3. HistoryFollowsStack'
  BY <1>1, <1>2 DEF Redone, HistInv, HistoryFollowsStack
<1>4. IdsGrow' /\ MergesAreRecorded'
  BY DEF Redone, HistInv, IdsGrow, MergesAreRecorded
<1> QED BY <1>3, <1>4 DEF HistInv

-----------------------------------------------------------------------------
(* Places and states of the conflicts.                                     *)

\* A conflict without a place asks for a review.
Reviewed(m) == \A c \in Conflict : m.conflicts[c].mapped \/ m.conflicts[c].state = "NeedsReview"

Apart(c, d) == End(c) <= d.start \/ End(d) <= c.start
\* The conflicts lie in the text, one after the other.
Placed(t, m) ==
  /\ \A c \in Conflict : m.conflicts[c].mapped => ValidRange(t, m.conflicts[c])
  /\ \A c, d \in Conflict :
       c # d /\ m.conflicts[c].mapped /\ m.conflicts[d].mapped => Apart(m.conflicts[c], m.conflicts[d])

\* A conflict that keeps its place was behind the edit, around it or before it.
LEMMA MovedCases ==
  ASSUME NEW c \in ConflictState, NEW prefix \in Nat, NEW end \in Nat, NEW inserted \in Nat,
         prefix <= end, Moved(c, prefix, end, inserted).mapped
  PROVE  LET d == Moved(c, prefix, end, inserted)
         IN /\ c.mapped
            /\ c.start \in Int /\ End(c) \in Int /\ c.start <= End(c)
            /\ \/ /\ end <= c.start /\ d.start = c.start + inserted - (end - prefix)
                  /\ End(d) = End(c) + inserted - (end - prefix) /\ d.state = c.state
               \/ /\ c.start <= prefix /\ end < End(c) /\ c.start < end /\ d.start = c.start
                  /\ End(d) = End(c) + inserted - (end - prefix) /\ d.state = "NeedsReview"
               \/ c.start < end /\ End(c) <= prefix /\ d = c
<1>1. /\ c.start \in Nat /\ c.length \in Nat /\ End(c) = c.start + c.length
      /\ c = [start |-> c.start, length |-> c.length, mapped |-> c.mapped, state |-> c.state]
  BY DEF ConflictState, End
<1>2. CASE Precedes(c, end)
  <2>1. Moved(c, prefix, end, inserted) = [c EXCEPT !.start = @ + inserted - (end - prefix)]
    BY <1>2 DEF Moved
  <2> QED BY <1>1, <1>2, <2>1 DEF Precedes, End, ConflictState
<1>3. CASE ~Precedes(c, end) /\ Touches(c, prefix, end)
  <2>1. Moved(c, prefix, end, inserted)
          = Touched(c, prefix, end, inserted, Inside(c, prefix, end), "NeedsReview")
    BY <1>3 DEF Moved
  <2>2. Inside(c, prefix, end)
    BY <2>1 DEF Touched
  <2>3. Smaller(c.start, prefix) = c.start
    BY <1>1, <2>2 DEF Inside, Smaller
  <2>4. Touched(c, prefix, end, inserted, Inside(c, prefix, end), "NeedsReview")
          = [start |-> c.start, length |-> End(c) - end + prefix + inserted - c.start,
             mapped |-> Inside(c, prefix, end), state |-> "NeedsReview"]
    BY <1>1, <2>2, <2>3 DEF Touched, Inside
  <2> QED BY <1>1, <1>3, <2>1, <2>2, <2>4 DEF Touches, Inside, End
<1>4. CASE ~Precedes(c, end) /\ ~Touches(c, prefix, end)
  <2>1. Moved(c, prefix, end, inserted) = c
    BY <1>4 DEF Moved
  <2> QED BY <1>1, <1>4, <2>1 DEF Precedes, Touches
<1> QED BY <1>2, <1>3, <1>4

LEMMA MovedApart ==
  ASSUME NEW c \in ConflictState, NEW d \in ConflictState,
         NEW prefix \in Nat, NEW end \in Nat, NEW inserted \in Nat, prefix <= end,
         Moved(c, prefix, end, inserted).mapped, Moved(d, prefix, end, inserted).mapped,
         c.mapped /\ d.mapped => Apart(c, d)
  PROVE  Apart(Moved(c, prefix, end, inserted), Moved(d, prefix, end, inserted))
<1> DEFINE x == Moved(c, prefix, end, inserted)
           y == Moved(d, prefix, end, inserted)
<1>1. /\ c.mapped /\ c.start \in Int /\ End(c) \in Int /\ c.start <= End(c)
      /\ \/ /\ end <= c.start /\ x.start = c.start + inserted - (end - prefix)
            /\ End(x) = End(c) + inserted - (end - prefix)
         \/ /\ c.start <= prefix /\ end < End(c) /\ c.start < end /\ x.start = c.start
            /\ End(x) = End(c) + inserted - (end - prefix)
         \/ /\ c.start < end /\ End(c) <= prefix /\ x.start = c.start /\ End(x) = End(c)
  BY MovedCases
<1>2. /\ d.mapped /\ d.start \in Int /\ End(d) \in Int /\ d.start <= End(d)
      /\ \/ /\ end <= d.start /\ y.start = d.start + inserted - (end - prefix)
            /\ End(y) = End(d) + inserted - (end - prefix)
         \/ /\ d.start <= prefix /\ end < End(d) /\ d.start < end /\ y.start = d.start
            /\ End(y) = End(d) + inserted - (end - prefix)
         \/ /\ d.start < end /\ End(d) <= prefix /\ y.start = d.start /\ End(y) = End(d)
  BY MovedCases
<1>3. End(c) <= d.start \/ End(d) <= c.start
  BY <1>1, <1>2 DEF Apart
<1> HIDE DEF x, y
<1>4. End(x) <= y.start \/ End(y) <= x.start
  BY <1>1, <1>2, <1>3
<1> QED BY <1>4 DEF Apart, x, y

LEMMA MovedInText ==
  ASSUME NEW c \in ConflictState, NEW length \in Nat,
         NEW prefix \in Nat, NEW end \in Nat, NEW inserted \in Nat, prefix <= end,
         end <= length, c.mapped => End(c) <= length, Moved(c, prefix, end, inserted).mapped
  PROVE  End(Moved(c, prefix, end, inserted)) <= length + inserted - (end - prefix)
BY DEF Moved, ConflictState, State, Precedes, Touches, Inside, Touched, End, Smaller

LEMMA MovedReviewed ==
  ASSUME NEW c \in ConflictState, NEW prefix, NEW end, NEW inserted,
         c.mapped \/ c.state = "NeedsReview"
  PROVE  LET d == Moved(c, prefix, end, inserted) IN d.mapped \/ d.state = "NeedsReview"
BY DEF Moved, ConflictState, State, Precedes, Touches, Inside, Touched, End

LEMMA DocumentEditedPlaced ==
  ASSUME NEW s \in Seq(STRING), NEW t \in Seq(STRING), NEW m \in Metadata
  PROVE  /\ Placed(s, m) => Placed(t, DocumentEdited(m, s, t))
         /\ Reviewed(m) => Reviewed(DocumentEdited(m, s, t))
<1> DEFINE prefix == CommonPrefix(s, t)
           suffix == CommonSuffix(s, t, prefix)
           end == Len(s) - suffix
           inserted == Len(t) - suffix - prefix
           new == [c \in Conflict |-> Moved(m.conflicts[c], prefix, end, inserted)]
<1>1. /\ prefix \in Nat /\ prefix <= Smaller(Len(s), Len(t))
  BY CommonPrefixIs
<1>2. /\ suffix \in Nat /\ prefix + suffix <= Len(s) /\ prefix + suffix <= Len(t)
  BY <1>1, CommonSuffixIs
<1>3. DocumentEdited(m, s, t).conflicts = new
  BY DEF DocumentEdited
<1>4. Len(s) \in Nat /\ Len(t) \in Nat
  OBVIOUS
<1> HIDE DEF prefix, suffix
<1>5. /\ end \in Nat /\ prefix <= end /\ end <= Len(s) /\ inserted \in Nat
      /\ Len(s) + inserted - (end - prefix) = Len(t)
  BY <1>1, <1>2, <1>4
<1>6. \A c \in Conflict : /\ m.conflicts[c] \in ConflictState
                          /\ new[c] = Moved(m.conflicts[c], prefix, end, inserted)
  BY DEF Metadata
<1> HIDE DEF end, inserted, new
<1>7. ASSUME Placed(s, m), NEW c \in Conflict, new[c].mapped
      PROVE  ValidRange(t, new[c])
  <2>1. m.conflicts[c].mapped => End(m.conflicts[c]) <= Len(s)
    BY <1>7 DEF Placed, ValidRange
  <2>2. End(new[c]) <= Len(s) + inserted - (end - prefix)
    BY <1>1, <1>4, <1>5, <1>6, <1>7, <2>1, MovedInText
  <2> QED BY <1>5, <2>2 DEF ValidRange
<1>8. ASSUME Placed(s, m), NEW c \in Conflict, NEW d \in Conflict, c # d,
             new[c].mapped, new[d].mapped
      PROVE  Apart(new[c], new[d])
  <2>1. m.conflicts[c].mapped /\ m.conflicts[d].mapped => Apart(m.conflicts[c], m.conflicts[d])
    BY <1>8 DEF Placed
  <2> QED BY <1>1, <1>5, <1>6, <1>8, <2>1, MovedApart
<1>9. ASSUME Reviewed(m), NEW c \in Conflict
      PROVE  new[c].mapped \/ new[c].state = "NeedsReview"
  BY <1>6, <1>9, MovedReviewed DEF Reviewed
<1> QED BY <1>3, <1>7, <1>8, <1>9 DEF Placed, Reviewed

LEMMA SignalledPlaced ==
  ASSUME NEW s \in Seq(STRING), NEW t \in Seq(STRING), NEW m, Fits(s, m),
         NEW n \in Signalled(m, s, t)
  PROVE  (Placed(s, m) => Placed(t, n)) /\ (Reviewed(m) => Reviewed(n))
<1> DEFINE prefix == CommonPrefix(s, t)
           suffix == CommonSuffix(s, t, prefix)
           kept == Mid(s, 0, prefix) \o Mid(s, Len(s) - suffix, Len(s))
<1>1. kept \in Seq(STRING)
  BY KeptType
<1>2. n \in {DocumentEdited(m, s, t), DocumentEdited(DocumentEdited(m, s, kept), kept, t)}
  BY DEF Signalled
<1> HIDE DEF kept
<1>3. m \in Metadata /\ DocumentEdited(m, s, kept) \in Metadata
  BY <1>1, DocumentEditedFits DEF Fits
<1>4. (Placed(s, m) => Placed(t, DocumentEdited(m, s, t)))
       /\ (Reviewed(m) => Reviewed(DocumentEdited(m, s, t)))
  BY <1>3, DocumentEditedPlaced
<1>5. (Placed(s, m) => Placed(kept, DocumentEdited(m, s, kept)))
       /\ (Reviewed(m) => Reviewed(DocumentEdited(m, s, kept)))
  BY <1>1, <1>3, DocumentEditedPlaced
<1>6. /\ Placed(kept, DocumentEdited(m, s, kept))
           => Placed(t, DocumentEdited(DocumentEdited(m, s, kept), kept, t))
      /\ Reviewed(DocumentEdited(m, s, kept))
           => Reviewed(DocumentEdited(DocumentEdited(m, s, kept), kept, t))
  BY <1>1, <1>3, DocumentEditedPlaced
<1> QED BY <1>2, <1>4, <1>5, <1>6

\* What the editor keeps true of a text and its metadata, the last two if the session
\* had them: one imported from conflict markers does, a host may build another.
SessionAsksForReview == Reviewed(InitialMetadata)
SessionIsPlaced == Placed(InitialText, InitialMetadata)

Good(t, m) ==
  /\ Fits(t, m)
  /\ SessionAsksForReview => Reviewed(m)
  /\ SessionIsPlaced /\ user = "typist" => Placed(t, m)

GoodInv ==
  /\ \A i \in DOMAIN history : Good(history[i].text, history[i].metadata)
  /\ captured # None => Good(captured.text, captured.metadata)

Inv == TypeOK /\ HistInv /\ GoodInv

ReplacedText(c, fragment) ==
  Mid(text, 0, current.conflicts[c].start) \o fragment.text \o
    Mid(text, End(current.conflicts[c]), Len(text))

LEMMA CurrentIsGood ==
  ASSUME Inv
  PROVE  /\ Good(text, current) /\ text \in Text /\ text \in Seq(STRING) /\ current \in Metadata
         /\ \A i \in 1..(Len(stack) + 1) : Good(history[i].text, history[i].metadata)
<1>1. /\ index \in 0..Len(stack) /\ DOMAIN history = 1..(Len(stack) + 1) /\ Len(stack) \in Nat
      /\ history[index + 1].text = text /\ history[index + 1].metadata = current
  BY HistFacts DEF Inv
<1>2. index + 1 \in DOMAIN history
  BY <1>1
<1>3. Good(text, current)
  BY <1>1, <1>2 DEF Inv, GoodInv
<1> QED BY <1>1, <1>3, ConstantsAssumption DEF Inv, GoodInv, TypeOK

LEMMA ReplacedLength ==
  ASSUME Inv, NEW c \in Conflict, NEW f \in Seq(STRING), ValidRange(text, current.conflicts[c])
  PROVE  LET old == current.conflicts[c]
             u == Mid(text, 0, old.start) \o f \o Mid(text, End(old), Len(text))
         IN /\ u \in Seq(STRING) /\ Len(u) = Len(text) - old.length + Len(f)
            /\ Mid(text, 0, old.start) \in Seq(STRING) /\ Len(Mid(text, 0, old.start)) = old.start
            /\ Mid(text, End(old), Len(text)) \in Seq(STRING)
            /\ Len(Mid(text, End(old), Len(text))) = Len(text) - End(old)
<1> DEFINE old == current.conflicts[c]
           x == Mid(text, 0, old.start)
           z == Mid(text, End(old), Len(text))
<1>1. text \in Seq(STRING) /\ Len(text) \in Nat /\ old \in ConflictState
  BY CurrentIsGood DEF Metadata
<1>2. /\ old.start \in Nat /\ old.length \in Nat /\ End(old) = old.start + old.length
      /\ End(old) \in Nat /\ End(old) <= Len(text) /\ old.start <= Len(text)
      /\ 0 \in Nat /\ 0 <= old.start /\ Len(text) <= Len(text)
  BY <1>1 DEF ConflictState, End, ValidRange
<1>3. x \in Seq(STRING) /\ Len(x) = old.start
  <2>1. x \in Seq(STRING) /\ Len(x) = old.start - 0
    BY <1>1, <1>2, MidType, ZenonT(30)
  <2> QED BY <1>2, <2>1
<1>4. z \in Seq(STRING) /\ Len(z) = Len(text) - End(old)
  BY <1>1, <1>2, MidType, ZenonT(30)
<1>5. (x \o f) \o z \in Seq(STRING) /\ Len((x \o f) \o z) = Len(x) + Len(f) + Len(z)
  <2> x \in Seq(STRING) /\ f \in Seq(STRING) /\ z \in Seq(STRING)
    BY <1>3, <1>4
  <2> HIDE DEF x, z
  <2> QED BY ConcatThree
<1>6. Len(f) \in Nat
  OBVIOUS
<1> HIDE DEF old, x, z
<1>7. old.start + Len(f) + (Len(text) - End(old)) = Len(text) - old.length + Len(f)
  BY <1>1, <1>2, <1>6
<1> QED BY <1>3, <1>4, <1>5, <1>7 DEF x, z, old

LEMMA ReplacedPlaced ==
  ASSUME Inv, NEW c \in Conflict, NEW fragment \in Fragment[c], NEW state \in State,
         Replaceable(c)
  PROVE  LET t == ReplacedText(c, fragment)
             m == Replaced(c, fragment, state)
         IN /\ t \in Seq(STRING) /\ m \in Metadata
            /\ Placed(text, current) => Placed(t, m)
            /\ Reviewed(current) => Reviewed(m)
<1> DEFINE old == current.conflicts[c]
           t == ReplacedText(c, fragment)
           m == Replaced(c, fragment, state)
           n == Len(fragment.text)
           delta == n - old.length
<1>1. /\ text \in Seq(STRING) /\ Len(text) \in Nat /\ current \in Metadata
      /\ \A d \in Conflict : current.conflicts[d] \in ConflictState
      /\ current.endings \in Seq(Ending) /\ Len(current.endings) = Newlines(text)
  BY CurrentIsGood DEF Metadata, Good, Fits
<1>2. /\ old.start \in Nat /\ old.length \in Nat /\ End(old) = old.start + old.length
      /\ End(old) \in Nat /\ End(old) <= Len(text) /\ old.start <= End(old) /\ old.mapped
      /\ ValidRange(text, old)
  BY <1>1 DEF ConflictState, End, ValidRange, Replaceable
<1>3. fragment.text \in Seq(STRING) /\ n \in Nat /\ fragment.endings \in Seq(Ending)
  BY ConstantsAssumption
<1>4. t \in Seq(STRING) /\ Len(t) = Len(text) - old.length + n
  BY <1>2, <1>3, ReplacedLength DEF ReplacedText
<1>5. \A d \in Conflict :
        m.conflicts[d] = IF d = c THEN [old EXCEPT !.length = n, !.state = state]
                         ELSE IF current.conflicts[d].mapped /\ current.conflicts[d].start >= End(old)
                           THEN [current.conflicts[d] EXCEPT !.start = @ + delta]
                           ELSE current.conflicts[d]
  BY DEF Replaced
<1>a. /\ m = [endings |-> m.endings, conflicts |-> m.conflicts]
      /\ m.conflicts = [d \in Conflict |-> m.conflicts[d]]
      /\ m.endings = ReplaceEndings(current.endings, Newlines(Mid(text, 0, old.start)),
                        Newlines(Mid(text, old.start, End(old))), fragment.endings)
  BY DEF Replaced
<1> HIDE DEF t, m, n, old
<1>6. m.endings \in Seq(Ending)
  <2> DEFINE leading == Newlines(Mid(text, 0, old.start))
             removed == Newlines(Mid(text, old.start, End(old)))
  <2>1. /\ Newlines(text) = leading + removed + Newlines(Mid(text, End(old), Len(text)))
        /\ leading \in Nat /\ removed \in Nat /\ Newlines(Mid(text, End(old), Len(text))) \in Nat
    BY <1>1, <1>2, NewlinesThree
  <2>2. m.endings = ReplaceEndings(current.endings, leading, removed, fragment.endings)
    BY <1>a
  <2> HIDE DEF leading, removed
  <2>3. leading + removed <= Len(current.endings)
    BY <1>1, <2>1
  <2>4. /\ leading \in Nat /\ removed \in Nat /\ current.endings \in Seq(Ending)
        /\ fragment.endings \in Seq(Ending)
    BY <1>1, <1>3, <2>1
  <2> QED BY ONLY <2>2, <2>3, <2>4, EndingsReplaced
<1>7. \A d \in Conflict : /\ m.conflicts[d].mapped = current.conflicts[d].mapped
                          /\ m.conflicts[d] \in ConflictState
  <2> SUFFICES ASSUME NEW d \in Conflict
               PROVE  /\ m.conflicts[d].mapped = current.conflicts[d].mapped
                      /\ m.conflicts[d] \in ConflictState
    OBVIOUS
  <2>1. current.conflicts[d] \in ConflictState /\ old \in ConflictState
    BY <1>1 DEF old
  <2>2. CASE d = c
    <3>1. m.conflicts[d] = [old EXCEPT !.length = n, !.state = state]
      BY <1>5, <2>2
    <3> QED BY <1>3, <2>1, <2>2, <3>1 DEF ConflictState, old
  <2>3. CASE d # c /\ current.conflicts[d].mapped /\ current.conflicts[d].start >= End(old)
    <3>1. m.conflicts[d] = [current.conflicts[d] EXCEPT !.start = @ + delta]
      BY <1>5, <2>3
    <3>2. current.conflicts[d].start + delta \in Nat
      BY <1>2, <1>3, <2>1, <2>3, SMTT(30) DEF ConflictState
    <3> QED BY <2>1, <3>1, <3>2 DEF ConflictState
  <2>4. CASE d # c /\ ~(current.conflicts[d].mapped /\ current.conflicts[d].start >= End(old))
    <3>1. m.conflicts[d] = current.conflicts[d]
      BY <1>5, <2>4
    <3> QED BY <2>1, <3>1
  <2> QED BY <2>2, <2>3, <2>4
<1>8. m \in Metadata
  <2>1. m.conflicts \in [Conflict -> ConflictState]
    BY <1>7, <1>a
  <2> QED BY <1>6, <1>a, <2>1 DEF Metadata
<1>9. Reviewed(current) => Reviewed(m)
  <2> SUFFICES ASSUME Reviewed(current), NEW d \in Conflict
               PROVE  m.conflicts[d].mapped \/ m.conflicts[d].state = "NeedsReview"
    BY DEF Reviewed
  <2>1. CASE d = c
    BY <1>2, <1>7, <2>1 DEF old
  <2>2. CASE d # c
    BY <1>1, <1>5, <1>7, <2>2 DEF Reviewed, ConflictState
  <2> QED BY <2>1, <2>2
<1>10. ASSUME Placed(text, current)
       PROVE  Placed(t, m)
  <2>1. \A d \in Conflict : current.conflicts[d].mapped =>
          /\ current.conflicts[d].start \in Int /\ End(current.conflicts[d]) \in Int
          /\ current.conflicts[d].start <= End(current.conflicts[d])
          /\ End(current.conflicts[d]) <= Len(text)
    BY <1>1, <1>10 DEF Placed, ValidRange, End, ConflictState
  <2>2. \A d \in Conflict : d # c /\ current.conflicts[d].mapped =>
          \/ /\ current.conflicts[d].start >= End(old)
             /\ m.conflicts[d].start = current.conflicts[d].start + delta
             /\ End(m.conflicts[d]) = End(current.conflicts[d]) + delta
          \/ /\ End(current.conflicts[d]) <= old.start
             /\ current.conflicts[d].start < End(old)
             /\ m.conflicts[d].start = current.conflicts[d].start
             /\ End(m.conflicts[d]) = End(current.conflicts[d])
    <3> SUFFICES ASSUME NEW d \in Conflict, d # c, current.conflicts[d].mapped
                 PROVE \/ /\ current.conflicts[d].start >= End(old)
                          /\ m.conflicts[d].start = current.conflicts[d].start + delta
                          /\ End(m.conflicts[d]) = End(current.conflicts[d]) + delta
                       \/ /\ End(current.conflicts[d]) <= old.start
                          /\ current.conflicts[d].start < End(old)
                          /\ m.conflicts[d].start = current.conflicts[d].start
                          /\ End(m.conflicts[d]) = End(current.conflicts[d])
      OBVIOUS
    <3> DEFINE other == current.conflicts[d]
    <3>1. other \in ConflictState /\ other.start \in Nat /\ other.length \in Nat
      BY <1>1 DEF ConflictState
    <3>2. End(other) <= old.start \/ End(old) <= other.start
      BY <1>2, <1>10 DEF Placed, Apart, old
    <3>3. CASE other.start >= End(old)
      <4>1. m.conflicts[d] = [other EXCEPT !.start = @ + delta]
        BY <1>5, <3>3
      <4>2. m.conflicts[d].start = other.start + delta /\ m.conflicts[d].length = other.length
        BY <3>1, <4>1 DEF ConflictState
      <4>3. delta \in Int
        BY <1>2, <1>3
      <4>4. End(m.conflicts[d]) = End(other) + delta
        BY ONLY <3>1, <4>2, <4>3 DEF End
      <4> QED BY <3>3, <4>2, <4>4
    <3>4. CASE ~(other.start >= End(old))
      <4>1. m.conflicts[d] = other
        BY <1>5, <3>4
      <4> QED BY <1>2, <3>1, <3>2, <3>4, <4>1
    <3> QED BY <3>3, <3>4
  <2>3. m.conflicts[c].start = old.start /\ End(m.conflicts[c]) = old.start + n
    <3>1. m.conflicts[c] = [old EXCEPT !.length = n, !.state = state]
      BY <1>5
    <3> QED BY <1>1, <3>1 DEF ConflictState, End, old
  <2>4. ASSUME NEW d \in Conflict, m.conflicts[d].mapped
        PROVE  ValidRange(t, m.conflicts[d])
    <3>1. current.conflicts[d].mapped
      BY <1>7, <2>4
    <3>2. CASE d = c
      BY <1>1, <1>2, <1>3, <1>4, <2>3, <3>2 DEF ValidRange
    <3>3. CASE d # c
      <4> DEFINE o == current.conflicts[d]
      <4>1. o.start \in Int /\ End(o) \in Int /\ o.start <= End(o) /\ End(o) <= Len(text)
        BY <2>1, <3>1
      <4>2. \/ o.start >= End(old) /\ End(m.conflicts[d]) = End(o) + delta
            \/ End(o) <= old.start /\ End(m.conflicts[d]) = End(o)
        BY <2>2, <3>1, <3>3
      <4> HIDE DEF o
      <4>3. End(m.conflicts[d]) <= Len(t)
        BY <1>1, <1>2, <1>3, <1>4, <4>1, <4>2, SMTT(30)
      <4> QED BY <4>3 DEF ValidRange
    <3> QED BY <3>2, <3>3
  <2>5. ASSUME NEW d \in Conflict, NEW e \in Conflict, d # e, m.conflicts[d].mapped,
               m.conflicts[e].mapped
        PROVE  Apart(m.conflicts[d], m.conflicts[e])
    <3>1. /\ current.conflicts[d].mapped /\ current.conflicts[e].mapped
          /\ \/ End(current.conflicts[d]) <= current.conflicts[e].start
             \/ End(current.conflicts[e]) <= current.conflicts[d].start
      BY <1>7, <1>10, <2>5 DEF Placed, Apart
    <3> DEFINE ds == current.conflicts[d].start
               de == End(current.conflicts[d])
               es == current.conflicts[e].start
               ee == End(current.conflicts[e])
               dt == m.conflicts[d].start
               df == End(m.conflicts[d])
               et == m.conflicts[e].start
               ef == End(m.conflicts[e])
               os == old.start
               of == End(old)
    <3>2. /\ ds \in Int /\ de \in Int /\ ds <= de /\ es \in Int /\ ee \in Int /\ es <= ee
          /\ (de <= es \/ ee <= ds) /\ os \in Int /\ of \in Int /\ os <= of
          /\ delta = n - (of - os) /\ n \in Nat
      BY <1>2, <1>3, <2>1, <3>1
    <3>3. d = c => ds = os /\ de = of /\ dt = os /\ df = os + n
      BY <2>3 DEF old
    <3>4. e = c => es = os /\ ee = of /\ et = os /\ ef = os + n
      BY <2>3 DEF old
    <3>5. d # c => \/ ds >= of /\ dt = ds + delta /\ df = de + delta
                   \/ de <= os /\ ds < of /\ dt = ds /\ df = de
      BY <2>2, <3>1
    <3>6. e # c => \/ es >= of /\ et = es + delta /\ ef = ee + delta
                   \/ ee <= os /\ es < of /\ et = es /\ ef = ee
      BY <2>2, <3>1
    <3>7. d # c \/ e # c
      BY <2>5
    <3>8. df <= et \/ ef <= dt
      <4> HIDE DEF ds, de, es, ee, dt, df, et, ef, os, of, delta
      <4>1. CASE d = c
        BY <3>2, <3>3, <3>6, <3>7, <4>1
      <4>2. CASE e = c
        BY <3>2, <3>4, <3>5, <3>7, <4>2
      <4>3. CASE d # c /\ e # c
        <5>1. CASE ds >= of /\ dt = ds + delta /\ df = de + delta
          BY <3>2, <3>6, <4>3, <5>1
        <5>2. CASE de <= os /\ ds < of /\ dt = ds /\ df = de
          BY <3>2, <3>6, <4>3, <5>2
        <5> QED BY <3>5, <4>3, <5>1, <5>2
      <4> QED BY <4>1, <4>2, <4>3
    <3> QED BY <3>8 DEF Apart
  <2> QED BY <2>4, <2>5 DEF Placed
<1> QED BY <1>4, <1>8, <1>9, <1>10 DEF t, m

LEMMA GoodInvPrimed ==
  ASSUME user' = user,
         \A i \in DOMAIN history' : Good(history'[i].text, history'[i].metadata),
         captured' # None => Good(captured'.text, captured'.metadata)
  PROVE  GoodInv'
BY DEF GoodInv, Good

LEMMA SignalledGood ==
  ASSUME Inv, NEW t \in Text, NEW m \in Signalled(current, text, t)
  PROVE  Good(t, m) /\ m \in Metadata
<1>1. Good(text, current) /\ text \in Seq(STRING) /\ t \in Seq(STRING)
  BY CurrentIsGood, ConstantsAssumption
<1>2. Fits(t, m)
  BY <1>1, SignalledFits DEF Good
<1>3. (Placed(text, current) => Placed(t, m)) /\ (Reviewed(current) => Reviewed(m))
  BY <1>1, SignalledPlaced DEF Good
<1> QED BY <1>1, <1>2, <1>3 DEF Good, Fits

\* Pushing a command with good metadata, whoever asks for it.
LEMMA PushKeepsInv ==
  ASSUME Inv, NEW t \in Text, NEW m, Good(t, m), NEW forced,
         NEW command \in Command, command.id = pushed + 1,
         command.before = text, command.after = t,
         ~command.native => command.undo = current /\ command.redo = m,
         Push(command, t, m, forced)
  PROVE  Inv' /\ text' = t /\ current' = m /\ Pushed
<1>1. m \in Metadata /\ TypeOK /\ HistInv
  BY DEF Good, Fits, Inv
<1>2. PICK k \in {0, 1} : Shifted(k, command, t, m)
  BY <1>1, PushShifts
<1>3. /\ pushed' = pushed + 1 /\ user' = user /\ clean' = clean /\ cleanText' = cleanText
      /\ captured' = captured
  BY DEF Push
<1>4. HistInv'
  BY <1>1, <1>2, <1>3, PushKeepsHist
<1>5. TypeOK'
  <2>1. stack' \in Seq(Command) /\ Len(stack') <= UndoLimit /\ index' \in 0..Len(stack')
    BY ONLY <1>2, ConstantsAssumption DEF Shifted
  <2>2. pushed' \in Nat /\ lastIndex' \in Nat
    BY ONLY <1>1, <1>2, <1>3, ConstantsAssumption DEF TypeOK, Shifted
  <2>3. history' \in Seq([metadata : Metadata, text : Text, command : Nat])
    BY ONLY <1>2 DEF Shifted, HEntry
  <2>4. text' \in Text /\ current' \in Metadata
    BY <1>1, <1>2 DEF Shifted
  <2> QED BY <1>1, <1>3, <2>1, <2>2, <2>3, <2>4 DEF TypeOK
<1>6. GoodInv'
  <2>1. \A i \in DOMAIN history' : Good(history'[i].text, history'[i].metadata)
    <3> SUFFICES ASSUME NEW i \in DOMAIN history'
                 PROVE  Good(history'[i].text, history'[i].metadata)
      OBVIOUS
    <3>1. /\ i \in 1..(index' + 1) /\ index' = index + 1 - k /\ index' \in Nat
          /\ index \in 0..Len(stack) /\ Len(stack) \in Nat
      BY <1>1, <1>2, HistFacts DEF Shifted
    <3>2. CASE i = index' + 1
      BY <1>2, <3>2 DEF Shifted
    <3>3. CASE i # index' + 1
      <4>1. i \in 1..(index + 1 - k) /\ i + k \in 1..(Len(stack) + 1)
        BY <3>1, <3>3
      <4>2. history'[i] = history[i + k]
        BY <1>2, <4>1 DEF Shifted
      <4> QED BY <4>1, <4>2, CurrentIsGood
    <3> QED BY <3>2, <3>3
  <2>2. captured # None => Good(captured.text, captured.metadata)
    BY DEF Inv, GoodInv
  <2> QED BY <1>3, <2>1, <2>2, GoodInvPrimed
<1>7. Pushed
  BY <1>1, <1>2 DEF Pushed
<1> QED BY <1>2, <1>4, <1>5, <1>6, <1>7 DEF Inv, Shifted

LEMMA TypeKeepsInv ==
  ASSUME Inv, Type PROVE Inv' /\ Pushed
<1>0. PICK t \in Text : \E m \in Signalled(current, text, t) :
        Push([id |-> pushed + 1, native |-> TRUE, before |-> text, after |-> t], t, m, FALSE)
  BY DEF Type
<1>1. PICK m \in Signalled(current, text, t) :
        Push([id |-> pushed + 1, native |-> TRUE, before |-> text, after |-> t], t, m, FALSE)
  BY <1>0
<1>2. Good(t, m) /\ text \in Text
  BY SignalledGood, CurrentIsGood
<1> DEFINE command == [id |-> pushed + 1, native |-> TRUE, before |-> text, after |-> t]
<1>3. /\ command \in Command /\ command.id = pushed + 1 /\ command.before = text
      /\ command.after = t /\ command.native
  <2>1. pushed + 1 \in Nat \ {0}
    BY DEF Inv, TypeOK
  <2> QED BY <1>2, <2>1 DEF Command
<1> HIDE DEF command
<1>4. Push(command, t, m, FALSE)
  BY <1>1 DEF command
<1> QED BY <1>2, <1>3, <1>4, PushKeepsInv

LEMMA TypeMoreKeepsInv ==
  ASSUME Inv, TypeMore
  PROVE  Inv' /\ index > 0 /\ \E t \in Text, m \in Metadata : Amended(t, m)
<1>0. PICK t \in Text \ {text} : \E m \in Signalled(current, text, t) :
        UndoIndexChanged(SubSeq(stack, 1, index - 1) \o <<[stack[index] EXCEPT !.after = t]>>,
                         index, t, m, FALSE)
  BY DEF TypeMore
<1>1. PICK m \in Signalled(current, text, t) :
        UndoIndexChanged(SubSeq(stack, 1, index - 1) \o <<[stack[index] EXCEPT !.after = t]>>,
                         index, t, m, FALSE)
  BY <1>0
<1>2. /\ index > 0 /\ stack[index].native /\ pushed' = pushed + 1
      /\ user' = user /\ clean' = clean /\ cleanText' = cleanText /\ captured' = captured
  BY DEF TypeMore
<1>3. Good(t, m) /\ m \in Metadata /\ TypeOK /\ HistInv /\ t \in Text /\ t # text
  BY SignalledGood DEF Inv
<1>4. Amended(t, m)
  BY <1>1, <1>2, <1>3, TypeMoreAmends
<1>5. HistInv'
  BY <1>2, <1>3, <1>4, AmendKeepsHist
<1>6. /\ index \in 1..Len(stack) /\ Len(stack) \in Nat
  BY <1>2, <1>3, HistFacts
<1>7. TypeOK'
  <2>1. stack' \in Seq(Command) /\ Len(stack') <= UndoLimit /\ index' \in 0..Len(stack')
    BY <1>3, <1>4, <1>6, ConstantsAssumption, SMTT(30) DEF TypeOK, Amended
  <2>2. pushed' \in Nat /\ lastIndex' \in Nat
    BY <1>2, <1>3, <1>4, <1>6 DEF TypeOK, Amended
  <2>3. history' \in Seq([metadata : Metadata, text : Text, command : Nat])
    BY <1>4 DEF Amended, HEntry
  <2>4. text' \in Text /\ current' \in Metadata
    BY <1>3, <1>4 DEF Amended
  <2> QED BY <1>2, <1>3, <2>1, <2>2, <2>3, <2>4 DEF TypeOK
<1>8. \A i \in DOMAIN history' : Good(history'[i].text, history'[i].metadata)
  <2> SUFFICES ASSUME NEW i \in DOMAIN history'
               PROVE  Good(history'[i].text, history'[i].metadata)
    OBVIOUS
  <2>1. i \in 1..(index + 1)
    BY <1>4, <1>6 DEF Amended
  <2>2. CASE i = index + 1
    BY <1>3, <1>4, <2>2 DEF Amended
  <2>3. CASE i # index + 1
    <3>1. i \in 1..index /\ i \in 1..(Len(stack) + 1)
      BY <1>6, <2>1, <2>3
    <3>2. history'[i] = history[i]
      BY <1>4, <3>1 DEF Amended
    <3> QED BY <3>1, <3>2, CurrentIsGood
  <2> QED BY <2>2, <2>3
<1>9. GoodInv'
  <2>1. captured # None => Good(captured.text, captured.metadata)
    BY DEF Inv, GoodInv
  <2> QED BY <1>2, <1>8, <2>1, GoodInvPrimed
<1> QED BY <1>2, <1>3, <1>4, <1>5, <1>7, <1>9 DEF Inv

\* What Undo restores is the recorded entry, or what the document's signals have left.
LEMMA UndoRestores ==
  ASSUME Inv, Undo
  PROVE  \E m \in Metadata, e \in HEntry :
           /\ index > 0 /\ Undone(e, m) /\ Good(history[index].text, m)
           /\ UNCHANGED <<user, clean, cleanText, pushed, captured>>
           /\ stack[index].native => m \in Signalled(current, text, stack[index].before)
<1>1. index > 0 /\ UNCHANGED <<user, clean, cleanText, pushed, captured>>
  BY DEF Undo
<1>2. TypeOK /\ HistInv
  BY DEF Inv
<1>3. /\ index \in 1..Len(stack) /\ index \in 1..(Len(stack) + 1) /\ stack[index] \in Command
      /\ stack[index].before \in Text /\ history[index].text = stack[index].before
      /\ ~stack[index].native => stack[index].undo = history[index].metadata
  <2>1. index \in 1..Len(stack) /\ index \in 1..(Len(stack) + 1)
    BY <1>1, <1>2, HistFacts
  <2> QED BY <1>2, <2>1, HistFacts
<1>4. CASE stack[index].native
  <2>1. PICK m \in Signalled(current, text, stack[index].before) :
          UndoIndexChanged(stack, index - 1, stack[index].before, m, FALSE)
    BY <1>4 DEF Undo
  <2>2. Good(stack[index].before, m) /\ m \in Metadata
    BY <1>3, SignalledGood
  <2>3. \E e \in HEntry : Undone(e, m)
    BY <1>1, <1>2, <1>4, <2>1, <2>2, UndoUndoes
  <2> QED BY <1>1, <1>3, <2>2, <2>3
<1>5. CASE ~stack[index].native
  <2> DEFINE m == stack[index].undo
  <2>1. UndoIndexChanged(stack, index - 1, stack[index].before, m, TRUE)
    BY <1>5 DEF Undo
  <2>2. Good(stack[index].before, m) /\ m \in Metadata
    BY <1>3, <1>5, CurrentIsGood DEF Good, Fits
  <2>3. \E e \in HEntry : Undone(e, m)
    BY <1>1, <1>2, <1>5, <2>1, <2>2, UndoUndoes
  <2> QED BY <1>1, <1>3, <1>5, <2>2, <2>3
<1> QED BY <1>4, <1>5

LEMMA UndoKeepsInv ==
  ASSUME Inv, Undo PROVE Inv'
<1>1. PICK m \in Metadata, e \in HEntry :
        /\ index > 0 /\ Undone(e, m) /\ Good(history[index].text, m)
        /\ UNCHANGED <<user, clean, cleanText, pushed, captured>>
  BY UndoRestores
<1>2. TypeOK /\ HistInv
  BY DEF Inv
<1>3. HistInv'
  BY <1>1, <1>2, UndoKeepsHist
<1>4. /\ index \in 1..Len(stack) /\ Len(stack) \in Nat /\ history \in Seq(HEntry)
      /\ Len(history) = Len(stack) + 1 /\ index \in 1..(Len(stack) + 1)
      /\ DOMAIN history = 1..(Len(stack) + 1)
  <2>1. index \in 1..Len(stack) /\ index \in 1..(Len(stack) + 1)
    BY <1>1, <1>2, HistFacts
  <2> QED BY <1>2, <2>1, HistFacts
<1>5. history' \in Seq(HEntry)
  BY <1>1, <1>4, ExceptSeq DEF Undone
<1>6. TypeOK'
  <2>1. text' \in Text /\ current' \in Metadata
    BY <1>1, <1>2, <1>4, HistFacts DEF Undone, HEntry
  <2> QED BY <1>1, <1>2, <1>4, <1>5, <2>1 DEF TypeOK, Undone, HEntry
<1>7. \A i \in DOMAIN history' : Good(history'[i].text, history'[i].metadata)
  <2>1. Good(e.text, e.metadata)
    BY <1>1, <1>4, CurrentIsGood DEF Undone
  <2> QED BY <1>1, <1>4, <2>1, CurrentIsGood DEF Undone
<1>8. GoodInv'
  <2>1. captured # None => Good(captured.text, captured.metadata)
    BY DEF Inv, GoodInv
  <2> QED BY <1>1, <1>7, <2>1, GoodInvPrimed
<1> QED BY <1>3, <1>6, <1>8 DEF Inv

LEMMA RedoRestores ==
  ASSUME Inv, Redo
  PROVE  /\ index < Len(stack) /\ Redone
         /\ UNCHANGED <<user, clean, cleanText, pushed, captured>>
<1>1. index < Len(stack) /\ UNCHANGED <<user, clean, cleanText, pushed, captured>>
  BY DEF Redo
<1>2. TypeOK /\ HistInv
  BY DEF Inv
<1>3. /\ stack[index + 1].after \in Text
      /\ ~stack[index + 1].native => stack[index + 1].redo \in Metadata
  <2>1. index + 1 \in 1..Len(stack) /\ (index + 1) + 1 \in 1..(Len(stack) + 1)
    BY <1>1, <1>2, HistFacts
  <2>2. ~stack[index + 1].native => stack[index + 1].redo = history[(index + 1) + 1].metadata
    BY <1>2, <2>1, HistFacts
  <2> QED BY <1>2, <2>1, <2>2, HistFacts DEF HEntry
<1>4. CASE stack[index + 1].native
  <2>1. PICK m \in Signalled(current, text, stack[index + 1].after) :
          UndoIndexChanged(stack, index + 1, stack[index + 1].after, m, FALSE)
    BY <1>4 DEF Redo
  <2>2. m \in Metadata
    BY <1>3, SignalledGood
  <2> QED BY <1>1, <1>2, <1>4, <2>1, <2>2, RedoRedoes
<1>5. CASE ~stack[index + 1].native
  <2>1. UndoIndexChanged(stack, index + 1, stack[index + 1].after, stack[index + 1].redo, TRUE)
    BY <1>5 DEF Redo
  <2> QED BY <1>1, <1>2, <1>3, <1>5, <2>1, RedoRedoes
<1> QED BY <1>4, <1>5

LEMMA RedoKeepsInv ==
  ASSUME Inv, Redo PROVE Inv'
<1>1. /\ index < Len(stack) /\ Redone
      /\ UNCHANGED <<user, clean, cleanText, pushed, captured>>
  BY RedoRestores
<1>2. TypeOK /\ HistInv
  BY DEF Inv
<1>3. HistInv'
  BY <1>1, <1>2, RedoKeepsHist
<1>4. /\ index + 1 \in 1..Len(stack) /\ index + 2 \in 1..(Len(stack) + 1)
  BY <1>1, <1>2, HistFacts
<1>5. TypeOK'
  <2>1. text' \in Text /\ current' \in Metadata
    BY <1>1, <1>2, <1>4, HistFacts DEF Redone, HEntry
  <2> QED BY <1>1, <1>2, <1>4, <2>1 DEF TypeOK, Redone
<1>6. GoodInv'
  <2>1. /\ captured # None => Good(captured.text, captured.metadata)
        /\ \A i \in DOMAIN history : Good(history[i].text, history[i].metadata)
    BY DEF Inv, GoodInv
  <2> QED BY <1>1, <2>1, GoodInvPrimed DEF Redone
<1> QED BY <1>3, <1>5, <1>6 DEF Inv

LEMMA PushMergeKeepsInv ==
  ASSUME Inv, NEW t \in Text, NEW m, Good(t, m), PushMerge(t, m)
  PROVE  /\ Inv' /\ text' = t /\ current' = m /\ Pushed
         /\ UNCHANGED <<user, clean, cleanText, captured>>
<1> DEFINE command == [id |-> pushed + 1, native |-> FALSE, before |-> text, after |-> t,
                       undo |-> current, redo |-> m]
<1>1. /\ command \in Command /\ command.id = pushed + 1 /\ command.before = text
      /\ command.after = t /\ command.undo = current /\ command.redo = m
  <2>1. pushed + 1 \in Nat \ {0}
    BY DEF Inv, TypeOK
  <2>2. text \in Text /\ current \in Metadata /\ m \in Metadata
    BY CurrentIsGood DEF Good, Fits
  <2> QED BY <2>1, <2>2 DEF Command
<1>2. Push(command, t, m, TRUE)
  BY DEF PushMerge
<1> HIDE DEF command
<1> QED BY <1>1, <1>2, PushKeepsInv DEF Push

LEMMA ChooseKeepsInv ==
  ASSUME Inv, NEW c \in Conflict, NEW fragment \in Fragment[c], NEW state \in State,
         ChooseConflict(c, fragment, state)
  PROVE  Inv' /\ Pushed
<1> DEFINE t == ReplacedText(c, fragment)
           m == Replaced(c, fragment, state)
<1>1. Replaceable(c) /\ t \in Text /\ Serializable(t, m) /\ PushMerge(t, m)
  BY DEF ChooseConflict, ReplacedText
<1>2. /\ m \in Metadata /\ (Placed(text, current) => Placed(t, m))
      /\ (Reviewed(current) => Reviewed(m))
  BY <1>1, ReplacedPlaced
<1>3. Len(m.endings) = Newlines(t)
  BY <1>1 DEF Serializable
<1> HIDE DEF t, m
<1>4. Good(t, m)
  BY <1>2, <1>3, CurrentIsGood DEF Good, Fits
<1> QED BY <1>1, <1>4, PushMergeKeepsInv

LEMMA ChangeStateKeepsInv ==
  ASSUME Inv, NEW c \in Conflict, NEW state \in State, ChangeState(c, state)
  PROVE  /\ Inv' /\ Pushed /\ text' = text
         /\ current' = [current EXCEPT !.conflicts[c].state = state]
<1> DEFINE m == [current EXCEPT !.conflicts[c].state = state]
<1>1. /\ text \in Text /\ current \in Metadata /\ Good(text, current)
      /\ current.conflicts \in [Conflict -> ConflictState]
  BY CurrentIsGood DEF Metadata
<1>2. current.conflicts[c].mapped /\ PushMerge(text, m)
  BY DEF ChangeState
<1>3. /\ m.endings = current.endings
      /\ m.conflicts = [current.conflicts EXCEPT ![c].state = state]
      /\ m = [endings |-> m.endings, conflicts |-> m.conflicts]
  BY <1>1 DEF Metadata
<1> HIDE DEF m
<1>4. \A d \in Conflict :
        /\ m.conflicts[d] \in ConflictState
        /\ m.conflicts[d].start = current.conflicts[d].start
        /\ m.conflicts[d].length = current.conflicts[d].length
        /\ m.conflicts[d].mapped = current.conflicts[d].mapped
        /\ d # c => m.conflicts[d] = current.conflicts[d]
  BY <1>1, <1>3 DEF ConflictState
<1>5. m \in Metadata
  <2>1. m.conflicts \in [Conflict -> ConflictState]
    BY <1>1, <1>3, <1>4
  <2> QED BY <1>1, <1>3, <2>1 DEF Metadata
<1>6. Fits(text, m)
  BY <1>1, <1>3, <1>5 DEF Good, Fits
<1>7. Reviewed(current) => Reviewed(m)
  BY <1>2, <1>4 DEF Reviewed
<1>8. Placed(text, current) => Placed(text, m)
  BY <1>4 DEF Placed, ValidRange, Apart, End
<1>9. Good(text, m)
  BY <1>1, <1>6, <1>7, <1>8 DEF Good
<1>10. Inv' /\ Pushed /\ text' = text /\ current' = m
  BY <1>1, <1>2, <1>9, PushMergeKeepsInv
<1> QED BY <1>10 DEF m

LEMMA ReviewKeepsInv ==
  ASSUME Inv, NEW c \in Conflict, ReviewConflictRange(c)
  PROVE  /\ Inv' /\ Pushed /\ text' = text
         /\ \A d \in Conflict : \/ current'.conflicts[d] = current.conflicts[d]
                               \/ current'.conflicts[d].state = "NeedsReview"
<1>1. PICK start \in 0..Len(text) : \E length \in 0..Len(text) - start :
        PushMerge(text, [current EXCEPT !.conflicts[c] =
          [start |-> start, length |-> length, mapped |-> TRUE, state |-> "NeedsReview"]])
  BY DEF ReviewConflictRange
<1>2. PICK length \in 0..Len(text) - start :
        PushMerge(text, [current EXCEPT !.conflicts[c] =
          [start |-> start, length |-> length, mapped |-> TRUE, state |-> "NeedsReview"]])
  BY <1>1
<1> DEFINE range == [start |-> start, length |-> length, mapped |-> TRUE, state |-> "NeedsReview"]
           m == [current EXCEPT !.conflicts[c] = range]
<1>3. /\ text \in Text /\ text \in Seq(STRING) /\ current \in Metadata /\ Good(text, current)
      /\ current.conflicts \in [Conflict -> ConflictState]
  BY CurrentIsGood DEF Metadata
<1>4. range \in ConflictState
  <2>1. start \in Nat /\ length \in Nat
    BY <1>3
  <2> QED BY <2>1 DEF ConflictState, State
<1> HIDE DEF range
<1>5. /\ m.endings = current.endings
      /\ m.conflicts = [current.conflicts EXCEPT ![c] = range]
      /\ m = [endings |-> m.endings, conflicts |-> m.conflicts]
  BY <1>3, SMTT(30) DEF Metadata
<1>6. PushMerge(text, m)
  BY <1>2 DEF range
<1> HIDE DEF m
<1>7. m \in Metadata
  <2>1. m.conflicts \in [Conflict -> ConflictState]
    BY <1>3, <1>4, <1>5
  <2> QED BY <1>3, <1>5, <2>1 DEF Metadata
<1>8. Reviewed(current) => Reviewed(m)
  BY <1>3, <1>5 DEF Reviewed, range
<1>9. Good(text, m)
  BY <1>3, <1>5, <1>7, <1>8 DEF Good, Fits, ReviewConflictRange
<1>10. Inv' /\ Pushed /\ text' = text /\ current' = m
  BY <1>3, <1>6, <1>9, PushMergeKeepsInv
<1> QED BY <1>3, <1>5, <1>10 DEF range

LEMMA LoadKeepsInv ==
  ASSUME Inv, NEW t \in Text, NEW m, Good(t, m), Load(t, m)
  PROVE  Inv'
<1> DEFINE e == [metadata |-> m, text |-> t, command |-> 0]
<1>1. /\ history' = <<e>> /\ stack' = <<>> /\ index' = 0 /\ lastIndex' = 0
      /\ text' = t /\ current' = m /\ clean' = m /\ cleanText' = t
      /\ UNCHANGED <<user, pushed, captured>>
  BY DEF Load
<1>2. e \in HEntry /\ m \in Metadata /\ e.metadata = m /\ e.text = t /\ e.command = 0
  BY DEF HEntry, Good, Fits
<1> HIDE DEF e
<1>3. /\ history' \in Seq(HEntry) /\ Len(history') = 1 /\ history'[1] = e
      /\ DOMAIN history' = {1}
  BY <1>1, <1>2
<1>4. /\ stack' \in Seq(Command) /\ Len(stack') = 0 /\ DOMAIN stack' = {}
  BY <1>1
<1>5. TypeOK'
  BY <1>1, <1>2, <1>3, <1>4, ConstantsAssumption DEF Inv, TypeOK, HEntry
<1>6. HistInv'
  <2>1. pushed \in Nat
    BY DEF Inv, TypeOK
  <2>2. HistoryFollowsStack'
    BY <1>1, <1>2, <1>3, <1>4 DEF HistoryFollowsStack
  <2>3. IdsGrow' /\ MergesAreRecorded'
    BY <1>1, <1>2, <1>3, <1>4, <2>1 DEF IdsGrow, MergesAreRecorded
  <2> QED BY <2>2, <2>3 DEF HistInv
<1>7. GoodInv'
  <2>1. \A i \in DOMAIN history' : Good(history'[i].text, history'[i].metadata)
    BY <1>2, <1>3
  <2>2. captured # None => Good(captured.text, captured.metadata)
    BY DEF Inv, GoodInv
  <2> QED BY <1>1, <2>1, <2>2, GoodInvPrimed
<1> QED BY <1>5, <1>6, <1>7 DEF Inv

LEMMA InitialIsGood ==
  /\ InitialText \in Text /\ Good(InitialText, InitialMetadata)
BY ConstantsAssumption DEF Good, Fits, SessionAsksForReview, SessionIsPlaced

\* Saving changes neither the text nor its history.
LEMMA SaveKeepsInv ==
  ASSUME Inv, RequestSave \/ AcknowledgeSaved \/ SaveFailed
  PROVE  Inv'
<1>1. UNCHANGED <<text, current, history, lastIndex, stack, index, user, pushed>>
  BY DEF RequestSave, AcknowledgeSaved, SaveFailed
<1>2. /\ TypeOK /\ HistInv /\ GoodInv
      /\ text \in Text /\ current \in Metadata /\ Good(text, current)
  BY CurrentIsGood DEF Inv
<1>3. captured' \in {None, [text |-> text, metadata |-> current]}
  BY DEF RequestSave, AcknowledgeSaved, SaveFailed
<1>4. /\ clean' \in {clean, current} /\ cleanText' \in {cleanText, text}
  BY DEF RequestSave, AcknowledgeSaved, SaveFailed
<1>5. TypeOK'
  BY <1>1, <1>2, <1>3, <1>4 DEF TypeOK
<1>6. HistInv'
  BY <1>1, <1>2 DEF HistInv, HistoryFollowsStack, IdsGrow, MergesAreRecorded
<1>7. GoodInv'
  <2>1. \A i \in DOMAIN history' : Good(history'[i].text, history'[i].metadata)
    BY <1>1, <1>2 DEF GoodInv
  <2>2. captured' # None => Good(captured'.text, captured'.metadata)
    BY <1>2, <1>3
  <2> QED BY <1>1, <2>1, <2>2, GoodInvPrimed
<1> QED BY <1>5, <1>6, <1>7 DEF Inv

LEMMA InitInv == Init => Inv
<1> SUFFICES ASSUME Init PROVE Inv
  OBVIOUS
<1> DEFINE e == [metadata |-> InitialMetadata, text |-> InitialText, command |-> 0]
<1>1. /\ history = <<e>> /\ stack = <<>> /\ index = 0 /\ lastIndex = 0 /\ pushed = 0
      /\ text = InitialText /\ current = InitialMetadata /\ captured = None
      /\ clean = InitialMetadata /\ cleanText = InitialText /\ user \in User
  BY DEF Init
<1>2. /\ e \in HEntry /\ e.metadata = InitialMetadata /\ e.text = InitialText /\ e.command = 0
      /\ InitialMetadata \in Metadata /\ InitialText \in Text
  BY ConstantsAssumption DEF HEntry
<1> HIDE DEF e
<1>3. /\ history \in Seq(HEntry) /\ Len(history) = 1 /\ history[1] = e /\ DOMAIN history = {1}
  BY <1>1, <1>2
<1>4. /\ stack \in Seq(Command) /\ Len(stack) = 0 /\ DOMAIN stack = {}
  BY <1>1
<1>5. TypeOK
  BY <1>1, <1>2, <1>3, <1>4, ConstantsAssumption DEF TypeOK, HEntry
<1>6. HistoryFollowsStack
  BY <1>1, <1>2, <1>3, <1>4 DEF HistoryFollowsStack
<1>7. IdsGrow /\ MergesAreRecorded
  BY <1>1, <1>2, <1>3, <1>4 DEF IdsGrow, MergesAreRecorded
<1>8. GoodInv
  BY <1>1, <1>2, <1>3, InitialIsGood DEF GoodInv
<1> QED BY <1>5, <1>6, <1>7, <1>8 DEF Inv, HistInv

LEMMA NextInv == Inv /\ [Next]_vars => Inv'
<1> SUFFICES ASSUME Inv, [Next]_vars PROVE Inv'
  OBVIOUS
<1>1. CASE Type
  BY <1>1, TypeKeepsInv
<1>2. CASE TypeMore
  BY <1>2, TypeMoreKeepsInv
<1>3. CASE Undo
  BY <1>3, UndoKeepsInv
<1>4. CASE Redo
  BY <1>4, RedoKeepsInv
<1>5. ASSUME NEW c \in Conflict, NEW state \in {"Resolved", "NeedsReview"},
             NEW fragment \in Fragment[c], ChooseConflict(c, fragment, state)
      PROVE  Inv'
  <2>1. state \in State
    BY DEF State
  <2> QED BY <1>5, <2>1, ChooseKeepsInv
<1>6. ASSUME NEW c \in Conflict, NEW state \in {"Resolved", "Unresolved"}, ChangeState(c, state)
      PROVE  Inv'
  <2>1. state \in State
    BY DEF State
  <2> QED BY <1>6, <2>1, ChangeStateKeepsInv
<1>7. ASSUME NEW c \in Conflict, ReviewConflictRange(c)
      PROVE  Inv'
  BY <1>7, ReviewKeepsInv
<1>8. CASE RequestSave \/ AcknowledgeSaved \/ SaveFailed
  BY <1>8, SaveKeepsInv
<1>9. CASE DiscardChanges
  BY <1>9, InitialIsGood, LoadKeepsInv DEF DiscardChanges
<1>10. CASE RestoreDraft
  <2>1. captured # None /\ Load(captured.text, captured.metadata)
    BY <1>10 DEF RestoreDraft
  <2>2. captured.text \in Text /\ Good(captured.text, captured.metadata)
    BY <2>1 DEF Inv, TypeOK, GoodInv
  <2> QED BY <2>1, <2>2, LoadKeepsInv
<1>11. CASE UNCHANGED vars
  <2>1. GoodInv'
    BY <1>11, GoodInvPrimed DEF Inv, GoodInv, vars
  <2> QED BY <1>11, <2>1
          DEF Inv, TypeOK, HistInv, HistoryFollowsStack, IdsGrow, MergesAreRecorded, vars
<1> QED BY <1>1, <1>2, <1>3, <1>4, <1>5, <1>6, <1>7, <1>8, <1>9, <1>10, <1>11 DEF Next

THEOREM InvHolds == Spec => []Inv
BY InitInv, NextInv, PTL DEF Spec

-----------------------------------------------------------------------------
(* What the runs check, for every text, session and limit.                 *)

\* The sidecar history stays parallel to Qt's undo stack through pushes, merged
\* typing, undo, redo and forgotten commands (undoIndexChanged).
THEOREM HistoryIsParallel == Spec => []HistoryFollowsStack
<1>1. Inv => HistoryFollowsStack
  BY DEF Inv, HistInv
<1> QED BY <1>1, InvHolds, PTL

\* Whatever is typed, chosen, undone or restored, there is one ending for each line
\* break: a RESULT within the limits can be saved (documentEdited, resultBytes).
THEOREM EndingsStayWithText == Spec => [](TypeOK /\ EndingsMatchText)
<1>1. Inv => TypeOK /\ EndingsMatchText
  BY CurrentIsGood DEF Inv, Good, Fits, EndingsMatchText
<1> QED BY <1>1, InvHolds, PTL

\* Unless the reviewer chooses ranges, the conflicts keep their places in the text and
\* stay apart, if those of the session do.
THEOREM ConflictsKeepTheirPlaces ==
  ASSUME SessionIsPlaced PROVE Spec => []MetadataFitsText
<1>1. Inv => MetadataFitsText
  <2> SUFFICES ASSUME Inv PROVE MetadataFitsText
    OBVIOUS
  <2>1. TypeOK /\ EndingsMatchText
    BY CurrentIsGood DEF Inv, Good, Fits, EndingsMatchText
  <2>2. user = "typist" => Placed(text, current)
    BY CurrentIsGood DEF Good
  <2> QED BY <2>1, <2>2
          DEF MetadataFitsText, MappedRangesAreInText, RangesStayApart, Placed, Apart
<1> QED BY <1>1, InvHolds, PTL

\* A conflict that has lost its place asks for a review, whoever edits.
THEOREM LostPlacesAskForReview ==
  ASSUME SessionAsksForReview PROVE Spec => []UnmappedNeedsReview
<1>1. Inv => UnmappedNeedsReview
  BY CurrentIsGood DEF Good, Reviewed, UnmappedNeedsReview
<1> QED BY <1>1, InvHolds, PTL

\* The text that counts as clean was loaded or is what a save has written: an
\* acknowledgement after a further edit leaves the RESULT modified (acknowledgeSaved).
THEOREM OnlyStoredTextIsClean == Spec => CleanIsWhatWasStored
<1> DEFINE Stored ==
      <<cleanText, clean>>' # <<cleanText, clean>> =>
        \/ <<cleanText, clean>>' = <<InitialText, InitialMetadata>>
        \/ captured = [text |-> cleanText', metadata |-> clean']
<1>1. Inv /\ [Next]_vars => Stored
  <2> SUFFICES ASSUME Inv, [Next]_vars, <<cleanText, clean>>' # <<cleanText, clean>>
               PROVE  \/ <<cleanText, clean>>' = <<InitialText, InitialMetadata>>
                      \/ captured = [text |-> cleanText', metadata |-> clean']
    OBVIOUS
  <2>1. CASE AcknowledgeSaved
    BY <2>1 DEF AcknowledgeSaved
  <2>2. CASE DiscardChanges
    BY <2>2 DEF DiscardChanges, Load
  <2>3. CASE RestoreDraft
    <3>1. captured \in [text : Text, metadata : Metadata]
      BY <2>3 DEF RestoreDraft, Inv, TypeOK
    <3> QED BY <2>3, <3>1 DEF RestoreDraft, Load
  <2>4. CASE ~AcknowledgeSaved /\ ~DiscardChanges /\ ~RestoreDraft
    <3>1. CASE Type \/ TypeMore
      BY <3>1 DEF Type, TypeMore, Push
    <3>2. CASE Undo \/ Redo
      BY <3>2 DEF Undo, Redo
    <3>3. ASSUME NEW c \in Conflict, NEW state, NEW fragment, ChooseConflict(c, fragment, state)
          PROVE  UNCHANGED <<cleanText, clean>>
      BY <3>3 DEF ChooseConflict, PushMerge, Push
    <3>4. ASSUME NEW c \in Conflict, NEW state, ChangeState(c, state)
          PROVE  UNCHANGED <<cleanText, clean>>
      BY <3>4 DEF ChangeState, PushMerge, Push
    <3>5. ASSUME NEW c \in Conflict, ReviewConflictRange(c)
          PROVE  UNCHANGED <<cleanText, clean>>
      BY <3>5 DEF ReviewConflictRange, PushMerge, Push
    <3>6. CASE RequestSave \/ SaveFailed
      BY <3>6 DEF RequestSave, SaveFailed
    <3>7. CASE UNCHANGED vars
      BY <3>7 DEF vars
    <3> QED BY <2>4, <3>1, <3>2, <3>3, <3>4, <3>5, <3>6, <3>7 DEF Next
  <2> QED BY <2>1, <2>2, <2>3, <2>4
<1> QED BY <1>1, InvHolds, PTL DEF Spec, CleanIsWhatWasStored

-----------------------------------------------------------------------------
(* The text of a resolved conflict.                                        *)

LEMMA MidSame ==
  ASSUME NEW s \in Seq(STRING), NEW t \in Seq(STRING), NEW n \in Nat,
         n <= Len(s), n <= Len(t), Mid(s, 0, n) = Mid(t, 0, n),
         NEW i \in Nat, NEW j \in Nat, i <= j, j <= n
  PROVE  Mid(s, i, j) = Mid(t, i, j)
<1>1. Len(s) \in Nat /\ Len(t) \in Nat /\ j <= Len(s) /\ j <= Len(t) /\ 0 \in Nat /\ 0 <= n
  OBVIOUS
<1>2. \A k \in 1..n : s[k] = t[k]
  <2>1. \A k \in 1..(n - 0) : Mid(s, 0, n)[k] = s[0 + k]
    BY <1>1, MidType
  <2>2. \A k \in 1..(n - 0) : Mid(t, 0, n)[k] = t[0 + k]
    BY <1>1, MidType
  <2> QED BY <2>1, <2>2
<1>3. /\ Mid(s, i, j) \in Seq(STRING) /\ Len(Mid(s, i, j)) = j - i
      /\ \A k \in 1..(j - i) : Mid(s, i, j)[k] = s[i + k]
  BY <1>1, MidType
<1>4. /\ Mid(t, i, j) \in Seq(STRING) /\ Len(Mid(t, i, j)) = j - i
      /\ \A k \in 1..(j - i) : Mid(t, i, j)[k] = t[i + k]
  BY <1>1, MidType
<1>5. \A k \in 1..(j - i) : s[i + k] = t[i + k]
  BY <1>2
<1> QED BY <1>3, <1>4, <1>5, SeqEqual

LEMMA MidEmpty ==
  ASSUME NEW s \in Seq(STRING), NEW i \in Nat
  PROVE  Mid(s, i, i) = <<>>
BY DEF Mid

LEMMA MidShift ==
  ASSUME NEW s \in Seq(STRING), NEW t \in Seq(STRING), NEW x \in Nat, NEW y \in Nat,
         x <= Len(s), y <= Len(t), Len(s) - x = Len(t) - y,
         Mid(s, x, Len(s)) = Mid(t, y, Len(t)),
         NEW i \in Nat, NEW j \in Nat, x <= i, i <= j, j <= Len(s),
         NEW p \in Nat, NEW q \in Nat,
         p = i + Len(t) - Len(s), q = j + Len(t) - Len(s)
  PROVE  Mid(s, i, j) = Mid(t, p, q)
<1>1. /\ Len(s) \in Nat /\ Len(t) \in Nat /\ p <= q /\ q <= Len(t) /\ q - p = j - i
      /\ Len(s) <= Len(s) /\ Len(t) <= Len(t)
  OBVIOUS
<1>2. \A k \in 1..(Len(s) - x) : s[x + k] = t[y + k]
  <2>1. \A k \in 1..(Len(s) - x) : Mid(s, x, Len(s))[k] = s[x + k]
    BY <1>1, MidType, ZenonT(30)
  <2>2. \A k \in 1..(Len(t) - y) : Mid(t, y, Len(t))[k] = t[y + k]
    BY <1>1, MidType, ZenonT(30)
  <2> QED BY <2>1, <2>2
<1>3. \A k \in 1..(j - i) : s[i + k] = t[p + k]
  <2> SUFFICES ASSUME NEW k \in 1..(j - i) PROVE s[i + k] = t[p + k]
    OBVIOUS
  <2> DEFINE l == i + k - x
  <2>1. l \in 1..(Len(s) - x) /\ x + l = i + k /\ y + l = p + k
    BY <1>1, SMTT(30)
  <2> HIDE DEF l
  <2> QED BY <1>2, <2>1
<1>4. /\ Mid(s, i, j) \in Seq(STRING) /\ Len(Mid(s, i, j)) = j - i
      /\ \A k \in 1..(j - i) : Mid(s, i, j)[k] = s[i + k]
  BY <1>1, MidType, ZenonT(30)
<1>5. /\ Mid(t, p, q) \in Seq(STRING) /\ Len(Mid(t, p, q)) = q - p
      /\ \A k \in 1..(q - p) : Mid(t, p, q)[k] = t[p + k]
  <2> p <= q /\ q <= Len(t)
    BY <1>1
  <2> QED BY ONLY MidType, t \in Seq(STRING), p \in Nat, q \in Nat, p <= q, q <= Len(t)
<1> DEFINE u == Mid(s, i, j)
           v == Mid(t, p, q)
<1>6. /\ u \in Seq(STRING) /\ v \in Seq(STRING) /\ Len(u) = Len(v)
      /\ \A k \in 1..Len(u) : u[k] = v[k]
  <2> DEFINE n == j - i
  <2>1. u \in Seq(STRING) /\ Len(u) = n /\ \A k \in 1..n : u[k] = s[i + k]
    BY <1>4
  <2>2. v \in Seq(STRING) /\ Len(v) = n /\ \A k \in 1..n : v[k] = t[p + k]
    <3>1. q - p = n
      BY <1>1
    <3> HIDE DEF n
    <3> QED BY ONLY <1>5, <3>1
  <2>3. \A k \in 1..n : s[i + k] = t[p + k]
    BY <1>3
  <2> HIDE DEF u, v, n
  <2> QED BY <2>1, <2>2, <2>3
<1> HIDE DEF u, v
<1>7. u = v
  BY <1>6, SeqEqual
<1> QED BY <1>7 DEF u, v

\* A conflict that stays resolved through an edit has kept its text.
LEMMA EditKeepsFragment ==
  ASSUME NEW s \in Seq(STRING), NEW t \in Seq(STRING), NEW m \in Metadata, NEW c \in Conflict,
         m.conflicts[c].mapped, ValidRange(s, m.conflicts[c]),
         DocumentEdited(m, s, t).conflicts[c].state = "Resolved"
  PROVE  LET new == DocumentEdited(m, s, t).conflicts[c]
         IN /\ m.conflicts[c].state = "Resolved"
            /\ new.mapped /\ ValidRange(t, new) /\ Fragments(t, new) = Fragments(s, m.conflicts[c])
<1> DEFINE prefix == CommonPrefix(s, t)
           suffix == CommonSuffix(s, t, prefix)
           end == Len(s) - suffix
           inserted == Len(t) - suffix - prefix
           old == m.conflicts[c]
           new == DocumentEdited(m, s, t).conflicts[c]
<1>1. /\ prefix \in Nat /\ prefix <= Smaller(Len(s), Len(t))
      /\ Mid(s, 0, prefix) = Mid(t, 0, prefix)
  BY CommonPrefixIs
<1>2. /\ suffix \in Nat /\ prefix + suffix <= Len(s) /\ prefix + suffix <= Len(t)
      /\ Mid(s, Len(s) - suffix, Len(s)) = Mid(t, Len(t) - suffix, Len(t))
  BY <1>1, CommonSuffixIs
<1>3. new = Moved(old, prefix, end, inserted)
  BY DEF DocumentEdited
<1>4. Len(s) \in Nat /\ Len(t) \in Nat
  OBVIOUS
<1>5. old \in ConflictState
  BY DEF Metadata
<1>6. /\ old.start \in Nat /\ old.length \in Nat /\ End(old) = old.start + old.length
      /\ End(old) \in Nat /\ End(old) <= Len(s) /\ old.start <= End(old) /\ old.mapped
  BY <1>5 DEF ConflictState, End, ValidRange
<1>7. new.state = "Resolved"
  OBVIOUS
<1> HIDE DEF prefix, suffix, old, new
<1>8. /\ end \in Nat /\ prefix <= end /\ end <= Len(s) /\ inserted \in Nat
      /\ inserted - (end - prefix) = Len(t) - Len(s) /\ prefix <= Len(t) /\ prefix <= Len(s)
  BY <1>1, <1>2, <1>4
<1>9. CASE Precedes(old, end)
  <2>1. new = [old EXCEPT !.start = @ + inserted - (end - prefix)]
    BY <1>3, <1>9 DEF Moved
  <2> DEFINE d == Len(t) - Len(s)
  <2>2. /\ new.start = old.start + d /\ new.length = old.length /\ new.mapped
        /\ old.state = new.state
    BY <1>4, <1>5, <1>6, <1>8, <2>1 DEF ConflictState
  <2>3. end <= old.start /\ d \in Int
    BY <1>4, <1>9 DEF Precedes
  <2>4. End(new) = End(old) + d
    BY <1>4, <1>6, <2>2 DEF End
  <2>5. Mid(s, old.start, End(old)) = Mid(t, new.start, End(new))
    <3>1. suffix <= Len(s) /\ suffix <= Len(t) /\ Len(s) - suffix <= old.start
      BY <1>1, <1>2, <1>4, <2>3
    <3>2. /\ new.start \in Nat /\ End(new) \in Nat
          /\ new.start = old.start + Len(t) - Len(s) /\ End(new) = End(old) + Len(t) - Len(s)
      BY <1>1, <1>2, <1>4, <1>6, <2>2, <2>4, <3>1, SMTT(30)
    <3>3. /\ old.start \in Nat /\ End(old) \in Nat /\ old.start <= End(old)
          /\ End(old) <= Len(s) /\ end \in Nat /\ end <= Len(s) /\ end <= old.start
      BY <1>6, <1>8, <2>3
    <3> DEFINE tail == Len(t) - suffix
    <3>4. /\ tail \in Nat /\ tail <= Len(t) /\ Len(s) - end = Len(t) - tail
          /\ Mid(s, end, Len(s)) = Mid(t, tail, Len(t))
      BY <1>1, <1>2, <1>4
    <3> HIDE DEF d, end, tail
    <3> QED BY ONLY s \in Seq(STRING), t \in Seq(STRING), <3>2, <3>3, <3>4, MidShift
  <2>6. End(new) <= Len(t)
    BY <1>4, <1>6, <2>4
  <2> QED BY <1>7, <2>2, <2>4, <2>5, <2>6 DEF ValidRange, Fragments, old, new
<1>10. CASE ~Precedes(old, end) /\ Touches(old, prefix, end)
  <2>1. new = Touched(old, prefix, end, inserted, Inside(old, prefix, end), "NeedsReview")
    BY <1>3, <1>10 DEF Moved
  <2>2. new.state = "NeedsReview"
    BY <2>1 DEF Touched
  <2> QED BY <1>7, <2>2
<1>11. CASE ~Precedes(old, end) /\ ~Touches(old, prefix, end)
  <2>1. new = old
    BY <1>3, <1>11 DEF Moved
  <2>2. End(old) <= prefix
    BY <1>1, <1>6, <1>8, <1>11 DEF Precedes, Touches
  <2>3. Mid(s, old.start, End(old)) = Mid(t, old.start, End(old))
    BY <1>1, <1>4, <1>6, <1>8, <2>2, MidSame
  <2>4. End(old) <= Len(t)
    BY <1>1, <1>4, <1>6, <1>8, <2>2
  <2> QED BY <1>6, <1>7, <2>1, <2>3, <2>4 DEF ValidRange, Fragments, old, new
<1> QED BY <1>9, <1>10, <1>11

LEMMA ResolvedBefore ==
  ASSUME NEW s, NEW t, NEW m \in Metadata, NEW c \in Conflict,
         DocumentEdited(m, s, t).conflicts[c].state = "Resolved"
  PROVE  m.conflicts[c].state = "Resolved"
<1> DEFINE prefix == CommonPrefix(s, t)
           suffix == CommonSuffix(s, t, prefix)
           end == Len(s) - suffix
           inserted == Len(t) - suffix - prefix
           old == m.conflicts[c]
<1>1. DocumentEdited(m, s, t).conflicts[c] = Moved(old, prefix, end, inserted)
  BY DEF DocumentEdited
<1>2. old \in ConflictState
  BY DEF Metadata
<1>3. Moved(old, prefix, end, inserted).state = "Resolved"
  BY <1>1
<1> HIDE DEF prefix, suffix, end, inserted, old
<1>4. old.state = "Resolved"
  BY <1>2, <1>3 DEF Moved, Touched, ConflictState
<1> QED BY <1>4 DEF old

LEMMA SignalledKeepsFragment ==
  ASSUME NEW s \in Seq(STRING), NEW t \in Seq(STRING), NEW m, Fits(s, m), NEW c \in Conflict,
         m.conflicts[c].mapped, ValidRange(s, m.conflicts[c]),
         NEW n \in Signalled(m, s, t), n.conflicts[c].state = "Resolved"
  PROVE  Fragments(t, n.conflicts[c]) = Fragments(s, m.conflicts[c])
<1> DEFINE prefix == CommonPrefix(s, t)
           suffix == CommonSuffix(s, t, prefix)
           kept == Mid(s, 0, prefix) \o Mid(s, Len(s) - suffix, Len(s))
           between == DocumentEdited(m, s, kept)
<1>1. kept \in Seq(STRING)
  BY KeptType
<1>2. n = DocumentEdited(m, s, t) \/ n = DocumentEdited(between, kept, t)
  BY DEF Signalled
<1> HIDE DEF kept
<1>3. m \in Metadata /\ between \in Metadata
  BY <1>1, DocumentEditedFits DEF Fits
<1>4. CASE n = DocumentEdited(m, s, t)
  BY <1>3, <1>4, EditKeepsFragment
<1>5. CASE n = DocumentEdited(between, kept, t)
  <2>1. between.conflicts[c].state = "Resolved"
    BY <1>3, <1>5, ResolvedBefore
  <2>2. /\ between.conflicts[c].mapped /\ ValidRange(kept, between.conflicts[c])
        /\ Fragments(kept, between.conflicts[c]) = Fragments(s, m.conflicts[c])
    BY <1>1, <1>3, <2>1, EditKeepsFragment
  <2> HIDE DEF between
  <2>3. Fragments(t, n.conflicts[c]) = Fragments(kept, between.conflicts[c])
    BY <1>1, <1>3, <1>5, <2>2, EditKeepsFragment
  <2> QED BY <2>2, <2>3
<1> QED BY <1>2, <1>4, <1>5

Joined(x, f, z) == (x \o f) \o z

LEMMA JoinedParts ==
  ASSUME NEW x \in Seq(STRING), NEW f \in Seq(STRING), NEW z \in Seq(STRING)
  PROVE  Joined(x, f, z) \in Seq(STRING)
BY ConcatThree DEF Joined

LEMMA JoinedLength ==
  ASSUME NEW x \in Seq(STRING), NEW f \in Seq(STRING), NEW z \in Seq(STRING),
         NEW u \in Seq(STRING), u = Joined(x, f, z)
  PROVE  Len(u) = Len(x) + Len(f) + Len(z)
BY ConcatThree DEF Joined

LEMMA JoinedElements ==
  ASSUME NEW x \in Seq(STRING), NEW f \in Seq(STRING), NEW z \in Seq(STRING),
         NEW u \in Seq(STRING), u = Joined(x, f, z)
  PROVE  /\ \A k \in 1..Len(x) : u[k] = x[k]
         /\ \A k \in 1..Len(z) : u[Len(x) + Len(f) + k] = z[k]
<1> DEFINE g == x \o f
           n == Len(x) + Len(f)
<1>1. /\ g \in Seq(STRING) /\ Len(g) = n /\ n \in Nat
      /\ \A k \in 1..Len(x) : g[k] = x[k]
  OBVIOUS
<1>2. u = g \o z
  BY DEF Joined
<1> HIDE DEF g
<1>3. /\ \A k \in 1..Len(g) : u[k] = g[k]
      /\ \A k \in 1..Len(z) : u[Len(g) + k] = z[k]
  BY <1>1, <1>2, SMTT(30)
<1> QED BY <1>1, <1>3

LEMMA JoinedFront ==
  ASSUME NEW x \in Seq(STRING), NEW f \in Seq(STRING), NEW z \in Seq(STRING),
         NEW u \in Seq(STRING), u = Joined(x, f, z)
  PROVE  Mid(u, 0, Len(x)) = x
<1>1. /\ Len(u) = Len(x) + Len(f) + Len(z) /\ Len(u) \in Nat
      /\ Len(x) \in Nat /\ Len(f) \in Nat /\ Len(z) \in Nat
  BY JoinedLength
<1>2. \A k \in 1..Len(x) : u[k] = x[k]
  BY JoinedElements
<1> DEFINE v == Mid(u, 0, Len(x))
<1>3. /\ v \in Seq(STRING) /\ Len(v) = Len(x) - 0
      /\ \A k \in 1..(Len(x) - 0) : v[k] = u[0 + k]
  <2>1. 0 \in Nat /\ 0 <= Len(x) /\ Len(x) <= Len(u)
    BY <1>1
  <2> QED BY <1>1, <2>1, MidType, ZenonT(30)
<1> HIDE DEF v
<1>4. Len(v) = Len(x) /\ \A k \in 1..Len(v) : v[k] = x[k]
  BY <1>1, <1>2, <1>3
<1>5. v = x
  BY <1>3, <1>4, SeqEqual
<1> QED BY <1>5 DEF v

LEMMA JoinedBack ==
  ASSUME NEW x \in Seq(STRING), NEW f \in Seq(STRING), NEW z \in Seq(STRING),
         NEW u \in Seq(STRING), u = Joined(x, f, z)
  PROVE  Mid(u, Len(x) + Len(f), Len(u)) = z
<1>1. /\ Len(u) = Len(x) + Len(f) + Len(z) /\ Len(u) \in Nat
      /\ Len(x) \in Nat /\ Len(f) \in Nat /\ Len(z) \in Nat
  BY JoinedLength
<1> DEFINE n == Len(x) + Len(f)
           v == Mid(u, n, Len(u))
<1>2. \A k \in 1..Len(z) : u[n + k] = z[k]
  BY JoinedElements
<1>3. n \in Nat /\ n <= Len(u) /\ Len(u) <= Len(u) /\ Len(u) - n = Len(z)
  BY <1>1
<1> HIDE DEF n
<1>4. /\ v \in Seq(STRING) /\ Len(v) = Len(u) - n
      /\ \A k \in 1..(Len(u) - n) : v[k] = u[n + k]
  BY <1>1, <1>3, MidType, ZenonT(30)
<1> HIDE DEF v
<1>5. Len(v) = Len(z) /\ \A k \in 1..Len(v) : v[k] = z[k]
  BY <1>2, <1>3, <1>4
<1>6. v = z
  BY <1>4, <1>5, SeqEqual
<1> QED BY <1>6 DEF v, n

\* Two texts that end alike, from places x and y on; a place of the one and the same place,
\* counted from the end, of the other.
SameTail(s, x, t, y) == /\ x <= Len(s) /\ y <= Len(t) /\ Len(s) - x = Len(t) - y
                        /\ Mid(s, x, Len(s)) = Mid(t, y, Len(t))
SamePlace(s, i, t, p) == p = i + Len(t) - Len(s)

LEMMA TailShift ==
  ASSUME NEW s \in Seq(STRING), NEW t \in Seq(STRING), NEW x \in Nat, NEW y \in Nat,
         SameTail(s, x, t, y),
         NEW i \in Nat, NEW j \in Nat, x <= i, i <= j, j <= Len(s),
         NEW p \in Nat, NEW q \in Nat, SamePlace(s, i, t, p), SamePlace(s, j, t, q)
  PROVE  Mid(s, i, j) = Mid(t, p, q)
BY MidShift DEF SameTail, SamePlace

\* A part of the text replaced by a fragment; what lies before and behind it.
Spliced(t, s, a, b, f) == t = Joined(Mid(s, 0, a), f, Mid(s, b, Len(s)))

SpliceLength(t, s, a, b, f) == Len(t) = Len(s) + Len(f) - (b - a)

LEMMA OutsideOfReplaced ==
  ASSUME NEW s \in Seq(STRING), NEW f \in Seq(STRING), NEW a \in Nat, NEW b \in Nat,
         a <= b, b <= Len(s), NEW t, Spliced(t, s, a, b, f)
  PROVE  /\ t \in Seq(STRING) /\ SpliceLength(t, s, a, b, f)
         /\ \A i, j \in Nat : i <= j /\ j <= a => Mid(s, i, j) = Mid(t, i, j)
         /\ \A i, j, p, q \in Nat :
              b <= i /\ i <= j /\ j <= Len(s) /\ SamePlace(s, i, t, p) /\ SamePlace(s, j, t, q)
              => Mid(s, i, j) = Mid(t, p, q)
<1>1. PICK x : x = Mid(s, 0, a)
  OBVIOUS
<1>2. PICK z : z = Mid(s, b, Len(s))
  OBVIOUS
<1>3. /\ Len(s) \in Nat /\ Len(f) \in Nat /\ a <= Len(s) /\ 0 \in Nat /\ 0 <= a
      /\ Len(s) <= Len(s)
  OBVIOUS
<1>4. x \in Seq(STRING) /\ Len(x) = a
  <2>1. x \in Seq(STRING) /\ Len(x) = a - 0
    BY <1>1, <1>3, MidType
  <2> QED BY <2>1
<1>5. z \in Seq(STRING) /\ Len(z) = Len(s) - b
  BY <1>2, <1>3, MidType
<1>6. t = Joined(x, f, z)
  BY <1>1, <1>2 DEF Spliced
<1>7. /\ t \in Seq(STRING) /\ Len(t) = Len(x) + Len(f) + Len(z)
      /\ Mid(t, 0, Len(x)) = x /\ Mid(t, Len(x) + Len(f), Len(t)) = z
  <2>1. t \in Seq(STRING)
    BY <1>4, <1>5, <1>6, JoinedParts
  <2>2. Len(t) = Len(x) + Len(f) + Len(z)
    BY ONLY f \in Seq(STRING), <1>4, <1>5, <1>6, <2>1, JoinedLength
  <2>3. Mid(t, 0, Len(x)) = x
    BY <1>4, <1>5, <1>6, <2>1, JoinedFront
  <2>4. Mid(t, Len(x) + Len(f), Len(t)) = z
    <3>1. x \in Seq(STRING) /\ z \in Seq(STRING)
      BY <1>4, <1>5
    <3> QED BY ONLY f \in Seq(STRING), <3>1, <1>6, <2>1, JoinedBack
  <2> QED BY <2>1, <2>2, <2>3, <2>4
<1>8. PICK y \in Nat : y = Len(x) + Len(f)
  BY <1>3, <1>4
<1>9. /\ t \in Seq(STRING) /\ Len(t) \in Nat /\ Len(t) = Len(s) + Len(f) - (b - a)
      /\ a <= Len(t) /\ y <= Len(t) /\ Len(s) - b = Len(t) - y
  BY <1>3, <1>4, <1>5, <1>7, <1>8
<1>10. Mid(s, 0, a) = Mid(t, 0, a) /\ Mid(s, b, Len(s)) = Mid(t, y, Len(t))
  BY <1>1, <1>2, <1>4, <1>7, <1>8
<1>11. \A i, j \in Nat : i <= j /\ j <= a => Mid(s, i, j) = Mid(t, i, j)
  <2>1. t \in Seq(STRING) /\ a <= Len(t) /\ a <= Len(s) /\ Mid(s, 0, a) = Mid(t, 0, a)
    BY ONLY <1>3, <1>9, <1>10
  <2> QED BY ONLY <2>1, s \in Seq(STRING), a \in Nat, MidSame
<1>12. t \in Seq(STRING) /\ SameTail(s, b, t, y)
  BY ONLY <1>9, <1>10, b <= Len(s) DEF SameTail
<1>13. \A i, j, p, q \in Nat :
         b <= i /\ i <= j /\ j <= Len(s) /\ SamePlace(s, i, t, p) /\ SamePlace(s, j, t, q)
         => Mid(s, i, j) = Mid(t, p, q)
  BY ONLY s \in Seq(STRING), b \in Nat, y \in Nat, <1>12, TailShift
<1>14. SpliceLength(t, s, a, b, f)
  BY <1>9 DEF SpliceLength
<1> QED BY <1>9, <1>11, <1>13, <1>14

\* Choosing another conflict moves a conflict with a range of its own, and its text.
LEMMA ChooseKeepsFragment ==
  ASSUME Inv, NEW c \in Conflict, NEW d \in Conflict, c # d,
         NEW fragment \in Fragment[d], NEW state \in State, Replaceable(d),
         current.conflicts[c].mapped, StandsAlone(text, current, c)
  PROVE  Fragments(ReplacedText(d, fragment), Replaced(d, fragment, state).conflicts[c])
           = Fragments(text, current.conflicts[c])
<1>1. PICK own \in ConflictState : own = current.conflicts[c]
  BY CurrentIsGood DEF Metadata
<1>2. PICK old \in ConflictState : old = current.conflicts[d]
  BY CurrentIsGood DEF Metadata
<1>3. PICK f \in Seq(STRING) : f = fragment.text
  BY ConstantsAssumption
<1>4. PICK t : t = ReplacedText(d, fragment)
  OBVIOUS
<1>5. PICK new : new = Replaced(d, fragment, state).conflicts[c]
  OBVIOUS
<1>6. text \in Seq(STRING) /\ Len(text) \in Nat /\ Len(f) \in Nat
  BY CurrentIsGood
<1>7. /\ old.start \in Nat /\ old.length \in Nat /\ End(old) = old.start + old.length
      /\ End(old) \in Nat /\ End(old) <= Len(text) /\ old.start <= End(old) /\ old.mapped
  BY <1>2 DEF ConflictState, End, ValidRange, Replaceable
<1>8. /\ own.start \in Nat /\ own.length \in Nat /\ End(own) = own.start + own.length
      /\ End(own) \in Nat /\ End(own) <= Len(text) /\ own.start <= End(own) /\ own.mapped
  BY <1>1 DEF ConflictState, End, ValidRange, StandsAlone
<1>9. /\ t \in Seq(STRING) /\ Len(t) = Len(text) + Len(f) - (End(old) - old.start)
      /\ \A i, j \in Nat : i <= j /\ j <= old.start => Mid(text, i, j) = Mid(t, i, j)
      /\ \A i, j, p, q \in Nat :
           /\ End(old) <= i /\ i <= j /\ j <= Len(text)
           /\ SamePlace(text, i, t, p) /\ SamePlace(text, j, t, q)
           => Mid(text, i, j) = Mid(t, p, q)
  <2>1. PICK a \in Nat : a = old.start
    BY <1>7
  <2>2. PICK b \in Nat : b = End(old)
    BY <1>7
  <2>3. Spliced(t, text, a, b, f) /\ a <= b /\ b <= Len(text)
    BY <1>2, <1>3, <1>4, <1>7, <2>1, <2>2 DEF ReplacedText, Spliced, Joined
  <2>4. t \in Seq(STRING) /\ SpliceLength(t, text, a, b, f)
    BY ONLY <1>6, <2>3, f \in Seq(STRING), a \in Nat, b \in Nat, OutsideOfReplaced
  <2>5. \A i, j \in Nat : i <= j /\ j <= a => Mid(text, i, j) = Mid(t, i, j)
    BY ONLY <1>6, <2>3, f \in Seq(STRING), a \in Nat, b \in Nat, OutsideOfReplaced
  <2>6. \A i, j, p, q \in Nat :
           b <= i /\ i <= j /\ j <= Len(text) /\ SamePlace(text, i, t, p) /\ SamePlace(text, j, t, q)
           => Mid(text, i, j) = Mid(t, p, q)
    BY ONLY <1>6, <2>3, f \in Seq(STRING), a \in Nat, b \in Nat, OutsideOfReplaced
  <2>7. Len(t) = Len(text) + Len(f) - (End(old) - old.start)
    BY ONLY <2>1, <2>2, <2>4 DEF SpliceLength
  <2>8. \A i, j \in Nat : i <= j /\ j <= old.start => Mid(text, i, j) = Mid(t, i, j)
    BY ONLY <2>1, <2>5
  <2>9. \A i, j, p, q \in Nat :
           /\ End(old) <= i /\ i <= j /\ j <= Len(text)
           /\ SamePlace(text, i, t, p) /\ SamePlace(text, j, t, q)
           => Mid(text, i, j) = Mid(t, p, q)
    BY ONLY <2>2, <2>6
  <2> QED BY <2>4, <2>7, <2>8, <2>9
<1>10. new = IF own.mapped /\ own.start >= End(old)
              THEN [own EXCEPT !.start = @ + Len(f) - old.length] ELSE own
  <2>1. own.start + (Len(f) - old.length) = own.start + Len(f) - old.length
    BY <1>6, <1>7, <1>8
  <2> QED BY <1>1, <1>2, <1>3, <1>5, <2>1 DEF Replaced
<1>11. ~Overlap(own, old) /\ ~(own.start < old.start /\ old.start < End(own))
  BY <1>1, <1>2, <1>7 DEF Replaceable, StandsAlone
<1>12. Mid(text, own.start, End(own)) = Mid(t, new.start, End(new))
  <2>1. CASE own.start >= End(old)
    <3>1. new.start = own.start + Len(f) - old.length /\ new.length = own.length
      BY <1>8, <1>10, <2>1 DEF ConflictState
    <3>2. End(new) = new.start + new.length
      BY DEF End
    <3>3. PICK n \in Int : n = own.start + Len(f) - old.length
      BY <1>6, <1>7, <1>8
    <3>4. n \in Nat /\ n + own.length \in Nat
      <4>1. /\ own.start \in Nat /\ own.length \in Nat /\ old.start \in Nat /\ old.length \in Nat
            /\ own.start >= old.start + old.length /\ Len(f) \in Nat
        BY ONLY <1>6, <1>7, <1>8, <2>1
      <4> QED BY ONLY <4>1, <3>3, n \in Int, SMTT(30)
    <3>5. new.start = n /\ End(new) = n + own.length
      BY ONLY <3>1, <3>2, <3>3
    <3>6. SamePlace(text, own.start, t, n) /\ SamePlace(text, End(own), t, n + own.length)
      <4>1. PICK l \in Int : l = Len(t)
        BY <1>9
      <4>2. l = Len(text) + Len(f) - old.length
        BY ONLY <4>1, <1>6, <1>7, <1>9
      <4>3. n = own.start + l - Len(text) /\ n + own.length = End(own) + l - Len(text)
        <5>1. /\ own.start \in Nat /\ own.length \in Nat /\ old.start \in Nat /\ old.length \in Nat
              /\ End(own) = own.start + own.length /\ Len(f) \in Nat /\ Len(text) \in Nat
          BY ONLY <1>6, <1>7, <1>8
        <5> QED BY ONLY <5>1, <3>3, <4>2, n \in Int, l \in Int, SMTT(30)
      <4> QED BY ONLY <4>1, <4>3 DEF SamePlace
    <3>7. PICK e \in Nat : e = n + own.length
      BY <3>4
    <3> QED BY ONLY <1>8, <1>9, <2>1, <3>4, <3>5, <3>6, <3>7, n \in Nat,
                    End(old) <= own.start
  <2>2. CASE ~(own.start >= End(old)) /\ own.length = 0
    <3>1. new = own /\ End(own) = own.start
      BY <1>8, <1>10, <2>2
    <3>2. Mid(text, own.start, own.start) = <<>> /\ Mid(t, own.start, own.start) = <<>>
      BY ONLY <1>6, <1>8, <1>9, MidEmpty
    <3> QED BY <3>1, <3>2
  <2>3. CASE ~(own.start >= End(old)) /\ own.length # 0
    <3>1. End(own) <= old.start
      <4>1. CASE old.length = 0
        BY <1>7, <1>8, <1>11, <2>3, <4>1
      <4>2. CASE old.length # 0
        BY <1>7, <1>8, <1>11, <2>3, <4>2 DEF Overlap
      <4> QED BY <4>1, <4>2
    <3>2. new = own
      BY <1>10, <2>3
    <3> QED BY <1>8, <1>9, <3>1, <3>2
  <2> QED BY <2>1, <2>2, <2>3
<1> QED BY <1>1, <1>4, <1>5, <1>12 DEF Fragments

\* The text of a resolved conflict with a range of its own is that of its resolution:
\* typing into it takes the state away, choosing another conflict moves it with its text
\* (documentEdited, replaceConflictFragment).
THEOREM ResolutionsStay ==
  ASSUME SessionAsksForReview PROVE Spec => ResolvedTextStays
<1> DEFINE Stays(c) ==
      LET old == current.conflicts[c]
          new == current'.conflicts[c]
      IN /\ old.state = "Resolved" /\ new.state = "Resolved"
         /\ StandsAlone(text, current, c)
         => \/ Fragments(text, old) = Fragments(text', new)
            \/ Undo \/ Redo \/ DiscardChanges \/ RestoreDraft
            \/ \E f \in Fragment[c], state \in State : ChooseConflict(c, f, state)
<1>1. ASSUME Inv, [Next]_vars, NEW c \in Conflict PROVE Stays(c)
  <2> DEFINE old == current.conflicts[c]
             new == current'.conflicts[c]
  <2> SUFFICES ASSUME old.state = "Resolved", new.state = "Resolved",
                      StandsAlone(text, current, c),
                      ~Undo, ~Redo, ~DiscardChanges, ~RestoreDraft,
                      ~\E f \in Fragment[c], state \in State : ChooseConflict(c, f, state)
               PROVE  Fragments(text, old) = Fragments(text', new)
    OBVIOUS
  <2>1. /\ Good(text, current) /\ text \in Seq(STRING) /\ text \in Text
        /\ current \in Metadata /\ old \in ConflictState /\ TypeOK /\ HistInv
    BY <1>1, CurrentIsGood DEF Metadata, Inv
  <2>2. Fits(text, current) /\ old.mapped /\ ValidRange(text, old)
    BY <2>1 DEF Good, Reviewed, StandsAlone
  <2>3. ASSUME NEW t \in Text, NEW m \in Signalled(current, text, t), text' = t, current' = m
        PROVE  Fragments(text, old) = Fragments(text', new)
    <3>1. t \in Seq(STRING)
      BY ConstantsAssumption
    <3> QED BY <2>1, <2>2, <2>3, <3>1, SignalledKeepsFragment
  <2>4. CASE Type
    <3>1. PICK t \in Text : \E m \in Signalled(current, text, t) :
            Push([id |-> pushed + 1, native |-> TRUE, before |-> text, after |-> t], t, m, FALSE)
      BY <2>4 DEF Type
    <3>2. PICK m \in Signalled(current, text, t) :
            Push([id |-> pushed + 1, native |-> TRUE, before |-> text, after |-> t], t, m, FALSE)
      BY <3>1
    <3> DEFINE command == [id |-> pushed + 1, native |-> TRUE, before |-> text, after |-> t]
    <3>3. /\ command \in Command /\ command.id = pushed + 1 /\ command.before = text
          /\ command.after = t /\ command.native /\ Good(t, m)
      <4>1. pushed + 1 \in Nat \ {0}
        BY <2>1 DEF TypeOK
      <4> QED BY <1>1, <2>1, <4>1, SignalledGood DEF Command
    <3>4. Push(command, t, m, FALSE)
      BY <3>2
    <3> HIDE DEF command
    <3>5. text' = t /\ current' = m
      BY <1>1, <3>3, <3>4, PushKeepsInv
    <3> QED BY <2>3, <3>5
  <2>5. CASE TypeMore
    <3>1. PICK t \in Text \ {text} : \E m \in Signalled(current, text, t) :
            UndoIndexChanged(SubSeq(stack, 1, index - 1) \o <<[stack[index] EXCEPT !.after = t]>>,
                             index, t, m, FALSE)
      BY <2>5 DEF TypeMore
    <3>2. PICK m \in Signalled(current, text, t) :
            UndoIndexChanged(SubSeq(stack, 1, index - 1) \o <<[stack[index] EXCEPT !.after = t]>>,
                             index, t, m, FALSE)
      BY <3>1
    <3>3. index > 0 /\ stack[index].native /\ m \in Metadata /\ t \in Text /\ t # text
      BY <1>1, <2>5, SignalledGood DEF TypeMore
    <3>4. Amended(t, m)
      BY <2>1, <3>2, <3>3, TypeMoreAmends
    <3> QED BY <2>3, <3>4 DEF Amended
  <2>6. ASSUME NEW d \in Conflict, NEW state \in State, NEW fragment \in Fragment[d],
               ChooseConflict(d, fragment, state)
        PROVE  Fragments(text, old) = Fragments(text', new)
    <3> DEFINE t == ReplacedText(d, fragment)
               m == Replaced(d, fragment, state)
    <3>1. d # c
      BY <2>6
    <3>2. Replaceable(d) /\ t \in Text /\ Serializable(t, m) /\ PushMerge(t, m)
      BY <2>6 DEF ChooseConflict, ReplacedText
    <3>3. Fragments(t, m.conflicts[c]) = Fragments(text, old)
      BY <1>1, <2>2, <3>1, <3>2, ChooseKeepsFragment
    <3>4. text' = t /\ current' = m
      <4>1. /\ m \in Metadata /\ (Placed(text, current) => Placed(t, m))
            /\ (Reviewed(current) => Reviewed(m))
        BY <1>1, <3>2, ReplacedPlaced
      <4>2. Len(m.endings) = Newlines(t)
        BY <3>2 DEF Serializable
      <4> HIDE DEF t, m
      <4>3. Good(t, m)
        BY <2>1, <4>1, <4>2 DEF Good, Fits
      <4> QED BY <1>1, <3>2, <4>3, PushMergeKeepsInv
    <3> QED BY <3>3, <3>4
  <2>7. ASSUME NEW d \in Conflict, NEW state \in State, ChangeState(d, state)
        PROVE  Fragments(text, old) = Fragments(text', new)
    <3>1. /\ text' = text /\ current' = [current EXCEPT !.conflicts[d].state = state]
      BY <1>1, <2>7, ChangeStateKeepsInv
    <3> QED BY <2>1, <3>1 DEF Fragments, End, Metadata, ConflictState
  <2>8. ASSUME NEW d \in Conflict, ReviewConflictRange(d)
        PROVE  Fragments(text, old) = Fragments(text', new)
    <3>1. /\ text' = text /\ \A e \in Conflict : \/ current'.conflicts[e] = current.conflicts[e]
                                                \/ current'.conflicts[e].state = "NeedsReview"
      BY <1>1, <2>8, ReviewKeepsInv
    <3> QED BY <3>1
  <2>9. CASE RequestSave \/ AcknowledgeSaved \/ SaveFailed \/ UNCHANGED vars
    <3>1. text' = text /\ current' = current
      BY <2>9 DEF RequestSave, AcknowledgeSaved, SaveFailed, vars
    <3> QED BY <3>1
  <2>10. {"Resolved", "NeedsReview", "Unresolved"} \subseteq State
    BY DEF State
  <2> QED BY <1>1, <2>4, <2>5, <2>6, <2>7, <2>8, <2>9, <2>10 DEF Next
<1>2. Inv /\ [Next]_vars => \A c \in Conflict : Stays(c)
  BY <1>1
<1> QED BY <1>2, InvHolds, PTL DEF Spec, ResolvedTextStays

-----------------------------------------------------------------------------
(* The editor implements UndoHistory.                                      *)

\* The mapping of the refinement: what can be undone and redone at index i of h.
Snapshot == [text : Text, metadata : Metadata]
PastOf(h, i) == [j \in 1..i |-> Known(h[j])]
FutureOf(h, i) == [j \in 1..Len(h) - i - 1 |-> Known(h[i + 1 + j])]
Now == [text |-> text, metadata |-> current]
Past == PastOf(history, index)
Future == FutureOf(history, index)

LEMMA Mapping ==
  ASSUME NEW h \in Seq(HEntry), NEW n \in Nat, NEW i \in 0..n, Len(h) = n + 1
  PROVE  /\ PastOf(h, i) \in Seq(Snapshot) /\ Len(PastOf(h, i)) = i /\ i \in Nat
         /\ FutureOf(h, i) \in Seq(Snapshot) /\ Len(FutureOf(h, i)) = n - i
         /\ Known(h[i + 1]) \in Snapshot
         /\ \A j \in 1..i : PastOf(h, i)[j] = Known(h[j])
         /\ \A j \in 1..(n - i) : FutureOf(h, i)[j] = Known(h[i + 1 + j])
<1>1. \A j \in 1..(n + 1) : h[j] \in HEntry
  OBVIOUS
<1>2. \A j \in 1..(n + 1) : Known(h[j]) \in Snapshot
  BY <1>1 DEF HEntry, Known, Snapshot
<1>3. i \in Nat /\ i + 1 \in 1..(n + 1) /\ \A j \in 1..i : j \in 1..(n + 1)
  OBVIOUS
<1>4. /\ Len(h) - i - 1 = n - i /\ n - i \in Nat
      /\ \A j \in 1..(n - i) : i + 1 + j \in 1..(n + 1)
  OBVIOUS
<1>5. PastOf(h, i) \in Seq(Snapshot) /\ Len(PastOf(h, i)) = i
  BY <1>2, <1>3 DEF PastOf
<1>6. FutureOf(h, i) = [j \in 1..(n - i) |-> Known(h[i + 1 + j])]
  BY <1>4 DEF FutureOf
<1>7. FutureOf(h, i) \in Seq(Snapshot) /\ Len(FutureOf(h, i)) = n - i
  <2>1. \A j \in 1..(n - i) : Known(h[i + 1 + j]) \in Snapshot
    BY <1>2, <1>4
  <2> QED BY <1>4, <1>6, <2>1
<1> QED BY <1>2, <1>3, <1>5, <1>6, <1>7 DEF PastOf

LEMMA MappingFacts ==
  ASSUME TypeOK, HistInv
  PROVE  /\ Past \in Seq(Snapshot) /\ Len(Past) = index /\ index \in Nat
         /\ Future \in Seq(Snapshot) /\ Len(Future) = Len(stack) - index
         /\ Now \in Snapshot /\ Now = Known(history[index + 1])
         /\ \A i \in 1..index : Past[i] = Known(history[i])
         /\ \A i \in 1..(Len(stack) - index) : Future[i] = Known(history[index + 1 + i])
<1>1. /\ index \in 0..Len(stack) /\ Len(stack) \in Nat /\ Len(history) = Len(stack) + 1
      /\ history \in Seq(HEntry)
      /\ history[index + 1].text = text /\ history[index + 1].metadata = current
  BY DEF TypeOK, HEntry, HistInv, HistoryFollowsStack
<1>2. Now = Known(history[index + 1])
  BY <1>1 DEF Now, Known
<1> QED BY <1>1, <1>2, Mapping, ZenonT(30) DEF Past, Future

LEMMA NextMappingFacts ==
  ASSUME TypeOK', HistInv'
  PROVE  /\ Past' \in Seq(Snapshot) /\ Len(Past') = index' /\ index' \in Nat
         /\ Future' \in Seq(Snapshot) /\ Len(Future') = Len(stack') - index'
         /\ Now' \in Snapshot /\ Now' = Known(history'[index' + 1])
         /\ \A i \in 1..index' : Past'[i] = Known(history'[i])
         /\ \A i \in 1..(Len(stack') - index') : Future'[i] = Known(history'[index' + 1 + i])
<1>1. /\ index' \in 0..Len(stack') /\ Len(stack') \in Nat /\ Len(history') = Len(stack') + 1
      /\ history' \in Seq(HEntry)
      /\ history'[index' + 1].text = text' /\ history'[index' + 1].metadata = current'
  BY DEF TypeOK, HEntry, HistInv, HistoryFollowsStack
<1>0. /\ history' \in Seq(HEntry) /\ Len(stack') \in Nat /\ index' \in 0..Len(stack')
      /\ Len(history') = Len(stack') + 1
  BY ONLY <1>1
<1>2. Now' = Known(history'[index' + 1])
  BY <1>1 DEF Now, Known
<1>3. Past' = PastOf(history', index') /\ Future' = FutureOf(history', index')
  BY DEF Past, Future, PastOf, FutureOf, Known
<1>4. /\ Past' \in Seq(Snapshot) /\ Len(Past') = index' /\ index' \in Nat
      /\ \A i \in 1..index' : Past'[i] = Known(history'[i])
  <2>1. /\ PastOf(history', index') \in Seq(Snapshot) /\ Len(PastOf(history', index')) = index'
        /\ index' \in Nat
        /\ \A i \in 1..index' : PastOf(history', index')[i] = Known(history'[i])
    BY ONLY <1>0, Mapping
  <2> QED BY ONLY <1>3, <2>1
<1>5. /\ Future' \in Seq(Snapshot) /\ Len(Future') = Len(stack') - index'
      /\ \A i \in 1..(Len(stack') - index') : Future'[i] = Known(history'[index' + 1 + i])
  <2>1. FutureOf(history', index') \in Seq(Snapshot)
    BY ONLY <1>0, Mapping, ZenonT(30)
  <2>2. Len(FutureOf(history', index')) = Len(stack') - index'
    BY ONLY <1>0, Mapping, ZenonT(30)
  <2>3. \A i \in 1..(Len(stack') - index') :
          FutureOf(history', index')[i] = Known(history'[index' + 1 + i])
    BY ONLY <1>0, Mapping, ZenonT(30)
  <2> QED BY ONLY <1>3, <2>1, <2>2, <2>3
<1>6. Known(history'[index' + 1]) \in Snapshot
  BY ONLY <1>0, Mapping
<1> QED BY ONLY <1>2, <1>4, <1>5, <1>6

\* Two sequences with the same elements are the same.
LEMMA SameElements ==
  ASSUME NEW S, NEW p \in Seq(S), NEW q \in Seq(S), Len(p) = Len(q),
         \A i \in 1..Len(p) : p[i] = q[i]
  PROVE  p = q
OBVIOUS

\* A new command is a new step of the history; at the limit the oldest one goes.
LEMMA PushDoes ==
  ASSUME Inv, Inv', Pushed
  PROVE  /\ Now' \in Snapshot /\ Future' = <<>>
         /\ Past' = IF Len(Past) < UndoLimit THEN Append(Past, Now) ELSE Append(Tail(Past), Now)
<1>1. PICK k \in {0, 1} : \E command, t, m : Shifted(k, command, t, m)
  BY DEF Pushed
<1>2. PICK command, t, m : Shifted(k, command, t, m)
  BY <1>1
<1>3. /\ TypeOK /\ HistInv /\ TypeOK' /\ HistInv'
  BY DEF Inv
<1>4. /\ Past \in Seq(Snapshot) /\ Len(Past) = index /\ index \in Nat
      /\ Now \in Snapshot /\ Now = Known(history[index + 1])
      /\ \A i \in 1..index : Past[i] = Known(history[i])
  BY <1>3, MappingFacts
<1>5. /\ Past' \in Seq(Snapshot) /\ Len(Past') = index' /\ index' \in Nat
      /\ Future' \in Seq(Snapshot) /\ Len(Future') = Len(stack') - index' /\ Now' \in Snapshot
      /\ \A i \in 1..index' : Past'[i] = Known(history'[i])
  BY <1>3, NextMappingFacts
<1>6. /\ index' = index + 1 - k /\ Len(stack') = index' /\ index' \in 1..UndoLimit
      /\ k = 1 => index = UndoLimit
      /\ \A j \in 1..(index + 1 - k) : history'[j] = history[j + k]
  BY <1>2 DEF Shifted
<1>7. UndoLimit \in Nat
  BY ConstantsAssumption
<1>8. Future' = <<>>
  BY <1>5, <1>6
<1>9. \A i \in 1..index' : Past'[i] = Known(history[i + k])
  BY <1>5, <1>6
<1>10. CASE k = 0
  <2>1. Len(Past) < UndoLimit /\ index' = index + 1
    BY <1>4, <1>6, <1>7, <1>10
  <2>2. Append(Past, Now) \in Seq(Snapshot) /\ Len(Append(Past, Now)) = index + 1
    BY <1>4
  <2>3. \A i \in 1..(index + 1) : Append(Past, Now)[i] = Known(history[i])
    BY <1>4
  <2>4. \A i \in 1..(index + 1) : Past'[i] = Known(history[i])
    BY <1>4, <1>9, <1>10, <2>1
  <2>5. Past' = Append(Past, Now)
    BY <1>5, <2>1, <2>2, <2>3, <2>4, SameElements
  <2> QED BY <1>5, <1>8, <2>1, <2>5
<1>11. CASE k = 1
  <2> DEFINE q == Append(Tail(Past), Now)
  <2>1. ~(Len(Past) < UndoLimit) /\ index' = index /\ index >= 1
    BY <1>4, <1>6, <1>7, <1>11
  <2>2. /\ Tail(Past) \in Seq(Snapshot) /\ Len(Tail(Past)) = index - 1
        /\ \A i \in 1..(index - 1) : Tail(Past)[i] = Past[i + 1]
    BY <1>4, <2>1
  <2>3. q \in Seq(Snapshot) /\ Len(q) = index
    BY <1>4, <2>1, <2>2
  <2>4. \A i \in 1..index : q[i] = Known(history[i + 1])
    BY <1>4, <2>1, <2>2
  <2>5. \A i \in 1..index : Past'[i] = Known(history[i + 1])
    BY <1>9, <1>11, <2>1
  <2> HIDE DEF q
  <2>6. Past' = q
    BY <1>5, <2>1, <2>3, <2>4, <2>5, SameElements
  <2> QED BY <1>5, <1>8, <2>1, <2>6 DEF q
<1> QED BY <1>10, <1>11

\* Typing that Qt merges into the last command amends the last step.
LEMMA AmendAmends ==
  ASSUME Inv, Inv', index > 0, NEW t \in Text, NEW m \in Metadata, Amended(t, m)
  PROVE  Past # <<>> /\ Now' \in Snapshot /\ Past' = Past /\ Future' = <<>>
<1>1. /\ TypeOK /\ HistInv /\ TypeOK' /\ HistInv'
  BY DEF Inv
<1>2. /\ Past \in Seq(Snapshot) /\ Len(Past) = index /\ index \in Nat
      /\ \A i \in 1..index : Past[i] = Known(history[i])
  BY <1>1, MappingFacts
<1>3. /\ Past' \in Seq(Snapshot) /\ Len(Past') = index'
      /\ Future' \in Seq(Snapshot) /\ Len(Future') = Len(stack') - index' /\ Now' \in Snapshot
      /\ \A i \in 1..index' : Past'[i] = Known(history'[i])
  BY <1>1, NextMappingFacts
<1>4. index' = index /\ Len(stack') = index /\ \A j \in 1..index : history'[j] = history[j]
  BY DEF Amended
<1>5. Past' = Past
  BY <1>2, <1>3, <1>4, SameElements
<1> QED BY <1>2, <1>3, <1>4, <1>5

\* Typed text is undone to the oldest state, and Qt has forgotten the command that led
\* to it: the sidecar does not know the state again and records it anew.
UndoesToForgotten ==
  Undo /\ index = 1 /\ stack[1].native /\ history[1].command # 0

\* Any other undo takes the last state of the past.
LEMMA UndoUndoesState ==
  ASSUME Inv, Inv', Undo, ~UndoesToForgotten
  PROVE  /\ Past # <<>> /\ Now' = Past[Len(Past)]
         /\ Past' = SubSeq(Past, 1, Len(Past) - 1) /\ Future' = <<Now>> \o Future
<1>1. PICK m \in Metadata, e \in HEntry : index > 0 /\ Undone(e, m)
  BY UndoRestores
<1>2. /\ TypeOK /\ HistInv /\ TypeOK' /\ HistInv'
  BY DEF Inv
<1>3. /\ Past \in Seq(Snapshot) /\ Len(Past) = index /\ index \in Nat
      /\ Future \in Seq(Snapshot) /\ Len(Future) = Len(stack) - index
      /\ Now \in Snapshot /\ Now = Known(history[index + 1])
      /\ \A i \in 1..index : Past[i] = Known(history[i])
      /\ \A i \in 1..(Len(stack) - index) : Future[i] = Known(history[index + 1 + i])
  BY <1>2, MappingFacts
<1>4. /\ Past' \in Seq(Snapshot) /\ Len(Past') = index'
      /\ Future' \in Seq(Snapshot) /\ Len(Future') = Len(stack') - index'
      /\ \A i \in 1..index' : Past'[i] = Known(history'[i])
      /\ \A i \in 1..(Len(stack') - index') : Future'[i] = Known(history'[index' + 1 + i])
  BY <1>2, NextMappingFacts
<1>5. /\ index \in 1..Len(stack) /\ Len(stack) \in Nat /\ history \in Seq(HEntry)
      /\ DOMAIN history = 1..(Len(stack) + 1) /\ stack[index].before = history[index].text
  <2>1. index \in 1..Len(stack)
    BY <1>1, <1>2, HistFacts
  <2> QED BY <1>2, <2>1, HistFacts
<1>6. /\ stack' = stack /\ index' = index - 1 /\ text' = history[index].text
      /\ current' = history[index].metadata
      /\ \A j \in 1..(Len(stack) + 1) : j # index => history'[j] = history[j]
  BY <1>1, <1>5 DEF Undone, UndoesToForgotten
<1>7. Now' = Past[Len(Past)] /\ Past # <<>>
  BY <1>1, <1>3, <1>6 DEF Now, Known
<1>8. Past' = SubSeq(Past, 1, Len(Past) - 1)
  <2>1. /\ SubSeq(Past, 1, Len(Past) - 1) \in Seq(Snapshot)
        /\ Len(SubSeq(Past, 1, Len(Past) - 1)) = index - 1
        /\ \A i \in 1..(index - 1) : SubSeq(Past, 1, Len(Past) - 1)[i] = Past[i]
    BY <1>3, <1>5
  <2>2. ASSUME NEW i \in 1..(index - 1) PROVE Past'[i] = Past[i]
    <3>1. i \in 1..index /\ i \in 1..index' /\ i \in 1..(Len(stack) + 1) /\ i # index
      BY <1>5, <1>6
    <3> QED BY <1>3, <1>4, <1>6, <3>1
  <2> QED BY <1>4, <1>6, <2>1, <2>2, SameElements
<1>9. Future' = <<Now>> \o Future
  <2> DEFINE n == Len(stack) - index
             q == <<Now>> \o Future
  <2>1. n \in Nat /\ Len(stack) - (index - 1) = n + 1
    BY <1>5
  <2>2. <<Now>> \in Seq(Snapshot) /\ Len(<<Now>>) = 1 /\ <<Now>>[1] = Now
    BY <1>3
  <2>3. q \in Seq(Snapshot) /\ Len(q) = n + 1
    BY <1>3, <2>1, <2>2
  <2>4. q[1] = Now /\ \A i \in 1..n : q[i + 1] = Future[i]
    BY <1>3, <2>1, <2>2
  <2>5. Future'[1] = Now /\ \A i \in 1..n : Future'[i + 1] = Future[i]
    <3>1. \A i \in 1..(n + 1) : Future'[i] = Known(history[index + i])
      <4> SUFFICES ASSUME NEW i \in 1..(n + 1) PROVE Future'[i] = Known(history[index + i])
        OBVIOUS
      <4>1. (index - 1) + 1 + i = index + i /\ index + i \in 1..(Len(stack) + 1) /\ index + i # index
        BY <1>5, <2>1
      <4> QED BY <1>4, <1>6, <2>1, <4>1
    <3>2. Future'[1] = Known(history[index + 1])
      BY <2>1, <3>1
    <3>3. ASSUME NEW i \in 1..n PROVE Future'[i + 1] = Future[i]
      <4>1. i + 1 \in 1..(n + 1) /\ index + (i + 1) = index + 1 + i
        BY <1>5, <2>1
      <4> QED BY <1>3, <3>1, <4>1
    <3> QED BY <1>3, <3>2, <3>3
  <2>6. \A i \in 1..(n + 1) : i = 1 \/ (i - 1 \in 1..n /\ i = (i - 1) + 1)
    BY <2>1
  <2>7. Future' \in Seq(Snapshot) /\ Len(Future') = n + 1
    BY <1>4, <1>6, <2>1
  <2> HIDE DEF n, q
  <2>8. \A i \in 1..(n + 1) : Future'[i] = q[i]
    BY <2>4, <2>5, <2>6
  <2>9. Future' = q
    BY <2>3, <2>7, <2>8, SameElements
  <2> QED BY <2>9 DEF q
<1> QED BY <1>7, <1>8, <1>9

\* Redo takes the first state of the future.
LEMMA RedoRedoesState ==
  ASSUME Inv, Inv', Redo
  PROVE  /\ Future # <<>> /\ Now' = Head(Future) /\ Future' = Tail(Future)
         /\ Past' = Append(Past, Now)
<1>1. index < Len(stack) /\ Redone
  BY RedoRestores
<1>2. /\ TypeOK /\ HistInv /\ TypeOK' /\ HistInv'
  BY DEF Inv
<1>3. /\ Past \in Seq(Snapshot) /\ Len(Past) = index /\ index \in Nat
      /\ Future \in Seq(Snapshot) /\ Len(Future) = Len(stack) - index
      /\ Now \in Snapshot /\ Now = Known(history[index + 1])
      /\ \A i \in 1..index : Past[i] = Known(history[i])
      /\ \A i \in 1..(Len(stack) - index) : Future[i] = Known(history[index + 1 + i])
  BY <1>2, MappingFacts
<1>4. /\ Past' \in Seq(Snapshot) /\ Len(Past') = index'
      /\ Future' \in Seq(Snapshot) /\ Len(Future') = Len(stack') - index'
      /\ Now' = Known(history'[index' + 1])
      /\ \A i \in 1..index' : Past'[i] = Known(history'[i])
      /\ \A i \in 1..(Len(stack') - index') : Future'[i] = Known(history'[index' + 1 + i])
  BY <1>2, NextMappingFacts
<1>5. stack' = stack /\ history' = history /\ index' = index + 1 /\ Len(stack) \in Nat
  BY <1>1, <1>2, HistFacts DEF Redone
<1>6. Future # <<>> /\ Now' = Head(Future)
  BY <1>1, <1>3, <1>4, <1>5
<1>7. Past' = Append(Past, Now)
  <2>1. Append(Past, Now) \in Seq(Snapshot) /\ Len(Append(Past, Now)) = index + 1
    BY <1>3
  <2>2. \A i \in 1..(index + 1) : Append(Past, Now)[i] = Known(history[i])
    BY <1>3
  <2>3. \A i \in 1..(index + 1) : Past'[i] = Known(history[i])
    BY <1>4, <1>5
  <2> QED BY <1>4, <1>5, <2>1, <2>2, <2>3, SameElements
<1>8. Future' = Tail(Future)
  <2>1. /\ Tail(Future) \in Seq(Snapshot) /\ Len(Tail(Future)) = Len(stack) - (index + 1)
        /\ \A i \in 1..(Len(stack) - (index + 1)) : Tail(Future)[i] = Future[i + 1]
    BY <1>1, <1>3, <1>5, <1>6
  <2>2. ASSUME NEW i \in 1..(Len(stack) - (index + 1)) PROVE Future'[i] = Future[i + 1]
    <3>1. /\ i + 1 \in 1..(Len(stack) - index)
          /\ (index + 1) + 1 + i = index + 1 + (i + 1)
      BY <1>1, <1>3, <1>5
    <3>2. Future[i + 1] = Known(history[index + 1 + (i + 1)])
      BY <1>3, <3>1
    <3>3. Future'[i] = Known(history[(index + 1) + 1 + i])
      BY <1>4, <1>5
    <3> QED BY <3>1, <3>2, <3>3
  <2> QED BY <1>4, <1>5, <2>1, <2>2, SameElements
<1> QED BY <1>6, <1>7, <1>8

\* A load leaves nothing to undo.
LEMMA LoadLoads ==
  ASSUME Inv, Inv', NEW t, NEW m, Load(t, m)
  PROVE  Now' \in Snapshot /\ Past' = <<>> /\ Future' = <<>>
<1>1. TypeOK' /\ HistInv'
  BY DEF Inv
<1>2. /\ Past' \in Seq(Snapshot) /\ Len(Past') = index' /\ Now' \in Snapshot
      /\ Future' \in Seq(Snapshot) /\ Len(Future') = Len(stack') - index'
  BY <1>1, NextMappingFacts
<1>3. index' = 0 /\ stack' = <<>>
  BY DEF Load
<1> QED BY <1>2, <1>3

LEMMA StepRefines ==
  ASSUME Inv, Inv', [Next]_vars, ~UndoesToForgotten
  PROVE  [History!Next]_(History!vars)
<1> USE DEF History!Next, Now, Past, Future, PastOf, FutureOf
<1>1. ASSUME Pushed PROVE History!Do
  BY <1>1, PushDoes DEF History!Do, Snapshot
<1>2. CASE Type
  BY <1>1, <1>2, TypeKeepsInv
<1>3. CASE TypeMore
  <2>1. PICK t \in Text, m \in Metadata : index > 0 /\ Amended(t, m)
    BY <1>3, TypeMoreKeepsInv
  <2>2. History!Amend
    BY <2>1, AmendAmends DEF History!Amend, Snapshot
  <2> QED BY <2>2
<1>4. CASE Undo
  <2>1. History!Undo
    BY <1>4, UndoUndoesState DEF History!Undo, History!Front
  <2> QED BY <2>1
<1>5. CASE Redo
  <2>1. History!Redo
    BY <1>5, RedoRedoesState DEF History!Redo
  <2> QED BY <2>1
<1>6. ASSUME NEW c \in Conflict, NEW state \in {"Resolved", "NeedsReview"},
             NEW fragment \in Fragment[c], ChooseConflict(c, fragment, state)
      PROVE  Pushed
  <2>1. state \in State
    BY DEF State
  <2> QED BY <1>6, <2>1, ChooseKeepsInv
<1>7. ASSUME NEW c \in Conflict, NEW state \in {"Resolved", "Unresolved"}, ChangeState(c, state)
      PROVE  Pushed
  <2>1. state \in State
    BY DEF State
  <2> QED BY <1>7, <2>1, ChangeStateKeepsInv
<1>8. ASSUME NEW c \in Conflict, ReviewConflictRange(c)
      PROVE  Pushed
  BY <1>8, ReviewKeepsInv
<1>9. ASSUME NEW t, NEW m, Load(t, m) PROVE History!Load
  BY <1>9, LoadLoads DEF History!Load, Snapshot
<1>10. CASE DiscardChanges
  BY <1>9, <1>10 DEF DiscardChanges
<1>11. CASE RestoreDraft
  BY <1>9, <1>11 DEF RestoreDraft
<1>12. CASE RequestSave \/ AcknowledgeSaved \/ SaveFailed \/ UNCHANGED vars
  <2>1. UNCHANGED <<text, current, history, index>>
    BY <1>12 DEF RequestSave, AcknowledgeSaved, SaveFailed, vars
  <2> QED BY <2>1 DEF History!vars
<1> QED BY <1>1, <1>2, <1>3, <1>4, <1>5, <1>6, <1>7, <1>8, <1>10, <1>11, <1>12 DEF Next

LEMMA InitRefines == Init => History!Init
<1> SUFFICES ASSUME Init PROVE History!Init
  OBVIOUS
<1>1. Len(history) = 1 /\ index = 0 /\ text = InitialText /\ current = InitialMetadata
  BY DEF Init
<1>2. Past = <<>> /\ Future = <<>>
  BY <1>1 DEF Past, Future, PastOf, FutureOf
<1> QED BY <1>1, <1>2 DEF History!Init, Now, Past, Future, PastOf, FutureOf

\* The editor, its undo stack and the sidecar history implement UndoHistory: undo and
\* redo restore text and metadata together, through typing, merged typing, choices,
\* reviews and loads, for every limit.  The one step that does not is the undo of
\* typed text down to a forgotten state (undoIndexChanged).
THEOREM ImplementsUndoHistory ==
  Spec /\ [][~UndoesToForgotten]_vars => UndoRestoresMetadata
<1>1. Inv /\ Inv' /\ [Next]_vars /\ [~UndoesToForgotten]_vars => [History!Next]_(History!vars)
  <2>1. UNCHANGED vars => ~UndoesToForgotten \/ UNCHANGED History!vars
    BY DEF vars, History!vars
  <2> QED BY <2>1, StepRefines
<1>2. Spec => []Inv
  BY InvHolds
<1> QED BY <1>1, <1>2, InitRefines, PTL DEF Spec, UndoRestoresMetadata, History!Spec
=============================================================================
