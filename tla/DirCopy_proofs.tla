---------------------------- MODULE DirCopy_proofs ----------------------------
(***************************************************************************)
(* However both trees change while a plan is confirmed and carried out:    *)
(* what is committed is wholly the confirmed version of its file, nothing  *)
(* unmarked is replaced, and an undisturbed plan succeeds.                 *)
(***************************************************************************)
EXTENDS DirCopy, FiniteSetTheorems, SequenceTheorems, TLAPS

-----------------------------------------------------------------------------
(* Paths.                                                                  *)

LEMMA PathIsNames ==
  ASSUME NEW p \in Path
  PROVE  p \in Seq(STRING) /\ Len(p) \in Nat /\ Len(p) >= 1
  BY DirCopyAssumption DEF Path

LEMMA PrefixOfPrefix ==
  ASSUME NEW p \in Seq(STRING), NEW k \in 1..Len(p), NEW j \in 1..k
  PROVE  /\ SubSeq(p, 1, k) \in Seq(STRING) /\ Len(SubSeq(p, 1, k)) = k
         /\ SubSeq(SubSeq(p, 1, k), 1, j) = SubSeq(p, 1, j)
  OBVIOUS

LEMMA AppendToOne ==
  ASSUME NEW x \in Nat, NEW y \in Nat
  PROVE  Append(<<x>>, y) = <<x, y>>
<1>1. <<x>> \in Seq(Nat) /\ Len(<<x>>) = 1 /\ <<x, y>> \in Seq(Nat) /\ Len(<<x, y>>) = 2
  OBVIOUS
<1>2. Append(<<x>>, y) \in Seq(Nat) /\ Len(Append(<<x>>, y)) = 2
  BY <1>1, AppendProperties
<1>3. Append(<<x>>, y)[1] = x /\ Append(<<x>>, y)[2] = y
  BY <1>1, AppendProperties
<1>4. \A i \in 1..2 : Append(<<x>>, y)[i] = <<x, y>>[i]
  BY <1>3
<1> QED
  BY ONLY <1>1, <1>2, <1>4, SeqEqual

LEMMA PathIsItsAncestor ==
  ASSUME NEW p \in Path
  PROVE  p \in Ancestors(p)
<1>1. p = SubSeq(p, 1, Len(p)) /\ Len(p) \in 1..Len(p)
  BY PathIsNames, SubSeqFull
<1> QED
  BY ONLY <1>1 DEF Ancestors

LEMMA AncestorIsPath ==
  ASSUME NEW p \in Path, NEW q \in Ancestors(p)
  PROVE  q \in Path
  BY DirCopyAssumption

LEMMA AncestorsOfAncestor ==
  ASSUME NEW p \in Path, NEW q \in Ancestors(p), NEW r \in Ancestors(q)
  PROVE  r \in Ancestors(p)
<1>1. PICK k \in 1..Len(p) : q = SubSeq(p, 1, k)
  BY DEF Ancestors
<1>2. Len(q) = k
  BY <1>1, PathIsNames, PrefixOfPrefix
<1>3. PICK j \in 1..k : r = SubSeq(q, 1, j)
  BY <1>2 DEF Ancestors
<1>4. r = SubSeq(p, 1, j) /\ j \in 1..Len(p)
  BY <1>1, <1>3, PathIsNames, PrefixOfPrefix
<1> QED
  BY <1>4 DEF Ancestors

LEMMA AncestorsAreInLine ==
  ASSUME NEW p \in Path, NEW q \in Ancestors(p), NEW r \in Ancestors(p)
  PROVE  q \in Ancestors(r) \/ r \in Ancestors(q)
<1>1. PICK k \in 1..Len(p) : q = SubSeq(p, 1, k)
  BY DEF Ancestors
<1>2. PICK j \in 1..Len(p) : r = SubSeq(p, 1, j)
  BY DEF Ancestors
<1>3. CASE k <= j
  <2>1. k \in 1..j /\ Len(r) = j /\ q = SubSeq(r, 1, k)
    BY <1>1, <1>2, <1>3, PathIsNames, PrefixOfPrefix
  <2> QED
    BY <2>1 DEF Ancestors
<1>4. CASE j <= k
  <2>1. j \in 1..k /\ Len(q) = k /\ r = SubSeq(q, 1, j)
    BY <1>1, <1>2, <1>4, PathIsNames, PrefixOfPrefix
  <2> QED
    BY <2>1 DEF Ancestors
<1> QED
  BY <1>3, <1>4

\* What is strictly above a path is what is above its directory, or the directory.
LEMMA AncestorsOfParent ==
  ASSUME NEW p \in Path
  PROVE  Ancestors(Parent(p)) = Ancestors(p) \ {p}
<1>0. Len(p) - 1 \in Nat /\ Len(p) = (Len(p) - 1) + 1 /\ Len(p) - 1 <= Len(p)
  BY PathIsNames
<1>1. PICK n \in Nat : n = Len(p) - 1 /\ Len(p) = n + 1 /\ n <= Len(p)
  BY <1>0, ZenonT(30)
<1>2. CASE n = 0
  <2>1. Len(Parent(p)) = 0
    BY <1>1, <1>2, PathIsNames DEF Parent
  <2>2. Ancestors(Parent(p)) = {}
    BY <2>1 DEF Ancestors
  <2>3. \A q \in Ancestors(p) : q = p
    BY <1>1, <1>2, PathIsNames DEF Ancestors
  <2> QED
    BY <2>2, <2>3
<1>3. CASE n # 0
  <2>1. n \in 1..Len(p) /\ Len(Parent(p)) = n /\ Parent(p) = SubSeq(p, 1, n)
    BY <1>1, <1>3, PathIsNames, PrefixOfPrefix DEF Parent
  <2>2. \A j \in 1..n : SubSeq(Parent(p), 1, j) = SubSeq(p, 1, j)
    BY <2>1, PathIsNames, PrefixOfPrefix
  <2>3. \A j \in 1..n : SubSeq(p, 1, j) # p
    <3>1. ASSUME NEW j \in 1..n
          PROVE  SubSeq(p, 1, j) # p
      <4>1. j \in 1..Len(p) /\ j \in 1..j /\ j # Len(p)
        BY <1>1, PathIsNames
      <4>2. Len(SubSeq(p, 1, j)) = j
        BY <4>1, PathIsNames, PrefixOfPrefix
      <4> QED
        BY <4>1, <4>2
    <3> QED
      BY <3>1
  <2>4. \A j \in 1..Len(p) : j \in 1..n \/ SubSeq(p, 1, j) = p
    BY <1>1, PathIsNames
  <2>5. 1..n \subseteq 1..Len(p)
    BY <1>1, PathIsNames
  <2> QED
    BY <2>1, <2>2, <2>3, <2>4, <2>5 DEF Ancestors
<1> QED
  BY <1>2, <1>3

LEMMA ParentIsAncestor ==
  ASSUME NEW p \in Path, Len(p) > 1
  PROVE  Parent(p) \in Ancestors(p) \ {p} /\ Parent(p) \in Path
<1>1. Parent(p) \in Ancestors(Parent(p))
  <2>1. PICK n \in Nat : n = Len(p) - 1 /\ n \in 1..Len(p) /\ n \in 1..n
    <3>1. Len(p) - 1 \in Nat /\ Len(p) - 1 \in 1..Len(p) /\ Len(p) - 1 \in 1..Len(p) - 1
      BY PathIsNames
    <3> QED
      BY ONLY <3>1
  <2>2. Len(Parent(p)) = n /\ SubSeq(Parent(p), 1, n) = Parent(p)
    BY <2>1, PathIsNames, PrefixOfPrefix DEF Parent
  <2> QED
    BY <2>1, <2>2 DEF Ancestors
<1> QED
  BY <1>1, AncestorsOfParent, AncestorIsPath

LEMMA AncestorsAreClosed ==
  ASSUME NEW w, w \in Path \/ \E p \in Path : w = Parent(p)
  PROVE  Ancestors(w) \subseteq Path /\ \A q \in Ancestors(w) : Ancestors(q) \subseteq Ancestors(w)
<1>1. CASE w \in Path
  BY <1>1, AncestorIsPath, AncestorsOfAncestor
<1>2. ASSUME NEW p \in Path, w = Parent(p), Len(p) > 1
      PROVE  w \in Path
  BY <1>2, ParentIsAncestor
<1>3. ASSUME NEW p \in Path, w = Parent(p), ~(Len(p) > 1)
      PROVE  Ancestors(w) = {}
  <2>1. Len(w) = 0
    BY <1>3, PathIsNames DEF Parent
  <2> QED
    BY <2>1 DEF Ancestors
<1> QED
  BY <1>1, <1>2, <1>3, AncestorIsPath, AncestorsOfAncestor

-----------------------------------------------------------------------------
(* Nodes and trees.                                                        *)

LEMMA NodeKinds ==
  ASSUME NEW node \in Node
  PROVE  /\ node.kind \in {"absent", "directory", "file"}
         /\ node = Absent <=> node.kind = "absent"
         /\ node # Absent => node.stamp \in Nat
         /\ node.kind = "file" => node.content \in Nat \X Nat
  BY DEF Node, Absent

LEMMA NewNodes ==
  ASSUME NEW s \in Nat, NEW c \in Nat \X Nat
  PROVE  /\ Absent \in Node /\ Directory(s) \in Node /\ File(c, s) \in Node
         /\ Absent.kind = "absent"
         /\ Directory(s).kind = "directory" /\ Directory(s).stamp = s
         /\ File(c, s).kind = "file" /\ File(c, s).stamp = s /\ File(c, s).content = c
  BY DEF Node, Absent, Directory, File

Trees(t) == t \in [Path -> Node] /\ IsTree(t)

LEMMA PathIsMade ==
  ASSUME NEW w, w \in Path \/ \E p \in Path : w = Parent(p),
         Trees(destination), clock \in Nat, CanMakePath(w)
  PROVE  /\ Trees(MadePath(w))
         /\ \A q \in Path : MadePath(w)[q] = destination[q] \/
              (destination[q] = Absent /\ q \in Ancestors(w) /\ MadePath(w)[q] = Directory(clock + 1))
         /\ \A q \in Ancestors(w) : MadePath(w)[q].kind = "directory"
<1> DEFINE t == MadePath(w)
<1>1. \A q \in Path : t[q] = destination[q] \/
        (destination[q] = Absent /\ q \in Ancestors(w) /\ t[q] = Directory(clock + 1))
  BY DEF MadePath
<1>2. Directory(clock + 1) \in Node /\ Directory(clock + 1).kind = "directory"
  BY DEF Node, Directory
<1>3. t \in [Path -> Node]
  BY <1>2 DEF Trees, MadePath
<1>4. \A q \in Ancestors(w) : q \in Path /\ Ancestors(q) \subseteq Ancestors(w)
  BY AncestorsAreClosed
<1>5. \A q \in Ancestors(w) : t[q].kind = "directory"
  <2>1. ASSUME NEW q \in Ancestors(w)
        PROVE  t[q].kind = "directory"
    <3>1. destination[q].kind # "file" /\ destination[q] \in Node
      BY <1>4 DEF CanMakePath, Trees
    <3>2. CASE destination[q] = Absent
      BY <1>2, <1>4, <3>2 DEF MadePath
    <3>3. CASE destination[q] # Absent
      <4>1. t[q] = destination[q]
        BY <1>4, <3>3 DEF MadePath
      <4> QED
        BY <3>1, <3>3, <4>1, NodeKinds
    <3> QED
      BY <3>2, <3>3
  <2> QED
    BY <2>1
<1>6. IsTree(t)
  <2>1. SUFFICES ASSUME NEW p \in Path, t[p] # Absent, NEW q \in Ancestors(p) \ {p}
                 PROVE  t[q].kind = "directory"
    BY DEF IsTree
  <2>2. CASE destination[p] # Absent
    <3>1. destination[q].kind = "directory" /\ q \in Path
      BY <2>2, AncestorIsPath DEF Trees, IsTree
    <3>2. destination[q] # Absent
      BY <3>1 DEF Absent
    <3> QED
      BY <1>1, <3>1, <3>2
  <2>3. CASE p \in Ancestors(w)
    BY <2>3, <1>4, <1>5
  <2> QED
    BY <1>1, <2>1, <2>2, <2>3
<1> QED
  BY <1>1, <1>3, <1>5, <1>6 DEF Trees

LEMMA ChangedByOthers ==
  ASSUME NEW t \in [Path -> Node], clock \in Nat, NEW u \in Changes(t)
  PROVE  /\ u \in [Path -> Node]
         /\ \A q \in Path : u[q] = t[q] \/ u[q] = Absent \/ u[q].stamp = clock + 1
<1>1. PICK p \in Path,
           node \in {Absent, Directory(clock + 1), File(<<clock + 1, clock + 1>>, clock + 1)} :
        u = Changed(t, p, node)
  BY DEF Changes
<1>2. clock + 1 \in Nat /\ <<clock + 1, clock + 1>> \in Nat \X Nat
  OBVIOUS
<1>3. node \in Node /\ Directory(clock + 1) \in Node /\ Directory(clock + 1).stamp = clock + 1
  BY <1>1, <1>2, NewNodes
<1>4. node = Absent \/ node.stamp = clock + 1
  BY <1>1, <1>2, NewNodes
<1> QED
  BY <1>1, <1>3, <1>4 DEF Changed

-----------------------------------------------------------------------------
(* The plan.                                                               *)

LEMMA AdditionsArePresent ==
  ASSUME NEW selected, NEW a \in Additions(selected)
  PROVE  /\ a[1] \in 1..Len(Walk) /\ a[2] \in 1..Len(Walk) /\ a = <<a[1], a[2]>>
         /\ Walk[a[1]] \in Path /\ Walk[a[2]] \in Path
         /\ source[Walk[a[2]]] # Absent
         /\ Walk[a[1]] \in Ancestors(Walk[a[2]])
         /\ Walk[a[1]] \in selected /\ ~Covered(selected, Walk[a[1]])
  BY DirCopyAssumption DEF Additions, Path

LEMMA AdditionsAreFinite ==
  ASSUME NEW selected
  PROVE  Cardinality(Additions(selected)) \in Nat
<1>1. Len(Walk) \in Nat
  BY DirCopyAssumption
<1>2. IsFiniteSet(1..Len(Walk))
  BY <1>1, FS_Interval
<1>3. IsFiniteSet((1..Len(Walk)) \X (1..Len(Walk)))
  BY <1>2, FS_Product
<1>4. Additions(selected) \subseteq (1..Len(Walk)) \X (1..Len(Walk))
  BY DEF Additions
<1> QED
  BY <1>3, <1>4, FS_Subset, FS_CardinalityType

LEMMA ItemsAreTyped ==
  ASSUME Trees(source), Trees(destination), NEW p \in Path, source[p] # Absent
  PROVE  Item(p) \in PlanItem
<1>1. source[p].stamp \in Nat
  BY NodeKinds DEF Trees
<1>2. Stamp(destination[p]) \in Nat
  BY NodeKinds DEF Trees, Stamp
<1> QED
  BY <1>1, <1>2 DEF Item, PlanItem

\* A plan lists what add is called for, in the order of the calls.
LEMMA PlannedItems ==
  ASSUME NEW selected, NEW order \in Planned(selected), Trees(source), Trees(destination),
         plan' = [i \in DOMAIN order |-> Item(Walk[order[i][2]])]
  PROVE  /\ DOMAIN order = DOMAIN plan' /\ plan' \in Seq(PlanItem)
         /\ \A i \in DOMAIN plan' :
              /\ order[i] \in Additions(selected) /\ plan'[i] = Item(Walk[order[i][2]])
         /\ Len(plan') \in Nat /\ DOMAIN plan' = 1..Len(plan')
<1>1. PICK n \in Nat : n = Cardinality(Additions(selected))
  BY AdditionsAreFinite
<1>2. order \in [1..n -> Additions(selected)]
  BY <1>1 DEF Planned
<1>3. \A i \in 1..n : order[i] \in Additions(selected)
  BY <1>2
<1>4. \A i \in 1..n : Item(Walk[order[i][2]]) \in PlanItem
  BY <1>3, AdditionsArePresent, ItemsAreTyped
<1>5. plan' \in [1..n -> PlanItem]
  BY <1>2, <1>4
<1> QED
  BY <1>2, <1>3, <1>5

-----------------------------------------------------------------------------
(* The types.                                                              *)

LEMMA NowIsPlanned ==
  ASSUME TypeOK, item <= Len(plan)
  PROVE  /\ item \in DOMAIN plan /\ Now \in PlanItem /\ Now.path \in Path
         /\ Now.directory \in BOOLEAN
<1>1. plan \in Seq(PlanItem) /\ item \in 1..Len(plan)
  BY DEF TypeOK
<1>2. plan[item] \in PlanItem /\ item \in DOMAIN plan
  BY ONLY <1>1
<1> QED
  BY <1>2 DEF Now, PlanItem

LEMMA ConfirmIsTyped ==
  ASSUME TypeOK, NEW selected \in SUBSET Path, Confirm(selected)
  PROVE  TypeOK'
<1>1. PICK order \in Planned(selected) : plan' = [i \in DOMAIN order |-> Item(Walk[order[i][2]])]
  BY DEF Confirm
<1>2. plan' \in Seq(PlanItem) /\ Len(plan') \in Nat
  BY <1>1, PlannedItems DEF TypeOK, Trees
<1>3. item' \in 1..Len(plan') + 1
  BY <1>2 DEF Confirm
<1>4. impeded' \in BOOLEAN
  BY DEF Confirm, TypeOK
<1> QED
  BY <1>2, <1>3, <1>4 DEF Confirm, TypeOK, IsTree

LEMMA AdvanceIsTyped ==
  ASSUME TypeOK, Advance, UNCHANGED <<source, plan, impeded>>, item <= Len(plan),
         Trees(destination'), clock' \in Nat
  PROVE  TypeOK'
<1>1. item' \in 1..Len(plan') + 1
  BY DEF TypeOK, Advance
<1> QED
  BY <1>1 DEF TypeOK, Advance, IsTree, Trees

LEMMA FailIsTyped ==
  ASSUME TypeOK, Fail, impeded' \in BOOLEAN
  PROVE  TypeOK'
  BY DEF TypeOK, Fail, IsTree

LEMMA CheckedPath ==
  ASSUME TypeOK, item <= Len(plan)
  PROVE  LET where == IF Now.directory THEN Now.path ELSE Parent(Now.path)
         IN where \in Path \/ \E p \in Path : where = Parent(p)
  BY NowIsPlanned

LEMMA CheckIsTyped ==
  ASSUME TypeOK, Check
  PROVE  TypeOK'
<1> DEFINE where == IF Now.directory THEN Now.path ELSE Parent(Now.path)
<1>1. CASE Fail
  BY <1>1, FailIsTyped DEF Check, TypeOK
<1>2. CASE ~Fail
  <2>1. /\ CanMakePath(where) /\ destination' = MadePath(where)
        /\ clock' = IF destination' = destination THEN clock ELSE clock + 1
        /\ UNCHANGED <<source, plan, impeded>> /\ phase = "check" /\ item <= Len(plan)
    BY <1>2 DEF Check
  <2>2. Trees(destination')
    BY <2>1, CheckedPath, PathIsMade DEF TypeOK, Trees
  <2>3. clock' \in Nat
    BY <2>1 DEF TypeOK
  <2>4. CASE Now.directory
    BY <2>1, <2>2, <2>3, <2>4, <1>2, AdvanceIsTyped DEF Check
  <2>5. CASE ~Now.directory
    <3>1. phase' = "open" /\ target' = destination[Now.path] /\ UNCHANGED <<item, input, reading>>
      BY <1>2, <2>5 DEF Check
    <3>2. target' \in Node
      BY <2>1, <3>1, NowIsPlanned DEF TypeOK
    <3>3. Now' = Now
      BY <2>1, <3>1 DEF Now
    <3> QED
      BY <2>1, <2>2, <2>3, <2>5, <3>1, <3>2, <3>3 DEF TypeOK, Trees, IsTree
  <2> QED
    BY <2>4, <2>5
<1> QED
  BY <1>1, <1>2

LEMMA OpenIsTyped ==
  ASSUME TypeOK, Open
  PROVE  TypeOK'
<1>1. CASE Fail
  BY <1>1, FailIsTyped DEF Open, TypeOK
<1>2. CASE ~Fail
  <2>1. /\ source[Now.path].kind = "file" /\ input' = source[Now.path] /\ phase' = "read"
        /\ reading' = <<source[Now.path].content[1]>> /\ phase = "open"
        /\ UNCHANGED <<source, destination, clock, plan, item, target, impeded>>
    BY <1>2 DEF Open
  <2>2. item <= Len(plan) /\ ~Now.directory /\ Now.path \in Path
    BY <2>1, NowIsPlanned DEF TypeOK
  <2>3. source[Now.path] \in Node /\ source[Now.path].content[1] \in Nat
    BY <2>1, <2>2, NodeKinds DEF TypeOK
  <2>4. reading' \in Seq(Nat) /\ Len(reading') <= 2
    BY <2>1, <2>3
  <2>5. Now' = Now
    BY <2>1 DEF Now
  <2> QED
    BY <2>1, <2>2, <2>3, <2>4, <2>5 DEF TypeOK, IsTree
<1> QED
  BY <1>1, <1>2

-----------------------------------------------------------------------------
(* What is known of the copy of one file while it is under way.            *)

\* Every change has a stamp of its own, so what has the stamp the plan recorded is
\* what was planned.
StampsAreOld(t) == \A p \in Path : t[p] # Absent => t[p].stamp <= clock

\* The destination was seen to be what the plan says, and as long as the source has
\* the stamp of the plan, what has been read is its content.
CopyInv ==
  /\ StampsAreOld(source) /\ StampsAreOld(destination)
  /\ \A i \in DOMAIN plan : plan[i].stamp <= clock
  /\ phase \in {"open", "read", "commit"} =>
       /\ target \in Node
       /\ target.kind = "file" => Now.overwrites /\ target.stamp = Now.destinationStamp
  /\ phase = "read" => /\ input \in Node /\ input.kind = "file" /\ reading = <<input.content[1]>>
                       /\ SourceUnchanged(Now) => input = source[Now.path]
  /\ phase = "commit" => /\ reading \in Nat \X Nat
                         /\ SourceUnchanged(Now) => reading = source[Now.path].content

LEMMA ReadIsTyped ==
  ASSUME TypeOK, CopyInv, Read
  PROVE  TypeOK' /\ CopyInv'
<1>1. PICK f \in {input, source[Now.path]} : f.kind = "file" /\ reading' = Append(reading, f.content[2])
  BY DEF Read
<1>2. /\ phase = "read" /\ phase' = "commit" /\ item <= Len(plan) /\ ~Now.directory
      /\ UNCHANGED <<source, destination, clock, plan, item, target, input, impeded>>
  BY DEF Read, TypeOK
<1>3. Now' = Now /\ Now.path \in Path
  BY <1>2, NowIsPlanned DEF Now
<1>4. f \in Node /\ input \in Node /\ source[Now.path] \in Node
  BY <1>2, <1>3 DEF CopyInv, TypeOK
<1>5. f.content \in Nat \X Nat /\ input.content \in Nat \X Nat
  BY <1>1, <1>2, <1>4, NodeKinds DEF CopyInv
<1>6. reading = <<input.content[1]>>
  BY <1>2 DEF CopyInv
<1>7. reading' = <<input.content[1], f.content[2]>>
  <2>1. \A x, y \in Nat : Append(<<x>>, y) = <<x, y>>
    BY AppendToOne
  <2>2. input.content[1] \in Nat /\ f.content[2] \in Nat
    BY <1>5
  <2> QED
    BY <1>1, <1>6, <2>1, <2>2
<1>8. reading' \in Seq(Nat) /\ Len(reading') <= 2 /\ reading' \in Nat \X Nat
  BY <1>5, <1>7
<1>9. SourceUnchanged(Now) => reading' = source[Now.path].content
  <2>1. SUFFICES ASSUME SourceUnchanged(Now)
                 PROVE  reading' = source[Now.path].content
    OBVIOUS
  <2>2. f = source[Now.path] /\ input = source[Now.path]
    BY <1>2, <2>1 DEF CopyInv
  <2> QED
    BY <1>5, <1>7, <2>2
<1>10. TypeOK'
  BY <1>2, <1>3, <1>8 DEF TypeOK, IsTree
<1> QED
  BY <1>2, <1>3, <1>8, <1>9, <1>10 DEF CopyInv, StampsAreOld, SourceUnchanged

LEMMA CommitIsTyped ==
  ASSUME TypeOK, CopyInv, Commit
  PROVE  TypeOK'
<1>1. CASE Fail
  BY <1>1, FailIsTyped DEF Commit, TypeOK
<1>2. CASE ~Fail
  <2>1. /\ clock' = clock + 1 /\ Advance /\ UNCHANGED <<source, plan, impeded>>
        /\ destination' = [destination EXCEPT ![Now.path] = File(reading, clock + 1)]
        /\ HasDirectory(Now.path) /\ destination[Now.path].kind # "directory" /\ phase = "commit"
    BY <1>2 DEF Commit
  <2>2. item <= Len(plan) /\ ~Now.directory /\ Now.path \in Path
    BY <2>1, NowIsPlanned DEF TypeOK
  <2>3. clock' \in Nat /\ File(reading, clock + 1) \in Node
    BY <2>1, NewNodes DEF TypeOK, CopyInv
  <2>4. destination' \in [Path -> Node]
    BY <2>1, <2>3 DEF TypeOK
  <2>5. IsTree(destination')
    <3>1. SUFFICES ASSUME NEW p \in Path, destination'[p] # Absent, NEW q \in Ancestors(p) \ {p}
                   PROVE  destination'[q].kind = "directory"
      BY DEF IsTree
    <3>2. q \in Path
      BY AncestorIsPath
    <3>3. CASE p # Now.path
      <4>1. destination[p] # Absent
        BY <2>1, <2>2, <3>1, <3>3 DEF TypeOK
      <4>2. destination[q].kind = "directory"
        BY <4>1 DEF TypeOK, IsTree
      <4> QED
        BY <2>1, <2>2, <3>2, <4>2 DEF TypeOK
    <3>4. CASE p = Now.path
      <4>1. q \in Ancestors(Parent(p))
        BY AncestorsOfParent
      <4>2. Len(p) > 1
        BY <4>1, PathIsNames DEF Ancestors, Parent
      <4>3. destination[Parent(p)].kind = "directory" /\ Parent(p) \in Path
        BY <2>1, <3>4, <4>2, ParentIsAncestor DEF HasDirectory
      <4>4. destination[q].kind = "directory"
        BY <4>1, <4>3 DEF TypeOK, IsTree, Absent
      <4> QED
        BY <2>1, <2>2, <3>1, <3>2, <3>4, <4>4 DEF TypeOK
    <3> QED
      BY <3>3, <3>4
  <2> QED
    BY <2>1, <2>2, <2>3, <2>4, <2>5, AdvanceIsTyped DEF Trees
<1> QED
  BY <1>1, <1>2

LEMMA OtherProcessIsTyped ==
  ASSUME TypeOK, OtherProcess
  PROVE  TypeOK'
<1>1. Trees(source') /\ Trees(destination') /\ clock' \in Nat
  BY ChangedByOthers DEF OtherProcess, TypeOK, Trees
<1>2. Now' = Now
  BY DEF OtherProcess, Now
<1> QED
  BY <1>1, <1>2 DEF OtherProcess, TypeOK, Trees, IsTree

LEMMA ConfirmKeepsCopyInv ==
  ASSUME TypeOK, CopyInv, NEW selected \in SUBSET Path, Confirm(selected)
  PROVE  CopyInv'
<1>1. PICK order \in Planned(selected) : plan' = [i \in DOMAIN order |-> Item(Walk[order[i][2]])]
  BY DEF Confirm
<1>2. /\ StampsAreOld(source)' /\ StampsAreOld(destination)' /\ phase' = "check"
  BY DEF Confirm, CopyInv, StampsAreOld
<1>3. ASSUME NEW i \in DOMAIN plan'
      PROVE  plan'[i].stamp <= clock'
  <2>1. /\ order[i] \in Additions(selected) /\ plan'[i] = Item(Walk[order[i][2]])
    BY <1>1, <1>3, PlannedItems DEF TypeOK, Trees
  <2>2. plan'[i].stamp = source[Walk[order[i][2]]].stamp
    BY <2>1 DEF Item
  <2>3. source[Walk[order[i][2]]].stamp <= clock
    BY <2>1, AdditionsArePresent DEF CopyInv, StampsAreOld
  <2> QED
    BY <2>2, <2>3 DEF Confirm
<1> QED
  BY <1>2, <1>3 DEF CopyInv

LEMMA OldStampsStayOld ==
  ASSUME NEW t \in [Path -> Node], NEW u \in [Path -> Node], clock \in Nat, clock' \in Nat,
         StampsAreOld(t), clock <= clock',
         \A q \in Path : u[q] = t[q] \/ u[q] = Absent \/ u[q].stamp = clock'
  PROVE  \A p \in Path : u[p] # Absent => u[p].stamp <= clock'
<1>1. SUFFICES ASSUME NEW p \in Path, u[p] # Absent
               PROVE  u[p].stamp <= clock'
  OBVIOUS
<1>2. u[p].stamp \in Nat
  BY <1>1, NodeKinds
<1>3. CASE u[p] = t[p]
  <2>1. u[p].stamp <= clock
    BY <1>1, <1>3 DEF StampsAreOld
  <2> QED
    BY <1>2, <2>1
<1>4. CASE u[p].stamp = clock'
  BY <1>4
<1> QED
  BY <1>1, <1>3, <1>4

LEMMA OldPlanStaysOld ==
  ASSUME TypeOK, CopyInv, UNCHANGED plan, clock' \in Nat, clock <= clock'
  PROVE  \A i \in DOMAIN plan' : plan'[i].stamp <= clock'
<1>1. SUFFICES ASSUME NEW i \in DOMAIN plan
               PROVE  plan[i].stamp <= clock'
  OBVIOUS
<1>2. plan[i] \in PlanItem
  BY DEF TypeOK
<1>3. plan[i].stamp \in Nat /\ clock \in Nat
  BY <1>2 DEF PlanItem, TypeOK
<1>4. plan[i].stamp <= clock
  BY DEF CopyInv
<1> QED
  BY <1>3, <1>4

LEMMA FailKeepsCopyInv ==
  ASSUME TypeOK, CopyInv, Fail
  PROVE  CopyInv'
  BY DEF Fail, CopyInv, StampsAreOld

LEMMA CheckKeepsCopyInv ==
  ASSUME TypeOK, CopyInv, Check
  PROVE  CopyInv'
<1> DEFINE where == IF Now.directory THEN Now.path ELSE Parent(Now.path)
<1>1. CASE Fail
  BY <1>1, FailKeepsCopyInv
<1>2. CASE ~Fail
  <2>1. /\ CanMakePath(where) /\ destination' = MadePath(where) /\ DestinationUnchanged(Now)
        /\ clock' = IF destination' = destination THEN clock ELSE clock + 1
        /\ UNCHANGED <<source, plan, impeded>> /\ phase = "check" /\ item <= Len(plan)
    BY <1>2 DEF Check
  <2>2. clock \in Nat /\ clock' \in Nat /\ clock <= clock' /\ clock + 1 \in Nat
    BY <2>1 DEF TypeOK
  <2>3. Trees(MadePath(where)) /\ \A q \in Path :
          destination'[q] = destination[q] \/ destination'[q] = Directory(clock + 1)
    BY <2>1, CheckedPath, PathIsMade DEF TypeOK, Trees
  <2>4. \A q \in Path : destination'[q] = destination[q] \/ destination'[q].stamp = clock'
    <3>1. CASE destination' = destination
      BY <3>1
    <3>2. CASE destination' # destination
      BY <2>1, <2>3, <3>2 DEF Directory
    <3> QED
      BY <3>1, <3>2
  <2>5. StampsAreOld(destination)'
    BY <2>1, <2>2, <2>3, <2>4, OldStampsStayOld DEF TypeOK, CopyInv, StampsAreOld, Trees
  <2>6. StampsAreOld(source)'
    BY <2>1, <2>2, OldStampsStayOld DEF TypeOK, CopyInv, StampsAreOld
  <2>7. CASE Now.directory
    <3>1. phase' = "check"
      BY <1>2, <2>7 DEF Check, Advance
    <3> QED
      BY <2>1, <2>2, <2>5, <2>6, <3>1, OldPlanStaysOld DEF CopyInv
  <2>8. CASE ~Now.directory
    <3>1. phase' = "open" /\ target' = destination[Now.path] /\ UNCHANGED <<item, input, reading>>
      BY <1>2, <2>8 DEF Check
    <3>2. target' \in Node /\ Now' = Now
      BY <2>1, <3>1, NowIsPlanned DEF TypeOK, Now
    <3>3. target'.kind = "file" => Now.overwrites /\ target'.stamp = Now.destinationStamp
      BY <2>1, <2>8, <3>1 DEF DestinationUnchanged, Absent
    <3> QED
      BY <2>1, <2>2, <2>5, <2>6, <3>1, <3>2, <3>3, OldPlanStaysOld DEF CopyInv
  <2> QED
    BY <2>7, <2>8
<1> QED
  BY <1>1, <1>2

LEMMA OpenKeepsCopyInv ==
  ASSUME TypeOK, CopyInv, Open
  PROVE  CopyInv'
<1>1. CASE Fail
  BY <1>1, FailKeepsCopyInv
<1>2. CASE ~Fail
  <2>1. /\ source[Now.path].kind = "file" /\ input' = source[Now.path] /\ phase' = "read"
        /\ reading' = <<source[Now.path].content[1]>> /\ phase = "open"
        /\ UNCHANGED <<source, destination, clock, plan, item, target, impeded>>
    BY <1>2 DEF Open
  <2>2. source[Now.path] \in Node /\ Now' = Now
    BY <2>1, NowIsPlanned DEF TypeOK, Now
  <2> QED
    BY <2>1, <2>2 DEF CopyInv, StampsAreOld, SourceUnchanged
<1> QED
  BY <1>1, <1>2

LEMMA CommitKeepsCopyInv ==
  ASSUME TypeOK, CopyInv, Commit
  PROVE  CopyInv'
<1>1. CASE Fail
  BY <1>1, FailKeepsCopyInv
<1>2. CASE ~Fail
  <2>1. /\ clock' = clock + 1 /\ phase' = "check" /\ UNCHANGED <<source, plan, impeded>>
        /\ destination' = [destination EXCEPT ![Now.path] = File(reading, clock + 1)]
    BY <1>2 DEF Commit, Advance
  <2>2. clock \in Nat /\ clock' \in Nat /\ clock <= clock'
    BY <2>1 DEF TypeOK
  <2>3. \A q \in Path : destination'[q] = destination[q] \/ destination'[q].stamp = clock'
    BY <2>1 DEF TypeOK, File
  <2>4. destination' \in [Path -> Node]
    BY CommitIsTyped DEF TypeOK
  <2>5. StampsAreOld(destination)' /\ StampsAreOld(source)'
    <3>1. StampsAreOld(destination)'
      BY <2>1, <2>2, <2>3, <2>4, OldStampsStayOld DEF TypeOK, CopyInv, StampsAreOld
    <3>2. StampsAreOld(source)'
      BY <2>1, <2>2, OldStampsStayOld DEF TypeOK, CopyInv, StampsAreOld
    <3> QED
      BY <3>1, <3>2
  <2> QED
    BY <2>1, <2>2, <2>5, OldPlanStaysOld DEF CopyInv
<1> QED
  BY <1>1, <1>2

LEMMA OtherProcessKeepsCopyInv ==
  ASSUME TypeOK, CopyInv, OtherProcess
  PROVE  CopyInv'
<1>1. /\ clock' = clock + 1 /\ clock \in Nat /\ clock' \in Nat /\ clock <= clock'
      /\ UNCHANGED <<plan, item, phase, target, input, reading>>
  BY DEF OtherProcess, TypeOK
<1>2. /\ source' \in [Path -> Node] /\ destination' \in [Path -> Node]
      /\ \A q \in Path : source'[q] = source[q] \/ source'[q] = Absent \/ source'[q].stamp = clock'
      /\ \A q \in Path : \/ destination'[q] = destination[q] \/ destination'[q] = Absent
                         \/ destination'[q].stamp = clock'
  BY <1>1, ChangedByOthers DEF OtherProcess, TypeOK
<1>3. StampsAreOld(source)' /\ StampsAreOld(destination)'
  <2>1. StampsAreOld(source)'
    BY <1>1, <1>2, OldStampsStayOld DEF TypeOK, CopyInv, StampsAreOld
  <2>2. StampsAreOld(destination)'
    BY <1>1, <1>2, OldStampsStayOld DEF TypeOK, CopyInv, StampsAreOld
  <2> QED
    BY <2>1, <2>2
<1>4. Now' = Now
  BY <1>1 DEF Now
<1>5. ASSUME phase \in {"read", "commit"}, SourceUnchanged(Now)'
      PROVE  source'[Now.path] = source[Now.path]
  <2>1. item <= Len(plan)
    BY <1>5 DEF TypeOK
  <2>2. item \in DOMAIN plan /\ Now \in PlanItem /\ Now.path \in Path
    BY <2>1, NowIsPlanned
  <2>3. Now.stamp \in Nat /\ Now.stamp <= clock
    BY <2>2 DEF CopyInv, Now, PlanItem
  <2>4. source'[Now.path].stamp = Now.stamp
    BY <1>4, <1>5 DEF SourceUnchanged
  <2>5. source'[Now.path] # Absent
    BY <1>4, <1>5 DEF SourceUnchanged, Absent
  <2>6. source'[Now.path].stamp # clock'
    BY <1>1, <2>3, <2>4
  <2> QED
    BY <1>2, <2>2, <2>5, <2>6
<1>6. ASSUME phase \in {"read", "commit"}, SourceUnchanged(Now)'
      PROVE  SourceUnchanged(Now)
  BY <1>4, <1>5, <1>6 DEF SourceUnchanged
<1> QED
  BY <1>1, <1>3, <1>4, <1>5, <1>6, OldPlanStaysOld DEF CopyInv

LEMMA InitHasCopyInv ==
  Init => TypeOK /\ CopyInv
<1> SUFFICES ASSUME Init
             PROVE  TypeOK /\ CopyInv
  OBVIOUS
<1>1. /\ source \in [Path -> Node] /\ IsTree(source)
      /\ destination \in [Path -> Node] /\ IsTree(destination)
      /\ \A p \in Path : source[p] # Absent => source[p].stamp = 0
      /\ \A p \in Path : destination[p] # Absent => destination[p].stamp = 0
  BY DirCopyAssumption DEF Init
<1>2. plan \in Seq(PlanItem) /\ Len(plan) = 0 /\ reading \in Seq(Nat) /\ Len(reading) = 0
  BY DEF Init
<1>3. DOMAIN plan = {} /\ item \in 1..Len(plan) + 1
  BY DEF Init
<1>4. /\ phase = "idle" /\ clock \in Nat /\ impeded \in BOOLEAN
      /\ target \in Node \union {Nothing} /\ input \in Node \union {Nothing}
  BY DEF Init
<1>5. TypeOK
  BY ONLY <1>1, <1>2, <1>3, <1>4 DEF TypeOK
<1>6. CopyInv
  BY <1>1, <1>3 DEF Init, CopyInv, StampsAreOld
<1> QED
  BY <1>5, <1>6

LEMMA NextKeepsCopyInv ==
  ASSUME TypeOK, CopyInv, Next
  PROVE  TypeOK' /\ CopyInv'
<1>1. CASE \E selected \in SUBSET Path \ {{}} : Confirm(selected)
  BY <1>1, ConfirmIsTyped, ConfirmKeepsCopyInv
<1>2. CASE Check
  BY <1>2, CheckIsTyped, CheckKeepsCopyInv
<1>3. CASE Open
  BY <1>3, OpenIsTyped, OpenKeepsCopyInv
<1>4. CASE Read
  BY <1>4, ReadIsTyped
<1>5. CASE Commit
  BY <1>5, CommitIsTyped, CommitKeepsCopyInv
<1>6. CASE DiskFails
  BY <1>6, FailIsTyped, FailKeepsCopyInv DEF DiskFails
<1>7. CASE Finish
  BY <1>7 DEF Finish, TypeOK, CopyInv, IsTree, StampsAreOld
<1>8. CASE OtherProcess
  BY <1>8, OtherProcessIsTyped, OtherProcessKeepsCopyInv
<1> QED
  BY <1>1, <1>2, <1>3, <1>4, <1>5, <1>6, <1>7, <1>8 DEF Next

LEMMA StutterKeepsCopyInv ==
  ASSUME TypeOK, CopyInv, UNCHANGED vars
  PROVE  TypeOK' /\ CopyInv'
  BY DEF vars, TypeOK, CopyInv, Now, IsTree, StampsAreOld, SourceUnchanged

\* Both sides stay trees, and what has been read of a file whose source still has the
\* stamp of the plan is its content (executeDirectoryCopy).
THEOREM CopyHolds ==
  Spec => [](TypeOK /\ CopyInv)
<1>1. TypeOK /\ CopyInv /\ [Next]_vars => (TypeOK /\ CopyInv)'
  BY NextKeepsCopyInv, StutterKeepsCopyInv
<1> QED
  BY <1>1, InitHasCopyInv, PTL DEF Spec

-----------------------------------------------------------------------------
(* What a step may do to the destination.                                  *)

\* Among the steps of the copy only a commit makes or changes a file.
LEMMA OnlyCommitsMakeFiles ==
  ASSUME TypeOK, CopyInv, [Next]_vars, NEW p \in Path, destination'[p] # destination[p],
         destination'[p].kind = "file" \/ destination[p].kind = "file"
  PROVE  \/ OtherProcess
         \/ /\ phase = "commit" /\ p = Now.path /\ item \in DOMAIN plan /\ Now \in PlanItem
            /\ SourceUnchanged(Now) /\ ~Now.directory
            /\ destination'[p].content = reading
<1>1. CASE Check
  <2> DEFINE where == IF Now.directory THEN Now.path ELSE Parent(Now.path)
  <2>1. ~Fail
    BY DEF Fail
  <2>2. CanMakePath(where) /\ destination' = MadePath(where) /\ item <= Len(plan)
    BY <1>1, <2>1 DEF Check
  <2>3. destination[p] = Absent /\ destination'[p] = Directory(clock + 1)
    BY <2>2, CheckedPath, PathIsMade DEF TypeOK, Trees
  <2> QED
    BY <2>3 DEF Absent, Directory
<1>2. CASE Commit
  <2>1. /\ destination' = [destination EXCEPT ![Now.path] = File(reading, clock + 1)]
        /\ SourceUnchanged(Now) /\ phase = "commit"
    BY <1>2 DEF Commit, Fail
  <2>2. item <= Len(plan) /\ ~Now.directory
    BY <2>1 DEF TypeOK
  <2>3. p = Now.path
    BY <2>1 DEF TypeOK
  <2>4. destination'[p].content = reading
    BY <2>1, <2>3 DEF TypeOK, File
  <2> QED
    BY <2>1, <2>2, <2>3, <2>4, NowIsPlanned
<1>3. CASE OtherProcess
  BY <1>3
<1> QED
  BY <1>1, <1>2, <1>3 DEF Next, vars, Confirm, Open, Read, DiskFails, Finish, Fail

\* However other processes write and replace files while they are copied: what is
\* committed is the file that was confirmed, never a mixture (executeDirectoryCopy's
\* look at the source before the rename).
THEOREM CopiesAreOfConfirmedFiles ==
  Spec => CopiesTheConfirmedFile
<1>1. ASSUME TypeOK, CopyInv, [Next]_vars, NEW p \in Path,
             destination'[p] # destination[p], destination'[p].kind = "file"
      PROVE  \/ OtherProcess
             \/ /\ destination'[p].content = source[p].content
                /\ \E i \in DOMAIN plan : plan[i].path = p /\ plan[i].stamp = source[p].stamp
  <2>1. CASE /\ phase = "commit" /\ p = Now.path /\ item \in DOMAIN plan /\ SourceUnchanged(Now)
             /\ destination'[p].content = reading
    <3>1. reading = source[Now.path].content
      BY <1>1, <2>1 DEF CopyInv
    <3>2. plan[item].path = p /\ plan[item].stamp = source[p].stamp
      BY <2>1 DEF Now, SourceUnchanged
    <3> QED
      BY <2>1, <3>1, <3>2
  <2> QED
    BY <1>1, <2>1, OnlyCommitsMakeFiles
<1>2. TypeOK /\ CopyInv /\ [Next]_vars =>
        [\A p \in Path :
           destination'[p] # destination[p] /\ destination'[p].kind = "file" =>
             \/ OtherProcess
             \/ /\ destination'[p].content = source[p].content
                /\ \E i \in DOMAIN plan : plan[i].path = p /\ plan[i].stamp = source[p].stamp]_vars
  BY <1>1
<1> QED
  BY <1>2, CopyHolds, PTL DEF Spec, CopiesTheConfirmedFile

\* A file is replaced only if the plan marked it and it is what the plan saw, or it
\* changed after the item was checked (executeDirectoryCopy).
THEOREM ReplacementsAreMarked ==
  Spec => ReplacesOnlyMarkedFiles
<1>1. ASSUME TypeOK, CopyInv, [Next]_vars, NEW p \in Path,
             destination[p].kind = "file", destination'[p] # destination[p]
      PROVE  \/ OtherProcess
             \/ \E i \in DOMAIN plan : /\ plan[i].path = p /\ plan[i].overwrites
                                       /\ plan[i].destinationStamp = destination[p].stamp
             \/ destination[p] # target
  <2>1. CASE phase = "commit" /\ p = Now.path /\ item \in DOMAIN plan
    BY <1>1, <2>1 DEF CopyInv, Now
  <2> QED
    BY <1>1, <2>1, OnlyCommitsMakeFiles
<1>2. TypeOK /\ CopyInv /\ [Next]_vars =>
        [\A p \in Path :
           destination[p].kind = "file" /\ destination'[p] # destination[p] =>
             \/ OtherProcess
             \/ \E i \in DOMAIN plan : /\ plan[i].path = p /\ plan[i].overwrites
                                       /\ plan[i].destinationStamp = destination[p].stamp
             \/ destination[p] # target]_vars
  BY <1>1
<1> QED
  BY <1>2, CopyHolds, PTL DEF Spec, ReplacesOnlyMarkedFiles

-----------------------------------------------------------------------------
(* A copy that nothing interferes with.                                    *)

\* The source of an item is as it was planned, and no file is in the way to it.
Clear(it) ==
  /\ SourceUnchanged(it)
  /\ \A q \in Ancestors(it.path) \ {it.path} : destination[q].kind # "file"

Carried(it) ==
  /\ destination[it.path].kind = source[it.path].kind
  /\ ~it.directory => destination[it.path].content = source[it.path].content

\* What is done is there; what is still to do passes its checks.
Undisturbed ==
  ~impeded /\ phase # "idle" =>
    /\ phase # "failed"
    /\ \A i \in DOMAIN plan : Clear(plan[i])
    /\ \A i, j \in DOMAIN plan : plan[i].path = plan[j].path => i = j
    /\ \A i \in DOMAIN plan : IF i < item THEN Carried(plan[i]) ELSE DestinationUnchanged(plan[i])
    /\ phase \in {"open", "read", "commit"} => HasDirectory(Now.path)
    /\ phase = "finished" => item > Len(plan)

\* No path is added twice: it has one selected entry above it that is not covered.
LEMMA AdditionsDiffer ==
  ASSUME NEW selected, NEW a \in Additions(selected), NEW b \in Additions(selected),
         Walk[a[2]] = Walk[b[2]]
  PROVE  a[1] = b[1] /\ a[2] = b[2]
<1> DEFINE r == Walk[a[1]]
           s == Walk[b[1]]
<1>1. /\ r \in selected /\ s \in selected /\ r \in Path /\ s \in Path /\ Walk[a[2]] \in Path
      /\ ~Covered(selected, r) /\ ~Covered(selected, s)
      /\ r \in Ancestors(Walk[a[2]]) /\ s \in Ancestors(Walk[a[2]])
      /\ a[1] \in DOMAIN Walk /\ a[2] \in DOMAIN Walk /\ b[1] \in DOMAIN Walk /\ b[2] \in DOMAIN Walk
  BY AdditionsArePresent, DirCopyAssumption, SMTT(30)
<1>2. r \in Ancestors(s) \/ s \in Ancestors(r)
  BY <1>1, AncestorsAreInLine
<1>3. r = s
  BY <1>1, <1>2 DEF Covered
<1> QED
  BY <1>1, <1>3, DirCopyAssumption

LEMMA PlannedPathsDiffer ==
  ASSUME NEW selected, NEW order \in Planned(selected),
         NEW i \in DOMAIN order, NEW j \in DOMAIN order,
         Walk[order[i][2]] = Walk[order[j][2]]
  PROVE  i = j
<1>1. PICK n \in Nat : n = Cardinality(Additions(selected))
  BY AdditionsAreFinite
<1>2. order \in [1..n -> Additions(selected)] /\ i \in 1..n /\ j \in 1..n
  BY <1>1 DEF Planned
<1>3. order[i] \in Additions(selected) /\ order[j] \in Additions(selected)
  BY <1>2
<1>4. order[i][1] = order[j][1] /\ order[i][2] = order[j][2]
  BY <1>3, AdditionsDiffer
<1>5. /\ order[i][1] \in Nat /\ order[i][2] \in Nat /\ order[j][1] \in Nat /\ order[j][2] \in Nat
  BY <1>3, AdditionsArePresent
<1>6. ~Before(order[i], order[j]) /\ ~Before(order[j], order[i])
  BY <1>4, <1>5 DEF Before
<1>7. ~(i < j) /\ ~(j < i)
  BY <1>6 DEF Planned
<1> QED
  BY <1>2, <1>7

LEMMA PlannedItemsPass ==
  ASSUME TypeOK, NEW p \in Path, source[p] # Absent, ~Collides(p)
  PROVE  SourceUnchanged(Item(p)) /\ DestinationUnchanged(Item(p)) /\ Item(p).path = p
<1>1. source[p] \in Node /\ destination[p] \in Node
  BY DEF TypeOK
<1>2. source[p].kind \in {"directory", "file"}
  BY <1>1, NodeKinds
<1>3. destination[p] = Absent \/ destination[p].kind = source[p].kind
  BY DEF Collides
<1>4. SourceUnchanged(Item(p)) /\ Item(p).path = p
  BY <1>2 DEF SourceUnchanged, Item
<1>5. DestinationUnchanged(Item(p))
  BY <1>1, <1>2, <1>3, NodeKinds DEF DestinationUnchanged, Item, Stamp, Absent
<1> QED
  BY <1>4, <1>5

\* Above a path that is added no file is in the way: above the selected entry the
\* view would not list it, from there on it is added too, and does not collide.
LEMMA WayIsClear ==
  ASSUME TypeOK, NEW selected \in SUBSET Path, NEW a \in Additions(selected),
         \A p \in selected : Listed(p), \A b \in Additions(selected) : ~Collides(Walk[b[2]]),
         NEW q \in Ancestors(Walk[a[2]]) \ {Walk[a[2]]}
  PROVE  destination[q].kind # "file"
<1> DEFINE p == Walk[a[2]]
           r == Walk[a[1]]
<1>1. p \in Path /\ r \in Path /\ r \in selected /\ source[p] # Absent /\ r \in Ancestors(p)
  BY AdditionsArePresent
<1>2. q \in Path /\ source[q].kind = "directory"
  BY <1>1, AncestorIsPath DEF TypeOK, IsTree
<1>3. ~Collides(q)
  <2>1. CASE q \in Ancestors(r) /\ q # r
    BY <1>1, <2>1 DEF Listed
  <2>2. CASE r \in Ancestors(q)
    <3>1. PICK k \in 1..Len(Walk) : Walk[k] = q
      BY <1>2, DirCopyAssumption DEF Path
    <3>2. source[q] # Absent
      BY <1>2 DEF Absent
    <3>3. <<a[1], k>> \in Additions(selected)
      BY <1>1, <2>2, <3>1, <3>2, AdditionsArePresent DEF Additions
    <3> QED
      BY <3>1, <3>3
  <2>3. q \in Ancestors(r) \/ r \in Ancestors(q)
    BY <1>1, AncestorsAreInLine
  <2> QED
    BY <1>1, <2>1, <2>2, <2>3, PathIsItsAncestor
<1> QED
  BY <1>2, <1>3 DEF Collides, Absent

LEMMA ConfirmIsUndisturbed ==
  ASSUME TypeOK, NEW selected \in SUBSET Path, Confirm(selected)
  PROVE  Undisturbed'
<1>1. SUFFICES ASSUME ~impeded'
               PROVE  Undisturbed'
  BY DEF Undisturbed
<1>2. /\ \A p \in selected : Listed(p)
      /\ \A b \in Additions(selected) : ~Collides(Walk[b[2]])
      /\ UNCHANGED <<source, destination>> /\ phase' = "check" /\ item' = 1
  BY <1>1 DEF Confirm
<1>3. PICK order \in Planned(selected) : plan' = [i \in DOMAIN order |-> Item(Walk[order[i][2]])]
  BY DEF Confirm
<1>4. /\ DOMAIN order = DOMAIN plan' /\ DOMAIN plan' = 1..Len(plan') /\ Len(plan') \in Nat
      /\ \A i \in DOMAIN plan' :
           order[i] \in Additions(selected) /\ plan'[i] = Item(Walk[order[i][2]])
  BY <1>3, PlannedItems DEF TypeOK, Trees
<1>5. ASSUME NEW i \in DOMAIN plan'
      PROVE  /\ Clear(plan[i])' /\ DestinationUnchanged(plan[i])' /\ ~(i < item')
             /\ plan'[i].path = Walk[order[i][2]]
  <2>1. order[i] \in Additions(selected) /\ plan'[i] = Item(Walk[order[i][2]])
    BY <1>4
  <2>2. /\ Walk[order[i][2]] \in Path /\ source[Walk[order[i][2]]] # Absent
        /\ ~Collides(Walk[order[i][2]])
    BY <1>2, <2>1, AdditionsArePresent
  <2>3. SourceUnchanged(plan'[i]) /\ DestinationUnchanged(plan'[i]) /\ plan'[i].path = Walk[order[i][2]]
    BY <2>1, <2>2, PlannedItemsPass
  <2>4. \A q \in Ancestors(plan'[i].path) \ {plan'[i].path} : destination[q].kind # "file"
    BY <1>2, <2>1, <2>3, WayIsClear
  <2>5. ~(i < item')
    BY <1>2, <1>4
  <2> QED
    BY <1>2, <2>3, <2>4, <2>5 DEF Clear, SourceUnchanged, DestinationUnchanged
<1>6. \A i, j \in DOMAIN plan' : plan'[i].path = plan'[j].path => i = j
  BY <1>4, <1>5, PlannedPathsDiffer
<1> QED
  BY <1>2, <1>5, <1>6 DEF Undisturbed

\* Above what is planned there are directories in the source.
LEMMA AbovePlannedAreDirectories ==
  ASSUME TypeOK, NEW i \in DOMAIN plan, SourceUnchanged(plan[i]),
         NEW q \in Ancestors(plan[i].path) \ {plan[i].path}
  PROVE  q \in Path /\ source[q].kind = "directory" /\ plan[i].path \in Path
<1>1. plan[i] \in PlanItem
  BY DEF TypeOK
<1>2. plan[i].path \in Path
  BY <1>1 DEF PlanItem
<1>3. source[plan[i].path] # Absent
  BY DEF SourceUnchanged, Absent
<1> QED
  BY <1>2, <1>3, AncestorIsPath DEF TypeOK, IsTree

LEMMA ChecksPass ==
  ASSUME TypeOK, Undisturbed, ~impeded, phase = "check", item <= Len(plan)
  PROVE  /\ SourceUnchanged(Now) /\ DestinationUnchanged(Now)
         /\ CanMakePath(IF Now.directory THEN Now.path ELSE Parent(Now.path))
<1>1. item \in DOMAIN plan /\ Now.path \in Path /\ ~(item < item)
  BY NowIsPlanned DEF TypeOK
<1>2. Clear(Now) /\ DestinationUnchanged(Now)
  BY <1>1 DEF Undisturbed, Now
<1>3. CASE Now.directory
  BY <1>2, <1>3 DEF Clear, CanMakePath, DestinationUnchanged
<1>4. CASE ~Now.directory
  BY <1>1, <1>2, <1>4, AncestorsOfParent DEF Clear, CanMakePath
<1> QED
  BY <1>2, <1>3, <1>4 DEF Clear

LEMMA CheckIsUndisturbed ==
  ASSUME TypeOK, Undisturbed, Check
  PROVE  Undisturbed'
<1> DEFINE where == IF Now.directory THEN Now.path ELSE Parent(Now.path)
<1>1. SUFFICES ASSUME ~impeded'
               PROVE  Undisturbed'
  BY DEF Undisturbed
<1>2. ~impeded /\ phase = "check" /\ item <= Len(plan)
  BY <1>1 DEF Check
<1>3. SourceUnchanged(Now) /\ DestinationUnchanged(Now) /\ CanMakePath(where)
  BY <1>2, ChecksPass
<1>4. /\ destination' = MadePath(where) /\ UNCHANGED <<source, plan>>
      /\ IF Now.directory THEN Advance
         ELSE phase' = "open" /\ target' = destination[Now.path] /\ UNCHANGED <<item, input, reading>>
  BY <1>3 DEF Check
<1>5. item \in DOMAIN plan /\ Now.path \in Path /\ item \in Nat /\ DOMAIN plan \subseteq Nat
  BY <1>2, NowIsPlanned DEF TypeOK
<1>6. /\ Trees(MadePath(where))
      /\ \A q \in Path : destination'[q] = destination[q] \/
           (destination[q] = Absent /\ q \in Ancestors(where) /\ destination'[q] = Directory(clock + 1))
      /\ \A q \in Ancestors(where) : destination'[q].kind = "directory"
  BY <1>2, <1>3, <1>4, CheckedPath, PathIsMade DEF TypeOK, Trees
<1>7. Directory(clock + 1).kind = "directory"
  BY DEF Directory
<1>8. ASSUME NEW i \in DOMAIN plan
      PROVE  /\ Clear(plan[i])'
             /\ Carried(plan[i]) => Carried(plan[i])'
             /\ DestinationUnchanged(plan[i]) => DestinationUnchanged(plan[i])'
  <2> DEFINE p == plan[i].path
  <2>1. Clear(plan[i]) /\ SourceUnchanged(plan[i]) /\ p \in Path
    <3>1. plan[i] \in PlanItem
      BY DEF TypeOK
    <3> QED
      BY <1>2, <3>1 DEF Undisturbed, Clear, PlanItem
  <2>2. Clear(plan[i])'
    <3>1. \A q \in Ancestors(p) \ {p} : destination'[q].kind # "file"
      BY <1>6, <1>7, <2>1, AncestorIsPath DEF Clear
    <3> QED
      BY <1>4, <2>1, <3>1 DEF Clear, SourceUnchanged
  <2>3. Carried(plan[i]) => Carried(plan[i])'
    <3>1. source[p].kind # "absent"
      BY <2>1 DEF SourceUnchanged
    <3>2. Carried(plan[i]) => destination'[p] = destination[p]
      BY <1>6, <2>1, <3>1 DEF Carried, Absent
    <3> QED
      BY <1>4, <3>2 DEF Carried
  <2>4. DestinationUnchanged(plan[i]) => DestinationUnchanged(plan[i])'
    <3>1. CASE destination'[p] = destination[p]
      BY <1>4, <3>1 DEF DestinationUnchanged
    <3>2. CASE p \in Ancestors(where) /\ destination'[p] = Directory(clock + 1)
      <4>1. CASE p = Now.path
        <5>1. Now.directory
          BY <1>5, <3>2, <4>1, AncestorsOfParent
        <5>2. source[p].kind = "directory"
          BY <1>3, <4>1, <5>1 DEF SourceUnchanged
        <5> QED
          BY <1>4, <1>7, <2>1, <3>2, <5>2 DEF DestinationUnchanged, SourceUnchanged
      <4>2. CASE p # Now.path
        <5>1. p \in Ancestors(Now.path) \ {Now.path}
          BY <1>5, <3>2, <4>2, AncestorsOfParent
        <5>2. source[p].kind = "directory"
          BY <1>3, <1>5, <5>1, AbovePlannedAreDirectories DEF Now
        <5> QED
          BY <1>4, <1>7, <2>1, <3>2, <5>2 DEF DestinationUnchanged, SourceUnchanged
      <4> QED
        BY <4>1, <4>2
    <3> QED
      BY <1>6, <2>1, <3>1, <3>2
  <2> QED
    BY <2>2, <2>3, <2>4
<1>9. CASE Now.directory
  <2>1. item' = item + 1 /\ phase' = "check"
    BY <1>4, <1>9 DEF Advance
  <2>2. ASSUME NEW k \in DOMAIN plan, k = item
        PROVE  Carried(plan[k])'
    <3>1. destination'[Now.path].kind = "directory"
      BY <1>5, <1>6, <1>9, PathIsItsAncestor
    <3>2. source'[Now.path].kind = "directory"
      BY <1>3, <1>4, <1>9 DEF SourceUnchanged
    <3>3. plan'[k] = Now
      BY <1>4, <2>2 DEF Now
    <3> QED
      BY <1>9, <3>1, <3>2, <3>3 DEF Carried
  <2>3. \A i \in DOMAIN plan : i < item' => i < item \/ i = item
    BY <1>5, <2>1
  <2>4. \A i \in DOMAIN plan : ~(i < item') => ~(i < item)
    BY <1>5, <2>1
  <2> QED
    BY <1>2, <1>4, <1>8, <2>1, <2>2, <2>3, <2>4 DEF Undisturbed
<1>10. CASE ~Now.directory
  <2>1. item' = item /\ phase' = "open" /\ Now' = Now
    BY <1>4, <1>10 DEF Now
  <2>2. HasDirectory(Now.path)'
    BY <1>5, <1>6, <1>10, <2>1, ParentIsAncestor, PathIsItsAncestor DEF HasDirectory
  <2> QED
    BY <1>2, <1>4, <1>5, <1>8, <2>1, <2>2 DEF Undisturbed
<1> QED
  BY <1>9, <1>10

LEMMA OpenIsUndisturbed ==
  ASSUME TypeOK, Undisturbed, Open
  PROVE  Undisturbed'
<1>1. SUFFICES ASSUME ~impeded'
               PROVE  Undisturbed'
  BY DEF Undisturbed
<1>2. ~impeded /\ phase = "open" /\ item <= Len(plan) /\ ~Now.directory
  BY <1>1 DEF Open, TypeOK
<1>3. item \in DOMAIN plan
  BY <1>2, NowIsPlanned
<1>4. source[Now.path].kind = "file" /\ HasDirectory(Now.path)
  BY <1>2, <1>3 DEF Undisturbed, Clear, SourceUnchanged, Now
<1>5. phase' = "read" /\ UNCHANGED <<source, destination, plan, item>>
  BY <1>4 DEF Open
<1> QED
  BY <1>2, <1>5 DEF Undisturbed, Clear, Carried, SourceUnchanged, DestinationUnchanged,
                    HasDirectory, Now

LEMMA CommitIsUndisturbed ==
  ASSUME TypeOK, CopyInv, Undisturbed, Commit
  PROVE  Undisturbed'
<1>1. SUFFICES ASSUME ~impeded'
               PROVE  Undisturbed'
  BY DEF Undisturbed
<1>2. ~impeded /\ phase = "commit" /\ item <= Len(plan) /\ ~Now.directory
  BY <1>1 DEF Commit, TypeOK
<1>3. /\ item \in DOMAIN plan /\ Now.path \in Path /\ item \in Nat /\ DOMAIN plan \subseteq Nat
      /\ ~(item < item)
  BY <1>2, NowIsPlanned DEF TypeOK
<1>4. SourceUnchanged(Now) /\ DestinationUnchanged(Now) /\ HasDirectory(Now.path)
  BY <1>2, <1>3 DEF Undisturbed, Clear, Now
<1>5. destination[Now.path].kind # "directory"
  BY <1>2, <1>4 DEF DestinationUnchanged, Absent
<1>6. /\ destination' = [destination EXCEPT ![Now.path] = File(reading, clock + 1)]
      /\ UNCHANGED <<source, plan>> /\ item' = item + 1 /\ phase' = "check"
  BY <1>4, <1>5 DEF Commit, Advance
<1>7. /\ destination'[Now.path].kind = "file" /\ destination'[Now.path].content = reading
      /\ reading = source[Now.path].content /\ source[Now.path].kind = "file"
  BY <1>2, <1>3, <1>4, <1>6 DEF TypeOK, File, CopyInv, SourceUnchanged
<1>8. \A q \in Path : q # Now.path => destination'[q] = destination[q]
  BY <1>6 DEF TypeOK
<1>9. ASSUME NEW i \in DOMAIN plan
      PROVE  Clear(plan[i])'
  <2>1. Clear(plan[i]) /\ SourceUnchanged(plan[i])
    BY <1>2 DEF Undisturbed, Clear
  <2>2. ASSUME NEW q \in Ancestors(plan[i].path) \ {plan[i].path}
        PROVE  destination'[q].kind # "file"
    <3>1. q \in Path /\ source[q].kind = "directory"
      BY <2>1, AbovePlannedAreDirectories
    <3>2. destination'[q] = destination[q]
      BY <1>7, <1>8, <3>1
    <3> QED
      BY <2>1, <3>2 DEF Clear
  <2> QED
    BY <1>6, <2>1, <2>2 DEF Clear, SourceUnchanged
<1>10. ASSUME NEW i \in DOMAIN plan, i # item
       PROVE  destination'[plan[i].path] = destination[plan[i].path]
  <2>1. plan[i] \in PlanItem
    BY DEF TypeOK
  <2>2. plan[i].path # Now.path /\ plan[i].path \in Path
    BY <1>2, <1>3, <1>10, <2>1 DEF Undisturbed, Now, PlanItem
  <2> QED
    BY <1>8, <2>2
<1>11. ASSUME NEW i \in DOMAIN plan, i < item'
       PROVE  Carried(plan[i])'
  <2>1. CASE i = item
    BY <1>6, <1>7, <2>1 DEF Carried, Now
  <2>2. CASE i < item /\ i # item
    BY <1>2, <1>6, <1>10, <2>2 DEF Undisturbed, Carried
  <2>3. i = item \/ (i < item /\ i # item)
    BY <1>3, <1>6, <1>11
  <2> QED
    BY <2>1, <2>2, <2>3
<1>12. ASSUME NEW i \in DOMAIN plan, ~(i < item')
       PROVE  DestinationUnchanged(plan[i])'
  <2>1. ~(i < item) /\ i # item
    BY <1>3, <1>6, <1>12
  <2> QED
    BY <1>2, <1>6, <1>10, <2>1 DEF Undisturbed, DestinationUnchanged
<1> QED
  BY <1>2, <1>6, <1>9, <1>11, <1>12 DEF Undisturbed

LEMMA NextIsUndisturbed ==
  ASSUME TypeOK, CopyInv, Undisturbed, [Next]_vars
  PROVE  Undisturbed'
<1>1. CASE \E selected \in SUBSET Path \ {{}} : Confirm(selected)
  BY <1>1, ConfirmIsUndisturbed
<1>2. CASE Check
  BY <1>2, CheckIsUndisturbed
<1>3. CASE Open
  BY <1>3, OpenIsUndisturbed
<1>4. CASE Read
  BY <1>4 DEF Read, Undisturbed, Clear, Carried, SourceUnchanged, DestinationUnchanged,
              HasDirectory, Now
<1>5. CASE Commit
  BY <1>5, CommitIsUndisturbed
<1>6. CASE DiskFails
  BY <1>6 DEF DiskFails, Undisturbed
<1>7. CASE Finish
  BY <1>7 DEF Finish, Undisturbed, Clear, Carried, SourceUnchanged, DestinationUnchanged
<1>8. CASE OtherProcess
  BY <1>8 DEF OtherProcess, Undisturbed
<1>9. CASE UNCHANGED vars
  BY <1>9 DEF vars, Undisturbed, Clear, Carried, SourceUnchanged, DestinationUnchanged,
              HasDirectory, Now
<1> QED
  BY <1>1, <1>2, <1>3, <1>4, <1>5, <1>6, <1>7, <1>8, <1>9 DEF Next

LEMMA UndisturbedIsComplete ==
  ASSUME TypeOK, Undisturbed
  PROVE  UndisturbedCopyIsComplete
<1>1. SUFFICES ASSUME ~impeded, phase = "finished", NEW i \in DOMAIN plan
               PROVE  /\ destination[plan[i].path].kind = source[plan[i].path].kind
                      /\ source[plan[i].path].kind = "file" =>
                           destination[plan[i].path].content = source[plan[i].path].content
  BY DEF UndisturbedCopyIsComplete, Undisturbed
<1>2. i < item
  <2>1. item > Len(plan) /\ item \in Nat /\ Len(plan) \in Nat /\ i \in 1..Len(plan)
    BY <1>1 DEF Undisturbed, TypeOK
  <2> QED
    BY ONLY <2>1
<1>3. Carried(plan[i]) /\ SourceUnchanged(plan[i])
  BY <1>1, <1>2 DEF Undisturbed, Clear
<1> QED
  BY <1>3 DEF Carried, SourceUnchanged

\* Both sides stay trees, and a confirmed plan that nothing interferes with is
\* carried out to its last item, whatever was selected (planDirectoryCopy and
\* executeDirectoryCopy: no item makes another one fail its checks).
THEOREM UndisturbedPlansSucceed ==
  Spec => []CopyIsSound
<1>1. Init => Undisturbed
  BY DEF Init, Undisturbed
<1>2. TypeOK /\ CopyInv /\ Undisturbed /\ [Next]_vars => Undisturbed'
  BY NextIsUndisturbed
<1>3. TypeOK /\ Undisturbed => CopyIsSound
  BY UndisturbedIsComplete DEF CopyIsSound
<1> QED
  BY <1>1, <1>2, <1>3, CopyHolds, PTL DEF Spec
=============================================================================
