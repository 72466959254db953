----------------------------- MODULE Scan_proofs -----------------------------
(***************************************************************************)
(* A scan that is ready is complete: every name that is seen is listed     *)
(* once, before what is in it, and every directory is the sum of all that  *)
(* is below it.  What is there is asked for one directory and one file at  *)
(* a time, while contents change; names and kinds do not, so there is one  *)
(* Shape of the trees that all answers agree with.                         *)
(***************************************************************************)
EXTENDS Workers_proofs

-----------------------------------------------------------------------------
(* Names, and the directories above them.                                  *)

Up(p, n) == SubSeq(p, 1, n)

LEMMA UpIs ==
  ASSUME NEW p \in Seq(PathName), NEW n \in 0..Len(p)
  PROVE  /\ Up(p, n) \in Seq(PathName) /\ Len(Up(p, n)) = n
         /\ \A m \in 0..n : Up(Up(p, n), m) = Up(p, m)
<1>1. n \in Nat /\ Up(p, n) \in Seq(PathName) /\ Len(Up(p, n)) = n
      /\ \A m \in 1..n : Up(p, n)[m] = p[m]
  BY DEF Up
<1>2. ASSUME NEW m \in 0..n PROVE Up(Up(p, n), m) = Up(p, m)
  <2> DEFINE u == Up(p, n)
  <2>1. u \in Seq(PathName) /\ m \in 0..Len(u) /\ m \in Nat /\ m \in 0..Len(p) /\ Len(p) \in Nat
    BY <1>1
  <2>2. \A k \in 1..m : u[k] = p[k]
    BY <1>1
  <2> HIDE DEF u
  <2>3. /\ SubSeq(u, 1, m) \in Seq(PathName) /\ Len(SubSeq(u, 1, m)) = m
        /\ \A k \in 1..m : SubSeq(u, 1, m)[k] = u[k]
    BY <2>1
  <2>4. /\ SubSeq(p, 1, m) \in Seq(PathName) /\ Len(SubSeq(p, 1, m)) = m
        /\ \A k \in 1..m : SubSeq(p, 1, m)[k] = p[k]
    BY <2>1
  <2>5. SubSeq(u, 1, m) = SubSeq(p, 1, m)
    <3> DEFINE a == SubSeq(u, 1, m)  b == SubSeq(p, 1, m)
    <3>1. a \in Seq(PathName) /\ b \in Seq(PathName) /\ Len(a) = Len(b)
          /\ \A k \in 1..Len(a) : a[k] = b[k]
      BY <2>2, <2>3, <2>4
    <3> HIDE DEF a, b
    <3>2. a = b
      BY <3>1, SeqEqual
    <3> QED
      BY <3>2 DEF a, b
  <2> QED
    BY <2>5 DEF Up, u
<1> QED
  BY <1>1, <1>2

LEMMA UpAll ==
  ASSUME NEW p \in Seq(PathName)
  PROVE  Up(p, Len(p)) = p /\ Up(p, 0) = <<>> /\ Len(p) \in Nat /\ (Len(p) = 0 => p = <<>>)
BY SubSeqFull, SubSeqEmpty DEF Up

IsBelow(d, q) == Len(d) < Len(q) /\ Up(q, Len(d)) = d
LEMMA BelowIs ==
  ASSUME NEW d \in Seq(PathName), NEW q \in Seq(PathName)
  PROVE  Scanning!Below(d, q) = IsBelow(d, q)
BY DEF Scanning!Below, IsBelow, Up

LEMMA BelowBelow ==
  ASSUME NEW d \in Seq(PathName), NEW e \in Seq(PathName), NEW q \in Seq(PathName),
         IsBelow(d, e), IsBelow(e, q)
  PROVE  IsBelow(d, q)
<1>1. Len(d) \in Nat /\ Len(e) \in Nat /\ Len(q) \in Nat
  OBVIOUS
<1>2. Len(e) \in 0..Len(q) /\ Len(d) \in 0..Len(e) /\ Len(d) < Len(q)
  BY <1>1 DEF IsBelow
<1>3. Up(Up(q, Len(e)), Len(d)) = Up(q, Len(d))
  BY <1>2, UpIs
<1> QED
  BY <1>2, <1>3 DEF IsBelow

-----------------------------------------------------------------------------
(* What stays of the trees: which names there are, and of what kind.       *)

KindOf(node) == IF node = None THEN "nothing" ELSE node.kind
Shape(t) == [side \in Side |-> [p \in ScanPath |-> KindOf(t[side][p])]]
Kind == {"file", "dir", "link", "device", "nothing"}
Shapes == [Side -> [ScanPath -> Kind]]

ClashIn(k, p) ==
  /\ k["left"][p] # "nothing" /\ k["right"][p] # "nothing"
  /\ \/ (k["left"][p] = "dir") # (k["right"][p] = "dir")
     \/ (k["left"][p] = "link") # (k["right"][p] = "link")
HiddenIn(o, p) == \E n \in 1..Len(p) : p[n] \in o.excluded
ShownIn(k, o) ==
  {p \in ScanPath : /\ k["left"][p] # "nothing" \/ k["right"][p] # "nothing"
                    /\ ~HiddenIn(o, p)
                    /\ \A n \in 1..Len(p) - 1 : ~ClashIn(k, Up(p, n))}
EnteredIn(k) ==
  {p \in ScanPath : (k["left"][p] = "dir" \/ k["right"][p] = "dir") /\ ~ClashIn(k, p)}
IsTreeOf(k) ==
  \A side \in Side, p \in ScanPath : k[side][p] # "nothing" =>
    \A n \in 1..Len(p) - 1 : Up(p, n) \in ScanPath /\ k[side][Up(p, n)] = "dir"
\* Whatever is seen is in directories that are seen and entered.
IsWalkable(V, E) ==
  /\ V \subseteq ScanPath
  /\ \A q \in V : \A n \in 1..Len(q) - 1 : Up(q, n) \in V /\ Up(q, n) \in E

LEMMA ScanPaths ==
  /\ \A p \in ScanPath : p \in Seq(PathName) /\ p # <<>> /\ Len(p) \in Nat /\ Len(p) >= 1
  /\ <<>> \in Seq(PathName) /\ Len(<<>>) = 0
BY ScanAssumption

LEMMA Walkable ==
  ASSUME NEW k, NEW o, IsTreeOf(k)
  PROVE  IsWalkable(ShownIn(k, o), EnteredIn(k))
<1> SUFFICES ASSUME NEW q \in ShownIn(k, o), NEW n \in 1..Len(q) - 1
             PROVE  Up(q, n) \in ShownIn(k, o) /\ Up(q, n) \in EnteredIn(k)
  BY DEF IsWalkable, ShownIn
<1> DEFINE d == Up(q, n)
<1>1. q \in ScanPath /\ q \in Seq(PathName) /\ Len(q) \in Nat
  BY ScanPaths DEF ShownIn
<1>2. PICK side \in Side : k[side][q] # "nothing"
  BY DEF ShownIn, Side
<1>3. d \in ScanPath /\ k[side][d] = "dir"
  BY <1>1, <1>2 DEF IsTreeOf
<1>4. ~ClashIn(k, d)
  BY DEF ShownIn
<1>5. n \in 0..Len(q) /\ Len(d) = n /\ n \in Nat /\ \A m \in 1..n - 1 : Up(d, m) = Up(q, m)
  BY <1>1, UpIs
<1>6. \A m \in 1..Len(d) : d[m] = q[m]
  BY <1>1, <1>5 DEF Up
<1> HIDE DEF d
<1>7. ~HiddenIn(o, d)
  <2>1. ~HiddenIn(o, q)
    BY DEF ShownIn
  <2> QED
    BY <1>1, <1>5, <1>6, <2>1 DEF HiddenIn
<1>8. ASSUME NEW m \in 1..Len(d) - 1 PROVE ~ClashIn(k, Up(d, m))
  <2>1. m \in 1..Len(q) - 1 /\ Up(d, m) = Up(q, m)
    BY <1>1, <1>5
  <2> QED
    BY <2>1 DEF ShownIn
<1>9. k["left"][d] = "dir" \/ k["right"][d] = "dir"
  BY <1>3 DEF Side
<1> QED
  BY <1>3, <1>4, <1>7, <1>8, <1>9 DEF ShownIn, EnteredIn, d

\* These are the names a ready scan must list, and the directories it must enter.
LEMMA ShapeTells ==
  ASSUME ScanTypes, IsTreeOf(Shape(trees))
  PROVE  /\ Shape(trees) \in Shapes
         /\ Scanning!Visible = ShownIn(Shape(trees), scanOptions)
         /\ \A p \in ScanPath : Scanning!Entered(p) = (p \in EnteredIn(Shape(trees)))
         /\ \A p \in ScanPath : (Scanning!Found(p) = Side)
              = (Shape(trees)["left"][p] # "nothing" /\ Shape(trees)["right"][p] # "nothing")
<1> DEFINE k == Shape(trees)
<1>1. \A side \in Side, p \in ScanPath : trees[side][p] \in Nodes
  BY DEF ScanTypes, Listings
<1>2. \A side \in Side, p \in ScanPath : k[side][p] = KindOf(trees[side][p])
  BY DEF Shape
<1>3. \A node \in Nodes :
        /\ KindOf(node) \in Kind
        /\ KindOf(node) = "nothing" <=> node = None
        /\ Scanning!IsDir(node) <=> KindOf(node) = "dir"
        /\ node # None => (KindOf(node) = "link" <=> node.kind = "link")
  BY DEF KindOf, Nodes, ScanNode, Kind, Scanning!IsDir
<1>4. k \in Shapes
  BY <1>1, <1>3 DEF Shape, Shapes
<1> HIDE DEF k
<1>5. "left" \in Side /\ "right" \in Side /\ \A side \in Side : side = "left" \/ side = "right"
  BY DEF Side
<1>6. Scanning!Side = Side
  BY DEF Scanning!Side, Side
<1>7. ASSUME NEW p \in ScanPath PROVE Scanning!Clash(p) <=> ClashIn(k, p)
  <2>1. trees["left"][p] \in Nodes /\ trees["right"][p] \in Nodes
    BY <1>1, <1>5
  <2>2. k["left"][p] = KindOf(trees["left"][p]) /\ k["right"][p] = KindOf(trees["right"][p])
    BY <1>2, <1>5
  <2> QED
    <3> DEFINE l == trees["left"][p]  r == trees["right"][p]  kl == k["left"][p]  kr == k["right"][p]
    <3>1. /\ (l # None) = (kl # "nothing") /\ (r # None) = (kr # "nothing")
          /\ Scanning!IsDir(l) = (kl = "dir") /\ Scanning!IsDir(r) = (kr = "dir")
          /\ l # None => (l.kind = "link") = (kl = "link")
          /\ r # None => (r.kind = "link") = (kr = "link")
      BY <1>3, <2>1, <2>2 DEF Scanning!IsDir
    <3>2. Scanning!Clash(p) <=> Scanning!Collide(l, r)
      BY DEF Scanning!Clash
    <3>3. ClashIn(k, p) <=> /\ kl # "nothing" /\ kr # "nothing"
                            /\ (kl = "dir") # (kr = "dir") \/ (kl = "link") # (kr = "link")
      BY DEF ClashIn
    <3> HIDE DEF l, r, kl, kr
    <3>4. Scanning!Collide(l, r) <=> /\ kl # "nothing" /\ kr # "nothing"
                                     /\ (kl = "dir") # (kr = "dir") \/ (kl = "link") # (kr = "link")
      BY <3>1 DEF Scanning!Collide
    <3> QED
      BY <3>2, <3>3, <3>4
<1>8. ASSUME NEW p \in ScanPath
      PROVE  /\ (Scanning!Found(p) = Side) = (k["left"][p] # "nothing" /\ k["right"][p] # "nothing")
             /\ (Scanning!Found(p) # {}) = (k["left"][p] # "nothing" \/ k["right"][p] # "nothing")
             /\ (\E side \in Scanning!Found(p) : Scanning!IsDir(trees[side][p]))
                  = (k["left"][p] = "dir" \/ k["right"][p] = "dir")
  <2>1. trees["left"][p] \in Nodes /\ trees["right"][p] \in Nodes
    BY <1>1, <1>5
  <2>2. k["left"][p] = KindOf(trees["left"][p]) /\ k["right"][p] = KindOf(trees["right"][p])
    BY <1>2, <1>5
  <2>3. Scanning!Found(p) = {side \in Side : trees[side][p] # None}
    BY <1>6 DEF Scanning!Found
  <2>4. /\ "left" \in Scanning!Found(p) <=> k["left"][p] # "nothing"
        /\ "right" \in Scanning!Found(p) <=> k["right"][p] # "nothing"
        /\ Scanning!Found(p) \subseteq Side
    BY <1>3, <1>5, <2>1, <2>2, <2>3
  <2>5. /\ Scanning!IsDir(trees["left"][p]) <=> k["left"][p] = "dir"
        /\ Scanning!IsDir(trees["right"][p]) <=> k["right"][p] = "dir"
    BY <1>3, <2>1, <2>2
  <2>6. (Scanning!Found(p) = Side) <=> (k["left"][p] # "nothing" /\ k["right"][p] # "nothing")
    BY <1>5, <2>4
  <2>7. (Scanning!Found(p) # {}) <=> (k["left"][p] # "nothing" \/ k["right"][p] # "nothing")
    BY <1>5, <2>4
  <2>8. (\E side \in Scanning!Found(p) : Scanning!IsDir(trees[side][p]))
          <=> (k["left"][p] = "dir" \/ k["right"][p] = "dir")
    <3>1. (\E side \in Scanning!Found(p) : Scanning!IsDir(trees[side][p]))
            => (k["left"][p] = "dir" \/ k["right"][p] = "dir")
      BY <1>5, <2>4, <2>5
    <3>2. k["left"][p] = "dir" => \E side \in Scanning!Found(p) : Scanning!IsDir(trees[side][p])
      BY <2>4, <2>5
    <3>3. k["right"][p] = "dir" => \E side \in Scanning!Found(p) : Scanning!IsDir(trees[side][p])
      BY <2>4, <2>5
    <3> QED
      BY <3>1, <3>2, <3>3
  <2> QED
    BY <2>6, <2>7, <2>8
<1>9. ASSUME NEW p \in ScanPath PROVE Scanning!Entered(p) = (p \in EnteredIn(k))
  <2>1. Scanning!Entered(p) <=> (p \in EnteredIn(k))
    BY <1>7, <1>8 DEF Scanning!Entered, EnteredIn
  <2> QED
    BY <2>1 DEF Scanning!Entered
<1>10. ASSUME NEW p \in ScanPath
       PROVE  p \in Scanning!Visible <=> p \in ShownIn(k, scanOptions)
  <2>1. Scanning!Hidden(p) <=> HiddenIn(scanOptions, p)
    BY DEF Scanning!Hidden, HiddenIn
  <2>2. ASSUME k["left"][p] # "nothing" \/ k["right"][p] # "nothing", NEW n \in 1..Len(p) - 1
        PROVE  Scanning!Clash(SubSeq(p, 1, n)) <=> ClashIn(k, Up(p, n))
    <3>1. Up(p, n) \in ScanPath
      BY <1>5, <2>2 DEF IsTreeOf, k
    <3> QED
      BY <1>7, <3>1 DEF Up
  <2>3. (Scanning!Found(p) # {}) <=> (k["left"][p] # "nothing" \/ k["right"][p] # "nothing")
    BY <1>8
  <2>4. p \in Scanning!Visible
          <=> /\ Scanning!Found(p) # {} /\ ~Scanning!Hidden(p)
              /\ \A n \in 1..Len(p) - 1 : ~Scanning!Clash(SubSeq(p, 1, n))
    BY DEF Scanning!Visible
  <2>5. p \in ShownIn(k, scanOptions)
          <=> /\ k["left"][p] # "nothing" \/ k["right"][p] # "nothing"
              /\ ~HiddenIn(scanOptions, p)
              /\ \A n \in 1..Len(p) - 1 : ~ClashIn(k, Up(p, n))
    BY DEF ShownIn
  <2> QED
    BY <2>1, <2>2, <2>3, <2>4, <2>5
<1>11. Scanning!Visible = ShownIn(k, scanOptions)
  <2>1. Scanning!Visible \subseteq ScanPath /\ ShownIn(k, scanOptions) \subseteq ScanPath
    BY DEF Scanning!Visible, ShownIn
  <2> QED
    BY <1>10, <2>1
<1>12. \A p \in ScanPath : (Scanning!Found(p) = Side)
              = (k["left"][p] # "nothing" /\ k["right"][p] # "nothing")
  BY <1>8
<1> QED
  BY <1>4, <1>9, <1>11, <1>12 DEF k

-----------------------------------------------------------------------------
(* The walk, of the calls fs and the entries es: what is seen and not yet  *)
(* listed is due in one of the calls, and what is listed is summed up.     *)

ParentOf(p) == Up(p, Len(p) - 1)
\* What a call has still to list.
Due(V, f) ==
  {q \in V : IF f.stage = "names" THEN \E p \in f.todo : q = p \/ IsBelow(p, q) ELSE IsBelow(f.path, q)}

\* What is listed of a directory is of the kind that is there.
IsListing(k, o, side, d, l) ==
  \A p \in ScanPath : KindOf(l[p]) = IF ParentOf(p) = d /\ p[Len(p)] \notin o.excluded
                                        THEN k[side][p] ELSE "nothing"
\* A call walks a directory that is entered; its names are seen, and as listed.
IsCall(k, o, V, E, f) ==
  /\ f.depth = Len(f.path)
  /\ f.at = 0 <=> f.path = <<>>
  /\ f.path # <<>> => f.path \in V /\ f.path \in E
  /\ f.stage # "left" => f.depth <= MaxDepth
  /\ f.stage = "right" => IsListing(k, o, "left", f.path, f.left)
  /\ f.stage = "names" =>
       \A p \in f.todo : /\ p \in V /\ ParentOf(p) = f.path
                         /\ KindOf(f.left[p]) = k["left"][p] /\ KindOf(f.right[p]) = k["right"][p]
\* The calls are those of the directories around the last one, outermost first.
AreNested(fs) ==
  \A n \in DOMAIN fs :
    /\ Len(fs[n].path) = n - 1
    /\ \A m \in 1..n : fs[m].path = Up(fs[n].path, m - 1)
    /\ n < Len(fs) => fs[n].stage = "names" /\ fs[n + 1].path \notin fs[n].todo

AreAsSeen(k, V, E, es) ==
  \A i \in DOMAIN es :
    /\ es[i].path \in V
    /\ KindOf(es[i].left) = k["left"][es[i].path] /\ KindOf(es[i].right) = k["right"][es[i].path]
    /\ es[i].path \in E => es[i].isDir
NoneIsDue(V, fs, es) == \A i \in DOMAIN es, n \in DOMAIN fs : es[i].path \notin Due(V, fs[n])
AreInOrder(es) ==
  \A i, j \in DOMAIN es : i < j => es[i].path # es[j].path /\ ~IsBelow(es[j].path, es[i].path)
AllAreSeen(V, fs, es) ==
  \A q \in V : (\E i \in DOMAIN es : es[i].path = q) \/ \E n \in DOMAIN fs : q \in Due(V, fs[n])
\* What follows the entry of a directory that is being walked is in it.
AreFollowed(fs, es) ==
  \A n \in DOMAIN fs : fs[n].at > 0 =>
    /\ fs[n].at \in DOMAIN es /\ es[fs[n].at].path = fs[n].path
    /\ \A i \in DOMAIN es : i > fs[n].at => IsBelow(fs[n].path, es[i].path)
AreWithin(E, fs, es) ==
  /\ Len(es) <= MaxEntries
  /\ \A i \in DOMAIN es : es[i].path \in E =>
       \/ Len(es[i].path) <= MaxDepth
       \/ \E n \in DOMAIN fs : fs[n].path = es[i].path /\ fs[n].stage = "left"

IsOpen(fs, i) == \E n \in DOMAIN fs : fs[n].at = i
Inside(es, i) == {j \in DOMAIN es : IsBelow(es[i].path, es[j].path)}
OnBothSides(k, p) == k["left"][p] # "nothing" /\ k["right"][p] # "nothing"
IsSummed(k, E, es, i) ==
  /\ es[i].empty <=> \A j \in Inside(es, i) : es[j].path \in E
  /\ es[i].verified <=> \A j \in Inside(es, i) : es[j].verified
  /\ OnBothSides(k, es[i].path) =>
       (es[i].status = "Same" <=> \A j \in Inside(es, i) : es[j].status = "Same")
AreSummed(k, E, fs, es) ==
  \A i \in DOMAIN es :
    /\ es[i].path \notin E => ~es[i].empty
    /\ IsOpen(fs, i) => es[i].verified /\ (OnBothSides(k, es[i].path) => es[i].status = "Same")
    /\ es[i].path \in E /\ ~IsOpen(fs, i) => IsSummed(k, E, es, i)

IsWalk(k, o, V, E, fs, es) ==
  /\ fs \in Seq(Frame) /\ es \in Seq(FoundEntry)
  /\ \A n \in DOMAIN fs : IsCall(k, o, V, E, fs[n])
  /\ AreNested(fs) /\ AreAsSeen(k, V, E, es) /\ NoneIsDue(V, fs, es) /\ AreInOrder(es)
  /\ AllAreSeen(V, fs, es) /\ AreFollowed(fs, es) /\ AreWithin(E, fs, es) /\ AreSummed(k, E, fs, es)

-----------------------------------------------------------------------------
(* Names and calls.                                                        *)

LEMMA FramePaths ==
  ASSUME NEW f \in Frame
  PROVE  /\ f.path \in Seq(PathName) /\ f.at \in Nat /\ f.depth \in Nat
         /\ f.todo \subseteq ScanPath
BY ScanPaths DEF Frame

LEMMA AboveIs ==
  ASSUME NEW p \in ScanPath
  PROVE  /\ ParentOf(p) \in Seq(PathName) /\ Len(ParentOf(p)) = Len(p) - 1 /\ IsBelow(ParentOf(p), p)
         /\ \A d \in Seq(PathName) : IsBelow(d, p) /\ d # ParentOf(p) => IsBelow(d, ParentOf(p))
<1>1. p \in Seq(PathName) /\ Len(p) \in Nat /\ Len(p) - 1 \in 0..Len(p)
  BY ScanPaths
<1>2. /\ ParentOf(p) \in Seq(PathName) /\ Len(ParentOf(p)) = Len(p) - 1
      /\ \A m \in 0..Len(p) - 1 : Up(ParentOf(p), m) = Up(p, m)
  BY <1>1, UpIs DEF ParentOf
<1>3. IsBelow(ParentOf(p), p)
  BY <1>1, <1>2 DEF IsBelow, ParentOf
<1>4. ASSUME NEW d \in Seq(PathName), IsBelow(d, p), d # ParentOf(p) PROVE IsBelow(d, ParentOf(p))
  <2>1. Len(d) \in Nat /\ Len(d) < Len(p) /\ Up(p, Len(d)) = d
    BY <1>4 DEF IsBelow
  <2>2. Len(d) # Len(p) - 1
    BY <1>4, <2>1 DEF ParentOf
  <2>3. Len(d) \in 0..Len(p) - 1 /\ Len(d) < Len(p) - 1
    BY <1>1, <2>1, <2>2
  <2> QED
    BY <1>2, <2>1, <2>3 DEF IsBelow
<1> QED
  BY <1>2, <1>3, <1>4

\* An entry and the call about it.
LEMMA AtIs ==
  ASSUME NEW k, NEW o, NEW V, NEW E, NEW fs, NEW es, IsWalk(k, o, V, E, fs, es),
         NEW n \in DOMAIN fs, NEW i \in DOMAIN es, es[i].path = fs[n].path
  PROVE  fs[n].at = i
<1>1. fs[n] \in Frame /\ es[i] \in FoundEntry
  BY DEF IsWalk
<1>2. fs[n].path # <<>> /\ fs[n].at \in Nat
  BY <1>1, ScanPaths DEF FoundEntry, Frame
<1>3. fs[n].at > 0
  BY <1>2 DEF IsWalk, IsCall
<1>4. fs[n].at \in DOMAIN es /\ es[fs[n].at].path = fs[n].path
  BY <1>3 DEF IsWalk, AreFollowed
<1>5. i \in Nat
  BY DEF IsWalk
<1> QED
  BY <1>2, <1>4, <1>5 DEF IsWalk, AreInOrder

\* The directories around a name are those of the calls.
LEMMA AroundIsOpen ==
  ASSUME NEW k, NEW o, NEW V, NEW E, NEW fs, NEW es, IsWalk(k, o, V, E, fs, es),
         NEW p \in Seq(PathName), fs # <<>>, Len(p) >= Len(fs) - 1,
         Up(p, Len(fs) - 1) = fs[Len(fs)].path,
         NEW i \in DOMAIN es, IsBelow(es[i].path, p), Len(es[i].path) <= Len(fs) - 1
  PROVE  \E n \in DOMAIN fs : n = Len(es[i].path) + 1 /\ fs[n].at = i
<1> DEFINE d == es[i].path  n == Len(d) + 1  top == fs[Len(fs)]
<1>1. /\ fs \in Seq(Frame) /\ Len(fs) \in Nat \ {0} /\ Len(fs) \in DOMAIN fs
      /\ d \in ScanPath
  <2>1. fs \in Seq(Frame) /\ es[i] \in FoundEntry
    BY DEF IsWalk
  <2> QED
    BY <2>1 DEF FoundEntry
<1>2. d \in Seq(PathName) /\ Len(d) \in Nat
  BY <1>1, ScanPaths
<1>3. n \in DOMAIN fs /\ n \in 1..Len(fs)
  BY <1>1, <1>2
<1>4. fs[n].path = Up(top.path, n - 1)
  BY <1>1, <1>3 DEF IsWalk, AreNested
<1>5. Len(p) \in Nat /\ Len(fs) - 1 \in 0..Len(p) /\ Len(d) \in 0..Len(fs) - 1
  BY <1>1, <1>2
<1>6. Up(Up(p, Len(fs) - 1), Len(d)) = Up(p, Len(d))
  BY <1>5, UpIs
<1>7. fs[n].path = d
  BY <1>2, <1>4, <1>6 DEF IsBelow
<1> QED
  BY <1>3, <1>7, AtIs

\* The names of a directory that is entered are the names seen in it.
LEMMA NamesAre ==
  ASSUME NEW k \in Shapes, NEW o, NEW d, NEW l \in Listings, NEW r \in Listings,
         d # <<>> => d \in ShownIn(k, o) /\ d \in EnteredIn(k), d \in Seq(PathName),
         IsListing(k, o, "left", d, l), IsListing(k, o, "right", d, r)
  PROVE  {p \in ScanPath : l[p] # None \/ r[p] # None} = {p \in ShownIn(k, o) : ParentOf(p) = d}
<1>1. \A node \in Nodes : KindOf(node) = "nothing" <=> node = None
  BY DEF KindOf, Nodes, ScanNode
<1>2. \A p \in ScanPath : l[p] \in Nodes /\ r[p] \in Nodes
  BY DEF Listings
<1>3. ASSUME NEW p \in ScanPath
      PROVE  (l[p] # None \/ r[p] # None)
               <=> /\ ParentOf(p) = d /\ p[Len(p)] \notin o.excluded
                   /\ k["left"][p] # "nothing" \/ k["right"][p] # "nothing"
  BY <1>1, <1>2 DEF IsListing
<1>4. ASSUME NEW p \in ScanPath, ParentOf(p) = d, p[Len(p)] \notin o.excluded
      PROVE  ~HiddenIn(o, p) /\ \A n \in 1..Len(p) - 1 : ~ClashIn(k, Up(p, n))
  <2>1. p \in Seq(PathName) /\ Len(p) \in Nat /\ Len(p) >= 1 /\ Len(d) = Len(p) - 1
    BY <1>4, ScanPaths, AboveIs
  <2>2. /\ \A n \in 1..Len(p) - 1 : d[n] = p[n]
        /\ \A n \in 0..Len(p) - 1 : Up(d, n) = Up(p, n)
    BY <1>4, <2>1, UpIs DEF ParentOf, Up
  <2>3. CASE d = <<>>
    <3>0. Len(p) = 1
      BY <2>1, <2>3, ScanPaths
    <3>1. 1..Len(p) - 1 = {} /\ \A n \in 1..Len(p) : n = Len(p)
      BY <3>0
    <3> QED
      BY <1>4, <3>1 DEF HiddenIn
  <2>4. CASE d # <<>>
    <3>1. ~HiddenIn(o, d) /\ ~ClashIn(k, d) /\ \A n \in 1..Len(d) - 1 : ~ClashIn(k, Up(d, n))
      BY <2>4 DEF ShownIn, EnteredIn
    <3>2. ~HiddenIn(o, p)
      BY <1>4, <2>1, <2>2, <3>1 DEF HiddenIn
    <3>3. ASSUME NEW n \in 1..Len(p) - 1 PROVE ~ClashIn(k, Up(p, n))
      <4>1. CASE n = Len(d)
        BY <1>4, <2>1, <3>1, <4>1 DEF ParentOf
      <4>2. CASE n # Len(d)
        <5>1. n \in 1..Len(d) - 1 /\ n \in 0..Len(p) - 1
          BY <2>1, <4>2
        <5> QED
          BY <2>2, <3>1, <5>1
      <4> QED
        BY <4>1, <4>2
    <3> QED
      BY <3>2, <3>3
  <2> QED
    BY <2>3, <2>4
<1>5. ASSUME NEW p \in ShownIn(k, o)
      PROVE  p[Len(p)] \notin o.excluded /\ (k["left"][p] # "nothing" \/ k["right"][p] # "nothing")
  <2>1. Len(p) \in 1..Len(p)
    BY ScanPaths DEF ShownIn
  <2> QED
    BY <2>1 DEF ShownIn, HiddenIn
<1>6. ASSUME NEW p PROVE (p \in ScanPath /\ (l[p] # None \/ r[p] # None)) <=> (p \in ShownIn(k, o) /\ ParentOf(p) = d)
  <2>1. p \in ShownIn(k, o) => p \in ScanPath
    BY DEF ShownIn
  <2>2. ASSUME p \in ScanPath, l[p] # None \/ r[p] # None PROVE p \in ShownIn(k, o) /\ ParentOf(p) = d
    BY <1>3, <1>4, <2>2 DEF ShownIn
  <2>3. ASSUME p \in ShownIn(k, o), ParentOf(p) = d PROVE l[p] # None \/ r[p] # None
    BY <1>3, <1>5, <2>1, <2>3
  <2> QED
    BY <2>1, <2>2, <2>3
<1> QED
  BY <1>6

\* Once its names are known, as much is due of a directory as before.
LEMMA DueStays ==
  ASSUME NEW V, NEW E, IsWalkable(V, E), NEW d \in Seq(PathName), NEW q \in V
  PROVE  IsBelow(d, q) <=> \E p \in {p \in V : ParentOf(p) = d} : q = p \/ IsBelow(p, q)
<1>1. q \in ScanPath /\ q \in Seq(PathName) /\ Len(q) \in Nat /\ Len(q) >= 1 /\ Len(d) \in Nat
  BY ScanPaths DEF IsWalkable
<1>2. ASSUME IsBelow(d, q) PROVE \E p \in V : ParentOf(p) = d /\ (q = p \/ IsBelow(p, q))
  <2> DEFINE n == Len(d) + 1  p == Up(q, n)
  <2>1. n \in 1..Len(q) /\ n \in 0..Len(q) /\ Len(d) \in 0..n /\ n - 1 = Len(d)
    BY <1>1, <1>2 DEF IsBelow
  <2>2. Len(p) = n /\ Up(p, Len(d)) = Up(q, Len(d))
    BY <1>1, <2>1, UpIs
  <2>3. ParentOf(p) = d
    BY <1>2, <2>1, <2>2 DEF ParentOf, IsBelow
  <2>4. CASE n = Len(q)
    <3>1. p = q
      BY <1>1, <2>4, UpAll
    <3> QED
      BY <2>3, <3>1
  <2>5. CASE n # Len(q)
    <3>1. n \in 1..Len(q) - 1
      BY <1>1, <2>1, <2>5
    <3>2. p \in V
      BY <3>1 DEF IsWalkable
    <3>3. IsBelow(p, q)
      BY <1>1, <2>1, <2>2, <2>5 DEF IsBelow
    <3> QED
      BY <2>3, <3>2, <3>3
  <2> QED
    BY <2>4, <2>5
<1>3. ASSUME NEW p \in V, ParentOf(p) = d, q = p \/ IsBelow(p, q) PROVE IsBelow(d, q)
  <2>1. p \in ScanPath /\ p \in Seq(PathName) /\ IsBelow(d, p)
    BY <1>3, AboveIs, ScanPaths DEF IsWalkable
  <2> QED
    BY <1>1, <1>3, <2>1, BelowBelow
<1> QED
  BY <1>2, <1>3

-----------------------------------------------------------------------------
(* The steps of the walk.                                                  *)

\* The last call of those there are.
LEMMA TopOf ==
  ASSUME NEW fs \in Seq(Frame), fs # <<>>
  PROVE  /\ Len(fs) \in Nat \ {0} /\ Len(fs) \in DOMAIN fs /\ DOMAIN fs = 1..Len(fs)
         /\ fs[Len(fs)] \in Frame
OBVIOUS

\* A call has listed a directory.
LEMMA WalkLists ==
  ASSUME NEW k, NEW o, NEW V, NEW E, NEW fs, NEW es, IsWalk(k, o, V, E, fs, es), fs # <<>>,
         NEW f \in Frame, IsCall(k, o, V, E, f), f.stage # "left",
         f.path = fs[Len(fs)].path, f.at = fs[Len(fs)].at, Due(V, f) = Due(V, fs[Len(fs)])
  PROVE  IsWalk(k, o, V, E, [fs EXCEPT ![Len(fs)] = f], es)
<1> DEFINE new == [fs EXCEPT ![Len(fs)] = f]  top == fs[Len(fs)]
<1>1. /\ fs \in Seq(Frame) /\ es \in Seq(FoundEntry)
      /\ Len(fs) \in Nat \ {0} /\ Len(fs) \in DOMAIN fs /\ DOMAIN fs = 1..Len(fs)
  BY TopOf DEF IsWalk
<1>2. /\ new \in Seq(Frame) /\ Len(new) = Len(fs) /\ DOMAIN new = DOMAIN fs
      /\ \A n \in DOMAIN fs : new[n] = IF n = Len(fs) THEN f ELSE fs[n]
  BY <1>1
<1> HIDE DEF new
<1>3. \A n \in DOMAIN fs : /\ new[n].path = fs[n].path /\ new[n].at = fs[n].at
                           /\ Due(V, new[n]) = Due(V, fs[n])
                           /\ n < Len(fs) => new[n] = fs[n]
  BY <1>2
<1>4. \A n \in DOMAIN new : IsCall(k, o, V, E, new[n])
  BY <1>2 DEF IsWalk
<1>5. AreNested(new)
  <2> SUFFICES ASSUME NEW n \in DOMAIN new
               PROVE  /\ Len(new[n].path) = n - 1
                      /\ \A m \in 1..n : new[m].path = Up(new[n].path, m - 1)
                      /\ n < Len(new) => new[n].stage = "names" /\ new[n + 1].path \notin new[n].todo
    BY DEF AreNested
  <2>1. /\ Len(fs[n].path) = n - 1
        /\ \A m \in 1..n : fs[m].path = Up(fs[n].path, m - 1)
        /\ n < Len(fs) => fs[n].stage = "names" /\ fs[n + 1].path \notin fs[n].todo
    BY <1>2 DEF IsWalk, AreNested
  <2>2. \A m \in 1..n : m \in DOMAIN fs
    BY <1>1, <1>2
  <2>3. n < Len(fs) => n + 1 \in DOMAIN fs /\ new[n] = fs[n]
    BY <1>1, <1>2
  <2> QED
    BY <1>2, <1>3, <2>1, <2>2, <2>3
<1>6. NoneIsDue(V, new, es)
  BY <1>2, <1>3 DEF IsWalk, NoneIsDue
<1>7. AllAreSeen(V, new, es)
  BY <1>2, <1>3 DEF IsWalk, AllAreSeen
<1>8. AreFollowed(new, es)
  BY <1>2, <1>3 DEF IsWalk, AreFollowed
<1>9. AreWithin(E, new, es)
  <2>1. ASSUME NEW i \in DOMAIN es, es[i].path \in E PROVE Len(es[i].path) <= MaxDepth
    <3>1. CASE \E n \in DOMAIN fs : fs[n].path = es[i].path /\ fs[n].stage = "left"
      <4>1. PICK n \in DOMAIN fs : fs[n].path = es[i].path /\ fs[n].stage = "left"
        BY <3>1
      <4>2. n = Len(fs)
        BY <1>1, <4>1 DEF IsWalk, AreNested
      <4> QED
        BY <4>1, <4>2 DEF IsCall
    <3> QED
      BY <2>1, <3>1 DEF IsWalk, AreWithin
  <2> QED
    BY <2>1 DEF IsWalk, AreWithin
<1>10. \A i : IsOpen(new, i) <=> IsOpen(fs, i)
  BY <1>2, <1>3 DEF IsOpen
<1>11. AreSummed(k, E, new, es)
  BY <1>10 DEF IsWalk, AreSummed
<1>12. IsWalk(k, o, V, E, new, es)
  BY <1>1, <1>2, <1>4, <1>5, <1>6, <1>7, <1>8, <1>9, <1>11 DEF IsWalk
<1> QED
  BY <1>12 DEF new

\* What a call has still to list, once it has taken a name.
IsTaken(V, E, fs, p, f) ==
  /\ p \in V /\ Len(p) = Len(fs) /\ ParentOf(p) = fs[Len(fs)].path
  /\ p \in Due(V, fs[Len(fs)]) /\ \A q \in V : IsBelow(p, q) => q \in Due(V, fs[Len(fs)])
  /\ \A q \in V : q \in Due(V, f) <=> q \in Due(V, fs[Len(fs)]) /\ q # p /\ ~IsBelow(p, q)
  /\ \A q \in V : IsBelow(p, q) => p \in E
  /\ \A n \in DOMAIN fs : n < Len(fs) => p \notin Due(V, fs[n])

LEMMA NameIsDue ==
  ASSUME NEW k, NEW o, NEW V, NEW E, NEW fs, NEW es, IsWalk(k, o, V, E, fs, es),
         IsWalkable(V, E), fs # <<>>, fs[Len(fs)].stage = "names",
         NEW p \in fs[Len(fs)].todo, NEW f \in Frame, f.stage = "names",
         f.todo = fs[Len(fs)].todo \ {p}
  PROVE  IsTaken(V, E, fs, p, f)
<1> DEFINE top == fs[Len(fs)]
<1>1. /\ fs \in Seq(Frame) /\ Len(fs) \in Nat \ {0} /\ Len(fs) \in DOMAIN fs
      /\ DOMAIN fs = 1..Len(fs) /\ top \in Frame
  BY TopOf DEF IsWalk
<1>2. \A q \in top.todo : q \in V /\ ParentOf(q) = top.path
  BY <1>1 DEF IsWalk, IsCall
<1>3. Len(top.path) = Len(fs) - 1
  BY <1>1 DEF IsWalk, AreNested
<1>4. \A q \in V : q \in ScanPath /\ q \in Seq(PathName) /\ Len(q) \in Nat /\ Len(q) >= 1
  BY ScanPaths DEF IsWalkable
<1>5. \A q \in top.todo : Len(q) = Len(fs)
  <2> SUFFICES ASSUME NEW q \in top.todo PROVE Len(q) = Len(fs)
    OBVIOUS
  <2>1. Len(ParentOf(q)) = Len(q) - 1
    BY <1>2, <1>4, AboveIs
  <2> QED
    <3>1. ParentOf(q) = top.path /\ Len(q) \in Nat
      BY <1>2, <1>4
    <3>2. Len(top.path) = Len(q) - 1
      BY <2>1, <3>1
    <3>3. Len(fs) \in Nat /\ Len(top.path) = Len(fs) - 1
      BY <1>1, <1>3
    <3> DEFINE a == Len(q)  b == Len(fs)  c == Len(top.path)
    <3>4. a \in Nat /\ b \in Nat /\ c = a - 1 /\ c = b - 1
      BY <3>1, <3>2, <3>3
    <3> HIDE DEF a, b, c
    <3>5. a = b
      BY <3>4
    <3> QED
      BY <3>5 DEF a, b
<1>6. p \in V /\ Len(p) = Len(fs) /\ ParentOf(p) = top.path
  BY <1>2, <1>5
<1>7. p \in Due(V, top) /\ \A q \in V : IsBelow(p, q) => q \in Due(V, top)
  BY <1>6 DEF Due
<1>8. ASSUME NEW q \in V PROVE q \in Due(V, f) <=> q \in Due(V, top) /\ q # p /\ ~IsBelow(p, q)
  <2>1. ASSUME NEW x \in top.todo, x # p, q = x \/ IsBelow(x, q) PROVE q # p /\ ~IsBelow(p, q)
    <3>1. Len(x) = Len(p) /\ Len(p) \in Nat /\ Len(q) \in Nat
      BY <1>4, <1>5, <1>6
    <3> QED
      BY <2>1, <3>1 DEF IsBelow
  <2> QED
    BY <2>1 DEF Due
<1>9. ASSUME NEW q \in V, IsBelow(p, q) PROVE p \in E
  <2>1. Len(p) \in 1..Len(q) - 1
    BY <1>4, <1>6, <1>9 DEF IsBelow
  <2>2. Up(q, Len(p)) \in E
    BY <2>1 DEF IsWalkable
  <2> QED
    BY <1>9, <2>2 DEF IsBelow
<1>10. ASSUME NEW n \in DOMAIN fs, n < Len(fs), p \in Due(V, fs[n]) PROVE FALSE
  <2>1. /\ n \in 1..Len(fs) - 1 /\ n + 1 \in DOMAIN fs
        /\ fs[n].stage = "names" /\ fs[n + 1].path \notin fs[n].todo
    BY <1>1, <1>10 DEF IsWalk, AreNested
  <2>2. PICK x \in fs[n].todo : p = x \/ IsBelow(x, p)
    BY <1>10, <2>1 DEF Due
  <2>3. x \in V /\ ParentOf(x) = fs[n].path /\ Len(fs[n].path) = n - 1
    BY <2>1 DEF IsWalk, IsCall, AreNested
  <2>4. Len(x) = n
    <3>1. Len(ParentOf(x)) = Len(x) - 1
      BY <1>4, <2>3, AboveIs
    <3> QED
      BY <1>4, <2>1, <2>3, <3>1
  <2>5. IsBelow(x, p)
    BY <1>6, <1>10, <2>2, <2>4
  <2>6. x = Up(p, n)
    BY <2>4, <2>5 DEF IsBelow
  <2>7. n \in 0..Len(p) - 1 /\ Len(p) - 1 \in 0..Len(p)
    BY <1>1, <1>6, <2>1
  <2>8. Up(ParentOf(p), n) = Up(p, n)
    BY <1>4, <1>6, <2>7, UpIs DEF ParentOf
  <2>9. fs[n + 1].path = Up(top.path, n)
    <3>1. n + 1 \in 1..Len(fs) /\ (n + 1) - 1 = n
      BY <1>1, <2>1
    <3>2. fs[n + 1].path = Up(top.path, (n + 1) - 1)
      BY <1>1, <3>1 DEF IsWalk, AreNested
    <3> QED
      BY <3>1, <3>2
  <2> QED
    BY <1>6, <2>1, <2>2, <2>6, <2>8, <2>9
<1> QED
  BY <1>6, <1>7, <1>8, <1>9, <1>10 DEF IsTaken

\* A name has been listed: an entry more, and a call more for a directory.
LEMMA WalkNames ==
  ASSUME NEW k, NEW o, NEW V, NEW E, NEW fs, NEW es, IsWalk(k, o, V, E, fs, es),
         IsWalkable(V, E), fs # <<>>, fs[Len(fs)].stage = "names",
         NEW p \in fs[Len(fs)].todo, Len(es) < MaxEntries,
         NEW f \in Frame, f = [fs[Len(fs)] EXCEPT !.todo = fs[Len(fs)].todo \ {p}],
         NEW e \in FoundEntry, e.path = p, ~e.empty,
         KindOf(e.left) = k["left"][p], KindOf(e.right) = k["right"][p],
         p \in E => e.isDir /\ e.verified /\ (OnBothSides(k, p) => e.status = "Same"),
         NEW call \in Frame, call.path = p, call.depth = f.depth + 1, call.at = Len(es) + 1,
         call.stage = "left", NEW new,
         new = IF p \in E THEN Append([fs EXCEPT ![Len(fs)] = f], call)
               ELSE [fs EXCEPT ![Len(fs)] = f]
  PROVE  IsWalk(k, o, V, E, new, Append(es, e))
<1> DEFINE es2 == Append(es, e)  top == fs[Len(fs)]  K == Len(fs)  N == Len(es)
<1>1. /\ fs \in Seq(Frame) /\ es \in Seq(FoundEntry) /\ top \in Frame
      /\ K \in Nat \ {0} /\ K \in DOMAIN fs /\ DOMAIN fs = 1..K /\ N \in Nat /\ DOMAIN es = 1..N
  BY TopOf DEF IsWalk
<1>2. /\ f.path = top.path /\ f.depth = top.depth /\ f.at = top.at /\ f.stage = "names"
      /\ f.left = top.left /\ f.right = top.right /\ f.todo = top.todo \ {p}
  BY <1>1 DEF Frame
<1>3. /\ p \in V /\ Len(p) = K /\ ParentOf(p) = top.path
      /\ p \in Due(V, top) /\ \A q \in V : IsBelow(p, q) => q \in Due(V, top)
      /\ \A q \in V : q \in Due(V, f) <=> q \in Due(V, top) /\ q # p /\ ~IsBelow(p, q)
      /\ \A q \in V : IsBelow(p, q) => p \in E
      /\ \A n \in DOMAIN fs : n < K => p \notin Due(V, fs[n])
  <2>1. f.stage = "names" /\ f.todo = fs[Len(fs)].todo \ {p}
    BY <1>2
  <2>2. IsTaken(V, E, fs, p, f)
    BY <2>1, NameIsDue
  <2> QED
    BY <2>2 DEF IsTaken
<1>4. p \in ScanPath /\ p \in Seq(PathName) /\ p # <<>>
  BY <1>3, ScanPaths DEF IsWalkable
<1>5. /\ new \in Seq(Frame) /\ DOMAIN new = 1..Len(new) /\ Len(new) = IF p \in E THEN K + 1 ELSE K
      /\ \A n \in 1..K : n \in DOMAIN new /\ new[n] = IF n = K THEN f ELSE fs[n]
      /\ p \in E => new[K + 1] = call
  <2> DEFINE rest == [fs EXCEPT ![K] = f]
  <2>1. rest \in Seq(Frame) /\ Len(rest) = K /\ \A n \in 1..K : rest[n] = IF n = K THEN f ELSE fs[n]
    BY <1>1
  <2>2. new = IF p \in E THEN Append(rest, call) ELSE rest
    OBVIOUS
  <2> HIDE DEF rest, K
  <2>3. CASE p \in E
    BY <1>1, <2>1, <2>2, <2>3
  <2>4. CASE p \notin E
    BY <1>1, <2>1, <2>2, <2>4
  <2> QED
    BY <2>3, <2>4
<1>6. /\ es2 \in Seq(FoundEntry) /\ Len(es2) = N + 1 /\ DOMAIN es2 = 1..N + 1 /\ es2[N + 1] = e
      /\ \A i \in 1..N : es2[i] = es[i]
  BY <1>1
<1> HIDE DEF es2, K, N
<1>7. \A n \in DOMAIN new : n \in 1..K \/ (p \in E /\ n = K + 1)
  <2> SUFFICES ASSUME NEW n \in DOMAIN new PROVE n \in 1..K \/ (p \in E /\ n = K + 1)
    OBVIOUS
  <2> DEFINE M == Len(new)
  <2>1. n \in 1..M /\ M = IF p \in E THEN K + 1 ELSE K
    BY <1>5
  <2> HIDE DEF M
  <2> QED
    BY <1>1, <2>1
<1>8. \A n \in 1..K : /\ new[n].path = fs[n].path /\ new[n].at = fs[n].at /\ new[n].stage = fs[n].stage
                     /\ new[n].depth = fs[n].depth
  BY <1>2, <1>5 DEF K
<1>9. Due(V, call) = {q \in V : IsBelow(p, q)}
  BY DEF Due
<1>10. ASSUME NEW n \in DOMAIN new PROVE IsCall(k, o, V, E, new[n])
  <2>1. CASE n \in 1..K
    <3>1. IsCall(k, o, V, E, fs[n])
      BY <1>1, <2>1 DEF IsWalk
    <3>2. CASE n = K
      <4>1. IsCall(k, o, V, E, top)
        BY <1>1 DEF IsWalk
      <4>2. IsCall(k, o, V, E, f)
        BY <1>2, <4>1 DEF IsCall
      <4> QED
        BY <1>5, <2>1, <3>2, <4>2
    <3> QED
      BY <1>5, <2>1, <3>1, <3>2
  <2>2. CASE p \in E /\ n = K + 1
    <3>1. Len(top.path) = K - 1 /\ top.depth = Len(top.path)
      BY <1>1 DEF IsWalk, IsCall, AreNested, K
    <3>2. call.depth = Len(call.path)
      BY <1>1, <1>2, <1>3, <3>1
    <3>3. IsCall(k, o, V, E, call)
      BY <1>1, <1>3, <1>4, <2>2, <3>2 DEF IsCall
    <3> QED
      BY <1>5, <2>2, <3>3
  <2> QED
    BY <1>7, <2>1, <2>2
<1>11. \A m \in 1..K : new[m].path = Up(p, m - 1)
  <2> SUFFICES ASSUME NEW m \in 1..K PROVE new[m].path = Up(p, m - 1)
    OBVIOUS
  <2>1. fs[m].path = Up(top.path, m - 1)
    BY <1>1 DEF IsWalk, AreNested, K
  <2>2. m - 1 \in 0..Len(p) - 1 /\ Len(p) - 1 \in 0..Len(p)
    BY <1>1, <1>3
  <2>3. Up(ParentOf(p), m - 1) = Up(p, m - 1)
    BY <1>4, <2>2, UpIs DEF ParentOf
  <2> QED
    BY <1>3, <1>8, <2>1, <2>3
<1>12. AreNested(new)
  <2> SUFFICES ASSUME NEW n \in DOMAIN new
               PROVE  /\ Len(new[n].path) = n - 1
                      /\ \A m \in 1..n : new[m].path = Up(new[n].path, m - 1)
                      /\ n < Len(new) => new[n].stage = "names" /\ new[n + 1].path \notin new[n].todo
    BY DEF AreNested
  <2>1. CASE n \in 1..K
    <3>1. /\ Len(fs[n].path) = n - 1
          /\ \A m \in 1..n : fs[m].path = Up(fs[n].path, m - 1)
          /\ n < K => fs[n].stage = "names" /\ fs[n + 1].path \notin fs[n].todo
      BY <1>1, <2>1 DEF IsWalk, AreNested, K
    <3>2. \A m \in 1..n : m \in 1..K
      BY <1>1, <2>1
    <3>3. ASSUME n < Len(new) PROVE new[n].stage = "names" /\ new[n + 1].path \notin new[n].todo
      <4>1. CASE n = K
        <5>1. p \in E /\ new[n] = f /\ new[n + 1] = call
          BY <1>1, <1>5, <2>1, <3>3, <4>1
        <5> QED
          BY <1>2, <5>1
      <4>2. CASE n # K
        <5>1. n < K /\ n + 1 \in 1..K /\ new[n] = fs[n]
          BY <1>1, <1>5, <2>1, <4>2
        <5> QED
          BY <1>8, <3>1, <5>1
      <4> QED
        BY <4>1, <4>2
    <3> QED
      BY <1>8, <2>1, <3>1, <3>2, <3>3
  <2>2. CASE p \in E /\ n = K + 1
    <3>1. new[n].path = p /\ Len(p) = n - 1 /\ ~(n < Len(new))
      BY <1>1, <1>3, <1>5, <2>2
    <3>2. Up(p, n - 1) = p
      BY <1>4, <3>1, UpAll
    <3>3. \A m \in 1..n : m \in 1..K \/ m = n
      BY <1>1, <2>2
    <3> QED
      BY <1>11, <3>1, <3>2, <3>3
  <2> QED
    BY <1>7, <2>1, <2>2
<1>13. AreAsSeen(k, V, E, es2)
  BY <1>1, <1>3, <1>6 DEF IsWalk, AreAsSeen
<1>14. \A n \in 1..K, q \in V : q \in Due(V, new[n]) => q \in Due(V, fs[n]) /\ q # p
  <2> SUFFICES ASSUME NEW n \in 1..K, NEW q \in V, q \in Due(V, new[n])
               PROVE  q \in Due(V, fs[n]) /\ q # p
    OBVIOUS
  <2>1. CASE n = K
    <3>1. new[n] = f /\ fs[n] = top
      BY <1>5, <2>1 DEF K
    <3> QED
      BY <1>3, <3>1
  <2>2. CASE n # K
    <3>1. new[n] = fs[n] /\ n < K /\ n \in DOMAIN fs
      BY <1>1, <1>5, <2>2
    <3>2. p \notin Due(V, fs[n])
      BY <1>3, <3>1
    <3> QED
      BY <3>1, <3>2
  <2> QED
    BY <2>1, <2>2
<1>15. NoneIsDue(V, new, es2)
  <2> SUFFICES ASSUME NEW i \in DOMAIN es2, NEW n \in DOMAIN new, es2[i].path \in Due(V, new[n])
               PROVE  FALSE
    BY DEF NoneIsDue
  <2> DEFINE q == es2[i].path
  <2>1. q \in V
    BY <1>13 DEF AreAsSeen
  <2>2. q = p \/ \A m \in DOMAIN fs : q \notin Due(V, fs[m])
    <3>1. CASE i = N + 1
      BY <1>6, <3>1
    <3>2. CASE i \in 1..N
      <4>1. q = es[i].path /\ i \in DOMAIN es
        BY <1>1, <1>6, <3>2
      <4> HIDE DEF q
      <4> QED
        BY <4>1 DEF IsWalk, NoneIsDue
    <3> QED
      BY <1>1, <1>6, <3>1, <3>2
  <2>3. n \in 1..K => q # p /\ q \in Due(V, fs[n])
    BY <1>14, <2>1
  <2>4. ~(n \in 1..K)
    BY <1>1, <2>2, <2>3
  <2>5. p \in E /\ new[n] = call
    BY <1>5, <1>7, <2>4
  <2>6. IsBelow(p, q)
    BY <1>9, <2>5
  <2>7. q # p
    BY <1>1, <1>3, <2>6 DEF IsBelow
  <2>8. q \in Due(V, top)
    BY <1>3, <2>1, <2>6
  <2> QED
    BY <1>1, <2>2, <2>7, <2>8
<1>16. ASSUME NEW i \in 1..N PROVE es[i].path # p /\ ~IsBelow(p, es[i].path) /\ es[i].path \in V
  <2>1. es[i].path \in V /\ es[i].path \notin Due(V, top)
    BY <1>1 DEF IsWalk, AreAsSeen, NoneIsDue
  <2> QED
    BY <1>3, <2>1
<1>17. AreInOrder(es2)
  <2> SUFFICES ASSUME NEW i \in DOMAIN es2, NEW j \in DOMAIN es2, i < j
               PROVE  es2[i].path # es2[j].path /\ ~IsBelow(es2[j].path, es2[i].path)
    BY DEF AreInOrder
  <2>1. i \in 1..N /\ (j \in 1..N \/ j = N + 1)
    BY <1>1, <1>6
  <2>2. CASE j \in 1..N
    BY <1>1, <1>6, <2>1, <2>2 DEF IsWalk, AreInOrder
  <2>3. CASE j = N + 1
    BY <1>6, <1>16, <2>1, <2>3
  <2> QED
    BY <2>1, <2>2, <2>3
<1>18. AllAreSeen(V, new, es2)
  <2> SUFFICES ASSUME NEW q \in V
               PROVE  (\E i \in DOMAIN es2 : es2[i].path = q) \/ \E n \in DOMAIN new : q \in Due(V, new[n])
    BY DEF AllAreSeen
  <2>1. CASE \E i \in DOMAIN es : es[i].path = q
    <3>1. PICK i \in 1..N : es[i].path = q
      BY <1>1, <2>1
    <3>2. i \in DOMAIN es2 /\ es2[i].path = q
      BY <1>1, <1>6, <3>1
    <3> QED
      BY <3>2
  <2>2. CASE \E n \in DOMAIN fs : q \in Due(V, fs[n])
    <3>1. PICK n \in 1..K : q \in Due(V, fs[n])
      BY <1>1, <2>2
    <3>2. CASE n # K
      BY <1>5, <3>1, <3>2
    <3>3. CASE n = K /\ q = p
      <4>1. N + 1 \in DOMAIN es2 /\ es2[N + 1].path = q
        BY <1>1, <1>6, <3>3
      <4> QED
        BY <4>1
    <3>4. CASE n = K /\ IsBelow(p, q)
      <4>1. p \in E
        BY <1>3, <3>4
      <4>2. K + 1 \in DOMAIN new /\ new[K + 1] = call /\ q \in Due(V, call)
        BY <1>1, <1>5, <1>9, <3>4, <4>1
      <4> QED
        BY <4>2
    <3>5. CASE n = K /\ q # p /\ ~IsBelow(p, q)
      <4>1. q \in Due(V, f)
        BY <1>3, <3>1, <3>5 DEF K
      <4>2. K \in DOMAIN new /\ new[K] = f
        BY <1>1, <1>5
      <4> QED
        BY <4>1, <4>2
    <3> QED
      BY <3>2, <3>3, <3>4, <3>5
  <2> QED
    BY <2>1, <2>2 DEF IsWalk, AllAreSeen
<1>19. \A n \in 1..K : IsBelow(fs[n].path, p)
  <2> SUFFICES ASSUME NEW n \in 1..K PROVE IsBelow(fs[n].path, p)
    OBVIOUS
  <2>1. Len(fs[n].path) = n - 1
    BY <1>1 DEF IsWalk, AreNested
  <2>2. fs[n].path = Up(p, n - 1)
    BY <1>8, <1>11
  <2> QED
    BY <1>1, <1>3, <2>1, <2>2 DEF IsBelow
<1>20. AreFollowed(new, es2)
  <2> SUFFICES ASSUME NEW n \in DOMAIN new, new[n].at > 0
               PROVE  /\ new[n].at \in DOMAIN es2 /\ es2[new[n].at].path = new[n].path
                      /\ \A i \in DOMAIN es2 : i > new[n].at => IsBelow(new[n].path, es2[i].path)
    BY DEF AreFollowed
  <2>1. CASE n \in 1..K
    <3>1. new[n].path = fs[n].path /\ new[n].at = fs[n].at
      BY <1>8, <2>1
    <3>2. /\ fs[n].at \in 1..N /\ es[fs[n].at].path = fs[n].path
          /\ \A i \in 1..N : i > fs[n].at => IsBelow(fs[n].path, es[i].path)
      BY <1>1, <2>1, <3>1 DEF IsWalk, AreFollowed
    <3>3. \A i \in DOMAIN es2 : i > fs[n].at => IsBelow(fs[n].path, es2[i].path)
      <4> SUFFICES ASSUME NEW i \in DOMAIN es2, i > fs[n].at PROVE IsBelow(fs[n].path, es2[i].path)
        OBVIOUS
      <4>1. CASE i \in 1..N
        BY <1>6, <3>2, <4>1
      <4>2. CASE i = N + 1
        BY <1>6, <1>19, <2>1, <4>2
      <4> QED
        BY <1>1, <1>6, <4>1, <4>2
    <3>4. fs[n].at \in DOMAIN es2 /\ es2[fs[n].at].path = fs[n].path
      BY <1>1, <1>6, <3>2
    <3> QED
      BY <3>1, <3>3, <3>4
  <2>2. CASE p \in E /\ n = K + 1
    <3>1. new[n] = call
      BY <1>5, <2>2
    <3>2. call.at = N + 1
      BY DEF N
    <3>3. call.at \in DOMAIN es2 /\ es2[call.at].path = call.path /\ \A i \in DOMAIN es2 : ~(i > call.at)
      BY <1>1, <1>6, <3>2
    <3> QED
      BY <3>1, <3>3
  <2> QED
    BY <1>7, <2>1, <2>2
<1>21. AreWithin(E, new, es2)
  <2>1. MaxEntries \in Nat /\ MaxDepth \in Nat
    BY ScanAssumption
  <2>2. Len(es2) <= MaxEntries
    BY <1>1, <1>6, <2>1 DEF N
  <2>3. ASSUME NEW i \in 1..N, es[i].path \in E PROVE Len(es[i].path) <= MaxDepth
    <3>1. \A n \in DOMAIN fs : fs[n].stage = "names"
      <4> SUFFICES ASSUME NEW n \in DOMAIN fs PROVE fs[n].stage = "names"
        OBVIOUS
      <4>1. n = K \/ n < K
        BY <1>1
      <4> QED
        BY <1>1, <4>1 DEF IsWalk, AreNested, K
    <3>2. \A n \in DOMAIN fs : fs[n].stage # "left"
      BY <3>1
    <3> QED
      BY <1>1, <2>3, <3>2 DEF IsWalk, AreWithin
  <2>4. ASSUME NEW i \in DOMAIN es2, es2[i].path \in E
        PROVE  Len(es2[i].path) <= MaxDepth
               \/ \E n \in DOMAIN new : new[n].path = es2[i].path /\ new[n].stage = "left"
    <3>1. CASE i \in 1..N
      BY <1>6, <2>3, <2>4, <3>1
    <3>2. CASE i = N + 1
      <4>1. K + 1 \in DOMAIN new /\ new[K + 1] = call
        BY <1>1, <1>5, <1>6, <2>4, <3>2
      <4> QED
        BY <1>6, <3>2, <4>1
    <3> QED
      BY <1>1, <1>6, <3>1, <3>2
  <2> QED
    BY <2>2, <2>4 DEF AreWithin
<1>22. \A i \in 1..N : IsOpen(new, i) <=> IsOpen(fs, i)
  <2> SUFFICES ASSUME NEW i \in 1..N PROVE IsOpen(new, i) <=> IsOpen(fs, i)
    OBVIOUS
  <2>1. p \in E => new[K + 1].at # i
    BY <1>1, <1>5 DEF N
  <2>2. ASSUME IsOpen(new, i) PROVE IsOpen(fs, i)
    BY <1>1, <1>7, <1>8, <2>1, <2>2 DEF IsOpen
  <2>3. ASSUME IsOpen(fs, i) PROVE IsOpen(new, i)
    BY <1>1, <1>5, <1>8, <2>3 DEF IsOpen
  <2> QED
    BY <2>2, <2>3
<1>23. ASSUME NEW i \in 1..N, ~IsOpen(fs, i) PROVE ~IsBelow(es[i].path, p)
  <2> SUFFICES ASSUME IsBelow(es[i].path, p) PROVE FALSE
    OBVIOUS
  <2>1. es[i].path \in Seq(PathName) /\ Len(es[i].path) \in Nat
    BY <1>16, ScanPaths DEF IsWalkable
  <2>2. Len(es[i].path) <= K - 1
    BY <1>1, <1>3, <2>1 DEF IsBelow
  <2>3. Len(p) >= K - 1 /\ Up(p, K - 1) = top.path /\ i \in DOMAIN es
    BY <1>1, <1>3 DEF ParentOf
  <2>4. \E n \in DOMAIN fs : n = Len(es[i].path) + 1 /\ fs[n].at = i
    BY <1>4, <2>2, <2>3, AroundIsOpen DEF K
  <2> QED
    BY <1>23, <2>4 DEF IsOpen
<1>24. ASSUME NEW i \in 1..N, ~IsOpen(fs, i)
       PROVE  /\ Inside(es2, i) = Inside(es, i)
              /\ \A j \in Inside(es, i) : j \in 1..N /\ es2[j] = es[j]
  <2>1. ~IsBelow(es[i].path, p)
    BY <1>23, <1>24
  <2>2. es2[i] = es[i] /\ \A j \in 1..N : es2[j] = es[j]
    BY <1>6
  <2>3. ~IsBelow(es2[i].path, es2[N + 1].path)
    BY <1>6, <2>1, <2>2
  <2>4. DOMAIN es2 = 1..N \union {N + 1}
    BY <1>1, <1>6
  <2> QED
    BY <1>1, <2>2, <2>3, <2>4 DEF Inside
<1>25. AreSummed(k, E, new, es2)
  <2> SUFFICES ASSUME NEW i \in DOMAIN es2
               PROVE  /\ es2[i].path \notin E => ~es2[i].empty
                      /\ IsOpen(new, i) => es2[i].verified
                                           /\ (OnBothSides(k, es2[i].path) => es2[i].status = "Same")
                      /\ es2[i].path \in E /\ ~IsOpen(new, i) => IsSummed(k, E, es2, i)
    BY DEF AreSummed
  <2>1. CASE i \in 1..N
    <3>1. /\ es[i].path \notin E => ~es[i].empty
          /\ IsOpen(fs, i) => es[i].verified /\ (OnBothSides(k, es[i].path) => es[i].status = "Same")
          /\ es[i].path \in E /\ ~IsOpen(fs, i) => IsSummed(k, E, es, i)
      BY <1>1, <2>1 DEF IsWalk, AreSummed
    <3>2. es2[i] = es[i] /\ (IsOpen(new, i) <=> IsOpen(fs, i))
      BY <1>6, <1>22, <2>1
    <3>3. ASSUME IsSummed(k, E, es, i), ~IsOpen(fs, i) PROVE IsSummed(k, E, es2, i)
      <4>1. /\ Inside(es2, i) = Inside(es, i) /\ es2[i] = es[i]
            /\ \A j \in Inside(es, i) : es2[j] = es[j]
        BY <1>24, <2>1, <3>2, <3>3
      <4>2. es2[i].empty <=> \A j \in Inside(es2, i) : es2[j].path \in E
        BY <3>3, <4>1 DEF IsSummed
      <4>3. es2[i].verified <=> \A j \in Inside(es2, i) : es2[j].verified
        BY <3>3, <4>1 DEF IsSummed
      <4>4. OnBothSides(k, es2[i].path) =>
              (es2[i].status = "Same" <=> \A j \in Inside(es2, i) : es2[j].status = "Same")
        BY <3>3, <4>1 DEF IsSummed
      <4> QED
        BY <4>2, <4>3, <4>4 DEF IsSummed
    <3> QED
      BY <3>1, <3>2, <3>3
  <2>2. CASE i = N + 1
    <3>1. es2[i] = e
      BY <1>6, <2>2
    <3>2. ASSUME p \in E PROVE IsOpen(new, i)
      <4>1. K + 1 \in DOMAIN new /\ new[K + 1].at = N + 1
        BY <1>1, <1>5, <3>2 DEF N
      <4> QED
        BY <2>2, <4>1 DEF IsOpen
    <3>3. ASSUME IsOpen(new, i) PROVE p \in E
      <4>1. PICK n \in DOMAIN new : new[n].at = i
        BY <3>3 DEF IsOpen
      <4>2. ASSUME n \in 1..K PROVE FALSE
        <5>1. fs[n].at = N + 1 /\ fs[n].at > 0
          BY <1>1, <1>8, <2>2, <4>1, <4>2
        <5>2. fs[n].at \in DOMAIN es
          BY <1>1, <4>2, <5>1 DEF IsWalk, AreFollowed
        <5> QED
          BY <1>1, <5>1, <5>2
      <4> QED
        BY <1>7, <4>1, <4>2
    <3> QED
      BY <3>1, <3>2, <3>3
  <2> QED
    BY <1>1, <1>6, <2>1, <2>2
<1>26. IsWalk(k, o, V, E, new, es2)
  BY <1>5, <1>6, <1>10, <1>12, <1>13, <1>15, <1>17, <1>18, <1>20, <1>21, <1>25 DEF IsWalk
<1> QED
  BY <1>26 DEF es2

\* A directory has been left: its entry says what the entries that follow it do.
LEMMA WalkLeaves ==
  ASSUME NEW k, NEW o, NEW V, NEW E, NEW fs, NEW es, IsWalk(k, o, V, E, fs, es),
         IsWalkable(V, E), fs # <<>>, fs[Len(fs)].stage = "names", fs[Len(fs)].todo = {},
         NEW at \in DOMAIN es, at = fs[Len(fs)].at, NEW e \in FoundEntry,
         e.path = es[at].path, e.left = es[at].left, e.right = es[at].right, e.isDir = es[at].isDir,
         e.empty <=> \A i \in DOMAIN es : i > at => es[i].isDir /\ es[i].empty,
         e.verified <=> es[at].verified /\ \A i \in DOMAIN es : i > at => es[i].verified,
         OnBothSides(k, es[at].path) =>
           (e.status = "Same" <=> es[at].status = "Same"
                                  /\ \A i \in DOMAIN es : i > at => es[i].status = "Same")
  PROVE  IsWalk(k, o, V, E, SubSeq(fs, 1, Len(fs) - 1), [es EXCEPT ![at] = e])
<1> DEFINE fs2 == SubSeq(fs, 1, Len(fs) - 1)  es2 == [es EXCEPT ![at] = e]
           top == fs[Len(fs)]  K == Len(fs)  N == Len(es)
<1>1. /\ fs \in Seq(Frame) /\ es \in Seq(FoundEntry) /\ top \in Frame
      /\ K \in Nat \ {0} /\ K \in DOMAIN fs /\ DOMAIN fs = 1..K /\ N \in Nat /\ DOMAIN es = 1..N
      /\ at \in Nat \ {0} /\ at \in 1..N
  BY TopOf DEF IsWalk
<1>2. /\ fs2 \in Seq(Frame) /\ Len(fs2) = K - 1 /\ DOMAIN fs2 = 1..K - 1
      /\ \A n \in 1..K - 1 : n \in DOMAIN fs /\ fs2[n] = fs[n]
  BY <1>1
<1>3. /\ es2 \in Seq(FoundEntry) /\ Len(es2) = N /\ DOMAIN es2 = DOMAIN es
      /\ \A i \in DOMAIN es : es2[i] = IF i = at THEN e ELSE es[i]
  BY <1>1
<1> HIDE DEF fs2, es2, K, N
<1>4. \A i \in DOMAIN es : /\ es2[i].path = es[i].path /\ es2[i].left = es[i].left
                           /\ es2[i].right = es[i].right /\ es2[i].isDir = es[i].isDir
  BY <1>3
<1>5. Due(V, top) = {}
  BY DEF Due
<1>6. \A n \in DOMAIN fs2 : IsCall(k, o, V, E, fs2[n])
  BY <1>2 DEF IsWalk
<1>7. AreNested(fs2)
  <2> SUFFICES ASSUME NEW n \in DOMAIN fs2
               PROVE  /\ Len(fs2[n].path) = n - 1
                      /\ \A m \in 1..n : fs2[m].path = Up(fs2[n].path, m - 1)
                      /\ n < Len(fs2) => fs2[n].stage = "names" /\ fs2[n + 1].path \notin fs2[n].todo
    BY DEF AreNested
  <2>1. n \in 1..K - 1 /\ n \in DOMAIN fs /\ n < K /\ fs2[n] = fs[n]
    BY <1>1, <1>2
  <2>2. /\ Len(fs[n].path) = n - 1
        /\ \A m \in 1..n : fs[m].path = Up(fs[n].path, m - 1)
        /\ fs[n].stage = "names" /\ fs[n + 1].path \notin fs[n].todo
    BY <2>1 DEF IsWalk, AreNested, K
  <2>3. \A m \in 1..n : fs2[m] = fs[m]
    BY <1>1, <1>2, <2>1
  <2>4. n < Len(fs2) => fs2[n + 1] = fs[n + 1]
    BY <1>1, <1>2, <2>1
  <2> QED
    BY <2>1, <2>2, <2>3, <2>4
<1>8. AreAsSeen(k, V, E, es2)
  BY <1>3, <1>4 DEF IsWalk, AreAsSeen
<1>9. NoneIsDue(V, fs2, es2)
  BY <1>2, <1>3, <1>4 DEF IsWalk, NoneIsDue
<1>10. AreInOrder(es2)
  BY <1>3, <1>4 DEF IsWalk, AreInOrder
<1>11. AllAreSeen(V, fs2, es2)
  <2> SUFFICES ASSUME NEW q \in V
               PROVE  (\E i \in DOMAIN es2 : es2[i].path = q) \/ \E n \in DOMAIN fs2 : q \in Due(V, fs2[n])
    BY DEF AllAreSeen
  <2>1. CASE \E i \in DOMAIN es : es[i].path = q
    BY <1>3, <1>4, <2>1
  <2>2. CASE \E n \in DOMAIN fs : q \in Due(V, fs[n])
    <3>1. PICK n \in 1..K : q \in Due(V, fs[n])
      BY <1>1, <2>2
    <3>2. n # K
      BY <1>5, <3>1 DEF K
    <3>3. n \in 1..K - 1
      BY <1>1, <3>1, <3>2
    <3> QED
      BY <1>2, <3>1, <3>3
  <2> QED
    BY <2>1, <2>2 DEF IsWalk, AllAreSeen
<1>12. AreFollowed(fs2, es2)
  <2> SUFFICES ASSUME NEW n \in DOMAIN fs2, fs2[n].at > 0
               PROVE  /\ fs2[n].at \in DOMAIN es2 /\ es2[fs2[n].at].path = fs2[n].path
                      /\ \A i \in DOMAIN es2 : i > fs2[n].at => IsBelow(fs2[n].path, es2[i].path)
    BY DEF AreFollowed
  <2>1. n \in DOMAIN fs /\ fs2[n] = fs[n]
    BY <1>2
  <2>2. /\ fs[n].at \in DOMAIN es /\ es[fs[n].at].path = fs[n].path
        /\ \A i \in DOMAIN es : i > fs[n].at => IsBelow(fs[n].path, es[i].path)
    BY <2>1 DEF IsWalk, AreFollowed
  <2> QED
    BY <1>3, <1>4, <2>1, <2>2
<1>13. AreWithin(E, fs2, es2)
  <2>1. Len(es2) <= MaxEntries
    BY <1>3 DEF IsWalk, AreWithin, N
  <2>2. ASSUME NEW i \in DOMAIN es2, es2[i].path \in E
        PROVE  \/ Len(es2[i].path) <= MaxDepth
               \/ \E n \in DOMAIN fs2 : fs2[n].path = es2[i].path /\ fs2[n].stage = "left"
    <3>1. es2[i].path = es[i].path /\ i \in DOMAIN es
      BY <1>3, <1>4
    <3>2. CASE \E n \in DOMAIN fs : fs[n].path = es[i].path /\ fs[n].stage = "left"
      <4>1. PICK n \in DOMAIN fs : fs[n].path = es[i].path /\ fs[n].stage = "left"
        BY <3>2
      <4>2. n # K
        BY <4>1 DEF K
      <4>3. n \in 1..K - 1
        BY <1>1, <4>1, <4>2
      <4> QED
        BY <1>2, <3>1, <4>1, <4>3
    <3> QED
      BY <2>2, <3>1, <3>2 DEF IsWalk, AreWithin
  <2> QED
    BY <2>1, <2>2 DEF AreWithin
<1>14. /\ es[at].path = top.path /\ \A i \in DOMAIN es : i > at => IsBelow(es[at].path, es[i].path)
  BY <1>1 DEF IsWalk, AreFollowed, K
<1>15. \A i \in DOMAIN es : es[i].path \in V /\ es[i].path \in Seq(PathName) /\ Len(es[i].path) \in Nat
  BY ScanPaths DEF IsWalk, AreAsSeen, IsWalkable
<1>16. \A i \in DOMAIN es : i # at => (IsOpen(fs2, i) <=> IsOpen(fs, i))
  <2> SUFFICES ASSUME NEW i \in DOMAIN es, i # at PROVE IsOpen(fs2, i) <=> IsOpen(fs, i)
    OBVIOUS
  <2>1. ASSUME IsOpen(fs2, i) PROVE IsOpen(fs, i)
    BY <1>2, <2>1 DEF IsOpen
  <2>2. ASSUME IsOpen(fs, i) PROVE IsOpen(fs2, i)
    <3>1. PICK n \in 1..K : fs[n].at = i
      BY <1>1, <2>2 DEF IsOpen
    <3>2. n # K
      BY <3>1 DEF K
    <3>3. n \in 1..K - 1
      BY <1>1, <3>1, <3>2
    <3> QED
      BY <1>2, <3>1, <3>3 DEF IsOpen
  <2> QED
    BY <2>1, <2>2
<1>17. ~IsOpen(fs2, at)
  <2> SUFFICES ASSUME NEW n \in 1..K - 1, fs[n].at = at PROVE FALSE
    BY <1>2 DEF IsOpen
  <2>1. n \in DOMAIN fs /\ n < K /\ fs[n].at > 0
    BY <1>1
  <2>2. es[at].path = fs[n].path
    BY <2>1 DEF IsWalk, AreFollowed
  <2>3. Len(fs[n].path) = n - 1 /\ Len(top.path) = K - 1
    BY <1>1, <2>1 DEF IsWalk, AreNested, K
  <2>4. n - 1 = K - 1
    BY <1>14, <2>2, <2>3
  <2> QED
    BY <1>1, <2>1, <2>4
<1>18. \A i \in DOMAIN es : Inside(es2, i) = Inside(es, i)
  BY <1>3, <1>4 DEF Inside
<1>19. Inside(es, at) = {i \in DOMAIN es : i > at}
  <2> SUFFICES ASSUME NEW i \in DOMAIN es, IsBelow(es[at].path, es[i].path) PROVE i > at
    BY <1>14 DEF Inside
  <2>1. i # at
    BY <1>15 DEF IsBelow
  <2>2. ~(i < at)
    BY DEF IsWalk, AreInOrder
  <2> QED
    BY <1>1, <2>1, <2>2
<1>20. top.path \in E /\ top.path # <<>>
  BY <1>1 DEF IsWalk, IsCall, K
<1>21. ASSUME NEW i \in DOMAIN es, i # at, ~IsOpen(fs, i) PROVE at \notin Inside(es, i)
  <2> SUFFICES ASSUME IsBelow(es[i].path, es[at].path) PROVE FALSE
    BY DEF Inside
  <2>1. Len(top.path) = K - 1 /\ top.path \in Seq(PathName)
    BY <1>1, FramePaths DEF IsWalk, AreNested, K
  <2>2. Up(top.path, K - 1) = top.path
    BY <2>1, UpAll
  <2>3. IsBelow(es[i].path, top.path)
    BY <1>14
  <2>4. Len(es[i].path) <= K - 1
    BY <1>1, <1>15, <2>1, <2>3 DEF IsBelow
  <2>5. \E n \in DOMAIN fs : n = Len(es[i].path) + 1 /\ fs[n].at = i
    <3>1. Len(top.path) >= Len(fs) - 1 /\ Len(es[i].path) <= Len(fs) - 1
          /\ Up(top.path, Len(fs) - 1) = fs[Len(fs)].path
      <4>1. Len(top.path) >= K - 1
        BY <1>1, <2>1
      <4> QED
        BY <2>2, <2>4, <4>1 DEF K
    <3> QED
      BY <2>1, <2>3, <3>1, AroundIsOpen
  <2> QED
    BY <1>21, <2>5 DEF IsOpen
<1>22. ASSUME NEW i \in DOMAIN es, i # at, IsSummed(k, E, es, i), ~IsOpen(fs, i)
       PROVE  IsSummed(k, E, es2, i)
  <2>1. /\ Inside(es2, i) = Inside(es, i) /\ es2[i] = es[i]
        /\ \A j \in Inside(es, i) : es2[j] = es[j]
    BY <1>3, <1>18, <1>21, <1>22 DEF Inside
  <2>2. es2[i].empty <=> \A j \in Inside(es2, i) : es2[j].path \in E
    BY <1>22, <2>1 DEF IsSummed
  <2>3. es2[i].verified <=> \A j \in Inside(es2, i) : es2[j].verified
    BY <1>22, <2>1 DEF IsSummed
  <2>4. OnBothSides(k, es2[i].path) =>
          (es2[i].status = "Same" <=> \A j \in Inside(es2, i) : es2[j].status = "Same")
    BY <1>22, <2>1 DEF IsSummed
  <2> QED
    BY <2>2, <2>3, <2>4 DEF IsSummed
\* What is in the directory is left already, and summed up.
<1>23. ASSUME NEW j \in Inside(es, at)
       PROVE  /\ es[j].path \notin E => ~es[j].empty
              /\ es[j].path \in E => es[j].isDir
                   /\ (es[j].empty <=> \A i \in Inside(es, j) : es[i].path \in E)
  <2>1. j \in DOMAIN es /\ IsBelow(es[at].path, es[j].path)
    BY DEF Inside
  <2>2. ~IsOpen(fs, j)
    <3> SUFFICES ASSUME NEW n \in 1..K, fs[n].at = j PROVE FALSE
      BY <1>1 DEF IsOpen
    <3>1. fs[n].at > 0 /\ n \in DOMAIN fs
      BY <1>1, <2>1
    <3>2. es[j].path = fs[n].path
      BY <3>1 DEF IsWalk, AreFollowed
    <3>3. Len(fs[n].path) = n - 1 /\ Len(top.path) = K - 1
      BY <1>1, <3>1 DEF IsWalk, AreNested, K
    <3>4. Len(top.path) < Len(es[j].path)
      BY <1>14, <2>1 DEF IsBelow
    <3> QED
      BY <1>1, <3>2, <3>3, <3>4
  <2>3. es[j].path \in E => IsSummed(k, E, es, j)
    BY <2>1, <2>2 DEF IsWalk, AreSummed
  <2>4. es[j].path \notin E => ~es[j].empty
    BY <2>1 DEF IsWalk, AreSummed
  <2>5. es[j].path \in E => es[j].isDir
    BY <2>1 DEF IsWalk, AreAsSeen
  <2> QED
    BY <2>3, <2>4, <2>5 DEF IsSummed
<1>24. IsSummed(k, E, es2, at)
  <2>1. /\ Inside(es2, at) = Inside(es, at) /\ es2[at] = e
        /\ \A j \in Inside(es, at) : j \in DOMAIN es /\ j > at /\ es2[j] = es[j]
    BY <1>3, <1>18, <1>19
  <2>2. IsOpen(fs, at)
    BY <1>1 DEF IsOpen, K
  <2>3. es[at].verified /\ (OnBothSides(k, es[at].path) => es[at].status = "Same")
    BY <2>2 DEF IsWalk, AreSummed
  <2>4. e.empty <=> \A j \in Inside(es, at) : es[j].isDir /\ es[j].empty
    BY <1>19
  <2>5. (\A j \in Inside(es, at) : es[j].isDir /\ es[j].empty) => \A j \in Inside(es, at) : es[j].path \in E
    BY <1>23
  <2>6. ASSUME \A j \in Inside(es, at) : es[j].path \in E, NEW j \in Inside(es, at)
        PROVE  es[j].isDir /\ es[j].empty
    <3>1. ASSUME NEW i \in Inside(es, j) PROVE i \in Inside(es, at)
      <4>1. i \in DOMAIN es /\ j \in DOMAIN es /\ IsBelow(es[at].path, es[j].path) /\ IsBelow(es[j].path, es[i].path)
        BY <3>1 DEF Inside
      <4>2. IsBelow(es[at].path, es[i].path)
        BY <1>15, <4>1, BelowBelow
      <4> QED
        BY <4>1, <4>2 DEF Inside
    <3> QED
      BY <1>23, <2>6, <3>1
  <2>7. e.empty <=> \A j \in Inside(es, at) : es[j].path \in E
    BY <2>4, <2>5, <2>6
  <2>8. e.verified <=> \A j \in Inside(es, at) : es[j].verified
    BY <1>19, <2>3
  <2>9. OnBothSides(k, e.path) => (e.status = "Same" <=> \A j \in Inside(es, at) : es[j].status = "Same")
    BY <1>19, <2>3
  <2> QED
    BY <2>1, <2>7, <2>8, <2>9 DEF IsSummed
<1>25. AreSummed(k, E, fs2, es2)
  <2> SUFFICES ASSUME NEW i \in DOMAIN es
               PROVE  /\ es2[i].path \notin E => ~es2[i].empty
                      /\ IsOpen(fs2, i) => es2[i].verified
                                           /\ (OnBothSides(k, es2[i].path) => es2[i].status = "Same")
                      /\ es2[i].path \in E /\ ~IsOpen(fs2, i) => IsSummed(k, E, es2, i)
    BY <1>3 DEF AreSummed
  <2>1. CASE i = at
    BY <1>4, <1>14, <1>17, <1>20, <1>24, <2>1
  <2>2. CASE i # at
    <3>1. es2[i] = es[i] /\ (IsOpen(fs2, i) <=> IsOpen(fs, i))
      BY <1>3, <1>16, <2>2
    <3>2. /\ es[i].path \notin E => ~es[i].empty
          /\ IsOpen(fs, i) => es[i].verified /\ (OnBothSides(k, es[i].path) => es[i].status = "Same")
          /\ es[i].path \in E /\ ~IsOpen(fs, i) => IsSummed(k, E, es, i)
      BY DEF IsWalk, AreSummed
    <3> QED
      BY <1>22, <2>2, <3>1, <3>2
  <2> QED
    BY <2>1, <2>2
<1>26. IsWalk(k, o, V, E, fs2, es2)
  BY <1>2, <1>3, <1>6, <1>7, <1>8, <1>9, <1>10, <1>11, <1>12, <1>13, <1>25 DEF IsWalk
<1> QED
  BY <1>26 DEF fs2, es2

\* Two files have been compared: the last entry says so.
LEMMA WalkCompares ==
  ASSUME NEW k, NEW o, NEW V, NEW E, NEW fs, NEW es, IsWalk(k, o, V, E, fs, es),
         IsWalkable(V, E), fs # <<>>, es # <<>>, NEW e \in FoundEntry,
         ParentOf(es[Len(es)].path) = fs[Len(fs)].path, es[Len(es)].path \notin E,
         e.path = es[Len(es)].path, e.left = es[Len(es)].left, e.right = es[Len(es)].right,
         e.isDir = es[Len(es)].isDir, e.empty = es[Len(es)].empty
  PROVE  IsWalk(k, o, V, E, fs, [es EXCEPT ![Len(es)] = e])
<1> DEFINE es2 == [es EXCEPT ![Len(es)] = e]  last == es[Len(es)]
           top == fs[Len(fs)]  K == Len(fs)  N == Len(es)
<1>1. /\ fs \in Seq(Frame) /\ es \in Seq(FoundEntry) /\ top \in Frame
      /\ K \in Nat \ {0} /\ K \in DOMAIN fs /\ DOMAIN fs = 1..K
      /\ N \in Nat \ {0} /\ N \in DOMAIN es /\ DOMAIN es = 1..N
  BY TopOf DEF IsWalk
<1>2. /\ es2 \in Seq(FoundEntry) /\ Len(es2) = N /\ DOMAIN es2 = DOMAIN es
      /\ \A i \in DOMAIN es : es2[i] = IF i = N THEN e ELSE es[i]
  BY <1>1
<1> HIDE DEF es2
<1>3. \A i \in DOMAIN es : /\ es2[i].path = es[i].path /\ es2[i].left = es[i].left
                           /\ es2[i].right = es[i].right /\ es2[i].isDir = es[i].isDir
                           /\ es2[i].empty = es[i].empty
  BY <1>2
<1>4. last.path \in V /\ last.path \in ScanPath /\ last.path \in Seq(PathName)
  BY <1>1, ScanPaths DEF IsWalk, AreAsSeen, IsWalkable
<1>5. Len(top.path) = K - 1 /\ Len(last.path) = K /\ Up(last.path, K - 1) = top.path
  <2>1. Len(top.path) = K - 1
    BY <1>1 DEF IsWalk, AreNested
  <2>2. Len(ParentOf(last.path)) = Len(last.path) - 1 /\ Len(last.path) \in Nat
    BY <1>4, AboveIs, ScanPaths
  <2>3. K - 1 = Len(last.path) - 1
    BY <2>1, <2>2
  <2> HIDE DEF K
  <2>4. Len(last.path) = K
    BY <1>1, <2>2, <2>3
  <2> QED
    BY <2>1, <2>4 DEF ParentOf
<1> HIDE DEF K, N
<1>6. \A i \in DOMAIN es : Inside(es2, i) = Inside(es, i)
  BY <1>2, <1>3 DEF Inside
<1>7. ASSUME NEW i \in DOMAIN es, ~IsOpen(fs, i) PROVE N \notin Inside(es, i)
  <2> SUFFICES ASSUME IsBelow(es[i].path, last.path) PROVE FALSE
    BY DEF Inside, N
  <2>1. Len(es[i].path) \in Nat
    BY ScanPaths DEF IsWalk, AreAsSeen, IsWalkable
  <2>2. Len(es[i].path) <= K - 1
    BY <1>1, <1>5, <2>1 DEF IsBelow
  <2>3. Len(last.path) >= K - 1
    BY <1>1, <1>5
  <2>4. \E n \in DOMAIN fs : n = Len(es[i].path) + 1 /\ fs[n].at = i
    <3>1. /\ Len(last.path) >= Len(fs) - 1 /\ Len(es[i].path) <= Len(fs) - 1
          /\ Up(last.path, Len(fs) - 1) = fs[Len(fs)].path
      BY <1>5, <2>2, <2>3 DEF K
    <3> DEFINE p == last.path
    <3>2. /\ p \in Seq(PathName) /\ Len(p) >= Len(fs) - 1 /\ Up(p, Len(fs) - 1) = fs[Len(fs)].path
          /\ IsBelow(es[i].path, p)
      BY <1>4, <3>1
    <3> HIDE DEF p
    <3> QED
      BY <3>1, <3>2, AroundIsOpen
  <2> QED
    BY <1>7, <2>4 DEF IsOpen
<1>8. ~IsOpen(fs, N)
  <2> SUFFICES ASSUME NEW n \in DOMAIN fs, fs[n].at = N PROVE FALSE
    BY DEF IsOpen
  <2>1. es[N].path = fs[n].path /\ fs[n].at > 0
    BY <1>1 DEF IsWalk, AreFollowed
  <2>2. fs[n].path \in E
    BY <1>1, <2>1 DEF IsWalk, IsCall
  <2> QED
    BY <2>1, <2>2 DEF N
<1>9. AreSummed(k, E, fs, es2)
  <2> SUFFICES ASSUME NEW i \in DOMAIN es
               PROVE  /\ es2[i].path \notin E => ~es2[i].empty
                      /\ IsOpen(fs, i) => es2[i].verified
                                           /\ (OnBothSides(k, es2[i].path) => es2[i].status = "Same")
                      /\ es2[i].path \in E /\ ~IsOpen(fs, i) => IsSummed(k, E, es2, i)
    BY <1>2 DEF AreSummed
  <2>1. /\ es[i].path \notin E => ~es[i].empty
        /\ IsOpen(fs, i) => es[i].verified /\ (OnBothSides(k, es[i].path) => es[i].status = "Same")
        /\ es[i].path \in E /\ ~IsOpen(fs, i) => IsSummed(k, E, es, i)
    BY DEF IsWalk, AreSummed
  <2>2. CASE i = N
    BY <1>3, <1>8, <2>1, <2>2 DEF N
  <2>3. CASE i # N
    <3>1. es2[i] = es[i]
      BY <1>2, <2>3
    <3>2. ASSUME IsSummed(k, E, es, i), ~IsOpen(fs, i) PROVE IsSummed(k, E, es2, i)
      <4>1. Inside(es2, i) = Inside(es, i) /\ \A j \in Inside(es, i) : es2[j] = es[j]
        BY <1>2, <1>6, <1>7, <3>2 DEF Inside
      <4>2. es2[i].empty <=> \A j \in Inside(es2, i) : es2[j].path \in E
        BY <3>1, <3>2, <4>1 DEF IsSummed
      <4>3. es2[i].verified <=> \A j \in Inside(es2, i) : es2[j].verified
        BY <3>1, <3>2, <4>1 DEF IsSummed
      <4>4. OnBothSides(k, es2[i].path) =>
              (es2[i].status = "Same" <=> \A j \in Inside(es2, i) : es2[j].status = "Same")
        BY <3>1, <3>2, <4>1 DEF IsSummed
      <4> QED
        BY <4>2, <4>3, <4>4 DEF IsSummed
    <3> QED
      BY <2>1, <3>1, <3>2
  <2> QED
    BY <2>2, <2>3
<1>10. AreAsSeen(k, V, E, es2) /\ NoneIsDue(V, fs, es2)
  BY <1>2, <1>3 DEF IsWalk, AreAsSeen, NoneIsDue
<1>11. AreInOrder(es2) /\ AllAreSeen(V, fs, es2)
  BY <1>2, <1>3 DEF IsWalk, AreInOrder, AllAreSeen
<1>12. AreFollowed(fs, es2)
  <2> SUFFICES ASSUME NEW n \in DOMAIN fs, fs[n].at > 0
               PROVE  /\ fs[n].at \in DOMAIN es2 /\ es2[fs[n].at].path = fs[n].path
                      /\ \A i \in DOMAIN es2 : i > fs[n].at => IsBelow(fs[n].path, es2[i].path)
    BY DEF AreFollowed
  <2>1. /\ fs[n].at \in DOMAIN es /\ es[fs[n].at].path = fs[n].path
        /\ \A i \in DOMAIN es : i > fs[n].at => IsBelow(fs[n].path, es[i].path)
    BY DEF IsWalk, AreFollowed
  <2> QED
    BY <1>2, <1>3, <2>1
<1>13. AreWithin(E, fs, es2)
  BY <1>2, <1>3 DEF IsWalk, AreWithin, N
<1>14. IsWalk(k, o, V, E, fs, es2)
  BY <1>1, <1>2, <1>9, <1>10, <1>11, <1>12, <1>13 DEF IsWalk
<1> QED
  BY <1>14 DEF es2

\* The root has been left: everything is listed and summed up.
IsDone(k, V, E, es) ==
  /\ es \in Seq(FoundEntry) /\ Len(es) <= MaxEntries
  /\ \A i \in DOMAIN es : es[i].path \in V
  /\ \A q \in V : \E i \in DOMAIN es : es[i].path = q
  /\ AreInOrder(es)
  /\ \A i \in DOMAIN es : es[i].path \in E => Len(es[i].path) <= MaxDepth /\ IsSummed(k, E, es, i)
LEMMA WalkEnds ==
  ASSUME NEW k, NEW o, NEW V, NEW E, NEW fs, NEW es, IsWalk(k, o, V, E, fs, es),
         fs # <<>>, fs[Len(fs)].stage = "names", fs[Len(fs)].todo = {}, fs[Len(fs)].at = 0
  PROVE  Len(fs) = 1 /\ IsDone(k, V, E, es)
<1> DEFINE top == fs[Len(fs)]
<1>1. /\ fs \in Seq(Frame) /\ es \in Seq(FoundEntry) /\ top \in Frame
      /\ Len(fs) \in Nat \ {0} /\ Len(fs) \in DOMAIN fs /\ DOMAIN fs = 1..Len(fs)
  BY TopOf DEF IsWalk
<1>2. top.path = <<>>
  BY <1>1 DEF IsWalk, IsCall
<1>3. Len(top.path) = Len(fs) - 1
  BY <1>1 DEF IsWalk, AreNested
<1>4. Len(fs) = 1
  <2>1. Len(<<>>) = Len(fs) - 1
    BY <1>2, <1>3
  <2>2. 0 = Len(fs) - 1 /\ Len(fs) \in Nat
    BY <1>1, <2>1, ScanPaths
  <2> DEFINE n == Len(fs)
  <2>3. 0 = n - 1 /\ n \in Nat
    BY <2>2
  <2> HIDE DEF n
  <2>4. n = 1
    BY <2>3
  <2> QED
    BY <2>4 DEF n
<1>5. \A n \in DOMAIN fs : n = Len(fs)
  BY <1>1, <1>4
<1>6. \A n \in DOMAIN fs : Due(V, fs[n]) = {}
  BY <1>5 DEF Due
<1>7. \A i \in DOMAIN es : ~IsOpen(fs, i)
  <2>1. \A i \in DOMAIN es : i # 0
    BY <1>1
  <2> QED
    BY <1>5, <2>1 DEF IsOpen
<1>8. \A q \in V : \E i \in DOMAIN es : es[i].path = q
  BY <1>6 DEF IsWalk, AllAreSeen
<1>9. \A i \in DOMAIN es : es[i].path \in E => Len(es[i].path) <= MaxDepth /\ IsSummed(k, E, es, i)
  BY <1>5, <1>7 DEF IsWalk, AreWithin, AreSummed
<1>10. \A i \in DOMAIN es : es[i].path \in V
  BY DEF IsWalk, AreAsSeen
<1>11. AreInOrder(es) /\ Len(es) <= MaxEntries
  BY DEF IsWalk, AreWithin
<1> QED
  BY <1>1, <1>4, <1>8, <1>9, <1>10, <1>11 DEF IsDone

\* As many names as entries, and no more.
LEMMA DoneIsWithin ==
  ASSUME NEW k, NEW V \in SUBSET ScanPath, NEW E, NEW es, IsDone(k, V, E, es)
  PROVE  Cardinality(V) <= MaxEntries /\ \A p \in V : p \in E => Len(p) <= MaxDepth
<1>1. es \in Seq(FoundEntry) /\ Len(es) \in Nat /\ DOMAIN es = 1..Len(es)
  BY DEF IsDone
<1> DEFINE f == [i \in 1..Len(es) |-> es[i].path]
<1>2. f \in Surjection(1..Len(es), V)
  <2>1. f \in [1..Len(es) -> V]
    BY <1>1 DEF IsDone
  <2>2. \A q \in V : \E i \in 1..Len(es) : f[i] = q
    BY <1>1 DEF IsDone
  <2> QED
    BY <2>1, <2>2 DEF Surjection
<1>3. IsFiniteSet(V)
  BY ScanAssumption, FS_Subset
<1>4. Cardinality(V) <= Len(es)
  BY <1>1, <1>2, FS_SurjCardinalityBound DEF ExistsSurjection
<1>5. Cardinality(V) \in Nat
  BY <1>3, FS_CardinalityType
<1>6. Len(es) <= MaxEntries /\ MaxEntries \in Nat
  BY ScanAssumption DEF IsDone
<1>7. Cardinality(V) <= MaxEntries
  BY <1>1, <1>4, <1>5, <1>6
<1> QED
  BY <1>7 DEF IsDone

\* One name more than entries is more than there may be.
LEMMA FullIsOver ==
  ASSUME NEW k, NEW o, NEW V, NEW E, NEW fs, NEW es, IsWalk(k, o, V, E, fs, es),
         NEW p \in V, \A i \in DOMAIN es : es[i].path # p, Len(es) >= MaxEntries,
         V \subseteq ScanPath
  PROVE  Cardinality(V) > MaxEntries
<1> DEFINE N == Len(es)  f == [i \in 1..N + 1 |-> IF i <= N THEN es[i].path ELSE p]
<1>1. es \in Seq(FoundEntry) /\ N \in Nat /\ DOMAIN es = 1..N
  BY DEF IsWalk
<1> HIDE DEF N
<1>2. f \in Injection(1..N + 1, V)
  <2>1. \A i \in 1..N + 1 : (i <= N => i \in DOMAIN es /\ f[i] = es[i].path) /\ (~(i <= N) => i = N + 1 /\ f[i] = p)
    BY <1>1
  <2>2. f \in [1..N + 1 -> V]
    BY <2>1 DEF IsWalk, AreAsSeen
  <2>3. \A i, j \in DOMAIN es : i # j => es[i].path # es[j].path
    <3> SUFFICES ASSUME NEW i \in DOMAIN es, NEW j \in DOMAIN es, i # j PROVE es[i].path # es[j].path
      OBVIOUS
    <3>1. i < j \/ j < i
      BY <1>1
    <3> QED
      BY <3>1 DEF IsWalk, AreInOrder
  <2> HIDE DEF f
  <2>4. ASSUME NEW i \in 1..N + 1, NEW j \in 1..N + 1, f[i] = f[j] PROVE i = j
    BY <1>1, <2>1, <2>3, <2>4
  <2> QED
    BY <2>2, <2>4 DEF Injection, IsInjective
<1>3. IsFiniteSet(V)
  BY ScanAssumption, FS_Subset
<1>4. Cardinality(1..N + 1) <= Cardinality(V)
  BY <1>2, <1>3, FS_Injection
<1>5. Cardinality(1..N + 1) = N + 1
  <2>1. 1 \in Int /\ N + 1 \in Int /\ ~(1 > N + 1)
    BY <1>1
  <2> QED
    BY <1>1, <2>1, FS_Interval
<1>6. Cardinality(V) \in Nat
  BY <1>3, FS_CardinalityType
<1>7. N >= MaxEntries /\ MaxEntries \in Nat
  BY ScanAssumption DEF N
<1> QED
  BY <1>1, <1>4, <1>5, <1>6, <1>7

-----------------------------------------------------------------------------
(* The walk of the scan.                                                   *)

Seen == ShownIn(Shape(trees), scanOptions)
Walked == EnteredIn(Shape(trees))
\* The files of the last entry are compared, and it is one of the last call.
ReadsTheLast(E, fs, es, r) ==
  r # None => /\ fs # <<>> /\ es # <<>>
              /\ ParentOf(es[Len(es)].path) = fs[Len(fs)].path /\ es[Len(es)].path \notin E
IsOver(V, E) == Cardinality(V) > MaxEntries \/ \E p \in V : p \in E /\ Len(p) > MaxDepth
WalkInv ==
  /\ ScanInv /\ IsTreeOf(Shape(trees))
  /\ outcome \in {"scanning", "Ready", "ResourceLimit", "Cancelled", "Error"}
  /\ outcome = "scanning" => /\ IsWalk(Shape(trees), scanOptions, Seen, Walked, frames, found)
                             /\ frames # <<>> /\ ReadsTheLast(Walked, frames, found, reading)
  /\ outcome = "Ready" => IsDone(Shape(trees), Seen, Walked, found)
  /\ outcome = "ResourceLimit" => IsOver(Seen, Walked)

\* That is what completeness and the limits ask for.
LEMMA WalkIsComplete ==
  ASSUME WalkInv
  PROVE  ScanIsComplete
<1> DEFINE k == Shape(trees)  V == Seen  E == Walked
<1>1. /\ k \in Shapes /\ Scanning!Visible = V
      /\ \A p \in ScanPath : Scanning!Entered(p) = (p \in E)
      /\ \A p \in ScanPath : (Scanning!Found(p) = Side) = OnBothSides(k, p)
  BY ShapeTells DEF WalkInv, ScanInv, Seen, Walked, OnBothSides
<1>2. V \in SUBSET ScanPath
  BY DEF Seen, ShownIn
<1>3. found \in Seq(FoundEntry) /\ \A i \in DOMAIN found : found[i].path \in ScanPath
  <2>1. found \in Seq(FoundEntry)
    BY DEF WalkInv, ScanInv, ScanTypes
  <2>2. \A i \in DOMAIN found : found[i] \in FoundEntry
    BY <2>1
  <2> QED
    BY <2>1, <2>2 DEF FoundEntry
<1>0. Scanning!OverLimit <=> IsOver(V, E)
  <2>1. \A p \in Scanning!Visible : p \in V /\ (Scanning!Entered(p) <=> p \in E)
    BY <1>1, <1>2
  <2>2. \A p \in V : p \in Scanning!Visible
    BY <1>1
  <2>3. Cardinality(Scanning!Visible) = Cardinality(V)
    BY <1>1
  <2> HIDE DEF V, E
  <2>4. (\E p \in Scanning!Visible : Scanning!Entered(p) /\ Len(p) > MaxDepth)
          <=> \E p \in V : p \in E /\ Len(p) > MaxDepth
    BY <2>1, <2>2
  <2>5. IsOver(V, E) <=> (Cardinality(V) > MaxEntries \/ \E p \in V : p \in E /\ Len(p) > MaxDepth)
    BY DEF IsOver
  <2>6. Scanning!OverLimit <=> \/ Cardinality(Scanning!Visible) > MaxEntries
                              \/ \E p \in Scanning!Visible : Scanning!Entered(p) /\ Len(p) > MaxDepth
    BY DEF Scanning!OverLimit, Scanning!Cardinality, Cardinality
  <2>7. (Cardinality(Scanning!Visible) > MaxEntries) <=> (Cardinality(V) > MaxEntries)
    BY <2>3
  <2> QED
    BY <2>4, <2>5, <2>6, <2>7
<1>4. Scanning!LimitsAreExact
  <2>1. ASSUME outcome = "Ready" PROVE ~IsOver(V, E)
    <3>1. IsDone(k, V, E, found)
      BY <2>1 DEF WalkInv
    <3>2. Cardinality(V) <= MaxEntries /\ \A p \in V : p \in E => Len(p) <= MaxDepth
      BY <1>2, <3>1, DoneIsWithin
    <3>3. IsFiniteSet(V)
      BY <1>2, ScanAssumption, FS_Subset
    <3>4. Cardinality(V) \in Nat /\ MaxEntries \in Nat /\ MaxDepth \in Nat
      BY <3>3, FS_CardinalityType, ScanAssumption
    <3>5. ~(Cardinality(V) > MaxEntries)
      BY <3>2, <3>4
    <3>6. ASSUME NEW p \in V, p \in E, Len(p) > MaxDepth PROVE FALSE
      <4>1. Len(p) \in Nat
        BY <1>2, ScanPaths
      <4> QED
        BY <3>2, <3>4, <3>6, <4>1
    <3> QED
      BY <3>5, <3>6 DEF IsOver
  <2> QED
    BY <1>0, <2>1 DEF WalkInv, Scanning!LimitsAreExact
<1>5. Scanning!ReadyScanIsComplete
  <2> SUFFICES ASSUME outcome = "Ready"
               PROVE  /\ {found[i].path : i \in DOMAIN found} = V
                      /\ \A i, j \in DOMAIN found : i < j =>
                           found[i].path # found[j].path
                           /\ ~Scanning!Below(found[j].path, found[i].path)
                      /\ \A i \in DOMAIN found : Scanning!Entered(found[i].path) =>
                           LET e == found[i]
                               below == {found[j] : j \in {j \in DOMAIN found : Scanning!Below(e.path, found[j].path)}}
                           IN /\ e.empty = \A b \in below : Scanning!Entered(b.path)
                              /\ e.verified = \A b \in below : b.verified
                              /\ Scanning!Found(e.path) = Side =>
                                   (e.status = "Same") = (\A b \in below : b.status = "Same")
    <3>1. Scanning!Side = Side
      BY DEF Scanning!Side, Side
    <3> QED
      BY <1>1, <3>1 DEF Scanning!ReadyScanIsComplete
  <2>1. IsDone(k, V, E, found)
    BY DEF WalkInv
  <2>2. {found[i].path : i \in DOMAIN found} = V
    BY <2>1 DEF IsDone
  <2>3. \A i, j \in DOMAIN found : Scanning!Below(found[i].path, found[j].path) = IsBelow(found[i].path, found[j].path)
    BY <1>3, ScanPaths, BelowIs
  <2>4. \A i, j \in DOMAIN found : i < j =>
          found[i].path # found[j].path /\ ~Scanning!Below(found[j].path, found[i].path)
    BY <2>1, <2>3 DEF IsDone, AreInOrder
  <2>5. ASSUME NEW i \in DOMAIN found, Scanning!Entered(found[i].path)
        PROVE  LET e == found[i]
                   below == {found[j] : j \in {j \in DOMAIN found : Scanning!Below(e.path, found[j].path)}}
               IN /\ e.empty = \A b \in below : Scanning!Entered(b.path)
                  /\ e.verified = \A b \in below : b.verified
                  /\ Scanning!Found(e.path) = Side =>
                       (e.status = "Same") = (\A b \in below : b.status = "Same")
    <3> DEFINE e == found[i]  In == Inside(found, i)
               below == {found[j] : j \in {j \in DOMAIN found : Scanning!Below(e.path, found[j].path)}}
    <3>1. IsSummed(k, E, found, i)
      BY <1>1, <1>3, <2>1, <2>5 DEF IsDone
    <3>2. {j \in DOMAIN found : Scanning!Below(e.path, found[j].path)} = In
      BY <2>3 DEF Inside
    <3>3. below = {found[j] : j \in In}
      BY <3>2
    <3>4. e \in FoundEntry /\ In \subseteq DOMAIN found
      BY <1>3 DEF Inside
    <3> HIDE DEF below, In
    <3>5. /\ (\A b \in below : Scanning!Entered(b.path)) <=> \A j \in In : found[j].path \in E
          /\ (\A b \in below : b.verified) <=> \A j \in In : found[j].verified
          /\ (\A b \in below : b.status = "Same") <=> \A j \in In : found[j].status = "Same"
      BY <1>1, <1>3, <3>3, <3>4
    <3>6. e.empty \in BOOLEAN /\ e.verified \in BOOLEAN
      BY <3>4 DEF FoundEntry
    <3>7. /\ e.empty <=> \A j \in In : found[j].path \in E
          /\ e.verified <=> \A j \in In : found[j].verified
          /\ OnBothSides(k, e.path) => (e.status = "Same" <=> \A j \in In : found[j].status = "Same")
      BY <3>1 DEF IsSummed, In
    <3>8. e.empty = \A b \in below : Scanning!Entered(b.path)
      BY <3>5, <3>6, <3>7
    <3>9. e.verified = \A b \in below : b.verified
      BY <3>5, <3>6, <3>7
    <3>10. Scanning!Found(e.path) = Side => (e.status = "Same") = (\A b \in below : b.status = "Same")
      BY <1>1, <1>3, <3>5, <3>7
    <3> QED
      BY <3>8, <3>9, <3>10 DEF below
  <2> QED
    BY <2>2, <2>4, <2>5
<1> QED
  BY <1>4, <1>5 DEF ScanIsComplete

LEMMA WalkInit == InitAll => WalkInv
<1> SUFFICES ASSUME InitAll PROVE WalkInv
  OBVIOUS
<1>1. PICK o, d : d \in ScanTree /\ Scanning!InitWith(o, d)
  <2>1. (CHOOSE t \in ScanTree : TRUE) \in ScanTree
    BY ScanAssumption
  <2>2. \/ Scanning!Init
        \/ Scanning!InitWith(CHOOSE o \in ScanOptions : TRUE, CHOOSE t \in ScanTree : TRUE)
    BY DEF InitAll
  <2>3. CASE Scanning!Init
    BY <2>3 DEF Scanning!Init
  <2> QED
    BY <2>1, <2>2, <2>3
<1> DEFINE k == Shape(trees)  V == Seen  E == Walked  call == Scanning!Call(<<>>, 0, 0)
<1>2. ScanInv
  BY ScanInit
<1>3. frames = <<call>> /\ found = <<>> /\ reading = None /\ outcome = "scanning" /\ trees = d
  BY <1>1 DEF Scanning!InitWith
<1>4. IsTreeOf(k)
  <2> SUFFICES ASSUME NEW side \in Side, NEW p \in ScanPath, k[side][p] # "nothing",
                      NEW n \in 1..Len(p) - 1
               PROVE  Up(p, n) \in ScanPath /\ k[side][Up(p, n)] = "dir"
    BY DEF IsTreeOf
  <2>1. IsTree(trees[side])
    BY <1>1, <1>3, ScanAssumption
  <2>2. k[side][p] = KindOf(trees[side][p])
    BY DEF Shape
  <2>3. trees[side][p] # None
    BY <2>2 DEF KindOf
  <2>4. Up(p, n) \in ScanPath /\ trees[side][Up(p, n)] # None /\ trees[side][Up(p, n)].kind = "dir"
    BY <2>1, <2>3 DEF IsTree, Up
  <2> QED
    BY <2>4 DEF Shape, KindOf
<1>5. /\ call \in Frame /\ call.path = <<>> /\ call.at = 0 /\ call.depth = 0 /\ call.stage = "left"
      /\ frames \in Seq(Frame) /\ Len(frames) = 1 /\ DOMAIN frames = {1} /\ frames[1] = call
      /\ found \in Seq(FoundEntry) /\ DOMAIN found = {} /\ Len(found) = 0 /\ frames # <<>>
  <2>1. call.path = <<>> /\ call.at = 0 /\ call.depth = 0 /\ call.stage = "left"
    BY DEF Scanning!Call
  <2> HIDE DEF call
  <2>2. frames \in Seq(Frame)
    BY <1>2 DEF ScanInv, ScanTypes
  <2>3. Len(frames) = 1 /\ DOMAIN frames = {1} /\ frames[1] = call /\ frames # <<>>
    BY <1>3
  <2>4. found \in Seq(FoundEntry) /\ DOMAIN found = {} /\ Len(found) = 0
    BY <1>3
  <2> QED
    BY <2>1, <2>2, <2>3, <2>4
<1>6. Due(V, call) = V
  <2>1. \A q \in V : IsBelow(<<>>, q)
    <3> SUFFICES ASSUME NEW q \in V PROVE IsBelow(<<>>, q)
      OBVIOUS
    <3>1. q \in Seq(PathName) /\ Len(q) >= 1 /\ Len(<<>>) = 0 /\ Len(q) \in Nat
      BY ScanPaths DEF Seen, ShownIn
    <3>2. Up(q, 0) = <<>>
      BY <3>1, UpAll
    <3> QED
      BY <3>1, <3>2 DEF IsBelow
  <2> HIDE DEF V, call
  <2> QED
    BY <1>5, <2>1 DEF Due
<1> HIDE DEF call, k, V, E
<1>7. \A n \in DOMAIN frames : IsCall(k, scanOptions, V, E, frames[n])
  BY <1>5, ScanPaths DEF IsCall
<1>8. AreNested(frames)
  <2>1. Up(<<>>, 0) = <<>> /\ Len(<<>>) = 0
    BY ScanPaths, UpAll
  <2>2. ASSUME NEW m \in 1..1 PROVE frames[m].path = Up(frames[1].path, m - 1)
    <3>1. m = 1
      OBVIOUS
    <3>2. frames[1].path = Up(frames[1].path, 0)
      BY <1>5, <2>1
    <3> QED
      BY <3>1, <3>2
  <2> QED
    BY <1>5, <2>1, <2>2 DEF AreNested
<1>9. AreAsSeen(k, V, E, found) /\ NoneIsDue(V, frames, found) /\ AreInOrder(found)
  BY <1>5 DEF AreAsSeen, NoneIsDue, AreInOrder
<1>10. AllAreSeen(V, frames, found)
  BY <1>5, <1>6 DEF AllAreSeen
<1>11. AreFollowed(frames, found)
  BY <1>5 DEF AreFollowed
<1>12. AreWithin(E, frames, found) /\ AreSummed(k, E, frames, found)
  BY <1>5, ScanAssumption DEF AreWithin, AreSummed
<1>13. IsWalk(k, scanOptions, V, E, frames, found)
  BY <1>5, <1>7, <1>8, <1>9, <1>10, <1>11, <1>12 DEF IsWalk
<1> QED
  BY <1>2, <1>3, <1>4, <1>5, <1>13 DEF WalkInv, ReadsTheLast, k, V, E

\* Other processes change contents and times, never which names there are.
LEMMA ShapeStays ==
  ASSUME ScanInv, NEW side \in Side, NEW p \in ScanPath, NEW content \in ScanContent,
         Scanning!Rewrite(side, p, content)
  PROVE  Shape(trees') = Shape(trees)
<1> DEFINE node == trees[side][p]
           new == [node EXCEPT !.content = content, !.time = node.time + 1]
<1>1. trees \in [Side -> Listings] /\ content \in Seq(Block)
  BY ScanAssumption DEF ScanInv, ScanTypes
<1>2. node # None /\ trees' = [trees EXCEPT ![side][p] = new]
  BY DEF Scanning!Rewrite
<1>3. node \in ScanNode
  BY <1>1, <1>2 DEF Listings, Nodes
<1> HIDE DEF node
<1>4. new \in ScanNode /\ new.kind = node.kind
  <2> DEFINE t == node.time + 1
  <2>1. t \in Nat /\ new = [node EXCEPT !.content = content, !.time = t]
    BY <1>3 DEF ScanNode
  <2> HIDE DEF t, new
  <2> QED
    BY <1>1, <1>3, <2>1 DEF ScanNode
<1> HIDE DEF new
<1>5. KindOf(new) = KindOf(node)
  BY <1>2, <1>4, ScanAssumption DEF KindOf
<1>6. \A s \in Side, q \in ScanPath :
        trees'[s][q] = (IF s = side /\ q = p THEN new ELSE trees[s][q])
  BY <1>1, <1>2 DEF Listings
<1>7. \A s \in Side, q \in ScanPath : KindOf(trees'[s][q]) = KindOf(trees[s][q])
  BY <1>5, <1>6 DEF node
<1> QED
  BY <1>7 DEF Shape

\* A listing is of what is there.
LEMMA ListedAsSeen ==
  ASSUME ScanInv, NEW side \in Side, NEW d
  PROVE  IsListing(Shape(trees), scanOptions, side, d, Scanning!Listed(side, d))
<1> SUFFICES ASSUME NEW p \in ScanPath
             PROVE  KindOf(Scanning!Listed(side, d)[p])
                      = IF ParentOf(p) = d /\ p[Len(p)] \notin scanOptions.excluded
                          THEN Shape(trees)[side][p] ELSE "nothing"
  BY DEF IsListing
<1>1. Shape(trees)[side][p] = KindOf(trees[side][p])
  BY DEF Shape
<1>2. Scanning!Listed(side, d)[p]
        = IF ParentOf(p) = d /\ p[Len(p)] \notin scanOptions.excluded THEN trees[side][p] ELSE None
  BY DEF Scanning!Listed, Scanning!Parent, Scanning!Excluded, Scanning!Name, ParentOf, Up
<1>3. KindOf(None) = "nothing"
  BY DEF KindOf
<1> QED
  BY <1>1, <1>2, <1>3

LEMMA TypedKinds ==
  ASSUME ScanInv
  PROVE  Shape(trees) \in Shapes
<1>1. \A side \in Side, p \in ScanPath : trees[side][p] \in Nodes
  BY DEF ScanInv, ScanTypes, Listings
<1>2. \A node \in Nodes : KindOf(node) \in Kind
  BY DEF KindOf, Nodes, ScanNode, Kind
<1> QED
  BY <1>1, <1>2 DEF Shape, Shapes

\* What WalkInv says while the scan goes on.
LEMMA Going ==
  ASSUME WalkInv, outcome = "scanning"
  PROVE  /\ ScanInv /\ IsTreeOf(Shape(trees)) /\ frames # <<>>
         /\ IsWalk(Shape(trees), scanOptions, Seen, Walked, frames, found)
         /\ ReadsTheLast(Walked, frames, found, reading)
         /\ IsWalkable(Seen, Walked)
BY Walkable DEF WalkInv, Seen, Walked

LEMMA WalkListsLeft ==
  ASSUME WalkInv, Scanning!ListLeft
  PROVE  WalkInv'
<1> DEFINE k == Shape(trees)  V == Seen  E == Walked  top == frames[Len(frames)]
           l == Scanning!Listed("left", top.path)
           f == [top EXCEPT !.stage = "right", !.left = l]
<1>1. /\ outcome = "scanning" /\ reading = None /\ frames # <<>> /\ top.stage = "left"
      /\ UNCHANGED <<scanOptions, trees>>
      /\ IF top.depth > MaxDepth THEN Scanning!Fail("ResourceLimit")
         ELSE frames' = [frames EXCEPT ![Len(frames)] = f] /\ UNCHANGED <<reading, found, outcome>>
  BY DEF Scanning!ListLeft, Scanning!Step, Scanning!Scanning, Scanning!environment, Scanning!Top,
         Scanning!TooDeep, Scanning!WithTop
<1>2. /\ ScanInv /\ IsTreeOf(k) /\ IsWalk(k, scanOptions, V, E, frames, found)
  BY <1>1, Going
<1>3. ScanInv'
  BY <1>2, ListingKeeps
<1>4. Shape(trees') = k /\ Seen' = V /\ Walked' = E
  BY <1>1 DEF Seen, Walked
<1>5. frames \in Seq(Frame) /\ top \in Frame /\ Len(frames) \in DOMAIN frames
  BY <1>1, <1>2, TopOf DEF IsWalk
<1>6. IsCall(k, scanOptions, V, E, top)
  BY <1>2, <1>5 DEF IsWalk
<1> HIDE DEF k, V, E
<1>7. CASE top.depth > MaxDepth
  <2>1. outcome' = "ResourceLimit"
    BY <1>1, <1>7 DEF Scanning!Fail
  <2>2. top.depth = Len(top.path) /\ top.path # <<>>
    <3>1. top.depth = Len(top.path)
      BY <1>6 DEF IsCall
    <3>2. top.path = <<>> => top.depth = 0
      BY <3>1, ScanPaths
    <3> HIDE DEF top
    <3> QED
      BY <1>7, <3>1, <3>2, ScanAssumption
  <2>3. top.path \in V /\ top.path \in E /\ Len(top.path) > MaxDepth
    BY <1>6, <1>7, <2>2 DEF IsCall
  <2>4. IsOver(V, E)
    BY <2>3 DEF IsOver
  <2> QED
    BY <1>2, <1>3, <1>4, <2>1, <2>4 DEF WalkInv, k
<1>8. CASE ~(top.depth > MaxDepth)
  <2>1. frames' = [frames EXCEPT ![Len(frames)] = f] /\ UNCHANGED <<reading, found, outcome>>
    BY <1>1, <1>8
  <2>2. l \in Listings /\ IsListing(k, scanOptions, "left", top.path, l)
    BY <1>2, ListedIs, ListedAsSeen DEF Side, k
  <2> HIDE DEF l, top
  <2>3. /\ f \in Frame /\ f.path = top.path /\ f.depth = top.depth /\ f.at = top.at
        /\ f.stage = "right" /\ f.left = l
    BY <1>5, <2>2 DEF Frame
  <2>4. f.depth <= MaxDepth
    BY <1>5, <1>8, <2>3, ScanAssumption DEF Frame
  <2> HIDE DEF f
  <2>5. IsCall(k, scanOptions, V, E, f)
    BY <1>6, <2>2, <2>3, <2>4 DEF IsCall
  <2>6. Due(V, f) = Due(V, top)
    BY <1>1, <2>3 DEF Due
  <2>7. IsWalk(k, scanOptions, V, E, [frames EXCEPT ![Len(frames)] = f], found)
    BY <1>1, <1>2, <2>3, <2>5, <2>6, WalkLists DEF top
  <2>8. IsWalk(k, scanOptions, V, E, frames', found')
    BY <2>1, <2>7
  <2>9. frames' # <<>>
    BY <1>5, <2>1, <2>3
  <2> QED
    BY <1>1, <1>2, <1>3, <1>4, <2>1, <2>8, <2>9 DEF WalkInv, ReadsTheLast, k
<1> QED
  BY <1>7, <1>8

LEMMA WalkListsRight ==
  ASSUME WalkInv, Scanning!ListRight
  PROVE  WalkInv'
<1> DEFINE k == Shape(trees)  V == Seen  E == Walked  top == frames[Len(frames)]  d == top.path
           r == Scanning!Listed("right", d)
           names == {p \in ScanPath : top.left[p] # None \/ r[p] # None}
           f == [top EXCEPT !.stage = "names", !.right = r, !.todo = names]
<1>1. /\ outcome = "scanning" /\ reading = None /\ frames # <<>> /\ top.stage = "right"
      /\ UNCHANGED <<scanOptions, trees, reading, found, outcome>>
      /\ frames' = [frames EXCEPT ![Len(frames)] = f]
  BY DEF Scanning!ListRight, Scanning!Step, Scanning!Scanning, Scanning!environment, Scanning!Top,
         Scanning!WithTop
<1>2. /\ ScanInv /\ IsTreeOf(k) /\ IsWalk(k, scanOptions, V, E, frames, found) /\ IsWalkable(V, E)
  BY <1>1, Going
<1>3. ScanInv'
  BY <1>2, ListingKeeps
<1>4. Shape(trees') = k /\ Seen' = V /\ Walked' = E
  BY <1>1 DEF Seen, Walked
<1>5. frames \in Seq(Frame) /\ top \in Frame /\ Len(frames) \in DOMAIN frames
  BY <1>1, <1>2, TopOf DEF IsWalk
<1>6. IsCall(k, scanOptions, V, E, top)
  BY <1>2, <1>5 DEF IsWalk
<1>7. k \in Shapes
  BY <1>2, TypedKinds
<1>8. V = ShownIn(k, scanOptions) /\ E = EnteredIn(k)
  BY DEF Seen, Walked
<1> HIDE DEF k, V, E
<1>9. r \in Listings /\ IsListing(k, scanOptions, "right", d, r)
  BY <1>2, ListedIs, ListedAsSeen DEF Side, k
<1>10. d \in Seq(PathName) /\ (d # <<>> => d \in V /\ d \in E) /\ top.left \in Listings
       /\ IsListing(k, scanOptions, "left", d, top.left)
  BY <1>1, <1>5, <1>6, FramePaths DEF IsCall, Frame
<1>11. names = {p \in V : ParentOf(p) = d}
  <2> DEFINE l == top.left
  <2>1. {p \in ScanPath : l[p] # None \/ r[p] # None} = {p \in ShownIn(k, scanOptions) : ParentOf(p) = d}
    <3>1. l \in Listings /\ IsListing(k, scanOptions, "left", d, l)
      BY <1>10
    <3> HIDE DEF l, r, d
    <3> QED
      BY <1>7, <1>8, <1>9, <1>10, <3>1, NamesAre
  <2> QED
    BY <1>8, <2>1
<1> HIDE DEF r, names
<1>12. names \subseteq ScanPath
  BY <1>2, <1>11 DEF IsWalkable
<1> HIDE DEF top, d
<1>13. /\ f \in Frame /\ f.path = d /\ f.depth = top.depth /\ f.at = top.at
       /\ f.stage = "names" /\ f.left = top.left /\ f.right = r /\ f.todo = names
  BY <1>5, <1>9, <1>12 DEF Frame, d
<1> HIDE DEF f
<1>14. ASSUME NEW p \in names
       PROVE  p \in V /\ ParentOf(p) = d
              /\ KindOf(f.left[p]) = k["left"][p] /\ KindOf(f.right[p]) = k["right"][p]
  <2>1. p \in V /\ ParentOf(p) = d /\ p \in ScanPath
    BY <1>11, <1>12
  <2>2. p[Len(p)] \notin scanOptions.excluded
    <3>1. Len(p) \in 1..Len(p)
      BY <2>1, ScanPaths
    <3> QED
      BY <1>8, <2>1, <3>1 DEF ShownIn, HiddenIn
  <2> QED
    BY <1>9, <1>10, <1>13, <2>1, <2>2 DEF IsListing
<1>15. IsCall(k, scanOptions, V, E, f)
  BY <1>1, <1>6, <1>13, <1>14 DEF IsCall, d
<1>16. Due(V, f) = Due(V, top)
  <2>1. \A q \in V : IsBelow(d, q) <=> \E p \in {p \in V : ParentOf(p) = d} : q = p \/ IsBelow(p, q)
    BY <1>2, <1>10, DueStays
  <2>2. \A q \in V : IsBelow(d, q) <=> \E p \in names : q = p \/ IsBelow(p, q)
    BY <1>11, <2>1
  <2>3. Due(V, f) = {q \in V : \E p \in names : q = p \/ IsBelow(p, q)}
    BY <1>13 DEF Due
  <2>4. Due(V, top) = {q \in V : IsBelow(d, q)}
    BY <1>1 DEF Due, d
  <2> QED
    BY <2>2, <2>3, <2>4
<1>17. IsWalk(k, scanOptions, V, E, [frames EXCEPT ![Len(frames)] = f], found)
  BY <1>1, <1>2, <1>13, <1>15, <1>16, WalkLists DEF top, d
<1>18. IsWalk(k, scanOptions, V, E, frames', found')
  BY <1>1, <1>17 DEF f, top, d, names, r
<1>19. frames' # <<>>
  BY <1>5, <1>1, <1>13
<1> QED
  BY <1>1, <1>2, <1>3, <1>4, <1>18, <1>19 DEF WalkInv, ReadsTheLast, k

\* The scan gives up: it is cancelled, fails, or there is too much of it.
LEMMA WalkFails ==
  ASSUME WalkInv, ScanInv', NEW reason, Scanning!Fail(reason), UNCHANGED <<scanOptions, trees>>,
         reason \in {"Cancelled", "Error"} \/ (reason = "ResourceLimit" /\ IsOver(Seen, Walked))
  PROVE  WalkInv'
<1>1. outcome' = reason
  BY DEF Scanning!Fail
<1>2. Shape(trees') = Shape(trees) /\ Seen' = Seen /\ Walked' = Walked
  BY DEF Seen, Walked
<1> QED
  BY <1>1, <1>2 DEF WalkInv

\* Neither names nor entries change.
LEMMA WalkRests ==
  ASSUME WalkInv, ScanInv', Shape(trees') = Shape(trees),
         UNCHANGED <<scanOptions, frames, found, outcome>>, reading' = None \/ reading # None
  PROVE  WalkInv'
<1>1. Seen' = Seen /\ Walked' = Walked
  BY DEF Seen, Walked
<1>2. ReadsTheLast(Walked, frames, found, reading) => ReadsTheLast(Walked, frames, found, reading')
  BY DEF ReadsTheLast
<1> QED
  BY <1>1, <1>2 DEF WalkInv

\* The last entry gets its result.
LEMMA WalkComparesLast ==
  ASSUME WalkInv, outcome = "scanning", ScanInv', reading # None, NEW st, NEW v,
         Scanning!Compared(st, v), UNCHANGED <<scanOptions, trees>>
  PROVE  WalkInv'
<1> DEFINE k == Shape(trees)  V == Seen  E == Walked  N == Len(found)
           last == found[N]  e == [last EXCEPT !.status = st, !.verified = v]
<1>1. /\ ScanInv /\ IsTreeOf(k) /\ IsWalk(k, scanOptions, V, E, frames, found) /\ IsWalkable(V, E)
      /\ frames # <<>> /\ ReadsTheLast(E, frames, found, reading)
  BY Going
<1>2. found' = [found EXCEPT ![N] = e] /\ reading' = None /\ UNCHANGED <<frames, outcome>>
  BY DEF Scanning!Compared, Scanning!Last
<1>3. Shape(trees') = k /\ Seen' = V /\ Walked' = E
  BY DEF Seen, Walked
<1>4. found \in Seq(FoundEntry) /\ found' \in Seq(FoundEntry) /\ found # <<>>
  BY <1>1 DEF ScanInv, ScanTypes, ReadsTheLast
<1>5. N \in DOMAIN found /\ last \in FoundEntry
  BY <1>4
<1>6. found'[N] = e /\ N \in DOMAIN found'
  BY <1>2, <1>5
<1>7. e \in FoundEntry
  BY <1>4, <1>6
<1> HIDE DEF k, V, E
<1>8. /\ e.path = last.path /\ e.left = last.left /\ e.right = last.right
      /\ e.isDir = last.isDir /\ e.empty = last.empty
  BY <1>5 DEF FoundEntry
<1>9. ParentOf(last.path) = frames[Len(frames)].path /\ last.path \notin E
  BY <1>1 DEF ReadsTheLast
<1> HIDE DEF e
<1>10. IsWalk(k, scanOptions, V, E, frames, [found EXCEPT ![Len(found)] = e])
  BY <1>1, <1>4, <1>7, <1>8, <1>9, WalkCompares
<1>11. IsWalk(k, scanOptions, V, E, frames', found')
  BY <1>2, <1>10
<1>12. ReadsTheLast(E, frames', found', reading')
  BY <1>2 DEF ReadsTheLast
<1> QED
  BY <1>1, <1>2, <1>3, <1>11, <1>12 DEF WalkInv, k, V, E

LEMMA WalkReturns ==
  ASSUME WalkInv, Scanning!Return
  PROVE  WalkInv'
<1> DEFINE k == Shape(trees)  V == Seen  E == Walked  K == Len(frames)  top == frames[K]  at == top.at
<1>1. /\ outcome = "scanning" /\ reading = None /\ reading' = None /\ frames # <<>>
      /\ UNCHANGED <<scanOptions, trees>> /\ top.stage = "names" /\ top.todo = {}
      /\ found' = (IF at = 0 THEN found ELSE Scanning!Summed(at))
      /\ frames' = SubSeq(frames, 1, K - 1)
      /\ outcome' = IF at = 0 THEN "Ready" ELSE outcome
  BY DEF Scanning!Return, Scanning!Step, Scanning!Scanning, Scanning!environment, Scanning!Top
<1>2. /\ ScanInv /\ IsTreeOf(k) /\ IsWalk(k, scanOptions, V, E, frames, found) /\ IsWalkable(V, E)
  BY <1>1, Going
<1>3. ScanInv'
  BY <1>2, ReturnKeeps
<1>4. Shape(trees') = k /\ Seen' = V /\ Walked' = E
  BY <1>1 DEF Seen, Walked
<1>5. frames \in Seq(Frame) /\ top \in Frame /\ K \in DOMAIN frames /\ K \in Nat \ {0} /\ DOMAIN frames = 1..K
  BY <1>1, <1>2, TopOf DEF IsWalk
<1>6. IsCall(k, scanOptions, V, E, top) /\ Len(top.path) = K - 1
  BY <1>2, <1>5 DEF IsWalk, AreNested
<1>7. CASE at = 0
  <2>1. IsDone(k, V, E, found)
    BY <1>1, <1>2, <1>7, WalkEnds
  <2>2. outcome' = "Ready" /\ found' = found
    BY <1>1, <1>7
  <2> QED
    BY <1>2, <1>3, <1>4, <2>1, <2>2 DEF WalkInv
<1>8. CASE at # 0
  <2> DEFINE below == {i \in DOMAIN found : i > at}
             old == found[at]
             b == \A i \in below : found[i].isDir /\ found[i].empty
             v == old.verified /\ \A i \in below : found[i].verified
             s == IF old.left # None /\ old.right # None /\ (\E i \in below : found[i].status # "Same")
                    THEN "Different" ELSE old.status
             e == [old EXCEPT !.empty = b, !.verified = v, !.status = s]
  <2>1. found' = [found EXCEPT ![at] = e]
    BY <1>1, <1>8 DEF Scanning!Summed
  <2>2. at > 0 /\ at \in DOMAIN found /\ found \in Seq(FoundEntry) /\ found' \in Seq(FoundEntry)
    <3>1. at \in Nat
      BY <1>5 DEF Frame
    <3> HIDE DEF at
    <3>2. at > 0
      BY <1>8, <3>1
    <3>3. at \in DOMAIN found
      BY <1>2, <1>5, <3>2 DEF IsWalk, AreFollowed, at
    <3> QED
      BY <1>2, <1>3, <3>2, <3>3 DEF ScanInv, ScanTypes
  <2>3. old \in FoundEntry
    BY <2>2
  <2>4. at \in DOMAIN found' /\ found'[at] = e
    BY <2>1, <2>2
  <2>5. e \in FoundEntry
    BY <2>2, <2>4
  <2>6. /\ e.path = old.path /\ e.left = old.left /\ e.right = old.right /\ e.isDir = old.isDir
        /\ e.empty = b /\ e.verified = v /\ e.status = s
    <3> HIDE DEF b, v, s, old
    <3> QED
      BY <2>3 DEF FoundEntry
  <2> HIDE DEF e, at, top, K, k, V, E
  <2>7. e.empty <=> \A i \in DOMAIN found : i > at => found[i].isDir /\ found[i].empty
    BY <2>6
  <2>8. e.verified <=> old.verified /\ \A i \in DOMAIN found : i > at => found[i].verified
    BY <2>6
  <2>9. OnBothSides(k, old.path) => old.left # None /\ old.right # None
    <3>1. KindOf(old.left) = k["left"][old.path] /\ KindOf(old.right) = k["right"][old.path]
      BY <1>2, <2>2 DEF IsWalk, AreAsSeen
    <3> QED
      BY <3>1 DEF OnBothSides, KindOf
  <2>10. OnBothSides(k, old.path) =>
           (e.status = "Same" <=> old.status = "Same"
                                  /\ \A i \in DOMAIN found : i > at => found[i].status = "Same")
    <3>1. ASSUME OnBothSides(k, old.path), \E i \in below : found[i].status # "Same" PROVE e.status = "Different"
      BY <2>6, <2>9, <3>1
    <3>2. ASSUME ~\E i \in below : found[i].status # "Same" PROVE e.status = old.status
      BY <2>6, <3>2
    <3> QED
      BY <3>1, <3>2
  <2>11. IsWalk(k, scanOptions, V, E, SubSeq(frames, 1, Len(frames) - 1), [found EXCEPT ![at] = e])
    <3>1. /\ frames[Len(frames)].stage = "names" /\ frames[Len(frames)].todo = {}
          /\ at = frames[Len(frames)].at
      BY <1>1 DEF at, top, K
    <3>2. /\ e.path = found[at].path /\ e.left = found[at].left /\ e.right = found[at].right
          /\ e.isDir = found[at].isDir
      BY <2>6
    <3> HIDE DEF below, b, v, s
    <3> QED
      BY <1>1, <1>2, <2>2, <2>5, <2>7, <2>8, <2>10, <3>1, <3>2, WalkLeaves
  <2>12. IsWalk(k, scanOptions, V, E, frames', found')
    BY <1>1, <2>1, <2>11 DEF K, e
  <2>13. frames' # <<>>
    <3>1. top.path # <<>> /\ top.path \in Seq(PathName)
      BY <1>5, <1>6, <1>8, FramePaths DEF IsCall, at
    <3>2. K - 1 > 0
      BY <1>5, <1>6, <3>1, UpAll
    <3>3. Len(frames') = K - 1
      BY <1>1, <1>5 DEF K
    <3> QED
      BY <3>2, <3>3
  <2> QED
    BY <1>1, <1>2, <1>3, <1>4, <1>8, <2>12, <2>13 DEF WalkInv, ReadsTheLast, k
<1> QED
  BY <1>7, <1>8

\* The entry of a name says what its two nodes are.
LEMMA EntryFits ==
  ASSUME NEW k, NEW p \in ScanPath, NEW l \in Nodes, NEW r \in Nodes,
         KindOf(l) = k["left"][p], KindOf(r) = k["right"][p]
  PROVE  /\ (EntryOf(p, l, r).isDir /\ ~Scanning!Collide(l, r)) <=> p \in EnteredIn(k)
         /\ ~EntryOf(p, l, r).empty
         /\ p \in EnteredIn(k) =>
              /\ EntryOf(p, l, r).isDir /\ EntryOf(p, l, r).verified /\ ~Compares(l, r)
              /\ OnBothSides(k, p) => EntryOf(p, l, r).status = "Same"
<1> DEFINE e == EntryOf(p, l, r)
<1>1. /\ (l # None) <=> k["left"][p] # "nothing"
      /\ (r # None) <=> k["right"][p] # "nothing"
      /\ Scanning!IsDir(l) <=> k["left"][p] = "dir"
      /\ Scanning!IsDir(r) <=> k["right"][p] = "dir"
      /\ l # None => (l.kind = "link" <=> k["left"][p] = "link")
      /\ r # None => (r.kind = "link" <=> k["right"][p] = "link")
  BY DEF KindOf, Nodes, ScanNode, Scanning!IsDir
<1>2. Scanning!Collide(l, r) <=> ClashIn(k, p)
  <2> DEFINE kl == k["left"][p]  kr == k["right"][p]
  <2>1. ClashIn(k, p) <=> /\ kl # "nothing" /\ kr # "nothing"
                          /\ (kl = "dir") # (kr = "dir") \/ (kl = "link") # (kr = "link")
    BY DEF ClashIn
  <2>2. /\ (l # None) = (kl # "nothing") /\ (r # None) = (kr # "nothing")
        /\ Scanning!IsDir(l) = (kl = "dir") /\ Scanning!IsDir(r) = (kr = "dir")
        /\ l # None => (l.kind = "link") = (kl = "link")
        /\ r # None => (r.kind = "link") = (kr = "link")
    BY <1>1 DEF Scanning!IsDir
  <2> HIDE DEF kl, kr
  <2>3. Scanning!Collide(l, r) <=> /\ kl # "nothing" /\ kr # "nothing"
                                   /\ (kl = "dir") # (kr = "dir") \/ (kl = "link") # (kr = "link")
    BY <2>2 DEF Scanning!Collide
  <2> QED
    BY <2>1, <2>3
<1>3. /\ e.isDir <=> Scanning!IsDir(l) \/ Scanning!IsDir(r)
      /\ e.empty = FALSE /\ e.status = Scanning!StatusOf(l, r)
      /\ e.verified <=> ~Compares(l, r)
  <2> DEFINE st == Scanning!StatusOf(l, r)  c == ~Compares(l, r)
             d == Scanning!IsDir(l) \/ Scanning!IsDir(r)
  <2>1. e = [path |-> p, left |-> l, right |-> r, status |-> st, verified |-> c, isDir |-> d, empty |-> FALSE]
    BY DEF EntryOf, Scanning!Entry
  <2> HIDE DEF st, c, d, e
  <2>2. e.isDir = d /\ e.empty = FALSE /\ e.status = st /\ e.verified = c
    BY <2>1
  <2> QED
    BY <2>2 DEF st, c, d
<1> HIDE DEF e
<1>4. p \in EnteredIn(k) <=> (k["left"][p] = "dir" \/ k["right"][p] = "dir") /\ ~ClashIn(k, p)
  BY DEF EnteredIn
<1>5. (e.isDir /\ ~Scanning!Collide(l, r)) <=> p \in EnteredIn(k)
  BY <1>1, <1>2, <1>3, <1>4
<1>6. ASSUME p \in EnteredIn(k)
      PROVE  e.isDir /\ e.verified /\ ~Compares(l, r) /\ (OnBothSides(k, p) => e.status = "Same")
  <2>1. OnBothSides(k, p) => Scanning!StatusOf(l, r) = "Same"
    BY <1>1, <1>5, <1>6 DEF OnBothSides, Scanning!StatusOf
  <2>2. Scanning!StatusOf(l, r) = "Same" => l # None /\ r # None
    BY DEF Scanning!StatusOf
  <2>3. l # None /\ r # None => (Scanning!IsDir(l) <=> Scanning!IsDir(r))
    BY <1>5, <1>6 DEF Scanning!Collide, Scanning!IsDir
  <2>4. ~Compares(l, r)
    BY <1>1, <1>4, <1>6, <2>2, <2>3 DEF Compares
  <2> QED
    BY <1>3, <1>5, <1>6, <2>1, <2>4
<1> QED
  <2>1. p \in EnteredIn(k) =>
          e.isDir /\ e.verified /\ ~Compares(l, r) /\ (OnBothSides(k, p) => e.status = "Same")
    BY <1>6
  <2> QED
    <3>1. e.empty = FALSE
      BY <1>3
    <3>2. (EntryOf(p, l, r).isDir /\ ~Scanning!Collide(l, r)) <=> p \in EnteredIn(k)
      BY <1>5, Zenon DEF e
    <3>3. ~EntryOf(p, l, r).empty
      BY <3>1, Zenon DEF e
    <3>4. p \in EnteredIn(k) =>
            /\ EntryOf(p, l, r).isDir /\ EntryOf(p, l, r).verified /\ ~Compares(l, r)
            /\ OnBothSides(k, p) => EntryOf(p, l, r).status = "Same"
      BY <2>1, Zenon DEF e
    <3> QED
      BY <3>2, <3>3, <3>4, Zenon

LEMMA WalkTakesName ==
  ASSUME WalkInv, Scanning!NextName
  PROVE  WalkInv'
<1> DEFINE k == Shape(trees)  V == Seen  E == Walked  K == Len(frames)  N == Len(found)  top == frames[K]
<1>1. /\ outcome = "scanning" /\ reading = None /\ frames # <<>> /\ top.stage = "names"
      /\ UNCHANGED <<scanOptions, trees>>
  BY DEF Scanning!NextName, Scanning!Step, Scanning!Scanning, Scanning!environment, Scanning!Top
<1>2. /\ ScanInv /\ IsTreeOf(k) /\ IsWalk(k, scanOptions, V, E, frames, found) /\ IsWalkable(V, E)
  BY <1>1, Going
<1>3. ScanInv'
  BY <1>2, NameKeeps
<1>4. Shape(trees') = k /\ Seen' = V /\ Walked' = E
  BY <1>1 DEF Seen, Walked
<1>5. /\ frames \in Seq(Frame) /\ top \in Frame /\ K \in DOMAIN frames /\ K \in Nat \ {0}
      /\ found \in Seq(FoundEntry) /\ N \in Nat
  BY <1>1, <1>2, TopOf DEF IsWalk
<1>6. IsCall(k, scanOptions, V, E, top)
  BY <1>2, <1>5 DEF IsWalk
<1>7. PICK p \in top.todo : Scanning!Add(p)
  BY DEF Scanning!NextName, Scanning!Unvisited, Scanning!Top
<1>8. /\ p \in V /\ ParentOf(p) = top.path /\ p \in ScanPath
      /\ KindOf(top.left[p]) = k["left"][p] /\ KindOf(top.right[p]) = k["right"][p]
  BY <1>1, <1>2, <1>6 DEF IsCall, IsWalkable
<1> DEFINE l == top.left[p]  r == top.right[p]  e == EntryOf(p, l, r)
           f == [top EXCEPT !.todo = top.todo \ {p}]
           rest == [frames EXCEPT ![K] = f]
           call == Scanning!Call(p, top.depth + 1, Len(found'))
<1>9. \/ N >= MaxEntries /\ Scanning!Fail("ResourceLimit")
      \/ /\ ~(N >= MaxEntries) /\ UNCHANGED outcome
         /\ found' = Append(found, e)
         /\ reading' = IF Compares(l, r) THEN [stage |-> "open", left |-> <<>>, right |-> <<>>] ELSE None
         /\ frames' = IF e.isDir /\ ~Scanning!Collide(l, r) THEN Append(rest, call) ELSE rest
  BY <1>7 DEF Scanning!Add, Scanning!Full, Scanning!Top, Scanning!WithTop, EntryOf, Compares
<1>10. l \in Nodes /\ r \in Nodes
  BY <1>5, <1>8 DEF Frame, Listings
<1> HIDE DEF l, r
<1>11. e \in FoundEntry /\ e.path = p /\ e.left = l /\ e.right = r
  BY ONLY <1>8, <1>10, EntryIs
<1>12. /\ (e.isDir /\ ~Scanning!Collide(l, r)) <=> p \in E
       /\ ~e.empty
       /\ p \in E => e.isDir /\ e.verified /\ ~Compares(l, r) /\ (OnBothSides(k, p) => e.status = "Same")
  <2>1. KindOf(l) = k["left"][p] /\ KindOf(r) = k["right"][p]
    BY <1>8 DEF l, r
  <2>2. E = EnteredIn(k)
    BY DEF Walked
  <2> HIDE DEF k, E
  <2> QED
    BY <1>8, <1>10, <2>1, <2>2, EntryFits
<1> HIDE DEF e, k, V, E
<1>13. CASE N >= MaxEntries /\ Scanning!Fail("ResourceLimit")
  <2>1. p \in Due(V, top)
    BY <1>1, <1>8 DEF Due
  <2>2. \A i \in DOMAIN found : found[i].path # p
    BY <1>2, <1>5, <2>1 DEF IsWalk, NoneIsDue
  <2>3. Cardinality(V) > MaxEntries
    BY <1>2, <1>8, <1>13, <2>2, FullIsOver DEF IsWalkable
  <2>4. IsOver(V, E)
    BY <2>3 DEF IsOver
  <2> QED
    BY <1>1, <1>3, <1>13, <2>4, WalkFails DEF V, E
<1>14. CASE /\ ~(N >= MaxEntries) /\ UNCHANGED outcome
            /\ found' = Append(found, e)
            /\ reading' = IF Compares(l, r) THEN [stage |-> "open", left |-> <<>>, right |-> <<>>] ELSE None
            /\ frames' = IF e.isDir /\ ~Scanning!Collide(l, r) THEN Append(rest, call) ELSE rest
  <2>1. f \in Frame /\ f.depth = top.depth /\ f.path = top.path
    BY <1>5 DEF Frame
  <2>2. Len(found') = N + 1
    BY <1>5, <1>11, <1>14
  <2>3. /\ call \in Frame /\ call.path = p /\ call.depth = f.depth + 1 /\ call.at = N + 1
        /\ call.stage = "left"
    <3>1. N + 1 \in Nat /\ top.depth + 1 \in Nat
      BY <1>5 DEF Frame
    <3>2. [q \in ScanPath |-> None] \in Listings
      BY DEF Listings, Nodes
    <3> DEFINE n == N + 1  d == top.depth + 1
    <3>3. call = [path |-> p, depth |-> d, at |-> n, stage |-> "left",
                  left |-> [q \in ScanPath |-> None], right |-> [q \in ScanPath |-> None], todo |-> {}]
      BY <2>2 DEF Scanning!Call, Scanning!NoListing
    <3> HIDE DEF call, n, d
    <3>4. call \in Frame /\ call.path = p /\ call.depth = d /\ call.at = n /\ call.stage = "left"
      BY <1>8, <3>1, <3>2, <3>3 DEF Frame, n, d
    <3> QED
      BY <2>1, <3>4 DEF n, d
  <2>4. frames' = IF p \in E THEN Append(rest, call) ELSE rest
    BY <1>12, <1>14
  <2>5. N < MaxEntries
    BY <1>5, <1>14, ScanAssumption
  <2> HIDE DEF call
  <2>6. KindOf(e.left) = k["left"][p] /\ KindOf(e.right) = k["right"][p]
    BY <1>8, <1>11 DEF l, r
  <2>7. IsWalk(k, scanOptions, V, E, frames', Append(found, e))
    <3> DEFINE new == frames'
    <3>1. /\ p \in frames[Len(frames)].todo /\ frames[Len(frames)].stage = "names" /\ Len(found) < MaxEntries
          /\ f = [frames[Len(frames)] EXCEPT !.todo = frames[Len(frames)].todo \ {p}]
          /\ call.at = Len(found) + 1
          /\ p \in E => e.isDir /\ e.verified /\ (OnBothSides(k, p) => e.status = "Same")
      BY <1>1, <1>7, <1>12, <2>3, <2>5
    <3>2. new = IF p \in E THEN Append([frames EXCEPT ![Len(frames)] = f], call)
                ELSE [frames EXCEPT ![Len(frames)] = f]
      BY <2>4
    <3>3. /\ IsWalk(k, scanOptions, V, E, frames, found) /\ IsWalkable(V, E) /\ frames # <<>>
          /\ f \in Frame /\ e \in FoundEntry /\ e.path = p /\ ~e.empty
          /\ KindOf(e.left) = k["left"][p] /\ KindOf(e.right) = k["right"][p]
          /\ call \in Frame /\ call.path = p /\ call.depth = f.depth + 1 /\ call.stage = "left"
      BY <1>1, <1>2, <1>11, <1>12, <2>1, <2>3, <2>6
    <3> HIDE DEF new, f, top, rest, K, N
    <3>4. IsWalk(k, scanOptions, V, E, new, Append(found, e))
      BY ONLY <3>1, <3>2, <3>3, WalkNames
    <3> QED
      BY <3>4 DEF new
  <2>8. IsWalk(k, scanOptions, V, E, frames', found')
    BY <1>14, <2>7
  <2>9. Len(rest) = K /\ rest \in Seq(Frame) /\ rest[K] = f
    BY <1>5, <2>1
  <2>10. frames' # <<>> /\ (p \notin E => frames' = rest)
    <3>1. CASE p \in E
      <4>1. frames' = Append(rest, call)
        BY <2>4, <3>1
      <4> HIDE DEF rest
      <4>2. Len(frames') = K + 1
        BY <2>3, <2>9, <4>1
      <4> QED
        BY <1>5, <3>1, <4>2
    <3>2. CASE p \notin E
      BY <1>5, <2>4, <2>9, <3>2
    <3> QED
      BY <3>1, <3>2
  <2>11. found'[Len(found')] = e /\ found' # <<>>
    <3>1. found' = Append(found, e)
      BY <1>14
    <3>2. found \in Seq(FoundEntry) /\ e \in FoundEntry
      BY <1>5, <1>11
    <3> QED
      BY <3>1, <3>2
  <2>12. ReadsTheLast(E, frames', found', reading')
    <3> SUFFICES ASSUME reading' # None
                 PROVE  /\ frames' # <<>> /\ found' # <<>>
                        /\ ParentOf(found'[Len(found')].path) = frames'[Len(frames')].path
                        /\ found'[Len(found')].path \notin E
      BY DEF ReadsTheLast
    <3>1. p \notin E
      BY <1>12, <1>14
    <3>2. frames'[Len(frames')].path = top.path
      BY <2>1, <2>9, <2>10, <3>1
    <3> QED
      BY <1>8, <1>11, <2>10, <2>11, <3>1, <3>2
  <2>13. outcome' = "scanning"
    BY <1>1, <1>14
  <2> QED
    BY <1>1, <1>2, <1>3, <1>4, <2>8, <2>10, <2>12, <2>13 DEF WalkInv, k
<1> QED
  BY <1>9, <1>13, <1>14

LEMMA WalkStays ==
  ASSUME WalkInv, [NextAll]_all
  PROVE  WalkInv'
<1>0. ScanInv'
  BY ScanStays DEF WalkInv
<1>1. CASE ScanStep
  <2> USE DEF Scanning!Step, Scanning!environment, Scanning!Scanning
  <2>1. CASE Scanning!ListLeft \/ Scanning!ListRight
    BY <2>1, WalkListsLeft, WalkListsRight
  <2>2. CASE Scanning!NextName
    BY <2>2, WalkTakesName
  <2>3. CASE Scanning!Return
    BY <2>3, WalkReturns
  <2>4. ASSUME UNCHANGED <<scanOptions, trees>>, outcome = "scanning", reading # None,
               \/ \E st, v : Scanning!Compared(st, v)
               \/ UNCHANGED <<frames, found, outcome>>
        PROVE  WalkInv'
    BY <1>0, <2>4, WalkComparesLast, WalkRests
  <2>5. CASE Scanning!Open
    <3>1. UNCHANGED <<scanOptions, trees>> /\ outcome = "scanning" /\ reading # None
      BY <2>5 DEF Scanning!Open
    <3>2. (\E st, v : Scanning!Compared(st, v)) \/ UNCHANGED <<frames, found, outcome>>
      <4> HIDE DEF Scanning!Compared
      <4>1. \/ \E st : Scanning!Compared(st, TRUE)
            \/ Scanning!Compared("Error", FALSE)
            \/ UNCHANGED <<frames, found, outcome>>
        BY <2>5 DEF Scanning!Open
      <4> QED
        BY <4>1
    <3> QED
      BY <2>4, <3>1, <3>2
  <2>6. CASE Scanning!ReadBlock
    <3>1. UNCHANGED <<scanOptions, trees>> /\ outcome = "scanning" /\ reading # None
      BY <2>6 DEF Scanning!ReadBlock
    <3>2. Scanning!Compared("Error", FALSE) \/ UNCHANGED <<frames, found, outcome>>
      BY <2>6 DEF Scanning!ReadBlock
    <3> QED
      BY <2>4, <3>1, <3>2
  <2>7. CASE Scanning!CheckLeft
    <3>1. UNCHANGED <<scanOptions, trees>> /\ outcome = "scanning" /\ reading # None
      BY <2>7 DEF Scanning!CheckLeft
    <3>2. Scanning!Compared("Error", FALSE) \/ UNCHANGED <<frames, found, outcome>>
      BY <2>7 DEF Scanning!CheckLeft
    <3> QED
      BY <2>4, <3>1, <3>2
  <2>8. CASE Scanning!CheckRight
    <3>1. UNCHANGED <<scanOptions, trees>> /\ outcome = "scanning" /\ reading # None
      BY <2>8 DEF Scanning!CheckRight
    <3>2. \/ Scanning!Compared(IF Scanning!Equal THEN "Same" ELSE "Different", TRUE)
          \/ Scanning!Compared("Error", FALSE)
      BY <2>8 DEF Scanning!CheckRight
    <3> QED
      BY <2>4, <3>1, <3>2
  <2>9. CASE Scanning!Cancel
    BY <1>0, <2>9, WalkRests DEF Scanning!Cancel, Scanning!scanner
  <2>10. CASE Scanning!Cancelled
    BY <1>0, <2>10, WalkFails DEF Scanning!Cancelled
  <2>11. CASE \E s \in Side, p \in ScanPath, bytes \in ScanContent : Scanning!Rewrite(s, p, bytes)
    <3>1. PICK s \in Side, p \in ScanPath, bytes \in ScanContent : Scanning!Rewrite(s, p, bytes)
      BY <2>11
    <3>2. Shape(trees') = Shape(trees)
      BY <3>1, ShapeStays DEF WalkInv
    <3>3. UNCHANGED <<scanOptions, frames, found, outcome, reading>>
      BY <3>1 DEF Scanning!Rewrite, Scanning!scanner
    <3> QED
      BY <1>0, <3>2, <3>3, WalkRests
  <2>12. CASE Scanning!CannotList
    BY <1>0, <2>12, WalkFails DEF Scanning!CannotList
  <2> QED
    BY <1>1, <2>1, <2>2, <2>3, <2>5, <2>6, <2>7, <2>8, <2>9, <2>10, <2>11, <2>12 DEF ScanStep
<1>2. CASE UNCHANGED scan
  BY <1>0, <1>2, WalkRests DEF scan
<1> QED
  BY <1>1, <1>2, OthersRest DEF NextAll, all

\* A scan that is ready lists every name that is seen once, a directory before what is
\* in it, and sums up each directory by all that is below it, though it reads only the
\* entries that follow; and exactly the trees that are too large or too deep are refused
\* (DirDiffModel.cpp, scanDirectories).
THEOREM ReadyIsComplete == SpecAll => []ScanIsComplete
<1>1. InitAll => WalkInv
  BY WalkInit
<1>2. WalkInv /\ [NextAll]_all => WalkInv'
  BY WalkStays
<1>3. WalkInv => ScanIsComplete
  BY WalkIsComplete
<1> QED
  BY <1>1, <1>2, <1>3, PTL DEF SpecAll

-----------------------------------------------------------------------------
(***************************************************************************)
(* The scans of the directory view.  Whatever is refreshed, swapped or     *)
(* cancelled while scans are under way, for any roots, trees and options:  *)
(* obsolete scans are told to stop, one result is awaited, only scans of   *)
(* what is shown are installed, and the table tells the truth unless a     *)
(* scan was cut short.                                                     *)
(***************************************************************************)

\* A scan is the record that refresh makes, whatever its worker has put in it.
IsScan(s) ==
  /\ s = [generation |-> s.generation, left |-> s.left, right |-> s.right,
          options |-> s.options, cancelled |-> s.cancelled, result |-> s.result]
  /\ s.generation \in Nat

\* The widget holds the token of the newest scan only, so the others have been
\* cancelled when theirs was replaced; and the newest one, cancelled or not, is one of
\* the roots and options shown.
Requests ==
  /\ generation \in Nat
  /\ \A s \in scans : IsScan(s) /\ s.generation <= generation
  /\ \A s \in scans : s.generation # generation => s.cancelled
  /\ ScanningAwaitsOneResult
NewestIsOfShown ==
  \A s \in scans : s.generation = generation =>
    s.options = options /\ s.left = root["left"] /\ s.right = root["right"]
NothingToScan == None \in {root["left"], root["right"]} => scans = {}
RequestInv == Requests /\ NewestIsOfShown /\ NothingToScan

-----------------------------------------------------------------------------
\* Cancelling a scan, and nothing else, is what the mark records.
LEMMA MarkFacts ==
  ASSUME NEW s, IsScan(s), NEW mark
  PROVE  LET u == [s EXCEPT !.cancelled = mark]
         IN /\ IsScan(u) /\ u.generation = s.generation /\ u.options = s.options
            /\ u.left = s.left /\ u.right = s.right /\ u.cancelled = mark
BY DEF IsScan

\* Cancelling the newest scan keeps all there is to say about the scans but its mark.
LEMMA CancelFacts ==
  ASSUME Requests
  PROVE  /\ \A u \in CancelCurrent : \E s \in scans :
              /\ IsScan(u) /\ u.generation = s.generation /\ u.options = s.options
              /\ u.left = s.left /\ u.right = s.right /\ u.cancelled
         /\ \A s \in scans : \E u \in CancelCurrent : u.generation = s.generation
         /\ \A u, v \in CancelCurrent : u.generation = v.generation => u = v
<1>1. ASSUME NEW s \in scans, s.generation = generation
      PROVE  LET u == [s EXCEPT !.cancelled = TRUE]
             IN /\ IsScan(u) /\ u.generation = s.generation /\ u.options = s.options
                /\ u.left = s.left /\ u.right = s.right /\ u.cancelled
  BY <1>1, MarkFacts DEF Requests
<1>2. ASSUME NEW s \in scans, s.generation # generation
      PROVE  IsScan(s) /\ s.cancelled
  BY <1>2 DEF Requests
<1>3. \A u \in CancelCurrent : \E s \in scans :
        /\ IsScan(u) /\ u.generation = s.generation /\ u.options = s.options
        /\ u.left = s.left /\ u.right = s.right /\ u.cancelled
        /\ u = IF s.generation = generation THEN [s EXCEPT !.cancelled = TRUE] ELSE s
  BY <1>1, <1>2 DEF CancelCurrent
<1>4. \A s \in scans : \E u \in CancelCurrent : u.generation = s.generation
  BY <1>1, <1>2 DEF CancelCurrent
<1>5. ASSUME NEW u \in CancelCurrent, NEW v \in CancelCurrent, u.generation = v.generation
      PROVE  u = v
  <2>1. PICK s \in scans : /\ u.generation = s.generation
          /\ u = IF s.generation = generation THEN [s EXCEPT !.cancelled = TRUE] ELSE s
    BY <1>3
  <2>2. PICK t \in scans : /\ v.generation = t.generation
          /\ v = IF t.generation = generation THEN [t EXCEPT !.cancelled = TRUE] ELSE t
    BY <1>3
  <2>3. s = t
    BY <1>5, <2>1, <2>2 DEF Requests, ScanningAwaitsOneResult
  <2> QED BY <2>1, <2>2, <2>3
<1> QED BY <1>3, <1>4, <1>5

\* A refresh for what is shown from now on.
LEMMA RefreshKeeps ==
  ASSUME RequestInv, NEW l, NEW r, NEW o, RefreshFor(l, r, o),
         None \in {l, r} => None \in {root["left"], root["right"]},
         root'["left"] = l, root'["right"] = r, options' = o
  PROVE  RequestInv'
<1>1. CASE None \in {l, r}
  <2>1. scans = {} /\ UNCHANGED <<generation, scanning, scans>>
    BY <1>1 DEF RequestInv, NothingToScan, RefreshFor
  <2> QED BY <2>1 DEF RequestInv, Requests, NewestIsOfShown, NothingToScan, ScanningAwaitsOneResult
<1>2. CASE None \notin {l, r}
  <2> DEFINE new == NewScan(l, r, o)
  <2>1. generation' = generation + 1 /\ scanning' = TRUE /\ scans' = CancelCurrent \union {new}
    BY <1>2 DEF RefreshFor
  <2>2. generation \in Nat
    BY DEF RequestInv, Requests
  <2>3. /\ IsScan(new) /\ new.generation = generation + 1
        /\ new.left = l /\ new.right = r /\ new.options = o
    BY <2>2 DEF NewScan, IsScan
  <2>4. \A u \in CancelCurrent :
          IsScan(u) /\ u.cancelled /\ u.generation \in Nat /\ u.generation <= generation
    BY CancelFacts DEF RequestInv, Requests, IsScan
  <2> HIDE DEF new
  <2>5. \A u \in CancelCurrent : u.generation # generation'
    BY <2>1, <2>2, <2>4
  <2>6. ScanningAwaitsOneResult'
    <3>1. \A s, u \in scans' : s.generation = u.generation => s = u
      BY <2>1, <2>3, <2>5, CancelFacts DEF RequestInv
    <3> QED BY <2>1, <2>3, <3>1 DEF ScanningAwaitsOneResult
  <2>7. Requests'
    BY <2>1, <2>2, <2>3, <2>4, <2>6 DEF Requests
  <2>8. NewestIsOfShown'
    BY <2>1, <2>3, <2>5 DEF NewestIsOfShown
  <2> QED BY <1>2, <2>7, <2>8 DEF RequestInv, NothingToScan
<1> QED BY <1>1, <1>2

\* What neither asks for scans nor receives one changes nothing.
LEMMA UnchangedKeeps ==
  ASSUME RequestInv, UNCHANGED <<root, options, request>>
  PROVE  RequestInv'
BY DEF RequestInv, Requests, NewestIsOfShown, NothingToScan, ScanningAwaitsOneResult, IsScan, request

\* Cancel scan: the newest scan stays the one awaited.
LEMMA CancelKeeps ==
  ASSUME RequestInv, CancelScan
  PROVE  RequestInv'
<1>1. /\ UNCHANGED <<root, options, generation, scanning>> /\ scans' = CancelCurrent
  BY DEF CancelScan, chosen
<1>2. Requests
  BY DEF RequestInv
<1>3. ScanningAwaitsOneResult'
  <2>1. scanning' <=> \E u \in scans' : u.generation = generation'
    BY <1>1, <1>2, CancelFacts DEF Requests, ScanningAwaitsOneResult
  <2>2. ASSUME NEW u \in scans', NEW v \in scans', u.generation = v.generation
        PROVE  u = v
    BY <1>1, <1>2, <2>2, CancelFacts
  <2> QED BY <2>1, <2>2 DEF ScanningAwaitsOneResult
<1>4. Requests'
  BY <1>1, <1>2, <1>3, CancelFacts DEF Requests
<1>5. NewestIsOfShown'
  BY <1>1, <1>2, CancelFacts DEF RequestInv, NewestIsOfShown
<1>6. NothingToScan'
  BY <1>1 DEF RequestInv, NothingToScan, CancelCurrent
<1> QED BY <1>4, <1>5, <1>6 DEF RequestInv

\* A worker ends: its scan is the same one, with a result.
LEMMA WorkerKeeps ==
  ASSUME RequestInv, NEW s \in scans, WorkerEnds(s)
  PROVE  RequestInv'
<1>1. PICK arrived : scans' = (scans \ {s}) \union {[s EXCEPT !.result = arrived]}
  BY DEF WorkerEnds
<1> DEFINE ended == [s EXCEPT !.result = arrived]
<1>2. UNCHANGED <<root, options, generation, scanning>>
  BY DEF WorkerEnds, chosen
<1>3. IsScan(s)
  BY DEF RequestInv, Requests
<1>4. /\ IsScan(ended) /\ ended.generation = s.generation /\ ended.options = s.options
      /\ ended.left = s.left /\ ended.right = s.right /\ ended.cancelled = s.cancelled
  BY <1>3 DEF IsScan
<1>5. scans' = (scans \ {s}) \union {ended}
  BY <1>1
<1> HIDE DEF ended
<1>6. ScanningAwaitsOneResult'
  BY <1>2, <1>4, <1>5 DEF RequestInv, Requests, ScanningAwaitsOneResult
<1>7. Requests'
  BY <1>2, <1>4, <1>5, <1>6 DEF RequestInv, Requests
<1>8. NewestIsOfShown' /\ NothingToScan'
  BY <1>2, <1>4, <1>5 DEF RequestInv, NewestIsOfShown, NothingToScan
<1> QED BY <1>7, <1>8 DEF RequestInv

\* A result is handled: if it is the newest one's, nothing is awaited any more.
LEMMA DeliveryKeeps ==
  ASSUME RequestInv, NEW s \in scans, ScanFinished(s)
  PROVE  RequestInv'
<1>1. UNCHANGED <<root, options, generation>> /\ scans' = scans \ {s}
  BY DEF ScanFinished, chosen
<1>2. ScanningAwaitsOneResult'
  <2>1. CASE s.generation # generation
    <3>1. UNCHANGED scanning
      BY <2>1 DEF ScanFinished, Outdated
    <3> QED BY <1>1, <2>1, <3>1 DEF RequestInv, Requests, ScanningAwaitsOneResult
  <2>2. CASE s.generation = generation
    <3>1. scanning' = FALSE
      BY <2>2 DEF ScanFinished, Outdated
    <3> QED BY <1>1, <2>2, <3>1 DEF RequestInv, Requests, ScanningAwaitsOneResult
  <2> QED BY <2>1, <2>2
<1>3. Requests'
  BY <1>1, <1>2 DEF RequestInv, Requests
<1>4. NewestIsOfShown' /\ NothingToScan'
  BY <1>1 DEF RequestInv, NewestIsOfShown, NothingToScan
<1> QED BY <1>3, <1>4 DEF RequestInv

LEMMA InitRequestInv == Init => RequestInv
BY DEF Init, RequestInv, Requests, NewestIsOfShown, NothingToScan, ScanningAwaitsOneResult

LEMMA NextRequestInv == RequestInv /\ [Next]_vars => RequestInv'
<1> SUFFICES ASSUME RequestInv, [Next]_vars PROVE RequestInv'
  OBVIOUS
<1>1. CASE Refresh
  BY <1>1, RefreshKeeps DEF Refresh, chosen
<1>2. CASE Worker
  BY <1>2, WorkerKeeps DEF Worker
<1>3. CASE Deliver
  BY <1>3, DeliveryKeeps DEF Deliver
<1>4. CASE CancelScan
  BY <1>4, CancelKeeps
<1>5. ASSUME NEW l \in Root, NEW r \in Root, Reload(l, r) PROVE RequestInv'
  <2>1. None \notin {l, r} /\ RefreshFor(l, r, options) /\ options' = options
    BY <1>5, DirViewAssumption DEF Reload
  <2>2. root'["left"] = l /\ root'["right"] = r
    BY <1>5 DEF Reload
  <2> QED BY <2>1, <2>2, RefreshKeeps
<1>6. CASE SwapSides
  <2>1. root'["left"] = root["right"] /\ root'["right"] = root["left"]
    BY <1>6 DEF SwapSides, Swapped, Side, Other
  <2>2. RefreshFor(root["right"], root["left"], options) /\ options' = options
    BY <1>6 DEF SwapSides
  <2> QED BY <2>1, <2>2, RefreshKeeps
<1>7. ASSUME NEW o \in Options, SetOptions(o) PROVE RequestInv'
  BY <1>7, RefreshKeeps DEF SetOptions
<1>8. ASSUME NEW value \in BOOLEAN, SetDifferencesOnly(value) PROVE RequestInv'
  BY <1>8, UnchangedKeeps DEF SetDifferencesOnly, chosen
<1>9. ASSUME NEW s \in Side, NEW value \in BOOLEAN, SetReadOnly(s, value) PROVE RequestInv'
  BY <1>9, UnchangedKeeps DEF SetReadOnly
<1>10. CASE Activate
  BY <1>10, UnchangedKeeps DEF Activate, NavigateInto, MoveTo, chosen
<1>11. CASE NavigateUp
  BY <1>11, UnchangedKeeps DEF NavigateUp, MoveTo, chosen
<1>12. ASSUME NEW s \in Side, Copy(s) \/ Delete(s) PROVE RequestInv'
  <2>1. RefreshFor(root["left"], root["right"], options) /\ UNCHANGED <<root, options>>
    BY <1>12 DEF Copy, Delete, chosen
  <2> QED BY <2>1, RefreshKeeps
<1>13. CASE UNCHANGED vars
  BY <1>13, UnchangedKeeps DEF vars, chosen
<1> QED BY <1>1, <1>2, <1>3, <1>4, <1>5, <1>6, <1>7, <1>8, <1>9, <1>10, <1>11, <1>12, <1>13
        DEF Next

\* The invariant of the requests: which scans are under way and for what.
THEOREM ScansAreOrdered == Spec => []RequestInv
<1> QED BY InitRequestInv, NextRequestInv, PTL DEF Spec

\* A scan that works on roots or options nobody looks at has been told to stop
\* (DirDiffWidget::refresh cancels the token it replaces).
THEOREM ObsoleteScansAreCancelled == Spec => []LiveScanIsCurrent
<1>1. RequestInv => LiveScanIsCurrent
  BY DEF RequestInv, Requests, NewestIsOfShown, LiveScanIsCurrent
<1> QED BY <1>1, ScansAreOrdered, PTL

\* The table is disabled exactly while the newest scan is outstanding.
THEOREM OneResultIsAwaited == Spec => []ScanningAwaitsOneResult
<1>1. RequestInv => ScanningAwaitsOneResult
  BY DEF RequestInv, Requests
<1> QED BY <1>1, ScansAreOrdered, PTL

\* The handler of finished() installs nothing but a scan of what is shown.
THEOREM OnlyCurrentIsInstalled == Spec => InstallsOnlyCurrent
<1>1. ASSUME RequestInv, Next, entries' # entries
      PROVE  \/ entries' = {}
             \/ \E s \in scans : /\ s.result # None /\ s.result.entries = entries'
                                 /\ s.options = options
                                 /\ s.left = root["left"] /\ s.right = root["right"]
  <2>1. CASE Deliver
    <3>1. PICK s \in scans : ScanFinished(s)
      BY <2>1 DEF Deliver
    <3>2. ~Outdated(s) /\ entries' = s.result.entries /\ s.result # None
      BY <1>1, <3>1 DEF ScanFinished, table
    <3>3. s.options = options /\ s.left = root["left"] /\ s.right = root["right"]
      BY <1>1, <3>2 DEF RequestInv, NewestIsOfShown, Outdated
    <3> QED BY <3>2, <3>3
  <2>2. ASSUME ~Deliver PROVE FALSE
    BY <1>1, <2>2 DEF Next, Refresh, Worker, WorkerEnds, CancelScan, Reload, SwapSides,
      SetOptions, SetDifferencesOnly, SetReadOnly, Activate, NavigateInto, MoveTo, NavigateUp,
      Copy, Delete, table
  <2> QED BY <2>1, <2>2
<1>2. RequestInv /\ [Next]_vars =>
      [entries' # entries =>
       \/ entries' = {}
       \/ \E s \in scans : /\ s.result # None /\ s.result.entries = entries'
                           /\ s.options = options
                           /\ s.left = root["left"] /\ s.right = root["right"]]_vars
  BY <1>1
<1> QED BY <1>2, ScansAreOrdered, PTL DEF Spec, InstallsOnlyCurrent

-----------------------------------------------------------------------------
(* What the table shows is true of the disk.                               *)

\* Every path has its directories, in both trees.
TreesAreWellFormed == \A r \in Root : WellFormed(tree[r])

\* A result of the newest scan is what is on disk, or nothing if the scan failed: the
\* disk, the roots and the options change only together with a new scan.
ResultsAreTrue ==
  \A s \in scans :
    s.generation = generation /\ s.result # None /\ s.result.status # "Cancelled" =>
      s.result.entries \in {{}, ScanDirectories(root["left"], root["right"], options)}

ViewInv ==
  /\ TypeOK /\ TreesAreWellFormed /\ ResultsAreTrue
  /\ entries # {} => None \notin {root["left"], root["right"]}
  /\ ShowsTheDisk /\ ListsCurrentDirectory

LEMMA ScanFields ==
  ASSUME NEW s \in Scan
  PROVE  /\ s.left \in Root /\ s.right \in Root /\ s.options \in Options
         /\ s.generation \in Nat /\ s.result \in Result \union {None}
         /\ [s EXCEPT !.cancelled = TRUE] \in Scan
         /\ [s EXCEPT !.cancelled = TRUE].generation = s.generation
         /\ [s EXCEPT !.cancelled = TRUE].result = s.result
         /\ \A arrived \in Result :
              /\ [s EXCEPT !.result = arrived] \in Scan
              /\ [s EXCEPT !.result = arrived].generation = s.generation
              /\ [s EXCEPT !.result = arrived].result = arrived
  BY DEF Scan

LEMMA ScansListEntries ==
  ASSUME TypeOK, NEW l \in Root, NEW r \in Root, NEW o
  PROVE  ScanDirectories(l, r, o) \in SUBSET Entry
<1>1. ASSUME NEW p \in DOMAIN tree[l] \union DOMAIN tree[r]
      PROVE  [path |-> p, left |-> Found(l, p), right |-> Found(r, p), same |-> Equal(l, r, o, p)]
               \in Entry
  <2>1. tree[l] \in Tree /\ tree[r] \in Tree
    BY DEF TypeOK
  <2>2. p \in Path
    BY <2>1 DEF Tree
  <2>3. Found(l, p) \in Root \union {None} /\ Found(r, p) \in Root \union {None}
    BY DEF Found
  <2>4. Equal(l, r, o, p) \in BOOLEAN
    BY DEF Equal
  <2> QED
    BY <2>2, <2>3, <2>4 DEF Entry
<1> QED
  BY <1>1 DEF ScanDirectories

LEMMA CancelledScans ==
  ASSUME scans \in SUBSET Scan
  PROVE  /\ CancelCurrent \in SUBSET Scan
         /\ \A u \in CancelCurrent : \E s \in scans :
              u.generation = s.generation /\ u.result = s.result
<1>1. \A u \in CancelCurrent : \E s \in scans : u = s \/ u = [s EXCEPT !.cancelled = TRUE]
  BY DEF CancelCurrent
<1>2. ASSUME NEW s \in scans
      PROVE  /\ s \in Scan /\ [s EXCEPT !.cancelled = TRUE] \in Scan
             /\ [s EXCEPT !.cancelled = TRUE].generation = s.generation
             /\ [s EXCEPT !.cancelled = TRUE].result = s.result
  BY ScanFields
<1>3. ASSUME NEW u \in CancelCurrent
      PROVE  u \in Scan /\ \E s \in scans : u.generation = s.generation /\ u.result = s.result
  BY <1>1, <1>2
<1> QED
  BY <1>3

\* A refresh, for trees that have changed or not: the table waits for its result.
LEMMA RefreshKeepsView ==
  ASSUME ViewInv, RequestInv, NEW l, NEW r, NEW o \in Options, RefreshFor(l, r, o),
         None \in {l, r} => None \in {root["left"], root["right"]},
         root' \in [Side -> Root \union {None}], root'["left"] = l, root'["right"] = r,
         options' = o, readOnly' \in [Side -> BOOLEAN], relative' \in Dirs \union {Top},
         tree' \in [Root -> Tree], TreesAreWellFormed',
         UNCHANGED <<differencesOnly, table>>
  PROVE  ViewInv'
<1>0. UNCHANGED <<differencesOnly, entries, rows, abandoned>>
  BY DEF table
<1>1. CASE None \in {l, r}
  <2>1. scans = {} /\ UNCHANGED <<generation, scanning, scans>>
    BY <1>1 DEF RequestInv, NothingToScan, RefreshFor
  <2>2. entries = {} /\ rows = {}
    BY <1>1 DEF ViewInv, TypeOK
  <2>3. TypeOK'
    BY <1>0, <2>1 DEF ViewInv, TypeOK
  <2> QED
    BY <1>0, <2>1, <2>2, <2>3 DEF ViewInv, ResultsAreTrue, ShowsTheDisk, ListsCurrentDirectory, Listing
<1>2. CASE None \notin {l, r}
  <2> DEFINE new == NewScan(l, r, o)
  <2>1. generation' = generation + 1 /\ scanning' = TRUE /\ scans' = CancelCurrent \union {new}
    BY <1>2 DEF RefreshFor
  <2>2. generation \in Nat /\ l \in Root /\ r \in Root
    BY <1>2 DEF ViewInv, TypeOK, Side
  <2>3. new \in Scan /\ new.result = None
    BY <2>2 DEF NewScan, Scan
  <2> HIDE DEF new
  <2>4. CancelCurrent \in SUBSET Scan /\ \A u \in CancelCurrent : u.generation <= generation
    BY CancelledScans DEF ViewInv, TypeOK, RequestInv, Requests
  <2>5. \A u \in CancelCurrent : u.generation # generation'
    BY <2>1, <2>2, <2>4, ScanFields
  <2>6. TypeOK'
    BY <1>0, <2>1, <2>2, <2>3, <2>4 DEF ViewInv, TypeOK
  <2>7. ResultsAreTrue'
    BY <2>1, <2>3, <2>5 DEF ResultsAreTrue
  <2> QED
    BY <1>0, <1>2, <2>1, <2>6, <2>7 DEF ViewInv, ShowsTheDisk, ListsCurrentDirectory, Settled
<1> QED
  BY <1>1, <1>2

LEMMA WorkerKeepsView ==
  ASSUME ViewInv, RequestInv, NEW s \in scans, WorkerEnds(s)
  PROVE  ViewInv'
<1>1. /\ UNCHANGED <<root, readOnly, options, differencesOnly, entries, rows, abandoned, relative,
                     generation, scanning, tree>>
      /\ s \in Scan
  BY DEF WorkerEnds, chosen, table, ViewInv, TypeOK
<1>2. PICK arrived :
        /\ scans' = (scans \ {s}) \union {[s EXCEPT !.result = arrived]}
        /\ \/ arrived = [status |-> "Cancelled", entries |-> {}]
           \/ arrived = [status |-> "Failed", entries |-> {}]
           \/ arrived = [status |-> "Ready", entries |-> ScanDirectories(s.left, s.right, s.options)]
  BY DEF WorkerEnds
<1>3. /\ arrived \in Result
      /\ arrived.entries \in {{}, ScanDirectories(s.left, s.right, s.options)}
  <2>1. ScanDirectories(s.left, s.right, s.options) \in SUBSET Entry
    BY <1>1, ScanFields, ScansListEntries DEF ViewInv
  <2> QED
    BY <1>2, <2>1 DEF Result
<1> DEFINE ended == [s EXCEPT !.result = arrived]
<1>4. ended \in Scan /\ ended.generation = s.generation /\ ended.result = arrived
  BY <1>1, <1>3, ScanFields
<1>5. scans' = (scans \ {s}) \union {ended}
  BY <1>2
<1> HIDE DEF ended
<1>6. s.generation = generation =>
        s.options = options /\ s.left = root["left"] /\ s.right = root["right"]
  BY DEF RequestInv, NewestIsOfShown
<1>7. ResultsAreTrue'
  <2>1. SUFFICES ASSUME NEW u \in scans', u.generation = generation, u.result # None,
                        u.result.status # "Cancelled"
                 PROVE  u.result.entries \in {{}, ScanDirectories(root["left"], root["right"], options)}
    BY <1>1 DEF ResultsAreTrue, ScanDirectories, Found, Equal
  <2>2. CASE u = ended
    BY <1>3, <1>4, <1>6, <2>1, <2>2
  <2>3. CASE u \in scans
    BY <2>1, <2>3 DEF ViewInv, ResultsAreTrue
  <2> QED
    BY <1>5, <2>1, <2>2, <2>3
<1>8. TypeOK'
  BY <1>1, <1>4, <1>5 DEF ViewInv, TypeOK
<1> QED
  BY <1>1, <1>7, <1>8 DEF ViewInv, TreesAreWellFormed, ShowsTheDisk, ListsCurrentDirectory, Settled,
                          ScanDirectories, Found, Equal

LEMMA DeliverKeepsView ==
  ASSUME ViewInv, RequestInv, NEW s \in scans, ScanFinished(s)
  PROVE  ViewInv'
<1>1. /\ UNCHANGED <<root, readOnly, options, differencesOnly, relative, generation, tree>>
      /\ scans' = scans \ {s} /\ s.result # None /\ s \in Scan
  BY DEF ScanFinished, chosen, ViewInv, TypeOK
<1>2. s.result \in Result
  BY <1>1, ScanFields
<1>3. s.result.entries \in SUBSET Entry
  BY <1>2 DEF Result
<1>4. TreesAreWellFormed' /\ ResultsAreTrue'
  BY <1>1 DEF ViewInv, TreesAreWellFormed, ResultsAreTrue, ScanDirectories, Found, Equal
<1>5. CASE Outdated(s)
  <2>1. UNCHANGED <<entries, rows, abandoned, scanning>>
    BY <1>5 DEF ScanFinished, table
  <2>2. TypeOK'
    BY <1>1, <2>1 DEF ViewInv, TypeOK
  <2> QED
    BY <1>1, <1>4, <2>1, <2>2 DEF ViewInv, ShowsTheDisk, ListsCurrentDirectory, Settled,
                                  ScanDirectories, Found, Equal
<1>6. CASE ~Outdated(s) /\ s.result.status = "Cancelled"
  <2>1. UNCHANGED <<entries, rows>> /\ abandoned' = TRUE /\ scanning' = FALSE
    BY <1>6 DEF ScanFinished
  <2>2. TypeOK'
    BY <1>1, <2>1 DEF ViewInv, TypeOK
  <2> QED
    BY <1>1, <1>4, <2>1, <2>2 DEF ViewInv, ShowsTheDisk, ListsCurrentDirectory, Settled
<1>7. CASE ~Outdated(s) /\ s.result.status # "Cancelled"
  <2>1. /\ entries' = s.result.entries /\ scanning' = FALSE /\ abandoned' = FALSE
        /\ rows' = Populated(entries', relative, differencesOnly)
    BY <1>7 DEF ScanFinished
  <2>2. /\ s.generation = generation /\ s.left = root["left"] /\ s.right = root["right"]
        /\ s.left \in Root /\ s.right \in Root
    BY <1>1, <1>7, ScanFields DEF Outdated, RequestInv, NewestIsOfShown
  <2>3. entries' \in {{}, ScanDirectories(root["left"], root["right"], options)}
    BY <1>1, <1>7, <2>1, <2>2 DEF ViewInv, ResultsAreTrue
  <2>4. ShowsTheDisk'
    BY <1>1, <2>3 DEF ShowsTheDisk, ScanDirectories, Found, Equal
  <2>5. TypeOK'
    BY <1>1, <1>3, <2>1 DEF ViewInv, TypeOK, Populated, Listing
  <2>6. None \notin {root'["left"], root'["right"]}
    BY <1>1, <2>2, DirViewAssumption
  <2> QED
    BY <1>1, <1>4, <2>1, <2>4, <2>5, <2>6 DEF ViewInv, ListsCurrentDirectory, Populated
<1> QED
  BY <1>5, <1>6, <1>7

LEMMA CancelKeepsView ==
  ASSUME ViewInv, RequestInv, CancelScan
  PROVE  ViewInv'
<1>1. /\ UNCHANGED <<root, readOnly, options, differencesOnly, entries, rows, abandoned, relative,
                     generation, scanning, tree>>
      /\ scans' = CancelCurrent /\ scanning
  BY DEF CancelScan, chosen, table
<1>2. /\ scans' \in SUBSET Scan
      /\ \A u \in scans' : \E s \in scans : u.generation = s.generation /\ u.result = s.result
  BY <1>1, CancelledScans DEF ViewInv, TypeOK
<1>3. ResultsAreTrue'
  BY <1>1, <1>2 DEF ViewInv, ResultsAreTrue, ScanDirectories, Found, Equal
<1>4. TypeOK'
  BY <1>1, <1>2 DEF ViewInv, TypeOK
<1> QED
  BY <1>1, <1>3, <1>4 DEF ViewInv, TreesAreWellFormed, ShowsTheDisk, ListsCurrentDirectory, Settled

\* Navigating and filtering list what there is anew.
LEMMA ListingKeepsView ==
  ASSUME ViewInv, relative' \in Dirs \union {Top}, differencesOnly' \in BOOLEAN,
         readOnly' \in [Side -> BOOLEAN],
         rows' = Populated(entries, relative', differencesOnly') \/
           (UNCHANGED <<rows, relative, differencesOnly>>),
         UNCHANGED <<root, options, entries, abandoned, request, tree>>
  PROVE  ViewInv'
<1>1. UNCHANGED <<generation, scanning, scans>>
  BY DEF request
<1>2. rows' \in SUBSET entries
  BY DEF ViewInv, TypeOK, Populated, Listing
<1>3. TypeOK'
  BY <1>1, <1>2 DEF ViewInv, TypeOK
<1>4. ShowsTheDisk' /\ ResultsAreTrue' /\ TreesAreWellFormed'
  BY <1>1, SMTT(30) DEF ViewInv, ShowsTheDisk, Settled, ResultsAreTrue, TreesAreWellFormed, ScanDirectories,
              Found, Equal
<1>5. ListsCurrentDirectory'
  BY <1>1 DEF ViewInv, ListsCurrentDirectory, Settled, Populated, Listing
<1> QED
  BY <1>3, <1>4, <1>5 DEF ViewInv

-----------------------------------------------------------------------------
(* What the host's copies and deletions leave.                             *)

LEMMA AboveIsPrefixes ==
  ASSUME NEW S, NEW q
  PROVE  q \in Above(S) <=> \E p \in S : \E k \in 1..Len(p) : q = SubSeq(p, 1, k)
  BY DEF Above

LEMMA PrefixOfPrefix ==
  ASSUME NEW p \in Seq(STRING), NEW k \in 1..Len(p), NEW j \in 1..k
  PROVE  /\ SubSeq(p, 1, k) \in Seq(STRING) /\ Len(SubSeq(p, 1, k)) = k
         /\ SubSeq(SubSeq(p, 1, k), 1, j) = SubSeq(p, 1, j)
  OBVIOUS

LEMMA AboveIsClosed ==
  ASSUME NEW S \in SUBSET Path, NEW q \in Above(S), NEW r \in Above({q})
  PROVE  r \in Above(S)
<1>1. PICK p \in S : \E k \in 1..Len(p) : q = SubSeq(p, 1, k)
  BY AboveIsPrefixes
<1>2. PICK k \in 1..Len(p) : q = SubSeq(p, 1, k)
  BY <1>1
<1>3. p \in Seq(STRING) /\ Len(p) \in Nat
  BY DirViewAssumption
<1>4. Len(q) = k
  BY <1>2, <1>3, PrefixOfPrefix
<1>5. PICK j \in 1..k : r = SubSeq(q, 1, j)
  BY <1>4, AboveIsPrefixes
<1>6. r = SubSeq(p, 1, j) /\ j \in 1..Len(p)
  BY <1>2, <1>3, <1>5, PrefixOfPrefix
<1> QED
  BY <1>6, AboveIsPrefixes

\* A copy of some of the entries of a tree, with their directories.
LEMMA CopiedTree ==
  ASSUME NEW t \in Tree, NEW u \in Tree, WellFormed(t), WellFormed(u),
         NEW done \in SUBSET DOMAIN u
  PROVE  LET v == [p \in DOMAIN t \union Above(done) |-> IF p \in Above(done) THEN u[p] ELSE t[p]]
         IN v \in Tree /\ WellFormed(v)
<1> DEFINE v == [p \in DOMAIN t \union Above(done) |-> IF p \in Above(done) THEN u[p] ELSE t[p]]
<1>1. /\ DOMAIN t \in SUBSET Path /\ DOMAIN u \in SUBSET Path
      /\ \A p \in DOMAIN t : t[p] \in Content \union {"directory"}
      /\ \A p \in DOMAIN u : u[p] \in Content \union {"directory"}
  BY DEF Tree
<1>2. Above(done) \subseteq DOMAIN u
  <2>1. SUFFICES ASSUME NEW q \in Above(done)
                 PROVE  q \in DOMAIN u
    OBVIOUS
  <2>2. PICK p \in done : \E k \in 1..Len(p) : q = SubSeq(p, 1, k)
    BY AboveIsPrefixes
  <2>3. q \in Above({p})
    BY <2>2, AboveIsPrefixes
  <2> QED
    BY <2>3 DEF WellFormed
<1>3. v \in Tree
  <2>1. DOMAIN t \union Above(done) \in SUBSET Path
    BY <1>1, <1>2
  <2>2. v \in [DOMAIN t \union Above(done) -> Content \union {"directory"}]
    BY <1>1, <1>2
  <2> QED
    BY <2>1, <2>2 DEF Tree
<1>4. DOMAIN v = DOMAIN t \union Above(done)
  OBVIOUS
<1>5. ASSUME NEW p \in DOMAIN v
      PROVE  Above({p}) \subseteq DOMAIN v /\ (p \in Dirs <=> v[p] = "directory")
  <2>1. CASE p \in Above(done)
    <3>1. Above({p}) \subseteq Above(done)
      BY <1>1, <2>1, AboveIsClosed
    <3>2. p \in DOMAIN u /\ v[p] = u[p]
      BY <1>2, <2>1
    <3> QED
      BY <1>4, <3>1, <3>2 DEF WellFormed
  <2>2. CASE p \notin Above(done)
    <3>1. p \in DOMAIN t /\ v[p] = t[p]
      BY <1>4, <2>2
    <3> QED
      BY <1>4, <3>1 DEF WellFormed
  <2> QED
    BY <2>1, <2>2
<1>6. WellFormed(v)
  BY <1>5 DEF WellFormed
<1> QED
  BY <1>3, <1>6

\* A deletion takes all that is below.
LEMMA DeletedTree ==
  ASSUME NEW t \in Tree, WellFormed(t), NEW done \in SUBSET Entry
  PROVE  LET v == [p \in DOMAIN t \ Chosen(done) |-> t[p]]
         IN v \in Tree /\ WellFormed(v)
<1> DEFINE v == [p \in DOMAIN t \ Chosen(done) |-> t[p]]
<1>1. /\ DOMAIN t \in SUBSET Path
      /\ \A p \in DOMAIN t : t[p] \in Content \union {"directory"}
  BY DEF Tree
<1>2. v \in Tree
  <2>1. DOMAIN t \ Chosen(done) \in SUBSET Path
    BY <1>1
  <2>2. v \in [DOMAIN t \ Chosen(done) -> Content \union {"directory"}]
    BY <1>1
  <2> QED
    BY <2>1, <2>2 DEF Tree
<1>3. ASSUME NEW p \in DOMAIN v, NEW q \in Above({p})
      PROVE  q \in DOMAIN v
  <2>1. p \in DOMAIN t /\ p \notin Chosen(done) /\ p \in Path /\ q \in DOMAIN t /\ q \in Path
    BY <1>1 DEF WellFormed
  <2>2. PICK k \in 1..Len(p) : q = SubSeq(p, 1, k)
    BY AboveIsPrefixes
  <2>3. p \in Seq(STRING) /\ Len(p) \in Nat
    BY <2>1, DirViewAssumption
  <2>4. ASSUME NEW e \in done, Below(e.path, q)
        PROVE  FALSE
    <3>1. e.path \in Path
      BY DEF Entry
    <3>2. PICK n \in Nat : n = Len(e.path) /\ n >= 1
      <4>1. e.path \in Seq(STRING) /\ e.path # <<>>
        BY <3>1, DirViewAssumption DEF Top
      <4>2. Len(e.path) \in Nat /\ Len(e.path) >= 1
        BY ONLY <4>1
      <4> QED
        BY <4>2
    <3>3. Len(q) = k
      BY <2>2, <2>3, PrefixOfPrefix
    <3>4. n \in 1..k /\ SubSeq(q, 1, n) = e.path
      BY <2>4, <3>2, <3>3 DEF Below
    <3>5. SubSeq(p, 1, n) = e.path /\ n <= Len(p)
      BY <2>2, <2>3, <3>4, PrefixOfPrefix
    <3>6. Below(e.path, p)
      BY <3>2, <3>5 DEF Below
    <3> QED
      BY <2>1, <3>6 DEF Chosen
  <2>5. q \notin Chosen(done)
    BY <2>4 DEF Chosen
  <2> QED
    BY <2>1, <2>5
<1>4. \A p \in DOMAIN v : p \in Dirs <=> v[p] = "directory"
  BY DEF WellFormed
<1>5. WellFormed(v)
  BY <1>3, <1>4 DEF WellFormed
<1> QED
  BY <1>2, <1>5

LEMMA CopyKeepsView ==
  ASSUME ViewInv, RequestInv, NEW s \in Side, Copy(s)
  PROVE  ViewInv'
<1> DEFINE from == root[s]
           to == root[Other(s)]
<1>1. PICK selected \in SUBSET rows :
        /\ CanCopyFrom(selected, s)
        /\ \E done \in SUBSET (Chosen(selected) \cap DOMAIN tree[from]) :
             tree' = [tree EXCEPT ![to] =
               [p \in DOMAIN @ \union Above(done) |-> IF p \in Above(done) THEN tree[from][p] ELSE @[p]]]
        /\ RefreshFor(root["left"], root["right"], options)
        /\ UNCHANGED <<chosen, differencesOnly, table, relative>>
  BY DEF Copy
<1>2. entries # {}
  BY <1>1 DEF CanCopyFrom, HasSide, ViewInv, TypeOK
<1>3. from \in Root /\ to \in Root
  BY <1>2 DEF ViewInv, TypeOK, Side, Other
<1>4. PICK done \in SUBSET DOMAIN tree[from] :
        tree' = [tree EXCEPT ![to] =
          [p \in DOMAIN tree[to] \union Above(done) |->
             IF p \in Above(done) THEN tree[from][p] ELSE tree[to][p]]]
  BY <1>1, <1>3 DEF ViewInv, TypeOK
<1>5. /\ tree[from] \in Tree /\ tree[to] \in Tree /\ WellFormed(tree[from]) /\ WellFormed(tree[to])
      /\ tree \in [Root -> Tree]
  BY <1>3 DEF ViewInv, TypeOK, TreesAreWellFormed
<1> DEFINE v == [p \in DOMAIN tree[to] \union Above(done) |->
                   IF p \in Above(done) THEN tree[from][p] ELSE tree[to][p]]
<1>6. v \in Tree /\ WellFormed(v)
  BY <1>5, CopiedTree
<1>7. tree' = [tree EXCEPT ![to] = v]
  BY <1>4
<1> HIDE DEF v
<1>8. tree' \in [Root -> Tree] /\ TreesAreWellFormed'
  BY <1>3, <1>5, <1>6, <1>7 DEF ViewInv, TreesAreWellFormed
<1>9. /\ UNCHANGED <<root, readOnly, options, relative>> /\ UNCHANGED <<differencesOnly, table>>
  BY <1>1 DEF chosen
<1> QED
  BY <1>1, <1>8, <1>9, RefreshKeepsView DEF ViewInv, TypeOK

LEMMA DeleteKeepsView ==
  ASSUME ViewInv, RequestInv, NEW s \in Side, Delete(s)
  PROVE  ViewInv'
<1> DEFINE at == root[s]
<1>1. PICK selected \in SUBSET rows :
        /\ CanDelete(selected, s)
        /\ \E done \in SUBSET selected :
             tree' = [tree EXCEPT ![at] = [p \in DOMAIN @ \ Chosen(done) |-> @[p]]]
        /\ RefreshFor(root["left"], root["right"], options)
        /\ UNCHANGED <<chosen, differencesOnly, table, relative>>
  BY DEF Delete
<1>2. entries # {}
  BY <1>1 DEF CanDelete, HasSide, ViewInv, TypeOK
<1>3. at \in Root
  BY <1>2 DEF ViewInv, TypeOK, Side
<1>4. PICK done \in SUBSET Entry :
        tree' = [tree EXCEPT ![at] = [p \in DOMAIN tree[at] \ Chosen(done) |-> tree[at][p]]]
  BY <1>1, <1>3 DEF ViewInv, TypeOK
<1>5. tree[at] \in Tree /\ WellFormed(tree[at]) /\ tree \in [Root -> Tree]
  BY <1>3 DEF ViewInv, TypeOK, TreesAreWellFormed
<1> DEFINE v == [p \in DOMAIN tree[at] \ Chosen(done) |-> tree[at][p]]
<1>6. v \in Tree /\ WellFormed(v)
  BY <1>5, DeletedTree
<1>7. tree' = [tree EXCEPT ![at] = v]
  BY <1>4
<1> HIDE DEF v
<1>8. tree' \in [Root -> Tree] /\ TreesAreWellFormed'
  BY <1>3, <1>5, <1>6, <1>7 DEF ViewInv, TreesAreWellFormed
<1>9. /\ UNCHANGED <<root, readOnly, options, relative>> /\ UNCHANGED <<differencesOnly, table>>
  BY <1>1 DEF chosen
<1> QED
  BY <1>1, <1>8, <1>9, RefreshKeepsView DEF ViewInv, TypeOK

LEMMA InitHasViewInv == Init => ViewInv
<1> SUFFICES ASSUME Init
             PROVE  ViewInv
  OBVIOUS
<1>1. TypeOK
  BY DirViewAssumption DEF Init, TypeOK
<1>2. TreesAreWellFormed
  BY DirViewAssumption DEF Init, TreesAreWellFormed
<1> QED
  BY <1>1, <1>2 DEF Init, ViewInv, ResultsAreTrue, ShowsTheDisk, ListsCurrentDirectory, Listing

LEMMA NextKeepsView ==
  ASSUME ViewInv, RequestInv, [Next]_vars
  PROVE  ViewInv'
<1>0. /\ root["left"] \in Root \union {None} /\ root["right"] \in Root \union {None}
      /\ root \in [Side -> Root \union {None}] /\ readOnly \in [Side -> BOOLEAN]
      /\ options \in Options /\ differencesOnly \in BOOLEAN /\ relative \in Dirs \union {Top}
      /\ tree \in [Root -> Tree] /\ TreesAreWellFormed
  BY DEF ViewInv, TypeOK, Side
<1>1. CASE Refresh
  BY <1>0, <1>1, RefreshKeepsView DEF Refresh, chosen, table, TreesAreWellFormed
<1>2. CASE Worker
  BY <1>2, WorkerKeepsView DEF Worker
<1>3. CASE Deliver
  BY <1>3, DeliverKeepsView DEF Deliver
<1>4. CASE CancelScan
  BY <1>4, CancelKeepsView
<1>5. ASSUME NEW l \in Root, NEW r \in Root, Reload(l, r) PROVE ViewInv'
  <2>1. None \notin {l, r} /\ RefreshFor(l, r, options)
    BY <1>5, DirViewAssumption DEF Reload
  <2>2. /\ root'["left"] = l /\ root'["right"] = r /\ root' \in [Side -> Root \union {None}]
        /\ relative' = Top
        /\ UNCHANGED <<readOnly, options, differencesOnly, tree>> /\ UNCHANGED <<differencesOnly, table>>
    BY <1>5 DEF Reload, Side
  <2> QED BY <1>0, <2>1, <2>2, RefreshKeepsView DEF TreesAreWellFormed
<1>6. CASE SwapSides
  <2>1. /\ root'["left"] = root["right"] /\ root'["right"] = root["left"]
        /\ root' \in [Side -> Root \union {None}] /\ readOnly' \in [Side -> BOOLEAN]
    BY <1>0, <1>6 DEF SwapSides, Swapped, Side, Other
  <2>2. /\ RefreshFor(root["right"], root["left"], options)
        /\ UNCHANGED <<options, relative, tree>> /\ UNCHANGED <<differencesOnly, table>>
    BY <1>6 DEF SwapSides
  <2> QED BY <1>0, <2>1, <2>2, RefreshKeepsView DEF TreesAreWellFormed
<1>7. ASSUME NEW o \in Options, SetOptions(o) PROVE ViewInv'
  BY <1>0, <1>7, RefreshKeepsView DEF SetOptions, table, TreesAreWellFormed
<1>8. ASSUME NEW value \in BOOLEAN, SetDifferencesOnly(value) PROVE ViewInv'
  BY <1>0, <1>8, ListingKeepsView DEF SetDifferencesOnly, chosen
<1>9. ASSUME NEW s \in Side, NEW value \in BOOLEAN, SetReadOnly(s, value) PROVE ViewInv'
  BY <1>0, <1>9, ListingKeepsView DEF SetReadOnly, table
<1>10. CASE Activate
  BY <1>0, <1>10, ListingKeepsView DEF Activate, NavigateInto, MoveTo, chosen
<1>11. CASE NavigateUp
  <2>1. Parent(relative) \in Dirs \union {Top}
    BY <1>0, <1>11, DirViewAssumption DEF NavigateUp
  <2> QED BY <1>0, <1>11, <2>1, ListingKeepsView DEF NavigateUp, MoveTo, chosen
<1>12. ASSUME NEW s \in Side, Copy(s) \/ Delete(s) PROVE ViewInv'
  BY <1>12, CopyKeepsView, DeleteKeepsView
<1>13. CASE UNCHANGED vars
  BY <1>0, <1>13, ListingKeepsView DEF vars, chosen, table
<1> QED BY <1>1, <1>2, <1>3, <1>4, <1>5, <1>6, <1>7, <1>8, <1>9, <1>10, <1>11, <1>12, <1>13
        DEF Next

LEMMA ShownIsOffered ==
  ASSUME ViewInv
  PROVE  OffersWhatIsThere
<1>1. SUFFICES ASSUME ~abandoned, NEW e \in rows, NEW s \in Side,
                      CanCopyFrom({e}, s) \/ CanDelete({e}, s)
               PROVE  e.path \in DOMAIN tree[root[s]]
  BY DEF OffersWhatIsThere
<1>2. ~scanning /\ e[s] # None /\ e \in entries
  BY <1>1 DEF CanCopyFrom, CanDelete, HasSide, ViewInv, TypeOK
<1>3. e \in ScanDirectories(root["left"], root["right"], options)
  BY <1>1, <1>2 DEF ViewInv, ShowsTheDisk, Settled
<1>4. e.left = Found(root["left"], e.path) /\ e.right = Found(root["right"], e.path)
  BY <1>3 DEF ScanDirectories
<1> QED
  BY <1>2, <1>4 DEF Found, Side

\* What is shown, listed and offered while the table can be acted on is true of the
\* disk, although the disk, the roots, the options and the directory change while scans
\* are under way (DirDiffWidget::refresh and its handler of finished, populate,
\* updateActions).
THEOREM TableTellsTheTruth == Spec => []TableIsTrue
<1>1. ViewInv => TableIsTrue
  BY ShownIsOffered DEF ViewInv, TableIsTrue
<1> QED BY <1>1, InitHasViewInv, NextKeepsView, ScansAreOrdered, PTL DEF Spec
=============================================================================
