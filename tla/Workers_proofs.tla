---------------------------- MODULE Workers_proofs ----------------------------
(***************************************************************************)
(* Work that ends late, cancelled or failed installs nothing stale, and    *)
(* saves replace nothing unseen.                                           *)
(***************************************************************************)
EXTENDS Workers, FiniteSetTheorems, SequenceTheorems, WellFoundedInduction, TLAPS

-----------------------------------------------------------------------------
(* A step of one part is none of the others.                               *)

LEMMA OthersRest ==
  /\ ViewStep => UNCHANGED <<saving, syntax, presentation, scan, resolver>>
  /\ SaveStep => UNCHANGED <<vars, syntax, presentation, scan, resolver>>
  /\ SyntaxStep => UNCHANGED <<vars, saving, presentation, scan, resolver>>
  /\ PresentStep => UNCHANGED <<vars, saving, syntax, scan, resolver>>
  /\ ScanStep => UNCHANGED <<vars, saving, syntax, presentation, resolver>>
  /\ ResolveStep => UNCHANGED <<vars, saving, syntax, presentation, scan>>
<1>1. ViewStep => UNCHANGED <<saving, syntax, presentation, scan, resolver>>
  BY DEF ViewStep, Views
<1>2. SaveStep => UNCHANGED <<vars, syntax, presentation, scan, resolver>>
  BY DEF SaveStep, Saves
<1>3. SyntaxStep => UNCHANGED <<vars, saving, presentation, scan, resolver>>
  BY DEF SyntaxStep, Syntaxes
<1>4. PresentStep => UNCHANGED <<vars, saving, syntax, scan, resolver>>
  BY DEF PresentStep, Presents
<1>5. ScanStep => UNCHANGED <<vars, saving, syntax, presentation, resolver>>
  BY DEF ScanStep, Scans
<1>6. ResolveStep => UNCHANGED <<vars, saving, syntax, presentation, scan>>
  BY DEF ResolveStep, Resolves
<1> QED
  BY <1>1, <1>2, <1>3, <1>4, <1>5, <1>6

LEMMA PresentingSteps == [NextAll]_all => [Presenting!Next]_(Presenting!vars)
<1>1. PresentStep => Presenting!Next
  BY DEF PresentStep, Presents, Presenting!Next
<1>2. UNCHANGED all => UNCHANGED presentation
  BY DEF all
<1>3. UNCHANGED presentation => UNCHANGED Presenting!vars
  BY DEF presentation, Presenting!vars, Presenting!inputs, Presenting!worker, Presenting!shown
<1> QED
  BY OthersRest, <1>1, <1>2, <1>3 DEF NextAll

LEMMA SyntaxSteps == [NextAll]_all => [Syntax!Next]_(Syntax!vars)
<1>1. SyntaxStep => Syntax!Next
  BY DEF SyntaxStep, Syntaxes, Syntax!Next
<1>2. UNCHANGED all => UNCHANGED syntax
  BY DEF all
<1>3. UNCHANGED syntax => UNCHANGED Syntax!vars
  BY DEF syntax, Syntax!vars
<1> QED
  BY OthersRest, <1>1, <1>2, <1>3 DEF NextAll

LEMMA SavingSteps == [NextAll]_all => [Saving!Next]_(Saving!vars)
<1>1. Saves /\ Saving!StartSave("Draft", FALSE) => Saving!Next
  BY DEF Saving!Next, Saving!Disposition
<1>2. \A closeAfter \in BOOLEAN : Saves /\ Saving!StartSave("Resolved", closeAfter) => Saving!Next
  BY DEF Saving!Next, Saving!Disposition
<1>3. SaveStep => Saving!Next
  BY <1>1, <1>2 DEF SaveStep, Saves, Saving!Next, Saving!Worker
<1>4. UNCHANGED all => UNCHANGED saving
  BY DEF all
<1>5. UNCHANGED saving => UNCHANGED Saving!vars
  BY DEF saving, Saving!vars, Saving!file, Saving!widget, Saving!worker, Saving!dialog
<1> QED
  BY OthersRest, <1>3, <1>4, <1>5 DEF NextAll

LEMMA ScanningSteps == [NextAll]_all => [Scanning!Next]_(Scanning!vars)
<1>1. Side = Scanning!Side
  BY DEF Side, Scanning!Side
<1>2. ScanStep => Scanning!Next
  BY <1>1 DEF ScanStep, Scans, Scanning!Next
<1>3. UNCHANGED all => UNCHANGED scan
  BY DEF all
<1>4. UNCHANGED scan => UNCHANGED Scanning!vars
  BY DEF scan, Scanning!vars, Scanning!scanner, Scanning!environment
<1> QED
  BY OthersRest, <1>2, <1>3, <1>4 DEF NextAll

LEMMA ResolvingSteps == [NextAll]_all => [Resolving!Next]_(Resolving!vars)
<1>1. ResolveStep => Resolving!Next
  BY DEF ResolveStep, Resolves, Resolving!Next
<1>2. UNCHANGED all => UNCHANGED resolver
  BY DEF all
<1>3. UNCHANGED resolver => UNCHANGED Resolving!vars
  BY DEF resolver, Resolving!vars, Resolving!session, Resolving!analysis, Resolving!outside
<1> QED
  BY OthersRest, <1>1, <1>2, <1>3 DEF NextAll

-----------------------------------------------------------------------------
(* The presentation of a merge.                                            *)

\* A batch of the newest revision is of the texts shown, and nobody has cancelled it.
BatchIsKnown ==
  comparing =>
    /\ batch.revision \in Nat /\ batch.revision <= revision
    /\ batch.revision = revision => batch.of = Presenting!Input /\ ~stop
    /\ batch.outcome \in {"nothing", "compared", "failed", "cancelled"}
    /\ batch.outcome = "cancelled" => batch.revision # revision
PresentInv ==
  /\ revision \in Nat /\ mode \in Presenting!Mode
  /\ BatchIsKnown /\ Presenting!ShowsCurrentTexts

LEMMA PresentInit == InitAll => PresentInv
  BY DEF InitAll, Presenting!Init, PresentInv, BatchIsKnown, Presenting!ShowsCurrentTexts,
         Presenting!Mode, Presenting!Decorated, Presenting!NoMarks

\* Every request withdraws what is shown and makes the batch under way obsolete.
LEMMA RequestShows ==
  ASSUME PresentInv, Presenting!Request, mode' \in Presenting!Mode, UNCHANGED Presenting!worker
  PROVE  PresentInv'
<1>1. revision' \in Nat /\ revision' = revision + 1
  BY DEF PresentInv, Presenting!Request
<1>2. BatchIsKnown'
  BY <1>1 DEF PresentInv, BatchIsKnown, Presenting!worker
<1>3. Presenting!ShowsCurrentTexts'
  BY DEF Presenting!Request, Presenting!ShowsCurrentTexts
<1> QED
  BY <1>1, <1>2, <1>3 DEF PresentInv

LEMMA PresentStays == PresentInv /\ [Presenting!Next]_(Presenting!vars) => PresentInv'
<1> SUFFICES ASSUME PresentInv, [Presenting!Next]_(Presenting!vars) PROVE PresentInv'
  OBVIOUS
<1> USE DEF Presenting!inputs, Presenting!worker, Presenting!shown
<1>1. CASE Presenting!Change
  BY <1>1, RequestShows DEF Presenting!Change, PresentInv
<1>2. CASE Presenting!SetViewMode
  BY <1>2, RequestShows DEF Presenting!SetViewMode, PresentInv
<1>3. CASE Presenting!SetBaseVisible
  BY <1>3, RequestShows DEF Presenting!SetBaseVisible, PresentInv
<1>4. CASE Presenting!ConflictStatesChanged
  BY <1>4 DEF Presenting!ConflictStatesChanged, PresentInv, BatchIsKnown, Presenting!Input,
              Presenting!ShowsCurrentTexts, Presenting!Decorated, Presenting!Mode
<1>5. CASE Presenting!StartUpdate
  BY <1>5 DEF Presenting!StartUpdate, PresentInv, BatchIsKnown, Presenting!Input,
              Presenting!ShowsCurrentTexts
<1>6. CASE Presenting!Work
  BY <1>6 DEF Presenting!Work, PresentInv, BatchIsKnown, Presenting!Input,
              Presenting!ShowsCurrentTexts
<1>7. CASE Presenting!Finished
  <2>1. CASE Presenting!Outdated
    BY <1>7, <2>1 DEF Presenting!Finished, PresentInv, BatchIsKnown, Presenting!Input,
                      Presenting!ShowsCurrentTexts
  <2>2. CASE ~Presenting!Outdated
    <3>1. batch.of = Presenting!Input /\ batch.outcome \in {"compared", "failed"}
      BY <1>7, <2>2 DEF Presenting!Finished, Presenting!Outdated, PresentInv, BatchIsKnown
    <3>2. Presenting!Input' = Presenting!Input /\ BatchIsKnown'
      BY <1>7 DEF Presenting!Finished, Presenting!Input, BatchIsKnown
    <3>3. Presenting!ShowsCurrentTexts'
      BY <1>7, <2>2, <3>1, <3>2 DEF Presenting!Finished, Presenting!Install, PresentInv,
           Presenting!ShowsCurrentTexts, Presenting!Mode, Presenting!Decorated
    <3> QED
      BY <1>7, <3>2, <3>3 DEF Presenting!Finished, PresentInv
  <2> QED
    BY <2>1, <2>2
<1>8. CASE UNCHANGED Presenting!vars
  BY <1>8 DEF Presenting!vars, PresentInv, BatchIsKnown, Presenting!Input,
              Presenting!ShowsCurrentTexts
<1> QED
  BY <1>1, <1>2, <1>3, <1>4, <1>5, <1>6, <1>7, <1>8 DEF Presenting!Next

-----------------------------------------------------------------------------
(* Syntax definitions: what is tried and found.                            *)

\* What is known of a key is its definition, read not before the clear numbered e.
IsDefinition(k, c) == IF k[1] \in Unusable THEN c = None ELSE c \in [key : {k}, data : Nat]
IsFresh(k, c, e) == IsDefinition(k, c) /\ (c # None => c.data >= e)
IsKnown(f, e) == \A k \in Syntax!Key : f[k] # Unknown => IsFresh(k, f[k], e)

\* A definition is the best for some keys if it is of the first usable one.
UsableIn(keys) == {i \in DOMAIN keys : keys[i][1] \notin Unusable}
IsBest(keys, c) ==
  IF UsableIn(keys) = {} THEN c = None
  ELSE \E i \in UsableIn(keys) : /\ \A j \in UsableIn(keys) : i <= j
                                 /\ c # None /\ c.key = keys[i]
SameBest(keys, others) == \A c : IsBest(keys, c) => IsBest(others, c)

IsTried(tried, keys, e) ==
  /\ \A i \in DOMAIN tried : /\ tried[i].key \in Syntax!Key
                             /\ IsFresh(tried[i].key, tried[i].content, e)
  /\ IsBest(keys, Syntax!Found(tried))

LEMMA SmallestIsIn ==
  ASSUME NEW S \in SUBSET Nat, S # {}
  PROVE  \E k \in S : \A j \in S : k <= j
<1> DEFINE R == OpToRel(<, Nat)
<1>1. IsWellFoundedOn(R, Nat)
  BY NatLessThanWellFounded
<1>2. \A a, b \in Nat : <<a, b>> \in R <=> a < b
  BY DEF OpToRel
<1> HIDE DEF R
<1>3. PICK x \in S : \A y \in S : ~(<<y, x>> \in R)
  BY <1>1, WFMin
<1>4. ASSUME NEW y \in S PROVE x <= y
  <2>1. x \in Nat /\ y \in Nat
    OBVIOUS
  <2>2. ~(y < x)
    BY <1>2, <1>3, <2>1
  <2> QED
    BY <2>1, <2>2
<1> QED
  BY <1>4

LEMMA FreshIsUsable ==
  ASSUME NEW k \in Syntax!Key, NEW c, NEW e, IsFresh(k, c, e)
  PROVE  /\ c # None <=> k[1] \notin Unusable
         /\ c # None => c.key = k /\ c.data \in Nat /\ c.data >= e
<1>1. CASE k[1] \in Unusable
  BY <1>1 DEF IsFresh, IsDefinition
<1>2. CASE k[1] \notin Unusable
  <2>1. c \in [key : {k}, data : Nat]
    BY <1>2 DEF IsFresh, IsDefinition
  <2>2. c \in [key : Syntax!Key, data : Nat]
    BY <2>1
  <2>3. c # None
    BY <2>2, SyntaxAssumption
  <2> QED
    BY <1>2, <2>1, <2>3 DEF IsFresh
<1> QED
  BY <1>1, <1>2

LEMMA ParsedIsFresh ==
  ASSUME NEW k \in Syntax!Key, NEW e \in Nat, data \in Nat, e <= data
  PROVE  IsFresh(k, Syntax!Parsed(k), e)
  BY DEF IsFresh, IsDefinition, Syntax!Parsed

LEMMA KeysOfType ==
  ASSUME NEW n \in FileName, NEW dark \in BOOLEAN
  PROVE  /\ Syntax!KeysOf(n, dark) \in Seq(Syntax!Key)
         /\ Len(Syntax!KeysOf(n, dark)) = Len(Candidates[n])
         /\ \A i \in DOMAIN Candidates[n] : Syntax!KeysOf(n, dark)[i] = <<Candidates[n][i], dark>>
<1>1. Candidates[n] \in Seq(Syntax!Definition)
  BY SyntaxAssumption
<1>2. \A i \in DOMAIN Candidates[n] : <<Candidates[n][i], dark>> \in Syntax!Key
  BY <1>1 DEF Syntax!Key
<1>3. DOMAIN Candidates[n] = 1..Len(Candidates[n]) /\ Len(Candidates[n]) \in Nat
  BY <1>1
<1>4. Syntax!KeysOf(n, dark) = [i \in 1..Len(Candidates[n]) |-> <<Candidates[n][i], dark>>]
  BY <1>3 DEF Syntax!KeysOf
<1>5. Syntax!KeysOf(n, dark) \in Seq(Syntax!Key)
  <2>1. \A i \in 1..Len(Candidates[n]) : <<Candidates[n][i], dark>> \in Syntax!Key
    BY <1>2, <1>3
  <2> QED
    BY ONLY <2>1, <1>3, <1>4
<1>6. Len(Syntax!KeysOf(n, dark)) = Len(Candidates[n])
  BY <1>3, <1>4
<1>7. \A i \in DOMAIN Candidates[n] : Syntax!KeysOf(n, dark)[i] = <<Candidates[n][i], dark>>
  BY <1>3, <1>4
<1> QED
  BY <1>5, <1>6, <1>7

\* Trying the keys in turn finds the best definition, and reads none too old.
LEMMA TriedIsBest ==
  ASSUME NEW keys \in Seq(Syntax!Key), NEW known, NEW e \in Nat, IsKnown(known, e),
         data \in Nat, e <= data
  PROVE  IsTried(Syntax!Tried(keys, known), keys, e)
<1> DEFINE D(i) == Syntax!DefinitionOf(keys[i], known)
           U == {i \in DOMAIN keys : D(i) # None}
           last == IF U = {} THEN Len(keys) ELSE CHOOSE i \in U : \A j \in U : i <= j
           R(i) == [key |-> keys[i], content |-> D(i), known |-> known[keys[i]] # Unknown]
           t == Syntax!Tried(keys, known)
<1>1. /\ Len(keys) \in Nat /\ DOMAIN keys = 1..Len(keys)
      /\ \A i \in DOMAIN keys : keys[i] \in Syntax!Key
  OBVIOUS
<1>2. ASSUME NEW i \in DOMAIN keys PROVE IsFresh(keys[i], D(i), e)
  BY <1>1, ParsedIsFresh DEF Syntax!DefinitionOf, IsKnown
<1>3. ASSUME NEW i \in DOMAIN keys
      PROVE  (D(i) # None <=> keys[i][1] \notin Unusable) /\ (D(i) # None => D(i).key = keys[i])
  BY <1>1, <1>2, FreshIsUsable
<1>4. U = UsableIn(keys) /\ U \in SUBSET Nat
  BY <1>1, <1>3 DEF UsableIn
<1>5. t = [i \in 1..last |-> R(i)]
  BY DEF Syntax!Tried
<1>6. U # {} => last \in U /\ \A j \in U : last <= j
  BY <1>4, SmallestIsIn
<1>7. last \in 0..Len(keys) /\ (last = 0 => U = {} /\ keys = <<>>)
  BY <1>1, <1>4, <1>6
<1> HIDE DEF last, D, U
<1>8. DOMAIN t = 1..last /\ \A i \in 1..last : t[i] = R(i)
  BY <1>5
<1>9. \A i \in DOMAIN t : t[i].key \in Syntax!Key /\ IsFresh(t[i].key, t[i].content, e)
  BY <1>1, <1>2, <1>7, <1>8
<1>10. last # 0 => t # <<>> /\ Len(t) = last
  <2>1. last # 0 => 1 \in DOMAIN t
    BY <1>7, <1>8
  <2>2. last # 0 => Len(t) = last
    BY <1>5, <1>7
  <2> QED
    BY <2>1, <2>2
<1>11. last = 0 => t = <<>>
  BY <1>5
<1>12. IsBest(keys, Syntax!Found(t))
  <2>1. CASE last = 0
    <3>1. UsableIn(keys) = {} /\ Syntax!Found(t) = None
      BY <2>1, <1>4, <1>7, <1>11 DEF Syntax!Found
    <3> QED
      BY <3>1 DEF IsBest
  <2>2. CASE last # 0
    <3>1. last \in DOMAIN keys /\ last \in 1..last
      BY <2>2, <1>1, <1>7
    <3>2. Syntax!Found(t) = D(last)
      BY <2>2, <1>8, <1>10, <3>1 DEF Syntax!Found
    <3>3. CASE U = {}
      <4>1. D(last) = None
        BY <3>1, <3>3 DEF U
      <4> QED
        BY <3>2, <3>3, <4>1, <1>4 DEF IsBest
    <3>4. CASE U # {}
      <4>1. last \in U /\ (\A j \in U : last <= j) /\ D(last) # None
        BY <3>4, <1>6 DEF U
      <4>2. D(last).key = keys[last]
        BY <3>1, <4>1, <1>3
      <4> QED
        BY <3>2, <4>1, <4>2, <1>4 DEF IsBest
    <3> QED
      BY <3>3, <3>4
  <2> QED
    BY <2>1, <2>2
<1> QED
  BY <1>9, <1>12 DEF IsTried

\* What was tried is inserted unless it was known.
LEMMA InsertIsKnown ==
  ASSUME NEW tried, NEW keys, NEW e, IsTried(tried, keys, e), IsKnown(cache, e)
  PROVE  IsKnown(Syntax!Insert(tried), e)
<1> SUFFICES ASSUME NEW k \in Syntax!Key PROVE Syntax!Insert(tried)[k] # Unknown =>
                                                 IsFresh(k, Syntax!Insert(tried)[k], e)
  BY DEF IsKnown
<1> DEFINE new == {i \in DOMAIN tried : tried[i].key = k /\ ~tried[i].known}
<1>1. Syntax!Insert(tried)[k] = IF new = {} THEN cache[k] ELSE tried[CHOOSE i \in new : TRUE].content
  BY DEF Syntax!Insert
<1>2. CASE new = {}
  BY <1>1, <1>2 DEF IsKnown
<1>3. CASE new # {}
  <2>1. PICK i \in new : i = CHOOSE j \in new : TRUE
    BY <1>3
  <2>2. IsFresh(k, tried[i].content, e)
    BY <2>1 DEF IsTried
  <2> QED
    BY <1>1, <1>3, <2>1, <2>2
<1> QED
  BY <1>2, <1>3

-----------------------------------------------------------------------------
(* Syntax definitions: the cache.                                          *)

Suffix(keys, i) == SubSeq(keys, i, Len(keys))
IsLoad(l, e) ==
  /\ l = [keys |-> l.keys, known |-> l.known, epoch |-> l.epoch, tried |-> l.tried]
  /\ l.epoch \in Nat /\ l.epoch <= e
  /\ IsKnown(l.known, l.epoch)
  /\ l.keys \in Seq(Syntax!Key)
  /\ l.tried # <<>> => IsTried(l.tried, l.keys, l.epoch)
AreLoads(ls, e) ==
  /\ ls = [k \in Syntax!Key |-> ls[k]]
  /\ \A k \in Syntax!Key : ls[k] # None => IsLoad(ls[k], e)
IsEditor(d) ==
  /\ d = [name |-> d.name, dark |-> d.dark, generation |-> d.generation,
          pending |-> d.pending, syntax |-> d.syntax, alive |-> d.alive]
  /\ d.name \in FileName \union {None} /\ d.dark \in BOOLEAN /\ d.generation \in Nat
AreEditors(ds) == ds = [e \in Editor |-> ds[e]] /\ \A e \in Editor : IsEditor(ds[e])

\* Everything in the cache, and all that a load of this epoch may add to it, was read
\* after the last clear.
CacheInv ==
  /\ data \in Nat /\ epoch \in Nat /\ epoch <= data
  /\ IsKnown(cache, epoch)
  /\ AreLoads(loads, epoch)
  /\ AreEditors(editors)

LEMMA CacheInit == InitAll => CacheInv
<1> SUFFICES ASSUME Syntax!Init PROVE CacheInv
  BY DEF InitAll
<1>1. AreEditors(editors)
  BY DEF Syntax!Init, AreEditors, IsEditor
<1>2. IsKnown(cache, epoch)
  BY DEF Syntax!Init, IsKnown
<1>3. AreLoads(loads, epoch)
  BY DEF Syntax!Init, AreLoads
<1>4. data = 0 /\ epoch = 0
  BY DEF Syntax!Init
<1> QED
  BY <1>1, <1>2, <1>3, <1>4 DEF CacheInv

LEMMA RemainingIsBest ==
  ASSUME NEW keys \in Seq(Syntax!Key), NEW e, IsKnown(cache, e)
  PROVE  \/ /\ Syntax!Remaining(keys) = <<>> /\ IsBest(keys, None)
         \/ \E i \in DOMAIN keys : /\ Syntax!Remaining(keys) = Suffix(keys, i)
                                   /\ cache[keys[i]] # None
                                   /\ \A j \in UsableIn(keys) : i <= j
<1> DEFINE S == {i \in DOMAIN keys : cache[keys[i]] # None}
<1>1. DOMAIN keys = 1..Len(keys) /\ Len(keys) \in Nat /\ \A i \in DOMAIN keys : keys[i] \in Syntax!Key
  OBVIOUS
<1>2. ASSUME NEW i \in DOMAIN keys, cache[keys[i]] = None PROVE i \notin UsableIn(keys)
  <2>1. IsFresh(keys[i], cache[keys[i]], e)
    BY <1>1, <1>2, SyntaxAssumption DEF IsKnown
  <2> QED
    BY <1>1, <1>2, <2>1, FreshIsUsable DEF UsableIn
<1>3. CASE S = {}
  <2>1. Syntax!Remaining(keys) = <<>>
    BY <1>3 DEF Syntax!Remaining
  <2>2. UsableIn(keys) = {}
    BY <1>2, <1>3 DEF UsableIn
  <2> QED
    BY <2>1, <2>2 DEF IsBest
<1>4. CASE S # {}
  <2>1. S \in SUBSET Nat
    BY <1>1
  <2>2. PICK f \in S : \A j \in S : f <= j
    BY <1>4, <2>1, SmallestIsIn
  <2> DEFINE First(i) == cache[keys[i]] # None /\ \A j \in 1..i - 1 : cache[keys[j]] = None
  <2>3. f \in DOMAIN keys /\ First(f)
    <3>1. ASSUME NEW j \in 1..f - 1 PROVE cache[keys[j]] = None
      BY <1>1, <2>2
    <3> QED
      BY <2>2, <3>1
  <2>4. ~\A i \in DOMAIN keys : cache[keys[i]] = None
    BY <1>4
  <2>5. PICK i \in DOMAIN keys : First(i) /\ i = CHOOSE j \in DOMAIN keys : First(j)
    BY <2>3
  <2>6. Syntax!Remaining(keys) = Suffix(keys, i)
    BY <2>4, <2>5 DEF Syntax!Remaining, Suffix
  <2>7. ASSUME NEW j \in UsableIn(keys) PROVE i <= j
    <3>1. j \in DOMAIN keys /\ cache[keys[j]] # None
      BY <1>2 DEF UsableIn
    <3> QED
      BY <1>1, <2>5, <3>1, SMTT(30)
  <2> QED
    BY <2>5, <2>6, <2>7
<1> QED
  BY <1>3, <1>4

LEMMA SuffixType ==
  ASSUME NEW keys \in Seq(Syntax!Key), NEW i \in DOMAIN keys
  PROVE  /\ Suffix(keys, i) \in Seq(Syntax!Key) /\ Suffix(keys, i) # <<>>
         /\ Len(Suffix(keys, i)) = Len(keys) - i + 1
         /\ \A j \in 1..Len(keys) - i + 1 : Suffix(keys, i)[j] = keys[i + j - 1]
<1>1. i \in 1..Len(keys) /\ Len(keys) \in Nat
  OBVIOUS
<1>2. Suffix(keys, i) \in Seq(Syntax!Key) /\ Len(Suffix(keys, i)) = Len(keys) - i + 1
  BY <1>1 DEF Suffix
<1>3. \A j \in 1..Len(keys) - i + 1 : Suffix(keys, i)[j] = keys[i + j - 1]
  BY <1>1 DEF Suffix
<1> QED
  BY <1>1, <1>2, <1>3

LEMMA EditorChanges ==
  ASSUME NEW ds, AreEditors(ds), NEW e \in Editor, NEW d, IsEditor(d)
  PROVE  AreEditors([ds EXCEPT ![e] = d])
<1> DEFINE fs == [ds EXCEPT ![e] = d]
<1>1. fs = [f \in Editor |-> IF f = e THEN d ELSE ds[f]]
  BY DEF AreEditors
<1> HIDE DEF fs
<1>2. fs = [f \in Editor |-> fs[f]]
  BY <1>1
<1>3. ASSUME NEW f \in Editor PROVE IsEditor(fs[f])
  BY <1>1 DEF AreEditors
<1>4. AreEditors(fs)
  BY <1>2, <1>3 DEF AreEditors
<1> QED
  BY <1>4 DEF fs

\* An editor that shows or awaits a definition for another name or theme.
Asks(d, n, dark, p, c) ==
  [d EXCEPT !.name = n, !.dark = dark, !.generation = d.generation + 1, !.pending = p, !.syntax = c]

LEMMA EditorAsks ==
  ASSUME AreEditors(editors), NEW e \in Editor, NEW n \in FileName, NEW dark \in BOOLEAN,
         NEW p, NEW c
  PROVE  LET d == Asks(editors[e], n, dark, p, c)
         IN  /\ IsEditor(d) /\ d.name = n /\ d.dark = dark /\ d.pending = p /\ d.syntax = c
             /\ d.alive = editors[e].alive /\ d.generation = editors[e].generation + 1
<1> DEFINE d == Asks(editors[e], n, dark, p, c)
<1>0. d = [editors[e] EXCEPT !.name = n, !.dark = dark, !.generation = editors[e].generation + 1,
                             !.pending = p, !.syntax = c]
  BY DEF Asks
<1> HIDE DEF d
<1>1. IsEditor(editors[e])
  BY DEF AreEditors
<1>2. d = [name |-> n, dark |-> dark, generation |-> editors[e].generation + 1,
           pending |-> p, syntax |-> c, alive |-> editors[e].alive]
  BY <1>0, <1>1 DEF IsEditor
<1>3. editors[e].generation + 1 \in Nat
  BY <1>1 DEF IsEditor
<1>4. /\ d.name = n /\ d.dark = dark /\ d.pending = p /\ d.syntax = c
      /\ d.alive = editors[e].alive /\ d.generation = editors[e].generation + 1
  BY <1>2
<1>5. IsEditor(d)
  BY <1>2, <1>3, <1>4 DEF IsEditor
<1> QED
  BY <1>4, <1>5 DEF d

LEMMA AnsweredAtOnce ==
  ASSUME AreEditors(editors), NEW e \in Editor, NEW n, NEW dark, NEW c
  PROVE  Syntax!Answered(Syntax!Asked(e, n, dark), c) = Asks(editors[e], n, dark, FALSE, c)
  BY DEF AreEditors, IsEditor, Syntax!Answered, Syntax!Asked, Asks

LEMMA Awaiting ==
  ASSUME AreEditors(editors), NEW e \in Editor, NEW n, NEW dark
  PROVE  [Syntax!Asked(e, n, dark) EXCEPT !.pending = TRUE, !.syntax = None]
           = Asks(editors[e], n, dark, TRUE, None)
  BY DEF AreEditors, IsEditor, Syntax!Asked, Asks

LEMMA LoadChanges ==
  ASSUME NEW ls, NEW e, AreLoads(ls, e), NEW k \in Syntax!Key, NEW l, l # None => IsLoad(l, e)
  PROVE  AreLoads([ls EXCEPT ![k] = l], e)
<1> DEFINE ms == [ls EXCEPT ![k] = l]
<1>1. ms = [j \in Syntax!Key |-> IF j = k THEN l ELSE ls[j]]
  BY DEF AreLoads
<1> HIDE DEF ms
<1>2. ms = [j \in Syntax!Key |-> ms[j]]
  BY <1>1
<1>3. ASSUME NEW j \in Syntax!Key PROVE ms[j] # None => IsLoad(ms[j], e)
  BY <1>1 DEF AreLoads
<1>4. AreLoads(ms, e)
  BY <1>2, <1>3 DEF AreLoads
<1> QED
  BY <1>4 DEF ms

\* A load that is started has read nothing yet and knows what the cache knows.
LEMMA LoadStarts ==
  ASSUME NEW keys \in Seq(Syntax!Key), NEW known, NEW e \in Nat, IsKnown(known, e)
  PROVE  IsLoad([keys |-> keys, known |-> known, epoch |-> e, tried |-> <<>>], e)
<1> DEFINE l == [keys |-> keys, known |-> known, epoch |-> e, tried |-> <<>>]
<1>1. l.keys = keys /\ l.known = known /\ l.epoch = e /\ l.tried = <<>>
  OBVIOUS
<1>2. l = [keys |-> l.keys, known |-> l.known, epoch |-> l.epoch, tried |-> l.tried]
  OBVIOUS
<1> HIDE DEF l
<1>3. IsLoad(l, e)
  BY <1>1, <1>2 DEF IsLoad
<1> QED
  BY <1>3 DEF l

LEMMA SetNameKeepsCache ==
  ASSUME CacheInv, NEW e \in Editor, NEW n \in FileName, Syntax!SetSyntaxFileName(e, n)
  PROVE  CacheInv'
<1> DEFINE dark == editors[e].dark
           keys == Syntax!Remaining(Syntax!KeysOf(n, dark))
           load == [keys |-> keys, known |-> cache, epoch |-> epoch, tried |-> <<>>]
<1>1. IsEditor(editors[e]) /\ dark \in BOOLEAN
  BY DEF CacheInv, AreEditors, IsEditor
<1>2. Syntax!KeysOf(n, dark) \in Seq(Syntax!Key)
  BY <1>1, KeysOfType
<1>3. keys \in Seq(Syntax!Key) /\ (keys # <<>> => keys[1] \in Syntax!Key)
  <2>1. keys \in Seq(Syntax!Key)
    <3>1. CASE keys = <<>>
      BY <3>1
    <3>2. CASE keys # <<>>
      <4>1. PICK i \in DOMAIN Syntax!KeysOf(n, dark) : keys = Suffix(Syntax!KeysOf(n, dark), i)
        BY <1>2, <3>2, RemainingIsBest DEF CacheInv
      <4> QED
        BY <1>2, <4>1, SuffixType
    <3> QED
      BY <3>1, <3>2
  <2> QED
    BY <2>1
<1>4. \E p, c : editors' = [editors EXCEPT ![e] = Asks(editors[e], n, dark, p, c)]
  <2>1. AreEditors(editors)
    BY DEF CacheInv
  <2>2. \A c : Syntax!Answered(Syntax!Asked(e, n, dark), c) = Asks(editors[e], n, dark, FALSE, c)
    BY <2>1, AnsweredAtOnce
  <2>3. [Syntax!Asked(e, n, dark) EXCEPT !.pending = TRUE, !.syntax = None]
           = Asks(editors[e], n, dark, TRUE, None)
    BY <2>1, Awaiting
  <2>4. \/ \E c : editors' = [editors EXCEPT ![e] = Syntax!Answered(Syntax!Asked(e, n, dark), c)]
        \/ editors' = [editors EXCEPT ![e] =
              [Syntax!Asked(e, n, dark) EXCEPT !.pending = TRUE, !.syntax = None]]
    BY DEF Syntax!SetSyntaxFileName
  <2>5. CASE \E c : editors' = [editors EXCEPT ![e] = Syntax!Answered(Syntax!Asked(e, n, dark), c)]
    <3>1. PICK c : editors' = [editors EXCEPT ![e] = Syntax!Answered(Syntax!Asked(e, n, dark), c)]
      BY <2>5
    <3>2. editors' = [editors EXCEPT ![e] = Asks(editors[e], n, dark, FALSE, c)]
      BY <2>2, <3>1
    <3> QED
      BY <3>2
  <2>6. CASE editors' = [editors EXCEPT ![e] =
               [Syntax!Asked(e, n, dark) EXCEPT !.pending = TRUE, !.syntax = None]]
    <3>1. editors' = [editors EXCEPT ![e] = Asks(editors[e], n, dark, TRUE, None)]
      BY <2>3, <2>6
    <3> QED
      BY <3>1
  <2> QED
    BY <2>4, <2>5, <2>6
<1>5. AreEditors(editors')
  <2>1. PICK p, c : editors' = [editors EXCEPT ![e] = Asks(editors[e], n, dark, p, c)]
    BY <1>4
  <2>2. IsEditor(Asks(editors[e], n, dark, p, c))
    BY <1>1, EditorAsks DEF CacheInv
  <2>3. AreEditors([editors EXCEPT ![e] = Asks(editors[e], n, dark, p, c)])
    BY <2>2, EditorChanges DEF CacheInv
  <2> QED
    BY <2>1, <2>3
<1>6. AreLoads(loads', epoch)
  <2>1. CASE loads' = loads
    BY <2>1 DEF CacheInv
  <2>2. CASE keys # <<>> /\ loads' = [loads EXCEPT ![keys[1]] = load]
    <3>1. IsLoad(load, epoch)
      BY <1>3, LoadStarts DEF CacheInv
    <3> HIDE DEF load, keys
    <3>2. AreLoads([loads EXCEPT ![keys[1]] = load], epoch)
      BY <1>3, <2>2, <3>1, LoadChanges DEF CacheInv
    <3> QED
      BY <2>2, <3>2
  <2> QED
    BY <2>1, <2>2 DEF Syntax!SetSyntaxFileName
<1>7. data' = data /\ epoch' = epoch /\ cache' = cache
  BY DEF Syntax!SetSyntaxFileName
<1> QED
  BY <1>5, <1>6, <1>7 DEF CacheInv

LEMMA ParseKeepsCache ==
  ASSUME CacheInv, NEW k \in Syntax!Key, Syntax!Parse(k)
  PROVE  CacheInv'
<1> DEFINE t == Syntax!Tried(loads[k].keys, loads[k].known)
           l == [loads[k] EXCEPT !.tried = t]
<1>1. IsLoad(loads[k], epoch)
  BY DEF CacheInv, AreLoads, Syntax!Parse
<1>2. IsTried(t, loads[k].keys, loads[k].epoch)
  BY <1>1, TriedIsBest DEF CacheInv, IsLoad
<1>3. loads' = [loads EXCEPT ![k] = l]
  BY DEF Syntax!Parse
<1> HIDE DEF t
<1>4. IsLoad(l, epoch)
  <2>1. l.keys = loads[k].keys /\ l.known = loads[k].known /\ l.epoch = loads[k].epoch /\ l.tried = t
    BY <1>1 DEF IsLoad
  <2>2. l = [keys |-> l.keys, known |-> l.known, epoch |-> l.epoch, tried |-> l.tried]
    BY <1>1 DEF IsLoad
  <2> QED
    BY <1>1, <1>2, <2>1, <2>2 DEF IsLoad
<1> HIDE DEF l
<1>5. AreLoads(loads', epoch)
  BY <1>3, <1>4, LoadChanges DEF CacheInv
<1>6. data' = data /\ epoch' = epoch /\ cache' = cache /\ editors' = editors
  BY DEF Syntax!Parse
<1> QED
  BY <1>5, <1>6 DEF CacheInv

\* What an editor is told is shown unless it asks for something else by now.
LEMMA AnswerChanges ==
  ASSUME CacheInv, NEW k \in Syntax!Key, editors' = Syntax!AnswerAll(k), NEW e \in Editor
  PROVE  /\ IsEditor(editors'[e]) /\ editors'[e].name = editors[e].name
         /\ editors'[e].dark = editors[e].dark /\ editors'[e].generation = editors[e].generation
         /\ editors'[e].alive = editors[e].alive
         /\ \/ editors'[e] = editors[e]
            \/ /\ \E w \in waiting[k] : Syntax!Awaits(e, w)
               /\ ~editors'[e].pending /\ editors'[e].syntax = Syntax!Found(loads[k].tried)
<1>1. IsEditor(editors[e])
  BY DEF CacheInv, AreEditors
<1>2. editors'[e] = IF \E w \in waiting[k] : Syntax!Awaits(e, w)
                     THEN Syntax!Answered(editors[e], Syntax!Found(loads[k].tried))
                     ELSE editors[e]
  BY DEF Syntax!AnswerAll
<1>3. CASE editors'[e] = editors[e]
  BY <1>1, <1>3
<1>4. CASE /\ \E w \in waiting[k] : Syntax!Awaits(e, w)
           /\ editors'[e] = Syntax!Answered(editors[e], Syntax!Found(loads[k].tried))
  <2> DEFINE d == editors'[e]
             c == Syntax!Found(loads[k].tried)
  <2>1. d = [name |-> editors[e].name, dark |-> editors[e].dark,
             generation |-> editors[e].generation, pending |-> FALSE, syntax |-> c,
             alive |-> editors[e].alive]
    BY <1>1, <1>4 DEF IsEditor, Syntax!Answered
  <2> HIDE DEF d, c
  <2>2. /\ d.name = editors[e].name /\ d.dark = editors[e].dark
        /\ d.generation = editors[e].generation /\ d.alive = editors[e].alive
        /\ d.pending = FALSE /\ d.syntax = c
        /\ d = [name |-> d.name, dark |-> d.dark, generation |-> d.generation,
                pending |-> d.pending, syntax |-> d.syntax, alive |-> d.alive]
    BY <2>1
  <2>3. IsEditor(d)
    BY <1>1, <2>2 DEF IsEditor
  <2> QED
    BY <1>4, <2>2, <2>3 DEF d, c
<1> QED
  BY <1>2, <1>3, <1>4

LEMMA DeliverKeepsCache ==
  ASSUME CacheInv, NEW k \in Syntax!Key, Syntax!Deliver(k)
  PROVE  CacheInv'
<1>1. IsLoad(loads[k], epoch)
  BY DEF CacheInv, AreLoads, Syntax!Deliver
<1>2. IsKnown(cache', epoch)
  <2>1. CASE Syntax!Current(k)
    <3>1. IsTried(loads[k].tried, loads[k].keys, epoch)
      BY <1>1, <2>1 DEF IsLoad, Syntax!Deliver, Syntax!Current
    <3>2. IsKnown(Syntax!Insert(loads[k].tried), epoch)
      BY <3>1, InsertIsKnown DEF CacheInv
    <3> QED
      BY <2>1, <3>2 DEF Syntax!Deliver
  <2>2. CASE ~Syntax!Current(k)
    BY <2>2 DEF Syntax!Deliver, CacheInv
  <2> QED
    BY <2>1, <2>2
<1>3. AreLoads(loads', epoch)
  BY LoadChanges DEF CacheInv, Syntax!Deliver
<1>4. AreEditors(editors')
  <2>1. editors' = Syntax!AnswerAll(k)
    BY DEF Syntax!Deliver
  <2>2. editors' = [e \in Editor |-> editors'[e]]
    BY <2>1 DEF Syntax!AnswerAll
  <2>3. \A e \in Editor : IsEditor(editors'[e])
    BY <2>1, AnswerChanges
  <2> QED
    BY <2>2, <2>3 DEF AreEditors
<1>5. data' = data /\ epoch' = epoch
  BY DEF Syntax!Deliver
<1> QED
  BY <1>2, <1>3, <1>4, <1>5 DEF CacheInv


LEMMA SetSchemeKeepsCache ==
  ASSUME CacheInv, NEW e \in Editor, Syntax!SetColorScheme(e)
  PROVE  CacheInv'
<1> DEFINE n == editors[e].name
           dark == ~editors[e].dark
           t == Syntax!Tried(Syntax!KeysOf(n, dark), cache)
<1>1. IsEditor(editors[e]) /\ AreEditors(editors)
  BY DEF CacheInv, AreEditors
<1>2. n \in FileName /\ dark \in BOOLEAN
  BY <1>1 DEF IsEditor, Syntax!SetColorScheme
<1>3. editors' = [editors EXCEPT ![e] = Asks(editors[e], n, dark, FALSE, Syntax!Found(t))]
       /\ cache' = Syntax!Insert(t)
  <2>1. Syntax!Answered(Syntax!Asked(e, n, dark), Syntax!Found(t))
          = Asks(editors[e], n, dark, FALSE, Syntax!Found(t))
    BY <1>1, AnsweredAtOnce
  <2> QED
    BY <2>1 DEF Syntax!SetColorScheme, Syntax!LoadNow
<1>4. IsTried(t, Syntax!KeysOf(n, dark), epoch)
  BY <1>2, KeysOfType, TriedIsBest DEF CacheInv
<1> HIDE DEF n, dark, t
<1>5. AreEditors(editors')
  <2>1. IsEditor(Asks(editors[e], n, dark, FALSE, Syntax!Found(t)))
    BY <1>1, <1>2, EditorAsks
  <2> QED
    BY <1>1, <1>3, <2>1, EditorChanges
<1>6. IsKnown(cache', epoch)
  BY <1>3, <1>4, InsertIsKnown DEF CacheInv
<1>7. data' = data /\ epoch' = epoch /\ loads' = loads
  BY DEF Syntax!SetColorScheme
<1> QED
  BY <1>5, <1>6, <1>7 DEF CacheInv

LEMMA ReloadKeepsCache ==
  ASSUME CacheInv, NEW e \in Editor, Syntax!ReloadSyntaxDefinitions(e)
  PROVE  CacheInv'
<1> DEFINE n == editors[e].name
           dark == editors[e].dark
           unknown == [k \in Syntax!Key |-> Unknown]
           t == Syntax!Tried(Syntax!KeysOf(n, dark), unknown)
<1>1. IsEditor(editors[e]) /\ AreEditors(editors)
  BY DEF CacheInv, AreEditors
<1>2. n \in FileName /\ dark \in BOOLEAN
  BY <1>1 DEF IsEditor, Syntax!ReloadSyntaxDefinitions
<1>3. editors' = [editors EXCEPT ![e] = Asks(editors[e], n, dark, FALSE, Syntax!Found(t))]
  BY <1>1, AnsweredAtOnce DEF Syntax!ReloadSyntaxDefinitions
<1>4. epoch \in Nat /\ data \in Nat /\ epoch' = epoch + 1 /\ data' = data /\ epoch' <= data
  <2>1. epoch \in Nat /\ data \in Nat
    BY DEF CacheInv
  <2>2. epoch < data /\ epoch' = epoch + 1 /\ data' = data
    BY DEF Syntax!ReloadSyntaxDefinitions
  <2> QED BY ONLY <2>1, <2>2
<1>5. IsTried(t, Syntax!KeysOf(n, dark), epoch')
  <2>1. IsKnown(unknown, epoch')
    BY DEF IsKnown
  <2> QED
    BY <1>2, <1>4, <2>1, KeysOfType, TriedIsBest
<1>6. IsKnown(cache', epoch')
  <2>1. cache' = [k \in Syntax!Key |->
          IF \E i \in DOMAIN t : t[i].key = k
            THEN t[CHOOSE i \in DOMAIN t : t[i].key = k].content ELSE Unknown]
    BY DEF Syntax!ReloadSyntaxDefinitions
  <2> HIDE DEF t
  <2>2. ASSUME NEW k \in Syntax!Key, \E i \in DOMAIN t : t[i].key = k
        PROVE  IsFresh(k, cache'[k], epoch')
    <3>1. PICK i \in DOMAIN t : t[i].key = k /\ i = CHOOSE j \in DOMAIN t : t[j].key = k
      BY <2>2
    <3>2. IsFresh(k, t[i].content, epoch')
      BY <1>5, <3>1 DEF IsTried
    <3> QED
      BY <2>1, <2>2, <3>1, <3>2
  <2>3. ASSUME NEW k \in Syntax!Key, ~\E i \in DOMAIN t : t[i].key = k
        PROVE  cache'[k] = Unknown
    BY <2>1, <2>3
  <2> QED
    BY <2>2, <2>3 DEF IsKnown
<1> HIDE DEF n, dark, t
<1>7. AreEditors(editors')
  <2>1. IsEditor(Asks(editors[e], n, dark, FALSE, Syntax!Found(t)))
    BY <1>1, <1>2, EditorAsks
  <2> QED
    BY <1>1, <1>3, <2>1, EditorChanges
<1>8. AreLoads(loads', epoch')
  <2>1. loads' = loads
    BY DEF Syntax!ReloadSyntaxDefinitions
  <2>2. ASSUME NEW k \in Syntax!Key, loads[k] # None PROVE IsLoad(loads[k], epoch')
    BY <1>4, <2>2 DEF CacheInv, AreLoads, IsLoad
  <2> QED
    BY <2>1, <2>2 DEF CacheInv, AreLoads
<1> QED
  BY <1>4, <1>6, <1>7, <1>8 DEF CacheInv

LEMMA Destroyed ==
  ASSUME NEW d, IsEditor(d), NEW f, f = [d EXCEPT !.alive = FALSE]
  PROVE  /\ IsEditor(f) /\ f.name = d.name /\ f.dark = d.dark /\ f.generation = d.generation
         /\ ~f.alive
<1>1. f = [name |-> d.name, dark |-> d.dark, generation |-> d.generation,
           pending |-> d.pending, syntax |-> d.syntax, alive |-> FALSE]
  BY DEF IsEditor
<1>2. /\ f.name = d.name /\ f.dark = d.dark /\ f.generation = d.generation
      /\ f.pending = d.pending /\ f.syntax = d.syntax /\ f.alive = FALSE
  BY <1>1
<1>3. IsEditor(f)
  BY <1>1, <1>2 DEF IsEditor
<1> QED
  BY <1>2, <1>3

LEMMA DestroyKeepsCache ==
  ASSUME CacheInv, NEW e \in Editor, Syntax!Destroy(e)
  PROVE  CacheInv'
<1> DEFINE d == [editors[e] EXCEPT !.alive = FALSE]
<1>1. IsEditor(editors[e])
  BY DEF CacheInv, AreEditors
<1>2. IsEditor(d)
  BY <1>1, Destroyed
<1>3. editors' = [editors EXCEPT ![e] = d]
  BY DEF Syntax!Destroy
<1> HIDE DEF d
<1>4. AreEditors(editors')
  BY <1>2, <1>3, EditorChanges DEF CacheInv
<1> QED
  BY <1>4 DEF CacheInv, Syntax!Destroy

LEMMA CacheStays == CacheInv /\ [Syntax!Next]_(Syntax!vars) => CacheInv'
<1> SUFFICES ASSUME CacheInv, [Syntax!Next]_(Syntax!vars) PROVE CacheInv'
  OBVIOUS
<1>1. CASE \E e \in Editor, n \in FileName : Syntax!SetSyntaxFileName(e, n)
  BY <1>1, SetNameKeepsCache
<1>2. CASE \E k \in Syntax!Key : Syntax!Parse(k)
  BY <1>2, ParseKeepsCache
<1>3. CASE \E k \in Syntax!Key : Syntax!Deliver(k)
  BY <1>3, DeliverKeepsCache
<1>4. CASE \E e \in Editor : Syntax!SetColorScheme(e)
  BY <1>4, SetSchemeKeepsCache
<1>5. CASE \E e \in Editor : Syntax!ReloadSyntaxDefinitions(e)
  BY <1>5, ReloadKeepsCache
<1>6. CASE \E e \in Editor : Syntax!Destroy(e)
  BY <1>6, DestroyKeepsCache
<1>7. CASE Syntax!UpdateData
  BY <1>7 DEF Syntax!UpdateData, CacheInv
<1>8. CASE UNCHANGED Syntax!vars
  BY <1>8 DEF Syntax!vars, CacheInv
<1> QED
  BY <1>1, <1>2, <1>3, <1>4, <1>5, <1>6, <1>7, <1>8 DEF Syntax!Next

-----------------------------------------------------------------------------
(* Syntax definitions: what settled editors show.                          *)

\* Several editors share one load if their first candidates agree, whatever follows:
\* those that fall back from the same unusable definition fall back to the same ones.
SharedFallback ==
  \A n, m \in FileName : \A i \in DOMAIN Candidates[n], j \in DOMAIN Candidates[m] :
    Candidates[n][i] = Candidates[m][j] /\ Candidates[n][i] \in Unusable =>
      SubSeq(Candidates[n], i, Len(Candidates[n])) = SubSeq(Candidates[m], j, Len(Candidates[m]))

IsSubject(keys, k) ==
  \E n \in FileName, dark \in BOOLEAN : \E i \in DOMAIN Candidates[n] :
    keys = Suffix(Syntax!KeysOf(n, dark), i) /\ k = <<Candidates[n][i], dark>>

\* An editor that waits is answered with what is best for its file, or asks no longer.
IsWaiter(w, ds) ==
  /\ w.editor \in Editor /\ w.generation \in Nat
  /\ w.generation <= ds[w.editor].generation
IsAnswered(w, ds, l) ==
  w.generation = ds[w.editor].generation =>
    /\ ds[w.editor].name \in FileName
    /\ SameBest(l.keys, Syntax!KeysOf(ds[w.editor].name, ds[w.editor].dark))
AreWaiters(ws, ls, ds) ==
  /\ ws = [k \in Syntax!Key |-> ws[k]]
  /\ \A k \in Syntax!Key : \A w \in ws[k] :
       IsWaiter(w, ds) /\ IsAnswered(w, ds, ls[k]) /\ IsSubject(ls[k].keys, k)
ShowsBest(d) ==
  d.alive /\ d.name # None /\ ~d.pending => IsBest(Syntax!KeysOf(d.name, d.dark), d.syntax)
EditorInv == AreWaiters(waiting, loads, editors) /\ \A e \in Editor : ShowsBest(editors[e])

LEMMA EditorInit == InitAll => EditorInv
<1> SUFFICES ASSUME Syntax!Init PROVE EditorInv
  BY DEF InitAll
<1>1. AreWaiters(waiting, loads, editors)
  BY DEF Syntax!Init, AreWaiters
<1>2. \A e \in Editor : ShowsBest(editors[e])
  BY DEF Syntax!Init, ShowsBest
<1> QED
  BY <1>1, <1>2 DEF EditorInv

LEMMA SuffixBest ==
  ASSUME NEW keys \in Seq(Syntax!Key), NEW i \in DOMAIN keys, \A j \in UsableIn(keys) : i <= j
  PROVE  SameBest(Suffix(keys, i), keys)
<1> DEFINE rest == Suffix(keys, i)
           n == Len(keys) - i + 1
<1>1. i \in 1..Len(keys) /\ Len(keys) \in Nat /\ n \in Nat /\ DOMAIN keys = 1..Len(keys)
  OBVIOUS
<1>2. DOMAIN rest = 1..n /\ \A j \in 1..n : rest[j] = keys[i + j - 1]
  <2>1. rest \in Seq(Syntax!Key) /\ Len(rest) = n /\ \A j \in 1..n : rest[j] = keys[i + j - 1]
    BY SuffixType
  <2> HIDE DEF rest, n
  <2> QED
    BY <2>1
<1> HIDE DEF rest
<1>3. ASSUME NEW j \in UsableIn(rest) PROVE j \in 1..n /\ i + j - 1 \in UsableIn(keys)
  <2>1. j \in 1..n /\ i + j - 1 \in DOMAIN keys
    BY <1>1, <1>2 DEF UsableIn
  <2> QED
    BY <1>2, <2>1 DEF UsableIn
<1>4. ASSUME NEW j \in UsableIn(keys) PROVE j - i + 1 \in UsableIn(rest)
  <2>1. j \in 1..Len(keys) /\ i <= j
    BY <1>1 DEF UsableIn
  <2>2. j - i + 1 \in 1..n /\ i + (j - i + 1) - 1 = j
    BY <1>1, <2>1
  <2>3. rest[j - i + 1] = keys[j]
    BY <1>2, <2>2
  <2> QED
    BY <1>2, <2>2, <2>3 DEF UsableIn
<1> SUFFICES ASSUME NEW c, IsBest(rest, c) PROVE IsBest(keys, c)
  BY DEF SameBest, rest
<1>5. CASE UsableIn(rest) = {}
  BY <1>4, <1>5 DEF IsBest
<1>6. CASE UsableIn(rest) # {}
  <2>1. PICK p \in UsableIn(rest) : (\A j \in UsableIn(rest) : p <= j) /\ c # None /\ c.key = rest[p]
    BY <1>6 DEF IsBest
  <2>2. i + p - 1 \in UsableIn(keys) /\ p \in 1..n /\ rest[p] = keys[i + p - 1]
    BY <1>2, <1>3
  <2>3. ASSUME NEW j \in UsableIn(keys) PROVE i + p - 1 <= j
    <3>1. p <= j - i + 1
      BY <1>4, <2>1
    <3>2. j \in 1..Len(keys)
      BY <1>1 DEF UsableIn
    <3> QED
      BY <1>1, <2>2, <3>1, <3>2
  <2>4. c.key = keys[i + p - 1]
    BY <2>1, <2>2
  <2> QED
    BY <2>1, <2>2, <2>3, <2>4 DEF IsBest
<1> QED
  BY <1>5, <1>6

\* Of candidates whose first is usable this one is the best.
LEMMA FirstIsBest ==
  ASSUME NEW keys \in Seq(Syntax!Key), keys # <<>>, NEW c
  PROVE  keys[1][1] \notin Unusable => (IsBest(keys, c) <=> c # None /\ c.key = keys[1])
<1>1. DOMAIN keys = 1..Len(keys) /\ Len(keys) \in Nat /\ 1 \in DOMAIN keys
  OBVIOUS
<1> SUFFICES ASSUME keys[1][1] \notin Unusable
             PROVE  IsBest(keys, c) <=> c # None /\ c.key = keys[1]
  OBVIOUS
<1>2. 1 \in UsableIn(keys) /\ \A j \in UsableIn(keys) : j \in Nat /\ 1 <= j
  BY <1>1 DEF UsableIn
<1>3. ASSUME NEW i \in UsableIn(keys), \A j \in UsableIn(keys) : i <= j PROVE i = 1
  BY <1>2, <1>3
<1> QED
  BY <1>2, <1>3 DEF IsBest

LEMMA SubjectType ==
  ASSUME NEW k, NEW keys, IsSubject(keys, k)
  PROVE  keys \in Seq(Syntax!Key) /\ keys # <<>> /\ keys[1] = k
<1>1. PICK n \in FileName, dark \in BOOLEAN, i \in Nat : /\ i \in DOMAIN Candidates[n]
        /\ keys = Suffix(Syntax!KeysOf(n, dark), i) /\ k = <<Candidates[n][i], dark>>
  BY SyntaxAssumption DEF IsSubject
<1>2. Candidates[n] \in Seq(Syntax!Definition)
  BY SyntaxAssumption
<1>3. /\ Syntax!KeysOf(n, dark) \in Seq(Syntax!Key) /\ i \in DOMAIN Syntax!KeysOf(n, dark)
      /\ Syntax!KeysOf(n, dark)[i] = k
  BY <1>1, <1>2, KeysOfType
<1>4. /\ keys \in Seq(Syntax!Key) /\ keys # <<>>
      /\ \A j \in 1..Len(Syntax!KeysOf(n, dark)) - i + 1 : keys[j] = Syntax!KeysOf(n, dark)[i + j - 1]
  BY <1>1, <1>3, SuffixType
<1>5. 1 \in 1..Len(Syntax!KeysOf(n, dark)) - i + 1 /\ i + 1 - 1 = i
  BY <1>3
<1> QED
  BY <1>3, <1>4, <1>5

Themed(names, dark) == [p \in 1..Len(names) |-> <<names[p], dark>>]

LEMMA KeysOfRest ==
  ASSUME NEW n \in FileName, NEW dark \in BOOLEAN, NEW i \in DOMAIN Candidates[n]
  PROVE  Suffix(Syntax!KeysOf(n, dark), i)
           = Themed(SubSeq(Candidates[n], i, Len(Candidates[n])), dark)
<1> DEFINE names == Candidates[n]
           keys == Syntax!KeysOf(n, dark)
           rest == SubSeq(names, i, Len(names))
<1>1. names \in Seq(Syntax!Definition) /\ i \in DOMAIN names
  BY SyntaxAssumption
<1>2. keys \in Seq(Syntax!Key) /\ Len(keys) = Len(names) /\ \A j \in DOMAIN names : keys[j] = <<names[j], dark>>
  BY KeysOfType
<1> HIDE DEF names, keys
<1>3. i \in 1..Len(names) /\ Len(names) \in Nat /\ DOMAIN names = 1..Len(names)
  BY <1>1
<1>4. rest \in Seq(Syntax!Definition) /\ Len(rest) = Len(names) - i + 1
  BY <1>1, <1>3
<1>5. \A j \in 1..Len(names) - i + 1 : rest[j] = names[i + j - 1]
  BY <1>1, <1>3
<1>6. i \in DOMAIN keys
  BY <1>2, <1>3
<1>7. /\ Suffix(keys, i) \in Seq(Syntax!Key) /\ Len(Suffix(keys, i)) = Len(keys) - i + 1
      /\ \A j \in 1..Len(keys) - i + 1 : Suffix(keys, i)[j] = keys[i + j - 1]
  BY <1>2, <1>6, SuffixType
<1> HIDE DEF rest
<1>8. \A j \in 1..Len(rest) : Suffix(keys, i)[j] = <<rest[j], dark>>
  <2> SUFFICES ASSUME NEW j \in 1..Len(rest) PROVE Suffix(keys, i)[j] = <<rest[j], dark>>
    OBVIOUS
  <2>1. j \in 1..Len(names) - i + 1 /\ i + j - 1 \in DOMAIN names
    BY <1>3, <1>4
  <2> QED
    BY <1>2, <1>5, <1>7, <2>1
<1>9. Suffix(keys, i) = [j \in 1..Len(rest) |-> <<rest[j], dark>>]
  <2>1. Suffix(keys, i) = [j \in 1..Len(rest) |-> Suffix(keys, i)[j]]
    BY <1>2, <1>4, <1>7
  <2> QED
    BY <1>8, <2>1
<1> QED
  BY <1>9 DEF names, keys, rest, Themed

\* Whoever asks with the same first candidate may share the load.
LEMMA SharedBest ==
  ASSUME SharedFallback, NEW k, NEW keys, NEW others, IsSubject(keys, k), IsSubject(others, k)
  PROVE  SameBest(keys, others)
<1>1. CASE k[1] \notin Unusable
  <2>1. ASSUME NEW c, IsBest(keys, c) PROVE IsBest(others, c)
    BY <1>1, <2>1, SubjectType, FirstIsBest
  <2> QED
    BY <2>1 DEF SameBest
<1>2. CASE k[1] \in Unusable
  <2>1. PICK n \in FileName, dark \in BOOLEAN, i \in Nat : /\ i \in DOMAIN Candidates[n]
          /\ keys = Suffix(Syntax!KeysOf(n, dark), i) /\ k = <<Candidates[n][i], dark>>
    BY SyntaxAssumption DEF IsSubject
  <2>2. PICK m \in FileName, dim \in BOOLEAN, j \in Nat : /\ j \in DOMAIN Candidates[m]
          /\ others = Suffix(Syntax!KeysOf(m, dim), j) /\ k = <<Candidates[m][j], dim>>
    BY SyntaxAssumption DEF IsSubject
  <2>3. Candidates[n][i] = Candidates[m][j] /\ dark = dim /\ Candidates[n][i] \in Unusable
    BY <1>2, <2>1, <2>2
  <2>4. SubSeq(Candidates[n], i, Len(Candidates[n])) = SubSeq(Candidates[m], j, Len(Candidates[m]))
    BY <2>1, <2>2, <2>3 DEF SharedFallback
  <2>5. keys = others
    BY <2>1, <2>2, <2>3, <2>4, KeysOfRest, ZenonT(30)
  <2> QED
    BY <2>5 DEF SameBest
<1> QED
  BY <1>1, <1>2

\* An editor keeps its request or makes another one.
Follows(f, d) ==
  \/ f.generation = d.generation /\ f.name = d.name /\ f.dark = d.dark
  \/ f.generation = d.generation + 1

LEMMA StillWaits ==
  ASSUME NEW ds, NEW es, AreEditors(ds), AreEditors(es),
         \A e \in Editor : Follows(es[e], ds[e]),
         NEW w, NEW l, IsWaiter(w, ds), IsAnswered(w, ds, l)
  PROVE  IsWaiter(w, es) /\ IsAnswered(w, es, l)
<1> DEFINE d == ds[w.editor]
           f == es[w.editor]
<1>1. IsEditor(d) /\ Follows(f, d) /\ w.generation \in Nat /\ w.generation <= d.generation
  BY DEF IsWaiter, AreEditors
<1>2. d.generation \in Nat
  BY <1>1 DEF IsEditor
<1>3. CASE f.generation = d.generation /\ f.name = d.name /\ f.dark = d.dark
  BY <1>3 DEF IsWaiter, IsAnswered
<1>4. CASE f.generation = d.generation + 1
  <2>1. w.generation <= f.generation /\ w.generation # f.generation
    BY <1>1, <1>2, <1>4
  <2> QED
    BY <2>1 DEF IsWaiter, IsAnswered
<1> QED
  BY <1>1, <1>3, <1>4 DEF Follows

LEMMA WaitersStay ==
  ASSUME NEW ws, NEW ls, NEW ds, NEW es, AreWaiters(ws, ls, ds), AreEditors(ds), AreEditors(es),
         \A e \in Editor : Follows(es[e], ds[e])
  PROVE  AreWaiters(ws, ls, es)
  BY StillWaits DEF AreWaiters

\* Only one editor changes: it asks anew, and shows what is best or waits.
LEMMA EditorMoves ==
  ASSUME CacheInv, NEW e \in Editor, NEW n \in FileName, NEW dark \in BOOLEAN, NEW p, NEW c,
         editors' = [editors EXCEPT ![e] = Asks(editors[e], n, dark, p, c)],
         p \/ IsBest(Syntax!KeysOf(n, dark), c),
         \A f \in Editor : ShowsBest(editors[f])
  PROVE  /\ \A f \in Editor : Follows(editors'[f], editors[f]) /\ ShowsBest(editors'[f])
         /\ editors'[e].name = n /\ editors'[e].dark = dark
         /\ editors'[e].generation = editors[e].generation + 1
<1> DEFINE d == Asks(editors[e], n, dark, p, c)
<1>1. AreEditors(editors)
  BY DEF CacheInv
<1>2. /\ d.name = n /\ d.dark = dark /\ d.pending = p /\ d.syntax = c
      /\ d.generation = editors[e].generation + 1
  BY <1>1, EditorAsks
<1> HIDE DEF d
<1>3. editors' = [f \in Editor |-> IF f = e THEN d ELSE editors[f]]
  BY <1>1 DEF AreEditors, d
<1>4. editors'[e] = d
  BY <1>3
<1>5. ASSUME NEW f \in Editor, f # e PROVE editors'[f] = editors[f]
  BY <1>3, <1>5
<1>6. Follows(d, editors[e]) /\ ShowsBest(d)
  BY <1>2 DEF Follows, ShowsBest
<1>7. ASSUME NEW f \in Editor PROVE Follows(editors'[f], editors[f]) /\ ShowsBest(editors'[f])
  <2>1. CASE f = e
    BY <1>4, <1>6, <2>1
  <2>2. CASE f # e
    BY <1>5, <2>2 DEF Follows
  <2> QED
    BY <2>1, <2>2
<1> QED
  BY <1>2, <1>4, <1>7

LEMMA ReloadShowsBest ==
  ASSUME CacheInv, CacheInv', EditorInv, NEW e \in Editor, Syntax!ReloadSyntaxDefinitions(e)
  PROVE  EditorInv'
<1> DEFINE n == editors[e].name
           dark == editors[e].dark
           unknown == [k \in Syntax!Key |-> Unknown]
           t == Syntax!Tried(Syntax!KeysOf(n, dark), unknown)
<1>1. IsEditor(editors[e]) /\ AreEditors(editors) /\ AreEditors(editors')
  BY DEF CacheInv, AreEditors
<1>2. n \in FileName /\ dark \in BOOLEAN
  BY <1>1 DEF IsEditor, Syntax!ReloadSyntaxDefinitions
<1>3. editors' = [editors EXCEPT ![e] = Asks(editors[e], n, dark, FALSE, Syntax!Found(t))]
  BY <1>1, AnsweredAtOnce DEF Syntax!ReloadSyntaxDefinitions
<1>4. IsTried(t, Syntax!KeysOf(n, dark), 0)
  <2>1. IsKnown(unknown, 0)
    BY DEF IsKnown
  <2> QED
    BY <1>2, <2>1, KeysOfType, TriedIsBest DEF CacheInv
<1>5. IsBest(Syntax!KeysOf(n, dark), Syntax!Found(t))
  BY <1>4 DEF IsTried
<1> HIDE DEF n, dark, t
<1>6. \A f \in Editor : Follows(editors'[f], editors[f]) /\ ShowsBest(editors'[f])
  BY <1>2, <1>3, <1>5, EditorMoves DEF EditorInv
<1>7. AreWaiters(waiting, loads, editors')
  BY <1>1, <1>6, WaitersStay DEF EditorInv
<1> QED
  BY <1>6, <1>7 DEF EditorInv, Syntax!ReloadSyntaxDefinitions

LEMMA SchemeShowsBest ==
  ASSUME CacheInv, CacheInv', EditorInv, NEW e \in Editor, Syntax!SetColorScheme(e)
  PROVE  EditorInv'
<1> DEFINE n == editors[e].name
           dark == ~editors[e].dark
           t == Syntax!Tried(Syntax!KeysOf(n, dark), cache)
<1>1. IsEditor(editors[e]) /\ AreEditors(editors) /\ AreEditors(editors')
  BY DEF CacheInv, AreEditors
<1>2. n \in FileName /\ dark \in BOOLEAN
  BY <1>1 DEF IsEditor, Syntax!SetColorScheme
<1>3. editors' = [editors EXCEPT ![e] = Asks(editors[e], n, dark, FALSE, Syntax!Found(t))]
  <2>1. Syntax!Answered(Syntax!Asked(e, n, dark), Syntax!Found(t))
          = Asks(editors[e], n, dark, FALSE, Syntax!Found(t))
    BY <1>1, AnsweredAtOnce
  <2> QED
    BY <2>1 DEF Syntax!SetColorScheme, Syntax!LoadNow
<1>4. IsTried(t, Syntax!KeysOf(n, dark), epoch)
  BY <1>2, KeysOfType, TriedIsBest DEF CacheInv
<1>5. IsBest(Syntax!KeysOf(n, dark), Syntax!Found(t))
  BY <1>4 DEF IsTried
<1> HIDE DEF n, dark, t
<1>6. \A f \in Editor : Follows(editors'[f], editors[f]) /\ ShowsBest(editors'[f])
  BY <1>2, <1>3, <1>5, EditorMoves DEF EditorInv
<1>7. AreWaiters(waiting, loads, editors')
  BY <1>1, <1>6, WaitersStay DEF EditorInv
<1> QED
  BY <1>6, <1>7 DEF EditorInv, Syntax!SetColorScheme

LEMMA DestroyShowsBest ==
  ASSUME CacheInv, CacheInv', EditorInv, NEW e \in Editor, Syntax!Destroy(e)
  PROVE  EditorInv'
<1> DEFINE d == [editors[e] EXCEPT !.alive = FALSE]
<1>1. IsEditor(editors[e]) /\ AreEditors(editors) /\ AreEditors(editors')
  BY DEF CacheInv, AreEditors
<1>2. /\ d.name = editors[e].name /\ d.dark = editors[e].dark
      /\ d.generation = editors[e].generation /\ ~d.alive
  BY <1>1, Destroyed
<1>3. editors' = [editors EXCEPT ![e] = d]
  BY DEF Syntax!Destroy
<1> HIDE DEF d
<1>4. editors' = [f \in Editor |-> IF f = e THEN d ELSE editors[f]]
  BY <1>1, <1>3 DEF AreEditors
<1>5. Follows(d, editors[e]) /\ ShowsBest(d)
  BY <1>2 DEF Follows, ShowsBest
<1>6. ASSUME NEW f \in Editor PROVE Follows(editors'[f], editors[f]) /\ ShowsBest(editors'[f])
  <2>1. CASE f = e
    BY <1>4, <1>5, <2>1
  <2>2. CASE f # e
    BY <1>4, <2>2 DEF Follows, EditorInv
  <2> QED
    BY <2>1, <2>2
<1>7. AreWaiters(waiting, loads, editors')
  BY <1>1, <1>6, WaitersStay DEF EditorInv
<1> QED
  BY <1>6, <1>7 DEF EditorInv, Syntax!Destroy

\* Only those asking for this very definition are told of it.
LEMMA DeliverShowsBest ==
  ASSUME CacheInv, CacheInv', EditorInv, NEW k \in Syntax!Key, Syntax!Deliver(k)
  PROVE  EditorInv'
<1>1. AreEditors(editors) /\ AreEditors(editors') /\ editors' = Syntax!AnswerAll(k)
  BY DEF CacheInv, Syntax!Deliver
<1>2. IsBest(loads[k].keys, Syntax!Found(loads[k].tried))
  BY DEF CacheInv, AreLoads, IsLoad, IsTried, Syntax!Deliver
<1>3. ASSUME NEW e \in Editor PROVE Follows(editors'[e], editors[e]) /\ ShowsBest(editors'[e])
  <2>1. /\ editors'[e].name = editors[e].name /\ editors'[e].dark = editors[e].dark
        /\ editors'[e].generation = editors[e].generation
    BY <1>1, AnswerChanges
  <2>2. CASE editors'[e] = editors[e]
    BY <2>1, <2>2 DEF Follows, EditorInv
  <2>3. CASE /\ \E w \in waiting[k] : Syntax!Awaits(e, w)
             /\ editors'[e].syntax = Syntax!Found(loads[k].tried)
    <3>1. PICK w \in waiting[k] : w.editor = e /\ w.generation = editors[e].generation
      BY <2>3 DEF Syntax!Awaits
    <3>2. SameBest(loads[k].keys, Syntax!KeysOf(editors[e].name, editors[e].dark))
      BY <3>1 DEF EditorInv, AreWaiters, IsAnswered
    <3>3. IsBest(Syntax!KeysOf(editors[e].name, editors[e].dark), Syntax!Found(loads[k].tried))
      BY <1>2, <3>2 DEF SameBest
    <3> QED
      BY <2>1, <2>3, <3>3 DEF Follows, ShowsBest
  <2> QED
    BY <1>1, <2>2, <2>3, AnswerChanges
<1>4. AreWaiters(waiting, loads, editors')
  BY <1>1, <1>3, WaitersStay DEF EditorInv
<1>5. AreWaiters(waiting', loads', editors')
  <2>1. waiting' = [waiting EXCEPT ![k] = {}] /\ loads' = [loads EXCEPT ![k] = None]
    BY DEF Syntax!Deliver
  <2>2. waiting' = [j \in Syntax!Key |-> IF j = k THEN {} ELSE waiting[j]]
    BY <1>4, <2>1 DEF AreWaiters
  <2>3. loads' = [j \in Syntax!Key |-> IF j = k THEN None ELSE loads[j]]
    BY <2>1 DEF CacheInv, AreLoads
  <2> QED
    BY <1>4, <2>2, <2>3 DEF AreWaiters
<1> QED
  BY <1>3, <1>5 DEF EditorInv

LEMMA ParseShowsBest ==
  ASSUME CacheInv, CacheInv', EditorInv, NEW k \in Syntax!Key, Syntax!Parse(k)
  PROVE  EditorInv'
<1>1. IsLoad(loads[k], epoch) /\ loads = [j \in Syntax!Key |-> loads[j]]
      /\ loads' = [j \in Syntax!Key |-> loads'[j]]
  BY DEF CacheInv, AreLoads, Syntax!Parse
<1>2. \A j \in Syntax!Key : j # k => loads'[j] = loads[j]
  BY <1>1 DEF Syntax!Parse
<1>3. loads'[k].keys = loads[k].keys
  BY <1>1 DEF Syntax!Parse, IsLoad
<1>4. AreWaiters(waiting, loads', editors)
  BY <1>2, <1>3 DEF EditorInv, AreWaiters, IsAnswered
<1> QED
  BY <1>4 DEF EditorInv, Syntax!Parse

LEMMA SetNameShowsBest ==
  ASSUME SharedFallback, CacheInv, CacheInv', EditorInv,
         NEW e \in Editor, NEW n \in FileName, Syntax!SetSyntaxFileName(e, n)
  PROVE  EditorInv'
<1> DEFINE dark == editors[e].dark
           full == Syntax!KeysOf(n, dark)
           keys == Syntax!Remaining(full)
           k == keys[1]
<1>1. AreEditors(editors) /\ AreEditors(editors') /\ dark \in BOOLEAN
  BY DEF CacheInv, AreEditors, IsEditor
<1>2. full \in Seq(Syntax!Key) /\ IsKnown(cache, epoch)
  BY <1>1, KeysOfType DEF CacheInv
<1>3. keys = <<>> => IsBest(full, None)
  <2>1. ASSUME NEW i \in DOMAIN full, keys = Suffix(full, i) PROVE keys # <<>>
    BY <1>2, <2>1, SuffixType
  <2> QED
    BY <1>2, <2>1, RemainingIsBest
<1>4. keys # <<>> => /\ IsSubject(keys, k) /\ SameBest(keys, full) /\ cache[k] # None
  <2> SUFFICES ASSUME keys # <<>> PROVE IsSubject(keys, k) /\ SameBest(keys, full) /\ cache[k] # None
    OBVIOUS
  <2>1. PICK i \in DOMAIN full : /\ keys = Suffix(full, i) /\ cache[full[i]] # None
                                 /\ \A j \in UsableIn(full) : i <= j
    BY <1>2, RemainingIsBest
  <2>2. DOMAIN full = DOMAIN Candidates[n] /\ full[i] = <<Candidates[n][i], dark>>
    <3>1. /\ full \in Seq(Syntax!Key) /\ Len(full) = Len(Candidates[n])
          /\ \A j \in DOMAIN Candidates[n] : full[j] = <<Candidates[n][j], dark>>
      BY <1>1, KeysOfType
    <3>2. Candidates[n] \in Seq(Syntax!Definition)
      BY SyntaxAssumption
    <3> HIDE DEF full
    <3>3. DOMAIN full = 1..Len(full) /\ DOMAIN Candidates[n] = 1..Len(Candidates[n])
      BY <3>1, <3>2
    <3> QED
      BY <3>1, <3>3
  <2>3. IsSubject(keys, full[i])
    BY <1>1, <2>1, <2>2 DEF IsSubject
  <2>4. k = full[i]
    BY <2>3, SubjectType
  <2>5. SameBest(keys, full)
    BY <1>2, <2>1, SuffixBest
  <2> QED
    BY <2>1, <2>3, <2>4, <2>5
<1>5. CASE keys = <<>> \/ (keys # <<>> /\ Syntax!Known(k))
  <2> DEFINE c == IF keys = <<>> THEN None ELSE cache[k]
  <2>1. /\ editors' = [editors EXCEPT ![e] = Syntax!Answered(Syntax!Asked(e, n, dark), c)]
        /\ waiting' = waiting /\ loads' = loads
    BY <1>5 DEF Syntax!SetSyntaxFileName
  <2>2. Syntax!Answered(Syntax!Asked(e, n, dark), c) = Asks(editors[e], n, dark, FALSE, c)
    BY <1>1, AnsweredAtOnce
  <2>3. IsBest(full, c)
    <3>1. CASE keys = <<>>
      BY <1>3, <3>1
    <3>2. CASE keys # <<>>
      <4>1. IsSubject(keys, k) /\ cache[k] # None /\ cache[k] # Unknown /\ c = cache[k]
        BY <1>4, <1>5, <3>2 DEF Syntax!Known
      <4>2. keys \in Seq(Syntax!Key) /\ k \in Syntax!Key
        <5>1. keys \in Seq(Syntax!Key)
          BY <4>1, SubjectType
        <5> HIDE DEF keys
        <5> QED
          BY <3>2, <5>1
      <4>3. IsFresh(k, cache[k], epoch)
        BY <1>2, <4>1, <4>2 DEF IsKnown
      <4>4. k[1] \notin Unusable /\ cache[k].key = k
        BY <4>1, <4>2, <4>3, FreshIsUsable
      <4>5. IsBest(keys, c)
        BY <3>2, <4>1, <4>2, <4>4, FirstIsBest
      <4> QED
        BY <1>4, <3>2, <4>5 DEF SameBest
    <3> QED
      BY <3>1, <3>2
  <2> HIDE DEF c, full, dark, keys
  <2>4. \A f \in Editor : Follows(editors'[f], editors[f]) /\ ShowsBest(editors'[f])
    BY <1>1, <2>1, <2>2, <2>3, EditorMoves DEF EditorInv, full
  <2>5. AreWaiters(waiting, loads, editors')
    BY <1>1, <2>4, WaitersStay DEF EditorInv
  <2> QED
    BY <2>1, <2>4, <2>5 DEF EditorInv
<1>6. CASE keys # <<>> /\ ~Syntax!Known(k)
  <2> DEFINE w == [editor |-> e, generation |-> editors[e].generation + 1]
             load == [keys |-> keys, known |-> cache, epoch |-> epoch, tried |-> <<>>]
  <2>1. /\ editors' = [editors EXCEPT ![e] =
             [Syntax!Asked(e, n, dark) EXCEPT !.pending = TRUE, !.syntax = None]]
        /\ waiting' = [waiting EXCEPT ![k] =
             @ \union {[editor |-> e, generation |-> Syntax!Asked(e, n, dark).generation]}]
        /\ loads' = IF waiting[k] # {} THEN loads ELSE [loads EXCEPT ![k] = load]
    BY <1>6 DEF Syntax!SetSyntaxFileName
  <2>2. /\ [Syntax!Asked(e, n, dark) EXCEPT !.pending = TRUE, !.syntax = None]
             = Asks(editors[e], n, dark, TRUE, None)
        /\ Syntax!Asked(e, n, dark).generation = editors[e].generation + 1
    <3>1. Syntax!Asked(e, n, dark).generation = editors[e].generation + 1
      BY <1>1 DEF Syntax!Asked, AreEditors, IsEditor
    <3> QED
      BY <1>1, <3>1, Awaiting
  <2>3. IsSubject(keys, k) /\ SameBest(keys, full) /\ k \in Syntax!Key
    <3>1. IsSubject(keys, k) /\ SameBest(keys, full)
      BY <1>4, <1>6
    <3>2. keys \in Seq(Syntax!Key)
      BY <3>1, SubjectType
    <3> HIDE DEF keys
    <3>3. k \in Syntax!Key
      BY <1>6, <3>2
    <3> QED
      BY <3>1, <3>3
  <2>4. load.keys = keys
    OBVIOUS
  <2> HIDE DEF load, full, dark, keys
  <2>5. /\ \A f \in Editor : Follows(editors'[f], editors[f]) /\ ShowsBest(editors'[f])
        /\ editors'[e].name = n /\ editors'[e].dark = dark
        /\ editors'[e].generation = editors[e].generation + 1
    <3>1. editors' = [editors EXCEPT ![e] = Asks(editors[e], n, dark, TRUE, None)]
      BY <2>1, <2>2
    <3>2. \A f \in Editor : ShowsBest(editors[f])
      BY DEF EditorInv
    <3> QED
      BY <1>1, <3>1, <3>2, EditorMoves
  <2>6. AreWaiters(waiting, loads, editors')
    BY <1>1, <2>5, WaitersStay DEF EditorInv
  <2>7. w.editor = e /\ w.generation = editors'[e].generation /\ IsWaiter(w, editors')
    <3>1. editors'[e].generation \in Nat
      BY <1>1 DEF AreEditors, IsEditor
    <3>2. w.editor = e /\ w.generation = editors'[e].generation
      BY <2>5
    <3> QED
      BY <3>1, <3>2 DEF IsWaiter
  <2>8. IsSubject(loads'[k].keys, k) /\ SameBest(loads'[k].keys, full)
    <3>1. CASE waiting[k] # {}
      <4>1. IsSubject(loads[k].keys, k)
        BY <2>3, <2>6, <3>1 DEF AreWaiters
      <4>2. SameBest(loads[k].keys, keys)
        BY <2>3, <4>1, SharedBest
      <4> QED
        BY <2>1, <2>3, <3>1, <4>1, <4>2 DEF SameBest
    <3>2. CASE waiting[k] = {}
      <4>1. loads'[k] = load
        BY <2>1, <2>3, <3>2 DEF CacheInv, AreLoads
      <4> QED
        BY <2>3, <2>4, <4>1
    <3> QED
      BY <3>1, <3>2
  <2>9. IsAnswered(w, editors', loads'[k])
    BY <2>5, <2>7, <2>8 DEF IsAnswered, full
  <2> HIDE DEF w
  <2>10. AreWaiters(waiting', loads', editors')
    <3>1. waiting' = [j \in Syntax!Key |-> IF j = k THEN waiting[k] \union {w} ELSE waiting[j]]
      BY <2>1, <2>2, <2>3, <2>6 DEF AreWaiters, w
    <3>2. ASSUME NEW j \in Syntax!Key, j # k PROVE loads'[j] = loads[j]
      BY <2>1, <3>2 DEF CacheInv, AreLoads
    <3>3. waiting[k] # {} => loads' = loads
      BY <2>1
    <3>4. ASSUME NEW j \in Syntax!Key, NEW x \in waiting'[j]
          PROVE  IsWaiter(x, editors') /\ IsAnswered(x, editors', loads'[j]) /\ IsSubject(loads'[j].keys, j)
      <4>1. CASE j # k
        BY <2>6, <3>1, <3>2, <4>1 DEF AreWaiters
      <4>2. CASE j = k /\ x \in waiting[k]
        BY <2>6, <3>3, <4>2 DEF AreWaiters
      <4>3. CASE j = k /\ x = w
        BY <2>7, <2>8, <2>9, <4>3
      <4> QED
        BY <3>1, <4>1, <4>2, <4>3
    <3>5. waiting' = [j \in Syntax!Key |-> waiting'[j]]
      BY <3>1
    <3> QED
      BY <3>4, <3>5 DEF AreWaiters
  <2> QED
    BY <2>5, <2>10 DEF EditorInv
<1> QED
  BY <1>5, <1>6

LEMMA EditorStays ==
  ASSUME SharedFallback, CacheInv, CacheInv', EditorInv, [Syntax!Next]_(Syntax!vars)
  PROVE  EditorInv'
<1>1. CASE \E e \in Editor, n \in FileName : Syntax!SetSyntaxFileName(e, n)
  BY <1>1, SetNameShowsBest
<1>2. CASE \E k \in Syntax!Key : Syntax!Parse(k)
  BY <1>2, ParseShowsBest
<1>3. CASE \E k \in Syntax!Key : Syntax!Deliver(k)
  BY <1>3, DeliverShowsBest
<1>4. CASE \E e \in Editor : Syntax!SetColorScheme(e)
  BY <1>4, SchemeShowsBest
<1>5. CASE \E e \in Editor : Syntax!ReloadSyntaxDefinitions(e)
  BY <1>5, ReloadShowsBest
<1>6. CASE \E e \in Editor : Syntax!Destroy(e)
  BY <1>6, DestroyShowsBest
<1>7. CASE Syntax!UpdateData
  BY <1>7 DEF Syntax!UpdateData, EditorInv
<1>8. CASE UNCHANGED Syntax!vars
  BY <1>8 DEF Syntax!vars, EditorInv
<1> QED
  BY <1>1, <1>2, <1>3, <1>4, <1>5, <1>6, <1>7, <1>8 DEF Syntax!Next

-----------------------------------------------------------------------------
(* What is shown is current.                                               *)

LEMMA CacheIsKept == CacheInv => Syntax!CacheSurvivesNoClear
<1> SUFFICES ASSUME CacheInv, NEW k \in Syntax!Key, cache[k] \notin {Unknown, None}
             PROVE  cache[k].data >= epoch
  BY DEF Syntax!CacheSurvivesNoClear
<1>1. IsFresh(k, cache[k], epoch)
  BY DEF CacheInv, IsKnown
<1> QED
  BY <1>1 DEF IsFresh

LEMMA SettledIsBest == CacheInv /\ EditorInv => Syntax!SettledEditorShowsItsFile
<1> SUFFICES ASSUME CacheInv, EditorInv PROVE Syntax!SettledEditorShowsItsFile
  OBVIOUS
<1>1. \A e \in Editor : ShowsBest(editors[e])
  BY DEF EditorInv
<1> QED
  BY <1>1 DEF ShowsBest, IsBest, UsableIn, Syntax!SettledEditorShowsItsFile

\* Definitions read before a clear do not come back, and comparisons shown are of the
\* texts in the panes: whatever the candidates of the file names are
\* (SyntaxLoader.cpp insertTried, MergeWidget.cpp finishPresentation).
THEOREM NothingStaleReturns ==
  SpecAll => [](Syntax!CacheSurvivesNoClear /\ Presenting!ShowsCurrentTexts)
<1> DEFINE Inv == CacheInv /\ PresentInv
<1>1. InitAll => Inv
  BY CacheInit, PresentInit
<1>2. Inv /\ [NextAll]_all => Inv'
  BY CacheStays, PresentStays, SyntaxSteps, PresentingSteps
<1>3. Inv => Syntax!CacheSurvivesNoClear /\ Presenting!ShowsCurrentTexts
  BY CacheIsKept DEF PresentInv
<1> HIDE DEF Inv
<1> QED
  BY <1>1, <1>2, <1>3, PTL DEF SpecAll

\* With candidates that agree after a shared unusable one, editors settle on the best
\* definition for their file too, whatever late answers they are sent
\* (SyntaxLoader.cpp loadSyntaxAsync, deliverLoad).
THEOREM ResultsStayCurrent ==
  ASSUME SharedFallback
  PROVE  SpecAll => []ResultsAreCurrent
<1> DEFINE Inv == CacheInv /\ PresentInv /\ EditorInv
<1>1. InitAll => Inv
  BY CacheInit, PresentInit, EditorInit
<1>2. Inv /\ [NextAll]_all => Inv'
  BY CacheStays, PresentStays, EditorStays, SyntaxSteps, PresentingSteps
<1>3. Inv => ResultsAreCurrent
  BY CacheIsKept, SettledIsBest DEF PresentInv, ResultsAreCurrent
<1> HIDE DEF Inv
<1> QED
  BY <1>1, <1>2, <1>3, PTL DEF SpecAll

-----------------------------------------------------------------------------
(* Reviewing a resolution: decisions and texts through every history.          *)

Moment == [result : Fragments \union {None}, plan : Decisions \union {None}]
Commands == [from : Fragments \union {None}, to : Fragments \union {None},
             before : Decisions \union {None}, after : Decisions \union {None}]

\* What is resolved in the text is decided in the plan, with this very text.
Agrees(r, p) ==
  r # None /\ p # None => \A c \in Conflict :
    r[c].state = "Resolved" =>
      /\ p[c].state \in Resolving!Decided /\ p[c].text = r[c].text
      /\ r[c].text # Markers /\ r[c].mapped

\* A command leads from one moment to the next, and its Undo back.
Leads(command, m, n) ==
  /\ command.from = m.result /\ command.to = n.result
  /\ m.result = None <=> n.result = None
  /\ m.plan = None <=> n.plan = None
  /\ IF m.plan # None /\ command.after # None
       THEN command.before = m.plan /\ command.after = n.plan
       ELSE command.before = None /\ command.after = None /\ n.plan = m.plan
History(ms, commands, at, now) ==
  /\ ms \in Seq(Moment) /\ commands \in Seq(Commands)
  /\ Len(ms) = Len(commands) + 1 /\ at \in 0..Len(commands)
  /\ \A i \in 1..Len(ms) : Agrees(ms[i].result, ms[i].plan)
  /\ \A i \in 1..Len(commands) : Leads(commands[i], ms[i], ms[i + 1])
  /\ ms[at + 1] = now
Now == [result |-> fragments, plan |-> plan]

LEMMA MomentAgrees ==
  ASSUME NEW ms, NEW commands, NEW at, NEW now, History(ms, commands, at, now)
  PROVE  now \in Moment /\ Agrees(now.result, now.plan) /\ at \in 0..Len(commands) /\ Len(commands) \in Nat
<1>1. at + 1 \in 1..Len(ms) /\ Len(commands) \in Nat
  BY DEF History
<1>2. ms[at + 1] = now /\ now \in Moment
  BY <1>1 DEF History
<1>3. Agrees(ms[at + 1].result, ms[at + 1].plan)
  BY <1>1 DEF History
<1> QED
  BY <1>1, <1>2, <1>3 DEF History

LEMMA BackLeads ==
  ASSUME NEW ms, NEW commands, NEW at, NEW now, History(ms, commands, at, now), at > 0
  PROVE  /\ History(ms, commands, at - 1, ms[at]) /\ ms[at] \in Moment
         /\ Leads(commands[at], ms[at], now) /\ commands[at] \in Commands
<1>1. at \in 1..Len(commands) /\ Len(commands) \in Nat /\ at \in 1..Len(ms) /\ at - 1 \in 0..Len(commands)
      /\ at - 1 + 1 = at
  BY DEF History
<1>2. commands[at] \in Commands /\ ms[at] \in Moment
  BY <1>1 DEF History
<1>3. Leads(commands[at], ms[at], now)
  BY <1>1 DEF History
<1>4. History(ms, commands, at - 1, ms[at])
  BY <1>1 DEF History
<1> QED
  BY <1>2, <1>3, <1>4

LEMMA ForthLeads ==
  ASSUME NEW ms, NEW commands, NEW at, NEW now, History(ms, commands, at, now), at < Len(commands)
  PROVE  /\ History(ms, commands, at + 1, ms[at + 2]) /\ ms[at + 2] \in Moment
         /\ Leads(commands[at + 1], now, ms[at + 2]) /\ commands[at + 1] \in Commands
<1>1. /\ at + 1 \in 1..Len(commands) /\ Len(commands) \in Nat /\ at + 2 \in 1..Len(ms)
      /\ at + 1 \in 0..Len(commands) /\ at + 1 + 1 = at + 2
  BY DEF History
<1>2. commands[at + 1] \in Commands /\ ms[at + 2] \in Moment
  BY <1>1 DEF History
<1>3. Leads(commands[at + 1], now, ms[at + 2])
  BY <1>1 DEF History
<1>4. History(ms, commands, at + 1, ms[at + 2])
  BY <1>1 DEF History
<1> QED
  BY <1>2, <1>3, <1>4

LEMMA PushLeads ==
  ASSUME NEW ms, NEW commands, NEW at, NEW now, History(ms, commands, at, now),
         NEW command \in Commands, NEW new \in Moment, Agrees(new.result, new.plan),
         Leads(command, now, new)
  PROVE  \E ns : History(ns, Append(SubSeq(commands, 1, at), command), at + 1, new)
<1> DEFINE ns == Append(SubSeq(ms, 1, at + 1), new)
           done == Append(SubSeq(commands, 1, at), command)
<1>1. /\ ms \in Seq(Moment) /\ commands \in Seq(Commands) /\ Len(ms) = Len(commands) + 1
      /\ at \in 0..Len(commands) /\ Len(commands) \in Nat /\ at \in Nat /\ at + 1 \in Nat /\ at + 2 \in Nat
  BY DEF History
<1>2. /\ SubSeq(ms, 1, at + 1) \in Seq(Moment) /\ Len(SubSeq(ms, 1, at + 1)) = at + 1
      /\ \A i \in 1..at + 1 : SubSeq(ms, 1, at + 1)[i] = ms[i]
  BY <1>1
<1>3. /\ SubSeq(commands, 1, at) \in Seq(Commands) /\ Len(SubSeq(commands, 1, at)) = at
      /\ \A i \in 1..at : SubSeq(commands, 1, at)[i] = commands[i]
  BY <1>1
<1>4. /\ ns \in Seq(Moment) /\ Len(ns) = at + 2 /\ ns[at + 2] = new
      /\ \A i \in 1..at + 1 : ns[i] = ms[i]
  BY <1>1, <1>2
<1>5. /\ done \in Seq(Commands) /\ Len(done) = at + 1 /\ done[at + 1] = command
      /\ \A i \in 1..at : done[i] = commands[i]
  BY <1>1, <1>3
<1> HIDE DEF ns, done
<1>6. ASSUME NEW i \in 1..Len(ns) PROVE Agrees(ns[i].result, ns[i].plan)
  <2>1. CASE i = at + 2
    BY <1>4, <2>1
  <2>2. CASE i # at + 2
    <3>1. i \in 1..at + 1 /\ i \in 1..Len(ms)
      BY <1>1, <1>4, <2>2
    <3> QED
      BY <1>4, <3>1 DEF History
  <2> QED
    BY <2>1, <2>2
<1>7. ASSUME NEW i \in 1..Len(done) PROVE Leads(done[i], ns[i], ns[i + 1])
  <2>1. CASE i = at + 1
    <3>1. ns[i] = now /\ ns[i + 1] = new
      BY <1>1, <1>4, <2>1 DEF History
    <3> QED
      BY <1>5, <2>1, <3>1
  <2>2. CASE i # at + 1
    <3>1. i \in 1..at /\ i \in 1..at + 1 /\ i + 1 \in 1..at + 1 /\ i \in 1..Len(commands)
      BY <1>1, <1>5, <2>2
    <3>2. ns[i] = ms[i] /\ ns[i + 1] = ms[i + 1] /\ done[i] = commands[i]
      BY <1>4, <1>5, <3>1
    <3> QED
      BY <3>1, <3>2 DEF History
  <2> QED
    BY <2>1, <2>2
<1>8. Len(ns) = Len(done) + 1 /\ at + 1 \in 0..Len(done) /\ ns[at + 1 + 1] = new
  BY <1>1, <1>4, <1>5
<1>9. History(ns, done, at + 1, new)
  BY <1>4, <1>5, <1>6, <1>7, <1>8 DEF History
<1> QED
  BY <1>9 DEF done

\* An analysis that nobody has cancelled works on what was loaded; what is saved is
\* what the user was asked about.
AnalysisIsUndisturbed ==
  running /\ ~token =>
    stack = <<>> /\ (Resolving!Loaded => fragments = Resolving!Seed /\ cleanFragments = Resolving!Seed)
ReadyHasPlan == ready /\ owner = "dialog" => Resolving!Loaded /\ plan # None
DraftAgrees == draft # None => draft \in Moment /\ Agrees(draft.result, draft.plan)
ResolverInv ==
  /\ \E ms : History(ms, stack, index, Now)
  /\ AnalysisIsUndisturbed /\ ReadyHasPlan /\ DraftAgrees
SavingIsShown ==
  asking # None => /\ owner = "dialog" /\ asking = Resolving!Texts(fragments)
                   /\ Resolving!Loaded /\ plan # None

LEMMA NoHistory ==
  ASSUME NEW now \in Moment, Agrees(now.result, now.plan)
  PROVE  \E ms : History(ms, <<>>, 0, now)
<1> DEFINE ms == <<now>>
<1>1. ms \in Seq(Moment) /\ Len(ms) = 1 /\ ms[1] = now
  OBVIOUS
<1>2. <<>> \in Seq(Commands) /\ Len(<<>>) = 0
  OBVIOUS
<1> HIDE DEF ms
<1>3. History(ms, <<>>, 0, now)
  BY <1>1, <1>2 DEF History
<1> QED
  BY <1>3

LEMMA OneCommand ==
  ASSUME NEW from \in Moment, NEW to \in Moment, Agrees(from.result, from.plan),
         Agrees(to.result, to.plan), NEW command \in Commands, Leads(command, from, to)
  PROVE  /\ \E ms : History(ms, <<command>>, 0, from)
         /\ \E ms : History(ms, <<command>>, 1, to)
<1> DEFINE ms == <<from, to>>
<1>1. ms \in Seq(Moment) /\ Len(ms) = 2 /\ ms[1] = from /\ ms[2] = to
  OBVIOUS
<1>2. <<command>> \in Seq(Commands) /\ Len(<<command>>) = 1 /\ <<command>>[1] = command
  OBVIOUS
<1> DEFINE cs == <<command>>
<1> HIDE DEF ms, cs
<1>3. \A i \in 1..Len(ms) : Agrees(ms[i].result, ms[i].plan)
  BY <1>1
<1>4. cs \in Seq(Commands) /\ Len(cs) = 1 /\ cs[1] = command
  BY <1>2 DEF cs
<1>5. History(ms, cs, 0, from)
  BY <1>1, <1>3, <1>4 DEF History
<1>6. History(ms, cs, 1, to)
  BY <1>1, <1>3, <1>4 DEF History
<1> QED
  BY <1>5, <1>6 DEF cs

LEMMA NowIs ==
  /\ Now.result = fragments /\ Now.plan = plan
  /\ \A m \in Moment : /\ m = [result |-> m.result, plan |-> m.plan]
                       /\ m.result \in Fragments \union {None} /\ m.plan \in Decisions \union {None}
<1>1. Now.result = fragments /\ Now.plan = plan
  BY DEF Now
<1>2. \A m \in Moment : /\ m = [result |-> m.result, plan |-> m.plan]
                        /\ m.result \in Fragments \union {None} /\ m.plan \in Decisions \union {None}
  BY DEF Moment
<1> QED
  BY <1>1, <1>2

LEMMA NowAgrees ==
  ASSUME ResolverInv
  PROVE  /\ Now \in Moment /\ Agrees(fragments, plan) /\ index \in 0..Len(stack) /\ Len(stack) \in Nat
         /\ fragments \in Fragments \union {None} /\ plan \in Decisions \union {None}
<1>1. PICK ms : History(ms, stack, index, Now)
  BY DEF ResolverInv
<1> QED
  BY <1>1, MomentAgrees, NowIs

LEMMA ResolverInit == InitAll => ResolverInv /\ SavingIsShown
<1> SUFFICES ASSUME Resolving!Init PROVE ResolverInv /\ SavingIsShown
  BY DEF InitAll
<1>1. Now \in Moment /\ Agrees(Now.result, Now.plan)
  BY DEF Resolving!Init, Now, Moment, Agrees
<1>2. \E ms : History(ms, stack, index, Now)
  BY <1>1, NoHistory DEF Resolving!Init
<1> QED
  BY <1>2 DEF Resolving!Init, ResolverInv, AnalysisIsUndisturbed, ReadyHasPlan, DraftAgrees,
              SavingIsShown

LEMMA UndoKeeps ==
  ASSUME ResolverInv, Resolving!Undo \/ Resolving!Redo
  PROVE  ResolverInv'
<1> USE DEF Resolving!analysis, Resolving!outside
<1>1. PICK ms : History(ms, stack, index, Now)
  BY DEF ResolverInv
<1>2. index \in 0..Len(stack) /\ Len(stack) \in Nat /\ Now.result = fragments /\ Now.plan = plan
  BY NowAgrees, NowIs
<1>3. PICK n : /\ n \in Moment /\ History(ms, stack, index', n)
               /\ fragments' = n.result /\ plan' = n.plan
               /\ (Resolving!Loaded <=> n.result # None) /\ (plan = None <=> n.plan = None)
  <2>1. CASE Resolving!Undo
    <3> DEFINE n == ms[index]
    <3>1. /\ History(ms, stack, index - 1, n) /\ n \in Moment
          /\ Leads(stack[index], n, Now) /\ stack[index] \in Commands
      BY <1>1, <2>1, BackLeads DEF Resolving!Undo
    <3>2. /\ index' = index - 1 /\ fragments' = stack[index].from
          /\ plan' = IF stack[index].before = None THEN plan ELSE stack[index].before
      BY <2>1 DEF Resolving!Undo
    <3> HIDE DEF n
    <3> QED
      BY <1>2, <3>1, <3>2 DEF Leads, Resolving!Loaded
  <2>2. CASE Resolving!Redo
    <3> DEFINE n == ms[index + 2]
    <3>1. /\ History(ms, stack, index + 1, n) /\ n \in Moment
          /\ Leads(stack[index + 1], Now, n) /\ stack[index + 1] \in Commands
      BY <1>1, <2>2, ForthLeads DEF Resolving!Redo
    <3>2. /\ index' = index + 1 /\ fragments' = stack[index + 1].to
          /\ plan' = IF stack[index + 1].after = None THEN plan ELSE stack[index + 1].after
      BY <2>2 DEF Resolving!Redo
    <3> HIDE DEF n
    <3> QED
      BY <1>2, <3>1, <3>2 DEF Leads, Resolving!Loaded
  <2> QED
    BY <2>1, <2>2
<1>4. n = [result |-> fragments', plan |-> plan']
  BY <1>3, NowIs
<1>5. stack' = stack /\ \E h : History(h, stack', index', Now')
  BY <1>3, <1>4 DEF Now, Resolving!Undo, Resolving!Redo
<1>6. stack # <<>>
  BY <1>2 DEF Resolving!Undo, Resolving!Redo
<1>7. AnalysisIsUndisturbed'
  BY <1>6 DEF Resolving!Undo, Resolving!Redo, Resolving!TokenAfter, ResolverInv, AnalysisIsUndisturbed
<1>8. ReadyHasPlan' /\ DraftAgrees'
  BY <1>3 DEF Resolving!Undo, Resolving!Redo, ResolverInv, ReadyHasPlan, DraftAgrees, Resolving!Loaded
<1> QED
  BY <1>5, <1>7, <1>8 DEF ResolverInv

LEMMA AnalysisKeeps ==
  ASSUME ResolverInv, \/ \E p \in DOMAIN Policy : Resolving!Analyze(p)
                      \/ Resolving!Work \/ Resolving!Cancel
  PROVE  ResolverInv'
<1> USE DEF Resolving!session, Resolving!analysis, Resolving!outside
<1>1. CASE \E p \in DOMAIN Policy : Resolving!Analyze(p)
  <2>1. PICK p \in DOMAIN Policy : Resolving!Analyze(p)
    BY <1>1
  <2>2. /\ Resolving!Loaded => fragments' = Resolving!Seed /\ cleanFragments' = Resolving!Seed
        /\ ~Resolving!Loaded => fragments' = fragments /\ cleanFragments' = cleanFragments
        /\ stack' = <<>> /\ index' = 0 /\ plan' = plan /\ ready' = ready /\ draft' = draft
        /\ owner' = owner
    BY <2>1 DEF Resolving!Analyze
  <2>3. Resolving!Seed \in Fragments /\ \A p1 : Agrees(Resolving!Seed, p1)
    BY DEF Resolving!Seed, Fragments, Words, Agrees
  <2>4. Now' \in Moment /\ Agrees(Now'.result, Now'.plan)
    <3>1. fragments' \in Fragments \union {None} /\ plan' \in Decisions \union {None}
      BY <2>2, <2>3, NowAgrees
    <3>2. Agrees(fragments', plan')
      BY <2>2, <2>3, NowAgrees DEF Agrees, Resolving!Loaded
    <3> QED
      BY <3>1, <3>2 DEF Now, Moment
  <2>5. \E ms : History(ms, stack', index', Now')
    BY <2>2, <2>4, NoHistory
  <2>6. Resolving!Loaded' <=> Resolving!Loaded
    BY <2>2, <2>3, ResolverAssumption DEF Resolving!Loaded
  <2> QED
    BY <2>2, <2>5, <2>6 DEF ResolverInv, AnalysisIsUndisturbed, ReadyHasPlan, DraftAgrees, Resolving!Loaded
<1>2. CASE Resolving!Work
  BY <1>2 DEF Resolving!Work, ResolverInv, AnalysisIsUndisturbed, ReadyHasPlan, DraftAgrees,
              Resolving!Loaded, Resolving!Seed, Now
<1>3. CASE Resolving!Cancel
  BY <1>3 DEF Resolving!Cancel, ResolverInv, AnalysisIsUndisturbed, ReadyHasPlan, DraftAgrees,
              Resolving!Loaded, Resolving!Seed, Now
<1> QED
  BY <1>1, <1>2, <1>3

\* What is pushed leads from now to a text and a plan that agree.
LEMMA PushKeeps ==
  ASSUME ResolverInv, Resolving!Loaded, NEW command \in Commands, NEW new \in Moment,
         Leads(command, Now, new), Agrees(new.result, new.plan), Resolving!Push(command),
         UNCHANGED <<cleanFragments, running, analysis, ready, analyses, owner, draft, asking>>,
         ~running \/ token'
  PROVE  ResolverInv'
<1>1. PICK ms : History(ms, stack, index, Now)
  BY DEF ResolverInv
<1>2. PICK ns : History(ns, Append(SubSeq(stack, 1, index), command), index + 1, new)
  BY <1>1, PushLeads
<1>3. /\ fragments' = new.result /\ plan' = new.plan
      /\ new.result # None /\ (plan # None => new.plan # None)
  <2>1. /\ fragments' = command.to
        /\ plan' = IF command.after = None THEN plan ELSE command.after
    BY DEF Resolving!Push
  <2> QED
    BY <2>1, NowIs DEF Leads, Resolving!Loaded
<1>4. new = Now'
  BY <1>3, NowIs DEF Now
<1>5. \E h : History(h, stack', index', Now')
  BY <1>2, <1>4 DEF Resolving!Push
<1>6. AnalysisIsUndisturbed' /\ ReadyHasPlan' /\ DraftAgrees'
  BY <1>3 DEF ResolverInv, AnalysisIsUndisturbed, ReadyHasPlan, DraftAgrees, Resolving!Loaded
<1> QED
  BY <1>5, <1>6 DEF ResolverInv

\* A fragment that changes while the decisions stay no longer counts as resolved.
LEMMA TextKeeps ==
  ASSUME ResolverInv, Resolving!Loaded, NEW r \in Fragments, Agrees(r, plan),
         Resolving!Push(Resolving!Command(fragments, r, None, None)),
         UNCHANGED <<cleanFragments, running, analysis, ready, analyses, owner, draft, asking>>,
         ~running \/ token'
  PROVE  ResolverInv'
<1> DEFINE command == Resolving!Command(fragments, r, None, None)
           new == [result |-> r, plan |-> plan]
<1>1. fragments \in Fragments \union {None} /\ plan \in Decisions \union {None} /\ fragments # None
      /\ r # None
  BY NowAgrees, ResolverAssumption DEF Resolving!Loaded
<1>2. command \in Commands /\ new \in Moment
  BY <1>1 DEF Commands, Moment, Resolving!Command
<1>3. /\ command.from = fragments /\ command.to = r /\ command.before = None /\ command.after = None
      /\ new.result = r /\ new.plan = plan
  BY DEF Resolving!Command
<1> HIDE DEF command, new
<1>4. Leads(command, Now, new)
  BY <1>1, <1>3, NowIs DEF Leads
<1>5. Resolving!Push(command)
  BY DEF command
<1> QED
  BY <1>2, <1>3, <1>4, <1>5, PushKeeps

\* A fragment changes together with the decision about it.
LEMMA BothKeep ==
  ASSUME ResolverInv, Resolving!Loaded, plan # None, NEW r \in Fragments, NEW p \in Decisions,
         Agrees(r, p), Resolving!Push(Resolving!Command(fragments, r, plan, p)), ~running,
         UNCHANGED <<cleanFragments, running, analysis, ready, analyses, owner, draft, asking>>
  PROVE  ResolverInv'
<1> DEFINE command == Resolving!Command(fragments, r, plan, p)
           new == [result |-> r, plan |-> p]
<1>1. fragments \in Fragments \union {None} /\ plan \in Decisions \union {None} /\ fragments # None
      /\ r # None /\ p # None
  BY NowAgrees, ResolverAssumption DEF Resolving!Loaded
<1>2. command \in Commands /\ new \in Moment
  BY <1>1 DEF Commands, Moment, Resolving!Command
<1>3. /\ command.from = fragments /\ command.to = r /\ command.before = plan /\ command.after = p
      /\ new.result = r /\ new.plan = p
  BY DEF Resolving!Command
<1> HIDE DEF command, new
<1>4. Leads(command, Now, new)
  BY <1>1, <1>3, NowIs DEF Leads
<1>5. Resolving!Push(command)
  BY DEF command
<1> QED
  BY <1>2, <1>3, <1>4, <1>5, PushKeeps

LEMMA FragmentChanges ==
  ASSUME NEW r \in Fragments, NEW c \in Conflict, NEW f,
         f \in [text : Words, state : {"Unresolved", "NeedsReview", "Resolved"}, mapped : BOOLEAN]
  PROVE  /\ [r EXCEPT ![c] = f] \in Fragments /\ [r EXCEPT ![c] = f][c] = f
         /\ \A d \in Conflict : d # c => [r EXCEPT ![c] = f][d] = r[d]
  BY DEF Fragments

LEMMA TypeKeeps ==
  ASSUME ResolverInv, NEW c \in Touched, NEW word \in {Edited, Markers}, NEW mapped \in BOOLEAN,
         Resolving!Type(c, word, mapped)
  PROVE  ResolverInv'
<1> USE DEF Resolving!analysis, Resolving!outside
<1> DEFINE f == [text |-> word, state |-> "NeedsReview", mapped |-> fragments[c].mapped /\ mapped]
           r == [fragments EXCEPT ![c] = f]
<1>1. c \in Conflict /\ fragments \in Fragments /\ Agrees(fragments, plan) /\ Resolving!Loaded
  BY NowAgrees, ResolverAssumption DEF Resolving!Type, Resolving!MayChange, Resolving!Loaded
<1>2. f \in [text : Words, state : {"Unresolved", "NeedsReview", "Resolved"}, mapped : BOOLEAN]
  <2>1. (fragments[c].mapped /\ mapped) \in BOOLEAN
    OBVIOUS
  <2> QED
    BY <2>1 DEF Words
<1>3. f.state = "NeedsReview"
  OBVIOUS
<1>4. Resolving!Push(Resolving!Command(fragments, r, None, None))
  BY DEF Resolving!Type
<1> HIDE DEF f
<1>5. r \in Fragments /\ r[c] = f /\ \A d \in Conflict : d # c => r[d] = fragments[d]
  BY <1>1, <1>2, FragmentChanges
<1> HIDE DEF r
<1>6. Agrees(r, plan)
  BY <1>1, <1>3, <1>5 DEF Agrees, Resolving!Loaded
<1>7. ~running \/ token'
  <2>1. CASE running /\ ~token
    <3>1. fragments = Resolving!Seed /\ cleanFragments = Resolving!Seed
      BY <1>1, <2>1 DEF ResolverInv, AnalysisIsUndisturbed
    <3>2. Resolving!Seed[c].state = "Unresolved"
      BY <1>1 DEF Resolving!Seed
    <3>3. r # cleanFragments
      BY <1>3, <1>5, <3>1, <3>2
    <3>4. fragments' = r
      BY <1>4 DEF Resolving!Push, Resolving!Command
    <3> QED
      BY <2>1, <3>3, <3>4 DEF Resolving!Type, Resolving!TokenAfter
  <2> QED
    BY <2>1 DEF Resolving!Type, Resolving!TokenAfter
<1> QED
  BY <1>1, <1>4, <1>5, <1>6, <1>7, TextKeeps DEF Resolving!Type

LEMMA ReviewKeeps ==
  ASSUME ResolverInv, NEW c \in Touched, Resolving!ReviewRange(c)
  PROVE  ResolverInv'
<1> USE DEF Resolving!analysis, Resolving!outside
<1> DEFINE f == [text |-> fragments[c].text, state |-> "NeedsReview", mapped |-> TRUE]
           r == [fragments EXCEPT ![c] = f]
<1>1. c \in Conflict /\ fragments \in Fragments /\ Agrees(fragments, plan) /\ Resolving!Loaded
  BY NowAgrees, ResolverAssumption DEF Resolving!ReviewRange, Resolving!MayChange, Resolving!Loaded
<1>2. fragments[c].text \in Words
  BY <1>1 DEF Fragments
<1>3. f \in [text : Words, state : {"Unresolved", "NeedsReview", "Resolved"}, mapped : BOOLEAN]
  BY <1>2
<1>4. f.state = "NeedsReview"
  OBVIOUS
<1>5. Resolving!Push(Resolving!Command(fragments, r, None, None)) /\ ~running
  BY DEF Resolving!ReviewRange
<1> HIDE DEF f
<1>6. r \in Fragments /\ r[c] = f /\ \A d \in Conflict : d # c => r[d] = fragments[d]
  BY <1>1, <1>3, FragmentChanges
<1> HIDE DEF r
<1>7. Agrees(r, plan)
  BY <1>1, <1>4, <1>6 DEF Agrees, Resolving!Loaded
<1> QED
  BY <1>1, <1>5, <1>6, <1>7, TextKeeps DEF Resolving!ReviewRange

LEMMA DecisionChanges ==
  ASSUME NEW p \in Decisions, NEW c \in Conflict, NEW d,
         d \in [state : Verdict,
                text : Words \union {None}]
  PROVE  /\ [p EXCEPT ![c] = d] \in Decisions /\ [p EXCEPT ![c] = d][c] = d
         /\ \A e \in Conflict : e # c => [p EXCEPT ![c] = d][e] = p[e]
  BY DEF Decisions, Verdict

LEMMA CandidateKeeps ==
  ASSUME ResolverInv, NEW c \in Touched, NEW word \in Candidate, NEW deferred \in BOOLEAN,
         Resolving!ApplyCandidate(c, word, deferred)
  PROVE  ResolverInv'
<1> USE DEF Resolving!analysis, Resolving!outside
<1>1. /\ c \in Conflict /\ fragments \in Fragments /\ Agrees(fragments, plan) /\ Resolving!Loaded
      /\ plan \in Decisions /\ plan # None /\ ~running
      /\ UNCHANGED <<cleanFragments, running, analysis, ready, analyses, owner, draft, asking>>
  BY NowAgrees, ResolverAssumption
     DEF Resolving!ApplyCandidate, Resolving!MayChange, Resolving!Loaded
<1>2. CASE Resolving!Push(Resolving!Command(fragments, fragments, None, None))
  BY <1>1, <1>2, TextKeeps
<1>3. CASE Resolving!Apply(c, word, deferred)
  <2> DEFINE f == [text |-> word, mapped |-> TRUE, state |-> IF deferred THEN "NeedsReview" ELSE "Resolved"]
             d == [state |-> IF deferred THEN "Deferred" ELSE "Reviewed", text |-> word]
             r == [fragments EXCEPT ![c] = f]
             p == [plan EXCEPT ![c] = d]
  <2>1. word \in Words /\ word # Markers
    BY ResolverAssumption DEF Words
  <2>2. /\ f \in [text : Words, state : {"Unresolved", "NeedsReview", "Resolved"}, mapped : BOOLEAN]
        /\ f.text = word /\ f.mapped /\ (f.state = "Resolved" <=> ~deferred)
    BY <2>1
  <2>3. /\ d \in [state : Verdict,
                  text : Words \union {None}]
        /\ d.text = word /\ (~deferred => d.state = "Reviewed")
    BY <2>1 DEF Verdict
  <2>4. Resolving!Push(Resolving!Command(fragments, r, plan, p))
    BY <1>3 DEF Resolving!Apply
  <2> HIDE DEF f, d
  <2>5. r \in Fragments /\ r[c] = f /\ \A e \in Conflict : e # c => r[e] = fragments[e]
    BY <1>1, <2>2, FragmentChanges
  <2>6. p \in Decisions /\ p[c] = d /\ \A e \in Conflict : e # c => p[e] = plan[e]
    BY <1>1, <2>3, DecisionChanges
  <2> HIDE DEF r, p
  <2>7. Agrees(r, p)
    <3> SUFFICES ASSUME NEW e \in Conflict, r[e].state = "Resolved"
                 PROVE  /\ p[e].state \in Resolving!Decided /\ p[e].text = r[e].text
                        /\ r[e].text # Markers /\ r[e].mapped
      BY DEF Agrees
    <3>1. CASE e = c
      BY <2>1, <2>2, <2>3, <2>5, <2>6, <3>1 DEF Resolving!Decided
    <3>2. CASE e # c
      BY <1>1, <2>5, <2>6, <3>2 DEF Agrees, Resolving!Loaded
    <3> QED
      BY <3>1, <3>2
  <2> QED
    BY <1>1, <2>4, <2>5, <2>6, <2>7, BothKeep
<1> QED
  BY <1>2, <1>3 DEF Resolving!ApplyCandidate

LEMMA AcceptKeeps ==
  ASSUME ResolverInv, NEW c \in Touched, Resolving!AcceptCurrentText(c)
  PROVE  ResolverInv'
<1> USE DEF Resolving!analysis, Resolving!outside
<1>1. /\ c \in Conflict /\ fragments \in Fragments /\ Agrees(fragments, plan) /\ Resolving!Loaded
      /\ plan \in Decisions /\ plan # None /\ ~running
      /\ fragments[c].mapped /\ fragments[c].text # Markers /\ fragments[c].text \in Words
      /\ UNCHANGED <<cleanFragments, running, analysis, ready, analyses, owner, draft, asking>>
  <2>1. c \in Conflict /\ fragments \in Fragments
    BY NowAgrees, ResolverAssumption
       DEF Resolving!AcceptCurrentText, Resolving!MayChange, Resolving!Loaded
  <2>2. fragments[c].text \in Words
    BY <2>1 DEF Fragments
  <2> QED
    BY <2>1, <2>2, NowAgrees
       DEF Resolving!AcceptCurrentText, Resolving!MayChange, Resolving!Loaded
<1> DEFINE f == [text |-> fragments[c].text, state |-> "Resolved", mapped |-> fragments[c].mapped]
           d == [state |-> "Reviewed", text |-> fragments[c].text]
           r == [fragments EXCEPT ![c].state = "Resolved"]
           p == [plan EXCEPT ![c] = d]
<1>2. r = [fragments EXCEPT ![c] = f]
  <2>1. fragments[c] \in [text : Words, state : {"Unresolved", "NeedsReview", "Resolved"},
                          mapped : BOOLEAN]
    BY <1>1 DEF Fragments
  <2>2. [fragments[c] EXCEPT !.state = "Resolved"] = f
    BY <2>1
  <2>3. r = [fragments EXCEPT ![c] = [fragments[c] EXCEPT !.state = "Resolved"]]
    BY <1>1 DEF Fragments
  <2> HIDE DEF r, f
  <2> QED
    BY <2>2, <2>3
<1>3. /\ f \in [text : Words, state : {"Unresolved", "NeedsReview", "Resolved"}, mapped : BOOLEAN]
      /\ f.text = fragments[c].text /\ f.mapped
  <2>1. fragments[c].mapped \in BOOLEAN
    BY <1>1 DEF Fragments
  <2> QED
    BY <1>1, <2>1
<1>4. /\ d \in [state : Verdict,
                text : Words \union {None}]
      /\ d.text = fragments[c].text /\ d.state = "Reviewed"
  BY <1>1 DEF Verdict
<1>5. Resolving!Push(Resolving!Command(fragments, r, plan, p))
  BY DEF Resolving!AcceptCurrentText
<1> HIDE DEF f, d, r
<1>6. r \in Fragments /\ r[c] = f /\ \A e \in Conflict : e # c => r[e] = fragments[e]
  <2>1. /\ [fragments EXCEPT ![c] = f] \in Fragments /\ [fragments EXCEPT ![c] = f][c] = f
        /\ \A e \in Conflict : e # c => [fragments EXCEPT ![c] = f][e] = fragments[e]
    BY <1>1, <1>3, FragmentChanges
  <2> QED
    BY <1>2, <2>1
<1>7. p \in Decisions /\ p[c] = d /\ \A e \in Conflict : e # c => p[e] = plan[e]
  BY <1>1, <1>4, DecisionChanges
<1> HIDE DEF p
<1>8. Agrees(r, p)
  <2> SUFFICES ASSUME NEW e \in Conflict, r[e].state = "Resolved"
               PROVE  /\ p[e].state \in Resolving!Decided /\ p[e].text = r[e].text
                      /\ r[e].text # Markers /\ r[e].mapped
    BY DEF Agrees
  <2>1. CASE e = c
    BY <1>1, <1>3, <1>4, <1>6, <1>7, <2>1 DEF Resolving!Decided
  <2>2. CASE e # c
    BY <1>1, <1>6, <1>7, <2>2 DEF Agrees, Resolving!Loaded
  <2> QED
    BY <2>1, <2>2
<1> QED
  BY <1>1, <1>5, <1>6, <1>7, <1>8, BothKeep

LEMMA EditKeeps == ResolverInv /\ Resolving!Edit => ResolverInv'
<1> SUFFICES ASSUME ResolverInv, Resolving!Edit PROVE ResolverInv'
  OBVIOUS
<1>1. CASE \E c \in Touched, mapped \in BOOLEAN : Resolving!Type(c, Edited, mapped)
  BY <1>1, TypeKeeps
<1>2. CASE \E c \in Touched : Resolving!Type(c, Markers, TRUE)
  BY <1>2, TypeKeeps
<1>3. CASE \E c \in Touched : Resolving!ReviewRange(c)
  BY <1>3, ReviewKeeps
<1>4. CASE \E c \in Touched, word \in Candidate, deferred \in BOOLEAN :
             Resolving!ApplyCandidate(c, word, deferred)
  BY <1>4, CandidateKeeps
<1>5. CASE \E c \in Touched : Resolving!AcceptCurrentText(c)
  BY <1>5, AcceptKeeps
<1> QED
  BY <1>1, <1>2, <1>3, <1>4, <1>5 DEF Resolving!Edit

\* Applied or failed, the macro of an analysis leads to a text and a plan that agree.
LEMMA InstallLeads ==
  ASSUME NEW p
  PROVE  LET undecided == [c \in Conflict |-> Resolving!Undecided]
             macro == Resolving!Command(Resolving!Seed, Resolving!Applied(p), undecided,
                                        Resolving!Planned(p))
             from == [result |-> Resolving!Seed, plan |-> undecided]
             to == [result |-> Resolving!Applied(p), plan |-> Resolving!Planned(p)]
         IN  /\ macro \in Commands /\ from \in Moment /\ to \in Moment /\ Leads(macro, from, to)
             /\ Agrees(from.result, from.plan) /\ Agrees(to.result, to.plan)
             /\ from.result # None /\ to.result # None /\ from.plan # None /\ to.plan # None
<1> DEFINE seed == Resolving!Seed
           applied == Resolving!Applied(p)
           undecided == [c \in Conflict |-> Resolving!Undecided]
           planned == Resolving!Planned(p)
           macro == Resolving!Command(seed, applied, undecided, planned)
           from == [result |-> seed, plan |-> undecided]
           to == [result |-> applied, plan |-> planned]
<1>1. Resolving!Automatic \in Candidate /\ Resolving!Automatic # Markers
  BY ResolverAssumption DEF Resolving!Automatic
<1>2. seed \in Fragments /\ \A c \in Conflict : seed[c].state = "Unresolved"
  BY DEF Resolving!Seed, Fragments, Words
<1>3. undecided \in Decisions /\ planned \in Decisions
  <2>1. undecided \in Decisions
    BY DEF Resolving!Undecided, Decisions, Verdict
  <2>2. planned \in Decisions
    BY <1>1 DEF Resolving!Planned, Resolving!Undecided, Decisions, Verdict, Words
  <2> QED
    BY <2>1, <2>2
<1>4. /\ applied \in Fragments
      /\ \A c \in Conflict : applied[c].state = "Resolved" =>
           c \in Policy[p] /\ applied[c].text = Resolving!Automatic /\ applied[c].mapped
  <2> DEFINE f == [text |-> Resolving!Automatic, state |-> "Resolved", mapped |-> TRUE]
             g == [text |-> Markers, state |-> "Unresolved", mapped |-> TRUE]
             F == [text : Words, state : {"Unresolved", "NeedsReview", "Resolved"}, mapped : BOOLEAN]
  <2>1. f \in F /\ g \in F /\ f.text = Resolving!Automatic /\ f.mapped /\ g.state = "Unresolved"
    BY <1>1 DEF Words
  <2>2. \A c \in Conflict : (applied[c] = f /\ c \in Policy[p]) \/ applied[c] = g
    BY DEF Resolving!Applied, Resolving!Seed
  <2>3. applied = [c \in Conflict |-> applied[c]]
    BY DEF Resolving!Applied
  <2> HIDE DEF f, g, applied
  <2>4. applied \in Fragments
    <3>1. \A c \in Conflict : applied[c] \in F
      BY <2>1, <2>2
    <3> QED
      BY <2>3, <3>1 DEF Fragments
  <2>5. ASSUME NEW c \in Conflict, applied[c].state = "Resolved"
        PROVE  c \in Policy[p] /\ applied[c].text = Resolving!Automatic /\ applied[c].mapped
    BY <2>1, <2>2, <2>5
  <2> QED
    BY <2>4, <2>5
<1>5. \A c \in Conflict : c \in Policy[p] =>
        planned[c].state = "Automatic" /\ planned[c].text = Resolving!Automatic
  BY DEF Resolving!Planned
<1>6. /\ macro.from = seed /\ macro.to = applied /\ macro.before = undecided /\ macro.after = planned
      /\ from.result = seed /\ from.plan = undecided /\ to.result = applied /\ to.plan = planned
  BY DEF Resolving!Command
<1> HIDE DEF seed, applied, undecided, planned
<1>7. macro \in Commands /\ from \in Moment /\ to \in Moment
  BY <1>2, <1>3, <1>4 DEF Commands, Moment, Resolving!Command
<1> HIDE DEF macro, from, to
<1>8. seed # None /\ applied # None /\ undecided # None /\ planned # None
  BY <1>2, <1>3, <1>4, ResolverAssumption
<1>9. Leads(macro, from, to)
  BY <1>6, <1>8 DEF Leads
<1>10. Agrees(from.result, from.plan)
  BY <1>2, <1>6 DEF Agrees
<1>11. Agrees(to.result, to.plan)
  BY <1>1, <1>4, <1>5, <1>6 DEF Agrees, Resolving!Decided
<1> QED
  BY <1>6, <1>7, <1>8, <1>9, <1>10, <1>11 DEF seed, applied, undecided, planned, macro, from, to

LEMMA FinishedKeeps ==
  ASSUME ResolverInv, Resolving!Finished
  PROVE  ResolverInv'
<1>1. CASE Resolving!Dropped
  BY <1>1 DEF Resolving!Finished, Resolving!session, Resolving!outside, ResolverInv,
       AnalysisIsUndisturbed, ReadyHasPlan, DraftAgrees, Now
<1>2. CASE ~Resolving!Dropped
  <2> DEFINE p == analysis.policy
             undecided == [c \in Conflict |-> Resolving!Undecided]
             macro == Resolving!Command(Resolving!Seed, Resolving!Applied(p), undecided,
                                        Resolving!Planned(p))
             from == [result |-> Resolving!Seed, plan |-> undecided]
             to == [result |-> Resolving!Applied(p), plan |-> Resolving!Planned(p)]
  <2>1. /\ macro \in Commands /\ from \in Moment /\ to \in Moment /\ Leads(macro, from, to)
        /\ Agrees(from.result, from.plan) /\ Agrees(to.result, to.plan)
        /\ from.result # None /\ to.result # None /\ from.plan # None /\ to.plan # None
    BY InstallLeads
  <2>2. /\ stack' = <<macro>> /\ ~running' /\ owner' = owner /\ draft' = draft
        /\ \/ index' = 1 /\ fragments' = macro.to /\ plan' = macro.after
           \/ index' = 0 /\ fragments' = macro.from /\ plan' = macro.before
    BY <1>2 DEF Resolving!Finished, Resolving!Install, Resolving!outside
  <2>3. /\ macro.from = from.result /\ macro.to = to.result
        /\ macro.before = from.plan /\ macro.after = to.plan
    BY DEF Resolving!Command
  <2> HIDE DEF macro, from, to
  <2>4. /\ \E ms : History(ms, <<macro>>, 0, from)
        /\ \E ms : History(ms, <<macro>>, 1, to)
    BY <2>1, OneCommand
  <2>5. \E ms : History(ms, stack', index', Now')
    <3>1. CASE index' = 1 /\ fragments' = macro.to /\ plan' = macro.after
      <4>1. Now' = to
        BY <2>1, <2>3, <3>1, NowIs DEF Now
      <4> QED
        BY <2>2, <2>4, <3>1, <4>1
    <3>2. CASE index' = 0 /\ fragments' = macro.from /\ plan' = macro.before
      <4>1. Now' = from
        BY <2>1, <2>3, <3>2, NowIs DEF Now
      <4> QED
        BY <2>2, <2>4, <3>2, <4>1
    <3> QED
      BY <2>2, <3>1, <3>2
  <2>6. fragments' # None /\ plan' # None
    BY <2>1, <2>2, <2>3
  <2> QED
    BY <2>2, <2>5, <2>6 DEF ResolverInv, AnalysisIsUndisturbed, ReadyHasPlan, DraftAgrees,
                            Resolving!Loaded
<1> QED
  BY <1>1, <1>2

LEMMA DraftKeeps ==
  ASSUME ResolverInv, Resolving!CaptureDraft \/ Resolving!RestoreDraft
  PROVE  ResolverInv'
<1> USE DEF Resolving!session, Resolving!analysis, Resolving!outside
<1>1. CASE Resolving!CaptureDraft
  <2>1. draft' = Now /\ Now \in Moment /\ Agrees(Now.result, Now.plan)
    BY <1>1, NowAgrees, NowIs DEF Resolving!CaptureDraft, Now
  <2>2. DraftAgrees'
    BY <2>1 DEF DraftAgrees
  <2> QED
    BY <1>1, <2>2 DEF Resolving!CaptureDraft, ResolverInv, AnalysisIsUndisturbed, ReadyHasPlan,
         Resolving!Loaded, Resolving!Seed, Now
<1>2. CASE Resolving!RestoreDraft
  <2>1. draft \in Moment /\ Agrees(draft.result, draft.plan)
    BY <1>2 DEF Resolving!RestoreDraft, ResolverInv, DraftAgrees
  <2>2. Now' = draft
    BY <1>2, <2>1, NowIs DEF Resolving!RestoreDraft, Now
  <2>3. \E ms : History(ms, stack', index', Now')
    BY <1>2, <2>1, <2>2, NoHistory DEF Resolving!RestoreDraft
  <2> QED
    BY <1>2, <2>3 DEF Resolving!RestoreDraft, ResolverInv, AnalysisIsUndisturbed, ReadyHasPlan,
         DraftAgrees
<1> QED
  BY <1>1, <1>2

LEMMA SaveKeeps ==
  ASSUME ResolverInv, Resolving!SaveAs \/ Resolving!SaveAbandoned \/ Resolving!SaveAnswered
  PROVE  ResolverInv'
<1> USE DEF Resolving!session, Resolving!analysis, Resolving!outside
<1>1. /\ UNCHANGED <<fragments, plan, stack, index, running, token, ready, owner, draft>>
      /\ cleanFragments' \in {cleanFragments, fragments}
  BY DEF Resolving!SaveAs, Resolving!SaveAbandoned, Resolving!SaveAnswered
<1> QED
  BY <1>1 DEF ResolverInv, AnalysisIsUndisturbed, ReadyHasPlan, DraftAgrees, Resolving!Loaded,
              Resolving!Seed, Now

LEMMA ResolverStays == ResolverInv /\ [Resolving!Next]_(Resolving!vars) => ResolverInv'
<1> SUFFICES ASSUME ResolverInv, [Resolving!Next]_(Resolving!vars) PROVE ResolverInv'
  OBVIOUS
<1>1. CASE Resolving!Undo \/ Resolving!Redo
  BY <1>1, UndoKeeps
<1>2. CASE Resolving!Edit
  BY <1>2, EditKeeps
<1>3. CASE (\E p \in DOMAIN Policy : Resolving!Analyze(p)) \/ Resolving!Work \/ Resolving!Cancel
  BY <1>3, AnalysisKeeps
<1>4. CASE Resolving!Finished
  BY <1>4, FinishedKeeps
<1>5. CASE Resolving!CaptureDraft \/ Resolving!RestoreDraft
  BY <1>5, DraftKeeps
<1>6. CASE Resolving!SaveAs \/ Resolving!SaveAbandoned \/ Resolving!SaveAnswered
  BY <1>6, SaveKeeps
<1>7. CASE UNCHANGED Resolving!vars
  BY <1>7 DEF Resolving!vars, ResolverInv, AnalysisIsUndisturbed, ReadyHasPlan, DraftAgrees,
              Resolving!Loaded, Resolving!Seed, Now
<1> QED
  BY <1>1, <1>2, <1>3, <1>4, <1>5, <1>6, <1>7 DEF Resolving!Next

\* While the user is asked nothing else happens, unless an analysis ends.
LEMMA SavingStays ==
  ASSUME ~SaveRaces, ResolverInv, SavingIsShown, [Resolving!Next]_(Resolving!vars)
  PROVE  SavingIsShown'
<1> USE DEF Resolving!session, Resolving!analysis, Resolving!outside, Resolving!UserIsFree
<1>1. CASE \/ Resolving!Undo \/ Resolving!Redo \/ Resolving!Cancel \/ Resolving!Finished
           \/ \E p \in DOMAIN Policy : Resolving!Analyze(p)
  BY <1>1 DEF Resolving!Undo, Resolving!Redo, Resolving!Cancel, Resolving!Finished,
       Resolving!Analyze, SavingIsShown
<1>2. CASE Resolving!Edit
  BY <1>2 DEF Resolving!Edit, Resolving!Type, Resolving!ReviewRange, Resolving!ApplyCandidate,
       Resolving!AcceptCurrentText, Resolving!MayChange, SavingIsShown
<1>3. CASE Resolving!CaptureDraft \/ Resolving!SaveAbandoned \/ Resolving!SaveAnswered
  BY <1>3 DEF Resolving!CaptureDraft, Resolving!SaveAbandoned, Resolving!SaveAnswered,
       SavingIsShown, Resolving!Loaded, Resolving!Texts
<1>4. CASE Resolving!RestoreDraft
  BY <1>4 DEF Resolving!RestoreDraft, SavingIsShown
<1>5. CASE Resolving!SaveAs
  BY <1>5 DEF Resolving!SaveAs, SavingIsShown, ResolverInv, ReadyHasPlan, Resolving!Loaded,
       Resolving!Texts
<1>6. CASE Resolving!Work \/ UNCHANGED Resolving!vars
  BY <1>6 DEF Resolving!Work, Resolving!vars, SavingIsShown, Resolving!Loaded, Resolving!Texts
<1> QED
  BY <1>1, <1>2, <1>3, <1>4, <1>5, <1>6 DEF Resolving!Next

LEMMA AgreesSays == ResolverInv => Resolving!DecisionsFollowText
  BY NowAgrees DEF Agrees, Resolving!DecisionsFollowText, Resolving!Loaded

LEMMA EndsFinished ==
  ASSUME [Resolving!Next]_(Resolving!vars), running, ~running'
  PROVE  Resolving!Finished
<1> USE DEF Resolving!session, Resolving!analysis, Resolving!outside
<1>1. CASE Resolving!Edit
  BY <1>1 DEF Resolving!Edit, Resolving!Type, Resolving!ReviewRange, Resolving!ApplyCandidate,
       Resolving!AcceptCurrentText
<1>2. CASE UNCHANGED Resolving!vars
  BY <1>2 DEF Resolving!vars
<1> QED
  BY <1>1, <1>2 DEF Resolving!Next, Resolving!Undo, Resolving!Redo, Resolving!Analyze,
       Resolving!Start, Resolving!Work, Resolving!Cancel, Resolving!CaptureDraft,
       Resolving!RestoreDraft, Resolving!SaveAs, Resolving!SaveAbandoned, Resolving!SaveAnswered

LEMMA PublishesAnswered ==
  ASSUME [Resolving!Next]_(Resolving!vars), published' # published
  PROVE  Resolving!SaveAnswered
<1> USE DEF Resolving!session, Resolving!analysis, Resolving!outside
<1>1. CASE Resolving!Edit
  BY <1>1 DEF Resolving!Edit, Resolving!Type, Resolving!ReviewRange, Resolving!ApplyCandidate,
       Resolving!AcceptCurrentText
<1>2. CASE UNCHANGED Resolving!vars
  BY <1>2 DEF Resolving!vars
<1> QED
  BY <1>1, <1>2 DEF Resolving!Next, Resolving!Undo, Resolving!Redo, Resolving!Analyze,
       Resolving!Work, Resolving!Cancel, Resolving!Finished, Resolving!CaptureDraft,
       Resolving!RestoreDraft, Resolving!SaveAs, Resolving!SaveAbandoned

LateChangesNothing ==
  running /\ ~running' /\ (stack # <<>> \/ token)
    => UNCHANGED <<fragments, cleanFragments, plan, stack, index>>
InstallsAllOrNothing ==
  running /\ ~running' /\ fragments' # fragments /\ fragments' # Resolving!Seed
    => \A c \in Conflict : plan'[c].state = "Automatic" => fragments'[c].state = "Resolved"
SavesTruth ==
  published' # published /\ published'.report # None =>
    /\ published'.output = Resolving!Texts(cleanFragments')
    /\ \A c \in Conflict : published'.report[c] \in Resolving!Decided =>
         published'.output[c] = plan[c].text
UnreportedIsUnsaved ==
  published' # published /\ published'.report = None => cleanFragments' = cleanFragments

LEMMA ResolverActs ==
  ASSUME ResolverInv, [Resolving!Next]_(Resolving!vars)
  PROVE  LateChangesNothing /\ InstallsAllOrNothing
<1>1. LateChangesNothing
  <2> SUFFICES ASSUME running, ~running', stack # <<>> \/ token
               PROVE  UNCHANGED <<fragments, cleanFragments, plan, stack, index>>
    BY DEF LateChangesNothing
  <2>1. Resolving!Finished
    BY EndsFinished
  <2>2. token
    BY DEF ResolverInv, AnalysisIsUndisturbed
  <2> QED
    BY <2>1, <2>2 DEF Resolving!Finished, Resolving!Dropped, Resolving!session
<1>2. InstallsAllOrNothing
  <2> SUFFICES ASSUME running, ~running', fragments' # fragments, fragments' # Resolving!Seed,
                      NEW c \in Conflict, plan'[c].state = "Automatic"
               PROVE  fragments'[c].state = "Resolved"
    BY DEF InstallsAllOrNothing
  <2>1. Resolving!Finished
    BY EndsFinished
  <2> DEFINE p == analysis.policy
  <2>2. /\ Policy[p] \cap TooLarge = {} /\ fragments' = Resolving!Applied(p)
        /\ plan' = Resolving!Planned(p)
    BY <2>1 DEF Resolving!Finished, Resolving!Install, Resolving!Command
  <2>3. c \in Policy[p]
    BY <2>2 DEF Resolving!Planned, Resolving!Undecided
  <2> QED
    BY <2>2, <2>3 DEF Resolving!Applied
<1> QED
  BY <1>1, <1>2

LEMMA SavesTell ==
  ASSUME ResolverInv, SavingIsShown, [Resolving!Next]_(Resolving!vars)
  PROVE  SavesTruth /\ UnreportedIsUnsaved
<1> SUFFICES ASSUME published' # published PROVE SavesTruth /\ UnreportedIsUnsaved
  BY DEF SavesTruth, UnreportedIsUnsaved
<1>1. Resolving!SaveAnswered
  BY PublishesAnswered
<1>2. asking = Resolving!Texts(fragments) /\ Resolving!Loaded /\ plan # None /\ plan \in Decisions
  BY <1>1, NowAgrees DEF Resolving!SaveAnswered, SavingIsShown
<1>3. ASSUME NEW c \in Conflict, Resolving!Report[c] \in Resolving!Decided
      PROVE  asking[c] = plan[c].text
  <2>1. fragments[c].state = "Resolved"
    BY <1>3 DEF Resolving!Report, Resolving!Decided
  <2>2. plan[c].text = fragments[c].text
    BY <1>2, <2>1, AgreesSays DEF Resolving!DecisionsFollowText
  <2> QED
    BY <1>2, <2>2 DEF Resolving!Texts
<1>4. Resolving!Report # None
  <2>1. \A c \in Conflict : plan[c].state \in Verdict
    BY <1>2 DEF Decisions
  <2>2. Resolving!Report \in [Conflict -> Verdict]
    BY <2>1 DEF Resolving!Report, Verdict
  <2> QED
    BY <2>2, ResolverAssumption
<1>5. CASE /\ cleanFragments' = fragments
           /\ published' = [output |-> asking, report |-> Resolving!Report]
  BY <1>2, <1>3, <1>4, <1>5 DEF SavesTruth, UnreportedIsUnsaved, Resolving!Texts
<1>6. CASE published' = [output |-> asking, report |-> None] /\ cleanFragments' = cleanFragments
  BY <1>6 DEF SavesTruth, UnreportedIsUnsaved
<1> QED
  BY <1>1, <1>5, <1>6 DEF Resolving!SaveAnswered, Resolving!Published

\* Through every history of edits, overrides, undone and redone macros, cancelled
\* analyses and restored drafts, what counts as resolved is decided in the plan, with
\* the very text that is shown (ConflictResolverWidget.cpp).
THEOREM DecisionsFollow == SpecAll => []DecisionsFollowText
<1>1. InitAll => ResolverInv
  BY ResolverInit
<1>2. ResolverInv /\ [NextAll]_all => ResolverInv'
  BY ResolverStays, ResolvingSteps
<1>3. ResolverInv => DecisionsFollowText
  BY AgreesSays DEF DecisionsFollowText
<1> QED
  BY <1>1, <1>2, <1>3, PTL DEF SpecAll

\* Late analyses change nothing, a plan is installed as a whole, and what counts as
\* saved is what was written with a report about it, unless an analysis may end while
\* the user is asked for a file (ConflictResolverWidget.cpp, ResolveDialog.cpp).
THEOREM ResolverStepsSound ==
  ASSUME ~SaveRaces
  PROVE  SpecAll => ResolverStepsAreSound
<1> DEFINE Inv == ResolverInv /\ SavingIsShown
<1>1. InitAll => Inv
  BY ResolverInit
<1>2. Inv /\ [NextAll]_all =>
        /\ Inv' /\ [LateChangesNothing]_(Resolving!vars) /\ [InstallsAllOrNothing]_(Resolving!vars)
        /\ [SavesTruth]_(Resolving!vars) /\ [UnreportedIsUnsaved]_(Resolving!vars)
  BY ResolverStays, SavingStays, ResolvingSteps, ResolverActs, SavesTell
<1>3. SpecAll => /\ [][LateChangesNothing]_(Resolving!vars) /\ [][InstallsAllOrNothing]_(Resolving!vars)
                 /\ [][SavesTruth]_(Resolving!vars) /\ [][UnreportedIsUnsaved]_(Resolving!vars)
  <2> HIDE DEF Inv
  <2> QED
    BY <1>1, <1>2, PTL DEF SpecAll
<1> QED
  BY <1>3 DEF LateChangesNothing, InstallsAllOrNothing, SavesTruth, UnreportedIsUnsaved,
       ResolverStepsAreSound, Resolving!LateAnalysisChangesNothing,
       Resolving!ResolutionIsAllOrNothing, Resolving!SavesAreTrue, Resolving!UnreportedSaveIsNoSave

-----------------------------------------------------------------------------
(* Saving a merge result (MergeSave).                                      *)

Steps == {"idle", "start", "validate", "write", "revalidate", "commit", "verify", "finished"}

IsFile(d, n) ==
  /\ d = Saving!File(d.inode, d.time, d.writable, d.bytes)
  /\ d.bytes = <<d.bytes[1], d.bytes[2]>>
  /\ d.time \in Nat /\ d.time <= n

\* What has been read is what is in the file, or the file has changed since its stamp
\* was taken.
HasSeen(r, d, n) ==
  r.at \in {"open", "rest", "after"} =>
    /\ r.before.time \in Nat /\ r.before.time <= n
    /\ d # None /\ d.time = r.before.time =>
         /\ r.at = "rest" => r.opened = d.bytes /\ r.bytes[1] = d.bytes[1]
         /\ r.at = "after" => r.bytes = d.bytes
FileIsSeen ==
  /\ changes \in Nat
  /\ disk # None => IsFile(disk, changes)
  /\ HasSeen(read, disk, changes)

\* What is read for, and where the worker and the dialog are then.
Purposes ==
  /\ read.for \in {"nothing", "load", "validate", "revalidate", "verify", "final"}
  /\ read.for = "nothing" => read.at = "stamp"
  /\ read.for = "load" => stage = "loading" /\ step = "idle"
  /\ read.for = "validate" => step = "validate"
  /\ read.for = "revalidate" => step = "revalidate"
  /\ read.for = "verify" => step = IF read.at = "seen" THEN "finished" ELSE "verify"
  /\ read.for = "final" => stage = "closed" /\ step = "idle"
Progress ==
  /\ step \in Steps /\ (step # "idle" => stage = "open")
  /\ step \in {"start", "validate", "write", "revalidate", "commit"} => ~replaced
  /\ step = "verify" => replaced
  /\ step = "finished" =>
       /\ replaced => result \in {"Saved", "Stale"}
       /\ result = "Saved" => /\ replaced /\ read.before # None
                              /\ read.before.bytes = Saving!Whole(Saving!Exported(job.document, job.as))
  /\ step = "commit" => WriterRaces \/ disk = expected
\* A save as resolved leaves no conflict, in the text, the clean one and the file.
IsResolved(stamp, d) == stamp.bytes = Saving!Whole(Saving!Exported(d, "Resolved")) /\ d \in Resolved
Completions ==
  /\ step # "idle" /\ job.as = "Resolved" => job.document \in Resolved
  /\ resolvedSaved => stage # "loading" /\ IsResolved(savedStamp, clean)
  /\ stage = "closed" => IsResolved(savedStamp, text)
SaveInv == FileIsSeen /\ Purposes /\ Progress /\ Completions

LEMMA NoReadIs ==
  ASSUME NEW p
  PROVE  /\ Saving!NoRead.for = "nothing" /\ Saving!NoRead.at = "stamp"
         /\ Saving!Reading(p).for = p /\ Saving!Reading(p).at = "stamp"
  BY DEF Saving!NoRead, Saving!Reading, Saving!ReadAt

LEMMA FileIs ==
  ASSUME NEW i, NEW t \in Nat, NEW w, NEW x, NEW y, NEW n \in Nat, t <= n
  PROVE  IsFile(Saving!File(i, t, w, <<x, y>>), n)
  BY DEF Saving!File, IsFile

LEMMA SaveInit == InitAll => SaveInv
<1> SUFFICES ASSUME Saving!Init PROVE SaveInv
  BY DEF InitAll
<1>1. FileIsSeen
  <2>1. IsFile(disk, 0) /\ changes = 0
    <3>1. PICK x : disk = Saving!File(0, 0, TRUE, <<x, x>>)
      BY DEF Saving!Init, Saving!Whole
    <3>2. IsFile(Saving!File(0, 0, TRUE, <<x, x>>), 0)
      BY DEF Saving!File, IsFile
    <3> QED
      BY <3>1, <3>2 DEF Saving!Init
  <2>2. read.at = "stamp"
    BY NoReadIs DEF Saving!Init
  <2> QED
    BY <2>1, <2>2 DEF FileIsSeen, HasSeen
<1>2. Purposes /\ Progress /\ Completions
  BY NoReadIs DEF Saving!Init, Purposes, Progress, Completions, Steps
<1> QED
  BY <1>1, <1>2 DEF SaveInv

\* A read that has not started, or is over, knows nothing yet.
LEMMA FreshRead ==
  ASSUME SaveInv, UNCHANGED <<disk, changes>>, read'.at \in {"stamp", "seen"}
  PROVE  FileIsSeen'
  BY DEF SaveInv, FileIsSeen, HasSeen

\* The whole file was read while nobody changed it.
LEMMA SeenIsDisk ==
  ASSUME SaveInv, read.at = "after", disk # None, Saving!Metadata(disk) = read.before
  PROVE  Saving!Seen = disk
<1>1. /\ read.before.inode = disk.inode /\ read.before.time = disk.time
      /\ read.before.writable = disk.writable
  BY DEF Saving!Metadata
<1>2. read.bytes = disk.bytes
  BY <1>1 DEF SaveInv, FileIsSeen, HasSeen
<1>3. disk = [inode |-> disk.inode, time |-> disk.time, writable |-> disk.writable, bytes |-> disk.bytes]
  BY DEF SaveInv, FileIsSeen, IsFile, Saving!File
<1> QED
  BY <1>1, <1>2, <1>3 DEF Saving!Seen, Saving!File

\* A worker that ends without having replaced the file, or after it cannot tell.
LEMMA FinishKeeps ==
  ASSUME SaveInv, NEW status, Saving!Finish(status), step # "idle",
         status # "Saved", replaced => status = "Stale",
         UNCHANGED launchedReadOnly
  PROVE  SaveInv'
<1> USE DEF Saving!file, Saving!widget, Saving!dialog
<1>1. read'.for = "nothing" /\ read'.at = "stamp"
  BY NoReadIs DEF Saving!Finish
<1>2. FileIsSeen'
  BY <1>1, FreshRead DEF Saving!Finish
<1>3. Purposes' /\ Progress' /\ Completions'
  BY <1>1 DEF SaveInv, Saving!Finish, Purposes, Progress, Completions, Steps
<1> QED
  BY <1>2, <1>3 DEF SaveInv

LEMMA FailedKeeps ==
  ASSUME SaveInv, NEW status, Saving!ReadFailed(status), status # "Saved",
         UNCHANGED launchedReadOnly
  PROVE  SaveInv'
<1> USE DEF Saving!file, Saving!widget, Saving!dialog
<1>1. CASE read.for = "load" /\ read' = Saving!NoRead
  <2>1. read'.for = "nothing" /\ read'.at = "stamp"
    BY <1>1, NoReadIs
  <2>2. UNCHANGED <<disk, changes, text, clean, editable, step, result, replaced, job, cancel, expected,
          savedStamp, resolvedSaved, discarded, exit>> /\ stage' = "failed"
    BY <1>1 DEF Saving!ReadFailed, SaveInv, Purposes
  <2>3. FileIsSeen'
    BY <2>1, <2>2, FreshRead
  <2>4. Purposes' /\ Progress' /\ Completions'
    BY <1>1, <2>1, <2>2 DEF SaveInv, Purposes, Progress, Completions, Steps
  <2> QED
    BY <2>3, <2>4 DEF SaveInv
<1>2. CASE read.for \in {"validate", "revalidate"} /\ Saving!Finish(status)
  BY <1>2, FinishKeeps DEF SaveInv, Purposes, Progress
<1>3. CASE read.for = "verify" /\ Saving!Finish("Stale")
  BY <1>3, FinishKeeps DEF SaveInv, Purposes, Progress
<1>4. CASE read.for = "final" /\ Saving!Leave(1)
  <2>1. read'.for = "nothing" /\ read'.at = "stamp"
    BY <1>4, NoReadIs DEF Saving!Leave
  <2>2. FileIsSeen'
    BY <1>4, <2>1, FreshRead DEF Saving!Leave
  <2>3. Purposes' /\ Progress' /\ Completions'
    BY <1>4, <2>1 DEF Saving!Leave, SaveInv, Purposes, Progress, Completions, Steps
  <2> QED
    BY <2>2, <2>3 DEF SaveInv
<1> QED
  BY <1>1, <1>2, <1>3, <1>4 DEF Saving!ReadFailed

LEMMA LeaveKeeps ==
  ASSUME SaveInv, NEW code, read.for = "final", Saving!Leave(code), UNCHANGED launchedReadOnly
  PROVE  SaveInv'
<1> USE DEF Saving!file, Saving!widget, Saving!dialog
<1>1. read'.for = "nothing" /\ read'.at = "stamp"
  BY NoReadIs DEF Saving!Leave
<1>2. FileIsSeen'
  BY <1>1, FreshRead DEF Saving!Leave
<1>3. Purposes' /\ Progress' /\ Completions'
  BY <1>1 DEF Saving!Leave, SaveInv, Purposes, Progress, Completions, Steps
<1> QED
  BY <1>2, <1>3 DEF SaveInv

\* One step further in the file.
LEMMA ReadsOn ==
  ASSUME SaveInv, UNCHANGED <<disk, changes, text, clean, editable, step, result, replaced, stage,
           job, cancel, expected, savedStamp, resolvedSaved, discarded, exit, launchedReadOnly>>,
         read'.for = read.for, read.at # "seen", read'.at # "seen", read.for # "nothing",
         HasSeen(read', disk, changes)
  PROVE  SaveInv'
<1>1. FileIsSeen'
  BY DEF SaveInv, FileIsSeen
<1>2. Purposes' /\ Completions'
  BY DEF SaveInv, Purposes, Completions
<1>3. step # "finished"
  BY DEF SaveInv, Purposes
<1>4. Progress'
  BY <1>3 DEF SaveInv, Progress
<1> QED
  BY <1>1, <1>2, <1>4 DEF SaveInv

LEMMA StampKeeps ==
  ASSUME SaveInv, Saving!ReadStamp \/ Saving!ReadOpen \/ Saving!ReadRest
  PROVE  SaveInv'
<1> USE DEF Saving!file, Saving!widget, Saving!dialog
<1> DEFINE still == UNCHANGED <<disk, changes, text, clean, editable, step, result, replaced, stage,
                      job, cancel, expected, savedStamp, resolvedSaved, discarded, exit, launchedReadOnly>>
<1>1. /\ disk # None => IsFile(disk, changes)
      /\ HasSeen(read, disk, changes) /\ changes \in Nat /\ Purposes
  BY DEF SaveInv, FileIsSeen
<1>2. \/ \E status : Saving!ReadFailed(status) /\ status # "Saved" /\ UNCHANGED launchedReadOnly
      \/ /\ still /\ read.for # "nothing"
         /\ \/ /\ read.at = "stamp" /\ disk # None
               /\ Saving!Go("open", Saving!Metadata(disk), read.opened, read.bytes)
            \/ /\ read.at = "open" /\ disk # None
               /\ Saving!Go("rest", read.before, disk.bytes, <<disk.bytes[1], read.bytes[2]>>)
            \/ /\ read.at = "rest"
               /\ Saving!Go("after", read.before, Saving!Whole(None), <<read.bytes[1], read.opened[2]>>)
  BY <1>1 DEF Saving!ReadStamp, Saving!ReadOpen, Saving!ReadRest, Purposes
<1>3. CASE \E status : Saving!ReadFailed(status) /\ status # "Saved" /\ UNCHANGED launchedReadOnly
  BY <1>3, FailedKeeps
<1>4. CASE /\ still /\ read.for # "nothing" /\ read.at = "stamp" /\ disk # None
           /\ Saving!Go("open", Saving!Metadata(disk), read.opened, read.bytes)
  <2>1. Saving!Metadata(disk).time = disk.time
    BY DEF Saving!Metadata
  <2>2. /\ read'.for = read.for /\ read'.at = "open" /\ read'.before = Saving!Metadata(disk)
    BY <1>4 DEF Saving!Go, Saving!ReadAt
  <2>3. HasSeen(read', disk, changes)
    BY <1>1, <1>4, <2>1, <2>2 DEF HasSeen, IsFile
  <2> QED
    BY <1>4, <2>2, <2>3, ReadsOn
<1>5. CASE /\ still /\ read.for # "nothing" /\ read.at = "open" /\ disk # None
           /\ Saving!Go("rest", read.before, disk.bytes, <<disk.bytes[1], read.bytes[2]>>)
  <2>1. /\ read'.for = read.for /\ read'.at = "rest" /\ read'.before = read.before
        /\ read'.opened = disk.bytes /\ read'.bytes[1] = disk.bytes[1]
    BY <1>5 DEF Saving!Go, Saving!ReadAt
  <2>2. HasSeen(read', disk, changes)
    BY <1>1, <1>5, <2>1 DEF HasSeen
  <2> QED
    BY <1>5, <2>1, <2>2, ReadsOn
<1>6. CASE /\ still /\ read.for # "nothing" /\ read.at = "rest"
           /\ Saving!Go("after", read.before, Saving!Whole(None), <<read.bytes[1], read.opened[2]>>)
  <2>1. /\ read'.for = read.for /\ read'.at = "after" /\ read'.before = read.before
        /\ read'.bytes = <<read.bytes[1], read.opened[2]>>
    BY <1>6 DEF Saving!Go, Saving!ReadAt
  <2>2. disk # None /\ disk.time = read.before.time =>
          disk.bytes = <<read.bytes[1], read.opened[2]>>
    BY <1>1, <1>6 DEF HasSeen, IsFile
  <2>3. HasSeen(read', disk, changes)
    BY <1>1, <1>6, <2>1, <2>2 DEF HasSeen
  <2> QED
    BY <1>6, <2>1, <2>3, ReadsOn
<1> QED
  BY <1>2, <1>3, <1>4, <1>5, <1>6

LEMMA AfterKeeps ==
  ASSUME SaveInv, Saving!ReadAfter
  PROVE  SaveInv'
<1> USE DEF Saving!file, Saving!widget, Saving!dialog
<1>1. Purposes /\ Progress /\ Completions
  BY DEF SaveInv
<1>2. CASE \E status : Saving!ReadFailed(status) /\ status # "Saved"
  BY <1>2, FailedKeeps DEF Saving!ReadAfter
<1>3. CASE /\ disk # None /\ Saving!Metadata(disk) = read.before /\ Saving!Accept(Saving!Seen)
  <2> DEFINE stamp == Saving!Seen
  <2>1. stamp = disk /\ read.at = "after" /\ launchedReadOnly' = launchedReadOnly
    BY <1>3, SeenIsDisk DEF Saving!ReadAfter
  <2> HIDE DEF stamp
  <2>2. CASE Saving!Loaded(stamp)
    <3>1. read'.for = "nothing" /\ read'.at = "stamp"
      BY <2>2, NoReadIs DEF Saving!Loaded
    <3>2. FileIsSeen'
      BY <2>2, <3>1, FreshRead DEF Saving!Loaded
    <3>3. Purposes' /\ Progress' /\ Completions'
      BY <1>1, <2>2, <3>1 DEF Saving!Loaded, Purposes, Progress, Completions, Steps
    <3> QED
      BY <3>2, <3>3 DEF SaveInv
  <2>3. CASE Saving!Validated(stamp)
    <3>1. CASE \E status \in {"Stale", "Error"} : Saving!Finish(status)
      BY <1>1, <2>1, <2>3, <3>1, FinishKeeps DEF Saving!Validated, Purposes, Progress
    <3>2. CASE /\ stamp = expected /\ read' = Saving!NoRead
               /\ step' = IF read.for = "validate" THEN "write" ELSE "commit"
               /\ UNCHANGED <<result, replaced, disk, changes, text, clean, editable, stage, job,
                    cancel, expected, savedStamp, resolvedSaved, discarded, exit>>
      <4>1. read'.for = "nothing" /\ read'.at = "stamp"
        BY <3>2, NoReadIs
      <4>2. FileIsSeen'
        BY <3>2, <4>1, FreshRead
      <4>3. Purposes' /\ Progress' /\ Completions'
        BY <1>1, <2>1, <2>3, <3>2, <4>1 DEF Saving!Validated, Purposes, Progress, Completions, Steps
      <4> QED
        BY <4>2, <4>3 DEF SaveInv
    <3> QED
      BY <2>3, <3>1, <3>2 DEF Saving!Validated
  <2>4. CASE Saving!Verified(stamp)
    <3>1. CASE Saving!Finish("Stale")
      BY <1>1, <2>1, <2>4, <3>1, FinishKeeps DEF Saving!Verified, Purposes, Progress
    <3>2. CASE /\ stamp.bytes = Saving!Whole(Saving!Exported(job.document, job.as))
               /\ result' = "Saved" /\ step' = "finished"
               /\ Saving!Go("seen", stamp, read.opened, read.bytes)
               /\ UNCHANGED <<replaced, disk, changes, text, clean, editable, stage, job,
                    cancel, expected, savedStamp, resolvedSaved, discarded, exit>>
      <4>3. read'.for = read.for /\ read'.at = "seen" /\ read'.before = stamp
        BY <3>2 DEF Saving!Go, Saving!ReadAt
      <4>4. FileIsSeen'
        BY <3>2, <4>3, FreshRead
      <4>5. Purposes' /\ Progress' /\ Completions'
        BY <1>1, <1>3, <2>1, <2>4, <3>2, <4>3
           DEF Saving!Verified, Purposes, Progress, Completions, Steps
      <4> QED
        BY <4>4, <4>5 DEF SaveInv
    <3> QED
      BY <2>4, <3>1, <3>2 DEF Saving!Verified
  <2>5. CASE Saving!Confirmed(stamp)
    BY <2>1, <2>5, LeaveKeeps DEF Saving!Confirmed
  <2> QED
    BY <1>3, <2>2, <2>3, <2>4, <2>5 DEF Saving!Accept, stamp
<1> QED
  BY <1>2, <1>3 DEF Saving!ReadAfter

\* The steps of the worker between the reads, and the handler of its end.
LEMMA WorkKeeps ==
  ASSUME SaveInv, Saving!PrepareExport \/ Saving!WriteTemporary \/ Saving!Commit
  PROVE  SaveInv'
<1> USE DEF Saving!file, Saving!widget, Saving!dialog
<1>1. Purposes /\ Progress /\ Completions
  BY DEF SaveInv
<1>2. CASE \E status \in {"Cancelled", "Error"} : Saving!Finish(status)
  BY <1>1, <1>2, FinishKeeps DEF Saving!PrepareExport, Saving!WriteTemporary, Saving!Commit, Progress
<1>3. ASSUME NEW purpose \in {"validate", "revalidate"},
             read' = Saving!Reading(purpose), step' = purpose,
             step = IF purpose = "validate" THEN "start" ELSE "write",
             UNCHANGED <<result, replaced, disk, changes, text, clean, editable, stage, job,
               cancel, expected, savedStamp, resolvedSaved, discarded, exit>>
      PROVE  SaveInv'
  <2>1. read'.for = purpose /\ read'.at = "stamp"
    BY <1>3, NoReadIs
  <2>2. FileIsSeen'
    BY <1>3, <2>1, FreshRead
  <2>3. Purposes' /\ Progress' /\ Completions'
    BY <1>1, <1>3, <2>1 DEF Purposes, Progress, Completions, Steps
  <2> QED
    BY <2>2, <2>3 DEF SaveInv
<1>4. CASE /\ Saving!Commit /\ changes' = changes + 1 /\ replaced' = TRUE /\ step' = "verify"
           /\ read' = Saving!Reading("verify")
           /\ disk' = Saving!File(changes + 1, changes + 1, expected.writable,
                         Saving!Whole(Saving!Exported(job.document, job.as)))
           /\ UNCHANGED <<result, text, clean, editable, stage, job, cancel, expected, savedStamp,
                resolvedSaved, discarded, exit>>
  <2>1. read'.for = "verify" /\ read'.at = "stamp"
    BY <1>4, NoReadIs
  <2>2. changes \in Nat /\ changes' \in Nat /\ step = "commit"
    BY <1>4 DEF SaveInv, FileIsSeen, Saving!Commit
  <2>3. IsFile(disk', changes')
    BY <1>4, <2>2, FileIs DEF Saving!Whole
  <2>4. FileIsSeen'
    BY <2>1, <2>2, <2>3 DEF FileIsSeen, HasSeen
  <2>5. Purposes' /\ Progress' /\ Completions'
    BY <1>1, <1>4, <2>1, <2>2 DEF Purposes, Progress, Completions, Steps
  <2> QED
    BY <2>4, <2>5 DEF SaveInv
<1>5. CASE Saving!PrepareExport
  BY <1>2, <1>3, <1>5 DEF Saving!PrepareExport
<1>6. CASE Saving!WriteTemporary
  BY <1>2, <1>3, <1>6 DEF Saving!WriteTemporary
<1>7. CASE Saving!Commit
  BY <1>2, <1>4, <1>7 DEF Saving!Commit
<1> QED
  BY <1>5, <1>6, <1>7

\* The file is as it was, and the read is over or begins anew.
LEMMA Rests ==
  ASSUME SaveInv, UNCHANGED <<disk, changes>>,
         read' = read \/ read' = Saving!NoRead \/ \E p : read' = Saving!Reading(p)
  PROVE  FileIsSeen'
<1>1. CASE read' = read
  BY <1>1 DEF SaveInv, FileIsSeen
<1>2. CASE read' = Saving!NoRead \/ \E p : read' = Saving!Reading(p)
  BY <1>2, NoReadIs, FreshRead
<1> QED
  BY <1>1, <1>2

LEMMA EndKeeps ==
  ASSUME SaveInv, Saving!SaveFinished
  PROVE  SaveInv'
<1> USE DEF Saving!file, Saving!widget, Saving!dialog
<1>1. Purposes /\ Progress /\ Completions
  BY DEF SaveInv
<1>2. FileIsSeen'
  BY Rests DEF Saving!SaveFinished
<1>3. Purposes'
  BY <1>1, NoReadIs DEF Saving!SaveFinished, Purposes, Progress
<1>4. Progress'
  BY <1>1 DEF Saving!SaveFinished, Progress, Steps
<1>5. Completions'
  BY <1>1 DEF Saving!SaveFinished, Saving!Acknowledges, Completions, Progress, IsResolved
<1> QED
  BY <1>2, <1>3, <1>4, <1>5 DEF SaveInv

\* What the user does in the dialog.
LEMMA DialogKeeps ==
  ASSUME SaveInv,
         \/ \E d \in Document : Saving!Edit(d)
         \/ Saving!SetEditable
         \/ \E as \in {"Draft", "Resolved"}, closeAfter \in BOOLEAN : Saving!StartSave(as, closeAfter)
         \/ Saving!CancelSave \/ Saving!Reject \/ Saving!RejectEarly
  PROVE  SaveInv'
<1> USE DEF Saving!file, Saving!widget, Saving!worker, Saving!dialog, Saving!Saving
<1>1. Purposes /\ Progress /\ Completions
  BY DEF SaveInv
<1>2. ASSUME NEW d \in Document, Saving!Edit(d) PROVE SaveInv'
  <2>1. FileIsSeen'
    BY <1>2, Rests DEF Saving!Edit
  <2>2. Purposes' /\ Progress' /\ Completions'
    BY <1>1, <1>2 DEF Saving!Edit, Purposes, Progress, Completions
  <2> QED
    BY <2>1, <2>2 DEF SaveInv
<1>3. CASE Saving!SetEditable
  <2>1. FileIsSeen'
    BY <1>3, Rests DEF Saving!SetEditable
  <2>2. Purposes' /\ Progress' /\ Completions'
    BY <1>1, <1>3 DEF Saving!SetEditable, Purposes, Progress, Completions
  <2> QED
    BY <2>1, <2>2 DEF SaveInv
<1>4. ASSUME NEW as \in {"Draft", "Resolved"}, NEW closeAfter \in BOOLEAN,
             Saving!StartSave(as, closeAfter)
      PROVE  SaveInv'
  <2>1. FileIsSeen'
    BY <1>4, Rests DEF Saving!StartSave
  <2>2. read'.for = "nothing" /\ read'.at = "stamp"
    BY <1>4, NoReadIs DEF Saving!StartSave
  <2>3. Purposes' /\ Progress'
    BY <1>1, <1>4, <2>2 DEF Saving!StartSave, Purposes, Progress, Steps
  <2>4. Completions'
    BY <1>1, <1>4 DEF Saving!StartSave, Saving!Unresolved, Completions
  <2> QED
    BY <2>1, <2>3, <2>4 DEF SaveInv
<1>5. CASE Saving!CancelSave
  <2>1. FileIsSeen'
    BY <1>5, Rests DEF Saving!CancelSave
  <2>2. Purposes' /\ Progress' /\ Completions'
    BY <1>1, <1>5 DEF Saving!CancelSave, Purposes, Progress, Completions
  <2> QED
    BY <2>1, <2>2 DEF SaveInv
<1>6. CASE Saving!Reject
  <2>1. FileIsSeen'
    BY <1>6, Rests DEF Saving!Reject, Saving!Close
  <2>2. step = "idle" /\ step' = "idle"
    BY <1>6 DEF Saving!Reject
  <2>3. Purposes' /\ Progress'
    BY <1>1, <1>6, <2>2, NoReadIs DEF Saving!Reject, Saving!Close, Purposes, Progress, Steps
  <2>4. Completions'
    BY <1>1, <1>6, <2>2 DEF Saving!Reject, Saving!Close, Saving!Modified, Completions
  <2> QED
    BY <2>1, <2>3, <2>4 DEF SaveInv
<1>7. CASE Saving!RejectEarly
  <2>1. FileIsSeen'
    BY <1>7, Rests DEF Saving!RejectEarly
  <2>2. read'.for = "nothing" /\ read'.at = "stamp"
    BY <1>7, NoReadIs DEF Saving!RejectEarly
  <2>3. Purposes' /\ Progress' /\ Completions'
    BY <1>1, <1>7, <2>2 DEF Saving!RejectEarly, Purposes, Progress, Completions
  <2> QED
    BY <2>1, <2>3 DEF SaveInv
<1> QED
  BY <1>2, <1>3, <1>4, <1>5, <1>6, <1>7

\* Other processes.
LEMMA OthersKeep ==
  ASSUME SaveInv, Saving!Others
  PROVE  SaveInv'
<1> USE DEF Saving!file, Saving!widget, Saving!dialog
<1>1. /\ changes \in Nat /\ changes' = changes + 1 /\ (WriterRaces \/ step # "commit")
      /\ UNCHANGED <<launchedReadOnly, text, clean, editable, step, result, replaced, stage, job,
           cancel, expected, savedStamp, resolvedSaved, discarded, exit>>
  BY DEF SaveInv, FileIsSeen, Saving!Others, Saving!Rewrite, Saving!Replace, Saving!Protect,
         Saving!Remove, Saving!MayChange
<1>2. (disk # None => IsFile(disk, changes)) /\ HasSeen(read, disk, changes) /\ Purposes
  BY DEF SaveInv, FileIsSeen
<1>3. read'.for = read.for /\ read'.at = read.at /\ read'.before = read.before
  <2>1. UNCHANGED read \/ \E o, b : read.at = "rest" /\ Saving!Go("rest", read.before, o, b)
    BY DEF Saving!Others, Saving!Rewrite, Saving!Replace, Saving!Protect, Saving!Remove
  <2> QED
    BY <2>1 DEF Saving!Go, Saving!ReadAt
<1>4. Purposes' /\ Progress' /\ Completions'
  BY <1>1, <1>3 DEF SaveInv, Purposes, Progress, Completions
<1>5. ASSUME disk' # None => IsFile(disk', changes') /\ disk'.time = changes' PROVE SaveInv'
  <2>1. HasSeen(read', disk', changes')
    BY <1>1, <1>2, <1>3, <1>5 DEF HasSeen
  <2> QED
    BY <1>1, <1>4, <1>5, <2>1 DEF SaveInv, FileIsSeen
<1>6. ASSUME NEW d, Saving!Rewrite(Saving!Exported(d, "Foreign")) \/
                    Saving!Replace(Saving!Exported(d, "Foreign"))
      PROVE  SaveInv'
  <2>1. \E i, w, x : disk' = Saving!File(i, changes + 1, w, <<x, x>>)
    BY <1>6 DEF Saving!Rewrite, Saving!Replace, Saving!Whole
  <2>2. IsFile(disk', changes')
    BY <1>1, <2>1, FileIs
  <2>3. disk'.time = changes'
    BY <1>1, <2>1 DEF Saving!File
  <2> QED
    BY <1>5, <2>2, <2>3
<1>7. CASE Saving!Protect
  <2>1. disk # None /\ disk' = Saving!File(disk.inode, disk.time, ~disk.writable, disk.bytes)
        /\ read' = read
    BY <1>7 DEF Saving!Protect
  <2>2. disk'.time = disk.time /\ disk'.bytes = disk.bytes
    BY <2>1 DEF Saving!File
  <2>3. IsFile(disk', changes')
    <3>1. /\ disk.bytes = <<disk.bytes[1], disk.bytes[2]>>
          /\ disk.time \in Nat /\ disk.time <= changes' /\ changes' \in Nat
      BY <1>1, <1>2, <2>1 DEF IsFile
    <3>2. IsFile(Saving!File(disk.inode, disk.time, ~disk.writable, <<disk.bytes[1], disk.bytes[2]>>),
            changes')
      BY <3>1, FileIs
    <3> QED
      BY <2>1, <3>1, <3>2
  <2>4. HasSeen(read', disk', changes')
    BY <1>1, <1>2, <2>1, <2>2 DEF HasSeen
  <2> QED
    BY <1>1, <1>4, <2>3, <2>4 DEF SaveInv, FileIsSeen
<1>8. CASE Saving!Remove
  BY <1>5, <1>8 DEF Saving!Remove
<1> QED
  BY <1>6, <1>7, <1>8 DEF Saving!Others

LEMMA SaveStays ==
  ASSUME SaveInv, [NextAll]_all
  PROVE  SaveInv'
<1>1. CASE Saves /\ SaveStep
  <2> USE <1>1
  <2>1. CASE Saving!ReadStamp \/ Saving!ReadOpen \/ Saving!ReadRest
    BY <2>1, StampKeeps
  <2>2. CASE Saving!ReadAfter
    BY <2>2, AfterKeeps
  <2>3. CASE Saving!PrepareExport \/ Saving!WriteTemporary \/ Saving!Commit
    BY <2>3, WorkKeeps
  <2>4. CASE Saving!SaveFinished
    BY <2>4, EndKeeps
  <2>5. CASE Saving!Others
    BY <2>5, OthersKeep
  <2>6. CASE \/ \E d \in Document : Saving!Edit(d)
             \/ Saving!SetEditable
             \/ \E as \in {"Draft", "Resolved"}, closeAfter \in BOOLEAN : Saving!StartSave(as, closeAfter)
             \/ Saving!CancelSave \/ Saving!Reject \/ Saving!RejectEarly
    BY <2>6, DialogKeeps
  <2> QED
    BY <2>1, <2>2, <2>3, <2>4, <2>5, <2>6 DEF SaveStep, Saving!SaveAndClose
<1>2. CASE UNCHANGED saving
  BY <1>2 DEF saving, SaveInv, FileIsSeen, HasSeen, IsFile, Purposes, Progress, Completions
<1> QED
  BY <1>1, <1>2 DEF NextAll, all, ViewStep, SaveStep, SyntaxStep, PresentStep, ScanStep, ResolveStep,
     Views, Saves, Syntaxes, Presents, Scans, Resolves

CompletesTruly ==
  exit # 0 /\ exit' = 0 =>
    /\ disk = savedStamp
    /\ savedStamp.bytes = Saving!Whole(Saving!Exported(text, "Resolved")) /\ text \in Resolved
ReplacesSeen == replaced' /\ ~replaced => WriterRaces \/ disk = expected
KeepsWork ==
  stage = "open" =>
    /\ clean' # clean =>
         read.before # None /\ read.before.bytes = Saving!Whole(Saving!Exported(clean', job.as))
    /\ stage' # "open" /\ ~discarded' => text' = clean'

LEMMA SaveSteps ==
  ASSUME SaveInv, [NextAll]_all
  PROVE  CompletesTruly /\ ReplacesSeen /\ KeepsWork
<1> USE DEF Saving!file, Saving!widget, Saving!worker, Saving!dialog, Saving!Saving
<1>1. Purposes /\ Progress /\ Completions
  BY DEF SaveInv
<1>0. ASSUME UNCHANGED <<exit, replaced, clean, text, stage>>
      PROVE  CompletesTruly /\ ReplacesSeen /\ KeepsWork
  BY <1>0 DEF CompletesTruly, ReplacesSeen, KeepsWork
<1>2. ASSUME NEW status, Saving!Finish(status)
      PROVE  CompletesTruly /\ ReplacesSeen /\ KeepsWork
  BY <1>0, <1>2 DEF Saving!Finish
<1>3. ASSUME NEW code, Saving!Leave(code), read.for = "final", code = 1
      PROVE  CompletesTruly /\ ReplacesSeen /\ KeepsWork
  BY <1>1, <1>3 DEF Saving!Leave, Purposes, CompletesTruly, ReplacesSeen, KeepsWork
<1>4. ASSUME NEW status, Saving!ReadFailed(status)
      PROVE  CompletesTruly /\ ReplacesSeen /\ KeepsWork
  <2>1. CASE read.for = "load" /\ UNCHANGED <<exit, replaced, clean, text>>
    BY <1>1, <2>1 DEF Purposes, CompletesTruly, ReplacesSeen, KeepsWork
  <2> QED
    BY <1>2, <1>3, <1>4, <2>1 DEF Saving!ReadFailed
<1>5. CASE Saving!ReadStamp \/ Saving!ReadOpen \/ Saving!ReadRest
  BY <1>0, <1>4, <1>5 DEF Saving!ReadStamp, Saving!ReadOpen, Saving!ReadRest
<1>6. CASE Saving!ReadAfter
  <2>1. CASE \E status : Saving!ReadFailed(status)
    BY <1>4, <2>1
  <2>2. CASE /\ disk # None /\ Saving!Metadata(disk) = read.before /\ Saving!Accept(Saving!Seen)
    <3> DEFINE stamp == Saving!Seen
    <3>1. stamp = disk
      BY <1>6, <2>2, SeenIsDisk DEF Saving!ReadAfter
    <3> HIDE DEF stamp
    <3>2. CASE Saving!Loaded(stamp)
      BY <1>1, <3>2 DEF Saving!Loaded, Purposes, CompletesTruly, ReplacesSeen, KeepsWork
    <3>3. CASE Saving!Validated(stamp)
      BY <1>0, <1>2, <3>3 DEF Saving!Validated
    <3>4. CASE Saving!Verified(stamp)
      BY <1>0, <1>2, <3>4 DEF Saving!Verified
    <3>5. CASE Saving!Confirmed(stamp)
      BY <1>1, <3>1, <3>5 DEF Saving!Confirmed, Saving!Leave, Purposes, Completions, IsResolved,
         CompletesTruly, ReplacesSeen, KeepsWork
    <3> QED
      BY <2>2, <3>2, <3>3, <3>4, <3>5 DEF Saving!Accept, stamp
  <2> QED
    BY <1>6, <2>1, <2>2 DEF Saving!ReadAfter
<1>7. CASE Saving!PrepareExport \/ Saving!WriteTemporary
  BY <1>0, <1>2, <1>7 DEF Saving!PrepareExport, Saving!WriteTemporary
<1>8. CASE Saving!Commit
  <2>1. CASE UNCHANGED <<exit, clean, text, stage>> /\ step = "commit"
    BY <1>1, <2>1 DEF Progress, CompletesTruly, ReplacesSeen, KeepsWork
  <2> QED
    BY <1>2, <1>8, <2>1 DEF Saving!Commit
<1>9. CASE Saving!SaveFinished
  <2>1. replaced' = replaced /\ step = "finished" /\ text' = text
    BY <1>9 DEF Saving!SaveFinished
  <2>2. exit' = exit \/ exit' = 1
    BY <1>9 DEF Saving!SaveFinished
  <2>3. CompletesTruly /\ ReplacesSeen
    BY <2>1, <2>2 DEF CompletesTruly, ReplacesSeen
  <2>4. CASE result # "Saved"
    BY <1>9, <2>3, <2>4 DEF Saving!SaveFinished, Saving!Acknowledges, KeepsWork
  <2>5. CASE result = "Saved"
    <3>1. read.before # None
          /\ read.before.bytes = Saving!Whole(Saving!Exported(job.document, job.as))
      BY <1>1, <2>1, <2>5 DEF Progress
    <3>2. clean' = clean \/ (clean' = text /\ job.document = text)
      BY <1>9, <2>5 DEF Saving!SaveFinished, Saving!Acknowledges
    <3>3. stage' = stage \/ clean' = text
      BY <1>9, <2>5 DEF Saving!SaveFinished, Saving!Acknowledges
    <3>4. KeepsWork
      BY <2>1, <3>1, <3>2, <3>3 DEF KeepsWork
    <3> QED
      BY <2>3, <3>4
  <2> QED
    BY <2>4, <2>5
<1>10. CASE \/ \E d \in Document : Saving!Edit(d)
            \/ Saving!SetEditable
            \/ \E as \in {"Draft", "Resolved"}, closeAfter \in BOOLEAN : Saving!StartSave(as, closeAfter)
            \/ Saving!CancelSave
  BY <1>10 DEF Saving!Edit, Saving!SetEditable, Saving!StartSave, Saving!CancelSave,
     CompletesTruly, ReplacesSeen, KeepsWork
<1>11. CASE Saving!Reject \/ Saving!RejectEarly
  <2>1. UNCHANGED <<replaced, text, clean>> /\ (exit' = 1 \/ exit' = exit)
    BY <1>11 DEF Saving!Reject, Saving!Close, Saving!RejectEarly
  <2>2. stage = "open" => discarded' = (text # clean)
    BY <1>11 DEF Saving!Reject, Saving!Close, Saving!Modified, Saving!RejectEarly
  <2>3. stage = "open" /\ ~discarded' => text' = clean'
    BY <2>1, <2>2
  <2> QED
    BY <2>1, <2>3 DEF CompletesTruly, ReplacesSeen, KeepsWork
<1>12. CASE Saving!Others
  <2>1. UNCHANGED <<exit, replaced, clean, text, stage>>
    BY <1>12 DEF Saving!Others, Saving!Rewrite, Saving!Replace, Saving!Protect, Saving!Remove,
       Saving!MayChange
  <2> QED
    BY <1>0, <2>1
<1>13. CASE Saves /\ SaveStep
  BY <1>5, <1>6, <1>7, <1>8, <1>9, <1>10, <1>11, <1>12, <1>13 DEF SaveStep, Saving!SaveAndClose
<1>14. CASE UNCHANGED saving
  BY <1>0, <1>14 DEF saving
<1> QED
  BY <1>13, <1>14 DEF NextAll, all, ViewStep, SaveStep, SyntaxStep, PresentStep, ScanStep, ResolveStep,
     Views, Saves, Syntaxes, Presents, Scans, Resolves

\* Exit code 0 is returned only over the file that was saved, with the text shown and
\* no conflict in it; and the rename replaces what RESULT was loaded or last saved as
\* (MergeDialog.cpp, MergeResultSave.cpp), for all documents and any number of changes
\* by other processes.
THEOREM SavesSafe == SpecAll => SavesAreSafe
<1>1. InitAll => SaveInv
  BY SaveInit
<1>2. SaveInv /\ [NextAll]_all =>
        SaveInv' /\ [CompletesTruly]_(Saving!vars) /\ [ReplacesSeen]_(Saving!vars)
  BY SaveStays, SaveSteps
<1>3. SpecAll => [][CompletesTruly]_(Saving!vars) /\ [][ReplacesSeen]_(Saving!vars)
  BY <1>1, <1>2, PTL DEF SpecAll
<1> QED
  BY <1>3 DEF CompletesTruly, ReplacesSeen, SavesAreSafe, Saving!CompletionIsTrue,
     Saving!ForeignChangesSurvive

\* A save reported as cancelled or failed has not replaced the file, one reported as
\* saved has been read back, and only then does text count as clean (MergeDialog.cpp).
THEOREM DialogHonest == SpecAll => DialogIsHonest
<1>1. InitAll => SaveInv
  BY SaveInit
<1>2. SaveInv /\ [NextAll]_all => SaveInv' /\ [KeepsWork]_(Saving!vars)
  BY SaveStays, SaveSteps
<1>3. SaveInv => Saving!ResultIsHonest
  BY DEF SaveInv, Progress, Saving!ResultIsHonest
<1>4. SpecAll => []Saving!ResultIsHonest
  BY <1>1, <1>2, <1>3, PTL DEF SpecAll
<1>5. SpecAll => [][KeepsWork]_(Saving!vars)
  BY <1>1, <1>2, PTL DEF SpecAll
<1>6. SpecAll => Saving!WorkIsKept
  BY <1>5 DEF KeepsWork, Saving!WorkIsKept
<1> QED
  BY <1>4, <1>6 DEF DialogIsHonest

-----------------------------------------------------------------------------
(* A walk through two trees (DirScan).                                     *)

Nodes == ScanNode \union {None}
Listings == [ScanPath -> Nodes]
Frame == [path : ScanPath \union {<<>>}, depth : Nat, at : Nat, stage : {"left", "right", "names"},
          left : Listings, right : Listings, todo : SUBSET ScanPath]
FoundEntry == [path : ScanPath, left : Nodes, right : Nodes,
               status : {"OnlyLeft", "OnlyRight", "Different", "Same", "Error"},
               verified : BOOLEAN, isDir : BOOLEAN, empty : BOOLEAN]
Comparing == [stage : {"open", "read", "check"}, left : Seq(Block), right : Seq(Block)]
ScanTypes ==
  /\ trees \in [Side -> Listings]
  /\ frames \in Seq(Frame) /\ found \in Seq(FoundEntry)
  /\ reading = None \/ reading \in Comparing

\* A node that was listed is what is there, or an earlier state of it.
AsListed(t, side, p, node) ==
  node # None =>
    /\ t[side][p] # None /\ node.time <= t[side][p].time
    /\ node.time = t[side][p].time => node.content = t[side][p].content
FrameFits(f, es, t) ==
  /\ f.at > 0 => f.at \in DOMAIN es /\ es[f.at].isDir
  /\ \A p \in ScanPath : AsListed(t, "left", p, f.left[p]) /\ AsListed(t, "right", p, f.right[p])

\* What an entry says, and that it says something.
AreSame(o, l, r) ==
  IF l.kind = "file" /\ Scanning!Normalizes(o, l, r) THEN Scanning!Normal(l.content) = Scanning!Normal(r.content)
  ELSE l.content = r.content
IsTrue(o, e) ==
  e.verified /\ e.left # None /\ e.right # None /\ ~e.isDir /\ ~Scanning!Collide(e.left, e.right) =>
    (e.status = "Same") = AreSame(o, e.left, e.right)
IsSaid(e) == e.status # "Same" \/ e.verified \/ e.isDir
EntriesFit(o, es, r) ==
  \A n \in DOMAIN es : IsTrue(o, es[n]) /\ (r = None \/ n # Len(es) => IsSaid(es[n]))

\* What has been read of the two files of the last entry.
BeginsWith(content, blocks) ==
  Len(blocks) <= Len(content) /\ \A n \in 1..Len(blocks) : blocks[n] = content[n]
IsRead(t, side, p, node, blocks) ==
  node.time = t[side][p].time => BeginsWith(node.content, blocks)
ReadEnough(o, e, r) ==
  \/ ~Scanning!Normalizes(o, e.left, e.right) /\ Len(r.left) = Len(r.right) /\ r.left # r.right
  \/ Len(r.left) = Len(e.left.content) /\ Len(r.right) = Len(e.right.content)
LastFits(o, t, e, r) ==
  /\ e.left # None /\ e.right # None /\ ~e.verified
  /\ ~Scanning!IsDir(e.left) /\ ~Scanning!IsDir(e.right) /\ ~Scanning!Collide(e.left, e.right)
  /\ AsListed(t, "left", e.path, e.left) /\ AsListed(t, "right", e.path, e.right)
  /\ r.stage # "open" => e.left.kind = "file" /\ e.right.kind = "file"
  /\ IsRead(t, "right", e.path, e.right, r.right)
  /\ r.stage # "check" => IsRead(t, "left", e.path, e.left, r.left)
  /\ r.stage = "check" => BeginsWith(e.left.content, r.left) /\ ReadEnough(o, e, r)
ReadingFits(o, t, es, r) == r # None => Len(es) > 0 /\ LastFits(o, t, es[Len(es)], r)

ScanInv ==
  /\ ScanTypes
  /\ \A n \in DOMAIN frames : FrameFits(frames[n], found, trees)
  /\ EntriesFit(scanOptions, found, reading)
  /\ ReadingFits(scanOptions, trees, found, reading)

LEMMA ScanInit == InitAll => ScanInv
<1> SUFFICES ASSUME InitAll PROVE ScanInv
  OBVIOUS
<1>1. PICK o, d : d \in ScanTree /\ Scanning!InitWith(o, d)
  <2>1. (CHOOSE t \in ScanTree : TRUE) \in ScanTree
    BY ScanAssumption
  <2>2. \/ Scanning!Init
        \/ Scanning!InitWith(CHOOSE o \in ScanOptions : TRUE, CHOOSE t \in ScanTree : TRUE)
    BY DEF InitAll
  <2>3. CASE Scanning!Init
    BY <2>3 DEF Scanning!Init
  <2> QED
    BY <2>1, <2>2, <2>3
<1>2. trees \in [Side -> Listings]
  BY <1>1, ScanAssumption DEF Scanning!InitWith, Listings, Nodes
<1> DEFINE call == Scanning!Call(<<>>, 0, 0)
<1>3. call \in Frame /\ call.at = 0
      /\ \A p \in ScanPath : call.left[p] = None /\ call.right[p] = None
  BY DEF Scanning!Call, Scanning!NoListing, Frame, Listings, Nodes
<1>4. frames = <<call>> /\ found = <<>> /\ reading = None
  BY <1>1 DEF Scanning!InitWith
<1> HIDE DEF call
<1>5. frames \in Seq(Frame) /\ \A n \in DOMAIN frames : frames[n] = call
  BY <1>3, <1>4
<1>6. found \in Seq(FoundEntry) /\ DOMAIN found = {}
  BY <1>4
<1>7. ScanTypes
  BY <1>2, <1>4, <1>5, <1>6 DEF ScanTypes
<1>8. \A n \in DOMAIN frames : FrameFits(frames[n], found, trees)
  BY <1>3, <1>5 DEF FrameFits, AsListed
<1> QED
  BY <1>4, <1>6, <1>7, <1>8 DEF ScanInv, EntriesFit, ReadingFits

\* Giving up.
LEMMA ScanFails ==
  ASSUME ScanInv, NEW reason, Scanning!Fail(reason), UNCHANGED <<scanOptions, trees>>
  PROVE  ScanInv'
<1>1. frames' = <<>> /\ found' = <<>> /\ reading' = None
  BY DEF Scanning!Fail
<1>2. frames' \in Seq(Frame) /\ found' \in Seq(FoundEntry) /\ DOMAIN frames' = {} /\ DOMAIN found' = {}
  BY <1>1
<1>3. ScanTypes'
  BY <1>1, <1>2 DEF ScanInv, ScanTypes
<1> QED
  BY <1>1, <1>2, <1>3 DEF ScanInv, EntriesFit, ReadingFits

\* The last call goes on in another state.
LEMMA TopChanges ==
  ASSUME ScanInv, NEW f \in Frame, frames # <<>>,
         frames' = Scanning!WithTop(f), FrameFits(f, found, trees),
         UNCHANGED <<scanOptions, trees, found, reading>>
  PROVE  ScanInv'
<1>1. frames \in Seq(Frame) /\ frames' = [frames EXCEPT ![Len(frames)] = f] /\ Len(frames) \in Nat
  BY DEF ScanInv, ScanTypes, Scanning!WithTop
<1>2. frames' \in Seq(Frame) /\ DOMAIN frames' = DOMAIN frames
      /\ \A n \in DOMAIN frames : frames'[n] = IF n = Len(frames) THEN f ELSE frames[n]
  BY <1>1
<1>3. ScanTypes'
  BY <1>2 DEF ScanInv, ScanTypes
<1>4. \A n \in DOMAIN frames' : FrameFits(frames'[n], found', trees')
  BY <1>2 DEF ScanInv
<1> QED
  BY <1>3, <1>4 DEF ScanInv

LEMMA TopIs ==
  ASSUME ScanInv, frames # <<>>
  PROVE  /\ Scanning!Top \in Frame /\ FrameFits(Scanning!Top, found, trees)
         /\ Len(frames) \in Nat \ {0} /\ Len(frames) \in DOMAIN frames
<1>1. frames \in Seq(Frame)
  BY DEF ScanInv, ScanTypes
<1>2. Len(frames) \in Nat \ {0} /\ Len(frames) \in DOMAIN frames
  BY <1>1
<1> QED
  BY <1>1, <1>2 DEF ScanInv, Scanning!Top

\* A listing shows what is there.
LEMMA ListedIs ==
  ASSUME ScanInv, NEW side \in Side, NEW d
  PROVE  /\ Scanning!Listed(side, d) \in Listings
         /\ \A p \in ScanPath : AsListed(trees, side, p, Scanning!Listed(side, d)[p])
<1>1. trees[side] \in Listings
  BY DEF ScanInv, ScanTypes
<1>2. Scanning!Listed(side, d) \in Listings
  BY <1>1 DEF Scanning!Listed, Listings, Nodes
<1>3. ASSUME NEW p \in ScanPath PROVE AsListed(trees, side, p, Scanning!Listed(side, d)[p])
  <2>1. Scanning!Listed(side, d)[p] \in {trees[side][p], None}
    BY DEF Scanning!Listed
  <2>2. trees[side][p] # None => trees[side][p].time \in Nat
    BY <1>1 DEF Listings, Nodes, ScanNode
  <2> QED
    BY <2>1, <2>2 DEF AsListed
<1> QED
  BY <1>2, <1>3

LEMMA ListingKeeps ==
  ASSUME ScanInv, Scanning!ListLeft \/ Scanning!ListRight
  PROVE  ScanInv'
<1> USE DEF Scanning!Step, Scanning!environment
<1>1. CASE \E reason : Scanning!Fail(reason)
  BY <1>1, ScanFails DEF Scanning!ListLeft, Scanning!ListRight
<1>2. CASE /\ frames # <<>> /\ UNCHANGED <<scanOptions, trees, found, reading>>
           /\ frames' = Scanning!WithTop([Scanning!Top EXCEPT !.stage = "right",
                                            !.left = Scanning!Listed("left", Scanning!Top.path)])
  <2> DEFINE top == Scanning!Top
             l == Scanning!Listed("left", top.path)
             f == [top EXCEPT !.stage = "right", !.left = l]
  <2>1. top \in Frame /\ FrameFits(top, found, trees)
    BY <1>2, TopIs
  <2>2. l \in Listings /\ \A p \in ScanPath : AsListed(trees, "left", p, l[p])
    BY ListedIs DEF Side
  <2>3. frames' = Scanning!WithTop(f)
    BY <1>2
  <2> HIDE DEF top, l
  <2>4. f \in Frame /\ f.at = top.at /\ f.left = l /\ f.right = top.right
    BY <2>1, <2>2 DEF Frame
  <2> HIDE DEF f
  <2>5. FrameFits(f, found, trees)
    BY <2>1, <2>2, <2>4 DEF FrameFits
  <2> QED
    BY <1>2, <2>3, <2>4, <2>5, TopChanges
<1>3. CASE Scanning!ListRight
  <2> DEFINE top == Scanning!Top
             l == Scanning!Listed("right", top.path)
             names == {p \in ScanPath : top.left[p] # None \/ l[p] # None}
             f == [top EXCEPT !.stage = "names", !.right = l, !.todo = names]
  <2>1. top \in Frame /\ FrameFits(top, found, trees) /\ frames # <<>>
    BY <1>3, TopIs DEF Scanning!ListRight
  <2>2. l \in Listings /\ \A p \in ScanPath : AsListed(trees, "right", p, l[p])
    BY ListedIs DEF Side
  <2>3. frames' = Scanning!WithTop(f) /\ UNCHANGED <<scanOptions, trees, found, reading>>
    BY <1>3 DEF Scanning!ListRight
  <2>4. names \in SUBSET ScanPath
    OBVIOUS
  <2> HIDE DEF top, l, names
  <2>5. f \in Frame /\ f.at = top.at /\ f.left = top.left /\ f.right = l
    BY <2>1, <2>2, <2>4 DEF Frame
  <2> HIDE DEF f
  <2>6. FrameFits(f, found, trees)
    BY <2>1, <2>2, <2>5 DEF FrameFits
  <2> QED
    BY <2>1, <2>3, <2>5, <2>6, TopChanges
<1> QED
  BY <1>1, <1>2, <1>3 DEF Scanning!ListLeft

\* The last entry is installed with what was found out about it.
LEMMA LastChanges ==
  ASSUME ScanInv, reading # None, NEW e \in FoundEntry,
         e.isDir = Scanning!Last.isDir, IsTrue(scanOptions, e), IsSaid(e),
         found' = [found EXCEPT ![Len(found)] = e], reading' = None,
         UNCHANGED <<scanOptions, trees, frames>>
  PROVE  ScanInv'
<1>1. found \in Seq(FoundEntry) /\ Len(found) \in DOMAIN found
  BY DEF ScanInv, ScanTypes, ReadingFits
<1>2. found' \in Seq(FoundEntry) /\ DOMAIN found' = DOMAIN found
      /\ \A n \in DOMAIN found : found'[n] = IF n = Len(found) THEN e ELSE found[n]
  BY <1>1
<1>3. Len(found') = Len(found)
  BY <1>1
<1>4. ScanTypes'
  BY <1>2 DEF ScanInv, ScanTypes
<1>5. EntriesFit(scanOptions', found', reading')
  BY <1>2, <1>3 DEF ScanInv, EntriesFit
<1>6. ASSUME NEW n \in DOMAIN frames PROVE FrameFits(frames[n], found', trees)
  <2>1. FrameFits(frames[n], found, trees)
    BY DEF ScanInv
  <2> QED
    BY <1>2, <2>1 DEF FrameFits, Scanning!Last
<1> QED
  BY <1>4, <1>5, <1>6 DEF ScanInv, ReadingFits

LEMMA LastIs ==
  ASSUME ScanInv, reading # None
  PROVE  /\ Scanning!Last \in FoundEntry /\ Len(found) \in DOMAIN found
         /\ LastFits(scanOptions, trees, Scanning!Last, reading) /\ reading \in Comparing
<1>1. found \in Seq(FoundEntry) /\ Len(found) > 0 /\ reading \in Comparing
      /\ LastFits(scanOptions, trees, found[Len(found)], reading)
  BY DEF ScanInv, ScanTypes, ReadingFits
<1>2. Len(found) \in DOMAIN found
  BY <1>1
<1> QED
  BY <1>1, <1>2 DEF Scanning!Last

LEMMA ComparedKeeps ==
  ASSUME ScanInv, reading # None, NEW st \in {"Same", "Different", "Error"}, NEW v \in BOOLEAN,
         Scanning!Compared(st, v), UNCHANGED <<scanOptions, trees>>, st = "Same" => v,
         v => (st = "Same") = AreSame(scanOptions, Scanning!Last.left, Scanning!Last.right)
  PROVE  ScanInv'
<1> DEFINE last == Scanning!Last
           e == [last EXCEPT !.status = st, !.verified = v]
<1>1. last \in FoundEntry
  BY LastIs
<1>2. found' = [found EXCEPT ![Len(found)] = e] /\ reading' = None /\ UNCHANGED frames
  BY DEF Scanning!Compared
<1>0. v => (st = "Same") = AreSame(scanOptions, last.left, last.right)
  OBVIOUS
<1> HIDE DEF last
<1>3. /\ e \in FoundEntry /\ e.isDir = last.isDir /\ e.left = last.left /\ e.right = last.right
      /\ e.status = st /\ e.verified = v
  BY <1>1 DEF FoundEntry
<1> HIDE DEF e
<1>4. IsTrue(scanOptions, e) /\ IsSaid(e)
  BY <1>0, <1>3 DEF IsTrue, IsSaid
<1> QED
  BY <1>2, <1>3, <1>4, LastChanges DEF last

\* The reading of the two files goes on.
LEMMA ReadingGoesOn ==
  ASSUME ScanInv, reading # None, NEW r \in Comparing, reading' = r,
         LastFits(scanOptions, trees, Scanning!Last, r),
         UNCHANGED <<scanOptions, trees, frames, found>>
  PROVE  ScanInv'
<1>1. r # None /\ Len(found) > 0
  BY ScanAssumption DEF Comparing, ScanInv, ReadingFits
<1>2. ScanTypes' /\ EntriesFit(scanOptions', found', reading')
  BY <1>1 DEF ScanInv, ScanTypes, EntriesFit
<1>3. ReadingFits(scanOptions', trees', found', reading')
  BY <1>1 DEF ReadingFits, Scanning!Last
<1> QED
  BY <1>2, <1>3 DEF ScanInv

LEMMA OpenKeeps ==
  ASSUME ScanInv, Scanning!Open
  PROVE  ScanInv'
<1> USE DEF Scanning!Step, Scanning!environment
<1> DEFINE last == Scanning!Last  l == last.left  r == last.right
<1>1. reading # None /\ reading.stage = "open" /\ UNCHANGED <<scanOptions, trees>>
  BY DEF Scanning!Open
<1>2. /\ last \in FoundEntry /\ reading \in Comparing
      /\ LastFits(scanOptions, trees, last, reading)
  BY <1>1, LastIs
<1> HIDE DEF last
<1>3. l \in ScanNode /\ r \in ScanNode /\ ~Scanning!IsDir(l) /\ ~Scanning!IsDir(r)
      /\ ~Scanning!Collide(l, r)
  BY <1>2 DEF LastFits, FoundEntry, Nodes
<1>4. CASE l.kind = "link" /\ Scanning!Compared(IF l.content = r.content THEN "Same" ELSE "Different", TRUE)
  BY <1>1, <1>4, ComparedKeeps DEF last, AreSame
<1>5. CASE Scanning!Compared("Error", FALSE)
  BY <1>1, <1>5, ComparedKeeps
<1>6. CASE /\ l.kind = "file" /\ r.kind = "file" /\ Scanning!Size(l) # Scanning!Size(r)
           /\ ~Scanning!AsText /\ Scanning!Compared("Different", TRUE)
  <2>1. ("Different" = "Same") = AreSame(scanOptions, l, r)
    BY <1>6 DEF AreSame, Scanning!Size, Scanning!AsText, last
  <2> QED
    BY <1>1, <1>6, <2>1, ComparedKeeps DEF last
<1>7. CASE /\ l.kind # "link" /\ "device" \notin {l.kind, r.kind}
           /\ reading' = [reading EXCEPT !.stage = "read"] /\ UNCHANGED <<frames, found>>
  <2> DEFINE new == [reading EXCEPT !.stage = "read"]
  <2>1. new \in Comparing /\ new.stage = "read" /\ new.left = reading.left /\ new.right = reading.right
    BY <1>2 DEF Comparing
  <2>2. l.kind = "file" /\ r.kind = "file"
    BY <1>3, <1>7, ScanAssumption DEF ScanNode, Scanning!IsDir, Scanning!Collide
  <2>3. reading' = new
    BY <1>7
  <2> HIDE DEF new
  <2>4. LastFits(scanOptions, trees, last, new)
    BY <1>1, <1>2, <2>1, <2>2 DEF LastFits
  <2> QED
    BY <1>1, <1>7, <2>1, <2>3, <2>4, ReadingGoesOn DEF last
<1> QED
  BY <1>4, <1>5, <1>6, <1>7 DEF Scanning!Open, last

\* One block more.
LEMMA BlockRead ==
  ASSUME NEW content \in Seq(Block), NEW blocks \in Seq(Block), BeginsWith(content, blocks),
         Len(blocks) + 1 <= Len(content)
  PROVE  BeginsWith(content, Append(blocks, content[Len(blocks) + 1]))
<1> DEFINE more == Append(blocks, content[Len(blocks) + 1])
<1>1. Len(more) = Len(blocks) + 1
      /\ \A n \in 1..Len(more) : more[n] = IF n = Len(blocks) + 1 THEN content[n] ELSE blocks[n]
  OBVIOUS
<1> HIDE DEF more
<1>2. BeginsWith(content, more)
  BY <1>1 DEF BeginsWith
<1> QED
  BY <1>2 DEF more

LEMMA BlockKeeps ==
  ASSUME ScanInv, Scanning!ReadBlock
  PROVE  ScanInv'
<1> USE DEF Scanning!Step, Scanning!environment
<1> DEFINE last == Scanning!Last
           side == Scanning!Reader
           content == trees[side][last.path].content
           at == Len(reading[side]) + 1
           new == [reading EXCEPT ![side] = Append(reading[side], content[at])]
<1>1. reading # None /\ reading.stage = "read" /\ UNCHANGED <<scanOptions, trees>>
      /\ side # None
      /\ \/ Scanning!Compared("Error", FALSE)
         \/ ~(at > Len(content)) /\ reading' = new /\ UNCHANGED <<frames, found>>
  <2>1. reading # None /\ reading.stage = "read" /\ UNCHANGED <<scanOptions, trees>> /\ side # None
    BY DEF Scanning!ReadBlock
  <2>2. CASE at > Len(content)
    BY <2>1, <2>2 DEF Scanning!ReadBlock
  <2>3. CASE ~(at > Len(content))
    <3>1. reading' = new /\ UNCHANGED <<frames, found>>
      BY <2>3 DEF Scanning!ReadBlock
    <3> QED
      BY <2>1, <2>3, <3>1
  <2> QED
    BY <2>1, <2>2, <2>3
<1>2. side \in {"left", "right"}
  BY <1>1 DEF Scanning!Reader
<1>3. /\ last \in FoundEntry /\ reading \in Comparing
      /\ LastFits(scanOptions, trees, last, reading)
  BY <1>1, LastIs
<1> HIDE DEF side, last
<1>4. CASE Scanning!Compared("Error", FALSE)
  BY <1>1, <1>4, ComparedKeeps
<1>5. CASE ~(at > Len(content)) /\ reading' = new /\ UNCHANGED <<frames, found>>
  <2> DEFINE node == last[side]
  <2>1. /\ AsListed(trees, side, last.path, node) /\ node # None
        /\ IsRead(trees, side, last.path, node, reading[side])
        /\ node \in ScanNode /\ reading[side] \in Seq(Block)
    BY <1>1, <1>2, <1>3 DEF LastFits, FoundEntry, Nodes, Comparing
  <2>2. trees[side][last.path] # None /\ trees[side][last.path] \in Nodes
    BY <1>2, <1>3, <2>1 DEF AsListed, ScanInv, ScanTypes, Side, Listings, FoundEntry
  <2>3. content \in Seq(Block)
    BY <2>2 DEF Nodes, ScanNode
  <2> HIDE DEF node
  <2> HIDE DEF content
  <2>4. at \in 1..Len(content)
    BY <1>5, <2>1, <2>3
  <2>5. Append(reading[side], content[at]) \in Seq(Block)
    BY <2>1, <2>3, <2>4
  <2>6. IsRead(trees, side, last.path, node, Append(reading[side], content[at]))
    <3> SUFFICES ASSUME node.time = trees[side][last.path].time
                 PROVE  BeginsWith(node.content, Append(reading[side], content[at]))
      BY DEF IsRead
    <3>1. node.content = content /\ BeginsWith(node.content, reading[side])
      BY <2>1 DEF IsRead, AsListed, content
    <3> QED
      BY <2>1, <2>3, <2>4, <3>1, BlockRead
  <2> DEFINE more == Append(reading[side], content[at])
  <2>7. more \in Seq(Block) /\ IsRead(trees, side, last.path, node, more) /\ new = [reading EXCEPT ![side] = more]
    BY <2>5, <2>6
  <2> HIDE DEF more
  <2>8. /\ new \in Comparing /\ new.stage = "read"
        /\ new.left = (IF side = "left" THEN more ELSE reading.left)
        /\ new.right = (IF side = "right" THEN more ELSE reading.right)
    BY <1>1, <1>2, <1>3, <2>7 DEF Comparing
  <2>9. reading' = new
    BY <1>5
  <2> HIDE DEF new
  <2>10. LastFits(scanOptions, trees, last, new)
    BY <1>1, <1>2, <1>3, <2>7, <2>8 DEF LastFits, node
  <2> QED
    BY <1>1, <1>5, <2>8, <2>9, <2>10, ReadingGoesOn DEF last
<1> QED
  BY <1>1, <1>4, <1>5

LEMMA LeftKeeps ==
  ASSUME ScanInv, Scanning!CheckLeft
  PROVE  ScanInv'
<1> USE DEF Scanning!Step, Scanning!environment
<1> DEFINE last == Scanning!Last
           new == [reading EXCEPT !.stage = "check"]
<1>1. reading # None /\ reading.stage = "read" /\ UNCHANGED <<scanOptions, trees>>
      /\ (Scanning!Differ \/ Scanning!Reader = None)
  BY DEF Scanning!CheckLeft
<1>2. /\ last \in FoundEntry /\ reading \in Comparing
      /\ LastFits(scanOptions, trees, last, reading)
  BY <1>1, LastIs
<1>3. CASE Scanning!Compared("Error", FALSE)
  BY <1>1, <1>3, ComparedKeeps
<1>4. CASE /\ Scanning!Unchanged("left", last.left) /\ reading' = new
           /\ UNCHANGED <<frames, found>>
  <2>1. last.left.time = trees["left"][last.path].time
    BY <1>4 DEF Scanning!Unchanged
  <2>2. ReadEnough(scanOptions, last, reading)
    <3>1. CASE Scanning!Differ
      BY <3>1 DEF ReadEnough, Scanning!Differ, Scanning!AsText
    <3>2. CASE Scanning!Reader = None
      <4>1. /\ Len(reading.left) = Scanning!Size(last.left)
            /\ Len(reading.right) = Scanning!Size(last.right)
        BY <3>2, ScanAssumption DEF Scanning!Reader, Side
      <4> QED
        BY <4>1 DEF ReadEnough, Scanning!Size
    <3> QED
      BY <1>1, <3>1, <3>2
  <2> HIDE DEF last
  <2>3. new \in Comparing /\ new.stage = "check" /\ new.left = reading.left /\ new.right = reading.right
    BY <1>2 DEF Comparing
  <2> HIDE DEF new
  <2>4. LastFits(scanOptions, trees, last, new)
    BY <1>1, <1>2, <2>1, <2>2, <2>3 DEF LastFits, IsRead, ReadEnough
  <2> QED
    BY <1>1, <1>4, <2>3, <2>4, ReadingGoesOn DEF last
<1> QED
  BY <1>3, <1>4 DEF Scanning!CheckLeft

\* Enough of two files is known to say whether they are the same.
LEMMA EnoughTells ==
  ASSUME NEW o, NEW e \in FoundEntry, NEW r \in Comparing, e.left # None, e.right # None,
         e.left.kind = "file", ReadEnough(o, e, r),
         BeginsWith(e.left.content, r.left), BeginsWith(e.right.content, r.right)
  PROVE  AreSame(o, e.left, e.right)
           = (IF Scanning!Normalizes(o, e.left, e.right)
                THEN Scanning!Normal(r.left) = Scanning!Normal(r.right) ELSE r.left = r.right)
<1> DEFINE lc == e.left.content  rc == e.right.content
<1>1. lc \in Seq(Block) /\ rc \in Seq(Block) /\ r.left \in Seq(Block) /\ r.right \in Seq(Block)
  BY DEF FoundEntry, Nodes, ScanNode, Comparing
<1>2. AreSame(o, e.left, e.right)
        = (IF Scanning!Normalizes(o, e.left, e.right) THEN Scanning!Normal(lc) = Scanning!Normal(rc) ELSE lc = rc)
  BY DEF AreSame
<1>3. BeginsWith(lc, r.left) /\ BeginsWith(rc, r.right)
  OBVIOUS
<1>4. CASE Len(r.left) = Len(lc) /\ Len(r.right) = Len(rc)
  <2>1. r.left = lc
    BY <1>1, <1>3, <1>4, SeqEqual DEF BeginsWith
  <2>2. r.right = rc
    BY <1>1, <1>3, <1>4, SeqEqual DEF BeginsWith
  <2> QED
    BY <1>2, <2>1, <2>2
<1>5. CASE ~Scanning!Normalizes(o, e.left, e.right) /\ Len(r.left) = Len(r.right) /\ r.left # r.right
  <2>1. PICK n \in 1..Len(r.left) : r.left[n] # r.right[n]
    BY <1>1, <1>5, SeqEqual
  <2>2. lc[n] = r.left[n] /\ rc[n] = r.right[n]
    BY <1>1, <1>3, <1>5, <2>1 DEF BeginsWith
  <2>3. lc # rc
    BY <2>1, <2>2
  <2> QED
    BY <1>2, <1>5, <2>3
<1> QED
  BY <1>4, <1>5 DEF ReadEnough

LEMMA RightKeeps ==
  ASSUME ScanInv, Scanning!CheckRight
  PROVE  ScanInv'
<1> USE DEF Scanning!Step, Scanning!environment
<1> DEFINE last == Scanning!Last
<1>1. reading # None /\ reading.stage = "check" /\ UNCHANGED <<scanOptions, trees>>
  BY DEF Scanning!CheckRight
<1>2. /\ last \in FoundEntry /\ reading \in Comparing
      /\ LastFits(scanOptions, trees, last, reading)
  BY <1>1, LastIs
<1>3. CASE Scanning!Compared("Error", FALSE)
  BY <1>1, <1>3, ComparedKeeps
<1>4. CASE /\ Scanning!Unchanged("right", last.right)
           /\ Scanning!Compared(IF Scanning!Equal THEN "Same" ELSE "Different", TRUE)
  <2>1. last.right.time = trees["right"][last.path].time
    BY <1>4 DEF Scanning!Unchanged
  <2> HIDE DEF last
  <2>2. BeginsWith(last.right.content, reading.right) /\ BeginsWith(last.left.content, reading.left)
        /\ ReadEnough(scanOptions, last, reading) /\ last.left # None /\ last.right # None
        /\ last.left.kind = "file"
    BY <1>1, <1>2, <2>1 DEF LastFits, IsRead
  <2>3. AreSame(scanOptions, last.left, last.right) = Scanning!Equal
    BY <1>2, <2>2, EnoughTells DEF Scanning!Equal, Scanning!AsText, last
  <2>4. Scanning!Equal \in BOOLEAN
    BY DEF Scanning!Equal
  <2> DEFINE st == IF Scanning!Equal THEN "Same" ELSE "Different"
  <2>5. (st = "Same") = AreSame(scanOptions, last.left, last.right) /\ st \in {"Same", "Different"}
    BY <2>3, <2>4
  <2>6. Scanning!Compared(st, TRUE)
    BY <1>4
  <2> HIDE DEF st
  <2> QED
    BY <1>1, <2>5, <2>6, ComparedKeeps DEF last
<1> QED
  BY <1>3, <1>4 DEF Scanning!CheckRight

\* The entry of two nodes; files are compared after it is added.
Compares(l, r) == Scanning!StatusOf(l, r) = "Same" /\ ~Scanning!IsDir(l)
EntryOf(p, l, r) == Scanning!Entry(p, l, r, Scanning!StatusOf(l, r), ~Compares(l, r))
LEMMA EntryIs ==
  ASSUME NEW p \in ScanPath, NEW l \in Nodes, NEW r \in Nodes, NEW o
  PROVE  /\ EntryOf(p, l, r) \in FoundEntry /\ IsTrue(o, EntryOf(p, l, r))
         /\ ~Compares(l, r) => IsSaid(EntryOf(p, l, r))
         /\ EntryOf(p, l, r).path = p /\ EntryOf(p, l, r).left = l /\ EntryOf(p, l, r).right = r
         /\ Compares(l, r) => /\ l # None /\ r # None /\ ~EntryOf(p, l, r).verified
                              /\ ~Scanning!IsDir(l) /\ ~Scanning!IsDir(r)
                              /\ ~Scanning!Collide(l, r)
<1> DEFINE st == Scanning!StatusOf(l, r)
           compares == st = "Same" /\ ~Scanning!IsDir(l)
           e == Scanning!Entry(p, l, r, st, ~compares)
           dir == Scanning!IsDir(l) \/ Scanning!IsDir(r)
<1>1. /\ st \in {"OnlyLeft", "OnlyRight", "Different", "Same"}
      /\ (st = "Same") = (l # None /\ r # None /\ ~Scanning!Collide(l, r))
  BY DEF Scanning!StatusOf
<1>2. Scanning!IsDir(l) \in BOOLEAN /\ Scanning!IsDir(r) \in BOOLEAN
  BY DEF Scanning!IsDir
<1>3. compares => ~Scanning!IsDir(r)
  BY <1>1, <1>2 DEF Scanning!Collide
<1>4. dir \in BOOLEAN /\ compares \in BOOLEAN
  BY <1>1, <1>2
<1>5. e = [path |-> p, left |-> l, right |-> r, status |-> st, verified |-> ~compares,
           isDir |-> dir, empty |-> FALSE]
  BY DEF Scanning!Entry
<1> HIDE DEF st
<1>6. e \in FoundEntry
  <2>1. (~compares) \in BOOLEAN
    BY <1>4
  <2>2. st \in {"OnlyLeft", "OnlyRight", "Different", "Same", "Error"}
    BY <1>1
  <2> DEFINE v == ~compares  d == dir
  <2>3. v \in BOOLEAN /\ d \in BOOLEAN
    BY <1>4, <2>1
  <2>4. e = [path |-> p, left |-> l, right |-> r, status |-> st, verified |-> v,
             isDir |-> d, empty |-> FALSE]
    BY <1>5
  <2> HIDE DEF v, d, e
  <2> QED
    BY <2>2, <2>3, <2>4 DEF FoundEntry
<1>7. /\ e.path = p /\ e.left = l /\ e.right = r /\ e.status = st /\ e.verified = ~compares
      /\ e.isDir = dir
  BY <1>5
<1> HIDE DEF e
<1>8. IsTrue(o, e)
  BY <1>1, <1>2, <1>7 DEF IsTrue
<1>9. ~compares => IsSaid(e)
  BY <1>7 DEF IsSaid
<1> QED
  BY <1>1, <1>2, <1>3, <1>6, <1>7, <1>8, <1>9 DEF st, e, Compares, EntryOf

LEMMA NameKeeps ==
  ASSUME ScanInv, Scanning!NextName
  PROVE  ScanInv'
<1> USE DEF Scanning!Step, Scanning!environment
<1>1. PICK p \in ScanPath : Scanning!Add(p) /\ p \in Scanning!Top.todo
  BY TopIs DEF Scanning!NextName, Scanning!Unvisited, Frame
<1>2. reading = None /\ frames # <<>> /\ UNCHANGED <<scanOptions, trees>>
  BY DEF Scanning!NextName
<1>3. CASE \E reason : Scanning!Fail(reason)
  BY <1>2, <1>3, ScanFails
<1> DEFINE top == Scanning!Top
           l == top.left[p]  r == top.right[p]
           compares == Compares(l, r)
           e == EntryOf(p, l, r)
           f == [top EXCEPT !.todo = top.todo \ {p}]
           rest == Scanning!WithTop(f)
           new == IF compares THEN [stage |-> "open", left |-> <<>>, right |-> <<>>] ELSE None
           call == Scanning!Call(p, top.depth + 1, Len(found'))
<1>4. CASE /\ found' = Append(found, e) /\ reading' = new
           /\ frames' = IF e.isDir /\ ~Scanning!Collide(l, r) THEN Append(rest, call) ELSE rest
  <2>1. top \in Frame /\ FrameFits(top, found, trees) /\ Len(frames) \in DOMAIN frames
    BY <1>2, TopIs
  <2>2. frames \in Seq(Frame) /\ found \in Seq(FoundEntry)
    BY DEF ScanInv, ScanTypes
  <2>3. /\ l \in Nodes /\ r \in Nodes
        /\ AsListed(trees, "left", p, l) /\ AsListed(trees, "right", p, r)
    BY <2>1 DEF Frame, Listings, FrameFits
  <2>4. /\ e \in FoundEntry /\ IsTrue(scanOptions, e) /\ (~compares => IsSaid(e))
        /\ e.path = p /\ e.left = l /\ e.right = r
        /\ compares => /\ l # None /\ r # None /\ ~e.verified /\ ~Scanning!IsDir(r)
                       /\ ~Scanning!IsDir(l) /\ ~Scanning!Collide(l, r)
    <3>1. p \in ScanPath /\ l \in Nodes /\ r \in Nodes
      BY <2>3
    <3> HIDE DEF l, r
    <3>2. EntryOf(p, l, r) \in FoundEntry
      BY ONLY <3>1, EntryIs
    <3>3. IsTrue(scanOptions, EntryOf(p, l, r))
      BY ONLY <3>1, EntryIs
    <3>4. ~Compares(l, r) => IsSaid(EntryOf(p, l, r))
      BY ONLY <3>1, EntryIs
    <3>5. EntryOf(p, l, r).path = p /\ EntryOf(p, l, r).left = l /\ EntryOf(p, l, r).right = r
      BY ONLY <3>1, EntryIs
    <3>6. Compares(l, r) => /\ l # None /\ r # None /\ ~EntryOf(p, l, r).verified
                           /\ ~Scanning!IsDir(r) /\ ~Scanning!IsDir(l) /\ ~Scanning!Collide(l, r)
      BY ONLY <3>1, EntryIs
    <3> QED
      BY <3>2, <3>3, <3>4, <3>5, <3>6
  <2>5. f \in Frame /\ f.at = top.at /\ f.left = top.left /\ f.right = top.right
    BY <2>1 DEF Frame
  <2>6. FrameFits(f, found, trees)
    BY <2>1, <2>5 DEF FrameFits
  <2>7. /\ rest \in Seq(Frame) /\ Len(rest) = Len(frames)
        /\ \A n \in 1..Len(rest) : rest[n] = (IF n = Len(frames) THEN f ELSE frames[n])
    BY <2>1, <2>2, <2>5 DEF Scanning!WithTop
  <2>8. \A n \in 1..Len(rest) : FrameFits(rest[n], found, trees)
    <3> SUFFICES ASSUME NEW n \in 1..Len(rest) PROVE FrameFits(rest[n], found, trees)
      OBVIOUS
    <3> HIDE DEF rest, f, top
    <3>1. n \in DOMAIN frames /\ rest[n] = (IF n = Len(frames) THEN f ELSE frames[n])
      BY <2>2, <2>7
    <3>2. FrameFits(frames[n], found, trees)
      BY <3>1 DEF ScanInv
    <3> QED
      BY <2>6, <3>1, <3>2
  <2>9. compares \in BOOLEAN
    BY DEF Compares, Scanning!StatusOf, Scanning!IsDir
  <2>10. new = None \/ new \in Comparing
    BY DEF Comparing
  <2>11. compares <=> new # None
    <3>1. [stage |-> "open", left |-> <<>>, right |-> <<>>] \in Comparing
      BY DEF Comparing
    <3> QED
      BY <3>1, ScanAssumption DEF Comparing
  <2>12. compares => /\ new.stage = "open" /\ new.left = <<>> /\ new.right = <<>>
    OBVIOUS
  <2>13. call \in Frame /\ call.at = Len(found')
         /\ \A q \in ScanPath : call.left[q] = None /\ call.right[q] = None
    <3>1. found' \in Seq(FoundEntry)
      BY <1>4, <2>2, <2>4
    <3>2. Len(found') \in Nat /\ top.depth + 1 \in Nat
      BY <2>1, <3>1 DEF Frame
    <3>3. [q \in ScanPath |-> None] \in Listings
      BY DEF Listings, Nodes
    <3> DEFINE k == Len(found')  d == top.depth + 1
    <3>4. call = [path |-> p, depth |-> d, at |-> k, stage |-> "left",
                  left |-> [q \in ScanPath |-> None], right |-> [q \in ScanPath |-> None], todo |-> {}]
      BY DEF Scanning!Call, Scanning!NoListing
    <3> HIDE DEF call, k, d
    <3>5. call \in Frame /\ call.at = k
          /\ \A q \in ScanPath : call.left[q] = None /\ call.right[q] = None
      BY <3>2, <3>3, <3>4 DEF Frame, k, d
    <3> QED
      BY <3>5 DEF k
  <2> HIDE DEF top, l, r, compares, e, f, rest, new, call
  <2>14. /\ found' \in Seq(FoundEntry) /\ Len(found') = Len(found) + 1 /\ found'[Len(found')] = e
         /\ \A n \in 1..Len(found) : found'[n] = found[n]
         /\ Len(found) \in Nat
    BY <1>4, <2>2, <2>4
  <2>15. ASSUME NEW g, FrameFits(g, found, trees) PROVE FrameFits(g, found', trees)
    BY <2>2, <2>14, <2>15 DEF FrameFits
  <2>16. e.isDir => FrameFits(call, found', trees)
    BY <2>13, <2>14 DEF FrameFits, AsListed
  <2>17. /\ frames' \in Seq(Frame)
         /\ \A n \in DOMAIN frames' : (frames'[n] = call /\ e.isDir) \/ \E m \in 1..Len(rest) : frames'[n] = rest[m]
    BY <1>4, <2>7, <2>13
  <2>18. \A n \in DOMAIN frames' : FrameFits(frames'[n], found', trees')
    BY <1>2, <2>8, <2>15, <2>16, <2>17
  <2>19. ScanTypes'
    BY <1>2, <1>4, <2>10, <2>14, <2>17 DEF ScanInv, ScanTypes
  <2>20. EntriesFit(scanOptions', found', reading')
    <3> SUFFICES ASSUME NEW n \in DOMAIN found'
                 PROVE  /\ IsTrue(scanOptions, found'[n])
                        /\ reading' = None \/ n # Len(found') => IsSaid(found'[n])
      BY <1>2 DEF EntriesFit
    <3>1. n \in 1..Len(found) \/ n = Len(found')
      BY <2>14
    <3>2. CASE n \in 1..Len(found)
      BY <1>2, <2>2, <2>14, <3>2 DEF ScanInv, EntriesFit
    <3>3. CASE n = Len(found')
      BY <1>4, <2>4, <2>11, <2>14, <3>3
    <3> QED
      BY <3>1, <3>2, <3>3
  <2>21. ReadingFits(scanOptions', trees', found', reading')
    <3> SUFFICES ASSUME compares PROVE LastFits(scanOptions, trees, e, new)
      BY <1>2, <1>4, <2>11, <2>14 DEF ReadingFits
    <3>1. ASSUME NEW t, NEW side, NEW node PROVE IsRead(t, side, p, node, <<>>)
      <4>1. Len(<<>>) = 0
        OBVIOUS
      <4> QED
        BY <4>1 DEF IsRead, BeginsWith
    <3> QED
      BY <2>3, <2>4, <2>12, <3>1 DEF LastFits
  <2> QED
    BY <2>18, <2>19, <2>20, <2>21 DEF ScanInv
<1> QED
  BY <1>1, <1>3, <1>4 DEF Scanning!Add, Compares, EntryOf

\* A directory has been left.
LEMMA ReturnKeeps ==
  ASSUME ScanInv, Scanning!Return
  PROVE  ScanInv'
<1> USE DEF Scanning!Step, Scanning!environment
<1> DEFINE at == Scanning!Top.at
           k == Len(frames) - 1
<1>1. frames # <<>> /\ reading = None /\ reading' = None /\ UNCHANGED <<scanOptions, trees>>
      /\ frames' = SubSeq(frames, 1, Len(frames) - 1)
      /\ found' = (IF at = 0 THEN found ELSE Scanning!Summed(at))
  BY DEF Scanning!Return
<1>2. /\ Scanning!Top \in Frame /\ FrameFits(Scanning!Top, found, trees)
      /\ Len(frames) \in Nat \ {0} /\ Len(frames) \in DOMAIN frames
  BY <1>1, TopIs
<1>3. frames \in Seq(Frame) /\ found \in Seq(FoundEntry) /\ at \in Nat
  BY <1>2 DEF ScanInv, ScanTypes, Frame
<1>4. /\ frames' \in Seq(Frame)
      /\ \A n \in DOMAIN frames' : n \in DOMAIN frames /\ frames'[n] = frames[n]
  <2>1. k \in Nat /\ k <= Len(frames) /\ frames' = SubSeq(frames, 1, k)
    BY <1>1, <1>2
  <2> HIDE DEF k
  <2> QED
    BY <1>3, <2>1
<1>5. CASE at = 0
  <2>1. ScanTypes'
    BY <1>1, <1>4, <1>5 DEF ScanInv, ScanTypes
  <2>2. \A n \in DOMAIN frames' : FrameFits(frames'[n], found', trees')
    BY <1>1, <1>4, <1>5 DEF ScanInv
  <2> QED
    BY <1>1, <1>5, <2>1, <2>2 DEF ScanInv, EntriesFit, ReadingFits
<1>6. CASE at # 0
  <2> DEFINE e == found[at]
  <2>1. at \in DOMAIN found /\ e \in FoundEntry /\ e.isDir
    BY <1>2, <1>3, <1>6 DEF FrameFits
  <2>2. PICK new \in FoundEntry : new.isDir /\ found' = [found EXCEPT ![at] = new]
    <3>1. PICK b, v, s : /\ b \in BOOLEAN /\ v \in BOOLEAN /\ s \in {e.status, "Different"}
                        /\ found' = [found EXCEPT ![at] = [e EXCEPT !.empty = b, !.verified = v, !.status = s]]
      <4> DEFINE below == {i \in DOMAIN found : i > at}
                 b == \A i \in below : found[i].isDir /\ found[i].empty
                 v == e.verified /\ \A i \in below : found[i].verified
                 s == IF e.left # None /\ e.right # None /\ (\E i \in below : found[i].status # "Same")
                        THEN "Different" ELSE e.status
      <4>1. found' = [found EXCEPT ![at] = [e EXCEPT !.empty = b, !.verified = v, !.status = s]]
        BY <1>1, <1>6 DEF Scanning!Summed
      <4>2. b \in BOOLEAN /\ v \in BOOLEAN /\ s \in {e.status, "Different"}
        OBVIOUS
      <4> QED
        BY <4>1, <4>2
    <3> DEFINE new == [e EXCEPT !.empty = b, !.verified = v, !.status = s]
    <3>2. new \in FoundEntry /\ new.isDir
      BY <2>1, <3>1 DEF FoundEntry
    <3> QED
      BY <3>1, <3>2
  <2> HIDE DEF at, e
  <2>3. /\ found' \in Seq(FoundEntry) /\ DOMAIN found' = DOMAIN found /\ Len(found') = Len(found)
        /\ \A n \in DOMAIN found : found'[n] = IF n = at THEN new ELSE found[n]
    BY <1>3, <2>1, <2>2
  <2>4. ScanTypes'
    BY <1>1, <1>4, <2>3 DEF ScanInv, ScanTypes
  <2>5. ASSUME NEW n \in DOMAIN frames' PROVE FrameFits(frames'[n], found', trees')
    <3>1. FrameFits(frames[n], found, trees) /\ frames'[n] = frames[n]
      BY <1>4 DEF ScanInv
    <3> QED
      BY <1>1, <2>2, <2>3, <3>1 DEF FrameFits
  <2>6. IsTrue(scanOptions, new) /\ IsSaid(new)
    BY <2>2 DEF IsTrue, IsSaid
  <2>7. EntriesFit(scanOptions', found', reading')
    BY <1>1, <2>3, <2>6 DEF ScanInv, EntriesFit
  <2> QED
    BY <1>1, <2>4, <2>5, <2>7 DEF ScanInv, ReadingFits
<1> QED
  BY <1>5, <1>6

\* Another process writes a file: what was listed of it is an earlier state.
LEMMA RewriteKeeps ==
  ASSUME ScanInv, NEW side \in Side, NEW p \in ScanPath, NEW content \in ScanContent,
         Scanning!Rewrite(side, p, content)
  PROVE  ScanInv'
<1> USE DEF Scanning!scanner
<1>1. UNCHANGED <<scanOptions, frames, reading, found>>
  BY DEF Scanning!Rewrite
<1> DEFINE node == trees[side][p]
           new == [node EXCEPT !.content = content, !.time = node.time + 1]
<1>2. trees \in [Side -> Listings] /\ content \in Seq(Block)
  BY ScanAssumption DEF ScanInv, ScanTypes
<1>3. node # None /\ trees' = [trees EXCEPT ![side][p] = new]
  BY DEF Scanning!Rewrite
<1>4. node \in ScanNode
  BY <1>2, <1>3 DEF Listings, Nodes
<1> HIDE DEF node
<1>5. new \in ScanNode /\ new.time = node.time + 1
  <2> DEFINE t == node.time + 1
  <2>1. t \in Nat /\ new = [node EXCEPT !.content = content, !.time = t]
    BY <1>4 DEF ScanNode
  <2> HIDE DEF t, new
  <2>2. new \in ScanNode /\ new.time = t
    BY <1>2, <1>4, <2>1 DEF ScanNode
  <2> QED
    BY <2>2 DEF t
<1> HIDE DEF new
<1>6. trees' \in [Side -> Listings]
  BY <1>2, <1>3, <1>5 DEF Listings, Nodes
<1>7. \A s \in Side, q \in ScanPath :
        trees'[s][q] = (IF s = side /\ q = p THEN new ELSE trees[s][q])
  BY <1>2, <1>3 DEF Listings
<1>8. ASSUME NEW s \in Side, NEW q \in ScanPath, NEW seen \in Nodes, AsListed(trees, s, q, seen)
      PROVE  /\ AsListed(trees', s, q, seen)
             /\ \A blocks : seen # None /\ IsRead(trees, s, q, seen, blocks) =>
                            IsRead(trees', s, q, seen, blocks)
  <2>1. CASE s = side /\ q = p
    <3>1. trees'[s][q] = new /\ trees[s][q] = node /\ node.time \in Nat /\ new # None
      BY <1>4, <1>5, <1>7, <2>1, ScanAssumption DEF ScanNode, node
    <3>2. seen # None => seen.time \in Nat
      BY DEF Nodes, ScanNode
    <3>3. seen # None => seen.time < trees'[s][q].time
      BY <1>5, <1>8, <3>1, <3>2 DEF AsListed
    <3>4. trees'[s][q].time \in Nat
      BY <1>5, <3>1
    <3> QED
      BY <3>1, <3>2, <3>3, <3>4 DEF AsListed, IsRead
  <2>2. CASE ~(s = side /\ q = p)
    BY <1>7, <1>8, <2>2 DEF AsListed, IsRead
  <2> QED
    BY <2>1, <2>2
<1>9. ScanTypes'
  BY <1>1, <1>6 DEF ScanInv, ScanTypes
<1>10. ASSUME NEW n \in DOMAIN frames PROVE FrameFits(frames[n], found, trees')
  <2>1. frames[n] \in Frame /\ FrameFits(frames[n], found, trees)
    BY DEF ScanInv, ScanTypes
  <2> QED
    BY <1>8, <2>1 DEF FrameFits, Frame, Listings, Side
<1>11. ASSUME reading # None PROVE LastFits(scanOptions, trees', Scanning!Last, reading)
  <2>1. Scanning!Last \in FoundEntry /\ LastFits(scanOptions, trees, Scanning!Last, reading)
    BY <1>11, LastIs
  <2> QED
    BY <1>8, <2>1 DEF LastFits, FoundEntry, Side
<1>12. ReadingFits(scanOptions', trees', found', reading')
  BY <1>1, <1>11 DEF ScanInv, ReadingFits, Scanning!Last
<1> QED
  BY <1>1, <1>9, <1>10, <1>12 DEF ScanInv

LEMMA ScanStays ==
  ASSUME ScanInv, [NextAll]_all
  PROVE  ScanInv'
<1>1. CASE Scans /\ ScanStep
  <2>1. CASE Scanning!ListLeft \/ Scanning!ListRight
    BY <2>1, ListingKeeps
  <2>2. CASE Scanning!NextName
    BY <2>2, NameKeeps
  <2>3. CASE Scanning!Return
    BY <2>3, ReturnKeeps
  <2>4. CASE Scanning!Open
    BY <2>4, OpenKeeps
  <2>5. CASE Scanning!ReadBlock
    BY <2>5, BlockKeeps
  <2>6. CASE Scanning!CheckLeft
    BY <2>6, LeftKeeps
  <2>7. CASE Scanning!CheckRight
    BY <2>7, RightKeeps
  <2>8. CASE Scanning!Cancel
    BY <2>8 DEF Scanning!Cancel, Scanning!scanner, Scanning!environment, ScanInv, ScanTypes
  <2>9. CASE Scanning!Cancelled
    BY <2>9, ScanFails DEF Scanning!Cancelled, Scanning!environment
  <2>10. CASE \E s \in Side, p \in ScanPath, bytes \in ScanContent : Scanning!Rewrite(s, p, bytes)
    BY <2>10, RewriteKeeps
  <2>11. CASE Scanning!CannotList
    BY <2>11, ScanFails DEF Scanning!CannotList, Scanning!Step, Scanning!environment
  <2> QED
    BY <1>1, <2>1, <2>2, <2>3, <2>4, <2>5, <2>6, <2>7, <2>8, <2>9, <2>10, <2>11 DEF ScanStep
<1>2. CASE UNCHANGED scan
  BY <1>2 DEF scan, ScanInv, ScanTypes
<1> QED
  BY <1>1, <1>2 DEF NextAll, all, ViewStep, SaveStep, SyntaxStep, PresentStep, ScanStep, ResolveStep,
     Views, Saves, Syntaxes, Presents, Scans, Resolves

\* Whatever a scan says of the contents of two files is true of the contents it listed,
\* however they are rewritten while it reads them (DirDiffModel.cpp, compare).
THEOREM VerifiedStaysTrue == SpecAll => []VerifiedIsTrue
<1>1. InitAll => ScanInv
  BY ScanInit
<1>2. ScanInv /\ [NextAll]_all => ScanInv'
  BY ScanStays
<1>3. ScanInv => VerifiedIsTrue
  BY DEF ScanInv, EntriesFit, IsTrue, IsSaid, AreSame, VerifiedIsTrue, Scanning!VerifiedIsTrue,
     Scanning!SameContent
<1> QED
  BY <1>1, <1>2, <1>3, PTL DEF SpecAll
=============================================================================
