------------------------------- MODULE DirScan -------------------------------
(***************************************************************************)
(* scanDirectories: the worker that compares two directory trees, while    *)
(* other processes rewrite the files (DirDiffModel).  It lists the left    *)
(* and the right directory, adds an entry per name, compares the files     *)
(* block by block, and descends into directories.                          *)
(*                                                                         *)
(* The disk maps each side and path to a node or None.  The time of a node *)
(* tells its changes apart; a listing keeps the nodes it saw.  A content   *)
(* is a sequence of blocks, one of which is white space.                   *)
(***************************************************************************)
EXTENDS Integers, Sequences, FiniteSets

CONSTANTS
  Tree,          \* the pairs of trees on disk: [Side -> [Path -> node]]
  Path,          \* the paths of names that may exist
  Options,       \* records: normalized, largest (maxComparedFileBytes), excluded
  Content, White,
  MaxEntries, MaxDepth,   \* maxEntries; 128
  None,
  MaxChanges     \* bound on the changes other processes make

Side == {"left", "right"}

VARIABLES
  options,       \* fixed
  disk, changes,
  token,         \* cancellation is requested
  frames,        \* the calls of scan: directory, listings, names still to do, entry
  reading,       \* the compare in progress, or None
  entries, status

scanner == <<frames, reading, entries, status>>
environment == <<disk, changes>>
vars == <<options, environment, token, scanner>>

Scanning == status = "scanning"
Parent(p) == SubSeq(p, 1, Len(p) - 1)
Name(p) == p[Len(p)]
Top == frames[Len(frames)]
WithTop(frame) == [frames EXCEPT ![Len(frames)] = frame]
Below(d, q) == Len(q) > Len(d) /\ SubSeq(q, 1, Len(d)) = d

IsDir(node) == node # None /\ node.kind = "dir"
Normal(content) == SelectSeq(content, LAMBDA b : b # White)

-----------------------------------------------------------------------------

\* scan() begins: too deep, or list the left directory.
NoListing == [p \in Path |-> None]
Call(directory, depth, at) ==
  [path |-> directory, depth |-> depth, at |-> at, stage |-> "left",
   left |-> NoListing, right |-> NoListing, todo |-> {}]

Fail(reason) == status' = reason /\ entries' = <<>> /\ frames' = <<>> /\ reading' = None
Step == Scanning /\ ~token /\ UNCHANGED <<options, environment, token>>

\* A directory that is missing on one side is listed as empty; its parent's
\* listing decides, not the disk.
Excluded(p) == Name(p) \in options.excluded
Listed(side, d) ==
  [p \in Path |-> IF Parent(p) = d /\ ~Excluded(p) THEN disk[side][p] ELSE None]

TooDeep(depth) == depth > MaxDepth

ListLeft ==
  /\ Step /\ reading = None /\ frames # <<>> /\ Top.stage = "left"
  /\ IF TooDeep(Top.depth) THEN Fail("ResourceLimit")
     ELSE /\ frames' = WithTop([Top EXCEPT !.stage = "right", !.left = Listed("left", Top.path)])
          /\ UNCHANGED <<reading, entries, status>>

ListRight ==
  /\ Step /\ reading = None /\ frames # <<>> /\ Top.stage = "right"
  /\ LET right == Listed("right", Top.path)
         names == {p \in Path : Top.left[p] # None \/ right[p] # None}
     IN frames' = WithTop([Top EXCEPT !.stage = "names", !.right = right, !.todo = names])
  /\ UNCHANGED <<reading, entries, status>>

\* A directory that is there but cannot be listed ends the scan.
CannotList ==
  /\ Step /\ reading = None /\ frames # <<>>
  /\ \E side \in Side : /\ Top.stage = side /\ ~TooDeep(Top.depth)
                        /\ Top.path # <<>> => disk[side][Top.path] # None
  /\ Fail("Error")

\* Directories come first.
Directory(frame, p) == IsDir(frame.left[p]) \/ IsDir(frame.right[p])
Unvisited(frame) ==
  LET directories == {p \in frame.todo : Directory(frame, p)}
  IN IF directories # {} THEN directories ELSE frame.todo

Collide(l, r) == l # None /\ r # None /\ (IsDir(l) # IsDir(r) \/ (l.kind = "link") # (r.kind = "link"))
StatusOf(l, r) ==
  IF l = None THEN "OnlyRight" ELSE IF r = None THEN "OnlyLeft"
  ELSE IF Collide(l, r) THEN "Different" ELSE "Same"

Entry(p, l, r, status_, verified) ==
  [path |-> p, left |-> l, right |-> r, status |-> status_, verified |-> verified,
   isDir |-> IsDir(l) \/ IsDir(r), empty |-> FALSE]

Full == Len(entries) >= MaxEntries

Add(p) ==
  LET l == Top.left[p]  r == Top.right[p]
      rest == WithTop([Top EXCEPT !.todo = @ \ {p}])
      compares == StatusOf(l, r) = "Same" /\ ~IsDir(l)
      entry == Entry(p, l, r, StatusOf(l, r), ~compares)
  IN IF Full THEN Fail("ResourceLimit")
     ELSE /\ entries' = Append(entries, entry)
          /\ reading' = IF compares THEN [stage |-> "open", left |-> <<>>, right |-> <<>>] ELSE None
          /\ frames' = IF entry.isDir /\ ~Collide(l, r)
                         THEN Append(rest, Call(p, Top.depth + 1, Len(entries'))) ELSE rest
          /\ UNCHANGED status

NextName ==
  /\ Step /\ reading = None /\ frames # <<>> /\ Top.stage = "names" /\ Top.todo # {}
  /\ \E p \in Unvisited(Top) : Add(p)

\* Only the files directly below, not those of its directories.
SummedDirectly(at) ==
  LET below == {i \in DOMAIN entries : i > at /\ Parent(entries[i].path) = entries[at].path
                                         /\ ~entries[i].isDir}
      both == entries[at].left # None /\ entries[at].right # None
  IN [entries EXCEPT ![at] = [entries[at] EXCEPT
        !.empty = \A i \in below : FALSE,
        !.verified = @ /\ \A i \in below : entries[i].verified,
        !.status = IF both /\ \E i \in below : entries[i].status # "Same"
                     THEN "Different" ELSE @]]
\* A directory is what its contents make it.
Summed(at) ==
  LET below == {i \in DOMAIN entries : i > at}
      both == entries[at].left # None /\ entries[at].right # None
  IN [entries EXCEPT ![at] = [entries[at] EXCEPT
        !.empty = \A i \in below : entries[i].isDir /\ entries[i].empty,
        !.verified = @ /\ \A i \in below : entries[i].verified,
        !.status = IF both /\ \E i \in below : entries[i].status # "Same"
                     THEN "Different" ELSE @]]

Return ==
  /\ Step /\ reading = None /\ frames # <<>> /\ Top.stage = "names" /\ Top.todo = {}
  /\ entries' = IF Top.at = 0 THEN entries ELSE Summed(Top.at)
  /\ frames' = SubSeq(frames, 1, Len(frames) - 1)
  /\ status' = IF Top.at = 0 THEN "Ready" ELSE status
  /\ UNCHANGED reading

-----------------------------------------------------------------------------
(* compare(): the last entry's two files.                                  *)

Last == entries[Len(entries)]
Compared(status_, verified) ==
  /\ entries' = [entries EXCEPT ![Len(entries)] =
                    [Last EXCEPT !.status = status_, !.verified = verified]]
  /\ reading' = None
  /\ UNCHANGED <<frames, status>>
Size(node) == Len(node.content)
\* Texts are compared as such if neither file is too large.
Normalizes(o, l, r) == o.normalized /\ Size(l) <= o.largest /\ Size(r) <= o.largest
AsText == Normalizes(options, Last.left, Last.right)

\* Links are compared by target; files of different sizes are not read.
Open ==
  /\ Step /\ reading # None /\ reading.stage = "open"
  /\ LET l == Last.left  r == Last.right
     IN CASE l.kind = "link" -> Compared(IF l.content = r.content THEN "Same" ELSE "Different", TRUE)
          [] l.kind # "link" /\ "device" \in {l.kind, r.kind} -> Compared("Error", FALSE)
          [] l.kind = "file" /\ r.kind = "file" /\ Size(l) # Size(r) /\ ~AsText ->
               Compared("Different", TRUE)
          [] OTHER -> \/ Compared("Error", FALSE)        \* one of them cannot be opened
                      \/ /\ reading' = [reading EXCEPT !.stage = "read"]
                         /\ UNCHANGED <<frames, entries, status>>

\* Whose block is read next: both in turn, or the left file first.
Reader ==
  LET done == <<Len(reading.left) = Size(Last.left), Len(reading.right) = Size(Last.right)>>
      leftFirst == AsText \/ Len(reading.left) = Len(reading.right)
  IN IF done = <<TRUE, TRUE>> THEN None
     ELSE IF ~done[1] /\ leftFirst THEN "left" ELSE "right"

\* Blocks that differ end the reading of files that are compared byte by byte.
Differ == ~AsText /\ Len(reading.left) = Len(reading.right) /\ reading.left # reading.right

ReadBlock ==
  /\ Step /\ reading # None /\ reading.stage = "read" /\ ~Differ /\ Reader # None
  /\ LET side == Reader
         at == Len(reading[side]) + 1
         content == disk[side][Last.path].content
     IN IF at > Len(content) THEN Compared("Error", FALSE)
        ELSE /\ reading' = [reading EXCEPT ![side] = Append(@, content[at])]
             /\ UNCHANGED <<frames, entries, status>>

Equal == IF AsText THEN Normal(reading.left) = Normal(reading.right)
         ELSE reading.left = reading.right

\* Whether a file is still as it was listed; by its size alone, and by size and time.
UnchangedSize(side, seen) == Size(disk[side][Last.path]) = Size(seen)
Unchanged(side, seen) == LET now == disk[side][Last.path]
                         IN Size(now) = Size(seen) /\ now.time = seen.time

\* The sizes and times of the listing must still hold, for each file in its turn.
CheckLeft ==
  /\ Step /\ reading # None /\ reading.stage = "read" /\ (Differ \/ Reader = None)
  /\ IF Unchanged("left", Last.left)
       THEN reading' = [reading EXCEPT !.stage = "check"] /\ UNCHANGED <<frames, entries, status>>
       ELSE Compared("Error", FALSE)
CheckRight ==
  /\ Step /\ reading # None /\ reading.stage = "check"
  /\ IF Unchanged("right", Last.right) THEN Compared(IF Equal THEN "Same" ELSE "Different", TRUE)
     ELSE Compared("Error", FALSE)

-----------------------------------------------------------------------------
(* Everybody else.                                                         *)

\* The checkpoints of the scanner see the token.
Cancel == Scanning /\ ~token /\ token' = TRUE /\ UNCHANGED <<options, environment, scanner>>
Cancelled == Scanning /\ token /\ Fail("Cancelled") /\ UNCHANGED <<options, environment, token>>

Rewrite(side, p, content) ==
  /\ Scanning /\ changes < MaxChanges
  /\ disk[side][p] # None /\ disk[side][p].kind = "file" /\ disk[side][p].content # content
  /\ disk' = [disk EXCEPT ![side][p] =
                 [disk[side][p] EXCEPT !.content = content, !.time = disk[side][p].time + 1]]
  /\ changes' = changes + 1
  /\ UNCHANGED <<options, token, scanner>>

InitWith(o, d) ==
  /\ options = o /\ disk = d /\ changes = 0 /\ token = FALSE
  /\ frames = <<Call(<<>>, 0, 0)>> /\ reading = None /\ entries = <<>> /\ status = "scanning"
Init == \E o \in Options, d \in Tree : InitWith(o, d)

Next ==
  \/ ListLeft \/ ListRight \/ CannotList \/ NextName \/ Return
  \/ Open \/ ReadBlock \/ CheckLeft \/ CheckRight
  \/ Cancel \/ Cancelled
  \/ \E side \in Side, p \in Path, content \in Content : Rewrite(side, p, content)

Spec == Init /\ [][Next]_vars

-----------------------------------------------------------------------------
(* Correctness.                                                            *)

\* A file whose content is reported as verified was compared at one moment of
\* the scan: equal or different is said of contents both files had at once, as
\* listed, however they are rewritten while they are read.
SameContent(l, r) ==
  IF l.kind = "file" /\ Normalizes(options, l, r) THEN Normal(l.content) = Normal(r.content)
  ELSE l.content = r.content
VerifiedIsTrue == \A i \in DOMAIN entries :
  LET e == entries[i]
  IN /\ e.verified /\ e.left # None /\ e.right # None /\ ~e.isDir /\ ~Collide(e.left, e.right) =>
          (e.status = "Same") = SameContent(e.left, e.right)
     /\ reading = None => e.status # "Same" \/ e.verified \/ e.isDir

\* The names never change during a run, only the contents do.
Found(p) == {side \in Side : disk[side][p] # None}
Hidden(p) == \E n \in 1..Len(p) : p[n] \in options.excluded
Clash(p) == Collide(disk["left"][p], disk["right"][p])
Visible == {p \in Path : /\ Found(p) # {} /\ ~Hidden(p)
                         /\ \A n \in 1..Len(p) - 1 : ~Clash(SubSeq(p, 1, n))}
Entered(p) == (\E side \in Found(p) : IsDir(disk[side][p])) /\ ~Clash(p)

\* A scan that is ready lists every visible name once, a directory before what
\* is in it; and it sums up each directory by all that is below, at any depth,
\* though it only looks at the entries that follow.
ReadyScanIsComplete == status = "Ready" =>
  /\ {entries[i].path : i \in DOMAIN entries} = Visible
  /\ \A i, j \in DOMAIN entries : i < j =>
       entries[i].path # entries[j].path /\ ~Below(entries[j].path, entries[i].path)
  /\ \A i \in DOMAIN entries : Entered(entries[i].path) =>
       LET e == entries[i]
           below == {entries[j] : j \in {j \in DOMAIN entries : Below(e.path, entries[j].path)}}
       IN /\ e.empty = \A b \in below : Entered(b.path)
          /\ e.verified = \A b \in below : b.verified
          /\ Found(e.path) = Side => (e.status = "Same") = (\A b \in below : b.status = "Same")

\* The limits are exact: as many entries and as deep a nesting as they allow are
\* accepted, one more is refused, whichever order the names come in.
OverLimit == Cardinality(Visible) > MaxEntries \/ \E p \in Visible : Entered(p) /\ Len(p) > MaxDepth
LimitsAreExact ==
  /\ status = "Ready" => ~OverLimit
  /\ status = "ResourceLimit" => OverLimit
=============================================================================
