------------------------------- MODULE DirCopy -------------------------------
(***************************************************************************)
(* Copying selected entries to the other root (DirectoryOperations): plan, *)
(* question, copy, item by item, while other processes may change both     *)
(* trees at any moment.                                                    *)
(*                                                                         *)
(* A path is the sequence of names below a root.  A file is read in two    *)
(* halves, so its content is the pair of the versions they come from.      *)
(* stamp stands for size and modification time, which tell changes apart.  *)
(***************************************************************************)
EXTENDS Naturals, Sequences, FiniteSets

CONSTANTS
  Walk,          \* all paths in the order of the walk, parents before children
  InitialSources, InitialDestinations,  \* the trees at the start
  MaxClock,      \* other processes change nothing after that many changes
  Nothing        \* no file open, none checked

Path == {Walk[i] : i \in DOMAIN Walk}
Parent(p) == SubSeq(p, 1, Len(p) - 1)
Ancestors(p) == {SubSeq(p, 1, k) : k \in 1..Len(p)}  \* p and all above it

Absent == [kind |-> "absent"]
Directory(stamp) == [kind |-> "directory", stamp |-> stamp]
File(content, stamp) == [kind |-> "file", content |-> content, stamp |-> stamp]
Node == {Absent} \union [kind : {"directory"}, stamp : Nat] \union
        [kind : {"file"}, content : Nat \X Nat, stamp : Nat]

\* Everything that exists lies in a directory.
IsTree(t) ==
  \A p \in Path : t[p] # Absent => \A q \in Ancestors(p) \ {p} : t[q].kind = "directory"

ASSUME DirCopyAssumption ==
  /\ Walk \in Seq(Seq(STRING) \ {<<>>})
  /\ \A i, j \in DOMAIN Walk : Walk[i] = Walk[j] => i = j
  /\ \A p \in Path : Ancestors(p) \subseteq Path
  /\ \A t \in InitialSources \union InitialDestinations :
       /\ t \in [Path -> Node] /\ IsTree(t)
       /\ \A p \in Path : t[p] # Absent => t[p].stamp = 0
  /\ MaxClock \in Nat
  /\ Nothing \notin Node

VARIABLES
  source, destination,  \* the two trees
  clock,                \* the stamp of the last change
  plan,                 \* DirectoryCopyPlan::items
  item,                 \* the item being executed
  phase,                \* where executeDirectoryCopy is
  target,               \* what the item's destination was when it was checked
  input, reading,       \* the opened source, and the halves that have been read
  impeded               \* history: has anything interfered with the copy?

vars == <<source, destination, clock, plan, item, phase, target, input, reading, impeded>>

-----------------------------------------------------------------------------
(* planDirectoryCopy.                                                      *)

\* A selected entry below another selected one comes with it.
NeverCovered(selected, p) == FALSE
Covered(selected, p) == \E q \in selected \ {p} : q \in Ancestors(p)

\* What add is called for: an entry of the walk, for the selected one above it.
Additions(selected) ==
  {a \in (1..Len(Walk)) \X (1..Len(Walk)) :
     /\ Walk[a[1]] \in selected /\ ~Covered(selected, Walk[a[1]])
     /\ Walk[a[1]] \in Ancestors(Walk[a[2]]) /\ source[Walk[a[2]]] # Absent}
Before(a, b) == a[1] < b[1] \/ (a[1] = b[1] /\ a[2] < b[2])
Planned(selected) ==
  {order \in [1..Cardinality(Additions(selected)) -> Additions(selected)] :
     \A i, j \in DOMAIN order : i < j => Before(order[i], order[j])}

Stamp(node) == IF node = Absent THEN 0 ELSE node.stamp
Item(p) ==
  [path |-> p, directory |-> source[p].kind = "directory",
   overwrites |-> destination[p].kind = "file",
   stamp |-> source[p].stamp, destinationStamp |-> Stamp(destination[p])]

\* add refuses what is gone and a file in the place of a directory.
MayPlan(p) == source[p] # Absent
Collides(p) == destination[p] # Absent /\ destination[p].kind # source[p].kind

\* The directory view lists nothing below a collision; planDirectoryCopy, asked
\* for it by another host, looks at the selected path only.
Listed(p) == \A q \in Ancestors(p) \ {p} : ~Collides(q)

\* The user confirms the plan.
Confirm(selected) ==
  /\ phase = "idle"
  /\ \A p \in selected : MayPlan(p)
  /\ \A a \in Additions(selected) : ~Collides(Walk[a[2]])
  /\ \E order \in Planned(selected) :
       plan' = [i \in DOMAIN order |-> Item(Walk[order[i][2]])]
  /\ item' = 1 /\ phase' = "check"
  /\ impeded' = (impeded \/ \E p \in selected : ~Listed(p))
  /\ UNCHANGED <<source, destination, clock, target, input, reading>>

-----------------------------------------------------------------------------
(* executeDirectoryCopy.                                                   *)

Now == plan[item]

\* The next item, or the end.
Advance ==
  /\ item' = item + 1 /\ phase' = "check" /\ target' = Nothing
  /\ input' = Nothing /\ reading' = <<>>

Fail ==
  /\ phase' = "failed" /\ target' = Nothing /\ input' = Nothing /\ reading' = <<>>
  /\ UNCHANGED <<source, destination, clock, plan, item>>

SourceStillThere(it) ==
  source[it.path].kind = IF it.directory THEN "directory" ELSE "file"
SourceUnchanged(it) ==
  /\ source[it.path].kind = IF it.directory THEN "directory" ELSE "file"
  /\ source[it.path].stamp = it.stamp

AnyDestination(it) ==
  destination[it.path].kind # IF it.directory THEN "file" ELSE "directory"
DestinationUnchanged(it) ==
  IF it.directory THEN destination[it.path].kind # "file"
  ELSE IF it.overwrites
    THEN /\ destination[it.path].kind = "file"
         /\ destination[it.path].stamp = it.destinationStamp
  ELSE destination[it.path] = Absent

\* mkpath makes what is missing, and fails where a file is in the way.
CanMakePath(p) == \A q \in Ancestors(p) : destination[q].kind # "file"
MadePath(p) ==
  [q \in Path |-> IF q \in Ancestors(p) /\ destination[q] = Absent
                  THEN Directory(clock + 1) ELSE destination[q]]

\* The checks of an item, and the directory it is or goes into.
Check ==
  /\ phase = "check" /\ item <= Len(plan)
  /\ LET where == IF Now.directory THEN Now.path ELSE Parent(Now.path)
     IN IF ~(SourceUnchanged(Now) /\ DestinationUnchanged(Now) /\ CanMakePath(where))
        THEN Fail
        ELSE /\ destination' = MadePath(where)
             /\ clock' = IF destination' = destination THEN clock ELSE clock + 1
             /\ IF Now.directory THEN Advance
                ELSE /\ phase' = "open" /\ target' = destination[Now.path]
                     /\ UNCHANGED <<item, input, reading>>
             /\ UNCHANGED <<source, plan>>
  /\ UNCHANGED impeded

HasDirectory(p) == Len(p) > 1 => destination[Parent(p)].kind = "directory"

\* The first half is read from the file that is open.
Open ==
  /\ phase = "open"
  /\ IF source[Now.path].kind # "file" \/ ~HasDirectory(Now.path)
     THEN Fail
     ELSE /\ phase' = "read" /\ input' = source[Now.path]
          /\ reading' = <<source[Now.path].content[1]>>
          /\ UNCHANGED <<source, destination, clock, plan, item, target>>
  /\ UNCHANGED impeded

\* The second half: the opened file may have been written to, or replaced by
\* another one that is not open.
Read ==
  /\ phase = "read" /\ phase' = "commit" /\ UNCHANGED impeded
  /\ \E f \in {input, source[Now.path]} :
       f.kind = "file" /\ reading' = Append(reading, f.content[2])
  /\ UNCHANGED <<source, destination, clock, plan, item, target, input>>

\* The source is looked at once more, then the temporary file is renamed.
Commit ==
  /\ phase = "commit"
  /\ IF \/ ~SourceUnchanged(Now)
        \/ destination[Now.path].kind = "directory"
        \/ ~HasDirectory(Now.path)
     THEN Fail
     ELSE /\ clock' = clock + 1
          /\ destination' = [destination EXCEPT ![Now.path] = File(reading, clock + 1)]
          /\ Advance
          /\ UNCHANGED <<source, plan>>
  /\ UNCHANGED impeded

\* Opening, reading, writing or committing fails.
DiskFails ==
  /\ phase \in {"check", "open", "read", "commit"} /\ impeded' = TRUE
  /\ Fail

Finish ==
  /\ phase = "check" /\ item > Len(plan) /\ phase' = "finished"
  /\ UNCHANGED <<source, destination, clock, plan, item, target, input, reading, impeded>>

-----------------------------------------------------------------------------
(* Other processes.                                                        *)

\* A change of what is in a directory changes the directory.
Changed(t, p, node) ==
  [q \in Path |-> IF q = p THEN node
                  ELSE IF Len(p) > 1 /\ q = Parent(p) /\ (node = Absent \/ t[p] = Absent)
                  THEN Directory(clock + 1) ELSE t[q]]

Changes(t) ==
  {Changed(t, p, node) :
     p \in {p \in Path : Len(p) > 1 => t[Parent(p)].kind = "directory"},
     node \in {Absent, Directory(clock + 1), File(<<clock + 1, clock + 1>>, clock + 1)}}

OtherProcess ==
  /\ clock < MaxClock /\ clock' = clock + 1 /\ impeded' = TRUE
  /\ \/ source' \in {t \in Changes(source) : IsTree(t)} /\ UNCHANGED destination
     \/ destination' \in {t \in Changes(destination) : IsTree(t)} /\ UNCHANGED source
  /\ UNCHANGED <<plan, item, phase, target, input, reading>>

Init ==
  /\ source \in InitialSources /\ destination \in InitialDestinations
  /\ clock = 0 /\ plan = <<>> /\ item = 1 /\ phase = "idle"
  /\ target = Nothing /\ input = Nothing /\ reading = <<>> /\ impeded = FALSE

Next ==
  \/ \E selected \in SUBSET Path \ {{}} : Confirm(selected)
  \/ Check
  \/ Open
  \/ Read
  \/ Commit
  \/ DiskFails
  \/ Finish
  \/ OtherProcess

Spec == Init /\ [][Next]_vars
-----------------------------------------------------------------------------
PlanItem == [path : Path, directory : BOOLEAN, overwrites : BOOLEAN, stamp : Nat,
             destinationStamp : Nat]

\* The two trees remain trees, and the copy is at an item of its plan.
TypeOK ==
  /\ source \in [Path -> Node] /\ IsTree(source)
  /\ destination \in [Path -> Node] /\ IsTree(destination)
  /\ clock \in Nat /\ plan \in Seq(PlanItem) /\ item \in 1..Len(plan) + 1
  /\ phase \in {"idle", "check", "open", "read", "commit", "failed", "finished"}
  /\ phase \in {"open", "read", "commit"} => item <= Len(plan) /\ ~Now.directory
  /\ target \in Node \union {Nothing} /\ input \in Node \union {Nothing}
  /\ reading \in Seq(Nat) /\ Len(reading) <= 2 /\ impeded \in BOOLEAN

\* However other processes write and replace the source while it is read: what
\* is committed is the source file that was confirmed, never a mixture.
CopiesTheConfirmedFile ==
  [][\A p \in Path :
       destination'[p] # destination[p] /\ destination'[p].kind = "file" =>
         \/ OtherProcess
         \/ /\ destination'[p].content = source[p].content
            /\ \E i \in DOMAIN plan : plan[i].path = p /\ plan[i].stamp = source[p].stamp]_vars

\* A file is replaced only if the plan marked it, as it was then.  What changes
\* after the item was checked is beyond the checks.
ReplacesOnlyMarkedFiles ==
  [][\A p \in Path :
       destination[p].kind = "file" /\ destination'[p] # destination[p] =>
         \/ OtherProcess
         \/ \E i \in DOMAIN plan : /\ plan[i].path = p /\ plan[i].overwrites
                                   /\ plan[i].destinationStamp = destination[p].stamp
         \/ destination[p] # target]_vars

\* Undisturbed, every plan that was confirmed is carried out to the end, whatever
\* overlapping entries were selected: no item of it stops another.
UndisturbedCopyIsComplete ==
  ~impeded =>
    /\ phase # "failed"
    /\ phase = "finished" =>
         \A i \in DOMAIN plan :
           LET p == plan[i].path
           IN /\ destination[p].kind = source[p].kind
              /\ source[p].kind = "file" => destination[p].content = source[p].content

\* The state has its types, both sides stay trees, and no confirmed plan fails by itself.
CopyIsSound == TypeOK /\ UndisturbedCopyIsComplete
=============================================================================
