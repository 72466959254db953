--------------------------- MODULE FileWatch_proofs ---------------------------
(***************************************************************************)
(* The window knows its own saves, its questions stay true, and on a       *)
(* prompt machine it keeps in step with the disk: however many writes      *)
(* other processes make.                                                   *)
(***************************************************************************)
EXTENDS FileWatch, TLAPS

-----------------------------------------------------------------------------
(* The invariant that holds on every machine.                              *)

\* The two sides never share a file.
Distinct == target["left"] = target["right"] => target["left"] = NoFile

\* What the steps of a check, a refresh and a save rely on.
BusyInv ==
  /\ saving # NotSaving => saving.side \in Side /\ target[saving.side] # NoFile
  /\ saving.step = "stamp" => saving # NotSaving /\ ~Checking
  /\ Checking /\ work.step \notin {"look", "renew"} => target[work.side] # NoFile
  /\ Checking /\ work.step = "renew" => work.side = "right"
  /\ Checking /\ work.step = "installing" => work.seen # Missing
  /\ work.job = "check" => watchedPaths = target

Stamping(s) == saving = [side |-> s, step |-> "stamp"]

\* The stamp of a file that the window wrote last is the one it has observed, except
\* between the write and the stamp.
OwnInv ==
  /\ \A f \in File : writer[f] = "window" => disk[f] # Missing
  /\ \A s \in Side : target[s] # NoFile /\ writer[target[s]] = "window" =>
       observed[s] = disk[target[s]] \/ Stamping(s)

WatchInv == TypeOK /\ Distinct /\ BusyInv /\ OwnInv /\ OwnSavesAreKnown /\ QuestionsStayTrue

-----------------------------------------------------------------------------
(* What a prompt machine adds.                                             *)

Excused(s) == {base[s], kept[s], passed[s], failed[s], Missing}
InStep(s) == disk[target[s]] \in Excused(s)

\* The check has still to look at the side.
Ahead(s) == /\ work.job = "check"
            /\ \/ work.side = "left" /\ s = "right"
               \/ work.side = s /\ work.step = "look"

\* The check has observed the side's change and is about to reload the side.
InHand(s) == work.job = "check" /\ work.side = s /\ work.step \in {"asking", "reading",
   "installing"}

\* A change that the side does not show yet is on its way.
OnItsWay(s) ==
  \/ target[s] \in notices \/ timer \/ Ahead(s)
  \/ InHand(s) /\ (work.step = "asking" => disk[target[s]] = work.seen)

\* The file of a side can still report the next change.
CanReport(s) ==
  disk[target[s]] # Missing => target[s] \in watched \union notices \/ timer \/ Stamping(s)

\* What is taken for observed is excused, and will not hide a change.
ObservedIsExcused(s) ==
  \/ observed[s] \in Excused(s) \/ InHand(s) \/ Stamping(s)
  \/ Checking /\ work.side = s /\ work.step = "stamping"

Followed(s) ==
  target[s] # NoFile =>
    /\ InStep(s) \/ OnItsWay(s)
    /\ CanReport(s)
    /\ ObservedIsExcused(s)

\* A deferred configureFileWatching finds the files as they were loaded.
JustLoaded(s) ==
  target[s] # NoFile =>
    /\ disk[target[s]] \in {base[s], passed[s]}
    /\ watchedPaths[s] = target[s] => observed[s] = disk[target[s]]

\* Nothing is reported while the window is busy, and what a step has read is still there;
\* what happens to a file while its change is asked about will be checked again.
QuietInv ==
  /\ Checking /\ ~Asking => notices = {}
  /\ Asking /\ work.job = "check" =>
       disk[target[work.side]] = work.seen \/ target[work.side] \in notices \/ timer
  /\ Checking /\ work.step = "installing" => disk[target[work.side]] = work.seen
  /\ Checking /\ work.step = "stamping" => disk[target[work.side]] = base[work.side]
  /\ saving.step = "stamp" => /\ notices \subseteq {target[saving.side]}
                              /\ disk[target[saving.side]] = base[saving.side]

RearmInv == rearm => Free /\ notices = {} /\ \A s \in Side : JustLoaded(s)
PathsInv == ~rearm => watchedPaths = target

PromptInv ==
  prompt =>
    /\ QuietInv /\ RearmInv /\ PathsInv
    /\ ~rearm /\ shown => \A s \in Side : Followed(s)
-----------------------------------------------------------------------------
(* Helpers.                                                                *)
Work == [job : Job, side : Side, step : Step, seen : Content \union {Missing}]
Stamps == Content \union {Missing, NoFile}
Paths == File \union {NoFile}

LEMMA NextSideIs ==
  ASSUME NEW w \in Work
  PROVE  /\ NextSide(w) \in Work /\ NextSide(w).job = w.job /\ NextSide(w).side = "right"
         /\ NextSide(w).seen = Missing
         /\ w.side = "left" => NextSide(w).step = "look"
         /\ w.side = "right" => NextSide(w).step = "renew"
BY DEF NextSide, Work, Side, Step

LEMMA OnDiskIs ==
  ASSUME TypeOK, NEW path \in Paths
  PROVE  /\ OnDisk(path) \in Content \union {Missing}
         /\ path = NoFile => OnDisk(path) = Missing
         /\ path # NoFile => path \in File /\ OnDisk(path) = disk[path]
         /\ StampOf(path) \in Stamps
         /\ path # NoFile => StampOf(path) = disk[path]
BY DEF TypeOK, OnDisk, StampOf, Paths, Stamps

LEMMA ConfigureIs ==
  ASSUME TypeOK, NEW known \in [Side -> Stamps], NEW path \in [Side -> Paths],
         Configure(known, path)
  PROVE  /\ observed' \in [Side -> Stamps] /\ watchedPaths' = path /\ notices' = {}
         /\ watched' \subseteq File
         /\ \A s \in Side : path[s] = watchedPaths[s] => observed'[s] = known[s]
         /\ \A s \in Side : path[s] # watchedPaths[s] /\ path[s] # NoFile =>
              observed'[s] = disk[path[s]]
         /\ \A s \in Side : path[s] # NoFile /\ disk[path[s]] # Missing => path[s] \in watched'
<1>1. \A s \in Side : StampOf(path[s]) \in Stamps
  BY OnDiskIs
<1>2. observed' \in [Side -> Stamps]
  BY <1>1 DEF Configure
<1>3. \A s \in Side : path[s] # NoFile => path[s] \in File /\ StampOf(path[s]) = disk[path[s]]
  BY OnDiskIs
<1> QED BY <1>2, <1>3 DEF Configure

\* The types, by name.
LEMMA Types ==
  ASSUME TypeOK
  PROVE  /\ work \in Work /\ observed \in [Side -> Stamps] /\ target \in [Side -> Paths]
         /\ watchedPaths \in [Side -> Paths]
         /\ saving \in [side : Side \union {Nobody}, step : {"ask", "stamp"}]
         /\ work.side \in Side /\ work.job \in Job /\ work.step \in Step
         /\ work.seen \in Content \union {Missing}
BY DEF TypeOK, Work, Stamps, Paths

\* configureFileWatching keeps the types of the watcher's state.
Watcher == /\ watched \subseteq File /\ notices \subseteq File /\ watchedPaths \in [Side -> Paths]
           /\ observed \in [Side -> Stamps]

LEMMA ReconfigureIs ==
  ASSUME TypeOK, Reconfigure
  PROVE  /\ Watcher' /\ watchedPaths' = target /\ notices' = {}
         /\ \A s \in Side : target[s] = watchedPaths[s] => observed'[s] = observed[s]
         /\ \A s \in Side : target[s] # watchedPaths[s] /\ target[s] # NoFile =>
              observed'[s] = disk[target[s]]
         /\ \A s \in Side : target[s] # NoFile /\ disk[target[s]] # Missing =>
              target[s] \in watched'
<1>1. observed \in [Side -> Stamps] /\ target \in [Side -> Paths]
  BY Types
<1> QED BY <1>1, ConfigureIs DEF Reconfigure, Watcher

LEMMA LookIs ==
  ASSUME TypeOK, Look
  PROVE  LET s == work.side
             found == OnDisk(target[s])
         IN /\ s \in Side /\ target[s] \in Paths /\ found \in Content \union {Missing}
            /\ work' \in Work /\ work'.job = work.job
            /\ \/ /\ Skipped(s, found) /\ work' = NextSide(work)
                  /\ observed' = observed /\ failed' = failed
               \/ /\ ~Skipped(s, found) /\ work'.side = s /\ work'.seen = found
                  /\ work'.step = IF Modified(s) THEN "asking" ELSE "reading"
                  /\ observed' = [observed EXCEPT ![s] = IF work.job = "check" THEN found ELSE @]
                  /\ failed' = [failed EXCEPT ![s] = IF work.job = "check" THEN Missing ELSE @]
<1>1. /\ work \in Work /\ work.side \in Side /\ target[work.side] \in Paths
      /\ observed \in [Side -> Stamps]
  BY Types
<1>2. OnDisk(target[work.side]) \in Content \union {Missing}
  BY <1>1, OnDiskIs
<1>3. NextSide(work) \in Work /\ NextSide(work).job = work.job
  BY <1>1, NextSideIs
<1>4. CASE Skipped(work.side, OnDisk(target[work.side]))
  BY <1>1, <1>2, <1>3, <1>4 DEF Look
<1>5. CASE ~Skipped(work.side, OnDisk(target[work.side]))
  <2>1. /\ work' = [work EXCEPT !.seen = OnDisk(target[work.side]),
                       !.step = IF Modified(work.side) THEN "asking" ELSE "reading"]
        /\ observed' = ObservedNow(work.side, OnDisk(target[work.side]))
        /\ failed' = [failed EXCEPT ![work.side] = IF work.job = "check" THEN Missing ELSE @]
    BY <1>5 DEF Look
  <2>2. /\ work' \in Work /\ work'.job = work.job /\ work'.side = work.side
        /\ work'.seen = OnDisk(target[work.side])
        /\ work'.step = IF Modified(work.side) THEN "asking" ELSE "reading"
    BY <1>1, <1>2, <2>1 DEF Work, Step
  <2>3. observed' = [observed EXCEPT ![work.side] =
                        IF work.job = "check" THEN OnDisk(target[work.side]) ELSE @]
    BY <1>1, <2>1 DEF ObservedNow
  <2> QED BY <1>1, <1>2, <1>5, <2>1, <2>2, <2>3
<1> QED BY <1>4, <1>5

LEMMA FailIs ==
  ASSUME TypeOK, Fail(work.side)
  PROVE  /\ failed' \in [Side -> Stamps] /\ work' = NextSide(work) /\ work' \in Work
         /\ work'.job = work.job /\ work'.side = "right" /\ work'.step \in {"look", "renew"}
         /\ \A s \in Side :
              failed'[s] = IF s = work.side /\ work.job = "check" THEN observed[s] ELSE failed[s]
<1>1. /\ work \in Work /\ work.side \in Side /\ observed \in [Side -> Stamps]
      /\ failed \in [Side -> Stamps]
  BY Types DEF TypeOK, Stamps
<1>2. /\ NextSide(work) \in Work /\ NextSide(work).job = work.job /\ NextSide(work).side = "right"
      /\ NextSide(work).step \in {"look", "renew"}
  BY <1>1, NextSideIs DEF Side
<1> QED BY <1>1, <1>2 DEF Fail

LEMMA TypeStep == ASSUME WatchInv, [Next]_vars PROVE TypeOK'
<1>1. CASE Rearm
  <2>1. Watcher'
    BY <1>1, ReconfigureIs DEF Rearm, WatchInv
  <2> QED BY <1>1, <2>1 DEF TypeOK, WatchInv, Watcher, Stamps, Paths, Rearm, outside, sides,
     Checking
<1>2. CASE Look
  <2>1. work' \in Work /\ work'.job = work.job
    BY <1>2, LookIs DEF WatchInv
  <2>2. observed' \in [Side -> Stamps] /\ failed' \in [Side -> Stamps]
    <3>1. observed \in [Side -> Stamps] /\ failed \in [Side -> Stamps]
      BY DEF TypeOK, WatchInv, Stamps
    <3>2. Missing \in Stamps /\ \A c \in Content \union {Missing} : c \in Stamps
      BY DEF Stamps
    <3> QED BY <1>2, <3>1, <3>2, LookIs DEF WatchInv
  <2> QED BY <1>2, <2>1, <2>2 DEF TypeOK, WatchInv, Work, Stamps, Look, outside, Checking
<1>3. CASE Read
  <2>1. CASE OnDisk(target[work.side]) = Missing
    <3>1. Fail(work.side)
      BY <1>3, <2>1 DEF Read
    <3>2. failed' \in [Side -> Stamps] /\ work' \in Work /\ work'.job = work.job
      BY <3>1, FailIs DEF WatchInv
    <3> QED BY <1>3, <3>2 DEF TypeOK, WatchInv, Work, Stamps, Read, outside, watching, Checking
  <2>2. CASE OnDisk(target[work.side]) # Missing
    <3>1. /\ work' = [work EXCEPT !.seen = OnDisk(target[work.side]), !.step = "installing"]
          /\ failed' = failed
      BY <1>3, <2>2 DEF Read
    <3>2. work \in Work /\ OnDisk(target[work.side]) \in Content \union {Missing}
      BY Types, OnDiskIs DEF WatchInv
    <3>3. work' \in Work /\ work'.job = work.job
      BY <3>1, <3>2 DEF Work, Step
    <3> QED BY <1>3, <3>1, <3>3 DEF TypeOK, WatchInv, Work, Read, outside, watching, Checking
  <2> QED BY <2>1, <2>2
<1>4. CASE Install
  <2>1. CASE OnDisk(target[work.side]) # work.seen
    <3>1. Fail(work.side) /\ UNCHANGED <<base, text, kept, passed>>
      BY <1>4, <2>1 DEF Install
    <3>2. failed' \in [Side -> Stamps] /\ work' \in Work /\ work'.job = work.job
      BY <3>1, FailIs DEF WatchInv
    <3> QED BY <1>4, <3>1, <3>2 DEF TypeOK, WatchInv, Work, Stamps, Install, outside, watching,
       Checking
  <2>2. CASE OnDisk(target[work.side]) = work.seen
    <3>1. /\ base' = [base EXCEPT ![work.side] = work.seen]
          /\ text' = [text EXCEPT ![work.side] = work.seen]
          /\ kept' = [kept EXCEPT ![work.side] = Missing]
          /\ passed' = [passed EXCEPT ![work.side] = Missing]
          /\ failed' = [failed EXCEPT ![work.side] = Missing]
          /\ work' = [work EXCEPT !.step = "stamping"]
      BY <1>4, <2>2 DEF Install
    <3>2. work \in Work /\ work.side \in Side /\ work.seen \in Content
      BY <1>4, Types DEF WatchInv, BusyInv, Install
    <3>3. work' \in Work /\ work'.job = work.job
      BY <3>1, <3>2 DEF Work, Step
    <3> QED BY <1>4, <3>1, <3>2, <3>3 DEF TypeOK, WatchInv, Work, Install, outside, watching,
       Checking
  <2> QED BY <2>1, <2>2
<1>5. CASE Renew
  <2>1. Watcher'
    BY <1>5, ReconfigureIs DEF Renew, WatchInv
  <2> QED BY <1>5, <2>1 DEF TypeOK, WatchInv, Watcher, Stamps, Paths, Job, Side, Step, NotWorking,
                       Renew, outside, sides, Checking
<1>6. CASE Saved
  <2>1. /\ saving.side \in Side /\ target[saving.side] \in File /\ observed \in [Side -> Stamps]
        /\ target \in [Side -> Paths]
    BY <1>6, Types DEF WatchInv, BusyInv, Saved, Paths
  <2>2. [observed EXCEPT ![saving.side] = disk[target[saving.side]]] \in [Side -> Stamps]
    BY <2>1 DEF WatchInv, TypeOK, Stamps
  <2>3. Watcher'
    BY <1>6, <2>1, <2>2, ConfigureIs DEF Saved, WatchInv, Watcher
  <2> QED BY <1>6, <2>3 DEF TypeOK, WatchInv, Watcher, Stamps, Paths, NotSaving, Saved, outside,
     sides, Checking
<1> USE FileWatchAssumption DEF TypeOK, WatchInv, Work, Job, Step, Side, Stamps, Paths, Checking,
   NotWorking, NotSaving, outside, sides, watching
<1>7. CASE Notice
  BY <1>7 DEF Notice
<1>8. CASE TimerFires
  BY <1>8, ConfigureIs DEF TimerFires, Reconfigure, Restarted, Checkable
<1>9. CASE RefreshFiles
  BY <1>9 DEF RefreshFiles, Free
<1>10. CASE Stamp
  BY <1>10, NextSideIs, OnDiskIs DEF Stamp
<1>11. CASE LoadFiles
  BY <1>11 DEF LoadFiles, Free, TextOf, ConfigureAnew, Configure, StampOf
<1>12. CASE Back
  BY <1>12 DEF Back, TextOf, Free
<1>13. CASE SwapSides
  BY <1>13 DEF SwapSides, Free, Swapped, Other, OnDisk, ConfigureAnew, Configure, StampOf
<1>14. CASE WriteInPlace
  BY <1>14 DEF WriteInPlace, Written
<1>15. CASE Replace
  BY <1>15 DEF Replace, Written
<1>16. ASSUME NEW yes \in BOOLEAN, Answer(yes) PROVE TypeOK'
  BY <1>16, NextSideIs DEF Answer, Asking
<1>17. ASSUME NEW yes \in BOOLEAN, Overwrite(yes) PROVE TypeOK'
  BY <1>17 DEF Overwrite, Commit, BusyInv
<1>18. ASSUME NEW side \in Side, Save(side) PROVE TypeOK'
  BY <1>18 DEF Save, Commit, BusyInv, Free
<1>19. ASSUME NEW side \in Side, Edit(side) PROVE TypeOK'
  BY <1>19 DEF Edit, Free
<1>20. CASE UNCHANGED vars
  BY <1>20 DEF vars
<1> QED BY <1>1, <1>2, <1>3, <1>4, <1>5, <1>6, <1>7, <1>8, <1>9, <1>10, <1>11, <1>12, <1>13,
   <1>14, <1>15, <1>16, <1>17, <1>18, <1>19, <1>20 DEF Next

LEMMA BusyStep == ASSUME WatchInv, [Next]_vars PROVE BusyInv'
<1>1. CASE Read
  <2>1. work \in Work /\ work.side \in Side /\ target[work.side] \in Paths
    BY Types DEF WatchInv
  <2>2. CASE OnDisk(target[work.side]) = Missing
    <3>1. Fail(work.side)
      BY <1>1, <2>2 DEF Read
    <3>2. work'.job = work.job /\ work'.side = "right" /\ work'.step \in {"look", "renew"}
      BY <3>1, FailIs DEF WatchInv
    <3> QED BY <1>1, <3>2 DEF BusyInv, WatchInv, Read, Checking, watching, NotSaving
  <2>3. CASE OnDisk(target[work.side]) # Missing
    <3>1. work' = [work EXCEPT !.seen = OnDisk(target[work.side]), !.step = "installing"]
      BY <1>1, <2>3 DEF Read
    <3>2. /\ work'.job = work.job /\ work'.side = work.side /\ work'.step = "installing"
          /\ work'.seen # Missing
      BY <2>1, <2>3, <3>1 DEF Work
    <3>3. target[work.side] # NoFile
      BY <1>1 DEF BusyInv, WatchInv, Read
    <3> QED BY <1>1, <3>2, <3>3 DEF BusyInv, WatchInv, Read, Checking, watching, NotSaving
  <2> QED BY <2>2, <2>3
<1>2. CASE Install
  <2>1. work \in Work /\ work.side \in Side /\ target[work.side] \in Paths
    BY Types DEF WatchInv
  <2>2. CASE OnDisk(target[work.side]) # work.seen
    <3>1. Fail(work.side)
      BY <1>2, <2>2 DEF Install
    <3>2. work'.job = work.job /\ work'.side = "right" /\ work'.step \in {"look", "renew"}
      BY <3>1, FailIs DEF WatchInv
    <3> QED BY <1>2, <3>2 DEF BusyInv, WatchInv, Install, Checking, watching, NotSaving
  <2>3. CASE OnDisk(target[work.side]) = work.seen
    <3>1. work' = [work EXCEPT !.step = "stamping"]
      BY <1>2, <2>3 DEF Install
    <3>2. work'.job = work.job /\ work'.side = work.side /\ work'.step = "stamping"
      BY <2>1, <3>1 DEF Work
    <3>3. target[work.side] # NoFile
      BY <1>2 DEF BusyInv, WatchInv, Install
    <3> QED BY <1>2, <3>2, <3>3 DEF BusyInv, WatchInv, Install, Checking, watching, NotSaving
  <2> QED BY <2>2, <2>3
<1> USE Types, FileWatchAssumption DEF BusyInv, TypeOK, WatchInv, Work, Side, Step, Job, Paths,
   Checking, NotWorking, NotSaving, outside, sides, watching
<1>3. CASE Rearm
  BY <1>3, ReconfigureIs DEF Rearm
<1>4. CASE Notice
  BY <1>4 DEF Notice
<1>5. CASE TimerFires
  BY <1>5, ReconfigureIs DEF TimerFires, Checkable, EventLoop, Asking
<1>6. CASE RefreshFiles
  BY <1>6 DEF RefreshFiles, Free
<1>7. CASE Look
  BY <1>7, LookIs, NextSideIs DEF Look, Skipped
<1>8. CASE Stamp
  BY <1>8, NextSideIs DEF Stamp
<1>9. CASE Renew
  BY <1>9, ReconfigureIs DEF Renew
<1>10. CASE Saved
  BY <1>10 DEF Saved, Configure
<1>11. CASE LoadFiles
  BY <1>11 DEF LoadFiles, Free, ConfigureAnew
<1>12. CASE Back
  BY <1>12 DEF Back, Free
<1>13. CASE SwapSides
  BY <1>13 DEF SwapSides, Free, ConfigureAnew, Swapped, Other
<1>14. CASE WriteInPlace
  BY <1>14 DEF WriteInPlace, Written
<1>15. CASE Replace
  BY <1>15 DEF Replace, Written
<1>16. ASSUME NEW yes \in BOOLEAN, Answer(yes) PROVE BusyInv'
  BY <1>16, NextSideIs DEF Answer, Asking
<1>17. ASSUME NEW yes \in BOOLEAN, Overwrite(yes) PROVE BusyInv'
  BY <1>17 DEF Overwrite, Commit
<1>18. ASSUME NEW side \in Side, Save(side) PROVE BusyInv'
  BY <1>18 DEF Save, Commit, Free
<1>19. ASSUME NEW side \in Side, Edit(side) PROVE BusyInv'
  BY <1>19 DEF Edit, Free
<1>20. CASE UNCHANGED vars
  BY <1>20 DEF vars
<1> QED BY <1>1, <1>2, <1>3, <1>4, <1>5, <1>6, <1>7, <1>8, <1>9, <1>10, <1>11, <1>12, <1>13,
   <1>14, <1>15, <1>16, <1>17, <1>18, <1>19, <1>20 DEF Next

LEMMA DistinctStep == ASSUME WatchInv, [Next]_vars PROVE Distinct'
<1>1. CASE LoadFiles
  BY <1>1 DEF LoadFiles, Distinct
<1>2. CASE SwapSides
  BY <1>2 DEF SwapSides, Swapped, Other, Side, Distinct, WatchInv, TypeOK
<1>3. CASE UNCHANGED target
  BY <1>3 DEF WatchInv, Distinct
<1> QED
  BY <1>1, <1>2, <1>3 DEF Next, vars, outside, sides, Rearm, Notice, TimerFires, RefreshFiles, Look,
     Answer, Overwrite, Read, Install, Stamp, Renew, Save, Edit, Saved, Back, WriteInPlace,
     Replace, Written

(* What the window wrote itself is what it has observed. *)
LEMMA OwnStep == ASSUME WatchInv, [Next]_vars PROVE OwnInv'
<1> USE Types, FileWatchAssumption DEF OwnInv, Stamping, TypeOK, WatchInv, Side, Paths, Checking,
   NotWorking, NotSaving, outside, sides, watching
<1>1. CASE Rearm
  BY <1>1, ReconfigureIs DEF Rearm
<1>2. CASE Notice
  BY <1>2 DEF Notice
<1>3. CASE TimerFires
  BY <1>3, ReconfigureIs DEF TimerFires, Checkable, EventLoop, Asking
<1>4. CASE RefreshFiles
  BY <1>4 DEF RefreshFiles, Free
<1>5. CASE Look
  BY <1>5, LookIs, OnDiskIs DEF Look, Skipped
<1>6. CASE Read
  BY <1>6 DEF Read
<1>7. CASE Install
  BY <1>7 DEF Install
<1>8. CASE Stamp
  BY <1>8, NextSideIs DEF Stamp, OnDisk
<1>9. CASE Renew
  BY <1>9, ReconfigureIs DEF Renew
<1>10. CASE Saved
  BY <1>10 DEF Saved, Configure, StampOf
<1>11. CASE LoadFiles
  BY <1>11 DEF LoadFiles, Free, ConfigureAnew, Configure, StampOf
<1>12. CASE Back
  BY <1>12 DEF Back, Free
<1>13. CASE SwapSides
  BY <1>13 DEF SwapSides, Free, ConfigureAnew, Configure, StampOf, Swapped, Other
<1>14. CASE WriteInPlace
  BY <1>14 DEF WriteInPlace, Written
<1>15. CASE Replace
  BY <1>15 DEF Replace, Written
<1>16. ASSUME NEW yes \in BOOLEAN, Answer(yes) PROVE OwnInv'
  BY <1>16, NextSideIs DEF Answer, Asking
<1>17. ASSUME NEW yes \in BOOLEAN, Overwrite(yes) PROVE OwnInv'
  BY <1>17 DEF Overwrite, Commit, Distinct, Other, BusyInv
<1>18. ASSUME NEW side \in Side, Save(side) PROVE OwnInv'
  BY <1>18 DEF Save, Commit, Free, Distinct, Other
<1>19. ASSUME NEW side \in Side, Edit(side) PROVE OwnInv'
  BY <1>19 DEF Edit, Free
<1>20. CASE UNCHANGED vars
  BY <1>20 DEF vars
<1> QED BY <1>1, <1>2, <1>3, <1>4, <1>5, <1>6, <1>7, <1>8, <1>9, <1>10, <1>11, <1>12, <1>13,
   <1>14, <1>15, <1>16, <1>17, <1>18, <1>19, <1>20 DEF Next

LEMMA OwnSavesStep == ASSUME WatchInv, [Next]_vars PROVE OwnSavesAreKnown'
<1> USE Types, FileWatchAssumption DEF OwnSavesAreKnown, TypeOK, WatchInv, Work, Side, Paths,
   Checking, NotWorking, NotSaving, outside, sides, watching
<1>1. CASE Rearm
  BY <1>1, ReconfigureIs DEF Rearm
<1>2. CASE Notice
  BY <1>2 DEF Notice
<1>3. CASE TimerFires
  BY <1>3, ReconfigureIs DEF TimerFires, Checkable, EventLoop, Asking
<1>4. CASE RefreshFiles
  BY <1>4 DEF RefreshFiles, Free
<1>5. CASE Look
  BY <1>5, LookIs, OnDiskIs, NextSideIs DEF Look, Skipped, OwnInv, Stamping, BusyInv
<1>6. CASE Read
  BY <1>6, FailIs DEF Read, OwnInv
<1>7. CASE Install
  BY <1>7, FailIs DEF Install, OwnInv
<1>8. CASE Stamp
  BY <1>8, NextSideIs DEF Stamp
<1>9. CASE Renew
  BY <1>9, ReconfigureIs DEF Renew
<1>10. CASE Saved
  BY <1>10 DEF Saved, Configure, StampOf
<1>11. CASE LoadFiles
  BY <1>11 DEF LoadFiles, Free, ConfigureAnew, Configure, StampOf
<1>12. CASE Back
  BY <1>12 DEF Back, Free
<1>13. CASE SwapSides
  BY <1>13 DEF SwapSides, Free, ConfigureAnew, Configure, StampOf, Swapped, Other
<1>14. CASE WriteInPlace
  BY <1>14 DEF WriteInPlace, Written
<1>15. CASE Replace
  BY <1>15 DEF Replace, Written
<1>16. ASSUME NEW yes \in BOOLEAN, Answer(yes) PROVE OwnSavesAreKnown'
  BY <1>16, NextSideIs DEF Answer, Asking
<1>17. ASSUME NEW yes \in BOOLEAN, Overwrite(yes) PROVE OwnSavesAreKnown'
  BY <1>17 DEF Overwrite, Commit, Distinct, Other, BusyInv
<1>18. ASSUME NEW side \in Side, Save(side) PROVE OwnSavesAreKnown'
  BY <1>18 DEF Save, Commit, Free, Distinct, Other
<1>19. ASSUME NEW side \in Side, Edit(side) PROVE OwnSavesAreKnown'
  BY <1>19 DEF Edit, Free
<1>20. CASE UNCHANGED vars
  BY <1>20 DEF vars
<1> QED BY <1>1, <1>2, <1>3, <1>4, <1>5, <1>6, <1>7, <1>8, <1>9, <1>10, <1>11, <1>12, <1>13,
   <1>14, <1>15, <1>16, <1>17, <1>18, <1>19, <1>20 DEF Next

LEMMA QuestionsStep == ASSUME WatchInv, [Next]_vars PROVE QuestionsStayTrue'
<1> USE Types, FileWatchAssumption DEF QuestionsStayTrue, TypeOK, WatchInv, Work, Side, Paths,
   Checking, Asking, Modified, NotWorking, NotSaving, outside, sides, watching
<1>1. CASE Rearm
  BY <1>1, ReconfigureIs DEF Rearm, BusyInv
<1>2. CASE Notice
  BY <1>2 DEF Notice, BusyInv
<1>3. CASE TimerFires
  BY <1>3, ReconfigureIs DEF TimerFires, Checkable, EventLoop, BusyInv
<1>4. CASE RefreshFiles
  BY <1>4 DEF RefreshFiles, Free, BusyInv
<1>5. CASE Look
  BY <1>5, LookIs, OnDiskIs, NextSideIs DEF Look, Skipped, BusyInv
<1>6. CASE Read
  BY <1>6, FailIs DEF Read, OwnInv, BusyInv
<1>7. CASE Install
  BY <1>7, FailIs DEF Install, OwnInv, BusyInv
<1>8. CASE Stamp
  BY <1>8, NextSideIs DEF Stamp, BusyInv
<1>9. CASE Renew
  BY <1>9, ReconfigureIs DEF Renew, BusyInv
<1>10. CASE Saved
  BY <1>10 DEF Saved, Configure, StampOf, BusyInv
<1>11. CASE LoadFiles
  BY <1>11 DEF LoadFiles, Free, ConfigureAnew, Configure, StampOf, BusyInv
<1>12. CASE Back
  BY <1>12 DEF Back, Free, BusyInv
<1>13. CASE SwapSides
  BY <1>13 DEF SwapSides, Free, ConfigureAnew, Configure, StampOf, Swapped, Other, BusyInv
<1>14. CASE WriteInPlace
  BY <1>14 DEF WriteInPlace, Written, BusyInv
<1>15. CASE Replace
  BY <1>15 DEF Replace, Written, BusyInv
<1>16. ASSUME NEW yes \in BOOLEAN, Answer(yes) PROVE QuestionsStayTrue'
  BY <1>16, NextSideIs DEF Answer, BusyInv
<1>17. ASSUME NEW yes \in BOOLEAN, Overwrite(yes) PROVE QuestionsStayTrue'
  BY <1>17 DEF Overwrite, Commit, Distinct, Other, BusyInv, BusyInv
<1>18. ASSUME NEW side \in Side, Save(side) PROVE QuestionsStayTrue'
  BY <1>18 DEF Save, Commit, Free, Distinct, Other, BusyInv
<1>19. ASSUME NEW side \in Side, Edit(side) PROVE QuestionsStayTrue'
  BY <1>19 DEF Edit, Free, BusyInv
<1>20. CASE UNCHANGED vars
  BY <1>20 DEF vars
<1> QED BY <1>1, <1>2, <1>3, <1>4, <1>5, <1>6, <1>7, <1>8, <1>9, <1>10, <1>11, <1>12, <1>13,
   <1>14, <1>15, <1>16, <1>17, <1>18, <1>19, <1>20 DEF Next

\* The window knows its own saves, and a question it has open stays true.
THEOREM WatchHolds == Spec => []WatchInv
<1>1. Init => WatchInv
  <2> SUFFICES ASSUME Init PROVE WatchInv
    OBVIOUS
  <2>1. /\ work = NotWorking /\ work \in Work /\ ~Checking /\ ~Asking
    BY DEF Init, NotWorking, Work, Job, Step, Side, Checking, Asking
  <2>2. saving = NotSaving /\ saving \in [side : Side \union {Nobody}, step : {"ask", "stamp"}]
    BY DEF Init, NotSaving
  <2>3. TypeOK
    <3>1. /\ prompt \in BOOLEAN /\ shown \in BOOLEAN /\ timer \in BOOLEAN /\ rearm \in BOOLEAN
          /\ disk \in [File -> Content \union {Missing}]
          /\ writer \in [File -> {"outside", "window"}]
          /\ watched \subseteq File /\ notices \subseteq File
      BY DEF Init
    <3>2. writes \in 0..MaxWrites
      BY FileWatchAssumption DEF Init
    <3>3. /\ target \in [Side -> File \union {NoFile}]
          /\ watchedPaths \in [Side -> File \union {NoFile}]
          /\ observed \in [Side -> Content \union {Missing, NoFile}]
          /\ failed \in [Side -> Content \union {Missing, NoFile}]
      BY DEF Init
    <3>4. /\ base \in [Side -> Content \union {Missing}] /\ text \in [Side -> Content]
          /\ kept \in [Side -> Content \union {Missing}]
          /\ passed \in [Side -> Content \union {Missing}]
      BY FileWatchAssumption DEF Init
    <3> QED BY <2>1, <2>2, <3>1, <3>2, <3>3, <3>4 DEF TypeOK, Work
  <2>4. Distinct /\ OwnInv /\ QuestionsStayTrue
    BY <2>1 DEF Init, Distinct, Side, OwnInv, QuestionsStayTrue
  <2>5. BusyInv /\ OwnSavesAreKnown
    BY <2>1, <2>2 DEF BusyInv, OwnSavesAreKnown, NotSaving, Checking, NotWorking
  <2> QED BY <2>3, <2>4, <2>5 DEF WatchInv
<1>2. WatchInv /\ [Next]_vars => WatchInv'
  BY TypeStep, BusyStep, DistinctStep, OwnStep, OwnSavesStep, QuestionsStep DEF WatchInv
<1> QED BY <1>1, <1>2, PTL DEF Spec

LEMMA QuietStep == ASSUME prompt, PromptInv, WatchInv, WatchInv', [Next]_vars PROVE QuietInv'
<1>1. CASE Read
  <2>1. /\ work \in Work /\ work.side \in Side /\ target[work.side] \in Paths
        /\ Checking /\ ~Asking /\ work.step = "reading" /\ target[work.side] # NoFile
        /\ notices = {} /\ saving.step # "stamp"
        /\ UNCHANGED <<outside, base, target, watching, saving>>
    BY <1>1, Types DEF WatchInv, BusyInv, Read, Asking, PromptInv, QuietInv
  <2>2. OnDisk(target[work.side]) = disk[target[work.side]]
    BY <2>1, OnDiskIs DEF WatchInv
  <2>3. CASE OnDisk(target[work.side]) = Missing
    <3>1. Fail(work.side)
      BY <1>1, <2>3 DEF Read
    <3>2. work'.step \in {"look", "renew"}
      BY <3>1, FailIs DEF WatchInv
    <3> QED BY <2>1, <3>2 DEF QuietInv, Asking, watching
  <2>4. CASE OnDisk(target[work.side]) # Missing
    <3>1. work' = [work EXCEPT !.seen = OnDisk(target[work.side]), !.step = "installing"]
      BY <1>1, <2>4 DEF Read
    <3>2. /\ work'.side = work.side /\ work'.step = "installing"
          /\ work'.seen = disk[target[work.side]]
      BY <2>1, <2>2, <3>1 DEF Work
    <3> QED BY <2>1, <3>2 DEF QuietInv, watching, outside
  <2> QED BY <2>3, <2>4
<1> USE Types, FileWatchAssumption DEF QuietInv, PromptInv, RearmInv, PathsInv, TypeOK, WatchInv,
   Work, Side, Paths, Checking, Asking, NotWorking, NotSaving, EventLoop, CaughtUp, Free, outside,
   sides, watching
<1>2. CASE Rearm
  BY <1>2, ReconfigureIs DEF Rearm
<1>3. CASE Notice
  BY <1>3 DEF Notice
<1>4. CASE TimerFires
  BY <1>4, ReconfigureIs DEF TimerFires, Checkable, Restarted
<1>5. CASE RefreshFiles
  BY <1>5 DEF RefreshFiles
<1>6. CASE Look
  BY <1>6, LookIs, NextSideIs, OnDiskIs DEF Look, Skipped
<1>7. CASE Install
  BY <1>7, FailIs, OnDiskIs DEF Install, BusyInv
<1>8. CASE Stamp
  BY <1>8, NextSideIs DEF Stamp
<1>9. CASE Renew
  BY <1>9, ReconfigureIs DEF Renew
<1>10. CASE Saved
  BY <1>10 DEF Saved, BusyInv, Configure
<1>11. CASE LoadFiles
  BY <1>11 DEF LoadFiles, ConfigureAnew, Configure
<1>12. CASE Back
  BY <1>12 DEF Back
<1>13. CASE SwapSides
  BY <1>13 DEF SwapSides, ConfigureAnew, Configure
<1>14. CASE WriteInPlace
  BY <1>14 DEF WriteInPlace, Written, Followed, CanReport, Stamping, BusyInv
<1>15. CASE Replace
  BY <1>15 DEF Replace, Written, BusyInv
<1>16. ASSUME NEW yes \in BOOLEAN, Answer(yes) PROVE QuietInv'
  BY <1>16, NextSideIs DEF Answer
<1>17. ASSUME NEW yes \in BOOLEAN, Overwrite(yes) PROVE QuietInv'
  BY <1>17 DEF Overwrite, Commit, BusyInv
<1>18. ASSUME NEW side \in Side, Save(side) PROVE QuietInv'
  BY <1>18 DEF Save, Commit, BusyInv
<1>19. ASSUME NEW side \in Side, Edit(side) PROVE QuietInv'
  BY <1>19 DEF Edit
<1>20. CASE UNCHANGED vars
  BY <1>20 DEF vars
<1> QED BY <1>1, <1>2, <1>3, <1>4, <1>5, <1>6, <1>7, <1>8, <1>9, <1>10, <1>11, <1>12, <1>13,
   <1>14, <1>15, <1>16, <1>17, <1>18, <1>19, <1>20 DEF Next

LEMMA RearmStep == ASSUME prompt, PromptInv, WatchInv, WatchInv', [Next]_vars PROVE RearmInv'
<1> USE Types, FileWatchAssumption DEF QuietInv, PromptInv, RearmInv, PathsInv, TypeOK, WatchInv,
   Work, Side, Paths, Checking, Asking, NotWorking, NotSaving, EventLoop, CaughtUp, Free, outside,
   sides, watching
<1>1. CASE Rearm
  BY <1>1, ReconfigureIs DEF Rearm
<1>2. CASE Notice
  BY <1>2 DEF Notice
<1>3. CASE TimerFires
  BY <1>3, ReconfigureIs DEF TimerFires, Checkable, Restarted
<1>4. CASE RefreshFiles
  BY <1>4 DEF RefreshFiles
<1>5. CASE Look
  BY <1>5, LookIs, NextSideIs, OnDiskIs DEF Look, Skipped
<1>6. CASE Read
  BY <1>6, NextSideIs DEF Read, BusyInv, Fail
<1>7. CASE Install
  BY <1>7, NextSideIs DEF Install, BusyInv, Fail
<1>8. CASE Stamp
  BY <1>8, NextSideIs DEF Stamp
<1>9. CASE Renew
  BY <1>9, ReconfigureIs DEF Renew
<1>10. CASE Saved
  BY <1>10 DEF Saved, BusyInv, Configure
<1>11. CASE LoadFiles
  BY <1>11, SMTT(30) DEF LoadFiles, ConfigureAnew, Configure, StampOf, JustLoaded
<1>12. CASE Back
  BY <1>12 DEF Back, JustLoaded
<1>13. CASE SwapSides
  BY <1>13 DEF SwapSides, ConfigureAnew, Configure, StampOf, Swapped, Other, OnDisk, JustLoaded
<1>14. CASE WriteInPlace
  BY <1>14 DEF WriteInPlace, Written, Followed, CanReport, Stamping, BusyInv
<1>15. CASE Replace
  BY <1>15 DEF Replace, Written, BusyInv
<1>16. ASSUME NEW yes \in BOOLEAN, Answer(yes) PROVE RearmInv'
  BY <1>16, NextSideIs DEF Answer
<1>17. ASSUME NEW yes \in BOOLEAN, Overwrite(yes) PROVE RearmInv'
  BY <1>17 DEF Overwrite, Commit, BusyInv
<1>18. ASSUME NEW side \in Side, Save(side) PROVE RearmInv'
  BY <1>18 DEF Save, Commit, BusyInv
<1>19. ASSUME NEW side \in Side, Edit(side) PROVE RearmInv'
  BY <1>19 DEF Edit, JustLoaded
<1>20. CASE UNCHANGED vars
  BY <1>20 DEF vars, JustLoaded
<1> QED BY <1>1, <1>2, <1>3, <1>4, <1>5, <1>6, <1>7, <1>8, <1>9, <1>10, <1>11, <1>12, <1>13,
   <1>14, <1>15, <1>16, <1>17, <1>18, <1>19, <1>20 DEF Next

LEMMA WatchedPathsStep == ASSUME prompt, PromptInv, WatchInv, WatchInv', [Next]_vars PROVE PathsInv'
<1> USE Types, FileWatchAssumption DEF QuietInv, PromptInv, RearmInv, PathsInv, TypeOK, WatchInv,
   Work, Side, Paths, Checking, Asking, NotWorking, NotSaving, EventLoop, CaughtUp, Free, outside,
   sides, watching
<1>1. CASE Rearm
  BY <1>1, ReconfigureIs DEF Rearm
<1>2. CASE Notice
  BY <1>2 DEF Notice
<1>3. CASE TimerFires
  BY <1>3, ReconfigureIs DEF TimerFires, Checkable, Restarted
<1>4. CASE RefreshFiles
  BY <1>4 DEF RefreshFiles
<1>5. CASE Look
  BY <1>5, LookIs, NextSideIs, OnDiskIs DEF Look, Skipped
<1>6. CASE Read
  BY <1>6, NextSideIs DEF Read, BusyInv, Fail
<1>7. CASE Install
  BY <1>7, NextSideIs DEF Install, BusyInv, Fail
<1>8. CASE Stamp
  BY <1>8, NextSideIs DEF Stamp
<1>9. CASE Renew
  BY <1>9, ReconfigureIs DEF Renew
<1>10. CASE Saved
  BY <1>10 DEF Saved, BusyInv, Configure
<1>11. CASE LoadFiles
  BY <1>11 DEF LoadFiles, ConfigureAnew, Configure, StampOf, JustLoaded
<1>12. CASE Back
  BY <1>12 DEF Back, JustLoaded
<1>13. CASE SwapSides
  BY <1>13 DEF SwapSides, ConfigureAnew, Configure, StampOf, Swapped, Other, OnDisk, JustLoaded
<1>14. CASE WriteInPlace
  BY <1>14 DEF WriteInPlace, Written, Followed, CanReport, Stamping, BusyInv
<1>15. CASE Replace
  BY <1>15 DEF Replace, Written, BusyInv
<1>16. ASSUME NEW yes \in BOOLEAN, Answer(yes) PROVE PathsInv'
  BY <1>16, NextSideIs DEF Answer
<1>17. ASSUME NEW yes \in BOOLEAN, Overwrite(yes) PROVE PathsInv'
  BY <1>17 DEF Overwrite, Commit, BusyInv
<1>18. ASSUME NEW side \in Side, Save(side) PROVE PathsInv'
  BY <1>18 DEF Save, Commit, BusyInv
<1>19. ASSUME NEW side \in Side, Edit(side) PROVE PathsInv'
  BY <1>19 DEF Edit, JustLoaded
<1>20. CASE UNCHANGED vars
  BY <1>20 DEF vars, JustLoaded
<1> QED BY <1>1, <1>2, <1>3, <1>4, <1>5, <1>6, <1>7, <1>8, <1>9, <1>10, <1>11, <1>12, <1>13,
   <1>14, <1>15, <1>16, <1>17, <1>18, <1>19, <1>20 DEF Next

LEMMA FollowStep ==
  ASSUME prompt, PromptInv, WatchInv, WatchInv', [Next]_vars, NEW e \in Side
  PROVE  (~rearm /\ shown => Followed(e))'
<1>1. CASE TimerFires
  <2>1. CASE Checkable
    <3>1. /\ ~Checking /\ shown /\ ~rearm /\ watchedPaths = target /\ saving.step = "ask"
          /\ Reconfigure /\ work' = [NotWorking EXCEPT !.job = "check"] /\ Followed(e)
          /\ UNCHANGED <<outside, sides, saving>>
      BY <1>1, <2>1 DEF TimerFires, Checkable, CaughtUp, EventLoop, Asking, PromptInv, PathsInv
    <3>2. work'.job = "check" /\ work'.side = "left" /\ work'.step = "look"
      BY <3>1 DEF NotWorking
    <3>3. /\ observed'[e] = observed[e]
          /\ target[e] # NoFile /\ disk[target[e]] # Missing => target[e] \in watched'
      BY <3>1, ReconfigureIs DEF WatchInv
    <3>4. Ahead(e)'
      BY <3>2 DEF Ahead, Side
    <3> QED BY <3>1, <3>3, <3>4 DEF Followed, CanReport, OnItsWay, ObservedIsExcused, Excused,
       InHand,
                                 Stamping, Checking, outside, sides
  <2>2. CASE ~Checkable
    <3>1. /\ timer' = (shown /\ Checking)
          /\ UNCHANGED <<outside, sides, watching, work, rearm, saving>>
      BY <1>1, <2>2 DEF TimerFires, Restarted
    <3> QED BY <2>2, <3>1 DEF Checkable, Followed, InStep, CanReport, OnItsWay, ObservedIsExcused,
       Excused,
                        InHand, Ahead, Stamping, Checking, outside, sides, watching, PromptInv
  <2> QED BY <2>1, <2>2
<1>2. CASE Read
  <2>1. /\ work \in Work /\ work.side \in Side /\ target[work.side] \in Paths
        /\ Checking /\ shown /\ target[work.side] # NoFile /\ saving.step # "stamp"
        /\ OnDisk(target[work.side]) = disk[target[work.side]]
    BY <1>2, Types, OnDiskIs DEF WatchInv, BusyInv, TypeOK, Asking, Read
  <2>2. QuietInv /\ ~rearm /\ Followed(e)
    BY <2>1 DEF PromptInv, RearmInv, Free
  <2>3. /\ work.step = "reading"
        /\ UNCHANGED <<outside, shown, target, base, text, kept, passed, watching, timer, rearm,
                       saving>>
    BY <1>2 DEF Read
  <2>4. CASE OnDisk(target[work.side]) = Missing
    <3>1. Fail(work.side)
      BY <1>2, <2>4 DEF Read
    <3>2. /\ failed'[e] = IF e = work.side /\ work.job = "check" THEN observed[e] ELSE failed[e]
          /\ work' = NextSide(work)
      BY <3>1, FailIs DEF WatchInv
    <3>3. /\ work'.job = work.job /\ work'.side = "right"
          /\ work.side = "left" => work'.step = "look"
      BY <2>1, <3>2, NextSideIs
    <3>4. CASE e = work.side
      BY <2>1, <2>2, <2>3, <2>4, <3>2, <3>4 DEF Followed, InStep, CanReport, OnItsWay,
         ObservedIsExcused, Excused, InHand, Stamping, Ahead, Checking, outside, watching
    <3>5. CASE e # work.side
      BY <2>1, <2>2, <2>3, <3>2, <3>3, <3>5 DEF Followed, InStep, CanReport, OnItsWay,
         ObservedIsExcused, Excused, InHand, Stamping, Ahead, Checking, Side, outside, watching
    <3> QED BY <3>4, <3>5
  <2>5. CASE OnDisk(target[work.side]) # Missing
    <3>1. /\ work' = [work EXCEPT !.seen = OnDisk(target[work.side]), !.step = "installing"]
          /\ failed' = failed
      BY <1>2, <2>5 DEF Read
    <3>2. work'.side = work.side /\ work'.step = "installing" /\ work'.job = work.job
      BY <2>1, <3>1 DEF Work
    <3> QED BY <2>1, <2>2, <2>3, <3>1, <3>2 DEF Followed, InStep, CanReport, OnItsWay,
       ObservedIsExcused, Excused, InHand, Stamping, Ahead, Checking, Side, outside, watching
  <2> QED BY <2>4, <2>5
<1>3. CASE Install
  <2>1. /\ work \in Work /\ work.side \in Side /\ target[work.side] \in Paths
        /\ Checking /\ shown /\ target[work.side] # NoFile /\ saving.step # "stamp"
        /\ OnDisk(target[work.side]) = disk[target[work.side]]
    BY <1>3, Types, OnDiskIs DEF WatchInv, BusyInv, TypeOK, Asking, Install
  <2>2. QuietInv /\ ~rearm /\ Followed(e)
    BY <2>1 DEF PromptInv, RearmInv, Free
  <2>3. disk[target[work.side]] = work.seen
    BY <1>3, <2>1, <2>2 DEF QuietInv, Install
  <2>4. /\ base' = [base EXCEPT ![work.side] = work.seen]
        /\ kept' = [kept EXCEPT ![work.side] = Missing]
        /\ passed' = [passed EXCEPT ![work.side] = Missing]
        /\ failed' = [failed EXCEPT ![work.side] = Missing]
        /\ work' = [work EXCEPT !.step = "stamping"]
        /\ UNCHANGED <<outside, shown, target, watching, timer, rearm, saving>>
    BY <1>3, <2>1, <2>3 DEF Install
  <2>5. work'.side = work.side /\ work'.step = "stamping" /\ work'.job = work.job
    BY <2>1, <2>4 DEF Work
  <2>6. CASE e = work.side
    <3>1. base'[e] = work.seen /\ disk' = disk /\ target' = target
      BY <2>4, <2>6 DEF WatchInv, TypeOK, outside
    <3> QED BY <2>1, <2>2, <2>3, <2>4, <2>5, <2>6, <3>1
            DEF Followed, InStep, CanReport, OnItsWay, ObservedIsExcused, Excused, Stamping,
                Checking, outside, watching
  <2>7. CASE e # work.side
    <3>1. /\ base'[e] = base[e] /\ kept'[e] = kept[e] /\ passed'[e] = passed[e]
          /\ failed'[e] = failed[e]
      BY <2>4, <2>7 DEF WatchInv, TypeOK
    <3> QED BY <2>1, <2>2, <2>4, <2>5, <2>7, <3>1
            DEF Followed, InStep, CanReport, OnItsWay, ObservedIsExcused, Excused, InHand,
                Stamping, Ahead, Checking, Side, outside, watching
  <2> QED BY <2>6, <2>7
<1>4. ASSUME NEW yes \in BOOLEAN, Answer(yes) PROVE (~rearm /\ shown => Followed(e))'
  <2>1. /\ work \in Work /\ work.side \in Side /\ target[work.side] \in Paths
        /\ Checking /\ shown /\ target[work.side] # NoFile /\ saving.step # "stamp"
        /\ OnDisk(target[work.side]) = disk[target[work.side]]
    BY <1>4, Types, OnDiskIs DEF WatchInv, BusyInv, TypeOK, Asking, Answer
  <2>2. QuietInv /\ ~rearm /\ Followed(e)
    BY <2>1 DEF PromptInv, RearmInv, Free
  <2>3. /\ work.step = "asking" /\ notices = {}
        /\ UNCHANGED <<outside, shown, target, base, text, passed, failed, watching, timer, rearm,
                       saving>>
    BY <1>4, <2>2 DEF Answer, Asking, CaughtUp
  <2>4. CASE yes
    <3>1. work' = [work EXCEPT !.step = "reading"] /\ kept' = kept
      BY <1>4, <2>4 DEF Answer
    <3>2. work'.side = work.side /\ work'.step = "reading" /\ work'.job = work.job
      BY <2>1, <3>1 DEF Work
    <3> QED BY <2>1, <2>2, <2>3, <3>1, <3>2 DEF Followed, InStep, CanReport, OnItsWay,
       ObservedIsExcused, Excused, InHand, Stamping, Ahead, Checking, Side, outside, watching
  <2>5. CASE ~yes
    <3>1. /\ work' = NextSide(work)
          /\ kept' = IF work.job = "check" THEN [kept EXCEPT ![work.side] = work.seen] ELSE kept
      BY <1>4, <2>5 DEF Answer
    <3>2. /\ work'.job = work.job /\ work'.side = "right"
          /\ work.side = "left" => work'.step = "look"
      BY <2>1, <3>1, NextSideIs
    <3>3. CASE e = work.side /\ work.job = "check"
      <4>1. /\ kept'[e] = work.seen /\ observed[e] = work.seen
            /\ disk[target[e]] = work.seen \/ timer
        BY <2>1, <2>2, <2>3, <3>1, <3>3 DEF WatchInv, TypeOK, QuietInv, Asking, QuestionsStayTrue
      <4> QED BY <2>1, <2>2, <2>3, <3>3, <4>1 DEF Followed, InStep, CanReport, OnItsWay,
         ObservedIsExcused, Excused, Stamping, outside, watching
    <3>4. CASE e = work.side /\ work.job # "check"
      BY <2>1, <2>2, <2>3, <3>1, <3>4 DEF Followed, InStep, CanReport, OnItsWay,
         ObservedIsExcused, Excused, InHand, Stamping, Ahead, Checking, outside, watching
    <3>5. CASE e # work.side
      <4>1. kept'[e] = kept[e]
        BY <2>1, <3>1, <3>5 DEF WatchInv, TypeOK
      <4> QED BY <2>1, <2>2, <2>3, <3>2, <3>5, <4>1 DEF Followed, InStep, CanReport, OnItsWay,
         ObservedIsExcused, Excused, InHand, Stamping, Ahead, Checking, Side, outside, watching
    <3> QED BY <3>3, <3>4, <3>5
  <2> QED BY <2>4, <2>5
<1>11. CASE Saved
  <2> DEFINE known == [observed EXCEPT ![saving.side] = disk[target[saving.side]]]
  <2> SUFFICES ASSUME shown, target[e] # NoFile
               PROVE  Followed(e)'
    BY <1>11 DEF Saved, Followed, sides
  <2>1. /\ saving.step = "stamp" /\ saving # NotSaving /\ saving.side \in Side
        /\ target[saving.side] # NoFile /\ ~Checking /\ work.job # "check" /\ ~rearm
    BY <1>11 DEF Saved, WatchInv, BusyInv, PromptInv, RearmInv, Free, Checking
  <2>2. Followed(e) /\ QuietInv /\ watchedPaths = target
    BY <2>1 DEF PromptInv, PathsInv
  <2>3. /\ target[saving.side] \in File /\ observed \in [Side -> Stamps]
        /\ target \in [Side -> Paths] /\ Configure(known, target)
        /\ UNCHANGED <<outside, sides, timer, rearm, work>>
    BY <1>11, <2>1, Types DEF WatchInv, Saved, Paths
  <2>4. known \in [Side -> Stamps]
    <3>1. disk[target[saving.side]] \in Stamps
      BY <2>3 DEF WatchInv, TypeOK, Stamps
    <3> QED BY <2>3, <3>1
  <2>5. known[e] = IF e = saving.side THEN disk[target[e]] ELSE observed[e]
    BY <2>3
  <2> HIDE DEF known
  <2>6. /\ observed'[e] = known[e]
        /\ disk[target[e]] # Missing => target[e] \in watched'
    BY <2>2, <2>3, <2>4, ConfigureIs DEF WatchInv
  <2>7. CASE e = saving.side
    <3>1. disk[target[e]] = base[e] /\ observed'[e] = disk[target[e]]
      BY <2>1, <2>2, <2>5, <2>6, <2>7 DEF QuietInv
    <3> QED BY <2>3, <2>6, <3>1 DEF Followed, InStep, CanReport, ObservedIsExcused, Excused,
       outside, sides
  <2>8. CASE e # saving.side
    <3>1. target[e] \notin notices /\ observed'[e] = observed[e] /\ ~Stamping(e)
      BY <2>1, <2>2, <2>5, <2>6, <2>8 DEF QuietInv, WatchInv, Distinct, Stamping, Side
    <3>2. ~Ahead(e) /\ ~InHand(e)
      BY <2>1 DEF Ahead, InHand
    <3>3. InStep(e) \/ timer
      BY <2>2, <3>1, <3>2 DEF Followed, OnItsWay
    <3>4. observed[e] \in Excused(e)
      BY <2>1, <2>2, <3>1, <3>2 DEF Followed, ObservedIsExcused
    <3> QED BY <2>3, <2>6, <3>1, <3>3, <3>4 DEF Followed, InStep, CanReport, OnItsWay,
       ObservedIsExcused, Excused, outside, sides
  <2> QED BY <2>7, <2>8
<1> USE Types, FileWatchAssumption DEF Followed, InStep, Excused, OnItsWay, CanReport,
   ObservedIsExcused, Ahead, InHand, Stamping, QuietInv, PromptInv, RearmInv, PathsInv, TypeOK,
   WatchInv, Work, Side, Paths, Checking, Asking, NotWorking, NotSaving, EventLoop, CaughtUp, Free,
   outside, sides, watching
<1>5. CASE Rearm
  BY <1>5, ReconfigureIs DEF Rearm, JustLoaded
<1>6. CASE Notice
  BY <1>6 DEF Notice
<1>7. CASE RefreshFiles
  BY <1>7 DEF RefreshFiles
<1>8. CASE Look
  BY <1>8, LookIs, NextSideIs, OnDiskIs DEF Look, Skipped, BusyInv
<1>9. CASE Stamp
  BY <1>9, NextSideIs, OnDiskIs DEF Stamp, BusyInv
<1>10. CASE Renew
  BY <1>10, ReconfigureIs DEF Renew, BusyInv
<1>12. CASE LoadFiles
  BY <1>12 DEF LoadFiles, ConfigureAnew, Configure, StampOf, JustLoaded
<1>13. CASE Back
  BY <1>13 DEF Back, JustLoaded
<1>14. CASE SwapSides
  BY <1>14 DEF SwapSides, ConfigureAnew, Configure, StampOf, Swapped, Other, OnDisk, JustLoaded
<1>15. CASE WriteInPlace
  BY <1>15 DEF WriteInPlace, Written, BusyInv
<1>16. CASE Replace
  BY <1>16 DEF Replace, Written, BusyInv
<1>17. ASSUME NEW yes \in BOOLEAN, Overwrite(yes) PROVE (~rearm /\ shown => Followed(e))'
  BY <1>17 DEF Overwrite, Commit, BusyInv, Distinct
<1>18. ASSUME NEW side \in Side, Save(side) PROVE (~rearm /\ shown => Followed(e))'
  BY <1>18 DEF Save, Commit, BusyInv, Distinct, TextOf
<1>19. ASSUME NEW side \in Side, Edit(side) PROVE (~rearm /\ shown => Followed(e))'
  BY <1>19 DEF Edit, JustLoaded
<1>20. CASE UNCHANGED vars
  BY <1>20 DEF vars, JustLoaded
<1> QED BY <1>1, <1>2, <1>3, <1>4, <1>5, <1>6, <1>7, <1>8, <1>9, <1>10, <1>11, <1>12, <1>13, ZenonT(30),
   <1>14, <1>15, <1>16, <1>17, <1>18, <1>19, <1>20 DEF Next

\* A prompt machine keeps in step.
THEOREM PromptHolds == Spec => []PromptInv
<1>1. Init => PromptInv
  BY DEF Init, PromptInv, QuietInv, RearmInv, PathsInv, Checking, Asking, NotWorking, NotSaving
<1>2. WatchInv /\ PromptInv /\ [Next]_vars /\ WatchInv' => PromptInv'
  <2> SUFFICES ASSUME WatchInv, PromptInv, [Next]_vars, WatchInv', prompt' PROVE PromptInv'
    BY DEF PromptInv
  <2>1. prompt
    BY DEF Next, vars, outside, Rearm, Notice, TimerFires, RefreshFiles, Look, Answer, Overwrite,
       Read,
       Install, Stamp, Renew, Save, Edit, Saved, LoadFiles, Back, SwapSides, WriteInPlace, Replace,
       Written
  <2> QED BY <2>1, QuietStep, RearmStep, WatchedPathsStep, FollowStep DEF PromptInv
<1> QED BY <1>1, <1>2, WatchHolds, PTL DEF Spec

\* The window knows its own saves (saveSide stamps what it has written before the loop
\* runs again).
THEOREM OwnSavesHold == Spec => []WatchIsSound
<1>1. WatchInv => WatchIsSound
  BY DEF WatchInv, WatchIsSound
<1> QED BY <1>1, WatchHolds, PTL

\* What a question says stays true while it is open, whatever its nested event loop runs
\* (checkFileChanges, refreshFiles).
THEOREM QuestionsHold == Spec => []QuestionsStayTrue
<1>1. WatchInv => QuestionsStayTrue
  BY DEF WatchInv
<1> QED BY <1>1, WatchHolds, PTL

\* A window that has settled shows the disk, on a machine whose watcher is prompt, however
\* often and in whatever order other processes write, replace and delete the files.
THEOREM SettledShowsTheDisk == Spec => []ShowsTheDisk
<1>1. PromptInv => ShowsTheDisk
  BY DEF PromptInv, ShowsTheDisk, Settled, Followed, InStep, Excused, OnItsWay, Ahead, InHand,
     Free, Checking
<1> QED BY <1>1, PromptHolds, PTL
=============================================================================
