------------------------------ MODULE FileWatch ------------------------------
(***************************************************************************)
(* The desktop window keeps the two compared files in step with the disk   *)
(* (MainWindow): the watcher and its timer, the check that reloads what    *)
(* has changed, refresh, save, and the questions these ask, which run a    *)
(* nested event loop.                                                      *)
(*                                                                         *)
(* A file's stamp tells its contents apart.  The view is reduced to what   *)
(* the window asks of it: the text of a side and the content it was read   *)
(* from or saved as; FileEditing has the rest.                             *)
(***************************************************************************)
EXTENDS Naturals

CONSTANTS
  File,       \* the files that exist or may be created
  Content,    \* contents of files; text shown for them
  Blank,      \* the text of a side whose file does not exist
  Missing,    \* what is on disk where no file is
  NoFile,     \* an empty path
  Nobody,     \* no side
  MaxWrites   \* bound on the writes of other processes

ASSUME FileWatchAssumption ==
  /\ Blank \in Content /\ Missing \notin Content /\ NoFile \notin File
  /\ Nobody \notin {"left", "right"}
  /\ MaxWrites \in Nat

Side == {"left", "right"}
Other(s) == IF s = "left" THEN "right" ELSE "left"

VARIABLES
  prompt,         \* the environment, fixed: are notices delivered before anything
                  \* else, and is nothing written while the window is busy?
  disk, writes,   \* the files, and the writes of other processes so far
  writer,         \* history: who wrote a file's content, "outside" or "window"
  shown,          \* is the file view the current one?
  target,         \* saveTarget of each side
  base, text,     \* what each side was read from or saved as, and its text
  watched,        \* files whose own watch is alive; their directories always are
  notices,        \* changed files the watcher has not reported yet
  timer,          \* m_fileWatchTimer is running
  rearm,          \* a deferred configureFileWatching is queued
  watchedPaths,   \* m_watchedPaths
  observed,       \* m_observedFiles
  work,           \* checkFileChanges or refreshFiles: how far it is
  saving,         \* saveSide: how far it is
  kept,           \* history: the change on disk the user has chosen to ignore
  passed,         \* history: the change on disk a swap has taken for observed
  failed          \* history: the change on disk observed last, if its reload failed

watching == <<watched, notices, watchedPaths, observed>>
outside == <<prompt, disk, writes, writer>>
sides == <<shown, target, base, text, kept, passed, failed>>
vars == <<outside, sides, watching, timer, rearm, work, saving>>

OnDisk(path) == IF path = NoFile THEN Missing ELSE disk[path]
TextOf(content) == IF content = Missing THEN Blank ELSE content
Modified(s) == text[s] # TextOf(base[s])

NotWorking == [job |-> "none", side |-> "left", step |-> "look", seen |-> Missing]
NotSaving == [side |-> Nobody, step |-> "ask"]

Checking == work.job # "none"
Asking == Checking /\ work.step = "asking"
\* The event loop runs when nothing is done, and inside a question.
EventLoop == (~Checking \/ Asking) /\ saving.step = "ask"
\* Nothing is asked: the user can reach the window.
FreeWhileAsked == (~Checking \/ Asking) /\ saving = NotSaving
Free == ~Checking /\ saving = NotSaving
CaughtUp == prompt => notices = {} /\ ~rearm

-----------------------------------------------------------------------------
(* configureFileWatching.  Watches that are renewed forget their notices.  *)

StampOf(path) == IF path = NoFile THEN NoFile ELSE disk[path]

\* known: what is taken for observed on a side whose path has not changed.
Configure(known, path) ==
  /\ observed' = [s \in Side |->
       IF path[s] = watchedPaths[s] THEN known[s] ELSE StampOf(path[s])]
  /\ watchedPaths' = path
  /\ watched' = {f \in File : disk[f] # Missing /\ \E s \in Side : path[s] = f}
  /\ notices' = {}
Reconfigure == Configure(observed, target)
ConfigureAnew(path) == Configure([s \in Side |-> StampOf(path[s])], path)

\* The zero timer that pathsChanged starts.
Rearm ==
  /\ rearm /\ EventLoop /\ rearm' = FALSE
  /\ Reconfigure
  /\ UNCHANGED <<outside, sides, timer, work, saving>>

\* fileChanged or directoryChanged restarts the timer.
Notice ==
  /\ EventLoop /\ notices # {}
  /\ notices' = {} /\ timer' = TRUE
  /\ UNCHANGED <<outside, sides, watched, watchedPaths, observed, rearm, work, saving>>
-----------------------------------------------------------------------------
(* checkFileChanges and refreshFiles: one side after the other.            *)

\* A hidden view is not checked; a check under way restarts the timer.
Checkable == shown /\ ~Checking
NeverRestarted == FALSE
Restarted == shown /\ Checking

TimerFires ==
  /\ timer /\ EventLoop /\ CaughtUp
  /\ timer' = Restarted
  /\ IF Checkable
       THEN Reconfigure /\ work' = [NotWorking EXCEPT !.job = "check"]
       ELSE UNCHANGED <<watching, work>>
  /\ UNCHANGED <<outside, sides, rearm, saving>>

RefreshFiles ==
  /\ Free /\ CaughtUp /\ shown
  /\ work' = [NotWorking EXCEPT !.job = "refresh"]
  /\ UNCHANGED <<outside, sides, watching, timer, rearm, saving>>

NextSide(w) ==
  IF w.side = "left" THEN [w EXCEPT !.side = "right", !.step = "look", !.seen = Missing]
                     ELSE [w EXCEPT !.step = "renew", !.seen = Missing]

\* Is there anything to reload, judging by the stamp found now?
Skipped(s, found) ==
  \/ target[s] = NoFile
  \/ work.job = "check" /\ found = observed[s]
  \/ work.job = "refresh" /\ found = Missing /\ observed[s] = Missing

ObservedNow(s, found) ==
  IF work.job = "check" THEN [observed EXCEPT ![s] = found] ELSE observed

Look ==
  LET s == work.side
      found == OnDisk(target[s])
  IN /\ Checking /\ work.step = "look"
     /\ IF Skipped(s, found) THEN work' = NextSide(work) /\ UNCHANGED <<observed, failed>>
        ELSE /\ observed' = ObservedNow(s, found)
             /\ failed' = [failed EXCEPT ![s] = IF work.job = "check" THEN Missing ELSE @]
             /\ work' = [work EXCEPT !.seen = found,
                           !.step = IF Modified(s) THEN "asking" ELSE "reading"]
     /\ UNCHANGED <<outside, shown, target, base, text, kept, passed, watched, notices,
                    watchedPaths, timer, rearm, saving>>

\* "Reload this side and discard its unsaved edits?"
Answer(discard) ==
  /\ Asking /\ CaughtUp
  /\ work' = IF discard THEN [work EXCEPT !.step = "reading"] ELSE NextSide(work)
  /\ kept' = IF ~discard /\ work.job = "check"
             THEN [kept EXCEPT ![work.side] = work.seen] ELSE kept
  /\ UNCHANGED <<outside, shown, target, base, text, passed, failed, watching, timer, rearm, saving>>

\* A check leaves the stamp that it took before a reload that fails.
Fail(s) ==
  /\ failed' = IF work.job = "check" THEN [failed EXCEPT ![s] = observed[s]] ELSE failed
  /\ work' = NextSide(work)

\* reloadSide reads the file, ...
Read ==
  LET found == OnDisk(target[work.side])
  IN /\ Checking /\ work.step = "reading"
     /\ IF found = Missing THEN Fail(work.side)
        ELSE work' = [work EXCEPT !.seen = found, !.step = "installing"] /\ UNCHANGED failed
     /\ UNCHANGED <<outside, shown, target, base, text, kept, passed, watching, timer, rearm, saving>>

\* ... gives up if it has changed meanwhile, and shows it otherwise.
Install ==
  LET s == work.side
  IN /\ Checking /\ work.step = "installing"
     /\ IF OnDisk(target[s]) # work.seen
          THEN Fail(s) /\ UNCHANGED <<base, text, kept, passed>>
          ELSE /\ base' = [base EXCEPT ![s] = work.seen]
               /\ text' = [text EXCEPT ![s] = work.seen]
               /\ kept' = [kept EXCEPT ![s] = Missing]
               /\ passed' = [passed EXCEPT ![s] = Missing]
               /\ failed' = [failed EXCEPT ![s] = Missing]
               /\ work' = [work EXCEPT !.step = "stamping"]
     /\ UNCHANGED <<outside, shown, target, watching, timer, rearm, saving>>

\* The stamp is taken again after the reload.
Stamp ==
  /\ Checking /\ work.step = "stamping"
  /\ observed' = [observed EXCEPT ![work.side] = OnDisk(target[work.side])]
  /\ work' = NextSide(work)
  /\ UNCHANGED <<outside, sides, watched, notices, watchedPaths, timer, rearm, saving>>

\* The last configureFileWatching of the check.
Renew ==
  /\ Checking /\ work.step = "renew" /\ work' = NotWorking
  /\ Reconfigure
  /\ UNCHANGED <<outside, sides, timer, rearm, saving>>
-----------------------------------------------------------------------------
(* saveSide.                                                               *)

\* The temporary file replaces the target: its own watch is gone with it.
Commit(s) ==
  LET f == target[s]
  IN /\ disk' = [disk EXCEPT ![f] = text[s]] /\ writer' = [writer EXCEPT ![f] = "window"]
     /\ base' = [base EXCEPT ![s] = text[s]] /\ kept' = [kept EXCEPT ![s] = Missing]
     /\ passed' = [passed EXCEPT ![s] = Missing] /\ failed' = [failed EXCEPT ![s] = Missing]
     /\ watched' = watched \ {f} /\ notices' = notices \union {f}
     /\ saving' = [side |-> s, step |-> "stamp"]

Save(s) ==
  /\ Free /\ CaughtUp /\ shown /\ target[s] # NoFile
  /\ IF disk[target[s]] = base[s] THEN Commit(s)
     ELSE /\ saving' = [side |-> s, step |-> "ask"]
          /\ UNCHANGED <<disk, writer, base, kept, passed, failed, watched, notices>>
  /\ UNCHANGED <<prompt, writes, shown, target, text, watchedPaths, observed, timer, rearm, work>>

\* "Overwrite the externally changed file?"
Overwrite(yes) ==
  /\ saving # NotSaving /\ saving.step = "ask" /\ ~Checking /\ CaughtUp
  /\ IF yes THEN Commit(saving.side)
     ELSE saving' = NotSaving /\ UNCHANGED <<disk, writer, base, kept, passed, failed, watched, notices>>
  /\ UNCHANGED <<prompt, writes, shown, target, text, watchedPaths, observed, timer, rearm, work>>

\* The window's own write is observed, so that it is not taken for a change.
SavedUnobserved ==
  /\ saving.step = "stamp" /\ saving' = NotSaving
  /\ Reconfigure
  /\ UNCHANGED <<outside, sides, timer, rearm, work>>
Saved ==
  /\ saving.step = "stamp" /\ saving' = NotSaving
  /\ Configure([observed EXCEPT ![saving.side] = disk[target[saving.side]]], target)
  /\ UNCHANGED <<outside, sides, timer, rearm, work>>

-----------------------------------------------------------------------------
(* The rest of the window.                                                 *)

Edit(s) ==
  /\ Free /\ shown /\ target[s] # NoFile
  /\ \E t \in Content \ {text[s]} : text' = [text EXCEPT ![s] = t]
  /\ UNCHANGED <<outside, shown, target, base, kept, passed, failed, watching, timer, rearm, work, saving>>

\* loadFiles, after confirmModified.  A side whose file is missing (it comes from
\* the directory view) is loaded without a path and gets its target afterwards.
LoadFiles ==
  /\ Free /\ CaughtUp
  /\ \E path \in [Side -> File] :
       LET given == [s \in Side |-> IF disk[path[s]] = Missing THEN NoFile ELSE path[s]]
       IN /\ path["left"] # path["right"] /\ \E s \in Side : given[s] # NoFile
          /\ target' = path /\ base' = [s \in Side |-> disk[path[s]]]
          /\ text' = [s \in Side |-> TextOf(disk[path[s]])]
          /\ ConfigureAnew(given)
  /\ shown' = TRUE /\ rearm' = TRUE /\ kept' = [s \in Side |-> Missing]
  /\ passed' = [s \in Side |-> Missing] /\ failed' = [s \in Side |-> Missing]
  /\ UNCHANGED <<outside, timer, work, saving>>

\* Back to the directory view, after confirmModified.
Back ==
  /\ Free /\ shown /\ shown' = FALSE
  /\ text' = [s \in Side |-> TextOf(base[s])]
  /\ UNCHANGED <<outside, target, base, kept, passed, failed, watching, timer, rearm, work, saving>>

Swapped(f) == [s \in Side |-> f[Other(s)]]
SwapSides ==
  /\ Free /\ CaughtUp /\ shown
  /\ target' = Swapped(target) /\ base' = Swapped(base) /\ text' = Swapped(text)
  /\ kept' = Swapped(kept)
  /\ passed' = [s \in Side |-> OnDisk(target[Other(s)])]
  /\ failed' = [s \in Side |-> Missing]
  /\ ConfigureAnew(Swapped(target)) /\ rearm' = TRUE
  /\ UNCHANGED <<outside, shown, timer, work, saving>>

-----------------------------------------------------------------------------
(* Other processes.                                                        *)

Written(f, content) ==
  /\ writes < MaxWrites /\ writes' = writes + 1
  /\ prompt => EventLoop /\ ~rearm
  /\ disk' = [disk EXCEPT ![f] = content] /\ writer' = [writer EXCEPT ![f] = "outside"]
  /\ UNCHANGED <<prompt, sides, watchedPaths, observed, timer, rearm, work, saving>>

\* Only the file's own watch sees that it is written in place, ...
WriteInPlace ==
  \E f \in File : \E content \in Content \ {disk[f]} :
    /\ disk[f] # Missing /\ Written(f, content)
    /\ notices' = notices \union ({f} \cap watched)
    /\ UNCHANGED watched

\* ... and only the directory's that it is created or replaced, or deleted.
Replace ==
  \E f \in File : \E content \in (Content \union {Missing}) \ {disk[f]} :
    /\ Written(f, content)
    /\ notices' = notices \union ({f} \cap {watchedPaths[s] : s \in Side})
    /\ watched' = watched \ {f}

-----------------------------------------------------------------------------
\* The window shows directories, and no file has been opened.
Init ==
  /\ prompt \in BOOLEAN
  /\ disk \in [File -> Content \union {Missing}]
  /\ writes = 0 /\ writer = [f \in File |-> "outside"]
  /\ shown = FALSE /\ target = [s \in Side |-> NoFile]
  /\ base = [s \in Side |-> Missing] /\ text = [s \in Side |-> Blank]
  /\ kept = [s \in Side |-> Missing] /\ passed = [s \in Side |-> Missing]
  /\ failed = [s \in Side |-> Missing]
  /\ watched = {} /\ notices = {} /\ timer = FALSE /\ rearm = FALSE
  /\ watchedPaths = [s \in Side |-> NoFile] /\ observed = [s \in Side |-> NoFile]
  /\ work = NotWorking /\ saving = NotSaving

Next ==
  \/ Rearm
  \/ Notice
  \/ TimerFires
  \/ RefreshFiles
  \/ Look
  \/ \E yes \in BOOLEAN : Answer(yes) \/ Overwrite(yes)
  \/ Read
  \/ Install
  \/ Stamp
  \/ Renew
  \/ \E s \in Side : Save(s) \/ Edit(s)
  \/ Saved
  \/ LoadFiles
  \/ Back
  \/ SwapSides
  \/ WriteInPlace
  \/ Replace

Spec == Init /\ [][Next]_vars
-----------------------------------------------------------------------------
Job == {"none", "check", "refresh"}
Step == {"look", "asking", "reading", "installing", "stamping", "renew"}

\* The members of MainWindow and what it knows of the view hold values of their types.
TypeOK ==
  /\ prompt \in BOOLEAN
  /\ disk \in [File -> Content \union {Missing}] /\ writes \in 0..MaxWrites
  /\ writer \in [File -> {"outside", "window"}]
  /\ shown \in BOOLEAN /\ timer \in BOOLEAN /\ rearm \in BOOLEAN
  /\ target \in [Side -> File \union {NoFile}]
  /\ base \in [Side -> Content \union {Missing}] /\ text \in [Side -> Content]
  /\ kept \in [Side -> Content \union {Missing}]
  /\ passed \in [Side -> Content \union {Missing}]
  /\ failed \in [Side -> Content \union {Missing, NoFile}]
  /\ watched \subseteq File /\ notices \subseteq File
  /\ watchedPaths \in [Side -> File \union {NoFile}]
  /\ observed \in [Side -> Content \union {Missing, NoFile}]
  /\ work \in [job : Job, side : Side, step : Step, seen : Content \union {Missing}]
  /\ saving \in [side : Side \union {Nobody}, step : {"ask", "stamp"}]
  /\ (Checking \/ saving # NotSaving => shown) /\ (~Checking => work = NotWorking)

\* Nothing is being done and nothing is scheduled.
Settled == shown /\ Free /\ notices = {} /\ ~timer /\ ~rearm

\* A prompt machine keeps the window in step with the disk: once it has settled, each
\* side was read from or saved as what its file now holds, unless the file is gone, or
\* the user has been told of exactly this content and keeps the edits, a swap has
\* stamped it without reading it, or the last change that a check observed is this
\* content, and it could not be read at that moment.
ShowsTheDisk ==
  Settled /\ prompt => \A s \in Side : target[s] # NoFile =>
    disk[target[s]] \in {base[s], kept[s], passed[s], failed[s], Missing}

\* "While the file view is open, external changes automatically reload an unmodified
\* side" (README.md:234-235): the same with no exception but the user's answer.
FollowsTheDisk ==
  Settled /\ prompt => \A s \in Side : target[s] # NoFile =>
    disk[target[s]] \in {base[s], kept[s], Missing}

\* The window does not take its own write for somebody else's: a check never asks
\* about, or rereads, what the window itself has saved.
OwnSavesAreKnown ==
  work.job = "check" /\ work.step \in {"asking", "reading"} =>
    writer[target[work.side]] = "outside"

\* A question about discarding edits stays true while it is open: the side still
\* has the edits, and the file still is the target, whatever the nested loop ran.
QuestionsStayTrue ==
  Asking => /\ Modified(work.side) /\ target[work.side] # NoFile /\ shown
            /\ work.job = "check" => observed[work.side] = work.seen

\* The state has its types, and the window knows its own saves.
WatchIsSound == TypeOK /\ OwnSavesAreKnown
=============================================================================
