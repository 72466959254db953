----------------------------- MODULE SyntaxCache -----------------------------
(***************************************************************************)
(* Syntax definitions (SyntaxLoader): a cache shared by all editors, loads *)
(* in worker threads that several editors may wait for, and the clearing   *)
(* of the cache while loads are running.  Everything but the parsing runs  *)
(* on the GUI thread.                                                      *)
(*                                                                         *)
(* The key of a definition is its name and the theme.  What a definition   *)
(* includes is not part of the key, so the same key stands for another     *)
(* content after the Kate data has changed: data counts these changes.     *)
(***************************************************************************)
EXTENDS Naturals, Sequences

CONSTANTS
  Editor,
  FileName,    \* names of documents
  Candidates,  \* per file name, the definitions that match, best first
  Unusable,    \* definitions that cannot be parsed
  None, Unknown,  \* no definition, and not in the cache
  MaxClears,   \* bound on changes of the data
  MaxRequests  \* bound on the generations of an editor

Definition == UNION {{Candidates[n][i] : i \in DOMAIN Candidates[n]} : n \in FileName}
Key == Definition \X BOOLEAN

VARIABLES
  data,      \* the version of the Kate data on disk
  cache,     \* syntaxCache(): what is known of each key, or Unknown
  epoch,     \* cacheEpoch()
  waiting,   \* waitingLoads(): the editors and their generations, by key
  loads,     \* the load of each key that is running or done, or None
  editors    \* DiffEditor: file name, theme, generation, pending and shown syntax

vars == <<data, cache, epoch, waiting, loads, editors>>

\* A parsed definition, with the data it was read from; None if it is unusable.
Parsed(key) ==
  IF key[1] \in Unusable THEN None ELSE [key |-> key, data |-> data]
Known(key) == cache[key] # Unknown

KeysOf(name, dark) == [i \in DOMAIN Candidates[name] |-> <<Candidates[name][i], dark>>]

\* From the first candidate that is not cached as unusable.
Remaining(keys) ==
  IF \A i \in DOMAIN keys : cache[keys[i]] = None THEN <<>>
  ELSE LET first == CHOOSE i \in DOMAIN keys :
             /\ cache[keys[i]] # None
             /\ \A j \in 1..i - 1 : cache[keys[j]] = None
       IN SubSeq(keys, first, Len(keys))

\* The first usable one of the candidates, known ones taken from what the load was given.
DefinitionOf(key, known) == IF known[key] # Unknown THEN known[key] ELSE Parsed(key)
Tried(keys, known) ==
  LET usable == {i \in DOMAIN keys : DefinitionOf(keys[i], known) # None}
      last == IF usable = {} THEN Len(keys) ELSE CHOOSE i \in usable : \A j \in usable : i <= j
  IN [i \in 1..last |-> [key |-> keys[i], content |-> DefinitionOf(keys[i], known),
                         known |-> known[keys[i]] # Unknown]]

Insert(tried) ==
  [k \in Key |->
     LET new == {i \in DOMAIN tried : tried[i].key = k /\ ~tried[i].known}
     IN IF new = {} THEN cache[k] ELSE tried[CHOOSE i \in new : TRUE].content]

Found(tried) == IF tried = <<>> THEN None ELSE tried[Len(tried)].content

-----------------------------------------------------------------------------
\* Another request of the editor, which answers to earlier ones do not concern.
Asked(e, name, dark) ==
  [editors[e] EXCEPT !.name = name, !.dark = dark, !.generation = @ + 1]
Answered(editor, syntax) == [editor EXCEPT !.pending = FALSE, !.syntax = syntax]

\* loadSyntax: on the GUI thread, through the cache.
LoadNow(e, name, dark) ==
  LET tried == Tried(KeysOf(name, dark), cache)
  IN /\ editors' = [editors EXCEPT ![e] = Answered(Asked(e, name, dark), Found(tried))]
     /\ cache' = Insert(tried)

Bounded(e) == editors[e].generation < MaxRequests

\* loadSyntaxAsync, called by setSyntaxFileName.
SetSyntaxFileName(e, name) ==
  LET dark == editors[e].dark
      keys == Remaining(KeysOf(name, dark))
      asked == Asked(e, name, dark)
  IN /\ editors[e].alive /\ editors[e].name # name /\ Bounded(e)
     /\ IF keys = <<>> \/ (keys # <<>> /\ Known(keys[1]))
          THEN /\ editors' = [editors EXCEPT ![e] =
                    Answered(asked, IF keys = <<>> THEN None ELSE cache[keys[1]])]
               /\ UNCHANGED <<waiting, loads>>
          ELSE /\ editors' = [editors EXCEPT ![e] =
                    [asked EXCEPT !.pending = TRUE, !.syntax = None]]
               /\ waiting' = [waiting EXCEPT ![keys[1]] =
                    @ \union {[editor |-> e, generation |-> asked.generation]}]
               /\ loads' = IF waiting[keys[1]] # {} THEN loads
                           ELSE [loads EXCEPT ![keys[1]] =
                                  [keys |-> keys, known |-> cache, epoch |-> epoch, tried |-> <<>>]]
     /\ UNCHANGED <<data, cache, epoch>>

\* The worker parses the candidates.
Parse(k) ==
  /\ loads[k] # None /\ loads[k].tried = <<>>
  /\ loads' = [loads EXCEPT ![k].tried = Tried(loads[k].keys, loads[k].known)]
  /\ UNCHANGED <<data, cache, epoch, waiting, editors>>

\* then(): insert what was read in this epoch, and answer everybody who waits.
Current(k) == loads[k].epoch = epoch

AwaitsAnyway(e, w) == w.editor = e /\ editors[e].alive
Awaits(e, w) == w.editor = e /\ editors[e].alive /\ w.generation = editors[e].generation

\* All waiters get the same answer; those asking for something else by now drop it.
AnswerAll(k) ==
  [e \in Editor |->
     IF \E w \in waiting[k] : Awaits(e, w)
       THEN Answered(editors[e], Found(loads[k].tried))
       ELSE editors[e]]

Deliver(k) ==
  /\ loads[k] # None /\ loads[k].tried # <<>>
  /\ cache' = IF Current(k) THEN Insert(loads[k].tried) ELSE cache
  /\ editors' = AnswerAll(k)
  /\ waiting' = [waiting EXCEPT ![k] = {}] /\ loads' = [loads EXCEPT ![k] = None]
  /\ UNCHANGED <<data, epoch>>

-----------------------------------------------------------------------------
\* Another theme: the editor loads its definition at once.
SetColorScheme(e) ==
  /\ editors[e].alive /\ editors[e].name # None /\ Bounded(e)
  /\ LoadNow(e, editors[e].name, ~editors[e].dark)
  /\ UNCHANGED <<data, epoch, waiting, loads>>

\* The Kate data is updated on disk; the host is told to reload it.
UpdateData ==
  /\ data < MaxClears /\ data' = data + 1
  /\ UNCHANGED <<cache, epoch, waiting, loads, editors>>

\* reloadSyntaxDefinitions of a view with the editor e: clear, and load anew.
ReloadSyntaxDefinitions(e) ==
  /\ epoch < data /\ editors[e].alive /\ editors[e].name # None /\ Bounded(e)
  /\ epoch' = epoch + 1
  /\ LET unknown == [k \in Key |-> Unknown]
         tried == Tried(KeysOf(editors[e].name, editors[e].dark), unknown)
     IN /\ cache' = [k \in Key |->
             IF \E i \in DOMAIN tried : tried[i].key = k
               THEN tried[CHOOSE i \in DOMAIN tried : tried[i].key = k].content ELSE Unknown]
        /\ editors' = [editors EXCEPT ![e] =
             Answered(Asked(e, editors[e].name, editors[e].dark), Found(tried))]
  /\ UNCHANGED <<data, waiting, loads>>

Destroy(e) ==
  /\ editors[e].alive /\ editors' = [editors EXCEPT ![e].alive = FALSE]
  /\ UNCHANGED <<data, cache, epoch, waiting, loads>>

Init ==
  /\ data = 0 /\ epoch = 0
  /\ cache = [k \in Key |-> Unknown]
  /\ waiting = [k \in Key |-> {}] /\ loads = [k \in Key |-> None]
  /\ editors = [e \in Editor |-> [name |-> None, dark |-> FALSE, generation |-> 0,
                                  pending |-> FALSE, syntax |-> None, alive |-> TRUE]]

Next ==
  \/ \E e \in Editor, n \in FileName : SetSyntaxFileName(e, n)
  \/ \E k \in Key : Parse(k)
  \/ \E k \in Key : Deliver(k)
  \/ \E e \in Editor : SetColorScheme(e)
  \/ \E e \in Editor : ReloadSyntaxDefinitions(e)
  \/ \E e \in Editor : Destroy(e)
  \/ UpdateData

Spec == Init /\ [][Next]_vars
Fairness == \A k \in Key : WF_vars(Parse(k) \/ Deliver(k))
FairSpec == Spec /\ Fairness
-----------------------------------------------------------------------------
\* A definition in the cache was read after the last clear, even if a load that was
\* running then has delivered since: unless data changed again, it is what is on disk.
CacheSurvivesNoClear ==
  \A k \in Key : cache[k] \notin {Unknown, None} => cache[k].data >= epoch

\* An editor that waits for nothing shows the best usable definition for its file name
\* in its theme, whatever late answers for other names and themes it was sent.
SettledEditorShowsItsFile ==
  \A e \in Editor :
    LET editor == editors[e]
        keys == KeysOf(editor.name, editor.dark)
        usable == {i \in DOMAIN keys : keys[i][1] \notin Unusable}
    IN editor.alive /\ editor.name # None /\ ~editor.pending =>
         IF usable = {} THEN editor.syntax = None
         ELSE \E i \in usable : /\ \A j \in usable : i <= j
                                /\ editor.syntax # None /\ editor.syntax.key = keys[i]

\* Whoever waits is answered, or destroyed.
EveryEditorSettles == \A e \in Editor : editors[e].pending ~> ~editors[e].pending \/ ~editors[e].alive
=============================================================================
