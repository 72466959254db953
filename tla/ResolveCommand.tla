---------------------------- MODULE ResolveCommand ----------------------------
(***************************************************************************)
(* diffmerge-resolve: it resolves one conflict file and publishes the      *)
(* content, a review draft and a report, one after the other.  Any write   *)
(* may fail, and an interrupt may arrive at any moment.                    *)
(*                                                                         *)
(* Of a file the model keeps what was last written to it, and of a report  *)
(* what it says; FileOf tells which paths are the same file.  Paths are    *)
(* absolute, and two of them name one file where a directory is a link.    *)
(***************************************************************************)
EXTENDS Naturals, Sequences

CONSTANTS
  InputPath,
  Path,        \* paths of the command line, the input's among them
  Stdout,      \* "-", the default output
  NoPath,      \* an option that is not given
  FileOf,      \* the file each path names, whether it is there or not
  Existing,    \* the files there at the start
  Irregular    \* paths of symbolic links and of what is no regular file

Files == {FileOf[p] : p \in Path}
NothingSaid == [content |-> FALSE, draft |-> FALSE]
Wrote(kind, says) == [kind |-> kind, says |-> says]

VARIABLES
  options,      \* the command line
  files,        \* what this run has written: what it wrote last to each file
  printed,      \* has the content gone to standard output?
  at,           \* the next thing main does
  status, clean, \* of the plan with its result and its draft, when they are known
  report,       \* the report's flags so far
  interrupted,  \* SIGINT has arrived
  code          \* main's return value, once it has returned

vars == <<options, files, printed, at, status, clean, report, interrupted, code>>

\* Two names of a file that is not there yet are not recognized.
Aliases(a, b) ==
  /\ a \in Path /\ b \in Path
  /\ a = b \/ (FileOf[a] = FileOf[b] /\ FileOf[a] \in Existing)

\* The destinations, in the order of the code.
Destinations ==
  (IF options.check \/ options.output = Stdout THEN <<>> ELSE <<options.output>>) \o
  (IF options.report = NoPath THEN <<>> ELSE <<options.report>>) \o
  (IF options.draft = NoPath THEN <<>> ELSE <<options.draft>>)

Consistent ==
  /\ options.check => options.output = Stdout /\ ~options.overwrite /\ options.draft = NoPath
  /\ options.draft # NoPath => options.report # NoPath /\ ~options.strict

Acceptable(i) ==
  /\ Destinations[i] # Stdout /\ Destinations[i] \notin Irregular
  /\ ~Aliases(InputPath, Destinations[i])
  /\ FileOf[Destinations[i]] \in Existing => options.overwrite
  /\ \A j \in 1..i - 1 : ~Aliases(Destinations[i], Destinations[j])

InputIsRegular == FileOf[InputPath] \in Existing /\ InputPath \notin Irregular

Exit(n) == code' = n /\ at' = "left"

StatusCode == CASE status = "Cancelled" -> 130 [] status = "ResourceLimit" -> 3 [] OTHER -> 2

CheckArguments ==
  /\ at = "arguments"
  /\ IF Consistent /\ InputIsRegular /\ \A i \in DOMAIN Destinations : Acceptable(i)
       THEN at' = "read" /\ UNCHANGED code
       ELSE Exit(2)
  /\ UNCHANGED <<options, files, printed, status, clean, report, interrupted>>

\* Reading fails, or finds more than the budget allows.
ReadInput ==
  /\ at = "read"
  /\ Exit(2) \/ Exit(3) \/ (at' = "plan" /\ UNCHANGED code)
  /\ UNCHANGED <<options, files, printed, status, clean, report, interrupted>>

\* Planning, materializing and drafting; an interrupt is noticed or not.
Plan ==
  /\ at = "plan"
  /\ status' \in {"Complete", "ResourceLimit", "Invalid"} \union
                 (IF interrupted THEN {"Cancelled"} ELSE {})
  /\ clean' \in BOOLEAN /\ (clean' => status' = "Complete")
  /\ report' = NothingSaid
  /\ at' = IF status' = "Complete" THEN "gate" ELSE "failure"
  /\ UNCHANGED <<options, files, printed, interrupted, code>>

\* The failed analysis is reported, too.
ReportFailure ==
  /\ at = "failure"
  /\ \/ /\ options.report # NoPath
        /\ files' = [files EXCEPT ![FileOf[options.report]] = Wrote("report", report)] /\ Exit(StatusCode)
     \/ options.report # NoPath /\ UNCHANGED files /\ Exit(2)
     \/ options.report = NoPath /\ UNCHANGED files /\ Exit(StatusCode)
  /\ UNCHANGED <<options, printed, status, clean, report, interrupted>>

Gate ==
  /\ at = "gate"
  /\ IF interrupted THEN Exit(130) ELSE at' = "output" /\ UNCHANGED code
  /\ UNCHANGED <<options, files, printed, status, clean, report, interrupted>>

Publishes == ~options.check /\ (~options.strict \/ clean)

PublishContent ==
  /\ at = "output"
  /\ \/ ~Publishes /\ at' = "draft" /\ UNCHANGED <<files, printed, report, code>>
     \/ Publishes /\ Exit(2) /\ UNCHANGED <<files, printed, report>>
     \/ /\ Publishes /\ at' = "draft"
        /\ IF options.output = Stdout
             THEN printed' = TRUE /\ UNCHANGED files
             ELSE /\ files' = [files EXCEPT ![FileOf[options.output]] = Wrote("content", NothingSaid)]
                  /\ UNCHANGED printed
        /\ report' = [report EXCEPT !.content = TRUE]
        /\ UNCHANGED code
  /\ UNCHANGED <<options, status, clean, interrupted>>

PublishDraft ==
  /\ at = "draft"
  /\ \/ options.draft = NoPath /\ at' = "report" /\ UNCHANGED <<files, report, code>>
     \/ options.draft # NoPath /\ Exit(2) /\ UNCHANGED <<files, report>>
     \/ /\ options.draft # NoPath /\ at' = "report"
        /\ files' = [files EXCEPT ![FileOf[options.draft]] = Wrote("draft", NothingSaid)]
        /\ report' = [report EXCEPT !.draft = TRUE]
        /\ UNCHANGED code
  /\ UNCHANGED <<options, printed, status, clean, interrupted>>

ReportBlindly ==
  /\ at = "report"
  /\ files' = IF options.report = NoPath THEN files
              ELSE [files EXCEPT ![FileOf[options.report]] = Wrote("report", [report EXCEPT !.content = TRUE])]
  /\ Exit(IF clean THEN 0 ELSE 1)
  /\ UNCHANGED <<options, printed, status, clean, report, interrupted>>
PublishReport ==
  /\ at = "report"
  /\ \/ options.report # NoPath /\ Exit(2) /\ UNCHANGED files
     \/ /\ files' = IF options.report = NoPath THEN files
                    ELSE [files EXCEPT ![FileOf[options.report]] = Wrote("report", report)]
        /\ Exit(IF clean THEN 0 ELSE 1)
  /\ UNCHANGED <<options, printed, status, clean, report, interrupted>>

Interrupt ==
  /\ at \notin {"arguments", "read", "left"} /\ ~interrupted /\ interrupted' = TRUE
  /\ UNCHANGED <<options, files, printed, at, status, clean, report, code>>

CommandLine ==
  [output : Path \union {Stdout}, report : Path \union {NoPath}, draft : Path \union {NoPath},
   check : BOOLEAN, strict : BOOLEAN, overwrite : BOOLEAN]

Init ==
  /\ options \in CommandLine
  /\ files = [f \in Files |-> Wrote("nothing", NothingSaid)] /\ printed = FALSE
  /\ at = "arguments" /\ status = "none" /\ clean = FALSE
  /\ report = NothingSaid
  /\ interrupted = FALSE /\ code = 0

Next ==
  \/ CheckArguments \/ ReadInput \/ Plan \/ ReportFailure \/ Gate
  \/ PublishContent \/ PublishDraft \/ PublishReport \/ Interrupt

Spec == Init /\ [][Next]_vars
-----------------------------------------------------------------------------
Holds(path, kind) == path \in Path /\ files[FileOf[path]].kind = kind
ContentOut == printed \/ Holds(options.output, "content")
DraftOut == Holds(options.draft, "draft")

\* No two outputs are different names of one file that is not there yet.
NewFilesAreApart ==
  \A p, q \in {options.output, options.report, options.draft} \ {Stdout, NoPath} :
    p # q /\ FileOf[p] = FileOf[q] => FileOf[p] \in Existing

\* The input is never written, whatever names the outputs are given, and no existing
\* file without --overwrite.
InputIsPreserved ==
  \A f \in Files :
    files[f].kind # "nothing" => f # FileOf[InputPath] /\ (f \in Existing => options.overwrite)

\* A report that was written says truly what is published, and an exit code that
\* claims completion has all that was asked for, although everything is published one
\* after the other and may fail; of outputs that are two names of one new file only
\* the last is sure to be there.  Nothing unclean goes out with --require-clean,
\* nothing at all with --check or after an interrupt that was obeyed.
ReportAndCodeAreTrue ==
  /\ NewFilesAreApart =>
       /\ Holds(options.report, "report") =>
            files[FileOf[options.report]].says = [content |-> ContentOut, draft |-> DraftOut]
       /\ at = "left" /\ code \in {0, 1} =>
            /\ ContentOut = (~options.check /\ ~(options.strict /\ code = 1))
            /\ DraftOut = (options.draft # NoPath)
  /\ at = "left" /\ code \in {0, 1} =>
       /\ clean = (code = 0)
       /\ Holds(options.report, "report") = (options.report # NoPath)
  /\ ContentOut => ~options.check /\ (options.strict => clean)
  /\ code \in {3, 130} => ~ContentOut /\ ~DraftOut
=============================================================================
