--------------------------- MODULE Libraries_proofs ---------------------------
(***************************************************************************)
(* The search stays inside, what it returns is a script of its inputs,     *)
(* sliding a block keeps the edit, and the command says truly what it      *)
(* published.                                                              *)
(***************************************************************************)
EXTENDS Libraries, FiniteSetTheorems, SequenceTheorems, WellFoundedInduction, TLAPS

-----------------------------------------------------------------------------
(* The command: what its options must be like before anything is written,  *)
(* and what is written then, at every point of the way.                    *)

NewApart == Commanding!NewFilesAreApart
MayWrite(path) ==
  /\ path \in Path /\ FileOf[path] # FileOf[InputPath]
  /\ FileOf[path] \in Existing => arguments.overwrite
AreApart(one, other) == NewApart => FileOf[one] # FileOf[other]
Accepted ==
  /\ arguments.check => arguments.output = Stdout /\ arguments.draft = NoPath
  /\ arguments.draft # NoPath => arguments.report # NoPath /\ ~arguments.strict
  /\ arguments.output # Stdout => MayWrite(arguments.output)
  /\ arguments.report # NoPath => MayWrite(arguments.report)
  /\ arguments.draft # NoPath => MayWrite(arguments.draft)
  /\ arguments.output # Stdout /\ arguments.report # NoPath =>
       AreApart(arguments.output, arguments.report)
  /\ arguments.output # Stdout /\ arguments.draft # NoPath =>
       AreApart(arguments.output, arguments.draft)
  /\ arguments.report # NoPath /\ arguments.draft # NoPath =>
       AreApart(arguments.report, arguments.draft)

Flags == [content : BOOLEAN, draft : BOOLEAN]
Writing == [kind : {"nothing", "content", "draft", "report"}, says : Flags]
CommandTypes ==
  /\ arguments \in Commanding!CommandLine
  /\ files \in [Commanding!Files -> Writing] /\ printed \in BOOLEAN
  /\ at \in {"arguments", "read", "plan", "failure", "gate", "output", "draft", "report", "left"}
  /\ clean \in BOOLEAN /\ written \in Flags /\ interrupted \in BOOLEAN /\ code \in {0, 1, 2, 3, 130}

\* What is written is what the flags say, each where the options want it; if the new
\* files are apart, it is still there.
ToFile(f, published, path, none) == published /\ path # none /\ f = FileOf[path]
FilesFollowFlags ==
  \A f \in Commanding!Files :
    /\ files[f].kind = "content" => ToFile(f, written.content, arguments.output, Stdout)
    /\ files[f].kind = "draft" => ToFile(f, written.draft, arguments.draft, NoPath)
    /\ files[f].kind = "report" =>
         at = "left" /\ ToFile(f, TRUE, arguments.report, NoPath) /\ files[f].says = written
    /\ NewApart =>
         /\ ToFile(f, written.content, arguments.output, Stdout) => files[f].kind = "content"
         /\ ToFile(f, written.draft, arguments.draft, NoPath) => files[f].kind = "draft"
PrintedFollowsFlags == printed <=> written.content /\ arguments.output = Stdout

Nothing == ~written.content /\ ~written.draft
ContentIsDue == ~arguments.check /\ (~arguments.strict \/ clean)
FlagsFollowSteps ==
  /\ at \in {"arguments", "read", "plan", "failure", "gate", "output"} => Nothing
  /\ at = "draft" => ~written.draft
  /\ at \in {"draft", "report"} => (written.content <=> ContentIsDue)
  /\ at = "report" => (written.draft <=> arguments.draft # NoPath)
  /\ written.content => ContentIsDue
  /\ written.draft => arguments.draft # NoPath
CodeFollowsFlags ==
  /\ at # "left" => code = 0
  /\ code \in {3, 130} => Nothing
  /\ at = "left" /\ code \in {0, 1} =>
       /\ clean <=> code = 0
       /\ written.content <=> ContentIsDue
       /\ written.draft <=> arguments.draft # NoPath
       /\ arguments.report # NoPath => files[FileOf[arguments.report]].kind = "report"

CommandInv ==
  /\ CommandTypes
  /\ at \notin {"arguments", "left"} => Accepted
  /\ at = "left" => Accepted \/ \A f \in Commanding!Files : files[f].kind = "nothing"
  /\ at = "left" /\ ~Accepted => Nothing
  /\ FilesFollowFlags /\ PrintedFollowsFlags /\ FlagsFollowSteps /\ CodeFollowsFlags

-----------------------------------------------------------------------------
IsPart(q) == Len(q) = 0 \/ Len(q) = 1
HasParts(s1, s2, s3) ==
  LET D == s1 \o s2 \o s3
  IN /\ Len(s1) = 1 => 1 \in DOMAIN D /\ D[1] = s1[1]
     /\ Len(s2) = 1 => \E j \in DOMAIN D : D[j] = s2[1] /\ (Len(s1) = 1 => 1 \in 1..j - 1)
     /\ Len(s3) = 1 => \E j \in DOMAIN D :
                         /\ D[j] = s3[1] /\ (Len(s1) = 1 => 1 \in 1..j - 1)
                         /\ Len(s2) = 1 => \E i \in 1..j - 1 : D[i] = s2[1]

\* A sequence of up to three destinations has each of them, in their order.
LEMMA ThreeParts ==
  ASSUME NEW S, NEW s1 \in Seq(S), NEW s2 \in Seq(S), NEW s3 \in Seq(S),
         IsPart(s1), IsPart(s2), IsPart(s3)
  PROVE  HasParts(s1, s2, s3)
<1> DEFINE D == s1 \o s2 \o s3
<1>1. /\ Len(s1) \in Nat /\ Len(s2) \in Nat /\ Len(s3) \in Nat
      /\ Len(s1) = 0 \/ Len(s1) = 1
      /\ Len(s2) = 0 \/ Len(s2) = 1
  BY DEF IsPart
<1>2. /\ s1 \o s2 \in Seq(S) /\ Len(s1 \o s2) = Len(s1) + Len(s2)
      /\ \A i \in 1..Len(s1) : (s1 \o s2)[i] = s1[i]
      /\ \A i \in 1..Len(s2) : (s1 \o s2)[Len(s1) + i] = s2[i]
  OBVIOUS
<1>3. /\ D \in Seq(S) /\ Len(D) = Len(s1) + Len(s2) + Len(s3) /\ DOMAIN D = 1..Len(D)
      /\ \A i \in 1..Len(s1 \o s2) : D[i] = (s1 \o s2)[i]
      /\ \A i \in 1..Len(s3) : D[Len(s1 \o s2) + i] = s3[i]
  BY <1>2
<1> HIDE DEF D
<1>4. Len(s1) = 1 => 1 \in DOMAIN D /\ D[1] = s1[1]
  BY <1>1, <1>2, <1>3
<1>5. ASSUME Len(s2) = 1 PROVE Len(s1) + 1 \in DOMAIN D /\ D[Len(s1) + 1] = s2[1]
  BY <1>1, <1>2, <1>3, <1>5
<1>6. ASSUME Len(s3) = 1
      PROVE  /\ Len(D) \in DOMAIN D /\ D[Len(D)] = s3[1]
             /\ Len(D) = Len(s1) + Len(s2) + 1
  BY <1>1, <1>2, <1>3, <1>6
<1>7. ASSUME Len(s2) = 1
      PROVE  \E j \in DOMAIN D : D[j] = s2[1] /\ (Len(s1) = 1 => 1 \in 1..j - 1)
  <2>1. Len(s1) = 1 => 1 \in 1..(Len(s1) + 1) - 1
    BY <1>1
  <2> QED
    BY <1>5, <1>7, <2>1
<1>8. ASSUME Len(s3) = 1
      PROVE  \E j \in DOMAIN D : /\ D[j] = s3[1] /\ (Len(s1) = 1 => 1 \in 1..j - 1)
                                 /\ Len(s2) = 1 => \E i \in 1..j - 1 : D[i] = s2[1]
  <2>1. Len(s1) = 1 => 1 \in 1..Len(D) - 1
    BY <1>1, <1>6, <1>8
  <2>2. Len(s2) = 1 => Len(s1) + 1 \in 1..Len(D) - 1
    BY <1>1, <1>6, <1>8
  <2>3. Len(s2) = 1 => \E i \in 1..Len(D) - 1 : D[i] = s2[1]
    BY <1>5, <2>2
  <2> QED
    BY <1>6, <1>8, <2>1, <2>3
<1> QED
  BY <1>4, <1>7, <1>8 DEF HasParts, D

\* Arguments that pass the checks name other files than the input and, unless they are
\* different names of a new one, than each other.
LEMMA ChecksAccept ==
  ASSUME arguments \in Commanding!CommandLine, Commanding!Consistent, Commanding!InputIsRegular,
         \A i \in DOMAIN Commanding!Destinations : Commanding!Acceptable(i)
  PROVE  Accepted
<1> DEFINE o == arguments.output  r == arguments.report  d == arguments.draft
           D == Commanding!Destinations
           noOutput == arguments.check \/ o = Stdout
           noReport == r = NoPath
           noDraft == d = NoPath
           S == Path \union {Stdout, NoPath}
<1>1. /\ o \in Path \union {Stdout} /\ r \in Path \union {NoPath} /\ d \in Path \union {NoPath}
      /\ arguments.check \in BOOLEAN /\ arguments.strict \in BOOLEAN /\ arguments.overwrite \in BOOLEAN
  BY DEF Commanding!CommandLine
<1>2. /\ arguments.check => o = Stdout /\ ~arguments.overwrite /\ d = NoPath
      /\ d # NoPath => r # NoPath /\ ~arguments.strict
  BY DEF Commanding!Consistent
<1>3. \A i \in DOMAIN D :
        /\ D[i] # Stdout /\ ~Commanding!Aliases(InputPath, D[i])
        /\ FileOf[D[i]] \in Existing => arguments.overwrite
        /\ \A j \in 1..i - 1 : ~Commanding!Aliases(D[i], D[j])
  BY DEF Commanding!Acceptable
<1>4. D = (IF noOutput THEN <<>> ELSE <<o>>) \o (IF noReport THEN <<>> ELSE <<r>>) \o (IF noDraft THEN <<>> ELSE <<d>>)
  BY DEF Commanding!Destinations
<1>5. o \in S /\ r \in S /\ d \in S
  BY <1>1
<1>6. /\ noOutput <=> o = Stdout
      /\ noReport <=> r = NoPath
      /\ noDraft <=> d = NoPath
  BY <1>2 DEF noOutput, noReport, noDraft
<1> DEFINE s1 == IF noOutput THEN <<>> ELSE <<o>>
           s2 == IF noReport THEN <<>> ELSE <<r>>
           s3 == IF noDraft THEN <<>> ELSE <<d>>
<1> HIDE DEF o, r, d, D, noOutput, noReport, noDraft, S
<1>7. /\ o # Stdout => 1 \in DOMAIN D /\ D[1] = o
      /\ r # NoPath => \E j \in DOMAIN D : D[j] = r /\ (o # Stdout => 1 \in 1..j - 1)
      /\ d # NoPath => \E j \in DOMAIN D :
                 /\ D[j] = d /\ (o # Stdout => 1 \in 1..j - 1)
                 /\ r # NoPath => \E i \in 1..j - 1 : D[i] = r
  <2>1. /\ s1 \in Seq(S) /\ IsPart(s1) /\ (Len(s1) = 1 <=> o # Stdout) /\ (o # Stdout => s1[1] = o)
        /\ s2 \in Seq(S) /\ IsPart(s2) /\ (Len(s2) = 1 <=> r # NoPath) /\ (r # NoPath => s2[1] = r)
        /\ s3 \in Seq(S) /\ IsPart(s3) /\ (Len(s3) = 1 <=> d # NoPath) /\ (d # NoPath => s3[1] = d)
    BY <1>5, <1>6 DEF IsPart
  <2>2. D = s1 \o s2 \o s3
    BY <1>4
  <2> HIDE DEF s1, s2, s3
  <2>3. HasParts(s1, s2, s3)
    BY <2>1, ThreeParts
  <2> QED
    BY <2>1, <2>2, <2>3 DEF HasParts
<1>8. /\ o # Stdout => o \in Path /\ FileOf[o] # FileOf[InputPath] /\ (FileOf[o] \in Existing => arguments.overwrite)
      /\ r # NoPath => r \in Path /\ FileOf[r] # FileOf[InputPath] /\ (FileOf[r] \in Existing => arguments.overwrite)
      /\ d # NoPath => d \in Path /\ FileOf[d] # FileOf[InputPath] /\ (FileOf[d] \in Existing => arguments.overwrite)
  BY <1>1, <1>3, <1>7, CommandAssumption DEF Commanding!Aliases, Commanding!InputIsRegular
<1>9. /\ o # Stdout /\ r # NoPath => ~Commanding!Aliases(r, o)
      /\ o # Stdout /\ d # NoPath => ~Commanding!Aliases(d, o)
      /\ r # NoPath /\ d # NoPath => ~Commanding!Aliases(d, r)
  BY <1>3, <1>7
<1>10. ASSUME NEW one \in {o, r, d} \ {Stdout, NoPath}, NEW other \in {o, r, d} \ {Stdout, NoPath},
              ~Commanding!Aliases(other, one)
       PROVE  AreApart(one, other)
  <2>1. one \in Path /\ other \in Path
    BY <1>1
  <2>2. NewApart => (one # other /\ FileOf[one] = FileOf[other] => FileOf[one] \in Existing)
    BY DEF NewApart, Commanding!NewFilesAreApart, o, r, d
  <2> QED
    BY <1>10, <2>1, <2>2 DEF AreApart, Commanding!Aliases
<1>11. /\ o # Stdout => o \in {o, r, d} \ {Stdout, NoPath}
       /\ r # NoPath => r \in {o, r, d} \ {Stdout, NoPath}
       /\ d # NoPath => d \in {o, r, d} \ {Stdout, NoPath}
  BY <1>1, CommandAssumption
<1>12. /\ o # Stdout /\ r # NoPath => AreApart(o, r)
       /\ o # Stdout /\ d # NoPath => AreApart(o, d)
       /\ r # NoPath /\ d # NoPath => AreApart(r, d)
  BY <1>9, <1>10, <1>11
<1> QED
  BY <1>2, <1>8, <1>12 DEF Accepted, MayWrite, o, r, d

LEMMA CommandInit ==
  ASSUME InitAll
  PROVE  CommandInv
<1>1. /\ arguments \in Commanding!CommandLine
      /\ files = [f \in Commanding!Files |-> Commanding!Wrote("nothing", Commanding!NothingSaid)]
      /\ printed = FALSE /\ at = "arguments" /\ result = "none" /\ clean = FALSE
      /\ written = Commanding!NothingSaid /\ interrupted = FALSE /\ code = 0
  BY DEF InitAll, Commanding!Init
<1>2. written \in Flags /\ written.content = FALSE /\ written.draft = FALSE
  BY <1>1 DEF Commanding!NothingSaid, Flags
<1>3. \A f \in Commanding!Files : files[f] \in Writing /\ files[f].kind = "nothing"
  BY <1>1, <1>2 DEF Commanding!Wrote, Writing
<1>4. CommandTypes
  BY <1>1, <1>2, <1>3 DEF CommandTypes
<1> QED
  BY <1>1, <1>2, <1>3, <1>4 DEF CommandInv, FilesFollowFlags, PrintedFollowsFlags,
     FlagsFollowSteps, CodeFollowsFlags, Nothing, ToFile

\* Before the output is due, nothing is written.
LEMMA NothingYet ==
  ASSUME CommandInv, at \in {"arguments", "read", "plan", "failure", "gate", "output"}
  PROVE  Nothing /\ \A f \in Commanding!Files : files[f].kind = "nothing"
<1>1. Nothing
  BY DEF CommandInv, FlagsFollowSteps
<1>2. \A f \in Commanding!Files : files[f].kind \in {"nothing", "content", "draft", "report"}
  BY DEF CommandInv, CommandTypes, Writing
<1> QED
  BY <1>1, <1>2 DEF CommandInv, FilesFollowFlags, ToFile, Nothing

\* Steps that write nothing.
Rests ==
  /\ UNCHANGED <<arguments, files, printed, clean, written>>
  /\ \A f \in Commanding!Files : files[f].kind = "report" => at' = "left"
LEMMA AcceptedRests ==
  ASSUME UNCHANGED arguments
  PROVE  (Accepted' <=> Accepted) /\ (NewApart' <=> NewApart)
BY DEF Accepted, MayWrite, AreApart, NewApart, Commanding!NewFilesAreApart

LEMMA FilesRest ==
  ASSUME CommandInv, Rests
  PROVE  FilesFollowFlags' /\ PrintedFollowsFlags'
<1>1. FilesFollowFlags'
  BY AcceptedRests DEF CommandInv, FilesFollowFlags, ToFile, Rests
<1>2. PrintedFollowsFlags'
  BY DEF CommandInv, PrintedFollowsFlags, Rests
<1> QED
  BY <1>1, <1>2

LEMMA CheckingKeeps ==
  ASSUME CommandInv, Commanding!CheckArguments
  PROVE  CommandInv'
<1>1. at = "arguments" /\ UNCHANGED <<arguments, files, printed, clean, written, interrupted>>
  BY DEF Commanding!CheckArguments
<1>2. Nothing /\ \A f \in Commanding!Files : files[f].kind = "nothing"
  BY <1>1, NothingYet
<1>3. FilesFollowFlags' /\ PrintedFollowsFlags'
  BY <1>1, <1>2, FilesRest DEF Rests
<1>4. CASE at' = "read" /\ code' = code /\ Accepted
  <2>1. Accepted'
    BY <1>1, <1>4, AcceptedRests
  <2> QED
    BY <1>1, <1>2, <1>3, <1>4, <2>1 DEF CommandInv, CommandTypes, FlagsFollowSteps, CodeFollowsFlags, Nothing
<1>5. CASE at' = "left" /\ code' = 2
  BY <1>1, <1>2, <1>3, <1>5 DEF CommandInv, CommandTypes, FlagsFollowSteps, CodeFollowsFlags, Nothing
<1> QED
  <2>1. CASE Commanding!Consistent /\ Commanding!InputIsRegular /\ \A i \in DOMAIN Commanding!Destinations : Commanding!Acceptable(i)
    <3>1. Accepted
      BY <2>1, ChecksAccept DEF CommandInv, CommandTypes
    <3> QED
      BY <2>1, <3>1, <1>4 DEF Commanding!CheckArguments
  <2>2. CASE ~(Commanding!Consistent /\ Commanding!InputIsRegular
               /\ \A i \in DOMAIN Commanding!Destinations : Commanding!Acceptable(i))
    BY <2>2, <1>5 DEF Commanding!CheckArguments, Commanding!Exit
  <2> QED
    BY <2>1, <2>2

LEMMA ReadingKeeps ==
  ASSUME CommandInv, Commanding!ReadInput
  PROVE  CommandInv'
<1>1. /\ at = "read" /\ UNCHANGED <<arguments, files, printed, clean, written, interrupted>>
      /\ \/ at' = "left" /\ code' \in {2, 3}
         \/ at' = "plan" /\ code' = code
  BY DEF Commanding!ReadInput, Commanding!Exit
<1>2. Nothing /\ \A f \in Commanding!Files : files[f].kind = "nothing"
  BY <1>1, NothingYet
<1>3. FilesFollowFlags' /\ PrintedFollowsFlags'
  BY <1>1, <1>2, FilesRest DEF Rests
<1>4. Accepted'
  BY <1>1, AcceptedRests DEF CommandInv
<1> QED
  BY <1>1, <1>2, <1>3, <1>4 DEF CommandInv, CommandTypes, FlagsFollowSteps, CodeFollowsFlags, Nothing

LEMMA PlanningKeeps ==
  ASSUME CommandInv, Commanding!Plan
  PROVE  CommandInv'
<1>1. /\ at = "plan" /\ UNCHANGED <<arguments, files, printed, interrupted, code>>
      /\ at' \in {"gate", "failure"} /\ clean' \in BOOLEAN /\ written' = Commanding!NothingSaid
  BY DEF Commanding!Plan
<1>2. Nothing /\ \A f \in Commanding!Files : files[f].kind = "nothing"
  BY <1>1, NothingYet
<1>3. written = written'
  <2>1. written \in Flags /\ written.content = FALSE /\ written.draft = FALSE
    BY <1>2 DEF CommandInv, CommandTypes, Flags, Nothing
  <2> QED
    BY <1>1, <2>1 DEF Flags, Commanding!NothingSaid
<1>4. FilesFollowFlags' /\ PrintedFollowsFlags'
  BY <1>1, <1>2, <1>3, AcceptedRests DEF CommandInv, FilesFollowFlags, ToFile, PrintedFollowsFlags
<1>5. Accepted'
  BY <1>1, AcceptedRests DEF CommandInv
<1> QED
  BY <1>1, <1>2, <1>3, <1>4, <1>5 DEF CommandInv, CommandTypes, FlagsFollowSteps, CodeFollowsFlags, Nothing

LEMMA GateKeeps ==
  ASSUME CommandInv, Commanding!Gate
  PROVE  CommandInv'
<1>1. /\ at = "gate" /\ UNCHANGED <<arguments, files, printed, clean, written, interrupted>>
      /\ \/ at' = "left" /\ code' = 130
         \/ at' = "output" /\ code' = code
  BY DEF Commanding!Gate, Commanding!Exit
<1>2. Nothing /\ \A f \in Commanding!Files : files[f].kind = "nothing"
  BY <1>1, NothingYet
<1>3. FilesFollowFlags' /\ PrintedFollowsFlags'
  BY <1>1, <1>2, FilesRest DEF Rests
<1>4. Accepted'
  BY <1>1, AcceptedRests DEF CommandInv
<1> QED
  BY <1>1, <1>2, <1>3, <1>4 DEF CommandInv, CommandTypes, FlagsFollowSteps, CodeFollowsFlags, Nothing

LEMMA InterruptKeeps ==
  ASSUME CommandInv, Commanding!Interrupt
  PROVE  CommandInv'
<1>1. /\ UNCHANGED <<arguments, files, printed, at, clean, written, code>> /\ interrupted' = TRUE
      /\ at # "left"
  BY DEF Commanding!Interrupt
<1>2. FilesFollowFlags' /\ PrintedFollowsFlags'
  BY <1>1, AcceptedRests DEF CommandInv, FilesFollowFlags, ToFile, PrintedFollowsFlags
<1>3. Accepted' <=> Accepted
  BY <1>1, AcceptedRests
<1> QED
  BY <1>1, <1>2, <1>3 DEF CommandInv, CommandTypes, FlagsFollowSteps, CodeFollowsFlags, Nothing, ContentIsDue

\* One file is written; the flags say so, or what is written is the report itself.
LEMMA FileIsWritten ==
  ASSUME CommandTypes, NEW path \in Path, NEW kind \in {"content", "draft", "report"}, NEW says \in Flags,
         files' = [files EXCEPT ![FileOf[path]] = Commanding!Wrote(kind, says)]
  PROVE  /\ files' \in [Commanding!Files -> Writing] /\ FileOf[path] \in Commanding!Files
         /\ \A f \in Commanding!Files : f # FileOf[path] => files'[f] = files[f]
         /\ files'[FileOf[path]].kind = kind /\ files'[FileOf[path]].says = says
<1> DEFINE w == Commanding!Wrote(kind, says)
<1>1. w \in Writing /\ w.kind = kind /\ w.says = says
  BY DEF Commanding!Wrote, Writing
<1>2. FileOf[path] \in Commanding!Files /\ files \in [Commanding!Files -> Writing]
  BY DEF Commanding!Files, CommandTypes
<1> HIDE DEF w
<1>3. files' = [files EXCEPT ![FileOf[path]] = w]
  BY DEF w
<1> QED
  BY <1>1, <1>2, <1>3

LEMMA NothingSaidIs ==
  Commanding!NothingSaid \in Flags
BY DEF Commanding!NothingSaid, Flags

LEMMA FailureKeeps ==
  ASSUME CommandInv, Commanding!ReportFailure
  PROVE  CommandInv'
<1>1. /\ at = "failure" /\ UNCHANGED <<arguments, printed, clean, written, interrupted>>
      /\ at' = "left" /\ code' \in {2, 3, 130}
  BY DEF Commanding!ReportFailure, Commanding!Exit, Commanding!StatusCode
<1>2. Nothing /\ \A f \in Commanding!Files : files[f].kind = "nothing"
  BY <1>1, NothingYet
<1>3. Accepted /\ Accepted'
  BY <1>1, AcceptedRests DEF CommandInv
<1>4. CASE UNCHANGED files
  <2>1. FilesFollowFlags' /\ PrintedFollowsFlags'
    BY <1>1, <1>2, <1>4, FilesRest DEF Rests
  <2> QED
    BY <1>1, <1>2, <1>3, <1>4, <2>1 DEF CommandInv, CommandTypes, FlagsFollowSteps, CodeFollowsFlags, Nothing
<1>5. CASE /\ arguments.report # NoPath
           /\ files' = [files EXCEPT ![FileOf[arguments.report]] = Commanding!Wrote("report", written)]
  <2>1. CommandTypes /\ written \in Flags /\ arguments.report \in Path
    BY <1>3, <1>5 DEF CommandInv, CommandTypes, Accepted, MayWrite
  <2>2. /\ files' \in [Commanding!Files -> Writing] /\ FileOf[arguments.report] \in Commanding!Files
        /\ \A f \in Commanding!Files : f # FileOf[arguments.report] => files'[f] = files[f]
        /\ files'[FileOf[arguments.report]].kind = "report"
        /\ files'[FileOf[arguments.report]].says = written
    BY <1>5, <2>1, FileIsWritten
  <2>3. FilesFollowFlags'
    BY <1>1, <1>2, <1>5, <2>2, AcceptedRests DEF FilesFollowFlags, ToFile, Nothing
  <2>4. PrintedFollowsFlags'
    BY <1>1 DEF CommandInv, PrintedFollowsFlags
  <2>5. CommandTypes'
    BY <1>1, <2>1, <2>2 DEF CommandTypes
  <2> QED
    BY <1>1, <1>2, <1>3, <2>3, <2>4, <2>5 DEF CommandInv, FlagsFollowSteps, CodeFollowsFlags, Nothing
<1> QED
  BY <1>4, <1>5 DEF Commanding!ReportFailure

LEMMA ContentKeeps ==
  ASSUME CommandInv, Commanding!PublishContent
  PROVE  CommandInv'
<1>1. /\ at = "output" /\ UNCHANGED <<arguments, clean, interrupted>>
      /\ CommandTypes /\ written \in Flags
  BY DEF Commanding!PublishContent, CommandInv, CommandTypes
<1>2. Nothing /\ \A f \in Commanding!Files : files[f].kind = "nothing"
  BY <1>1, NothingYet
<1>3. Accepted /\ Accepted'
  BY <1>1, AcceptedRests DEF CommandInv
<1>4. Commanding!Publishes <=> ContentIsDue
  BY DEF Commanding!Publishes, ContentIsDue
<1>5. ContentIsDue' <=> ContentIsDue
  BY <1>1 DEF ContentIsDue
<1>6. CASE ~ContentIsDue /\ at' = "draft" /\ UNCHANGED <<files, printed, written, code>>
  <2>1. FilesFollowFlags' /\ PrintedFollowsFlags'
    BY <1>1, <1>2, <1>6, FilesRest DEF Rests
  <2> QED
    BY <1>1, <1>2, <1>3, <1>5, <1>6, <2>1 DEF CommandInv, CommandTypes, FlagsFollowSteps, CodeFollowsFlags, Nothing
<1>7. CASE at' = "left" /\ code' = 2 /\ UNCHANGED <<files, printed, written>>
  <2>1. FilesFollowFlags' /\ PrintedFollowsFlags'
    BY <1>1, <1>2, <1>7, FilesRest DEF Rests
  <2> QED
    BY <1>1, <1>2, <1>3, <1>7, <2>1 DEF CommandInv, CommandTypes, FlagsFollowSteps, CodeFollowsFlags, Nothing
<1>8. ASSUME ContentIsDue, at' = "draft", code' = code, written' = [written EXCEPT !.content = TRUE],
             FilesFollowFlags', PrintedFollowsFlags', files' \in [Commanding!Files -> Writing], printed' \in BOOLEAN
      PROVE  CommandInv'
  <2>1. written' \in Flags /\ written'.content = TRUE /\ written'.draft = written.draft
    BY <1>1, <1>8 DEF Flags
  <2>2. CommandTypes'
    BY <1>1, <1>8, <2>1 DEF CommandTypes
  <2>3. code' = 0
    BY <1>1, <1>8 DEF CommandInv, CodeFollowsFlags
  <2> QED
    BY <1>1, <1>2, <1>3, <1>5, <1>8, <2>1, <2>2, <2>3 DEF CommandInv, FlagsFollowSteps, CodeFollowsFlags, Nothing
<1>9. CASE /\ ContentIsDue /\ at' = "draft" /\ code' = code /\ written' = [written EXCEPT !.content = TRUE]
           /\ arguments.output = Stdout /\ printed' = TRUE /\ UNCHANGED files
  <2>1. written'.content = TRUE /\ written'.draft = written.draft
    BY <1>1, <1>9 DEF Flags
  <2>2. FilesFollowFlags' /\ PrintedFollowsFlags'
    BY <1>1, <1>2, <1>9, <2>1, AcceptedRests DEF FilesFollowFlags, ToFile, PrintedFollowsFlags, Nothing
  <2> QED
    BY <1>1, <1>8, <1>9, <2>2 DEF CommandTypes
<1>10. CASE /\ ContentIsDue /\ at' = "draft" /\ code' = code /\ written' = [written EXCEPT !.content = TRUE]
            /\ arguments.output # Stdout /\ UNCHANGED printed
            /\ files' = [files EXCEPT ![FileOf[arguments.output]] =
                           Commanding!Wrote("content", Commanding!NothingSaid)]
  <2>1. written'.content = TRUE /\ written'.draft = written.draft
    BY <1>1, <1>10 DEF Flags
  <2>2. arguments.output \in Path
    BY <1>3, <1>10 DEF Accepted, MayWrite
  <2>3. /\ files' \in [Commanding!Files -> Writing] /\ FileOf[arguments.output] \in Commanding!Files
        /\ \A f \in Commanding!Files : f # FileOf[arguments.output] => files'[f] = files[f]
        /\ files'[FileOf[arguments.output]].kind = "content"
    BY <1>1, <1>10, <2>2, FileIsWritten, NothingSaidIs
  <2>4. FilesFollowFlags'
    BY <1>1, <1>2, <1>10, <2>1, <2>3, AcceptedRests DEF FilesFollowFlags, ToFile, Nothing
  <2>5. PrintedFollowsFlags'
    BY <1>1, <1>2, <1>10, <2>1 DEF CommandInv, PrintedFollowsFlags, Nothing
  <2> QED
    BY <1>1, <1>8, <1>10, <2>3, <2>4, <2>5 DEF CommandTypes
<1> QED
  BY <1>4, <1>6, <1>7, <1>9, <1>10 DEF Commanding!PublishContent, Commanding!Exit

LEMMA DraftKeeps ==
  ASSUME CommandInv, Commanding!PublishDraft
  PROVE  CommandInv'
<1>1. /\ at = "draft" /\ UNCHANGED <<arguments, printed, clean, interrupted>>
      /\ CommandTypes /\ written \in Flags
  BY DEF Commanding!PublishDraft, CommandInv, CommandTypes
<1>2. /\ ~written.draft /\ (written.content <=> ContentIsDue)
      /\ \A f \in Commanding!Files : files[f].kind # "report" /\ files[f].kind # "draft"
  BY <1>1 DEF CommandInv, FlagsFollowSteps, FilesFollowFlags, ToFile
<1>3. Accepted /\ Accepted'
  BY <1>1, AcceptedRests DEF CommandInv
<1>4. ContentIsDue' <=> ContentIsDue
  BY <1>1 DEF ContentIsDue
<1>5. code = 0
  BY <1>1 DEF CommandInv, CodeFollowsFlags
<1>6. CASE /\ UNCHANGED <<files, written>>
           /\ \/ arguments.draft = NoPath /\ at' = "report" /\ UNCHANGED code
              \/ at' = "left" /\ code' = 2
  <2>1. FilesFollowFlags' /\ PrintedFollowsFlags'
    BY <1>1, <1>2, <1>6, FilesRest DEF Rests
  <2> QED
    BY <1>1, <1>2, <1>3, <1>4, <1>5, <1>6, <2>1
       DEF CommandInv, CommandTypes, FlagsFollowSteps, CodeFollowsFlags, Nothing
<1>7. CASE /\ arguments.draft # NoPath /\ at' = "report" /\ UNCHANGED code
           /\ files' = [files EXCEPT ![FileOf[arguments.draft]] =
                          Commanding!Wrote("draft", Commanding!NothingSaid)]
           /\ written' = [written EXCEPT !.draft = TRUE]
  <2>1. written' \in Flags /\ written'.draft = TRUE /\ written'.content = written.content
    BY <1>1, <1>7 DEF Flags
  <2>2. arguments.draft \in Path
    BY <1>3, <1>7 DEF Accepted, MayWrite
  <2>3. /\ files' \in [Commanding!Files -> Writing] /\ FileOf[arguments.draft] \in Commanding!Files
        /\ \A f \in Commanding!Files : f # FileOf[arguments.draft] => files'[f] = files[f]
        /\ files'[FileOf[arguments.draft]].kind = "draft"
    BY <1>1, <1>7, <2>2, FileIsWritten, NothingSaidIs
  <2>4. NewApart /\ arguments.output # Stdout => FileOf[arguments.output] # FileOf[arguments.draft]
    BY <1>3, <1>7 DEF Accepted, AreApart
  <2>5. \A f \in Commanding!Files : LET out == ToFile(f, written.content, arguments.output, Stdout)
          IN (files[f].kind = "content" => out) /\ (NewApart /\ out => files[f].kind = "content")
    BY DEF CommandInv, FilesFollowFlags
  <2>6. FilesFollowFlags'
    BY <1>1, <1>2, <1>7, <2>1, <2>3, <2>4, <2>5, AcceptedRests DEF FilesFollowFlags, ToFile
  <2>7. PrintedFollowsFlags'
    BY <1>1, <2>1 DEF CommandInv, PrintedFollowsFlags
  <2>8. CommandTypes'
    BY <1>1, <1>7, <2>1, <2>3 DEF CommandTypes
  <2> QED
    BY <1>1, <1>2, <1>3, <1>4, <1>5, <1>7, <2>1, <2>6, <2>7, <2>8
       DEF CommandInv, FlagsFollowSteps, CodeFollowsFlags, Nothing
<1> QED
  BY <1>6, <1>7 DEF Commanding!PublishDraft, Commanding!Exit

LEMMA ReportKeeps ==
  ASSUME CommandInv, Commanding!PublishReport
  PROVE  CommandInv'
<1>1. /\ at = "report" /\ UNCHANGED <<arguments, printed, clean, written, interrupted>> /\ at' = "left"
      /\ CommandTypes /\ written \in Flags
  BY DEF Commanding!PublishReport, Commanding!Exit, CommandInv, CommandTypes
<1>2. /\ written.content <=> ContentIsDue
      /\ written.draft <=> arguments.draft # NoPath
      /\ \A f \in Commanding!Files : files[f].kind # "report"
  BY <1>1 DEF CommandInv, FlagsFollowSteps, FilesFollowFlags
<1>3. Accepted /\ Accepted'
  BY <1>1, AcceptedRests DEF CommandInv
<1>4. ContentIsDue' <=> ContentIsDue
  BY <1>1 DEF ContentIsDue
<1>5. ASSUME FilesFollowFlags', files' \in [Commanding!Files -> Writing],
             \/ code' = 2
             \/ /\ code' = IF clean THEN 0 ELSE 1
                /\ arguments.report # NoPath => files'[FileOf[arguments.report]].kind = "report"
      PROVE  CommandInv'
  <2>1. PrintedFollowsFlags'
    BY <1>1 DEF CommandInv, PrintedFollowsFlags
  <2>2. CommandTypes'
    BY <1>1, <1>5 DEF CommandTypes
  <2>3. FlagsFollowSteps'
    BY <1>1, <1>2, <1>4 DEF FlagsFollowSteps
  <2>4. CodeFollowsFlags'
    <3>1. clean \in BOOLEAN
      BY <1>1 DEF CommandTypes
    <3> QED
      BY <1>1, <1>2, <1>4, <1>5, <3>1 DEF CodeFollowsFlags
  <2> QED
    BY <1>1, <1>3, <1>5, <2>1, <2>2, <2>3, <2>4 DEF CommandInv
<1>6. CASE UNCHANGED files /\ (code' = 2 \/ (arguments.report = NoPath /\ code' = IF clean THEN 0 ELSE 1))
  <2>1. FilesFollowFlags'
    BY <1>1, <1>2, <1>6, FilesRest DEF Rests
  <2>2. files' \in [Commanding!Files -> Writing]
    BY <1>1, <1>6 DEF CommandTypes
  <2> QED
    BY <1>5, <1>6, <2>1, <2>2
<1>7. CASE /\ arguments.report # NoPath /\ code' = IF clean THEN 0 ELSE 1
           /\ files' = [files EXCEPT ![FileOf[arguments.report]] = Commanding!Wrote("report", written)]
  <2>1. arguments.report \in Path
    BY <1>3, <1>7 DEF Accepted, MayWrite
  <2>2. /\ files' \in [Commanding!Files -> Writing] /\ FileOf[arguments.report] \in Commanding!Files
        /\ \A f \in Commanding!Files : f # FileOf[arguments.report] => files'[f] = files[f]
        /\ files'[FileOf[arguments.report]].kind = "report"
        /\ files'[FileOf[arguments.report]].says = written
    BY <1>1, <1>7, <2>1, FileIsWritten
  <2>3. /\ NewApart /\ arguments.output # Stdout => FileOf[arguments.output] # FileOf[arguments.report]
        /\ NewApart /\ arguments.draft # NoPath => FileOf[arguments.draft] # FileOf[arguments.report]
    BY <1>3, <1>7 DEF Accepted, AreApart
  <2>4. \A f \in Commanding!Files :
          LET out == ToFile(f, written.content, arguments.output, Stdout)
              drafted == ToFile(f, written.draft, arguments.draft, NoPath)
          IN /\ files[f].kind = "content" => out
             /\ files[f].kind = "draft" => drafted
             /\ NewApart => (out => files[f].kind = "content") /\ (drafted => files[f].kind = "draft")
    BY DEF CommandInv, FilesFollowFlags
  <2>5. FilesFollowFlags'
    BY <1>1, <1>2, <1>7, <2>2, <2>3, <2>4, AcceptedRests DEF FilesFollowFlags, ToFile
  <2> QED
    BY <1>5, <1>7, <2>2, <2>5
<1> QED
  BY <1>6, <1>7 DEF Commanding!PublishReport, Commanding!Exit

LEMMA CommandRests ==
  ASSUME CommandInv, UNCHANGED commanding
  PROVE  CommandInv'
<1>1. UNCHANGED <<arguments, files, printed, at, clean, written, interrupted, code>>
  BY DEF commanding
<1>2. FilesFollowFlags' /\ PrintedFollowsFlags'
  BY <1>1, AcceptedRests DEF CommandInv, FilesFollowFlags, ToFile, PrintedFollowsFlags
<1>3. Accepted' <=> Accepted
  BY <1>1, AcceptedRests
<1> QED
  BY <1>1, <1>2, <1>3 DEF CommandInv, CommandTypes, FlagsFollowSteps, CodeFollowsFlags, Nothing, ContentIsDue

LEMMA CommandStays ==
  ASSUME CommandInv, [NextAll]_all
  PROVE  CommandInv'
<1>1. \/ UNCHANGED commanding
      \/ Commanding!CheckArguments \/ Commanding!ReadInput \/ Commanding!Plan \/ Commanding!ReportFailure
      \/ Commanding!Gate \/ Commanding!PublishContent \/ Commanding!PublishDraft
      \/ Commanding!PublishReport \/ Commanding!Interrupt
  BY DEF NextAll, all, Diffs, Views, Exports, Resolves
<1> QED
  BY <1>1, CommandRests, CheckingKeeps, ReadingKeeps, PlanningKeeps, FailureKeeps, GateKeeps,
     ContentKeeps, DraftKeeps, ReportKeeps, InterruptKeeps

\* What was written follows the flags, and the flags what is true.
LEMMA CommandTells ==
  ASSUME CommandInv
  PROVE  CommandIsTruthful
<1> DEFINE o == arguments.output  r == arguments.report  d == arguments.draft
<1>1. /\ o \in Path \union {Stdout} /\ r \in Path \union {NoPath} /\ d \in Path \union {NoPath}
      /\ written \in Flags /\ clean \in BOOLEAN
      /\ \A f \in Commanding!Files : files[f] \in Writing
  BY DEF CommandInv, CommandTypes, Commanding!CommandLine
<1>2. \A path \in Path : FileOf[path] \in Commanding!Files
  BY DEF Commanding!Files
<1>3. \A f \in Commanding!Files :
        /\ files[f].kind = "content" => written.content /\ o # Stdout /\ f = FileOf[o]
        /\ files[f].kind = "draft" => written.draft /\ d # NoPath /\ f = FileOf[d]
        /\ NewApart => /\ written.content /\ o # Stdout /\ f = FileOf[o] => files[f].kind = "content"
                       /\ written.draft /\ d # NoPath /\ f = FileOf[d] => files[f].kind = "draft"
        /\ files[f].kind = "report" => r # NoPath /\ f = FileOf[r] /\ files[f].says = written
        /\ files[f].kind \in {"nothing", "content", "draft", "report"}
  BY <1>1 DEF CommandInv, FilesFollowFlags, ToFile, Writing
<1>4. (Commanding!ContentOut => written.content) /\ (NewApart => (Commanding!ContentOut <=> written.content))
  BY <1>1, <1>2, <1>3, CommandAssumption
     DEF CommandInv, PrintedFollowsFlags, Commanding!ContentOut, Commanding!Holds
<1>5. (Commanding!DraftOut => written.draft) /\ (NewApart => (Commanding!DraftOut <=> written.draft))
  BY <1>1, <1>2, <1>3, CommandAssumption DEF CommandInv, FlagsFollowSteps, Commanding!DraftOut, Commanding!Holds
<1>6. Commanding!InputIsPreserved
  <2> SUFFICES ASSUME NEW f \in Commanding!Files, files[f].kind # "nothing"
               PROVE  f # FileOf[InputPath] /\ (f \in Existing => arguments.overwrite)
    BY DEF Commanding!InputIsPreserved
  <2>1. Accepted
    <3>1. at # "arguments"
      BY <1>3, NothingYet
    <3> QED
      BY <3>1 DEF CommandInv
  <2>2. \/ o # Stdout /\ f = FileOf[o]
        \/ r # NoPath /\ f = FileOf[r]
        \/ d # NoPath /\ f = FileOf[d]
    BY <1>3
  <2> QED
    BY <2>1, <2>2 DEF Accepted, MayWrite
<1>7. Commanding!ReportAndCodeAreTrue
  <2> HIDE DEF o, r, d
  <2>1. NewApart /\ Commanding!Holds(arguments.report, "report") =>
          files[FileOf[arguments.report]].says = [content |-> Commanding!ContentOut, draft |-> Commanding!DraftOut]
    <3> SUFFICES ASSUME NewApart, Commanding!Holds(arguments.report, "report")
                 PROVE  files[FileOf[arguments.report]].says
                          = [content |-> Commanding!ContentOut, draft |-> Commanding!DraftOut]
      OBVIOUS
    <3>1. files[FileOf[arguments.report]].says = written
      BY <1>2, <1>3 DEF Commanding!Holds
    <3>2. written = [content |-> written.content, draft |-> written.draft]
          /\ written.content \in BOOLEAN /\ written.draft \in BOOLEAN
      BY <1>1 DEF Flags
    <3>3. Commanding!ContentOut = written.content /\ Commanding!DraftOut = written.draft
      BY <1>4, <1>5, <3>2 DEF Commanding!ContentOut, Commanding!DraftOut, Commanding!Holds
    <3> QED
      BY <3>1, <3>2, <3>3
  <2>2. ASSUME at = "left", code \in {0, 1}
        PROVE  /\ clean = (code = 0)
               /\ NewApart => Commanding!ContentOut = (~arguments.check /\ ~(arguments.strict /\ code = 1))
               /\ NewApart => Commanding!DraftOut = (arguments.draft # NoPath)
               /\ Commanding!Holds(arguments.report, "report") = (arguments.report # NoPath)
    <3>1. /\ clean <=> code = 0
          /\ written.content <=> ContentIsDue
          /\ written.draft <=> arguments.draft # NoPath
          /\ arguments.report # NoPath => files[FileOf[arguments.report]].kind = "report"
      BY <2>2 DEF CommandInv, CodeFollowsFlags
    <3>2. clean = (code = 0)
      BY <1>1, <3>1
    <3>3. NewApart => (Commanding!ContentOut <=> ~arguments.check /\ ~(arguments.strict /\ code = 1))
      BY <1>4, <2>2, <3>1 DEF ContentIsDue
    <3>4. NewApart => (Commanding!DraftOut <=> arguments.draft # NoPath)
      BY <1>5, <3>1
    <3>5. Commanding!Holds(arguments.report, "report") <=> (arguments.report # NoPath)
      BY <1>1, <3>1, CommandAssumption DEF Commanding!Holds, r
    <3> QED
      BY <3>2, <3>3, <3>4, <3>5 DEF Commanding!ContentOut, Commanding!DraftOut, Commanding!Holds
  <2>3. Commanding!ContentOut => ~arguments.check /\ (arguments.strict => clean)
    BY <1>4 DEF CommandInv, FlagsFollowSteps, ContentIsDue
  <2>4. code \in {3, 130} => ~Commanding!ContentOut /\ ~Commanding!DraftOut
    BY <1>4, <1>5 DEF CommandInv, CodeFollowsFlags, Nothing
  <2> QED
    BY <2>1, <2>2, <2>3, <2>4 DEF Commanding!ReportAndCodeAreTrue, NewApart
<1> QED
  BY <1>6, <1>7 DEF CommandIsTruthful

\* Whatever paths the options name, through whatever linked directories, wherever a
\* write fails and whenever an interrupt arrives, neither the input nor, without
\* --overwrite, an existing file is written, and nothing goes out that must not.  Unless
\* two outputs are different names of one file that is not there yet, the report and the
\* exit code say what is published (resolve_main.cpp, main).
THEOREM CommandTruthful == SpecAll => []CommandIsTruthful
<1>1. InitAll => CommandInv
  BY CommandInit
<1>2. CommandInv /\ [NextAll]_all => CommandInv'
  BY CommandStays
<1>3. CommandInv => CommandIsTruthful
  BY CommandTells
<1> QED
  BY <1>1, <1>2, <1>3, PTL DEF SpecAll

-----------------------------------------------------------------------------
(* Least and greatest members, and functions defined step by step.         *)

LEMMA SmallestIsIn ==
  ASSUME NEW S \in SUBSET Nat, S # {}
  PROVE  Min(S) \in S /\ \A y \in S : Min(S) <= y
<1> DEFINE R == OpToRel(<, Nat)
<1>1. IsWellFoundedOn(R, Nat)
  BY NatLessThanWellFounded
<1>2. \A i, j \in Nat : <<i, j>> \in R <=> i < j
  BY DEF OpToRel
<1> HIDE DEF R
<1>3. PICK x \in S : \A y \in S : ~(<<y, x>> \in R)
  BY <1>1, WFMin
<1>4. ASSUME NEW y \in S PROVE x <= y
  <2>1. x \in Nat /\ y \in Nat /\ ~(<<y, x>> \in R)
    BY <1>3
  <2>2. ~(y < x)
    BY <1>2, <2>1
  <2> QED
    BY <2>1, <2>2
<1> QED
  BY <1>3, <1>4 DEF Min

LEMMA LargestIsIn ==
  ASSUME NEW n \in Nat, NEW S \in SUBSET (0..n), S # {}
  PROVE  Max(S) \in S
<1> DEFINE T == {n - i : i \in S}
<1>1. T \in SUBSET Nat /\ T # {}
  <2>1. \A i \in S : n - i \in Nat
    OBVIOUS
  <2> QED
    BY <2>1
<1>2. Min(T) \in T /\ \A y \in T : Min(T) <= y
  <2> DEFINE R == OpToRel(<, Nat)
  <2>1. IsWellFoundedOn(R, Nat)
    BY NatLessThanWellFounded
  <2>2. \A i, j \in Nat : <<i, j>> \in R <=> i < j
    BY DEF OpToRel
  <2> HIDE DEF R, T
  <2>3. PICK x \in T : \A y \in T : ~(<<y, x>> \in R)
    BY <1>1, <2>1, WFMin
  <2>4. ASSUME NEW y \in T PROVE x <= y
    <3>1. x \in Nat /\ y \in Nat /\ ~(<<y, x>> \in R)
      BY <1>1, <2>3
    <3>2. ~(y < x)
      BY <2>2, <3>1
    <3> QED
      BY <3>1, <3>2
  <2> QED
    BY <2>3, <2>4 DEF Min
<1>3. PICK m \in S : Min(T) = n - m
  BY <1>2
<1>4. \A i \in S : n - m <= n - i
  BY <1>2, <1>3
<1>5. \A i \in S : m >= i
  BY <1>4
<1> QED
  BY <1>5 DEF Max

\* A function defined by recursion on 0..n is there.
Recursion(g, S, n, base, step) ==
  /\ g \in [0..n -> S] /\ g[0] = base
  /\ \A i \in 1..n : g[i] = step[<<i, g[i - 1]>>]

LEMMA RecursionExists ==
  ASSUME NEW S, NEW base \in S, NEW n \in Nat, NEW step \in [(1..n) \X S -> S]
  PROVE  \E g : Recursion(g, S, n, base, step)
<1> DEFINE Good(j, g) == g \in [0..j -> S] /\ g[0] = base /\ \A i \in 1..j : g[i] = step[<<i, g[i - 1]>>]
           Bad == {j \in 0..n : ~\E g : Good(j, g)}
<1>1. Bad = {}
  <2> SUFFICES ASSUME Bad # {} PROVE FALSE
    OBVIOUS
  <2> DEFINE R == OpToRel(<, Nat)
  <2>1. IsWellFoundedOn(R, Nat)
    BY NatLessThanWellFounded
  <2>2. \A i, j \in Nat : <<i, j>> \in R <=> i < j
    BY DEF OpToRel
  <2> HIDE DEF R
  <2>3. Bad \in SUBSET Nat
    OBVIOUS
  <2>4. PICK j \in Bad : \A y \in Bad : ~(<<y, j>> \in R)
    <3> HIDE DEF Bad
    <3> QED
      BY <2>1, <2>3, WFMin
  <2>5. CASE j = 0
    <3>1. Good(0, [i \in 0..0 |-> base])
      OBVIOUS
    <3> QED
      BY <2>4, <2>5, <3>1
  <2>6. CASE j # 0
    <3>1. j \in 1..n /\ j - 1 \in 0..n /\ j - 1 \in Nat /\ j \in Nat /\ j - 1 < j
      BY <2>6
    <3>2. j - 1 \notin Bad
      <4> HIDE DEF Bad
      <4> QED
        BY <2>2, <2>4, <3>1
    <3>3. PICK g : Good(j - 1, g)
      BY <3>1, <3>2
    <3> DEFINE v == step[<<j, g[j - 1]>>]
               h == [i \in 0..j |-> IF i = j THEN v ELSE g[i]]
    <3>4. g[j - 1] \in S /\ v \in S
      BY <3>1, <3>3
    <3>5. h \in [0..j -> S]
      BY <3>1, <3>3, <3>4
    <3>6. h[0] = base
      BY <3>1, <3>3
    <3>7. ASSUME NEW i \in 1..j PROVE h[i] = step[<<i, h[i - 1]>>]
      <4>1. h[i - 1] = g[i - 1]
        BY <3>1
      <4>2. CASE i = j
        <5>1. h[i] = v
          BY <4>2
        <5> HIDE DEF h
        <5> QED
          BY <4>1, <4>2, <5>1
      <4>3. CASE i # j
        <5>1. i \in 1..j - 1 /\ h[i] = g[i]
          BY <3>1, <4>3
        <5>2. g[i] = step[<<i, g[i - 1]>>]
          BY <3>3, <5>1
        <5> QED
          BY <4>1, <5>1, <5>2
      <4> QED
        BY <4>2, <4>3
    <3>8. Good(j, h)
      BY <3>5, <3>6, <3>7
    <3> QED
      BY <2>4, <3>8
  <2> QED
    BY <2>5, <2>6
<1>2. n \in 0..n
  OBVIOUS
<1>3. \E g : Good(n, g)
  BY <1>1, <1>2
<1> QED
  BY <1>3 DEF Recursion

\* What holds at 0 and goes on holding holds up to n.
LEMMA StepByStep ==
  ASSUME NEW n \in Nat, NEW Holds, 0 \in Holds, \A i \in 1..n : i - 1 \in Holds => i \in Holds
  PROVE  \A i \in 0..n : i \in Holds
<1> DEFINE Bad == {j \in 0..n : j \notin Holds}
<1>1. Bad = {}
  <2> SUFFICES ASSUME Bad # {} PROVE FALSE
    OBVIOUS
  <2>1. Bad \in SUBSET Nat
    OBVIOUS
  <2> DEFINE j == Min(Bad)
  <2>2. j \in Bad /\ \A i \in Bad : j <= i
    <3> HIDE DEF Bad
    <3> QED
      BY <2>1, SmallestIsIn
  <2> HIDE DEF j
  <2>3. j \in 1..n /\ j - 1 \in 0..n /\ j - 1 < j
    BY <2>2
  <2>4. j - 1 \in Holds
    BY <2>2, <2>3
  <2> QED
    BY <2>2, <2>3, <2>4
<1> QED
  BY <1>1

LEMMA StepsAreTyped ==
  ASSUME NEW n \in Nat, NEW S, NEW f, DOMAIN f = 0..n, f = [i \in 0..n |-> f[i]],
         f[0] \in S, \A i \in 1..n : f[i - 1] \in S => f[i] \in S
  PROVE  f \in [0..n -> S]
<1> DEFINE H == {j \in 0..n : f[j] \in S}
<1>1. 0 \in H /\ \A i \in 1..n : i - 1 \in H => i \in H
  OBVIOUS
<1> HIDE DEF H
<1>2. \A i \in 0..n : i \in H
  BY <1>1, StepByStep
<1> QED
  BY <1>2 DEF H

-----------------------------------------------------------------------------
(* Sliding a block: every rule moves it over lines that it repeats.        *)

\* The n lines before the block are its last n lines.
Repeats(lines, pos, size, n) ==
  /\ n \in 0..pos
  /\ \A i \in 1..n : pos + size - i < Len(lines) /\ Same(lines, pos - i, pos + size - i)

\* What a list without a block of it looks like.
IsWithout(rest, lines, pos, size) ==
  /\ rest \in Seq(Element) /\ Len(rest) = Len(lines) - size
  /\ \A i \in 1..Len(lines) - size : rest[i] = IF i <= pos THEN lines[i] ELSE lines[i + size]

LEMMA WithoutIs ==
  ASSUME NEW lines \in Seq(Element), NEW pos \in Nat, NEW size \in Nat, pos + size <= Len(lines)
  PROVE  IsWithout(Without(lines, pos, size), lines, pos, size)
<1> DEFINE L == Len(lines)  s1 == SubSeq(lines, 1, pos)  s2 == SubSeq(lines, pos + size + 1, L)
<1>1. L \in Nat /\ pos + size <= L
  OBVIOUS
<1>2. s1 \in Seq(Element) /\ Len(s1) = pos /\ \A i \in 1..pos : s1[i] = lines[i]
  OBVIOUS
<1>3. /\ s2 \in Seq(Element) /\ Len(s2) = L - size - pos
      /\ \A i \in 1..L - size - pos : s2[i] = lines[pos + size + i]
  OBVIOUS
<1>4. Without(lines, pos, size) = s1 \o s2
  BY DEF Without
<1> HIDE DEF s1, s2, L
<1>5. s1 \in Seq(Element) /\ s2 \in Seq(Element)
  BY <1>2, <1>3
<1>6. /\ s1 \o s2 \in Seq(Element) /\ Len(s1 \o s2) = Len(s1) + Len(s2)
      /\ \A i \in 1..Len(s1) + Len(s2) :
           (s1 \o s2)[i] = IF i <= Len(s1) THEN s1[i] ELSE s2[i - Len(s1)]
  BY <1>5, ConcatProperties
<1>7. Len(s1) + Len(s2) = L - size
  BY <1>1, <1>2, <1>3
<1>8. ASSUME NEW i \in 1..L - size
      PROVE  (s1 \o s2)[i] = IF i <= pos THEN lines[i] ELSE lines[i + size]
  <2>1. (s1 \o s2)[i] = IF i <= pos THEN s1[i] ELSE s2[i - pos]
    BY <1>2, <1>6, <1>7
  <2>2. CASE i <= pos
    BY <1>1, <1>2, <2>1, <2>2
  <2>3. CASE i > pos
    <3>1. i - pos \in 1..L - size - pos /\ pos + size + (i - pos) = i + size
      BY <1>1, <2>3
    <3>2. s2[i - pos] = lines[i + size]
      BY <1>3, <3>1
    <3>3. ~(i <= pos)
      BY <1>1, <2>3
    <3> QED
      BY <2>1, <3>2, <3>3
  <2>4. i <= pos \/ i > pos
    BY <1>1
  <2> QED
    BY <2>2, <2>3, <2>4
<1> QED
  BY <1>4, <1>6, <1>7, <1>8 DEF L, IsWithout

LEMMA RepeatsKeep ==
  ASSUME NEW lines \in Seq(Element), NEW pos \in Nat, NEW size \in Nat, NEW n,
         Repeats(lines, pos, size, n)
  PROVE  Without(lines, pos - n, size) = Without(lines, pos, size)
<1>1. n \in Nat /\ n <= pos /\ Len(lines) \in Nat
  BY DEF Repeats
<1>2. CASE n = 0
  <2>1. pos - n = pos
    BY <1>2
  <2> QED
    BY <2>1
<1>3. CASE n > 0
  <2> DEFINE L == Len(lines)  from == pos - n
             s == Without(lines, from, size)  t == Without(lines, pos, size)
  <2>1. pos + size <= L /\ from \in Nat /\ L \in Nat
    <3>1. pos + size - 1 < L
      BY <1>1, <1>3 DEF Repeats
    <3> QED
      BY <1>1, <3>1
  <2> HIDE DEF from
  <2>2. from <= pos /\ from + n = pos /\ from + size <= L
    BY <1>1, <2>1 DEF from
  <2>0. from \in Nat /\ from + size <= Len(lines) /\ pos + size <= Len(lines)
    BY <2>1, <2>2
  <2>3. /\ s \in Seq(Element) /\ Len(s) = L - size
        /\ \A i \in 1..L - size : s[i] = IF i <= from THEN lines[i] ELSE lines[i + size]
    <3>1. IsWithout(s, lines, from, size)
      BY <2>0, WithoutIs
    <3> QED
      BY <3>1 DEF IsWithout
  <2>4. /\ t \in Seq(Element) /\ Len(t) = L - size
        /\ \A i \in 1..L - size : t[i] = IF i <= pos THEN lines[i] ELSE lines[i + size]
    <3>1. IsWithout(t, lines, pos, size)
      BY <2>0, WithoutIs
    <3> QED
      BY <3>1 DEF IsWithout
  <2> HIDE DEF s, t, L
  <2>5. ASSUME NEW i \in 1..L - size, i > from, i <= pos PROVE lines[i] = lines[i + size]
    <3>1. pos - i + 1 \in 1..n
      BY <1>1, <2>1, <2>2, <2>5
    <3>2. Same(lines, pos - (pos - i + 1), pos + size - (pos - i + 1))
      BY <3>1 DEF Repeats
    <3>3. pos - (pos - i + 1) + 1 = i /\ pos + size - (pos - i + 1) + 1 = i + size
      BY <2>1
    <3> QED
      BY <3>2, <3>3 DEF Same
  <2>6. ASSUME NEW i \in 1..L - size PROVE s[i] = t[i]
    <3>1. i \in Int
      BY <2>1
    <3>2. CASE i <= from
      BY <2>1, <2>2, <2>3, <2>4, <3>1, <3>2
    <3>3. CASE i > pos
      <4>1. ~(i <= from) /\ ~(i <= pos)
        BY <2>1, <2>2, <3>1, <3>3
      <4> QED
        BY <2>3, <2>4, <4>1
    <3>4. CASE i > from /\ i <= pos
      <4>1. ~(i <= from)
        BY <2>1, <3>1, <3>4
      <4>2. s[i] = lines[i + size]
        BY <2>3, <4>1
      <4>3. t[i] = lines[i]
        BY <2>4, <3>4
      <4> QED
        BY <2>5, <3>4, <4>2, <4>3
    <3>5. i <= from \/ i > pos \/ (i > from /\ i <= pos)
      BY <2>1, <3>1
    <3> QED
      BY <3>2, <3>3, <3>4, <3>5
  <2>7. s = t
    BY <2>3, <2>4, <2>6, SeqEqual
  <2> QED
    BY <2>7 DEF s, t, from
<1>4. n = 0 \/ n > 0
  BY <1>1
<1> QED
  BY <1>2, <1>3, <1>4

LEMMA RepeatsLess ==
  ASSUME NEW lines, NEW pos \in Nat, NEW size \in Nat, NEW n \in Nat, NEW m \in 0..n, Repeats(lines, pos, size, n)
  PROVE  Repeats(lines, pos, size, m)
BY DEF Repeats

\* No line is a mark, and fillers of a kind are one line.
Unmarked == \A e \in Element : "mark" \notin Label[e]
FillersAreEqual ==
  \A e, f \in Element, label \in {"blank", "bare //", "bare #"} :
    label \in Label[e] /\ label \in Label[f] => e = f

LEMMA SlackRepeats ==
  ASSUME NEW lines \in Seq(Element), NEW pos \in Nat, NEW size \in Nat
  PROVE  Slack(pos, size, lines) \in Nat /\ Repeats(lines, pos, size, Slack(pos, size, lines))
<1> DEFINE S == {n \in 0..pos :
                   \A i \in 1..n : pos + size - i < Len(lines) /\ Same(lines, pos - i, pos + size - i)}
<1>1. S \in SUBSET (0..pos) /\ 0 \in S
  OBVIOUS
<1>2. Max(S) \in S
  <2> HIDE DEF S
  <2>1. S # {}
    BY <1>1
  <2> QED
    BY <1>1, <2>1, LargestIsIn
<1>3. Slack(pos, size, lines) = Max(S)
  BY DEF Slack
<1> QED
  BY <1>2, <1>3 DEF Repeats

LEMMA BackRepeats ==
  ASSUME NEW lines \in Seq(Element), NEW pos \in Nat, NEW size \in Nat \ {0}, Unmarked
  PROVE  Repeats(lines, pos, size, Back(pos, size, lines))
<1> DEFINE B == Back(pos, size, lines)
           slack == Slack(pos, size, lines)
           line(i) == lines[pos - i + 1]
           H5 == /\ pos >= 2 /\ pos + size <= Len(lines)
                 /\ Is("},", lines, pos - 2) /\ Is("{", lines, pos - 1)
                 /\ Same(lines, pos - 2, pos + size - 2) /\ Same(lines, pos - 1, pos + size - 1)
           H3b == slack > 0 /\ Is("/*", lines, pos - slack) /\ Is("*/", lines, pos - 1)
           Comments == {n \in 0..slack : \A i \in 1..n : Is("//", lines, pos - i)}
           H7 == slack >= 2 /\ Is("blank", lines, pos - 2) /\ ~Is("blank", lines, pos - 1)
           outdented == {i \in 1..slack : Indent[line(i)] < Indent[line(0)]}
           H2 == /\ slack > 0 /\ Indent[line(slack)] = Indent[line(0)]
                 /\ \A i \in 1..slack : Label[line(i)] \cap {"//", "#"} # {}
           H3 == /\ pos > 0 /\ pos + size <= Len(lines) /\ Same(lines, pos - 1, pos + size - 1)
                 /\ Is("section", lines, pos - 1)
           marks == {i \in 1..slack : Is("mark", lines, pos - i)}
           Edge == /\ pos > 0 /\ pos + size <= Len(lines) /\ Same(lines, pos - 1, pos + size - 1)
<1>1. \/ B = 0
      \/ B = 1 /\ pos >= 2 /\ Edge
      \/ B = slack
      \/ B = Max(Comments)
      \/ B = 1 /\ slack >= 2
      \/ outdented # {} /\ B = Min(outdented)
      \/ B = 1 /\ Edge
      \/ marks # {} /\ B = Max(marks)
      \/ B = 1 /\ Is("mark", lines, pos - 1)
  <2>1. B = IF H5 THEN 1
            ELSE IF H3b THEN slack
            ELSE IF Max(Comments) > 0 THEN Max(Comments)
            ELSE IF H7 THEN 1
            ELSE IF outdented # {} THEN Min(outdented)
            ELSE IF H2 THEN slack
            ELSE IF H3 THEN 1
            ELSE IF marks # {} THEN Max(marks)
            ELSE IF Is("mark", lines, pos - 1) THEN 1
            ELSE 0
    BY DEF Back, Run
  <2>2. H5 => pos >= 2 /\ Edge
    <3>1. pos >= 2 => pos > 0
      OBVIOUS
    <3> QED
      BY <3>1, Zenon
  <2>3. H7 => slack >= 2
    OBVIOUS
  <2>4. H3 => Edge
    OBVIOUS
  <2> HIDE DEF B, slack, H5, H3b, Comments, H7, outdented, H2, H3, marks, Edge
  <2> QED
    BY <2>1, <2>2, <2>3, <2>4
<1>2. slack \in Nat /\ Repeats(lines, pos, size, slack)
  BY SlackRepeats
<1>3. Max(Comments) \in 0..slack
  <2>1. Comments \in SUBSET (0..slack) /\ 0 \in Comments
    BY <1>2
  <2> HIDE DEF Comments, slack
  <2>2. Comments # {}
    BY <2>1
  <2> QED
    BY <1>2, <2>1, <2>2, LargestIsIn
<1>4. outdented # {} => Min(outdented) \in 0..slack
  <2>1. outdented \in SUBSET Nat /\ outdented \in SUBSET (0..slack)
    BY <1>2
  <2> HIDE DEF outdented
  <2> QED
    BY <2>1, SmallestIsIn
<1>5. marks # {} => Max(marks) \in 0..slack
  <2>1. marks \in SUBSET (0..slack)
    BY <1>2
  <2> HIDE DEF marks
  <2> QED
    BY <1>2, <2>1, LargestIsIn
<1>6. ~Is("mark", lines, pos - 1)
  BY DEF Is, Unmarked
<1>7. Edge => Repeats(lines, pos, size, 1)
  BY DEF Repeats
<1>8. Repeats(lines, pos, size, 0)
  BY DEF Repeats
<1> HIDE DEF B, slack, Comments, outdented, marks, Edge
<1>9. B \in 0..slack \/ Repeats(lines, pos, size, B)
  BY <1>1, <1>2, <1>3, <1>4, <1>5, <1>6, <1>7, <1>8
<1> QED
  BY <1>2, <1>9, RepeatsLess DEF B

LEMMA IndexOfLine ==
  ASSUME NEW n \in Nat, NEW i \in 0..n - 1
  PROVE  i + 1 \in 1..n /\ i < n
OBVIOUS

LEMMA ForwardRepeats ==
  ASSUME NEW lines \in Seq(Element), NEW pos \in Nat, NEW size \in Nat \ {0}, FillersAreEqual
  PROVE  /\ Forward(pos, size, lines) \in Nat
         /\ Repeats(lines, pos + Forward(pos, size, lines), size, Forward(pos, size, lines))
<1> DEFINE F == Forward(pos, size, lines)
           kind == {label \in {"blank", "bare //", "bare #"} : Is(label, lines, pos)}
           Filler(i) == \E label \in kind : Is(label, lines, i)
           Within == {n \in 0..size : \A i \in 1..n : Filler(pos + i - 1)}
           After == {n \in 0..Len(lines) : \A i \in 1..n : Filler(pos + size + i - 1)}
<1>0. Len(lines) \in Nat
  OBVIOUS
<1>1. F = IF Max(Within) < Max(After) THEN Max(Within) ELSE Max(After)
  BY DEF Forward, Run
<1>2. Max(Within) \in Within
  <2>1. Within \in SUBSET (0..size) /\ 0 \in Within
    <3> HIDE DEF Filler
    <3> QED
      OBVIOUS
  <2> HIDE DEF Within
  <2>2. Within # {}
    BY <2>1
  <2> QED
    BY <2>1, <2>2, LargestIsIn
<1>3. Max(After) \in After
  <2>1. After \in SUBSET (0..Len(lines)) /\ 0 \in After /\ Len(lines) \in Nat
    <3> HIDE DEF Filler
    <3>1. Len(lines) \in Nat
      OBVIOUS
    <3> QED
      BY <3>1
  <2> HIDE DEF After
  <2>2. After # {}
    BY <2>1
  <2> QED
    BY <2>1, <2>2, LargestIsIn
<1>4. /\ F \in Nat /\ \A i \in 1..F : Filler(pos + i - 1) /\ Filler(pos + size + i - 1)
  <2> DEFINE m == Max(Within)  n == Max(After)
  <2>1. /\ m \in Nat /\ \A i \in 1..m : Filler(pos + i - 1)
        /\ n \in Nat /\ \A i \in 1..n : Filler(pos + size + i - 1)
    <3> HIDE DEF Filler, F
    <3>1. Len(lines) \in Nat
      OBVIOUS
    <3>2. m \in 0..size /\ \A i \in 1..m : Filler(pos + i - 1)
      BY <1>2
    <3>3. n \in 0..Len(lines) /\ \A i \in 1..n : Filler(pos + size + i - 1)
      BY <1>3
    <3> HIDE DEF m, n
    <3>4. m \in Nat /\ n \in Nat
      BY <3>1, <3>2, <3>3
    <3> QED
      BY <3>2, <3>3, <3>4
  <2>2. F = IF m < n THEN m ELSE n
    BY <1>1
  <2> HIDE DEF m, n, Filler, F
  <2>3. F \in Nat /\ F <= m /\ F <= n
    BY <2>1, <2>2
  <2>4. ASSUME NEW i \in 1..F PROVE i \in 1..m /\ i \in 1..n
    BY <2>1, <2>3
  <2> QED
    BY <2>1, <2>3, <2>4
<1>5. ASSUME NEW i \in Int, NEW j \in Int, Filler(i), Filler(j)
      PROVE  j < Len(lines) /\ Same(lines, i, j)
  <2>1. PICK l1 \in kind : Is(l1, lines, i)
    BY <1>5
  <2>2. PICK l2 \in kind : Is(l2, lines, j)
    BY <1>5
  <2>3. Is(l1, lines, pos) /\ Is(l2, lines, pos) /\ l1 \in {"blank", "bare //", "bare #"}
        /\ l2 \in {"blank", "bare //", "bare #"}
    OBVIOUS
  <2>4. lines[i + 1] \in Element /\ lines[j + 1] \in Element /\ lines[pos + 1] \in Element /\ j < Len(lines)
    <3> DEFINE L == Len(lines)
    <3>1. L \in Nat
      BY <1>0
    <3>2. i \in 0..L - 1 /\ j \in 0..L - 1 /\ pos \in 0..L - 1
      BY ONLY <2>1, <2>2, <2>3, Zenon DEF Is
    <3> HIDE DEF L
    <3>3. i + 1 \in 1..L /\ j + 1 \in 1..L /\ pos + 1 \in 1..L /\ j < L
      BY ONLY <3>1, <3>2, IndexOfLine
    <3> QED
      BY <3>3, ElementOfSeq DEF L
  <2>5. lines[i + 1] = lines[pos + 1] /\ lines[j + 1] = lines[pos + 1]
    BY <2>1, <2>2, <2>3, <2>4 DEF Is, FillersAreEqual
  <2> QED
    BY <2>4, <2>5 DEF Same
<1>6. ASSUME NEW i \in 1..F
      PROVE  (pos + F) + size - i < Len(lines) /\ Same(lines, (pos + F) - i, (pos + F) + size - i)
  <2> HIDE DEF F, Filler
  <2>1. F - i + 1 \in 1..F
    BY <1>4
  <2>2. Filler(pos + (F - i + 1) - 1) /\ Filler(pos + size + (F - i + 1) - 1)
    BY <1>4, <2>1
  <2>3. /\ pos + (F - i + 1) - 1 = (pos + F) - i /\ (pos + F) - i \in Int
        /\ pos + size + (F - i + 1) - 1 = (pos + F) + size - i /\ (pos + F) + size - i \in Int
    BY <1>4
  <2> QED
    BY <1>5, <2>2, <2>3
<1> HIDE DEF F
<1>7. F \in 0..pos + F
  <2>1. F \in Nat
    BY <1>4
  <2> QED
    BY <2>1
<1> QED
  BY <1>4, <1>6, <1>7 DEF Repeats, F

LEMMA AdjustingKeeps ==
  ASSUME NEW lines \in Seq(Element), NEW pos \in Nat, NEW size \in Nat, Unmarked, FillersAreEqual
  PROVE  /\ Adjusted(pos, size, lines) \in Nat
         /\ Without(lines, Adjusted(pos, size, lines), size) = Without(lines, pos, size)
<1>1. CASE pos \notin 0..Len(lines) - 1 \/ size < 1
  BY <1>1 DEF Adjusted
<1>2. CASE ~(pos \notin 0..Len(lines) - 1 \/ size < 1)
  <2> DEFINE B == Back(pos, size, lines)  back == pos - B  F == Forward(back, size, lines)
  <2>1. size \in Nat \ {0}
    BY <1>2
  <2>2. Repeats(lines, pos, size, B)
    BY <2>1, BackRepeats
  <2>3. Adjusted(pos, size, lines) = back + F
    BY <1>2 DEF Adjusted
  <2>4. B \in 0..pos
    BY <2>2 DEF Repeats
  <2> HIDE DEF B
  <2>5. back \in Nat /\ Without(lines, back, size) = Without(lines, pos, size)
    BY <2>2, <2>4, RepeatsKeep
  <2> HIDE DEF back
  <2>6. F \in Nat /\ Repeats(lines, back + F, size, F)
    BY <2>1, <2>5, ForwardRepeats
  <2> HIDE DEF F
  <2>7. back + F \in Nat /\ (back + F) - F = back
    BY <2>5, <2>6
  <2>8. Without(lines, (back + F) - F, size) = Without(lines, back + F, size)
    BY <2>6, <2>7, RepeatsKeep
  <2> QED
    BY <2>3, <2>5, <2>7, <2>8
<1> QED
  BY <1>1, <1>2

LEMMA SlidingKeeps ==
  ASSUME Unmarked, FillersAreEqual, ScriptIsSound
  PROVE  SlidBlocksAreTheSameEdit
<1> DEFINE script == Presented(hunks, TRUE, TRUE)
<1> SUFFICES ASSUME status = "complete", job = "compute", NEW i \in DOMAIN script
             PROVE  LET h == script[i]
                    IN CASE h.type = "Insert" ->
                              Without(right, Slid(h).rs, h.rc) = Without(right, h.rs, h.rc)
                         [] h.type = "Delete" ->
                              Without(left, Slid(h).ls, h.lc) = Without(left, h.ls, h.lc)
                         [] OTHER -> Slid(h) = h
  BY DEF SlidBlocksAreTheSameEdit
<1> DEFINE h == script[i]
<1>1. h \in [type : Type, ls : Nat, lc : Nat, rs : Nat, rc : Nat]
  BY DEF ScriptIsSound, ScriptIsValid, ValidScript, Fits
<1>2. left \in Seq(Element) /\ right \in Seq(Element)
  BY DEF ScriptIsSound, TypeOK
<1> HIDE DEF h, script
<1>3. CASE h.type = "Insert"
  <2> DEFINE new == Adjusted(h.rs, h.rc, right)
  <2>1. new \in Nat /\ Without(right, new, h.rc) = Without(right, h.rs, h.rc)
    BY <1>1, <1>2, AdjustingKeeps
  <2>2. Slid(h) = [h EXCEPT !.ls = @ + (new - h.rs), !.rs = @ + (new - h.rs)]
    BY <1>3 DEF Slid
  <2> HIDE DEF new
  <2>3. Slid(h).rs = new
    BY <1>1, <2>1, <2>2
  <2> QED
    BY <1>3, <2>1, <2>3 DEF h
<1>4. CASE h.type = "Delete"
  <2> DEFINE new == Adjusted(h.ls, h.lc, left)
  <2>1. new \in Nat /\ Without(left, new, h.lc) = Without(left, h.ls, h.lc)
    BY <1>1, <1>2, AdjustingKeeps
  <2>2. Slid(h) = [h EXCEPT !.ls = @ + (new - h.ls), !.rs = @ + (new - h.ls)]
    BY <1>4 DEF Slid
  <2> HIDE DEF new
  <2>3. Slid(h).ls = new
    BY <1>1, <2>1, <2>2
  <2> QED
    BY <1>4, <2>1, <2>3 DEF h
<1>5. CASE h.type # "Insert" /\ h.type # "Delete"
  <2>1. Slid(h) = [h EXCEPT !.ls = @ + 0, !.rs = @ + 0]
    BY <1>5 DEF Slid
  <2>2. h.ls + 0 = h.ls /\ h.rs + 0 = h.rs
    BY <1>1
  <2>3. [h EXCEPT !.ls = @ + 0, !.rs = @ + 0] = [[h EXCEPT !.ls = h.ls] EXCEPT !.rs = h.rs]
    BY ONLY <2>2
  <2>4. [[h EXCEPT !.ls = h.ls] EXCEPT !.rs = h.rs] = h
    BY ONLY <1>1
  <2>5. Slid(h) = h
    BY <2>1, <2>3, <2>4
  <2> QED
    BY <1>5, <2>5 DEF h
<1> QED
  BY <1>3, <1>4, <1>5

-----------------------------------------------------------------------------
(* The search stays inside its array and both sequences.  In a round, the  *)
(* diagonals below Delta are collected upwards and those above downwards,  *)
(* so each point is at least as far as the one before it.  Hence a round   *)
(* that does not find the end leaves every point short of it, and the next *)
(* one starts inside.                                                      *)

\* Collected in this round, before diagonal here; and in the round before only.
Visited(gap, round, here, d) ==
  \/ d \in -round..gap - 1 /\ (d < here \/ here >= gap)
  \/ d \in gap + 1..gap + round /\ here >= gap /\ d > here
Earlier(gap, round, here, d) ==
  round > 0 /\ d \in 1 - round..gap + round - 1 /\ ~Visited(gap, round, here, d)

\* The last diagonal below Delta that was collected.
Below(gap, here) == (IF here < gap THEN here ELSE gap) - 1

Untouched(f, m, gap, round, here) ==
  \A d \in -(m + 1)..m + gap + 1 :
    ~Visited(gap, round, here, d) /\ ~Earlier(gap, round, here, d) => f[d] = -1
SweptBelow(f, m, gap, round, here) ==
  \A d \in -round..gap - 1 : Visited(gap, round, here, d) =>
    f[d] - d \in round..m /\ f[d] - d <= f[Below(gap, here)] - Below(gap, here)
SweptAbove(f, m, gap, round, here) ==
  \A d \in gap + 1..gap + round : Visited(gap, round, here, d) =>
    f[d] - d >= 0 /\ f[d] <= m + gap /\ f[d] <= f[here + 1]
LeftBelow(f, m, gap, round, here) ==
  \A d \in 1 - round..gap : Earlier(gap, round, here, d) => f[d] - d \in round - 1..m - 1
LeftAbove(f, m, gap, round, here) ==
  \A d \in gap + 1..gap + round - 1 : Earlier(gap, round, here, d) =>
    f[d] - d >= 0 /\ f[d] <= m + gap - 1

Swept(f, m, gap, round, here) ==
  /\ round \in 0..m /\ here \in -round..gap + round
  /\ Untouched(f, m, gap, round, here)
  /\ SweptBelow(f, m, gap, round, here) /\ SweptAbove(f, m, gap, round, here)
  /\ LeftBelow(f, m, gap, round, here) /\ LeftAbove(f, m, gap, round, here)

Table(f, m, gap) ==
  /\ f \in [-(m + 1)..m + gap + 1 -> Int]
  /\ \A d \in -(m + 1)..m + gap + 1 : f[d] \in -1..m + gap /\ f[d] - d <= m

\* The point the step to diagonal here starts from.
From(f, here) == IF f[here - 1] + 1 > f[here + 1] THEN f[here - 1] + 1 ELSE f[here + 1]

\* What is reached on diagonal here.
Reaches(f, m, gap, round, here, y) ==
  /\ y \in 0..m + gap /\ y - here \in 0..m
  /\ y >= f[here - 1] + 1 /\ y >= f[here + 1]
  /\ here <= gap => y - here >= round

LEMMA SweepStarts ==
  ASSUME NEW m \in Nat \ {0}, NEW gap \in Nat, NEW f,
         f = [d \in -(m + 1)..m + gap + 1 |-> -1]
  PROVE  Table(f, m, gap) /\ Swept(f, m, gap, 0, 0)
<1>1. \A d \in -(m + 1)..m + gap + 1 : f[d] = -1
  OBVIOUS
<1>2. \A d \in Int : ~Visited(gap, 0, 0, d) /\ ~Earlier(gap, 0, 0, d)
  BY DEF Visited, Earlier
<1>3. Table(f, m, gap)
  BY <1>1 DEF Table
<1>4. Untouched(f, m, gap, 0, 0)
  BY <1>1 DEF Untouched
<1>5. SweptBelow(f, m, gap, 0, 0) /\ SweptAbove(f, m, gap, 0, 0)
  BY <1>2 DEF SweptBelow, SweptAbove
<1>6. LeftBelow(f, m, gap, 0, 0) /\ LeftAbove(f, m, gap, 0, 0)
  BY <1>2 DEF LeftBelow, LeftAbove
<1> QED
  BY <1>3, <1>4, <1>5, <1>6 DEF Swept

LEMMA SweepReaches ==
  ASSUME NEW m \in Nat \ {0}, NEW gap \in Nat, NEW f, NEW round, NEW here,
         Table(f, m, gap), Swept(f, m, gap, round, here)
  PROVE  /\ From(f, here) \in 0..m + gap /\ From(f, here) - here \in 0..m
         /\ From(f, here) >= f[here - 1] + 1 /\ From(f, here) >= f[here + 1]
         /\ here <= gap => From(f, here) - here >= round
<1> DEFINE y == From(f, here)  u == f[here - 1]  v == f[here + 1]
<1>1. /\ round \in Nat /\ round <= m /\ here \in Int /\ -round <= here /\ here <= gap + round
      /\ here - 1 \in -(m + 1)..m + gap + 1 /\ here + 1 \in -(m + 1)..m + gap + 1
  BY DEF Swept
<1>2. u \in Int /\ v \in Int
  BY <1>1 DEF Table
<1>3. y = IF u + 1 > v THEN u + 1 ELSE v
  BY DEF From
<1>4. CASE here < gap
  <2>1. u - (here - 1) \in round..m
    <3>1. CASE here = -round
      <4>1. ~Visited(gap, round, here, here - 1) /\ ~Earlier(gap, round, here, here - 1)
        BY <1>1, <1>4, <3>1 DEF Visited, Earlier
      <4>2. u = -1
        BY <1>1, <4>1 DEF Swept, Untouched
      <4> QED
        BY <1>1, <3>1, <4>2
    <3>2. CASE here > -round
      <4>1. here - 1 \in -round..gap - 1 /\ Visited(gap, round, here, here - 1)
        BY <1>1, <1>4, <3>2 DEF Visited
      <4> QED
        BY <4>1 DEF Swept, SweptBelow
    <3> QED
      BY <1>1, <3>1, <3>2
  <2>2. v = -1 \/ v - (here + 1) \in 0..m - 1
    <3>1. ~Visited(gap, round, here, here + 1)
      BY <1>1, <1>4 DEF Visited
    <3>2. CASE round = 0
      <4>1. ~Earlier(gap, round, here, here + 1)
        BY <3>2 DEF Earlier
      <4> QED
        BY <1>1, <3>1, <4>1 DEF Swept, Untouched
    <3>3. CASE round > 0
      <4>1. here + 1 \in 1 - round..gap /\ Earlier(gap, round, here, here + 1)
        BY <1>1, <1>4, <3>1, <3>3 DEF Earlier
      <4>2. v - (here + 1) \in round - 1..m - 1
        BY <4>1 DEF Swept, LeftBelow
      <4> QED
        BY <1>1, <1>2, <3>3, <4>2
    <3> QED
      BY <1>1, <3>2, <3>3
  <2> HIDE DEF y, u, v
  <2> QED
    BY <1>1, <1>2, <1>3, <1>4, <2>1, <2>2 DEF y, u, v
<1>5. CASE here > gap
  <2>1. round > 0
    BY <1>1, <1>5
  <2>2. u - (here - 1) >= 0 /\ u <= m + gap - 1
    <3>1. Earlier(gap, round, here, here - 1)
      BY <1>1, <1>5, <2>1 DEF Earlier, Visited
    <3>2. CASE here - 1 = gap
      <4>1. here - 1 \in 1 - round..gap
        BY <1>1, <2>1, <3>2
      <4>2. u - (here - 1) \in round - 1..m - 1
        BY <3>1, <4>1 DEF Swept, LeftBelow
      <4> QED
        BY <1>1, <1>2, <2>1, <3>2, <4>2
    <3>3. CASE here - 1 > gap
      <4>1. here - 1 \in gap + 1..gap + round - 1
        BY <1>1, <3>3
      <4> QED
        BY <3>1, <4>1 DEF Swept, LeftAbove
    <3> QED
      BY <1>1, <1>5, <3>2, <3>3
  <2>3. v <= m + gap
    BY <1>1 DEF Table
  <2> HIDE DEF y, u, v
  <2> QED
    BY <1>1, <1>2, <1>3, <1>5, <2>2, <2>3 DEF y, u, v
<1>6. CASE here = gap
  <2>1. u - (gap - 1) \in round..m
    <3>1. CASE round = 0 /\ gap = 0
      <4>1. ~Visited(gap, round, here, here - 1) /\ ~Earlier(gap, round, here, here - 1)
        BY <1>6, <3>1 DEF Visited, Earlier
      <4>2. u = -1
        BY <1>1, <4>1 DEF Swept, Untouched
      <4> QED
        BY <1>1, <3>1, <4>2
    <3>2. CASE round > 0 \/ gap > 0
      <4>1. here - 1 \in -round..gap - 1 /\ Visited(gap, round, here, here - 1)
        BY <1>1, <1>6, <3>2 DEF Visited
      <4> QED
        BY <1>6, <4>1 DEF Swept, SweptBelow
    <3> QED
      BY <1>1, <3>1, <3>2
  <2>2. v <= m + gap
    BY <1>1 DEF Table
  <2> HIDE DEF y, u, v
  <2> QED
    BY <1>1, <1>2, <1>3, <1>6, <2>1, <2>2 DEF y, u, v
<1> QED
  BY <1>1, <1>4, <1>5, <1>6

LEMMA TableKeeps ==
  ASSUME NEW m \in Nat \ {0}, NEW gap \in Nat, NEW f, NEW here, NEW y \in Int,
         Table(f, m, gap), y \in 0..m + gap, y - here \in 0..m
  PROVE  Table([f EXCEPT ![here] = y], m, gap)
<1> DEFINE g == [f EXCEPT ![here] = y]
<1>1. /\ f \in [-(m + 1)..m + gap + 1 -> Int]
      /\ \A d \in -(m + 1)..m + gap + 1 : f[d] \in -1..m + gap /\ f[d] - d <= m
  BY DEF Table
<1>2. g \in [-(m + 1)..m + gap + 1 -> Int]
  BY <1>1
<1>3. ASSUME NEW d \in -(m + 1)..m + gap + 1
      PROVE  g[d] \in -1..m + gap /\ g[d] - d <= m
  <2>1. CASE d = here
    <3>1. g[d] = y
      BY <1>1, <2>1
    <3>2. y \in -1..m + gap /\ y - d <= m
      BY <2>1
    <3> QED
      BY <3>1, <3>2
  <2>2. CASE d # here
    <3>1. g[d] = f[d]
      BY <1>1, <2>2
    <3> QED
      BY <1>1, <3>1
  <2> QED
    BY <2>1, <2>2
<1> QED
  BY <1>2, <1>3 DEF Table

\* The diagonal that follows within a round (Following).
Succeeding(gap, round, here) ==
  IF here > gap THEN here - 1
  ELSE IF here < gap - 1 THEN here + 1
  ELSE IF round > 0 THEN gap + round ELSE gap

LEMMA SweepGoesOn ==
  ASSUME NEW m \in Nat \ {0}, NEW gap \in Nat, NEW f, NEW round, NEW here, NEW y,
         Table(f, m, gap), Swept(f, m, gap, round, here), here # gap,
         Reaches(f, m, gap, round, here, y)
  PROVE  Swept([f EXCEPT ![here] = y], m, gap, round, Succeeding(gap, round, here))
<1> DEFINE g == [f EXCEPT ![here] = y]  next == Succeeding(gap, round, here)
<1>1. /\ round \in Nat /\ round <= m /\ here \in Int /\ -round <= here /\ here <= gap + round
      /\ here \in -(m + 1)..m + gap + 1
  BY DEF Swept
<1>2. /\ y \in Int /\ y - here \in 0..m /\ y <= m + gap
      /\ y >= f[here - 1] + 1 /\ y >= f[here + 1] /\ (here <= gap => y - here >= round)
  BY DEF Reaches
<1>3. /\ DOMAIN f = -(m + 1)..m + gap + 1
      /\ \A d \in -(m + 1)..m + gap + 1 : f[d] \in Int
  BY DEF Table
<1>4. g[here] = y /\ \A d \in -(m + 1)..m + gap + 1 : d # here => g[d] = f[d]
  BY <1>1, <1>3
<1> HIDE DEF g
<1>5. \/ here < gap - 1 /\ next = here + 1
      \/ here = gap - 1 /\ round > 0 /\ next = gap + round
      \/ here = gap - 1 /\ round = 0 /\ next = gap
      \/ here > gap /\ next = here - 1
  BY <1>1 DEF Succeeding
<1> HIDE DEF next
<1>6. next \in -round..gap + round
  BY <1>1, <1>5
<1>7. ASSUME NEW d \in Int
      PROVE  Visited(gap, round, next, d) <=> Visited(gap, round, here, d) \/ d = here
  BY <1>1, <1>5 DEF Visited
<1>8. ASSUME NEW d \in Int
      PROVE  Earlier(gap, round, next, d) <=> Earlier(gap, round, here, d) /\ d # here
  <2>1. Visited(gap, round, next, d) <=> Visited(gap, round, here, d) \/ d = here
    BY <1>7
  <2> QED
    BY <2>1 DEF Earlier
<1>9. Untouched(g, m, gap, round, next)
  <2> SUFFICES ASSUME NEW d \in -(m + 1)..m + gap + 1,
                      ~Visited(gap, round, next, d), ~Earlier(gap, round, next, d)
               PROVE  g[d] = -1
    BY DEF Untouched
  <2>1. d # here /\ ~Visited(gap, round, here, d) /\ ~Earlier(gap, round, here, d)
    BY <1>7, <1>8
  <2>2. f[d] = -1
    BY <2>1 DEF Swept, Untouched
  <2> QED
    BY <1>4, <2>1, <2>2
<1>10. LeftBelow(g, m, gap, round, next)
  <2> SUFFICES ASSUME NEW d \in 1 - round..gap, Earlier(gap, round, next, d)
               PROVE  g[d] - d \in round - 1..m - 1
    BY DEF LeftBelow
  <2>1. d # here /\ Earlier(gap, round, here, d) /\ d \in -(m + 1)..m + gap + 1
    BY <1>1, <1>8
  <2>2. f[d] - d \in round - 1..m - 1
    BY <2>1 DEF Swept, LeftBelow
  <2> QED
    BY <1>4, <2>1, <2>2
<1>11. LeftAbove(g, m, gap, round, next)
  <2> SUFFICES ASSUME NEW d \in gap + 1..gap + round - 1, Earlier(gap, round, next, d)
               PROVE  g[d] - d >= 0 /\ g[d] <= m + gap - 1
    BY DEF LeftAbove
  <2>1. d # here /\ Earlier(gap, round, here, d) /\ d \in -(m + 1)..m + gap + 1
    BY <1>1, <1>8
  <2>2. f[d] - d >= 0 /\ f[d] <= m + gap - 1
    BY <2>1 DEF Swept, LeftAbove
  <2> QED
    BY <1>4, <2>1, <2>2
<1>12. SweptBelow(g, m, gap, round, next)
  <2> SUFFICES ASSUME NEW d \in -round..gap - 1, Visited(gap, round, next, d)
               PROVE  g[d] - d \in round..m /\ g[d] - d <= g[Below(gap, next)] - Below(gap, next)
    BY DEF SweptBelow
  <2>0. d \in -(m + 1)..m + gap + 1 /\ d \in Int
    BY <1>1
  <2>1. CASE here < gap
    <3>1. Below(gap, next) = here /\ Below(gap, here) = here - 1
      BY <1>1, <1>5, <2>1 DEF Below
    <3>2. y - here \in round..m
      BY <1>1, <1>2, <2>1
    <3>3. CASE d = here
      BY <1>1, <1>2, <1>4, <3>1, <3>2, <3>3
    <3>4. CASE d # here
      <4>1. Visited(gap, round, here, d)
        BY <1>7, <3>4
      <4>2. f[d] - d \in round..m /\ f[d] - d <= f[here - 1] - (here - 1)
        BY <3>1, <4>1 DEF Swept, SweptBelow
      <4>3. d < here
        BY <1>1, <2>1, <4>1 DEF Visited
      <4>4. here - 1 \in -(m + 1)..m + gap + 1 /\ f[here - 1] \in Int /\ f[d] \in Int
        BY <1>1, <1>3, <2>0
      <4>5. f[d] - d <= y - here
        BY <1>1, <1>2, <2>0, <4>2, <4>4
      <4>6. g[d] = f[d] /\ g[here] = y
        BY <1>4, <2>0, <3>4
      <4> QED
        BY <3>1, <4>2, <4>5, <4>6
    <3> QED
      BY <3>3, <3>4
  <2>2. CASE here > gap
    <3>1. Below(gap, next) = gap - 1 /\ Below(gap, here) = gap - 1
      BY <1>1, <1>5, <2>2 DEF Below
    <3>2. d # here /\ gap - 1 # here /\ gap - 1 \in -(m + 1)..m + gap + 1
      BY <1>1, <2>2
    <3>3. f[d] - d \in round..m /\ f[d] - d <= f[gap - 1] - (gap - 1)
      <4>1. Visited(gap, round, here, d)
        BY <1>7, <3>2
      <4> QED
        BY <3>1, <4>1 DEF Swept, SweptBelow
    <3>4. g[d] = f[d] /\ g[gap - 1] = f[gap - 1]
      BY <1>4, <2>0, <3>2
    <3> QED
      BY <3>1, <3>3, <3>4
  <2> QED
    BY <1>1, <2>1, <2>2
<1>13. SweptAbove(g, m, gap, round, next)
  <2> SUFFICES ASSUME NEW d \in gap + 1..gap + round, Visited(gap, round, next, d)
               PROVE  g[d] - d >= 0 /\ g[d] <= m + gap /\ g[d] <= g[next + 1]
    BY DEF SweptAbove
  <2>1. here > gap /\ next = here - 1 /\ next + 1 = here
    BY <1>1, <1>5 DEF Visited
  <2>2. d \in -(m + 1)..m + gap + 1 /\ d \in Int
    BY <1>1
  <2>3. CASE d = here
    BY <1>1, <1>2, <1>4, <2>1, <2>3
  <2>4. CASE d # here
    <3>1. Visited(gap, round, here, d)
      BY <1>7, <2>4
    <3>2. f[d] - d >= 0 /\ f[d] <= m + gap /\ f[d] <= f[here + 1]
      BY <3>1 DEF Swept, SweptAbove
    <3>3. here + 1 \in -(m + 1)..m + gap + 1 /\ f[here + 1] \in Int /\ f[d] \in Int
      BY <1>1, <1>3, <2>2
    <3>4. f[d] <= y
      BY <1>2, <3>2, <3>3
    <3>5. g[d] = f[d] /\ g[here] = y
      BY <1>4, <2>2, <2>4
    <3> QED
      BY <2>1, <3>2, <3>4, <3>5
  <2> QED
    BY <2>3, <2>4
<1> QED
  BY <1>1, <1>6, <1>9, <1>10, <1>11, <1>12, <1>13 DEF Swept, g, next

LEMMA RoundEnds ==
  ASSUME NEW m \in Nat \ {0}, NEW gap \in Nat, NEW f, NEW round, NEW y,
         Table(f, m, gap), Swept(f, m, gap, round, gap),
         Reaches(f, m, gap, round, gap, y), y # m + gap
  PROVE  Swept([f EXCEPT ![gap] = y], m, gap, round + 1, -(round + 1))
<1> DEFINE g == [f EXCEPT ![gap] = y]  next == -(round + 1)
<1>1. /\ round \in Nat /\ round <= m /\ gap \in -(m + 1)..m + gap + 1
  BY DEF Swept
<1>2. /\ y \in Int /\ y - gap \in round..m - 1 /\ y <= m + gap - 1
      /\ y >= f[gap - 1] + 1 /\ y >= f[gap + 1]
  BY <1>1 DEF Reaches
<1>3. /\ DOMAIN f = -(m + 1)..m + gap + 1
      /\ \A d \in -(m + 1)..m + gap + 1 : f[d] \in Int
  BY DEF Table
<1>4. g[gap] = y /\ \A d \in -(m + 1)..m + gap + 1 : d # gap => g[d] = f[d]
  BY <1>1, <1>3
<1> HIDE DEF g
<1>5. round + 1 \in 0..m /\ next \in -(round + 1)..gap + (round + 1)
  BY <1>1, <1>2
<1>6. ASSUME NEW d \in Int PROVE ~Visited(gap, round + 1, next, d)
  BY <1>1 DEF Visited
<1>7. ASSUME NEW d \in Int
      PROVE  Earlier(gap, round + 1, next, d) <=> d \in -round..gap + round
  <2>1. 1 - (round + 1) = -round /\ gap + (round + 1) - 1 = gap + round /\ round + 1 > 0
    BY <1>1
  <2> QED
    BY <1>6, <2>1 DEF Earlier
<1>8. Untouched(g, m, gap, round + 1, next)
  <2> SUFFICES ASSUME NEW d \in -(m + 1)..m + gap + 1, d \notin -round..gap + round
               PROVE  g[d] = -1
    BY <1>6, <1>7 DEF Untouched
  <2>1. d # gap /\ ~Visited(gap, round, gap, d) /\ ~Earlier(gap, round, gap, d)
    BY <1>1 DEF Visited, Earlier
  <2>2. f[d] = -1
    BY <2>1 DEF Swept, Untouched
  <2> QED
    BY <1>4, <2>1, <2>2
<1>9. SweptBelow(g, m, gap, round + 1, next) /\ SweptAbove(g, m, gap, round + 1, next)
  BY <1>1, <1>6 DEF SweptBelow, SweptAbove
<1>10. LeftBelow(g, m, gap, round + 1, next)
  <2> SUFFICES ASSUME NEW d \in -round..gap
               PROVE  g[d] - d \in round..m - 1
    <3>1. 1 - (round + 1) = -round /\ (round + 1) - 1 = round
      BY <1>1
    <3> QED
      BY <3>1 DEF LeftBelow
  <2>1. CASE d = gap
    BY <1>2, <1>4, <2>1
  <2>2. CASE d # gap
    <3>1. d \in -round..gap - 1 /\ Visited(gap, round, gap, d) /\ d \in -(m + 1)..m + gap + 1
      BY <1>1, <2>2 DEF Visited
    <3>2. Below(gap, gap) = gap - 1
      BY DEF Below
    <3>3. f[d] - d \in round..m /\ f[d] - d <= f[gap - 1] - (gap - 1)
      BY <3>1, <3>2 DEF Swept, SweptBelow
    <3>4. gap - 1 \in -(m + 1)..m + gap + 1 /\ f[gap - 1] \in Int /\ f[d] \in Int /\ d \in Int
      BY <1>1, <1>3, <3>1
    <3>5. f[d] - d \in round..m - 1
      BY <1>1, <1>2, <3>3, <3>4
    <3> QED
      BY <1>4, <2>2, <3>1, <3>5
  <2> QED
    BY <2>1, <2>2
<1>11. LeftAbove(g, m, gap, round + 1, next)
  <2> SUFFICES ASSUME NEW d \in gap + 1..gap + round
               PROVE  g[d] - d >= 0 /\ g[d] <= m + gap - 1
    <3>1. gap + (round + 1) - 1 = gap + round
      BY <1>1
    <3> QED
      BY <3>1 DEF LeftAbove
  <2>1. Visited(gap, round, gap, d) /\ d # gap /\ d \in -(m + 1)..m + gap + 1
    BY <1>1 DEF Visited
  <2>2. f[d] - d >= 0 /\ f[d] <= f[gap + 1]
    BY <2>1 DEF Swept, SweptAbove
  <2>3. gap + 1 \in -(m + 1)..m + gap + 1 /\ f[gap + 1] \in Int /\ f[d] \in Int
    BY <1>1, <1>3, <2>1
  <2>4. f[d] <= m + gap - 1
    BY <1>2, <2>2, <2>3
  <2> QED
    BY <1>4, <2>1, <2>2, <2>4
<1> QED
  BY <1>5, <1>8, <1>9, <1>10, <1>11 DEF Swept, g

Entry == [k : Int, y : Int, dir : {-1, 1}]

SearchInv ==
  /\ job \in {"compute", "count"} /\ left \in Seq(Element) /\ right \in Seq(Element)
  /\ status \in {"asked", "searching", "complete", "tooMany", "stopped"}
  /\ a \in Seq(Element) /\ b \in Seq(Element) /\ M <= N
  /\ p \in 0..M /\ k \in -M..N
  /\ Table(fp, M, Delta)
  /\ trace \in Seq(Entry)
  /\ \A i \in 1..Len(trace) : trace[i].y \in 0..N /\ trace[i].y - trace[i].k \in 0..M
  /\ status = "searching" => M > 0 /\ Swept(fp, M, Delta, p, k)

LEMMA SnakeStays ==
  ASSUME a \in Seq(Element), b \in Seq(Element), NEW d \in Int, NEW y \in 0..N, y - d \in 0..M
  PROVE  SnakeEnd(d, y) \in y..N /\ SnakeEnd(d, y) - d \in (y - d)..M
<1> DEFINE x == y - d
           S == {n \in 1..M : x + n <= M /\ y + n <= N /\ \A i \in 1..n : a[x + i] = b[y + i]}
<1>1. M \in Nat /\ N \in Nat
  BY DEF M, N
<1>2. S \union {0} \in SUBSET (0..M) /\ S \union {0} # {}
  BY <1>1
<1>3. \A n \in S \union {0} : n \in Nat /\ x + n <= M /\ y + n <= N
  BY <1>1
<1>4. SnakeEnd(d, y) = y + Max(S \union {0})
  BY DEF SnakeEnd
<1> HIDE DEF S
<1>5. Max(S \union {0}) \in S \union {0}
  BY <1>1, <1>2, LargestIsIn
<1> DEFINE n == Max(S \union {0})
<1>6. n \in Nat /\ x + n <= M /\ y + n <= N
  BY <1>3, <1>5
<1> HIDE DEF n
<1>7. SnakeEnd(d, y) = y + n
  BY <1>4 DEF n
<1> QED
  BY <1>1, <1>6, <1>7

LEMMA Sizes ==
  ASSUME SearchInv
  PROVE  M \in Nat /\ N \in Nat /\ Delta \in Nat /\ M + Delta = N
BY DEF SearchInv, M, N, Delta

LEMMA CollectingReaches ==
  ASSUME SearchInv, status = "searching"
  PROVE  Reaches(fp, M, Delta, p, k, Furthest(k))
<1>1. M \in Nat \ {0} /\ N \in Nat /\ Delta \in Nat /\ M + Delta = N
  BY Sizes DEF SearchInv
<1>2. Table(fp, M, Delta) /\ Swept(fp, M, Delta, p, k)
  BY DEF SearchInv
<1>3. /\ From(fp, k) \in 0..M + Delta /\ From(fp, k) - k \in 0..M
      /\ From(fp, k) >= fp[k - 1] + 1 /\ From(fp, k) >= fp[k + 1]
      /\ k <= Delta => From(fp, k) - k >= p
  BY <1>1, <1>2, SweepReaches
<1>4. Furthest(k) = SnakeEnd(k, From(fp, k))
  BY DEF Furthest, Inserting, From
<1>5. k \in Int /\ p \in Int
  BY <1>1 DEF SearchInv
<1>6. From(fp, k) \in 0..N
  BY <1>1, <1>3
<1>7. /\ Furthest(k) \in From(fp, k)..N
      /\ Furthest(k) - k \in (From(fp, k) - k)..M
  BY <1>3, <1>4, <1>5, <1>6, SnakeStays DEF SearchInv
<1>8. fp[k - 1] \in Int /\ fp[k + 1] \in Int
  <2>1. k - 1 \in -(M + 1)..M + Delta + 1 /\ k + 1 \in -(M + 1)..M + Delta + 1
    BY <1>1 DEF SearchInv
  <2> QED
    BY <1>2, <2>1 DEF Table
<1> DEFINE y0 == From(fp, k)  y == Furthest(k)  u == fp[k - 1]  v == fp[k + 1]
<1>9. /\ y0 \in Int /\ u \in Int /\ v \in Int /\ y \in y0..N /\ y - k \in (y0 - k)..M
      /\ y0 \in 0..N /\ y0 - k \in 0..M /\ y0 >= u + 1 /\ y0 >= v /\ (k <= Delta => y0 - k >= p)
  BY <1>3, <1>6, <1>7, <1>8
<1> HIDE DEF y0, y, u, v
<1>10. /\ y \in 0..M + Delta /\ y - k \in 0..M /\ y >= u + 1 /\ y >= v
       /\ k <= Delta => y - k >= p
  BY <1>1, <1>5, <1>9
<1> QED
  BY <1>10 DEF Reaches, y, u, v

LEMMA CollectKeeps ==
  ASSUME SearchInv, Collect
  PROVE  /\ Table(fp', M, Delta) /\ a' = a /\ b' = b /\ M' = M /\ N' = N /\ Delta' = Delta
         /\ trace' \in Seq(Entry)
         /\ \A i \in 1..Len(trace') : trace'[i].y \in 0..N /\ trace'[i].y - trace'[i].k \in 0..M
         /\ job' = job /\ left' = left /\ right' = right
<1> DEFINE y == Furthest(k)  e == [k |-> k, y |-> y, dir |-> Direction(k)]
<1>1. M \in Nat \ {0} /\ N \in Nat /\ Delta \in Nat /\ M + Delta = N /\ k \in Int
  BY Sizes DEF SearchInv, Collect
<1>2. Reaches(fp, M, Delta, p, k, y)
  BY CollectingReaches DEF Collect
<1>3. y \in 0..M + Delta /\ y - k \in 0..M /\ y \in Int
  BY <1>1, <1>2 DEF Reaches
<1>4. Table(fp', M, Delta)
  <2>1. Table(fp, M, Delta) /\ fp' = [fp EXCEPT ![k] = y]
    BY DEF SearchInv, Collect
  <2> HIDE DEF y
  <2> QED
    BY <1>1, <1>3, <2>1, TableKeeps
<1>5. a' = a /\ b' = b /\ job' = job /\ left' = left /\ right' = right
  BY DEF Collect, asked
<1>6. M' = M /\ N' = N /\ Delta' = Delta
  BY <1>5 DEF M, N, Delta
<1>7. /\ trace' \in Seq(Entry)
      /\ \A i \in 1..Len(trace') : trace'[i].y \in 0..N /\ trace'[i].y - trace'[i].k \in 0..M
  <2>1. /\ trace \in Seq(Entry)
        /\ \A i \in 1..Len(trace) : trace[i].y \in 0..N /\ trace[i].y - trace[i].k \in 0..M
    BY DEF SearchInv
  <2>2. CASE job = "compute"
    <3>1. trace' = Append(trace, e)
      BY <2>2 DEF Collect
    <3>2. e \in Entry /\ e.y = y /\ e.k = k
      BY <1>1, <1>3 DEF Entry, Direction
    <3>3. y \in 0..N /\ y - k \in 0..M
      BY <1>1, <1>3
    <3> HIDE DEF e, y
    <3>4. /\ trace' \in Seq(Entry) /\ Len(trace') = Len(trace) + 1
          /\ trace'[Len(trace) + 1] = e
          /\ \A i \in 1..Len(trace) : trace'[i] = trace[i]
      BY <2>1, <3>1, <3>2
    <3>5. ASSUME NEW i \in 1..Len(trace')
          PROVE  trace'[i].y \in 0..N /\ trace'[i].y - trace'[i].k \in 0..M
      <4>1. Len(trace) \in Nat
        BY <2>1
      <4>2. CASE i = Len(trace) + 1
        BY <3>2, <3>3, <3>4, <4>2
      <4>3. CASE i # Len(trace) + 1
        <5>1. i \in 1..Len(trace)
          BY <3>4, <4>1, <4>3
        <5> QED
          BY <2>1, <3>4, <5>1
      <4> QED
        BY <4>2, <4>3
    <3> QED
      BY <3>4, <3>5
  <2>3. CASE job # "compute"
    <3>1. trace' = trace
      BY <2>3 DEF Collect
    <3> QED
      BY <2>1, <3>1
  <2> QED
    BY <2>2, <2>3
<1> QED
  BY <1>4, <1>5, <1>6, <1>7

LEMMA NextDiagonalKeeps == SearchInv /\ NextDiagonal => SearchInv'
<1> SUFFICES ASSUME SearchInv, NextDiagonal PROVE SearchInv'
  OBVIOUS
<1>1. Collect /\ status = "searching" /\ k # Delta /\ k' = Following(k) /\ status' = status /\ p' = p
  BY DEF NextDiagonal, Collect
<1>2. M \in Nat \ {0} /\ N \in Nat /\ Delta \in Nat /\ M + Delta = N
  BY <1>1, Sizes DEF SearchInv
<1>3. Reaches(fp, M, Delta, p, k, Furthest(k)) /\ Table(fp, M, Delta) /\ Swept(fp, M, Delta, p, k)
  BY <1>1, CollectingReaches DEF SearchInv
<1>4. fp' = [fp EXCEPT ![k] = Furthest(k)]
  BY <1>1 DEF Collect
<1>5. k' = Succeeding(Delta, p, k)
  BY <1>1 DEF Following, Succeeding
<1>6. Swept(fp', M, Delta, p, k')
  BY <1>1, <1>2, <1>3, <1>4, <1>5, SweepGoesOn
<1>7. /\ Table(fp', M, Delta) /\ a' = a /\ b' = b /\ M' = M /\ N' = N /\ Delta' = Delta
      /\ trace' \in Seq(Entry)
      /\ \A i \in 1..Len(trace') : trace'[i].y \in 0..N /\ trace'[i].y - trace'[i].k \in 0..M
      /\ job' = job /\ left' = left /\ right' = right
  BY <1>1, CollectKeeps
<1>8. k' \in -M..N
  <2>1. p \in 0..M /\ k' \in -p..Delta + p
    BY <1>6 DEF Swept
  <2> QED
    BY <1>2, <2>1
<1> QED
  BY <1>1, <1>2, <1>6, <1>7, <1>8 DEF SearchInv

LEMMA NextRoundKeeps == SearchInv /\ NextRound => SearchInv'
<1> SUFFICES ASSUME SearchInv, NextRound PROVE SearchInv'
  OBVIOUS
<1>1. Collect /\ status = "searching" /\ k = Delta /\ Furthest(k) # N
  BY DEF NextRound, Collect
<1>2. M \in Nat \ {0} /\ N \in Nat /\ Delta \in Nat /\ M + Delta = N
  BY <1>1, Sizes DEF SearchInv
<1>3. Reaches(fp, M, Delta, p, k, Furthest(k)) /\ Table(fp, M, Delta) /\ Swept(fp, M, Delta, p, k)
  BY <1>1, CollectingReaches DEF SearchInv
<1>4. fp' = [fp EXCEPT ![k] = Furthest(k)]
  BY <1>1 DEF Collect
<1>5. /\ Table(fp', M, Delta) /\ a' = a /\ b' = b /\ M' = M /\ N' = N /\ Delta' = Delta
      /\ trace' \in Seq(Entry)
      /\ \A i \in 1..Len(trace') : trace'[i].y \in 0..N /\ trace'[i].y - trace'[i].k \in 0..M
      /\ job' = job /\ left' = left /\ right' = right
  BY <1>1, CollectKeeps
<1>6. CASE status' = "tooMany" /\ p' = p /\ k' = k
  BY <1>5, <1>6 DEF SearchInv
<1>7. CASE p' = p + 1 /\ k' = First(p + 1) /\ status' = status
  <2>1. p \in Nat
    BY <1>2 DEF SearchInv
  <2>2. k' = -(p + 1)
    BY <1>2, <1>7, <2>1 DEF First
  <2>3. Swept(fp', M, Delta, p', k')
    <3> DEFINE y == Furthest(k)
    <3>1. /\ Reaches(fp, M, Delta, p, Delta, y) /\ Swept(fp, M, Delta, p, Delta)
          /\ Table(fp, M, Delta) /\ y # M + Delta /\ fp' = [fp EXCEPT ![Delta] = y]
      BY <1>1, <1>2, <1>3, <1>4
    <3> HIDE DEF y
    <3>2. Swept([fp EXCEPT ![Delta] = y], M, Delta, p + 1, -(p + 1))
      BY <1>2, <3>1, RoundEnds
    <3> QED
      BY <1>7, <2>2, <3>1, <3>2
  <2>4. p' \in 0..M /\ k' \in -M..N
    <3>1. p' \in 0..M
      BY <2>3 DEF Swept
    <3>2. p + 1 \in 0..M
      BY <1>7, <3>1
    <3>3. -(p + 1) \in -M..N
      BY <1>2, <2>1, <3>2
    <3> QED
      BY <2>2, <3>1, <3>3
  <2> QED
    BY <1>1, <1>2, <1>5, <1>7, <2>3, <2>4 DEF SearchInv
<1> QED
  BY <1>6, <1>7 DEF NextRound

LEMMA FoundKeeps == SearchInv /\ Found => SearchInv'
<1> SUFFICES ASSUME SearchInv, Found PROVE SearchInv'
  OBVIOUS
<1>1. Collect /\ status' = "complete" /\ p' = p /\ k' = k
  BY DEF Found
<1>2. /\ Table(fp', M, Delta) /\ a' = a /\ b' = b /\ M' = M /\ N' = N /\ Delta' = Delta
      /\ trace' \in Seq(Entry)
      /\ \A i \in 1..Len(trace') : trace'[i].y \in 0..N /\ trace'[i].y - trace'[i].k \in 0..M
      /\ job' = job /\ left' = left /\ right' = right
  BY <1>1, CollectKeeps
<1> QED
  BY <1>1, <1>2 DEF SearchInv

LEMMA SearchingStarts ==
  ASSUME SearchInv, NEW s \in Seq(Element), NEW t \in Seq(Element), s # <<>>, t # <<>>, Search(s, t)
  PROVE  SearchInv'
<1>1. /\ a' = Shorter(s, t) /\ b' = Longer(s, t)
      /\ fp' = [d \in -(Len(a') + 1)..Len(b') + 1 |-> -1]
      /\ p' = 0 /\ k' = 0 /\ trace' = <<>> /\ status' = "searching"
      /\ job' = job /\ left' = left /\ right' = right
  BY DEF Search, asked
<1>2. Len(s) \in Nat \ {0} /\ Len(t) \in Nat \ {0}
  BY EmptySeq
<1> DEFINE m == Len(a')  gap == Len(b') - Len(a')
<1>3. a' \in Seq(Element) /\ b' \in Seq(Element) /\ m \in Nat \ {0} /\ gap \in Nat
  BY <1>1, <1>2 DEF Shorter, Longer
<1>4. M' = m /\ N' = m + gap /\ Delta' = gap /\ Len(b') = m + gap
  BY <1>3 DEF M, N, Delta
<1>5. fp' = [d \in -(m + 1)..m + gap + 1 |-> -1]
  BY <1>1, <1>4
<1> HIDE DEF m, gap
<1>6. Table(fp', m, gap) /\ Swept(fp', m, gap, 0, 0)
  BY <1>3, <1>5, SweepStarts
<1>7. trace' \in Seq(Entry) /\ Len(trace') = 0
  BY <1>1
<1>8. 0 \in 0..m /\ 0 \in -m..m + gap /\ m <= m + gap /\ m > 0
  BY <1>3
<1>9. /\ M' <= N' /\ M' > 0 /\ p' \in 0..M' /\ k' \in -M'..N'
      /\ Table(fp', M', Delta') /\ Swept(fp', M', Delta', p', k')
  BY <1>1, <1>4, <1>6, <1>8
<1>10. \A i \in 1..Len(trace') : trace'[i].y \in 0..N' /\ trace'[i].y - trace'[i].k \in 0..M'
  BY <1>7
<1>11. /\ job' \in {"compute", "count"} /\ left' \in Seq(Element) /\ right' \in Seq(Element)
  BY <1>1 DEF SearchInv
<1> QED
  BY <1>1, <1>3, <1>7, <1>9, <1>10, <1>11 DEF SearchInv

LEMMA FinishKeeps ==
  ASSUME SearchInv, NEW verdict \in {"complete", "tooMany"}, NEW d, NEW script, Finish(verdict, d, script)
  PROVE  SearchInv'
<1>1. /\ status' = verdict /\ job' = job /\ left' = left /\ right' = right
      /\ a' = a /\ b' = b /\ fp' = fp /\ p' = p /\ k' = k /\ trace' = trace
  BY DEF Finish, asked
<1>2. M' = M /\ N' = N /\ Delta' = Delta
  BY <1>1 DEF M, N, Delta
<1> QED
  BY <1>1, <1>2 DEF SearchInv

LEMMA ComputeKeeps == SearchInv /\ Compute => SearchInv'
<1> SUFFICES ASSUME SearchInv, Compute PROVE SearchInv'
  OBVIOUS
<1>1. CASE left = right
  BY <1>1, FinishKeeps DEF Compute
<1>2. CASE left # right /\ (left = <<>> \/ right = <<>>)
  BY <1>2, FinishKeeps DEF Compute
<1>3. CASE left # right /\ left # <<>> /\ right # <<>>
  <2>1. Search(left, right)
    BY <1>3 DEF Compute
  <2>2. left \in Seq(Element) /\ right \in Seq(Element)
    BY DEF SearchInv
  <2> QED
    BY <1>3, <2>1, <2>2, SearchingStarts
<1> QED
  BY <1>1, <1>2, <1>3

LEMMA TrimmedIsSeq ==
  ASSUME left \in Seq(Element), right \in Seq(Element)
  PROVE  Trimmed(left, Suffix) \in Seq(Element) /\ Trimmed(right, Suffix) \in Seq(Element)
<1>1. Len(left) \in Nat /\ Len(right) \in Nat
  OBVIOUS
<1>2. Prefix \in 0..Len(left) /\ Prefix <= Len(right)
  <2> DEFINE S == {n \in 0..Len(left) : n <= Len(right) /\ \A i \in 1..n : left[i] = right[i]}
  <2>1. S \in SUBSET (0..Len(left)) /\ 0 \in S /\ \A n \in S : n <= Len(right)
    BY <1>1
  <2>2. Prefix = Max(S)
    BY DEF Prefix
  <2> HIDE DEF S
  <2>3. Max(S) \in S
    BY <1>1, <2>1, LargestIsIn
  <2> QED
    BY <2>1, <2>2, <2>3
<1>3. Suffix \in 0..Len(left) - Prefix /\ Suffix <= Len(right) - Prefix
  <2> DEFINE rest == Len(left) - Prefix
             S == {n \in 0..rest : n <= Len(right) - Prefix /\
                     \A i \in 0..n - 1 : left[Len(left) - i] = right[Len(right) - i]}
  <2>1. rest \in Nat
    BY <1>1, <1>2
  <2>2. S \in SUBSET (0..rest) /\ 0 \in S /\ \A n \in S : n <= Len(right) - Prefix
    BY <1>1, <1>2, <2>1
  <2>3. Suffix = Max(S)
    BY DEF Suffix
  <2> HIDE DEF S, rest
  <2>4. Max(S) \in S
    BY <2>1, <2>2, LargestIsIn
  <2> QED
    BY <2>2, <2>3, <2>4 DEF rest
<1>4. ASSUME NEW s \in Seq(Element), Prefix + Suffix <= Len(s)
      PROVE  Trimmed(s, Suffix) \in Seq(Element)
  <2>1. Prefix + 1 \in 1..Len(s) + 1 /\ Len(s) - Suffix \in (Prefix + 1) - 1..Len(s)
    BY <1>1, <1>2, <1>3, <1>4
  <2>2. SubSeq(s, Prefix + 1, Len(s) - Suffix) \in Seq(Element)
    BY <2>1, SubSeqProperties
  <2> QED
    BY <2>2 DEF Trimmed
<1>5. Prefix + Suffix <= Len(left) /\ Prefix + Suffix <= Len(right)
  BY <1>1, <1>2, <1>3
<1> QED
  BY <1>4, <1>5

LEMMA CountKeeps == SearchInv /\ Count => SearchInv'
<1> SUFFICES ASSUME SearchInv, Count PROVE SearchInv'
  OBVIOUS
<1> DEFINE s == Trimmed(left, Suffix)  t == Trimmed(right, Suffix)
           tooFar == Exceeds(Abs(Len(s) - Len(t))) \/ Exceeds(Imbalance(s, t))
           total == Len(s) + Len(t)
<1>1. s \in Seq(Element) /\ t \in Seq(Element)
  BY TrimmedIsSeq DEF SearchInv
<1>2. IF tooFar THEN Finish("tooMany", 0, <<>>)
      ELSE IF s = <<>> \/ t = <<>>
        THEN Finish(IF Exceeds(total) THEN "tooMany" ELSE "complete", total, <<>>)
      ELSE Search(s, t)
  BY DEF Count
<1> HIDE DEF s, t, tooFar, total
<1>3. CASE tooFar
  BY <1>2, <1>3, FinishKeeps
<1>4. CASE ~tooFar /\ (s = <<>> \/ t = <<>>)
  BY <1>2, <1>4, FinishKeeps
<1>5. CASE ~tooFar /\ s # <<>> /\ t # <<>>
  BY <1>1, <1>2, <1>5, SearchingStarts
<1> QED
  BY <1>3, <1>4, <1>5

LEMMA SearchRests == SearchInv /\ UNCHANGED vars => SearchInv'
<1> SUFFICES ASSUME SearchInv, UNCHANGED vars PROVE SearchInv'
  OBVIOUS
<1>1. /\ status' = status /\ job' = job /\ left' = left /\ right' = right
      /\ a' = a /\ b' = b /\ fp' = fp /\ p' = p /\ k' = k /\ trace' = trace
  BY DEF vars, asked
<1>2. M' = M /\ N' = N /\ Delta' = Delta
  BY <1>1 DEF M, N, Delta
<1>3. /\ Table(fp', M', Delta') <=> Table(fp, M, Delta)
      /\ Swept(fp', M', Delta', p', k') <=> Swept(fp, M, Delta, p, k)
  BY ONLY <1>1, <1>2
<1> QED
  BY <1>1, <1>2, <1>3 DEF SearchInv

LEMMA StopKeeps == SearchInv /\ Stop => SearchInv'
<1> SUFFICES ASSUME SearchInv, Stop PROVE SearchInv'
  OBVIOUS
<1>1. /\ status' = "stopped" /\ job' = job /\ left' = left /\ right' = right
      /\ a' = a /\ b' = b /\ fp' = fp /\ p' = p /\ k' = k /\ trace' = trace
  BY DEF Stop, asked
<1>2. M' = M /\ N' = N /\ Delta' = Delta
  BY <1>1 DEF M, N, Delta
<1> QED
  BY <1>1, <1>2 DEF SearchInv

LEMMA SearchInit == InitAll => SearchInv
<1> SUFFICES ASSUME InitAll PROVE SearchInv
  OBVIOUS
<1>1. /\ job \in {"compute", "count"} /\ status = "asked" /\ a = <<>> /\ b = <<>>
      /\ fp = [d \in -1..1 |-> -1] /\ p = 0 /\ k = 0 /\ trace = <<>>
      /\ \E alphabet \in Alphabets : left \in Inputs(alphabet) /\ right \in Inputs(alphabet)
  BY DEF InitAll, Init
<1>2. left \in Seq(Element) /\ right \in Seq(Element)
  <2>1. PICK alphabet \in Alphabets : left \in Inputs(alphabet) /\ right \in Inputs(alphabet)
    BY <1>1
  <2>2. ASSUME NEW lines \in Inputs(alphabet) PROVE lines \in Seq(Element)
    <3>1. PICK n \in 0..MaxLength : lines \in [1..n -> alphabet]
      BY DEF Inputs
    <3>2. n \in Nat /\ lines \in [1..n -> Element]
      BY <3>1, SequenceDiffAssumption DEF Element
    <3> QED
      BY <3>2
  <2> QED
    BY <2>1, <2>2
<1>3. a \in Seq(Element) /\ b \in Seq(Element) /\ M = 0 /\ N = 0 /\ Delta = 0
  BY <1>1 DEF M, N, Delta
<1>4. Table(fp, M, Delta)
  <2>1. -(M + 1)..M + Delta + 1 = -1..1
    BY <1>3
  <2>2. \A d \in -1..1 : fp[d] = -1
    BY <1>1
  <2>3. fp \in [-1..1 -> Int]
    BY <1>1
  <2> QED
    BY <1>3, <2>1, <2>2, <2>3 DEF Table
<1>5. trace \in Seq(Entry) /\ Len(trace) = 0
  BY <1>1
<1> QED
  BY <1>1, <1>2, <1>3, <1>4, <1>5 DEF SearchInv

LEMMA SearchStays == SearchInv /\ [NextAll]_all => SearchInv'
<1> SUFFICES ASSUME SearchInv, [NextAll]_all PROVE SearchInv'
  OBVIOUS
<1>1. \/ Compute \/ Count \/ NextDiagonal \/ NextRound \/ Found \/ Stop \/ UNCHANGED vars
  BY DEF NextAll, all, Views, Exports, Resolves, Commands
<1> QED
  BY <1>1, ComputeKeeps, CountKeeps, NextDiagonalKeeps, NextRoundKeeps, FoundKeeps, StopKeeps, SearchRests

LEMMA SearchIsTyped == SearchInv => TypeOK
<1> SUFFICES ASSUME SearchInv PROVE TypeOK
  OBVIOUS
<1>1. M \in Nat /\ N \in Nat /\ Delta \in Nat /\ M + Delta = N
  BY Sizes
<1>2. DOMAIN fp = -(M + 1)..N + 1 /\ \A d \in DOMAIN fp : fp[d] \in -1..N /\ fp[d] - d <= M
  <2>1. M + Delta + 1 = N + 1
    BY <1>1
  <2> QED
    BY <1>1, <2>1 DEF SearchInv, Table
<1>3. k - 1 \in DOMAIN fp /\ k + 1 \in DOMAIN fp
  <2>1. k \in -M..N
    BY DEF SearchInv
  <2>2. k - 1 \in -(M + 1)..N + 1 /\ k + 1 \in -(M + 1)..N + 1
    BY ONLY <1>1, <2>1
  <2> QED
    BY <1>2, <2>2
<1>4. ASSUME NEW i \in DOMAIN trace
      PROVE  trace[i].y \in 0..N /\ trace[i].y - trace[i].k \in 0..M /\ trace[i].dir \in {-1, 1}
  <2>1. i \in 1..Len(trace) /\ trace[i] \in Entry
    BY DEF SearchInv
  <2> QED
    BY <2>1 DEF SearchInv, Entry
<1> QED
  BY <1>2, <1>3, <1>4 DEF SearchInv, TypeOK

\* For any two inputs: the search needs no round more than the shorter side has
\* elements, uses its array inside its bounds, and neither reaches nor records a point
\* beyond the end of a side (SequenceDiff.h, compare and snake).
THEOREM SearchStaysInside == SpecAll => []TypeOK
<1>1. InitAll => SearchInv
  BY SearchInit
<1>2. SearchInv /\ [NextAll]_all => SearchInv'
  BY SearchStays
<1>3. SearchInv => TypeOK
  BY SearchIsTyped
<1> QED
  BY <1>1, <1>2, <1>3, PTL DEF SpecAll

-----------------------------------------------------------------------------
(* Scripts: hunks that follow each other from (0, 0) to a point.           *)

Hunks == [type : Type, ls : Nat, lc : Nat, rs : Nat, rc : Nat]
AnyHunks == [type : Type, ls : Int, lc : Int, rs : Int, rc : Int]

EndL(script, i) == IF i = 0 THEN 0 ELSE script[i].ls + script[i].lc
EndR(script, i) == IF i = 0 THEN 0 ELSE script[i].rs + script[i].rc

Follows(script, s, t, i) ==
  Fits(script[i], s, t) /\ script[i].ls = EndL(script, i - 1) /\ script[i].rs = EndR(script, i - 1)
Route(script, s, t, x, y) ==
  /\ script \in Seq(Hunks)
  /\ \A i \in 1..Len(script) : Follows(script, s, t, i)
  /\ x = EndL(script, Len(script)) /\ y = EndR(script, Len(script))

LEMMA HunkIs ==
  ASSUME NEW type \in Type, NEW ls \in Int, NEW lc \in Int, NEW rs \in Int, NEW rc \in Int
  PROVE  /\ Hunk(type, ls, lc, rs, rc) \in AnyHunks
         /\ Hunk(type, ls, lc, rs, rc).type = type
         /\ Hunk(type, ls, lc, rs, rc).ls = ls /\ Hunk(type, ls, lc, rs, rc).lc = lc
         /\ Hunk(type, ls, lc, rs, rc).rs = rs /\ Hunk(type, ls, lc, rs, rc).rc = rc
BY DEF Hunk, AnyHunks

LEMMA EndsAre ==
  ASSUME NEW script \in Seq(Hunks), NEW i \in 0..Len(script)
  PROVE  EndL(script, i) \in Nat /\ EndR(script, i) \in Nat
<1>1. CASE i = 0
  BY <1>1 DEF EndL, EndR
<1>2. CASE i # 0
  <2>1. i \in 1..Len(script)
    BY <1>2
  <2>2. script[i] \in Hunks
    BY <2>1, ElementOfSeq
  <2>3. /\ script[i].ls + script[i].lc \in Nat /\ script[i].rs + script[i].rc \in Nat
    <3> DEFINE ls == script[i].ls  lc == script[i].lc  rs == script[i].rs  rc == script[i].rc
    <3>1. ls \in Nat /\ lc \in Nat /\ rs \in Nat /\ rc \in Nat
      BY <2>2 DEF Hunks
    <3> HIDE DEF ls, lc, rs, rc
    <3>2. ls + lc \in Nat /\ rs + rc \in Nat
      BY ONLY <3>1
    <3> QED
      BY <3>2 DEF ls, lc, rs, rc
  <2> QED
    BY <1>2, <2>3 DEF EndL, EndR
<1> QED
  BY <1>1, <1>2

LEMMA RouteAppends ==
  ASSUME NEW script, NEW s, NEW t, NEW x, NEW y, NEW h,
         Route(script, s, t, x, y), Fits(h, s, t), h.ls = x, h.rs = y
  PROVE  Route(Append(script, h), s, t, h.ls + h.lc, h.rs + h.rc)
<1> DEFINE n == Len(script)  new == Append(script, h)
<1>1. script \in Seq(Hunks) /\ h \in Hunks /\ n \in Nat
  BY DEF Route, Fits, Hunks
<1>2. /\ new \in Seq(Hunks) /\ Len(new) = n + 1 /\ new[n + 1] = h
      /\ \A i \in 1..n : new[i] = script[i]
  BY <1>1
<1> HIDE DEF new, n
<1>3. \A i \in 0..n : EndL(new, i) = EndL(script, i) /\ EndR(new, i) = EndR(script, i)
  BY <1>1, <1>2 DEF EndL, EndR
<1>4. ASSUME NEW i \in 1..n + 1 PROVE Follows(new, s, t, i)
  <2>1. i - 1 \in 0..n
    BY <1>1
  <2>2. CASE i = n + 1
    <3>1. i - 1 = n
      BY <1>1, <2>2
    <3>2. x = EndL(script, n) /\ y = EndR(script, n)
      BY DEF Route, n
    <3> QED
      BY <1>2, <1>3, <2>1, <2>2, <3>1, <3>2 DEF Follows
  <2>3. CASE i # n + 1
    <3>1. i \in 1..n
      BY <1>1, <2>3
    <3>2. Follows(script, s, t, i)
      BY <3>1 DEF Route, n
    <3> QED
      BY <1>2, <1>3, <2>1, <3>1, <3>2 DEF Follows
  <2> QED
    BY <2>2, <2>3
<1>5. EndL(new, n + 1) = h.ls + h.lc /\ EndR(new, n + 1) = h.rs + h.rc
  BY <1>1, <1>2 DEF EndL, EndR
<1> QED
  BY <1>2, <1>4, <1>5 DEF Route, new

LEMMA RouteChangesLast ==
  ASSUME NEW script, NEW s, NEW t, NEW x, NEW y, NEW h,
         Route(script, s, t, x, y), script # <<>>, Fits(h, s, t),
         h.ls = script[Len(script)].ls, h.rs = script[Len(script)].rs
  PROVE  Route([script EXCEPT ![Len(script)] = h], s, t, h.ls + h.lc, h.rs + h.rc)
<1> DEFINE n == Len(script)  new == [script EXCEPT ![n] = h]
<1>1. script \in Seq(Hunks) /\ h \in Hunks /\ n \in Nat \ {0}
  BY EmptySeq DEF Route, Fits, Hunks
<1>2. /\ new \in Seq(Hunks) /\ Len(new) = n /\ new[n] = h
      /\ \A i \in 1..n : i # n => new[i] = script[i]
  BY <1>1
<1>3. h.ls = script[n].ls /\ h.rs = script[n].rs
  OBVIOUS
<1> HIDE DEF new, n
<1>4. \A i \in 0..n - 1 : EndL(new, i) = EndL(script, i) /\ EndR(new, i) = EndR(script, i)
  <2>1. \A i \in 1..n - 1 : new[i] = script[i]
    BY <1>1, <1>2
  <2> QED
    BY <1>1, <2>1 DEF EndL, EndR
<1>5. ASSUME NEW i \in 1..n PROVE Follows(new, s, t, i)
  <2>1. i - 1 \in 0..n - 1
    BY <1>1
  <2>2. Follows(script, s, t, i)
    BY DEF Route, n
  <2>3. CASE i = n
    BY <1>2, <1>3, <1>4, <2>1, <2>2, <2>3 DEF Follows
  <2>4. CASE i # n
    BY <1>2, <1>4, <2>1, <2>2, <2>4 DEF Follows
  <2> QED
    BY <2>3, <2>4
<1>6. EndL(new, n) = h.ls + h.lc /\ EndR(new, n) = h.rs + h.rc
  BY <1>1, <1>2 DEF EndL, EndR
<1> QED
  BY <1>2, <1>5, <1>6 DEF Route, new, n

LEMMA EmptyRoute ==
  ASSUME NEW s, NEW t
  PROVE  Route(<<>>, s, t, 0, 0)
BY DEF Route, EndL, EndR

LEMMA RouteIsValid ==
  ASSUME NEW script, NEW s, NEW t, Route(script, s, t, Len(s), Len(t))
  PROVE  ValidScript(script, s, t)
<1> DEFINE n == Len(script)
           Around(i) == IF i = 0 THEN Hunk("Equal", 0, 0, 0, 0)
                    ELSE IF i > n THEN Hunk("Equal", Len(s), 0, Len(t), 0) ELSE script[i]
<1>1. script \in Seq(Hunks) /\ n \in Nat
  BY DEF Route
<1>2. /\ Hunk("Equal", 0, 0, 0, 0).ls = 0 /\ Hunk("Equal", 0, 0, 0, 0).lc = 0
      /\ Hunk("Equal", 0, 0, 0, 0).rs = 0 /\ Hunk("Equal", 0, 0, 0, 0).rc = 0
      /\ Hunk("Equal", Len(s), 0, Len(t), 0).ls = Len(s)
      /\ Hunk("Equal", Len(s), 0, Len(t), 0).rs = Len(t)
  BY DEF Hunk
<1>3. ASSUME NEW i \in 0..n
      PROVE  /\ Around(i).ls + Around(i).lc = Around(i + 1).ls
             /\ Around(i).rs + Around(i).rc = Around(i + 1).rs
  <2>1. Around(i).ls + Around(i).lc = EndL(script, i) /\ Around(i).rs + Around(i).rc = EndR(script, i)
    <3>1. CASE i = 0
      <4>1. Around(i) = Hunk("Equal", 0, 0, 0, 0)
        BY <3>1
      <4> QED
        BY <1>2, <3>1, <4>1 DEF EndL, EndR
    <3>2. CASE i # 0
      <4>1. Around(i) = script[i]
        BY <1>1, <3>2
      <4> QED
        BY <3>2, <4>1 DEF EndL, EndR
    <3> QED
      BY <3>1, <3>2
  <2>2. Around(i + 1).ls = EndL(script, i) /\ Around(i + 1).rs = EndR(script, i)
    <3>1. CASE i = n
      <4>1. Around(i + 1) = Hunk("Equal", Len(s), 0, Len(t), 0)
        BY <1>1, <3>1
      <4>2. Len(s) = EndL(script, n) /\ Len(t) = EndR(script, n)
        BY DEF Route
      <4> QED
        BY <1>2, <3>1, <4>1, <4>2
    <3>2. CASE i # n
      <4>1. Around(i + 1) = script[i + 1] /\ i + 1 \in 1..n /\ (i + 1) - 1 = i
        BY <1>1, <3>2
      <4>2. Follows(script, s, t, i + 1)
        BY <4>1 DEF Route
      <4> QED
        BY <4>1, <4>2 DEF Follows
    <3> QED
      BY <3>1, <3>2
  <2> HIDE DEF Around
  <2> QED
    BY <2>1, <2>2
<1>4. Covers(script, s, t)
  BY <1>3 DEF Covers
<1>5. \A i \in DOMAIN script : Fits(script[i], s, t)
  BY <1>1 DEF Route, Follows
<1> QED
  BY <1>4, <1>5 DEF ValidScript

-----------------------------------------------------------------------------
(* Neighbouring hunks become one, and the script stays valid.              *)

LEMMA TwoEqual ==
  ASSUME NEW g \in Hunks, NEW h \in Hunks, NEW s, NEW t, Fits(g, s, t), Fits(h, s, t),
         h.ls = g.ls + g.lc, h.rs = g.rs + g.rc, g.type = "Equal", h.type = "Equal"
  PROVE  \A i \in 1..g.lc + h.lc : s[g.ls + i] = t[g.rs + i]
<1>1. /\ g.lc \in Nat /\ g.rc = g.lc /\ h.lc \in Nat
      /\ g.ls \in Nat /\ g.rs \in Nat
  BY DEF Hunks, Fits
<1>2. ASSUME NEW i \in 1..g.lc + h.lc PROVE s[g.ls + i] = t[g.rs + i]
  <2>1. CASE i <= g.lc
    <3>1. i \in 1..g.lc
      BY <1>1, <2>1
    <3> QED
      BY <3>1 DEF Fits
  <2>2. CASE i > g.lc
    <3>1. i - g.lc \in 1..h.lc
      BY <1>1, <2>2
    <3>2. s[h.ls + (i - g.lc)] = t[h.rs + (i - g.lc)]
      BY <3>1 DEF Fits
    <3>3. h.ls + (i - g.lc) = g.ls + i /\ h.rs + (i - g.lc) = g.rs + i
      BY <1>1
    <3> QED
      BY <3>2, <3>3
  <2> QED
    BY <1>1, <2>1, <2>2
<1> QED
  BY <1>2

\* Two hunks in a row as one: of the same type, or a replacement.
LEMMA TwoAsOne ==
  ASSUME NEW g \in Hunks, NEW h \in Hunks, NEW s, NEW t, Fits(g, s, t), Fits(h, s, t),
         h.ls = g.ls + g.lc, h.rs = g.rs + g.rc, NEW type,
         \/ type = g.type /\ g.type = h.type
         \/ type = "Replace" /\ g.type # h.type /\ g.type # "Equal" /\ h.type # "Equal"
  PROVE  Fits(Hunk(type, g.ls, g.lc + h.lc, g.rs, g.rc + h.rc), s, t)
<1> DEFINE one == Hunk(type, g.ls, g.lc + h.lc, g.rs, g.rc + h.rc)
<1>1. /\ g.type \in Type /\ g.ls \in Nat /\ g.lc \in Nat /\ g.rs \in Nat /\ g.rc \in Nat
      /\ h.type \in Type /\ h.ls \in Nat /\ h.lc \in Nat /\ h.rs \in Nat /\ h.rc \in Nat
  BY DEF Hunks
<1>2. /\ g.type = "Equal" => g.lc = g.rc
      /\ g.type = "Insert" => g.lc = 0 /\ g.rc > 0
      /\ g.type = "Delete" => g.rc = 0 /\ g.lc > 0
      /\ g.type = "Replace" => g.lc > 0 /\ g.rc > 0
  BY DEF Fits
<1>3. /\ h.type = "Equal" => h.lc = h.rc
      /\ h.type = "Insert" => h.lc = 0 /\ h.rc > 0
      /\ h.type = "Delete" => h.rc = 0 /\ h.lc > 0
      /\ h.type = "Replace" => h.lc > 0 /\ h.rc > 0
  BY DEF Fits
<1>4. /\ one.type = type /\ one.ls = g.ls /\ one.lc = g.lc + h.lc
      /\ one.rs = g.rs /\ one.rc = g.rc + h.rc
  BY DEF Hunk
<1>5. type \in Type
  BY <1>1 DEF Type
<1>6. one \in Hunks
  BY <1>1, <1>5 DEF Hunk, Hunks
<1> HIDE DEF one
<1>7. type = "Equal" => \A i \in 1..one.lc : s[one.ls + i] = t[one.rs + i]
  BY <1>4, TwoEqual
<1>8. /\ one.type = "Equal" => one.lc = one.rc
      /\ one.type = "Insert" => one.lc = 0 /\ one.rc > 0
      /\ one.type = "Delete" => one.rc = 0 /\ one.lc > 0
  BY <1>1, <1>2, <1>3, <1>4
<1>9. one.type = "Replace" => one.lc > 0 /\ one.rc > 0
  <2>1. CASE type = g.type /\ g.type = h.type
    BY <1>1, <1>2, <1>3, <1>4, <2>1
  <2>2. CASE g.type # h.type /\ g.type # "Equal" /\ h.type # "Equal"
    <3>1. \/ g.type = "Insert" /\ h.type = "Delete"
          \/ g.type = "Delete" /\ h.type = "Insert"
          \/ g.type = "Replace"
          \/ h.type = "Replace"
      BY <1>1, <2>2 DEF Type
    <3> QED
      BY <1>1, <1>2, <1>3, <1>4, <3>1
  <2> QED
    BY <2>1, <2>2
<1>10. Fits(one, s, t)
  BY <1>4, <1>6, <1>7, <1>8, <1>9 DEF Fits, Hunks
<1> QED
  BY <1>10 DEF one

\* No two neighbours are of one type.
Alternates(script) == \A i \in 1..Len(script) - 1 : script[i].type # script[i + 1].type

LEMMA LastHunk ==
  ASSUME NEW script, NEW s, NEW t, NEW x, NEW y, Route(script, s, t, x, y), script # <<>>
  PROVE  LET g == script[Len(script)]
         IN /\ Len(script) \in Nat \ {0} /\ g \in Hunks /\ Fits(g, s, t)
            /\ x = g.ls + g.lc /\ y = g.rs + g.rc
<1>1. script \in Seq(Hunks) /\ Len(script) \in Nat \ {0}
  BY EmptySeq DEF Route
<1>2. Len(script) \in 1..Len(script)
  BY <1>1
<1>3. script[Len(script)] \in Hunks
  BY <1>1, <1>2, ElementOfSeq
<1>4. Follows(script, s, t, Len(script)) /\ x = EndL(script, Len(script)) /\ y = EndR(script, Len(script))
  BY <1>2 DEF Route
<1> QED
  BY <1>1, <1>3, <1>4 DEF Follows, EndL, EndR

LEMMA MergeChangeKeeps ==
  ASSUME NEW out, NEW s, NEW t, NEW x, NEW y, NEW h,
         Route(out, s, t, x, y), Fits(h, s, t), h.ls = x, h.rs = y
  PROVE  Route(MergeChange(out, h), s, t, h.ls + h.lc, h.rs + h.rc)
<1> DEFINE g == out[Len(out)]
<1>1. CASE out = <<>> \/ h.type = "Equal" \/ g.type = "Equal"
  <2>1. MergeChange(out, h) = Append(out, h)
    BY <1>1 DEF MergeChange
  <2> QED
    BY <2>1, RouteAppends
<1>2. CASE ~(out = <<>> \/ h.type = "Equal" \/ g.type = "Equal")
  <2> DEFINE type == IF h.type = g.type THEN h.type ELSE "Replace"
             one == Hunk(type, g.ls, g.lc + h.lc, g.rs, g.rc + h.rc)
  <2>1. g \in Hunks /\ Fits(g, s, t) /\ h.ls = g.ls + g.lc /\ h.rs = g.rs + g.rc /\ h \in Hunks
    BY <1>2, LastHunk DEF Fits, Hunks
  <2>2. h.ls + h.lc - g.ls = g.lc + h.lc /\ h.rs + h.rc - g.rs = g.rc + h.rc
    BY <2>1 DEF Hunks
  <2>3. MergeChange(out, h) = [out EXCEPT ![Len(out)] = one]
    BY <1>2, <2>2 DEF MergeChange
  <2>4. Fits(one, s, t)
    BY <1>2, <2>1, TwoAsOne
  <2>5. one.ls = g.ls /\ one.rs = g.rs /\ one.lc = g.lc + h.lc /\ one.rc = g.rc + h.rc
    BY DEF Hunk
  <2> HIDE DEF one
  <2>6. Route([out EXCEPT ![Len(out)] = one], s, t, one.ls + one.lc, one.rs + one.rc)
    BY <1>2, <2>4, <2>5, RouteChangesLast
  <2>7. one.ls + one.lc = h.ls + h.lc /\ one.rs + one.rc = h.rs + h.rc
    BY <2>1, <2>5 DEF Hunks
  <2> QED
    BY <2>3, <2>6, <2>7
<1> QED
  BY <1>1, <1>2

LEMMA Recounted ==
  ASSUME NEW g \in Hunks, NEW u, NEW v
  PROVE  [[g EXCEPT !.lc = u] EXCEPT !.rc = v] = Hunk(g.type, g.ls, u, g.rs, v)
<1> DEFINE r == [g EXCEPT !.lc = u]  q == [r EXCEPT !.rc = v]  w == Hunk(g.type, g.ls, u, g.rs, v)
<1>1. g = [i \in {"type", "ls", "lc", "rs", "rc"} |-> g[i]]
  BY DEF Hunks
<1>2. r = [i \in {"type", "ls", "lc", "rs", "rc"} |-> IF i = "lc" THEN u ELSE g[i]]
  BY <1>1
<1>3. q = [i \in {"type", "ls", "lc", "rs", "rc"} |->
             IF i = "rc" THEN v ELSE IF i = "lc" THEN u ELSE g[i]]
  BY <1>2
<1>4. w = [i \in {"type", "ls", "lc", "rs", "rc"} |->
             IF i = "rc" THEN v ELSE IF i = "lc" THEN u ELSE g[i]]
  BY DEF Hunk
<1> QED
  BY <1>3, <1>4

LEMMA CoalesceOneIs ==
  ASSUME NEW out, NEW s, NEW t, NEW x, NEW y, NEW h, Route(out, s, t, x, y), h \in Hunks,
         out # <<>>, out[Len(out)].type = h.type
  PROVE  CoalesceOne(out, h) =
           LET g == out[Len(out)]
           IN [out EXCEPT ![Len(out)] = Hunk(g.type, g.ls, g.lc + h.lc, g.rs, g.rc + h.rc)]
<1> DEFINE n == Len(out)  g == out[n]
           one == Hunk(g.type, g.ls, g.lc + h.lc, g.rs, g.rc + h.rc)
<1>1. out \in Seq(Hunks) /\ g \in Hunks /\ n \in 1..n /\ n \in Nat
  BY LastHunk DEF Route
<1>2. CoalesceOne(out, h) = [out EXCEPT ![n].lc = @ + h.lc, ![n].rc = @ + h.rc]
  BY DEF CoalesceOne
<1>3. [out EXCEPT ![n].lc = @ + h.lc, ![n].rc = @ + h.rc] =
        [out EXCEPT ![n] = [[g EXCEPT !.lc = g.lc + h.lc] EXCEPT !.rc = g.rc + h.rc]]
  BY <1>1 DEF Hunks
<1>4. [[g EXCEPT !.lc = g.lc + h.lc] EXCEPT !.rc = g.rc + h.rc] = one
  BY <1>1, Recounted
<1> QED
  BY <1>2, <1>3, <1>4

LEMMA CoalesceOneKeeps ==
  ASSUME NEW out, NEW s, NEW t, NEW x, NEW y, NEW h,
         Route(out, s, t, x, y), Fits(h, s, t), h.ls = x, h.rs = y, Alternates(out)
  PROVE  /\ Route(CoalesceOne(out, h), s, t, h.ls + h.lc, h.rs + h.rc)
         /\ Alternates(CoalesceOne(out, h))
<1> DEFINE n == Len(out)  g == out[n]  new == CoalesceOne(out, h)
<1>0. h \in Hunks /\ out \in Seq(Hunks) /\ n \in Nat
  BY DEF Fits, Hunks, Route
<1>1. CASE out = <<>> \/ h.type # g.type
  <2>1. new = Append(out, h)
    BY <1>1 DEF CoalesceOne
  <2>2. Route(new, s, t, h.ls + h.lc, h.rs + h.rc)
    BY <2>1, RouteAppends
  <2>3. Len(new) = n + 1 /\ new[n + 1] = h /\ \A i \in 1..n : new[i] = out[i]
    BY <1>0, <2>1
  <2>4. n = 0 \/ h.type # g.type
    BY <1>1
  <2> HIDE DEF n, new
  <2>5. ASSUME NEW i \in 1..Len(new) - 1 PROVE new[i].type # new[i + 1].type
    <3>1. CASE i = n
      <4>1. new[i] = out[n] /\ new[i + 1] = h /\ n # 0
        BY <1>0, <2>3, <3>1
      <4> QED
        BY <2>4, <4>1
    <3>2. CASE i # n
      <4>1. i \in 1..n - 1 /\ new[i] = out[i] /\ new[i + 1] = out[i + 1]
        BY <1>0, <2>3, <3>2
      <4> QED
        BY <4>1 DEF Alternates, n
    <3> QED
      BY <3>1, <3>2
  <2> QED
    BY <2>2, <2>5 DEF Alternates, new
<1>2. CASE ~(out = <<>> \/ h.type # g.type)
  <2> DEFINE one == Hunk(g.type, g.ls, g.lc + h.lc, g.rs, g.rc + h.rc)
  <2>1. g \in Hunks /\ Fits(g, s, t) /\ h.ls = g.ls + g.lc /\ h.rs = g.rs + g.rc /\ n \in 1..n
    BY <1>2, LastHunk
  <2>2. new = [out EXCEPT ![n] = one]
    BY <1>0, <1>2, CoalesceOneIs
  <2>3. Fits(one, s, t)
    BY <1>0, <1>2, <2>1, TwoAsOne
  <2>4. /\ one.ls = g.ls /\ one.rs = g.rs /\ one.lc = g.lc + h.lc /\ one.rc = g.rc + h.rc
        /\ one.type = g.type
    BY DEF Hunk
  <2> HIDE DEF one
  <2>5. Route(new, s, t, one.ls + one.lc, one.rs + one.rc)
    <3>1. Route([out EXCEPT ![Len(out)] = one], s, t, one.ls + one.lc, one.rs + one.rc)
      BY <1>2, <2>3, <2>4, RouteChangesLast
    <3> QED
      BY <2>2, <3>1
  <2>6. one.ls + one.lc = h.ls + h.lc /\ one.rs + one.rc = h.rs + h.rc
    <3>1. /\ g.ls \in Nat /\ g.lc \in Nat /\ g.rs \in Nat /\ g.rc \in Nat
          /\ h.lc \in Nat /\ h.rc \in Nat
      BY <1>0, <2>1 DEF Hunks
    <3> QED
      BY <2>1, <2>4, <3>1
  <2>7. Len(new) = n /\ \A i \in 1..n : new[i].type = out[i].type
    <3>1. Len(new) = n /\ new[n] = one /\ \A i \in 1..n : i # n => new[i] = out[i]
      BY <1>0, <2>1, <2>2
    <3> HIDE DEF new
    <3> QED
      BY <2>4, <3>1
  <2> HIDE DEF new, n
  <2>8. ASSUME NEW i \in 1..n - 1 PROVE new[i].type # new[i + 1].type
    <3>1. i \in 1..n /\ i + 1 \in 1..n
      BY <1>0
    <3> QED
      BY <2>7, <3>1 DEF Alternates, n
  <2> QED
    BY <2>5, <2>6, <2>7, <2>8 DEF Alternates, new
<1> QED
  BY <1>1, <1>2

LEMMA CountsAre ==
  ASSUME NEW g \in AnyHunks, NEW h \in AnyHunks
  PROVE  g.lc + h.lc \in Int /\ g.rc + h.rc \in Int
<1>1. g.lc \in Int /\ g.rc \in Int /\ h.lc \in Int /\ h.rc \in Int
  BY DEF AnyHunks
<1> QED
  BY <1>1

LEMMA LastOfAny ==
  ASSUME NEW out \in Seq(AnyHunks), out # <<>>
  PROVE  Len(out) \in 1..Len(out) /\ out[Len(out)] \in AnyHunks
<1>1. Len(out) \in Nat \ {0}
  BY EmptySeq
<1>2. Len(out) \in 1..Len(out)
  BY <1>1
<1> QED
  BY <1>2, ElementOfSeq

LEMMA MergeChangeIsTyped ==
  ASSUME NEW out \in Seq(AnyHunks), NEW h \in AnyHunks
  PROVE  MergeChange(out, h) \in Seq(AnyHunks)
<1> DEFINE g == out[Len(out)]
<1>1. CASE out = <<>> \/ h.type = "Equal" \/ g.type = "Equal"
  <2>1. MergeChange(out, h) = Append(out, h)
    BY <1>1 DEF MergeChange
  <2> QED
    BY <2>1
<1>2. CASE ~(out = <<>> \/ h.type = "Equal" \/ g.type = "Equal")
  <2> DEFINE type == IF h.type = g.type THEN h.type ELSE "Replace"
             one == Hunk(type, g.ls, h.ls + h.lc - g.ls, g.rs, h.rs + h.rc - g.rs)
  <2>1. g \in AnyHunks /\ Len(out) \in 1..Len(out)
    BY <1>2, LastOfAny
  <2>2. type \in Type
    BY <2>1 DEF AnyHunks, Type
  <2> HIDE DEF type
  <2>3. /\ g.ls \in Int /\ g.rs \in Int
        /\ h.ls + h.lc - g.ls \in Int /\ h.rs + h.rc - g.rs \in Int
    <3>1. /\ g.ls \in Int /\ g.rs \in Int
          /\ h.ls \in Int /\ h.rs \in Int /\ h.lc \in Int /\ h.rc \in Int
      BY <2>1 DEF AnyHunks
    <3> QED
      BY <3>1
  <2>4. one \in AnyHunks
    BY <2>2, <2>3, HunkIs
  <2>5. MergeChange(out, h) = [out EXCEPT ![Len(out)] = one]
    BY <1>2 DEF MergeChange, type
  <2> HIDE DEF one
  <2> QED
    BY <2>1, <2>4, <2>5
<1> QED
  BY <1>1, <1>2

LEMMA CoalesceOneIsTyped ==
  ASSUME NEW out \in Seq(AnyHunks), NEW h \in AnyHunks
  PROVE  CoalesceOne(out, h) \in Seq(AnyHunks)
<1> DEFINE n == Len(out)  g == out[n]
<1>1. CASE out = <<>> \/ h.type # g.type
  <2>1. CoalesceOne(out, h) = Append(out, h)
    BY <1>1 DEF CoalesceOne
  <2> QED
    BY <2>1
<1>2. CASE ~(out = <<>> \/ h.type # g.type)
  <2> DEFINE one == [[g EXCEPT !.lc = g.lc + h.lc] EXCEPT !.rc = g.rc + h.rc]
  <2>1. g \in AnyHunks /\ n \in 1..n
    BY <1>2, LastOfAny
  <2>2. g.lc + h.lc \in Int /\ g.rc + h.rc \in Int
    BY <2>1, CountsAre
  <2>3. one \in AnyHunks
    BY <2>1, <2>2 DEF AnyHunks
  <2>4. CoalesceOne(out, h) = [out EXCEPT ![n].lc = @ + h.lc, ![n].rc = @ + h.rc]
    BY <1>2 DEF CoalesceOne
  <2>5. [out EXCEPT ![n].lc = @ + h.lc, ![n].rc = @ + h.rc] = [out EXCEPT ![n] = one]
    BY <2>1 DEF AnyHunks
  <2> HIDE DEF one
  <2> QED
    BY <2>1, <2>3, <2>4, <2>5
<1> QED
  BY <1>1, <1>2

LEMMA MergeChangesIs ==
  ASSUME NEW script \in Seq(AnyHunks)
  PROVE  \E out \in [0..Len(script) -> Seq(AnyHunks)] :
           /\ out[0] = <<>>
           /\ \A i \in 1..Len(script) : out[i] = MergeChange(out[i - 1], script[i])
           /\ MergeChanges(script) = out[Len(script)]
<1> DEFINE n == Len(script)  S == Seq(AnyHunks)
           step == [z \in (1..n) \X S |-> MergeChange(z[2], script[z[1]])]
           Recurs(f) == f = [i \in 0..n |-> IF i = 0 THEN <<>> ELSE MergeChange(f[i - 1], script[i])]
<1>1. n \in Nat /\ <<>> \in S
  OBVIOUS
<1>2. step \in [(1..n) \X S -> S]
  <2>1. ASSUME NEW z \in (1..n) \X S PROVE MergeChange(z[2], script[z[1]]) \in S
    <3>1. z[2] \in S /\ script[z[1]] \in AnyHunks
      BY <1>1
    <3> QED
      BY <3>1, MergeChangeIsTyped
  <2> QED
    BY <2>1
<1>3. \A i \in 1..n, s \in S : step[<<i, s>>] = MergeChange(s, script[i])
  OBVIOUS
<1> HIDE DEF step
<1>0. PICK g : Recursion(g, S, n, <<>>, step)
  <2> HIDE DEF n, S
  <2> QED
    BY <1>1, <1>2, RecursionExists
<1>4. g \in [0..n -> S] /\ g[0] = <<>> /\ \A i \in 1..n : g[i] = step[<<i, g[i - 1]>>]
  BY <1>0 DEF Recursion
<1>5. \A i \in 1..n : g[i] = MergeChange(g[i - 1], script[i])
  <2>1. \A i \in 1..n : i - 1 \in 0..n /\ g[i - 1] \in S
    BY <1>1, <1>4
  <2> QED
    BY <1>3, <1>4, <2>1
<1>6. Recurs(g)
  BY <1>1, <1>4, <1>5
<1>7. MergeChanges(script) = (CHOOSE f : Recurs(f))[n]
  BY DEF MergeChanges
<1>8. Recurs(CHOOSE f : Recurs(f))
  <2> HIDE DEF Recurs
  <2> QED
    BY <1>6
<1> DEFINE out == CHOOSE f : Recurs(f)
<1>9. /\ DOMAIN out = 0..n /\ out = [i \in 0..n |-> out[i]] /\ out[0] = <<>>
      /\ \A i \in 1..n : out[i] = MergeChange(out[i - 1], script[i])
  <2>1. out = [i \in 0..n |-> IF i = 0 THEN <<>> ELSE MergeChange(out[i - 1], script[i])]
    BY <1>8
  <2> HIDE DEF out
  <2>2. \A i \in 1..n : i \in 0..n /\ i # 0
    BY <1>1
  <2> QED
    BY <1>1, <2>1, <2>2
<1>10. MergeChanges(script) = out[n]
  BY <1>7
<1> HIDE DEF out, Recurs
<1>11. \A i \in 1..n : out[i - 1] \in S => out[i] \in S
  <2>1. \A i \in 1..n : script[i] \in AnyHunks
    OBVIOUS
  <2> QED
    BY <1>9, <2>1, MergeChangeIsTyped
<1>12. out \in [0..n -> S]
  <2> HIDE DEF S, n
  <2> QED
    BY <1>1, <1>9, <1>11, StepsAreTyped
<1> QED
  BY <1>9, <1>10, <1>12

LEMMA CoalesceIs ==
  ASSUME NEW script \in Seq(AnyHunks)
  PROVE  \E out \in [0..Len(script) -> Seq(AnyHunks)] :
           /\ out[0] = <<>>
           /\ \A i \in 1..Len(script) : out[i] = CoalesceOne(out[i - 1], script[i])
           /\ Coalesce(script) = out[Len(script)]
<1> DEFINE n == Len(script)  S == Seq(AnyHunks)
           step == [z \in (1..n) \X S |-> CoalesceOne(z[2], script[z[1]])]
           Recurs(f) == f = [i \in 0..n |-> IF i = 0 THEN <<>> ELSE CoalesceOne(f[i - 1], script[i])]
<1>1. n \in Nat /\ <<>> \in S
  OBVIOUS
<1>2. step \in [(1..n) \X S -> S]
  <2>1. ASSUME NEW z \in (1..n) \X S PROVE CoalesceOne(z[2], script[z[1]]) \in S
    <3>1. z[2] \in S /\ script[z[1]] \in AnyHunks
      BY <1>1
    <3> QED
      BY <3>1, CoalesceOneIsTyped
  <2> QED
    BY <2>1
<1>3. \A i \in 1..n, s \in S : step[<<i, s>>] = CoalesceOne(s, script[i])
  OBVIOUS
<1> HIDE DEF step
<1>0. PICK g : Recursion(g, S, n, <<>>, step)
  <2> HIDE DEF n, S
  <2> QED
    BY <1>1, <1>2, RecursionExists
<1>4. g \in [0..n -> S] /\ g[0] = <<>> /\ \A i \in 1..n : g[i] = step[<<i, g[i - 1]>>]
  BY <1>0 DEF Recursion
<1>5. \A i \in 1..n : g[i] = CoalesceOne(g[i - 1], script[i])
  <2>1. \A i \in 1..n : i - 1 \in 0..n /\ g[i - 1] \in S
    BY <1>1, <1>4
  <2> QED
    BY <1>3, <1>4, <2>1
<1>6. Recurs(g)
  BY <1>1, <1>4, <1>5
<1>7. Coalesce(script) = (CHOOSE f : Recurs(f))[n]
  BY DEF Coalesce
<1>8. Recurs(CHOOSE f : Recurs(f))
  <2> HIDE DEF Recurs
  <2> QED
    BY <1>6
<1> DEFINE out == CHOOSE f : Recurs(f)
<1>9. /\ DOMAIN out = 0..n /\ out = [i \in 0..n |-> out[i]] /\ out[0] = <<>>
      /\ \A i \in 1..n : out[i] = CoalesceOne(out[i - 1], script[i])
  <2>1. out = [i \in 0..n |-> IF i = 0 THEN <<>> ELSE CoalesceOne(out[i - 1], script[i])]
    BY <1>8
  <2> HIDE DEF out
  <2>2. \A i \in 1..n : i \in 0..n /\ i # 0
    BY <1>1
  <2> QED
    BY <1>1, <2>1, <2>2
<1>10. Coalesce(script) = out[n]
  BY <1>7
<1> HIDE DEF out, Recurs
<1>11. \A i \in 1..n : out[i - 1] \in S => out[i] \in S
  <2>1. \A i \in 1..n : script[i] \in AnyHunks
    OBVIOUS
  <2> QED
    BY <1>9, <2>1, CoalesceOneIsTyped
<1>12. out \in [0..n -> S]
  <2> HIDE DEF S, n
  <2> QED
    BY <1>1, <1>9, <1>11, StepsAreTyped
<1> QED
  BY <1>9, <1>10, <1>12

\* A script is valid with its changes merged and its neighbours coalesced.
LEMMA StartOfRoute ==
  ASSUME NEW script, NEW s, NEW t, NEW x, NEW y, Route(script, s, t, x, y)
  PROVE  /\ script \in Seq(AnyHunks) /\ Len(script) \in Nat
         /\ \A i \in 1..Len(script) :
              /\ Fits(script[i], s, t)
              /\ script[i].ls = EndL(script, i - 1) /\ script[i].rs = EndR(script, i - 1)
              /\ script[i].ls + script[i].lc = EndL(script, i)
              /\ script[i].rs + script[i].rc = EndR(script, i)
<1>1. script \in Seq(Hunks)
  BY DEF Route
<1>2. Hunks \subseteq AnyHunks
  BY DEF Hunks, AnyHunks
<1>3. script \in Seq(AnyHunks) /\ Len(script) \in Nat
  BY <1>1, <1>2
<1>4. \A i \in 1..Len(script) : i # 0 /\ Follows(script, s, t, i)
  BY <1>3 DEF Route
<1> QED
  BY <1>3, <1>4 DEF Follows, EndL, EndR

LEMMA MergedRoute ==
  ASSUME NEW script, NEW s, NEW t, NEW x, NEW y, Route(script, s, t, x, y)
  PROVE  Route(MergeChanges(script), s, t, x, y)
<1> DEFINE n == Len(script)
<1>1. script \in Seq(AnyHunks) /\ n \in Nat
  BY StartOfRoute
<1>2. PICK out \in [0..n -> Seq(AnyHunks)] :
        /\ out[0] = <<>>
        /\ \A i \in 1..n : out[i] = MergeChange(out[i - 1], script[i])
        /\ MergeChanges(script) = out[n]
  BY <1>1, MergeChangesIs
<1> DEFINE H == {i \in 0..n : Route(out[i], s, t, EndL(script, i), EndR(script, i))}
<1>3. 0 \in H
  BY <1>1, <1>2, EmptyRoute DEF EndL, EndR
<1>4. ASSUME NEW i \in 1..n, i - 1 \in H PROVE i \in H
  <2> DEFINE h == script[i]  u == EndL(script, i - 1)  v == EndR(script, i - 1)
  <2>1. Route(out[i - 1], s, t, u, v)
    BY <1>4
  <2>2. /\ Fits(h, s, t) /\ h.ls = u /\ h.rs = v
        /\ h.ls + h.lc = EndL(script, i) /\ h.rs + h.rc = EndR(script, i)
    BY StartOfRoute
  <2> HIDE DEF h, u, v
  <2>3. Route(MergeChange(out[i - 1], h), s, t, h.ls + h.lc, h.rs + h.rc)
    BY <2>1, <2>2, MergeChangeKeeps
  <2>4. out[i] = MergeChange(out[i - 1], h) /\ i \in 0..n
    BY <1>2 DEF h
  <2> QED
    BY <2>2, <2>3, <2>4
<1> HIDE DEF H
<1>5. n \in H
  <2> HIDE DEF n
  <2>1. \A i \in 0..n : i \in H
    BY <1>1, <1>3, <1>4, StepByStep
  <2> QED
    BY <1>1, <2>1
<1>6. x = EndL(script, n) /\ y = EndR(script, n)
  BY DEF Route
<1> QED
  BY <1>2, <1>5, <1>6 DEF H

LEMMA CoalescedRoute ==
  ASSUME NEW script, NEW s, NEW t, NEW x, NEW y, Route(script, s, t, x, y)
  PROVE  Route(Coalesce(script), s, t, x, y) /\ Alternates(Coalesce(script))
<1> DEFINE n == Len(script)
<1>1. script \in Seq(AnyHunks) /\ n \in Nat
  BY StartOfRoute
<1>2. PICK out \in [0..n -> Seq(AnyHunks)] :
        /\ out[0] = <<>>
        /\ \A i \in 1..n : out[i] = CoalesceOne(out[i - 1], script[i])
        /\ Coalesce(script) = out[n]
  BY <1>1, CoalesceIs
<1> DEFINE H == {i \in 0..n : /\ Route(out[i], s, t, EndL(script, i), EndR(script, i))
                              /\ Alternates(out[i])}
<1>3. 0 \in H
  <2>1. Alternates(<<>>)
    BY DEF Alternates
  <2> QED
    BY <1>1, <1>2, <2>1, EmptyRoute DEF EndL, EndR
<1>4. ASSUME NEW i \in 1..n, i - 1 \in H PROVE i \in H
  <2> DEFINE h == script[i]  u == EndL(script, i - 1)  v == EndR(script, i - 1)
  <2>1. Route(out[i - 1], s, t, u, v) /\ Alternates(out[i - 1])
    BY <1>4
  <2>2. /\ Fits(h, s, t) /\ h.ls = u /\ h.rs = v
        /\ h.ls + h.lc = EndL(script, i) /\ h.rs + h.rc = EndR(script, i)
    BY StartOfRoute
  <2> HIDE DEF h, u, v
  <2>3. /\ Route(CoalesceOne(out[i - 1], h), s, t, h.ls + h.lc, h.rs + h.rc)
        /\ Alternates(CoalesceOne(out[i - 1], h))
    BY <2>1, <2>2, CoalesceOneKeeps
  <2>4. out[i] = CoalesceOne(out[i - 1], h) /\ i \in 0..n
    BY <1>2 DEF h
  <2> QED
    BY <2>2, <2>3, <2>4
<1> HIDE DEF H
<1>5. n \in H
  <2> HIDE DEF n
  <2>1. \A i \in 0..n : i \in H
    BY <1>1, <1>3, <1>4, StepByStep
  <2> QED
    BY <1>1, <2>1
<1>6. x = EndL(script, n) /\ y = EndR(script, n)
  BY DEF Route
<1> QED
  BY <1>2, <1>5, <1>6 DEF H

LEMMA PresentedIsValid ==
  ASSUME NEW script, NEW s, NEW t, Route(script, s, t, Len(s), Len(t)),
         NEW merge \in BOOLEAN, NEW coalesce \in BOOLEAN
  PROVE  /\ ValidScript(Presented(script, merge, coalesce), s, t)
         /\ coalesce => Alternates(Presented(script, merge, coalesce))
<1> DEFINE merged == IF merge THEN MergeChanges(script) ELSE script
<1>1. Route(merged, s, t, Len(s), Len(t))
  BY MergedRoute
<1> HIDE DEF merged
<1>2. Route(Coalesce(merged), s, t, Len(s), Len(t)) /\ Alternates(Coalesce(merged))
  BY <1>1, CoalescedRoute
<1>3. Presented(script, merge, coalesce) = IF coalesce THEN Coalesce(merged) ELSE merged
  BY DEF Presented, merged
<1> QED
  BY <1>1, <1>2, <1>3, RouteIsValid

-----------------------------------------------------------------------------
(* The way back through the trace is a path through both sequences.        *)

\* Where the step to f starts on its diagonal: an insertion took an element of b.
StartOf(e, f) == IF f.dir = 1 THEN e.y + 1 ELSE e.y

\* f was reached from e: an edit, and elements that match.
Leads(e, f) ==
  /\ f.k = e.k + f.dir /\ f.y >= StartOf(e, f)
  /\ \A n \in 1..f.y - StartOf(e, f) : a[StartOf(e, f) - f.k + n] = b[StartOf(e, f) + n]
Starts(f) == f.k = 0 /\ \A n \in 1..f.y : a[n] = b[n]

Inside(e) == e \in Entry /\ e.y >= 0 /\ X(e) >= 0
Chain(branch) ==
  /\ branch \in Seq(Entry) /\ Len(branch) > 0
  /\ \A i \in 1..Len(branch) : Inside(branch[i])
  /\ Starts(branch[1])
  /\ \A i \in 2..Len(branch) : Leads(branch[i - 1], branch[i])

LEMMA EntryIs ==
  ASSUME NEW e \in Entry
  PROVE  e.k \in Int /\ e.y \in Int /\ X(e) \in Int /\ X(e) = e.y - e.k /\ (e.dir = 1 \/ e.dir = -1)
BY DEF Entry, X

\* What matches after an edit is one hunk, if anything does.
EqualTo(x, y, n) == Hunk("Equal", x - n, n, y - n, n)

\* n elements match after x and after y.
Match(x, y, n) == \A i \in 1..n : a[x + i] = b[y + i]

LEMMA EqualFits ==
  ASSUME NEW x \in Int, NEW y \in Int, NEW n \in Nat, x - n >= 0, y - n >= 0,
         Match(x - n, y - n, n)
  PROVE  /\ Fits(EqualTo(x, y, n), a, b)
         /\ EqualTo(x, y, n).ls = x - n /\ EqualTo(x, y, n).rs = y - n
         /\ EqualTo(x, y, n).ls + EqualTo(x, y, n).lc = x
         /\ EqualTo(x, y, n).rs + EqualTo(x, y, n).rc = y
<1> DEFINE h == EqualTo(x, y, n)
<1>1. /\ h.type = "Equal" /\ h.ls = x - n /\ h.lc = n /\ h.rs = y - n /\ h.rc = n
  BY DEF EqualTo, Hunk
<1>2. h \in Hunks
  BY DEF EqualTo, Hunk, Hunks, Type
<1> HIDE DEF h
<1>3. \A i \in 1..h.lc : a[h.ls + i] = b[h.rs + i]
  BY <1>1 DEF Match
<1>4. Fits(h, a, b)
  BY <1>1, <1>2, <1>3 DEF Fits, Hunks
<1>5. h.ls + h.lc = x /\ h.rs + h.rc = y
  BY <1>1
<1> QED
  BY <1>1, <1>4, <1>5 DEF h

LEMMA MatchedIs ==
  ASSUME NEW e, NEW next, NEW script,
         e.k \in Int, e.y \in Int, next.k \in Int, next.y \in Int, script \in Seq(AnyHunks)
  PROVE  \/ /\ script \o Matched(e, next) = script
            /\ X(next) <= X(e) \/ next.y <= e.y
         \/ \E n \in Nat \ {0} :
              /\ script \o Matched(e, next) = Append(script, EqualTo(X(next), next.y, n))
              /\ \/ n = X(next) - X(e) /\ n <= next.y - e.y
                 \/ n = next.y - e.y /\ n <= X(next) - X(e)
<1> DEFINE dx == X(next) - X(e)  dy == next.y - e.y  n == IF dx < dy THEN dx ELSE dy
<1>0. X(next) \in Int /\ X(e) \in Int
  BY DEF X
<1>1. X(next) \in Int /\ X(e) \in Int /\ dx \in Int /\ dy \in Int /\ n \in Int
  BY <1>0
<1>2. Matched(e, next) = IF n > 0 THEN <<EqualTo(X(next), next.y, n)>> ELSE <<>>
  BY DEF Matched, EqualTo
<1>3. (n = dx /\ n <= dy) \/ (n = dy /\ n <= dx)
  BY <1>1
<1> HIDE DEF n
<1>4. CASE n > 0
  <2> DEFINE h == EqualTo(X(next), next.y, n)
  <2>1. h \in AnyHunks
    <3>1. X(next) - n \in Int /\ next.y - n \in Int /\ "Equal" \in Type
      BY <1>1 DEF Type
    <3> QED
      BY <1>1, <3>1, HunkIs DEF EqualTo
  <2>2. script \o <<h>> = Append(script, h)
    <3> HIDE DEF h
    <3> QED
      BY <2>1
  <2>3. n \in Nat \ {0}
    BY <1>1, <1>4
  <2> QED
    BY <1>2, <1>3, <1>4, <2>2, <2>3
<1>5. CASE ~(n > 0)
  <2>1. script \o <<>> = script
    OBVIOUS
  <2> QED
    BY <1>1, <1>2, <1>3, <1>5, <2>1
<1> QED
  BY <1>4, <1>5

LEMMA EditIs ==
  ASSUME NEW e \in Entry, Inside(e), NEW dir \in {-1, 1}
  PROVE  LET h == Edit(e, dir)
         IN /\ Fits(h, a, b) /\ h.ls = X(e) /\ h.rs = e.y
            /\ h.ls + h.lc = (IF dir = 1 THEN X(e) ELSE X(e) + 1)
            /\ h.rs + h.rc = (IF dir = 1 THEN e.y + 1 ELSE e.y)
<1> DEFINE h == Edit(e, dir)
<1>1. X(e) \in Nat /\ e.y \in Nat
  BY EntryIs DEF Inside
<1>2. CASE dir = 1
  <2>1. h = Hunk("Insert", X(e), 0, e.y, 1)
    BY <1>2 DEF Edit
  <2>2. /\ h.type = "Insert" /\ h.ls = X(e) /\ h.lc = 0 /\ h.rs = e.y /\ h.rc = 1
    BY <2>1 DEF Hunk
  <2>3. h \in Hunks
    BY <1>1, <2>1 DEF Hunk, Hunks, Type
  <2> HIDE DEF h
  <2>4. Fits(h, a, b)
    BY <2>2, <2>3 DEF Fits, Hunks
  <2> QED
    BY <1>1, <1>2, <2>2, <2>4 DEF h
<1>3. CASE dir = -1
  <2>1. h = Hunk("Delete", X(e), 1, e.y, 0)
    BY <1>3 DEF Edit
  <2>2. /\ h.type = "Delete" /\ h.ls = X(e) /\ h.lc = 1 /\ h.rs = e.y /\ h.rc = 0
    BY <2>1 DEF Hunk
  <2>3. h \in Hunks
    BY <1>1, <2>1 DEF Hunk, Hunks, Type
  <2> HIDE DEF h
  <2>4. Fits(h, a, b)
    BY <2>2, <2>3 DEF Fits, Hunks
  <2> QED
    BY <1>1, <1>3, <2>2, <2>4 DEF h
<1> QED
  BY <1>2, <1>3

LEMMA DeletesMore ==
  ASSUME NEW g \in Hunks, Fits(g, a, b), g.type = "Delete"
  PROVE  LET h == [g EXCEPT !.lc = @ + 1]
         IN /\ Fits(h, a, b) /\ h.ls = g.ls /\ h.rs = g.rs
            /\ h.ls + h.lc = g.ls + g.lc + 1 /\ h.rs + h.rc = g.rs + g.rc
<1> DEFINE h == [g EXCEPT !.lc = @ + 1]
<1>1. /\ g.ls \in Nat /\ g.lc \in Nat /\ g.rs \in Nat /\ g.rc \in Nat
  BY DEF Hunks
<1>2. h \in Hunks /\ h.type = g.type /\ h.ls = g.ls /\ h.lc = g.lc + 1 /\ h.rs = g.rs /\ h.rc = g.rc
  BY DEF Hunks
<1> HIDE DEF h
<1>3. g.rc = 0
  BY DEF Fits
<1>4. Fits(h, a, b)
  BY <1>1, <1>2, <1>3 DEF Fits, Hunks
<1> QED
  BY <1>1, <1>2, <1>4 DEF h

LEMMA AppendEditKeeps ==
  ASSUME NEW e \in Entry, Inside(e), NEW dir \in {-1, 1},
         NEW script, Route(script, a, b, X(e), e.y)
  PROVE  Route(AppendEdit(script, e, dir), a, b,
              IF dir = 1 THEN X(e) ELSE X(e) + 1, IF dir = 1 THEN e.y + 1 ELSE e.y)
<1> DEFINE g == script[Len(script)]
<1>1. CASE script # <<>> /\ dir < 0 /\ g.type = "Delete"
  <2> DEFINE h == [g EXCEPT !.lc = @ + 1]
  <2>1. /\ Len(script) \in Nat \ {0} /\ g \in Hunks /\ Fits(g, a, b)
        /\ X(e) = g.ls + g.lc /\ e.y = g.rs + g.rc
    BY <1>1, LastHunk
  <2>2. script \in Seq(Hunks) /\ Len(script) \in DOMAIN script
    BY <2>1 DEF Route
  <2>3. AppendEdit(script, e, dir) = [script EXCEPT ![Len(script)] = h]
    BY <1>1, <2>2 DEF AppendEdit
  <2>4. /\ Fits(h, a, b) /\ h.ls = g.ls /\ h.rs = g.rs
        /\ h.ls + h.lc = X(e) + 1 /\ h.rs + h.rc = e.y
    BY <1>1, <2>1, DeletesMore
  <2> HIDE DEF h
  <2>5. Route([script EXCEPT ![Len(script)] = h], a, b, h.ls + h.lc, h.rs + h.rc)
    BY <1>1, <2>4, RouteChangesLast
  <2> QED
    BY <1>1, <2>3, <2>4, <2>5
<1>2. CASE ~(script # <<>> /\ dir < 0 /\ g.type = "Delete")
  <2> DEFINE h == Edit(e, dir)
  <2>1. AppendEdit(script, e, dir) = Append(script, h)
    BY <1>2 DEF AppendEdit
  <2>2. /\ Fits(h, a, b) /\ h.ls = X(e) /\ h.rs = e.y
        /\ h.ls + h.lc = (IF dir = 1 THEN X(e) ELSE X(e) + 1)
        /\ h.rs + h.rc = (IF dir = 1 THEN e.y + 1 ELSE e.y)
    BY EditIs
  <2> HIDE DEF h
  <2>3. Route(Append(script, h), a, b, h.ls + h.lc, h.rs + h.rc)
    BY <2>2, RouteAppends
  <2> QED
    BY <2>1, <2>2, <2>3
<1> QED
  BY <1>1, <1>2

LEMMA NothingMatched ==
  ASSUME NEW xe \in Int, NEW ye \in Int, NEW xf \in Int, NEW yf \in Int,
         NEW x \in Int, NEW y \in Int, yf >= y, yf - y = xf - x, xf <= xe \/ yf <= ye,
         \/ x = xe /\ (y = ye + 1 \/ y = ye)
         \/ x = xe + 1 /\ y = ye
  PROVE  x = xf /\ y = yf
OBVIOUS

LEMMA MatchedFollows ==
  ASSUME NEW f \in Entry, Inside(f), NEW e, e.k \in Int, e.y \in Int,
         NEW script, NEW x \in Nat, NEW y \in Nat, Route(script, a, b, x, y),
         f.y >= y, y - x = f.k, \A n \in 1..f.y - y : a[x + n] = b[y + n],
         \/ x = X(e) /\ (y = e.y + 1 \/ y = e.y)
         \/ x = X(e) + 1 /\ y = e.y
  PROVE  Route(script \o Matched(e, f), a, b, X(f), f.y)
<1>1. /\ f.k \in Int /\ f.y \in Int /\ X(f) \in Int /\ X(f) = f.y - f.k /\ X(e) \in Int
  BY EntryIs DEF X
<1>2. f.y - y = X(f) - x /\ f.y - y \in Nat
  BY <1>1
<1>3. \/ f.y - y = X(f) - X(e) /\ f.y - y <= f.y - e.y
      \/ f.y - y = f.y - e.y /\ f.y - y <= X(f) - X(e)
  BY <1>1, <1>2
<1>4. script \in Seq(AnyHunks)
  BY StartOfRoute
<1>5. CASE script \o Matched(e, f) = script /\ (X(f) <= X(e) \/ f.y <= e.y)
  <2>1. x = X(f) /\ y = f.y
    <3> DEFINE xf == X(f)  yf == f.y  xe == X(e)  ye == e.y
    <3>1. xf \in Int /\ yf \in Int /\ xe \in Int /\ ye \in Int /\ x \in Int /\ y \in Int
      BY <1>1
    <3>2. yf >= y /\ yf - y = xf - x /\ (xf <= xe \/ yf <= ye)
      BY <1>2, <1>5
    <3>3. \/ x = xe /\ (y = ye + 1 \/ y = ye)
          \/ x = xe + 1 /\ y = ye
      OBVIOUS
    <3> HIDE DEF xf, yf, xe, ye
    <3>4. x = xf /\ y = yf
      BY ONLY <3>1, <3>2, <3>3, NothingMatched
    <3> QED
      BY <3>4 DEF xf, yf
  <2> QED
    BY <1>5, <2>1
<1>6. ASSUME NEW n \in Nat \ {0},
             script \o Matched(e, f) = Append(script, EqualTo(X(f), f.y, n)),
             \/ n = X(f) - X(e) /\ n <= f.y - e.y
             \/ n = f.y - e.y /\ n <= X(f) - X(e)
      PROVE  Route(script \o Matched(e, f), a, b, X(f), f.y)
  <2>1. n = f.y - y
    BY <1>1, <1>2, <1>3, <1>6
  <2>2. X(f) - n = x /\ f.y - n = y
    BY <1>1, <1>2, <2>1
  <2> DEFINE h == EqualTo(X(f), f.y, n)
  <2>3. Match(X(f) - n, f.y - n, n)
    BY <2>1, <2>2 DEF Match
  <2>4. Fits(h, a, b) /\ h.ls = x /\ h.rs = y /\ h.ls + h.lc = X(f) /\ h.rs + h.rc = f.y
    <3> DEFINE u == X(f)  v == f.y
    <3>1. u \in Int /\ v \in Int /\ n \in Nat /\ u - n >= 0 /\ v - n >= 0
      BY <1>1, <2>2
    <3>2. Match(u - n, v - n, n)
      BY <2>3
    <3>3. h = EqualTo(u, v, n) /\ u - n = x /\ v - n = y
      BY <2>2
    <3> HIDE DEF h, u, v
    <3>4. /\ Fits(EqualTo(u, v, n), a, b)
          /\ EqualTo(u, v, n).ls = u - n /\ EqualTo(u, v, n).rs = v - n
          /\ EqualTo(u, v, n).ls + EqualTo(u, v, n).lc = u
          /\ EqualTo(u, v, n).rs + EqualTo(u, v, n).rc = v
      BY ONLY <3>1, <3>2, EqualFits
    <3>5. Fits(h, a, b) /\ h.ls = x /\ h.rs = y /\ h.ls + h.lc = u /\ h.rs + h.rc = v
      BY <3>3, <3>4
    <3> QED
      BY <3>5 DEF u, v
  <2> HIDE DEF h
  <2>5. Route(Append(script, h), a, b, h.ls + h.lc, h.rs + h.rc)
    BY <2>4, RouteAppends
  <2> QED
    BY <1>6, <2>4, <2>5 DEF h
<1> QED
  BY <1>1, <1>4, <1>5, <1>6, MatchedIs DEF X

LEMMA ExtendedKeeps ==
  ASSUME NEW e \in Entry, Inside(e), NEW f \in Entry, Inside(f), Leads(e, f),
         NEW script, Route(script, a, b, X(e), e.y)
  PROVE  Route(Extended(script, e, f), a, b, X(f), f.y)
<1> DEFINE x == IF f.dir = 1 THEN X(e) ELSE X(e) + 1  y == IF f.dir = 1 THEN e.y + 1 ELSE e.y
           edited == AppendEdit(script, e, f.dir)
<1>1. /\ e.k \in Int /\ e.y \in Int /\ X(e) \in Int /\ X(e) = e.y - e.k /\ f.k \in Int
      /\ f.dir \in {-1, 1} /\ e.y >= 0 /\ X(e) >= 0
  BY EntryIs DEF Inside, Entry
<1>2. Route(edited, a, b, x, y)
  BY <1>1, AppendEditKeeps
<1>3. StartOf(e, f) = y /\ f.k = e.k + f.dir /\ f.y >= y
  BY DEF Leads, StartOf
<1>4. x \in Nat /\ y \in Nat /\ y - x = f.k
  BY <1>1, <1>3
<1>5. \A n \in 1..f.y - y : a[x + n] = b[y + n]
  <2>1. y - f.k = x
    BY <1>1, <1>4
  <2> QED
    BY <1>3, <2>1 DEF Leads
<1>6. \/ x = X(e) /\ (y = e.y + 1 \/ y = e.y)
      \/ x = X(e) + 1 /\ y = e.y
  OBVIOUS
<1>7. Extended(script, e, f) = edited \o Matched(e, f)
  BY DEF Extended
<1> HIDE DEF x, y, edited
<1> QED
  BY <1>1, <1>2, <1>3, <1>4, <1>5, <1>6, <1>7, MatchedFollows

LEMMA MatchedIsTyped ==
  ASSUME NEW e, NEW next, NEW script \in Seq(AnyHunks),
         e.k \in Int, e.y \in Int, next.k \in Int, next.y \in Int
  PROVE  script \o Matched(e, next) \in Seq(AnyHunks)
<1>1. CASE script \o Matched(e, next) = script
  BY <1>1
<1>2. ASSUME NEW n \in Nat \ {0},
             script \o Matched(e, next) = Append(script, EqualTo(X(next), next.y, n))
      PROVE  script \o Matched(e, next) \in Seq(AnyHunks)
  <2>1. X(next) - n \in Int /\ next.y - n \in Int /\ n \in Int /\ "Equal" \in Type
    BY DEF X, Type
  <2>2. EqualTo(X(next), next.y, n) \in AnyHunks
    BY <2>1, HunkIs DEF EqualTo
  <2> QED
    BY <1>2, <2>2
<1> QED
  BY <1>1, <1>2, MatchedIs

LEMMA ExtendedIsTyped ==
  ASSUME NEW script \in Seq(AnyHunks), NEW e \in Entry, NEW f \in Entry
  PROVE  Extended(script, e, f) \in Seq(AnyHunks)
<1> DEFINE edited == AppendEdit(script, e, f.dir)  g == script[Len(script)]
<1>1. /\ e.k \in Int /\ e.y \in Int /\ X(e) \in Int /\ f.k \in Int /\ f.y \in Int
  BY EntryIs
<1>2. edited \in Seq(AnyHunks)
  <2>1. CASE script # <<>> /\ f.dir < 0 /\ g.type = "Delete"
    <3>1. Len(script) \in 1..Len(script) /\ g \in AnyHunks
      BY <2>1, LastOfAny
    <3> DEFINE h == [g EXCEPT !.lc = g.lc + 1]
    <3>0. g.lc + 1 \in Int
      BY <3>1 DEF AnyHunks
    <3>2. h \in AnyHunks
      BY <3>0, <3>1 DEF AnyHunks
    <3>3. edited = [script EXCEPT ![Len(script)].lc = @ + 1]
      BY <2>1 DEF AppendEdit
    <3>4. [script EXCEPT ![Len(script)].lc = @ + 1] = [script EXCEPT ![Len(script)] = h]
      BY <3>1 DEF AnyHunks
    <3> HIDE DEF h, edited
    <3> QED
      BY <3>1, <3>2, <3>3, <3>4
  <2>2. CASE ~(script # <<>> /\ f.dir < 0 /\ g.type = "Delete")
    <3>1. edited = Append(script, Edit(e, f.dir))
      BY <2>2 DEF AppendEdit
    <3>2. "Insert" \in Type /\ "Delete" \in Type
      BY DEF Type
    <3>3. Edit(e, f.dir) \in AnyHunks
      BY <1>1, <3>2, HunkIs DEF Edit
    <3> QED
      BY <3>1, <3>3
  <2> QED
    BY <2>1, <2>2
<1>3. Extended(script, e, f) = edited \o Matched(e, f)
  BY DEF Extended
<1> HIDE DEF edited
<1> QED
  BY <1>1, <1>2, <1>3, MatchedIsTyped

LEMMA BacktrackIs ==
  ASSUME NEW branch \in Seq(Entry), Len(branch) > 0
  PROVE  \E out \in [0..Len(branch) - 1 -> Seq(AnyHunks)] :
           /\ out[0] = Matched(Origin, branch[1])
           /\ \A i \in 1..Len(branch) - 1 : out[i] = Extended(out[i - 1], branch[i], branch[i + 1])
           /\ Backtrack(branch) = out[Len(branch) - 1]
<1> DEFINE n == Len(branch) - 1  S == Seq(AnyHunks)  base == Matched(Origin, branch[1])
           step == [z \in (1..n) \X S |-> Extended(z[2], branch[z[1]], branch[z[1] + 1])]
           Recurs(f) == f = [i \in 0..n |-> IF i = 0 THEN base
                                        ELSE Extended(f[i - 1], branch[i], branch[i + 1])]
<1>0. n \in Nat /\ 1 \in 1..Len(branch) /\ \A i \in 1..n : i \in 1..Len(branch) /\ i + 1 \in 1..Len(branch)
  OBVIOUS
<1>1. base \in S
  <2>1. branch[1] \in Entry
    BY <1>0, ElementOfSeq
  <2>2. branch[1].k \in Int /\ branch[1].y \in Int /\ Origin.k \in Int /\ Origin.y \in Int
    BY <2>1 DEF Entry, Origin
  <2>3. <<>> \o Matched(Origin, branch[1]) \in Seq(AnyHunks)
    <3>1. <<>> \in Seq(AnyHunks)
      OBVIOUS
    <3> QED
      BY <2>2, <3>1, MatchedIsTyped
  <2>4. <<>> \o Matched(Origin, branch[1]) = Matched(Origin, branch[1])
    <3>1. \A h : <<>> \o <<h>> = <<h>>
      OBVIOUS
    <3>2. <<>> \o <<>> = <<>>
      OBVIOUS
    <3> QED
      BY <3>1, <3>2 DEF Matched
  <2> QED
    BY <2>3, <2>4
<1> HIDE DEF base
<1>2. \A i \in 1..n : branch[i] \in Entry /\ branch[i + 1] \in Entry
  BY <1>0, ElementOfSeq
<1> HIDE DEF n
<1>3. step \in [(1..n) \X S -> S]
  <2>1. ASSUME NEW z \in (1..n) \X S PROVE Extended(z[2], branch[z[1]], branch[z[1] + 1]) \in S
    <3>1. z[2] \in S /\ branch[z[1]] \in Entry /\ branch[z[1] + 1] \in Entry
      BY <1>2
    <3> QED
      BY <3>1, ExtendedIsTyped
  <2> QED
    BY <2>1
<1>4. \A i \in 1..n, s \in S : step[<<i, s>>] = Extended(s, branch[i], branch[i + 1])
  OBVIOUS
<1> HIDE DEF step
<1>5. PICK g : Recursion(g, S, n, base, step)
  <2> HIDE DEF S
  <2> QED
    BY <1>0, <1>1, <1>3, RecursionExists
<1>6. g \in [0..n -> S] /\ g[0] = base /\ \A i \in 1..n : g[i] = step[<<i, g[i - 1]>>]
  BY <1>5 DEF Recursion
<1>7. \A i \in 1..n : g[i] = Extended(g[i - 1], branch[i], branch[i + 1])
  <2>1. \A i \in 1..n : i - 1 \in 0..n /\ g[i - 1] \in S
    BY <1>0, <1>6
  <2> QED
    BY <1>4, <1>6, <2>1
<1>8. Recurs(g)
  BY <1>0, <1>6, <1>7
<1>9. Backtrack(branch) = (CHOOSE f : Recurs(f))[n]
  BY DEF Backtrack, n, base
<1>10. Recurs(CHOOSE f : Recurs(f))
  <2> HIDE DEF Recurs
  <2> QED
    BY <1>8
<1> DEFINE out == CHOOSE f : Recurs(f)
<1>11. /\ DOMAIN out = 0..n /\ out = [i \in 0..n |-> out[i]] /\ out[0] = base
       /\ \A i \in 1..n : out[i] = Extended(out[i - 1], branch[i], branch[i + 1])
  <2>1. out = [i \in 0..n |-> IF i = 0 THEN base
                              ELSE Extended(out[i - 1], branch[i], branch[i + 1])]
    BY <1>10
  <2> HIDE DEF out
  <2>2. \A i \in 1..n : i \in 0..n /\ i # 0
    BY <1>0
  <2>3. DOMAIN out = 0..n /\ out = [i \in 0..n |-> out[i]]
    BY <2>1
  <2>4. out[0] = base
    BY <1>0, <2>1
  <2>5. \A i \in 1..n : out[i] = Extended(out[i - 1], branch[i], branch[i + 1])
    BY <2>1, <2>2
  <2> QED
    BY <2>3, <2>4, <2>5
<1>12. Backtrack(branch) = out[n]
  BY <1>9
<1> HIDE DEF out, Recurs
<1>13. \A i \in 1..n : out[i - 1] \in S => out[i] \in S
  BY <1>2, <1>11, ExtendedIsTyped
<1>14. out \in [0..n -> S]
  <2> HIDE DEF S
  <2> QED
    BY <1>0, <1>1, <1>11, <1>13, StepsAreTyped
<1> QED
  BY <1>11, <1>12, <1>14 DEF n, base

LEMMA BacktrackRoute ==
  ASSUME NEW branch, Chain(branch)
  PROVE  Route(Backtrack(branch), a, b, X(branch[Len(branch)]), branch[Len(branch)].y)
<1> DEFINE n == Len(branch) - 1
<1>1. branch \in Seq(Entry) /\ Len(branch) > 0 /\ Len(branch) \in Nat /\ n \in Nat
  BY DEF Chain
<1>2. PICK out \in [0..n -> Seq(AnyHunks)] :
        /\ out[0] = Matched(Origin, branch[1])
        /\ \A i \in 1..n : out[i] = Extended(out[i - 1], branch[i], branch[i + 1])
        /\ Backtrack(branch) = out[n]
  BY <1>1, BacktrackIs
<1>3. \A i \in 1..n + 1 : branch[i] \in Entry /\ Inside(branch[i])
  BY <1>1 DEF Chain, Inside
<1>4. \A i \in 1..n : Leads(branch[i], branch[i + 1])
  <2>1. ASSUME NEW i \in 1..n PROVE Leads(branch[i], branch[i + 1])
    <3>1. i + 1 \in 2..Len(branch) /\ (i + 1) - 1 = i
      BY <1>1
    <3> QED
      BY <3>1 DEF Chain
  <2> QED
    BY <2>1
<1> DEFINE H == {i \in 0..n : Route(out[i], a, b, X(branch[i + 1]), branch[i + 1].y)}
<1>5. 0 \in H
  <2> DEFINE f == branch[1]
  <2>1. f \in Entry /\ Inside(f) /\ Starts(f) /\ f.k = 0 /\ f.y \in Nat /\ f.y \in Int
    BY <1>1, <1>3 DEF Chain, Starts, Inside, Entry
  <2>2. Route(<<>>, a, b, 0, 0)
    BY EmptyRoute
  <2>3. Origin.k \in Int /\ Origin.y \in Int /\ X(Origin) = 0 /\ Origin.y = 0
    BY DEF Origin, X
  <2>4. \A i \in 1..f.y - 0 : a[0 + i] = b[0 + i]
    BY <2>1 DEF Starts
  <2>5. <<>> \o Matched(Origin, f) = Matched(Origin, f)
    <3>1. \A h : <<>> \o <<h>> = <<h>>
      OBVIOUS
    <3>2. <<>> \o <<>> = <<>>
      OBVIOUS
    <3> QED
      BY <3>1, <3>2 DEF Matched
  <2> HIDE DEF f
  <2>6. Route(<<>> \o Matched(Origin, f), a, b, X(f), f.y)
    <3>1. f.y >= 0 /\ 0 - 0 = f.k /\ 0 \in Nat
      BY <2>1
    <3>2. \/ 0 = X(Origin) /\ (0 = Origin.y + 1 \/ 0 = Origin.y)
          \/ 0 = X(Origin) + 1 /\ 0 = Origin.y
      BY <2>3
    <3> HIDE DEF f
    <3> QED
      BY <2>1, <2>2, <2>3, <2>4, <3>1, <3>2, MatchedFollows
  <2> QED
    BY <1>1, <1>2, <2>5, <2>6 DEF f
<1>6. ASSUME NEW i \in 1..n, i - 1 \in H PROVE i \in H
  <2> DEFINE e == branch[i]  f == branch[i + 1]
  <2>1. e \in Entry /\ Inside(e) /\ f \in Entry /\ Inside(f) /\ Leads(e, f)
    <3>1. i \in 1..n + 1 /\ i + 1 \in 1..n + 1
      BY <1>1
    <3> QED
      BY <1>3, <1>4, <3>1
  <2>2. Route(out[i - 1], a, b, X(e), e.y)
    <3>1. (i - 1) + 1 = i
      OBVIOUS
    <3> QED
      BY <1>6, <3>1
  <2>3. out[i] = Extended(out[i - 1], e, f) /\ i \in 0..n
    BY <1>2
  <2> HIDE DEF e, f
  <2>4. Route(Extended(out[i - 1], e, f), a, b, X(f), f.y)
    BY <2>1, <2>2, ExtendedKeeps
  <2> QED
    BY <2>3, <2>4 DEF f
<1> HIDE DEF H
<1>7. n \in H
  <2> HIDE DEF n
  <2>1. \A i \in 0..n : i \in H
    BY <1>1, <1>5, <1>6, StepByStep
  <2> QED
    BY <1>1, <2>1
<1>8. n + 1 = Len(branch)
  BY <1>1
<1> QED
  BY <1>2, <1>7, <1>8 DEF H

\* With the sides exchanged it is one as well.
LEMMA UnswappedRoute ==
  ASSUME NEW script, NEW s, NEW t, NEW x, NEW y, Route(script, s, t, x, y)
  PROVE  Route([i \in DOMAIN script |-> Unswapped(script[i])], t, s, y, x)
<1> DEFINE new == [i \in DOMAIN script |-> Unswapped(script[i])]  n == Len(script)
<1>1. script \in Seq(Hunks) /\ n \in Nat /\ DOMAIN script = 1..n
  BY DEF Route
<1>2. ASSUME NEW h \in Hunks
      PROVE  /\ Unswapped(h) \in Hunks
             /\ Unswapped(h).ls = h.rs /\ Unswapped(h).lc = h.rc
             /\ Unswapped(h).rs = h.ls /\ Unswapped(h).rc = h.lc
             /\ Unswapped(h).type = CASE h.type = "Insert" -> "Delete"
                                      [] h.type = "Delete" -> "Insert" [] OTHER -> h.type
  BY DEF Unswapped, Hunk, Hunks, Type
<1>3. \A i \in 1..n : script[i] \in Hunks
  BY <1>1, ElementOfSeq
<1>4. new = [i \in 1..n |-> Unswapped(script[i])]
  BY <1>1
<1>5. new \in Seq(Hunks) /\ Len(new) = n /\ \A i \in 1..n : new[i] = Unswapped(script[i])
  BY <1>1, <1>2, <1>3, <1>4
<1> HIDE DEF new, n
<1>6. ASSUME NEW i \in 0..n
      PROVE  EndL(new, i) = EndR(script, i) /\ EndR(new, i) = EndL(script, i)
  <2>1. CASE i = 0
    BY <2>1 DEF EndL, EndR
  <2>2. CASE i # 0
    <3>1. i \in 1..n
      BY <1>1, <2>2
    <3> QED
      BY <1>2, <1>3, <1>5, <2>2, <3>1 DEF EndL, EndR
  <2> QED
    BY <2>1, <2>2
<1>7. ASSUME NEW h \in Hunks, Fits(h, s, t) PROVE Fits(Unswapped(h), t, s)
  <2> DEFINE u == Unswapped(h)
  <2>1. /\ u \in Hunks /\ u.ls = h.rs /\ u.lc = h.rc /\ u.rs = h.ls /\ u.rc = h.lc
        /\ u.type = CASE h.type = "Insert" -> "Delete"
                      [] h.type = "Delete" -> "Insert" [] OTHER -> h.type
    BY <1>2
  <2>2. h.type \in Type
    BY DEF Hunks
  <2>3. /\ h.type = "Insert" => u.type = "Delete"
        /\ h.type = "Delete" => u.type = "Insert"
        /\ h.type = "Equal" => u.type = "Equal"
        /\ h.type = "Replace" => u.type = "Replace"
    BY <2>1
  <2> HIDE DEF u
  <2>4. /\ h.type = "Equal" => h.lc = h.rc /\ \A i \in 1..h.lc : s[h.ls + i] = t[h.rs + i]
        /\ h.type = "Insert" => h.lc = 0 /\ h.rc > 0
        /\ h.type = "Delete" => h.rc = 0 /\ h.lc > 0
        /\ h.type = "Replace" => h.lc > 0 /\ h.rc > 0
    BY <1>7 DEF Fits
  <2>5. /\ u.type = "Insert" => h.type = "Delete"
        /\ u.type = "Delete" => h.type = "Insert"
        /\ u.type = "Equal" => h.type = "Equal"
        /\ u.type = "Replace" => h.type = "Replace"
    BY <2>2, <2>3 DEF Type
  <2>6. u.type = "Equal" => u.lc = u.rc /\ \A i \in 1..u.lc : t[u.ls + i] = s[u.rs + i]
    BY <2>1, <2>4, <2>5
  <2>7. /\ u.type = "Insert" => u.lc = 0 /\ u.rc > 0
        /\ u.type = "Delete" => u.rc = 0 /\ u.lc > 0
        /\ u.type = "Replace" => u.lc > 0 /\ u.rc > 0
    BY <2>1, <2>4, <2>5
  <2> QED
    BY <2>1, <2>6, <2>7 DEF Fits, Hunks, u
<1>8. ASSUME NEW i \in 1..n PROVE Follows(new, t, s, i)
  <2>1. Follows(script, s, t, i) /\ i - 1 \in 0..n /\ script[i] \in Hunks
    BY <1>1, <1>3 DEF Route, n
  <2>2. /\ Fits(script[i], s, t)
        /\ script[i].ls = EndL(script, i - 1) /\ script[i].rs = EndR(script, i - 1)
    BY <2>1 DEF Follows
  <2>3. Fits(new[i], t, s) /\ new[i].ls = script[i].rs /\ new[i].rs = script[i].ls
    BY <1>2, <1>5, <1>7, <2>1, <2>2
  <2> QED
    BY <1>6, <2>1, <2>2, <2>3 DEF Follows
<1>9. x = EndL(script, n) /\ y = EndR(script, n) /\ n \in 0..n
  BY <1>1 DEF Route, n
<1> QED
  BY <1>5, <1>6, <1>8, <1>9 DEF Route, new

\* Entry j is the last before i that lies on diagonal d.
LastOn(entries, i, d, j) ==
  /\ j \in 1..i - 1 /\ entries[j].k = d
  /\ \A l \in j + 1..i - 1 : entries[l].k # d

\* Entry i was reached from the last entry on the diagonal it names, or from (0, 0).
Linked(entries, i) ==
  \/ \E j \in 1..i - 1 :
       LastOn(entries, i, entries[i].k - entries[i].dir, j) /\ Leads(entries[j], entries[i])
  \/ /\ \A j \in 1..i - 1 : entries[j].k # entries[i].k - entries[i].dir
     /\ Starts(entries[i])

Traced(entries) ==
  /\ entries \in Seq(Entry)
  /\ \A i \in 1..Len(entries) : Inside(entries[i]) /\ Linked(entries, i)

LEMMA PrecededIsTyped ==
  ASSUME NEW e \in Entry, NEW branch \in Seq(Entry)
  PROVE  Preceded(e, branch) \in Seq(Entry)
<1>1. <<e>> \o branch \in Seq(Entry)
  <2>1. <<e>> \in Seq(Entry)
    OBVIOUS
  <2> QED
    BY <2>1, ConcatProperties
<1> QED
  BY <1>1 DEF Preceded

LEMMA MainBranchIs ==
  ASSUME NEW entries \in Seq(Entry)
  PROVE  \E out \in [0..Len(entries) -> Seq(Entry)] :
           /\ out[0] = <<>>
           /\ \A i \in 1..Len(entries) :
                out[i] = Preceded(entries[Len(entries) - i + 1], out[i - 1])
           /\ MainBranch(entries) = out[Len(entries)]
<1> DEFINE n == Len(entries)  S == Seq(Entry)
           step == [z \in (1..n) \X S |-> Preceded(entries[n - z[1] + 1], z[2])]
           Recurs(f) == f = [i \in 0..n |-> IF i = 0 THEN <<>>
                                        ELSE Preceded(entries[n - i + 1], f[i - 1])]
<1>1. n \in Nat /\ <<>> \in S
  OBVIOUS
<1>2. \A i \in 1..n : entries[n - i + 1] \in Entry
  <2>1. \A i \in 1..n : n - i + 1 \in 1..n
    BY <1>1
  <2> QED
    BY <2>1, ElementOfSeq
<1> HIDE DEF n
<1>3. step \in [(1..n) \X S -> S]
  <2>1. ASSUME NEW z \in (1..n) \X S PROVE Preceded(entries[n - z[1] + 1], z[2]) \in S
    <3>1. z[2] \in S /\ z[1] \in 1..n
      OBVIOUS
    <3>2. entries[n - z[1] + 1] \in Entry
      BY <1>2, <3>1
    <3> QED
      BY <3>1, <3>2, PrecededIsTyped
  <2> QED
    BY <2>1
<1>4. \A i \in 1..n, s \in S : step[<<i, s>>] = Preceded(entries[n - i + 1], s)
  OBVIOUS
<1> HIDE DEF step
<1>5. PICK g : Recursion(g, S, n, <<>>, step)
  <2> HIDE DEF S
  <2> QED
    BY <1>1, <1>3, RecursionExists
<1>6. g \in [0..n -> S] /\ g[0] = <<>> /\ \A i \in 1..n : g[i] = step[<<i, g[i - 1]>>]
  BY <1>5 DEF Recursion
<1>7. \A i \in 1..n : g[i] = Preceded(entries[n - i + 1], g[i - 1])
  <2>1. \A i \in 1..n : i - 1 \in 0..n /\ g[i - 1] \in S
    BY <1>1, <1>6
  <2> QED
    BY <1>4, <1>6, <2>1
<1>8. Recurs(g)
  BY <1>1, <1>6, <1>7
<1>9. MainBranch(entries) = (CHOOSE f : Recurs(f))[n]
  BY DEF MainBranch, n
<1>10. Recurs(CHOOSE f : Recurs(f))
  <2> HIDE DEF Recurs
  <2> QED
    BY <1>8
<1> DEFINE out == CHOOSE f : Recurs(f)
<1>11. /\ DOMAIN out = 0..n /\ out = [i \in 0..n |-> out[i]] /\ out[0] = <<>>
       /\ \A i \in 1..n : out[i] = Preceded(entries[n - i + 1], out[i - 1])
  <2>1. out = [i \in 0..n |-> IF i = 0 THEN <<>>
                              ELSE Preceded(entries[n - i + 1], out[i - 1])]
    BY <1>10
  <2> HIDE DEF out
  <2>2. \A i \in 1..n : i \in 0..n /\ i # 0
    BY <1>1
  <2>3. DOMAIN out = 0..n /\ out = [i \in 0..n |-> out[i]]
    BY <2>1
  <2>4. out[0] = <<>>
    BY <1>1, <2>1
  <2>5. \A i \in 1..n : out[i] = Preceded(entries[n - i + 1], out[i - 1])
    BY <2>1, <2>2
  <2> QED
    BY <2>3, <2>4, <2>5
<1>12. MainBranch(entries) = out[n]
  BY <1>9
<1> HIDE DEF out, Recurs
<1>13. \A i \in 1..n : out[i - 1] \in S => out[i] \in S
  BY <1>2, <1>11, PrecededIsTyped
<1>14. out \in [0..n -> S]
  <2> HIDE DEF S
  <2> QED
    BY <1>1, <1>11, <1>13, StepsAreTyped
<1> QED
  BY <1>11, <1>12, <1>14 DEF n

\* A branch leads from its head, entry h, to the last entry; none of the entries
\* from q up to h lies on the diagonal that h was reached from.
Leading(entries, branch, q, h) ==
  /\ branch \in Seq(Entry) /\ Len(branch) > 0
  /\ \A i \in 1..Len(branch) : Inside(branch[i])
  /\ \A i \in 2..Len(branch) : Leads(branch[i - 1], branch[i])
  /\ branch[Len(branch)] = entries[Len(entries)]
  /\ h \in q..Len(entries) /\ branch[1] = entries[h]
  /\ \A l \in q..h - 1 : entries[l].k # entries[h].k - entries[h].dir

LEMMA BranchGrows ==
  ASSUME NEW e \in Entry, Inside(e), NEW branch \in Seq(Entry), Len(branch) > 0,
         \A i \in 1..Len(branch) : Inside(branch[i]),
         \A i \in 2..Len(branch) : Leads(branch[i - 1], branch[i]),
         Leads(e, branch[1])
  PROVE  LET new == <<e>> \o branch
         IN /\ new \in Seq(Entry) /\ Len(new) > 0 /\ new[1] = e
            /\ new[Len(new)] = branch[Len(branch)]
            /\ \A i \in 1..Len(new) : Inside(new[i])
            /\ \A i \in 2..Len(new) : Leads(new[i - 1], new[i])
<1> DEFINE new == <<e>> \o branch  n == Len(branch)
<1>1. n \in Nat /\ n > 0
  OBVIOUS
<1>2. /\ new \in Seq(Entry) /\ Len(new) = n + 1 /\ new[1] = e
      /\ \A i \in 2..n + 1 : new[i] = branch[i - 1]
  <2>1. <<e>> \in Seq(Entry) /\ Len(<<e>>) = 1 /\ <<e>>[1] = e
    OBVIOUS
  <2>2. /\ new \in Seq(Entry) /\ Len(new) = 1 + n
        /\ \A i \in 1..1 + n : new[i] = IF i <= 1 THEN <<e>>[i] ELSE branch[i - 1]
    BY <2>1, ConcatProperties
  <2> HIDE DEF new, n
  <2> QED
    BY <1>1, <2>1, <2>2
<1> HIDE DEF new
<1>3. ASSUME NEW i \in 1..Len(new) PROVE Inside(new[i])
  <2>1. CASE i = 1
    BY <1>2, <2>1
  <2>2. CASE i # 1
    <3>1. i \in 2..n + 1 /\ i - 1 \in 1..n
      BY <1>1, <1>2, <2>2
    <3> QED
      BY <1>2, <3>1
  <2> QED
    BY <2>1, <2>2
<1>4. ASSUME NEW i \in 2..Len(new) PROVE Leads(new[i - 1], new[i])
  <2>1. CASE i = 2
    <3>1. new[i - 1] = e /\ new[i] = branch[1]
      BY <1>1, <1>2, <2>1
    <3> QED
      BY <3>1
  <2>2. CASE i # 2
    <3>1. i \in 2..n + 1 /\ i - 1 \in 2..n + 1 /\ i - 1 \in 2..n
      BY <1>1, <1>2, <2>2
    <3>2. new[i] = branch[i - 1] /\ new[i - 1] = branch[(i - 1) - 1]
      BY <1>2, <3>1
    <3> QED
      BY <3>1, <3>2
  <2> QED
    BY <2>1, <2>2
<1>5. new[Len(new)] = branch[n]
  <2>1. n + 1 \in 2..n + 1 /\ (n + 1) - 1 = n
    BY <1>1
  <2> QED
    BY <1>2, <2>1
<1> QED
  BY <1>1, <1>2, <1>3, <1>4, <1>5 DEF new

LEMMA PrecededLeads ==
  ASSUME NEW entries, Traced(entries), NEW branch, NEW q \in 2..Len(entries), NEW h,
         Leading(entries, branch, q, h)
  PROVE  \E j \in Nat : Leading(entries, Preceded(entries[q - 1], branch), q - 1, j)
<1> DEFINE e == entries[q - 1]  d == entries[h].k - entries[h].dir
<1>1. Len(entries) \in Nat /\ q - 1 \in 1..Len(entries) /\ q \in Nat
  BY DEF Traced
<1>2. e \in Entry /\ Inside(e)
  BY <1>1 DEF Traced, Inside
<1>3. /\ branch \in Seq(Entry) /\ Len(branch) > 0 /\ branch # <<>> /\ Head(branch) = branch[1]
      /\ h \in q..Len(entries) /\ h \in Nat /\ branch[1] = entries[h]
  BY <1>1 DEF Leading
<1>4. CASE e.k # d
  <2>1. Preceded(e, branch) = branch
    BY <1>3, <1>4 DEF Preceded
  <2>2. \A l \in q - 1..h - 1 : entries[l].k # d
    <3>1. \A l \in q - 1..h - 1 : l = q - 1 \/ l \in q..h - 1
      BY <1>1, <1>3
    <3>2. \A l \in q..h - 1 : entries[l].k # d
      BY DEF Leading
    <3> QED
      BY <1>4, <3>1, <3>2
  <2>3. h \in q - 1..Len(entries)
    BY <1>1, <1>3
  <2>4. Leading(entries, branch, q - 1, h)
    BY <2>2, <2>3 DEF Leading
  <2> QED
    BY <1>3, <2>1, <2>4
<1>5. CASE e.k = d
  <2>1. Preceded(e, branch) = <<e>> \o branch
    BY <1>3, <1>5 DEF Preceded
  <2>2. Linked(entries, h) /\ q - 1 \in 1..h - 1
    BY <1>1, <1>3 DEF Traced
  <2>3. PICK j \in 1..h - 1 : LastOn(entries, h, d, j) /\ Leads(entries[j], entries[h])
    BY <1>5, <2>2 DEF Linked
  <2>4. j = q - 1
    <3>1. ~(j < q - 1)
      <4>1. j < q - 1 => q - 1 \in j + 1..h - 1
        BY <2>2
      <4> QED
        BY <1>5, <2>3, <4>1 DEF LastOn
    <3>2. ~(j > q - 1)
      <4>1. j > q - 1 => j \in q..h - 1
        BY <1>1, <1>3
      <4> QED
        BY <2>3, <4>1 DEF LastOn, Leading
    <3> QED
      BY <1>1, <3>1, <3>2
  <2>5. Leads(e, branch[1])
    BY <1>3, <2>3, <2>4
  <2> DEFINE new == <<e>> \o branch
  <2>6. /\ \A i \in 1..Len(branch) : Inside(branch[i])
        /\ \A i \in 2..Len(branch) : Leads(branch[i - 1], branch[i])
        /\ branch[Len(branch)] = entries[Len(entries)]
    BY DEF Leading
  <2>7. /\ new \in Seq(Entry) /\ Len(new) > 0 /\ new[1] = e
        /\ new[Len(new)] = entries[Len(entries)]
        /\ \A i \in 1..Len(new) : Inside(new[i])
        /\ \A i \in 2..Len(new) : Leads(new[i - 1], new[i])
    BY <1>2, <1>3, <2>5, <2>6, BranchGrows
  <2> HIDE DEF new
  <2>8. Leading(entries, new, q - 1, q - 1)
    <3>1. q - 1 \in q - 1..Len(entries) /\ \A l \in q - 1..(q - 1) - 1 : FALSE
      BY <1>1
    <3> QED
      BY <2>7, <3>1 DEF Leading
  <2> QED
    BY <1>1, <2>1, <2>8 DEF new
<1> QED
  BY <1>4, <1>5

LEMMA MainBranchIsChain ==
  ASSUME NEW entries, Traced(entries), Len(entries) > 0
  PROVE  LET branch == MainBranch(entries)
         IN Chain(branch) /\ branch[Len(branch)] = entries[Len(entries)]
<1> DEFINE n == Len(entries)
<1>1. entries \in Seq(Entry) /\ n \in Nat /\ n > 0
  BY DEF Traced
<1>2. PICK out \in [0..n -> Seq(Entry)] :
        /\ out[0] = <<>>
        /\ \A i \in 1..n : out[i] = Preceded(entries[n - i + 1], out[i - 1])
        /\ MainBranch(entries) = out[n]
  BY <1>1, MainBranchIs
<1> DEFINE H == {i \in 0..n : i = 0 \/ \E h \in Nat : Leading(entries, out[i], n - i + 1, h)}
<1>3. 0 \in H
  BY <1>1
<1>4. ASSUME NEW i \in 1..n, i - 1 \in H PROVE i \in H
  <2>1. out[i] = Preceded(entries[n - i + 1], out[i - 1])
    BY <1>2
  <2>2. CASE i = 1
    <3> DEFINE e == entries[n]
    <3>1. n \in 1..n /\ e \in Entry /\ Inside(e)
      BY <1>1 DEF Traced, Inside
    <3>2. out[1] = <<e>> \o <<>>
      <4>1. n - 1 + 1 = n /\ 1 - 1 = 0
        BY <1>1
      <4> QED
        BY <1>2, <2>1, <2>2, <4>1 DEF Preceded
    <3>3. <<e>> \o <<>> = <<e>>
      OBVIOUS
    <3> HIDE DEF e
    <3>4. <<e>> \in Seq(Entry) /\ Len(<<e>>) = 1 /\ <<e>>[1] = e
      BY <3>1
    <3> DEFINE single == <<e>>
    <3> HIDE DEF single
    <3>5. /\ single \in Seq(Entry) /\ Len(single) = 1 /\ single[1] = e /\ out[1] = single
      BY <3>2, <3>3, <3>4 DEF single
    <3>6. Leading(entries, single, n, n)
      <4>1. n \in n..n /\ \A l \in n..n - 1 : FALSE
        BY <1>1
      <4>2. \A j \in 1..Len(single) : j = 1
        BY <3>5
      <4>3. \A j \in 2..Len(single) : FALSE
        BY <3>5
      <4> QED
        BY <3>1, <3>5, <4>1, <4>2, <4>3 DEF Leading, e
    <3>7. n - i + 1 = n
      BY <1>1, <2>2
    <3> QED
      BY <1>1, <2>2, <3>5, <3>6, <3>7
  <2>3. CASE i # 1
    <3> DEFINE q == n - i + 2
    <3>1. i - 1 # 0 /\ q \in 2..n /\ n - (i - 1) + 1 = q /\ n - i + 1 = q - 1 /\ i \in 0..n
      BY <1>1, <2>3
    <3>2. PICK h \in Nat : Leading(entries, out[i - 1], q, h)
      BY <1>4, <3>1
    <3> HIDE DEF q
    <3>3. \E j \in Nat : Leading(entries, Preceded(entries[q - 1], out[i - 1]), q - 1, j)
      BY <3>1, <3>2, PrecededLeads
    <3> QED
      BY <2>1, <3>1, <3>3
  <2> QED
    BY <2>2, <2>3
<1>5. n \in H
  <2> HIDE DEF n, H
  <2>1. \A i \in 0..n : i \in H
    BY <1>1, <1>3, <1>4, StepByStep
  <2> QED
    BY <1>1, <2>1
<1>6. PICK h \in Nat : Leading(entries, out[n], 1, h)
  <2>1. n - n + 1 = 1
    BY <1>1
  <2> QED
    BY <1>1, <1>5, <2>1
<1> DEFINE branch == out[n]
<1>7. /\ branch \in Seq(Entry) /\ Len(branch) > 0 /\ branch[1] = entries[h] /\ h \in 1..n
      /\ branch[Len(branch)] = entries[n]
      /\ \A l \in 1..h - 1 : entries[l].k # entries[h].k - entries[h].dir
      /\ \A i \in 1..Len(branch) : Inside(branch[i])
      /\ \A i \in 2..Len(branch) : Leads(branch[i - 1], branch[i])
  BY <1>6 DEF Leading
<1>8. Linked(entries, h)
  BY <1>7 DEF Traced
<1>9. Starts(entries[h])
  BY <1>7, <1>8 DEF Linked, LastOn
<1>10. Chain(branch)
  BY <1>7, <1>9 DEF Chain
<1> QED
  BY <1>2, <1>7, <1>10

-----------------------------------------------------------------------------
(* The trace: what the array holds on a diagonal was recorded there last,  *)
(* and each point was reached from a recorded one.                         *)

Recorded(f, entries, d) ==
  \/ f[d] = -1 /\ \A j \in 1..Len(entries) : entries[j].k # d
  \/ \E j \in 1..Len(entries) :
       LastOn(entries, Len(entries) + 1, d, j) /\ entries[j].y = f[d]

TraceInv ==
  /\ a = Shorter(left, right) /\ b = Longer(left, right)
  /\ Traced(trace)
  /\ \A d \in -(M + 1)..N + 1 : Recorded(fp, trace, d)

ScriptInv ==
  /\ SearchInv
  /\ job = "compute" /\ status = "searching" => TraceInv
  /\ job = "compute" /\ status = "complete" => Route(hunks, left, right, Len(left), Len(right))

LEMMA SnakeMatches ==
  ASSUME a \in Seq(Element), b \in Seq(Element), NEW d \in Int, NEW y \in 0..N, y - d \in 0..M
  PROVE  \A i \in 1..SnakeEnd(d, y) - y : a[y - d + i] = b[y + i]
<1> DEFINE x == y - d
           S == {n \in 1..M : x + n <= M /\ y + n <= N /\ \A i \in 1..n : a[x + i] = b[y + i]}
<1>1. M \in Nat /\ N \in Nat
  BY DEF M, N
<1>2. S \union {0} \in SUBSET (0..M) /\ S \union {0} # {}
  BY <1>1
<1>3. \A n \in S \union {0} : n \in Nat /\ \A i \in 1..n : a[x + i] = b[y + i]
  BY <1>1
<1>4. SnakeEnd(d, y) = y + Max(S \union {0})
  BY DEF SnakeEnd
<1> HIDE DEF S
<1>5. Max(S \union {0}) \in S \union {0}
  BY <1>1, <1>2, LargestIsIn
<1> DEFINE n == Max(S \union {0})
<1>6. n \in Nat /\ \A i \in 1..n : a[x + i] = b[y + i]
  BY <1>3, <1>5
<1> HIDE DEF n
<1>7. SnakeEnd(d, y) - y = n
  BY <1>4, <1>6 DEF n
<1> QED
  BY <1>6, <1>7

\* A step that starts at (0, 0) is the very first one.
LEMMA OnlyFirstStarts ==
  ASSUME NEW m \in Nat \ {0}, NEW gap \in Nat, NEW f, NEW round, NEW here,
         Table(f, m, gap), Swept(f, m, gap, round, here),
         f[here - 1] = -1, f[here - 1] + 1 > f[here + 1]
  PROVE  here = 0
<1>1. /\ round \in Nat /\ round <= m /\ here \in Int /\ -round <= here /\ here <= gap + round
      /\ here - 1 \in -(m + 1)..m + gap + 1 /\ here + 1 \in -(m + 1)..m + gap + 1
  BY DEF Swept
<1>2. f[here + 1] \in -1..m + gap /\ f[here + 1] \in Int
  BY <1>1 DEF Table
<1>3. From(f, here) = 0
  BY DEF From
<1>4. From(f, here) - here \in 0..m /\ (here <= gap => From(f, here) - here >= round)
  BY SweepReaches
<1>5. here = -round
  BY <1>1, <1>3, <1>4
<1>6. CASE round > 0
  <2>1. ~Visited(gap, round, here, here + 1)
    BY <1>1, <1>5, <1>6 DEF Visited
  <2>2. here + 1 \in 1 - round..gap /\ Earlier(gap, round, here, here + 1)
    BY <1>1, <1>5, <1>6, <2>1 DEF Earlier
  <2>3. f[here + 1] - (here + 1) \in round - 1..m - 1
    BY <2>2 DEF Swept, LeftBelow
  <2> QED
    BY <1>1, <1>2, <1>5, <1>6, <2>3
<1> QED
  BY <1>1, <1>5, <1>6

\* The entry that a step records, and where the step came from.
LEMMA CollectedIsLinked ==
  ASSUME ScriptInv, status = "searching", job = "compute"
  PROVE  LET e == [k |-> k, y |-> Furthest(k), dir |-> Direction(k)]
         IN /\ e \in Entry /\ Inside(e)
            /\ \/ \E j \in 1..Len(trace) :
                    LastOn(trace, Len(trace) + 1, e.k - e.dir, j) /\ Leads(trace[j], e)
               \/ (\A j \in 1..Len(trace) : trace[j].k # e.k - e.dir) /\ Starts(e)
<1> DEFINE y == Furthest(k)  e == [k |-> k, y |-> y, dir |-> Direction(k)]  y0 == From(fp, k)
           d == k - Direction(k)
<1>0. SearchInv
  BY DEF ScriptInv
<1>1. M \in Nat \ {0} /\ N \in Nat /\ Delta \in Nat /\ M + Delta = N /\ k \in Int /\ k \in -M..N
  <2>1. M \in Nat /\ N \in Nat /\ Delta \in Nat /\ M + Delta = N
    BY <1>0, Sizes
  <2>2. M > 0 /\ k \in -M..N
    BY <1>0 DEF SearchInv
  <2> QED
    BY <2>1, <2>2
<1>2. Table(fp, M, Delta) /\ Swept(fp, M, Delta, p, k) /\ TraceInv
  BY DEF ScriptInv, SearchInv
<1>3. y0 \in 0..N /\ y0 - k \in 0..M
  BY <1>1, <1>2, SweepReaches
<1>4. y = SnakeEnd(k, y0)
  BY DEF Furthest, Inserting, From
<1>5. a \in Seq(Element) /\ b \in Seq(Element)
  BY DEF ScriptInv, SearchInv
<1>6. y \in y0..N /\ y - k \in (y0 - k)..M /\ \A i \in 1..y - y0 : a[y0 - k + i] = b[y0 + i]
  <2> HIDE DEF y, y0
  <2> QED
    BY <1>1, <1>3, <1>4, <1>5, SnakeStays, SnakeMatches
<1> HIDE DEF y
<1>7. y \in Int /\ y >= 0 /\ y - k >= 0 /\ y >= y0
  BY <1>1, <1>3, <1>6
<1>8. e.k = k /\ e.y = y /\ e.dir = Direction(k) /\ e \in Entry /\ X(e) = y - k
  BY <1>1, <1>7 DEF Entry, Direction, X
<1>9. Inside(e)
  BY <1>7, <1>8 DEF Inside
<1> HIDE DEF e
<1>10. d \in -(M + 1)..N + 1
  BY <1>1 DEF Direction
<1>11. Recorded(fp, trace, d)
  BY <1>2, <1>10 DEF TraceInv
<1>12. fp[k - 1] \in Int /\ fp[k - 1] >= -1 /\ fp[k + 1] \in Int /\ fp[k + 1] >= -1
  <2>1. k - 1 \in -(M + 1)..M + Delta + 1 /\ k + 1 \in -(M + 1)..M + Delta + 1
    BY <1>1
  <2> QED
    BY <1>2, <2>1 DEF Table
<1>13. ASSUME NEW j \in 1..Len(trace), trace[j].k = d, trace[j].y = fp[d]
       PROVE  Leads(trace[j], e)
  <2>1. StartOf(trace[j], e) = y0
    <3>1. CASE Inserting(k)
      <4>1. d = k - 1 /\ e.dir = 1
        BY <1>8, <3>1 DEF Direction
      <4> QED
        BY <1>13, <3>1, <4>1 DEF StartOf, From, Inserting
    <3>2. CASE ~Inserting(k)
      <4>1. d = k + 1 /\ e.dir = -1
        BY <1>1, <1>8, <3>2 DEF Direction
      <4> QED
        BY <1>13, <3>2, <4>1 DEF StartOf, From, Inserting
    <3> QED
      BY <3>1, <3>2
  <2>2. e.k = trace[j].k + e.dir
    <3>1. Direction(k) \in Int
      BY DEF Direction
    <3> QED
      BY <1>1, <1>8, <1>13, <3>1
  <2> HIDE DEF y0
  <2> QED
    BY <1>6, <1>7, <1>8, <2>1, <2>2 DEF Leads
<1>14. ASSUME fp[d] = -1 PROVE Starts(e)
  <2>1. Inserting(k) /\ d = k - 1
    <3>1. CASE ~Inserting(k)
      <4>1. d = k + 1
        BY <1>1, <3>1 DEF Direction
      <4> QED
        BY <1>12, <1>14, <3>1, <4>1 DEF Inserting
    <3> QED
      BY <3>1 DEF Direction
  <2>2. k = 0
    BY <1>1, <1>2, <1>14, <2>1, OnlyFirstStarts DEF Inserting
  <2>3. y0 = 0
    BY <1>14, <2>1 DEF From, Inserting
  <2> HIDE DEF y0
  <2>4. \A i \in 1..y : a[i] = b[i]
    <3>1. \A i \in 1..y - 0 : a[0 - 0 + i] = b[0 + i]
      BY <1>6, <2>2, <2>3
    <3> QED
      BY <1>7, <3>1
  <2> QED
    BY <1>8, <2>2, <2>4 DEF Starts
<1>15. d = e.k - e.dir
  BY <1>8
<1> HIDE DEF d, y0
<1> QED
  BY <1>8, <1>9, <1>11, <1>13, <1>14, <1>15 DEF Recorded, LastOn, e, y

LEMMA LastOnKeeps ==
  ASSUME NEW entries \in Seq(Entry), NEW e \in Entry, NEW i \in 1..Len(entries) + 1, NEW d, NEW j
  PROVE  LastOn(Append(entries, e), i, d, j) <=> LastOn(entries, i, d, j)
<1> DEFINE new == Append(entries, e)  n == Len(entries)
<1>1. n \in Nat /\ \A l \in 1..n : new[l] = entries[l]
  OBVIOUS
<1> HIDE DEF new, n
<1>2. i \in 1..n + 1
  BY DEF n
<1>3. j \in 1..i - 1 => new[j] = entries[j]
  BY <1>1, <1>2
<1>4. j \in 1..i - 1 => \A l \in j + 1..i - 1 : new[l] = entries[l]
  BY <1>1, <1>2
<1> QED
  BY <1>3, <1>4 DEF LastOn, new

LEMMA LinkedKeeps ==
  ASSUME NEW entries \in Seq(Entry), NEW e \in Entry, NEW i \in 1..Len(entries), Linked(entries, i)
  PROVE  Linked(Append(entries, e), i)
<1> DEFINE new == Append(entries, e)
<1>1. new[i] = entries[i] /\ \A j \in 1..i - 1 : new[j] = entries[j]
  OBVIOUS
<1>2. \A d, j : LastOn(new, i, d, j) <=> LastOn(entries, i, d, j)
  BY LastOnKeeps
<1> HIDE DEF new
<1> QED
  BY <1>1, <1>2 DEF Linked, new

LEMMA TraceGrows ==
  ASSUME NEW f, NEW entries, Traced(entries), NEW e \in Entry, Inside(e),
         \/ \E j \in 1..Len(entries) :
              LastOn(entries, Len(entries) + 1, e.k - e.dir, j) /\ Leads(entries[j], e)
         \/ (\A j \in 1..Len(entries) : entries[j].k # e.k - e.dir) /\ Starts(e),
         NEW low \in Int, NEW high \in Int, DOMAIN f = low..high, e.k \in low..high,
         \A d \in low..high : Recorded(f, entries, d)
  PROVE  /\ Traced(Append(entries, e))
         /\ \A d \in low..high : Recorded([f EXCEPT ![e.k] = e.y], Append(entries, e), d)
<1> DEFINE new == Append(entries, e)  n == Len(entries)  g == [f EXCEPT ![e.k] = e.y]
<1>1. entries \in Seq(Entry) /\ n \in Nat
  BY DEF Traced
<1>2. /\ new \in Seq(Entry) /\ Len(new) = n + 1 /\ new[n + 1] = e
      /\ \A i \in 1..n : new[i] = entries[i]
  BY <1>1
<1>3. \A i \in 1..n : Linked(new, i)
  BY <1>1, LinkedKeeps DEF Traced
<1>4. \A d, j : LastOn(new, n + 1, d, j) <=> LastOn(entries, n + 1, d, j)
  <2>1. n + 1 \in 1..n + 1
    BY <1>1
  <2> QED
    BY <1>1, <2>1, LastOnKeeps
<1>5. g[e.k] = e.y /\ \A d \in low..high : d # e.k => g[d] = f[d]
  OBVIOUS
<1> HIDE DEF new, g
<1>6. Linked(new, n + 1)
  <2>1. (n + 1) - 1 = n
    BY <1>1
  <2>2. CASE \E j \in 1..n : LastOn(entries, n + 1, e.k - e.dir, j) /\ Leads(entries[j], e)
    <3>1. PICK j \in 1..n : LastOn(entries, n + 1, e.k - e.dir, j) /\ Leads(entries[j], e)
      BY <2>2
    <3>2. LastOn(new, n + 1, e.k - e.dir, j) /\ Leads(new[j], e)
      BY <1>2, <1>4, <3>1
    <3> QED
      BY <1>2, <2>1, <3>2 DEF Linked
  <2>3. CASE (\A j \in 1..n : entries[j].k # e.k - e.dir) /\ Starts(e)
    <3>1. \A j \in 1..n : new[j].k # e.k - e.dir
      BY <1>2, <2>3
    <3> QED
      BY <1>2, <2>1, <2>3, <3>1 DEF Linked
  <2> QED
    BY <2>2, <2>3
<1>7. Traced(new)
  <2>1. ASSUME NEW i \in 1..Len(new) PROVE Inside(new[i]) /\ Linked(new, i)
    <3>1. CASE i = n + 1
      BY <1>2, <1>6, <3>1
    <3>2. CASE i # n + 1
      <4>1. i \in 1..n
        BY <1>1, <1>2, <3>2
      <4> QED
        BY <1>2, <1>3, <4>1 DEF Traced
    <3> QED
      BY <3>1, <3>2
  <2> QED
    BY <1>2, <2>1 DEF Traced
<1>8. ASSUME NEW d \in low..high PROVE Recorded(g, new, d)
  <2>1. CASE d = e.k
    <3>1. n + 1 \in 1..(n + 2) - 1 /\ \A l \in (n + 1) + 1..(n + 2) - 1 : FALSE
      BY <1>1
    <3>2. LastOn(new, n + 2, d, n + 1)
      BY <1>2, <2>1, <3>1 DEF LastOn
    <3>3. Len(new) + 1 = n + 2 /\ n + 1 \in 1..Len(new)
      BY <1>1, <1>2
    <3> QED
      BY <1>2, <1>5, <2>1, <3>2, <3>3 DEF Recorded
  <2>2. CASE d # e.k
    <3>0. g[d] = f[d] /\ Recorded(f, entries, d)
      BY <1>5, <2>2
    <3>1. CASE f[d] = -1 /\ \A j \in 1..n : entries[j].k # d
      <4>1. ASSUME NEW j \in 1..n + 1 PROVE new[j].k # d
        <5>1. j = n + 1 \/ j \in 1..n
          BY <1>1
        <5> QED
          BY <1>2, <2>2, <3>1, <5>1
      <4> QED
        BY <1>2, <3>0, <3>1, <4>1 DEF Recorded
    <3>2. CASE \E j \in 1..n : LastOn(entries, n + 1, d, j) /\ entries[j].y = f[d]
      <4>1. PICK j \in 1..n : LastOn(entries, n + 1, d, j) /\ entries[j].y = f[d]
        BY <3>2
      <4>2. new[j].k = d /\ new[j].y = f[d] /\ j \in 1..n + 1 /\ j \in 1..(n + 2) - 1
        BY <1>1, <1>2, <4>1 DEF LastOn
      <4>3. ASSUME NEW l \in j + 1..(n + 2) - 1 PROVE new[l].k # d
        <5>1. l = n + 1 \/ l \in j + 1..(n + 1) - 1
          BY <1>1
        <5>2. l \in j + 1..(n + 1) - 1 => l \in 1..n
          BY <1>1
        <5> QED
          BY <1>2, <2>2, <4>1, <5>1, <5>2 DEF LastOn
      <4>4. LastOn(new, n + 2, d, j) /\ Len(new) + 1 = n + 2
        BY <1>1, <1>2, <4>2, <4>3 DEF LastOn
      <4> QED
        BY <1>2, <3>0, <4>2, <4>4 DEF Recorded
    <3> QED
      BY <3>0, <3>1, <3>2 DEF Recorded
  <2> QED
    BY <2>1, <2>2
<1> QED
  BY <1>7, <1>8 DEF new, g

LEMMA TraceCollects ==
  ASSUME ScriptInv, Collect, job = "compute"
  PROVE  /\ a = Shorter(left, right) /\ b = Longer(left, right)
         /\ trace' = Append(trace, [k |-> k, y |-> Furthest(k), dir |-> Direction(k)])
         /\ Traced(trace') /\ Len(trace') > 0
         /\ \A d \in -(M + 1)..N + 1 : Recorded(fp', trace', d)
<1> DEFINE e == [k |-> k, y |-> Furthest(k), dir |-> Direction(k)]
<1>1. status = "searching" /\ trace' = Append(trace, e) /\ fp' = [fp EXCEPT ![k] = Furthest(k)]
  BY DEF Collect
<1>2. TraceInv /\ SearchInv
  BY <1>1 DEF ScriptInv
<1>3. M \in Nat /\ N \in Nat /\ Delta \in Nat /\ M + Delta = N /\ k \in -M..N
  BY <1>2, Sizes DEF SearchInv
<1>4. DOMAIN fp = -(M + 1)..N + 1
  <2>1. M + Delta + 1 = N + 1
    BY <1>3
  <2> QED
    BY <1>2, <2>1 DEF SearchInv, Table
<1>5. e.k = k /\ e.y = Furthest(k)
  OBVIOUS
<1>6. /\ e \in Entry /\ Inside(e)
      /\ \/ \E j \in 1..Len(trace) :
              LastOn(trace, Len(trace) + 1, e.k - e.dir, j) /\ Leads(trace[j], e)
         \/ (\A j \in 1..Len(trace) : trace[j].k # e.k - e.dir) /\ Starts(e)
  BY <1>1, CollectedIsLinked
<1> HIDE DEF e
<1> DEFINE low == -(M + 1)  high == N + 1
<1>7. low \in Int /\ high \in Int /\ DOMAIN fp = low..high /\ e.k \in low..high
  BY <1>3, <1>4, <1>5
<1>8. Traced(trace) /\ \A d \in low..high : Recorded(fp, trace, d)
  BY <1>2 DEF TraceInv
<1> HIDE DEF low, high
<1>9. /\ Traced(Append(trace, e))
      /\ \A d \in low..high : Recorded([fp EXCEPT ![e.k] = e.y], Append(trace, e), d)
  BY <1>6, <1>7, <1>8, TraceGrows
<1>10. Len(Append(trace, e)) > 0
  BY <1>6, <1>8 DEF Traced
<1> QED
  BY <1>1, <1>2, <1>5, <1>9, <1>10 DEF TraceInv, e, low, high

LEMMA TraceGoesOn ==
  ASSUME ScriptInv, Collect, job = "compute", SearchInv'
  PROVE  TraceInv'
<1>1. /\ a = Shorter(left, right) /\ b = Longer(left, right) /\ Traced(trace')
      /\ \A d \in -(M + 1)..N + 1 : Recorded(fp', trace', d)
  BY TraceCollects
<1>2. a' = a /\ b' = b /\ left' = left /\ right' = right
  BY DEF Collect, asked
<1>3. M' = M /\ N' = N
  BY <1>2 DEF M, N
<1>4. Traced(trace)' <=> Traced(trace')
  BY <1>2 DEF Traced, Linked, Leads, Starts, Inside, LastOn, StartOf, X
<1>5. \A d \in -(M + 1)..N + 1 : Recorded(fp, trace, d)' <=> Recorded(fp', trace', d)
  BY <1>2 DEF Recorded, LastOn
<1> QED
  BY <1>1, <1>2, <1>3, <1>4, <1>5 DEF TraceInv

LEMMA NextDiagonalTraces == ScriptInv /\ NextDiagonal => ScriptInv'
<1> SUFFICES ASSUME ScriptInv, NextDiagonal PROVE ScriptInv'
  OBVIOUS
<1>1. SearchInv /\ SearchInv'
  BY NextDiagonalKeeps DEF ScriptInv
<1>2. Collect /\ job' = job /\ status = "searching" /\ status' = "searching"
  BY DEF NextDiagonal, Collect, asked
<1> QED
  BY <1>1, <1>2, TraceGoesOn DEF ScriptInv

LEMMA NextRoundTraces == ScriptInv /\ NextRound => ScriptInv'
<1> SUFFICES ASSUME ScriptInv, NextRound PROVE ScriptInv'
  OBVIOUS
<1>1. SearchInv /\ SearchInv'
  BY NextRoundKeeps DEF ScriptInv
<1>2. /\ Collect /\ job' = job /\ status = "searching"
      /\ status' = "searching" \/ status' = "tooMany"
  BY DEF NextRound, Collect, asked
<1> QED
  BY <1>1, <1>2, TraceGoesOn DEF ScriptInv

LEMMA FoundTraces == ScriptInv /\ Found => ScriptInv'
<1> SUFFICES ASSUME ScriptInv, Found PROVE ScriptInv'
  OBVIOUS
<1>1. SearchInv /\ SearchInv'
  BY FoundKeeps DEF ScriptInv
<1>2. /\ Collect /\ job' = job /\ status' = "complete" /\ left' = left /\ right' = right
      /\ k = Delta /\ Furthest(k) = N /\ hunks' = IF job = "compute" THEN Script(trace') ELSE <<>>
  BY DEF Found, Collect, asked
<1>3. ASSUME job = "compute" PROVE Route(hunks', left, right, Len(left), Len(right))
  <2> DEFINE e == [k |-> k, y |-> Furthest(k), dir |-> Direction(k)]
             branch == MainBranch(trace')  script == Backtrack(branch)
  <2>1. /\ a = Shorter(left, right) /\ b = Longer(left, right) /\ trace' = Append(trace, e)
        /\ Traced(trace') /\ Len(trace') > 0
    BY <1>2, <1>3, TraceCollects
  <2>2. /\ a \in Seq(Element) /\ b \in Seq(Element) /\ M \in Nat /\ N \in Nat /\ trace \in Seq(Entry)
        /\ left \in Seq(Element) /\ right \in Seq(Element)
    BY <1>1, Sizes DEF SearchInv
  <2>3. trace'[Len(trace')] = e
    BY <2>1, <2>2
  <2>4. Chain(branch) /\ branch[Len(branch)] = trace'[Len(trace')]
    BY <2>1, MainBranchIsChain
  <2>5. e.y = N /\ X(e) = M
    BY <1>2, <2>2 DEF X, Delta
  <2> HIDE DEF branch
  <2>6. Route(script, a, b, M, N)
    BY <2>3, <2>4, <2>5, BacktrackRoute
  <2>7. hunks' = IF Len(left) > Len(right)
                   THEN [i \in DOMAIN script |-> Unswapped(script[i])] ELSE script
    BY <1>2, <1>3 DEF Script, branch
  <2> HIDE DEF script
  <2>8. CASE Len(left) > Len(right)
    <3>1. a = right /\ b = left
      BY <2>1, <2>8 DEF Shorter, Longer
    <3>2. M = Len(right) /\ N = Len(left)
      BY <3>1 DEF M, N
    <3>3. Route([i \in DOMAIN script |-> Unswapped(script[i])], b, a, N, M)
      BY <2>6, UnswappedRoute
    <3> QED
      BY <2>7, <2>8, <3>1, <3>2, <3>3
  <2>9. CASE ~(Len(left) > Len(right))
    <3>1. a = left /\ b = right
      BY <2>1, <2>9 DEF Shorter, Longer
    <3>2. M = Len(left) /\ N = Len(right)
      BY <3>1 DEF M, N
    <3> QED
      BY <2>6, <2>7, <2>9, <3>1, <3>2
  <2> QED
    BY <2>8, <2>9
<1> QED
  BY <1>1, <1>2, <1>3 DEF ScriptInv

LEMMA SingleHunkRoute ==
  ASSUME NEW h, NEW s, NEW t, Fits(h, s, t), h.ls = 0, h.rs = 0
  PROVE  Route(<<h>>, s, t, h.lc, h.rc)
<1>1. Route(<<>>, s, t, 0, 0)
  BY EmptyRoute
<1>2. Append(<<>>, h) = <<h>>
  OBVIOUS
<1>3. h.ls + h.lc = h.lc /\ h.rs + h.rc = h.rc
  BY DEF Fits
<1> QED
  BY <1>1, <1>2, <1>3, RouteAppends

LEMMA ComputeTraces == ScriptInv /\ Compute => ScriptInv'
<1> SUFFICES ASSUME ScriptInv, Compute PROVE ScriptInv'
  OBVIOUS
<1>1. SearchInv /\ SearchInv'
  BY ComputeKeeps DEF ScriptInv
<1>2. left \in Seq(Element) /\ right \in Seq(Element) /\ Len(left) \in Nat /\ Len(right) \in Nat
  BY <1>1 DEF SearchInv
<1>3. ASSUME NEW d, NEW script, Finish("complete", d, script),
             Route(script, left, right, Len(left), Len(right))
      PROVE  ScriptInv'
  <2>1. status' = "complete" /\ hunks' = script /\ left' = left /\ right' = right
    BY <1>3 DEF Finish, asked
  <2> QED
    BY <1>1, <1>3, <2>1 DEF ScriptInv
<1>4. CASE left = right
  <2> DEFINE h == Hunk("Equal", 0, Len(left), 0, Len(right))
             script == IF left = <<>> THEN <<>> ELSE <<h>>
  <2>1. Finish("complete", 0, script)
    BY <1>4 DEF Compute
  <2>2. CASE left = <<>>
    <3>1. Len(left) = 0 /\ Len(right) = 0 /\ script = <<>>
      BY <1>4, <2>2
    <3>2. Route(script, left, right, Len(left), Len(right))
      BY <3>1, EmptyRoute
    <3> QED
      BY <1>3, <2>1, <3>2
  <2>3. CASE left # <<>>
    <3>1. h \in Hunks /\ h.type = "Equal" /\ h.ls = 0 /\ h.lc = Len(left) /\ h.rs = 0 /\ h.rc = Len(right)
      BY <1>2 DEF Hunk, Hunks, Type
    <3>2. \A i \in 1..h.lc : left[h.ls + i] = right[h.rs + i]
      BY <1>4, <3>1
    <3>3. script = <<h>>
      BY <2>3
    <3> HIDE DEF h
    <3>4. Fits(h, left, right)
      BY <1>4, <3>1, <3>2 DEF Fits, Hunks
    <3>5. Route(<<h>>, left, right, Len(left), Len(right))
      BY <3>1, <3>4, SingleHunkRoute
    <3> HIDE DEF script
    <3> QED
      BY <1>3, <2>1, <3>3, <3>5
  <2> QED
    BY <2>2, <2>3
<1>5. CASE left # right /\ (left = <<>> \/ right = <<>>)
  <2> DEFINE h == Hunk(IF right = <<>> THEN "Delete" ELSE "Insert", 0, Len(left), 0, Len(right))
  <2>1. Finish("complete", Len(left) + Len(right), <<h>>)
    BY <1>5 DEF Compute
  <2>2. /\ h \in Hunks /\ h.ls = 0 /\ h.lc = Len(left) /\ h.rs = 0 /\ h.rc = Len(right)
        /\ h.type = IF right = <<>> THEN "Delete" ELSE "Insert"
    BY <1>2 DEF Hunk, Hunks, Type
  <2> HIDE DEF h
  <2>3. CASE right = <<>>
    <3>1. left # <<>> /\ Len(left) > 0 /\ Len(right) = 0
      BY <1>2, <1>5, <2>3, EmptySeq
    <3> QED
      <4>1. Fits(h, left, right)
        BY <2>2, <2>3, <3>1 DEF Fits, Hunks
      <4>2. Route(<<h>>, left, right, Len(left), Len(right))
        BY <2>2, <4>1, SingleHunkRoute
      <4> QED
        BY <1>3, <2>1, <4>2
  <2>4. CASE right # <<>>
    <3>1. left = <<>> /\ Len(left) = 0 /\ Len(right) > 0
      BY <1>2, <1>5, <2>4, EmptySeq
    <3> QED
      <4>1. Fits(h, left, right)
        BY <2>2, <2>4, <3>1 DEF Fits, Hunks
      <4>2. Route(<<h>>, left, right, Len(left), Len(right))
        BY <2>2, <4>1, SingleHunkRoute
      <4> QED
        BY <1>3, <2>1, <4>2
  <2> QED
    BY <2>3, <2>4
<1>6. CASE left # right /\ left # <<>> /\ right # <<>>
  <2>1. Search(left, right)
    BY <1>6 DEF Compute
  <2>2. /\ a' = Shorter(left, right) /\ b' = Longer(left, right) /\ trace' = <<>>
        /\ fp' = [d \in -(Len(a') + 1)..Len(b') + 1 |-> -1]
        /\ left' = left /\ right' = right /\ status' = "searching"
    BY <2>1 DEF Search, asked
  <2>3. Traced(trace)'
    <3>1. trace' \in Seq(Entry) /\ \A i \in 1..Len(trace') : FALSE
      BY <2>2
    <3> QED
      BY <3>1 DEF Traced
  <2>4. \A d \in -(M' + 1)..N' + 1 : Recorded(fp, trace, d)'
    <3>1. \A j \in 1..Len(trace') : FALSE
      BY <2>2
    <3>2. \A d \in -(M' + 1)..N' + 1 : fp'[d] = -1
      BY <2>2 DEF M, N
    <3> QED
      BY <3>1, <3>2 DEF Recorded
  <2>5. TraceInv'
    BY <2>2, <2>3, <2>4 DEF TraceInv, Shorter, Longer
  <2> QED
    BY <1>1, <2>2, <2>5 DEF ScriptInv
<1> QED
  BY <1>4, <1>5, <1>6

LEMMA CountTraces == ScriptInv /\ Count => ScriptInv'
<1> SUFFICES ASSUME ScriptInv, Count PROVE ScriptInv'
  OBVIOUS
<1>1. SearchInv'
  BY CountKeeps DEF ScriptInv
<1>2. job' = "count"
  <2>1. job = "count" /\ job' = job
    BY DEF Count, Finish, Search, asked
  <2> QED
    BY <2>1
<1> QED
  BY <1>1, <1>2 DEF ScriptInv

LEMMA ScriptRests ==
  ASSUME ScriptInv, SearchInv', UNCHANGED <<asked, a, b, fp, trace, hunks>>,
         status' = status \/ status' = "stopped"
  PROVE  ScriptInv'
<1>1. /\ job' = job /\ left' = left /\ right' = right /\ a' = a /\ b' = b /\ fp' = fp
      /\ trace' = trace /\ hunks' = hunks
  BY DEF asked
<1>2. M' = M /\ N' = N
  BY <1>1 DEF M, N
<1>3. Traced(trace)' <=> Traced(trace)
  BY <1>1 DEF Traced, Linked, Leads, Starts, Inside, LastOn, StartOf, X
<1>4. \A d : Recorded(fp, trace, d)' <=> Recorded(fp, trace, d)
  BY <1>1 DEF Recorded, LastOn
<1>5. TraceInv => TraceInv'
  BY <1>1, <1>2, <1>3, <1>4 DEF TraceInv, Shorter, Longer
<1> QED
  BY <1>1, <1>5 DEF ScriptInv

LEMMA ScriptStays == ScriptInv /\ [NextAll]_all => ScriptInv'
<1> SUFFICES ASSUME ScriptInv, [NextAll]_all PROVE ScriptInv'
  OBVIOUS
<1>1. \/ Compute \/ Count \/ NextDiagonal \/ NextRound \/ Found \/ Stop \/ UNCHANGED vars
  BY DEF NextAll, all, Views, Exports, Resolves, Commands
<1>2. SearchInv'
  BY SearchStays DEF ScriptInv
<1>3. CASE Stop
  BY <1>2, <1>3, ScriptRests DEF Stop
<1>4. CASE UNCHANGED vars
  BY <1>2, <1>4, ScriptRests DEF vars
<1> QED
  BY <1>1, <1>3, <1>4, ComputeTraces, CountTraces, NextDiagonalTraces, NextRoundTraces, FoundTraces

LEMMA ScriptInit == InitAll => ScriptInv
<1> SUFFICES ASSUME InitAll PROVE ScriptInv
  OBVIOUS
<1>1. status = "asked"
  BY DEF InitAll, Init
<1> QED
  BY <1>1, SearchInit DEF ScriptInv

LEMMA ScriptIsRight == ScriptInv => ScriptIsSound
<1> SUFFICES ASSUME ScriptInv PROVE ScriptIsSound
  OBVIOUS
<1>1. TypeOK
  BY SearchIsTyped DEF ScriptInv
<1>2. ASSUME status = "complete", job = "compute", NEW merge \in BOOLEAN, NEW coalesce \in BOOLEAN
      PROVE  LET script == Presented(hunks, merge, coalesce)
             IN /\ ValidScript(script, left, right)
                /\ coalesce => \A i \in 1..Len(script) - 1 : script[i].type # script[i + 1].type
  <2>1. Route(hunks, left, right, Len(left), Len(right))
    BY <1>2 DEF ScriptInv
  <2>2. /\ ValidScript(Presented(hunks, merge, coalesce), left, right)
        /\ coalesce => Alternates(Presented(hunks, merge, coalesce))
    BY <2>1, PresentedIsValid
  <2> QED
    BY <2>2 DEF Alternates
<1> QED
  BY <1>1, <1>2 DEF ScriptIsSound, ScriptIsValid

\* For any two inputs: what compute returns is a script that turns one into the other,
\* whose hunks follow each other without a gap and whose equal hunks match, however
\* they are merged; coalesced, neighbours differ in type (SequenceDiff.h, Diff.h and
\* SequenceDiff.cpp).
THEOREM ScriptsAreSound == SpecAll => []ScriptIsSound
<1>1. InitAll => ScriptInv
  BY ScriptInit
<1>2. ScriptInv /\ [NextAll]_all => ScriptInv'
  BY ScriptStays
<1>3. ScriptInv => ScriptIsSound
  BY ScriptIsRight
<1> QED
  BY <1>1, <1>2, <1>3, PTL DEF SpecAll

\* A block that slides is still the same edit, whichever rules move it: unless a line
\* is a mark, onto which blocks slide unasked, or lines that only look alike trimmed
\* are taken for fillers of a kind (SliderHeuristics.cpp, adjustPosition).
THEOREM SlidingIsTheSameEdit ==
  ASSUME Unmarked, FillersAreEqual
  PROVE  SpecAll => []SlidBlocksAreTheSameEdit
<1>1. ScriptIsSound => SlidBlocksAreTheSameEdit
  BY SlidingKeeps
<1>2. SpecAll => []ScriptIsSound
  BY ScriptsAreSound
<1> QED
  BY <1>1, <1>2, PTL
=============================================================================
