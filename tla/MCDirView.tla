----------------------------- MODULE MCDirView -----------------------------
(* Constants of the runs of DirView: a directory d with one file, and a file. *)
EXTENDS DirView

CONSTANTS r1, r2, plain, loose, a, b

MCPath == {<<"d">>, <<"d", "f">>, <<"g">>}
MCDirs == {<<"d">>}

\* The loose options take the contents a and b for the same.
MCAlike == [o \in Options |-> IF o = loose THEN {<<a, b>>, <<b, a>>} ELSE {}]

\* The two files d/f differ, and the second root has no file g.
MCInitialTree ==
  [r \in Root |-> [p \in IF r = r1 THEN MCPath ELSE MCPath \ {<<"g">>} |->
     IF p \in Dirs THEN "directory" ELSE IF r = r1 THEN a ELSE b]]
=============================================================================
