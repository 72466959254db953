----------------------------- MODULE MCDirCopy -----------------------------
(* Constants of the runs of DirCopy: e lies in d; all may be files or directories. *)
EXTENDS DirCopy

MCWalk == <<<<"d">>, <<"d", "e">>, <<"h">>>>

\* Every tree whose files hold the given content.
Trees(content) ==
  {t \in [Path -> {Absent, Directory(0), File(<<content, content>>, 0)}] : IsTree(t)}

\* Sources with something in d; the destinations' files differ from theirs.
MCSources == {t \in Trees(0) : t[<<"d", "e">>] # Absent}
MCDestinations == Trees(100)
=============================================================================
