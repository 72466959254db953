---------------------------- MODULE MCFileEditing ----------------------------
(* Constants of the runs of FileEditing.                                     *)
EXTENDS FileEditing

\* Bytes that cannot be decoded are shown as the text of all lines.
MCLossy == [b \in Broken |-> Line]
=============================================================================
