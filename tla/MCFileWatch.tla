----------------------------- MODULE MCFileWatch -----------------------------
(* Two interchangeable files, each of three contents, and two foreign writes. *)
EXTENDS FileWatch, TLC

Interchangeable == Permutations(File)
=============================================================================
