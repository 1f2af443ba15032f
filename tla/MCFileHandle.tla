---------------------------- MODULE MCFileHandle ----------------------------
(* FileHandle on a file of a few bytes. *)
EXTENDS FileHandle, TLC

Renamings == Permutations(Values) \cup Permutations(Handles)
=============================================================================
