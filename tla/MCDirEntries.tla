---------------------------- MODULE MCDirEntries ----------------------------
(* Small instances of DirEntries for TLC. *)
EXTENDS DirEntries, TLC

\* Uuids, filenames and tasks are interchangeable.
Symmetry == Permutations(Ids) \cup Permutations(Names) \cup Permutations(Tasks)
=============================================================================
