------------------------------- MODULE MCJobs -------------------------------
(* A small instance of Jobs for TLC: a file of two chunks and an empty       *)
(* directory.  Its run checks liveness, so nothing is declared symmetric.    *)
EXTENDS Jobs, TLC
CONSTANTS file, folder

MCEntries == {file, folder}
MCChunks == file :> 2 @@ folder :> 0
=============================================================================
