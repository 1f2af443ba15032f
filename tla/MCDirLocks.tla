----------------------------- MODULE MCDirLocks -----------------------------
(* A small instance of DirLocks for TLC.  Three tasks make a queue of two    *)
(* behind a holder, two directories make an order, two blocks a re-entry.    *)
EXTENDS DirLocks, TLC
=============================================================================
