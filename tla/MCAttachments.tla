---------------------------- MODULE MCAttachments ----------------------------
(* A small instance of Attachments for TLC.  Tasks are interchangeable. *)
EXTENDS Attachments, TLC

Symmetry == Permutations(Tasks)
=============================================================================
