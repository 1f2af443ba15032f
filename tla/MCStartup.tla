------------------------------ MODULE MCStartup ------------------------------
(* A small instance of Startup for TLC. *)
EXTENDS Startup, TLC

\* Names, passwords, uuids and keys are interchangeable.
Symmetry == Permutations(Usernames) \cup Permutations(Passwords)
              \cup Permutations(Accounts) \cup Permutations(Keys)
=============================================================================
