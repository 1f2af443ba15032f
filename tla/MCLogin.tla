------------------------------- MODULE MCLogin -------------------------------
(* A small instance of Login for TLC: an address shared by two browsers. *)
EXTENDS Login
=============================================================================
