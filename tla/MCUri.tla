------------------------------- MODULE MCUri -------------------------------
(* Uri for TLC: the strings are unbounded, so the only constant is RFC. *)
EXTENDS Uri
=============================================================================
