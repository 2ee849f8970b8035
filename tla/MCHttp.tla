------------------------------- MODULE MCHttp -------------------------------
(* Http for TLC: two fibers, which make two requests between them.           *)
EXTENDS Http

CONSTANTS u1, u2, l1
=============================================================================
