----------------------------- MODULE MCHookIO ------------------------------
(* HookIO for TLC: two fibers, one that closes, and one descriptor number,   *)
(* which is used again and again.  A fiber reads twice; two fibers read the  *)
(* same number; one reads while the other connects; or one call is made      *)
(* while the descriptor is set blocking and non-blocking.                    *)
EXTENDS HookIO, TLC

CONSTANTS c1, c2, k1, fd1

Reads == <<"io", "READ">>
Connects == <<"connect", "WRITE">>
MCPlan(s1, s2, n) == [calls |-> (c1 :> s1) @@ (c2 :> s2), changes |-> n]

MCPlans == {MCPlan(<<Reads, Reads>>, <<>>, 0),
            MCPlan(<<Reads>>, <<Reads>>, 0),
            MCPlan(<<Reads>>, <<Connects>>, 0),
            MCPlan(<<Reads>>, <<>>, 2)}
=============================================================================
