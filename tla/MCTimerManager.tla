--------------------------- MODULE MCTimerManager ---------------------------
(***************************************************************************)
(* Instances of TimerManager for TLC.                                      *)
(***************************************************************************)
EXTENDS TimerManager

CONSTANTS user1, user2, idler1, idler2
=============================================================================
