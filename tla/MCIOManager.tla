---------------------------- MODULE MCIOManager ----------------------------
(***************************************************************************)
(* Instances of IOManager for TLC.                                         *)
(***************************************************************************)
EXTENDS IOManager, TLC

CONSTANTS fd1, fd2, wait1, wait2, wait3, idler1, idler2
=============================================================================
