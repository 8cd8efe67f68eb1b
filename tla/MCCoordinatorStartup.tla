-------------------------- MODULE MCCoordinatorStartup --------------------------
(***************************************************************************)
(* An instance of CoordinatorStartup for TLC: two runners that wait long   *)
(* enough, and one that may time out at any time.                          *)
(***************************************************************************)
EXTENDS CoordinatorStartup

CONSTANTS r1, r2, r3
================================================================================
