-------------------------------- MODULE MCRunner --------------------------------
(***************************************************************************)
(* Instances of Runner for TLC.                                            *)
(***************************************************************************)
EXTENDS Runner

\* Success, failure, the largest code and the end by a signal.
Codes == {-1, 0, 1, 255}
================================================================================
