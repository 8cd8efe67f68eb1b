-------------------------------- MODULE MCSystem --------------------------------
(***************************************************************************)
(* Instances of System for TLC.                                            *)
(***************************************************************************)
EXTENDS System, TLC

CONSTANTS unr, k1, k2, k3, a

\* Two slots, open to every client.
TwoSlots == [f \in Fingerprints |->
    [use_scope |-> "unrestricted", maximum_concurrent_connections |-> 2]]

Symm == Permutations(Calls)
================================================================================
