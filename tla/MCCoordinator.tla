----------------------------- MODULE MCCoordinator -----------------------------
(***************************************************************************)
(* Instances of Coordinator for TLC: fixtures with every sharing scope.    *)
(***************************************************************************)
EXTENDS Coordinator, TLC

CONSTANTS unr, priv, once, k1, k2, k3, k4, a, b

Policy(scope, n) == [use_scope |-> scope, maximum_concurrent_connections |-> n]

\* A fixture shared by everyone with two slots, one without a sharing policy,
\* and a single_use one whose slot count is not positive.
PolicyOf == unr :> Policy("unrestricted", 2) @@ priv :> None
            @@ once :> Policy("single_use", 0)

MixedSharing == [f \in Fingerprints |-> PolicyOf[f]]

\* One slot, open to every client.
OneSlot == [f \in Fingerprints |-> Policy("unrestricted", 1)]

\* More slots than the instance has calls.
ManySlots == [f \in Fingerprints |-> Policy("unrestricted", 8)]

Symm == Permutations(Calls) \cup Permutations(Clients)
================================================================================
