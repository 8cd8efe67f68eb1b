----------------------------- MODULE LeaseRegistry -----------------------------
(***************************************************************************)
(* What the coordinator promises its callers, without saying how: a lease  *)
(* is a claim on one provisioned fixture instance, taken either on a fresh *)
(* instance or on the instance currently offered for that fingerprint,     *)
(* and then only when the fixture's sharing scope admits the caller.       *)
(*                                                                         *)
(* Slots, plugin processes, sockets, failing or cancelled calls and the    *)
(* interleaving of handlers do not appear here. Module Coordinator         *)
(* implements this specification, and System, in which daemons die, the    *)
(* one with restarts.                                                      *)
(***************************************************************************)
CONSTANTS
    Calls,         \* TakeLease calls; a call names the lease and instance it mints
    Clients,       \* client_ids
    Fingerprints,  \* fixture identities
    Scope,         \* [Fingerprints -> the use_scope of the fixture]
    None

VARIABLES
    offered,  \* [Fingerprints -> instance new leases may attach to, or None]
    claim,    \* [Calls -> instance the lease was granted, or None]
    owner,    \* [Calls -> client the lease was granted to, or None]
    active    \* leases granted and not yet released

vars == <<offered, claim, owner, active>>

\* The scope admits a client other than through the call that provisioned.
Admits(f, creator, c) ==
    \/ Scope[f] = "unrestricted"
    \/ Scope[f] = "client_restricted" /\ creator = c

Init ==
    /\ offered = [f \in Fingerprints |-> None]
    /\ claim = [l \in Calls |-> None]
    /\ owner = [l \in Calls |-> None]
    /\ active = {}

Grant(l, i) ==
    /\ claim[l] = None
    /\ claim' = [claim EXCEPT ![l] = i]
    /\ active' = active \cup {l}

\* A fresh instance, named after the lease, becomes the one on offer.
Provide(l) ==
    /\ Grant(l, l)
    /\ \E c \in Clients : owner' = [owner EXCEPT ![l] = c]
    /\ \E f \in Fingerprints : offered' = [offered EXCEPT ![f] = l]

Share(l, f) ==
    /\ offered[f] # None
    /\ Grant(l, offered[f])
    /\ \E c \in Clients :
           /\ Admits(f, owner[offered[f]], c)
           /\ owner' = [owner EXCEPT ![l] = c]
    /\ UNCHANGED offered

Release(l) ==
    /\ l \in active
    /\ active' = active \ {l}
    /\ UNCHANGED <<offered, claim, owner>>

Next == \E l \in Calls :
    \/ Provide(l)
    \/ \E f \in Fingerprints : Share(l, f)
    \/ Release(l)

Spec == Init /\ [][Next]_vars

\* The registry is kept in memory: with its process go all offers and active
\* leases. What callers were granted before stays a fact of the past.
Lose ==
    /\ offered' = [f \in Fingerprints |-> None]
    /\ active' = {}
    /\ UNCHANGED <<claim, owner>>

RestartingSpec == Init /\ [][Next \/ Lose]_vars
================================================================================
