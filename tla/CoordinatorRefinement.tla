--------------------------- MODULE CoordinatorRefinement ---------------------------
(***************************************************************************)
(* Proof that the coordinator implements LeaseRegistry: attaching is a     *)
(* Share, publishing a Provide, the first release of a lease a Release,    *)
(* and every other step of a handler, a caller or a plugin changes nothing *)
(* that LeaseRegistry speaks of.                                           *)
(***************************************************************************)
EXTENDS CoordinatorProofs

\* The refinement mapping of Registry, by name.
Offered == [f \in Fingerprints |->
               IF fixtures[f] = None THEN None ELSE fixtures[f].plugin]
Owner == [l \in Calls |-> IF granted[l] = None THEN None ELSE client[l]]
Active == {l \in Calls : leases[l] # None}

\* A coordinator that has just started offers nothing.
LEMMA RegistryInit == Init => Registry!Init
  BY DEF Init, Registry!Init

\* sharing_admits grants what the scope of the fixture admits: an unset scope
\* is a client_restricted one.
LEMMA SharingAdmitsIsScope ==
    \A f \in Fingerprints : \A x, y \in Clients :
        sharing_admits(SharingOf(f), x, y) => Registry!Admits(f, x, y)
  BY SharingOfType DEF sharing_admits, Registry!Admits, Sharing, UseScope

\* take_lease, first critical section: a lease on the instance on offer.
LEMMA AttachShares ==
    ASSUME TypeOK, CallsConsistent, CacheConsistent,
           NEW r \in Calls, NEW c \in Clients, NEW f \in Fingerprints,
           TakeLeaseAttach(r, c, f)
    PROVE  Registry!Share(r, f)
<1> DEFINE i == fixtures[f].plugin
<1>1. fixtures[f] # None /\ i \in Calls /\ i # None
  BY NoneAssumption DEF TypeOK, FixtureRecord, TakeLeaseAttach, CanAttach
<1>2. Offered[f] = i /\ Owner[i] = fixtures[f].creating_client_id
  BY <1>1 DEF CacheConsistent, Offered, Owner
<1>3. sharing_admits(SharingOf(f), fixtures[f].creating_client_id, c)
  BY <1>1 DEF CacheConsistent, TakeLeaseAttach, CanAttach
<1>4. Registry!Admits(f, fixtures[f].creating_client_id, c)
  BY <1>1, <1>3, SharingAdmitsIsScope DEF TypeOK, FixtureRecord
<1>5. granted[r] = None /\ granted' = [granted EXCEPT ![r] = i]
  BY DEF CallsConsistent, TakeLeaseAttach
<1>6. Owner' = [Owner EXCEPT ![r] = c]
  BY <1>1, <1>5 DEF TypeOK, Owner, TakeLeaseAttach
<1>7. Active' = Active \cup {r}
  BY NoneAssumption DEF TypeOK, Active, TakeLeaseAttach
<1>8. Offered' = Offered
  <2> SUFFICES ASSUME NEW g \in Fingerprints PROVE Offered'[g] = Offered[g]
    BY DEF Offered
  <2>1. fixtures'[f] # None /\ fixtures'[f].plugin = i
    BY <1>1, NoneAssumption DEF TypeOK, FixtureRecord, TakeLeaseAttach
  <2> QED
    BY <1>1, <2>1 DEF TypeOK, Offered, TakeLeaseAttach
<1> QED
  BY <1>1, <1>2, <1>4, <1>5, <1>6, <1>7, <1>8
     DEF Registry!Share, Registry!Grant, Offered, Owner, Active

\* take_lease, second critical section: a lease on a fresh instance, which is
\* now the one on offer.
LEMMA PublishProvides ==
    ASSUME TypeOK, CallsConsistent, CacheConsistent,
           NEW r \in Calls, NEW c \in Clients, NEW f \in Fingerprints,
           c = client[r], f = fp[r], Publish(r)
    PROVE  Registry!Provide(r)
<1> DEFINE new == [sharing |-> SharingOf(f), creating_client_id |-> c,
                   used_slots |-> 1, plugin |-> r]
<1>1. granted[r] = None
  BY DEF CallsConsistent, Publish
<1>2. new \in FixtureRecord /\ new # None
  BY SharingOfType, NoneAssumption DEF FixtureRecord
<1>3. fixtures' = [fixtures EXCEPT ![f] = new]
  BY DEF Publish
<1>4. granted' = [granted EXCEPT ![r] = r] /\ r # None
  BY NoneAssumption DEF Publish
<1>5. Owner' = [Owner EXCEPT ![r] = c]
  BY <1>4 DEF TypeOK, Owner, Publish
<1>6. Active' = Active \cup {r}
  BY <1>1, NoneAssumption DEF TypeOK, Active, Publish
<1>7. Offered' = [Offered EXCEPT ![f] = r]
  BY <1>2, <1>3 DEF TypeOK, Offered
<1> QED
  BY <1>1, <1>4, <1>5, <1>6, <1>7
     DEF Registry!Provide, Registry!Grant, Offered, Owner, Active

\* release_lease: the first release ends the claim, a repeated one does nothing,
\* and neither changes which instance is on offer.
LEMMA ReleaseReleases ==
    ASSUME TypeOK, CallsConsistent, CacheConsistent, NEW r \in Calls, ReleaseLease(r)
    PROVE  Registry!Release(r) \/ UNCHANGED Registry!vars
<1>1. Offered' = Offered
  <2> SUFFICES ASSUME NEW g \in Fingerprints PROVE Offered'[g] = Offered[g]
    BY DEF Offered
  <2>1. CASE leases[r] # g \/ fixtures[g] = None
    BY <2>1 DEF TypeOK, Offered, ReleaseLease
  <2>2. CASE leases[r] = g /\ fixtures[g] # None
    <3>1. fixtures'[g] \in FixtureRecord /\ fixtures'[g].plugin = fixtures[g].plugin
      BY <2>2, NoneAssumption
         DEF TypeOK, FixtureRecord, ReleaseLease, SlotsAfterRelease
    <3> QED
      BY <2>2, <3>1, NoneAssumption DEF Offered
  <2> QED
    BY <2>1, <2>2
<1>2. granted' = granted /\ Owner' = Owner
  BY DEF Owner, ReleaseLease
<1>3. CASE leases[r] # None
  <2>1. r \in Active /\ Active' = Active \ {r}
    BY <1>3 DEF TypeOK, Active, ReleaseLease
  <2> QED
    BY <1>1, <1>2, <2>1 DEF Registry!Release, Offered, Owner, Active
<1>4. CASE leases[r] = None
  <2>1. Active' = Active
    BY <1>4 DEF TypeOK, Active, ReleaseLease
  <2> QED
    BY <1>1, <1>2, <2>1 DEF Registry!vars, Offered, Owner, Active
<1> QED
  BY <1>3, <1>4

\* take_lease, nothing to attach to: only the client of a call that holds no
\* grant changes.
LEMMA MissStutters ==
    ASSUME TypeOK, CallsConsistent, NEW r \in Calls, NEW c \in Clients,
           NEW f \in Fingerprints, TakeLeaseMiss(r, c, f)
    PROVE  UNCHANGED Registry!vars
<1>1. UNCHANGED <<fixtures, leases, granted>>
  BY DEF TakeLeaseMiss
<1>2. Owner' = Owner
  BY DEF TypeOK, CallsConsistent, Owner, TakeLeaseMiss
<1> QED
  BY <1>1, <1>2 DEF Registry!vars, Owner

\* The registry is a function of the two maps, the grants and their clients.
LEMMA QuietStutters ==
    ASSUME UNCHANGED <<fixtures, leases, granted, client>>
    PROVE  UNCHANGED Registry!vars
  BY DEF Registry!vars

\* Every step of the coordinator is a step of LeaseRegistry or a stutter.
LEMMA RegistryNext ==
    ASSUME TypeOK, CallsConsistent, CacheConsistent, [Next]_vars
    PROVE  [Registry!Next]_(Registry!vars)
<1>1. ASSUME NEW r \in Calls, NEW c \in Clients, NEW f \in Fingerprints,
             TakeLeaseAttach(r, c, f)
      PROVE  Registry!Next
  BY <1>1, AttachShares DEF Registry!Next
<1>2. ASSUME NEW r \in Calls, Publish(r) PROVE Registry!Next
  <2>1. PICK c \in Clients, f \in Fingerprints : c = client[r] /\ f = fp[r]
    BY <1>2 DEF CallsConsistent, Publish, InFlight
  <2> QED
    BY <1>2, <2>1, PublishProvides DEF Registry!Next
<1>3. ASSUME NEW r \in Calls, ReleaseLease(r)
      PROVE  Registry!Next \/ UNCHANGED Registry!vars
  BY <1>3, ReleaseReleases DEF Registry!Next
<1>4. ASSUME NEW r \in Calls, NEW c \in Clients, NEW f \in Fingerprints,
             TakeLeaseMiss(r, c, f)
      PROVE  UNCHANGED Registry!vars
  BY <1>4, MissStutters
<1>5. ASSUME NEW r \in Calls,
             \/ TakeLeaseRejected(r) \/ SpawnPlugin(r) \/ SpawnFailed(r)
             \/ Connected(r) \/ ConnectFailed(r) \/ Described(r) \/ Created(r)
             \/ ProvisionFailed(r) \/ ClientGone(r) \/ Cancel(r)
             \/ PluginServes(r) \/ PluginExits(r)
      PROVE  UNCHANGED Registry!vars
  <2>1. UNCHANGED <<fixtures, leases, granted, client>>
    BY <1>5 DEF TakeLeaseRejected, SpawnPlugin, SpawnFailed, Connected,
       ConnectFailed, Described, Created, ProvisionFailed, ClientGone, Cancel,
       PluginServes, PluginExits
  <2> QED
    BY <2>1, QuietStutters
<1>6. CASE UNCHANGED vars
  BY <1>6 DEF vars, Registry!vars
<1> QED
  BY <1>1, <1>2, <1>3, <1>4, <1>5, <1>6 DEF Next

\* The coordinator, with its concurrent handlers, failing plugins and vanishing
\* callers, implements the lease registry it promises.
THEOREM ImplementsLeaseRegistry == Spec => RefinesLeaseRegistry
<1>1. IInv /\ [Next]_vars => [Registry!Next]_(Registry!vars)
  BY RegistryNext DEF IInv
<1> QED
  BY <1>1, RegistryInit, Inductive, PTL
     DEF Spec, RefinesLeaseRegistry, Registry!Spec
================================================================================
