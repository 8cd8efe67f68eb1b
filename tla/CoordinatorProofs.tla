---------------------------- MODULE CoordinatorProofs ----------------------------
(***************************************************************************)
(* Proofs that the coordinator's safety properties hold for any number of  *)
(* calls, clients and fixtures, under any sharing policies.                *)
(***************************************************************************)
EXTENDS Coordinator, FiniteSetTheorems, TLAPS

\* unwrap_or: the policy a record gets is always a Sharing.
LEMMA SharingOfType == \A f \in Fingerprints : SharingOf(f) \in Sharing
  BY SharingAssumption DEF SharingOf, Sharing, UseScope

\* Drop for PluginProcess: only the dropped process changes, and it ends.
LEMMA DropPluginEffect ==
    ASSUME TypeOK, NEW i \in Calls
    PROVE  /\ DropPlugin(i) \in [Calls -> PluginState]
           /\ \A j \in Calls : j # i => DropPlugin(i)[j] = plugin[j]
           /\ DropPlugin(i)[i] \in {plugin[i], "killed"} \ Running
  BY DEF TypeOK, DropPlugin, PluginState, Running

\* The coordinator starts without fixtures, leases or plugins.
LEMMA InitIInv == Init => IInv
  BY DEF Init, IInv, TypeOK, CallsConsistent, PluginsConsistent,
     CacheConsistent, PublishedStaysCached, CacheNeverKilled, ScopeRespected,
     InFlight, PluginState

\* No step of a handler, a caller or a plugin breaks the agreement of the maps,
\* the handlers and the plugin processes.
LEMMA NextIInv == IInv /\ [Next]_vars => IInv'
<1> SUFFICES ASSUME IInv, [Next]_vars PROVE IInv'
  OBVIOUS
<1> USE NoneAssumption, SharingAssumption DEF InFlight, Terminal, PluginState, Running
<1>1. ASSUME NEW r \in Calls, TakeLeaseRejected(r) PROVE IInv'
  <2>1. TypeOK'
    BY <1>1 DEF IInv, TypeOK, TakeLeaseRejected
  <2>2. CallsConsistent'
    BY <1>1 DEF IInv, CallsConsistent, TakeLeaseRejected
  <2>3. PluginsConsistent'
    BY <1>1 DEF IInv, PluginsConsistent, TakeLeaseRejected
  <2>4. CacheConsistent' /\ PublishedStaysCached' /\ CacheNeverKilled' /\
     ScopeRespected'
    BY <1>1 DEF IInv, CacheConsistent, PublishedStaysCached, CacheNeverKilled,
       ScopeRespected, TakeLeaseRejected
  <2> QED
    BY <2>1, <2>2, <2>3, <2>4 DEF IInv
<1>2. ASSUME NEW r \in Calls, NEW c \in Clients, NEW f \in Fingerprints,
             TakeLeaseAttach(r, c, f) PROVE IInv'
  <2>1. TypeOK'
    BY <1>2 DEF IInv, TypeOK, TakeLeaseAttach, CanAttach, FixtureRecord
  <2>2. CallsConsistent'
    BY <1>2 DEF IInv, TypeOK, CallsConsistent, CacheConsistent, TakeLeaseAttach,
       CanAttach, FixtureRecord
  <2>3. PluginsConsistent'
    BY <1>2 DEF IInv, PluginsConsistent, TakeLeaseAttach
  <2>4. CacheConsistent'
    BY <1>2 DEF IInv, CallsConsistent, CacheConsistent, TakeLeaseAttach,
       CanAttach
  <2>5. PublishedStaysCached'
    BY <1>2 DEF IInv, TypeOK, PublishedStaysCached, TakeLeaseAttach, CanAttach,
       FixtureRecord
  <2>6. CacheNeverKilled'
    BY <1>2 DEF IInv, CacheNeverKilled, TakeLeaseAttach, CanAttach
  <2>7. ScopeRespected'
    BY <1>2 DEF IInv, TypeOK, CallsConsistent, CacheConsistent, ScopeRespected,
       TakeLeaseAttach, CanAttach, sharing_admits
  <2> QED
    BY <2>1, <2>2, <2>3, <2>4, <2>5, <2>6, <2>7 DEF IInv
<1>3. ASSUME NEW r \in Calls, NEW c \in Clients, NEW f \in Fingerprints,
             TakeLeaseMiss(r, c, f) PROVE IInv'
  <2>1. TypeOK'
    BY <1>3 DEF IInv, TypeOK, TakeLeaseMiss
  <2>2. CallsConsistent'
    BY <1>3 DEF IInv, TypeOK, CallsConsistent, TakeLeaseMiss
  <2>3. PluginsConsistent'
    BY <1>3 DEF IInv, PluginsConsistent, TakeLeaseMiss
  <2>4. CacheConsistent'
    BY <1>3 DEF IInv, CallsConsistent, CacheConsistent, TakeLeaseMiss
  <2>5. PublishedStaysCached'
    BY <1>3 DEF IInv, CallsConsistent, PublishedStaysCached, TakeLeaseMiss
  <2>6. ScopeRespected'
    BY <1>3 DEF IInv, CallsConsistent, ScopeRespected, TakeLeaseMiss
  <2>7. CacheNeverKilled'
    BY <1>3 DEF IInv, CacheNeverKilled, TakeLeaseMiss
  <2> QED
    BY <2>1, <2>2, <2>3, <2>4, <2>5, <2>6, <2>7 DEF IInv
<1>4. ASSUME NEW r \in Calls, SpawnPlugin(r) PROVE IInv'
  <2>1. TypeOK'
    BY <1>4 DEF IInv, TypeOK, SpawnPlugin
  <2>2. CallsConsistent'
    BY <1>4 DEF IInv, CallsConsistent, SpawnPlugin
  <2>3. PluginsConsistent'
    BY <1>4 DEF IInv, TypeOK, CallsConsistent, PluginsConsistent, SpawnPlugin
  <2>4. PublishedStaysCached'
    BY <1>4 DEF IInv, CallsConsistent, PublishedStaysCached, SpawnPlugin
  <2>5. CacheNeverKilled'
    BY <1>4 DEF IInv, CacheNeverKilled, SpawnPlugin
  <2>6. CacheConsistent' /\ ScopeRespected'
    BY <1>4 DEF IInv, CacheConsistent, ScopeRespected, SpawnPlugin
  <2> QED
    BY <2>1, <2>2, <2>3, <2>4, <2>5, <2>6 DEF IInv
<1>5. ASSUME NEW r \in Calls, SpawnFailed(r) PROVE IInv'
  <2>1. TypeOK'
    BY <1>5 DEF IInv, TypeOK, SpawnFailed
  <2>2. CallsConsistent'
    BY <1>5 DEF IInv, CallsConsistent, SpawnFailed
  <2>3. PluginsConsistent'
    BY <1>5 DEF IInv, PluginsConsistent, SpawnFailed
  <2>4. CacheConsistent' /\ PublishedStaysCached' /\ CacheNeverKilled' /\
     ScopeRespected'
    BY <1>5 DEF IInv, CacheConsistent, PublishedStaysCached, CacheNeverKilled,
       ScopeRespected, SpawnFailed
  <2> QED
    BY <2>1, <2>2, <2>3, <2>4 DEF IInv
<1>6. ASSUME NEW r \in Calls, Connected(r) PROVE IInv'
  <2>1. TypeOK'
    BY <1>6 DEF IInv, TypeOK, Connected
  <2>2. CallsConsistent'
    BY <1>6 DEF IInv, CallsConsistent, Connected
  <2>3. PluginsConsistent'
    BY <1>6 DEF IInv, PluginsConsistent, Connected
  <2>4. CacheConsistent' /\ PublishedStaysCached' /\ CacheNeverKilled' /\
     ScopeRespected'
    BY <1>6 DEF IInv, CacheConsistent, PublishedStaysCached, CacheNeverKilled,
       ScopeRespected, Connected
  <2> QED
    BY <2>1, <2>2, <2>3, <2>4 DEF IInv
<1>7. ASSUME NEW r \in Calls, ConnectFailed(r) PROVE IInv'
  <2>1. TypeOK'
    BY <1>7 DEF IInv, TypeOK, ConnectFailed
  <2>2. CallsConsistent'
    BY <1>7 DEF IInv, CallsConsistent, ConnectFailed
  <2>3. PluginsConsistent'
    BY <1>7 DEF IInv, PluginsConsistent, ConnectFailed
  <2>4. CacheConsistent' /\ PublishedStaysCached' /\ CacheNeverKilled' /\
     ScopeRespected'
    BY <1>7 DEF IInv, CacheConsistent, PublishedStaysCached, CacheNeverKilled,
       ScopeRespected, ConnectFailed
  <2> QED
    BY <2>1, <2>2, <2>3, <2>4 DEF IInv
<1>8. ASSUME NEW r \in Calls, Described(r) PROVE IInv'
  <2>1. TypeOK'
    BY <1>8 DEF IInv, TypeOK, Described
  <2>2. CallsConsistent'
    BY <1>8 DEF IInv, CallsConsistent, Described
  <2>3. PluginsConsistent'
    BY <1>8 DEF IInv, PluginsConsistent, Described
  <2>4. CacheConsistent' /\ PublishedStaysCached' /\ CacheNeverKilled' /\
     ScopeRespected'
    BY <1>8 DEF IInv, CacheConsistent, PublishedStaysCached, CacheNeverKilled,
       ScopeRespected, Described
  <2> QED
    BY <2>1, <2>2, <2>3, <2>4 DEF IInv
<1>9. ASSUME NEW r \in Calls, Created(r) PROVE IInv'
  <2>1. TypeOK'
    BY <1>9 DEF IInv, TypeOK, Created
  <2>2. CallsConsistent'
    BY <1>9 DEF IInv, CallsConsistent, Created
  <2>3. PluginsConsistent'
    BY <1>9 DEF IInv, PluginsConsistent, Created
  <2>4. CacheConsistent' /\ PublishedStaysCached' /\ CacheNeverKilled' /\
     ScopeRespected'
    BY <1>9 DEF IInv, CacheConsistent, PublishedStaysCached, CacheNeverKilled,
       ScopeRespected, Created
  <2> QED
    BY <2>1, <2>2, <2>3, <2>4 DEF IInv
<1>10. ASSUME NEW r \in Calls, ProvisionFailed(r) PROVE IInv'
  <2>1. pc[r] \in InFlight /\ pc'[r] \in {"failed", "abandoned"}
    BY <1>10 DEF IInv, TypeOK, ProvisionFailed
  <2>2. /\ plugin' \in [Calls -> PluginState]
        /\ \A j \in Calls : j # r => plugin'[j] = plugin[j]
        /\ pc'[r] = "failed" => plugin'[r] \notin Running
        /\ pc'[r] = "abandoned" => plugin'[r] = plugin[r]
    BY <1>10, DropPluginEffect DEF IInv, ProvisionFailed
  <2>3. granted[r] = None
    BY <2>1 DEF IInv, CallsConsistent
  <2>4. \A f \in Fingerprints : fixtures[f] # None =>
            fixtures[f].plugin \in Calls \ {r}
    BY <2>3 DEF IInv, TypeOK, FixtureRecord, CacheConsistent
  <2>5. TypeOK'
    BY <1>10, <2>2 DEF IInv, TypeOK, ProvisionFailed
  <2>6. CallsConsistent'
    BY <1>10 DEF IInv, CallsConsistent, ProvisionFailed
  <2>7. PluginsConsistent'
    BY <1>10, <2>1, <2>2, <2>3 DEF IInv, PluginsConsistent, ProvisionFailed
  <2>8. PublishedStaysCached'
    BY <1>10, <2>2, <2>3 DEF IInv, PublishedStaysCached, ProvisionFailed
  <2>9. CacheNeverKilled'
    BY <1>10, <2>2, <2>4 DEF IInv, CacheNeverKilled, ProvisionFailed
  <2>10. CacheConsistent' /\ ScopeRespected'
    BY <1>10 DEF IInv, CacheConsistent, ScopeRespected, ProvisionFailed
  <2> QED
    BY <2>5, <2>6, <2>7, <2>8, <2>9, <2>10 DEF IInv
<1>11. ASSUME NEW r \in Calls, Publish(r) PROVE IInv'
  <2> DEFINE new == [sharing |-> SharingOf(fp[r]), creating_client_id |-> client[r],
                     used_slots |-> 1, plugin |-> r]
             old == fixtures[fp[r]]
  <2>1. pc[r] = "created" /\ granted[r] = None
    BY <1>11 DEF IInv, CallsConsistent, Publish
  <2>2. fp[r] \in Fingerprints /\ client[r] \in Clients
    BY <2>1 DEF IInv, CallsConsistent
  <2>3. new \in FixtureRecord
    BY <2>2, SharingOfType DEF FixtureRecord
  <2>4. new # None
    BY <2>3
  <2>5. fixtures' = [fixtures EXCEPT ![fp[r]] = new]
    BY <1>11 DEF Publish
  <2>6. old # None => old.plugin \in Calls /\ fp[old.plugin] = fp[r]
                      /\ granted[old.plugin] = old.plugin
    BY <2>2 DEF IInv, TypeOK, FixtureRecord, CacheConsistent
  <2>7. /\ plugin' \in [Calls -> PluginState]
        /\ \A j \in Calls : plugin'[j] # plugin[j] =>
               old # None /\ j = old.plugin /\ plugin'[j] = "killed"
        /\ old # None => plugin'[old.plugin] \notin Running
    BY <1>11, <2>6, DropPluginEffect DEF IInv, TypeOK, Publish
  <2> HIDE DEF new, old
  <2>8. TypeOK'
    BY <1>11, <2>2, <2>3, <2>5, <2>7 DEF IInv, TypeOK, Publish
  <2>9. CallsConsistent'
    BY <1>11 DEF IInv, TypeOK, CallsConsistent, Publish
  <2>10. PluginsConsistent'
    BY <1>11, <2>6, <2>7 DEF IInv, CallsConsistent, PluginsConsistent, Publish
  <2>11. CacheConsistent'
    BY <1>11 DEF IInv, TypeOK, CacheConsistent, Publish
  <2>12. PublishedStaysCached'
    <3> SUFFICES ASSUME NEW q \in Calls, granted'[q] # None
                 PROVE  /\ fixtures'[fp[q]] # None
                        /\ granted'[q] = q /\ plugin'[q] \in Running =>
                               fixtures'[fp[q]].plugin = q
      BY <1>11 DEF PublishedStaysCached, Publish
    <3>1. CASE q = r
      BY <2>2, <2>4, <2>5, <3>1 DEF IInv, TypeOK, new
    <3>2. CASE q # r
      <4>1. granted[q] = granted'[q] /\ fp[q] \in Fingerprints
        BY <1>11, <3>2 DEF IInv, CallsConsistent, Publish
      <4>2. CASE fp[q] # fp[r]
        BY <2>5, <2>7, <4>1, <4>2 DEF IInv, PublishedStaysCached
      <4>3. CASE fp[q] = fp[r]
        \* The record q may have published is the one that is replaced.
        BY <2>4, <2>5, <2>7, <4>1 DEF IInv, PublishedStaysCached, old
      <4> QED
        BY <4>2, <4>3
    <3> QED
      BY <3>1, <3>2
  <2>13. CacheNeverKilled'
    <3> SUFFICES ASSUME NEW f \in Fingerprints, fixtures'[f] # None
                 PROVE  plugin'[fixtures'[f].plugin] # "killed"
      BY DEF CacheNeverKilled
    <3>1. CASE f = fp[r]
      BY <2>1, <2>5, <2>6, <2>7, <3>1 DEF IInv, TypeOK, PluginsConsistent, new
    <3>2. CASE f # fp[r]
      \* The replaced plugin is not the one of another fingerprint.
      BY <2>5, <2>6, <2>7, <3>2
         DEF IInv, TypeOK, CacheConsistent, CacheNeverKilled, FixtureRecord
    <3> QED
      BY <3>1, <3>2
  <2>14. ScopeRespected'
    BY <1>11 DEF IInv, ScopeRespected, Publish
  <2> QED
    BY <2>8, <2>9, <2>10, <2>11, <2>12, <2>13, <2>14 DEF IInv
<1>12. ASSUME NEW r \in Calls, ReleaseLease(r) PROVE IInv'
  <2>1. TypeOK'
    BY <1>12 DEF IInv, TypeOK, ReleaseLease, SlotsAfterRelease, FixtureRecord
  <2>2. CallsConsistent'
    BY <1>12 DEF IInv, CallsConsistent, ReleaseLease
  <2>3. CacheConsistent'
    BY <1>12 DEF IInv, CacheConsistent, ReleaseLease
  <2>4. PublishedStaysCached'
    BY <1>12 DEF IInv, TypeOK, PublishedStaysCached, ReleaseLease,
       SlotsAfterRelease, FixtureRecord
  <2>5. CacheNeverKilled'
    BY <1>12 DEF IInv, CacheNeverKilled, ReleaseLease
  <2>6. PluginsConsistent' /\ ScopeRespected'
    BY <1>12 DEF IInv, PluginsConsistent, ScopeRespected, ReleaseLease
  <2> QED
    BY <2>1, <2>2, <2>3, <2>4, <2>5, <2>6 DEF IInv
<1>13. ASSUME NEW r \in Calls, ClientGone(r) PROVE IInv'
  <2>1. TypeOK'
    BY <1>13 DEF IInv, TypeOK, ClientGone
  <2>2. CallsConsistent' /\ PluginsConsistent' /\ CacheConsistent' /\
     PublishedStaysCached' /\ CacheNeverKilled' /\ ScopeRespected'
    BY <1>13 DEF IInv, CallsConsistent, PluginsConsistent, CacheConsistent,
       PublishedStaysCached, CacheNeverKilled, ScopeRespected, ClientGone
  <2> QED
    BY <2>1, <2>2 DEF IInv
<1>14. ASSUME NEW r \in Calls, Cancel(r) PROVE IInv'
  <2>1. pc[r] \in InFlight /\ pc'[r] \in {"failed", "abandoned"}
    BY <1>14 DEF IInv, TypeOK, Cancel
  <2>2. /\ plugin' \in [Calls -> PluginState]
        /\ \A j \in Calls : j # r => plugin'[j] = plugin[j]
        /\ pc'[r] = "failed" => plugin'[r] \notin Running
        /\ pc'[r] = "abandoned" => plugin'[r] = plugin[r]
    BY <1>14, DropPluginEffect DEF IInv, TypeOK, Cancel
  <2>3. granted[r] = None
    BY <2>1 DEF IInv, CallsConsistent
  <2>4. \A f \in Fingerprints : fixtures[f] # None =>
            fixtures[f].plugin \in Calls \ {r}
    BY <2>3 DEF IInv, TypeOK, FixtureRecord, CacheConsistent
  <2>5. TypeOK'
    BY <1>14, <2>2 DEF IInv, TypeOK, Cancel
  <2>6. CallsConsistent'
    BY <1>14 DEF IInv, TypeOK, CallsConsistent, Cancel
  <2>7. PluginsConsistent'
    BY <1>14, <2>2, <2>3 DEF IInv, TypeOK, PluginsConsistent, Cancel
  <2>8. PublishedStaysCached'
    BY <1>14, <2>2, <2>3 DEF IInv, PublishedStaysCached, Cancel
  <2>9. CacheNeverKilled'
    BY <1>14, <2>2, <2>4 DEF IInv, CacheNeverKilled, Cancel
  <2>10. CacheConsistent' /\ ScopeRespected'
    BY <1>14 DEF IInv, CacheConsistent, ScopeRespected, Cancel
  <2> QED
    BY <2>5, <2>6, <2>7, <2>8, <2>9, <2>10 DEF IInv
<1>15. ASSUME NEW r \in Calls, PluginServes(r) PROVE IInv'
  <2>1. TypeOK'
    BY <1>15 DEF IInv, TypeOK, PluginServes
  <2>2. PluginsConsistent'
    BY <1>15 DEF IInv, PluginsConsistent, PluginServes
  <2>3. PublishedStaysCached'
    BY <1>15 DEF IInv, PublishedStaysCached, PluginServes
  <2>4. CacheNeverKilled'
    BY <1>15 DEF IInv, CacheNeverKilled, PluginServes
  <2>5. CallsConsistent' /\ CacheConsistent' /\ ScopeRespected'
    BY <1>15 DEF IInv, CallsConsistent, CacheConsistent, ScopeRespected,
       PluginServes
  <2> QED
    BY <2>1, <2>2, <2>3, <2>4, <2>5 DEF IInv
<1>16. ASSUME NEW r \in Calls, PluginExits(r) PROVE IInv'
  <2>1. TypeOK'
    BY <1>16 DEF IInv, TypeOK, PluginExits
  <2>2. PluginsConsistent'
    BY <1>16 DEF IInv, PluginsConsistent, PluginExits
  <2>3. PublishedStaysCached'
    BY <1>16 DEF IInv, PublishedStaysCached, PluginExits
  <2>4. CacheNeverKilled'
    BY <1>16 DEF IInv, CacheNeverKilled, PluginExits
  <2>5. CallsConsistent' /\ CacheConsistent' /\ ScopeRespected'
    BY <1>16 DEF IInv, CallsConsistent, CacheConsistent, ScopeRespected,
       PluginExits
  <2> QED
    BY <2>1, <2>2, <2>3, <2>4, <2>5 DEF IInv
<1>17. CASE UNCHANGED vars
  BY <1>17 DEF vars, IInv, TypeOK, CallsConsistent, PluginsConsistent,
     CacheConsistent, PublishedStaysCached, CacheNeverKilled, ScopeRespected
<1> QED
  BY <1>1, <1>2, <1>3, <1>4, <1>5, <1>6, <1>7, <1>8, <1>9, <1>10, <1>11, <1>12,
     <1>13, <1>14, <1>15, <1>16, <1>17 DEF Next

\* A grant is never taken back or changed, nor are the arguments it was for.
LEMMA GrantsStable ==
    IInv /\ [Next]_vars =>
        \A i \in Calls : granted[i] # None =>
            granted'[i] = granted[i] /\ fp'[i] = fp[i] /\ client'[i] = client[i]
<1> SUFFICES ASSUME IInv, [Next]_vars, NEW i \in Calls, granted[i] # None
             PROVE  /\ granted'[i] = granted[i]
                    /\ fp'[i] = fp[i]
                    /\ client'[i] = client[i]
  OBVIOUS
<1>1. pc[i] = "succeeded"
  BY DEF IInv, CallsConsistent
<1>2. ASSUME NEW r \in Calls, NEW c \in Clients, NEW f \in Fingerprints,
             TakeLeaseAttach(r, c, f) \/ TakeLeaseMiss(r, c, f)
      PROVE  granted'[i] = granted[i] /\ fp'[i] = fp[i] /\ client'[i] = client[i]
  BY <1>1, <1>2 DEF IInv, TypeOK, TakeLeaseAttach, TakeLeaseMiss
<1>3. ASSUME NEW r \in Calls, Publish(r)
      PROVE  granted'[i] = granted[i] /\ fp'[i] = fp[i] /\ client'[i] = client[i]
  BY <1>1, <1>3 DEF Publish
<1>4. ASSUME NEW r \in Calls,
             \/ TakeLeaseRejected(r) \/ SpawnPlugin(r) \/ SpawnFailed(r)
             \/ Connected(r) \/ ConnectFailed(r) \/ Described(r) \/ Created(r)
             \/ ProvisionFailed(r) \/ ReleaseLease(r) \/ ClientGone(r) \/ Cancel(r)
             \/ PluginServes(r) \/ PluginExits(r)
      PROVE  UNCHANGED <<granted, fp, client>>
  BY <1>4 DEF TakeLeaseRejected, SpawnPlugin, SpawnFailed, Connected, ConnectFailed,
     Described, Created, ProvisionFailed, ReleaseLease, ClientGone, Cancel,
     PluginServes, PluginExits
<1>5. CASE UNCHANGED vars
  BY <1>5 DEF vars
<1> QED
  BY <1>2, <1>3, <1>4, <1>5 DEF Next

--------------------------------------------------------------------------------
\* Slot counts.

\* One lease more, and one fewer.
LEMMA AddOne ==
    ASSUME NEW S, NEW x, IsFiniteSet(S), x \notin S
    PROVE  Cardinality(S \cup {x}) = Cardinality(S) + 1
  BY FS_AddElement

LEMMA RemoveOne ==
    ASSUME NEW S, NEW x, IsFiniteSet(S), x \in S
    PROVE  /\ Cardinality(S \ {x}) = Cardinality(S) - 1
           /\ Cardinality(S \ {x}) \in Nat
<1>1. IsFiniteSet(S \ {x}) /\ Cardinality(S \ {x}) = Cardinality(S) - 1
  BY FS_RemoveElement
<1> QED
  BY <1>1, FS_CardinalityType

\* The leases of a fingerprint can be counted.
LEMMA HoldersFinite ==
    \A f \in Fingerprints : IsFiniteSet(Holders(f)) /\ Cardinality(Holders(f)) \in Nat
  BY CallsAssumption, FS_Subset, FS_CardinalityType DEF Holders

\* A lease inserted into the map adds one holder to its fingerprint.
LEMMA HoldersInsert ==
    ASSUME TypeOK, NEW r \in Calls, NEW f \in Fingerprints, leases[r] = None,
           leases' = [leases EXCEPT ![r] = f]
    PROVE  /\ Cardinality(Holders(f))' = Cardinality(Holders(f)) + 1
           /\ \A g \in Fingerprints : g # f => Holders(g)' = Holders(g)
<1>1. Holders(f)' = Holders(f) \cup {r} /\ r \notin Holders(f)
  BY NoneAssumption DEF TypeOK, Holders
<1>2. Cardinality(Holders(f)')  = Cardinality(Holders(f)) + 1
  BY <1>1, HoldersFinite, AddOne, Zenon
<1>3. \A g \in Fingerprints : g # f => Holders(g)' = Holders(g)
  BY NoneAssumption DEF Holders
<1> QED
  BY <1>2, <1>3

\* A lease removed from the map takes one holder from its fingerprint.
LEMMA HoldersRemove ==
    ASSUME TypeOK, NEW r \in Calls, NEW f \in Fingerprints, leases[r] = f,
           leases' = [leases EXCEPT ![r] = None]
    PROVE  /\ Cardinality(Holders(f)) >= 1
           /\ Cardinality(Holders(f))' = Cardinality(Holders(f)) - 1
           /\ \A g \in Fingerprints : g # f => Holders(g)' = Holders(g)
<1>1. Holders(f)' = Holders(f) \ {r} /\ r \in Holders(f)
  BY NoneAssumption DEF TypeOK, Holders
<1>2. Cardinality(Holders(f)') = Cardinality(Holders(f)) - 1
  BY <1>1, HoldersFinite, RemoveOne, Zenon
<1>3. Cardinality(Holders(f)') \in Nat
  BY <1>1, HoldersFinite, RemoveOne, Zenon
<1>4. \A g \in Fingerprints : g # f => Holders(g)' = Holders(g)
  BY NoneAssumption DEF Holders
<1> QED
  BY <1>2, <1>3, <1>4, HoldersFinite

\* Once two instances have been published under a fingerprint, they have been.
LEMMA DisplacedStable ==
    IInv /\ [Next]_vars => \A f \in Fingerprints : Displaced(f) => Displaced(f)'
  BY GrantsStable, NoneAssumption DEF Displaced

\* take_lease, first critical section: one more slot taken, one more holder.
LEMMA AttachSlots ==
    ASSUME TypeOK, CallsConsistent, NEW r \in Calls, NEW c \in Clients,
           NEW f \in Fingerprints, TakeLeaseAttach(r, c, f)
    PROVE  /\ Cardinality(Holders(f))' = Cardinality(Holders(f)) + 1
           /\ \A g \in Fingerprints : g # f => Holders(g)' = Holders(g)
           /\ fixtures[f] # None
           /\ fixtures[f].used_slots \in Nat
           /\ fixtures[f].used_slots < max_slots(fixtures[f].sharing)
           /\ fixtures'[f].used_slots = fixtures[f].used_slots + 1
           /\ fixtures'[f].sharing = fixtures[f].sharing
           /\ \A g \in Fingerprints : g # f => fixtures'[g] = fixtures[g]
<1> USE NoneAssumption
<1>1. leases[r] = None
  BY DEF CallsConsistent, TakeLeaseAttach
<1>2. /\ Cardinality(Holders(f))' = Cardinality(Holders(f)) + 1
      /\ \A g \in Fingerprints : g # f => Holders(g)' = Holders(g)
  BY <1>1, HoldersInsert DEF TakeLeaseAttach
<1>3. /\ fixtures[f] # None
      /\ fixtures[f].used_slots < max_slots(fixtures[f].sharing)
  BY DEF TakeLeaseAttach, CanAttach
<1>4. /\ fixtures'[f].used_slots = fixtures[f].used_slots + 1
      /\ fixtures'[f].sharing = fixtures[f].sharing
      /\ fixtures[f].used_slots \in Nat
      /\ \A g \in Fingerprints : g # f => fixtures'[g] = fixtures[g]
  BY <1>3 DEF TypeOK, FixtureRecord, TakeLeaseAttach
<1> QED
  BY <1>2, <1>3, <1>4

\* take_lease, second critical section: a record with one slot taken, and one
\* more holder.
LEMMA PublishSlots ==
    ASSUME TypeOK, CallsConsistent, NEW r \in Calls, NEW f \in Fingerprints,
           f = fp[r], Publish(r)
    PROVE  /\ Cardinality(Holders(f))' = Cardinality(Holders(f)) + 1
           /\ \A g \in Fingerprints : g # f => Holders(g)' = Holders(g)
           /\ fixtures'[f].used_slots = 1
           /\ fixtures'[f].sharing = SharingOf(f)
           /\ \A g \in Fingerprints : g # f => fixtures'[g] = fixtures[g]
<1> USE NoneAssumption
<1>1. leases[r] = None
  BY DEF CallsConsistent, Publish
<1>2. /\ Cardinality(Holders(f))' = Cardinality(Holders(f)) + 1
      /\ \A g \in Fingerprints : g # f => Holders(g)' = Holders(g)
  BY <1>1, HoldersInsert DEF Publish
<1>3. /\ fixtures'[f].used_slots = 1
      /\ fixtures'[f].sharing = SharingOf(f)
      /\ \A g \in Fingerprints : g # f => fixtures'[g] = fixtures[g]
  BY DEF TypeOK, Publish
<1> QED
  BY <1>2, <1>3

\* release_lease: one holder less, and one slot less if there is a record.
LEMMA ReleaseSlots ==
    ASSUME TypeOK, NEW r \in Calls, NEW f \in Fingerprints, f = leases[r],
           ReleaseLease(r)
    PROVE  /\ Cardinality(Holders(f)) >= 1
           /\ Cardinality(Holders(f))' = Cardinality(Holders(f)) - 1
           /\ \A g \in Fingerprints : g # f => Holders(g)' = Holders(g)
           /\ \A g \in Fingerprints : g # f => fixtures'[g] = fixtures[g]
           /\ fixtures[f] = None => fixtures'[f] = None
           /\ fixtures[f] # None =>
                  /\ fixtures[f].used_slots \in Nat
                  /\ fixtures'[f].used_slots = SlotsAfterRelease(fixtures[f].used_slots)
                  /\ fixtures'[f].sharing = fixtures[f].sharing
<1> USE NoneAssumption
<1>1. /\ Cardinality(Holders(f)) >= 1
      /\ Cardinality(Holders(f))' = Cardinality(Holders(f)) - 1
      /\ \A g \in Fingerprints : g # f => Holders(g)' = Holders(g)
  BY HoldersRemove DEF ReleaseLease
<1>2. CASE fixtures[f] = None
  BY <1>1, <1>2 DEF ReleaseLease
<1>3. CASE fixtures[f] # None
  <2>1. /\ fixtures[f].used_slots \in Nat
        /\ fixtures'[f].used_slots = SlotsAfterRelease(fixtures[f].used_slots)
        /\ fixtures'[f].sharing = fixtures[f].sharing
        /\ \A g \in Fingerprints : g # f => fixtures'[g] = fixtures[g]
    BY <1>3 DEF TypeOK, FixtureRecord, ReleaseLease
  <2> QED
    BY <1>1, <1>3, <2>1
<1> QED
  BY <1>2, <1>3

\* Steps that are not attaching, publishing or releasing leave the maps alone.
LEMMA MapsFramed ==
    ASSUME NEW r \in Calls,
             \/ TakeLeaseRejected(r)
             \/ \E c \in Clients, f \in Fingerprints : TakeLeaseMiss(r, c, f)
             \/ SpawnPlugin(r) \/ SpawnFailed(r)
             \/ Connected(r) \/ ConnectFailed(r) \/ Described(r) \/ Created(r)
             \/ ProvisionFailed(r) \/ ClientGone(r) \/ Cancel(r)
             \/ PluginServes(r) \/ PluginExits(r)
    PROVE  UNCHANGED <<fixtures, leases>>
  BY DEF TakeLeaseRejected, TakeLeaseMiss, SpawnPlugin, SpawnFailed, Connected,
     ConnectFailed, Described, Created, ProvisionFailed, ClientGone, Cancel,
     PluginServes, PluginExits

\* A step that leaves the maps alone leaves the slots backed.
LEMMA BackedFramed ==
    ASSUME UNCHANGED <<fixtures, leases>>, SlotsBackedByLeases
    PROVE  SlotsBackedByLeases'
<1>1. \A f \in Fingerprints : Holders(f)' = Holders(f)
  BY DEF Holders
<1> QED
  BY <1>1 DEF SlotsBackedByLeases

\* No step takes more slots than the policy has or than leases will give back.
LEMMA NextSlotsBacked ==
    ASSUME TypeOK, CallsConsistent, [Next]_vars, SlotsBackedByLeases
    PROVE  SlotsBackedByLeases'
<1>1. ASSUME NEW r \in Calls, NEW c \in Clients, NEW f \in Fingerprints,
             TakeLeaseAttach(r, c, f)
      PROVE  SlotsBackedByLeases'
  <2>1. fixtures[f] # None
    BY <1>1, AttachSlots
  <2>2. max_slots(fixtures[f].sharing) \in Nat
    BY <2>1 DEF TypeOK, FixtureRecord, Sharing, max_slots
  <2> QED
    BY <1>1, <2>2, AttachSlots, HoldersFinite DEF SlotsBackedByLeases
<1>2. ASSUME NEW r \in Calls, Publish(r) PROVE SlotsBackedByLeases'
  <2>1. PICK f \in Fingerprints : f = fp[r]
    BY <1>2 DEF CallsConsistent, Publish, InFlight
  <2>2. max_slots(SharingOf(f)) \in Nat /\ max_slots(SharingOf(f)) >= 1
    BY SharingOfType DEF Sharing, max_slots
  <2> QED
    BY <1>2, <2>1, <2>2, PublishSlots, HoldersFinite DEF SlotsBackedByLeases
<1>3. ASSUME NEW r \in Calls, ReleaseLease(r) PROVE SlotsBackedByLeases'
  <2>1. CASE leases[r] = None
    BY <1>3, <2>1, BackedFramed DEF TypeOK, ReleaseLease
  <2>2. CASE leases[r] # None
    <3>1. PICK f \in Fingerprints : f = leases[r]
      BY <2>2 DEF TypeOK
    <3>2. fixtures[f] # None => max_slots(fixtures[f].sharing) \in Nat
      BY DEF TypeOK, FixtureRecord, Sharing, max_slots
    <3> QED
      BY <1>3, <3>1, <3>2, ReleaseSlots, HoldersFinite
         DEF SlotsBackedByLeases, SlotsAfterRelease
  <2> QED
    BY <2>1, <2>2
<1>4. CASE UNCHANGED vars
  BY <1>4, BackedFramed DEF vars
<1> QED
  BY <1>1, <1>2, <1>3, <1>4, MapsFramed, BackedFramed DEF Next

\* A step that leaves the maps alone leaves the slot counts exact.
LEMMA ExactFramed ==
    ASSUME IInv, [Next]_vars, UNCHANGED <<fixtures, leases>>, SlotsExactUntilDisplaced
    PROVE  SlotsExactUntilDisplaced'
<1>1. \A f \in Fingerprints : Holders(f)' = Holders(f)
  BY DEF Holders
<1> QED
  BY <1>1, DisplacedStable DEF SlotsExactUntilDisplaced

\* No step but a replacement lets slot counts and lease map drift apart.
LEMMA NextSlotsExact ==
    ASSUME IInv, [Next]_vars, SlotsExactUntilDisplaced
    PROVE  SlotsExactUntilDisplaced'
<1>1. ASSUME NEW r \in Calls, NEW c \in Clients, NEW f \in Fingerprints,
             TakeLeaseAttach(r, c, f)
      PROVE  SlotsExactUntilDisplaced'
  BY <1>1, AttachSlots, DisplacedStable DEF IInv, SlotsExactUntilDisplaced
<1>2. ASSUME NEW r \in Calls, Publish(r) PROVE SlotsExactUntilDisplaced'
  <2>1. fp[r] \in Fingerprints /\ granted[r] = None
    BY <1>2 DEF IInv, CallsConsistent, Publish, InFlight
  <2>2. PICK f \in Fingerprints : f = fp[r]
    BY <2>1
  <2>3. /\ Cardinality(Holders(f))' = Cardinality(Holders(f)) + 1
        /\ \A g \in Fingerprints : g # f => Holders(g)' = Holders(g)
        /\ fixtures'[f].used_slots = 1
        /\ \A g \in Fingerprints : g # f => fixtures'[g] = fixtures[g]
    BY <1>2, <2>2, PublishSlots DEF IInv
  <2>4. CASE fixtures[f] = None
    \* Then no lease routes to f yet.
    <3>1. Holders(f) = {}
      BY <2>4, NoneAssumption DEF IInv, CallsConsistent, PublishedStaysCached, Holders
    <3> QED
      BY <2>3, <3>1, FS_EmptySet, DisplacedStable DEF SlotsExactUntilDisplaced
  <2>5. CASE fixtures[f] # None
    <3>1. Displaced(f)'
      <4> DEFINE i == fixtures[f].plugin
      <4>1. i \in Calls /\ granted[i] = i /\ fp[i] = f
        BY <2>5 DEF IInv, TypeOK, FixtureRecord, CacheConsistent
      <4>2. i # r /\ granted'[i] = i /\ fp'[i] = f
        BY <2>1, <4>1, GrantsStable, NoneAssumption
      <4>3. granted'[r] = r /\ fp'[r] = f
        BY <1>2, <2>2 DEF IInv, TypeOK, Publish
      <4> QED
        BY <4>1, <4>2, <4>3 DEF Displaced
    <3> QED
      BY <2>3, <3>1, DisplacedStable DEF SlotsExactUntilDisplaced
  <2> QED
    BY <2>4, <2>5
<1>3. ASSUME NEW r \in Calls, ReleaseLease(r) PROVE SlotsExactUntilDisplaced'
  <2>1. CASE leases[r] = None
    BY <1>3, <2>1, ExactFramed DEF IInv, TypeOK, ReleaseLease
  <2>2. CASE leases[r] # None
    <3>1. PICK f \in Fingerprints : f = leases[r]
      BY <2>2 DEF IInv, TypeOK
    <3>2. fixtures[f] # None
      BY <3>1, NoneAssumption DEF IInv, CallsConsistent, PublishedStaysCached
    <3> QED
      BY <1>3, <3>1, <3>2, ReleaseSlots, DisplacedStable
         DEF IInv, SlotsExactUntilDisplaced, SlotsAfterRelease
  <2> QED
    BY <2>1, <2>2
<1>4. CASE UNCHANGED vars
  BY <1>4, ExactFramed DEF vars
<1> QED
  BY <1>1, <1>2, <1>3, <1>4, MapsFramed, ExactFramed DEF Next

--------------------------------------------------------------------------------
\* The theorems.

\* The handlers, maps and plugin processes always agree.
LEMMA Inductive == Spec => []IInv
  BY InitIInv, NextIInv, PTL DEF Spec

\* Every state of the coordinator is well typed, used_slots never below zero.
THEOREM TypeCorrect == Spec => []TypeOK
<1>1. IInv => TypeOK
  BY DEF IInv
<1> QED
  BY <1>1, Inductive, PTL

\* sharing_admits: an instance serves its creator's call, and calls its scope
\* admits, however the handlers interleave and records are replaced.
THEOREM ScopeCorrect == Spec => []ScopeRespected
<1>1. IInv => ScopeRespected
  BY DEF IInv
<1> QED
  BY <1>1, Inductive, PTL

\* Drop for PluginProcess: the plugin of a record in the map is never killed.
THEOREM CacheCorrect == Spec => []CacheNeverKilled
<1>1. IInv => CacheNeverKilled
  BY DEF IInv
<1> QED
  BY <1>1, Inductive, PTL

\* Drop for PluginProcess: a plugin the coordinator connected to runs only while
\* its call is in flight or its record is in the map.
THEOREM OwnershipCorrect == Spec => []ConnectedPluginIsOwned
<1>1. IInv => ConnectedPluginIsOwned
  <2> SUFFICES ASSUME IInv, NEW i \in Calls, plugin[i] \in Running,
                      pc[i] \notin InFlight \cup {"abandoned"}
               PROVE  fixtures[fp[i]] # None /\ fixtures[fp[i]].plugin = i
    BY DEF ConnectedPluginIsOwned
  <2>1. pc[i] = "succeeded"
    BY DEF IInv, TypeOK, PluginsConsistent, Terminal, Running
  <2>2. granted[i] = i
    BY <2>1 DEF IInv, CallsConsistent, PluginsConsistent, Running
  <2> QED
    BY <2>2, NoneAssumption DEF IInv, PublishedStaysCached
<1> QED
  BY <1>1, Inductive, PTL

\* status: an active lease always finds a record under its fingerprint.
THEOREM RoutingCorrect == Spec => []LeaseAlwaysRoutes
<1>1. IInv => LeaseAlwaysRoutes
  <2> SUFFICES ASSUME IInv, NEW l \in Calls, leases[l] # None
               PROVE  StatusOutputs(l) # None
    BY DEF LeaseAlwaysRoutes
  <2>1. leases[l] \in Fingerprints /\ fixtures[leases[l]] # None
    BY DEF IInv, CallsConsistent, PublishedStaysCached
  <2>2. fixtures[leases[l]].plugin \in Calls
    BY <2>1 DEF IInv, TypeOK, FixtureRecord
  <2> QED
    BY <2>1, <2>2, NoneAssumption DEF StatusOutputs
<1> QED
  BY <1>1, Inductive, PTL

\* The slot counts are inductive beside the invariant of the handlers.
LEMMA SlotsInductive == Spec => [](SlotsBackedByLeases /\ SlotsExactUntilDisplaced)
<1>1. Init => SlotsBackedByLeases /\ SlotsExactUntilDisplaced
  BY DEF Init, SlotsBackedByLeases, SlotsExactUntilDisplaced
<1>2. IInv /\ SlotsBackedByLeases /\ SlotsExactUntilDisplaced /\ [Next]_vars
          => SlotsBackedByLeases' /\ SlotsExactUntilDisplaced'
  BY NextSlotsBacked, NextSlotsExact DEF IInv
<1> QED
  BY <1>1, <1>2, Inductive, PTL DEF Spec

\* take_lease and release_lease: used_slots stays within the policy and is never
\* more than the leases that will give slots back.
THEOREM SlotsCorrect == Spec => []SlotsBackedByLeases
  BY SlotsInductive, PTL

\* take_lease and release_lease: until a record is replaced, used_slots counts
\* the leases of the fixture exactly.
THEOREM SlotsExact == Spec => []SlotsExactUntilDisplaced
  BY SlotsInductive, PTL

\* take_lease: until a record of its fingerprint is replaced, an instance is
\* shared by no more leases than it has slots, its plugin is not killed, and Status
\* reports its outputs to each of them.
THEOREM PromisesCorrect == Spec => []PromisesKeptUntilDisplaced
<1>1. IInv /\ SlotsBackedByLeases /\ SlotsExactUntilDisplaced => PromisesKeptUntilDisplaced
  <2> SUFFICES ASSUME IInv, SlotsBackedByLeases, SlotsExactUntilDisplaced,
                      NEW i \in Calls, granted[i] = i, ~Displaced(fp[i])
               PROVE  /\ Cardinality(Sharers(i)) <= max_slots(SharingOf(fp[i]))
                      /\ plugin[i] # "killed"
                      /\ \A l \in Sharers(i) : StatusOutputs(l) = i
    BY DEF PromisesKeptUntilDisplaced
  <2> DEFINE f == fp[i]
             n == max_slots(SharingOf(f))
  <2>1. f \in Fingerprints /\ fixtures[f] # None
    BY NoneAssumption DEF IInv, CallsConsistent, PublishedStaysCached
  <2>2. fixtures[f].plugin = i /\ fixtures[f].sharing = SharingOf(f)
    <3> DEFINE j == fixtures[f].plugin
    <3>1. j \in Calls
      BY <2>1 DEF IInv, TypeOK, FixtureRecord
    <3>2. granted[j] = j /\ fp[j] = f /\ fixtures[f].sharing = SharingOf(f)
      BY <2>1 DEF IInv, CacheConsistent
    <3> QED
      BY <3>1, <3>2 DEF Displaced
  <2>3. plugin[i] # "killed"
    BY <2>1, <2>2 DEF IInv, CacheNeverKilled
  <2>4. Sharers(i) \subseteq Holders(f)
    <3> SUFFICES ASSUME NEW l \in Calls, leases[l] # None, granted[l] = i
                 PROVE  leases[l] = f
      BY DEF Sharers, Holders
    <3>1. leases[l] = fp[l]
      BY DEF IInv, CallsConsistent
    <3>2. fp[l] = f
      BY NoneAssumption DEF IInv, ScopeRespected
    <3> QED
      BY <3>1, <3>2
  <2>5. IsFiniteSet(Holders(f))
    BY <2>1, HoldersFinite
  <2>6. Cardinality(Sharers(i)) <= Cardinality(Holders(f))
    BY <2>4, <2>5, FS_Subset
  <2>7. IsFiniteSet(Sharers(i))
    BY <2>4, <2>5, FS_Subset
  <2>8. Cardinality(Sharers(i)) \in Nat /\ Cardinality(Holders(f)) \in Nat
    BY <2>5, <2>7, FS_CardinalityType
  <2>9. Cardinality(Holders(f)) \in 0 .. n
    BY <2>1, <2>2 DEF SlotsBackedByLeases, SlotsExactUntilDisplaced
  <2>10. n \in Int
    BY <2>1, SharingOfType DEF max_slots, Sharing
  <2>11. \A l \in Sharers(i) : StatusOutputs(l) = i
    BY <2>1, <2>2, <2>4 DEF Holders, StatusOutputs
  <2> HIDE DEF f, n
  <2> QED
    BY <2>3, <2>6, <2>8, <2>9, <2>10, <2>11 DEF f, n
<1> QED
  BY <1>1, Inductive, SlotsInductive, PTL
================================================================================
