------------------------------ MODULE SystemProofs ------------------------------
(***************************************************************************)
(* Proofs about runners, daemons and the coordinator service together, for *)
(* any number of runners, fixtures and deaths.                             *)
(***************************************************************************)
EXTENDS System, CoordinatorRefinement

--------------------------------------------------------------------------------
\* Daemons.

\* Every step is a step of the start-up protocol or leaves the daemons alone.
LEMMA StartupStep ==
    ASSUME [SystemNext]_allvars
    PROVE  [Startup!Next]_(Startup!vars)
<1> USE DEF daemons, Startup!vars
<1>1. ASSUME NEW r \in Calls, StartingUp(r) PROVE Startup!Next
  BY <1>1 DEF StartingUp, Startup!Next
<1>2. ASSUME NEW r \in Calls, DaemonKilled(r) \/ DaemonExits(r) PROVE Startup!Next
  BY <1>2 DEF DaemonKilled, DaemonExits, Startup!Next
<1>3. ASSUME NEW r \in Calls,
             \/ CallTakeLease(r) \/ CallKeepalive(r) \/ CallReleaseLease(r) \/ NotReady(r)
             \/ TakeLeaseReturns(r) \/ KeepaliveBroken(r) \/ ReleaseReturns(r)
             \/ RunnerKilled(r) \/ HandleTakeLease(r) \/ HandlePublish(r)
             \/ \E stub \in Stubs : HandleKeepalive(r, stub) \/ HandleRelease(r, stub)
             \/ Provisioning(r)
      PROVE UNCHANGED daemons
  BY <1>3 DEF CallTakeLease, CallKeepalive, CallReleaseLease, NotReady,
     TakeLeaseReturns, KeepaliveBroken, ReleaseReturns, RunnerKilled,
     HandleTakeLease, HandlePublish, HandleKeepalive, HandleRelease, Provisioning
<1> QED
  BY <1>1, <1>2, <1>3 DEF SystemNext, allvars

\* The start-up protocol keeps one daemon past the lock, with its socket.
LEMMA DaemonsStep ==
    ASSUME DaemonsConsistent, [Startup!Next]_(Startup!vars)
    PROVE  DaemonsConsistent'
<1> USE NoneAssumption DEF DaemonsConsistent, Startup!TypeOK, Startup!ServerOwnsSocket,
        Startup!Owning, Startup!Alive
<1>1. ASSUME NEW r \in Calls, Startup!Probe(r) PROVE DaemonsConsistent'
  BY <1>1 DEF Startup!Probe
<1>2. ASSUME NEW r \in Calls, Startup!SpawnCoordinator(r) PROVE DaemonsConsistent'
  BY <1>2 DEF Startup!SpawnCoordinator
<1>3. ASSUME NEW r \in Calls, Startup!EnsureFails(r) PROVE DaemonsConsistent'
  BY <1>3 DEF Startup!EnsureFails
<1>4. ASSUME NEW r \in Calls, Startup!Poll(r) PROVE DaemonsConsistent'
  BY <1>4 DEF Startup!Poll
<1>5. ASSUME NEW r \in Calls, Startup!WaitTimesOut(r) PROVE DaemonsConsistent'
  BY <1>5 DEF Startup!WaitTimesOut
<1>6. ASSUME NEW r \in Calls, Startup!LockInstance(r) PROVE DaemonsConsistent'
  BY <1>6 DEF Startup!LockInstance
<1>7. ASSUME NEW r \in Calls, Startup!RemoveSocket(r) PROVE DaemonsConsistent'
  BY <1>7 DEF Startup!RemoveSocket
<1>8. ASSUME NEW r \in Calls, Startup!Bind(r) PROVE DaemonsConsistent'
  BY <1>8 DEF Startup!Bind
<1>9. ASSUME NEW r \in Calls, Startup!Die(r) PROVE DaemonsConsistent'
  BY <1>9 DEF Startup!Die
<1>10. ASSUME NEW r \in Calls, Startup!CloseListener(r) PROVE DaemonsConsistent'
  BY <1>10 DEF Startup!CloseListener
<1>11. ASSUME NEW r \in Calls, Startup!DropLock(r) PROVE DaemonsConsistent'
  BY <1>11 DEF Startup!DropLock
<1>12. ASSUME UNCHANGED Startup!vars PROVE DaemonsConsistent'
  BY <1>12 DEF Startup!vars
<1> QED
  BY <1>1, <1>2, <1>3, <1>4, <1>5, <1>6, <1>7, <1>8, <1>9, <1>10, <1>11, <1>12
     DEF Startup!Next

\* Starting up keeps a daemon that serves or has died as it is.
LEMMA StartingUpStays ==
    ASSUME DaemonsConsistent, NEW r \in Calls, StartingUp(r)
    PROVE  /\ \A d \in Calls : dpc[d] \in {"serving", "dying"} => dpc'[d] = dpc[d]
           /\ UNCHANGED <<vars, runners, died>>
  BY DEF DaemonsConsistent, Startup!TypeOK, StartingUp, Startup!Probe,
         Startup!SpawnCoordinator,
     Startup!EnsureFails, Startup!Poll, Startup!WaitTimesOut, Startup!LockInstance,
     Startup!RemoveSocket, Startup!Bind, Startup!CloseListener, Startup!DropLock

--------------------------------------------------------------------------------
\* The service.

\* The coordinator's own steps preserve it.
LEMMA ServiceStep ==
    ASSUME ServiceConsistent, [Next]_vars
    PROVE  ServiceConsistent'
<1> USE NoneAssumption, SharingAssumption
        DEF ServiceConsistent, TypeOK, CallsConsistent, CacheConsistent, InFlight,
            Terminal, PluginState,
            Running
<1>1. ASSUME NEW r \in Calls, TakeLeaseRejected(r) PROVE ServiceConsistent'
  BY <1>1 DEF TakeLeaseRejected
<1>2. ASSUME NEW r \in Calls, SpawnPlugin(r) PROVE ServiceConsistent'
  BY <1>2 DEF SpawnPlugin
<1>3. ASSUME NEW r \in Calls, SpawnFailed(r) PROVE ServiceConsistent'
  BY <1>3 DEF SpawnFailed
<1>4. ASSUME NEW r \in Calls, Connected(r) PROVE ServiceConsistent'
  BY <1>4 DEF Connected
<1>5. ASSUME NEW r \in Calls, ConnectFailed(r) PROVE ServiceConsistent'
  BY <1>5 DEF ConnectFailed
<1>6. ASSUME NEW r \in Calls, Described(r) PROVE ServiceConsistent'
  BY <1>6 DEF Described
<1>7. ASSUME NEW r \in Calls, Created(r) PROVE ServiceConsistent'
  BY <1>7 DEF Created
<1>8. ASSUME NEW r \in Calls, ProvisionFailed(r) PROVE ServiceConsistent'
  BY <1>8 DEF ProvisionFailed, DropPlugin
<1>9. ASSUME NEW r \in Calls, Publish(r) PROVE ServiceConsistent'
  BY <1>9, SharingOfType DEF Publish, DropPlugin, FixtureRecord
<1>10. ASSUME NEW r \in Calls, ReleaseLease(r) PROVE ServiceConsistent'
  BY <1>10 DEF ReleaseLease, FixtureRecord, SlotsAfterRelease
<1>11. ASSUME NEW r \in Calls, ClientGone(r) PROVE ServiceConsistent'
  BY <1>11 DEF ClientGone
<1>12. ASSUME NEW r \in Calls, Cancel(r) PROVE ServiceConsistent'
  BY <1>12 DEF Cancel, DropPlugin
<1>13. ASSUME NEW r \in Calls, PluginServes(r) PROVE ServiceConsistent'
  BY <1>13 DEF PluginServes
<1>14. ASSUME NEW r \in Calls, PluginExits(r) PROVE ServiceConsistent'
  BY <1>14 DEF PluginExits
<1>15. ASSUME NEW r \in Calls, NEW c \in Clients, NEW f \in Fingerprints,
              TakeLeaseAttach(r, c, f) PROVE ServiceConsistent'
  BY <1>15 DEF TakeLeaseAttach, CanAttach, FixtureRecord
<1>16. ASSUME NEW r \in Calls, NEW c \in Clients, NEW f \in Fingerprints,
              TakeLeaseMiss(r, c, f) PROVE ServiceConsistent'
  BY <1>16 DEF TakeLeaseMiss
<1>17. ASSUME UNCHANGED vars PROVE ServiceConsistent'
  BY <1>17 DEF vars
<1> QED
  BY <1>1, <1>2, <1>3, <1>4, <1>5, <1>6, <1>7, <1>8, <1>9, <1>10, <1>11, <1>12, <1>13,
     <1>14, <1>15, <1>16, <1>17
     DEF Next

\* A daemon's death leaves a service without state.
LEMMA ServiceLost ==
    ASSUME ServiceConsistent, NEW plugins \in [Calls -> PluginState], StateLost(plugins),
           \A r \in Calls : plugin[r] = "none" => plugins[r] = "none"
    PROVE  ServiceConsistent'
  BY NoneAssumption DEF ServiceConsistent, TypeOK, CallsConsistent, CacheConsistent,
                        StateLost, Ended, InFlight, Terminal

--------------------------------------------------------------------------------
\* Runners.

\* The part of the type invariant that is not of the parts.
RunnersTyped ==
    /\ view \in [Calls -> {"starting", "calling", "holding", "releasing",
                           "done", "failed", "dead"}]
    /\ sent \in [Calls -> [Stubs -> Calls \cup {None}]]
    /\ lease_id \in [Calls -> Calls \cup {None}]
    /\ home \in [Calls -> Calls \cup {None}]
    /\ killed \in SUBSET died
    /\ gaveup \in SUBSET Calls

\* The part of the invariant that is about runners and daemons together.
Rest ==
    /\ RunnersTyped
    /\ StateIsHome
    /\ RunnersConsistent
    /\ NoLeaseWithoutHolder
    /\ OrphanedOnlyByKill

\* A TakeLease goes to the daemon that serves or has just died.
LEMMA CallTakeLeaseRest ==
    ASSUME SystemIInv, NEW r \in Calls, CallTakeLease(r)
    PROVE  Rest'
<1> USE DEF SystemIInv, SystemTypeOK, RunnersTyped, Stubs, ServiceConsistent,
        CallsConsistent, CallTakeLease, Send, Startup!SocketAccepts, vars, daemons,
        DaemonsConsistent, Startup!TypeOK
<1>1. RunnersTyped'
  OBVIOUS
<1>2. StateIsHome'
  BY DEF StateIsHome
<1>3. RunnersConsistent'
  BY DEF RunnersConsistent, StateIsHome
<1>4. NoLeaseWithoutHolder'
  BY DEF NoLeaseWithoutHolder
<1>5. OrphanedOnlyByKill'
  BY DEF OrphanedOnlyByKill, Owned
<1> QED
  BY <1>1, <1>2, <1>3, <1>4, <1>5 DEF Rest

\* A heartbeat changes nothing but the calls under way.
LEMMA CallKeepaliveRest ==
    ASSUME SystemIInv, NEW r \in Calls, CallKeepalive(r)
    PROVE  Rest'
<1> USE DEF SystemIInv, SystemTypeOK, RunnersTyped, CallKeepalive, Send,
        Startup!SocketAccepts, vars, daemons, DaemonsConsistent, Startup!TypeOK
<1>1. RunnersTyped'
  OBVIOUS
<1>2. StateIsHome'
  BY DEF StateIsHome
<1>3. RunnersConsistent'
  BY DEF RunnersConsistent
<1>4. NoLeaseWithoutHolder'
  BY DEF NoLeaseWithoutHolder
<1>5. OrphanedOnlyByKill'
  BY DEF OrphanedOnlyByKill, Owned
<1> QED
  BY <1>1, <1>2, <1>3, <1>4, <1>5 DEF Rest

\* A release goes to the daemon the lease is from, if that serves.
LEMMA CallReleaseLeaseRest ==
    ASSUME SystemIInv, NEW r \in Calls, CallReleaseLease(r)
    PROVE  Rest'
<1> USE DEF SystemIInv, SystemTypeOK, RunnersTyped, Stubs, ServiceConsistent,
        CallsConsistent, CallReleaseLease, Send, Startup!SocketAccepts, vars, daemons,
        DaemonsConsistent, Startup!TypeOK, Startup!ServerOwnsSocket
<1>1. RunnersTyped'
  OBVIOUS
<1>2. StateIsHome'
  BY DEF StateIsHome
<1>3. RunnersConsistent'
  BY DEF RunnersConsistent, StateIsHome
<1>4. NoLeaseWithoutHolder'
  BY DEF NoLeaseWithoutHolder
<1>5. OrphanedOnlyByKill'
  BY DEF OrphanedOnlyByKill, Owned
<1> QED
  BY <1>1, <1>2, <1>3, <1>4, <1>5 DEF Rest

\* If nobody accepts then nobody serves, and there are no leases.
LEMMA NotReadyRest ==
    ASSUME SystemIInv, NEW r \in Calls, NotReady(r)
    PROVE  Rest'
<1> USE DEF SystemIInv, SystemTypeOK, RunnersTyped, Stubs, ServiceConsistent,
        CallsConsistent, NotReady, vars, daemons, DaemonsConsistent,
        Startup!ServerOwnsSocket, Startup!SocketAccepts
<1>1. RunnersTyped'
  OBVIOUS
<1>2. StateIsHome'
  BY DEF StateIsHome
<1>3. RunnersConsistent'
  BY DEF RunnersConsistent
<1>4. NoLeaseWithoutHolder'
  BY DEF NoLeaseWithoutHolder, StateIsHome
<1>5. OrphanedOnlyByKill'
  BY DEF OrphanedOnlyByKill, Owned
<1> QED
  BY <1>1, <1>2, <1>3, <1>4, <1>5 DEF Rest

\* A call that breaks off or fails has no lease in the table.
LEMMA TakeLeaseReturnsRest ==
    ASSUME SystemIInv, NEW r \in Calls, TakeLeaseReturns(r)
    PROVE  Rest'
<1> USE DEF SystemIInv, SystemTypeOK, RunnersTyped, Stubs, ServiceConsistent,
        CallsConsistent, InFlight, TakeLeaseReturns, Broken, vars, daemons
<1>1. RunnersTyped'
  OBVIOUS
<1>2. StateIsHome'
  BY DEF StateIsHome
<1>3. RunnersConsistent'
  BY DEF RunnersConsistent, StateIsHome
<1>4. NoLeaseWithoutHolder'
  BY DEF NoLeaseWithoutHolder, RunnersConsistent, StateIsHome
<1>5. OrphanedOnlyByKill'
  BY DEF OrphanedOnlyByKill, Owned
<1> QED
  BY <1>1, <1>2, <1>3, <1>4, <1>5 DEF Rest

\* A heartbeat that breaks off is forgotten.
LEMMA KeepaliveBrokenRest ==
    ASSUME SystemIInv, NEW r \in Calls, KeepaliveBroken(r)
    PROVE  Rest'
<1> USE DEF SystemIInv, SystemTypeOK, RunnersTyped, KeepaliveBroken, vars, daemons
<1>1. RunnersTyped'
  OBVIOUS
<1>2. StateIsHome'
  BY DEF StateIsHome
<1>3. RunnersConsistent'
  BY DEF RunnersConsistent
<1>4. NoLeaseWithoutHolder'
  BY DEF NoLeaseWithoutHolder
<1>5. OrphanedOnlyByKill'
  BY DEF OrphanedOnlyByKill, Owned
<1> QED
  BY <1>1, <1>2, <1>3, <1>4, <1>5 DEF Rest

\* A release that breaks off went to the daemon the lease was lost with.
LEMMA ReleaseReturnsRest ==
    ASSUME SystemIInv, NEW r \in Calls, ReleaseReturns(r)
    PROVE  Rest'
<1> USE DEF SystemIInv, SystemTypeOK, RunnersTyped, Stubs, ServiceConsistent,
        CallsConsistent, ReleaseReturns, Broken, vars, daemons
<1>1. RunnersTyped'
  OBVIOUS
<1>2. StateIsHome'
  BY DEF StateIsHome
<1>3. RunnersConsistent'
  BY DEF RunnersConsistent
<1>4. NoLeaseWithoutHolder'
  BY DEF NoLeaseWithoutHolder, RunnersConsistent, StateIsHome
<1>5. OrphanedOnlyByKill'
  BY DEF OrphanedOnlyByKill, Owned
<1> QED
  BY <1>1, <1>2, <1>3, <1>4, <1>5 DEF Rest

\* A runner that is killed has no calls under way.
LEMMA RunnerKilledRest ==
    ASSUME SystemIInv, NEW r \in Calls, RunnerKilled(r)
    PROVE  Rest'
<1> USE DEF SystemIInv, SystemTypeOK, RunnersTyped, Stubs, RunnerKilled, daemons
<1>1. RunnersTyped'
  OBVIOUS
<1>2. StateIsHome'
  BY DEF StateIsHome
<1>3. RunnersConsistent'
  BY DEF RunnersConsistent
<1>4. NoLeaseWithoutHolder'
  BY DEF NoLeaseWithoutHolder
<1>5. OrphanedOnlyByKill'
  BY DEF OrphanedOnlyByKill, Owned
<1> QED
  BY <1>1, <1>2, <1>3, <1>4, <1>5 DEF Rest

\* A handler starts in the daemon that serves; an attached lease has its own id.
LEMMA HandleTakeLeaseRest ==
    ASSUME SystemIInv, NEW r \in Calls, HandleTakeLease(r)
    PROVE  Rest'
<1> USE NoneAssumption DEF SystemIInv, SystemTypeOK, RunnersTyped, Stubs,
        ServiceConsistent, TypeOK, CallsConsistent, Terminal, Running, HandleTakeLease,
        Dispatched, daemons, TakeLeaseAttach, TakeLeaseRejected, TakeLeaseMiss,
        LeaseId_random, CanAttach, FixtureRecord
<1>1. RunnersTyped'
  OBVIOUS
<1>2. StateIsHome'
  BY SMTT(30) DEF StateIsHome, CacheConsistent
<1>3. RunnersConsistent'
  BY DEF RunnersConsistent
<1>4. NoLeaseWithoutHolder'
  BY DEF NoLeaseWithoutHolder, RunnersConsistent
<1>5. OrphanedOnlyByKill'
  BY SMTT(30) DEF OrphanedOnlyByKill, CacheConsistent, Owned
<1> QED
  BY <1>1, <1>2, <1>3, <1>4, <1>5 DEF Rest

\* A published plugin is owned by its record; the replaced one is killed.
LEMMA HandlePublishRest ==
    ASSUME SystemIInv, NEW r \in Calls, HandlePublish(r)
    PROVE  Rest'
<1> USE NoneAssumption DEF SystemIInv, SystemTypeOK, RunnersTyped, ServiceConsistent,
        TypeOK, CallsConsistent, InFlight, Running, HandlePublish, Publish, daemons,
        LeaseId_random
<1>1. RunnersTyped'
  OBVIOUS
<1>2. StateIsHome'
  BY DEF StateIsHome
<1>3. RunnersConsistent'
  BY DEF RunnersConsistent
<1>4. NoLeaseWithoutHolder'
  BY DEF NoLeaseWithoutHolder, RunnersConsistent
<1>5. OrphanedOnlyByKill'
  <2> SUFFICES ASSUME NEW i \in Calls, plugin'[i] \in Running
               PROVE  \/ pc'[i] \in InFlight \/ Owned(i)'
                      \/ pc'[i] = "abandoned" \/ home'[i] \in killed'
    BY DEF OrphanedOnlyByKill
  <2>1. CASE i = r
    <3>1. fp[r] \in Fingerprints /\ client[r] \in Clients
      OBVIOUS
    <3>2. fixtures'[fp[r]] \in FixtureRecord /\ fixtures'[fp[r]].plugin = r
      BY SharingOfType DEF FixtureRecord
    <3> QED BY <2>1, <3>1, <3>2 DEF Owned
  <2>2. CASE i # r
    <3>1. plugin[i] \in Running
      BY DropPluginEffect DEF FixtureRecord
    <3>2. CASE fp[i] # None /\ fixtures[fp[i]] # None /\ fixtures[fp[i]].plugin = i
      <4>1. fp[i] # fp[r]
        BY <3>2, DropPluginEffect
      <4>2. fixtures'[fp[i]] = fixtures[fp[i]]
        BY <4>1
      <4> QED BY <4>2, <3>2 DEF Owned
    <3>3. CASE pc[i] \in InFlight \/ pc[i] = "abandoned" \/ home[i] \in killed
      BY <3>3, <2>2
    <3> QED BY <3>1, <3>2, <3>3 DEF OrphanedOnlyByKill, Owned
  <2> QED BY <2>1, <2>2
<1> QED
  BY <1>1, <1>2, <1>3, <1>4, <1>5 DEF Rest

\* A handled heartbeat changes nothing.
LEMMA HandleKeepaliveRest ==
    ASSUME SystemIInv, NEW r \in Calls, NEW stub \in Stubs, HandleKeepalive(r, stub)
    PROVE  Rest'
<1> USE DEF SystemIInv, SystemTypeOK, RunnersTyped, HandleKeepalive, Dispatched,
        Handler, CoordinatorServiceClient, CoordinatorServiceServer, vars, daemons
<1>1. RunnersTyped'
  OBVIOUS
<1>2. StateIsHome'
  BY DEF StateIsHome
<1>3. RunnersConsistent'
  BY DEF RunnersConsistent
<1>4. NoLeaseWithoutHolder'
  BY DEF NoLeaseWithoutHolder
<1>5. OrphanedOnlyByKill'
  BY DEF OrphanedOnlyByKill, Owned
<1> QED
  BY <1>1, <1>2, <1>3, <1>4, <1>5 DEF Rest

\* A release reaches release_lease and removes the runner's own lease, if any.
LEMMA ReleaseEffect ==
    ASSUME SystemIInv, NEW r \in Calls, NEW stub \in Stubs, HandleRelease(r, stub)
    PROVE  /\ sent[r].release_lease # None
           /\ view[r] \in {"releasing", "done"}
           /\ sent' = [sent EXCEPT ![r].release_lease = None]
           /\ leases' = [leases EXCEPT ![r] = None]
           /\ \A f \in Fingerprints :
                /\ fixtures'[f] # None <=> fixtures[f] # None
                /\ fixtures[f] # None => fixtures'[f].plugin = fixtures[f].plugin
           /\ UNCHANGED <<pc, client, fp, plugin, granted, gone>>
           /\ UNCHANGED <<daemons, view, lease_id, home, killed, gaveup>>
<1> USE NoneAssumption DEF SystemIInv, SystemTypeOK, ServiceConsistent
<1>1. stub = "release_lease"
  BY DEF HandleRelease, Dispatched, Handler, CoordinatorServiceClient,
     CoordinatorServiceServer, Stubs
<1>2. /\ sent[r].release_lease # None
      /\ view[r] \in {"releasing", "done"}
      /\ lease_id[r] = r
  BY <1>1 DEF HandleRelease, Dispatched, RunnersConsistent
<1>3. \A l \in Calls : leases[l] # None /\ lease_id[l] = lease_id[r] => l = r
  BY <1>2 DEF CallsConsistent, RunnersConsistent
<1>4. CASE leases[r] = None
  <2>1. UNCHANGED vars
    BY <1>3, <1>4 DEF HandleRelease
  <2> QED BY <1>1, <1>2, <1>4, <2>1 DEF HandleRelease, vars, TypeOK
<1>5. CASE leases[r] # None
  <2>1. ReleaseLease(r)
    BY <1>3, <1>5 DEF HandleRelease
  <2>2. \A f \in Fingerprints :
                /\ fixtures'[f] # None <=> fixtures[f] # None
                /\ fixtures[f] # None => fixtures'[f].plugin = fixtures[f].plugin
    BY <2>1, SMTT(30) DEF ReleaseLease, SlotsAfterRelease, TypeOK, FixtureRecord
  <2> QED BY <1>1, <1>2, <2>1, <2>2 DEF HandleRelease, ReleaseLease
<1> QED BY <1>4, <1>5

\* A handled release removes the lease of a runner that is done with it.
LEMMA HandleReleaseRest ==
    ASSUME SystemIInv, NEW r \in Calls, NEW stub \in Stubs, HandleRelease(r, stub)
    PROVE  Rest'
<1> USE DEF SystemIInv, SystemTypeOK, RunnersTyped, Stubs, TypeOK, daemons,
        FixtureRecord
<1>1. RunnersTyped'
  <2>1. /\ sent' = [sent EXCEPT ![r].release_lease = None]
        /\ UNCHANGED <<died, view, lease_id, home, killed, gaveup>>
    BY ReleaseEffect
  <2>2. sent' \in [Calls -> [Stubs -> Calls \cup {None}]]
    BY <2>1
  <2> QED BY <2>1, <2>2
<1>2. StateIsHome'
  BY ReleaseEffect DEF StateIsHome
<1>3. RunnersConsistent'
  BY ReleaseEffect DEF RunnersConsistent, StateIsHome
<1>4. NoLeaseWithoutHolder'
  BY ReleaseEffect DEF NoLeaseWithoutHolder
<1>5. OrphanedOnlyByKill'
  BY ReleaseEffect DEF OrphanedOnlyByKill, Owned
<1> QED
  BY <1>1, <1>2, <1>3, <1>4, <1>5 DEF Rest

\* A spawned plugin belongs to a handler in flight.
LEMMA SpawnPluginRest ==
    ASSUME SystemIInv, NEW r \in Calls, SpawnPlugin(r), UNCHANGED <<daemons, runners>>
    PROVE  Rest'
<1> USE DEF SystemIInv, SystemTypeOK, RunnersTyped, InFlight, SpawnPlugin, daemons,
        runners
<1>1. RunnersTyped'
  OBVIOUS
<1>2. StateIsHome'
  BY DEF StateIsHome
<1>3. RunnersConsistent'
  BY DEF RunnersConsistent
<1>4. NoLeaseWithoutHolder'
  BY DEF NoLeaseWithoutHolder
<1>5. OrphanedOnlyByKill'
  BY DEF OrphanedOnlyByKill, Owned
<1> QED
  BY <1>1, <1>2, <1>3, <1>4, <1>5 DEF Rest

\* A handler that could not spawn has no plugin.
LEMMA SpawnFailedRest ==
    ASSUME SystemIInv, NEW r \in Calls, SpawnFailed(r), UNCHANGED <<daemons, runners>>
    PROVE  Rest'
<1> USE DEF SystemIInv, SystemTypeOK, RunnersTyped, ServiceConsistent, InFlight,
        Running, SpawnFailed, daemons, runners
<1>1. RunnersTyped'
  OBVIOUS
<1>2. StateIsHome'
  BY DEF StateIsHome
<1>3. RunnersConsistent'
  BY DEF RunnersConsistent
<1>4. NoLeaseWithoutHolder'
  BY DEF NoLeaseWithoutHolder
<1>5. OrphanedOnlyByKill'
  BY DEF OrphanedOnlyByKill, Owned
<1> QED
  BY <1>1, <1>2, <1>3, <1>4, <1>5 DEF Rest

\* A connected plugin is owned by its handler.
LEMMA ConnectedRest ==
    ASSUME SystemIInv, NEW r \in Calls, Connected(r), UNCHANGED <<daemons, runners>>
    PROVE  Rest'
<1> USE DEF SystemIInv, SystemTypeOK, RunnersTyped, InFlight, Connected, daemons,
        runners
<1>1. RunnersTyped'
  OBVIOUS
<1>2. StateIsHome'
  BY DEF StateIsHome
<1>3. RunnersConsistent'
  BY DEF RunnersConsistent
<1>4. NoLeaseWithoutHolder'
  BY DEF NoLeaseWithoutHolder
<1>5. OrphanedOnlyByKill'
  BY DEF OrphanedOnlyByKill, Owned
<1> QED
  BY <1>1, <1>2, <1>3, <1>4, <1>5 DEF Rest

\* A handler that gives up connecting is abandoned.
LEMMA ConnectFailedRest ==
    ASSUME SystemIInv, NEW r \in Calls, ConnectFailed(r), UNCHANGED <<daemons, runners>>
    PROVE  Rest'
<1> USE DEF SystemIInv, SystemTypeOK, RunnersTyped, InFlight, ConnectFailed, daemons,
        runners
<1>1. RunnersTyped'
  OBVIOUS
<1>2. StateIsHome'
  BY DEF StateIsHome
<1>3. RunnersConsistent'
  BY DEF RunnersConsistent
<1>4. NoLeaseWithoutHolder'
  BY DEF NoLeaseWithoutHolder
<1>5. OrphanedOnlyByKill'
  BY DEF OrphanedOnlyByKill, Owned
<1> QED
  BY <1>1, <1>2, <1>3, <1>4, <1>5 DEF Rest

\* The handler goes on to CreateFixture.
LEMMA DescribedRest ==
    ASSUME SystemIInv, NEW r \in Calls, Described(r), UNCHANGED <<daemons, runners>>
    PROVE  Rest'
<1> USE DEF SystemIInv, SystemTypeOK, RunnersTyped, InFlight, Described, daemons,
        runners
<1>1. RunnersTyped'
  OBVIOUS
<1>2. StateIsHome'
  BY DEF StateIsHome
<1>3. RunnersConsistent'
  BY DEF RunnersConsistent
<1>4. NoLeaseWithoutHolder'
  BY DEF NoLeaseWithoutHolder
<1>5. OrphanedOnlyByKill'
  BY DEF OrphanedOnlyByKill, Owned
<1> QED
  BY <1>1, <1>2, <1>3, <1>4, <1>5 DEF Rest

\* The handler goes on to publish.
LEMMA CreatedRest ==
    ASSUME SystemIInv, NEW r \in Calls, Created(r), UNCHANGED <<daemons, runners>>
    PROVE  Rest'
<1> USE DEF SystemIInv, SystemTypeOK, RunnersTyped, InFlight, Created, daemons, runners
<1>1. RunnersTyped'
  OBVIOUS
<1>2. StateIsHome'
  BY DEF StateIsHome
<1>3. RunnersConsistent'
  BY DEF RunnersConsistent
<1>4. NoLeaseWithoutHolder'
  BY DEF NoLeaseWithoutHolder
<1>5. OrphanedOnlyByKill'
  BY DEF OrphanedOnlyByKill, Owned
<1> QED
  BY <1>1, <1>2, <1>3, <1>4, <1>5 DEF Rest

\* The plugin of a failed handler is killed.
LEMMA ProvisionFailedRest ==
    ASSUME SystemIInv, NEW r \in Calls, ProvisionFailed(r), UNCHANGED <<daemons, runners>>
    PROVE  Rest'
<1> USE DEF SystemIInv, SystemTypeOK, RunnersTyped, TypeOK, InFlight, Running,
        ProvisionFailed, DropPlugin, daemons, runners
<1>1. RunnersTyped'
  OBVIOUS
<1>2. StateIsHome'
  BY DEF StateIsHome
<1>3. RunnersConsistent'
  BY DEF RunnersConsistent
<1>4. NoLeaseWithoutHolder'
  BY DEF NoLeaseWithoutHolder
<1>5. OrphanedOnlyByKill'
  BY DEF OrphanedOnlyByKill, Owned
<1> QED
  BY <1>1, <1>2, <1>3, <1>4, <1>5 DEF Rest

\* A cancelled handler kills the plugin it owns, or is abandoned.
LEMMA CancelRest ==
    ASSUME SystemIInv, NEW r \in Calls, Cancel(r), UNCHANGED <<daemons, runners>>
    PROVE  Rest'
<1> USE NoneAssumption DEF SystemIInv, SystemTypeOK, RunnersTyped, ServiceConsistent,
        TypeOK, InFlight, Terminal, Running, Cancel, DropPlugin, daemons, runners,
        PluginState
<1>1. RunnersTyped'
  OBVIOUS
<1>2. StateIsHome'
  BY DEF StateIsHome
<1>3. RunnersConsistent'
  BY DEF RunnersConsistent
<1>4. NoLeaseWithoutHolder'
  BY DEF NoLeaseWithoutHolder
<1>5. OrphanedOnlyByKill'
  BY SMTT(30) DEF OrphanedOnlyByKill, Owned
<1> QED
  BY <1>1, <1>2, <1>3, <1>4, <1>5 DEF Rest

\* A plugin that starts to serve keeps its owner.
LEMMA PluginServesRest ==
    ASSUME SystemIInv, NEW r \in Calls, PluginServes(r), UNCHANGED <<daemons, runners>>
    PROVE  Rest'
<1> USE DEF SystemIInv, SystemTypeOK, RunnersTyped, Running, PluginServes, daemons,
        runners
<1>1. RunnersTyped'
  OBVIOUS
<1>2. StateIsHome'
  BY DEF StateIsHome
<1>3. RunnersConsistent'
  BY DEF RunnersConsistent
<1>4. NoLeaseWithoutHolder'
  BY DEF NoLeaseWithoutHolder
<1>5. OrphanedOnlyByKill'
  BY DEF OrphanedOnlyByKill, Owned
<1> QED
  BY <1>1, <1>2, <1>3, <1>4, <1>5 DEF Rest

\* A plugin that exits needs no owner.
LEMMA PluginExitsRest ==
    ASSUME SystemIInv, NEW r \in Calls, PluginExits(r), UNCHANGED <<daemons, runners>>
    PROVE  Rest'
<1> USE DEF SystemIInv, SystemTypeOK, RunnersTyped, PluginExits, daemons, runners
<1>1. RunnersTyped'
  OBVIOUS
<1>2. StateIsHome'
  BY DEF StateIsHome
<1>3. RunnersConsistent'
  BY DEF RunnersConsistent
<1>4. NoLeaseWithoutHolder'
  BY DEF NoLeaseWithoutHolder
<1>5. OrphanedOnlyByKill'
  BY DEF OrphanedOnlyByKill, Owned
<1> QED
  BY <1>1, <1>2, <1>3, <1>4, <1>5 DEF Rest

\* Starting up leaves the service and its daemon alone.
LEMMA StartingUpRest ==
    ASSUME SystemIInv, NEW r \in Calls, StartingUp(r)
    PROVE  Rest'
<1> USE NoneAssumption DEF SystemIInv, SystemTypeOK, RunnersTyped, Stubs,
        ServiceConsistent, TypeOK, CallsConsistent, InFlight, Terminal, vars, runners,
        DaemonsConsistent, FixtureRecord
<1>1. RunnersTyped'
  BY StartingUpStays
<1>2. StateIsHome'
  BY StartingUpStays DEF StateIsHome, CacheConsistent
<1>3. RunnersConsistent'
  BY StartingUpStays, SMTT(30) DEF RunnersConsistent, StateIsHome
<1>4. NoLeaseWithoutHolder'
  BY StartingUpStays DEF NoLeaseWithoutHolder
<1>5. OrphanedOnlyByKill'
  BY StartingUpStays DEF OrphanedOnlyByKill, Owned
<1> QED
  BY <1>1, <1>2, <1>3, <1>4, <1>5 DEF Rest

\* A handler abandoned earlier is so after its daemon's end.
LEMMA EndedStays ==
    ASSUME NEW i \in Calls, NEW plugins, StateLost(plugins), pc[i] = "abandoned"
    PROVE  pc'[i] = "abandoned"
  BY DEF StateLost, Ended, InFlight

\* A killed daemon's plugins are accounted for by its death.
LEMMA DaemonKilledRest ==
    ASSUME SystemIInv, NEW r \in Calls, DaemonKilled(r)
    PROVE  Rest'
<1> USE NoneAssumption DEF SystemIInv, SystemTypeOK, RunnersTyped, ServiceConsistent,
        TypeOK, CallsConsistent, InFlight, Terminal, DaemonKilled, Startup!Die,
        StateLost, Ended, vars, DaemonsConsistent, Startup!TypeOK, Startup!Owning,
        Startup!Alive
<1>1. RunnersTyped'
  OBVIOUS
<1>2. StateIsHome'
  BY DEF StateIsHome
<1>3. RunnersConsistent'
  BY DEF RunnersConsistent, StateIsHome
<1>4. NoLeaseWithoutHolder'
  BY DEF NoLeaseWithoutHolder
<1>5. OrphanedOnlyByKill'
  <2>1. CASE dpc[r] # "serving"
    BY <2>1 DEF OrphanedOnlyByKill, Owned
  <2>2. CASE dpc[r] = "serving"
    <3> SUFFICES ASSUME NEW i \in Calls, plugin[i] \in Running
                 PROVE  pc'[i] = "abandoned" \/ home[i] \in killed'
      BY <2>2 DEF OrphanedOnlyByKill
    <3>1. home[i] \in Calls /\ dpc[home[i]] = "serving" => home[i] = r
      BY <2>2
    <3>2. CASE pc[i] \in InFlight \/ Owned(i)
      BY <3>1, <3>2 DEF StateIsHome, CacheConsistent, Owned
    <3>3. CASE pc[i] = "abandoned"
      BY <2>2, <3>3, EndedStays
    <3> QED
      BY <3>2, <3>3 DEF OrphanedOnlyByKill
  <2> QED
    BY <2>1, <2>2
<1> QED
  BY <1>1, <1>2, <1>3, <1>4, <1>5 DEF Rest

\* A daemon that exits kills the plugins that have an owner.
LEMMA DaemonExitsRest ==
    ASSUME SystemIInv, NEW r \in Calls, DaemonExits(r)
    PROVE  Rest'
<1> USE DEF SystemIInv, SystemTypeOK, RunnersTyped, ServiceConsistent, CallsConsistent,
        InFlight, Running, DaemonExits, Startup!Die, StateLost, Ended, ExitDrops, runners,
        DaemonsConsistent, Startup!TypeOK, Startup!Owning
<1>1. RunnersTyped'
  OBVIOUS
<1>2. StateIsHome'
  BY DEF StateIsHome
<1>3. RunnersConsistent'
  BY DEF RunnersConsistent, StateIsHome
<1>4. NoLeaseWithoutHolder'
  BY DEF NoLeaseWithoutHolder
<1>5. OrphanedOnlyByKill'
  <2> SUFFICES ASSUME NEW i \in Calls, plugin'[i] \in Running
               PROVE  pc'[i] = "abandoned" \/ home[i] \in killed
    BY DEF OrphanedOnlyByKill
  <2>1. plugin[i] \in Running /\ ~Owned(i)
    OBVIOUS
  <2>2. CASE pc[i] \in InFlight
    BY <2>1, <2>2 DEF Owned
  <2>3. CASE pc[i] = "abandoned"
    BY <2>3
  <2> QED
    BY <2>1, <2>2, <2>3 DEF OrphanedOnlyByKill
<1> QED
  BY <1>1, <1>2, <1>3, <1>4, <1>5 DEF Rest

\* Stuttering keeps everything.
LEMMA StutterRest ==
    ASSUME SystemIInv, UNCHANGED allvars
    PROVE  Rest'
<1> USE DEF SystemIInv, SystemTypeOK, RunnersTyped, allvars, vars, daemons, runners
<1>1. RunnersTyped'
  OBVIOUS
<1>2. StateIsHome'
  BY DEF StateIsHome
<1>3. RunnersConsistent'
  BY DEF RunnersConsistent
<1>4. NoLeaseWithoutHolder'
  BY DEF NoLeaseWithoutHolder
<1>5. OrphanedOnlyByKill'
  BY DEF OrphanedOnlyByKill, Owned
<1> QED
  BY <1>1, <1>2, <1>3, <1>4, <1>5 DEF Rest

--------------------------------------------------------------------------------
\* The inductive invariant.

\* For the coordinator every step is one of its own, the end of a caller, or the
\* end of its process.
LEMMA ServiceSteps ==
    ASSUME [SystemNext]_allvars
    PROVE  \/ [Next]_vars
           \/ \E r \in Calls : RunnerKilled(r)
           \/ StateLost(plugin) \/ StateLost(ExitDrops)
<1>1. ASSUME NEW r \in Calls,
             \/ StartingUp(r)
             \/ CallTakeLease(r) \/ CallKeepalive(r) \/ CallReleaseLease(r) \/ NotReady(r)
             \/ TakeLeaseReturns(r) \/ KeepaliveBroken(r) \/ ReleaseReturns(r)
             \/ \E stub \in Stubs : HandleKeepalive(r, stub)
      PROVE  UNCHANGED vars
  BY <1>1 DEF StartingUp, CallTakeLease, CallKeepalive, CallReleaseLease, NotReady,
     TakeLeaseReturns, KeepaliveBroken, ReleaseReturns, HandleKeepalive
<1>2. ASSUME NEW r \in Calls, HandleTakeLease(r) \/ HandlePublish(r) PROVE Next
  BY <1>2 DEF HandleTakeLease, HandlePublish, Next
<1>3. ASSUME NEW r \in Calls, NEW stub \in Stubs, HandleRelease(r, stub)
      PROVE  [Next]_vars
  <2>1. UNCHANGED vars \/ \E l \in Calls : ReleaseLease(l)
    BY <1>3 DEF HandleRelease
  <2> QED
    BY <2>1 DEF Next
<1>4. ASSUME NEW r \in Calls, Provisioning(r) PROVE Next
  BY <1>4 DEF Provisioning, Next
<1>5. ASSUME NEW r \in Calls, DaemonKilled(r) \/ DaemonExits(r)
      PROVE  UNCHANGED vars \/ StateLost(plugin) \/ StateLost(ExitDrops)
  BY <1>5 DEF DaemonKilled, DaemonExits
<1>6. CASE UNCHANGED allvars
  BY <1>6 DEF allvars
<1> QED
  BY <1>1, <1>2, <1>3, <1>4, <1>5, <1>6 DEF SystemNext

\* Every step keeps what survives of the coordinator's invariant.
LEMMA ServiceStays ==
    ASSUME SystemIInv, [SystemNext]_allvars
    PROVE  ServiceConsistent'
<1> USE DEF SystemIInv
<1>1. CASE [Next]_vars
  BY <1>1, ServiceStep
<1>2. CASE \E r \in Calls : RunnerKilled(r)
  BY <1>2 DEF RunnerKilled, ServiceConsistent, TypeOK, CallsConsistent, CacheConsistent
<1>3. CASE StateLost(plugin)
  <2>1. plugin \in [Calls -> PluginState]
    BY DEF ServiceConsistent, TypeOK
  <2> QED
    BY <1>3, <2>1, ServiceLost
<1>4. CASE StateLost(ExitDrops)
  <2>1. /\ ExitDrops \in [Calls -> PluginState]
        /\ \A i \in Calls : plugin[i] = "none" => ExitDrops[i] = "none"
    BY DEF ServiceConsistent, TypeOK, ExitDrops, PluginState, Running
  <2> QED
    BY <1>4, <2>1, ServiceLost
<1> QED
  BY <1>1, <1>2, <1>3, <1>4, ServiceSteps

LEMMA InitSystemIInv == SystemInit => SystemIInv
<1> SUFFICES ASSUME SystemInit PROVE SystemIInv
  OBVIOUS
<1> USE NoneAssumption DEF SystemInit, Init, Startup!Init
<1>1. DaemonsConsistent
  BY DEF DaemonsConsistent, Startup!TypeOK, Startup!ServerOwnsSocket, Startup!Owning,
     Startup!Alive
<1>2. ServiceConsistent
  BY DEF ServiceConsistent, TypeOK, CallsConsistent, CacheConsistent, InFlight, PluginState
<1>3. SystemTypeOK
  BY <1>1, <1>2 DEF SystemTypeOK, DaemonsConsistent, ServiceConsistent
<1>4. StateIsHome /\ RunnersConsistent
  BY DEF StateIsHome, RunnersConsistent, InFlight, Stubs
<1>5. NoLeaseWithoutHolder /\ OrphanedOnlyByKill
  BY DEF NoLeaseWithoutHolder, OrphanedOnlyByKill, Running
<1> QED
  BY <1>1, <1>2, <1>3, <1>4, <1>5 DEF SystemIInv

LEMMA NextSystemIInv == SystemIInv /\ [SystemNext]_allvars => SystemIInv'
<1> SUFFICES ASSUME SystemIInv, [SystemNext]_allvars PROVE SystemIInv'
  OBVIOUS
<1>1. DaemonsConsistent'
  BY StartupStep, DaemonsStep DEF SystemIInv
<1>2. ServiceConsistent'
  BY ServiceStays
<1>3. Rest'
  <2>1. CASE \E r \in Calls : StartingUp(r)
    BY <2>1, StartingUpRest
  <2>2. CASE \E r \in Calls : CallTakeLease(r) \/ CallKeepalive(r) \/ CallReleaseLease(r)
    BY <2>2, CallTakeLeaseRest, CallKeepaliveRest, CallReleaseLeaseRest
  <2>3. CASE \E r \in Calls : NotReady(r) \/ TakeLeaseReturns(r) \/ KeepaliveBroken(r)
    BY <2>3, NotReadyRest, TakeLeaseReturnsRest, KeepaliveBrokenRest
  <2>4. CASE \E r \in Calls : ReleaseReturns(r) \/ RunnerKilled(r)
    BY <2>4, ReleaseReturnsRest, RunnerKilledRest
  <2>5. CASE \E r \in Calls : HandleTakeLease(r) \/ HandlePublish(r)
    BY <2>5, HandleTakeLeaseRest, HandlePublishRest
  <2>6. CASE \E r \in Calls, stub \in Stubs :
                 HandleKeepalive(r, stub) \/ HandleRelease(r, stub)
    BY <2>6, HandleKeepaliveRest, HandleReleaseRest
  <2>7. CASE \E r \in Calls : Provisioning(r)
    BY <2>7, SpawnPluginRest, SpawnFailedRest, ConnectedRest, ConnectFailedRest,
       DescribedRest, CreatedRest, ProvisionFailedRest, CancelRest, PluginServesRest,
       PluginExitsRest DEF Provisioning
  <2>8. CASE \E r \in Calls : DaemonKilled(r) \/ DaemonExits(r)
    BY <2>8, DaemonKilledRest, DaemonExitsRest
  <2>9. CASE UNCHANGED allvars
    BY <2>9, StutterRest
  <2> QED
    BY <2>1, <2>2, <2>3, <2>4, <2>5, <2>6, <2>7, <2>8, <2>9 DEF SystemNext
<1>4. SystemTypeOK'
  BY <1>1, <1>2, <1>3 DEF SystemTypeOK, DaemonsConsistent, ServiceConsistent, Rest,
                          RunnersTyped
<1> QED
  BY <1>1, <1>2, <1>3, <1>4 DEF SystemIInv, Rest

\* The invariant holds in every state of the system.
THEOREM SystemInvariant == SystemSpec => []SystemIInv
  BY InitSystemIInv, NextSystemIInv, PTL DEF SystemSpec

--------------------------------------------------------------------------------
\* What follows.

(***************************************************************************)
(* Type correctness of the whole: no daemon's death and no late call puts  *)
(* the coordinator, a daemon or a runner into an undefined state.          *)
(***************************************************************************)
THEOREM SystemTypeCorrect == SystemSpec => []SystemTypeOK
<1>1. SystemIInv => SystemTypeOK
  BY DEF SystemIInv
<1> QED
  BY <1>1, SystemInvariant, PTL

(***************************************************************************)
(* The coordinator knows the lease of every runner that holds one from the *)
(* daemon that serves, for any number of runners and restarts.             *)
(***************************************************************************)
THEOREM HolderCorrect == SystemSpec => []HolderIsKnown
<1>1. SystemIInv => HolderIsKnown
  BY DEF SystemIInv, HolderIsKnown, RunnersConsistent
<1> QED
  BY <1>1, SystemInvariant, PTL

(***************************************************************************)
(* ReleaseLease reaches the lease it is for: only dead runners and runners *)
(* that stopped waiting for the answer leave leases behind.                *)
(***************************************************************************)
THEOREM LeasesCorrect == SystemSpec => []NoLeaseWithoutHolder
<1>1. SystemIInv => NoLeaseWithoutHolder
  BY DEF SystemIInv
<1> QED
  BY <1>1, SystemInvariant, PTL

(***************************************************************************)
(* Drop for PluginProcess: a plugin nobody owns was abandoned while it     *)
(* connected, or outlived a daemon that a signal ended.                    *)
(***************************************************************************)
THEOREM OrphansCorrect == SystemSpec => []OrphanedOnlyByKill
<1>1. SystemIInv => OrphanedOnlyByKill
  BY DEF SystemIInv
<1> QED
  BY <1>1, SystemInvariant, PTL

(***************************************************************************)
(* The whole system refines the start-up protocol: serving leases disturbs *)
(* no daemon and no runner's way to one.                                   *)
(***************************************************************************)
THEOREM SystemImplementsStartup == SystemSpec => Startup!Spec
<1>1. SystemInit => Startup!Init
  BY DEF SystemInit
<1>2. [SystemNext]_allvars => [Startup!Next]_(Startup!vars)
  BY StartupStep
<1> QED
  BY <1>1, <1>2, PTL DEF SystemSpec, Startup!Spec

(***************************************************************************)
(* Slot accounting over restarts: a release that reaches a later daemon    *)
(* than the one that granted the lease gives back no slot of that daemon,  *)
(* and a restart leaves no slot taken that nobody will give back.          *)
(***************************************************************************)
THEOREM SystemSlotsCorrect == SystemSpec => []SlotsBackedByLeases
<1>1. SystemInit => SlotsBackedByLeases
  BY DEF SystemInit, Init, SlotsBackedByLeases
<1>2. SystemIInv /\ SlotsBackedByLeases /\ [SystemNext]_allvars => SlotsBackedByLeases'
  <2> SUFFICES ASSUME SystemIInv, SlotsBackedByLeases, [SystemNext]_allvars
               PROVE  SlotsBackedByLeases'
    OBVIOUS
  <2>1. CASE [Next]_vars
    BY <2>1, NextSlotsBacked DEF SystemIInv, ServiceConsistent
  <2>2. CASE \E r \in Calls : RunnerKilled(r)
    BY <2>2, BackedFramed DEF RunnerKilled
  <2>3. CASE StateLost(plugin) \/ StateLost(ExitDrops)
    BY <2>3 DEF StateLost, SlotsBackedByLeases
  <2> QED
    BY <2>1, <2>2, <2>3, ServiceSteps
<1> QED
  BY <1>1, <1>2, SystemInvariant, PTL DEF SystemSpec

\* An active lease routes exactly when its fingerprint has a record.
LEMMA RoutesMeansRecord ==
    ASSUME TypeOK
    PROVE  LeaseAlwaysRoutes <=>
               \A l \in Calls : leases[l] # None => fixtures[leases[l]] # None
<1>1. ASSUME NEW l \in Calls, leases[l] # None, fixtures[leases[l]] # None
      PROVE  fixtures[leases[l]].plugin # None
  BY <1>1, NoneAssumption DEF TypeOK, FixtureRecord
<1> QED
  BY <1>1 DEF LeaseAlwaysRoutes, StatusOutputs

\* The coordinator's own steps keep leases routed.
LEMMA RoutesStep ==
    ASSUME TypeOK, CallsConsistent, [Next]_vars,
           \A l \in Calls : leases[l] # None => fixtures[leases[l]] # None
    PROVE  \A l \in Calls : leases'[l] # None => fixtures'[leases'[l]] # None
<1> USE NoneAssumption
<1>1. ASSUME NEW r \in Calls, NEW c \in Clients, NEW f \in Fingerprints,
             TakeLeaseAttach(r, c, f)
      PROVE  \A l \in Calls : leases'[l] # None => fixtures'[leases'[l]] # None
  <2>1. fixtures[f] \in FixtureRecord
    BY <1>1 DEF TypeOK, TakeLeaseAttach, CanAttach
  <2>2. fixtures'[f] \in FixtureRecord
    BY <1>1, <2>1 DEF TypeOK, TakeLeaseAttach, FixtureRecord
  <2> QED
    BY <1>1, <2>2 DEF TypeOK, TakeLeaseAttach
<1>2. ASSUME NEW r \in Calls, Publish(r)
      PROVE  \A l \in Calls : leases'[l] # None => fixtures'[leases'[l]] # None
  <2>1. fp[r] \in Fingerprints /\ client[r] \in Clients
    BY <1>2 DEF CallsConsistent, Publish, InFlight
  <2>2. fixtures'[fp[r]] \in FixtureRecord
    BY <1>2, <2>1, SharingOfType DEF TypeOK, Publish, FixtureRecord
  <2> QED
    BY <1>2, <2>1, <2>2 DEF TypeOK, Publish
<1>3. ASSUME NEW r \in Calls, ReleaseLease(r)
      PROVE  \A l \in Calls : leases'[l] # None => fixtures'[leases'[l]] # None
  <2>1. CASE leases[r] = None
    BY <1>3, <2>1 DEF TypeOK, ReleaseLease
  <2>2. CASE leases[r] # None
    <3>1. leases[r] \in Fingerprints /\ fixtures[leases[r]] \in FixtureRecord
      BY <2>2 DEF TypeOK
    <3>2. fixtures'[leases[r]] \in FixtureRecord
      BY <1>3, <3>1 DEF TypeOK, ReleaseLease, FixtureRecord, SlotsAfterRelease
    <3> QED
      BY <1>3, <2>2, <3>1, <3>2 DEF TypeOK, ReleaseLease
  <2> QED
    BY <2>1, <2>2
<1>4. CASE UNCHANGED vars
  BY <1>4 DEF vars
<1> QED
  BY <1>1, <1>2, <1>3, <1>4, MapsFramed DEF Next

(***************************************************************************)
(* Status over restarts: no daemon ever has a lease without a record, so   *)
(* it has outputs for every lease it knows.                                *)
(***************************************************************************)
THEOREM SystemRoutingCorrect == SystemSpec => []LeaseAlwaysRoutes
<1>1. SystemInit => LeaseAlwaysRoutes
  BY DEF SystemInit, Init, LeaseAlwaysRoutes
<1>2. SystemIInv /\ LeaseAlwaysRoutes /\ [SystemNext]_allvars /\ SystemIInv'
          => LeaseAlwaysRoutes'
  <2> SUFFICES ASSUME SystemIInv, LeaseAlwaysRoutes, [SystemNext]_allvars, SystemIInv'
               PROVE  LeaseAlwaysRoutes'
    OBVIOUS
  <2>1. TypeOK /\ TypeOK' /\ CallsConsistent
    BY DEF SystemIInv, ServiceConsistent
  <2>2. \A l \in Calls : leases[l] # None => fixtures[leases[l]] # None
    BY <2>1, RoutesMeansRecord
  <2>3. \A l \in Calls : leases'[l] # None => fixtures'[leases'[l]] # None
    <3>1. CASE [Next]_vars
      BY <2>1, <2>2, <3>1, RoutesStep
    <3>2. CASE \E r \in Calls : RunnerKilled(r)
      BY <2>2, <3>2 DEF RunnerKilled
    <3>3. CASE StateLost(plugin) \/ StateLost(ExitDrops)
      BY <3>3 DEF StateLost
    <3> QED
      BY <3>1, <3>2, <3>3, ServiceSteps
  <2>4. ASSUME NEW l \in Calls, leases'[l] # None
        PROVE  fixtures'[leases'[l]].plugin # None
    BY <2>1, <2>3, <2>4, NoneAssumption DEF TypeOK, FixtureRecord
  <2> QED
    BY <2>3, <2>4 DEF LeaseAlwaysRoutes, StatusOutputs
<1> QED
  BY <1>1, <1>2, SystemInvariant, PTL DEF SystemSpec

\* The coordinator's own steps hand instances out within their scope.
LEMMA ScopeStep ==
    ASSUME TypeOK, CallsConsistent, CacheConsistent, ScopeRespected, [Next]_vars
    PROVE  ScopeRespected'
<1> USE NoneAssumption
<1>1. ASSUME NEW r \in Calls, NEW c \in Clients, NEW f \in Fingerprints,
             TakeLeaseAttach(r, c, f)
      PROVE  ScopeRespected'
  <2> DEFINE i == fixtures[f].plugin
  <2>1. /\ i \in Calls /\ granted[i] = i /\ fp[i] = f
        /\ fixtures[f].creating_client_id = client[i]
        /\ fixtures[f].sharing = SharingOf(f)
    BY <1>1 DEF TypeOK, FixtureRecord, CacheConsistent, TakeLeaseAttach, CanAttach
  <2>2. granted[r] = None /\ i # r
    BY <1>1, <2>1 DEF CallsConsistent, TakeLeaseAttach
  <2>3. sharing_admits(SharingOf(f), client[i], c)
    BY <1>1, <2>1 DEF TakeLeaseAttach, CanAttach
  <2>4. SharingOf(f).use_scope # "single_use"
        /\ (SharingOf(f).use_scope = "unrestricted" \/ client[i] = c)
    BY <2>3 DEF sharing_admits
  <2>5. /\ granted' = [granted EXCEPT ![r] = i]
        /\ fp' = [fp EXCEPT ![r] = f]
        /\ client' = [client EXCEPT ![r] = c]
    BY <1>1 DEF TakeLeaseAttach
  <2>6. \A l \in Calls : granted[l] # r
    BY <2>2 DEF CallsConsistent
  <2> HIDE DEF i
  <2> SUFFICES ASSUME NEW l \in Calls, granted'[l] # None, granted'[l] # l
               PROVE  /\ fp'[granted'[l]] = fp'[l]
                      /\ SharingOf(fp'[l]).use_scope # "single_use"
                      /\ \/ SharingOf(fp'[l]).use_scope = "unrestricted"
                         \/ client'[granted'[l]] = client'[l]
    BY DEF ScopeRespected, SharingOf
  <2>7. CASE l = r
    BY <2>1, <2>2, <2>4, <2>5, <2>7 DEF TypeOK
  <2>8. CASE l # r
    BY <2>5, <2>6, <2>8 DEF TypeOK, ScopeRespected
  <2> QED
    BY <2>7, <2>8
<1>2. ASSUME NEW r \in Calls, NEW c \in Clients, NEW f \in Fingerprints,
             TakeLeaseMiss(r, c, f)
      PROVE  ScopeRespected'
  \* Nobody was granted an instance of a call that is idle.
  <2>1. granted[r] = None /\ \A l \in Calls : granted[l] # r
    BY <1>2 DEF CallsConsistent, TakeLeaseMiss
  <2> QED
    BY <1>2, <2>1 DEF TypeOK, ScopeRespected, TakeLeaseMiss, SharingOf
<1>3. ASSUME NEW r \in Calls, Publish(r) PROVE ScopeRespected'
  <2>1. granted' = [granted EXCEPT ![r] = r] /\ UNCHANGED <<fp, client>>
    BY <1>3 DEF Publish
  <2> QED
    BY <2>1 DEF TypeOK, ScopeRespected, SharingOf
<1>4. ASSUME NEW r \in Calls,
             \/ TakeLeaseRejected(r) \/ SpawnPlugin(r) \/ SpawnFailed(r)
             \/ Connected(r) \/ ConnectFailed(r) \/ Described(r) \/ Created(r)
             \/ ProvisionFailed(r) \/ ReleaseLease(r) \/ ClientGone(r) \/ Cancel(r)
             \/ PluginServes(r) \/ PluginExits(r)
      PROVE  UNCHANGED <<granted, fp, client>>
  BY <1>4 DEF TakeLeaseRejected, SpawnPlugin, SpawnFailed, Connected, ConnectFailed,
     Described, Created, ProvisionFailed, ReleaseLease, ClientGone, Cancel,
     PluginServes, PluginExits
<1>5. CASE UNCHANGED <<granted, fp, client>>
  BY <1>5 DEF ScopeRespected, SharingOf
<1> QED
  BY <1>1, <1>2, <1>3, <1>4, <1>5 DEF Next, vars

(***************************************************************************)
(* sharing_admits over restarts: outputs of an instance only ever reach    *)
(* the call that provisioned it and calls its scope admits, whichever      *)
(* daemons served them.                                                    *)
(***************************************************************************)
THEOREM SystemScopeCorrect == SystemSpec => []ScopeRespected
<1>1. SystemInit => ScopeRespected
  BY DEF SystemInit, Init, ScopeRespected
<1>2. SystemIInv /\ ScopeRespected /\ [SystemNext]_allvars => ScopeRespected'
  <2> SUFFICES ASSUME SystemIInv, ScopeRespected, [SystemNext]_allvars
               PROVE  ScopeRespected'
    OBVIOUS
  <2>1. TypeOK /\ CallsConsistent /\ CacheConsistent
    BY DEF SystemIInv, ServiceConsistent
  <2>2. CASE [Next]_vars
    BY <2>1, <2>2, ScopeStep
  <2>3. CASE \E r \in Calls : RunnerKilled(r)
    BY <2>3 DEF RunnerKilled, ScopeRespected
  <2>4. CASE StateLost(plugin) \/ StateLost(ExitDrops)
    BY <2>4 DEF StateLost, ScopeRespected
  <2> QED
    BY <2>2, <2>3, <2>4, ServiceSteps
<1> QED
  BY <1>1, <1>2, SystemInvariant, PTL DEF SystemSpec

--------------------------------------------------------------------------------
\* The lease registry.

\* The death of a serving daemon ends every lease and every offer.
LEMMA StateLostLoses ==
    ASSUME NEW plugins, StateLost(plugins)
    PROVE  Registry!Lose
<1>1. Offered' = [f \in Fingerprints |-> None]
  BY DEF Offered, StateLost
<1>2. Active' = {}
  BY DEF Active, StateLost
<1>3. granted' = granted /\ Owner' = Owner
  BY DEF Owner, StateLost
<1> QED
  BY <1>1, <1>2, <1>3 DEF Registry!Lose, Offered, Owner, Active

(***************************************************************************)
(* For any number of runners, fixtures and deaths, daemons that come and   *)
(* go behind one socket path implement a lease registry that forgets at a  *)
(* restart: leases end one by one by a release or all with their daemon.   *)
(***************************************************************************)
THEOREM SystemImplementsRegistry == SystemSpec => RefinesRestartingRegistry
<1>1. SystemInit => Registry!Init
  BY RegistryInit DEF SystemInit
<1>2. SystemIInv /\ [SystemNext]_allvars
          => [Registry!Next \/ Registry!Lose]_(Registry!vars)
  <2> SUFFICES ASSUME SystemIInv, [SystemNext]_allvars
               PROVE  [Registry!Next \/ Registry!Lose]_(Registry!vars)
    OBVIOUS
  <2>1. CASE [Next]_vars
    BY <2>1, RegistryNext DEF SystemIInv, ServiceConsistent
  <2>2. CASE \E r \in Calls : RunnerKilled(r)
    BY <2>2, QuietStutters DEF RunnerKilled
  <2>3. CASE StateLost(plugin) \/ StateLost(ExitDrops)
    BY <2>3, StateLostLoses
  <2> QED
    BY <2>1, <2>2, <2>3, ServiceSteps
<1> QED
  BY <1>1, <1>2, SystemInvariant, PTL
     DEF SystemSpec, RefinesRestartingRegistry, Registry!RestartingSpec
================================================================================
