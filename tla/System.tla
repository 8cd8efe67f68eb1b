--------------------------------- MODULE System ---------------------------------
(***************************************************************************)
(* Runners, daemons and the coordinator service together. Each runner      *)
(* comes by a daemon as in CoordinatorStartup, takes one lease from the    *)
(* coordinator that daemon runs, heartbeats it and releases it, through    *)
(* the generated stubs. A daemon that dies takes the coordinator's maps    *)
(* and handlers with it; its plugins stay, unless it gets to drop them.    *)
(* A runner's channel dials the socket path anew for a call when its       *)
(* connection is gone, so a call may reach a later daemon than the one     *)
(* that granted the lease.                                                 *)
(*                                                                         *)
(* One daemon serves at a time, so there is one copy of the coordinator's  *)
(* state. A runner, its TakeLease call and the daemon it spawned share a   *)
(* name. The sockets are local: a call is lost only with one of its ends.  *)
(***************************************************************************)
EXTENDS Coordinator, Rpc

CONSTANTS
    MaxDeaths,  \* bound on the daemons that die
    Patient     \* runners in whose wait a daemon always gets to bind

VARIABLES
    at,         \* where each runner is in ensureCoordinatorRunning
    dpc,        \* where each daemon is in main
    lock,       \* daemon holding the lock file
    sock,       \* daemon that bound the socket file
    listening,  \* daemons whose listener is open
    died,       \* daemons that died (history)
    view,       \* where each runner is with its lease
    sent,       \* daemon each call of a runner's stubs went to, None: no call
    lease_id,   \* lease id in the TakeLeaseResponse, None until it is minted
    home,       \* daemon whose coordinator handled the TakeLease (history)
    killed,     \* daemons that died by a signal (history)
    gaveup      \* runners whose release got no answer in time (history)

Startup == INSTANCE CoordinatorStartup WITH Runners <- Calls, rpc <- at

daemons == <<at, dpc, lock, sock, listening, died>>
runners == <<view, sent, lease_id, home, killed, gaveup>>
allvars == <<vars, daemons, runners>>

Stubs == {"take_lease", "keepalive", "release_lease"}

SystemTypeOK ==
    /\ TypeOK
    /\ Startup!TypeOK
    /\ view \in [Calls -> {"starting", "calling", "holding", "releasing",
                           "done", "failed", "dead"}]
    /\ sent \in [Calls -> [Stubs -> Calls \cup {None}]]
    /\ lease_id \in [Calls -> Calls \cup {None}]
    /\ home \in [Calls -> Calls \cup {None}]
    /\ killed \in SUBSET died
    /\ gaveup \in SUBSET Calls

SystemInit ==
    /\ Init
    /\ Startup!Init
    /\ view = [r \in Calls |-> "starting"]
    /\ sent = [r \in Calls |-> [s \in Stubs |-> None]]
    /\ lease_id = [r \in Calls |-> None]
    /\ home = [r \in Calls |-> None]
    /\ killed = {}
    /\ gaveup = {}

--------------------------------------------------------------------------------
\* The runner's stubs.

\* The channel is ready and the request is on its way to the daemon.
Send(r, stub) ==
    /\ sent[r][stub] = None
    /\ Startup!SocketAccepts
    /\ sent' = [sent EXCEPT ![r][stub] = sock]

CallTakeLease(r) ==
    /\ at[r] = "ready" /\ view[r] = "starting"
    /\ Send(r, "take_lease")
    /\ view' = [view EXCEPT ![r] = "calling"]
    /\ UNCHANGED <<vars, daemons, lease_id, home, killed, gaveup>>

\* A heartbeat; its answer is ignored.
CallKeepalive(r) ==
    /\ view[r] = "holding"
    /\ Send(r, "keepalive")
    /\ UNCHANGED <<vars, daemons, view, lease_id, home, killed, gaveup>>

\* releaseLease stops the heartbeats and makes its one call.
CallReleaseLease(r) ==
    /\ view[r] = "holding"
    /\ Send(r, "release_lease")
    /\ view' = [view EXCEPT ![r] = "releasing"]
    /\ UNCHANGED <<vars, daemons, lease_id, home, killed, gaveup>>

\* The call fails at once: nobody accepts at the socket path. The runner fails,
\* or ends without having released.
NotReady(r) ==
    /\ ~Startup!SocketAccepts
    /\ \/ /\ at[r] = "ready" /\ view[r] = "starting"
          /\ view' = [view EXCEPT ![r] = "failed"]
       \/ /\ view[r] = "holding"
          /\ view' = [view EXCEPT ![r] = "done"]
    /\ UNCHANGED <<vars, daemons, sent, lease_id, home, killed, gaveup>>

\* The call ends without an answer when its daemon is dead.
Broken(r, stub) == sent[r][stub] # None /\ dpc[sent[r][stub]] # "serving"

\* TakeLease returns: an answer that was written is still read from a dead
\* daemon's connection, or is lost with it.
TakeLeaseReturns(r) ==
    /\ sent[r].take_lease # None
    /\ \/ granted[r] # None /\ view' = [view EXCEPT ![r] = "holding"]
       \/ /\ pc[r] \in {"failed", "abandoned"} \/ Broken(r, "take_lease")
          /\ view' = [view EXCEPT ![r] = "failed"]
    /\ sent' = [sent EXCEPT ![r].take_lease = None]
    /\ UNCHANGED <<vars, daemons, lease_id, home, killed, gaveup>>

KeepaliveBroken(r) ==
    /\ Broken(r, "keepalive")
    /\ sent' = [sent EXCEPT ![r].keepalive = None]
    /\ UNCHANGED <<vars, daemons, view, lease_id, home, killed, gaveup>>

\* ReleaseLease was answered, broke off, or has had its five seconds.
ReleaseReturns(r) ==
    /\ view[r] = "releasing"
    /\ view' = [view EXCEPT ![r] = "done"]
    /\ \/ sent[r].release_lease = None /\ UNCHANGED <<sent, gaveup>>
       \/ /\ Broken(r, "release_lease")
          /\ sent' = [sent EXCEPT ![r].release_lease = None]
          /\ UNCHANGED gaveup
       \/ /\ sent[r].release_lease # None
          /\ gaveup' = gaveup \cup {r}
          /\ UNCHANGED sent
    /\ UNCHANGED <<vars, daemons, lease_id, home, killed>>

\* The runner is killed; its connection closes with what it has not delivered.
RunnerKilled(r) ==
    /\ view[r] \in {"calling", "holding", "releasing"}
    /\ view' = [view EXCEPT ![r] = "dead"]
    /\ sent' = [sent EXCEPT ![r] = [s \in Stubs |-> None]]
    /\ gone' = [gone EXCEPT ![r] = TRUE]
    /\ UNCHANGED <<fixtures, leases, pc, client, fp, plugin, granted>>
    /\ UNCHANGED <<daemons, lease_id, home, killed, gaveup>>

--------------------------------------------------------------------------------
\* The server.

\* The stub's request reaches the method its path is routed to.
Dispatched(r, stub, method) ==
    /\ sent[r][stub] # None /\ dpc[sent[r][stub]] = "serving"
    /\ Handler(CoordinatorServiceClient, CoordinatorServiceServer, stub) = method

\* Fault: ids are only distinct among the leases there are.
LeaseId_reused(r) ==
    CHOOSE e \in Calls : \A l \in Calls : leases[l] # None => lease_id[l] # e

\* LeaseId::random: a UUID, not used by any daemon before.
LeaseId_random(r) == r

\* TakeLease up to its first await, or its answer.
HandleTakeLease(r) ==
    /\ Dispatched(r, "take_lease", "take_lease")
    /\ home' = [home EXCEPT ![r] = sent[r].take_lease]
    /\ \/ /\ \E c \in Clients, f \in Fingerprints : TakeLeaseAttach(r, c, f)
          /\ lease_id' = [lease_id EXCEPT ![r] = LeaseId_random(r)]
       \/ /\ \/ TakeLeaseRejected(r)
             \/ \E c \in Clients, f \in Fingerprints : TakeLeaseMiss(r, c, f)
          /\ UNCHANGED lease_id
    /\ UNCHANGED <<daemons, view, sent, killed, gaveup>>

\* TakeLease after the plugin has answered.
HandlePublish(r) ==
    /\ Publish(r)
    /\ lease_id' = [lease_id EXCEPT ![r] = LeaseId_random(r)]
    /\ UNCHANGED <<daemons, view, sent, home, killed, gaveup>>

\* Keepalive looks the lease up; the answer makes no difference to the runner.
HandleKeepalive(r, stub) ==
    /\ Dispatched(r, stub, "keepalive")
    /\ sent' = [sent EXCEPT ![r][stub] = None]
    /\ UNCHANGED <<vars, daemons, view, lease_id, home, killed, gaveup>>

\* ReleaseLease of the lease with the id in the request, if there is one.
HandleRelease(r, stub) ==
    /\ Dispatched(r, stub, "release_lease")
    /\ LET found == {l \in Calls : leases[l] # None /\ lease_id[l] = lease_id[r]}
       IN  IF found = {} THEN UNCHANGED vars
           ELSE \E l \in found : ReleaseLease(l)
    /\ sent' = [sent EXCEPT ![r][stub] = None]
    /\ UNCHANGED <<daemons, view, lease_id, home, killed, gaveup>>

\* Handlers between awaits, cancellation, and the plugin processes.
Provisioning(r) ==
    /\ \/ SpawnPlugin(r) \/ SpawnFailed(r)
       \/ Connected(r) \/ ConnectFailed(r)
       \/ Described(r) \/ Created(r) \/ ProvisionFailed(r)
       \/ Cancel(r)
       \/ PluginServes(r) \/ PluginExits(r)
    /\ UNCHANGED <<daemons, runners>>

--------------------------------------------------------------------------------
\* Daemons.

\* Plugins of connected handlers and of records are owned by a PluginProcess.
Owned(i) ==
    \/ pc[i] \in {"describing", "creating", "created"}
    \/ fp[i] # None /\ fixtures[fp[i]] # None /\ fixtures[fp[i]].plugin = i

\* Fault: the records are dropped, and the handlers are left where they are.
ExitDropsRecords ==
    [i \in Calls |-> IF /\ fp[i] # None /\ fixtures[fp[i]] # None
                       /\ fixtures[fp[i]].plugin = i /\ plugin[i] \in Running
                    THEN "killed" ELSE plugin[i]]

\* main returns: records and handlers are dropped, and their plugins killed.
ExitDrops ==
    [i \in Calls |-> IF Owned(i) /\ plugin[i] \in Running THEN "killed" ELSE plugin[i]]

\* What becomes of a handler when its daemon ends: it leaves a Child behind only
\* if it was still connecting.
Ended(r) ==
    CASE pc[r] = "connecting" -> "abandoned"
      [] pc[r] \in InFlight \ {"connecting"} -> "failed"
      [] OTHER -> pc[r]

\* Fault: a restarted coordinator finds the fixtures of the one before, with
\* all their slots free.
StateRestored(plugins) ==
    /\ fixtures' = [f \in Fingerprints |-> IF fixtures[f] = None THEN None
                                           ELSE [fixtures[f] EXCEPT !.used_slots = 0]]
    /\ leases' = [l \in Calls |-> None]
    /\ pc' = [r \in Calls |-> Ended(r)]
    /\ plugin' = plugins
    /\ UNCHANGED <<client, fp, granted, gone>>

\* The coordinator's state ends with its process.
StateLost(plugins) ==
    /\ fixtures' = [f \in Fingerprints |-> None]
    /\ leases' = [l \in Calls |-> None]
    /\ pc' = [r \in Calls |-> Ended(r)]
    /\ plugin' = plugins
    /\ UNCHANGED <<client, fp, granted, gone>>

\* A signal ends the daemon: no destructor runs, and plugins go on.
DaemonKilled(d) ==
    /\ Startup!Die(d)
    /\ IF dpc[d] = "serving" THEN StateLost(plugin) ELSE UNCHANGED vars
    /\ killed' = killed \cup {d}
    /\ UNCHANGED <<view, sent, lease_id, home, gaveup>>

\* The server fails and main returns the error.
DaemonExits(d) ==
    /\ dpc[d] = "serving"
    /\ Startup!Die(d)
    /\ StateLost(ExitDrops)
    /\ UNCHANGED runners

StartingUp(r) ==
    /\ \/ Startup!Probe(r) \/ Startup!SpawnCoordinator(r) \/ Startup!EnsureFails(r)
       \/ Startup!Poll(r) \/ Startup!WaitTimesOut(r)
       \/ Startup!LockInstance(r) \/ Startup!RemoveSocket(r) \/ Startup!Bind(r)
       \/ Startup!CloseListener(r) \/ Startup!DropLock(r)
    /\ UNCHANGED <<vars, runners>>

SystemNext == \E r \in Calls :
    \/ StartingUp(r)
    \/ CallTakeLease(r) \/ CallKeepalive(r) \/ CallReleaseLease(r) \/ NotReady(r)
    \/ TakeLeaseReturns(r) \/ KeepaliveBroken(r) \/ ReleaseReturns(r)
    \/ RunnerKilled(r)
    \/ HandleTakeLease(r) \/ HandlePublish(r)
    \/ \E stub \in Stubs : HandleKeepalive(r, stub) \/ HandleRelease(r, stub)
    \/ Provisioning(r)
    \/ DaemonKilled(r) \/ DaemonExits(r)

SystemSpec == SystemInit /\ [][SystemNext]_allvars

--------------------------------------------------------------------------------
\* Properties.

(***************************************************************************)
(* A runner that holds a lease while the daemon that granted it serves can *)
(* rely on it: the coordinator knows the lease, whatever heartbeats,       *)
(* releases of other runners and restarts have happened.                   *)
(***************************************************************************)
HolderIsKnown == \A r \in Calls :
    view[r] = "holding" /\ dpc[home[r]] = "serving" =>
        leases[r] = fp[r] /\ granted[r] # None

(***************************************************************************)
(* No lease is lost track of: a lease in the table is on its way to its    *)
(* runner, held, or about to be released, unless that runner died or gave  *)
(* up waiting for the answer to its release.                               *)
(***************************************************************************)
NoLeaseWithoutHolder == \A l \in Calls : leases[l] # None =>
    \/ view[l] \in {"calling", "holding", "releasing", "dead"}
    \/ l \in gaveup

(***************************************************************************)
(* Drop for PluginProcess over the life of a daemon: a plugin that runs    *)
(* without a handler or a record was abandoned while connecting, or its    *)
(* daemon was killed by a signal. A daemon whose main returns leaves only  *)
(* children it was still connecting to, and kills the plugins of handlers  *)
(* it was connected to and of records.                                     *)
(***************************************************************************)
OrphanedOnlyByKill == \A i \in Calls : plugin[i] \in Running =>
    \/ pc[i] \in InFlight
    \/ Owned(i)
    \/ pc[i] = "abandoned"
    \/ home[i] \in killed

(***************************************************************************)
(* Daemons that die and come back, calls that reach another daemon than    *)
(* the one that granted the lease, and releases that arrive late implement *)
(* a lease registry that forgets at a restart, and only then: leases end   *)
(* one by one by a release or together with their daemon, an instance of a *)
(* dead daemon is never offered again, and the scope of a fixture is       *)
(* respected across restarts.                                              *)
(***************************************************************************)
RefinesRestartingRegistry == Registry!RestartingSpec

--------------------------------------------------------------------------------
\* The inductive invariant behind the properties.

\* One daemon at a time is past lock_instance, and a server has its socket.
DaemonsConsistent ==
    /\ Startup!TypeOK
    /\ Startup!ServerOwnsSocket
    /\ \A d \in Calls :
        /\ dpc[d] \in Startup!Owning => lock = d
        /\ at[d] \in {"probing", "spawning"} => dpc[d] = "none"
        /\ d \in listening => dpc[d] \in {"serving", "dying"}

\* What is left of the coordinator's invariant when daemons may die.
ServiceConsistent ==
    /\ TypeOK
    /\ CallsConsistent
    /\ CacheConsistent
    /\ \A r \in Calls : pc[r] \in {"idle", "spawning"} => plugin[r] = "none"

\* What the coordinator has is of the daemon that serves.
StateIsHome ==
    /\ \A r \in Calls :
        /\ pc[r] = "idle" <=> home[r] = None
        /\ home[r] # None => dpc[home[r]] \in {"serving", "dying"}
        /\ pc[r] \in InFlight \/ leases[r] # None => dpc[home[r]] = "serving"
    /\ \A f \in Fingerprints :
           fixtures[f] # None => dpc[home[fixtures[f].plugin]] = "serving"

\* What a runner's progress says of its calls, its lease and its daemon.
RunnersConsistent == \A r \in Calls :
    /\ \A s \in Stubs : sent[r][s] # None => dpc[sent[r][s]] \in {"serving", "dying"}
    /\ sent[r].take_lease # None <=> view[r] = "calling"
    /\ view[r] = "calling" => home[r] \in {None, sent[r].take_lease}
    /\ sent[r].release_lease # None => view[r] \in {"releasing", "done"}
    /\ pc[r] \in InFlight => view[r] \in {"calling", "dead"}
    /\ granted[r] # None => lease_id[r] = r
    /\ view[r] = "starting" => home[r] = None
    /\ gone[r] => view[r] = "dead"
    /\ view[r] \in {"holding", "releasing"} => granted[r] # None
    /\ sent[r].release_lease # None => granted[r] # None
    /\ granted[r] # None /\ view[r] \in {"calling", "holding"}
           /\ dpc[home[r]] = "serving" => leases[r] = fp[r]
    /\ view[r] = "releasing" /\ leases[r] # None => sent[r].release_lease = home[r]

(***************************************************************************)
(* Inductive invariant of the whole system.                                *)
(***************************************************************************)
SystemIInv ==
    /\ SystemTypeOK
    /\ DaemonsConsistent
    /\ ServiceConsistent
    /\ StateIsHome
    /\ RunnersConsistent
    /\ NoLeaseWithoutHolder
    /\ OrphanedOnlyByKill
================================================================================
