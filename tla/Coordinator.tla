------------------------------ MODULE Coordinator ------------------------------
(***************************************************************************)
(* The in-memory CoordinatorService (src/coordinator/src/coordinator.rs)   *)
(* with the plugin processes it spawns (plugin_client.rs).                 *)
(*                                                                         *)
(* A TakeLease call is a handler that runs concurrently with the others.   *)
(* It holds the state mutex twice, once to look for a fixture to attach to *)
(* and once to publish the fixture it provisioned, and awaits the plugin   *)
(* in between. Each action below is what a handler does between two points *)
(* where another handler, a plugin or a client can act.                    *)
(*                                                                         *)
(* Lease ids, fixture ids and plugin socket names are UUIDs minted by the  *)
(* call; they are assumed unique, and a call mints at most one of each, so *)
(* the call names its lease, its fixture instance and its plugin process.  *)
(* The outputs of a fixture are named by the instance that produced them.  *)
(***************************************************************************)
EXTENDS Integers, FiniteSets

CONSTANTS
    Calls,         \* TakeLease calls, each made once
    Clients,       \* client_ids of the callers
    Fingerprints,  \* identities of the fixture descriptions called with
    DescSharing,   \* [Fingerprints -> desc.sharing, None when it is absent]
    None

UseScope == {"unrestricted", "client_restricted", "single_use", "unset"}
Sharing == [use_scope : UseScope, maximum_concurrent_connections : Int]

ASSUME SharingAssumption == DescSharing \in [Fingerprints -> Sharing \cup {None}]
ASSUME CallsAssumption == IsFiniteSet(Calls)

VARIABLES
    fixtures,  \* State.fixtures: fingerprint -> FixtureRecord, or None
    leases,    \* State.leases: lease -> fingerprint of its LeaseRecord, or None
    pc,        \* where each TakeLease handler is
    client,    \* client_id the call was made with
    fp,        \* fingerprint of the description the call was made with
    plugin,    \* the plugin process each call spawned
    granted,   \* instance whose outputs the TakeLeaseResponse carried, or None
    gone       \* whether the caller has disconnected without more calls to come

vars == <<fixtures, leases, pc, client, fp, plugin, granted, gone>>

--------------------------------------------------------------------------------
\* Data types.

FixtureRecord ==
    [sharing : Sharing, creating_client_id : Clients, used_slots : Nat,
     plugin : Calls]

\* None stands for Option::None, an absent map entry or an unset argument.
ASSUME NoneAssumption ==
    None \notin Calls \cup Clients \cup Fingerprints \cup FixtureRecord

InFlight == {"spawning", "connecting", "describing", "creating", "created"}
Terminal == {"succeeded", "failed", "abandoned"}
PluginState == {"none", "starting", "up", "killed", "exited"}
Running == {"starting", "up"}

TypeOK ==
    /\ fixtures \in [Fingerprints -> FixtureRecord \cup {None}]
    /\ leases \in [Calls -> Fingerprints \cup {None}]
    /\ pc \in [Calls -> {"idle"} \cup InFlight \cup Terminal]
    /\ client \in [Calls -> Clients \cup {None}]
    /\ fp \in [Calls -> Fingerprints \cup {None}]
    /\ plugin \in [Calls -> PluginState]
    /\ granted \in [Calls -> Calls \cup {None}]
    /\ gone \in [Calls -> BOOLEAN]

--------------------------------------------------------------------------------
\* Sharing policy.

\* Fault: a client_restricted fixture is handed to any client.
sharing_admits_any(sharing, creator, requester) ==
    sharing.use_scope # "single_use"

\* Whether `sharing` admits reuse.
sharing_admits(sharing, creator, requester) ==
    \/ sharing.use_scope = "unrestricted"
    \/ sharing.use_scope \in {"client_restricted", "unset"} /\ creator = requester

max_slots(sharing) ==
    IF sharing.maximum_concurrent_connections > 1
    THEN sharing.maximum_concurrent_connections ELSE 1

\* A description without a sharing policy is private to its creator, one slot.
SharingOf(f) ==
    IF DescSharing[f] = None
    THEN [use_scope |-> "client_restricted", maximum_concurrent_connections |-> 1]
    ELSE DescSharing[f]

CanAttach(c, f) ==
    /\ fixtures[f] # None
    /\ sharing_admits(fixtures[f].sharing, fixtures[f].creating_client_id, c)
    /\ fixtures[f].used_slots < max_slots(fixtures[f].sharing)

--------------------------------------------------------------------------------
\* Plugin processes. Dropping a PluginProcess sends SIGKILL; a child that has
\* already exited is unaffected.

\* Fault: dropping the PluginProcess leaves the child running.
DropLeavesRunning(i) == plugin

DropPlugin(i) ==
    [plugin EXCEPT ![i] = IF @ \in Running THEN "killed" ELSE @]

Init ==
    /\ fixtures = [f \in Fingerprints |-> None]
    /\ leases = [l \in Calls |-> None]
    /\ pc = [r \in Calls |-> "idle"]
    /\ client = [r \in Calls |-> None]
    /\ fp = [r \in Calls |-> None]
    /\ plugin = [r \in Calls |-> "none"]
    /\ granted = [r \in Calls |-> None]
    /\ gone = [r \in Calls |-> FALSE]

--------------------------------------------------------------------------------
\* TakeLease.

\* No fixture, no plugin, a container_ref plugin, or an unreadable plugin
\* binary: the call returns before it looks at any state.
TakeLeaseRejected(r) ==
    /\ pc[r] = "idle"
    /\ pc' = [pc EXCEPT ![r] = "failed"]
    /\ UNCHANGED <<fixtures, leases, client, fp, plugin, granted, gone>>

\* First critical section, a fixture to attach to was found.
TakeLeaseAttach(r, c, f) ==
    /\ pc[r] = "idle"
    /\ CanAttach(c, f)
    /\ fixtures' = [fixtures EXCEPT ![f].used_slots = @ + 1]
    /\ leases' = [leases EXCEPT ![r] = f]
    /\ granted' = [granted EXCEPT ![r] = fixtures[f].plugin]
    /\ pc' = [pc EXCEPT ![r] = "succeeded"]
    /\ client' = [client EXCEPT ![r] = c]
    /\ fp' = [fp EXCEPT ![r] = f]
    /\ UNCHANGED <<plugin, gone>>

\* First critical section, nothing to attach to: the lock is dropped before
\* the (possibly slow) provisioning.
TakeLeaseMiss(r, c, f) ==
    /\ pc[r] = "idle"
    /\ ~CanAttach(c, f)
    /\ pc' = [pc EXCEPT ![r] = "spawning"]
    /\ client' = [client EXCEPT ![r] = c]
    /\ fp' = [fp EXCEPT ![r] = f]
    /\ UNCHANGED <<fixtures, leases, plugin, granted, gone>>

SpawnPlugin(r) ==
    /\ pc[r] = "spawning"
    /\ pc' = [pc EXCEPT ![r] = "connecting"]
    /\ plugin' = [plugin EXCEPT ![r] = "starting"]
    /\ UNCHANGED <<fixtures, leases, client, fp, granted, gone>>

\* The socket directory cannot be made or the binary cannot be executed.
SpawnFailed(r) ==
    /\ pc[r] = "spawning"
    /\ pc' = [pc EXCEPT ![r] = "failed"]
    /\ UNCHANGED <<fixtures, leases, client, fp, plugin, granted, gone>>

Connected(r) ==
    /\ pc[r] = "connecting"
    /\ plugin[r] = "up"
    /\ pc' = [pc EXCEPT ![r] = "describing"]
    /\ UNCHANGED <<fixtures, leases, client, fp, plugin, granted, gone>>

\* connect_with_retry gives up: the child exited, or the startup timeout passed
\* at a failed attempt. No PluginProcess exists yet: the Child is dropped, and
\* dropping a Child does not kill it.
ConnectFailed(r) ==
    /\ pc[r] = "connecting"
    /\ pc' = [pc EXCEPT ![r] = "abandoned"]
    /\ UNCHANGED <<fixtures, leases, client, fp, plugin, granted, gone>>

\* DescribePlugin answered. Here and below, what a plugin wrote before it
\* exited may still be read.
Described(r) ==
    /\ pc[r] = "describing"
    /\ plugin[r] \in {"up", "exited"}
    /\ pc' = [pc EXCEPT ![r] = "creating"]
    /\ UNCHANGED <<fixtures, leases, client, fp, plugin, granted, gone>>

\* The CreateFixture stream delivered CREATE_PROGRESS_SUCCEEDED with a result.
\* The handler awaits nothing more.
Created(r) ==
    /\ pc[r] = "creating"
    /\ plugin[r] \in {"up", "exited"}
    /\ pc' = [pc EXCEPT ![r] = "created"]
    /\ UNCHANGED <<fixtures, leases, client, fp, plugin, granted, gone>>

\* DescribePlugin failed; or CreateFixture failed, reported
\* CREATE_PROGRESS_ERROR, succeeded without a result, or closed its stream.
\* The PluginProcess is dropped on the way out.
ProvisionFailed(r) ==
    /\ pc[r] \in {"describing", "creating"}
    /\ pc' = [pc EXCEPT ![r] = "failed"]
    /\ plugin' = DropPlugin(r)
    /\ UNCHANGED <<fixtures, leases, client, fp, granted, gone>>

\* Fault: entry().or_insert: the record of another call stays, the new one and
\* its plugin are dropped.
PublishIfVacant(r) ==
    /\ pc[r] = "created"
    /\ fixtures' = [fixtures EXCEPT ![fp[r]] = IF @ # None THEN @ ELSE
           [sharing |-> SharingOf(fp[r]), creating_client_id |-> client[r],
            used_slots |-> 1, plugin |-> r]]
    /\ plugin' = IF fixtures[fp[r]] = None THEN plugin ELSE DropPlugin(r)
    /\ leases' = [leases EXCEPT ![r] = fp[r]]
    /\ granted' = [granted EXCEPT ![r] = r]
    /\ pc' = [pc EXCEPT ![r] = "succeeded"]
    /\ UNCHANGED <<client, fp, gone>>

\* Fault: the record is not inserted, and dropped when the handler returns.
PublishUncached(r) ==
    /\ pc[r] = "created"
    /\ plugin' = DropPlugin(r)
    /\ leases' = [leases EXCEPT ![r] = fp[r]]
    /\ granted' = [granted EXCEPT ![r] = r]
    /\ pc' = [pc EXCEPT ![r] = "succeeded"]
    /\ UNCHANGED <<fixtures, client, fp, gone>>

\* Fault: the handler waits for the fingerprint to be free before it publishes.
PublishWhenVacant(r) ==
    /\ pc[r] = "created" /\ fixtures[fp[r]] = None
    /\ fixtures' = [fixtures EXCEPT ![fp[r]] =
           [sharing |-> SharingOf(fp[r]), creating_client_id |-> client[r],
            used_slots |-> 1, plugin |-> r]]
    /\ leases' = [leases EXCEPT ![r] = fp[r]]
    /\ granted' = [granted EXCEPT ![r] = r]
    /\ pc' = [pc EXCEPT ![r] = "succeeded"]
    /\ UNCHANGED <<plugin, client, fp, gone>>

\* Fault: the record of a fixture without a sharing policy gets a second slot.
PublishRoomier(r) ==
    /\ pc[r] = "created"
    /\ fixtures' = [fixtures EXCEPT ![fp[r]] =
           [sharing |-> IF DescSharing[fp[r]] # None THEN DescSharing[fp[r]]
                        ELSE [use_scope |-> "client_restricted",
                              maximum_concurrent_connections |-> 2],
            creating_client_id |-> client[r], used_slots |-> 1, plugin |-> r]]
    /\ plugin' = IF fixtures[fp[r]] = None THEN plugin
                 ELSE DropPlugin(fixtures[fp[r]].plugin)
    /\ leases' = [leases EXCEPT ![r] = fp[r]]
    /\ granted' = [granted EXCEPT ![r] = r]
    /\ pc' = [pc EXCEPT ![r] = "succeeded"]
    /\ UNCHANGED <<client, fp, gone>>

\* Second critical section. HashMap::insert replaces whatever record the
\* fingerprint has by now; the replaced record is dropped, and its plugin with it.
Publish(r) ==
    /\ pc[r] = "created"
    /\ fixtures' = [fixtures EXCEPT ![fp[r]] =
           [sharing |-> SharingOf(fp[r]), creating_client_id |-> client[r],
            used_slots |-> 1, plugin |-> r]]
    /\ plugin' = IF fixtures[fp[r]] = None THEN plugin
                 ELSE DropPlugin(fixtures[fp[r]].plugin)
    /\ leases' = [leases EXCEPT ![r] = fp[r]]
    /\ granted' = [granted EXCEPT ![r] = r]
    /\ pc' = [pc EXCEPT ![r] = "succeeded"]
    /\ UNCHANGED <<client, fp, gone>>

--------------------------------------------------------------------------------
\* ReleaseLease and Status. Keepalive only looks a lease up.

\* Fault: a release does not return the slot.
SlotsAfterReleaseLeak(n) == n

\* Fault: a release frees all slots of the fixture.
SlotsAfterReleaseReset(n) == 0

\* Fault: the count is not kept from going below zero.
SlotsAfterReleaseUnclamped(n) == n - 1

SlotsAfterRelease(n) == IF n - 1 > 0 THEN n - 1 ELSE 0

\* Fault: the last release kills the plugin and leaves the record in the map.
ReleaseLeaseKills(l) ==
    /\ granted[l] # None /\ ~gone[l]
    /\ leases[l] # None
    /\ leases' = [leases EXCEPT ![l] = None]
    /\ fixtures' = [fixtures EXCEPT ![leases[l]].used_slots = SlotsAfterRelease(@)]
    /\ plugin' = IF fixtures[leases[l]].used_slots <= 1
                 THEN DropPlugin(fixtures[leases[l]].plugin) ELSE plugin
    /\ UNCHANGED <<pc, client, fp, granted, gone>>

\* A caller releases a lease it was granted; a repeated release finds nothing
\* to remove. The slot goes back to the record the fingerprint has now.
ReleaseLease(l) ==
    /\ granted[l] # None /\ ~gone[l]
    /\ leases' = [leases EXCEPT ![l] = None]
    /\ fixtures' = IF leases[l] = None \/ fixtures[leases[l]] = None THEN fixtures
           ELSE [fixtures EXCEPT ![leases[l]].used_slots = SlotsAfterRelease(@)]
    /\ UNCHANGED <<pc, client, fp, plugin, granted, gone>>

\* The instance whose outputs Status(l) reports; None is an empty output map.
StatusOutputs(l) ==
    IF fixtures[leases[l]] = None THEN None ELSE fixtures[leases[l]].plugin

--------------------------------------------------------------------------------
\* Callers and plugins.

\* The caller is killed or its connection breaks, while it waits for an answer
\* or holds a lease. Afterwards it makes no difference to the coordinator.
ClientGone(r) ==
    /\ ~gone[r]
    /\ pc[r] \in InFlight \/ leases[r] # None
    /\ gone' = [gone EXCEPT ![r] = TRUE]
    /\ UNCHANGED <<fixtures, leases, pc, client, fp, plugin, granted>>

\* The server drops the handler of a caller that went away, at an await. Before
\* the plugin is connected the handler owns a Child, afterwards a PluginProcess.
Cancel(r) ==
    /\ gone[r]
    /\ \/ /\ pc[r] = "connecting"
          /\ pc' = [pc EXCEPT ![r] = "abandoned"]
          /\ UNCHANGED plugin
       \/ /\ pc[r] \in {"describing", "creating"}
          /\ pc' = [pc EXCEPT ![r] = "failed"]
          /\ plugin' = DropPlugin(r)
    /\ UNCHANGED <<fixtures, leases, client, fp, granted, gone>>

\* The plugin binds its socket and serves.
PluginServes(r) ==
    /\ plugin[r] = "starting"
    /\ plugin' = [plugin EXCEPT ![r] = "up"]
    /\ UNCHANGED <<fixtures, leases, pc, client, fp, granted, gone>>

\* The plugin process ends by itself.
PluginExits(r) ==
    /\ plugin[r] \in Running
    /\ plugin' = [plugin EXCEPT ![r] = "exited"]
    /\ UNCHANGED <<fixtures, leases, pc, client, fp, granted, gone>>

Next == \E r \in Calls :
    \/ TakeLeaseRejected(r)
    \/ \E c \in Clients, f \in Fingerprints :
           TakeLeaseAttach(r, c, f) \/ TakeLeaseMiss(r, c, f)
    \/ SpawnPlugin(r) \/ SpawnFailed(r)
    \/ Connected(r) \/ ConnectFailed(r)
    \/ Described(r) \/ Created(r) \/ ProvisionFailed(r)
    \/ Publish(r)
    \/ ReleaseLease(r)
    \/ ClientGone(r) \/ Cancel(r)
    \/ PluginServes(r) \/ PluginExits(r)

Spec == Init /\ [][Next]_vars

(***************************************************************************)
(* The runtime keeps polling handlers that can run: spawning and           *)
(* publishing are never postponed for ever, connect_with_retry retries     *)
(* until its deadline, an RPC to a plugin that has exited fails, and the   *)
(* server notices a closed stream. Nothing obliges a running plugin to     *)
(* answer or a caller to call.                                             *)
(***************************************************************************)
Fairness == \A r \in Calls :
    /\ WF_vars(SpawnPlugin(r) \/ SpawnFailed(r))
    /\ WF_vars(Connected(r) \/ ConnectFailed(r))
    /\ WF_vars(plugin[r] = "exited" /\ ProvisionFailed(r))
    /\ WF_vars(Publish(r))
    /\ WF_vars(Cancel(r))

FairSpec == Spec /\ Fairness

--------------------------------------------------------------------------------
\* Properties.

\* Leases routed to the fixture with this fingerprint.
Holders(f) == {l \in Calls : leases[l] = f}

\* Leases that share the instance i.
Sharers(i) == {l \in Calls : leases[l] # None /\ granted[l] = i}

\* Two instances have been published under f, so the later replaced the other.
Displaced(f) == \E i, j \in Calls :
    i # j /\ granted[i] = i /\ granted[j] = j /\ fp[i] = f /\ fp[j] = f

(***************************************************************************)
(* Slot accounting, used_slots against the lease table: a record never has *)
(* more slots taken than its policy allows, nor more than there are leases *)
(* that will give them back. Otherwise a slot would be lost for ever.      *)
(***************************************************************************)
SlotsBackedByLeases == \A f \in Fingerprints : fixtures[f] # None =>
    /\ fixtures[f].used_slots \in 0 .. max_slots(fixtures[f].sharing)
    /\ fixtures[f].used_slots <= Cardinality(Holders(f))

(***************************************************************************)
(* As long as Publish has not replaced a record of the fingerprint,        *)
(* used_slots is exactly the number of leases that share the fixture.      *)
(***************************************************************************)
SlotsExactUntilDisplaced == \A f \in Fingerprints :
    fixtures[f] # None /\ ~Displaced(f) =>
        fixtures[f].used_slots = Cardinality(Holders(f))

(***************************************************************************)
(* sharing_admits, over whole histories: outputs of an instance only ever  *)
(* reach the call that provisioned it, and calls the scope admits. In      *)
(* particular a single_use instance serves one lease, and a                *)
(* client_restricted one its creator, however records were replaced.       *)
(***************************************************************************)
ScopeRespected == \A l \in Calls : granted[l] # None /\ granted[l] # l =>
    /\ fp[granted[l]] = fp[l]
    /\ SharingOf(fp[l]).use_scope # "single_use"
    /\ SharingOf(fp[l]).use_scope = "unrestricted" \/ client[granted[l]] = client[l]

(***************************************************************************)
(* Drop for PluginProcess: whatever is replaced, cancelled or failed, the  *)
(* coordinator never kills a plugin whose record callers can attach to.    *)
(***************************************************************************)
CacheNeverKilled == \A f \in Fingerprints : fixtures[f] # None =>
    plugin[fixtures[f].plugin] # "killed"

(***************************************************************************)
(* PluginProcess ownership: once the coordinator is connected to a plugin, *)
(* that process runs only while its call is in flight or its record is in  *)
(* the map. Only a child abandoned while connecting can outlive both.      *)
(***************************************************************************)
ConnectedPluginIsOwned == \A i \in Calls : plugin[i] \in Running =>
    \/ pc[i] \in InFlight \cup {"abandoned"}
    \/ fixtures[fp[i]] # None /\ fixtures[fp[i]].plugin = i

(***************************************************************************)
(* Status never has to fall back on an empty output map: the fingerprint   *)
(* of an active lease always has a record, also when the record that the   *)
(* lease was granted on has been replaced and its slots are all free.      *)
(***************************************************************************)
LeaseAlwaysRoutes == \A l \in Calls : leases[l] # None => StatusOutputs(l) # None

(***************************************************************************)
(* What is promised of slots, plugins and routing holds of an instance as  *)
(* long as Publish has not replaced a record of its fingerprint: no more   *)
(* leases share it than it has slots, the coordinator does not kill its    *)
(* plugin, and Status routes each of its leases back to it. A replacement  *)
(* follows a miss: of two calls that found no record, or of a later call   *)
(* that found one that is full, single_use or another client's.            *)
(***************************************************************************)
PromisesKeptUntilDisplaced == \A i \in Calls :
    granted[i] = i /\ ~Displaced(fp[i]) =>
        /\ Cardinality(Sharers(i)) <= max_slots(SharingOf(fp[i]))
        /\ plugin[i] # "killed"
        /\ \A l \in Sharers(i) : StatusOutputs(l) = i

(***************************************************************************)
(* The handlers, the lock and the cancellations implement LeaseRegistry.   *)
(***************************************************************************)
Registry == INSTANCE LeaseRegistry WITH
    Scope <- [f \in Fingerprints |->
                 IF SharingOf(f).use_scope = "unset" THEN "client_restricted"
                 ELSE SharingOf(f).use_scope],
    offered <- [f \in Fingerprints |->
                   IF fixtures[f] = None THEN None ELSE fixtures[f].plugin],
    claim <- granted,
    owner <- [l \in Calls |-> IF granted[l] = None THEN None ELSE client[l]],
    active <- {l \in Calls : leases[l] # None}

RefinesLeaseRegistry == Registry!Spec

(***************************************************************************)
(* A call whose caller disconnected ends: no handler, and no plugin it     *)
(* still owns, is kept for a caller that is not there.                     *)
(***************************************************************************)
GoneCallEnds == \A r \in Calls : gone[r] ~> pc[r] \in Terminal

--------------------------------------------------------------------------------
\* What the documentation says of the coordinator, and the code does not do.

(***************************************************************************)
(* "slots": maximum_concurrent_connections bounds how many leases share a  *)
(* fixture at once (DESIGN.md, Reuse, sharing, and slots).                 *)
(***************************************************************************)
InstanceWithinSlots == \A i \in Calls : granted[i] = i =>
    Cardinality(Sharers(i)) <= max_slots(SharingOf(fp[i]))

(***************************************************************************)
(* A lease is a claim on a fixture for the duration of a test, and a       *)
(* plugin is kept alive as long as it is referenced (DESIGN.md): the       *)
(* coordinator does not kill the plugin of a lease that is still active.   *)
(***************************************************************************)
LeaseKeepsItsPlugin == \A l \in Calls :
    leases[l] # None => plugin[granted[l]] # "killed"

(***************************************************************************)
(* "the coordinator will eventually GC an unreleased lease" (lease.go).    *)
(***************************************************************************)
UnreleasedLeaseCollected == \A l \in Calls :
    gone[l] /\ leases[l] # None ~> leases[l] = None

--------------------------------------------------------------------------------
\* The inductive invariant behind the safety properties.

\* What a handler's position says of the call's arguments, lease and grant.
CallsConsistent == \A r \in Calls :
    /\ pc[r] \in InFlight \cup {"succeeded"} =>
           client[r] \in Clients /\ fp[r] \in Fingerprints
    /\ granted[r] # None <=> pc[r] = "succeeded"
    /\ leases[r] # None => leases[r] = fp[r] /\ granted[r] # None
    /\ granted[r] # None => granted[granted[r]] = granted[r]

\* What a handler's position says of its plugin process.
PluginsConsistent == \A r \in Calls :
    /\ pc[r] \in {"idle", "spawning"} => plugin[r] = "none"
    /\ plugin[r] = "killed" => pc[r] \in {"failed", "succeeded"}
    /\ pc[r] = "failed" => plugin[r] \notin Running
    /\ granted[r] # None /\ granted[r] # r => plugin[r] = "none"

\* A record describes the call that published it.
CacheConsistent == \A f \in Fingerprints : fixtures[f] # None =>
    LET i == fixtures[f].plugin IN
    /\ granted[i] = i /\ fp[i] = f
    /\ fixtures[f].creating_client_id = client[i]
    /\ fixtures[f].sharing = SharingOf(f)

\* A published plugin that runs is the one in the map, and a fingerprint that
\* was ever granted keeps having a record.
PublishedStaysCached == \A r \in Calls : granted[r] # None =>
    /\ fixtures[fp[r]] # None
    /\ granted[r] = r /\ plugin[r] \in Running => fixtures[fp[r]].plugin = r

(***************************************************************************)
(* Inductive invariant of the handlers, without the slot counts.           *)
(***************************************************************************)
IInv ==
    /\ TypeOK
    /\ CallsConsistent
    /\ PluginsConsistent
    /\ CacheConsistent
    /\ PublishedStaysCached
    /\ CacheNeverKilled
    /\ ScopeRespected
================================================================================
