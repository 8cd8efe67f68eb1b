# A TLA+ development for rules_systemtest

`rules_systemtest` runs tests against external services ("fixtures"). Bazel
executes a *runner* per test; the runner makes sure one *coordinator daemon* is
up for the workspace, takes a *lease* per fixture, runs the test with the
fixtures' addresses in its environment and releases the leases. The coordinator
reuses a running fixture or has a *plugin* process provision a new one.

The modules here model that run-time system from the code under `src/` (not
from `DESIGN.md`, which describes a larger system than the one implemented).
TLC checks them on small instances; TLAPS proves the safety properties for all
sizes.

## The system's parts

| Component | State | Operations | Interacts with |
|---|---|---|---|
| Coordinator service (`coordinator.rs`, `fixture.rs`, `lease.rs`) | `fixtures`: fingerprint to record (policy, creator, used slots, plugin); `leases`: lease to fingerprint; one mutex | TakeLease, ReleaseLease, Status, Keepalive | runners call it concurrently; it spawns and calls plugins |
| Plugin process handling (`plugin_client.rs`) | a child process and a channel | spawn, connect with retry, describe, create, kill on drop | coordinator handlers own it, then the fixture map does |
| Coordinator daemon (`coordinator_local.rs`) | lock file, socket file, listener | lock, unlink, bind, serve | races with other daemons; runners dial it |
| Daemon start-up in the runner (`coordinator.go`) | position in probe, spawn, wait | `ensureCoordinatorRunning` | spawns the daemon, dials its socket |
| Runner lifecycle (`run.go`, `lease.go`, `exec.go`) | leases held, keepalive loops, exit code | acquire, poll, keepalive, run, release | calls the coordinator, runs the test |
| Environment injection (`env.go`, `exec.go`, `env.bzl`) | none | name transformations, layered merge | outputs of leases to the test |
| Fingerprint (`fixture.rs`) | none; the plugin binaries on disk | `compute`, `canonical_encoding`, `hash_plugin_binary` | decides which calls share a fixture; reads the file that is spawned later |
| Dummy plugin (`plugins/dummy`) | none | DescribePlugin, CreateFixture, serve | echoes ports through the coordinator to the runner |
| Generated code (`systemtestrs`, `systemtestpb`) | none | stubs, routing of calls, enums | between runner, coordinator and plugin |
| Client id (`clientid.go`) | none | hashing | decides which runners share a daemon |
| Configuration, runfiles, JUnit (`config.go`, `fixture.go`, `rlocation.go`, `junit.go`) | none | reading and writing files | |
| Starlark rules | none | build-time wiring | |

What is hard in this code:

* **Check then act across awaits.** TakeLease looks for a fixture under the
  mutex, drops it, awaits a plugin for seconds or minutes and then inserts
  under the mutex again. Several calls can miss at once.
* **Identity by fingerprint.** A lease remembers only a fingerprint. Records
  are replaced, so the record a lease finds is not always the one it was
  granted on.
* **Ownership of processes.** A plugin is killed when its `PluginProcess` is
  dropped: on errors, cancellation and replacement. Before it is connected
  there is no `PluginProcess`, and the child is not killed at all.
* **Failure.** Plugins exit or never answer, callers disappear between any two
  calls, daemons die holding the lock or leaving a socket file behind.
* **State that dies with its process.** A daemon that dies takes all leases and
  handlers with it, but not its plugins; runners keep their lease ids, and
  their calls may reach the next daemon.
* **Hash now, run later.** The plugin binary is hashed when a call arrives and
  executed from the same path after a miss; builds and sandboxes change it.
* **Streams.** A plugin reports progress at its own pace and may exit, stop or
  fail with messages unread.
* **Start-up without a lock.** Runners probe and spawn freely; the daemons sort
  it out with `flock`, and the losers exit quietly.

`PROJECT.json` lists these as hazards, each at its line.

## Modules

| Module | What it is |
|---|---|
| `LeaseRegistry` | abstract specification: what a lease promises, without and with restarts |
| `Coordinator` | the coordinator service and its plugin processes |
| `MCCoordinator` | instances of `Coordinator` for TLC (policies, symmetry) |
| `CoordinatorProofs` | inductive invariant and safety theorems of `Coordinator` |
| `CoordinatorRefinement` | proof that `Coordinator` implements `LeaseRegistry` |
| `CoordinatorStartup` | runners and daemons coming to one coordinator |
| `MCCoordinatorStartup` | instances of `CoordinatorStartup` for TLC |
| `CoordinatorStartupProofs` | inductive invariant and safety theorems of `CoordinatorStartup` |
| `Runner` | one runner, from its configuration to its exit status |
| `MCRunner` | instances of `Runner` for TLC |
| `RunnerProofs` | inductive invariant and safety theorems of `Runner` |
| `FixtureIdentity` | fingerprints and plugin binaries, on top of `Coordinator` |
| `MCFixtureIdentity` | instances of `FixtureIdentity` for TLC |
| `FixtureIdentityProofs` | inductive invariant and theorems of `FixtureIdentity` |
| `Rpc` | which method a call of a generated stub ends in |
| `PluginSession` | DescribePlugin and CreateFixture message by message, with the dummy plugin, on top of `Coordinator` |
| `MCPluginSession` | instances of `PluginSession` for TLC |
| `PluginSessionProofs` | inductive invariant and theorems of `PluginSession` |
| `System` | runners, daemons and the coordinator composed: `Coordinator`, `CoordinatorStartup` and `Rpc` |
| `MCSystem` | instances of `System` for TLC |
| `SystemProofs` | inductive invariant and theorems of `System` |
| `Environment` | names and layers of the test's environment variables |
| `MCEnvironment` | instances of `Environment` for TLC (fixture names, outputs) |
| `EnvironmentProofs` | the naming, the inductive invariant and the theorems of `Environment` |

### Coordinator

A TakeLease call `r` is a process. It mints one lease id, one fixture id and
one plugin socket, all UUIDs assumed distinct, so the call's name stands for
all three, and outputs are named by the instance that produced them. The
actions cut a handler where something else can run:

| Action | Code |
|---|---|
| `TakeLeaseRejected` | early returns before the state is touched |
| `TakeLeaseAttach`, `TakeLeaseMiss` | the first critical section |
| `SpawnPlugin`, `SpawnFailed` | `PluginProcess::spawn` up to its first await |
| `Connected`, `ConnectFailed` | `connect_with_retry` |
| `Described`, `Created`, `ProvisionFailed` | the two RPCs to the plugin |
| `Publish` | the second critical section, with the drop of the replaced record |
| `ReleaseLease` | `release_lease`, also repeated |
| `ClientGone`, `Cancel` | a caller disappears, and the server drops its handler at an await |
| `PluginServes`, `PluginExits` | the plugin process |

`plugin[r]` is the child: a `killed` child got SIGKILL from the coordinator, an
`exited` one ended by itself. A handler is `abandoned` when its `Child` was
dropped unconnected, which leaves the process running. `granted` and `gone` are
history and environment: the instance a response carried, and whether the
caller is still there. What a plugin wrote before it exited may still be read,
so `Described` and `Created` are possible after `PluginExits`. Status changes
nothing and appears as the operator `StatusOutputs`; Keepalive only looks the
lease up and appears in `System`.

A fingerprint is an opaque value here, because it determines the description:
the sharing policy is part of what is hashed, so `DescSharing` maps fingerprints
to policies. `FixtureIdentity` opens it up. `maximum_concurrent_connections` may
be any integer.

### CoordinatorStartup

A runner spawns at most one daemon, which carries the runner's name. `sock` is
the daemon that bound the file at the socket path, dead or alive; a dial
succeeds only if that daemon's listener is still open. A daemon that dies is
`dying`, and the kernel drops its lock and its listener in either order, each a
step of its own. A path that exists makes `bind` fail and `main` return
(`Bind`); other errors of `main` are deaths (`Die`). `EnsureFails` is a socket
directory that cannot be made or a daemon that cannot be started. `Patient` are the runners in whose wait of ten
seconds (`waitForSocket`) a daemon always gets to bind; the wait of the others may
time out whenever a dial fails.

### Runner

`pc` is the position in `execute`, `leases` its slice of that name, `keeping`
the leases with a running `keepaliveLoop`. A lease is named by the index of its
fixture. `coord` is what a coordinator would answer about each lease; `lost`
and `verdict` are history: calls that did not get through, and what the test
really returned.

| Action | Code |
|---|---|
| `UsageError`, `SetupFails`, `SetupDone` | `Run` and `execute` up to the first lease |
| `TakeLeaseSucceeded`, `TakeLeaseFailed`, `TakeLeaseBroken`, `TakeLeasePending` | the outcomes of TakeLease in `acquireLease` |
| `PollSucceeded`, `PollFailed`, `PollGivesUp` | the outcomes of `pollUntilDone` |
| `Acquired`, `Fail` | what `execute` does with a lease, with outputs that may not parse, and with an error |
| `TestEnds`, `TestNotStarted` | `runTestBinary` |
| `ReleaseNext`, `Exit` | the deferred release, one lease after the other, and `Run`'s exit code |
| `Killed`, `CoordinatorFinishes`, `CoordinatorRestarts` | what happens around the runner |

The coordinator of this repository never answers PENDING: it provisions inside
TakeLease. The runner is written for one that does, and is modelled as written.

### Environment

`envFragment`, `env_prefix_for_fixture` and `mergeEnv` are pure operators.
`envFragment` keeps the positions of alphanumeric characters and the first one
of every run of others (`Kept`), which is what replacing each match of
`[^A-Za-z0-9]+` by one underscore leaves, and writes them out in order.
Around them, the outputs of a lease are scanned in any order, as Go ranges over
a map (`OpenOutput`, `SkipOutput`, `MalformedOutput`), a ports output entry by
entry (`PutPort`, `OutputDone`), the variables of a fixture are copied over
those of the fixtures before it (`FixtureDone`), and the test gets the layers
merged (`RunTest`). Names are sequences of a few
characters that stand for their kinds: lower and upper case letters, a digit,
the underscore and another separator. A variable's value is the port entry it
came from, so that two values can be told apart by origin.

### FixtureIdentity

`file` is what is at each path a plugin binary may have, in whichever sandbox.
TakeLease becomes three steps: `Compute` reads the file and hashes the
description with the digest in place of the path, `Lookup` enters the first
critical section of `Coordinator` with the result, `Spawn` executes what is at
the path by then. `Rewrite` is the rest of the machine, which changes, removes
and restores files at any time. A description is a recipe (impl id, inputs,
startup timeout, all hashed as they are), a sharing policy, a name and a plugin.
`encode_to_vec` writes the fields that are set, so an empty name and an absent
policy leave no trace in the encoding, as with prost; a digest is named by the
bytes that were hashed. `read`, `ran` and `rebuilt` are
history: what was hashed, what was executed, and whose binary changed between.

### PluginSession

The plugin side writes and the handler side reads a sequence per call: `next` is
how far the handler has come, `fate` whether the plugin has ended or failed the
stream. The dummy plugin (`describe_plugin`, `create_fixture`) writes what its
source says, other plugins (`OtherSends`, `OtherEnds`) anything. `Drain` takes
one message off the stream and does what the `match` does with it;
`StreamOver` is the end of the `while let`, `ConnectionLost` an error from the
channel. A status is the integer on the wire, and `StatusOf` what prost makes of
it. Ports are the values of a JSON object with the number they denote; the
plugin keeps those that are a `u64`, the runner (`Unmarshal`) fails on those
that are no `int`. The widths are `MaxU64` and `MaxInt`.

### System

The variables of `Coordinator` and of `CoordinatorStartup` side by side, and for
each runner the progress of its one lease (`view`), the daemon each of its calls
is under way to (`sent`), the lease id it was given and, as history, the daemon
that handled its TakeLease (`home`).

| Action | Code |
|---|---|
| `StartingUp` | `ensureCoordinatorRunning` and the daemon's `main`, as in `CoordinatorStartup` |
| `CallTakeLease`, `CallKeepalive`, `CallReleaseLease`, `NotReady` | the runner's stubs on a channel that dials the socket path when it has no connection |
| `TakeLeaseReturns`, `KeepaliveBroken`, `ReleaseReturns` | the calls' ends: answered, broken off with the daemon, or timed out |
| `HandleTakeLease`, `HandlePublish`, `Provisioning` | TakeLease in the daemon, as in `Coordinator` |
| `HandleKeepalive`, `HandleRelease` | the other methods, by lease id; `Rpc` says which stub reaches which |
| `RunnerKilled`, `DaemonKilled` | signals: a runner's connection closes, a daemon's maps and handlers are gone and its plugins go on |
| `DaemonExits` | the server fails and `main` returns: records and handlers are dropped |

A daemon's end ends its handlers (`Ended`): one that was still connecting leaves
its `Child` running and counts as `abandoned`, as in `Coordinator`; one that was
connected owned a `PluginProcess`, which is dropped when `main` returns and left
running by a signal.

There is one copy of the coordinator's state because one daemon serves at a
time, which is what `CoordinatorStartup` proves and `SystemImplementsStartup`
carries over. Environment and several leases per runner are in `Environment`
and `Runner`.

Definitions commented "Fault:" are deliberate errors that stand next to the
definition they distort. Nothing uses them in a run; they show that each
property can be broken by a plausible mistake in the code.

## Runs

Passing runs:

| Run | Instance | Shows |
|---|---|---|
| `coordinator_safety` | 3 calls, 2 clients, an unrestricted fixture with 2 slots, one without a policy, a single-use one with a non-positive slot count; symmetric in calls and clients | slot accounting, scope, plugin ownership, routing; slots, plugin and Status of an instance that was not replaced; refinement of `LeaseRegistry` |
| `startup` | 3 runners, 3 deaths, `Patient` has 2 runners, fairness | one daemon at a time, which keeps its socket; no stranded runner without a death; `ensureCoordinatorRunning` returns; a patient runner is served unless a daemon dies |
| `runner` | 3 fixtures, tests that succeed, fail or are killed by a signal, 1 coordinator restart, fairness | the exit status is the test's result; tests run on live leases; leases are given back; polling and releasing end |
| `environment_safety` | one fixture of every name of up to three characters; two fixtures with colliding names and ports in two outputs each | both variables of every direct port reach the test over its other environment; host and port belong together; plain names get the prefix the rules export |
| `fixture_identity` | 2 calls, 1 client, one recipe with a sharing policy, a name or none, 2 paths and 2 contents of binaries, removed and rewritten without bound; symmetric in calls, paths and contents. Recipes and policies that differ are left to the theorems `ReuseCorrect` and `GrantCorrect` | a call for a fixture that is there and has room attaches to it, from whichever sandbox; a lease is on the fixture that was asked for, unless its creator's binary changed between hashing and spawning |
| `plugin_session` | 2 calls, 1 client, three fixtures of 2 slots: the dummy plugin with odd values for ports, with an input that is no JSON, and another plugin that sends up to 2 messages of 4 kinds; numbers of 4 bits in the plugin and 3 in the runner; fairness. A port that only the plugin can hold is left to the theorem `PortsCorrect` | the first terminal message decides; every requested port reaches the runner, unchanged if both sides can hold it; a stream that is over, a dummy plugin, also on malformed input, and a caller that is gone end the call |
| `system` | 2 runners, 2 daemon deaths, a fixture of two slots, no runner `Patient`; symmetric in runners | a held lease of the serving daemon is known to it; no lease is lost track of; a daemon whose `main` returns leaves only children it was connecting to; refinement of `LeaseRegistry` with restarts |

Three calls are enough for a record to be replaced while another lease, or
another call in flight, refers to it, and for a third call to attach after
that; with two slots a fixture is also seen full and shared. Three runners
allow a daemon to die with the lock, another to lose the race to it, and a third
to come later and serve, or to die in turn. With three fixtures a runner fails
with leases before and fixtures after the one that failed. Three characters
contain every pair of neighbours with something before or after it, which is
all `envFragment` looks at. Two calls are enough for one to attach to what the
other provisioned from a binary that was rebuilt, and two paths for the same
binary to be found in two sandboxes. Two messages are a progress message and a
terminal one, two terminal ones, or one that is left unread. Two runners whose
daemons die one after the other leave a lease of the first daemon, a lease of
the second, and a late call from the first to the second. The proofs remove the
bounds for all safety properties. No run checks for deadlock: calls are made
once, daemons and runners end, so every behaviour may come to rest.

Runs that end in a violation, each against a sentence of the repository:

| Run | The repository says | The code does |
|---|---|---|
| `coordinator_overcommit` | slots: "how many leases may share it at once" (`DESIGN.md:544`) | a release after a replacement frees a slot of the wrong record |
| `coordinator_killed_lease` | a lease is a claim "for the duration of a test" (`DESIGN.md:69`) | a call that missed replaces the record and kills its plugin, here of a call that missed at the same time |
| `coordinator_lease_gc` | "the coordinator will eventually GC an unreleased lease" (`lease.go:119`) | `ttl_seconds` is never read |
| `fixture_rebuild` | "any behavioral change ⇒ different fingerprint ⇒ a fresh fixture" (`DESIGN.md:576`) | a binary rebuilt between hashing and spawning runs under the old fingerprint |
| `environment_collision` | the prefix "keeps multiple fixtures in one test distinct" (`DESIGN.md:437`, `env.bzl:4`) | fixtures `a-b` and `A_b`, or `a` with port `b-b` and `a-b` with port `b`, have the same variables, and the last fixture wins |

`PromisesKeptUntilDisplaced` is the other side of the first two: of an instance
whose fingerprint was published once, both sentences hold. A record is replaced
by a call that missed: one of several that missed at once, or a later one on a
record that is full, `single_use` or private to another client. The run
`coordinator_killed_lease` has slots to spare and one client, so only concurrent
misses can show there.

Further disagreements that follow from the actions as they stand, without a run
of their own:

* `status` looks the record up by fingerprint, so after a replacement it reports
  an instance the lease was not granted, while `lease.rs:28` routes "back to the
  right fixture".
* `TakeLeaseAttach` has no condition on the plugin, so a lease is granted on a
  fixture whose plugin has exited, while `coordinator.rs:86` says "attach to a
  live fixture".
* `PollGivesUp` leaves a PENDING lease with the coordinator, while
  `DESIGN.md:342` says "Releases every lease". `AcquiredLeasesReturned` shows
  that it is the only one.
* The startup timeout bounds connecting only: a plugin that serves and never
  answers holds TakeLease until its caller goes away, while `DESIGN.md:158` has
  it bound the wait "for the fixture to become healthy".
* `envFragment` collapses runs of separators and keeps a leading digit,
  `env_prefix_for_fixture` does neither, while `env.bzl:11` says "The rule layer
  and the runner must agree on this transformation". `PlainPrefixesAgree` says
  where they do.
* A `FixtureId` is drawn anew in every provisioning attempt, while `DESIGN.md:647`
  has a stable id for plugins to key idempotency on.
* DestroyFixture, HealthCheck and the resource methods are never called, and
  plugins get SIGKILL and nothing else, while `DESIGN.md:759` has SIGTERM first.
* "if the coordinator itself is exiting, don't leave the plugin child running"
  (`plugin_client.rs:54`) holds of connected plugins when `main` returns, not of
  children it was connecting to, and not when a signal ends the daemon;
  `OrphanedOnlyByKill` has these sides.
* The dummy plugin "just echoes the requested port mapping back"
  (`plugins/dummy/src/main.rs:136`), but a string or number that is no `u64` comes
  out as port 0, and an input that does not parse as no ports, without an error.
  `PortsEchoed` says which ports are echoed.
* The keepalive loop starts in `Acquired`, while `DESIGN.md:335` has heartbeats
  sent "throughout" polling.

### Fairness

`Coordinator!Fairness`: the async runtime polls handlers that can run, so
spawning and publishing are not postponed for ever; `connect_with_retry`
alternates attempts and a deadline, so it ends one way or the other; an RPC to
a process that has exited fails; tonic drops the handler of a stream that was
reset. Nothing makes a running plugin answer or a caller call again.
`PluginSession!SessionFairness`: the same for a handler as a whole, which also
reads what is on its stream, and the dummy plugin's methods, which wait for
nothing but their turn. Nothing is assumed of other plugins, of callers, or of
a running process binding its socket.
`CoordinatorStartup!Fairness`: runners and daemons that can run do, dials are
repeated until the deadline, and the kernel cleans up after a dead process.
Nothing makes a daemon die.
`Runner!Fairness`: polling has a deadline and each release call one of five
seconds, and `Run` goes on after that. TakeLease has no deadline and a test may
run for ever, so nothing is assumed of them.

## Proofs

`Coordinator` (for every set of calls that is finite, all clients, all
fingerprints and all policies). None of the properties is inductive alone. A
record can be handed out safely because it describes the call that published
it (`CacheConsistent`); that survives replacement because a call that
publishes has no grant yet (`CallsConsistent`), and killing the replaced plugin
hits no other record because records of different fingerprints have different
plugins. `PluginsConsistent` ties a plugin's state to its handler's position,
and `PublishedStaysCached` says that a published plugin that still runs is the
one in the map. Together with `TypeOK`, `CacheNeverKilled` and `ScopeRespected`
they form `IInv`. From it follow `ConnectedPluginIsOwned` and
`LeaseAlwaysRoutes`. The two slot properties are proved beside `IInv`, from
lemmas about how the number of leases of a fingerprint changes, and the fact
that two published instances stay published. Together they give
`PromisesKeptUntilDisplaced`: a record that was never replaced is that of the one
instance published under its fingerprint, whose sharers are all holders of the
fingerprint, and holders are then exactly the slots taken. The refinement maps
an attach to `Share`, a publication to `Provide`, a first release to `Release`
and all other steps to stuttering.

`CoordinatorStartup` (for every finite set of runners, patient or not, and any
number of deaths). `IInv` says that daemons past `lock_instance` hold the lock and
that the lock is held by one of them or by one the kernel is still cleaning up
after, that a socket file was bound by a daemon that serves or died, and that a
daemon exits quietly only while somebody has the lock. Mutual exclusion, the
safety of unlinking and the absence of stranded runners follow.

`Runner` (for every number of fixtures and restarts and any set of exit codes).
`BeforeResult` says that until the test ends `execute` holds exactly the leases
of the fixtures it has passed, with their loops running and no result;
`AfterResult` that on the way out there is either an error with exit code 0 or
the test's own code, which is why turning 0 into 1 on errors is right;
`CoordinatorAgrees` that leases in the slice are known to the coordinator and
released ones are not, up to restarts and lost calls, and that it knows of no
other lease than the one being acquired; `ExitedReturned` that the deferred
function has run. An exit status is the code modulo 256, and no code of a test
wraps around to 0.

`FixtureIdentity` (for all descriptions, paths, contents and rewrites).
`IdentityConsistent` says that a call past its lookup has its own fingerprint,
that as long as nobody rewrote its binary the file still is what was read, and
that a plugin executes what was read, likewise. With the coordinator's `IInv`
it gives `GrantedWhatWasAsked`: the instance a call attached to was published
under the same fingerprint, so by injectivity of the encoding it was made from
the same recipe, policy and bytes. `ReuseCorrect` is the converse: a record made
from the same recipe, policy and bytes is found under the fingerprint that the
call looks up, because name and path are not in the encoding. The encoding is
injective although unset fields leave no trace (`EncodingInjective`): no value of
a field that is set is the one that is not written. Every step is a step of `Coordinator` or
leaves it alone (`IdentityImplementsCoordinator`), so that module's theorems
hold here.

`PluginSession` (for all plugins, messages, inputs and widths).
`SessionConsistent` says that nothing is on a stream before CreateFixture is
called and that the dummy plugin's stream has its one message or none. The first
terminal message stays the first because messages are only appended, and the
handler stops at it. `SessionImplementsCoordinator` is the refinement: `Drain`
maps to `Created`, `ProvisionFailed` or a stutter.

`System` (for any number of runners and deaths). `DaemonsConsistent` repeats the
core of the start-up invariant; `ServiceConsistent` is what of the coordinator's
invariant survives a daemon's death (a record still describes its creator, but
fingerprints no longer keep a record for ever); `StateIsHome` ties every lease,
handler and record to the daemon that serves, which is what makes losing them
all at once right; `RunnersConsistent` relates a runner's progress to its calls,
its lease id and that daemon. A release removes the runner's own lease or
nothing because the ids of granted leases are distinct, also across daemons.
The system implements `CoordinatorStartup` (`SystemImplementsStartup`).
For the coordinator's variables every step of the system is a step of
`Coordinator`, the end of a caller or the loss of all state (`ServiceSteps`).
With that, slot accounting, routing and scopes carry over to daemons that die
(`SystemSlotsCorrect`, `SystemRoutingCorrect`, `SystemScopeCorrect`; the runs check
these three of one daemon only, the theorems take them across deaths), and so does
the refinement: the lemmas about attaching, publishing and releasing need only
the part of the coordinator's invariant that survives, and a death is the `Lose`
of a registry that is kept in memory (`SystemImplementsRegistry`). The properties
that compare a slot count or a plugin with what the coordinator promised
(`SlotsExactUntilDisplaced`, `PromisesKeptUntilDisplaced`) are of one daemon's
life and stay with `Coordinator`.

`Environment` (for any list of fixtures, names and outputs of any length, and any
layers). The invariant follows the three loops: entries of the current fixture
that have been passed have their variables in `portEnv` (`CurrentFixture`), those
of earlier fixtures in `injected` (`EarlierFixtures`), and in both maps a name has either both variables or none, with one entry of that
name (`Paired`). Copying one map over the other keeps a pair together because
both maps have pairs only (`OverlayPaired`). `PlainPrefix` needs no loop: of a
plain name every position is kept, and the n-th smallest of 1 to n is n.

Assumptions: the constants are sets without `None`, finite where they are
counted, and policies are well formed (`SharingAssumption`, `CallsAssumption`,
`NoneAssumption`; `RunnersAssumption`, `MaxDeathsAssumption`,
`PatientAssumption`). `N` and `MaxRestarts` are natural numbers and exit codes
lie between -1 and 255 (`NAssumption`, `MaxRestartsAssumption`,
`TestCodesAssumption`). Fingerprints are the encodings of descriptions, paths
are told apart from digests (`FingerprintsAssumption`, `DescSharingAssumption`,
`PathsAssumption`, `BytesAssumption`), and no value that is set is the one that
stands for an unset field (`DefaultsAssumption`). `MaxInt` is at most `MaxU64`, and inputs
and messages are well formed (`WidthAssumption`, `DummiesAssumption`,
`ProgressAssumption`, `InputAssumption`, `ResultAssumption`). Fixtures have a name
and outputs, and a layer's variables have names of the form that ports give
(`FixtureListsAssumption`, `LayersAssumption`): others cannot collide and are left
out.

Only model-checked: the liveness properties (`GoneCallEnds`,
`EndedStreamEndsCall`, `DummyCallEnds`, `RunnerSettles`, `ServedUnlessDeath`,
`WaitsEnd`), which need fairness. Only proved: the type invariants of
`CoordinatorStartup`, `PluginSession` and `System`, which the other properties
rest on and which say little more than the domains of what is assigned.

## Not modelled

* Client id and socket directory: hashes of host, user and path.
* Reading configuration, runfiles and descriptions; the JUnit report: file
  input and output with one outcome, an error before any lease or a warning.
* Starlark rules: build-time declarations.
* Generated code beyond routing, enums and the shape of messages: encoding and
  decoding, compression, size limits.
* A collision of the eight hex digits in a plugin's socket path, which would
  take the socket from a running plugin: paths are taken to be distinct.
* `System` with several leases per runner and PENDING answers: these are in
  `Runner`, against an abstract coordinator.
* The `rm` of a stale plugin socket in `PluginProcess::spawn`: the path is
  fresh, so there is nothing to remove.
* Mutex poisoning: nothing panics while the mutex is held.

## Plan

1. `Coordinator` and `LeaseRegistry`, safety, refinement and proofs: done.
2. `CoordinatorStartup`, safety, liveness and proofs: done.
3. `Runner`, safety, liveness and proofs: done.
4. `Environment`, safety and proofs: done.
5. `FixtureIdentity`, safety, refinement and proofs: done.
6. `PluginSession` and `Rpc`, safety, liveness, refinement and proofs: done.
7. `System`, safety, refinement of start-up and of a restarting registry, and
   proofs: done.
8. To come: the client id, which decides which runners meet at one daemon.
