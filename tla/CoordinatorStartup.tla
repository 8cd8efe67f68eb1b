--------------------------- MODULE CoordinatorStartup ---------------------------
(***************************************************************************)
(* How concurrent runners of one workspace come by one coordinator daemon: *)
(* ensureCoordinatorRunning in the runner (coordinator.go) against main    *)
(* and lock_instance in the daemon (coordinator_local.rs).                 *)
(*                                                                         *)
(* A runner probes the socket, spawns a daemon when nothing accepts, and   *)
(* polls until something does. A daemon takes the lock file or exits       *)
(* quietly, unlinks whatever is left at the socket path, binds and serves. *)
(* Daemons can die at any point; the kernel then drops their lock and      *)
(* their listener, in either order, and the socket file stays on disk.     *)
(*                                                                         *)
(* A runner spawns at most one daemon, which is named after the runner.    *)
(***************************************************************************)
EXTENDS Integers, FiniteSets

CONSTANTS
    Runners,
    MaxDeaths,  \* bound on the daemons that die
    Patient,    \* runners in whose socketWaitTimeout a daemon always gets to bind
    None

ASSUME RunnersAssumption == IsFiniteSet(Runners) /\ None \notin Runners
ASSUME MaxDeathsAssumption == MaxDeaths \in Nat
ASSUME PatientAssumption == Patient \subseteq Runners

VARIABLES
    rpc,        \* where each runner is in ensureCoordinatorRunning
    dpc,        \* where the daemon each runner spawned is in main
    lock,       \* daemon holding the flock on .lock, or None
    sock,       \* daemon that bound the file at the socket path, None: no file
    listening,  \* daemons whose listener is open
    died        \* daemons that died (history)

vars == <<rpc, dpc, lock, sock, listening, died>>

Alive == {"started", "locked", "cleared", "serving"}
Owning == {"locked", "cleared", "serving"}

TypeOK ==
    /\ rpc \in [Runners -> {"probing", "spawning", "waiting", "ready", "failed"}]
    /\ dpc \in [Runners -> {"none", "exited", "dying"} \cup Alive]
    /\ lock \in Runners \cup {None}
    /\ sock \in Runners \cup {None}
    /\ listening \in SUBSET Runners
    /\ died \in SUBSET Runners

Init ==
    /\ rpc = [r \in Runners |-> "probing"]
    /\ dpc = [r \in Runners |-> "none"]
    /\ lock = None
    /\ sock = None
    /\ listening = {}
    /\ died = {}

--------------------------------------------------------------------------------
\* The runner.

\* socketAccepts: a dial, so a leftover file does not count.
SocketAccepts == sock # None /\ sock \in listening

\* Fault: the runner goes on to wait without spawning.
ProbeWaits(r) ==
    /\ rpc[r] = "probing"
    /\ rpc' = [rpc EXCEPT ![r] = IF SocketAccepts THEN "ready" ELSE "waiting"]
    /\ UNCHANGED <<dpc, lock, sock, listening, died>>

Probe(r) ==
    /\ rpc[r] = "probing"
    /\ rpc' = [rpc EXCEPT ![r] = IF SocketAccepts THEN "ready" ELSE "spawning"]
    /\ UNCHANGED <<dpc, lock, sock, listening, died>>

SpawnCoordinator(r) ==
    /\ rpc[r] = "spawning"
    /\ rpc' = [rpc EXCEPT ![r] = "waiting"]
    /\ dpc' = [dpc EXCEPT ![r] = "started"]
    /\ UNCHANGED <<lock, sock, listening, died>>

\* The socket directory cannot be made, or the daemon cannot be started.
EnsureFails(r) ==
    /\ rpc[r] \in {"probing", "spawning"}
    /\ rpc' = [rpc EXCEPT ![r] = "failed"]
    /\ UNCHANGED <<dpc, lock, sock, listening, died>>

\* An attempt of waitForSocket that connects.
Poll(r) ==
    /\ rpc[r] = "waiting"
    /\ SocketAccepts
    /\ rpc' = [rpc EXCEPT ![r] = "ready"]
    /\ UNCHANGED <<dpc, lock, sock, listening, died>>

\* The runner waits and no daemon serves or is on its way to serving.
Stranded(r) == rpc[r] = "waiting" /\ \A d \in Runners : dpc[d] \notin Alive

\* Fault: waitForSocket has no deadline.
WaitForever(r) == FALSE /\ UNCHANGED vars

\* waitForSocket gives up after a failed attempt past its deadline.
WaitTimesOut(r) ==
    /\ rpc[r] = "waiting"
    /\ ~SocketAccepts
    /\ r \in Patient => Stranded(r)
    /\ rpc' = [rpc EXCEPT ![r] = "failed"]
    /\ UNCHANGED <<dpc, lock, sock, listening, died>>

--------------------------------------------------------------------------------
\* The daemon.

\* Fault: the daemon goes on when another one holds the lock.
LockIgnored(d) ==
    /\ dpc[d] = "started"
    /\ dpc' = [dpc EXCEPT ![d] = "locked"]
    /\ lock' = IF lock = None THEN d ELSE lock
    /\ UNCHANGED <<rpc, sock, listening, died>>

\* Fault: the socket file is unlinked before the lock is tried.
UnlinkThenLock(d) ==
    /\ dpc[d] = "started"
    /\ sock' = None
    /\ \/ /\ lock = None
          /\ lock' = d
          /\ dpc' = [dpc EXCEPT ![d] = "locked"]
       \/ /\ lock # None
          /\ dpc' = [dpc EXCEPT ![d] = "exited"]
          /\ UNCHANGED lock
    /\ UNCHANGED <<rpc, listening, died>>

\* try_lock; a daemon that finds the lock taken exits quietly.
LockInstance(d) ==
    /\ dpc[d] = "started"
    /\ \/ /\ lock = None
          /\ lock' = d
          /\ dpc' = [dpc EXCEPT ![d] = "locked"]
       \/ /\ lock # None
          /\ dpc' = [dpc EXCEPT ![d] = "exited"]
          /\ UNCHANGED lock
    /\ UNCHANGED <<rpc, sock, listening, died>>

\* Fault: a leftover socket file is not removed.
KeepSocket(d) ==
    /\ dpc[d] = "locked"
    /\ dpc' = [dpc EXCEPT ![d] = "cleared"]
    /\ UNCHANGED <<rpc, lock, sock, listening, died>>

RemoveSocket(d) ==
    /\ dpc[d] = "locked"
    /\ sock' = None
    /\ dpc' = [dpc EXCEPT ![d] = "cleared"]
    /\ UNCHANGED <<rpc, lock, listening, died>>

\* Fault: the lock is given back once the daemon serves.
BindThenUnlock(d) ==
    /\ dpc[d] = "cleared"
    /\ sock = None
    /\ sock' = d
    /\ listening' = listening \cup {d}
    /\ dpc' = [dpc EXCEPT ![d] = "serving"]
    /\ lock' = None
    /\ UNCHANGED <<rpc, died>>

\* bind needs a path that does not exist; then the daemon serves. Otherwise main
\* returns the error.
Bind(d) ==
    /\ dpc[d] = "cleared"
    /\ IF sock = None
       THEN /\ sock' = d
            /\ listening' = listening \cup {d}
            /\ dpc' = [dpc EXCEPT ![d] = "serving"]
       ELSE /\ dpc' = [dpc EXCEPT ![d] = "dying"]
            /\ UNCHANGED <<sock, listening>>
    /\ UNCHANGED <<rpc, lock, died>>

\* The daemon is killed, or main returns an error.
Die(d) ==
    /\ dpc[d] \in Alive
    /\ Cardinality(died) < MaxDeaths
    /\ dpc' = [dpc EXCEPT ![d] = "dying"]
    /\ died' = died \cup {d}
    /\ UNCHANGED <<rpc, lock, sock, listening>>

\* The kernel closes the listener of a dead daemon; the socket file stays.
CloseListener(d) ==
    /\ dpc[d] = "dying" /\ d \in listening
    /\ listening' = listening \ {d}
    /\ UNCHANGED <<rpc, dpc, lock, sock, died>>

\* The kernel drops the flock of a dead daemon.
DropLock(d) ==
    /\ dpc[d] = "dying" /\ lock = d
    /\ lock' = None
    /\ UNCHANGED <<rpc, dpc, sock, listening, died>>

Next == \E r \in Runners :
    \/ Probe(r) \/ SpawnCoordinator(r) \/ EnsureFails(r)
    \/ Poll(r) \/ WaitTimesOut(r)
    \/ LockInstance(r) \/ RemoveSocket(r) \/ Bind(r)
    \/ Die(r) \/ CloseListener(r) \/ DropLock(r)

Spec == Init /\ [][Next]_vars

\* Processes that can run do run, dials are repeated, deadlines pass, and the
\* kernel cleans up after the dead. Nothing has to die.
Fairness == \A r \in Runners :
    /\ WF_vars(Probe(r))
    /\ WF_vars(rpc[r] = "spawning" /\ (SpawnCoordinator(r) \/ EnsureFails(r)))
    /\ WF_vars(Poll(r) \/ WaitTimesOut(r))
    /\ WF_vars(LockInstance(r))
    /\ WF_vars(RemoveSocket(r))
    /\ WF_vars(Bind(r))
    /\ WF_vars(CloseListener(r))
    /\ WF_vars(DropLock(r))

FairSpec == Spec /\ Fairness

--------------------------------------------------------------------------------
\* Properties.

(***************************************************************************)
(* lock_instance makes a daemon "the only coordinator serving dir": no two *)
(* daemons are past it at once, although runners take no lock themselves.  *)
(***************************************************************************)
MutualExclusion == \A d, e \in Runners :
    dpc[d] \in Owning /\ dpc[e] \in Owning => d = e

(***************************************************************************)
(* A live server is never cut off from its socket path: whatever other     *)
(* daemons unlink and bind, the path names the daemon that serves, and a   *)
(* daemon about to bind finds the path free.                               *)
(***************************************************************************)
ServerOwnsSocket == \A d \in Runners :
    /\ dpc[d] = "serving" => sock = d /\ d \in listening
    /\ dpc[d] = "cleared" => sock = None

(***************************************************************************)
(* "the file left here is a leftover from one that died": what the daemon  *)
(* with the lock is about to unlink was bound by a daemon that has died.   *)
(***************************************************************************)
UnlinksOnlyLeftovers == \A d \in Runners :
    dpc[d] = "locked" /\ sock # None => sock \in died

(***************************************************************************)
(* A spawn that loses the race leaves its runner to a winner: a runner     *)
(* waits for a daemon that is not coming only after some daemon died.      *)
(***************************************************************************)
StrandedOnlyByDeath == \A r \in Runners : Stranded(r) => died # {}

(***************************************************************************)
(* ensureCoordinatorRunning returns, with a socket or with an error.       *)
(***************************************************************************)
RunnerSettles == \A r \in Runners :
    rpc[r] = "probing" ~> rpc[r] \in {"ready", "failed"}

(***************************************************************************)
(* Where a daemon is on its way, and no dead one still has the lock, every *)
(* waiting runner is served unless another daemon dies: in particular the  *)
(* socket file a dead daemon left on disk stands in nobody's way.          *)
(***************************************************************************)
ServedUnlessDeath == \A r \in Patient, n \in 0 .. MaxDeaths :
    /\ rpc[r] = "waiting" /\ ~Stranded(r)
    /\ Cardinality(died) = n /\ lock \notin died
    ~> rpc[r] = "ready" \/ Cardinality(died) > n

--------------------------------------------------------------------------------
\* The inductive invariant behind the safety properties.

\* The daemons past lock_instance hold the lock, and only they, or a dead one
\* the kernel has not cleaned up after, do.
LockMatchesDaemon ==
    /\ \A d \in Runners : dpc[d] \in Owning => lock = d
    /\ lock # None => dpc[lock] \in Owning \cup {"dying"}

\* A socket file was bound by a daemon that serves or has died.
SocketWasBound == sock # None => dpc[sock] \in {"serving", "dying"}

\* What is known of a daemon that is not running.
NotRunning == \A d \in Runners :
    /\ rpc[d] \in {"probing", "spawning"} => dpc[d] = "none"
    /\ rpc[d] = "waiting" => dpc[d] # "none"
    /\ dpc[d] = "dying" => d \in died
    /\ dpc[d] = "exited" /\ died = {} => lock # None

(***************************************************************************)
(* Inductive invariant: the safety properties above follow from it, and    *)
(* every step of a runner, a daemon or the kernel preserves it.            *)
(***************************************************************************)
IInv ==
    /\ TypeOK
    /\ LockMatchesDaemon
    /\ ServerOwnsSocket
    /\ SocketWasBound
    /\ NotRunning
================================================================================
