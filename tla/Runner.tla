--------------------------------- MODULE Runner ---------------------------------
(***************************************************************************)
(* One invocation of the test runner, with the run command, as the rule's  *)
(* launcher calls it: execute in run.go, with acquireLease and the         *)
(* keepalive and release of leases in lease.go, and Run's exit code.       *)
(*                                                                         *)
(* Fixtures are leased one after the other, in the order of the run        *)
(* configuration; a lease is named by its fixture. The coordinator is what *)
(* the runner can observe of it: answers, errors, answers that are lost,   *)
(* and leases it no longer knows after a restart. The runner is written    *)
(* for coordinators that provision in the background and answer PENDING.   *)
(***************************************************************************)
EXTENDS Integers

CONSTANTS
    N,           \* number of fixtures of the test
    TestCodes,   \* what ExitCode() of the test may be, -1 when a signal ended it
    MaxRestarts  \* bound on coordinator restarts

ExitCodes == (-1) .. 255

ASSUME NAssumption == N \in Nat
ASSUME TestCodesAssumption == TestCodes \subseteq ExitCodes
ASSUME MaxRestartsAssumption == MaxRestarts \in Nat

Fixtures == 1 .. N
NotRun == -2  \* verdict of a test that has not ended

VARIABLES
    pc,        \* where execute is
    next,      \* fixture being leased
    leases,    \* the leases slice, with every lease acquireLease returned
    released,  \* leases releaseLease was called for
    keeping,   \* leases with a running keepaliveLoop
    err,       \* whether execute returns an error
    code,      \* exit code execute, then Run, returns
    verdict,   \* exit code of the test (history)
    coord,     \* what the coordinator knows of each lease
    lost,      \* leases the coordinator granted or should have released in a
               \* call whose answer or request was lost (history)
    restarts   \* coordinator restarts so far

runner == <<pc, next, leases, released, keeping, err, code, verdict>>
vars == <<pc, next, leases, released, keeping, err, code, verdict,
          coord, lost, restarts>>

TypeOK ==
    /\ pc \in {"setup", "acquiring", "polling", "testing", "releasing",
               "exited", "killed"}
    /\ next \in 1 .. N + 1
    /\ leases \in SUBSET Fixtures
    /\ released \in SUBSET leases
    /\ keeping \in SUBSET leases
    /\ err \in BOOLEAN
    /\ code \in ExitCodes
    /\ verdict \in {NotRun} \cup ExitCodes
    /\ coord \in [Fixtures -> {"none", "pending", "succeeded", "failed",
                               "released", "forgotten"}]
    /\ lost \in SUBSET Fixtures
    /\ restarts \in 0 .. MaxRestarts

Init ==
    /\ pc = "setup"
    /\ next = 1
    /\ leases = {} /\ released = {} /\ keeping = {}
    /\ err = FALSE /\ code = 0 /\ verdict = NotRun
    /\ coord = [l \in Fixtures |-> "none"]
    /\ lost = {} /\ restarts = 0

--------------------------------------------------------------------------------
\* Before the first lease.

\* A usage error: the run command's body never starts.
UsageError ==
    /\ pc = "setup"
    /\ pc' = "exited"
    /\ code' = 2
    /\ UNCHANGED <<next, leases, released, keeping, err, verdict, coord, lost, restarts>>

\* The configuration, a runfile, the workspace key, the coordinator or the
\* connection is not to be had.
SetupFails ==
    /\ pc = "setup"
    /\ pc' = "releasing"
    /\ err' = TRUE
    /\ UNCHANGED <<next, leases, released, keeping, code, verdict, coord, lost, restarts>>

\* Where execute goes on once the fixtures before f are leased.
AtFixture(f) == IF f > N THEN "testing" ELSE "acquiring"

SetupDone ==
    /\ pc = "setup"
    /\ pc' = AtFixture(1)
    /\ UNCHANGED <<next, leases, released, keeping, err, code, verdict,
                   coord, lost, restarts>>

--------------------------------------------------------------------------------
\* acquireLease and what execute does with its result.

\* execute returns with an error, to its deferred release.
Fail ==
    /\ pc' = "releasing"
    /\ err' = TRUE
    /\ UNCHANGED <<next, leases, released, keeping, code, verdict>>

\* Fault: the lease is appended only after its outputs were parsed.
AppendAfterParsing ==
    /\ keeping' = keeping \cup {next}
    /\ \/ /\ leases' = leases \cup {next}
          /\ next' = next + 1
          /\ pc' = AtFixture(next + 1)
          /\ UNCHANGED err
       \/ /\ pc' = "releasing"
          /\ err' = TRUE
          /\ UNCHANGED <<next, leases>>
    /\ UNCHANGED <<released, code, verdict>>

\* Fault: the keepalive loop is not started.
AcquiredSilently ==
    /\ leases' = leases \cup {next}
    /\ next' = next + 1
    /\ pc' = AtFixture(next + 1)
    /\ UNCHANGED <<released, keeping, err, code, verdict>>

\* The lease succeeded: its keepalive loop starts, execute appends it and parses
\* the ports among its outputs, which may be malformed.
Acquired ==
    /\ leases' = leases \cup {next}
    /\ keeping' = keeping \cup {next}
    /\ \/ /\ next' = next + 1
          /\ pc' = AtFixture(next + 1)
          /\ UNCHANGED err
       \/ /\ pc' = "releasing"
          /\ err' = TRUE
          /\ UNCHANGED next
    /\ UNCHANGED <<released, code, verdict>>

TakeLeaseSucceeded ==
    /\ pc = "acquiring"
    /\ coord' = [coord EXCEPT ![next] = "succeeded"]
    /\ Acquired
    /\ UNCHANGED <<lost, restarts>>

\* FAILED, or a status the runner does not know.
TakeLeaseFailed ==
    /\ pc = "acquiring"
    /\ coord' = [coord EXCEPT ![next] = "failed"]
    /\ Fail
    /\ UNCHANGED <<lost, restarts>>

\* The call fails; the coordinator may have granted the lease all the same.
TakeLeaseBroken ==
    /\ pc = "acquiring"
    /\ \/ UNCHANGED <<coord, lost>>
       \/ /\ coord' = [coord EXCEPT ![next] = "succeeded"]
          /\ lost' = lost \cup {next}
    /\ Fail
    /\ UNCHANGED restarts

TakeLeasePending ==
    /\ pc = "acquiring"
    /\ pc' = "polling"
    /\ coord' = [coord EXCEPT ![next] = "pending"]
    /\ UNCHANGED <<next, leases, released, keeping, err, code, verdict, lost, restarts>>

\* Status answers with a terminal state, or that it does not know the lease.
\* PENDING only goes on polling.
PollSucceeded ==
    /\ pc = "polling" /\ coord[next] = "succeeded"
    /\ Acquired
    /\ UNCHANGED <<coord, lost, restarts>>

PollFailed ==
    /\ pc = "polling" /\ coord[next] \in {"failed", "forgotten"}
    /\ Fail
    /\ UNCHANGED <<coord, lost, restarts>>

\* Fault: polling has no deadline.
PollForever == FALSE /\ UNCHANGED vars

\* The poll's deadline passes or a Status call fails. The lease is not released.
PollGivesUp ==
    /\ pc = "polling"
    /\ Fail
    /\ UNCHANGED <<coord, lost, restarts>>

--------------------------------------------------------------------------------
\* The test, the deferred release, the exit code.

\* The test ends; a JUnit report that cannot be written is only a warning.
TestEnds(c) ==
    /\ pc = "testing"
    /\ verdict' = c
    /\ code' = c
    /\ pc' = "releasing"
    /\ UNCHANGED <<next, leases, released, keeping, err, coord, lost, restarts>>

TestNotStarted ==
    /\ pc = "testing"
    /\ Fail
    /\ UNCHANGED <<coord, lost, restarts>>

\* releaseLease of the next lease in the slice: the loop is stopped, and one
\* attempt is made to tell the coordinator.
ReleaseNext(l) ==
    /\ pc = "releasing"
    /\ l \in leases \ released /\ \A m \in leases \ released : l <= m
    /\ keeping' = keeping \ {l}
    /\ released' = released \cup {l}
    /\ \/ /\ coord' = [coord EXCEPT ![l] = IF @ = "succeeded" THEN "released" ELSE @]
          /\ UNCHANGED lost
       \/ /\ lost' = lost \cup {l}
          /\ UNCHANGED coord
    /\ UNCHANGED <<pc, next, leases, err, code, verdict, restarts>>

\* Fault: the error is printed and the code returned as it is.
ExitAsIs ==
    /\ pc = "releasing" /\ released = leases
    /\ pc' = "exited"
    /\ UNCHANGED <<next, leases, released, keeping, err, code, verdict, coord, lost, restarts>>

\* Fault: an error ends the process at once, without the deferred release.
ExitOnError ==
    /\ pc = "releasing" /\ (err \/ released = leases)
    /\ pc' = "exited"
    /\ code' = IF err /\ code = 0 THEN 1 ELSE code
    /\ keeping' = {}
    /\ UNCHANGED <<next, leases, released, err, verdict, coord, lost, restarts>>

\* Run turns an error without an exit code into exit code 1.
Exit ==
    /\ pc = "releasing" /\ released = leases
    /\ pc' = "exited"
    /\ code' = IF err /\ code = 0 THEN 1 ELSE code
    /\ UNCHANGED <<next, leases, released, keeping, err, verdict, coord, lost, restarts>>

--------------------------------------------------------------------------------
\* Around the runner.

\* Bazel kills the runner, with its keepalive loops.
Killed ==
    /\ pc \notin {"exited", "killed"}
    /\ pc' = "killed"
    /\ keeping' = {}
    /\ UNCHANGED <<next, leases, released, err, code, verdict, coord, lost, restarts>>

\* A coordinator that answered PENDING finishes provisioning.
CoordinatorFinishes(l) ==
    /\ coord[l] = "pending"
    /\ \E s \in {"succeeded", "failed"} : coord' = [coord EXCEPT ![l] = s]
    /\ UNCHANGED <<runner, lost, restarts>>

\* The coordinator dies and another one takes over the socket, without leases.
CoordinatorRestarts ==
    /\ restarts < MaxRestarts
    /\ restarts' = restarts + 1
    /\ coord' = [l \in Fixtures |-> IF coord[l] = "none" THEN "none" ELSE "forgotten"]
    /\ UNCHANGED <<runner, lost>>

Next ==
    \/ UsageError \/ SetupFails \/ SetupDone
    \/ TakeLeaseSucceeded \/ TakeLeaseFailed \/ TakeLeaseBroken \/ TakeLeasePending
    \/ PollSucceeded \/ PollFailed \/ PollGivesUp
    \/ \E c \in TestCodes : TestEnds(c)
    \/ TestNotStarted
    \/ \E l \in Fixtures : ReleaseNext(l)
    \/ Exit
    \/ Killed
    \/ \E l \in Fixtures : CoordinatorFinishes(l)
    \/ CoordinatorRestarts

Spec == Init /\ [][Next]_vars

(***************************************************************************)
(* Polling has a deadline, a release call one of five seconds, and Run's   *)
(* own code runs on. TakeLease has no deadline and a test may run for ever.*)
(***************************************************************************)
Fairness ==
    /\ WF_vars(PollSucceeded \/ PollFailed \/ PollGivesUp)
    /\ \A l \in Fixtures : WF_vars(ReleaseNext(l))
    /\ WF_vars(Exit)

FairSpec == Spec /\ Fairness

--------------------------------------------------------------------------------
\* Properties.

(***************************************************************************)
(* Run: the process succeeds exactly when the test ran and succeeded, on   *)
(* whichever of the many error paths it came to its end. An exit status    *)
(* has eight bits.                                                         *)
(***************************************************************************)
SuccessIsTheTests == pc = "exited" => (code % 256 = 0 <=> verdict = 0)

(***************************************************************************)
(* execute: while the test runs, every fixture of it is leased and kept    *)
(* alive, and the coordinator knows the lease unless it was restarted.     *)
(***************************************************************************)
TestRunsOnLiveLeases == pc = "testing" =>
    /\ keeping = Fixtures
    /\ \A l \in Fixtures :
           coord[l] = "succeeded" \/ (coord[l] = "forgotten" /\ restarts > 0)

(***************************************************************************)
(* The deferred release: however execute returned, the coordinator is left *)
(* with no lease of this runner, except those whose grant or release was   *)
(* lost in a call and the one lease the runner gave up polling for.        *)
(***************************************************************************)
AcquiredLeasesReturned == pc = "exited" =>
    \A l \in Fixtures : coord[l] \in {"pending", "succeeded"} =>
        l \in lost \/ (l = next /\ l \notin leases)

(***************************************************************************)
(* acquireLease and releaseLease: polling and giving leases back end, also *)
(* when the coordinator is gone.                                           *)
(***************************************************************************)
WaitsEnd ==
    pc \in {"polling", "releasing"} ~> pc \notin {"polling", "releasing"}

--------------------------------------------------------------------------------
\* The inductive invariant behind the safety properties.

\* Up to the test, execute holds the leases of the fixtures it has passed, with
\* their loops running, and has no result yet.
BeforeResult ==
    /\ pc \in {"setup", "acquiring", "polling"} => leases = 1 .. next - 1
    /\ pc = "setup" => next = 1
    /\ pc \in {"acquiring", "polling"} => next \in Fixtures
    /\ pc = "testing" => leases = Fixtures
    /\ pc \in {"setup", "acquiring", "polling", "testing"} =>
           released = {} /\ keeping = leases /\ ~err /\ code = 0 /\ verdict = NotRun

\* On the way out, the result is either an error or the test's.
AfterResult ==
    /\ pc = "releasing" /\ err => code = 0 /\ verdict = NotRun
    /\ pc = "releasing" /\ ~err => code = verdict

\* The coordinator knows the leases in the slice, those given back are not with
\* it any more, and it knows no other lease than the one being acquired.
CoordinatorAgrees ==
    /\ \A l \in leases \ released :
           coord[l] = "succeeded" \/ (coord[l] = "forgotten" /\ restarts > 0)
    /\ \A l \in released : coord[l] \in {"released", "forgotten"} \/ l \in lost
    /\ \A l \in Fixtures \ leases : l # next => coord[l] = "none"

\* The deferred function has run when the process ends by itself.
ExitedReturned == pc = "exited" => released = leases

(***************************************************************************)
(* Inductive invariant: what execute has acquired, what the coordinator    *)
(* knows of it, and what the runner will report.                           *)
(***************************************************************************)
IInv ==
    /\ TypeOK
    /\ BeforeResult
    /\ AfterResult
    /\ CoordinatorAgrees
    /\ SuccessIsTheTests
    /\ ExitedReturned
================================================================================
