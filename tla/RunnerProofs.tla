------------------------------ MODULE RunnerProofs ------------------------------
(***************************************************************************)
(* Proofs that a runner reports its test's result and gives its leases     *)
(* back, for any number of fixtures and of coordinator restarts.           *)
(***************************************************************************)
EXTENDS Runner, TLAPS

\* A runner that has just started has no leases and no result.
LEMMA InitIInv == Init => IInv
<1> SUFFICES ASSUME Init PROVE IInv
  OBVIOUS
<1>1. TypeOK
  <2>1. coord \in [Fixtures -> {"none", "pending", "succeeded", "failed",
                               "released", "forgotten"}]
    BY DEF Init
  <2>2. next \in 1 .. N + 1 /\ restarts \in 0 .. MaxRestarts
    BY NAssumption, MaxRestartsAssumption DEF Init
  <2>3. code \in ExitCodes /\ verdict \in {NotRun} \cup ExitCodes
    BY DEF Init, ExitCodes
  <2> QED
    BY <2>2, <2>3 DEF Init, TypeOK
<1>2. BeforeResult
  BY DEF Init, BeforeResult
<1>3. AfterResult /\ SuccessIsTheTests /\ ExitedReturned
  BY DEF Init, AfterResult, SuccessIsTheTests, ExitedReturned
<1>4. CoordinatorAgrees
  BY DEF Init, CoordinatorAgrees
<1> QED
  BY <1>1, <1>2, <1>3, <1>4 DEF IInv

\* No step of the runner or of the coordinator breaks the agreement of leases,
\* loops, results and what the coordinator knows.
LEMMA NextIInv == IInv /\ [Next]_vars => IInv'
<1> SUFFICES ASSUME IInv, [Next]_vars PROVE IInv'
  OBVIOUS
<1> USE NAssumption, TestCodesAssumption, MaxRestartsAssumption
    DEF Fixtures, ExitCodes, NotRun
<1>1. ASSUME UsageError PROVE IInv'
  <2>1. TypeOK'
    BY <1>1 DEF IInv, TypeOK, UsageError
  <2>2. BeforeResult'
    BY <1>1 DEF BeforeResult, UsageError
  <2>3. AfterResult'
    BY <1>1 DEF AfterResult, UsageError
  <2>4. SuccessIsTheTests'
    BY <1>1 DEF IInv, BeforeResult, SuccessIsTheTests, UsageError
  <2>5. ExitedReturned'
    BY <1>1 DEF IInv, BeforeResult, ExitedReturned, UsageError
  <2>6. CoordinatorAgrees'
    BY <1>1 DEF IInv, CoordinatorAgrees, UsageError
  <2> QED
    BY <2>1, <2>2, <2>3, <2>4, <2>5, <2>6 DEF IInv
<1>2. ASSUME SetupFails PROVE IInv'
  <2>1. TypeOK'
    BY <1>2 DEF IInv, TypeOK, SetupFails
  <2>2. BeforeResult'
    BY <1>2 DEF BeforeResult, SetupFails
  <2>3. AfterResult'
    BY <1>2 DEF IInv, BeforeResult, AfterResult, SetupFails
  <2>4. SuccessIsTheTests'
    BY <1>2 DEF SuccessIsTheTests, SetupFails
  <2>5. ExitedReturned'
    BY <1>2 DEF ExitedReturned, SetupFails
  <2>6. CoordinatorAgrees'
    BY <1>2 DEF IInv, CoordinatorAgrees, SetupFails
  <2> QED
    BY <2>1, <2>2, <2>3, <2>4, <2>5, <2>6 DEF IInv
<1>3. ASSUME SetupDone PROVE IInv'
  <2>1. TypeOK'
    BY <1>3 DEF IInv, TypeOK, SetupDone, AtFixture
  <2>2. BeforeResult'
    BY <1>3 DEF IInv, BeforeResult, SetupDone, AtFixture
  <2>3. AfterResult'
    BY <1>3 DEF AfterResult, SetupDone, AtFixture
  <2>4. SuccessIsTheTests'
    BY <1>3 DEF SuccessIsTheTests, SetupDone, AtFixture
  <2>5. ExitedReturned'
    BY <1>3 DEF ExitedReturned, SetupDone, AtFixture
  <2>6. CoordinatorAgrees'
    BY <1>3 DEF IInv, CoordinatorAgrees, SetupDone
  <2> QED
    BY <2>1, <2>2, <2>3, <2>4, <2>5, <2>6 DEF IInv
<1>4. ASSUME TakeLeaseSucceeded PROVE IInv'
  <2>1. TypeOK'
    <3>1. next \in Fixtures /\ next + 1 \in 1 .. N + 1
      BY <1>4 DEF IInv, BeforeResult, TakeLeaseSucceeded
    <3>2. leases' \in SUBSET Fixtures
      BY <1>4, <3>1 DEF IInv, TypeOK, TakeLeaseSucceeded, Acquired
    <3>3. released' \in SUBSET leases' /\ keeping' \in SUBSET leases'
      BY <1>4 DEF IInv, TypeOK, TakeLeaseSucceeded, Acquired
    <3>4. next' \in 1 .. N + 1
      BY <1>4, <3>1 DEF TakeLeaseSucceeded, Acquired
    <3>5. pc' \in {"acquiring", "testing", "releasing"} /\ err' \in BOOLEAN
      BY <1>4 DEF IInv, TypeOK, TakeLeaseSucceeded, Acquired, AtFixture
    <3>6. coord' \in [Fixtures -> {"none", "pending", "succeeded", "failed",
                                    "released", "forgotten"}]
      BY <1>4 DEF IInv, TypeOK, TakeLeaseSucceeded
    <3>7. /\ code' \in ExitCodes /\ verdict' \in {NotRun} \cup ExitCodes
          /\ lost' \in SUBSET Fixtures /\ restarts' \in 0 .. MaxRestarts
      BY <1>4 DEF IInv, TypeOK, TakeLeaseSucceeded, Acquired
    <3> QED
      BY <3>2, <3>3, <3>4, <3>5, <3>6, <3>7 DEF TypeOK
  <2>2. BeforeResult'
    BY <1>4 DEF IInv, BeforeResult, TakeLeaseSucceeded, Acquired, AtFixture
  <2>3. AfterResult'
    BY <1>4 DEF IInv, BeforeResult, AfterResult, TakeLeaseSucceeded, Acquired,
       AtFixture
  <2>4. CoordinatorAgrees'
    BY <1>4 DEF IInv, TypeOK, BeforeResult, CoordinatorAgrees,
       TakeLeaseSucceeded, Acquired
  <2>5. SuccessIsTheTests'
    BY <1>4 DEF SuccessIsTheTests, TakeLeaseSucceeded, Acquired, AtFixture
  <2>6. ExitedReturned'
    BY <1>4 DEF ExitedReturned, TakeLeaseSucceeded, Acquired, AtFixture
  <2> QED
    BY <2>1, <2>2, <2>3, <2>4, <2>5, <2>6 DEF IInv
<1>5. ASSUME TakeLeaseFailed PROVE IInv'
  <2>1. TypeOK'
    BY <1>5 DEF IInv, TypeOK, TakeLeaseFailed, Fail
  <2>2. BeforeResult'
    BY <1>5 DEF BeforeResult, TakeLeaseFailed, Fail
  <2>3. AfterResult'
    BY <1>5 DEF IInv, BeforeResult, AfterResult, TakeLeaseFailed, Fail
  <2>4. CoordinatorAgrees'
    BY <1>5 DEF IInv, BeforeResult, CoordinatorAgrees, TakeLeaseFailed, Fail
  <2>5. SuccessIsTheTests'
    BY <1>5 DEF SuccessIsTheTests, TakeLeaseFailed, Fail
  <2>6. ExitedReturned'
    BY <1>5 DEF ExitedReturned, TakeLeaseFailed, Fail
  <2> QED
    BY <2>1, <2>2, <2>3, <2>4, <2>5, <2>6 DEF IInv
<1>6. ASSUME TakeLeaseBroken PROVE IInv'
  <2>1. TypeOK'
    <3>1. next \in Fixtures /\ lost \in SUBSET Fixtures
      BY <1>6 DEF IInv, TypeOK, BeforeResult, TakeLeaseBroken
    <3>2. lost' \in SUBSET Fixtures
      <4>1. lost' = lost \/ lost' = lost \cup {next}
        BY <1>6 DEF TakeLeaseBroken
      <4> HIDE DEF Fixtures
      <4> QED
        BY <3>1, <4>1
    <3>3. coord' \in [Fixtures -> {"none", "pending", "succeeded", "failed",
                                    "released", "forgotten"}]
      BY <1>6 DEF IInv, TypeOK, TakeLeaseBroken
    <3>4. pc' = "releasing" /\ err' = TRUE /\ UNCHANGED <<next, leases, released,
                                         keeping, code, verdict, restarts>>
      BY <1>6 DEF TakeLeaseBroken, Fail
    <3> QED
      BY <3>2, <3>3, <3>4 DEF IInv, TypeOK
  <2>2. BeforeResult'
    BY <1>6 DEF BeforeResult, TakeLeaseBroken, Fail
  <2>3. AfterResult'
    BY <1>6 DEF IInv, BeforeResult, AfterResult, TakeLeaseBroken, Fail
  <2>4. CoordinatorAgrees'
    BY <1>6 DEF IInv, TypeOK, CoordinatorAgrees, TakeLeaseBroken, Fail
  <2>5. SuccessIsTheTests'
    BY <1>6 DEF SuccessIsTheTests, TakeLeaseBroken, Fail
  <2>6. ExitedReturned'
    BY <1>6 DEF ExitedReturned, TakeLeaseBroken, Fail
  <2> QED
    BY <2>1, <2>2, <2>3, <2>4, <2>5, <2>6 DEF IInv
<1>7. ASSUME TakeLeasePending PROVE IInv'
  <2>1. TypeOK'
    BY <1>7 DEF IInv, TypeOK, TakeLeasePending
  <2>2. BeforeResult'
    BY <1>7 DEF IInv, BeforeResult, TakeLeasePending
  <2>3. AfterResult'
    BY <1>7 DEF AfterResult, TakeLeasePending
  <2>4. CoordinatorAgrees'
    BY <1>7 DEF IInv, BeforeResult, CoordinatorAgrees, TakeLeasePending
  <2>5. SuccessIsTheTests'
    BY <1>7 DEF SuccessIsTheTests, TakeLeasePending
  <2>6. ExitedReturned'
    BY <1>7 DEF ExitedReturned, TakeLeasePending
  <2> QED
    BY <2>1, <2>2, <2>3, <2>4, <2>5, <2>6 DEF IInv
<1>8. ASSUME PollSucceeded PROVE IInv'
  <2>1. TypeOK'
    <3>1. next \in Fixtures /\ next + 1 \in 1 .. N + 1
      BY <1>8 DEF IInv, BeforeResult, PollSucceeded
    <3>2. leases' \in SUBSET Fixtures
      BY <1>8, <3>1 DEF IInv, TypeOK, PollSucceeded, Acquired
    <3>3. released' \in SUBSET leases' /\ keeping' \in SUBSET leases'
      BY <1>8 DEF IInv, TypeOK, PollSucceeded, Acquired
    <3>4. next' \in 1 .. N + 1
      BY <1>8, <3>1 DEF PollSucceeded, Acquired
    <3>5. pc' \in {"acquiring", "testing", "releasing"} /\ err' \in BOOLEAN
      BY <1>8 DEF IInv, TypeOK, PollSucceeded, Acquired, AtFixture
    <3>6. coord' \in [Fixtures -> {"none", "pending", "succeeded", "failed",
                                    "released", "forgotten"}]
      BY <1>8 DEF IInv, TypeOK, PollSucceeded
    <3>7. /\ code' \in ExitCodes /\ verdict' \in {NotRun} \cup ExitCodes
          /\ lost' \in SUBSET Fixtures /\ restarts' \in 0 .. MaxRestarts
      BY <1>8 DEF IInv, TypeOK, PollSucceeded, Acquired
    <3> QED
      BY <3>2, <3>3, <3>4, <3>5, <3>6, <3>7 DEF TypeOK
  <2>2. BeforeResult'
    BY <1>8 DEF IInv, BeforeResult, PollSucceeded, Acquired, AtFixture
  <2>3. AfterResult'
    BY <1>8 DEF IInv, BeforeResult, AfterResult, PollSucceeded, Acquired,
       AtFixture
  <2>4. CoordinatorAgrees'
    BY <1>8 DEF IInv, CoordinatorAgrees, PollSucceeded, Acquired
  <2>5. SuccessIsTheTests'
    BY <1>8 DEF SuccessIsTheTests, PollSucceeded, Acquired, AtFixture
  <2>6. ExitedReturned'
    BY <1>8 DEF ExitedReturned, PollSucceeded, Acquired, AtFixture
  <2> QED
    BY <2>1, <2>2, <2>3, <2>4, <2>5, <2>6 DEF IInv
<1>9. ASSUME PollFailed PROVE IInv'
  <2>1. TypeOK'
    BY <1>9 DEF IInv, TypeOK, PollFailed, Fail
  <2>2. BeforeResult'
    BY <1>9 DEF BeforeResult, PollFailed, Fail
  <2>3. AfterResult'
    BY <1>9 DEF IInv, BeforeResult, AfterResult, PollFailed, Fail
  <2>4. SuccessIsTheTests'
    BY <1>9 DEF SuccessIsTheTests, PollFailed, Fail
  <2>5. ExitedReturned'
    BY <1>9 DEF ExitedReturned, PollFailed, Fail
  <2>6. CoordinatorAgrees'
    BY <1>9 DEF IInv, CoordinatorAgrees, PollFailed, Fail
  <2> QED
    BY <2>1, <2>2, <2>3, <2>4, <2>5, <2>6 DEF IInv
<1>10. ASSUME PollGivesUp PROVE IInv'
  <2>1. TypeOK'
    BY <1>10 DEF IInv, TypeOK, PollGivesUp, Fail
  <2>2. BeforeResult'
    BY <1>10 DEF BeforeResult, PollGivesUp, Fail
  <2>3. AfterResult'
    BY <1>10 DEF IInv, BeforeResult, AfterResult, PollGivesUp, Fail
  <2>4. SuccessIsTheTests'
    BY <1>10 DEF SuccessIsTheTests, PollGivesUp, Fail
  <2>5. ExitedReturned'
    BY <1>10 DEF ExitedReturned, PollGivesUp, Fail
  <2>6. CoordinatorAgrees'
    BY <1>10 DEF IInv, CoordinatorAgrees, PollGivesUp, Fail
  <2> QED
    BY <2>1, <2>2, <2>3, <2>4, <2>5, <2>6 DEF IInv
<1>11. ASSUME NEW c \in TestCodes, TestEnds(c) PROVE IInv'
  <2>1. TypeOK'
    BY <1>11 DEF IInv, TypeOK, TestEnds
  <2>2. BeforeResult'
    BY <1>11 DEF BeforeResult, TestEnds
  <2>3. AfterResult'
    BY <1>11 DEF IInv, BeforeResult, AfterResult, TestEnds
  <2>4. SuccessIsTheTests'
    BY <1>11 DEF SuccessIsTheTests, TestEnds
  <2>5. ExitedReturned'
    BY <1>11 DEF ExitedReturned, TestEnds
  <2>6. CoordinatorAgrees'
    BY <1>11 DEF IInv, CoordinatorAgrees, TestEnds
  <2> QED
    BY <2>1, <2>2, <2>3, <2>4, <2>5, <2>6 DEF IInv
<1>12. ASSUME TestNotStarted PROVE IInv'
  <2>1. TypeOK'
    BY <1>12 DEF IInv, TypeOK, TestNotStarted, Fail
  <2>2. BeforeResult'
    BY <1>12 DEF BeforeResult, TestNotStarted, Fail
  <2>3. AfterResult'
    BY <1>12 DEF IInv, BeforeResult, AfterResult, TestNotStarted, Fail
  <2>4. SuccessIsTheTests'
    BY <1>12 DEF SuccessIsTheTests, TestNotStarted, Fail
  <2>5. ExitedReturned'
    BY <1>12 DEF ExitedReturned, TestNotStarted, Fail
  <2>6. CoordinatorAgrees'
    BY <1>12 DEF IInv, CoordinatorAgrees, TestNotStarted, Fail
  <2> QED
    BY <2>1, <2>2, <2>3, <2>4, <2>5, <2>6 DEF IInv
<1>13. ASSUME NEW l \in Fixtures, ReleaseNext(l) PROVE IInv'
  <2>1. TypeOK'
    <3>1. lost' \in SUBSET Fixtures
      BY <1>13 DEF IInv, TypeOK, ReleaseNext
    <3>2. released' \in SUBSET leases /\ keeping' \in SUBSET leases
      BY <1>13 DEF IInv, TypeOK, ReleaseNext
    <3>3. coord' \in [Fixtures -> {"none", "pending", "succeeded", "failed",
                                    "released", "forgotten"}]
      BY <1>13 DEF IInv, TypeOK, ReleaseNext
    <3>4. UNCHANGED <<pc, next, leases, err, code, verdict, restarts>>
      BY <1>13 DEF ReleaseNext
    <3> QED
      BY <3>1, <3>2, <3>3, <3>4 DEF IInv, TypeOK
  <2>2. BeforeResult'
    BY <1>13 DEF BeforeResult, ReleaseNext
  <2>3. CoordinatorAgrees'
    BY <1>13 DEF IInv, TypeOK, CoordinatorAgrees, ReleaseNext
  <2>4. ExitedReturned'
    BY <1>13 DEF ExitedReturned, ReleaseNext
  <2>5. AfterResult' /\ SuccessIsTheTests'
    BY <1>13 DEF IInv, AfterResult, SuccessIsTheTests, ReleaseNext
  <2> QED
    BY <2>1, <2>2, <2>3, <2>4, <2>5 DEF IInv
<1>14. ASSUME Exit PROVE IInv'
  <2>1. TypeOK'
    BY <1>14 DEF IInv, TypeOK, Exit
  <2>2. BeforeResult'
    BY <1>14 DEF BeforeResult, Exit
  <2>3. AfterResult'
    BY <1>14 DEF AfterResult, Exit
  <2>4. SuccessIsTheTests'
    BY <1>14 DEF IInv, TypeOK, AfterResult, SuccessIsTheTests, Exit
  <2>5. ExitedReturned'
    BY <1>14 DEF ExitedReturned, Exit
  <2>6. CoordinatorAgrees'
    BY <1>14 DEF IInv, CoordinatorAgrees, Exit
  <2> QED
    BY <2>1, <2>2, <2>3, <2>4, <2>5, <2>6 DEF IInv
<1>15. ASSUME Killed PROVE IInv'
  <2>1. TypeOK'
    BY <1>15 DEF IInv, TypeOK, Killed
  <2>2. BeforeResult'
    BY <1>15 DEF BeforeResult, Killed
  <2>3. AfterResult'
    BY <1>15 DEF AfterResult, Killed
  <2>4. SuccessIsTheTests'
    BY <1>15 DEF SuccessIsTheTests, Killed
  <2>5. ExitedReturned'
    BY <1>15 DEF ExitedReturned, Killed
  <2>6. CoordinatorAgrees'
    BY <1>15 DEF IInv, CoordinatorAgrees, Killed
  <2> QED
    BY <2>1, <2>2, <2>3, <2>4, <2>5, <2>6 DEF IInv
<1>16. ASSUME NEW l \in Fixtures, CoordinatorFinishes(l) PROVE IInv'
  <2>1. TypeOK'
    BY <1>16 DEF IInv, TypeOK, CoordinatorFinishes, runner
  <2>2. CoordinatorAgrees'
    BY <1>16 DEF IInv, CoordinatorAgrees, CoordinatorFinishes, runner
  <2>3. BeforeResult' /\ AfterResult' /\ SuccessIsTheTests' /\ ExitedReturned'
    BY <1>16 DEF IInv, BeforeResult, AfterResult, SuccessIsTheTests,
       ExitedReturned, CoordinatorFinishes, runner
  <2> QED
    BY <2>1, <2>2, <2>3 DEF IInv
<1>17. ASSUME CoordinatorRestarts PROVE IInv'
  <2>1. TypeOK'
    BY <1>17 DEF IInv, TypeOK, CoordinatorRestarts, runner
  <2>2. CoordinatorAgrees'
    BY <1>17 DEF IInv, TypeOK, CoordinatorAgrees, CoordinatorRestarts, runner
  <2>3. BeforeResult' /\ AfterResult' /\ SuccessIsTheTests' /\ ExitedReturned'
    BY <1>17 DEF IInv, BeforeResult, AfterResult, SuccessIsTheTests,
       ExitedReturned, CoordinatorRestarts, runner
  <2> QED
    BY <2>1, <2>2, <2>3 DEF IInv
<1>18. CASE UNCHANGED vars
  BY <1>18 DEF vars, IInv, TypeOK, BeforeResult, AfterResult, CoordinatorAgrees,
     SuccessIsTheTests, ExitedReturned
<1> QED
  BY <1>1, <1>2, <1>3, <1>4, <1>5, <1>6, <1>7, <1>8, <1>9, <1>10, <1>11, <1>12,
     <1>13, <1>14, <1>15, <1>16, <1>17, <1>18 DEF Next

\* The invariant holds of every state a runner can be in.
LEMMA Inductive == Spec => []IInv
  BY InitIInv, NextIInv, PTL DEF Spec

\* The runner's state is well typed: loops and releases are of acquired leases.
THEOREM TypeCorrect == Spec => []TypeOK
<1>1. IInv => TypeOK
  BY DEF IInv
<1> QED
  BY <1>1, Inductive, PTL

\* Run: exit status zero means that the test ran and succeeded, and only that.
THEOREM ExitStatusCorrect == Spec => []SuccessIsTheTests
<1>1. IInv => SuccessIsTheTests
  BY DEF IInv
<1> QED
  BY <1>1, Inductive, PTL

\* execute: the test runs with all its fixtures leased and kept alive.
THEOREM TestLeasesCorrect == Spec => []TestRunsOnLiveLeases
<1>1. IInv => TestRunsOnLiveLeases
  BY DEF IInv, BeforeResult, CoordinatorAgrees, TestRunsOnLiveLeases
<1> QED
  BY <1>1, Inductive, PTL

\* The deferred release: the coordinator keeps no lease of a runner that exited,
\* but for lost calls and a lease it gave up polling for.
THEOREM ReleaseCorrect == Spec => []AcquiredLeasesReturned
<1>1. IInv => AcquiredLeasesReturned
  BY DEF IInv, ExitedReturned, CoordinatorAgrees, AcquiredLeasesReturned
<1> QED
  BY <1>1, Inductive, PTL
================================================================================
