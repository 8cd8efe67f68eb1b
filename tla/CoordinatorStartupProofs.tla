------------------------ MODULE CoordinatorStartupProofs ------------------------
(***************************************************************************)
(* Proofs that the start-up protocol is safe for any number of runners and *)
(* of deaths, whether or not daemons start promptly.                       *)
(***************************************************************************)
EXTENDS CoordinatorStartup, TLAPS

\* Before the first runner probes, there is no daemon, lock or socket file.
LEMMA InitIInv == Init => IInv
  BY DEF Init, IInv, TypeOK, LockMatchesDaemon, ServerOwnsSocket,
     SocketWasBound, NotRunning, Owning

\* No step of a runner or of a daemon, and no death, breaks the agreement of
\* lock, socket file and daemons.
LEMMA NextIInv == IInv /\ [Next]_vars => IInv'
<1> SUFFICES ASSUME IInv, [Next]_vars PROVE IInv'
  OBVIOUS
<1> USE RunnersAssumption DEF Alive, Owning
<1>1. ASSUME NEW r \in Runners, Probe(r) PROVE IInv'
  <2>1. TypeOK'
    BY <1>1 DEF IInv, TypeOK, Probe
  <2>2. NotRunning'
    BY <1>1 DEF IInv, NotRunning, Probe
  <2>3. LockMatchesDaemon' /\ ServerOwnsSocket' /\ SocketWasBound'
    BY <1>1 DEF IInv, LockMatchesDaemon, ServerOwnsSocket, SocketWasBound, Probe
  <2> QED
    BY <2>1, <2>2, <2>3 DEF IInv
<1>2. ASSUME NEW r \in Runners, SpawnCoordinator(r) PROVE IInv'
  <2>1. TypeOK'
    BY <1>2 DEF IInv, TypeOK, SpawnCoordinator
  <2>2. LockMatchesDaemon'
    BY <1>2 DEF IInv, LockMatchesDaemon, NotRunning, SpawnCoordinator
  <2>3. ServerOwnsSocket'
    BY <1>2 DEF IInv, ServerOwnsSocket, SpawnCoordinator
  <2>4. SocketWasBound'
    BY <1>2 DEF IInv, SocketWasBound, NotRunning, SpawnCoordinator
  <2>5. NotRunning'
    BY <1>2 DEF IInv, TypeOK, NotRunning, SpawnCoordinator
  <2> QED
    BY <2>1, <2>2, <2>3, <2>4, <2>5 DEF IInv
<1>3. ASSUME NEW r \in Runners, EnsureFails(r) PROVE IInv'
  <2>1. TypeOK'
    BY <1>3 DEF IInv, TypeOK, EnsureFails
  <2>2. NotRunning'
    BY <1>3 DEF IInv, NotRunning, EnsureFails
  <2>3. LockMatchesDaemon' /\ ServerOwnsSocket' /\ SocketWasBound'
    BY <1>3 DEF IInv, LockMatchesDaemon, ServerOwnsSocket, SocketWasBound,
       EnsureFails
  <2> QED
    BY <2>1, <2>2, <2>3 DEF IInv
<1>4. ASSUME NEW r \in Runners, Poll(r) PROVE IInv'
  <2>1. TypeOK'
    BY <1>4 DEF IInv, TypeOK, Poll
  <2>2. NotRunning'
    BY <1>4 DEF IInv, NotRunning, Poll
  <2>3. LockMatchesDaemon' /\ ServerOwnsSocket' /\ SocketWasBound'
    BY <1>4 DEF IInv, LockMatchesDaemon, ServerOwnsSocket, SocketWasBound, Poll
  <2> QED
    BY <2>1, <2>2, <2>3 DEF IInv
<1>5. ASSUME NEW r \in Runners, WaitTimesOut(r) PROVE IInv'
  <2>1. TypeOK'
    BY <1>5 DEF IInv, TypeOK, WaitTimesOut
  <2>2. NotRunning'
    BY <1>5 DEF IInv, NotRunning, WaitTimesOut
  <2>3. LockMatchesDaemon' /\ ServerOwnsSocket' /\ SocketWasBound'
    BY <1>5 DEF IInv, LockMatchesDaemon, ServerOwnsSocket, SocketWasBound,
       WaitTimesOut
  <2> QED
    BY <2>1, <2>2, <2>3 DEF IInv
<1>6. ASSUME NEW r \in Runners, LockInstance(r) PROVE IInv'
  <2>1. TypeOK'
    BY <1>6 DEF IInv, TypeOK, LockInstance
  <2>2. LockMatchesDaemon'
    BY <1>6 DEF IInv, TypeOK, LockMatchesDaemon, LockInstance
  <2>3. ServerOwnsSocket'
    BY <1>6 DEF IInv, TypeOK, ServerOwnsSocket, LockInstance
  <2>4. SocketWasBound'
    BY <1>6 DEF IInv, TypeOK, SocketWasBound, LockInstance
  <2>5. NotRunning'
    BY <1>6 DEF IInv, TypeOK, NotRunning, LockInstance
  <2> QED
    BY <2>1, <2>2, <2>3, <2>4, <2>5 DEF IInv
<1>7. ASSUME NEW r \in Runners, RemoveSocket(r) PROVE IInv'
  <2>1. TypeOK'
    BY <1>7 DEF IInv, TypeOK, RemoveSocket
  <2>2. LockMatchesDaemon'
    BY <1>7 DEF IInv, LockMatchesDaemon, RemoveSocket
  <2>3. ServerOwnsSocket'
    BY <1>7 DEF IInv, LockMatchesDaemon, ServerOwnsSocket, RemoveSocket
  <2>4. SocketWasBound'
    BY <1>7 DEF SocketWasBound, RemoveSocket
  <2>5. NotRunning'
    BY <1>7 DEF IInv, NotRunning, RemoveSocket
  <2> QED
    BY <2>1, <2>2, <2>3, <2>4, <2>5 DEF IInv
<1>8. ASSUME NEW r \in Runners, Bind(r) PROVE IInv'
  <2>0. sock = None
    BY <1>8 DEF IInv, ServerOwnsSocket, Bind
  <2>1. TypeOK'
    BY <1>8 DEF IInv, TypeOK, Bind
  <2>2. LockMatchesDaemon'
    BY <1>8, <2>0 DEF IInv, TypeOK, LockMatchesDaemon, Bind, Owning
  <2>3. ServerOwnsSocket'
    BY <1>8, <2>0 DEF IInv, TypeOK, LockMatchesDaemon, ServerOwnsSocket, Bind
  <2>4. SocketWasBound'
    BY <1>8 DEF IInv, TypeOK, SocketWasBound, Bind
  <2>5. NotRunning'
    BY <1>8, <2>0 DEF IInv, TypeOK, NotRunning, Bind
  <2> QED
    BY <2>1, <2>2, <2>3, <2>4, <2>5 DEF IInv
<1>9. ASSUME NEW r \in Runners, Die(r) PROVE IInv'
  <2>1. TypeOK'
    BY <1>9 DEF IInv, TypeOK, Die
  <2>2. LockMatchesDaemon'
    BY <1>9 DEF IInv, LockMatchesDaemon, Die
  <2>3. ServerOwnsSocket'
    BY <1>9 DEF IInv, ServerOwnsSocket, Die
  <2>4. SocketWasBound'
    BY <1>9 DEF IInv, SocketWasBound, Die
  <2>5. NotRunning'
    BY <1>9 DEF IInv, NotRunning, Die
  <2> QED
    BY <2>1, <2>2, <2>3, <2>4, <2>5 DEF IInv
<1>10. ASSUME NEW r \in Runners, CloseListener(r) PROVE IInv'
  <2>1. TypeOK'
    BY <1>10 DEF IInv, TypeOK, CloseListener
  <2>2. ServerOwnsSocket'
    BY <1>10 DEF IInv, ServerOwnsSocket, CloseListener
  <2>3. LockMatchesDaemon' /\ SocketWasBound' /\ NotRunning'
    BY <1>10 DEF IInv, LockMatchesDaemon, SocketWasBound, NotRunning,
       CloseListener
  <2> QED
    BY <2>1, <2>2, <2>3 DEF IInv
<1>11. ASSUME NEW r \in Runners, DropLock(r) PROVE IInv'
  <2>1. TypeOK'
    BY <1>11 DEF IInv, TypeOK, DropLock
  <2>2. LockMatchesDaemon'
    BY <1>11 DEF IInv, LockMatchesDaemon, DropLock
  <2>3. NotRunning'
    BY <1>11 DEF IInv, NotRunning, DropLock
  <2>4. ServerOwnsSocket' /\ SocketWasBound'
    BY <1>11 DEF IInv, ServerOwnsSocket, SocketWasBound, DropLock
  <2> QED
    BY <2>1, <2>2, <2>3, <2>4 DEF IInv
<1>12. CASE UNCHANGED vars
  BY <1>12 DEF vars, IInv, TypeOK, LockMatchesDaemon, ServerOwnsSocket,
     SocketWasBound, NotRunning
<1> QED
  BY <1>1, <1>2, <1>3, <1>4, <1>5, <1>6, <1>7, <1>8, <1>9, <1>10, <1>11, <1>12
     DEF Next

\* What the inductive invariant says of the states a daemon or a runner is in.
LEMMA IInvImpliesSafety ==
    IInv => MutualExclusion /\ UnlinksOnlyLeftovers /\ StrandedOnlyByDeath
<1> SUFFICES ASSUME IInv
             PROVE  MutualExclusion /\ UnlinksOnlyLeftovers /\ StrandedOnlyByDeath
  OBVIOUS
<1> USE RunnersAssumption DEF IInv, Alive, Owning
<1>1. MutualExclusion
  BY DEF MutualExclusion, LockMatchesDaemon
<1>2. UnlinksOnlyLeftovers
  <2> SUFFICES ASSUME NEW d \in Runners, dpc[d] = "locked", sock # None
               PROVE  sock \in died
    BY DEF UnlinksOnlyLeftovers
  <2>1. sock \in Runners
    BY DEF TypeOK
  <2>2. CASE dpc[sock] = "serving"
    \* Both d and the server would hold the lock.
    BY <1>1, <2>1, <2>2 DEF MutualExclusion
  <2>3. CASE dpc[sock] = "dying"
    BY <2>1, <2>3 DEF NotRunning
  <2> QED
    BY <2>2, <2>3 DEF SocketWasBound
<1>3. StrandedOnlyByDeath
  <2> SUFFICES ASSUME NEW r \in Runners, Stranded(r), died = {}
               PROVE  FALSE
    BY DEF StrandedOnlyByDeath
  <2>1. dpc[r] = "exited"
    BY DEF Stranded, NotRunning, TypeOK
  <2>2. lock \in Runners
    BY <2>1 DEF NotRunning, TypeOK
  <2>3. dpc[lock] # "dying"
    BY <2>2 DEF NotRunning
  <2> QED
    \* The holder of the lock is a daemon on its way.
    BY <2>2, <2>3 DEF LockMatchesDaemon, Stranded
<1> QED
  BY <1>1, <1>2, <1>3

\* The inductive invariant holds of every reachable state of the protocol.
LEMMA Inductive == Spec => []IInv
  BY InitIInv, NextIInv, PTL DEF Spec

\* Every state of the protocol is well typed.
THEOREM TypeCorrect == Spec => []TypeOK
<1>1. IInv => TypeOK
  BY DEF IInv
<1> QED
  BY <1>1, Inductive, PTL

\* coordinator_local: at most one daemon is past lock_instance at any time.
THEOREM OnlyOneCoordinator == Spec => []MutualExclusion
  BY IInvImpliesSafety, Inductive, PTL

\* coordinator_local: a server keeps its socket path, and bind finds it free.
THEOREM ServerKeepsSocket == Spec => []ServerOwnsSocket
<1>1. IInv => ServerOwnsSocket
  BY DEF IInv
<1> QED
  BY <1>1, Inductive, PTL

\* coordinator_local: remove_file unlinks only what a dead daemon left behind.
THEOREM UnlinkIsSafe == Spec => []UnlinksOnlyLeftovers
  BY IInvImpliesSafety, Inductive, PTL

\* ensureCoordinatorRunning: probe-then-spawn without a lock strands a runner
\* only where a daemon has died.
THEOREM NoStrandingWithoutDeath == Spec => []StrandedOnlyByDeath
  BY IInvImpliesSafety, Inductive, PTL
================================================================================
