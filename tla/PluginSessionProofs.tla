--------------------------- MODULE PluginSessionProofs ---------------------------
(***************************************************************************)
(* Proofs about the conversations of handlers and plugins, for any number  *)
(* of calls, any messages and any ports, and that the coordinator with     *)
(* these conversations behaves as Coordinator says.                        *)
(***************************************************************************)
EXTENDS PluginSession, CoordinatorProofs

\* CoordinatorPluginClient and CoordinatorPluginServer agree on the paths.
LEMMA Routes ==
    ASSUME NEW r \in Calls
    PROVE  /\ Reaches(r, "describe_plugin") => plugin[r] = "up" /\ pc[r] = "describing"
           /\ Reaches(r, "create_fixture") => plugin[r] = "up" /\ pc[r] = "creating"
  BY DEF Reaches, Handler, CoordinatorPluginClient, CoordinatorPluginServer

\* Every exchange with a plugin is a step of Coordinator, or changes nothing in it.
LEMMA SessionStep ==
    ASSUME [SessionNext]_<<vars, session>> PROVE [Next]_vars
<1>1. ASSUME NEW r \in Calls, Aside(r) PROVE Next
  BY <1>1 DEF Aside, Next
<1>2. ASSUME NEW r \in Calls,
             describe(r) \/ DescribeFails(r) \/ StreamOver(r) \/ ConnectionLost(r)
      PROVE Next
  BY <1>2 DEF describe, DescribeFails, StreamOver, ConnectionLost, Next
<1>3. ASSUME NEW r \in Calls, Drain(r)
      PROVE Created(r) \/ ProvisionFailed(r) \/ UNCHANGED vars
  BY <1>3 DEF Drain
<1>4. ASSUME NEW r \in Calls,
             describe_plugin(r) \/ create_fixture(r) \/ OtherSends(r) \/ OtherEnds(r)
      PROVE UNCHANGED vars
  BY <1>4 DEF describe_plugin, create_fixture, OtherSends, OtherEnds
<1> QED
  BY <1>1, <1>2, <1>3, <1>4 DEF SessionNext, Next

\* Nothing has been said at the start.
LEMMA SessionInitIInv == SessionInit => SessionIInv
<1> SUFFICES ASSUME SessionInit PROVE SessionIInv
  OBVIOUS
<1>1. IInv
  BY InitIInv DEF SessionInit
<1>2. SessionTypeOK
  BY <1>1 DEF SessionInit, SessionTypeOK, IInv
<1>3. SessionConsistent
  BY DEF SessionInit, SessionConsistent
<1>4. FirstTerminalDecides /\ DummyProvisions
  BY NoneAssumption DEF SessionInit, Init, FirstTerminalDecides, Decided, DummyProvisions
<1> QED
  BY <1>1, <1>2, <1>3, <1>4 DEF SessionIInv

\* What was decided stays decided while handler and stream stay as they are.
LEMMA DecidedStays ==
    ASSUME NEW s \in Calls, Decided(s),
           pc'[s] = pc[s], granted'[s] = granted[s], gone'[s] = gone[s],
           stream'[s] = stream[s], fate'[s] = fate[s], next'[s] = next[s],
           pc[s] = "failed" => plugin'[s] = plugin[s]
    PROVE  Decided(s)'
  BY DEF Decided, Terminals, IsFirst, Provides

\* Handlers and streams stay in agreement.
LEMMA SessionNextIInv == SessionIInv /\ [SessionNext]_<<vars, session>> => SessionIInv'
<1> SUFFICES ASSUME SessionIInv, [SessionNext]_<<vars, session>> PROVE SessionIInv'
  OBVIOUS
<1> USE NoneAssumption, DummiesAssumption DEF InFlight, Terminal, PluginState, Running
<1> DEFINE Rest == SessionTypeOK' /\ SessionConsistent' /\ FirstTerminalDecides'
                   /\ DummyProvisions'
<1>0. IInv' /\ TypeOK'
  BY SessionStep, NextIInv DEF SessionIInv, IInv
<1>1. ASSUME NEW r \in Calls, Aside(r) PROVE Rest
  <2>0. UNCHANGED <<described, stream, fate, next>>
    BY <1>1 DEF Aside, session
  <2> USE <1>0, <2>0
  <2>1. CASE TakeLeaseRejected(r)
    BY <2>1 DEF SessionIInv, IInv, TypeOK, CallsConsistent, PluginsConsistent,
       SessionTypeOK, SessionConsistent,
       FirstTerminalDecides, Decided, DummyProvisions, Terminals, IsFirst, Provides,
       IsDummy,
       TakeLeaseRejected
  <2>2. CASE SpawnPlugin(r)
    BY <2>2 DEF SessionIInv, IInv, TypeOK, CallsConsistent, PluginsConsistent,
       SessionTypeOK, SessionConsistent,
       FirstTerminalDecides, Decided, DummyProvisions, Terminals, IsFirst, Provides,
       IsDummy,
       SpawnPlugin
  <2>3. CASE SpawnFailed(r)
    BY <2>3 DEF SessionIInv, IInv, TypeOK, CallsConsistent, PluginsConsistent,
       SessionTypeOK, SessionConsistent,
       FirstTerminalDecides, Decided, DummyProvisions, Terminals, IsFirst, Provides,
       IsDummy,
       SpawnFailed
  <2>4. CASE Connected(r)
    BY <2>4 DEF SessionIInv, IInv, TypeOK, CallsConsistent, PluginsConsistent,
       SessionTypeOK, SessionConsistent,
       FirstTerminalDecides, Decided, DummyProvisions, Terminals, IsFirst, Provides,
       IsDummy,
       Connected
  <2>5. CASE ConnectFailed(r)
    BY <2>5 DEF SessionIInv, IInv, TypeOK, CallsConsistent, PluginsConsistent,
       SessionTypeOK, SessionConsistent,
       FirstTerminalDecides, Decided, DummyProvisions, Terminals, IsFirst, Provides,
       IsDummy,
       ConnectFailed
  <2>6. CASE Publish(r)
    <3>1. /\ pc[r] = "created" /\ pc' = [pc EXCEPT ![r] = "succeeded"]
          /\ granted' = [granted EXCEPT ![r] = r]
          /\ fp' = fp /\ gone' = gone
          /\ \A s \in Calls : pc[s] # "succeeded" => plugin'[s] = plugin[s]
      BY <2>6 DEF SessionIInv, IInv, TypeOK, CallsConsistent, CacheConsistent,
         FixtureRecord,
         Publish, DropPlugin
    <3>2. SessionTypeOK'
      BY DEF SessionIInv, SessionTypeOK, CreateProgress
    <3>3. SessionConsistent'
      BY <3>1 DEF SessionIInv, IInv, TypeOK, SessionTypeOK, SessionConsistent, IsDummy
    <3>4. FirstTerminalDecides'
      <4>1. ASSUME NEW s \in Calls \ {r} PROVE Decided(s)'
        BY <3>1, DecidedStays DEF SessionIInv, IInv, TypeOK, FirstTerminalDecides
      <4>2. IsFirst(r, next[r]) /\ Provides(r, next[r])
        BY <3>1 DEF SessionIInv, FirstTerminalDecides, Decided
      <4>3. Decided(r)'
        BY <3>1, <4>2 DEF SessionIInv, IInv, TypeOK, Decided, Terminals, IsFirst, Provides
      <4> QED
        BY <4>1, <4>3 DEF FirstTerminalDecides
    <3>5. DummyProvisions'
      BY <3>1 DEF SessionIInv, IInv, TypeOK, CallsConsistent, PluginsConsistent,
         DummyProvisions, IsDummy
    <3> QED
      BY <3>2, <3>3, <3>4, <3>5
  <2>7. CASE ReleaseLease(r)
    <3>1. UNCHANGED <<pc, granted, gone, fp, plugin>>
      BY <2>7 DEF ReleaseLease
    <3>2. SessionTypeOK' /\ SessionConsistent' /\ DummyProvisions'
      BY <3>1 DEF SessionIInv, SessionTypeOK, CreateProgress, SessionConsistent,
         DummyProvisions, IsDummy
    <3>3. FirstTerminalDecides'
      BY <3>1, DecidedStays DEF SessionIInv, FirstTerminalDecides
    <3> QED
      BY <3>2, <3>3
  <2>8. CASE ClientGone(r)
    BY <2>8 DEF SessionIInv, IInv, TypeOK, CallsConsistent, PluginsConsistent,
       SessionTypeOK, SessionConsistent,
       FirstTerminalDecides, Decided, DummyProvisions, Terminals, IsFirst, Provides,
       IsDummy,
       ClientGone
  <2>9. CASE Cancel(r)
    <3>1. SessionTypeOK'
      BY <2>9 DEF SessionIInv, SessionTypeOK, CreateProgress, Cancel, DropPlugin
    <3>2. SessionConsistent'
      BY <2>9 DEF SessionIInv, TypeOK, IInv, SessionTypeOK, SessionConsistent, IsDummy,
         Cancel, DropPlugin
    <3>3. FirstTerminalDecides'
      <4>1. next[r] \in Terminals(r) => pc[r] # "creating"
        BY DEF SessionIInv, SessionTypeOK, FirstTerminalDecides, Decided, Terminals
      <4>2. stream[r] = << >> \/ pc[r] # "describing"
        BY DEF SessionIInv, SessionConsistent
      <4> QED
        BY <2>9, <4>1, <4>2 DEF SessionIInv, TypeOK, IInv, CallsConsistent,
           SessionTypeOK,
           FirstTerminalDecides, Decided, Terminals, IsFirst, Provides, Cancel, DropPlugin
    <3>4. DummyProvisions'
      BY <2>9 DEF SessionIInv, TypeOK, IInv, CallsConsistent, PluginsConsistent,
         SessionTypeOK, SessionConsistent,
         FirstTerminalDecides, Decided, Terminals, DummyProvisions, IsDummy, Cancel,
         DropPlugin
    <3> QED
      BY <3>1, <3>2, <3>3, <3>4
  <2>10. CASE PluginServes(r)
    BY <2>10 DEF SessionIInv, IInv, TypeOK, CallsConsistent, PluginsConsistent,
       SessionTypeOK, SessionConsistent,
       FirstTerminalDecides, Decided, DummyProvisions, Terminals, IsFirst, Provides,
       IsDummy,
       PluginServes
  <2>11. CASE PluginExits(r)
    BY <2>11 DEF SessionIInv, IInv, TypeOK, CallsConsistent, PluginsConsistent,
       SessionTypeOK, SessionConsistent,
       FirstTerminalDecides, Decided, DummyProvisions, Terminals, IsFirst, Provides,
       IsDummy,
       PluginExits
  <2>12. ASSUME NEW c \in Clients, NEW f \in Fingerprints,
                TakeLeaseAttach(r, c, f)
         PROVE  Rest
    <3>1. /\ pc[r] = "idle" /\ pc' = [pc EXCEPT ![r] = "succeeded"]
          /\ fp' = [fp EXCEPT ![r] = f] /\ plugin' = plugin /\ gone' = gone
          /\ \E i \in Calls \ {r} : granted' = [granted EXCEPT ![r] = i]
      <4>1. fixtures[f] # None /\ fixtures[f].plugin \in Calls
        BY <2>12 DEF SessionIInv, IInv, TypeOK, FixtureRecord, TakeLeaseAttach, CanAttach
      <4>2. fixtures[f].plugin # r
        BY <2>12, <4>1 DEF SessionIInv, IInv, CallsConsistent, CacheConsistent,
           TakeLeaseAttach
      <4> QED
        BY <2>12, <4>1, <4>2 DEF TakeLeaseAttach
    <3>2. SessionTypeOK'
      BY DEF SessionIInv, SessionTypeOK, CreateProgress
    <3>3. SessionConsistent'
      BY <3>1 DEF SessionIInv, IInv, TypeOK, SessionTypeOK, SessionConsistent, IsDummy
    <3>4. FirstTerminalDecides'
      <4>1. ASSUME NEW s \in Calls \ {r} PROVE Decided(s)'
        BY <3>1, DecidedStays DEF SessionIInv, IInv, TypeOK, FirstTerminalDecides
      <4>2. Decided(r)'
        BY <3>1 DEF SessionIInv, IInv, TypeOK, CallsConsistent, Decided
      <4> QED
        BY <4>1, <4>2 DEF FirstTerminalDecides
    <3>5. DummyProvisions'
      BY <3>1 DEF SessionIInv, IInv, TypeOK, CallsConsistent, PluginsConsistent,
         DummyProvisions, IsDummy
    <3> QED
      BY <3>2, <3>3, <3>4, <3>5
  <2>13. ASSUME NEW c \in Clients, NEW f \in Fingerprints,
                TakeLeaseMiss(r, c, f)
         PROVE  Rest
    <3>1. /\ pc[r] = "idle" /\ pc' = [pc EXCEPT ![r] = "spawning"]
          /\ fp' = [fp EXCEPT ![r] = f]
          /\ UNCHANGED <<plugin, granted, gone>>
      BY <2>13 DEF TakeLeaseMiss
    <3>2. SessionTypeOK'
      BY DEF SessionIInv, SessionTypeOK, CreateProgress
    <3>3. SessionConsistent'
      BY <3>1 DEF SessionIInv, IInv, TypeOK, SessionTypeOK, SessionConsistent, IsDummy
    <3>4. FirstTerminalDecides'
      <4>1. ASSUME NEW s \in Calls \ {r} PROVE Decided(s)'
        BY <3>1, DecidedStays DEF SessionIInv, IInv, TypeOK, FirstTerminalDecides
      <4>2. Decided(r)'
        BY <3>1 DEF SessionIInv, IInv, TypeOK, CallsConsistent, Decided
      <4> QED
        BY <4>1, <4>2 DEF FirstTerminalDecides
    <3>5. DummyProvisions'
      BY <3>1 DEF SessionIInv, IInv, TypeOK, CallsConsistent, PluginsConsistent,
         DummyProvisions, IsDummy
    <3> QED
      BY <3>2, <3>3, <3>4, <3>5
  <2> QED
    BY <1>1, <2>1, <2>2, <2>3, <2>4, <2>5, <2>6, <2>7, <2>8, <2>9, <2>10, <2>11, <2>12,
       <2>13 DEF Aside
<1>2. ASSUME NEW r \in Calls, describe_plugin(r) PROVE Rest
  <2>1. SessionTypeOK'
    BY <1>0, <1>2 DEF SessionIInv, SessionTypeOK, CreateProgress,
       describe_plugin, vars
  <2>2. SessionConsistent'
    BY <1>0, <1>2 DEF SessionIInv, TypeOK, IInv, SessionTypeOK, SessionConsistent,
       IsDummy, describe_plugin, vars
  <2>3. FirstTerminalDecides'
    BY <1>0, <1>2 DEF SessionIInv, TypeOK, IInv, CallsConsistent, PluginsConsistent,
       SessionTypeOK, SessionConsistent, FirstTerminalDecides, Decided, Terminals,
       IsFirst,
       Provides, IsDummy, describe_plugin, vars
  <2>4. DummyProvisions'
    BY <1>0, <1>2 DEF SessionIInv, TypeOK, IInv, CallsConsistent, PluginsConsistent,
       SessionTypeOK, SessionConsistent, FirstTerminalDecides, Decided, Terminals,
       DummyProvisions, IsDummy, describe_plugin, vars
  <2> QED
    BY <2>1, <2>2, <2>3, <2>4
<1>3. ASSUME NEW r \in Calls, create_fixture(r) PROVE Rest
  <2>1. SessionTypeOK'
    BY <1>0, <1>3 DEF SessionIInv, SessionTypeOK, SessionConsistent, CreateProgress,
       IsDummy,
       create_fixture
  <2>2. SessionConsistent'
    BY <1>0, <1>3, Routes DEF SessionIInv, TypeOK, IInv, SessionTypeOK,
       SessionConsistent, IsDummy, create_fixture, vars
  <2>3. FirstTerminalDecides'
    <3>1. ASSUME NEW s \in Calls \ {r} PROVE Decided(s)'
      BY <1>3, DecidedStays
         DEF SessionIInv, SessionTypeOK, FirstTerminalDecides, create_fixture, vars
    <3>2. Decided(r)'
      <4>1. pc[r] = "creating" /\ stream[r] = << >> /\ next[r] = 0 /\ granted[r] = None
        BY <1>3, Routes DEF SessionIInv, IInv, CallsConsistent, SessionTypeOK,
           SessionConsistent, create_fixture
      <4> QED
        BY <1>3, <4>1 DEF Decided, create_fixture, vars
    <3> QED
      BY <3>1, <3>2 DEF FirstTerminalDecides
  <2>4. DummyProvisions'
    BY <1>0, <1>3, Routes DEF SessionIInv, TypeOK, IInv, CallsConsistent,
       PluginsConsistent, SessionTypeOK, SessionConsistent,
       FirstTerminalDecides, Decided, Terminals, DummyProvisions, IsDummy,
       create_fixture, vars
  <2> QED
    BY <2>1, <2>2, <2>3, <2>4
<1>4. ASSUME NEW r \in Calls, OtherSends(r) PROVE Rest
  <2>1. SessionTypeOK'
    <3>1. PICK m \in CreateProgress : stream' = [stream EXCEPT ![r] = Append(@, m)]
      BY <1>4 DEF OtherSends, CreateProgress
    <3> QED
      BY <1>0, <1>4, <3>1 DEF SessionIInv, SessionTypeOK, OtherSends
  <2>2. SessionConsistent'
    BY <1>0, <1>4, Routes DEF SessionIInv, TypeOK, IInv, SessionTypeOK,
       SessionConsistent, IsDummy, OtherSends, vars
  <2>3. FirstTerminalDecides'
    <3>1. ASSUME NEW s \in Calls \ {r} PROVE Decided(s)'
      BY <1>4, DecidedStays
         DEF SessionIInv, SessionTypeOK, FirstTerminalDecides, OtherSends, vars
    <3>2. Decided(r)'
      BY <1>4, Routes DEF SessionIInv, IInv, CallsConsistent, SessionTypeOK,
         FirstTerminalDecides, Decided, Terminals, OtherSends, vars
    <3> QED
      BY <3>1, <3>2 DEF FirstTerminalDecides
  <2>4. DummyProvisions'
    BY <1>0, <1>4, Routes DEF SessionIInv, TypeOK, IInv, CallsConsistent,
       PluginsConsistent, SessionTypeOK, SessionConsistent,
       FirstTerminalDecides, Decided, Terminals, DummyProvisions, IsDummy, OtherSends,
       vars
  <2> QED
    BY <2>1, <2>2, <2>3, <2>4
<1>5. ASSUME NEW r \in Calls, OtherEnds(r) PROVE Rest
  <2>1. SessionTypeOK'
    BY <1>0, <1>5, Routes DEF SessionIInv, SessionTypeOK, CreateProgress,
       OtherEnds, vars
  <2>2. SessionConsistent'
    BY <1>0, <1>5, Routes DEF SessionIInv, TypeOK, IInv, SessionTypeOK, SessionConsistent,
       IsDummy, OtherEnds, vars
  <2>3. FirstTerminalDecides'
    BY <1>0, <1>5, Routes DEF SessionIInv, TypeOK, IInv, CallsConsistent,
       PluginsConsistent,
       SessionTypeOK, SessionConsistent, FirstTerminalDecides, Decided, Terminals,
       IsFirst,
       Provides, IsDummy, OtherEnds, vars
  <2>4. DummyProvisions'
    BY <1>0, <1>5, Routes DEF SessionIInv, TypeOK, IInv, CallsConsistent,
       PluginsConsistent,
       SessionTypeOK, SessionConsistent, FirstTerminalDecides, Decided, Terminals,
       DummyProvisions, IsDummy, OtherEnds, vars
  <2> QED
    BY <2>1, <2>2, <2>3, <2>4
<1>6. ASSUME NEW r \in Calls, describe(r) PROVE Rest
  <2>1. SessionTypeOK'
    BY <1>0, <1>6 DEF SessionIInv, SessionTypeOK, CreateProgress,
       describe, Described, session
  <2>2. SessionConsistent'
    BY <1>0, <1>6 DEF SessionIInv, TypeOK, IInv, SessionTypeOK, SessionConsistent,
       IsDummy, describe, Described, session
  <2>3. FirstTerminalDecides'
    BY <1>0, <1>6 DEF SessionIInv, TypeOK, IInv, CallsConsistent, PluginsConsistent,
       SessionTypeOK, SessionConsistent, FirstTerminalDecides, Decided, Terminals,
       IsFirst,
       Provides, IsDummy, describe, Described, session
  <2>4. DummyProvisions'
    BY <1>0, <1>6 DEF SessionIInv, TypeOK, IInv, CallsConsistent, PluginsConsistent,
       SessionTypeOK, SessionConsistent, FirstTerminalDecides, Decided, Terminals,
       DummyProvisions, IsDummy, describe, Described, session
  <2> QED
    BY <2>1, <2>2, <2>3, <2>4
<1>7. ASSUME NEW r \in Calls, DescribeFails(r) PROVE Rest
  <2>1. SessionTypeOK'
    BY <1>0, <1>7, Routes DEF SessionIInv, SessionTypeOK, CreateProgress,
       DescribeFails, ProvisionFailed, DropPlugin, session
  <2>2. SessionConsistent'
    BY <1>0, <1>7, Routes DEF SessionIInv, TypeOK, IInv, SessionTypeOK,
       SessionConsistent, IsDummy, DescribeFails, ProvisionFailed, DropPlugin, session
  <2>3. FirstTerminalDecides'
    BY <1>0, <1>7, Routes DEF SessionIInv, TypeOK, IInv, CallsConsistent,
       PluginsConsistent, SessionTypeOK, SessionConsistent,
       FirstTerminalDecides, Decided, Terminals, IsFirst, Provides, IsDummy,
       DescribeFails,
       ProvisionFailed, DropPlugin, session
  <2>4. DummyProvisions'
    BY <1>0, <1>7, Routes DEF SessionIInv, TypeOK, IInv, CallsConsistent,
       PluginsConsistent, SessionTypeOK, SessionConsistent,
       FirstTerminalDecides, Decided, Terminals, DummyProvisions, IsDummy, DescribeFails,
       ProvisionFailed, DropPlugin, session
  <2> QED
    BY <2>1, <2>2, <2>3, <2>4
<1>8. ASSUME NEW r \in Calls, Drain(r) PROVE Rest
  <2> DEFINE k == next[r] + 1
             m == stream[r][k]
  <2>1. /\ k \in 1 .. Len(stream[r]) /\ m \in CreateProgress /\ pc[r] = "creating"
        /\ next' = [next EXCEPT ![r] = k]
        /\ stream' = stream /\ fate' = fate /\ described' = described
    BY <1>8 DEF Drain, SessionIInv, SessionTypeOK
  <2>2. m.status \in Int
    <3> HIDE DEF m
    <3>1. CASE m \in Progress
      BY <3>1, ProgressAssumption
    <3>2. ASSUME NEW f \in Dummies, m = Echo(f) PROVE m.status = 4
      BY <3>2 DEF Echo, Succeeded
    <3> QED
      BY <2>1, <3>1, <3>2 DEF CreateProgress
  <2>3. k \in Terminals(r) <=> StatusOf(m) \in {Succeeded, Error}
    BY <2>1, <2>2 DEF Terminals, StatusOf, Unknown, Succeeded, Error
  <2>4. StatusOf(m) = Succeeded <=> m.status = Succeeded
    BY <2>2 DEF StatusOf, Unknown, Succeeded
  <2>5. k \in Terminals(r) => IsFirst(r, k)
    BY <2>1 DEF IsFirst, Terminals, SessionIInv, SessionTypeOK, FirstTerminalDecides,
       Decided
  <2>6. SessionTypeOK'
    BY <1>0, <2>1 DEF SessionIInv, SessionTypeOK
  <2>7. CASE StatusOf(m) = Succeeded /\ m.result # None
    <3>1. Created(r)
      BY <1>8, <2>7 DEF Drain, Succeeded, Error
    <3>2. SessionConsistent'
      BY <2>1, <3>1 DEF SessionIInv, SessionConsistent, IInv, TypeOK, IsDummy, Created
    <3>3. Provides(r, k)
      BY <2>4, <2>7 DEF Provides
    <3>4. FirstTerminalDecides'
      <4>1. ASSUME NEW s \in Calls \ {r} PROVE Decided(s)'
        BY <2>1, <3>1, DecidedStays DEF SessionIInv, SessionTypeOK, IInv, TypeOK,
           FirstTerminalDecides, Created
      <4>2. Decided(r)'
        BY <2>1, <2>3, <2>5, <2>7, <3>1, <3>3 DEF SessionIInv, SessionTypeOK, IInv,
           TypeOK,
           CallsConsistent, FirstTerminalDecides, Decided, Terminals, IsFirst, Provides,
           Created
      <4> QED
        BY <4>1, <4>2 DEF FirstTerminalDecides
    <3>5. DummyProvisions'
      BY <3>1 DEF SessionIInv, DummyProvisions, IInv, TypeOK, IsDummy, Created
    <3> QED
      BY <2>6, <3>2, <3>4, <3>5
  <2>8. CASE (StatusOf(m) = Succeeded /\ m.result = None) \/ StatusOf(m) = Error
    <3>1. ProvisionFailed(r)
      BY <1>8, <2>8 DEF Drain, Succeeded, Error
    <3>2. SessionConsistent'
      BY <2>1, <3>1 DEF SessionIInv, SessionConsistent, IInv, TypeOK, IsDummy,
         ProvisionFailed
    <3>3. ~Provides(r, k)
      BY <2>2, <2>4, <2>8 DEF Provides, Succeeded, Error
    <3>4. FirstTerminalDecides'
      <4>1. ASSUME NEW s \in Calls \ {r} PROVE Decided(s)'
        BY <2>1, <3>1, DecidedStays DEF SessionIInv, SessionTypeOK, IInv, TypeOK,
           FirstTerminalDecides, ProvisionFailed, DropPlugin
      <4>2. pc'[r] = "failed" /\ granted'[r] = None /\ next'[r] = k
        BY <2>1, <3>1 DEF SessionIInv, SessionTypeOK, IInv, TypeOK, CallsConsistent,
           ProvisionFailed
      <4>3. k \in Terminals(r) /\ IsFirst(r, k) /\ ~Provides(r, k)
        BY <2>3, <2>5, <2>8, <3>3
      <4>4. Decided(r)'
        BY <2>1, <4>2, <4>3 DEF Decided, Terminals, IsFirst, Provides
      <4> QED
        BY <4>1, <4>4 DEF FirstTerminalDecides
    <3>5. ~IsDummy(r)
      BY <2>1, <2>2, <2>4, <2>8, <3>3, ResultAssumption
         DEF SessionIInv, SessionConsistent, SessionTypeOK, IsDummy, Echo, Provides
    <3>6. DummyProvisions'
      BY <3>1, <3>5 DEF SessionIInv, DummyProvisions, IInv, TypeOK, IsDummy,
         ProvisionFailed,
         DropPlugin
    <3> QED
      BY <2>6, <3>2, <3>4, <3>6
  <2>9. CASE StatusOf(m) \notin {Succeeded, Error}
    <3>1. UNCHANGED vars
      BY <1>8, <2>9 DEF Drain
    <3>2. SessionConsistent' /\ DummyProvisions'
      BY <2>1, <3>1 DEF SessionIInv, SessionConsistent, DummyProvisions, IsDummy, vars
    <3>3. FirstTerminalDecides'
      <4>1. ASSUME NEW s \in Calls \ {r} PROVE Decided(s)'
        BY <2>1, <3>1, DecidedStays DEF SessionIInv, SessionTypeOK, IInv, TypeOK,
           FirstTerminalDecides, vars
      <4>2. pc'[r] = "creating" /\ granted'[r] = None /\ next'[r] = k
        BY <2>1, <3>1 DEF SessionIInv, SessionTypeOK, IInv, CallsConsistent, vars
      <4>3. \A j \in 1 .. k : j \notin Terminals(r)
        BY <2>1, <2>3, <2>9 DEF SessionIInv, SessionTypeOK, FirstTerminalDecides, Decided
      <4>4. Decided(r)'
        BY <2>1, <4>2, <4>3 DEF Decided, Terminals
      <4> QED
        BY <4>1, <4>4 DEF FirstTerminalDecides
    <3> QED
      BY <2>6, <3>2, <3>3
  <2> QED
    BY <2>7, <2>8, <2>9
<1>9. ASSUME NEW r \in Calls, StreamOver(r) PROVE Rest
  <2>1. SessionTypeOK'
    BY <1>0, <1>9 DEF SessionIInv, SessionTypeOK, CreateProgress, StreamOver,
       ProvisionFailed, DropPlugin, session
  <2>2. SessionConsistent'
    BY <1>0, <1>9 DEF SessionIInv, TypeOK, IInv, SessionTypeOK, SessionConsistent,
       IsDummy, StreamOver, ProvisionFailed, DropPlugin, session
  <2>3. FirstTerminalDecides'
    <3>1. ASSUME NEW s \in Calls \ {r} PROVE Decided(s)'
      BY <1>9, DecidedStays DEF SessionIInv, IInv, TypeOK, FirstTerminalDecides,
         StreamOver, ProvisionFailed, DropPlugin, session
    <3>2. next[r] \notin Terminals(r)
      BY <1>9 DEF SessionIInv, FirstTerminalDecides, Decided, StreamOver, Terminals
    <3>3. Decided(r)'
      BY <1>9, <3>2 DEF SessionIInv, IInv, TypeOK, CallsConsistent, Decided, Terminals,
         StreamOver, ProvisionFailed, session
    <3> QED
      BY <3>1, <3>3 DEF FirstTerminalDecides
  <2>4. ~IsDummy(r)
    <3> SUFFICES ASSUME IsDummy(r) PROVE FALSE
      OBVIOUS
    <3>0. stream[r] = <<Echo(fp[r])>>
      BY <1>9 DEF SessionIInv, SessionConsistent, StreamOver
    <3>1. Len(stream[r]) = 1 /\ next[r] = 1
      BY <1>9, <3>0 DEF StreamOver
    <3>2. 1 \in Terminals(r)
      BY <3>0, <3>1 DEF Terminals, Echo
    <3> QED
      BY <1>9, <3>1, <3>2 DEF SessionIInv, FirstTerminalDecides, Decided, StreamOver
  <2>5. DummyProvisions'
    BY <1>9, <2>4 DEF SessionIInv, TypeOK, IInv, DummyProvisions, IsDummy, StreamOver,
       ProvisionFailed, DropPlugin
  <2> QED
    BY <2>1, <2>2, <2>3, <2>5
<1>10. ASSUME NEW r \in Calls, ConnectionLost(r) PROVE Rest
  <2>1. SessionTypeOK'
    BY <1>0, <1>10 DEF SessionIInv, SessionTypeOK, CreateProgress, ConnectionLost,
       ProvisionFailed, DropPlugin, session
  <2>2. SessionConsistent'
    BY <1>0, <1>10 DEF SessionIInv, TypeOK, IInv, SessionConsistent, IsDummy,
       ConnectionLost, ProvisionFailed, DropPlugin, session
  <2>3. FirstTerminalDecides'
    <3>1. ASSUME NEW s \in Calls \ {r} PROVE Decided(s)'
      BY <1>0, <1>10, DecidedStays DEF SessionIInv, IInv, TypeOK, FirstTerminalDecides,
         ConnectionLost, ProvisionFailed, DropPlugin, session
    <3>2. next[r] \notin Terminals(r)
      BY <1>10 DEF SessionIInv, SessionTypeOK, SessionConsistent, FirstTerminalDecides,
         Decided, Terminals, ConnectionLost, ProvisionFailed
    <3>3. pc'[r] = "failed" /\ granted'[r] = None /\ plugin'[r] = "exited"
      BY <1>10 DEF SessionIInv, IInv, TypeOK, CallsConsistent, ConnectionLost,
         ProvisionFailed, DropPlugin
    <3>4. Decided(r)'
      BY <1>10, <3>2, <3>3 DEF Decided, Terminals, ConnectionLost, session
    <3> QED
      BY <3>1, <3>4 DEF FirstTerminalDecides
  <2>4. DummyProvisions'
    BY <1>0, <1>10 DEF SessionIInv, TypeOK, IInv, PluginsConsistent, DummyProvisions,
       IsDummy,
       ConnectionLost, ProvisionFailed, DropPlugin, session
  <2> QED
    BY <2>1, <2>2, <2>3, <2>4
<1>11. ASSUME UNCHANGED <<vars, session>> PROVE Rest
  <2>1. SessionTypeOK' /\ SessionConsistent' /\ DummyProvisions'
    BY <1>0, <1>11 DEF SessionIInv, SessionTypeOK, CreateProgress, SessionConsistent,
       DummyProvisions, IsDummy, vars, session
  <2>2. FirstTerminalDecides'
    BY <1>11, DecidedStays DEF SessionIInv, FirstTerminalDecides, vars, session
  <2> QED
    BY <2>1, <2>2
<1> QED
  BY <1>0, <1>1, <1>2, <1>3, <1>4, <1>5, <1>6, <1>7, <1>8, <1>9, <1>10, <1>11
     DEF SessionNext, SessionIInv

\* The invariant holds throughout.
LEMMA SessionInductive == SessionSpec => []SessionIInv
  BY SessionInitIInv, SessionNextIInv, PTL DEF SessionSpec

(***************************************************************************)
(* Streams, handlers and plugins are well typed; the handler never reads   *)
(* past what its plugin wrote.                                             *)
(***************************************************************************)
THEOREM SessionTypeCorrect == SessionSpec => []SessionTypeOK
  BY SessionInductive, PTL DEF SessionIInv

(***************************************************************************)
(* create_fixture in plugin_client.rs: the first terminal message decides, *)
(* for streams of any length and content.                                  *)
(***************************************************************************)
THEOREM FirstTerminalCorrect == SessionSpec => []FirstTerminalDecides
  BY SessionInductive, PTL DEF SessionIInv

(***************************************************************************)
(* A call on the dummy plugin that is given up while the plugin is there   *)
(* was given up by its caller.                                             *)
(***************************************************************************)
THEOREM DummyCorrect == SessionSpec => []DummyProvisions
  BY SessionInductive, PTL DEF SessionIInv

(***************************************************************************)
(* ports_schema_blob, the coordinator and portEnvFromOutputs together, for *)
(* any input, any widths and any history of records: every requested name  *)
(* arrives, a number that both can hold arrives as it is, and others as 0. *)
(***************************************************************************)
THEOREM PortsCorrect == SessionSpec => []PortsEchoed
<1>1. SessionIInv => PortsEchoed
  <2> SUFFICES ASSUME SessionIInv, NEW l \in Calls, granted[l] # None, IsDummy(l)
               PROVE  LET asked == Parsed(PortsInput[fp[l]])
                          got == Unmarshal(OutputsOf(l))
                      IN  IF got = None
                          THEN \E x \in DOMAIN asked :
                                   asked[x].kind # "other" /\ asked[x].n \in MaxInt + 1 .. MaxU64
                          ELSE /\ DOMAIN got = DOMAIN asked
                               /\ \A x \in DOMAIN asked :
                                      got[x] = IF asked[x].kind # "other"
                                                  /\ asked[x].n \in 0 .. MaxInt
                                               THEN asked[x].n ELSE 0
    BY DEF PortsEchoed
  <2> DEFINE i == granted[l]
             asked == Parsed(PortsInput[fp[l]])
             blob == ports_schema_blob(PortsInput[fp[l]])
  <2>1. i \in Calls /\ granted[i] = i /\ fp[i] = fp[l]
    BY DEF SessionIInv, IInv, TypeOK, CallsConsistent, ScopeRespected
  <2>2. next[i] \in 1 .. Len(stream[i])
    BY <2>1 DEF SessionIInv, FirstTerminalDecides, Decided, IsFirst, Terminals
  <2>3. stream[i] = <<Echo(fp[l])>>
    <3>1. stream[i] # << >>
      BY <2>2
    <3>2. IsDummy(i)
      BY <2>1 DEF IsDummy
    <3> QED
      BY <2>1, <3>1, <3>2 DEF SessionIInv, SessionConsistent
  <2>4. OutputsOf(l) = blob
    BY <2>2, <2>3 DEF OutputsOf, Echo
  <2>5. blob # None
    BY ResultAssumption DEF IsDummy
  <2>6. \A x \in DOMAIN asked : asked[x] \in JsonValue
    BY InputAssumption DEF Parsed, IsDummy
  <2>7. /\ DOMAIN blob = DOMAIN asked
        /\ \A x \in DOMAIN asked : blob[x] = PortOf(asked[x])
    BY DEF ports_schema_blob
  <2>8. \A x \in DOMAIN asked :
           /\ blob[x] <= MaxInt =>
                  blob[x] = IF asked[x].kind # "other" /\ asked[x].n \in 0 .. MaxInt
                            THEN asked[x].n ELSE 0
           /\ ~(blob[x] > MaxInt) => blob[x] <= MaxInt
           /\ blob[x] > MaxInt => asked[x].kind # "other" /\ asked[x].n \in MaxInt + 1 .. MaxU64
    BY <2>6, <2>7, WidthAssumption DEF PortOf, JsonValue
  <2> HIDE DEF blob, asked
  <2>9. CASE \E x \in DOMAIN blob : blob[x] > MaxInt
    BY <2>4, <2>7, <2>8, <2>9 DEF Unmarshal, asked
  <2>10. CASE ~\E x \in DOMAIN blob : blob[x] > MaxInt
    BY <2>4, <2>5, <2>7, <2>8, <2>10 DEF Unmarshal, asked
  <2> QED
    BY <2>9, <2>10
<1> QED
  BY <1>1, SessionInductive, PTL

(***************************************************************************)
(* With its conversations spelled out the service behaves as Coordinator,  *)
(* so all that is proved of that holds.                                    *)
(***************************************************************************)
THEOREM SessionImplementsCoordinator == SessionSpec => Spec
<1>1. SessionInit => Init
  BY DEF SessionInit
<1>2. [SessionNext]_<<vars, session>> => [Next]_vars
  BY SessionStep
<1> QED
  BY <1>1, <1>2, PTL DEF SessionSpec, Spec
================================================================================
