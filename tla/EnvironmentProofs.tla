--------------------------- MODULE EnvironmentProofs ---------------------------
(***************************************************************************)
(* Proofs about the environment of the test, for any list of fixtures with *)
(* any number of ports, any environment of the runner and any test env of  *)
(* the run configuration.                                                  *)
(***************************************************************************)
EXTENDS Environment, FiniteSetTheorems, TLAPS

--------------------------------------------------------------------------------
\* Naming.

\* Kept(s) is finite, so a written name has a length.
LEMMA KeptFinite ==
    ASSUME NEW s \in Seq(Char)
    PROVE  IsFiniteSet(Kept(s)) /\ Cardinality(Kept(s)) \in Nat
<1>1. DOMAIN s = 1 .. Len(s) /\ Len(s) \in Nat
  OBVIOUS
<1>2. IsFiniteSet(DOMAIN s)
  BY <1>1, FS_Interval
<1>3. Kept(s) \subseteq DOMAIN s
  BY DEF Kept
<1> QED
  BY <1>2, <1>3, FS_Subset, FS_CardinalityType

\* envFragment of a name is a name.
LEMMA envFragmentType ==
    ASSUME NEW s \in Seq(Char)
    PROVE  envFragment(s) \in Seq(Char)
<1> DEFINE size == Cardinality(Kept(s))
           at(n) == LET c == s[Nth(Kept(s), n)]
                    IN  IF c \in Alnum THEN Upper(c) ELSE "_"
<1>1. size \in Nat
  BY KeptFinite
<1>2. \A n \in 1 .. size : at(n) \in Char
  <2> TAKE n \in 1 .. size
  <2> DEFINE c == s[Nth(Kept(s), n)]
  <2> HIDE DEF c
  <2>1. (IF c \in Alnum THEN Upper(c) ELSE "_") \in Char
    BY DEF Char, Alnum, Lower, Digit, Upper
  <2> QED
    BY <2>1 DEF c
<1>3. envFragment(s) = [n \in 1 .. size |-> at(n)]
  BY DEF envFragment, Written
<1> HIDE DEF size, at
<1> QED
  BY <1>1, <1>2, <1>3

\* The first n positive numbers are counted in their order.
LEMMA NthOfInterval ==
    ASSUME NEW n \in Nat, NEW i \in 1 .. n
    PROVE  Nth(1 .. n, i) = i
<1>1. ASSUME NEW k \in 1 .. n
      PROVE  Cardinality({j \in 1 .. n : j <= k}) = k
  <2>1. {j \in 1 .. n : j <= k} = 1 .. k
    OBVIOUS
  <2>2. Cardinality(1 .. k) = k
    BY FS_Interval
  <2> QED
    BY <2>1, <2>2
<1>2. Cardinality({j \in 1 .. n : j <= i}) = i
  BY <1>1
<1>3. \A k \in 1 .. n : Cardinality({j \in 1 .. n : j <= k}) = i => k = i
  BY <1>1
<1> QED
  BY <1>2, <1>3 DEF Nth

\* The runner and the rules give a plain name the same prefix.
THEOREM PlainPrefix ==
    ASSUME NEW s \in Seq(Char), s # << >>, Plain(s)
    PROVE  envFragment(s) = env_prefix_for_fixture(s)
<1> DEFINE prefix == [i \in DOMAIN s |-> IF s[i] \in Alnum THEN Upper(s[i]) ELSE "_"]
<1>1. DOMAIN s = 1 .. Len(s) /\ Len(s) \in Nat \ {0}
  OBVIOUS
<1>2. Kept(s) = 1 .. Len(s)
  <2>1. ASSUME NEW i \in 1 .. Len(s) PROVE i \in Kept(s)
    <3>1. CASE i = 1
      BY <1>1, <3>1 DEF Kept
    <3>2. CASE i # 1
      <4>1. i - 1 \in 1 .. Len(s) - 1 /\ (i - 1) + 1 = i
        BY <1>1, <3>2
      <4>2. s[i - 1] \in Alnum \/ s[i] \in Alnum
        BY <4>1 DEF Plain
      <4> QED
        BY <1>1, <4>2 DEF Kept
    <3> QED
      BY <3>1, <3>2
  <2> QED
    BY <1>1, <2>1 DEF Kept
<1>3. Cardinality(Kept(s)) = Len(s)
  BY <1>1, <1>2, FS_Interval
<1>4. \A n \in 1 .. Len(s) : Nth(Kept(s), n) = n
  BY <1>1, <1>2, NthOfInterval
<1>5. envFragment(s) = prefix
  BY <1>1, <1>3, <1>4 DEF envFragment, Written
<1>6. prefix[1] \notin Digit
  <2>0. 1 \in DOMAIN s
    BY <1>1
  <2>1. prefix[1] = IF s[1] \in Alnum THEN Upper(s[1]) ELSE "_"
    BY <2>0
  <2>2. s[1] \notin Digit
    BY DEF Plain
  <2> HIDE DEF prefix
  <2> QED
    BY <2>1, <2>2 DEF Alnum, Lower, Digit, Upper
<1>7. env_prefix_for_fixture(s) = prefix
  BY <1>6 DEF env_prefix_for_fixture
<1> QED
  BY <1>5, <1>7

--------------------------------------------------------------------------------
\* Entries.

\* What an entry of DirectPorts is.
LEMMA DirectPort ==
    ASSUME fixtures \in Seq(Fixture), NEW e \in DirectPorts
    PROVE  /\ e = [fixture |-> e.fixture, output |-> e.output, port |-> e.port]
           /\ e.fixture \in 1 .. Len(fixtures)
           /\ e.output \in Outputs
           /\ fixtures[e.fixture].outputs[e.output].kind = "ports"
           /\ e.port \in 1 .. Len(fixtures[e.fixture].outputs[e.output].ports)
<1>1. PICK i \in DOMAIN fixtures, o \in Outputs : e \in DirectEntries(i, o)
  BY DEF DirectPorts
<1> DEFINE out == fixtures[i].outputs[o]
<1>2. PICK j \in DOMAIN out.ports :
          out.kind = "ports" /\ e = [fixture |-> i, output |-> o, port |-> j]
  BY <1>1 DEF DirectEntries
<1>3. fixtures[i] \in Fixture
  OBVIOUS
<1>4. out \in Output
  BY <1>3 DEF Fixture
<1>5. DOMAIN out.ports = 1 .. Len(out.ports)
  BY <1>4 DEF Output
<1> QED
  BY <1>2, <1>5

\* A direct port of a ports output is one of DirectPorts.
LEMMA EntryIsDirect ==
    ASSUME NEW i \in DOMAIN fixtures, NEW o \in Outputs,
           NEW j \in DOMAIN fixtures[i].outputs[o].ports,
           fixtures[i].outputs[o].kind = "ports",
           ~fixtures[i].outputs[o].ports[j].tunnel
    PROVE  [fixture |-> i, output |-> o, port |-> j] \in DirectPorts
<1>1. [fixture |-> i, output |-> o, port |-> j] \in DirectEntries(i, o)
  BY DEF DirectEntries
<1> QED
  BY <1>1 DEF DirectPorts

\* No entry of DirectPorts is tunneled.
LEMMA EntryNotTunneled ==
    ASSUME NEW e \in DirectPorts
    PROVE  ~PortOf(e).tunnel
BY DEF DirectPorts, DirectEntries, PortOf

\* The name of an entry is a name.
LEMMA NameOfType ==
    ASSUME fixtures \in Seq(Fixture), NEW e \in DirectPorts
    PROVE  NameOf(e) \in Seq(Char)
<1>1. fixtures[e.fixture] \in Fixture
  BY DirectPort
<1>2. fixtures[e.fixture].outputs[e.output] \in Output
  BY <1>1, DirectPort DEF Fixture
<1> DEFINE out == fixtures[e.fixture].outputs[e.output]
<1>3. PortOf(e).name \in Seq(Char)
  <2>1. out.ports \in Seq(Port)
    BY <1>2 DEF Output
  <2>2. e.port \in 1 .. Len(out.ports)
    BY DirectPort
  <2>3. out.ports[e.port] \in Port
    BY <2>1, <2>2
  <2> QED
    BY <2>3 DEF PortOf, Port
<1>4. fixtures[e.fixture].name \in Seq(Char)
  BY <1>1 DEF Fixture
<1>5. envFragment(fixtures[e.fixture].name) \in Seq(Char)
      /\ envFragment(PortOf(e).name) \in Seq(Char)
  BY <1>3, <1>4, envFragmentType
<1>6. <<"_">> \in Seq(Char)
  BY DEF Char
<1>7. \A r, s, t \in Seq(Char) : r \o s \o t \in Seq(Char)
  OBVIOUS
<1> QED
  BY <1>5, <1>6, <1>7 DEF NameOf, BaseName

\* The entries of a test are those of its fixtures, which no step changes.
LEMMA EntriesStay ==
    ASSUME UNCHANGED fixtures
    PROVE  /\ DirectPorts' = DirectPorts
           /\ \A e : NameOf(e)' = NameOf(e)
BY DEF DirectPorts, DirectEntries, NameOf, PortOf

--------------------------------------------------------------------------------
\* The inductive invariant.

\* Before the first fixture nothing has been scanned.
LEMMA InitIInv == Init => IInv
<1> SUFFICES ASSUME Init PROVE IInv
  OBVIOUS
<1>1. fixtures \in Seq(Fixture)
  BY FixtureListsAssumption DEF Init
<1>2. DOMAIN NoVars = {}
  BY DEF NoVars
<1>3. TypeOK
  <2>1. next \in 1 .. Len(fixtures) + 1
    BY <1>1 DEF Init
  <2> QED
    BY <1>1, <1>2, <2>1 DEF Init, TypeOK
<1>4. Paired(portEnv) /\ Paired(injected) /\ OpenOutputHasPorts /\ TestedLayers
  BY <1>2 DEF Init, Paired, OpenOutputHasPorts, TestedLayers
<1>5. CurrentFixture
  <2>1. ASSUME NEW e \in DirectPorts PROVE ~Scanned(e)
    BY <1>1, <2>1, DirectPort DEF Init, Scanned, Outputs, NoOutput
  <2> QED
    BY <1>2, <2>1 DEF Init, CurrentFixture
<1>6. EarlierFixtures
  BY <1>1, DirectPort DEF Init, EarlierFixtures
<1> QED
  BY <1>3, <1>4, <1>5, <1>6 DEF IInv

\* Layers keep host and port of a name together when both do.
LEMMA OverlayPaired ==
    ASSUME NEW f, NEW g, Paired(f), Paired(g),
           \A x \in DOMAIN f \cup DOMAIN g : x \in Var
    PROVE  Paired(Overlay(f, g))
<1> SUFFICES ASSUME NEW x \in DOMAIN f \cup DOMAIN g, NEW part \in Part
             PROVE  LET y == <<x[1], part>>
                        m == Overlay(f, g)
                    IN  y \in DOMAIN m /\ m[y] = m[x] /\ NameOf(m[y]) = x[1]
  BY DEF Paired, Overlay
<1> DEFINE y == <<x[1], part>>
<1>1. x[2] \in Part /\ x = <<x[1], x[2]>>
  BY DEF Var
<1>2. y[1] = x[1]
  OBVIOUS
<1>3. CASE x \in DOMAIN f
  <2>1. y \in DOMAIN f /\ f[y] = f[x] /\ NameOf(f[y]) = x[1]
    BY <1>3 DEF Paired
  <2> QED
    BY <1>3, <2>1 DEF Overlay
<1>4. CASE x \notin DOMAIN f
  <2>1. y \notin DOMAIN f
    <3>1. ASSUME y \in DOMAIN f PROVE x \in DOMAIN f
      BY <1>1, <1>2, <3>1 DEF Paired
    <3> QED
      BY <1>4, <3>1
  <2>2. y \in DOMAIN g /\ g[y] = g[x] /\ NameOf(g[y]) = x[1]
    BY <1>4 DEF Paired
  <2> QED
    BY <1>4, <2>1, <2>2 DEF Overlay
<1> QED
  BY <1>3, <1>4

\* No step breaks what portEnv, injected and env hold.
LEMMA NextIInv == IInv /\ [Next]_vars => IInv'
<1> SUFFICES ASSUME IInv, [Next]_vars PROVE IInv'
  OBVIOUS
<1>1. UNCHANGED fixtures
  BY DEF Next, vars, OpenOutput, SkipOutput, MalformedOutput, PutPort, OutputDone,
         FixtureDone, RunTest
<1>2. DirectPorts' = DirectPorts
  BY <1>1, EntriesStay
<1>3. \A e : NameOf(e)' = NameOf(e)
  BY <1>1, EntriesStay
<1>4. fixtures \in Seq(Fixture) /\ fixtures' \in Seq(Fixture)
  BY <1>1 DEF IInv, TypeOK
<1>5. ASSUME NEW o \in todo, OpenOutput(o) PROVE IInv'
  <2>1. TypeOK'
    BY <1>1, <1>2, <1>5 DEF IInv, TypeOK, OpenOutput
  <2>2. Paired(portEnv)' /\ Paired(injected)'
    BY <1>3, <1>5 DEF IInv, Paired, OpenOutput
  <2>3. OpenOutputHasPorts'
    BY <1>5 DEF OpenOutputHasPorts, OpenOutput, Scanning, OutputOf
  <2>4. CurrentFixture'
    <3>1. ASSUME NEW e \in DirectPorts, Scanned(e)' PROVE Scanned(e)
      <4>1. e.output \in Outputs /\ ~(e.port < 1)
        BY <1>4, DirectPort
      <4>2. output = NoOutput /\ output' = o /\ port' = 1 /\ todo' = todo \ {o}
            /\ next' = next
        BY <1>5 DEF OpenOutput, Scanning
      <4> QED
        BY <3>1, <4>1, <4>2
           DEF Scanned, Outputs, NoOutput
    <3> QED
      BY <1>2, <1>3, <1>5, <3>1 DEF IInv, CurrentFixture, Holds, OpenOutput
  <2>5. EarlierFixtures'
    BY <1>2, <1>3, <1>5 DEF IInv, EarlierFixtures, Holds, OpenOutput
  <2>6. TestedLayers'
    BY <1>5 DEF IInv, TestedLayers, OpenOutput
  <2> QED
    BY <2>1, <2>2, <2>3, <2>4, <2>5, <2>6 DEF IInv
<1>6. ASSUME NEW o \in todo, SkipOutput(o) PROVE IInv'
  <2>1. TypeOK'
    BY <1>1, <1>2, <1>6 DEF IInv, TypeOK, SkipOutput
  <2>2. Paired(portEnv)' /\ Paired(injected)'
    BY <1>3, <1>6 DEF IInv, Paired, SkipOutput
  <2>3. OpenOutputHasPorts'
    BY <1>6 DEF IInv, OpenOutputHasPorts, SkipOutput, Scanning, OutputOf
  <2>4. CurrentFixture'
    <3>1. ASSUME NEW e \in DirectPorts, Scanned(e)' PROVE Scanned(e)
      <4>1. e.output \in Outputs /\ fixtures[e.fixture].outputs[e.output].kind = "ports"
        BY <1>4, DirectPort
      <4> QED
        BY <1>6, <3>1, <4>1
           DEF Scanned, SkipOutput, Scanning, Outputs, NoOutput, OutputOf
    <3> QED
      BY <1>2, <1>3, <1>6, <3>1 DEF IInv, CurrentFixture, Holds, SkipOutput
  <2>5. EarlierFixtures'
    BY <1>2, <1>3, <1>6 DEF IInv, EarlierFixtures, Holds, SkipOutput
  <2>6. TestedLayers'
    BY <1>6 DEF IInv, TestedLayers, SkipOutput
  <2> QED
    BY <2>1, <2>2, <2>3, <2>4, <2>5, <2>6 DEF IInv
<1>7. ASSUME NEW o \in todo, MalformedOutput(o) PROVE IInv'
  <2>1. TypeOK'
    BY <1>1, <1>2, <1>7 DEF IInv, TypeOK, MalformedOutput
  <2>2. Paired(portEnv)' /\ Paired(injected)'
    BY <1>3, <1>7 DEF IInv, Paired, MalformedOutput
  <2>3. OpenOutputHasPorts'
    BY <1>7 DEF OpenOutputHasPorts, MalformedOutput, Scanning
  <2>4. CurrentFixture'
    BY <1>2, <1>3, <1>7 DEF IInv, CurrentFixture, Scanned, Holds, MalformedOutput
  <2>5. EarlierFixtures'
    BY <1>2, <1>3, <1>7 DEF IInv, EarlierFixtures, Holds, MalformedOutput
  <2>6. TestedLayers'
    BY <1>7 DEF TestedLayers, MalformedOutput
  <2> QED
    BY <2>1, <2>2, <2>3, <2>4, <2>5, <2>6 DEF IInv
<1>8. ASSUME PutPort PROVE IInv'
  <2> DEFINE out == OutputOf(output)
             e0 == [fixture |-> next, output |-> output, port |-> port]
             fresh == PortVars(NameOf(e0), e0)
  <2>1. /\ next \in 1 .. Len(fixtures) /\ output \in Outputs /\ output \notin todo
        /\ out.kind = "ports" /\ pc = "injecting"
    BY <1>8 DEF IInv, TypeOK, OpenOutputHasPorts, PutPort
  <2>2. port \in DOMAIN out.ports /\ port \in Nat
    <3>1. fixtures[next] \in Fixture
      BY <1>4, <2>1
    <3>2. out \in Output
      BY <2>1, <3>1 DEF OutputOf, Fixture
    <3>3. out.ports \in Seq(Port)
      BY <3>2 DEF Output
    <3>4. port \in Nat \ {0} /\ port <= Len(out.ports)
      BY <1>8 DEF IInv, TypeOK, PutPort
    <3> QED
      BY <3>3, <3>4
  <2>3. ~out.ports[port].tunnel => e0 \in DirectPorts
    BY <1>4, <2>1, <2>2, EntryIsDirect DEF OutputOf
  <2>4. NameOf(e0) = BaseName(fixtures[next].name, out.ports[port].name)
    BY DEF NameOf, PortOf, OutputOf
  <2>5. portEnv' = IF out.ports[port].tunnel THEN portEnv ELSE Overlay(fresh, portEnv)
    BY <1>8, <2>4 DEF PutPort, Announce
  <2>6. DOMAIN fresh = {NameOf(e0)} \X Part /\ \A x \in DOMAIN fresh : fresh[x] = e0
    BY DEF PortVars
  <2> HIDE DEF out, e0, fresh
  <2>7. \A x \in DOMAIN portEnv : x \in Var /\ portEnv[x] \in DirectPorts
    BY DEF IInv, TypeOK
  <2>8. e0 \in DirectPorts => \A x \in DOMAIN fresh : x \in Var
    BY <1>4, <2>6, NameOfType DEF Var
  <2>9. \A x \in DOMAIN portEnv' : x \in Var /\ portEnv'[x] \in DirectPorts
    BY <2>3, <2>5, <2>6, <2>7, <2>8 DEF Overlay
  <2>10. TypeOK'
    <3>1. port' \in Nat \ {0}
      BY <1>8, <2>2 DEF PutPort
    <3> QED
      BY <1>1, <1>2, <1>8, <2>9, <3>1 DEF IInv, TypeOK, PutPort
  <2>11. Paired(portEnv)'
    <3>1. Paired(fresh)
      BY <2>6 DEF Paired
    <3>2. e0 \in DirectPorts => Paired(Overlay(fresh, portEnv))
      BY <2>7, <2>8, <3>1, OverlayPaired DEF IInv
    <3>3. \A x \in DOMAIN portEnv' : \A part \in Part :
              LET y == <<x[1], part>>
              IN  y \in DOMAIN portEnv' /\ portEnv'[y] = portEnv'[x]
                  /\ NameOf(portEnv'[y]) = x[1]
      <4>1. CASE out.ports[port].tunnel
        BY <2>5, <4>1 DEF IInv, Paired
      <4>2. CASE ~out.ports[port].tunnel
        <5>1. portEnv' = Overlay(fresh, portEnv)
          BY <2>5, <4>2
        <5>2. Paired(Overlay(fresh, portEnv))
          BY <2>3, <3>2, <4>2
        <5> QED
          BY <5>1, <5>2 DEF Paired
      <4> QED
        BY <4>1, <4>2
    <3> QED
      BY <1>3, <3>3 DEF Paired
  <2>12. Paired(injected)'
    BY <1>3, <1>8 DEF IInv, Paired, PutPort
  <2>13. OpenOutputHasPorts'
    BY <1>8 DEF IInv, OpenOutputHasPorts, OutputOf, PutPort
  <2>14. CurrentFixture'
    <3>2. \A e : Holds(portEnv, e) =>
              \A part \in Part : <<NameOf(e), part>> \in DOMAIN portEnv'
      BY <2>5 DEF Holds, Overlay
    <3>3. ASSUME NEW e \in DirectPorts, Scanned(e)'
          PROVE  \A part \in Part : <<NameOf(e), part>> \in DOMAIN portEnv'
      <4>1. CASE Scanned(e)
        BY <3>2, <4>1 DEF IInv, CurrentFixture
      <4>2. CASE ~Scanned(e)
        <5>1. e.fixture = next /\ e.output = output /\ e.port = port
          <6>1. e.port \in Nat
            BY <1>4, DirectPort
          <6> QED
            BY <1>8, <2>2, <3>3, <4>2, <6>1 DEF Scanned, PutPort
        <5>2. e = e0
          BY <1>4, <5>1, DirectPort DEF e0
        <5>3. ~out.ports[port].tunnel
          BY <5>1, EntryNotTunneled DEF out, OutputOf, PortOf
        <5> QED
          BY <2>5, <2>6, <5>2, <5>3 DEF Overlay
      <4> QED
        BY <4>1, <4>2
    <3> QED
      BY <1>2, <1>3, <3>3 DEF CurrentFixture, Holds
  <2>15. EarlierFixtures'
    BY <1>2, <1>3, <1>8 DEF IInv, EarlierFixtures, Holds, PutPort
  <2>16. TestedLayers'
    BY <1>8 DEF IInv, TestedLayers, PutPort
  <2> QED
    BY <2>10, <2>11, <2>12, <2>13, <2>14, <2>15, <2>16 DEF IInv
<1>9. ASSUME OutputDone PROVE IInv'
  <2>1. TypeOK'
    BY <1>1, <1>2, <1>9 DEF IInv, TypeOK, OutputDone
  <2>2. Paired(portEnv)' /\ Paired(injected)'
    BY <1>3, <1>9 DEF IInv, Paired, OutputDone
  <2>3. OpenOutputHasPorts'
    BY <1>9 DEF OpenOutputHasPorts, OutputDone
  <2>4. CurrentFixture'
    <3>1. ASSUME NEW e \in DirectPorts, Scanned(e)' PROVE Scanned(e)
      <4>1. /\ e.output \in Outputs
            /\ e.port \in 1 .. Len(fixtures[e.fixture].outputs[e.output].ports)
        BY <1>4, DirectPort
      <4>2. CASE e.output = output
        <5>1. e.fixture = next
          BY <1>9, <3>1 DEF Scanned, OutputDone
        <5>2. e.port \in 1 .. Len(OutputOf(output).ports)
          BY <4>1, <4>2, <5>1 DEF OutputOf
        <5>3. port \in Nat /\ port > Len(OutputOf(output).ports)
          BY <1>9 DEF IInv, TypeOK, OutputDone
        <5>4. e.port < port
          BY <5>2, <5>3
        <5> QED
          BY <4>2, <5>1, <5>4 DEF Scanned
      <4>3. CASE e.output # output
        BY <1>9, <3>1, <4>1, <4>3 DEF Scanned, OutputDone, Outputs, NoOutput
      <4> QED
        BY <4>2, <4>3
    <3> QED
      BY <1>2, <1>3, <1>9, <3>1 DEF IInv, CurrentFixture, Holds, OutputDone
  <2>5. EarlierFixtures'
    BY <1>2, <1>3, <1>9 DEF IInv, EarlierFixtures, Holds, OutputDone
  <2>6. TestedLayers'
    BY <1>9 DEF IInv, TestedLayers, OutputDone
  <2> QED
    BY <2>1, <2>2, <2>3, <2>4, <2>5, <2>6 DEF IInv
<1>10. ASSUME FixtureDone PROVE IInv'
  <2>1. next \in 1 .. Len(fixtures) /\ next' = next + 1 /\ output = NoOutput /\ todo = {}
    BY <1>4, <1>10 DEF IInv, TypeOK, FixtureDone, Scanning
  <2>2. injected' = Overlay(portEnv, injected) /\ portEnv' = NoVars /\ DOMAIN NoVars = {}
    BY <1>10 DEF FixtureDone, NoVars
  <2>3. \A m \in {portEnv, injected} : \A x \in DOMAIN m : x \in Var /\ m[x] \in DirectPorts
    BY DEF IInv, TypeOK
  <2>4. \A x \in DOMAIN injected' : x \in Var /\ injected'[x] \in DirectPorts
    BY <2>2, <2>3 DEF Overlay
  <2>5. TypeOK'
    <3>1. next' \in 1 .. Len(fixtures) + 1
      BY <1>4, <2>1
    <3> QED
      BY <1>1, <1>2, <1>10, <2>2, <2>4, <3>1 DEF IInv, TypeOK, FixtureDone
  <2>6. Paired(portEnv)'
    BY <2>2 DEF Paired
  <2>7. Paired(injected)'
    <3>1. Paired(Overlay(portEnv, injected))
      BY <2>3, OverlayPaired DEF IInv
    <3>2. \A x \in DOMAIN injected' : \A part \in Part :
              LET y == <<x[1], part>>
              IN  y \in DOMAIN injected' /\ injected'[y] = injected'[x]
                  /\ NameOf(injected'[y]) = x[1]
      BY <2>2, <3>1 DEF Paired
    <3> QED
      BY <1>3, <3>2 DEF Paired
  <2>8. OpenOutputHasPorts'
    BY <1>10, <2>1 DEF OpenOutputHasPorts, FixtureDone
  <2>9. CurrentFixture'
    <3>1. ASSUME NEW e \in DirectPorts PROVE ~Scanned(e)'
      BY <1>4, <1>10, <2>1, DirectPort DEF Scanned, FixtureDone, Outputs, NoOutput
    <3> QED
      BY <1>2, <2>2, <3>1 DEF CurrentFixture
  <2>10. EarlierFixtures'
    <3>1. ASSUME NEW e \in DirectPorts, e.fixture < next', NEW part \in Part
          PROVE  <<NameOf(e), part>> \in DOMAIN injected'
      <4> DEFINE x == <<NameOf(e), part>>
      <4>1. e.fixture \in Nat /\ e.output \in Outputs /\ e.fixture <= next
        BY <1>4, <2>1, <3>1, DirectPort
      <4>3. CASE x \in DOMAIN portEnv
        BY <2>2, <4>3 DEF Overlay
      <4>4. CASE x \notin DOMAIN portEnv
        <5>1. ~Scanned(e)
          BY <4>4 DEF IInv, CurrentFixture, Holds
        <5>2. e.fixture # next
          BY <2>1, <4>1, <5>1 DEF Scanned, Outputs, NoOutput
        <5>3. x \in DOMAIN injected
          BY <2>1, <4>1, <5>2 DEF IInv, EarlierFixtures, Holds
        <5> QED
          BY <2>2, <4>4, <5>3 DEF Overlay
      <4> QED
        BY <4>3, <4>4
    <3> QED
      BY <1>2, <1>3, <3>1 DEF EarlierFixtures, Holds
  <2>11. TestedLayers'
    BY <1>10 DEF TestedLayers, FixtureDone, Scanning
  <2> QED
    BY <2>5, <2>6, <2>7, <2>8, <2>9, <2>10, <2>11 DEF IInv
<1>11. ASSUME RunTest PROVE IInv'
  <2>1. TypeOK'
    <3>1. \A x \in DOMAIN injected : x \in Var /\ injected[x] \in DirectPorts
      BY DEF IInv, TypeOK
    <3>2. \A x \in DOMAIN env' :
              x \in Var /\ env'[x] \in DirectPorts \cup {Layer("base"), Layer("config")}
      BY <1>11, <3>1, LayersAssumption DEF RunTest, mergeEnv, Overlay
    <3> QED
      BY <1>1, <1>2, <1>11, <3>2 DEF IInv, TypeOK, RunTest
  <2>2. Paired(portEnv)' /\ Paired(injected)'
    BY <1>3, <1>11 DEF IInv, Paired, RunTest
  <2>3. OpenOutputHasPorts'
    BY <1>4, <1>11 DEF IInv, TypeOK, OpenOutputHasPorts, RunTest
  <2>4. CurrentFixture'
    BY <1>2, <1>3, <1>11 DEF IInv, CurrentFixture, Scanned, Holds, RunTest
  <2>5. EarlierFixtures'
    BY <1>2, <1>3, <1>11 DEF IInv, EarlierFixtures, Holds, RunTest
  <2>6. TestedLayers'
    BY <1>1, <1>4, <1>11 DEF IInv, TypeOK, TestedLayers, RunTest, mergeEnv, Overlay
  <2> QED
    BY <2>1, <2>2, <2>3, <2>4, <2>5, <2>6 DEF IInv
<1>12. CASE UNCHANGED vars
  <2>1. TypeOK'
    BY <1>2, <1>12 DEF IInv, TypeOK, vars
  <2>2. Paired(portEnv)' /\ Paired(injected)'
    BY <1>3, <1>12 DEF IInv, Paired, vars
  <2>3. OpenOutputHasPorts' /\ TestedLayers'
    BY <1>12 DEF IInv, OpenOutputHasPorts, OutputOf, TestedLayers, mergeEnv, Overlay, vars
  <2>4. CurrentFixture'
    BY <1>2, <1>3, <1>12 DEF IInv, CurrentFixture, Scanned, Holds, vars
  <2>5. EarlierFixtures'
    BY <1>2, <1>3, <1>12 DEF IInv, EarlierFixtures, Holds, vars
  <2> QED
    BY <2>1, <2>2, <2>3, <2>4, <2>5 DEF IInv
<1> QED
  BY <1>5, <1>6, <1>7, <1>8, <1>9, <1>10, <1>11, <1>12 DEF Next

--------------------------------------------------------------------------------
\* What the test sees.

\* The inductive invariant holds in every state of every behaviour.
LEMMA AlwaysIInv == Spec => []IInv
BY InitIInv, NextIInv, PTL DEF Spec

\* A variable of a direct port holds what the run configuration sets it to, or
\* else the entry that execute injected, whatever the runner's own environment has.
LEMMA TestEnv ==
    ASSUME IInv, pc = "testing", NEW e \in DirectPorts, NEW part \in Part
    PROVE  LET x == <<NameOf(e), part>>
           IN  /\ x \in DOMAIN env /\ x \in DOMAIN injected
               /\ env[x] = IF x \in DOMAIN ConfigEnv THEN ConfigEnv[x] ELSE injected[x]
<1> DEFINE x == <<NameOf(e), part>>
<1>1. next = Len(fixtures) + 1 /\ env = mergeEnv(BaseEnv, injected, ConfigEnv)
  BY DEF IInv, TestedLayers
<1>2. e.fixture < next
  BY <1>1, DirectPort DEF IInv, TypeOK
<1>3. x \in DOMAIN injected
  BY <1>2 DEF IInv, EarlierFixtures, Holds
<1> QED
  BY <1>1, <1>3 DEF mergeEnv, Overlay

\* The variables of portEnvFromOutputs and execute hold entries that exist.
THEOREM TypeCorrect == Spec => []TypeOK
BY AlwaysIInv, PTL DEF IInv

\* execute and mergeEnv: the test gets the variables of every direct port of every
\* fixture, with that port or a namesake, and only the run configuration overrides
\* them.
THEOREM DirectPortsAlwaysArrive == Spec => []DirectPortsArrive
<1>1. IInv => DirectPortsArrive
  <2> SUFFICES ASSUME IInv, pc = "testing", NEW e \in DirectPorts, NEW part \in Part
               PROVE  LET x == <<NameOf(e), part>>
                          namesakes == {f \in DirectPorts : NameOf(f) = NameOf(e)}
                      IN  /\ x \in DOMAIN env
                          /\ env[x] \in IF x \in DOMAIN ConfigEnv THEN {Layer("config")}
                                        ELSE namesakes
    BY DEF DirectPortsArrive
  <2> DEFINE x == <<NameOf(e), part>>
  <2>1. /\ x \in DOMAIN env /\ x \in DOMAIN injected
        /\ env[x] = IF x \in DOMAIN ConfigEnv THEN ConfigEnv[x] ELSE injected[x]
    BY TestEnv
  <2>2. injected[x] \in DirectPorts /\ NameOf(injected[x]) = NameOf(e)
    <3>1. injected[x] \in DirectPorts
      BY <2>1 DEF IInv, TypeOK
    <3>2. x[1] = NameOf(e) /\ <<x[1], part>> = x
      OBVIOUS
    <3>3. NameOf(injected[<<x[1], part>>]) = x[1]
      BY <2>1 DEF IInv, Paired
    <3> QED
      BY <3>1, <3>2, <3>3
  <2> QED
    BY <2>1, <2>2, LayersAssumption
<1> QED
  BY <1>1, AlwaysIInv, PTL

\* portEnvFromOutputs: host and port of a name are those of one entry, in
\* whatever order the outputs are scanned and however names collide.
THEOREM HostAlwaysBelongsToPort == Spec => []HostBelongsToPort
<1>1. IInv => HostBelongsToPort
  <2> SUFFICES ASSUME IInv, pc = "testing", NEW e \in DirectPorts,
                      <<NameOf(e), "HOST">> \notin DOMAIN ConfigEnv,
                      <<NameOf(e), "PORT">> \notin DOMAIN ConfigEnv
               PROVE  env[<<NameOf(e), "HOST">>] = env[<<NameOf(e), "PORT">>]
    BY DEF HostBelongsToPort
  <2> DEFINE x == <<NameOf(e), "HOST">>
             y == <<NameOf(e), "PORT">>
  <2>1. x \in DOMAIN injected /\ env[x] = injected[x] /\ env[y] = injected[y]
    BY TestEnv DEF Part
  <2>2. x[1] = NameOf(e)
    OBVIOUS
  <2>3. injected[<<x[1], "PORT">>] = injected[x]
    BY <2>1 DEF IInv, Paired, Part
  <2> QED
    BY <2>1, <2>2, <2>3
<1> QED
  BY <1>1, AlwaysIInv, PTL

\* envFragment and env_prefix_for_fixture: the test finds the ports of a fixture
\* with a plain name under the prefix the rules export.
THEOREM PlainPrefixesAlwaysAgree == Spec => []PlainPrefixesAgree
<1>1. IInv => PlainPrefixesAgree
  <2> SUFFICES ASSUME IInv, pc = "testing", NEW i \in DOMAIN fixtures,
                      Plain(fixtures[i].name), NEW e \in DirectPorts, e.fixture = i
               PROVE  <<env_prefix_for_fixture(fixtures[i].name) \o <<"_">>
                            \o envFragment(PortOf(e).name), "HOST">> \in DOMAIN env
    BY DEF PlainPrefixesAgree, FoundUnderRulePrefix
  <2>1. fixtures[i] \in Fixture
    BY DEF IInv, TypeOK
  <2>2. env_prefix_for_fixture(fixtures[i].name) = envFragment(fixtures[i].name)
    BY <2>1, PlainPrefix DEF Fixture
  <2>3. <<NameOf(e), "HOST">> \in DOMAIN env
    BY TestEnv DEF Part
  <2> QED
    BY <2>2, <2>3 DEF NameOf, BaseName
<1> QED
  BY <1>1, AlwaysIInv, PTL

================================================================================
