------------------------------ MODULE Environment ------------------------------
(***************************************************************************)
(* The environment of the test: the names the runner gives to the ports of *)
(* the fixtures (env.go), how execute collects them over all fixtures      *)
(* (run.go) and how runTestBinary layers the result (exec.go), next to the *)
(* naming the Starlark rules export (env.bzl).                             *)
(*                                                                         *)
(* A name is a sequence of characters, of which a few stand for their      *)
(* kinds. A variable <PREFIX>_<NAME>_HOST is <<base, "HOST">>, where base  *)
(* is <PREFIX>_<NAME>: the last part of such a name is never ambiguous.    *)
(* A value is the port entry it was taken from.                            *)
(***************************************************************************)
EXTENDS Integers, Sequences, FiniteSets

CONSTANTS
    FixtureLists,  \* the fixtures of a test, with the outputs of their leases
    BaseEnv,       \* the runner's own environment
    ConfigEnv      \* the test's env of the run configuration

Lower == {"a", "b"}
Digit == {"1"}
Alnum == Lower \cup {"A", "B"} \cup Digit
Char == Alnum \cup {"_", "-"}

Upper(c) == CASE c = "a" -> "A" [] c = "b" -> "B" [] OTHER -> c

Outputs == {"out1", "out2"}
NoOutput == "none"

(***************************************************************************)
(* An output of a lease: ports, something of another schema, or a blob     *)
(* that does not parse as ports. A variable holds the port entry that was  *)
(* written to it, or the value of its layer.                               *)
(***************************************************************************)
Port == [name : Seq(Char), tunnel : BOOLEAN]
Output == [kind : {"ports", "other", "malformed"}, ports : Seq(Port)]
Fixture == [name : Seq(Char) \ {<< >>}, outputs : [Outputs -> Output]]
Layer(name) == [fixture |-> 0, output |-> name, port |-> 0]
Part == {"HOST", "PORT"}
Var == Seq(Char) \X Part

ASSUME FixtureListsAssumption == \A l \in FixtureLists : l \in Seq(Fixture)

ASSUME LayersAssumption ==
    /\ \A x \in DOMAIN BaseEnv : x \in Var /\ BaseEnv[x] = Layer("base")
    /\ \A x \in DOMAIN ConfigEnv : x \in Var /\ ConfigEnv[x] = Layer("config")

VARIABLES
    fixtures,  \* the fixtures of this test
    next,      \* the fixture whose outputs are being scanned
    todo,      \* its outputs not yet looked at; Go ranges over a map in any order
    output,    \* the ports output being scanned, or NoOutput
    port,      \* the port entry of it that is next
    portEnv,   \* what portEnvFromOutputs has so far
    injected,  \* injectedEnv in execute
    env,       \* the environment of the test
    pc

vars == <<fixtures, next, todo, output, port, portEnv, injected, env, pc>>

NoVars == [x \in {} |-> Layer("base")]

\* The variables of g, and those of f over them.
Overlay(f, g) ==
    [x \in DOMAIN f \cup DOMAIN g |-> IF x \in DOMAIN f THEN f[x] ELSE g[x]]

--------------------------------------------------------------------------------
\* Naming.

\* What is left of s when every run of characters that are not alphanumeric is
\* matched as one: the positions of the others, and of the first of each run.
Kept(s) == {i \in DOMAIN s : s[i] \in Alnum \/ i = 1 \/ s[i - 1] \in Alnum}

\* The n-th smallest element of a set of integers.
Nth(S, n) == CHOOSE i \in S : Cardinality({j \in S : j <= i}) = n

\* The characters of s at the positions K, in upper case or as underscores.
Written(s, K) ==
    [n \in 1 .. Cardinality(K) |->
        LET c == s[Nth(K, n)] IN IF c \in Alnum THEN Upper(c) ELSE "_"]

\* Fault: a separator at the end of the name is dropped.
envFragmentTrimmed(s) ==
    Written(s, {i \in Kept(s) : \E j \in i .. Len(s) : s[j] \in Alnum})

\* envFragment: runs of characters that are not alphanumeric become one
\* underscore.
envFragment(s) == Written(s, Kept(s))

\* env_prefix_for_fixture of the rules: each such character becomes one
\* underscore, and a leading digit gets one.
env_prefix_for_fixture(s) ==
    LET prefix == [i \in DOMAIN s |-> IF s[i] \in Alnum THEN Upper(s[i]) ELSE "_"]
    IN  IF prefix[1] \in Digit THEN <<"_">> \o prefix ELSE prefix

\* <PREFIX>_<NAME> of a port.
BaseName(fixtureName, portName) ==
    envFragment(fixtureName) \o <<"_">> \o envFragment(portName)

--------------------------------------------------------------------------------
\* Injection.

Init ==
    /\ fixtures \in FixtureLists
    /\ next = 1
    /\ todo = Outputs /\ output = NoOutput /\ port = 1
    /\ portEnv = NoVars /\ injected = NoVars /\ env = NoVars
    /\ pc = "injecting"

\* The next fixture has outputs to look at, and none of them is being scanned.
Scanning == pc = "injecting" /\ next <= Len(fixtures) /\ output = NoOutput

\* The two variables of one port entry.
PortVars(base, e) == [x \in {base} \X Part |-> e]

OutputOf(o) == fixtures[next].outputs[o]

\* portEnvFromOutputs takes an output that holds ports.
OpenOutput(o) ==
    /\ Scanning /\ o \in todo
    /\ OutputOf(o).kind = "ports"
    /\ todo' = todo \ {o}
    /\ output' = o /\ port' = 1
    /\ UNCHANGED <<fixtures, next, portEnv, injected, env, pc>>

\* An output of another schema.
SkipOutput(o) ==
    /\ Scanning /\ o \in todo
    /\ OutputOf(o).kind = "other"
    /\ todo' = todo \ {o}
    /\ UNCHANGED <<fixtures, next, output, port, portEnv, injected, env, pc>>

\* execute returns with an error; the test does not run.
MalformedOutput(o) ==
    /\ Scanning /\ o \in todo
    /\ OutputOf(o).kind = "malformed"
    /\ pc' = "failed"
    /\ UNCHANGED <<fixtures, next, todo, output, port, portEnv, injected, env>>

\* The variables of the next port entry of the output, over those so far.
Announce ==
    portEnv' = Overlay(PortVars(BaseName(fixtures[next].name,
                                         OutputOf(output).ports[port].name),
                                [fixture |-> next, output |-> output, port |-> port]),
                       portEnv)

\* Fault: tunneled ports are announced like direct ones.
PutAnyPort ==
    /\ output # NoOutput /\ port <= Len(OutputOf(output).ports)
    /\ Announce
    /\ port' = port + 1
    /\ UNCHANGED <<fixtures, next, todo, output, injected, env, pc>>

\* portEnvFromOutputs with the next port entry of the output.
PutPort ==
    /\ output # NoOutput /\ port <= Len(OutputOf(output).ports)
    /\ IF OutputOf(output).ports[port].tunnel THEN UNCHANGED portEnv ELSE Announce
    /\ port' = port + 1
    /\ UNCHANGED <<fixtures, next, todo, output, injected, env, pc>>

\* The output has no more ports.
OutputDone ==
    /\ output # NoOutput /\ port > Len(OutputOf(output).ports)
    /\ output' = NoOutput
    /\ UNCHANGED <<fixtures, next, todo, port, portEnv, injected, env, pc>>

\* Fault: the variables of earlier fixtures are lost.
FixtureDoneAlone ==
    /\ Scanning /\ todo = {}
    /\ injected' = portEnv
    /\ next' = next + 1
    /\ todo' = Outputs
    /\ portEnv' = NoVars
    /\ UNCHANGED <<fixtures, output, port, env, pc>>

\* execute copies the variables of a fixture into those of the test.
FixtureDone ==
    /\ Scanning /\ todo = {}
    /\ injected' = Overlay(portEnv, injected)
    /\ next' = next + 1
    /\ todo' = Outputs
    /\ portEnv' = NoVars
    /\ UNCHANGED <<fixtures, output, port, env, pc>>

\* Fault: what is in the environment already stays.
mergeEnvFill(base, overlay1, overlay2) == Overlay(Overlay(base, overlay1), overlay2)

\* mergeEnv, with the two overlays runTestBinary gives it: later ones win.
mergeEnv(base, overlay1, overlay2) == Overlay(overlay2, Overlay(overlay1, base))

\* runTestBinary.
RunTest ==
    /\ pc = "injecting" /\ next > Len(fixtures)
    /\ env' = mergeEnv(BaseEnv, injected, ConfigEnv)
    /\ pc' = "testing"
    /\ UNCHANGED <<fixtures, next, todo, output, port, portEnv, injected>>

Next ==
    \/ \E o \in todo : OpenOutput(o) \/ SkipOutput(o) \/ MalformedOutput(o)
    \/ PutPort
    \/ OutputDone
    \/ FixtureDone
    \/ RunTest

Spec == Init /\ [][Next]_vars

--------------------------------------------------------------------------------
\* Properties.

\* The entries of an output that the test can reach directly.
DirectEntries(i, o) ==
    LET out == fixtures[i].outputs[o]
    IN  {[fixture |-> i, output |-> o, port |-> j] :
            j \in {k \in DOMAIN out.ports :
                      out.kind = "ports" /\ ~out.ports[k].tunnel}}

DirectPorts == UNION {DirectEntries(i, o) : i \in DOMAIN fixtures, o \in Outputs}

PortOf(e) == fixtures[e.fixture].outputs[e.output].ports[e.port]
NameOf(e) == BaseName(fixtures[e.fixture].name, PortOf(e).name)

\* Variables are well formed and hold entries that exist.
TypeOK ==
    /\ fixtures \in Seq(Fixture)
    /\ next \in 1 .. Len(fixtures) + 1
    /\ todo \in SUBSET Outputs
    /\ output \in Outputs \cup {NoOutput}
    /\ port \in Nat \ {0}
    /\ pc \in {"injecting", "testing", "failed"}
    /\ \A m \in {portEnv, injected} : \A x \in DOMAIN m : x \in Var /\ m[x] \in DirectPorts
    /\ \A x \in DOMAIN env :
           x \in Var /\ env[x] \in DirectPorts \cup {Layer("base"), Layer("config")}

(***************************************************************************)
(* execute and mergeEnv: both variables of every direct port of every      *)
(* fixture reach the test, whatever the runner's own environment had under *)
(* those names. They hold the port itself, or one with the same variables; *)
(* only the test's env of the run configuration overrides them.            *)
(***************************************************************************)
DirectPortsArrive == pc = "testing" =>
    \A e \in DirectPorts : \A part \in Part :
        LET x == <<NameOf(e), part>>
            namesakes == {f \in DirectPorts : NameOf(f) = NameOf(e)}
        IN  /\ x \in DOMAIN env
            /\ env[x] \in IF x \in DOMAIN ConfigEnv THEN {Layer("config")}
                          ELSE namesakes

(***************************************************************************)
(* portEnvFromOutputs: however names collide and in whatever order the     *)
(* outputs are scanned, host and port of a name are those of one entry,    *)
(* unless the run configuration sets one of them.                          *)
(***************************************************************************)
HostBelongsToPort == pc = "testing" =>
    \A e \in DirectPorts :
        LET hostVar == <<NameOf(e), "HOST">>
            portVar == <<NameOf(e), "PORT">>
        IN  {hostVar, portVar} \cap DOMAIN ConfigEnv = {} => env[hostVar] = env[portVar]

\* Names with no leading digit and no two separators in a row.
Plain(s) ==
    /\ s[1] \notin Digit
    /\ \A i \in 1 .. Len(s) - 1 : s[i] \in Alnum \/ s[i + 1] \in Alnum

\* The test finds the ports of fixture i under the prefix the rules export.
FoundUnderRulePrefix(i) ==
    \A e \in DirectPorts : e.fixture = i =>
        <<env_prefix_for_fixture(fixtures[i].name) \o <<"_">>
              \o envFragment(PortOf(e).name), "HOST">> \in DOMAIN env

(***************************************************************************)
(* envFragment and env_prefix_for_fixture: the two name transformations    *)
(* give a plain fixture name the same prefix.                              *)
(***************************************************************************)
PlainPrefixesAgree == pc = "testing" =>
    \A i \in DOMAIN fixtures : Plain(fixtures[i].name) => FoundUnderRulePrefix(i)

--------------------------------------------------------------------------------
\* What the documentation says of the names, and the code does not do.

(***************************************************************************)
(* The prefix "keeps multiple fixtures in one test distinct" (DESIGN.md,   *)
(* Environment injection): the variables of a fixture's port never hold a  *)
(* port of a fixture with another name.                                    *)
(***************************************************************************)
FixturesStayDistinct == pc = "testing" =>
    \A e \in DirectPorts : \A part \in Part :
        LET found == env[<<NameOf(e), part>>]
        IN  found \in DirectPorts =>
                fixtures[found.fixture].name = fixtures[e.fixture].name

--------------------------------------------------------------------------------
\* The inductive invariant.

\* Both variables of a name hold one entry, and it is one of that name.
Paired(m) == \A x \in DOMAIN m : \A part \in Part :
    LET y == <<x[1], part>> IN y \in DOMAIN m /\ m[y] = m[x] /\ NameOf(m[y]) = x[1]

Holds(m, e) == \A part \in Part : <<NameOf(e), part>> \in DOMAIN m

\* Entry e of the current fixture has been looked at.
Scanned(e) ==
    /\ e.fixture = next
    /\ IF e.output = output THEN e.port < port ELSE e.output \notin todo

\* An output that is being scanned is a ports output of a fixture.
OpenOutputHasPorts == output # NoOutput =>
    /\ pc = "injecting" /\ next <= Len(fixtures)
    /\ output \notin todo
    /\ OutputOf(output).kind = "ports"

\* portEnv has the variables of what has been scanned of the current fixture.
CurrentFixture == \A e \in DirectPorts : Scanned(e) => Holds(portEnv, e)

\* injected has the variables of the earlier fixtures.
EarlierFixtures == \A e \in DirectPorts : e.fixture < next => Holds(injected, e)

\* The test runs after the last fixture, with the layers in their order.
TestedLayers == pc = "testing" =>
    next = Len(fixtures) + 1 /\ env = mergeEnv(BaseEnv, injected, ConfigEnv)

IInv ==
    /\ TypeOK
    /\ Paired(portEnv) /\ Paired(injected)
    /\ OpenOutputHasPorts
    /\ CurrentFixture
    /\ EarlierFixtures
    /\ TestedLayers

================================================================================
