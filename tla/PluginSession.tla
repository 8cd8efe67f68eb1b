------------------------------ MODULE PluginSession ------------------------------
(***************************************************************************)
(* What a TakeLease handler and its plugin say to each other               *)
(* (plugin_client.rs): DescribePlugin, and the CreateProgress messages of  *)
(* CreateFixture, which the handler drains to the first terminal one. The  *)
(* plugin writes at its own pace, may write more than the handler reads,   *)
(* and may exit with messages unread. It is either the dummy plugin        *)
(* (plugins/dummy/src/main.rs) or any other program that serves the        *)
(* CoordinatorPlugin service.                                              *)
(*                                                                         *)
(* The dummy plugin turns the ports of its input into outputs, and the     *)
(* runner reads those (env.go). Its input, a part of the description, is   *)
(* determined by the fingerprint. A port number is a u64 in the plugin and *)
(* an int in the runner, which has fewer values.                           *)
(***************************************************************************)
EXTENDS Coordinator, Rpc, Sequences

CONSTANTS
    Dummies,      \* fingerprints whose plugin is the dummy plugin
    PortsInput,   \* [Dummies -> the "ports" input, None when it is no string]
    Progress,     \* CreateProgress messages that other plugins send
    MaxMessages,  \* bound on the messages other plugins send, all together
    Unparsable,   \* a ports input that is no JSON object
    MaxU64,       \* largest port number of the plugin
    MaxInt        \* largest port number of the runner

(***************************************************************************)
(* A ports input that parses maps names to JSON values: strings and        *)
(* numbers with the number they denote, negative when it is no natural     *)
(* number, and others.                                                     *)
(***************************************************************************)
JsonValue == [kind : {"string", "number", "other"}, n : Int]

ASSUME WidthAssumption == MaxInt \in Nat /\ MaxU64 \in Nat /\ MaxInt <= MaxU64
ASSUME DummiesAssumption == Dummies \subseteq Fingerprints
ASSUME ProgressAssumption == \A m \in Progress : m.status \in Int
ASSUME InputAssumption == \A f \in Dummies :
    PortsInput[f] \notin {None, Unparsable} =>
        \A x \in DOMAIN PortsInput[f] : PortsInput[f][x] \in JsonValue

VARIABLES
    described,  \* calls whose plugin has answered DescribePlugin
    stream,     \* the CreateProgress messages each call's plugin has written
    fate,       \* whether the plugin has ended its stream, or failed it
    next        \* number of messages the handler has taken off the stream

session == <<described, stream, fate, next>>

--------------------------------------------------------------------------------
\* Messages.

Unknown == 0
Creating == 2
Succeeded == 4
Error == 5

\* Fault: a status the coordinator does not know counts as an error.
StatusOrError(m) == IF m.status \in 0 .. 5 THEN m.status ELSE Error

\* CreateProgress::status(): unlisted values read as CREATE_PROGRESS_UNKNOWN.
StatusOf(m) == IF m.status \in 0 .. 5 THEN m.status ELSE Unknown

Parsed(input) ==
    IF input \in {None, Unparsable} THEN [x \in {} |-> 0] ELSE input

\* Fault: the number is cast to its width.
PortOfCast(v) == IF v.kind = "other" THEN 0 ELSE v.n % (MaxU64 + 1)

\* A string that parses as u64, or a number that is one; otherwise 0.
PortOf(v) ==
    IF v.kind \in {"string", "number"} /\ v.n \in 0 .. MaxU64 THEN v.n ELSE 0

\* One entry for every key of the input, here as a function of the key.
ports_schema_blob(input) ==
    [x \in DOMAIN Parsed(input) |-> PortOf(Parsed(input)[x])]

\* Fault: the result is left out.
EchoNoResult(f) == [status |-> Succeeded, result |-> None]

\* The one message of the dummy plugin.
Echo(f) == [status |-> Succeeded, result |-> ports_schema_blob(PortsInput[f])]

ASSUME ResultAssumption == \A f \in Dummies : ports_schema_blob(PortsInput[f]) # None

CreateProgress == Progress \cup {Echo(f) : f \in Dummies}

SessionTypeOK ==
    /\ TypeOK
    /\ described \in SUBSET Calls
    /\ stream \in [Calls -> Seq(CreateProgress)]
    /\ fate \in [Calls -> {"open", "ended", "failed"}]
    /\ next \in [Calls -> Nat]
    /\ \A r \in Calls : next[r] <= Len(stream[r])

--------------------------------------------------------------------------------
\* The plugin's side.

IsDummy(r) == fp[r] \in Dummies

\* The request the handler of r awaits reaches this method of its plugin.
Reaches(r, method) ==
    /\ plugin[r] = "up"
    /\ \/ /\ pc[r] = "describing"
          /\ Handler(CoordinatorPluginClient, CoordinatorPluginServer,
                     "describe_plugin") = method
       \/ /\ pc[r] = "creating"
          /\ Handler(CoordinatorPluginClient, CoordinatorPluginServer,
                     "create_fixture") = method

\* Its content does not matter to the coordinator.
describe_plugin(r) ==
    /\ Reaches(r, "describe_plugin") /\ r \notin described
    /\ described' = described \cup {r}
    /\ UNCHANGED <<stream, fate, next>>
    /\ UNCHANGED vars

\* Fault: the dummy plugin reports success at a HealthCheck, which never comes.
create_fixture_checked(r) ==
    /\ Reaches(r, "health_check") /\ IsDummy(r) /\ fate[r] = "open"
    /\ stream' = [stream EXCEPT ![r] = <<Echo(fp[r])>>]
    /\ fate' = [fate EXCEPT ![r] = "ended"]
    /\ UNCHANGED <<described, next>>
    /\ UNCHANGED vars

\* The dummy plugin.
create_fixture(r) ==
    /\ Reaches(r, "create_fixture") /\ IsDummy(r) /\ fate[r] = "open"
    /\ stream' = [stream EXCEPT ![r] = <<Echo(fp[r])>>]
    /\ fate' = [fate EXCEPT ![r] = "ended"]
    /\ UNCHANGED <<described, next>>
    /\ UNCHANGED vars

\* Other plugins send any messages,
OtherSends(r) ==
    /\ Reaches(r, "create_fixture") /\ ~IsDummy(r) /\ fate[r] = "open"
    /\ Cardinality(UNION {{s} \X DOMAIN stream[s] : s \in {t \in Calls : ~IsDummy(t)}})
           < MaxMessages
    /\ \E m \in Progress : stream' = [stream EXCEPT ![r] = Append(@, m)]
    /\ UNCHANGED <<described, fate, next>>
    /\ UNCHANGED vars

\* and end the stream, or fail it with a status, at any time.
OtherEnds(r) ==
    /\ Reaches(r, "create_fixture") /\ ~IsDummy(r) /\ fate[r] = "open"
    /\ \E e \in {"ended", "failed"} : fate' = [fate EXCEPT ![r] = e]
    /\ UNCHANGED <<described, stream, next>>
    /\ UNCHANGED vars

--------------------------------------------------------------------------------
\* The handler's side.

\* DescribePlugin returns; the answer may be read after the plugin's exit.
describe(r) ==
    /\ r \in described
    /\ Described(r)
    /\ UNCHANGED session

\* DescribePlugin returns an error status.
DescribeFails(r) ==
    /\ Reaches(r, "describe_plugin") /\ ~IsDummy(r) /\ r \notin described
    /\ ProvisionFailed(r)
    /\ UNCHANGED session

\* The next message of the stream: terminal ones end the call, a success only
\* with a result; others are drained.
Drain(r) ==
    /\ pc[r] = "creating" /\ next[r] < Len(stream[r])
    /\ next' = [next EXCEPT ![r] = @ + 1]
    /\ LET m == stream[r][next[r] + 1] IN
       CASE StatusOf(m) = Succeeded /\ m.result # None -> Created(r)
         [] StatusOf(m) = Succeeded /\ m.result = None -> ProvisionFailed(r)
         [] StatusOf(m) = Error -> ProvisionFailed(r)
         [] OTHER -> UNCHANGED vars
    /\ UNCHANGED <<described, stream, fate>>

\* Fault: a stream that ends without a terminal message is waited for.
StreamErrs(r) ==
    /\ pc[r] = "creating" /\ next[r] = Len(stream[r]) /\ fate[r] = "failed"
    /\ ProvisionFailed(r)
    /\ UNCHANGED session

\* The stream is over without a terminal message, or failed.
StreamOver(r) ==
    /\ pc[r] = "creating" /\ next[r] = Len(stream[r]) /\ fate[r] # "open"
    /\ ProvisionFailed(r)
    /\ UNCHANGED session

\* The connection went away with the plugin, and what was not read with it.
ConnectionLost(r) ==
    /\ plugin[r] = "exited"
    /\ ProvisionFailed(r)
    /\ UNCHANGED session

--------------------------------------------------------------------------------
SessionInit ==
    /\ Init
    /\ described = {}
    /\ stream = [r \in Calls |-> << >>]
    /\ fate = [r \in Calls |-> "open"]
    /\ next = [r \in Calls |-> 0]

\* The steps that exchange nothing with a plugin.
Aside(r) ==
    /\ \/ TakeLeaseRejected(r)
       \/ \E c \in Clients, f \in Fingerprints :
              TakeLeaseAttach(r, c, f) \/ TakeLeaseMiss(r, c, f)
       \/ SpawnPlugin(r) \/ SpawnFailed(r)
       \/ Connected(r) \/ ConnectFailed(r)
       \/ Publish(r) \/ ReleaseLease(r)
       \/ ClientGone(r) \/ Cancel(r)
       \/ PluginServes(r) \/ PluginExits(r)
    /\ UNCHANGED session

SessionNext == \E r \in Calls :
    \/ Aside(r)
    \/ describe_plugin(r) \/ create_fixture(r) \/ OtherSends(r) \/ OtherEnds(r)
    \/ describe(r) \/ DescribeFails(r)
    \/ Drain(r) \/ StreamOver(r) \/ ConnectionLost(r)

SessionSpec == SessionInit /\ [][SessionNext]_<<vars, session>>

\* What the handler of r does when the runtime polls it.
HandlerStep(r) ==
    \/ /\ \/ SpawnPlugin(r) \/ SpawnFailed(r)
          \/ Connected(r) \/ ConnectFailed(r)
          \/ Publish(r) \/ Cancel(r)
       /\ UNCHANGED session
    \/ describe(r) \/ Drain(r) \/ StreamOver(r) \/ ConnectionLost(r)

(***************************************************************************)
(* As in Coordinator, the runtime keeps polling handlers that can run. The *)
(* dummy plugin's methods wait for nothing but their turn; nothing is      *)
(* assumed of other plugins, or of callers.                                *)
(***************************************************************************)
SessionFairness == \A r \in Calls :
    /\ WF_<<vars, session>>(HandlerStep(r))
    /\ WF_<<vars, session>>(IsDummy(r) /\ (describe_plugin(r) \/ create_fixture(r)))

FairSession == SessionSpec /\ SessionFairness

--------------------------------------------------------------------------------
\* Properties.

Terminals(r) == {k \in 1 .. Len(stream[r]) : stream[r][k].status \in {Succeeded, Error}}
IsFirst(r, k) == k \in Terminals(r) /\ \A j \in Terminals(r) : k <= j
Provides(r, k) == stream[r][k].status = Succeeded /\ stream[r][k].result # None

\* What the handler of r has decided, given what its plugin wrote.
Decided(r) ==
    /\ pc[r] = "creating" => \A k \in 1 .. next[r] : k \notin Terminals(r)
    /\ pc[r] = "created" \/ granted[r] = r =>
           IsFirst(r, next[r]) /\ Provides(r, next[r])
    /\ pc[r] = "failed" /\ next[r] \in Terminals(r) =>
           IsFirst(r, next[r]) /\ ~Provides(r, next[r])
    /\ pc[r] = "failed" /\ plugin[r] = "killed" /\ ~gone[r] =>
           \/ stream[r] = << >>
           \/ next[r] \in Terminals(r)
           \/ next[r] = Len(stream[r]) /\ fate[r] # "open"

(***************************************************************************)
(* create_fixture of plugin_client.rs: "drains the CreateProgress stream   *)
(* to its terminal message". The first terminal message that the plugin    *)
(* wrote decides, whatever is before it, was written after it, and when    *)
(* the plugin exits: a fixture exists only by a success that has a result, *)
(* and such a success, once read, is not made undone.                      *)
(***************************************************************************)
FirstTerminalDecides == \A r \in Calls : Decided(r)

\* The outputs the response to l carried.
OutputsOf(l) == stream[granted[l]][next[granted[l]]].result

\* json.Unmarshal of a systemtest.ports blob in the runner: an integer that
\* does not fit makes it an error, None.
Unmarshal(blob) ==
    IF \E x \in DOMAIN blob : blob[x] > MaxInt THEN None ELSE blob

(***************************************************************************)
(* How far ports_schema_blob "just echoes the requested port mapping back" *)
(* through plugin, coordinator and runner, also to a lease that attached   *)
(* or whose record was replaced. The test gets an entry for every port of  *)
(* the input of its fixture, and no other. A number that plugin and runner *)
(* can hold arrives as it is. Any other value is not echoed: it arrives as *)
(* 0, never as another usable port, unless the plugin can hold it and the  *)
(* runner cannot. Only then the runner fails.                              *)
(***************************************************************************)
PortsEchoed == \A l \in Calls : granted[l] # None /\ IsDummy(l) =>
    LET asked == Parsed(PortsInput[fp[l]])
        got == Unmarshal(OutputsOf(l))
        Fits(x, lo, hi) == asked[x].kind # "other" /\ asked[x].n \in lo .. hi
    IN  IF got = None
        THEN \E x \in DOMAIN asked : Fits(x, MaxInt + 1, MaxU64)
        ELSE /\ DOMAIN got = DOMAIN asked
             /\ \A x \in DOMAIN asked :
                    got[x] = IF Fits(x, 0, MaxInt) THEN asked[x].n ELSE 0

(***************************************************************************)
(* The coordinator gets what the dummy plugin gives: whatever its input, a *)
(* call that the coordinator gives up although the plugin is there was     *)
(* given up by its caller.                                                 *)
(***************************************************************************)
DummyProvisions == \A r \in Calls :
    pc[r] = "failed" /\ IsDummy(r) /\ plugin[r] = "killed" => gone[r]

(***************************************************************************)
(* A stream that the plugin ended or failed ends the call, even if nothing *)
(* terminal is on it, and however much of it is still unread.              *)
(***************************************************************************)
EndedStreamEndsCall == \A r \in Calls : fate[r] # "open" ~> pc[r] \in Terminal

(***************************************************************************)
(* With the dummy plugin a TakeLease that starts to provision comes to an  *)
(* end: no wait of the handler is for something that never happens.        *)
(***************************************************************************)
DummyCallEnds == \A r \in Calls :
    pc[r] = "spawning" /\ IsDummy(r) ~> pc[r] \in Terminal

--------------------------------------------------------------------------------
\* The inductive invariant behind the safety properties, on top of the
\* coordinator's.

\* Nothing is written before CreateFixture, and a dummy plugin writes all it has
\* to write at once.
SessionConsistent == \A r \in Calls :
    /\ pc[r] \in {"idle", "spawning", "connecting", "describing"} =>
           stream[r] = << >> /\ fate[r] = "open"
    /\ IsDummy(r) => stream[r] = IF fate[r] = "open" THEN << >> ELSE <<Echo(fp[r])>>

(***************************************************************************)
(* Inductive invariant of the sessions.                                    *)
(***************************************************************************)
SessionIInv ==
    /\ IInv
    /\ SessionTypeOK
    /\ SessionConsistent
    /\ FirstTerminalDecides
    /\ DummyProvisions
================================================================================
