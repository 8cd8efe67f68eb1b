--------------------------- MODULE FixtureIdentity ---------------------------
(***************************************************************************)
(* What a fingerprint stands for (fixture.rs), under the coordinator's     *)
(* handlers: TakeLease hashes the description and the plugin binary, looks *)
(* the fingerprint up, and later spawns whatever is at the binary's path.  *)
(*                                                                         *)
(* Binaries live at paths in test sandboxes and are rebuilt, replaced and  *)
(* removed while calls are in flight. SHA-256 is taken to be injective: a  *)
(* digest is named by what was hashed.                                     *)
(***************************************************************************)
EXTENDS Coordinator

CONSTANTS
    Recipes,   \* the rest of a description: impl_id, inputs, startup timeout
    Policies,  \* its sharing, None when it is absent
    Names,     \* its human-readable name, NoName when it is empty
    NoName,
    Paths,     \* where plugin binaries are found
    Bytes      \* contents of plugin binaries, and their digests

\* FixtureDescription.plugin: a local binary, a container, or nothing.
Container == "container_ref"
Description ==
    [recipe : Recipes, sharing : Policies, name : Names \cup {NoName},
     plugin : Paths \cup {Container, None}]

\* encode_to_vec: prost writes the fields that are set, each with its tag. An
\* empty name and an absent message are not written.
encode_to_vec(m) ==
    [field \in {x \in DOMAIN m : m[x] \notin {NoName, None}} |-> m[field]]

\* Encodings of descriptions without a name, whose path may have been replaced
\* by a digest.
Encoding == {encode_to_vec(m) : m \in
    [recipe : Recipes, sharing : Policies, name : {NoName}, plugin : Paths \cup Bytes]}

ASSUME FingerprintsAssumption == Fingerprints = Encoding
ASSUME DescSharingAssumption == DescSharing = [f \in Fingerprints |->
    IF "sharing" \in DOMAIN f THEN f.sharing ELSE None]
ASSUME DefaultsAssumption ==
    /\ None \notin Recipes \cup Paths
    /\ NoName \notin Recipes \cup Policies \cup Paths \cup Bytes
ASSUME PathsAssumption == Paths \cap (Bytes \cup {Container, None}) = {}
ASSUME BytesAssumption == None \notin Bytes \cup Description

VARIABLES
    file,     \* contents of the file at each path, None when there is none
    desc,     \* description of each call whose fingerprint was computed
    read,     \* contents hash_plugin_binary read for the call
    ran,      \* contents of the binary the call's plugin process executes
    rebuilt   \* calls whose binary changed between reading and spawning (history)

identity == <<file, desc, read, ran, rebuilt>>

IdentityTypeOK ==
    /\ file \in [Paths -> Bytes \cup {None}]
    /\ desc \in [Calls -> [recipe : Recipes, sharing : Policies,
                           name : Names \cup {NoName}, plugin : Paths] \cup {None}]
    /\ read \in [Calls -> Bytes \cup {None}]
    /\ ran \in [Calls -> Bytes \cup {None}]
    /\ rebuilt \in SUBSET Calls
    /\ \A r \in Calls : plugin[r] # "none" <=> ran[r] # None

--------------------------------------------------------------------------------
\* Computing a fingerprint.

\* Fault: the sandbox path stays in the encoding.
canonical_encoding_with_path(d, digest) == encode_to_vec([d EXCEPT !.name = NoName])

\* The description without its name, and with the digest of the plugin binary
\* in place of the binary's path.
canonical_encoding(d, digest) ==
    encode_to_vec([d EXCEPT !.name = NoName, !.plugin = digest])

FixtureFingerprint(r) == canonical_encoding(desc[r], read[r])

--------------------------------------------------------------------------------
\* The steps of TakeLease that deal with the binary.

\* No plugin, a container, or a binary that cannot be read, there or not.
Reject(r) ==
    /\ desc[r] = None
    /\ TakeLeaseRejected(r)
    /\ UNCHANGED identity

\* Fault: the digest of a path is remembered from an earlier call.
ComputeRemembered(r, d) ==
    /\ pc[r] = "idle" /\ desc[r] = None
    /\ d.plugin \in Paths /\ file[d.plugin] # None
    /\ desc' = [desc EXCEPT ![r] = d]
    /\ LET known == {s \in Calls : desc[s] # None /\ desc[s].plugin = d.plugin}
       IN  read' = [read EXCEPT ![r] = IF known = {} THEN file[d.plugin]
                                       ELSE read[CHOOSE s \in known : TRUE]]
    /\ UNCHANGED <<file, ran, rebuilt>>
    /\ UNCHANGED vars

\* FixtureFingerprint::compute: hash_plugin_binary reads the file.
Compute(r, d) ==
    /\ pc[r] = "idle" /\ desc[r] = None
    /\ d.plugin \in Paths /\ file[d.plugin] # None
    /\ desc' = [desc EXCEPT ![r] = d]
    /\ read' = [read EXCEPT ![r] = file[d.plugin]]
    /\ UNCHANGED <<file, ran, rebuilt>>
    /\ UNCHANGED vars

\* The first critical section, with the fingerprint just computed.
Lookup(r, c) ==
    /\ desc[r] # None
    /\ \/ TakeLeaseAttach(r, c, FixtureFingerprint(r))
       \/ TakeLeaseMiss(r, c, FixtureFingerprint(r))
    /\ UNCHANGED identity

\* Fault: a binary that is gone counts as spawned.
SpawnUnchecked(r) ==
    /\ SpawnPlugin(r)
    /\ ran' = [ran EXCEPT ![r] = file[desc[r].plugin]]
    /\ UNCHANGED <<file, desc, read, rebuilt>>

\* Command::spawn executes what the path names now.
Spawn(r) ==
    /\ SpawnPlugin(r)
    /\ file[desc[r].plugin] # None
    /\ ran' = [ran EXCEPT ![r] = file[desc[r].plugin]]
    /\ UNCHANGED <<file, desc, read, rebuilt>>

\* Calls that have read the file at p and not yet executed it.
Between(p) == {r \in Calls :
    desc[r] # None /\ desc[r].plugin = p /\ pc[r] \in {"idle", "spawning"}}

\* A build replaces a plugin binary, or a sandbox goes away or is set up.
Rewrite(p, b) ==
    /\ file[p] # b
    /\ file' = [file EXCEPT ![p] = b]
    /\ rebuilt' = rebuilt \cup Between(p)
    /\ UNCHANGED <<desc, read, ran>>
    /\ UNCHANGED vars

--------------------------------------------------------------------------------
IdentityInit ==
    /\ Init
    /\ file \in [Paths -> Bytes \cup {None}]
    /\ desc = [r \in Calls |-> None]
    /\ read = [r \in Calls |-> None]
    /\ ran = [r \in Calls |-> None]
    /\ rebuilt = {}

\* The steps of a handler, its plugin and its caller that touch no binary.
Elsewhere(r) ==
    /\ \/ SpawnFailed(r)
       \/ Connected(r) \/ ConnectFailed(r)
       \/ Described(r) \/ Created(r) \/ ProvisionFailed(r)
       \/ Publish(r) \/ ReleaseLease(r)
       \/ ClientGone(r) \/ Cancel(r)
       \/ PluginServes(r) \/ PluginExits(r)
    /\ UNCHANGED identity

IdentityNext ==
    \/ \E r \in Calls :
           \/ Reject(r)
           \/ \E d \in Description : Compute(r, d)
           \/ \E c \in Clients : Lookup(r, c)
           \/ Spawn(r)
           \/ Elsewhere(r)
    \/ \E p \in Paths, b \in Bytes \cup {None} : Rewrite(p, b)

IdentitySpec == IdentityInit /\ [][IdentityNext]_<<vars, identity>>

--------------------------------------------------------------------------------
\* Properties.

\* What two calls must agree on to be served by one fixture: what the plugin is
\* asked for, how the fixture may be shared, and the plugin itself.
SameFixture(r, s) ==
    /\ desc[r].recipe = desc[s].recipe
    /\ desc[r].sharing = desc[s].sharing
    /\ read[r] = read[s]

(***************************************************************************)
(* "despite dynamic sandbox paths" (canonical_encoding): a call provisions *)
(* an instance of its own only if none of the instances of the fixture it  *)
(* asked for can take it, in whichever sandbox their plugins were found,   *)
(* whatever name they were asked for by, and however binaries were copied, *)
(* removed and rebuilt in the meantime.                                    *)
(***************************************************************************)
SameFixtureIsReused == [][\A r \in Calls :
    pc[r] = "idle" /\ pc'[r] = "spawning" =>
        ~ \E f \in Fingerprints :
            CanAttach(client'[r], f) /\ SameFixture(r, fixtures[f].plugin)
    ]_<<vars, identity>>

(***************************************************************************)
(* Across attaching, replacing, rebuilding and cancelling: the instance a  *)
(* call is granted was made from the recipe the call asked for, is shared  *)
(* under the policy it asked for, and executes the plugin binary that it   *)
(* had read, unless the creator's binary changed in the time between.      *)
(***************************************************************************)
GrantedWhatWasAsked == \A l \in Calls : granted[l] # None =>
    LET i == granted[l] IN
    /\ SameFixture(l, i)
    /\ i \notin rebuilt => ran[i] = read[l]
    /\ DescSharing[fp[l]] = desc[l].sharing

--------------------------------------------------------------------------------
\* The inductive invariant behind them, on top of the coordinator's.

\* A call past the lookup has its own fingerprint; the file is what was read as
\* long as nobody rewrote it; and the plugin is what was read, likewise.
IdentityConsistent == \A r \in Calls :
    /\ desc[r] # None <=> read[r] # None
    /\ fp[r] # None => desc[r] # None /\ fp[r] = FixtureFingerprint(r)
    /\ desc[r] # None /\ pc[r] \in {"idle", "spawning"} /\ r \notin rebuilt =>
           file[desc[r].plugin] = read[r]
    /\ pc[r] \in InFlight \ {"spawning"} \/ granted[r] = r => plugin[r] # "none"
    /\ plugin[r] # "none" /\ r \notin rebuilt => ran[r] = read[r]

(***************************************************************************)
(* Inductive invariant of TakeLease with fingerprints and binaries.        *)
(***************************************************************************)
IdentityIInv == IInv /\ IdentityTypeOK /\ IdentityConsistent

--------------------------------------------------------------------------------
\* What the documentation says of the fingerprint, and the code does not do.

(***************************************************************************)
(* "any behavioral change => different fingerprint => a fresh fixture"     *)
(* (DESIGN.md, Fixture identity): a lease is on the plugin that was hashed *)
(* for it.                                                                 *)
(***************************************************************************)
GrantRunsHashedPlugin == \A l \in Calls :
    granted[l] # None => ran[granted[l]] = read[l]
================================================================================
