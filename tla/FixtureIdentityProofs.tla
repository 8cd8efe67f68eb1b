-------------------------- MODULE FixtureIdentityProofs --------------------------
(***************************************************************************)
(* Proofs that leases are on the fixtures asked for and that an instance   *)
(* of the same fixture is reused, for any descriptions, binaries and       *)
(* rebuilds, and that the coordinator with fingerprints and binaries       *)
(* behaves as Coordinator says.                                            *)
(***************************************************************************)
EXTENDS FixtureIdentity, CoordinatorProofs

\* The description that is encoded for r.
Cleared(r) == [desc[r] EXCEPT !.name = NoName, !.plugin = read[r]]

\* It is a description with its fields in place, and its encoding has those that
\* are set.
LEMMA Encoded ==
    ASSUME IdentityTypeOK, IdentityConsistent, NEW r \in Calls, desc[r] # None
    PROVE  /\ Cleared(r) \in [recipe : Recipes, sharing : Policies,
                              name : {NoName}, plugin : Paths \cup Bytes]
           /\ Cleared(r).recipe = desc[r].recipe
           /\ Cleared(r).sharing = desc[r].sharing
           /\ Cleared(r).plugin = read[r]
           /\ FixtureFingerprint(r) = encode_to_vec(Cleared(r))
<1>1. desc[r] \in [recipe : Recipes, sharing : Policies, name : Names \cup {NoName},
                   plugin : Paths]
  BY DEF IdentityTypeOK
<1>2. read[r] \in Bytes
  BY DEF IdentityTypeOK, IdentityConsistent
<1>3. FixtureFingerprint(r) = encode_to_vec(Cleared(r))
  BY Zenon DEF FixtureFingerprint, canonical_encoding, Cleared
<1> QED
  BY <1>1, <1>2, <1>3 DEF Cleared

\* What an encoding holds.
LEMMA EncodedFields ==
    ASSUME NEW m \in [recipe : Recipes, sharing : Policies,
                      name : {NoName}, plugin : Paths \cup Bytes]
    PROVE  LET e == encode_to_vec(m) IN
           /\ e["recipe"] = m.recipe
           /\ e["plugin"] = m.plugin
           /\ "sharing" \in DOMAIN e <=> m.sharing # None
           /\ m.sharing # None => e["sharing"] = m.sharing
<1>1. DOMAIN m = {"recipe", "sharing", "name", "plugin"}
  OBVIOUS
<1>2. m.recipe \notin {NoName, None} /\ m.plugin \notin {NoName, None}
  BY DefaultsAssumption, BytesAssumption
<1>3. m.sharing # NoName
  BY DefaultsAssumption
<1> QED
  BY <1>1, <1>2, <1>3 DEF encode_to_vec

\* Descriptions with the same fields set to the same values have one encoding.
LEMMA EncodingExtensional ==
    ASSUME NEW m \in [recipe : Recipes, sharing : Policies,
                      name : {NoName}, plugin : Paths \cup Bytes],
           NEW n \in [recipe : Recipes, sharing : Policies,
                      name : {NoName}, plugin : Paths \cup Bytes],
           m.recipe = n.recipe, m.sharing = n.sharing, m.plugin = n.plugin
    PROVE  encode_to_vec(m) = encode_to_vec(n)
<1>1. m = n
  OBVIOUS
<1> QED
  BY <1>1

\* A computed fingerprint is one of the map's keys.
LEMMA FingerprintType ==
    ASSUME IdentityTypeOK, IdentityConsistent, NEW r \in Calls, desc[r] # None
    PROVE  FixtureFingerprint(r) \in Fingerprints
  BY Encoded, FingerprintsAssumption DEF Encoding

\* The steps on binaries and fingerprints are steps of Coordinator.
LEMMA IdentityStep ==
    ASSUME IdentityTypeOK, IdentityConsistent, [IdentityNext]_<<vars, identity>>
    PROVE  [Next]_vars
<1>1. ASSUME NEW r \in Calls, NEW c \in Clients, Lookup(r, c) PROVE Next
  BY <1>1, FingerprintType DEF Lookup, Next
<1>2. ASSUME NEW r \in Calls, Reject(r) PROVE Next
  BY <1>2 DEF Reject, Next
<1>3. ASSUME NEW r \in Calls, Spawn(r) PROVE Next
  BY <1>3 DEF Spawn, Next
<1>4. ASSUME NEW r \in Calls, Elsewhere(r) PROVE Next
  BY <1>4 DEF Elsewhere, Next
<1>5. ASSUME NEW r \in Calls, NEW d \in Description, Compute(r, d) PROVE UNCHANGED vars
  BY <1>5 DEF Compute
<1>6. ASSUME NEW p \in Paths, NEW b \in Bytes \cup {None}, Rewrite(p, b)
      PROVE UNCHANGED vars
  BY <1>6 DEF Rewrite
<1> QED
  BY <1>1, <1>2, <1>3, <1>4, <1>5, <1>6 DEF IdentityNext

\* No call has a description at the start.
LEMMA IdentityInitIInv == IdentityInit => IdentityIInv
  BY InitIInv, NoneAssumption
     DEF IdentityInit, IdentityIInv, IdentityTypeOK, IdentityConsistent, Init, InFlight

\* Fingerprints, binaries and handlers stay in agreement.
LEMMA IdentityNextIInv ==
    IdentityIInv /\ [IdentityNext]_<<vars, identity>> => IdentityIInv'
<1> SUFFICES ASSUME IdentityIInv, [IdentityNext]_<<vars, identity>>
             PROVE  IdentityIInv'
  OBVIOUS
<1> USE NoneAssumption, BytesAssumption
        DEF InFlight, Terminal, PluginState, Running
<1>0. IInv'
  BY IdentityStep, NextIInv DEF IdentityIInv
<1>1. ASSUME NEW r \in Calls, Reject(r)
      PROVE IdentityTypeOK' /\ IdentityConsistent'
  BY <1>1 DEF IdentityIInv, IInv, TypeOK, IdentityTypeOK, IdentityConsistent,
     FixtureFingerprint, Reject, TakeLeaseRejected, identity
<1>2. ASSUME NEW r \in Calls, NEW d \in Description, Compute(r, d)
      PROVE IdentityTypeOK' /\ IdentityConsistent'
  <2>1. IdentityTypeOK'
    BY <1>2 DEF IdentityIInv, IdentityTypeOK, Compute, Description, vars
  <2>2. fp[r] = None /\ plugin[r] = "none"
    BY <1>2 DEF IdentityIInv, IdentityConsistent, IInv, PluginsConsistent, Compute
  <2>3. d # None
    OBVIOUS
  <2> QED
    BY <1>2, <2>1, <2>2, <2>3 DEF IdentityIInv, IdentityTypeOK, IdentityConsistent,
       FixtureFingerprint, Compute, vars
<1>3. ASSUME NEW r \in Calls, NEW c \in Clients, Lookup(r, c)
      PROVE IdentityTypeOK' /\ IdentityConsistent'
  <2>0. FixtureFingerprint(r) \in Fingerprints
    BY <1>3, FingerprintType DEF Lookup, IdentityIInv
  <2>1. CASE TakeLeaseAttach(r, c, FixtureFingerprint(r))
    BY <1>3, <2>0, <2>1 DEF IdentityIInv, IInv, TypeOK, CacheConsistent, IdentityTypeOK,
       IdentityConsistent, FixtureFingerprint, Lookup, TakeLeaseAttach, CanAttach, identity
  <2>2. CASE TakeLeaseMiss(r, c, FixtureFingerprint(r))
    BY <1>3, <2>0, <2>2 DEF IdentityIInv, IInv, TypeOK, IdentityTypeOK,
       IdentityConsistent, FixtureFingerprint, Lookup, TakeLeaseMiss, identity
  <2> QED
    BY <1>3, <2>1, <2>2 DEF Lookup
<1>4. ASSUME NEW r \in Calls, Spawn(r)
      PROVE IdentityTypeOK' /\ IdentityConsistent'
  BY <1>4 DEF IdentityIInv, IInv, TypeOK, CallsConsistent, IdentityTypeOK,
     IdentityConsistent, FixtureFingerprint, Spawn, SpawnPlugin
<1>5. ASSUME NEW r \in Calls, Elsewhere(r)
      PROVE IdentityTypeOK' /\ IdentityConsistent'
  <2> USE <1>5 DEF Elsewhere, identity
  <2>1. CASE SpawnFailed(r)
    BY <2>1 DEF IdentityIInv, IInv, TypeOK, PluginsConsistent, IdentityTypeOK,
       IdentityConsistent, FixtureFingerprint, SpawnFailed
  <2>2. CASE Connected(r)
    BY <2>2 DEF IdentityIInv, IInv, TypeOK, PluginsConsistent, IdentityTypeOK,
       IdentityConsistent, FixtureFingerprint, Connected
  <2>3. CASE ConnectFailed(r)
    BY <2>3 DEF IdentityIInv, IInv, TypeOK, PluginsConsistent, IdentityTypeOK,
       IdentityConsistent, FixtureFingerprint, ConnectFailed
  <2>4. CASE Described(r)
    BY <2>4 DEF IdentityIInv, IInv, TypeOK, PluginsConsistent, IdentityTypeOK,
       IdentityConsistent, FixtureFingerprint, Described
  <2>5. CASE Created(r)
    BY <2>5 DEF IdentityIInv, IInv, TypeOK, PluginsConsistent, IdentityTypeOK,
       IdentityConsistent, FixtureFingerprint, Created
  <2>6. CASE ProvisionFailed(r)
    BY <2>6 DEF IdentityIInv, IInv, TypeOK, PluginsConsistent, IdentityTypeOK,
       IdentityConsistent, FixtureFingerprint, ProvisionFailed, DropPlugin
  <2>7. CASE Publish(r)
    BY <2>7, SMTT(30) DEF IdentityIInv, IInv, TypeOK, PluginsConsistent, IdentityTypeOK,
       IdentityConsistent, FixtureFingerprint, Publish, CacheConsistent,
       FixtureRecord, DropPlugin
  <2>8. CASE ReleaseLease(r)
    BY <2>8 DEF IdentityIInv, IInv, TypeOK, PluginsConsistent, IdentityTypeOK,
       IdentityConsistent, FixtureFingerprint, ReleaseLease
  <2>9. CASE ClientGone(r)
    BY <2>9 DEF IdentityIInv, IInv, TypeOK, PluginsConsistent, IdentityTypeOK,
       IdentityConsistent, FixtureFingerprint, ClientGone
  <2>10. CASE Cancel(r)
    BY <2>10 DEF IdentityIInv, IInv, TypeOK, PluginsConsistent, IdentityTypeOK,
       IdentityConsistent, FixtureFingerprint, Cancel, DropPlugin
  <2>11. CASE PluginServes(r)
    BY <2>11 DEF IdentityIInv, IInv, TypeOK, PluginsConsistent, IdentityTypeOK,
       IdentityConsistent, FixtureFingerprint, PluginServes
  <2>12. CASE PluginExits(r)
    BY <2>12 DEF IdentityIInv, IInv, TypeOK, PluginsConsistent, IdentityTypeOK,
       IdentityConsistent, FixtureFingerprint, PluginExits
  <2> QED
    BY <2>1, <2>2, <2>3, <2>4, <2>5, <2>6, <2>7, <2>8, <2>9, <2>10, <2>11, <2>12
<1>6. ASSUME NEW p \in Paths, NEW b \in Bytes \cup {None}, Rewrite(p, b)
      PROVE IdentityTypeOK' /\ IdentityConsistent'
  BY <1>6 DEF IdentityIInv, IdentityTypeOK, IdentityConsistent,
     FixtureFingerprint, Rewrite, Between, vars
<1>7. ASSUME UNCHANGED <<vars, identity>>
      PROVE IdentityTypeOK' /\ IdentityConsistent'
  BY <1>7 DEF IdentityIInv, IdentityTypeOK, IdentityConsistent,
     FixtureFingerprint, vars, identity
<1> QED
  BY <1>0, <1>1, <1>2, <1>3, <1>4, <1>5, <1>6, <1>7 DEF IdentityNext, IdentityIInv

\* The encoding keeps recipe, policy and digest apart, and nothing else.
LEMMA EncodingInjective ==
    ASSUME IdentityIInv, NEW r \in Calls, NEW s \in Calls,
           desc[r] # None, desc[s] # None
    PROVE  FixtureFingerprint(r) = FixtureFingerprint(s) <=> SameFixture(r, s)
<1>1. SameFixture(r, s) => FixtureFingerprint(r) = FixtureFingerprint(s)
  BY Encoded, EncodingExtensional DEF SameFixture, IdentityIInv
<1>2. ASSUME FixtureFingerprint(r) = FixtureFingerprint(s) PROVE SameFixture(r, s)
  <2>1. encode_to_vec(Cleared(r)) = encode_to_vec(Cleared(s))
    BY <1>2, Encoded DEF IdentityIInv
  <2>2. /\ Cleared(r).recipe = Cleared(s).recipe
        /\ Cleared(r).plugin = Cleared(s).plugin
        /\ Cleared(r).sharing = Cleared(s).sharing
    BY <2>1, Encoded, EncodedFields DEF IdentityIInv
  <2> QED
    BY <2>2, Encoded DEF SameFixture, IdentityIInv
<1> QED
  BY <1>1, <1>2

\* A call that starts to provision has looked its fingerprint up and missed.
LEMMA LookupProvisions ==
    ASSUME IdentityIInv, IdentityNext, NEW r \in Calls,
           pc[r] = "idle", pc'[r] = "spawning"
    PROVE  \E c \in Clients :
               Lookup(r, c) /\ TakeLeaseMiss(r, c, FixtureFingerprint(r))
<1> USE DEF IdentityIInv, IInv, TypeOK
<1>1. ASSUME NEW s \in Calls, NEW c \in Clients, Lookup(s, c)
      PROVE  s = r /\ TakeLeaseMiss(r, c, FixtureFingerprint(r))
  BY <1>1 DEF Lookup, TakeLeaseAttach, TakeLeaseMiss
<1>2. ASSUME NEW s \in Calls, Reject(s) PROVE FALSE
  BY <1>2 DEF Reject, TakeLeaseRejected
<1>3. ASSUME NEW s \in Calls, NEW d \in Description, Compute(s, d) PROVE FALSE
  BY <1>3 DEF Compute, vars
<1>4. ASSUME NEW s \in Calls, Spawn(s) PROVE FALSE
  BY <1>4 DEF Spawn, SpawnPlugin
<1>5. ASSUME NEW s \in Calls, Elsewhere(s) PROVE FALSE
  BY <1>5 DEF Elsewhere, SpawnFailed, Connected, ConnectFailed, Described, Created,
     ProvisionFailed, Publish, ReleaseLease, ClientGone, Cancel, PluginServes, PluginExits
<1>6. ASSUME NEW p \in Paths, NEW b \in Bytes \cup {None}, Rewrite(p, b) PROVE FALSE
  BY <1>6 DEF Rewrite, vars
<1> QED
  BY <1>1, <1>2, <1>3, <1>4, <1>5, <1>6 DEF IdentityNext

\* The invariant holds throughout.
LEMMA IdentityInductive == IdentitySpec => []IdentityIInv
  BY IdentityInitIInv, IdentityNextIInv, PTL DEF IdentitySpec

(***************************************************************************)
(* The descriptions, paths and binaries are well typed, and a plugin       *)
(* process executes a binary that was there.                               *)
(***************************************************************************)
THEOREM IdentityTypeCorrect == IdentitySpec => []IdentityTypeOK
  BY IdentityInductive, PTL DEF IdentityIInv

(***************************************************************************)
(* TakeLease provisions only when no instance of the fixture the call asks *)
(* for can take it: the record of such an instance is under the call's own *)
(* fingerprint, for any descriptions, sandbox paths, names and rebuilds.   *)
(***************************************************************************)
THEOREM ReuseCorrect == IdentitySpec => SameFixtureIsReused
<1> DEFINE Provisions(r) == pc[r] = "idle" /\ pc'[r] = "spawning"
           Alternative(r) == \E f \in Fingerprints :
               CanAttach(client'[r], f) /\ SameFixture(r, fixtures[f].plugin)
<1>1. ASSUME IdentityIInv, IdentityNext, NEW r \in Calls, Provisions(r)
      PROVE  ~ Alternative(r)
  <2>1. PICK c \in Clients : Lookup(r, c) /\ TakeLeaseMiss(r, c, FixtureFingerprint(r))
    BY <1>1, LookupProvisions
  <2>2. desc[r] # None /\ client'[r] = c /\ ~ CanAttach(c, FixtureFingerprint(r))
    BY <1>1, <2>1 DEF Lookup, TakeLeaseMiss, IdentityIInv, IInv, TypeOK
  <2> SUFFICES ASSUME NEW f \in Fingerprints, CanAttach(c, f),
                      SameFixture(r, fixtures[f].plugin)
               PROVE  FALSE
    BY <2>2
  <2> DEFINE i == fixtures[f].plugin
  <2>3. fixtures[f] # None
    BY DEF CanAttach
  <2>4. i \in Calls /\ fp[i] = f
    BY <1>1, <2>3 DEF IdentityIInv, IInv, TypeOK, FixtureRecord, CacheConsistent
  <2>5. desc[i] # None /\ f = FixtureFingerprint(i)
    BY <1>1, <2>4, NoneAssumption DEF IdentityIInv, IdentityConsistent
  <2>6. FixtureFingerprint(r) = f
    BY <1>1, <2>2, <2>4, <2>5, EncodingInjective
  <2> QED
    BY <2>2, <2>6
<1>2. IdentityIInv /\ [IdentityNext]_<<vars, identity>> =>
        [\A r \in Calls : Provisions(r) => ~ Alternative(r)]_<<vars, identity>>
  BY <1>1
<1> QED
  BY <1>2, IdentityInductive, PTL DEF IdentitySpec, SameFixtureIsReused

(***************************************************************************)
(* TakeLease gives a call a fixture of its own recipe, policy and plugin,  *)
(* unless the creator's binary changed between hashing and spawning.       *)
(***************************************************************************)
THEOREM GrantCorrect == IdentitySpec => []GrantedWhatWasAsked
<1>1. IdentityIInv => GrantedWhatWasAsked
  <2> SUFFICES ASSUME IdentityIInv, NEW l \in Calls, granted[l] # None
               PROVE  /\ SameFixture(l, granted[l])
                      /\ granted[l] \notin rebuilt => ran[granted[l]] = read[l]
                      /\ DescSharing[fp[l]] = desc[l].sharing
    BY DEF GrantedWhatWasAsked
  <2> DEFINE i == granted[l]
  <2>1. i \in Calls /\ granted[i] = i
    BY DEF IdentityIInv, IInv, TypeOK, CallsConsistent
  <2>2. fp[l] = fp[i] /\ fp[l] \in Fingerprints
    BY <2>1 DEF IdentityIInv, IInv, CallsConsistent, ScopeRespected
  <2>3. fp[l] # None
    BY <2>2, NoneAssumption
  <2>4. /\ desc[l] # None /\ fp[l] = FixtureFingerprint(l)
        /\ desc[i] # None /\ fp[i] = FixtureFingerprint(i)
    BY <2>1, <2>2, <2>3 DEF IdentityIInv, IdentityConsistent
  <2>5. SameFixture(l, i)
    BY <2>1, <2>2, <2>4, EncodingInjective
  <2>6. i \notin rebuilt => ran[i] = read[l]
    BY <2>1, <2>5 DEF IdentityIInv, IdentityConsistent, SameFixture
  <2>7. DescSharing[fp[l]] = desc[l].sharing
    BY <2>2, <2>4, Encoded, EncodedFields, DescSharingAssumption DEF IdentityIInv
  <2> QED
    BY <2>5, <2>6, <2>7
<1> QED
  BY <1>1, IdentityInductive, PTL

(***************************************************************************)
(* With descriptions and binaries in place of opaque fingerprints the      *)
(* service behaves as Coordinator, so all that is proved of that holds.    *)
(***************************************************************************)
THEOREM IdentityImplementsCoordinator == IdentitySpec => Spec
<1>1. IdentityInit => Init
  BY DEF IdentityInit
<1>2. IdentityIInv /\ [IdentityNext]_<<vars, identity>> => [Next]_vars
  BY IdentityStep DEF IdentityIInv
<1> QED
  BY <1>1, <1>2, IdentityInductive, PTL DEF IdentitySpec, Spec
================================================================================
