--------------------------- MODULE MCFixtureIdentity ---------------------------
(***************************************************************************)
(* Instances of FixtureIdentity for TLC.                                   *)
(***************************************************************************)
EXTENDS FixtureIdentity, TLC

CONSTANTS k1, k2, a, redis, db, p1, p2, old, new

Shared == [use_scope |-> "unrestricted", maximum_concurrent_connections |-> 2]
OnePolicy == {Shared}

Encodings == Encoding
EncodedSharing == [f \in Encodings |->
    IF "sharing" \in DOMAIN f THEN f.sharing ELSE None]

Symm == Permutations(Calls) \cup Permutations(Paths) \cup Permutations(Bytes)
================================================================================
