----------------------------- MODULE MCPluginSession -----------------------------
(***************************************************************************)
(* Instances of PluginSession for TLC.                                     *)
(***************************************************************************)
EXTENDS PluginSession, TLC

CONSTANTS k1, k2, a, other, odd, bad, out

\* Two slots, open to every client.
TwoSlots == [f \in Fingerprints |->
    [use_scope |-> "unrestricted", maximum_concurrent_connections |-> 2]]

Json(kind, n) == [kind |-> kind, n |-> n]

\* Numbers of four bits: values that fit, that are no ports, and one that is too
\* large for the plugin. And an input that is no JSON.
Inputs ==
    odd :> <<Json("string", 7), Json("number", 3), Json("string", 16),
             Json("number", -1), Json("other", 5)>>
    @@ bad :> Unparsable

\* A status this coordinator does not list, a success with and one
\* without a result, an error.
Messages == {[status |-> 9, result |-> None],
             [status |-> 4, result |-> out], [status |-> 4, result |-> None],
             [status |-> 5, result |-> None]}
================================================================================
