----------------------------- MODULE MCEnvironment -----------------------------
(***************************************************************************)
(* Tests with one fixture of any short name, and tests with two fixtures   *)
(* whose names and ports collide in every way the naming allows.           *)
(***************************************************************************)
EXTENDS Environment, SequencesExt

Direct(name) == [name |-> name, tunnel |-> FALSE]
Tunneled(name) == [name |-> name, tunnel |-> TRUE]
Ports(ports) == [kind |-> "ports", ports |-> ports]
Other == [kind |-> "other", ports |-> << >>]
Malformed == [kind |-> "malformed", ports |-> << >>]

B == <<"b">>
BB == <<"b", "-", "b">>

TwoOutputs(o1, o2) == [o \in Outputs |-> IF o = "out1" THEN o1 ELSE o2]

\* Every name of up to three characters, with one port.
SingleFixtures ==
    {<<[name |-> n, outputs |-> TwoOutputs(Ports(<<Direct(B)>>), Other)]>> :
        n \in BoundedSeq(Char, 3) \ {<< >>}}

CollidingFixtures ==
    [name : {<<"a">>, <<"a", "-", "b">>, <<"A", "_", "b">>},
     outputs : {TwoOutputs(o1, o2) :
         o1 \in {Ports(<<Direct(B), Direct(BB)>>), Ports(<<Direct(B), Tunneled(B)>>),
                 Ports(<<Direct(BB)>>), Malformed},
         o2 \in {Ports(<<Direct(B)>>), Ports(<<Direct(B), Direct(B)>>), Other}}]

Lists == {<< >>} \cup SingleFixtures \cup {<<f, g>> : f, g \in CollidingFixtures}

\* The runner's own environment has a host, the run configuration sets a port.
Base == <<<<"A", "_", "B">>, "HOST">> :> Layer("base")
Config == <<<<"A", "_", "B", "_", "B">>, "PORT">> :> Layer("config")
================================================================================
