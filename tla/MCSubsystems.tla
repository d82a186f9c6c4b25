---------------------------- MODULE MCSubsystems ----------------------------
(***************************************************************************)
(* Values for TLC. In Subsystems, 1 is a sibling the router knows, 2 was   *)
(* only ever registered, and neither is bound at first.                    *)
(***************************************************************************)
EXTENDS Services, TLC

CONSTANTS c1, c2

TwoNames == {1, 2}
OneName == {1}
Alike == Permutations({c1, c2})

\* Manifests: the file's, none, and some that lack a section, a required key or
\* the limit of anomalies.
File == [thermal |-> {"required", "limit"}, energy |-> {"required"}, nanosphere |-> {"required"},
         security |-> {"required"}, facility |-> {"required"}]
SomeManifests ==
  {<<>>, [facility |-> {"required"}], [thermal |-> {"limit"}], [File EXCEPT !.thermal = {"required"}],
   [File EXCEPT !.thermal = {"limit"}], [File EXCEPT !.facility = {}]}

Probes == {"thermal", "energy", "memory"}
EndpointOf == {"thermal", "energy"}
=============================================================================
