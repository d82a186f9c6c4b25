-------------------------------- MODULE MCPlant --------------------------------
(***************************************************************************)
(* Values for TLC: facilities of three and of two zones, and playbooks     *)
(* that isolate first, last or never.                                      *)
(***************************************************************************)
EXTENDS Protections

TwoFacilities == {<<"A", "B", "C">>, <<"A", "D">>}
SomePlaybooks == {<<>>, <<"ISOLATE", "REPORT">>, <<"RECOVER", "ISOLATE">>}
=============================================================================
