------------------------------ MODULE MCTickCycle ------------------------------
(***************************************************************************)
(* Instances of TickCycle for TLC: the fusion modes of                     *)
(* config/colossus_manifest.json, and two of its zones.                    *)
(***************************************************************************)
EXTENDS TickCycle

ManifestModes ==
  [m \in {"COLOSSUS_FULL", Emergency, "PREDICTIVE_COOLING", "GHOST_OPTIMIZATION"} |->
     CASE m = "COLOSSUS_FULL" -> {"SHADOW", "GHOST", "MICROWAVE", "CORE-THINK"}
       [] m = Emergency -> {"SUPERNOVA", "MICROWAVE", "SHADOW"}
       [] m = "PREDICTIVE_COOLING" -> {"CORE-THINK", "MICROWAVE", "SHADOW"}
       [] OTHER -> {"GHOST", "SHADOW"}]
FullMode == "COLOSSUS_FULL"
=============================================================================
