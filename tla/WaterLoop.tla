------------------------------- MODULE WaterLoop -------------------------------
(***************************************************************************)
(* WaterLoop (waterplant/water_treatment.py, compliance.py): stages of the *)
(* treatment go on and off line; a tick measures the water and raises      *)
(* alerts; the discharge of the last tick is sampled and checked against   *)
(* the permit, at any time and also before the first tick.                 *)
(*                                                                         *)
(* Turbidity is in thousandths of an NTU, dissolved solids in hundredths   *)
(* of a ppm, flow in percent of the target (a fluctuation of two percent   *)
(* reaches no limit), suspended solids in thousandths of a mg/l. The pH is *)
(* that of the intake, which is within every limit.                        *)
(***************************************************************************)
EXTENDS Naturals, FiniteSets

CONSTANTS
  Temperatures,   \* that a tick can bring, in degrees
  MaxChecks       \* bound: discharges checked in a run

Stages == {"INTAKE", "FILTRATION", "REVERSE_OSMOSIS", "UV_STERILIZATION",
           "COOLING_TOWER_RETURN"}

VARIABLES
  online,      \* stages on line
  water,       \* last_result, with the alerts of its tick
  discharge,   \* the last ComplianceCheckResult
  total, compliant, violations

vars == <<online, water, discharge, total, compliant, violations>>

\* What sample_discharge finds before the first tick: zeros.
NoWater == [ph |-> 0, turbidity |-> 0, tds |-> 0, temp |-> 0, flow |-> 0, alerts |-> {}]

Init == /\ online = Stages /\ water = NoWater
        /\ discharge = [found |-> {}, alerts |-> {}, ticked |-> FALSE]
        /\ total = 0 /\ compliant = 0 /\ violations = 0

-----------------------------------------------------------------------------
AtLeast(floor, n) == IF n < floor THEN floor ELSE n

\* The intake stage removes everything, by its table.
Turbidity ==
  LET left == IF "INTAKE" \in online THEN 0
              ELSE (2500 \div (IF "FILTRATION" \in online THEN 10 ELSE 1))
                         \div (IF "REVERSE_OSMOSIS" \in online THEN 5 ELSE 1)
  IN IF "UV_STERILIZATION" \in online THEN AtLeast(50, left) ELSE left

Solids ==
  LET filtered == IF "FILTRATION" \in online THEN 15300 ELSE 18000
      left == IF "INTAKE" \in online THEN 0
              ELSE IF "REVERSE_OSMOSIS" \in online THEN filtered \div 20 ELSE filtered
  IN IF "UV_STERILIZATION" \in online THEN AtLeast(200, left) ELSE left

Offline == Cardinality(Stages \ online)

Flow == IF Offline = 0 THEN 100 ELSE AtLeast(30, 100 - 15 * Offline)

\* Fault: stages that are off line explain everything else.
FirstAlert(w) ==
  IF Offline > 0 THEN {"OFFLINE"}
  ELSE {a \in {"TDS", "TURBIDITY", "FLOW"} :
          CASE a = "TDS" -> w.tds > 10000 [] a = "TURBIDITY" -> w.turbidity > 1000
            [] OTHER -> w.flow < 50}

Alerts(w) ==
  {a \in {"OFFLINE", "TDS", "TURBIDITY", "FLOW"} :
     CASE a = "OFFLINE" -> Offline > 0 [] a = "TDS" -> w.tds > 10000
       [] a = "TURBIDITY" -> w.turbidity > 1000 [] OTHER -> w.flow < 50}

SetStageOnline == \E s \in Stages :
  /\ online' \in {online \cup {s}, online \ {s}}
  /\ UNCHANGED <<water, discharge, total, compliant, violations>>

Tick == \E t \in Temperatures :
  /\ LET w == [ph |-> 72, turbidity |-> Turbidity, tds |-> Solids, temp |-> t,
               flow |-> Flow, alerts |-> {}]
     IN water' = [w EXCEPT !.alerts = Alerts(w)]
  /\ UNCHANGED <<online, discharge, total, compliant, violations>>

\* What the permit finds in a sample; the pH is in tenths.
Violations(w) ==
  {v \in {"pH_LOW", "TSS", "TEMPERATURE", "FLOW_LOW"} :
     CASE v = "pH_LOW" -> w.ph < 60 [] v = "TSS" -> 15 * w.turbidity > 30000
       [] v = "TEMPERATURE" -> w.temp > 30 [] OTHER -> w.flow < 10}

CheckDischarge ==
  /\ total < MaxChecks
  /\ LET found == Violations(water)
     IN /\ discharge' = [found |-> found, alerts |-> water.alerts, ticked |-> water # NoWater]
        /\ violations' = violations + Cardinality(found)
        /\ compliant' = compliant + (IF found = {} THEN 1 ELSE 0)
  /\ total' = total + 1
  /\ UNCHANGED <<online, water>>

Next == SetStageOnline \/ Tick \/ CheckDischarge

Spec == Init /\ [][Next]_vars

-----------------------------------------------------------------------------
(* Properties.                                                             *)

(* Samples are counted once, as compliant or not.                          *)
TypeOK ==
  /\ online \subseteq Stages
  /\ total \in 0 .. MaxChecks /\ compliant \in 0 .. total /\ violations \in Nat

(* Suspended solids that the permit finds too high were alerted by the plant *)
(* in the tick that made the water, whatever stages go on and off between    *)
(* that tick and the check; the flow and the pH of such water are never      *)
(* violations; and the rate is 100 percent only while nothing was found.     *)
(* (Warm water is never alerted, and a check before the first tick finds     *)
(* violations of water that never was.)                                      *)
ViolationWasAlerted ==
  /\ discharge.ticked => /\ "TSS" \in discharge.found => "TURBIDITY" \in discharge.alerts
                         /\ discharge.found \subseteq {"TSS", "TEMPERATURE"}
  /\ compliant = total <=> violations = 0

=============================================================================
