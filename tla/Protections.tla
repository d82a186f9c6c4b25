------------------------------ MODULE Protections ------------------------------
(***************************************************************************)
(* The plant's own protections: the cascade shield, the coolant's          *)
(* lifecycle, the water loop, the PUE optimizer, the immune system, drift  *)
(* detection, the fleet's counts and the incident playbooks. They share no *)
(* state, so a behaviour is one of one of them, with the others at rest;   *)
(* the variable part says which.                                           *)
(***************************************************************************)
EXTENDS CascadeShield, Sequences

CONSTANTS
  Circuits, Sizes, Fractions, HalfLife, MaxAge,         \* Coolant
  Temperatures, MaxChecks,                              \* WaterLoop
  Ratios, HistoryMax, Window, Cooldown,                 \* PueOptimizer
  Sealable, ThreatLimit, MaxKeys, KeptKeys,             \* HydraImmune
  RackCounts, ZoneLists, Gpus, MaxErrors,               \* Fleet
  Sensors, Levels, WindowSize, MinWindow, DriftLimit,   \* GhostEmber
  Custom, MaxExecutions                                 \* IncidentResponse

VARIABLES
  part,
  size, fraction, clock, batch, retired,                            \* Coolant
  online, water, discharge, total, compliant, violations,           \* WaterLoop
  history, cooldown, adjusted,                                      \* PueOptimizer
  scans, level, keys, target, sealed, anomalies, struck,            \* HydraImmune
  rackCount, zones, errors, errorCount, alarmed,                    \* Fleet
  averages, drifted, severity,                                      \* GhostEmber
  playbook, dryRun, trail, wasDry, executions, logged, failed, raised   \* IncidentResponse

coolantVars == <<size, fraction, clock, batch, retired>>
waterVars == <<online, water, discharge, total, compliant, violations>>
pueVars == <<history, cooldown, adjusted>>
immuneVars == <<scans, level, keys, target, sealed, anomalies, struck>>
fleetVars == <<rackCount, zones, errors, errorCount, alarmed>>
driftVars == <<averages, drifted, severity>>
incidentVars == <<playbook, dryRun, trail, wasDry, executions, logged, failed, raised>>

Fluid == INSTANCE Coolant
Plant == INSTANCE WaterLoop
Pue == INSTANCE PueOptimizer
Immune == INSTANCE HydraImmune WITH Zones <- Sealable, Threshold <- ThreatLimit
Servers == INSTANCE Fleet
Ghost == INSTANCE GhostEmber WITH Threshold <- DriftLimit
Books == INSTANCE IncidentResponse

\* The facility's zones are named apart, and a playbook is a list of the code's steps.
ASSUME ProtectionsAssumption ==
  /\ Sizes \subseteq Nat /\ Fractions \subseteq Nat
  /\ HalfLife \in Nat /\ MaxAge \in Nat /\ HalfLife <= MaxAge
  /\ MaxChecks \in Nat
  /\ HistoryMax \in Nat \ {0} /\ Window \in Nat \ {0} /\ Cooldown \in Nat
  /\ ThreatLimit \in Nat /\ MaxKeys \in Nat /\ KeptKeys \in 1 .. MaxKeys
  /\ RackCounts \subseteq Nat /\ IsFiniteSet(Gpus) /\ MaxErrors \in Nat
  /\ \A list \in ZoneLists :
       /\ list \in Seq(STRING) /\ list # <<>>
       /\ \A j, k \in DOMAIN list : list[j] = list[k] => j = k
  /\ WindowSize \in Nat \ {0} /\ MinWindow \in Nat \ {0} /\ DriftLimit \in Nat
  /\ Custom \subseteq Seq(Books!PlaybookStep) /\ MaxExecutions \in Nat

AllInit ==
  /\ part \in {"shield", "coolant", "water", "pue", "immune", "drift", "fleet", "incident"}
  /\ Init /\ Fluid!Init /\ Plant!Init /\ Pue!Init /\ Immune!Init /\ Servers!Init
  /\ Ghost!Init /\ Books!Init
  /\ part # "coolant" => /\ size = CHOOSE n \in Sizes : TRUE
                         /\ fraction = CHOOSE n \in Fractions : TRUE
  /\ part # "immune" => target = CHOOSE s \in SUBSET Sealable : Cardinality(s) = 2
  /\ part # "fleet" => /\ rackCount = CHOOSE n \in RackCounts : TRUE
                       /\ zones = CHOOSE list \in ZoneLists : TRUE
  /\ part # "incident" => dryRun /\ playbook = Books!Default

\* A step is one of the part, and leaves the others as they are.
InShield == /\ part = "shield"
            /\ UNCHANGED <<part, coolantVars, waterVars, pueVars, immuneVars, driftVars, fleetVars, incidentVars>>
InCoolant == /\ part = "coolant"
             /\ UNCHANGED <<part, vars, waterVars, pueVars, immuneVars, driftVars, fleetVars, incidentVars>>
InWater == /\ part = "water"
           /\ UNCHANGED <<part, vars, coolantVars, pueVars, immuneVars, driftVars, fleetVars, incidentVars>>
InPue == /\ part = "pue"
         /\ UNCHANGED <<part, vars, coolantVars, waterVars, immuneVars, driftVars, fleetVars, incidentVars>>
InImmune == /\ part = "immune"
            /\ UNCHANGED <<part, vars, coolantVars, waterVars, pueVars, driftVars, fleetVars, incidentVars>>
InDrift == /\ part = "drift"
           /\ UNCHANGED <<part, vars, coolantVars, waterVars, pueVars, immuneVars, fleetVars, incidentVars>>
InFleet == /\ part = "fleet"
           /\ UNCHANGED <<part, vars, coolantVars, waterVars, pueVars, immuneVars, driftVars, incidentVars>>
InIncident == /\ part = "incident"
              /\ UNCHANGED <<part, vars, coolantVars, waterVars, pueVars, immuneVars, driftVars, fleetVars>>

AllNext == \/ InShield /\ Next
           \/ InCoolant /\ Fluid!Next
           \/ InWater /\ Plant!Next
           \/ InPue /\ Pue!Next
           \/ InImmune /\ Immune!Next
           \/ InDrift /\ Ghost!Next
           \/ InFleet /\ Servers!Next
           \/ InIncident /\ Books!Next

allVars == <<vars, part, coolantVars, waterVars, pueVars, immuneVars, driftVars, fleetVars,
             incidentVars>>

\* Each part's own fairness. That of the shield assumes a caller that drives its
\* recovery, which tick_cycle does not; engine, optimizer and immune system are ticked
\* while the mode keeps their piston active.
Fairness ==
  /\ WF_allVars(InShield /\ Tick)
  /\ WF_allVars(InCoolant /\ Fluid!Tick) /\ WF_allVars(InCoolant /\ Fluid!Older)
  /\ WF_allVars(InPue /\ Pue!Tick) /\ WF_allVars(InPue /\ Pue!TimePasses)
  /\ WF_allVars(InImmune /\ Immune!Tick)
  /\ \A s \in Sensors : WF_allVars(InDrift /\ Ghost!Ingest(s))

SafeSpec == AllInit /\ [][AllNext]_allVars

AllSpec == SafeSpec /\ Fairness

(* The fields of the parts beside the shield hold values their code can     *)
(* give them.                                                              *)
TypesOK == Fluid!TypeOK /\ Plant!TypeOK /\ Pue!TypeOK /\ Immune!TypeOK /\ Ghost!TypeOK

(* What the plant reports about itself is what happened: water, errors and *)
(* racks, executed playbooks.                                              *)
ReportsAreTrue == Plant!ViolationWasAlerted /\ Servers!FleetIsCounted /\ Books!TrailTellsAll

(* An alarm is answered: a circuit flagged as unstable has its batch        *)
(* replaced or retired, a critical average has the cooling adjusted; and it *)
(* ends with its cause: strikes with the anomalies, drift with the change.  *)
AlarmsAreAnswered ==
  /\ Fluid!FlaggedIsReplaced /\ Pue!CriticalIsAnswered
  /\ Immune!StrikesCease /\ Ghost!DriftIsForgotten
=============================================================================
