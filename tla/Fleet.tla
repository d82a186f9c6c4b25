--------------------------------- MODULE Fleet ---------------------------------
(***************************************************************************)
(* Fleet (servers/rack_architecture.py, gpu_health.py, network_fabric.py): *)
(* three components each lay out the racks of the facility by themselves,  *)
(* and the GPU monitor counts errors from telemetry and from its own tick. *)
(* Only correctable errors are kept: the other counter is alike.           *)
(***************************************************************************)
EXTENDS Naturals, Sequences, FiniteSets, FiniteSetsExt

CONSTANTS
  RackCounts,   \* facility.rack_count
  ZoneLists,    \* facility.zones
  Gpus,         \* GPUs whose errors are followed
  MaxErrors     \* bound: errors a GPU reports

Standard == <<"A", "B", "C">>   \* what the monitor and the fabric assume

VARIABLES
  rackCount, zones,   \* the manifest's facility
  errors,             \* GPU -> its ecc_errors
  errorCount,         \* ecc_error_count of the fleet
  alarmed             \* GPUs whose last ingest was not healthy

vars == <<rackCount, zones, errors, errorCount, alarmed>>

Init == /\ rackCount \in RackCounts /\ zones \in ZoneLists
        /\ errors = [g \in Gpus |-> 0] /\ errorCount = 0 /\ alarmed = {}

-----------------------------------------------------------------------------
(* The layout.                                                             *)

\* Fault: the last zone gets no more than the others.
EqualShare(count, list, k) == count \div Len(list)

\* The last zone takes what the division leaves over.
Share(count, list, k) ==
  IF k < Len(list) THEN count \div Len(list)
  ELSE count - (count \div Len(list)) * (Len(list) - 1)

RacksOf(count, list) ==
  UNION {{list[k]} \X (1 .. Share(count, list, k)) : k \in DOMAIN list}

Racks == RacksOf(rackCount, zones)

MonitoredRacks == RacksOf(rackCount, Standard)

FabricRacks == RacksOf(rackCount, Standard)

Links == FabricRacks \X (1 .. 8)

-----------------------------------------------------------------------------
(* The monitor.                                                            *)

\* Fault: the difference is taken after the counter is set.
RisenLate(from, to) == 0

Risen(from, to) == IF to > from THEN to - from ELSE 0

\* Telemetry of a GPU, whose own counter may start over.
Ingest == \E g \in Gpus, n \in 0 .. MaxErrors :
  /\ errorCount' = errorCount + Risen(errors[g], n)
  /\ errors' = [errors EXCEPT ![g] = n]
  /\ alarmed' = IF n > 0 THEN alarmed \cup {g} ELSE alarmed \ {g}
  /\ errorCount' <= 2 * MaxErrors      \* bound
  /\ UNCHANGED <<rackCount, zones>>

\* The tick adds an error to some GPUs.
Tick == \E hit \in SUBSET {g \in Gpus : errors[g] < MaxErrors} :
  /\ errors' = [g \in Gpus |-> errors[g] + (IF g \in hit THEN 1 ELSE 0)]
  /\ errorCount' = errorCount + Cardinality(hit)
  /\ errorCount' <= 2 * MaxErrors      \* bound
  /\ UNCHANGED <<rackCount, zones, alarmed>>

Next == Ingest \/ Tick

Spec == Init /\ [][Next]_vars

-----------------------------------------------------------------------------
(* Properties.                                                             *)

(* Whatever the division leaves over, every component lays out each rack    *)
(* once, and with the manifest's zones they lay out the same; and the       *)
(* fleet has counted at least the errors its GPUs show, however telemetry,  *)
(* restarts of a GPU's counter and the monitor's own ticks follow.          *)
FleetIsCounted ==
  /\ Cardinality(Racks) = rackCount /\ Cardinality(Links) = 8 * rackCount
  /\ zones = Standard => Racks = MonitoredRacks
  /\ errorCount >= MapThenSumSet(LAMBDA g : errors[g], Gpus)

=============================================================================
