------------------------------ MODULE HydraImmune ------------------------------
(***************************************************************************)
(* HydraImmune (security/hydra_immune.py): a scan finds anomalies in up to *)
(* five channels; the threat level rises with each and falls on a scan     *)
(* without; above its threshold every tick strikes back: a new key, two    *)
(* zones sealed, an alert per anomaly. Entropies and deviations are an     *)
(* input; the level is in twentieths, the step by which it falls.          *)
(***************************************************************************)
EXTENDS Naturals, FiniteSets

CONSTANTS
  Zones,       \* the critical zones
  Threshold,   \* threat_detection_threshold
  MaxKeys,     \* active keys before they are cut, and
  KeptKeys     \* those that stay then

VARIABLES
  scans,      \* entries of entropy_history, up to the three a scan needs
  level,      \* threat_level
  keys,       \* how many keys are active
  target,     \* the two zones a set of this process yields first
  sealed,     \* sealed_zones
  anomalies,  \* found by the last tick
  struck      \* the last tick struck back

vars == <<scans, level, keys, target, sealed, anomalies, struck>>

Init == /\ scans = 0 /\ level = 0 /\ keys = 1 /\ sealed = {}
        /\ target \in {s \in SUBSET Zones : Cardinality(s) = 2}
        /\ anomalies = 0 /\ struck = FALSE

-----------------------------------------------------------------------------
\* Fault: the level only falls while it is below the threshold.
RaisedForGood(n) ==
  IF n = 0 THEN (IF level \in 1 .. Threshold THEN level - 1 ELSE level)
  ELSE IF level + 3 * n > 20 THEN 20 ELSE level + 3 * n

\* _update_threat_level for n anomalies.
Raised(n) ==
  IF n = 0 THEN (IF level = 0 THEN 0 ELSE level - 1)
  ELSE IF level + 3 * n > 20 THEN 20 ELSE level + 3 * n

\* The first two scans have no baseline.
Found == IF scans < 2 THEN {0} ELSE 0 .. 5

\* Fault: old keys are never cut.
KeepKeys == keys' = keys + 1

RotateKeys == keys' = IF keys + 1 > MaxKeys THEN KeptKeys ELSE keys + 1

CounterStrike == struck' = TRUE /\ RotateKeys /\ sealed' = sealed \cup target

Tick == \E n \in Found :
  /\ scans' = IF scans < 3 THEN scans + 1 ELSE scans
  /\ anomalies' = n /\ level' = Raised(n)
  /\ IF level' > Threshold THEN CounterStrike ELSE struck' = FALSE /\ UNCHANGED <<keys, sealed>>
  /\ UNCHANGED target

Next == Tick

\* It is ticked while run() goes on and the mode keeps CORE-THINK active.
Fairness == WF_vars(Tick)

Spec == Init /\ [][Next]_vars /\ Fairness

-----------------------------------------------------------------------------
(* Properties.                                                             *)

(* There is always a key and never more than the limit, and what is sealed  *)
(* is sealed by a strike.                                                   *)
TypeOK == /\ scans \in 0 .. 3 /\ level \in 0 .. 20 /\ keys \in 1 .. MaxKeys
          /\ sealed \in {{}, target} /\ (struck => sealed = target)

(* Strikes do not feed on themselves: when no more anomalies are found they *)
(* cease, although every strike of the tail rotates keys once more.         *)
StrikesCease == <>[](anomalies = 0) => <>[](~ struck)

=============================================================================
