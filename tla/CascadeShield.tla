----------------------------- MODULE CascadeShield -----------------------------
(***************************************************************************)
(* CascadeShield (thermal/cascade_shield.py): per zone, a breaker that     *)
(* opens after MaxAnomalies anomalous ticks in a row, cools down, and is   *)
(* half open for a while before it closes. What makes a reading anomalous  *)
(* (temperature step, power surge, critical temperature) is a Boolean here.*)
(*                                                                         *)
(* A tick evaluates some zones and then runs tick_recovery, as the loop of  *)
(* the module's own main does. tick_cycle only evaluates: TickCycle has the *)
(* shield without recovery. The distance to last_anomaly_tick is kept instead of the *)
(* tick numbers, capped at 2: the code only asks whether it exceeds 1.     *)
(***************************************************************************)
EXTENDS Naturals, FiniteSets

CONSTANTS
  Zones,
  MaxAnomalies,    \* manifest: max_consecutive_anomalies
  RecoveryTicks,   \* manifest: recovery_ticks
  HalfOpenTicks    \* 5 in the code

ASSUME ShieldAssumption ==
  /\ MaxAnomalies \in Nat \ {0}
  /\ RecoveryTicks \in Nat \ {0}
  /\ HalfOpenTicks \in Nat \ {0}

VARIABLES
  shield,   \* zone -> ZoneCircuitState
  streak    \* history: anomalous ticks in a row, 0 while the zone is OPEN

vars == <<shield, streak>>

NewZone == [state |-> "CLOSED", consecutive |-> 0, gap |-> 2,
            cooldown |-> 0, halfOpen |-> 0]

Init == /\ shield = [z \in Zones |-> NewZone]
        /\ streak = [z \in Zones |-> 0]

-----------------------------------------------------------------------------
(* The two calls, on one zone's state.                                     *)

\* One tick more since the last anomaly.
Aged(r) == [r EXCEPT !.gap = IF @ < 2 THEN @ + 1 ELSE 2]

\* Fault: a quiet tick does not end the series.
CountedAll(r, anomaly) == r.consecutive + (IF anomaly THEN 1 ELSE 0)

\* consecutive_anomalies after a reading.
Counted(r, anomaly) ==
  (IF r.gap > 1 THEN 0 ELSE r.consecutive) + (IF anomaly THEN 1 ELSE 0)

\* What evaluate_zone leaves behind.
Evaluated(r, anomaly) ==
  IF r.state = "OPEN" THEN r
  ELSE LET n == Counted(r, anomaly)
           trips == anomaly /\ n >= MaxAnomalies
       IN [r EXCEPT !.consecutive = n,
                    !.gap = IF anomaly THEN 0 ELSE @,
                    !.state = IF trips THEN "OPEN" ELSE @,
                    !.cooldown = IF trips THEN RecoveryTicks ELSE @]

\* What evaluate_zone returns: not only an open breaker, any anomaly.
Isolates(r, anomaly) == r.state = "OPEN" \/ anomaly

\* Fault: the cooldown is only started over.
NeverRecovered(r) ==
  IF r.state = "OPEN" /\ r.cooldown = 1 THEN [r EXCEPT !.cooldown = RecoveryTicks]
  ELSE IF r.state = "OPEN" THEN [r EXCEPT !.cooldown = @ - 1] ELSE r

\* Fault: the half-open countdown is not set.
RecoveredAtOnce(r) ==
  IF r.state = "OPEN"
  THEN [r EXCEPT !.cooldown = @ - 1,
                 !.state = IF r.cooldown = 1 THEN "HALF_OPEN" ELSE @]
  ELSE r

\* tick_recovery.
Recovered(r) ==
  CASE r.state = "OPEN" /\ r.cooldown > 1 -> [r EXCEPT !.cooldown = @ - 1]
    [] r.state = "OPEN" /\ r.cooldown <= 1 ->
           [r EXCEPT !.cooldown = 0, !.state = "HALF_OPEN", !.halfOpen = HalfOpenTicks]
    [] r.state = "HALF_OPEN" /\ r.halfOpen > 1 -> [r EXCEPT !.halfOpen = @ - 1]
    [] r.state = "HALF_OPEN" /\ r.halfOpen <= 1 ->
           [r EXCEPT !.halfOpen = 0, !.state = "CLOSED", !.consecutive = 0]
    [] OTHER -> r

-----------------------------------------------------------------------------
Tick ==
  \E seen \in SUBSET Zones : \E hot \in SUBSET seen :
    LET reading == [z \in Zones |->
          IF z \in seen THEN Evaluated(Aged(shield[z]), z \in hot)
                        ELSE Aged(shield[z])]
    IN /\ shield' = [z \in Zones |-> Recovered(reading[z])]
       /\ streak' = [z \in Zones |->
            IF z \notin hot \/ shield[z].state = "OPEN" THEN 0
            ELSE IF streak[z] < MaxAnomalies THEN streak[z] + 1 ELSE streak[z]]

Next == Tick

Spec == Init /\ [][Next]_vars

\* An assumption on the shield's caller, which no orchestrator here meets: it goes on
\* calling tick_recovery.
FairSpec == Spec /\ WF_vars(Tick)

-----------------------------------------------------------------------------
(* Properties.                                                             *)

(* Each countdown runs exactly in the state that reads it, and never past  *)
(* zero, so tick_recovery finds the end of both (evaluate_zone,            *)
(* tick_recovery).                                                         *)
TypeOK ==
  /\ shield \in [Zones -> [state : {"CLOSED", "OPEN", "HALF_OPEN"},
                           consecutive : Nat, gap : 0 .. 2,
                           cooldown : 0 .. RecoveryTicks,
                           halfOpen : 0 .. HalfOpenTicks]]
  /\ streak \in [Zones -> 0 .. MaxAnomalies]
  /\ \A z \in Zones : /\ shield[z].state = "OPEN" <=> shield[z].cooldown > 0
                      /\ shield[z].state = "HALF_OPEN" => shield[z].halfOpen > 0

(* A zone opens only on MaxAnomalies anomalous readings at consecutive     *)
(* ticks: readings skipped, or quiet, in between do not add up, also after *)
(* a recovery (evaluate_zone).                                             *)
OpensOnStreak ==
  [][\A z \in Zones :
       (shield'[z].state # shield[z].state
          /\ (shield'[z].state = "OPEN" \/ shield'[z].cooldown > shield[z].cooldown))
         => streak'[z] = MaxAnomalies]_vars

(* For a caller that drives recovery: an open zone does not stay open, for  *)
(* whatever readings arrive meanwhile, tick_recovery's countdown ends       *)
(* (evaluate_zone, tick_recovery).                                          *)
OpenEnds == \A z \in Zones : shield[z].state = "OPEN" ~> shield[z].state # "OPEN"

=============================================================================
