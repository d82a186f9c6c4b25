------------------------------- MODULE TickCycle -------------------------------
(***************************************************************************)
(* ColossusOrchestrator.tick_cycle (core/colossus_orchestrator.py): the    *)
(* control that a tick exerts on zones and on the fusion mode. It composes *)
(* the CircuitBreaker, the CascadeShield, the critical zones reported by   *)
(* the immersion engine and the threat level of the Hydra immune system.   *)
(*                                                                         *)
(* Nothing a tick awaits gives up the event loop, so one tick is one step. *)
(* The threat level is in twentieths (0.05, its decay). Zone temperatures  *)
(* and security findings are inputs; the immersion engine finds every zone *)
(* critical or none. Cooling flow and budgets, which nothing here reads    *)
(* back, and the reports of a tick are left out.                           *)
(***************************************************************************)
EXTENDS Naturals, FiniteSets

CONSTANTS
  Zones,
  MaxAnomalies,    \* strikes that trip the breaker
  RecoveryTicks,   \* ticks it stays tripped after the last strike
  FusionDefs,      \* manifest fusion_modes: mode -> pistons it requires
  FirstMode,       \* COLOSSUS_FULL
  MaxFindings      \* anomalies one security scan can report

Emergency == "EMERGENCY_RESPONSE"

ASSUME TickAssumption ==
  /\ MaxAnomalies \in Nat \ {0, 1}
  /\ RecoveryTicks \in Nat \ {0}
  /\ FirstMode \in DOMAIN FusionDefs /\ Emergency \in DOMAIN FusionDefs
  /\ MaxFindings \in Nat

VARIABLES
  tick,        \* self.tick modulo 2: a quiet tick is a step too
  strikes,     \* CircuitBreaker._anomaly_counts, saturated at MaxAnomalies
  tripped,     \* CircuitBreaker._isolated_zones
  countdown,   \* CircuitBreaker._recovery_counters, 0 when absent
  shield,      \* CascadeShield._zones
  isolated,    \* zones whose ZoneState.isolated is set
  mode,        \* self.mode; self._active_pistons is FusionDefs[mode]
  scans,       \* entries of its _entropy_history, up to 2
  threat,      \* HydraImmuneSystem.threat_level, in twentieths
  calm         \* history: zones without an anomaly in the last tick

breaker == <<strikes, tripped, countdown>>
vars == <<tick, breaker, shield, isolated, mode, scans, threat, calm>>

Shield == INSTANCE CascadeShield WITH HalfOpenTicks <- 5, streak <- strikes

Init ==
  /\ tick = 0
  /\ strikes = [z \in Zones |-> 0]
  /\ tripped = {}
  /\ countdown = [z \in Zones |-> 0]
  /\ shield = [z \in Zones |-> Shield!NewZone]
  /\ isolated = {}
  /\ mode = FirstMode
  /\ scans = 0 /\ threat = 0
  /\ calm = Zones

Active(piston) == piston \in FusionDefs[mode]

-----------------------------------------------------------------------------
(* CircuitBreaker.                                                         *)

Expired == {z \in tripped : countdown[z] <= 1}

\* Fault: recovery does not clear the strikes.
StrikesKept(z) == strikes[z]

\* Strikes of a zone after tick_recovery.
StrikesLeft(z) == IF z \in Expired THEN 0 ELSE strikes[z]

\* Fault: only a zone that is struck counts down.
CountOnStrike(z, struck) ==
  IF z \notin tripped \/ z \notin struck THEN countdown[z] ELSE countdown[z] - 1

\* The recovery counter of a zone after tick_recovery.
CountDown(z, struck) == IF z \in tripped THEN countdown[z] - 1 ELSE countdown[z]

(* tick_recovery at the start of a tick, record_anomaly for the zones in    *)
(* struck later in it; a strike on a tripped zone starts the countdown over.*)
RunBreaker(struck) ==
  LET counted == [z \in Zones |->
        IF z \in struck /\ StrikesLeft(z) < MaxAnomalies THEN StrikesLeft(z) + 1
                                                        ELSE StrikesLeft(z)]
      trips == {z \in struck : counted[z] >= MaxAnomalies}
  IN /\ strikes' = counted
     /\ tripped' = (tripped \ Expired) \cup trips
     /\ countdown' = [z \in Zones |->
          IF z \in trips THEN RecoveryTicks ELSE CountDown(z, struck)]

-----------------------------------------------------------------------------
(* Zone isolation.                                                         *)

\* Fault: a zone the breaker holds is not flagged.
HeldNowhere == {}

\* Zones the breaker still holds when the tick flags zones.
Held == tripped \ Expired

(* Held zones are flagged and skipped by the shield; any other is flagged  *)
(* if the shield says so, else released. The shield's tick_recovery is not *)
(* called.                                                                 *)
FlagZones(hot) ==
  /\ isolated' = Held \cup {z \in Zones \ Held : Shield!Isolates(shield[z], z \in hot)}
  /\ shield' = [z \in Zones |->
       IF z \in Held THEN Shield!Aged(shield[z])
                     ELSE Shield!Evaluated(Shield!Aged(shield[z]), z \in hot)]

-----------------------------------------------------------------------------
(* Security and mode.                                                      *)

\* Fault: the level is not limited to 1.0.
RaisedFreely(level, findings) ==
  IF findings > 0 THEN level + 3 * findings ELSE IF level = 0 THEN 0 ELSE level - 1

\* _update_threat_level.
Raised(level, findings) ==
  IF findings > 0 THEN IF level + 3 * findings > 20 THEN 20 ELSE level + 3 * findings
  ELSE IF level = 0 THEN 0 ELSE level - 1

\* security_result has no threat_level: only the summary of a system that
\* did not run in this tick shows one.
ThreatSeen == IF Active("CORE-THINK") THEN 0 ELSE threat

\* Fault: the mode is only changed out of the first one.
RespondFirst ==
  mode' = IF ThreatSeen > 14 /\ mode = FirstMode THEN Emergency ELSE mode

Respond == mode' = IF ThreatSeen > 14 THEN Emergency ELSE mode

\* One security tick: the first two scans have no baseline to find anything by.
Scan ==
  /\ scans' = IF scans < 2 THEN scans + 1 ELSE 2
  /\ \E findings \in IF scans < 2 THEN {0} ELSE 0 .. MaxFindings :
       threat' = Raised(threat, findings)

\* tick_cycle.
Tick ==
  /\ tick' = 1 - tick
  /\ \E hot \in SUBSET Zones, critical \in {{}, Zones} :
       LET struck == IF Active("SHADOW") THEN critical ELSE {} IN
       /\ RunBreaker(struck)
       /\ FlagZones(hot)
       /\ calm' = Zones \ (hot \cup struck)
  /\ \/ Active("CORE-THINK") /\ Scan
     \/ ~ Active("CORE-THINK") /\ UNCHANGED <<scans, threat>>
  /\ Respond

\* set_mode by an operator; an unknown name is refused.
SetMode ==
  /\ mode' \in DOMAIN FusionDefs
  /\ UNCHANGED <<tick, breaker, shield, isolated, scans, threat, calm>>

Next == Tick \/ SetMode

Spec == Init /\ [][Next]_vars

\* run() ticks until it is shut down.
FairSpec == Spec /\ WF_vars(Tick)

-----------------------------------------------------------------------------
(* Properties.                                                             *)

(* The three tables of the breaker agree: a zone is tripped exactly when    *)
(* its strikes have reached the limit, and its countdown runs exactly then  *)
(* (record_anomaly, tick_recovery).                                         *)
BreakerConsistent ==
  \A z \in Zones : /\ z \in tripped <=> strikes[z] = MaxAnomalies
                   /\ z \in tripped <=> countdown[z] > 0

(* Every field holds a value the code can give it.                         *)
TypeOK ==
  /\ tick \in {0, 1}
  /\ strikes \in [Zones -> 0 .. MaxAnomalies]
  /\ tripped \subseteq Zones /\ isolated \subseteq Zones /\ calm \subseteq Zones
  /\ countdown \in [Zones -> 0 .. RecoveryTicks]
  /\ shield \in [Zones -> [state : {"CLOSED", "OPEN"}, consecutive : 0 .. MaxAnomalies,
                           gap : 0 .. 2, cooldown : {0, RecoveryTicks}, halfOpen : {0}]]
  /\ mode \in DOMAIN FusionDefs
  /\ scans \in 0 .. 2 /\ threat \in 0 .. 20

(* A zone that the breaker holds before and after a tick is isolated in    *)
(* between, whatever the shield says. It needs a limit of two strikes: with *)
(* one, a zone recovers, is released and is tripped again in one tick.      *)
HeldIsIsolated ==
  [][tick' # tick => \A z \in Zones : z \in tripped \cap tripped' => z \in isolated']_vars

(* A zone whose anomalies end is released by the breaker for good.         *)
BreakerRecovers ==
  \A z \in Zones : <>[](z \in calm) => <>[](z \notin tripped)

(* A threat above 0.7 that security left behind never goes unanswered for   *)
(* good: while security does not run, whatever mode an operator sets, there *)
(* is always a later time in emergency response.                            *)
StaleThreatAnswered ==
  []<>(threat > 14 /\ ~ Active("CORE-THINK") => mode = Emergency)

(* PRO_CODE_AUDIT.md, law 10, "Countdown to recovery": a zone whose         *)
(* anomalies end is no longer isolated after some time.                     *)
IsolationEnds ==
  \A z \in Zones : <>[](z \in calm) => <>[](z \notin isolated)

(* core/colossus_orchestrator.py:523, "FEEDBACK: security threat ->         *)
(* EMERGENCY_RESPONSE": a security tick that leaves the threat above 0.7    *)
(* ends in emergency response.                                              *)
ThreatEscalates ==
  [][(threat' # threat /\ threat' > 14) => mode' = Emergency]_vars
=============================================================================
