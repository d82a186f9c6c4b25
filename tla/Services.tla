-------------------------------- MODULE Services --------------------------------
(***************************************************************************)
(* What runs around the orchestrators: Subsystems, the timed loop, the     *)
(* telemetry bus, the gateway and the life of the other orchestrator. They *)
(* share no state, so a behaviour is one of one of them, with the others   *)
(* at rest; the variable part says which.                                  *)
(***************************************************************************)
EXTENDS Subsystems

CONSTANTS
  Runners, MaxDuration, LoopTicks,                              \* RunLoop
  Threads, MaxBuffer, PerThread,                                \* TelemetryBus
  Capacity, Rate, Probed, Answering, MaxTime, GateTicks,        \* Gateway
  Manifests, Complete, Durations, MaxReports, LifeTicks, MaxRecords  \* ColossusRun

ASSUME ServicesAssumption ==
  /\ MaxDuration \in Nat /\ LoopTicks \in Nat
  /\ IsFiniteSet(Threads) /\ MaxBuffer \in Nat \ {0} /\ PerThread \in Nat
  /\ Capacity \in Nat /\ Rate \in Nat /\ MaxTime \in Nat /\ GateTicks \in Nat
  /\ Answering \subseteq Probed
  /\ Durations \subseteq Nat /\ 0 \in Durations
  /\ MaxReports \in Nat /\ LifeTicks \in Nat /\ MaxRecords \in Nat

VARIABLES
  part,
  running, tickCount, phase, left, interrupted, ended,       \* RunLoop
  count, lists, current, where, emitted, seq, loaded, list,  \* TelemetryBus
  secured, has, now, tokens, refilled, requests, ticks, reply, admitted,  \* Gateway
  manifest, built, remembers, inRun, shutdown, tick, overall, asked, done, records, returned  \* ColossusRun

loopVars == <<running, tickCount, phase, left, interrupted, ended>>
busVars == <<count, lists, current, where, emitted, seq, loaded, list>>
gateVars == <<secured, has, now, tokens, refilled, requests, ticks, reply, admitted>>
lifeVars == <<manifest, built, remembers, inRun, shutdown, tick, overall, asked, done, records, returned>>

Loop == INSTANCE RunLoop WITH MaxTicks <- LoopTicks
Bus == INSTANCE TelemetryBus WITH at <- where
Gate == INSTANCE Gateway WITH Subsystems <- Probed, MaxTicks <- GateTicks, loaded <- has
Life == INSTANCE ColossusRun WITH
          MaxTicks <- LifeTicks, phase <- inRun, health <- overall, ended <- returned

AllInit ==
  /\ part \in {"subsystems", "loop", "bus", "gate", "life"}
  /\ Init /\ Loop!Init /\ Bus!Init /\ Gate!Init /\ Life!Init
  /\ part # "gate" => ~ secured /\ has = {}
  /\ part # "life" => manifest = CHOOSE m \in Manifests : TRUE

AllNext ==
  /\ UNCHANGED part
  /\ \/ part = "subsystems" /\ Next /\ UNCHANGED <<loopVars, busVars, gateVars, lifeVars>>
     \/ part = "loop" /\ Loop!Next /\ UNCHANGED <<vars, busVars, gateVars, lifeVars>>
     \/ part = "bus" /\ Bus!Next /\ UNCHANGED <<vars, loopVars, gateVars, lifeVars>>
     \/ part = "gate" /\ Gate!Next /\ UNCHANGED <<vars, loopVars, busVars, lifeVars>>
     \/ part = "life" /\ Life!Next /\ UNCHANGED <<vars, loopVars, busVars, gateVars>>

allVars == <<vars, part, loopVars, busVars, gateVars, lifeVars>>

AllSpec == AllInit /\ [][AllNext]_allVars

(* Each part's fields hold values its code can give them.                  *)
TypesOK == TypeOK /\ Loop!TypeOK /\ Bus!TypeOK /\ Gate!TypeOK /\ Life!TypeOK

(* The named properties of the other parts, for the configuration.         *)
RunsEndAsAsked == Loop!RunsEndAsAsked /\ Life!RunsAreRecorded /\ Life!HealthIsMonotone
EventsKept == Bus!EventsKept
RateIsBounded == Gate!RateIsBounded
=============================================================================
