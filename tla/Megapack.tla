------------------------------- MODULE Megapack -------------------------------
(***************************************************************************)
(* TeslaMegapack (energy/megapack_state_machine.py): the battery's states, *)
(* the guards between them and its state of charge. GridBalancer drives it *)
(* and holds its runs.                                                     *)
(*                                                                         *)
(* Charge is counted in units; a unit of power moves one unit of charge in *)
(* a tick. The efficiency, a factor on it, is left out, and so are the     *)
(* transition log, power_mw and temperature_c, which no code reads back.   *)
(***************************************************************************)
EXTENDS Integers

CONSTANTS
  Capacity,    \* soc of 100 %
  Critical,    \* critical_soc_threshold, 5 %
  Low,         \* low_soc_threshold, 10 %
  Full,        \* full_soc_threshold, 95 %
  MaxCharge    \* max_charge_mw

ASSUME PackAssumption ==
  /\ Capacity \in Nat /\ Critical \in Nat /\ Low \in Nat /\ Full \in Nat
  /\ Critical < Low /\ Low < Full /\ Full <= Capacity
  /\ MaxCharge \in Nat \ {0}

VARIABLE pack   \* TeslaMegapack.current: state, soc, grid_available, fault_code set

PackStates == {"IDLE", "CHARGING", "DISCHARGING", "FREQUENCY_RESPONSE",
               "PEAK_SHAVE", "RESERVE", "FAULT", "MAINTENANCE"}

PackType == [state : PackStates, soc : 0 .. Capacity, grid : BOOLEAN, fault : BOOLEAN]

Locked(p) == p.state \in {"FAULT", "MAINTENANCE"}

PackInit == pack = [state |-> "IDLE", soc |-> Capacity \div 2, grid |-> TRUE,
                    fault |-> FALSE]

-----------------------------------------------------------------------------
(* Transitions.                                                            *)

\* Fault: no lower limit for discharging.
CanTransitionFreely(p, to) ==
  IF Locked(p)
  THEN to = (IF p.state = "FAULT" THEN "MAINTENANCE" ELSE "IDLE")
  ELSE /\ ~ (to = "CHARGING" /\ p.soc >= Full)
       /\ p.grid \/ to \in {"DISCHARGING", "IDLE"}
       /\ to # p.state

\* _can_transition.
CanTransition(p, to) ==
  IF Locked(p)
  THEN to = (IF p.state = "FAULT" THEN "MAINTENANCE" ELSE "IDLE")
  ELSE \/ to = "IDLE" /\ p.soc <= Critical
       \/ /\ ~ (to = "DISCHARGING" /\ p.soc <= Critical)
          /\ ~ (to = "CHARGING" /\ p.soc >= Full)
          /\ p.grid \/ to \in {"DISCHARGING", "IDLE"}
          /\ to # p.state

TransitionTo(p, to) == IF CanTransition(p, to) THEN [p EXCEPT !.state = to] ELSE p

\* Fault: the charge is not limited.
FedFreely(p, power) == [p EXCEPT !.soc = @ + power]

\* update_soc, with power flowing into the pack; it asks nothing of the state.
Fed(p, power) ==
  [p EXCEPT !.soc = IF @ + power < 0 THEN 0
                    ELSE IF @ + power > Capacity THEN Capacity ELSE @ + power]

-----------------------------------------------------------------------------
(* tick.                                                                   *)

LowRecharge(p) ==
  IF p.state = "IDLE" /\ p.soc < Low /\ p.grid THEN TransitionTo(p, "CHARGING") ELSE p

\* Fault: the threshold itself is not cut off.
CutOffBelow(p) ==
  IF p.state = "DISCHARGING" /\ p.soc < Critical THEN TransitionTo(p, "IDLE") ELSE p

CutOff(p) ==
  IF p.state = "DISCHARGING" /\ p.soc <= Critical THEN TransitionTo(p, "IDLE") ELSE p

TakeCharge(p) == IF p.state = "CHARGING" THEN Fed(p, MaxCharge) ELSE p

PackTick(p) == TakeCharge(CutOff(LowRecharge(p)))

-----------------------------------------------------------------------------
(* What the grid and its operators do to the pack between ticks.           *)

SetGridStatus(available) ==
  /\ pack.grid # available
  /\ LET p == [pack EXCEPT !.grid = available] IN
     pack' = IF ~ available THEN TransitionTo(p, "DISCHARGING")
             ELSE IF p.state = "DISCHARGING" THEN TransitionTo(p, "IDLE") ELSE p

TriggerFault == pack' = TransitionTo([pack EXCEPT !.fault = TRUE], "FAULT")

ClearFault ==
  /\ pack.state = "FAULT"
  /\ pack' = TransitionTo([pack EXCEPT !.fault = FALSE], "MAINTENANCE")

\* pulse_discharge within its limits of power and duration; beyond them it
\* is refused.
PulseDischarge == pack' = TransitionTo(pack, "DISCHARGING")

\* transition_to called from outside.
Order(to) == pack' = TransitionTo(pack, to)

Operate == \/ \E available \in BOOLEAN : SetGridStatus(available)
           \/ TriggerFault \/ ClearFault \/ PulseDischarge
           \/ \E to \in PackStates : Order(to)
=============================================================================
