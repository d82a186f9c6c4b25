----------------------------- MODULE GridBalancer -----------------------------
(***************************************************************************)
(* AutonomousGridBalancer (energy/grid_balancer.py) with its Megapack: each*)
(* tick reconciles a demand with the baseload of the turbines, the pack and*)
(* DVFS throttling, then ticks the pack. Between ticks operators and the   *)
(* grid act on the pack.                                                   *)
(*                                                                         *)
(* The demand is an input: the forecaster's samples come from outside. The *)
(* DVFS factor is kept as what it was set for. No code changes the number  *)
(* of turbines online, so the baseload is a constant.                      *)
(***************************************************************************)
EXTENDS Megapack

CONSTANTS
  Baseload,        \* online_units * capacity_per_unit_mw
  TotalCapacity,   \* baseload and grid connection together
  MaxDischarge,    \* megapack_max_discharge_mw
  Threshold,       \* cascade_threshold, in percent
  Demands          \* demands a tick may meet

ASSUME BalancerAssumption ==
  /\ Baseload \in Nat /\ TotalCapacity \in Nat /\ Threshold \in Nat
  /\ MaxDischarge \in Nat \ {0}
  /\ Demands \subseteq Nat

VARIABLES
  demand,   \* EnergyState.total_demand_mw
  dvfs,     \* EnergyState.dvfs_factor: "full" is 1.0
  mode      \* EnergyState.grid_mode

vars == <<pack, demand, dvfs, mode>>

Init ==
  /\ PackInit
  /\ demand = 0 /\ dvfs = "full" /\ mode = "NOMINAL"

-----------------------------------------------------------------------------
(* _reconcile_power.                                                       *)

Least(a, b) == IF a < b THEN a ELSE b

\* Fault: the reserve below the low threshold is never used.
AsksLittle(p, deficit) ==
  CASE deficit <= 0 /\ p.soc < Full /\ p.state # "DISCHARGING" ->
         Fed(TransitionTo(p, "CHARGING"), Least(- deficit, MaxCharge))
    [] deficit > 0 /\ p.soc > Low ->
         Fed(TransitionTo(p, "DISCHARGING"), - Least(deficit, MaxDischarge))
    [] OTHER -> p

\* Fault: a surplus starts no charging.
ChargesNothing(p, deficit) ==
  IF deficit > 0 /\ p.soc > Critical
  THEN Fed(TransitionTo(p, "DISCHARGING"), - Least(deficit, MaxDischarge)) ELSE p

(* The pack after the balancer's order. Whether the transition was allowed  *)
(* is not asked: the charge moves all the same.                             *)
Buffered(p, deficit) ==
  LET covers == deficit <= MaxDischarge /\ p.soc > Low IN
  CASE deficit <= 0 /\ p.soc < Full /\ p.state # "DISCHARGING" ->
         Fed(TransitionTo(p, "CHARGING"), Least(- deficit, MaxCharge))
    [] deficit > 0 /\ covers ->
         Fed(TransitionTo(p, "DISCHARGING"), - deficit)
    [] deficit > 0 /\ ~ covers /\ p.soc > Critical ->
         Fed(TransitionTo(p, "DISCHARGING"), - MaxDischarge)
    [] OTHER -> p

Overloaded(d) == d * 100 >= Threshold * TotalCapacity

\* What is left when the pack gives all it can is taken from the GPUs.
Throttle(d) ==
  IF d - Baseload <= MaxDischarge THEN dvfs' = "full" /\ UNCHANGED mode
  ELSE IF Overloaded(d) THEN dvfs' = "throttled" /\ mode' = "EMERGENCY"
  ELSE dvfs' = "shaved" /\ mode' = "PEAK_SHAVE"

\* tick. The branch that should bring the mode back to NOMINAL asks for
\* NOMINAL, so it changes nothing.
Tick ==
  \E d \in Demands :
    /\ demand' = d
    /\ pack' = PackTick(Buffered(pack, d - Baseload))
    /\ Throttle(d)

Next == Tick \/ (Operate /\ UNCHANGED <<demand, dvfs, mode>>)

Spec == Init /\ [][Next]_vars

\* Energy is ticked for as long as run() goes on and the mode keeps GHOST active.
FairSpec == Spec /\ WF_vars(Tick)

-----------------------------------------------------------------------------
(* Properties.                                                             *)

(* Every field holds a value the code can give it: the charge stays within  *)
(* the capacity whatever the balancer and the pack add and draw in a tick.  *)
TypeOK ==
  /\ pack \in PackType
  /\ demand \in Demands \cup {0}
  /\ dvfs \in {"full", "shaved", "throttled"}
  /\ mode \in {"NOMINAL", "PEAK_SHAVE", "EMERGENCY"}

(* A pack that discharges has more than its critical charge: a tick that    *)
(* draws it down to the threshold also cuts it off, and neither a grid loss *)
(* nor a pulse, an order or a repair starts a discharge below it.           *)
CriticalReserve == pack.state = "DISCHARGING" => pack.soc > Critical

(* "baseload, megapack, DVFS cascade": GPUs are throttled only when the     *)
(* pack discharges, is at its critical charge or is locked.                 *)
ThrottleIsLastResort ==
  [][dvfs = "full" /\ dvfs' # "full" =>
       \/ pack'.state = "DISCHARGING" \/ Locked(pack)
       \/ pack.soc <= Critical \/ pack'.soc <= Critical]_vars

(* A lasting surplus fills the pack, whatever state operators or the grid   *)
(* put it in, unless it is left discharging: then it is never charged.      *)
SurplusFills ==
  <>[](demand < Baseload /\ pack.state # "DISCHARGING") => <>(pack.soc >= Full)
=============================================================================
