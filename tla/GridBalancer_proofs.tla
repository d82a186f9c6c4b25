-------------------------- MODULE GridBalancer_proofs --------------------------
(***************************************************************************)
(* Proofs about GridBalancer for any capacity, thresholds in the order     *)
(* PackAssumption states, baseload, limits and set of demands.             *)
(***************************************************************************)
EXTENDS GridBalancer, TLAPS

Reserved(p) == p.state = "DISCHARGING" => p.soc > Critical

LEMMA TransitionSound ==
  ASSUME NEW p \in PackType, NEW to \in PackStates
  PROVE  /\ TransitionTo(p, to) \in PackType
         /\ Reserved(p) => Reserved(TransitionTo(p, to))
  BY PackAssumption DEF TransitionTo, CanTransition, Locked, PackType, PackStates, Reserved

LEMMA FedType ==
  ASSUME NEW p \in PackType, NEW power \in Int
  PROVE  Fed(p, power) \in PackType /\ Fed(p, power).state = p.state
  BY PackAssumption DEF Fed, PackType

(* Whatever the balancer did to the pack, its own tick leaves no discharge  *)
(* at or below the critical charge.                                         *)
LEMMA PackTickSound ==
  ASSUME NEW p \in PackType
  PROVE  PackTick(p) \in PackType /\ Reserved(PackTick(p))
<1> DEFINE q == LowRecharge(p)
           r == CutOff(q)
<1>1. q \in PackType
  BY TransitionSound DEF LowRecharge, PackStates
<1>2. r \in PackType
  BY <1>1, TransitionSound DEF CutOff, PackStates
<1>3. Reserved(r)
  <2>1. CASE q.state = "DISCHARGING" /\ q.soc <= Critical
    BY <2>1, <1>1 DEF CutOff, TransitionTo, CanTransition, Locked, Reserved, PackType
  <2>2. CASE ~ (q.state = "DISCHARGING" /\ q.soc <= Critical)
    BY <2>2, <1>1, PackAssumption DEF CutOff, Reserved, PackType
  <2> QED BY <2>1, <2>2
<1>4. TakeCharge(r) \in PackType /\ Reserved(TakeCharge(r))
  BY <1>2, <1>3, FedType, PackAssumption DEF TakeCharge, Reserved
<1> QED BY <1>4 DEF PackTick

LEMMA BufferedType ==
  ASSUME NEW p \in PackType, NEW deficit \in Int
  PROVE  Buffered(p, deficit) \in PackType
<1>1. Least(- deficit, MaxCharge) \in Int /\ - deficit \in Int /\ - MaxDischarge \in Int
  BY PackAssumption, BalancerAssumption DEF Least
<1>2. /\ TransitionTo(p, "CHARGING") \in PackType
      /\ TransitionTo(p, "DISCHARGING") \in PackType
  BY TransitionSound DEF PackStates
<1> QED BY <1>1, <1>2, FedType DEF Buffered

LEMMA OperateSound ==
  ASSUME pack \in PackType, Reserved(pack), Operate
  PROVE  pack' \in PackType /\ Reserved(pack')
<1>1. ASSUME NEW available \in BOOLEAN, SetGridStatus(available)
      PROVE  pack' \in PackType /\ Reserved(pack')
  <2> DEFINE p == [pack EXCEPT !.grid = available]
  <2>1. p \in PackType /\ Reserved(p)
    BY DEF PackType, Reserved
  <2>2. pack' \in {TransitionTo(p, "DISCHARGING"), TransitionTo(p, "IDLE"), p}
    BY <1>1 DEF SetGridStatus
  <2> QED BY <2>1, <2>2, TransitionSound DEF PackStates
<1>2. ASSUME NEW f \in BOOLEAN
      PROVE  /\ [pack EXCEPT !.fault = f] \in PackType
             /\ Reserved([pack EXCEPT !.fault = f])
  BY DEF PackType, Reserved
<1>3. CASE TriggerFault
  BY <1>2, <1>3, TransitionSound DEF TriggerFault, PackStates
<1>4. CASE ClearFault
  BY <1>2, <1>4, TransitionSound DEF ClearFault, PackStates
<1>5. CASE PulseDischarge
  BY <1>5, TransitionSound DEF PulseDischarge, PackStates
<1>6. CASE \E to \in PackStates : Order(to)
  BY <1>6, TransitionSound DEF Order
<1> QED BY <1>1, <1>3, <1>4, <1>5, <1>6 DEF Operate

Inv == TypeOK /\ CriticalReserve

LEMMA InvInit == Init => Inv
<1> SUFFICES ASSUME Init PROVE Inv OBVIOUS
<1>1. Capacity \div 2 \in 0 .. Capacity
  BY PackAssumption
<1> QED BY <1>1 DEF Init, PackInit, Inv, TypeOK, CriticalReserve, PackType, PackStates

LEMMA InvStep == Inv /\ [Next]_vars => Inv'
<1> SUFFICES ASSUME Inv, [Next]_vars PROVE Inv' OBVIOUS
<1>0. pack \in PackType /\ Reserved(pack)
  BY DEF Inv, TypeOK, CriticalReserve, Reserved
<1>1. ASSUME NEW d \in Demands,
             demand' = d, pack' = PackTick(Buffered(pack, d - Baseload)), Throttle(d)
      PROVE  Inv'
  <2>1. d - Baseload \in Int
    BY BalancerAssumption
  <2>2. pack' \in PackType /\ Reserved(pack')
    BY <1>0, <1>1, <2>1, BufferedType, PackTickSound
  <2> QED BY <1>1, <2>2 DEF Inv, TypeOK, CriticalReserve, Reserved, Throttle
<1>2. CASE Operate /\ UNCHANGED <<demand, dvfs, mode>>
  BY <1>0, <1>2, OperateSound DEF Inv, TypeOK, CriticalReserve, Reserved
<1>3. CASE UNCHANGED vars
  BY <1>3 DEF vars, Inv, TypeOK, CriticalReserve
<1> QED BY <1>1, <1>2, <1>3 DEF Next, Tick

(* The charge of the pack stays within its capacity and every field keeps   *)
(* its type (update_soc, _can_transition, _reconcile_power).                *)
THEOREM TypeCorrect == Spec => []TypeOK
<1>1. Inv => TypeOK
  BY DEF Inv
<1> QED BY <1>1, InvInit, InvStep, PTL DEF Spec

(* A pack that discharges has more than its critical charge, whatever the   *)
(* demands and whatever operators and the grid do between ticks.            *)
THEOREM ReserveIsKept == Spec => []CriticalReserve
<1>1. Inv => CriticalReserve
  BY DEF Inv
<1> QED BY <1>1, InvInit, InvStep, PTL DEF Spec

(* A deficit beyond what the pack may give has it discharge, unless it is   *)
(* locked or has no more than its critical charge.                          *)
LEMMA BufferedDischarges ==
  ASSUME NEW p \in PackType, ~ Locked(p), p.soc > Critical,
         NEW deficit \in Int, deficit > MaxDischarge
  PROVE  Buffered(p, deficit) \in PackType /\ Buffered(p, deficit).state = "DISCHARGING"
<1>1. - MaxDischarge \in Int /\ deficit > 0 /\ ~ deficit <= MaxDischarge
  BY BalancerAssumption
<1>2. TransitionTo(p, "DISCHARGING") \in PackType
  BY TransitionSound DEF PackStates
<1>3. TransitionTo(p, "DISCHARGING").state = "DISCHARGING"
  <2>1. CASE p.state = "DISCHARGING"
    BY <2>1 DEF TransitionTo, PackType
  <2>2. CASE p.state # "DISCHARGING"
    <3>1. CanTransition(p, "DISCHARGING")
      BY <2>2, PackAssumption DEF CanTransition, PackType
    <3> QED BY <3>1 DEF TransitionTo, PackType
  <2> QED BY <2>1, <2>2
<1>4. Buffered(p, deficit) = Fed(TransitionTo(p, "DISCHARGING"), - MaxDischarge)
  BY <1>1 DEF Buffered
<1> QED BY <1>1, <1>2, <1>3, <1>4, FedType

(* A tick ends a discharge only by cutting it off at the critical charge.   *)
LEMMA PackTickCutsOff ==
  ASSUME NEW p \in PackType, p.state = "DISCHARGING"
  PROVE  PackTick(p).state = "DISCHARGING" \/ PackTick(p).soc <= Critical
<1>1. LowRecharge(p) = p
  BY DEF LowRecharge
<1>2. CASE p.soc <= Critical
  <2>1. CanTransition(p, "IDLE")
    BY <1>2 DEF CanTransition, Locked
  <2>2. CutOff(p) = [p EXCEPT !.state = "IDLE"]
    BY <1>2, <2>1 DEF CutOff, TransitionTo
  <2>3. CutOff(p).state = "IDLE" /\ CutOff(p).soc = p.soc
    BY <2>2 DEF PackType
  <2> QED BY <1>1, <1>2, <2>3 DEF PackTick, TakeCharge
<1>3. CASE ~ p.soc <= Critical
  BY <1>1, <1>3 DEF PackTick, CutOff, TakeCharge
<1> QED BY <1>2, <1>3

(* "baseload, megapack, DVFS cascade": whatever demands, orders and faults  *)
(* come, GPUs are throttled only when the pack discharges, is down to its   *)
(* critical charge or is locked (_reconcile_power).                         *)
THEOREM ThrottlesLast == Spec => ThrottleIsLastResort
<1>1. ASSUME Inv, [Next]_vars
      PROVE  [dvfs = "full" /\ dvfs' # "full" =>
                \/ pack'.state = "DISCHARGING" \/ Locked(pack)
                \/ pack.soc <= Critical \/ pack'.soc <= Critical]_vars
  <2> SUFFICES ASSUME dvfs = "full", dvfs' # "full", ~ Locked(pack), ~ pack.soc <= Critical
               PROVE  pack'.state = "DISCHARGING" \/ pack'.soc <= Critical
    OBVIOUS
  <2>1. pack \in PackType /\ pack.soc > Critical
    BY <1>1, PackAssumption DEF Inv, TypeOK, PackType
  <2>2. Tick
    BY <1>1 DEF Next, vars
  <2>3. PICK d \in Demands : pack' = PackTick(Buffered(pack, d - Baseload)) /\ Throttle(d)
    BY <2>2 DEF Tick
  <2>4. d - Baseload \in Int /\ d - Baseload > MaxDischarge
    BY <2>3, BalancerAssumption DEF Throttle
  <2> QED BY <2>1, <2>3, <2>4, BufferedDischarges, PackTickCutsOff
<1> QED BY <1>1, InvInit, InvStep, PTL DEF Spec, ThrottleIsLastResort
=============================================================================
