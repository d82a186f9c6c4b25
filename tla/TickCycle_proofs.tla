---------------------------- MODULE TickCycle_proofs ----------------------------
(***************************************************************************)
(* Proofs about TickCycle: the tables of the circuit breaker agree in      *)
(* every reachable state, for any zones, limits and fusion modes.          *)
(***************************************************************************)
EXTENDS TickCycle, TLAPS

(* The typing of the breaker's tables that BreakerConsistent rests on.     *)
BreakerTypes ==
  /\ strikes \in [Zones -> 0 .. MaxAnomalies]
  /\ tripped \subseteq Zones
  /\ countdown \in [Zones -> 0 .. RecoveryTicks]

BreakerInv == BreakerTypes /\ BreakerConsistent

(* One tick of the breaker keeps its tables typed and consistent, whatever  *)
(* zones are struck in it (tick_recovery, then record_anomaly).             *)
LEMMA BreakerStep ==
  ASSUME BreakerInv, NEW struck \in SUBSET Zones, RunBreaker(struck)
  PROVE  BreakerInv'
<1> DEFINE counted == [z \in Zones |->
             IF z \in struck /\ StrikesLeft(z) < MaxAnomalies
             THEN StrikesLeft(z) + 1 ELSE StrikesLeft(z)]
           trips == {z \in struck : counted[z] >= MaxAnomalies}
<1>1. /\ strikes' = counted
      /\ tripped' = (tripped \ Expired) \cup trips
      /\ countdown' = [z \in Zones |->
           IF z \in trips THEN RecoveryTicks ELSE CountDown(z, struck)]
  BY Zenon DEF RunBreaker
<1>2. MaxAnomalies \in Nat \ {0, 1} /\ RecoveryTicks \in Nat \ {0}
  BY TickAssumption
<1>3. ASSUME NEW z \in Zones
      PROVE  /\ StrikesLeft(z) \in 0 .. MaxAnomalies
             /\ StrikesLeft(z) = MaxAnomalies <=> z \in tripped \ Expired
             /\ CountDown(z, struck) \in 0 .. RecoveryTicks
             /\ CountDown(z, struck) > 0 <=> z \in tripped \ Expired
  BY <1>2 DEF BreakerInv, BreakerTypes, BreakerConsistent, StrikesLeft, CountDown, Expired
<1>4. ASSUME NEW z \in Zones
      PROVE  /\ counted[z] \in 0 .. MaxAnomalies
             /\ counted[z] = MaxAnomalies <=> (z \in tripped \ Expired \/ z \in trips)
  <2> DEFINE left == StrikesLeft(z)
  <2>1. counted[z] = IF z \in struck /\ left < MaxAnomalies THEN left + 1 ELSE left
    OBVIOUS
  <2>2. z \in trips <=> (z \in struck /\ counted[z] >= MaxAnomalies)
    OBVIOUS
  <2>3. left \in 0 .. MaxAnomalies /\ (left = MaxAnomalies <=> z \in tripped \ Expired)
    BY <1>3
  <2> HIDE DEF left, counted, trips
  <2> QED BY <1>2, <2>1, <2>2, <2>3
<1>5. BreakerTypes'
  <2>1. strikes' \in [Zones -> 0 .. MaxAnomalies]
    BY <1>1, <1>4
  <2>2. tripped' \subseteq Zones
    BY <1>1 DEF BreakerInv, BreakerTypes
  <2>3. countdown' \in [Zones -> 0 .. RecoveryTicks]
    BY <1>1, <1>2, <1>3
  <2> QED BY <2>1, <2>2, <2>3 DEF BreakerTypes
<1>6. ASSUME NEW z \in Zones
      PROVE  /\ z \in tripped' <=> strikes'[z] = MaxAnomalies
             /\ z \in tripped' <=> countdown'[z] > 0
  <2>1. z \in tripped' <=> (z \in tripped \ Expired \/ z \in trips)
    BY <1>1
  <2>2. countdown'[z] = IF z \in trips THEN RecoveryTicks ELSE CountDown(z, struck)
    BY <1>1
  <2>3. strikes'[z] = counted[z]
    BY <1>1
  <2> HIDE DEF counted, trips
  <2> QED BY <1>2, <1>3, <1>4, <2>1, <2>2, <2>3
<1> QED BY <1>5, <1>6 DEF BreakerInv, BreakerConsistent

(* The inductive invariant: types and agreement of the breaker's tables.   *)
LEMMA BreakerInvariant == Spec => []BreakerInv
<1>1. Init => BreakerInv
  BY TickAssumption DEF Init, BreakerInv, BreakerTypes, BreakerConsistent
<1>2. BreakerInv /\ [Next]_vars => BreakerInv'
  <2> SUFFICES ASSUME BreakerInv, [Next]_vars
               PROVE  BreakerInv'
    OBVIOUS
  <2>1. CASE Tick
    <3>1. PICK hot \in SUBSET Zones, critical \in {{}, Zones} :
            RunBreaker(IF Active("SHADOW") THEN critical ELSE {})
      BY <2>1, Zenon DEF Tick
    <3>2. (IF Active("SHADOW") THEN critical ELSE {}) \in SUBSET Zones
      OBVIOUS
    <3> QED BY <3>1, <3>2, BreakerStep, Zenon
  <2>2. CASE SetMode
    BY <2>2 DEF SetMode, breaker, BreakerInv, BreakerTypes, BreakerConsistent
  <2>3. CASE UNCHANGED vars
    BY <2>3 DEF vars, breaker, BreakerInv, BreakerTypes, BreakerConsistent
  <2> QED BY <2>1, <2>2, <2>3 DEF Next
<1> QED BY <1>1, <1>2, PTL DEF Spec

(* The breaker's tables agree, forever: a zone is tripped exactly when its  *)
(* strikes have reached the limit and its countdown runs, so tick_recovery  *)
(* finds every tripped zone and releases it with no strikes left.           *)
THEOREM BreakerAgrees == Spec => []BreakerConsistent
<1>1. BreakerInv => BreakerConsistent
  BY DEF BreakerInv
<1> QED BY <1>1, BreakerInvariant, PTL

(* Every tick isolates the zones that the breaker holds through it. Here a *)
(* limit of at least two strikes is needed: a zone released by this tick's  *)
(* tick_recovery has one strike at most when the tick ends.                 *)
THEOREM HeldZonesIsolated == Spec => HeldIsIsolated
<1>1. ASSUME BreakerInv, Next, tick' # tick
      PROVE  \A z \in Zones : z \in tripped \cap tripped' => z \in isolated'
  <2>1. Tick
    BY <1>1 DEF Next, SetMode
  <2>2. PICK hot \in SUBSET Zones, critical \in {{}, Zones} :
          /\ RunBreaker(IF Active("SHADOW") THEN critical ELSE {})
          /\ FlagZones(hot)
    BY <2>1, Zenon DEF Tick
  <2> DEFINE struck == IF Active("SHADOW") THEN critical ELSE {}
  <2>3. Held \subseteq isolated'
    BY <2>2 DEF FlagZones
  <2>4. ASSUME NEW z \in Zones, z \in Expired, z \in tripped'
        PROVE  FALSE
    <3>1. StrikesLeft(z) = 0
      BY <2>4 DEF StrikesLeft
    <3>2. strikes'[z] <= 1
      BY <2>2, <3>1, TickAssumption DEF RunBreaker
    <3>3. strikes'[z] >= MaxAnomalies
      BY <2>2, <2>4 DEF RunBreaker
    <3> QED BY <3>1, <3>2, <3>3, TickAssumption, <1>1, <2>2 DEF RunBreaker
  <2> QED BY <2>3, <2>4 DEF Held
<1>2. BreakerInv /\ [Next]_vars =>
        [tick' # tick => \A z \in Zones : z \in tripped \cap tripped' => z \in isolated']_vars
  BY <1>1
<1> QED BY <1>2, BreakerInvariant, PTL DEF Spec, HeldIsIsolated

-----------------------------------------------------------------------------
(* A zone of the shield that nobody's tick_recovery drives: closed with     *)
(* strikes to go, or open for good.                                         *)
ZoneStates == [state : {"CLOSED", "OPEN"}, consecutive : 0 .. MaxAnomalies,
               gap : 0 .. 2, cooldown : {0, RecoveryTicks}, halfOpen : {0}]
ZoneSound(r) == r \in ZoneStates /\ (r.state = "CLOSED" => r.consecutive < MaxAnomalies)

TypeInv ==
  /\ BreakerInv
  /\ tick \in {0, 1} /\ isolated \subseteq Zones /\ calm \subseteq Zones
  /\ shield \in [Zones -> ZoneStates]
  /\ \A z \in Zones : ZoneSound(shield[z])
  /\ mode \in DOMAIN FusionDefs
  /\ scans \in 0 .. 2 /\ threat \in 0 .. 20

LEMMA AgedSound ==
  ASSUME NEW r, ZoneSound(r)
  PROVE  ZoneSound(Shield!Aged(r))
<1> DEFINE gap == IF r.gap < 2 THEN r.gap + 1 ELSE 2
<1>1. gap \in 0 .. 2
  BY DEF ZoneSound, ZoneStates
<1>2. Shield!Aged(r) = [r EXCEPT !.gap = gap]
  BY DEF Shield!Aged
<1> HIDE DEF gap
<1> QED BY <1>1, <1>2 DEF ZoneSound, ZoneStates

(* A reading opens a closed zone at the last strike, before its count can   *)
(* leave the range, and an open zone takes no reading.                      *)
LEMMA EvaluatedSound ==
  ASSUME NEW r, ZoneSound(r), NEW anomaly
  PROVE  ZoneSound(Shield!Evaluated(r, anomaly))
<1> DEFINE n == Shield!Counted(r, anomaly)
           trips == anomaly /\ n >= MaxAnomalies
<1>0. MaxAnomalies \in Nat \ {0, 1}
  BY TickAssumption
<1>1. CASE r.state = "OPEN"
  BY <1>1 DEF Shield!Evaluated
<1>2. CASE r.state = "CLOSED"
  <2>1. r.consecutive \in Nat /\ r.consecutive < MaxAnomalies /\ r \in ZoneStates
    BY <1>0, <1>2 DEF ZoneSound, ZoneStates
  <2>2. n \in 0 .. MaxAnomalies /\ (~ trips => n < MaxAnomalies)
    BY <1>0, <2>1 DEF Shield!Counted
  <2>3. Shield!Evaluated(r, anomaly)
          = [r EXCEPT !.consecutive = n,
                      !.gap = IF anomaly THEN 0 ELSE @,
                      !.state = IF trips THEN "OPEN" ELSE @,
                      !.cooldown = IF trips THEN RecoveryTicks ELSE @]
    BY <1>2 DEF Shield!Evaluated
  <2> HIDE DEF n
  <2>4. CASE trips
    <3> DEFINE opened == [state |-> "OPEN", consecutive |-> n, gap |-> 0,
                          cooldown |-> RecoveryTicks, halfOpen |-> 0]
    <3>1. Shield!Evaluated(r, anomaly) = opened
      BY <2>1, <2>3, <2>4 DEF ZoneStates
    <3>2. opened \in ZoneStates /\ opened.state = "OPEN"
      BY <2>2 DEF ZoneStates
    <3> HIDE DEF opened
    <3> QED BY <3>1, <3>2 DEF ZoneSound
  <2>5. CASE ~ trips
    <3> DEFINE gap == IF anomaly THEN 0 ELSE r.gap
               closed == [state |-> r.state, consecutive |-> n, gap |-> gap,
                          cooldown |-> r.cooldown, halfOpen |-> 0]
    <3>1. gap \in 0 .. 2
      BY <2>1 DEF ZoneStates
    <3>2. Shield!Evaluated(r, anomaly) = closed
      BY <2>1, <2>3, <2>5 DEF ZoneStates
    <3> HIDE DEF gap
    <3>3. closed \in ZoneStates /\ closed.consecutive = n
      BY <2>1, <2>2, <3>1 DEF ZoneStates
    <3>4. n < MaxAnomalies
      BY <2>2, <2>5
    <3> HIDE DEF closed
    <3> QED BY <3>2, <3>3, <3>4 DEF ZoneSound
  <2> QED BY <2>4, <2>5
<1> QED BY <1>1, <1>2 DEF ZoneSound, ZoneStates

LEMMA TypeInvStep == TypeInv /\ [Next]_vars => TypeInv'
<1> SUFFICES ASSUME TypeInv, [Next]_vars PROVE TypeInv'
  OBVIOUS
<1>1. CASE Tick
  <2>1. PICK hot \in SUBSET Zones, critical \in {{}, Zones} :
          LET struck == IF Active("SHADOW") THEN critical ELSE {} IN
          /\ RunBreaker(struck)
          /\ FlagZones(hot)
          /\ calm' = Zones \ (hot \cup struck)
    BY <1>1, Zenon DEF Tick
  <2> DEFINE struck == IF Active("SHADOW") THEN critical ELSE {}
  <2>2. BreakerInv'
    <3>1. struck \in SUBSET Zones
      OBVIOUS
    <3>2. RunBreaker(struck)
      BY <2>1, Zenon
    <3> HIDE DEF struck
    <3> QED BY <3>1, <3>2, BreakerStep DEF TypeInv
  <2>3. /\ isolated' \subseteq Zones
        /\ shield' \in [Zones -> ZoneStates]
        /\ \A z \in Zones : ZoneSound(shield'[z])
    <3> DEFINE next == [z \in Zones |->
                 IF z \in Held THEN Shield!Aged(shield[z])
                 ELSE Shield!Evaluated(Shield!Aged(shield[z]), z \in hot)]
    <3>1. shield' = next /\ isolated' \subseteq Zones
      BY <2>1 DEF FlagZones, Held, TypeInv, BreakerInv, BreakerTypes
    <3>2. ASSUME NEW z \in Zones PROVE ZoneSound(next[z])
      <4>1. ZoneSound(Shield!Aged(shield[z]))
        BY AgedSound DEF TypeInv
      <4>2. ZoneSound(Shield!Evaluated(Shield!Aged(shield[z]), z \in hot))
        BY <4>1, EvaluatedSound
      <4> QED BY <4>1, <4>2
    <3>3. next \in [Zones -> ZoneStates]
      <4>1. next = [z \in Zones |-> next[z]]
        OBVIOUS
      <4>2. \A z \in Zones : next[z] \in ZoneStates
        BY <3>2 DEF ZoneSound
      <4> HIDE DEF next
      <4> QED BY <4>1, <4>2
    <3> HIDE DEF next
    <3> QED BY <3>1, <3>2, <3>3
  <2>4. tick' \in {0, 1}
    BY <1>1 DEF Tick, TypeInv
  <2>5. calm' \subseteq Zones
    BY <2>1
  <2>6. mode' \in DOMAIN FusionDefs
    BY <1>1, TickAssumption DEF Tick, Respond, TypeInv
  <2>7. scans' \in 0 .. 2 /\ threat' \in 0 .. 20
    <3>1. CASE UNCHANGED <<scans, threat>>
      BY <3>1 DEF TypeInv
    <3>2. CASE Scan
      <4>1. PICK findings \in Nat : threat' = Raised(threat, findings)
        BY <3>2, TickAssumption DEF Scan
      <4>2. threat' \in 0 .. 20
        BY <4>1 DEF Raised, TypeInv
      <4>3. scans' \in 0 .. 2
        BY <3>2 DEF Scan, TypeInv
      <4> QED BY <4>2, <4>3
    <3> QED BY <1>1, <3>1, <3>2 DEF Tick
  <2> QED BY <2>2, <2>3, <2>4, <2>5, <2>6, <2>7 DEF TypeInv
<1>2. CASE SetMode
  BY <1>2 DEF SetMode, breaker, TypeInv, BreakerInv, BreakerTypes, BreakerConsistent
<1>3. CASE UNCHANGED vars
  BY <1>3 DEF vars, breaker, TypeInv, BreakerInv, BreakerTypes, BreakerConsistent
<1> QED BY <1>1, <1>2, <1>3 DEF Next

(* Every field holds a value the code can give it; above all, a zone whose  *)
(* shield has opened never leaves OPEN in a tick cycle, and the threat      *)
(* level stays within 0 and 1 (tick_cycle, evaluate_zone,                   *)
(* _update_threat_level).                                                   *)
THEOREM TypeCorrect == Spec => []TypeOK
<1>1. Init => TypeInv
  <2>1. Shield!NewZone \in ZoneStates /\ ZoneSound(Shield!NewZone)
    BY TickAssumption DEF Shield!NewZone, ZoneStates, ZoneSound
  <2> QED BY <2>1, TickAssumption DEF Init, TypeInv, BreakerInv, BreakerTypes, BreakerConsistent
<1>2. TypeInv => TypeOK
  BY DEF TypeInv, TypeOK, BreakerInv, BreakerTypes, ZoneStates
<1> QED BY <1>1, <1>2, TypeInvStep, PTL DEF Spec
=============================================================================
