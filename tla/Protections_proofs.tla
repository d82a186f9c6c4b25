--------------------------- MODULE Protections_proofs ---------------------------
(***************************************************************************)
(* Proofs about Protections, for any zones, limits, sizes, readings, rack  *)
(* counts, zone lists and playbooks: a zone of the shield opens only on a  *)
(* full streak, every part keeps its types, and what the plant reports     *)
(* about itself is what happened.                                          *)
(***************************************************************************)
EXTENDS Protections, FiniteSetTheorems, WellFoundedInduction, TLAPS

-----------------------------------------------------------------------------
(* The cascade shield. All that a tick does to a zone depends on that      *)
(* zone's record and streak, so the lemmas are about one zone.             *)

ZoneType == [state : {"CLOSED", "OPEN", "HALF_OPEN"}, consecutive : Nat, gap : 0 .. 2,
             cooldown : 0 .. RecoveryTicks, halfOpen : 0 .. HalfOpenTicks]

CountdownsRun(r) == /\ r.state = "OPEN" <=> r.cooldown > 0
                    /\ r.state = "HALF_OPEN" => r.halfOpen > 0

(* A zone that is not open and has just been struck has not more strikes    *)
(* than its streak of anomalous ticks is long.                              *)
Covered(r, n) ==
  r.state # "OPEN" /\ r.gap = 0 => n = MaxAnomalies \/ r.consecutive <= n

Sound(r, n) == r \in ZoneType /\ CountdownsRun(r) /\ n \in 0 .. MaxAnomalies /\ Covered(r, n)

\* What a tick makes of a zone that is read, or not, with a hot reading or not.
After(r, seen, hot) ==
  Recovered(IF seen THEN Evaluated(Aged(r), hot) ELSE Aged(r))

StreakAfter(r, n, hot) ==
  IF ~ hot \/ r.state = "OPEN" THEN 0
  ELSE IF n < MaxAnomalies THEN n + 1 ELSE n

Opens(r, q) == r # q /\ q.state # r.state
               /\ (q.state = "OPEN" \/ q.cooldown > r.cooldown)

LEMMA AgedSound ==
  ASSUME NEW r \in ZoneType, CountdownsRun(r)
  PROVE  LET a == Aged(r) IN
         /\ a \in ZoneType /\ CountdownsRun(a)
         /\ a.state = r.state /\ a.consecutive = r.consecutive
         /\ a.cooldown = r.cooldown /\ a.gap > 0
         /\ a.gap = 1 => r.gap = 0
  BY DEF Aged, ZoneType, CountdownsRun

LEMMA RecoveredSound ==
  ASSUME NEW r \in ZoneType, CountdownsRun(r)
  PROVE  LET q == Recovered(r) IN
         /\ q \in ZoneType /\ CountdownsRun(q)
         /\ q.gap = r.gap
         /\ q.consecutive \in {0, r.consecutive}
         /\ r.state # "OPEN" => q.state # "OPEN" /\ q.cooldown = 0
         /\ q.cooldown <= r.cooldown
<1>1. CASE r.state = "OPEN" /\ r.cooldown > 1
  <2>1. Recovered(r) = [r EXCEPT !.cooldown = @ - 1]
    BY <1>1, ShieldAssumption DEF Recovered, ZoneType
  <2> QED BY <1>1, <2>1, ShieldAssumption DEF ZoneType, CountdownsRun
<1>2. CASE r.state = "OPEN" /\ ~ r.cooldown > 1
  <2>0. Recovered(r) = [r EXCEPT !.cooldown = 0, !.state = "HALF_OPEN",
                                 !.halfOpen = HalfOpenTicks]
    BY <1>2, ShieldAssumption DEF Recovered, ZoneType
  <2>1. Recovered(r) =
          [state |-> "HALF_OPEN", consecutive |-> r.consecutive, gap |-> r.gap,
           cooldown |-> 0, halfOpen |-> HalfOpenTicks]
    BY <2>0 DEF ZoneType
  <2>2. /\ Recovered(r) \in ZoneType
        /\ Recovered(r).state = "HALF_OPEN" /\ Recovered(r).cooldown = 0
        /\ Recovered(r).halfOpen = HalfOpenTicks /\ Recovered(r).gap = r.gap
        /\ Recovered(r).consecutive = r.consecutive
    BY <2>1, ShieldAssumption DEF ZoneType
  <2> QED BY <1>2, <2>2, ShieldAssumption DEF ZoneType, CountdownsRun
<1>3. CASE r.state = "HALF_OPEN" /\ r.halfOpen > 1
  <2>1. Recovered(r) = [r EXCEPT !.halfOpen = @ - 1]
    BY <1>3, ShieldAssumption DEF Recovered, ZoneType
  <2> QED BY <1>3, <2>1, ShieldAssumption DEF ZoneType, CountdownsRun
<1>4. CASE r.state = "HALF_OPEN" /\ ~ r.halfOpen > 1
  <2>0. Recovered(r) = [r EXCEPT !.halfOpen = 0, !.state = "CLOSED", !.consecutive = 0]
    BY <1>4, ShieldAssumption DEF Recovered, ZoneType
  <2>1. Recovered(r) =
          [state |-> "CLOSED", consecutive |-> 0, gap |-> r.gap,
           cooldown |-> r.cooldown, halfOpen |-> 0]
    BY <2>0 DEF ZoneType
  <2>2. /\ Recovered(r) \in ZoneType
        /\ Recovered(r).state = "CLOSED" /\ Recovered(r).cooldown = r.cooldown
        /\ Recovered(r).gap = r.gap /\ Recovered(r).consecutive = 0
    BY <2>1, ShieldAssumption DEF ZoneType
  <2> QED BY <1>4, <2>2, ShieldAssumption DEF ZoneType, CountdownsRun
<1>5. CASE r.state = "CLOSED"
  <2>1. Recovered(r) = r
    BY <1>5, ShieldAssumption DEF Recovered, ZoneType
  <2> QED BY <1>5, <2>1, ShieldAssumption DEF ZoneType, CountdownsRun
<1> QED BY <1>1, <1>2, <1>3, <1>4, <1>5 DEF ZoneType

LEMMA EvaluatedSound ==
  ASSUME NEW r \in ZoneType, CountdownsRun(r), NEW hot \in BOOLEAN
  PROVE  LET q == Evaluated(r, hot) IN
         /\ q \in ZoneType /\ CountdownsRun(q)
         /\ r.state = "OPEN" => q = r
         /\ r.state # "OPEN" /\ ~ hot => q.state = r.state /\ q.gap = r.gap /\ q.cooldown = r.cooldown
         /\ r.state # "OPEN" /\ hot =>
              /\ q.gap = 0
              /\ q.consecutive = (IF r.gap > 1 THEN 0 ELSE r.consecutive) + 1
              /\ (q.state = "OPEN") <=> (q.consecutive >= MaxAnomalies)
<1>1. Counted(r, hot) \in Nat
  BY DEF Counted, ZoneType
<1>2. CASE r.state = "OPEN"
  BY <1>2 DEF Evaluated
<1>3. CASE r.state # "OPEN" /\ hot
  <2> DEFINE k == Counted(r, hot)
             trips == k >= MaxAnomalies
  <2>1. Evaluated(r, hot) =
          [state |-> IF trips THEN "OPEN" ELSE r.state, consecutive |-> k, gap |-> 0,
           cooldown |-> IF trips THEN RecoveryTicks ELSE r.cooldown,
           halfOpen |-> r.halfOpen]
    BY <1>3 DEF Evaluated, ZoneType
  <2>2. k = (IF r.gap > 1 THEN 0 ELSE r.consecutive) + 1
    BY <1>3 DEF Counted
  <2>3. k \in Nat
    BY <1>1
  <2> HIDE DEF k
  <2> DEFINE q == Evaluated(r, hot)
  <2>4. /\ q \in ZoneType /\ q.consecutive = k /\ q.gap = 0
        /\ q.state = IF trips THEN "OPEN" ELSE r.state
        /\ q.cooldown = IF trips THEN RecoveryTicks ELSE r.cooldown
        /\ q.halfOpen = r.halfOpen
    BY <2>1, <2>3, ShieldAssumption DEF ZoneType
  <2>5. CountdownsRun(q)
    <3> HIDE DEF q
    <3>1. CASE trips
      BY <3>1, <2>4, ShieldAssumption DEF CountdownsRun
    <3>2. CASE ~ trips
      BY <1>3, <3>2, <2>4 DEF CountdownsRun
    <3> QED BY <3>1, <3>2
  <2> HIDE DEF q
  <2>6. (q.state = "OPEN") <=> (q.consecutive >= MaxAnomalies)
    BY <1>3, <2>4
  <2> QED BY <1>3, <2>2, <2>4, <2>5, <2>6 DEF q
<1>4. CASE r.state # "OPEN" /\ ~ hot
  BY <1>1, <1>4 DEF Evaluated, ZoneType, CountdownsRun
<1> QED BY <1>2, <1>3, <1>4

(* One tick keeps a zone sound, and opens it only at the end of a full      *)
(* streak.                                                                  *)
LEMMA ZoneStep ==
  ASSUME NEW r, NEW n, Sound(r, n), NEW seen \in BOOLEAN, NEW hot \in BOOLEAN, hot => seen
  PROVE  /\ Sound(After(r, seen, hot), StreakAfter(r, n, hot))
         /\ Opens(r, After(r, seen, hot)) => StreakAfter(r, n, hot) = MaxAnomalies
<1> DEFINE a == Aged(r)
           e == IF seen THEN Evaluated(a, hot) ELSE a
           q == Recovered(e)
           m == StreakAfter(r, n, hot)
<1>1. r \in ZoneType /\ CountdownsRun(r) /\ n \in 0 .. MaxAnomalies /\ Covered(r, n)
  BY DEF Sound
<1>2. /\ a \in ZoneType /\ CountdownsRun(a) /\ a.state = r.state
      /\ a.consecutive = r.consecutive /\ a.cooldown = r.cooldown /\ a.gap > 0
      /\ a.gap = 1 => r.gap = 0
  BY <1>1, AgedSound
<1>3. e \in ZoneType /\ CountdownsRun(e)
  BY <1>2, EvaluatedSound
<1>4. /\ q \in ZoneType /\ CountdownsRun(q) /\ q.gap = e.gap
      /\ q.consecutive \in {0, e.consecutive}
      /\ e.state # "OPEN" => q.state # "OPEN" /\ q.cooldown = 0
      /\ q.cooldown <= e.cooldown
  BY <1>3, RecoveredSound
<1>5. m \in 0 .. MaxAnomalies
  BY <1>1, ShieldAssumption DEF StreakAfter
<1>6. After(r, seen, hot) = q
  BY DEF After
<1> HIDE DEF a, e, q, m
<1>7. CASE r.state = "OPEN"
  <2>1. e = a
    BY <1>7, <1>2, EvaluatedSound DEF e
  <2>2. q.gap # 0
    BY <2>1, <1>2, <1>4
  <2>3. ~ Opens(r, q)
    BY <2>1, <1>1, <1>2, <1>4, <1>7 DEF Opens, ZoneType
  <2> QED BY <2>2, <2>3, <1>4, <1>5, <1>6 DEF Sound, Covered, m
<1>8. CASE r.state # "OPEN" /\ ~ hot
  <2>1. e.state = a.state /\ e.gap = a.gap /\ e.cooldown = a.cooldown
    BY <1>8, <1>2, EvaluatedSound DEF e
  <2>2. q.gap # 0
    BY <2>1, <1>2, <1>4 DEF ZoneType
  <2>3. ~ Opens(r, q)
    BY <2>1, <1>1, <1>2, <1>4, <1>8 DEF Opens, ZoneType
  <2> QED BY <2>2, <2>3, <1>4, <1>5, <1>6 DEF Sound, Covered, m
<1>9. CASE r.state # "OPEN" /\ hot
  <2>1. e = Evaluated(a, TRUE)
    BY <1>9 DEF e
  <2>2. /\ e.consecutive = (IF a.gap > 1 THEN 0 ELSE r.consecutive) + 1
        /\ (e.state = "OPEN") <=> (e.consecutive >= MaxAnomalies)
    BY <2>1, <1>2, <1>9, EvaluatedSound
  <2>3. m = IF n < MaxAnomalies THEN n + 1 ELSE n
    BY <1>9 DEF m, StreakAfter
  <2>4. m = MaxAnomalies \/ e.consecutive <= m
    <3>1. CASE a.gap > 1
      BY <3>1, <2>2, <2>3, <1>1, ShieldAssumption
    <3>2. CASE a.gap = 1
      BY <3>2, <2>2, <2>3, <1>1, <1>2, <1>9, ShieldAssumption DEF Covered, ZoneType
    <3> QED BY <3>1, <3>2, <1>2 DEF ZoneType
  <2>5. e.state = "OPEN" => m = MaxAnomalies
    BY <2>2, <2>4, <1>3, <1>5, ShieldAssumption DEF ZoneType
  <2>6. m = MaxAnomalies \/ q.consecutive <= m
    BY <2>4, <1>3, <1>4, <1>5, ShieldAssumption DEF ZoneType
  <2>7. Opens(r, q) => e.state = "OPEN"
    BY <1>1, <1>4, <1>9 DEF Opens, ZoneType, CountdownsRun
  <2> QED BY <2>5, <2>6, <2>7, <1>4, <1>5, <1>6 DEF Sound, Covered, m
<1> QED BY <1>7, <1>8, <1>9

Inv == /\ shield \in [Zones -> ZoneType] /\ streak \in [Zones -> 0 .. MaxAnomalies]
       /\ \A z \in Zones : Sound(shield[z], streak[z])

LEMMA InvInit == Init => Inv
<1> SUFFICES ASSUME Init PROVE Inv OBVIOUS
<1>1. Sound(NewZone, 0)
  BY ShieldAssumption DEF NewZone, Sound, ZoneType, CountdownsRun, Covered
<1> QED BY <1>1 DEF Init, Inv, Sound

LEMMA InvStep ==
  ASSUME Inv, [Next]_vars
  PROVE  /\ Inv'
         /\ \A z \in Zones : Opens(shield[z], shield'[z]) => streak'[z] = MaxAnomalies
<1>1. CASE UNCHANGED vars
  BY <1>1 DEF vars, Inv, Opens
<1>2. CASE Tick
  <2>1. PICK seen \in SUBSET Zones : \E hot \in SUBSET seen :
          /\ shield' = [z \in Zones |-> After(shield[z], z \in seen, z \in hot)]
          /\ streak' = [z \in Zones |-> StreakAfter(shield[z], streak[z], z \in hot)]
    BY <1>2 DEF Tick, After, StreakAfter
  <2>2. PICK hot \in SUBSET seen :
          /\ shield' = [z \in Zones |-> After(shield[z], z \in seen, z \in hot)]
          /\ streak' = [z \in Zones |-> StreakAfter(shield[z], streak[z], z \in hot)]
    BY <2>1
  <2>3. ASSUME NEW z \in Zones
        PROVE  /\ Sound(shield'[z], streak'[z])
               /\ Opens(shield[z], shield'[z]) => streak'[z] = MaxAnomalies
    <3>1. /\ Sound(shield[z], streak[z])
          /\ (z \in seen) \in BOOLEAN /\ (z \in hot) \in BOOLEAN
          /\ z \in hot => z \in seen
      BY DEF Inv
    <3>2. /\ shield'[z] = After(shield[z], z \in seen, z \in hot)
          /\ streak'[z] = StreakAfter(shield[z], streak[z], z \in hot)
      BY <2>2
    <3> QED BY <3>1, <3>2, ZoneStep
  <2> QED BY <2>2, <2>3 DEF Inv, Sound
<1> QED BY <1>1, <1>2 DEF Next

(* Every field keeps its type, and each countdown runs exactly in the state *)
(* that reads it (evaluate_zone, tick_recovery).                            *)
THEOREM TypeCorrect == Spec => []TypeOK
<1>1. Inv => TypeOK
  BY DEF Inv, TypeOK, Sound, ZoneType, CountdownsRun
<1> QED BY <1>1, InvInit, InvStep, PTL DEF Spec

(* A zone opens only on MaxAnomalies anomalous readings at consecutive      *)
(* ticks, whatever is skipped, quiet or recovered in between.               *)
THEOREM OpensOnlyOnStreak == Spec => OpensOnStreak
<1>1. ASSUME Inv, [Next]_vars
      PROVE  [\A z \in Zones :
               (shield'[z].state # shield[z].state
                  /\ (shield'[z].state = "OPEN" \/ shield'[z].cooldown > shield[z].cooldown))
                 => streak'[z] = MaxAnomalies]_vars
  BY <1>1, InvStep DEF Opens
<1> QED BY <1>1, InvInit, InvStep, PTL DEF Spec, OpensOnStreak

-----------------------------------------------------------------------------
(* The coolant.                                                            *)
BatchType == [state : Fluid!LifecycleState, age : 0 .. MaxAge,
              score : 0 .. 100, flagged : BOOLEAN]

LEMMA CoolantNumbers ==
  /\ HalfLife \in Nat /\ MaxAge \in Nat /\ HalfLife <= MaxAge
  /\ Sizes \subseteq Nat /\ Fractions \subseteq Nat
BY ProtectionsAssumption

(* The score is the share that age leaves of at most ninety points.         *)
LEMMA ScoreInRange ==
  ASSUME NEW r \in BatchType, size \in Nat, fraction \in Nat
  PROVE  Fluid!Score(r) \in 0 .. 100
<1> DEFINE points == Fluid!Zeta(r.score) + Fluid!Settling + Fluid!Agglomeration
           left == 100 - (IF r.age < 20 THEN r.age ELSE 20)
<1>1. r.age \in 0 .. MaxAge /\ r.age \in Nat
  BY CoolantNumbers DEF BatchType
<1>2. left \in 0 .. 100
  BY <1>1
<1>3. Fluid!Zeta(r.score) \in 0 .. 40
  BY DEF Fluid!Zeta
<1>4. Fluid!Settling \in 0 .. 30
  BY DEF Fluid!Settling
<1>5. Fluid!Agglomeration \in 0 .. 20
  BY DEF Fluid!Agglomeration
<1>6. points \in 0 .. 90
  BY <1>3, <1>4, <1>5
<1>7. Fluid!Score(r) = Fluid!Rounded(points * left)
  BY DEF Fluid!Score
<1> HIDE DEF points, left
<1>8. \A x, y \in Nat : x <= 90 /\ y <= 100 => x * y <= 9000 /\ x * y \in Nat
  OBVIOUS
<1>9. points \in Nat /\ points <= 90 /\ left \in Nat /\ left <= 100
  BY <1>2, <1>6
<1>10. points * left \in Nat /\ points * left <= 9000
  BY <1>8, <1>9
<1>11. ASSUME NEW n \in Nat, n <= 9000 PROVE Fluid!Rounded(n) \in 0 .. 100
  <2>1. n \div 100 \in 0 .. 90
    BY <1>11
  <2>2. Fluid!Rounded(n) \in {n \div 100, n \div 100 + 1}
    BY DEF Fluid!Rounded
  <2> QED BY <2>1, <2>2
<1> QED BY <1>7, <1>10, <1>11

LEMMA BatchAges ==
  ASSUME NEW r \in BatchType, NEW age \in 0 .. MaxAge
  PROVE  Fluid!Aged(r, age) \in BatchType
<1> DEFINE st == IF r.state \in {"ACTIVE", "DEGRADATION_WARNING"} /\ age >= HalfLife
                 THEN "REPLACEMENT_DUE"
                 ELSE IF r.state = "ACTIVE" /\ Fluid!Worn(age) THEN "DEGRADATION_WARNING"
                 ELSE r.state
<1>1. Fluid!Aged(r, age) = [r EXCEPT !.age = age, !.state = st]
  BY DEF Fluid!Aged, BatchType
<1>2. st \in Fluid!LifecycleState
  BY DEF BatchType, Fluid!LifecycleState
<1> HIDE DEF st
<1> QED BY <1>1, <1>2 DEF BatchType

LEMMA BatchScheduled ==
  ASSUME NEW r \in BatchType PROVE Fluid!Scheduled(r) \in BatchType
BY DEF Fluid!Scheduled, BatchType, Fluid!LifecycleState

LEMMA BatchTicks ==
  ASSUME NEW r \in BatchType, NEW age \in 0 .. MaxAge, size \in Nat, fraction \in Nat
  PROVE  Fluid!Ticked(r, age) \in BatchType
<1> DEFINE a == Fluid!Aged(r, age)
           s == Fluid!Assessed(a)
<1>1. a \in BatchType
  BY BatchAges
<1>2. Fluid!Score(a) \in 0 .. 100
  BY <1>1, ScoreInRange
<1>3. s \in BatchType
  <2> HIDE DEF a
  <2>1. s = [a EXCEPT !.score = Fluid!Score(a), !.flagged = a.flagged \/ Fluid!Score(a) < 60]
    BY <1>1 DEF Fluid!Assessed, BatchType
  <2> QED BY <2>1, <1>1, <1>2 DEF BatchType
<1>4. Fluid!Scheduled(s) \in BatchType
  BY <1>3, BatchScheduled
<1> QED BY <1>3, <1>4 DEF Fluid!Ticked

CoolantInv == /\ size \in Nat /\ fraction \in Nat
              /\ clock \in 0 .. MaxAge /\ retired \in Nat
              /\ batch \in [Circuits -> BatchType]

LEMMA CoolantInit == Fluid!Init => CoolantInv
<1> SUFFICES ASSUME Fluid!Init PROVE CoolantInv
  OBVIOUS
<1>1. 0 \in 0 .. MaxAge
  BY CoolantNumbers
<1>2. [state |-> "ACTIVE", age |-> 0, score |-> 100, flagged |-> FALSE] \in BatchType
  BY <1>1 DEF BatchType, Fluid!LifecycleState
<1> QED BY <1>1, <1>2, CoolantNumbers DEF Fluid!Init, CoolantInv

LEMMA CoolantStep == CoolantInv /\ [Fluid!Next]_Fluid!vars => CoolantInv'
<1> SUFFICES ASSUME CoolantInv, [Fluid!Next]_Fluid!vars PROVE CoolantInv'
  OBVIOUS
<1>1. ASSUME NEW age \in 0 .. MaxAge, Fluid!TickAt(age) PROVE CoolantInv'
  <2>1. \A c \in Circuits : Fluid!Ticked(batch[c], age) \in BatchType
    BY BatchTicks DEF CoolantInv
  <2> QED BY <1>1, <2>1 DEF CoolantInv, Fluid!TickAt
<1>2. CASE Fluid!Tick
  BY <1>1, <1>2 DEF Fluid!Tick, CoolantInv
<1>3. CASE Fluid!Older
  <2>1. clock + 1 \in 0 .. MaxAge
    BY <1>3, CoolantNumbers DEF Fluid!Older, CoolantInv
  <2> QED BY <1>1, <1>3, <2>1 DEF Fluid!Older
<1>4. CASE Fluid!Evaluate
  <2>1. PICK c \in Circuits, age \in {0, HalfLife} :
          /\ batch' = [batch EXCEPT ![c] = Fluid!Aged(batch[c], age)]
          /\ UNCHANGED <<size, fraction, clock, retired>>
    BY <1>4 DEF Fluid!Evaluate
  <2>2. age \in 0 .. MaxAge
    BY CoolantNumbers
  <2>3. Fluid!Aged(batch[c], age) \in BatchType
    BY <2>2, BatchAges DEF CoolantInv
  <2> QED BY <2>1, <2>3 DEF CoolantInv
<1>5. CASE Fluid!ScheduleReplacement
  <2>1. PICK c \in Circuits :
          /\ batch' = [batch EXCEPT ![c] = Fluid!Scheduled(batch[c])]
          /\ UNCHANGED <<size, fraction, clock, retired>>
    BY <1>5 DEF Fluid!ScheduleReplacement
  <2>2. Fluid!Scheduled(batch[c]) \in BatchType
    BY BatchScheduled DEF CoolantInv
  <2> QED BY <2>1, <2>2 DEF CoolantInv
<1>6. CASE Fluid!RetireBatch
  <2>1. PICK c \in Circuits :
          /\ batch' = [batch EXCEPT ![c].state = "RETIRED"]
          /\ retired' = retired + 1
          /\ UNCHANGED <<size, fraction, clock>>
    BY <1>6 DEF Fluid!RetireBatch
  <2>2. [batch[c] EXCEPT !.state = "RETIRED"] \in BatchType
    BY DEF CoolantInv, BatchType, Fluid!LifecycleState
  <2> QED BY <2>1, <2>2 DEF CoolantInv
<1>7. CASE UNCHANGED Fluid!vars
  BY <1>7 DEF CoolantInv, Fluid!vars
<1> QED BY <1>2, <1>3, <1>4, <1>5, <1>6, <1>7 DEF Fluid!Next

LEMMA CoolantSafe == CoolantInv => Fluid!TypeOK
BY DEF CoolantInv, Fluid!TypeOK, BatchType

-----------------------------------------------------------------------------
(* The PUE optimizer.                                                      *)
PueInv == Pue!TypeOK

LEMMA PueNumbers == HistoryMax \in Nat \ {0} /\ Cooldown \in Nat
BY ProtectionsAssumption

(* What overflows is cut to no more than half and one.                      *)
LEMMA SampleFits ==
  ASSUME NEW p \in Ratios, history \in Seq(Ratios), Len(history) <= HistoryMax
  PROVE  Pue!Sampled(p) \in Seq(Ratios) /\ Len(Pue!Sampled(p)) <= HistoryMax
<1> DEFINE grown == Append(history, p)
           first == Len(grown) + ((-HistoryMax) \div 2) + 1
<1>1. grown \in Seq(Ratios) /\ Len(grown) = Len(history) + 1 /\ Len(history) \in Nat
  OBVIOUS
<1>2. CASE Len(grown) > HistoryMax
  <2>1. Pue!Sampled(p) = SubSeq(grown, first, Len(grown))
    BY <1>2 DEF Pue!Sampled
  <2>2. Len(grown) = HistoryMax + 1
    BY <1>1, <1>2, PueNumbers
  <2>3. first \in 2 .. HistoryMax + 1
    BY <2>2, PueNumbers
  <2> HIDE DEF grown, first
  <2> QED BY <1>1, <2>1, <2>2, <2>3, PueNumbers
<1>3. CASE ~ Len(grown) > HistoryMax
  BY <1>1, <1>3, PueNumbers DEF Pue!Sampled
<1> QED BY <1>2, <1>3

LEMMA PueInit == Pue!Init => PueInv
<1> SUFFICES ASSUME Pue!Init PROVE PueInv
  OBVIOUS
<1>1. 0 \in 0 .. Cooldown /\ 0 <= HistoryMax
  BY PueNumbers
<1>2. history \in Seq(Ratios) /\ Len(history) = 0
  BY DEF Pue!Init
<1>3. cooldown = 0 /\ adjusted = FALSE
  BY DEF Pue!Init
<1> QED BY <1>1, <1>2, <1>3 DEF PueInv, Pue!TypeOK

LEMMA PueStep == PueInv /\ [Pue!Next]_Pue!vars => PueInv'
<1> SUFFICES ASSUME PueInv, [Pue!Next]_Pue!vars PROVE PueInv'
  OBVIOUS
<1>1. history \in Seq(Ratios) /\ Len(history) <= HistoryMax
      /\ cooldown \in 0 .. Cooldown /\ adjusted \in BOOLEAN
  BY DEF PueInv, Pue!TypeOK
<1>2. \A samples : Pue!IsCritical(samples) \in BOOLEAN
  BY DEF Pue!IsCritical
<1>3. ASSUME NEW samples, Pue!Recommend(samples)
      PROVE  cooldown' \in 0 .. Cooldown /\ adjusted' \in BOOLEAN
  BY <1>1, <1>2, <1>3, PueNumbers DEF Pue!Recommend
<1>4. CASE Pue!Sample
  <2>1. PICK p \in Ratios : history' = Pue!Sampled(p)
    BY <1>4 DEF Pue!Sample
  <2>2. cooldown' = cooldown /\ adjusted' \in BOOLEAN
    BY <1>1, <1>2, <1>4 DEF Pue!Sample
  <2> QED BY <1>1, <2>1, <2>2, SampleFits DEF PueInv, Pue!TypeOK
<1>5. CASE Pue!GetPue
  <2>1. history' = history \/ \E p \in Ratios : history' = Pue!Sampled(p)
    BY <1>5 DEF Pue!GetPue
  <2>2. history' \in Seq(Ratios) /\ Len(history') <= HistoryMax
    BY <1>1, <2>1, SampleFits
  <2> QED BY <1>3, <1>5, <2>2 DEF Pue!GetPue, PueInv, Pue!TypeOK
<1>6. CASE Pue!Tick
  BY <1>1, <1>3, <1>6 DEF Pue!Tick, PueInv, Pue!TypeOK
<1>7. CASE Pue!TimePasses
  BY <1>1, <1>7, PueNumbers DEF Pue!TimePasses, PueInv, Pue!TypeOK
<1>8. CASE UNCHANGED Pue!vars
  BY <1>8 DEF Pue!vars, PueInv, Pue!TypeOK
<1> QED BY <1>4, <1>5, <1>6, <1>7, <1>8 DEF Pue!Next

-----------------------------------------------------------------------------
(* The immune system.                                                      *)
LEMMA ImmuneNumbers == ThreatLimit \in Nat /\ MaxKeys \in Nat /\ KeptKeys \in 1 .. MaxKeys
BY ProtectionsAssumption

LEMMA ImmuneInit == Immune!Init => Immune!TypeOK
<1>1. 1 \in 1 .. MaxKeys
  BY ImmuneNumbers
<1> QED BY <1>1 DEF Immune!Init, Immune!TypeOK

LEMMA ImmuneStep == Immune!TypeOK /\ [Immune!Next]_Immune!vars => Immune!TypeOK'
<1> SUFFICES ASSUME Immune!TypeOK, [Immune!Next]_Immune!vars PROVE Immune!TypeOK'
  OBVIOUS
<1>1. CASE Immune!Next
  <2>1. PICK n \in Immune!Found :
          /\ scans' = IF scans < 3 THEN scans + 1 ELSE scans
          /\ level' = Immune!Raised(n)
          /\ \/ Immune!CounterStrike
             \/ struck' = FALSE /\ UNCHANGED <<keys, sealed>>
          /\ UNCHANGED target
    BY <1>1 DEF Immune!Next, Immune!Tick
  <2>2. n \in 0 .. 5
    BY DEF Immune!Found
  <2>3. scans' \in 0 .. 3
    BY <2>1 DEF Immune!TypeOK
  <2>4. level' \in 0 .. 20
    BY <2>1, <2>2 DEF Immune!TypeOK, Immune!Raised
  <2>5. CASE Immune!CounterStrike
    <3>1. keys' \in 1 .. MaxKeys
      BY <2>5, ImmuneNumbers DEF Immune!CounterStrike, Immune!RotateKeys, Immune!TypeOK
    <3>2. sealed' = target'
      BY <2>1, <2>5 DEF Immune!CounterStrike, Immune!TypeOK
    <3> QED BY <2>3, <2>4, <3>1, <3>2 DEF Immune!TypeOK
  <2>6. CASE struck' = FALSE /\ UNCHANGED <<keys, sealed>>
    BY <2>1, <2>3, <2>4, <2>6 DEF Immune!TypeOK
  <2> QED BY <2>1, <2>5, <2>6
<1>2. CASE UNCHANGED Immune!vars
  BY <1>2 DEF Immune!vars, Immune!TypeOK
<1> QED BY <1>1, <1>2

-----------------------------------------------------------------------------
(* Drift detection.                                                        *)
DriftInv ==
  /\ averages \in [Sensors -> Seq(Levels)]
  /\ \A s \in Sensors : Len(averages[s]) <= WindowSize
  /\ drifted \in [Sensors -> BOOLEAN]
  /\ severity \in {"normal", "alert", "critical"}

LEMMA DriftNumbers == WindowSize \in Nat \ {0}
BY ProtectionsAssumption

LEMMA DriftInit == Ghost!Init => DriftInv
BY DriftNumbers DEF Ghost!Init, DriftInv

LEMMA WindowSlides ==
  ASSUME NEW w \in Seq(Levels), Len(w) <= WindowSize, NEW l \in Levels
  PROVE  Ghost!Slid(w, l) \in Seq(Levels) /\ Len(Ghost!Slid(w, l)) <= WindowSize
<1>1. CASE Len(w) = WindowSize
  <2>1. Tail(w) \in Seq(Levels) /\ Len(Tail(w)) = Len(w) - 1
    BY <1>1, DriftNumbers
  <2> QED BY <1>1, <2>1, DriftNumbers DEF Ghost!Slid
<1>2. CASE Len(w) # WindowSize
  BY <1>2, DriftNumbers DEF Ghost!Slid
<1> QED BY <1>1, <1>2

LEMMA DriftStep == DriftInv /\ [Ghost!Next]_Ghost!vars => DriftInv'
<1> SUFFICES ASSUME DriftInv, [Ghost!Next]_Ghost!vars PROVE DriftInv'
  OBVIOUS
<1>1. ASSUME NEW s \in Sensors, Ghost!Ingest(s) PROVE DriftInv'
  <2>1. PICK l \in Levels : averages' = [averages EXCEPT ![s] = Ghost!Slid(averages[s], l)]
    BY <1>1 DEF Ghost!Ingest
  <2>2. Ghost!Slid(averages[s], l) \in Seq(Levels)
        /\ Len(Ghost!Slid(averages[s], l)) <= WindowSize
    BY WindowSlides DEF DriftInv
  <2>3. /\ averages' \in [Sensors -> Seq(Levels)]
        /\ \A t \in Sensors : Len(averages'[t]) <= WindowSize
    BY <2>1, <2>2 DEF DriftInv
  <2>4. \A w, b : b \in BOOLEAN => Ghost!Detected(w, b) \in BOOLEAN
    BY DEF Ghost!Detected, Ghost!Above
  <2>5. drifted' \in [Sensors -> BOOLEAN]
    BY <1>1, <2>4 DEF Ghost!Ingest, DriftInv
  <2>6. severity' \in {"normal", "alert", "critical"}
    BY <1>1 DEF Ghost!Ingest
  <2> QED BY <2>3, <2>5, <2>6 DEF DriftInv
<1>2. CASE UNCHANGED Ghost!vars
  BY <1>2 DEF Ghost!vars, DriftInv
<1> QED BY <1>1, <1>2 DEF Ghost!Next

LEMMA DriftSafe == DriftInv => Ghost!TypeOK
<1> SUFFICES ASSUME DriftInv PROVE Ghost!TypeOK
  OBVIOUS
<1>1. ASSUME NEW s \in Sensors PROVE averages[s] \in Ghost!BoundedSeq(Levels, WindowSize)
  <2>1. PICK m \in Nat : m = Len(averages[s]) /\ m <= WindowSize
    BY DEF DriftInv
  <2>2. m \in 0 .. WindowSize /\ averages[s] \in [1 .. m -> Levels]
    BY <2>1, DriftNumbers DEF DriftInv
  <2> QED BY <2>2 DEF Ghost!BoundedSeq, Ghost!SeqOf
<1> QED BY <1>1 DEF DriftInv, Ghost!TypeOK

-----------------------------------------------------------------------------
(* The water loop.                                                         *)
LEMMA WaterNumbers == MaxChecks \in Nat
BY ProtectionsAssumption

LEMMA PlantCardinality == \A S : Plant!Cardinality(S) = Cardinality(S)
BY Zenon DEF Plant!Cardinality, Cardinality

(* Water that a tick made: neutral, flowing, and alerted when it is turbid. *)
Treated(w) == /\ w.ph = 72 /\ w.flow \in Nat /\ w.flow >= 30 /\ w.turbidity \in Nat
              /\ w.turbidity > 1000 => "TURBIDITY" \in w.alerts

WaterInv == /\ Plant!TypeOK /\ Plant!ViolationWasAlerted
            /\ water # Plant!NoWater => Treated(water)

LEMMA WaterInit == Plant!Init => WaterInv
<1> SUFFICES ASSUME Plant!Init PROVE WaterInv
  OBVIOUS
<1>1. 0 \in 0 .. MaxChecks /\ 0 \in 0 .. 0
  BY WaterNumbers
<1>2. /\ online = Plant!Stages /\ water = Plant!NoWater /\ ~ discharge.ticked
      /\ total = 0 /\ compliant = 0 /\ violations = 0
  BY DEF Plant!Init
<1>3. Plant!TypeOK
  BY <1>1, <1>2 DEF Plant!TypeOK
<1>4. Plant!ViolationWasAlerted
  BY <1>2 DEF Plant!ViolationWasAlerted
<1> QED BY <1>2, <1>3, <1>4 DEF WaterInv

LEMMA OfflineIsNat == Plant!Offline \in Nat
<1> DEFINE S == Plant!Stages \ online
<1>1. IsFiniteSet(Plant!Stages)
  <2>1. Plant!Stages = {"INTAKE"} \cup ({"FILTRATION"} \cup ({"REVERSE_OSMOSIS"}
          \cup ({"UV_STERILIZATION"} \cup {"COOLING_TOWER_RETURN"})))
    BY DEF Plant!Stages
  <2> QED BY <2>1, FS_Singleton, FS_Union
<1>2. S \in SUBSET Plant!Stages
  OBVIOUS
<1>3. Cardinality(S) \in Nat
  <2> HIDE DEF S
  <2>1. IsFiniteSet(S)
    BY <1>1, <1>2, FS_Subset
  <2> QED BY <2>1, FS_CardinalityType
<1> QED BY <1>3, PlantCardinality DEF Plant!Offline

LEMMA WaterTicks == ASSUME Plant!Tick PROVE Treated(water')
<1>1. PICK t \in Temperatures :
        LET w == [ph |-> 72, turbidity |-> Plant!Turbidity, tds |-> Plant!Solids, temp |-> t,
                  flow |-> Plant!Flow, alerts |-> {}]
        IN water' = [w EXCEPT !.alerts = Plant!Alerts(w)]
  BY DEF Plant!Tick
<1> DEFINE w == [ph |-> 72, turbidity |-> Plant!Turbidity, tds |-> Plant!Solids, temp |-> t,
                 flow |-> Plant!Flow, alerts |-> {}]
<1>2. /\ water'.ph = 72 /\ water'.turbidity = Plant!Turbidity
      /\ water'.flow = Plant!Flow /\ water'.alerts = Plant!Alerts(w)
  BY <1>1
<1>3. Plant!Flow \in Nat /\ Plant!Flow >= 30
  <2>1. PICK n \in Nat : n = Plant!Offline
    BY OfflineIsNat
  <2>2. Plant!Flow = IF n = 0 THEN 100 ELSE Plant!AtLeast(30, 100 - 15 * n)
    BY <2>1 DEF Plant!Flow
  <2> QED BY <2>2 DEF Plant!AtLeast
<1>4. Plant!Turbidity \in Nat
  BY DEF Plant!Turbidity, Plant!AtLeast
<1>5. Plant!Turbidity > 1000 => "TURBIDITY" \in Plant!Alerts(w)
  BY DEF Plant!Alerts
<1> QED BY <1>2, <1>3, <1>4, <1>5 DEF Treated

LEMMA Found ==
  ASSUME NEW w
  PROVE  /\ Plant!Cardinality(Plant!Violations(w)) \in Nat
         /\ Plant!Cardinality(Plant!Violations(w)) = 0 <=> Plant!Violations(w) = {}
         /\ Treated(w) => /\ Plant!Violations(w) \subseteq {"TSS", "TEMPERATURE"}
                          /\ "TSS" \in Plant!Violations(w) => "TURBIDITY" \in w.alerts
<1> DEFINE All == {"pH_LOW", "TSS", "TEMPERATURE", "FLOW_LOW"}
<1>1. IsFiniteSet(All)
  <2>1. All = {"pH_LOW"} \cup ({"TSS"} \cup ({"TEMPERATURE"} \cup {"FLOW_LOW"}))
    OBVIOUS
  <2> HIDE DEF All
  <2> QED BY <2>1, FS_Singleton, FS_Union
<1>2. Plant!Violations(w) \in SUBSET All
  BY DEF Plant!Violations
<1>3. IsFiniteSet(Plant!Violations(w))
  <2> HIDE DEF All
  <2> QED BY <1>1, <1>2, FS_Subset
<1>4. /\ Cardinality(Plant!Violations(w)) \in Nat
      /\ Cardinality(Plant!Violations(w)) = 0 <=> Plant!Violations(w) = {}
  BY <1>3, FS_CardinalityType, FS_EmptySet
<1>5. ASSUME Treated(w)
      PROVE  /\ Plant!Violations(w) \subseteq {"TSS", "TEMPERATURE"}
             /\ "TSS" \in Plant!Violations(w) => "TURBIDITY" \in w.alerts
  <2>1. "pH_LOW" \notin Plant!Violations(w) /\ "FLOW_LOW" \notin Plant!Violations(w)
    BY <1>5 DEF Treated, Plant!Violations
  <2>2. "TSS" \in Plant!Violations(w) => 15 * w.turbidity > 30000
    BY DEF Plant!Violations
  <2>3. "TSS" \in Plant!Violations(w) => "TURBIDITY" \in w.alerts
    BY <1>5, <2>2 DEF Treated
  <2> QED BY <1>2, <2>1, <2>3
<1> QED BY <1>4, <1>5, PlantCardinality

LEMMA WaterStep == WaterInv /\ [Plant!Next]_Plant!vars => WaterInv'
<1> SUFFICES ASSUME WaterInv, [Plant!Next]_Plant!vars PROVE WaterInv'
  OBVIOUS
<1>0. /\ online \subseteq Plant!Stages
      /\ total \in 0 .. MaxChecks /\ compliant \in 0 .. total /\ violations \in Nat
      /\ Plant!ViolationWasAlerted
      /\ water # Plant!NoWater => Treated(water)
  BY DEF WaterInv, Plant!TypeOK
<1>1. CASE Plant!SetStageOnline
  BY <1>0, <1>1 DEF Plant!SetStageOnline, WaterInv, Plant!TypeOK, Plant!ViolationWasAlerted, Treated
<1>2. CASE Plant!Tick
  <2>1. UNCHANGED <<online, discharge, total, compliant, violations>>
    BY <1>2 DEF Plant!Tick
  <2>2. Plant!TypeOK' /\ Plant!ViolationWasAlerted'
    BY <1>0, <2>1 DEF Plant!TypeOK, Plant!ViolationWasAlerted
  <2>3. Treated(water')
    BY <1>2, WaterTicks
  <2> QED BY <2>2, <2>3 DEF WaterInv, Treated
<1>3. CASE Plant!CheckDischarge
  <2>1. PICK found : found = Plant!Violations(water)
    OBVIOUS
  <2>2. PICK n \in Nat : n = Plant!Cardinality(Plant!Violations(water))
    BY Found
  <2>3. /\ total < MaxChecks /\ total' = total + 1 /\ UNCHANGED <<online, water>>
        /\ discharge' = [found |-> found, alerts |-> water.alerts, ticked |-> water # Plant!NoWater]
        /\ violations' = violations + n
        /\ compliant' = compliant + (IF found = {} THEN 1 ELSE 0)
    BY <1>3, <2>1, <2>2 DEF Plant!CheckDischarge
  <2>4. n = 0 <=> found = {}
    BY <2>1, <2>2, Found
  <2>5. compliant = total <=> violations = 0
    BY <1>0 DEF Plant!ViolationWasAlerted
  <2>6. Plant!TypeOK'
    <3>1. total' \in 0 .. MaxChecks /\ compliant' \in 0 .. total' /\ violations' \in Nat
      BY <1>0, <2>3, WaterNumbers
    <3> QED BY <1>0, <2>3, <3>1 DEF Plant!TypeOK
  <2>7. compliant' = total' <=> violations' = 0
    BY <1>0, <2>3, <2>4, <2>5
  <2>8. discharge'.ticked => /\ "TSS" \in discharge'.found => "TURBIDITY" \in discharge'.alerts
                             /\ discharge'.found \subseteq {"TSS", "TEMPERATURE"}
    BY <1>0, <2>1, <2>3, Found
  <2>9. Plant!ViolationWasAlerted'
    BY <2>7, <2>8 DEF Plant!ViolationWasAlerted
  <2>10. (water # Plant!NoWater => Treated(water))'
    BY <1>0, <2>3 DEF Treated, Plant!NoWater
  <2> QED BY <2>6, <2>9, <2>10 DEF WaterInv
<1>4. CASE UNCHANGED Plant!vars
  BY <1>0, <1>4 DEF Plant!vars, WaterInv, Plant!TypeOK, Plant!ViolationWasAlerted, Treated
<1> QED BY <1>1, <1>2, <1>3, <1>4 DEF Plant!Next

-----------------------------------------------------------------------------
(* Induction, over numbers and over finite sets, for a set of those that    *)
(* have a property instead of the property itself.                          *)
LEMMA LessThanWellFounded ==
  \E R : /\ IsWellFoundedOn(R, Nat)
         /\ \A m, n \in Nat : m < n => <<m, n>> \in R
<1> DEFINE R == {ss \in Nat \X Nat : ss[1] < ss[2]}
<1>1. IsWellFoundedOn(R, Nat)
  BY NatLessThanWellFounded DEF OpToRel
<1>2. ASSUME NEW m \in Nat, NEW n \in Nat, m < n PROVE <<m, n>> \in R
  BY <1>2
<1> HIDE DEF R
<1> QED BY <1>1, <1>2

LEMMA LeastExists ==
  ASSUME NEW T \in SUBSET Nat, T # {}
  PROVE  \E x \in T : \A y \in T : x <= y
<1>1. PICK R : /\ IsWellFoundedOn(R, Nat)
               /\ \A m, n \in Nat : m < n => <<m, n>> \in R
  BY LessThanWellFounded
<1>2. T \subseteq Nat
  OBVIOUS
<1>3. IsWellFoundedOn(R, Nat)
  BY <1>1
<1>4. PICK x \in T : \A y \in T : ~ (<<y, x>> \in R)
  BY <1>2, <1>3, WFMin
<1>5. \A y \in T : ~ y < x
  BY <1>1, <1>2, <1>4
<1> QED BY <1>2, <1>4, <1>5

LEMMA NumberInduction ==
  ASSUME NEW T \in SUBSET Nat, 0 \in T, \A n \in T : n + 1 \in T
  PROVE  T = Nat
<1>1. SUFFICES ASSUME Nat \ T # {} PROVE FALSE
  OBVIOUS
<1>2. PICK x \in Nat \ T : \A y \in Nat \ T : x <= y
  BY <1>1, LeastExists
<1>3. x # 0 /\ x - 1 \in Nat /\ ~ x <= x - 1
  BY <1>2
<1>4. x - 1 \in T
  BY <1>2, <1>3
<1> QED BY <1>2, <1>3, <1>4

LEMMA SubsetInduction ==
  ASSUME NEW S, IsFiniteSet(S), NEW F \in SUBSET (SUBSET S), {} \in F,
         \A s \in F : \A x \in S \ s : s \cup {x} \in F
  PROVE  F = SUBSET S
<1> DEFINE T == {n \in Nat : \A s \in SUBSET S : Cardinality(s) = n => s \in F}
<1>1. \A s \in SUBSET S : IsFiniteSet(s) /\ Cardinality(s) \in Nat
  BY FS_Subset, FS_CardinalityType
<1>2. 0 \in T
  <2>1. \A s \in SUBSET S : Cardinality(s) = 0 => s = {}
    BY <1>1, FS_EmptySet
  <2> QED BY <2>1
<1>3. ASSUME NEW n \in T PROVE n + 1 \in T
  <2>1. SUFFICES ASSUME NEW s \in SUBSET S, Cardinality(s) = n + 1 PROVE s \in F
    OBVIOUS
  <2>2. s # {}
    <3>1. n \in Nat /\ n + 1 # 0 /\ Cardinality({}) = 0
      BY FS_EmptySet
    <3> QED BY <2>1, <3>1
  <2>3. PICK x \in s : TRUE
    BY <2>2
  <2>4. Cardinality(s \ {x}) = n
    BY <1>1, <2>1, FS_RemoveElement
  <2>5. s \ {x} \in F
    BY <2>4
  <2>6. s = (s \ {x}) \cup {x} /\ x \in S \ (s \ {x})
    OBVIOUS
  <2> QED BY <2>5, <2>6
<1> HIDE DEF T
<1>4. T \in SUBSET Nat
  BY DEF T
<1>5. T = Nat
  BY <1>2, <1>3, <1>4, NumberInduction
<1> QED BY <1>1, <1>5 DEF T

-----------------------------------------------------------------------------
(* The sum of the GPUs' counters, by a function of the sets of GPUs.        *)
Shown(e) == Servers!MapThenSumSet(LAMBDA g : e[g], Gpus)

First(s) == CHOOSE x \in s : TRUE

Body(f, e, s) == IF s = {} THEN 0 ELSE e[First(s)] + f[s \ {First(s)}]

LEMMA FirstIn == ASSUME NEW s, s # {} PROVE First(s) \in s
BY DEF First

IsSum(f, e, S) == f = [s \in SUBSET S |-> Body(f, e, s)]

LEMMA ShownIsSum ==
  ASSUME NEW e, \E f : IsSum(f, e, Gpus)
  PROVE  \E f : IsSum(f, e, Gpus) /\ Shown(e) = f[Gpus]
BY Zenon DEF Shown, Servers!MapThenSumSet, Servers!MapThenFoldSet, IsSum, Body, First

LEMMA SumExists ==
  ASSUME NEW S, IsFiniteSet(S), NEW e \in [S -> Nat]
  PROVE  \E f \in [SUBSET S -> Nat] : IsSum(f, e, S)
<1> DEFINE Upto(f, n) == \A s \in SUBSET S : Cardinality(s) <= n => f[s] = Body(f, e, s)
           T == {n \in Nat : \E f \in [SUBSET S -> Nat] : Upto(f, n)}
<1>1. \A s \in SUBSET S : IsFiniteSet(s) /\ Cardinality(s) \in Nat
  BY FS_Subset, FS_CardinalityType
<1>2. 0 \in T
  <2>1. PICK f \in [SUBSET S -> Nat] : f = [s \in SUBSET S |-> 0]
    OBVIOUS
  <2>2. \A s \in SUBSET S : Cardinality(s) <= 0 => s = {}
    BY <1>1, FS_EmptySet
  <2>3. Upto(f, 0)
    BY <2>1, <2>2 DEF Body
  <2> QED BY <2>3
<1>3. ASSUME NEW n \in T PROVE n + 1 \in T
  <2>1. PICK f \in [SUBSET S -> Nat] : Upto(f, n)
    OBVIOUS
  <2>2. \A s \in SUBSET S : s # {} => First(s) \in s /\ e[First(s)] \in Nat /\ f[s \ {First(s)}] \in Nat
    BY FirstIn
  <2>3. \A s \in SUBSET S : Body(f, e, s) \in Nat
    BY <2>2 DEF Body
  <2>4. PICK h \in [SUBSET S -> Nat] :
          h = [s \in SUBSET S |-> IF Cardinality(s) = n + 1 THEN Body(f, e, s) ELSE f[s]]
    BY <2>3
  <2>5. ASSUME NEW s \in SUBSET S, Cardinality(s) <= n + 1
        PROVE  h[s] = Body(h, e, s)
    <3>1. CASE s = {}
      <4>1. Cardinality(s) = 0 /\ n + 1 # 0
        BY <3>1, FS_EmptySet
      <4>2. h[s] = f[s] /\ f[s] = Body(f, e, s)
        BY <2>1, <2>4, <4>1
      <4> QED BY <3>1, <4>2 DEF Body
    <3>2. CASE s # {}
      <4>1. PICK x \in s : x = First(s)
        BY <3>2, FirstIn
      <4>2. s \ {x} \in SUBSET S /\ Cardinality(s \ {x}) = Cardinality(s) - 1
        BY <1>1, FS_RemoveElement
      <4>3. h[s \ {x}] = f[s \ {x}]
        BY <1>1, <2>4, <2>5, <4>2
      <4>4. Body(h, e, s) = Body(f, e, s)
        BY <3>2, <4>1, <4>3 DEF Body
      <4>5. h[s] = Body(f, e, s)
        BY <1>1, <2>1, <2>4, <2>5
      <4> QED BY <4>4, <4>5
    <3> QED BY <3>1, <3>2
  <2>6. Upto(h, n + 1)
    BY <2>5
  <2> QED BY <2>6
<1> HIDE DEF T
<1>4. T \in SUBSET Nat
  BY DEF T
<1>5. T = Nat
  BY <1>2, <1>3, <1>4, NumberInduction
<1>6. PICK N \in Nat : N = Cardinality(S)
  BY <1>1
<1>7. PICK f \in [SUBSET S -> Nat] : Upto(f, N)
  BY <1>5 DEF T
<1>8. \A s \in SUBSET S : f[s] = Body(f, e, s)
  BY <1>6, <1>7, FS_Subset
<1>9. IsSum(f, e, S)
  BY <1>8 DEF IsSum
<1> QED BY <1>9

(* The sum is the same in every order.                                      *)
Adds(f, e, S) == /\ f \in [SUBSET S -> Nat] /\ f[{}] = 0
                 /\ \A s \in SUBSET S : \A x \in s : f[s] = e[x] + f[s \ {x}]

LEMMA SumType ==
  ASSUME NEW S, IsFiniteSet(S), NEW e \in [S -> Nat], NEW f, IsSum(f, e, S)
  PROVE  f \in [SUBSET S -> Nat]
<1> DEFINE T == {n \in Nat : \A s \in SUBSET S : Cardinality(s) = n => f[s] \in Nat}
<1>1. \A s \in SUBSET S : IsFiniteSet(s) /\ Cardinality(s) \in Nat
  BY FS_Subset, FS_CardinalityType
<1>2. \A s \in SUBSET S : f[s] = Body(f, e, s)
  BY DEF IsSum
<1>3. 0 \in T
  <2>1. \A s \in SUBSET S : Cardinality(s) = 0 => s = {}
    BY <1>1, FS_EmptySet
  <2> QED BY <1>2, <2>1 DEF Body
<1>4. ASSUME NEW n \in T PROVE n + 1 \in T
  <2>1. SUFFICES ASSUME NEW s \in SUBSET S, Cardinality(s) = n + 1 PROVE f[s] \in Nat
    OBVIOUS
  <2>2. s # {}
    <3>1. n \in Nat /\ n + 1 # 0 /\ Cardinality({}) = 0
      BY FS_EmptySet
    <3> QED BY <2>1, <3>1
  <2>3. PICK y \in s : y = First(s)
    BY <2>2, FirstIn
  <2>4. PICK t \in SUBSET S : t = s \ {y}
    OBVIOUS
  <2>5. Cardinality(t) = n
    BY <1>1, <2>1, <2>4, FS_RemoveElement
  <2>6. f[t] \in Nat /\ e[y] \in Nat
    BY <2>5
  <2>7. f[s] = e[y] + f[t]
    BY <1>2, <2>2, <2>3, <2>4 DEF Body
  <2> QED BY <2>6, <2>7
<1> HIDE DEF T
<1>5. T \in SUBSET Nat
  BY DEF T
<1>6. T = Nat
  BY <1>3, <1>4, <1>5, NumberInduction
<1>7. \A s \in SUBSET S : f[s] \in Nat
  BY <1>1, <1>6 DEF T
<1> QED BY <1>7 DEF IsSum

LEMMA SumAdds ==
  ASSUME NEW S, IsFiniteSet(S), NEW e \in [S -> Nat], NEW f, IsSum(f, e, S)
  PROVE  Adds(f, e, S)
<1> DEFINE Any(s) == \A x \in s : f[s] = e[x] + f[s \ {x}]
           T == {n \in Nat : \A s \in SUBSET S : Cardinality(s) = n => Any(s)}
<1>1. \A s \in SUBSET S : IsFiniteSet(s) /\ Cardinality(s) \in Nat
  BY FS_Subset, FS_CardinalityType
<1>2. f \in [SUBSET S -> Nat]
  BY SumType
<1>3. \A s \in SUBSET S : f[s] = Body(f, e, s)
  BY DEF IsSum
<1>4. 0 \in T
  <2>1. \A s \in SUBSET S : Cardinality(s) = 0 => s = {}
    BY <1>1, FS_EmptySet
  <2> QED BY <2>1
<1>5. ASSUME NEW n \in T PROVE n + 1 \in T
  <2>1. SUFFICES ASSUME NEW s \in SUBSET S, Cardinality(s) = n + 1, NEW x \in s
                 PROVE  f[s] = e[x] + f[s \ {x}]
    OBVIOUS
  <2>2. PICK y \in s : y = First(s)
    BY FirstIn
  <2>3. f[s] = e[y] + f[s \ {y}]
    BY <1>3, <2>2 DEF Body
  <2>4. CASE x = y
    BY <2>3, <2>4
  <2>5. CASE x # y
    <3>a. PICK t \in SUBSET S : t = s \ {x}
      OBVIOUS
    <3>b. PICK u \in SUBSET S : u = s \ {y}
      OBVIOUS
    <3>c. PICK r \in SUBSET S : r = t \ {y}
      OBVIOUS
    <3>1. t = s \ {x} /\ u = s \ {y} /\ r = t \ {y} /\ r = u \ {x}
      BY <3>a, <3>b, <3>c
    <3>e. n \in Nat /\ IsFiniteSet(s)
      BY <1>1
    <3>2. Cardinality(t) = n /\ Cardinality(u) = n
      <4>1. Cardinality(s \ {x}) = Cardinality(s) - 1 /\ Cardinality(s \ {y}) = Cardinality(s) - 1
        BY <3>e, FS_RemoveElement
      <4> QED BY <2>1, <3>1, <3>e, <4>1
    <3>d. \A z \in SUBSET S : Cardinality(z) = n => Any(z)
      OBVIOUS
    <3> HIDE DEF T
    <3>3. Any(t) /\ Any(u)
      BY <3>2, <3>d
    <3>4. y \in t /\ x \in u
      BY <2>5, <3>1
    <3>6. f[t] = e[y] + f[r] /\ f[u] = e[x] + f[r]
      BY <3>1, <3>3, <3>4
    <3>5. e[x] \in Nat /\ e[y] \in Nat /\ f[r] \in Nat
      BY <1>2
    <3>7. f[s] = e[y] + f[u] /\ f[t] \in Nat
      BY <1>2, <2>3, <3>1
    <3>8. f[s] = e[x] + f[t]
      BY <3>5, <3>6, <3>7
    <3> QED BY <3>1, <3>8
  <2> QED BY <2>4, <2>5
<1> HIDE DEF T
<1>6. T \in SUBSET Nat
  BY DEF T
<1>7. T = Nat
  BY <1>4, <1>5, <1>6, NumberInduction
<1>8. \A s \in SUBSET S : Any(s)
  BY <1>1, <1>7 DEF T
<1>9. f[{}] = 0
  BY <1>3 DEF Body
<1> QED BY <1>2, <1>8, <1>9 DEF Adds

LEMMA ShownAdds ==
  ASSUME NEW e \in [Gpus -> Nat]
  PROVE  \E f : Adds(f, e, Gpus) /\ Shown(e) = f[Gpus]
<1>1. IsFiniteSet(Gpus)
  BY ProtectionsAssumption
<1>2. \E f : IsSum(f, e, Gpus)
  BY <1>1, SumExists
<1>3. PICK f : IsSum(f, e, Gpus) /\ Shown(e) = f[Gpus]
  BY <1>2, ShownIsSum
<1> QED BY <1>1, <1>3, SumAdds

(* One GPU's counter changed; some of them one higher.                      *)
LEMMA ShownReplaced ==
  ASSUME NEW e \in [Gpus -> Nat], NEW g \in Gpus, NEW n \in Nat
  PROVE  /\ Shown(e) \in Nat
         /\ Shown([e EXCEPT ![g] = n]) + e[g] = Shown(e) + n
<1> DEFINE d == [e EXCEPT ![g] = n]
<1>1. IsFiniteSet(Gpus)
  BY ProtectionsAssumption
<1>2. d \in [Gpus -> Nat] /\ d[g] = n /\ \A x \in Gpus \ {g} : d[x] = e[x]
  OBVIOUS
<1> HIDE DEF d
<1>3. PICK f : Adds(f, e, Gpus) /\ Shown(e) = f[Gpus]
  BY ShownAdds
<1>4. PICK h : Adds(h, d, Gpus) /\ Shown(d) = h[Gpus]
  BY <1>2, ShownAdds
<1> DEFINE F == {s \in SUBSET Gpus : g \notin s => h[s] = f[s]}
<1>5. {} \in F
  BY <1>3, <1>4 DEF Adds
<1>6. ASSUME NEW s \in F, NEW x \in Gpus \ s PROVE s \cup {x} \in F
  <2>1. PICK t \in SUBSET Gpus : t = s \cup {x}
    OBVIOUS
  <2>2. x \in t /\ t \ {x} = s
    BY <2>1
  <2>3. h[t] = d[x] + h[s] /\ f[t] = e[x] + f[s]
    BY <1>3, <1>4, <2>2 DEF Adds
  <2>4. g \notin t => h[t] = f[t]
    BY <1>2, <2>1, <2>3
  <2> QED BY <2>1, <2>4
<1> HIDE DEF F
<1>7. F \in SUBSET (SUBSET Gpus)
  BY DEF F
<1>8. F = SUBSET Gpus
  BY <1>1, <1>5, <1>6, <1>7, SubsetInduction
<1>9. PICK r \in SUBSET Gpus : r = Gpus \ {g}
  OBVIOUS
<1>10. h[r] = f[r] /\ f[r] \in Nat
  BY <1>3, <1>8, <1>9 DEF F, Adds
<1>11. h[Gpus] = n + h[r] /\ f[Gpus] = e[g] + f[r]
  BY <1>2, <1>3, <1>4, <1>9 DEF Adds
<1>12. Shown(e) \in Nat /\ Shown(d) + e[g] = Shown(e) + n
  BY <1>3, <1>4, <1>10, <1>11
<1> QED BY <1>12 DEF d

LEMMA ShownRaised ==
  ASSUME NEW e \in [Gpus -> Nat], NEW hit \in SUBSET Gpus
  PROVE  Shown([g \in Gpus |-> e[g] + (IF g \in hit THEN 1 ELSE 0)]) = Shown(e) + Cardinality(hit)
<1> DEFINE d == [g \in Gpus |-> e[g] + (IF g \in hit THEN 1 ELSE 0)]
<1>1. IsFiniteSet(Gpus)
  BY ProtectionsAssumption
<1>2. d \in [Gpus -> Nat] /\ \A x \in Gpus : d[x] = e[x] + (IF x \in hit THEN 1 ELSE 0)
  OBVIOUS
<1> HIDE DEF d
<1>3. PICK f : Adds(f, e, Gpus) /\ Shown(e) = f[Gpus]
  BY ShownAdds
<1>4. PICK h : Adds(h, d, Gpus) /\ Shown(d) = h[Gpus]
  BY <1>2, ShownAdds
<1>5. \A s \in SUBSET Gpus : IsFiniteSet(s \cap hit) /\ Cardinality(s \cap hit) \in Nat
  BY <1>1, FS_Subset, FS_CardinalityType
<1> DEFINE F == {s \in SUBSET Gpus : h[s] = f[s] + Cardinality(s \cap hit)}
<1>6. {} \in F
  <2>1. {} \cap hit = {}
    OBVIOUS
  <2>2. Cardinality({} \cap hit) = 0
    BY <2>1, FS_EmptySet
  <2> QED BY <1>3, <1>4, <2>2 DEF Adds
<1>7. ASSUME NEW s \in F, NEW x \in Gpus \ s PROVE s \cup {x} \in F
  <2>0. PICK t \in SUBSET Gpus : t = s \cup {x}
    OBVIOUS
  <2>1. t = s \cup {x} /\ x \in t /\ t \ {x} = s
    BY <2>0
  <2>2. h[t] = d[x] + h[s] /\ f[t] = e[x] + f[s]
    <3> HIDE DEF F
    <3>1. h[t] = d[x] + h[t \ {x}] /\ f[t] = e[x] + f[t \ {x}]
      BY <1>3, <1>4, <2>1 DEF Adds
    <3> QED BY <2>1, <3>1
  <2>d. F \subseteq SUBSET Gpus /\ \A z \in F : h[z] = f[z] + Cardinality(z \cap hit)
    OBVIOUS
  <2>a. s \in SUBSET Gpus /\ h[s] = f[s] + Cardinality(s \cap hit)
    BY <2>d
  <2>b. f[s] \in Nat /\ e[x] \in Nat /\ Cardinality(s \cap hit) \in Nat
    BY <1>3, <1>5, <2>a DEF Adds
  <2>3. PICK n \in Nat : n = Cardinality(s \cap hit) /\ h[s] = f[s] + n
    BY <2>a, <2>b
  <2>4. CASE x \in hit
    <3>1. t \cap hit = (s \cap hit) \cup {x} /\ x \notin s \cap hit
      BY <2>1, <2>4
    <3>2. Cardinality(t \cap hit) = n + 1
      <4>1. IsFiniteSet(s \cap hit)
        BY <1>5
      <4> QED BY <2>3, <3>1, <4>1, FS_AddElement
    <3>3. h[t] = f[t] + (n + 1)
      BY <1>2, <2>2, <2>3, <2>4, <2>b
    <3>4. h[t] = f[t] + Cardinality(t \cap hit)
      BY <3>2, <3>3
    <3> QED BY <2>1, <3>4
  <2>5. CASE x \notin hit
    <3>1. t \cap hit = s \cap hit
      BY <2>1, <2>5
    <3>2. h[t] = f[t] + Cardinality(t \cap hit)
      BY <1>2, <2>2, <2>3, <2>5, <2>b, <3>1
    <3> QED BY <2>1, <3>2
  <2> QED BY <2>4, <2>5
<1> HIDE DEF F
<1>8. F \in SUBSET (SUBSET Gpus)
  BY DEF F
<1>9. F = SUBSET Gpus
  BY <1>1, <1>6, <1>7, <1>8, SubsetInduction
<1>10. Gpus \cap hit = hit /\ Gpus \in F
  BY <1>9
<1>11. h[Gpus] = f[Gpus] + Cardinality(hit)
  BY <1>10 DEF F
<1>12. Shown(d) = Shown(e) + Cardinality(hit)
  BY <1>3, <1>4, <1>11
<1> QED BY <1>12 DEF d

-----------------------------------------------------------------------------
(* Racks laid out over the zones.                                          *)

(* Racks are laid out zone by zone; the zones before the last are of one    *)
(* size, and the last takes the rest.                                       *)
LEMMA Multiples ==
  ASSUME NEW b \in Nat
  PROVE  /\ \A n \in Nat : n * b \in Nat /\ (n + 1) * b = n * b + b
         /\ 0 * b = 0
OBVIOUS

LEMMA DivisionFits ==
  ASSUME NEW count \in Nat, NEW n \in Nat \ {0}
  PROVE  /\ count \div n \in Nat
         /\ (count \div n) * (n - 1) \in Nat
         /\ (count \div n) * (n - 1) <= count
         /\ (count \div n) * (n - 1) = (n - 1) * (count \div n)
<1>1. count \div n \in Nat /\ n * (count \div n) <= count
  OBVIOUS
<1>2. PICK q \in Nat : q = count \div n
  BY <1>1
<1>3. q * (n - 1) = n * q - q /\ q * (n - 1) = (n - 1) * q
  OBVIOUS
<1>4. n * q \in Nat /\ n - 1 \in Nat /\ q * (n - 1) \in Nat
  OBVIOUS
<1> QED BY <1>1, <1>2, <1>3, <1>4

Block(z, m) == {z} \X (1 .. m)

LEMMA BlockSize ==
  ASSUME NEW z, NEW m \in Nat
  PROVE  IsFiniteSet(Block(z, m)) /\ Cardinality(Block(z, m)) = m
<1>1. IsFiniteSet(1 .. m) /\ Cardinality(1 .. m) = m
  BY FS_Interval
<1>2. IsFiniteSet({z}) /\ Cardinality({z}) = 1
  BY FS_Singleton
<1>3. IsFiniteSet({z} \X (1 .. m)) /\ Cardinality({z} \X (1 .. m)) = 1 * m
  BY <1>1, <1>2, FS_Product
<1> QED BY <1>3 DEF Block

\* The blocks of the first n zones of a list.
Blocks(list, b, n) == UNION {Block(list[k], b) : k \in 1 .. n}

NamedApart(list) == /\ Len(list) \in Nat \ {0} /\ DOMAIN list = 1 .. Len(list)
                    /\ \A j, k \in 1 .. Len(list) : list[j] = list[k] => j = k

LEMMA BlocksSize ==
  ASSUME NEW list, NamedApart(list), NEW b \in Nat
  PROVE  \A n \in 0 .. Len(list) :
           IsFiniteSet(Blocks(list, b, n)) /\ Cardinality(Blocks(list, b, n)) = n * b
<1> DEFINE T == {n \in Nat : n <= Len(list) =>
             IsFiniteSet(Blocks(list, b, n)) /\ Cardinality(Blocks(list, b, n)) = n * b}
<1>1. 0 \in T
  <2>1. Blocks(list, b, 0) = {}
    BY DEF Blocks
  <2> QED BY <2>1, FS_EmptySet, Multiples
<1>2. ASSUME NEW n \in T PROVE n + 1 \in T
  <2>1. SUFFICES ASSUME n + 1 <= Len(list)
                 PROVE  /\ IsFiniteSet(Blocks(list, b, n + 1))
                        /\ Cardinality(Blocks(list, b, n + 1)) = (n + 1) * b
    OBVIOUS
  <2>2. n \in Nat /\ Len(list) \in Nat
    BY DEF NamedApart
  <2>3. IsFiniteSet(Blocks(list, b, n)) /\ Cardinality(Blocks(list, b, n)) = n * b
    BY <2>1, <2>2
  <2> HIDE DEF T
  <2>4. PICK A : A = Blocks(list, b, n)
    OBVIOUS
  <2>5. PICK B : B = Block(list[n + 1], b)
    OBVIOUS
  <2>6. 1 .. (n + 1) = (1 .. n) \cup {n + 1}
    BY <2>2
  <2>7. Blocks(list, b, n + 1) = A \cup B
    BY <2>4, <2>5, <2>6 DEF Blocks
  <2>8. A \cap B = {}
    <3>1. \A k \in 1 .. n : list[k] # list[n + 1]
      BY <2>1, <2>2 DEF NamedApart
    <3> QED BY <2>4, <2>5, <3>1 DEF Blocks, Block
  <2>9. IsFiniteSet(B) /\ Cardinality(B) = b
    BY <2>5, BlockSize
  <2>10. /\ IsFiniteSet(A \cup B)
         /\ Cardinality(A \cup B) = Cardinality(A) + Cardinality(B) - Cardinality(A \cap B)
    BY <2>3, <2>4, <2>9, FS_Union
  <2>11. Cardinality(A \cap B) = 0
    BY <2>8, FS_EmptySet
  <2>12. n * b \in Nat /\ (n + 1) * b = n * b + b
    BY <2>2, Multiples
  <2>13. Cardinality(A \cup B) = (n + 1) * b
    BY <2>3, <2>4, <2>9, <2>10, <2>11, <2>12
  <2> QED BY <2>7, <2>10, <2>13
<1> HIDE DEF T
<1>3. T \in SUBSET Nat
  BY DEF T
<1>4. T = Nat
  BY <1>1, <1>2, <1>3, NumberInduction
<1> QED BY <1>4 DEF T

LEMMA RacksLaidOut ==
  ASSUME NEW list, NamedApart(list), NEW count \in Nat
  PROVE  /\ IsFiniteSet(Servers!RacksOf(count, list))
         /\ Cardinality(Servers!RacksOf(count, list)) = count
<1>1. PICK n \in Nat \ {0} : n = Len(list)
  BY DEF NamedApart
<1>2. PICK b \in Nat : b = count \div n
  BY DivisionFits
<1>3. PICK rest \in Nat : rest = count - b * (n - 1) /\ rest + (n - 1) * b = count
  <2>1. b * (n - 1) \in Nat /\ b * (n - 1) <= count /\ b * (n - 1) = (n - 1) * b
    BY <1>2, DivisionFits
  <2> QED BY <2>1
<1>4. PICK A : A = Blocks(list, b, n - 1)
  OBVIOUS
<1>5. PICK B : B = Block(list[n], rest)
  OBVIOUS
<1>6. IsFiniteSet(A) /\ Cardinality(A) = (n - 1) * b
  <2>1. n - 1 \in 0 .. Len(list)
    BY <1>1
  <2> QED BY <1>4, <2>1, BlocksSize
<1>7. IsFiniteSet(B) /\ Cardinality(B) = rest
  BY <1>5, BlockSize
<1>8. Servers!RacksOf(count, list) = A \cup B
  <2>1. DOMAIN list = 1 .. n /\ 1 .. n = (1 .. n - 1) \cup {n}
    BY <1>1 DEF NamedApart
  <2>2. \A k \in 1 .. n - 1 : Servers!Share(count, list, k) = b
    BY <1>1, <1>2 DEF Servers!Share
  <2>3. Servers!Share(count, list, n) = rest
    BY <1>1, <1>2, <1>3 DEF Servers!Share
  <2>4. \A k \in DOMAIN list : {list[k]} \X (1 .. Servers!Share(count, list, k))
                                 = IF k = n THEN B ELSE Block(list[k], b)
    BY <1>5, <2>1, <2>2, <2>3 DEF Block
  <2>5. Servers!RacksOf(count, list) = UNION {IF k = n THEN B ELSE Block(list[k], b) : k \in 1 .. n}
    BY <2>1, <2>4 DEF Servers!RacksOf
  <2>6. \A k \in 1 .. n - 1 : k # n
    OBVIOUS
  <2> QED BY <1>4, <2>1, <2>5, <2>6 DEF Blocks
<1>9. A \cap B = {}
  <2>1. \A k \in 1 .. n - 1 : list[k] # list[n]
    BY <1>1 DEF NamedApart
  <2> QED BY <1>4, <1>5, <2>1 DEF Blocks, Block
<1>10. /\ IsFiniteSet(A \cup B)
       /\ Cardinality(A \cup B) = Cardinality(A) + Cardinality(B) - Cardinality(A \cap B)
  BY <1>6, <1>7, FS_Union
<1>11. Cardinality(A \cap B) = 0
  BY <1>9, FS_EmptySet
<1>12. (n - 1) * b \in Nat
  BY Multiples
<1> QED BY <1>3, <1>6, <1>7, <1>8, <1>10, <1>11, <1>12

-----------------------------------------------------------------------------
(* The fleet.                                                              *)

CountsAll(c, e) == e \in [Gpus -> Nat] /\ c \in Nat /\ c >= Shown(e)

FleetInv == rackCount \in Nat /\ NamedApart(zones) /\ CountsAll(errorCount, errors)

LEMMA FleetCardinality == \A S : Servers!Cardinality(S) = Cardinality(S)
BY Zenon DEF Servers!Cardinality, Cardinality

LEMMA FleetInit == Servers!Init => FleetInv
<1> SUFFICES ASSUME Servers!Init PROVE FleetInv
  OBVIOUS
<1>1. /\ rackCount \in RackCounts /\ zones \in ZoneLists
      /\ errors = [g \in Gpus |-> 0] /\ errorCount = 0
  BY DEF Servers!Init
<1>2. rackCount \in Nat
  BY <1>1, ProtectionsAssumption
<1>3. NamedApart(zones)
  <2>1. /\ zones \in Seq(STRING) /\ zones # <<>>
        /\ \A j, k \in DOMAIN zones : zones[j] = zones[k] => j = k
    BY <1>1, ProtectionsAssumption
  <2>2. DOMAIN zones = 1 .. Len(zones) /\ Len(zones) \in Nat \ {0}
    BY <2>1
  <2> QED BY <2>1, <2>2 DEF NamedApart
<1>4. Shown(errors) = 0
  <2>1. errors \in [Gpus -> Nat]
    BY <1>1
  <2>2. PICK e \in [Gpus -> Nat] : e = errors
    BY <2>1
  <2>3. PICK f : Adds(f, e, Gpus) /\ Shown(e) = f[Gpus]
    BY ShownAdds
  <2> DEFINE F == {s \in SUBSET Gpus : f[s] = 0}
  <2>4. {} \in F
    BY <2>3 DEF Adds
  <2>5. ASSUME NEW s \in F, NEW x \in Gpus \ s PROVE s \cup {x} \in F
    <3>1. PICK t \in SUBSET Gpus : t = s \cup {x}
      OBVIOUS
    <3>2. x \in t /\ t \ {x} = s
      BY <3>1
    <3>3. f[s] = 0
      OBVIOUS
    <3>4. f[t] = e[x] + f[s]
      <4> HIDE DEF F
      <4>1. f[t] = e[x] + f[t \ {x}]
        BY <2>3, <3>2 DEF Adds
      <4> QED BY <3>2, <4>1
    <3>5. f[t] = 0
      BY <1>1, <2>2, <3>3, <3>4
    <3> QED BY <3>1, <3>5
  <2> HIDE DEF F
  <2>6. F \in SUBSET (SUBSET Gpus)
    BY DEF F
  <2>7. F = SUBSET Gpus
    BY <2>4, <2>5, <2>6, SubsetInduction, ProtectionsAssumption
  <2>8. f[Gpus] = 0
    BY <2>7 DEF F
  <2> QED BY <2>2, <2>3, <2>8
<1>5. errors \in [Gpus -> Nat]
  BY <1>1
<1> QED BY <1>1, <1>2, <1>3, <1>4, <1>5 DEF FleetInv, CountsAll

LEMMA FleetStep == FleetInv /\ [Servers!Next]_Servers!vars => FleetInv'
<1> SUFFICES ASSUME FleetInv, [Servers!Next]_Servers!vars PROVE FleetInv'
  OBVIOUS
<1>1. PICK e \in [Gpus -> Nat] : e = errors
  BY DEF FleetInv, CountsAll
<1>2. PICK c \in Nat : c = errorCount
  BY DEF FleetInv, CountsAll
<1>3. c >= Shown(e)
  BY <1>1, <1>2 DEF FleetInv, CountsAll
<1>4. \A d \in [Gpus -> Nat] : Shown(d) \in Nat
  <2>1. ASSUME NEW d \in [Gpus -> Nat] PROVE Shown(d) \in Nat
    <3>1. PICK f : Adds(f, d, Gpus) /\ Shown(d) = f[Gpus]
      BY ShownAdds
    <3> QED BY <3>1 DEF Adds
  <2> QED BY <2>1
<1>5. CASE Servers!Ingest
  <2>1. PICK g \in Gpus, n \in 0 .. MaxErrors :
          /\ errorCount' = errorCount + Servers!Risen(errors[g], n)
          /\ errors' = [errors EXCEPT ![g] = n]
          /\ UNCHANGED <<rackCount, zones>>
    BY <1>5 DEF Servers!Ingest
  <2>2. n \in Nat /\ e[g] \in Nat
    BY ProtectionsAssumption
  <2>3. PICK d \in [Gpus -> Nat] : d = [e EXCEPT ![g] = n]
    BY <2>2
  <2>4. errors' = d /\ errorCount' = c + Servers!Risen(e[g], n)
    BY <1>1, <1>2, <2>1, <2>3
  <2>5. Shown(d) + e[g] = Shown(e) + n
    BY <2>2, <2>3, ShownReplaced
  <2>6. Servers!Risen(e[g], n) \in Nat /\ Servers!Risen(e[g], n) + e[g] >= n
    BY <2>2 DEF Servers!Risen
  <2>7. CountsAll(c + Servers!Risen(e[g], n), d)
    BY <1>3, <1>4, <2>2, <2>5, <2>6 DEF CountsAll
  <2>8. rackCount' \in Nat /\ NamedApart(zones')
    BY <2>1 DEF FleetInv
  <2>9. CountsAll(errorCount', errors')
    BY <2>4, <2>7
  <2> QED BY <2>8, <2>9 DEF FleetInv
<1>6. CASE Servers!Tick
  <2>1. PICK hit \in SUBSET {g \in Gpus : errors[g] < MaxErrors} :
          /\ errors' = [g \in Gpus |-> errors[g] + (IF g \in hit THEN 1 ELSE 0)]
          /\ errorCount' = errorCount + Servers!Cardinality(hit)
          /\ UNCHANGED <<rackCount, zones>>
    BY <1>6 DEF Servers!Tick
  <2>2. hit \in SUBSET Gpus
    OBVIOUS
  <2> DEFINE more == [g \in Gpus |-> e[g] + (IF g \in hit THEN 1 ELSE 0)]
  <2>c. \A g \in Gpus : more[g] \in Nat
    OBVIOUS
  <2>3. PICK d \in [Gpus -> Nat] : d = more
    BY <2>c
  <2>4. PICK n \in Nat : n = Cardinality(hit)
    BY <2>2, FS_Subset, FS_CardinalityType, ProtectionsAssumption
  <2>5. errors' = d /\ errorCount' = c + n
    BY <1>1, <1>2, <2>1, <2>3, <2>4, FleetCardinality
  <2>6. Shown(d) = Shown(e) + n
    BY <2>2, <2>3, <2>4, ShownRaised
  <2>7. CountsAll(c + n, d)
    BY <1>3, <1>4, <2>6 DEF CountsAll
  <2>8. rackCount' \in Nat /\ NamedApart(zones')
    BY <2>1 DEF FleetInv
  <2>9. CountsAll(errorCount', errors')
    BY <2>5, <2>7
  <2> QED BY <2>8, <2>9 DEF FleetInv
<1>7. CASE UNCHANGED Servers!vars
  BY <1>7 DEF Servers!vars, FleetInv
<1> QED BY <1>5, <1>6, <1>7 DEF Servers!Next

LEMMA FleetSafe == FleetInv => Servers!FleetIsCounted
<1> SUFFICES ASSUME FleetInv PROVE Servers!FleetIsCounted
  OBVIOUS
<1>1. Cardinality(Servers!Racks) = rackCount
  BY RacksLaidOut DEF FleetInv, Servers!Racks
<1>2. NamedApart(Servers!Standard)
  <2>1. PICK list : list = <<"A", "B", "C">>
    OBVIOUS
  <2>2. /\ Len(list) = 3 /\ DOMAIN list = 1 .. 3
        /\ list[1] = "A" /\ list[2] = "B" /\ list[3] = "C"
    BY <2>1
  <2>3. \A j, k \in 1 .. 3 : list[j] = list[k] => j = k
    BY <2>2
  <2>4. Servers!Standard = list
    BY <2>1 DEF Servers!Standard
  <2>5. Len(list) \in Nat \ {0}
    BY <2>2
  <2>6. \A j, k \in 1 .. Len(list) : list[j] = list[k] => j = k
    BY <2>2, <2>3
  <2>7. NamedApart(list)
    <3>1. DOMAIN list = 1 .. Len(list)
      BY <2>2
    <3> QED BY <2>5, <2>6, <3>1 DEF NamedApart
  <2> QED BY <2>4, <2>7
<1>3. IsFiniteSet(Servers!FabricRacks) /\ Cardinality(Servers!FabricRacks) = rackCount
  BY <1>2, RacksLaidOut DEF FleetInv, Servers!FabricRacks
<1>4. Cardinality(Servers!Links) = 8 * rackCount
  <2>1. IsFiniteSet(1 .. 8) /\ Cardinality(1 .. 8) = 8
    <3>1. 1 \in Int /\ 8 \in Int /\ ~ 1 > 8 /\ 8 - 1 + 1 = 8
      OBVIOUS
    <3> QED BY <3>1, FS_Interval
  <2>2. Cardinality(Servers!FabricRacks \X (1 .. 8)) = rackCount * 8
    BY <1>3, <2>1, FS_Product
  <2> QED BY <2>2 DEF Servers!Links, FleetInv
<1>5. zones = Servers!Standard => Servers!Racks = Servers!MonitoredRacks
  BY DEF Servers!Racks, Servers!MonitoredRacks
<1>6. errorCount >= Servers!MapThenSumSet(LAMBDA g : errors[g], Gpus)
  <2>1. Shown(errors) = Servers!MapThenSumSet(LAMBDA g : errors[g], Gpus)
    BY Zenon DEF Shown
  <2> QED BY <2>1 DEF FleetInv, CountsAll
<1> QED BY <1>1, <1>4, <1>5, <1>6, FleetCardinality DEF Servers!FleetIsCounted

-----------------------------------------------------------------------------
(* Flattening lists.                                                       *)

IsFlatten(f, seqs, n) ==
  f = [i \in 1 .. n |-> IF i = 1 THEN seqs[i] ELSE f[i - 1] \o seqs[i]]

LEMMA FlattenIs ==
  ASSUME NEW seqs, Len(seqs) # 0, \E f : IsFlatten(f, seqs, Len(seqs))
  PROVE  \E f : IsFlatten(f, seqs, Len(seqs)) /\ Books!FlattenSeq(seqs) = f[Len(seqs)]
BY Zenon DEF Books!FlattenSeq, IsFlatten

LEMMA FlattenExists ==
  ASSUME NEW seqs PROVE \A n \in Nat : \E f : IsFlatten(f, seqs, n)
<1> DEFINE T == {n \in Nat : \E f : IsFlatten(f, seqs, n)}
<1>1. 0 \in T
  <2>1. PICK f : f = [i \in {} |-> 0]
    OBVIOUS
  <2>2. IsFlatten(f, seqs, 0)
    BY <2>1 DEF IsFlatten
  <2> QED BY <2>2
<1>2. ASSUME NEW n \in T PROVE n + 1 \in T
  <2>1. PICK f : IsFlatten(f, seqs, n)
    OBVIOUS
  <2>2. n \in Nat
    OBVIOUS
  <2>3. PICK last : last = IF n = 0 THEN seqs[1] ELSE f[n] \o seqs[n + 1]
    OBVIOUS
  <2>4. PICK h : h = [i \in 1 .. n + 1 |-> IF i = n + 1 THEN last ELSE f[i]]
    OBVIOUS
  <2>5. \A i \in 1 .. n + 1 : h[i] = IF i = 1 THEN seqs[i] ELSE h[i - 1] \o seqs[i]
    <3>1. h[n + 1] = last
      BY <2>2, <2>4
    <3>2. \A i \in 1 .. n : h[i] = f[i]
      BY <2>2, <2>4
    <3>3. \A i \in 1 .. n : f[i] = IF i = 1 THEN seqs[i] ELSE f[i - 1] \o seqs[i]
      BY <2>1 DEF IsFlatten
    <3>4. ASSUME NEW i \in 1 .. n PROVE h[i] = IF i = 1 THEN seqs[i] ELSE h[i - 1] \o seqs[i]
      <4>1. CASE i = 1
        BY <3>2, <3>3, <4>1
      <4>2. CASE i # 1
        <5>1. i - 1 \in 1 .. n
          BY <2>2, <4>2
        <5> QED BY <3>2, <3>3, <4>2, <5>1
      <4> QED BY <4>1, <4>2
    <3>5. h[n + 1] = IF n + 1 = 1 THEN seqs[n + 1] ELSE h[(n + 1) - 1] \o seqs[n + 1]
      <4>1. CASE n = 0
        BY <2>3, <3>1, <4>1
      <4>2. CASE n # 0
        <5>1. n \in 1 .. n /\ (n + 1) - 1 = n /\ n + 1 # 1
          BY <2>2, <4>2
        <5> QED BY <2>3, <3>1, <3>2, <4>2, <5>1
      <4> QED BY <4>1, <4>2
    <3>6. \A i \in 1 .. n + 1 : i \in 1 .. n \/ i = n + 1
      BY <2>2
    <3> QED BY <3>4, <3>5, <3>6
  <2>6. IsFlatten(h, seqs, n + 1)
    BY <2>4, <2>5 DEF IsFlatten
  <2> QED BY <2>2, <2>6
<1> HIDE DEF T
<1>3. T \in SUBSET Nat
  BY DEF T
<1>4. T = Nat
  BY <1>1, <1>2, <1>3, NumberInduction
<1> QED BY <1>4 DEF T

(* What is put together of members of a set that is closed under \o is one  *)
(* of its members.                                                          *)
LEMMA FlattenStays ==
  ASSUME NEW seqs, NEW K, <<>> \in K, \A a, b \in K : a \o b \in K,
         NEW n \in Nat, Len(seqs) = n, n = 0 => seqs = <<>>, \A i \in 1 .. n : seqs[i] \in K
  PROVE  Books!FlattenSeq(seqs) \in K
<1>1. CASE n = 0
  BY <1>1 DEF Books!FlattenSeq
<1>2. CASE n # 0
  <2>1. PICK f : IsFlatten(f, seqs, n) /\ Books!FlattenSeq(seqs) = f[n]
    BY <1>2, FlattenIs, FlattenExists
  <2> DEFINE T == {m \in Nat : m + 1 <= n => f[m + 1] \in K}
  <2>2. \A i \in 1 .. n : f[i] = IF i = 1 THEN seqs[i] ELSE f[i - 1] \o seqs[i]
    BY <2>1 DEF IsFlatten
  <2>3. 0 \in T
    <3>1. 1 \in 1 .. n
      BY <1>2
    <3>2. f[0 + 1] = seqs[1]
      BY <2>2, <3>1
    <3> QED BY <3>1, <3>2
  <2>4. ASSUME NEW m \in T PROVE m + 1 \in T
    <3>0. m \in Nat
      OBVIOUS
    <3>1. SUFFICES ASSUME (m + 1) + 1 <= n PROVE f[(m + 1) + 1] \in K
      BY <3>0
    <3>2. (m + 1) + 1 \in 1 .. n /\ (m + 1) + 1 # 1 /\ ((m + 1) + 1) - 1 = m + 1 /\ m + 1 <= n
      BY <3>0, <3>1
    <3>3. f[m + 1] \in K
      BY <3>2
    <3>4. f[(m + 1) + 1] = f[m + 1] \o seqs[(m + 1) + 1]
      BY <2>2, <3>2
    <3> QED BY <3>2, <3>3, <3>4
  <2> HIDE DEF T
  <2>5. T \in SUBSET Nat
    BY DEF T
  <2>6. T = Nat
    BY <2>3, <2>4, <2>5, NumberInduction
  <2>7. PICK m \in Nat : m + 1 = n
    <3>1. n - 1 \in Nat /\ (n - 1) + 1 = n
      BY <1>2
    <3> QED BY <3>1
  <2>8. m \in T
    BY <2>6
  <2>9. f[n] \in K
    BY <2>7, <2>8 DEF T
  <2> QED BY <2>1, <2>9
<1> QED BY <1>1, <1>2

-----------------------------------------------------------------------------
(* Trails.                                                                 *)

Entries == Books!PlaybookStep \cup
             {"ISOLATED", "EXECUTE_START", "EXECUTE_FAILED", "EXECUTE_COMPLETE"}

\* A zone is isolated only by the step recorded after it; never in a quiet list.
Told(s) == \A i \in 1 .. Len(s) : s[i] = "ISOLATED" => i < Len(s) /\ s[i + 1] = "ISOLATE"
Quiet(s) == \A i \in 1 .. Len(s) : s[i] # "ISOLATED"

Trails == {s \in Seq(Entries) : Told(s)}
QuietTrails == {s \in Seq(Entries) : Quiet(s)}

LEMMA TrailsJoin ==
  /\ <<>> \in Trails /\ <<>> \in QuietTrails
  /\ \A a, b \in Trails : a \o b \in Trails
  /\ \A a, b \in QuietTrails : a \o b \in QuietTrails
<1>1. <<>> \in Trails /\ <<>> \in QuietTrails
  BY DEF Trails, QuietTrails, Told, Quiet
<1>2. ASSUME NEW a \in Seq(Entries), NEW b \in Seq(Entries)
      PROVE  /\ a \o b \in Seq(Entries) /\ Len(a \o b) = Len(a) + Len(b)
             /\ Len(a) \in Nat /\ Len(b) \in Nat
             /\ \A i \in 1 .. Len(a) : (a \o b)[i] = a[i]
             /\ \A i \in 1 .. Len(b) : (a \o b)[Len(a) + i] = b[i]
  OBVIOUS
<1>3. ASSUME NEW a \in Seq(Entries), NEW b \in Seq(Entries), Told(a), Told(b)
      PROVE  Told(a \o b)
  <2>1. PICK c \in Seq(Entries) : c = a \o b
    BY <1>2
  <2>2. PICK m \in Nat : m = Len(a)
    BY <1>2
  <2>3. PICK n \in Nat : n = Len(b)
    BY <1>2
  <2>4. /\ Len(c) = m + n /\ \A i \in 1 .. m : c[i] = a[i]
        /\ \A i \in 1 .. n : c[m + i] = b[i]
    BY <1>2, <2>1, <2>2, <2>3
  <2>5. ASSUME NEW i \in 1 .. m + n, c[i] = "ISOLATED"
        PROVE  i < m + n /\ c[i + 1] = "ISOLATE"
    <3>1. CASE i <= m
      <4>1. i \in 1 .. m
        BY <3>1
      <4>2. i < m /\ a[i + 1] = "ISOLATE"
        BY <1>3, <2>2, <2>4, <2>5, <4>1 DEF Told
      <4>3. i + 1 \in 1 .. m
        BY <4>1, <4>2
      <4> QED BY <2>4, <4>2, <4>3
    <3>2. CASE i > m
      <4>1. PICK j \in 1 .. n : i = m + j
        <5>1. i - m \in 1 .. n /\ i = m + (i - m)
          BY <3>2
        <5> QED BY <5>1
      <4>2. j < n /\ b[j + 1] = "ISOLATE"
        BY <1>3, <2>3, <2>4, <2>5, <4>1 DEF Told
      <4>3. j + 1 \in 1 .. n /\ i + 1 = m + (j + 1)
        BY <4>1, <4>2
      <4> QED BY <2>4, <4>1, <4>2, <4>3
    <3> QED BY <3>1, <3>2
  <2> QED BY <2>1, <2>4, <2>5 DEF Told
<1>4. ASSUME NEW a \in Seq(Entries), NEW b \in Seq(Entries), Quiet(a), Quiet(b)
      PROVE  Quiet(a \o b)
  <2>1. PICK c \in Seq(Entries) : c = a \o b
    BY <1>2
  <2>2. PICK m \in Nat : m = Len(a)
    BY <1>2
  <2>3. PICK n \in Nat : n = Len(b)
    BY <1>2
  <2>4. /\ Len(c) = m + n /\ \A i \in 1 .. m : c[i] = a[i]
        /\ \A i \in 1 .. n : c[m + i] = b[i]
    BY <1>2, <2>1, <2>2, <2>3
  <2>5. ASSUME NEW i \in 1 .. m + n PROVE c[i] # "ISOLATED"
    <3>1. CASE i \in 1 .. m
      BY <1>4, <2>2, <2>4, <3>1 DEF Quiet
    <3>2. CASE i \notin 1 .. m
      <4>1. i - m \in 1 .. n /\ i = m + (i - m)
        BY <3>2
      <4>2. PICK j \in 1 .. n : i = m + j
        BY <4>1
      <4> QED BY <1>4, <2>3, <2>4, <4>2 DEF Quiet
    <3> QED BY <3>1, <3>2
  <2> QED BY <2>1, <2>4, <2>5 DEF Quiet
<1> QED BY <1>1, <1>2, <1>3, <1>4 DEF Trails, QuietTrails

LEMMA OneEntry ==
  ASSUME NEW x \in Entries, x # "ISOLATED"
  PROVE  <<x>> \in Trails /\ <<x>> \in QuietTrails
<1>1. <<x>> \in Seq(Entries) /\ Len(<<x>>) = 1 /\ <<x>>[1] = x
  OBVIOUS
<1> QED BY <1>1 DEF Trails, QuietTrails, Told, Quiet

LEMMA TwoEntries ==
  ASSUME NEW x \in Entries, NEW y \in Entries
  PROVE  LET s == <<x>> \o <<y>>
         IN s \in Seq(Entries) /\ Len(s) = 2 /\ s[1] = x /\ s[2] = y
<1>1. <<x>> \in Seq(Entries) /\ Len(<<x>>) = 1 /\ <<x>>[1] = x
  OBVIOUS
<1>2. <<y>> \in Seq(Entries) /\ Len(<<y>>) = 1 /\ <<y>>[1] = y
  OBVIOUS
<1>3. ASSUME NEW a \in Seq(Entries), NEW b \in Seq(Entries), Len(a) = 1, Len(b) = 1
      PROVE  /\ a \o b \in Seq(Entries) /\ Len(a \o b) = 2
             /\ (a \o b)[1] = a[1] /\ (a \o b)[2] = b[1]
  <2>1. /\ a \o b \in Seq(Entries) /\ Len(a \o b) = Len(a) + Len(b)
        /\ \A i \in 1 .. Len(a) : (a \o b)[i] = a[i]
        /\ \A i \in 1 .. Len(b) : (a \o b)[Len(a) + i] = b[i]
    OBVIOUS
  <2> QED BY <1>3, <2>1
<1> QED BY <1>1, <1>2, <1>3

(* What one step leaves in the trail.                                       *)
LEMMA StepTold ==
  ASSUME NEW step \in Books!PlaybookStep, NEW context, NEW dry \in BOOLEAN
  PROVE  /\ Books!Isolated(step, context, dry) \o <<step>> \in Trails
         /\ dry => Books!Isolated(step, context, dry) \o <<step>> \in QuietTrails
<1>1. step \in Entries /\ step # "ISOLATED"
  BY DEF Entries, Books!PlaybookStep
<1>2. <<step>> \in Trails /\ <<step>> \in QuietTrails
  BY <1>1, OneEntry
<1>3. CASE Books!Isolated(step, context, dry) = <<>>
  BY <1>2, <1>3, TrailsJoin
<1>4. CASE step = "ISOLATE" /\ ~ dry /\ Books!Isolated(step, context, dry) = <<"ISOLATED">>
  <2>1. PICK x \in Entries : x = "ISOLATED"
    BY DEF Entries
  <2>2. PICK y \in Entries : y = step
    BY <1>1
  <2>3. PICK s : s = <<x>> \o <<y>>
    OBVIOUS
  <2>4. s \in Seq(Entries) /\ Len(s) = 2 /\ s[1] = x /\ s[2] = y
    BY <2>3, TwoEntries
  <2>5. \A i \in 1 .. Len(s) : s[i] = "ISOLATED" => i < Len(s) /\ s[i + 1] = "ISOLATE"
    <3>1. \A i \in 1 .. 2 : i = 1 \/ i = 2
      OBVIOUS
    <3>2. y = "ISOLATE" /\ y # "ISOLATED"
      BY <1>1, <1>4, <2>2
    <3> QED BY <2>4, <3>1, <3>2
  <2>6. s \in Trails
    BY <2>4, <2>5 DEF Trails, Told
  <2> QED BY <1>4, <2>1, <2>2, <2>3, <2>6
<1> QED BY <1>3, <1>4 DEF Books!Isolated

-----------------------------------------------------------------------------
(* The playbooks.                                                          *)

(* The step that raises, or 0.                                             *)
StopAt(s, context, dry) == Books!SelectInSeq(s, LAMBDA x : Books!Raises(x, context, dry))

LEMMA StopInRange ==
  ASSUME NEW s \in Seq(Books!PlaybookStep), NEW context, NEW dry \in BOOLEAN
  PROVE  StopAt(s, context, dry) \in 0 .. Len(s)
<1> DEFINE I == {i \in 1 .. Len(s) : Books!Raises(s[i], context, dry)}
<1>1. CASE I = {}
  <2>1. StopAt(s, context, dry) = 0
    BY Zenon, <1>1 DEF StopAt, Books!SelectInSeq
  <2>2. 0 \in 0 .. Len(s)
    OBVIOUS
  <2> QED BY <2>1, <2>2
<1>2. CASE I # {}
  <2>1. I \in SUBSET Nat
    OBVIOUS
  <2>2. PICK m \in I : \A y \in I : m <= y
    BY <1>2, <2>1, LeastExists
  <2>3. Books!Min(I) \in I
    <3> HIDE DEF I
    <3> QED BY <2>2 DEF Books!Min
  <2>4. StopAt(s, context, dry) = Books!Min(I)
    BY Zenon, <1>2 DEF StopAt, Books!SelectInSeq
  <2>5. Books!Min(I) \in 0 .. Len(s)
    BY <2>3
  <2> QED BY <2>4, <2>5
<1> QED BY <1>1, <1>2

LEMMA StepsTold ==
  ASSUME playbook \in Seq(Books!PlaybookStep), NEW context, NEW dry \in BOOLEAN
  PROVE  Books!Steps(context, dry) \in IF dry THEN QuietTrails ELSE Trails
<1> DEFINE K == IF dry THEN QuietTrails ELSE Trails
<1>1. PICK stop \in 0 .. Len(playbook) : stop = StopAt(playbook, context, dry)
  BY StopInRange
<1>2. PICK done \in Seq(Books!PlaybookStep) :
        done = IF stop = 0 THEN playbook ELSE SubSeq(playbook, 1, stop - 1)
  <2>1. CASE stop = 0
    BY <2>1
  <2>2. CASE stop # 0
    <3>1. 1 \in Int /\ stop - 1 \in Int /\ stop - 1 <= Len(playbook)
      BY <2>2
    <3>2. SubSeq(playbook, 1, stop - 1) \in Seq(Books!PlaybookStep)
      BY <3>1
    <3> QED BY <2>2, <3>2
  <2> QED BY <2>1, <2>2
<1>3. PICK n \in Nat : n = Len(done) /\ DOMAIN done = 1 .. n
  OBVIOUS
<1>4. PICK seqs : seqs = [i \in DOMAIN done |-> Books!Isolated(done[i], context, dry) \o <<done[i]>>]
  OBVIOUS
<1>5. Books!Steps(context, dry) = Books!FlattenSeq(seqs)
  BY Zenon, <1>1, <1>2, <1>4 DEF Books!Steps, StopAt
<1>6. \A i \in 1 .. n : seqs[i] \in K
  <2>1. ASSUME NEW i \in 1 .. n PROVE seqs[i] \in K
    <3>1. PICK step \in Books!PlaybookStep : step = done[i]
      BY <1>3
    <3>2. seqs[i] = Books!Isolated(step, context, dry) \o <<step>>
      BY <1>3, <1>4, <3>1
    <3> QED BY <3>2, StepTold
  <2> QED BY <2>1
<1>7. Len(seqs) = n /\ (n = 0 => seqs = <<>>)
  <2>1. DOMAIN seqs = 1 .. n
    BY <1>3, <1>4
  <2>2. PICK f \in [1 .. n -> K] : f = seqs
    BY <1>3, <1>4, <1>6, <2>1
  <2> HIDE DEF K
  <2>3. \A L : \A g \in [1 .. n -> L] : Len(g) = n /\ (n = 0 => g = <<>>)
    OBVIOUS
  <2> QED BY <2>2, <2>3
<1>8. <<>> \in K /\ \A a, b \in K : a \o b \in K
  BY TrailsJoin
<1> HIDE DEF K
<1>9. Books!FlattenSeq(seqs) \in K
  BY <1>6, <1>7, <1>8, FlattenStays
<1> QED BY <1>5, <1>9 DEF K

LastOf(s) == s[Len(s)]

BooksInv ==
  /\ playbook # Books!Unknown => playbook \in Seq(Books!PlaybookStep)
  /\ dryRun \in BOOLEAN /\ wasDry \in BOOLEAN
  /\ executions \in Nat /\ logged \in Nat /\ failed \in Nat /\ raised \in Nat
  /\ executions = logged + failed + raised
  /\ trail \in IF wasDry THEN QuietTrails ELSE Trails
  /\ wasDry => LastOf(trail) \in {"EXECUTE_COMPLETE", "EXECUTE_FAILED"}

LEMMA BooksInit == Books!Init => BooksInv
<1> SUFFICES ASSUME Books!Init PROVE BooksInv
  OBVIOUS
<1>1. Books!Default \in Seq(Books!PlaybookStep)
  <2>1. PICK P : P = Books!PlaybookStep
    OBVIOUS
  <2>2. \A a, b, c, d, e, f \in P : <<a, b, c, d, e, f>> \in Seq(P)
    OBVIOUS
  <2>3. /\ "DETECT" \in P /\ "ISOLATE" \in P /\ "ANALYZE" \in P
        /\ "REMEDIATE" \in P /\ "RECOVER" \in P /\ "REPORT" \in P
    BY <2>1 DEF Books!PlaybookStep
  <2> QED BY <2>1, <2>2, <2>3 DEF Books!Default
<1>2. trail \in Trails
  BY TrailsJoin DEF Books!Init
<1>3. wasDry = FALSE
  BY DEF Books!Init
<1>4. /\ wasDry \in BOOLEAN /\ trail \in IF wasDry THEN QuietTrails ELSE Trails
      /\ wasDry => LastOf(trail) \in {"EXECUTE_COMPLETE", "EXECUTE_FAILED"}
  BY <1>2, <1>3
<1>5. /\ playbook # Books!Unknown => playbook \in Seq(Books!PlaybookStep)
      /\ dryRun \in BOOLEAN
  BY <1>1 DEF Books!Init
<1>6. /\ executions \in Nat /\ logged \in Nat /\ failed \in Nat /\ raised \in Nat
      /\ executions = logged + failed + raised
  BY DEF Books!Init
<1> QED BY <1>4, <1>5, <1>6 DEF BooksInv

(* A closing entry.                                                         *)
LEMMA Closed ==
  ASSUME NEW K \in {Trails, QuietTrails}, NEW s \in K, NEW x \in Entries, x # "ISOLATED"
  PROVE  s \o <<x>> \in K /\ LastOf(s \o <<x>>) = x
<1>1. <<x>> \in K
  BY OneEntry
<1>2. s \in Seq(Entries) /\ <<x>> \in Seq(Entries) /\ Len(<<x>>) = 1 /\ <<x>>[1] = x
  BY DEF Trails, QuietTrails
<1>3. Len(s \o <<x>>) = Len(s) + 1 /\ (s \o <<x>>)[Len(s) + 1] = x
  BY <1>2
<1> QED BY <1>1, <1>3, TrailsJoin DEF LastOf

LEMMA BooksStep == BooksInv /\ [Books!Next]_Books!vars => BooksInv'
<1> SUFFICES ASSUME BooksInv, [Books!Next]_Books!vars PROVE BooksInv'
  OBVIOUS
<1>1. CASE Books!Execute
  <2>1. PICK z \in {"some", "none", "None"}, th \in {"high", "None"}, dry \in BOOLEAN :
          LET context == [zones |-> z, threat |-> th]
              isDry == dryRun \/ dry
              isKnown == playbook # Books!Unknown
              ends == isKnown /\ \A i \in DOMAIN playbook : ~ Books!Raises(playbook[i], context, isDry)
          IN /\ executions < MaxExecutions
             /\ executions' = executions + 1
             /\ trail' = <<"EXECUTE_START">>
                           \o (IF isKnown THEN Books!Steps(context, isDry) ELSE <<"EXECUTE_FAILED">>)
                           \o (IF ends THEN <<"EXECUTE_COMPLETE">> ELSE <<>>)
             /\ wasDry' = isDry
             /\ logged' = logged + (IF ends THEN 1 ELSE 0)
             /\ failed' = failed + (IF isKnown THEN 0 ELSE 1)
             /\ raised' = raised + (IF isKnown /\ ~ ends THEN 1 ELSE 0)
             /\ UNCHANGED <<playbook, dryRun>>
    BY <1>1 DEF Books!Execute
  <2>2. PICK context : context = [zones |-> z, threat |-> th]
    OBVIOUS
  <2>3. PICK isDry \in BOOLEAN : isDry = (dryRun \/ dry)
    BY DEF BooksInv
  <2>4. PICK isKnown \in BOOLEAN : isKnown = (playbook # Books!Unknown)
    OBVIOUS
  <2>5. PICK ends \in BOOLEAN :
          ends = (isKnown /\ \A i \in DOMAIN playbook : ~ Books!Raises(playbook[i], context, isDry))
    OBVIOUS
  <2>6. PICK middle : middle = IF isKnown THEN Books!Steps(context, isDry) ELSE <<"EXECUTE_FAILED">>
    OBVIOUS
  <2>7. /\ executions' = executions + 1
        /\ trail' = <<"EXECUTE_START">> \o middle \o (IF ends THEN <<"EXECUTE_COMPLETE">> ELSE <<>>)
        /\ wasDry' = isDry
        /\ logged' = logged + (IF ends THEN 1 ELSE 0)
        /\ failed' = failed + (IF isKnown THEN 0 ELSE 1)
        /\ raised' = raised + (IF isKnown /\ ~ ends THEN 1 ELSE 0)
        /\ UNCHANGED <<playbook, dryRun>>
    BY <2>1, <2>2, <2>3, <2>4, <2>5, <2>6
  <2>8. ends => isKnown
    BY <2>5
  <2>9. isDry /\ isKnown => ends
    BY <2>5 DEF Books!Raises
  <2>10. PICK K \in {Trails, QuietTrails} : K = IF isDry THEN QuietTrails ELSE Trails
    OBVIOUS
  <2>11. /\ "EXECUTE_START" \in Entries /\ "EXECUTE_FAILED" \in Entries
         /\ "EXECUTE_COMPLETE" \in Entries
    BY DEF Entries
  <2>12. <<"EXECUTE_START">> \in K
    BY <2>10, <2>11, OneEntry
  <2>13. PICK head \in K : head = <<"EXECUTE_START">> \o middle
    <3>1. CASE isKnown
      <4>1. playbook \in Seq(Books!PlaybookStep)
        BY <2>4, <3>1 DEF BooksInv
      <4>2. middle \in K
        BY <2>6, <2>10, <3>1, <4>1, StepsTold
      <4> QED BY <2>12, <4>2, <2>10, TrailsJoin
    <3>2. CASE ~ isKnown
      <4>1. middle = <<"EXECUTE_FAILED">>
        BY <2>6, <3>2
      <4>2. middle \in K
        BY <2>10, <2>11, <4>1, OneEntry
      <4> QED BY <2>12, <4>2, <2>10, TrailsJoin
    <3> QED BY <3>1, <3>2
  <2>14. trail' \in K /\ (isDry => LastOf(trail') \in {"EXECUTE_COMPLETE", "EXECUTE_FAILED"})
    <3>1. CASE ends
      <4>1. trail' = head \o <<"EXECUTE_COMPLETE">>
        BY <2>7, <2>13, <3>1
      <4> QED BY <2>11, <4>1, Closed
    <3>2. CASE ~ ends
      <4>1. trail' = head \o <<>> /\ head \o <<>> = head
        <5>1. head \in Seq(Entries)
          BY <2>10 DEF Trails, QuietTrails
        <5> QED BY <2>7, <2>13, <3>2, <5>1
      <4>2. ASSUME isDry PROVE LastOf(head) = "EXECUTE_FAILED"
        <5>1. middle = <<"EXECUTE_FAILED">>
          BY <2>6, <2>9, <3>2, <4>2
        <5> QED BY <2>11, <2>12, <2>13, <5>1, Closed
      <4> QED BY <4>1, <4>2
    <3> QED BY <3>1, <3>2
  <2>15. /\ executions' \in Nat /\ logged' \in Nat /\ failed' \in Nat /\ raised' \in Nat
         /\ executions' = logged' + failed' + raised'
    BY <2>7, <2>8 DEF BooksInv
  <2>16. trail' \in IF wasDry' THEN QuietTrails ELSE Trails
    BY <2>7, <2>10, <2>14
  <2>17. wasDry' => LastOf(trail') \in {"EXECUTE_COMPLETE", "EXECUTE_FAILED"}
    BY <2>7, <2>14
  <2> QED BY <2>7, <2>15, <2>16, <2>17 DEF BooksInv, LastOf
<1>2. CASE Books!RegisterPlaybook
  <2>1. playbook' \in Seq(Books!PlaybookStep)
    BY <1>2, ProtectionsAssumption DEF Books!RegisterPlaybook
  <2> QED BY <1>2, <2>1 DEF Books!RegisterPlaybook, BooksInv, LastOf
<1>3. CASE Books!SetDryRun
  BY <1>3 DEF Books!SetDryRun, BooksInv, LastOf
<1>4. CASE UNCHANGED Books!vars
  BY <1>4 DEF Books!vars, BooksInv, LastOf
<1> QED BY <1>1, <1>2, <1>3, <1>4 DEF Books!Next

LEMMA BooksSafe == BooksInv => Books!TrailTellsAll
<1> SUFFICES ASSUME BooksInv PROVE Books!TrailTellsAll
  OBVIOUS
<1>1. trail \in Seq(Entries) /\ DOMAIN trail = 1 .. Len(trail)
  BY DEF BooksInv, Trails, QuietTrails
<1>2. ASSUME wasDry
      PROVE  /\ ~ Books!Contains(trail, "ISOLATED")
             /\ Books!Last(trail) \in {"EXECUTE_COMPLETE", "EXECUTE_FAILED"}
  <2>1. Quiet(trail)
    BY <1>2 DEF BooksInv, QuietTrails
  <2>2. ~ Books!Contains(trail, "ISOLATED")
    BY <2>1 DEF Books!Contains, Quiet
  <2> QED BY <1>2, <2>2 DEF BooksInv, LastOf, Books!Last
<1>3. Told(trail)
  BY DEF BooksInv, Trails, QuietTrails, Told, Quiet
<1> QED BY <1>1, <1>2, <1>3 DEF BooksInv, Told, Books!TrailTellsAll

-----------------------------------------------------------------------------

(* All of them together: a step is one of one part, and the others rest.    *)
AllInv == /\ Inv /\ CoolantInv /\ WaterInv /\ PueInv /\ Immune!TypeOK
          /\ DriftInv /\ FleetInv /\ BooksInv

LEMMA AllStart == AllInit => AllInv
<1> SUFFICES ASSUME AllInit PROVE AllInv
  OBVIOUS
<1>1. /\ Init /\ Fluid!Init /\ Plant!Init /\ Pue!Init /\ Immune!Init /\ Servers!Init
      /\ Ghost!Init /\ Books!Init
  BY DEF AllInit
<1>2. Inv /\ CoolantInv /\ WaterInv /\ PueInv
  BY <1>1, InvInit, CoolantInit, WaterInit, PueInit
<1>3. Immune!TypeOK /\ DriftInv /\ FleetInv /\ BooksInv
  BY <1>1, ImmuneInit, DriftInit, FleetInit, BooksInit
<1> QED BY <1>2, <1>3 DEF AllInv

LEMMA OnePartMoves ==
  ASSUME [AllNext]_allVars
  PROVE  /\ [Next]_vars /\ [Fluid!Next]_Fluid!vars /\ [Plant!Next]_Plant!vars
         /\ [Pue!Next]_Pue!vars /\ [Immune!Next]_Immune!vars /\ [Ghost!Next]_Ghost!vars
         /\ [Servers!Next]_Servers!vars /\ [Books!Next]_Books!vars
<1>1. UNCHANGED coolantVars => UNCHANGED Fluid!vars
  BY DEF coolantVars, Fluid!vars
<1>2. UNCHANGED waterVars => UNCHANGED Plant!vars
  BY DEF waterVars, Plant!vars
<1>3. UNCHANGED pueVars => UNCHANGED Pue!vars
  BY DEF pueVars, Pue!vars
<1>4. UNCHANGED immuneVars => UNCHANGED Immune!vars
  BY DEF immuneVars, Immune!vars
<1>5. UNCHANGED driftVars => UNCHANGED Ghost!vars
  BY DEF driftVars, Ghost!vars
<1>6. UNCHANGED fleetVars => UNCHANGED Servers!vars
  BY DEF fleetVars, Servers!vars
<1>7. UNCHANGED incidentVars => UNCHANGED Books!vars
  BY DEF incidentVars, Books!vars
<1>8. CASE UNCHANGED allVars
  BY <1>1, <1>2, <1>3, <1>4, <1>5, <1>6, <1>7, <1>8 DEF allVars
<1>9. CASE (InShield /\ Next) \/ (InCoolant /\ Fluid!Next) \/ (InWater /\ Plant!Next)
  BY <1>1, <1>2, <1>3, <1>4, <1>5, <1>6, <1>7, <1>9 DEF InShield, InCoolant, InWater
<1>10. CASE (InPue /\ Pue!Next) \/ (InImmune /\ Immune!Next) \/ (InDrift /\ Ghost!Next)
  BY <1>1, <1>2, <1>3, <1>4, <1>5, <1>6, <1>7, <1>10 DEF InPue, InImmune, InDrift
<1>11. CASE (InFleet /\ Servers!Next) \/ (InIncident /\ Books!Next)
  BY <1>1, <1>2, <1>3, <1>4, <1>5, <1>6, <1>7, <1>11 DEF InFleet, InIncident
<1> QED BY <1>8, <1>9, <1>10, <1>11 DEF AllNext

LEMMA AllMove == AllInv /\ [AllNext]_allVars => AllInv'
<1> SUFFICES ASSUME AllInv, [AllNext]_allVars PROVE AllInv'
  OBVIOUS
<1>1. Inv' /\ CoolantInv' /\ WaterInv' /\ PueInv'
  BY OnePartMoves, InvStep, CoolantStep, WaterStep, PueStep DEF AllInv
<1>2. Immune!TypeOK' /\ DriftInv' /\ FleetInv' /\ BooksInv'
  BY OnePartMoves, ImmuneStep, DriftStep, FleetStep, BooksStep DEF AllInv
<1> QED BY <1>1, <1>2 DEF AllInv

LEMMA AllAlways == AllSpec => []AllInv
BY AllStart, AllMove, PTL DEF AllSpec, SafeSpec

(* The fields of the parts beside the shield hold values their code can     *)
(* give them: scores and ages stay in range, the histories, windows and     *)
(* key lists are cut to their length, and no more checks comply than are    *)
(* made (tick, ingest, check_discharge).                                    *)
THEOREM ProtectionsTypeCorrect == AllSpec => []TypesOK
<1>1. AllInv => TypesOK
  BY CoolantSafe, DriftSafe DEF AllInv, WaterInv, PueInv, TypesOK
<1> QED BY <1>1, AllAlways, PTL

(* For every number of racks, list of zones, sequence of errors, stage that *)
(* goes on or off, and playbook: solids the permit finds too high were      *)
(* alerted in the tick that made the water; every component lays out each   *)
(* rack once, and the fleet has counted the errors its GPUs show; and the   *)
(* trail tells how an execution went (check_discharge, the racks' layouts   *)
(* and ingest, execute).                                                    *)
THEOREM ReportsHold == AllSpec => []ReportsAreTrue
<1>1. AllInv => ReportsAreTrue
  BY FleetSafe, BooksSafe DEF AllInv, WaterInv, ReportsAreTrue
<1> QED BY <1>1, AllAlways, PTL
=============================================================================
