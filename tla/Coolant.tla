-------------------------------- MODULE Coolant --------------------------------
(***************************************************************************)
(* Coolant (nanosphere/conductivity_engine.py, degradation_lifecycle.py,   *)
(* stability_engine.py): every circuit holds a batch of nanofluid that the *)
(* engine's tick ages, assesses and, once its circuit is flagged, puts     *)
(* down for replacement; operators evaluate, schedule and retire batches.  *)
(*                                                                         *)
(* Ages are in steps of 20 days, of which HalfLife is nine: a step costs   *)
(* one point in a hundred of the stability score. The many ticks of a step *)
(* repeat the assessment at one age. Settling is that of aluminium oxide,  *)
(* sizes are in nm and fractions in percent.                               *)
(***************************************************************************)
EXTENDS Naturals

CONSTANTS
  Circuits,
  Sizes,       \* particle_size_nm of the configuration
  Fractions,   \* volume_fraction
  HalfLife,    \* half_life_days of the particle
  MaxAge       \* bound: the oldest age of a run

VARIABLES
  size, fraction,   \* configuration of the engine
  clock,            \* the age a tick gives to every batch
  batch,            \* circuit -> the lifecycle of its batch and its own flag
  retired           \* retired_count

vars == <<size, fraction, clock, batch, retired>>

LifecycleState == {"ACTIVE", "DEGRADATION_WARNING", "REPLACEMENT_DUE",
                   "REPLACEMENT_SCHEDULED", "RETIRED"}

Init ==
  /\ size \in Sizes /\ fraction \in Fractions
  /\ clock = 0 /\ retired = 0
  /\ batch = [c \in Circuits |->
       [state |-> "ACTIVE", age |-> 0, score |-> 100, flagged |-> FALSE]]

-----------------------------------------------------------------------------
(* The lifecycle: 2 ^ (-age / HalfLife) against three quarters and a half. *)

Worn(age) == 1000 * age >= 415 * HalfLife

Aged(r, age) ==
  [r EXCEPT !.age = age, !.state =
     IF @ \in {"ACTIVE", "DEGRADATION_WARNING"} /\ age >= HalfLife THEN "REPLACEMENT_DUE"
     ELSE IF @ = "ACTIVE" /\ Worn(age) THEN "DEGRADATION_WARNING" ELSE @]

Scheduled(r) ==
  IF r.state = "REPLACEMENT_DUE" THEN [r EXCEPT !.state = "REPLACEMENT_SCHEDULED"] ELSE r

-----------------------------------------------------------------------------
(* The stability score, a number of a hundred; the zeta potential is made  *)
(* from the score before it.                                               *)

Zeta(score) == IF 30 + (score % 10) > 35 THEN 40 ELSE 30

Settling == CASE size <= 58 -> 30 [] size \in 59 .. 410 -> 20
              [] size \in 411 .. 1297 -> 10 [] OTHER -> 0

Agglomeration == CASE fraction > 10 -> 0 [] fraction \in 7 .. 10 -> 5
                   [] fraction \in 5 .. 6 -> 10 [] fraction \in 3 .. 4 -> 15 [] OTHER -> 20

\* Ties go to the even number.
Rounded(n) ==
  LET q == n \div 100 IN
  IF n % 100 > 50 \/ (n % 100 = 50 /\ q % 2 = 1) THEN q + 1 ELSE q

Score(r) ==
  Rounded((Zeta(r.score) + Settling + Agglomeration)
            * (100 - (IF r.age < 20 THEN r.age ELSE 20)))

\* A flag that is set stays.
Assessed(r) == [r EXCEPT !.score = Score(r), !.flagged = @ \/ Score(r) < 60]

-----------------------------------------------------------------------------
(* The engine's tick, and the operators.                                   *)

\* Fault: a circuit is looked at for replacement only when it is flagged.
TickedOnce(r, age) ==
  IF r.state = "RETIRED" THEN r
  ELSE LET s == Assessed(Aged(r, age))
       IN IF s.flagged /\ ~ r.flagged THEN Scheduled(s) ELSE s

Ticked(r, age) ==
  IF r.state = "RETIRED" THEN r
  ELSE LET s == Assessed(Aged(r, age)) IN IF s.flagged THEN Scheduled(s) ELSE s

TickAt(age) == /\ clock' = age
               /\ batch' = [c \in Circuits |-> Ticked(batch[c], age)]
               /\ UNCHANGED <<size, fraction, retired>>

Tick == TickAt(clock)

Older == clock < MaxAge /\ TickAt(clock + 1)

\* evaluate_batch, which counts days per tick in another way than the engine.
Evaluate == \E c \in Circuits, age \in {0, HalfLife} :
  /\ batch' = [batch EXCEPT ![c] = Aged(@, age)]
  /\ UNCHANGED <<size, fraction, clock, retired>>

ScheduleReplacement == \E c \in Circuits :
  /\ batch[c].state = "REPLACEMENT_DUE"
  /\ batch' = [batch EXCEPT ![c] = Scheduled(@)]
  /\ UNCHANGED <<size, fraction, clock, retired>>

RetireBatch == \E c \in Circuits :
  /\ batch[c].state \in {"REPLACEMENT_DUE", "REPLACEMENT_SCHEDULED"}
  /\ batch' = [batch EXCEPT ![c].state = "RETIRED"]
  /\ retired' = retired + 1
  /\ UNCHANGED <<size, fraction, clock>>

Next == Tick \/ Older \/ Evaluate \/ ScheduleReplacement \/ RetireBatch

\* The engine ticks, and coolant ages, while run() goes on and MICROWAVE is active.
Fairness == WF_vars(Tick) /\ WF_vars(Older)

Spec == Init /\ [][Next]_vars /\ Fairness

-----------------------------------------------------------------------------
(* Properties.                                                             *)

(* Every batch has one of the five states, the retired are counted once,   *)
(* and no score leaves its range.                                          *)
TypeOK ==
  /\ clock \in 0 .. MaxAge /\ retired \in Nat
  /\ batch \in [Circuits -> [state : LifecycleState, age : 0 .. MaxAge,
                             score : 0 .. 100, flagged : BOOLEAN]]

(* A circuit flagged as unstable, at whatever age and whatever operators    *)
(* do, in the end has its batch scheduled for replacement or retired. (One  *)
(* that is never flagged stays due for good, however old.)                  *)
FlaggedIsReplaced ==
  \A c \in Circuits : batch[c].flagged
    ~> batch[c].state \in {"REPLACEMENT_SCHEDULED", "RETIRED"}

=============================================================================
