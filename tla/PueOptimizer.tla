------------------------------ MODULE PueOptimizer ------------------------------
(***************************************************************************)
(* PueOptimizer (energy/pue_optimizer.py): samples of the power usage      *)
(* effectiveness, their rolling average, and recommendations, which start  *)
(* a cooldown during which there are none. Clients sample and read, and    *)
(* reading recommends too; the tick recommends when the average is         *)
(* critical. The ratio is in hundredths; what is left of the cooldown      *)
(* stands for the time of the last recommendation.                         *)
(***************************************************************************)
EXTENDS Integers, Sequences, SequencesExt

CONSTANTS
  Ratios,       \* that are sampled
  HistoryMax,   \* history_max
  Window,       \* rolling_avg_window
  Cooldown      \* recommendation_cooldown_s, in steps of the clock

VARIABLES
  history,
  cooldown,    \* time left in which nothing is recommended
  adjusted     \* history: cooling was adjusted since the average is critical

vars == <<history, cooldown, adjusted>>

Init == history = <<>> /\ cooldown = 0 /\ adjusted = FALSE

-----------------------------------------------------------------------------
\* The sum and the length of what the average is taken over.
Recent(samples) ==
  LET n == IF Len(samples) < Window THEN Len(samples) ELSE Window
  IN [sum |-> FoldSeq(LAMBDA x, y : x + y, 0, SubSeq(samples, Len(samples) - n + 1, Len(samples))),
      count |-> n]

Classify(r) ==
  CASE r.sum <= 103 * r.count -> "optimal"
    [] r.sum > 103 * r.count /\ r.sum <= 110 * r.count -> "nominal"
    [] r.sum > 110 * r.count /\ r.sum <= 115 * r.count -> "warning"
    [] r.sum > 115 * r.count /\ r.sum <= 120 * r.count -> "critical"
    [] OTHER -> "emergency"

\* get_pue without a sample yet takes the ratio to be one.
Class(samples) == IF samples = <<>> THEN "optimal" ELSE Classify(Recent(samples))

IsCritical(samples) == Class(samples) \in {"critical", "emergency"}

\* The history is cut to the later half of its limit when it overflows.
Sampled(p) ==
  LET grown == Append(history, p) IN
  IF Len(grown) > HistoryMax
  THEN SubSeq(grown, Len(grown) + ((-HistoryMax) \div 2) + 1, Len(grown)) ELSE grown

\* Fault: what is not recommended starts the cooldown over.
RecommendSliding(samples) ==
  /\ cooldown' = IF Class(samples) \in {"warning", "critical", "emergency"}
                 THEN Cooldown ELSE cooldown
  /\ adjusted' = (IsCritical(samples) /\ (adjusted \/ cooldown = 0))

\* A warning starts the cooldown, a critical average adjusts the cooling as well.
Recommend(samples) ==
  /\ cooldown' = IF cooldown = 0 /\ Class(samples) \in {"warning", "critical", "emergency"}
                 THEN Cooldown ELSE cooldown
  /\ adjusted' = (IsCritical(samples) /\ (adjusted \/ cooldown = 0))

Sample == \E p \in Ratios :
  /\ history' = Sampled(p)
  /\ adjusted' = (adjusted /\ IsCritical(history'))
  /\ UNCHANGED cooldown

GetPue ==
  /\ history' \in {history} \cup {Sampled(p) : p \in Ratios}
  /\ Recommend(history')

Tick == IsCritical(history) /\ Recommend(history) /\ UNCHANGED history

TimePasses == cooldown > 0 /\ cooldown' = cooldown - 1 /\ UNCHANGED <<history, adjusted>>

Next == Sample \/ GetPue \/ Tick \/ TimePasses

\* Ticks come while run() goes on and the mode keeps GHOST active; time passes.
Fairness == WF_vars(Tick) /\ WF_vars(TimePasses)

Spec == Init /\ [][Next]_vars /\ Fairness

-----------------------------------------------------------------------------
(* Properties.                                                             *)

(* The history keeps to its limit, and the cooldown is one at most.        *)
TypeOK == /\ history \in Seq(Ratios) /\ Len(history) <= HistoryMax
          /\ cooldown \in 0 .. Cooldown /\ adjusted \in BOOLEAN

(* An average that stays critical gets its cooling adjusted, although the   *)
(* warning before it and everyone who reads it start the cooldown: it is    *)
(* not postponed for good.                                                  *)
CriticalIsAnswered == IsCritical(history) ~> adjusted \/ ~ IsCritical(history)

=============================================================================
