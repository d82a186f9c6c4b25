------------------------------- MODULE GhostEmber -------------------------------
(***************************************************************************)
(* The drift detection of Ghost Ember (security/ghost_ember.py): each      *)
(* sensor's average, the window of its latest averages, and the flag that  *)
(* is raised when the newest is far from the oldest.                       *)
(*                                                                         *)
(* An average is a level; how far a value pulls it is a choice, and so is  *)
(* how many deviations the value lies from the average before. The logs    *)
(* and counters only grow and are left out.                                *)
(***************************************************************************)
EXTENDS Integers, Sequences, SequencesExt

CONSTANTS
  Sensors,
  Levels,        \* levels an average takes
  WindowSize,    \* drift_window_size
  MinWindow,     \* averages before drift is looked at
  Threshold      \* drift_threshold_pct

VARIABLES
  averages,      \* drift_window, by sensor; empty before its first value
  drifted,       \* drift_detected
  severity       \* severity of the last value ingested

vars == <<averages, drifted, severity>>

Init ==
  /\ averages = [s \in Sensors |-> <<>>]
  /\ drifted = [s \in Sensors |-> FALSE]
  /\ severity = "normal"

Abs(n) == IF n < 0 THEN - n ELSE n

\* Fault: the oldest averages are kept.
Grown(window, level) ==
  IF Len(window) = WindowSize THEN Append(Front(window), level) ELSE Append(window, level)

\* The window with one more average: its newest WindowSize.
Slid(window, level) ==
  IF Len(window) = WindowSize THEN Append(Tail(window), level) ELSE Append(window, level)

\* The drift is above pct percent of the oldest average.
Above(window, pct) == 100 * Abs(Last(window) - Head(window)) > pct * Abs(Head(window))
HalfAbove(window) == 200 * Abs(Last(window) - Head(window)) >= Threshold * Abs(Head(window))

\* _detect_drift: the flag goes up beyond the threshold and down below half of it;
\* a short window, or one whose oldest average is 0, leaves it alone.
Detected(window, flag) ==
  IF Len(window) < MinWindow \/ Head(window) = 0 THEN flag
  ELSE Above(window, Threshold) \/ (flag /\ HalfAbove(window))

\* ingest. The first value of a sensor becomes its average and deviates from nothing.
Ingest(s) ==
  /\ \E level \in Levels : averages' = [averages EXCEPT ![s] = Slid(@, level)]
  /\ drifted' = [drifted EXCEPT ![s] = Detected(averages'[s], @)]
  /\ severity' \in IF averages[s] = <<>> THEN {"normal"} ELSE {"normal", "alert", "critical"}

Next == \E s \in Sensors : Ingest(s)

\* Sensors keep reporting.
Fairness == \A s \in Sensors : WF_vars(Ingest(s))

Spec == Init /\ [][Next]_vars /\ Fairness

-----------------------------------------------------------------------------
(* Properties.                                                             *)

TypeOK ==
  /\ \A s \in Sensors : averages[s] \in BoundedSeq(Levels, WindowSize)
  /\ drifted \in [Sensors -> BOOLEAN]
  /\ severity \in {"normal", "alert", "critical"}

\* The sensor's values leave its average where it is.
Settled(s, level) == averages[s] # <<>> /\ Last(averages[s]) = level

(* A sensor that settles at another level is not flagged for ever: its old *)
(* level leaves the window. (Unless it settles at 0: a window of zeros is  *)
(* not looked at, and the flag stays.)                                     *)
DriftIsForgotten ==
  \A s \in Sensors : \A level \in Levels \ {0} :
    <>[]Settled(s, level) => <>[](~ drifted[s])
=============================================================================
