--------------------------- MODULE MCTaskRuntime ----------------------------
(* Small instances of TaskRuntime: two pistons, one of them executable only *)
(* through a subsystem, and two tasks that retry once.                      *)
EXTENDS TaskRuntime, TLC

CONSTANTS t1, t2, t3, p1, p2, s1

\* One task has a single matching piston, the other may use both.
TwoMatches == t1 :> {p1} @@ t2 :> {p1, p2}
TwoPriorities == t1 :> 1 @@ t2 :> 0
TwoRetries == t1 :> 1 @@ t2 :> 1

ThreeMatches == t1 :> {p1} @@ t2 :> {p1} @@ t3 :> {p1}
MixedMatches == t1 :> {p1} @@ t2 :> {p1, p2} @@ t3 :> {p2}
ThreePriorities == t1 :> 1 @@ t2 :> 0 @@ t3 :> 1
ThreeRetries == t1 :> 1 @@ t2 :> 1 @@ t3 :> 0

OneRef == p1 :> NoSubsystem
TwoRefs == p1 :> NoSubsystem @@ p2 :> s1
OneEach == [p \in Pistons |-> 1]
=============================================================================
