--------------------------- MODULE MCDirectCalls ----------------------------
(* A small instance of DirectCalls: two tasks, and one piston whose         *)
(* handler comes and goes.                                                  *)
EXTENDS DirectCalls, TLC

CONSTANTS t1, t2, p1

AllMatch == [t \in Tasks |-> Pistons]
TwoPriorities == t1 :> 1 @@ t2 :> 0
OneRetry == [t \in Tasks |-> 1]
OneRef == p1 :> NoSubsystem
OneEach == [p \in Pistons |-> 1]
=============================================================================
