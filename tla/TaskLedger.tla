----------------------------- MODULE TaskLedger ------------------------------
(***************************************************************************)
(* What the task runtime promises its clients, without queue, coroutines   *)
(* or load counters: a submitted task waits, runs on one of the pistons    *)
(* allowed to it while that piston has a free slot, and is started again   *)
(* after a failure until its budget is used up.                            *)
(***************************************************************************)
EXTENDS Naturals, FiniteSets

CONSTANTS Tasks, Pistons, NoPiston, MaxRetries, Matches, MaxConcurrent

VARIABLES
  stage,    \* where each task is in its life
  runsOn,   \* the piston it runs on
  starts    \* how often it was started

ledger == <<stage, runsOn, starts>>

Stages == {"new", "waiting", "RUNNING", "COMPLETED", "FAILED",
           "BLOCKED_UNBOUND", "abandoned"}

Init ==
  /\ stage = [t \in Tasks |-> "new"]
  /\ runsOn = [t \in Tasks |-> NoPiston]
  /\ starts = [t \in Tasks |-> 0]

Move(t, from, to) == stage[t] = from /\ stage' = [stage EXCEPT ![t] = to]

Leave(t, to) ==
  /\ Move(t, "RUNNING", to)
  /\ runsOn' = [runsOn EXCEPT ![t] = NoPiston]
  /\ UNCHANGED starts

Submit(t) == Move(t, "new", "waiting") /\ UNCHANGED <<runsOn, starts>>

Block(t) == Move(t, "waiting", "BLOCKED_UNBOUND") /\ UNCHANGED <<runsOn, starts>>

Start(t, p) ==
  /\ p \in Matches[t]
  /\ Cardinality({u \in Tasks : runsOn[u] = p}) < MaxConcurrent[p]
  /\ Move(t, "waiting", "RUNNING")
  /\ runsOn' = [runsOn EXCEPT ![t] = p]
  /\ starts' = [starts EXCEPT ![t] = @ + 1]

Complete(t) == Leave(t, "COMPLETED")
Retry(t)    == starts[t] <= MaxRetries[t] /\ Leave(t, "waiting")
GiveUp(t)   == starts[t] = MaxRetries[t] + 1 /\ Leave(t, "FAILED")
Abandon(t)  == Leave(t, "abandoned")

Next == \E t \in Tasks :
  \/ Submit(t) \/ Block(t) \/ Complete(t) \/ Retry(t) \/ GiveUp(t) \/ Abandon(t)
  \/ \E p \in Pistons : Start(t, p)

Spec == Init /\ [][Next]_ledger
=============================================================================
