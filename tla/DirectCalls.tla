----------------------------- MODULE DirectCalls -----------------------------
(***************************************************************************)
(* The task runtime when clients also call assign_task and run_task        *)
(* themselves, beside the coroutines that drain the queue. run_task trusts *)
(* an assignment it finds on the task, which may be old.                   *)
(***************************************************************************)
EXTENDS TaskRuntime

CONSTANT MaxStarts   \* bound: direct calls stop after this many starts of a task

AssignTask(t) ==
  /\ onLoop = NoWorker
  /\ \E p \in Best(t) :
       /\ assigned' = [assigned EXCEPT ![t] = p]
       /\ load' = [load EXCEPT ![p] = @ + 1]
  /\ state' = [state EXCEPT ![t] = "ASSIGNED"]
  /\ UNCHANGED <<tasks, queueVars, retries, status, tallyVars, boundVars,
                 workerVars, onLoop, history>>

\* A coroutine calls run_task on a task of its choice.
Calls(w, t) == onLoop = NoWorker /\ at[w] = "idle" /\ attempts[t] < MaxStarts

RunUnassigned(w, t) ==
  /\ Calls(w, t) /\ assigned[t] = NoPiston
  /\ \E p \in Best(t) : /\ load' = [load EXCEPT ![p] = @ + 1]
                        /\ Begin(w, t, p, "direct")
  /\ UNCHANGED <<tasks, queueVars, tallyVars, boundVars, budget>>

RunBlocked(w, t) ==
  /\ Calls(w, t) /\ assigned[t] = NoPiston
  /\ Candidates(t) = {}
  /\ state' = [state EXCEPT ![t] = "BLOCKED_UNBOUND"]
  /\ UNCHANGED <<tasks, queueVars, assigned, retries, loadVars, tallyVars,
                 boundVars, workerVars, onLoop, history>>

\* The assignment is taken as it stands: no capacity check, no increment.
RunAssigned(w, t) ==
  /\ Calls(w, t) /\ assigned[t] # NoPiston /\ Executable(assigned[t])
  /\ Begin(w, t, assigned[t], "direct")
  /\ UNCHANGED <<tasks, queueVars, load, tallyVars, boundVars, budget>>

\* The assigned piston lost its handler: the attempt fails where it stands.
RunUnbound(w, t) ==
  LET p == assigned[t] IN
  /\ Calls(w, t) /\ p # NoPiston /\ ~ Executable(p)
  /\ RetryOrFail(t)
  /\ failed' = [failed EXCEPT ![p] = @ + 1]
  /\ load' = [load EXCEPT ![p] = IF @ > 0 THEN @ - 1 ELSE 0]
  /\ status' = [status EXCEPT ![p] = "idle"]
  /\ attempts' = [attempts EXCEPT ![t] = @ + 1]
  /\ UNCHANGED <<tasks, assigned, completed, boundVars, workerVars, onLoop,
                 cancelled>>

RunTask(w, t) == \/ RunUnassigned(w, t) \/ RunBlocked(w, t)
                 \/ RunAssigned(w, t) \/ RunUnbound(w, t)

OpenNext == \/ Next
            \/ \E w \in Workers : \E e \in queue : DropEntry(w, e)
            \/ \E t \in Tasks : AssignTask(t)
            \/ \E w \in Workers, t \in Tasks : RunTask(w, t)

OpenSpec == Init /\ [][OpenNext]_vars

-----------------------------------------------------------------------------
Queued(t) == \E e \in queue : e.task = t

(* Whatever mix of calls is made, a task that waits (for its first start   *)
(* after submit_task, or for a retry) has a live entry in the queue:       *)
(* entries are dropped only when their task is not waiting, and a task     *)
(* waits again only together with a new entry.                             *)
WaitingIsQueued ==
  \A t \in Tasks :
    /\ state[t] = "RETRYING" => Queued(t)
    /\ state[t] = "PENDING" /\ t \in Submitted => Queued(t)

(* Whatever mix of calls is made, the load counters stay between zero and  *)
(* max_concurrent and no retry goes over the task's budget.                *)
CountersInBounds ==
  /\ \A p \in Pistons : load[p] \in 0 .. MaxConcurrent[p]
  /\ \A t \in Tasks : retries[t] \in 0 .. MaxRetries[t]

(* A piston runs at most max_concurrent different tasks at a time.         *)
PistonCapacity ==
  \A p \in Pistons :
    Cardinality({holds[w] : w \in On(p)}) <= MaxConcurrent[p]
=============================================================================
