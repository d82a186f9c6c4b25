----------------------------- MODULE TaskRuntime -----------------------------
(***************************************************************************)
(* The task runtime of MastermindOrchestrator                              *)
(* (core/mastermind_orchestrator.py): a priority queue of tasks, pistons   *)
(* with a load counter, and coroutines that drain the queue concurrently   *)
(* on one asyncio event loop.                                              *)
(*                                                                         *)
(* A coroutine runs without interruption between two suspension points,    *)
(* and the only one of this code is the await of a task's handler: getting *)
(* from a non-empty queue and putting on an unbounded one never suspend.   *)
(* onLoop names the coroutine that has the event loop in between.          *)
(*                                                                         *)
(* Spec is the use the runtime makes of itself (submit_task, tick and its  *)
(* process_tasks, handlers registered and lost, coroutines cancelled).     *)
(* DirectCalls adds callers of run_task and assign_task.                   *)
(***************************************************************************)
EXTENDS Naturals, Sequences, FiniteSets

CONSTANTS
  Tasks,          \* Task objects a client may submit
  Pistons,        \* self.pistons
  Subsystems,     \* subsystem names a piston may refer to
  Workers,        \* coroutines calling process_tasks or run_task
  NoTask, NoPiston, NoSubsystem, NoWorker,   \* Python's None
  Priority,       \* task -> TaskPriority value, 0 is the most urgent
  MaxRetries,     \* task -> max_retries
  Matches,        \* task -> pistons its preferred_piston / required_lane allow
  SubsystemRef,   \* piston -> subsystem_ref
  MaxConcurrent,  \* piston -> max_concurrent
  MaxBatch        \* max_tasks of a process_tasks call

ASSUME RuntimeAssumption ==
  /\ IsFiniteSet(Workers)
  /\ NoTask \notin Tasks /\ NoPiston \notin Pistons /\ NoWorker \notin Workers
  /\ NoSubsystem \notin Subsystems
  /\ Priority \in [Tasks -> Nat]
  /\ MaxRetries \in [Tasks -> Nat]
  /\ Matches \in [Tasks -> SUBSET Pistons]
  /\ SubsystemRef \in [Pistons -> Subsystems \cup {NoSubsystem}]
  /\ MaxConcurrent \in [Pistons -> Nat]
  /\ MaxBatch \in Nat

VARIABLES
  tasks,       \* self.tasks, in submission order
  queue,       \* self.task_queue: entries [seq, task]
  sequence,    \* self._queue_sequence
  state,       \* Task.state
  assigned,    \* Task.assigned_piston
  retries,     \* Task.retries
  load,        \* Piston.current_load
  status,      \* Piston.status
  completed,   \* Piston.tasks_completed
  failed,      \* Piston.tasks_failed
  handlers,    \* pistons in self._task_handlers
  subsystems,  \* names in self.subsystems
  at,          \* where each coroutine is
  holds,       \* the task its run_task has in hand
  slot,        \* the piston its run_task took
  budget,      \* iterations left in its process_tasks
  onLoop,      \* the coroutine that has the event loop
  attempts,    \* history: times each task was started
  cancelled    \* history: tasks whose coroutine was cancelled under them

taskVars   == <<state, assigned, retries>>
loadVars   == <<load, status>>
tallyVars  == <<completed, failed>>
queueVars  == <<queue, sequence>>
workerVars == <<at, holds, slot, budget>>
boundVars  == <<handlers, subsystems>>
history    == <<attempts, cancelled>>
vars == <<tasks, queueVars, taskVars, loadVars, tallyVars, boundVars,
          workerVars, onLoop, history>>

Waiting  == {"PENDING", "RETRYING"}
Terminal == {"COMPLETED", "FAILED", "BLOCKED_UNBOUND"}
TaskState == Waiting \cup Terminal \cup {"ASSIGNED", "RUNNING", "CANCELLED"}
Phases   == {"idle", "draining", "executing", "direct"}

Submitted == {tasks[i] : i \in DOMAIN tasks}
Entries   == [seq : Nat, task : Tasks]

Init ==
  /\ tasks = <<>> /\ queue = {} /\ sequence = 0
  /\ state = [t \in Tasks |-> "PENDING"]
  /\ assigned = [t \in Tasks |-> NoPiston]
  /\ retries = [t \in Tasks |-> 0]
  /\ load = [p \in Pistons |-> 0]
  /\ status = [p \in Pistons |-> "idle"]
  /\ completed = [p \in Pistons |-> 0]
  /\ failed = [p \in Pistons |-> 0]
  /\ handlers = {}
  /\ subsystems \in SUBSET Subsystems
  /\ at = [w \in Workers |-> "idle"]
  /\ holds = [w \in Workers |-> NoTask]
  /\ slot = [w \in Workers |-> NoPiston]
  /\ budget = [w \in Workers |-> 0]
  /\ onLoop = NoWorker
  /\ attempts = [t \in Tasks |-> 0]
  /\ cancelled = {}

-----------------------------------------------------------------------------
(* Choosing a piston: _piston_executable, capacity_available, assign_task. *)

Executable(p) == p \in handlers \/ SubsystemRef[p] \in subsystems

\* Fault: the comparison is off by one.
CapacityOffByOne(p) == load[p] <= MaxConcurrent[p]

\* status is never set to "disabled" anywhere in the code.
CapacityAvailable(p) == load[p] < MaxConcurrent[p]

Candidates(t) == {p \in Matches[t] : CapacityAvailable(p) /\ Executable(p)}

\* Piston.health as a fraction: tasks_completed / total, 1 when nothing ran.
Health(p) == LET total == completed[p] + failed[p]
             IN  IF total = 0 THEN <<1, 1>> ELSE <<completed[p], total>>

\* The key (health, -current_load) of p is not below that of q.
KeyNotBelow(p, q) ==
  LET a == Health(p)[1] * Health(q)[2]
      b == Health(q)[1] * Health(p)[2]
  IN  a > b \/ (a = b /\ load[p] <= load[q])

\* Ties fall to the dictionary's order, which is left open here.
Best(t) == {p \in Candidates(t) : \A q \in Candidates(t) : KeyNotBelow(p, q)}

-----------------------------------------------------------------------------
(* Queue. An entry is ordered by (priority, sequence).                     *)

Precedes(d, e) == \/ Priority[d.task] < Priority[e.task]
                  \/ Priority[d.task] = Priority[e.task] /\ d.seq < e.seq

\* Fault: a LIFO queue.
IsNewest(e) == \A d \in queue \ {e} : d.seq < e.seq

IsHead(e) == \A d \in queue \ {e} : Precedes(e, d)

\* The entry is in the queue once more, behind everything queued so far.
Enqueue(t) ==
  /\ sequence' = sequence + 1
  /\ queue' = queue \cup {[seq |-> sequence + 1, task |-> t]}

\* submit_task: a duplicate task_id raises before anything changes.
Submit(t) ==
  /\ onLoop = NoWorker
  /\ t \notin Submitted
  /\ Enqueue(t)
  /\ tasks' = Append(tasks, t)
  /\ UNCHANGED <<taskVars, loadVars, tallyVars, boundVars, workerVars,
                 onLoop, history>>

-----------------------------------------------------------------------------
(* process_tasks: the loop between two suspension points.                  *)

StartDrain(w) ==
  /\ onLoop = NoWorker /\ at[w] = "idle"
  /\ at' = [at EXCEPT ![w] = "draining"]
  /\ budget' = [budget EXCEPT ![w] = MaxBatch]
  /\ onLoop' = w
  /\ UNCHANGED <<tasks, queueVars, taskVars, loadVars, tallyVars, boundVars,
                 holds, slot, history>>

EndDrain(w) ==
  /\ onLoop = w /\ at[w] = "draining"
  /\ budget[w] = 0 \/ queue = {}
  /\ at' = [at EXCEPT ![w] = "idle"]
  /\ budget' = [budget EXCEPT ![w] = 0]
  /\ onLoop' = NoWorker
  /\ UNCHANGED <<tasks, queueVars, taskVars, loadVars, tallyVars, boundVars,
                 holds, slot, history>>

\* task_queue.get(): the head leaves the queue.
Pop(w, e) ==
  /\ onLoop = w /\ at[w] = "draining" /\ budget[w] > 0
  /\ e \in queue /\ IsHead(e)
  /\ queue' = queue \ {e}
  /\ budget' = [budget EXCEPT ![w] = @ - 1]
  /\ UNCHANGED <<tasks, sequence, tallyVars, boundVars>>

\* An entry whose task no longer waits is dropped and the loop goes on.
DropEntry(w, e) ==
  /\ Pop(w, e)
  /\ state[e.task] \notin Waiting
  /\ UNCHANGED <<taskVars, loadVars, at, holds, slot, onLoop, history>>

\* run_task up to the handler's await: piston p is busy with task t.
Begin(w, t, p, phase) ==
  /\ state' = [state EXCEPT ![t] = "RUNNING"]
  /\ assigned' = [assigned EXCEPT ![t] = p]
  /\ status' = [status EXCEPT ![p] = "busy"]
  /\ at' = [at EXCEPT ![w] = phase]
  /\ holds' = [holds EXCEPT ![w] = t]
  /\ slot' = [slot EXCEPT ![w] = p]
  /\ attempts' = [attempts EXCEPT ![t] = @ + 1]
  /\ onLoop' = NoWorker
  /\ UNCHANGED <<retries, cancelled>>

\* The old assignment is dropped, run_task assigns a piston and starts.
Dispatch(w, e) ==
  /\ Pop(w, e)
  /\ state[e.task] \in Waiting
  /\ \E p \in Best(e.task) :
       /\ load' = [load EXCEPT ![p] = @ + 1]
       /\ Begin(w, e.task, p, "executing")

\* The same when assign_task finds nothing: the task is blocked for good.
Block(w, e) ==
  /\ Pop(w, e)
  /\ state[e.task] \in Waiting
  /\ Candidates(e.task) = {}
  /\ state' = [state EXCEPT ![e.task] = "BLOCKED_UNBOUND"]
  /\ assigned' = [assigned EXCEPT ![e.task] = NoPiston]
  /\ UNCHANGED <<retries, loadVars, at, holds, slot, onLoop, history>>

-----------------------------------------------------------------------------
(* run_task after the handler's await.                                     *)

\* Fault: the slot is not given back.
ReleaseNothing(w) ==
  /\ status' = [status EXCEPT ![slot[w]] = "idle"]
  /\ holds' = [holds EXCEPT ![w] = NoTask]
  /\ slot' = [slot EXCEPT ![w] = NoPiston]
  /\ UNCHANGED load

\* The finally clause; run_task's locals are gone.
Release(w) ==
  /\ load' = [load EXCEPT ![slot[w]] = IF @ > 0 THEN @ - 1 ELSE 0]
  /\ status' = [status EXCEPT ![slot[w]] = "idle"]
  /\ holds' = [holds EXCEPT ![w] = NoTask]
  /\ slot' = [slot EXCEPT ![w] = NoPiston]

\* Back in the loop of process_tasks, or in the caller of run_task.
Return(w) ==
  IF at[w] = "executing"
  THEN at' = [at EXCEPT ![w] = "draining"] /\ onLoop' = w
  ELSE at' = [at EXCEPT ![w] = "idle"] /\ onLoop' = NoWorker

Resumes(w) == onLoop = NoWorker /\ at[w] \in {"executing", "direct"}

Succeed(w) ==
  /\ Resumes(w)
  /\ state' = [state EXCEPT ![holds[w]] = "COMPLETED"]
  /\ completed' = [completed EXCEPT ![slot[w]] = @ + 1]
  /\ Release(w) /\ Return(w)
  /\ UNCHANGED <<tasks, queueVars, assigned, retries, failed, boundVars,
                 budget, history>>

\* Fault: one retry too many.
RetryOnceMore(t) ==
  IF retries[t] <= MaxRetries[t]
  THEN /\ retries' = [retries EXCEPT ![t] = @ + 1]
       /\ state' = [state EXCEPT ![t] = "RETRYING"]
       /\ Enqueue(t)
  ELSE /\ state' = [state EXCEPT ![t] = "FAILED"]
       /\ UNCHANGED <<retries, queueVars>>

\* Fault: the task is marked for a retry and never queued again.
RetryWithoutRequeue(t) ==
  IF retries[t] < MaxRetries[t]
  THEN /\ retries' = [retries EXCEPT ![t] = @ + 1]
       /\ state' = [state EXCEPT ![t] = "RETRYING"]
       /\ UNCHANGED queueVars
  ELSE /\ state' = [state EXCEPT ![t] = "FAILED"]
       /\ UNCHANGED <<retries, queueVars>>

\* The except clause: requeued within the retry budget, failed beyond it.
RetryOrFail(t) ==
  IF retries[t] < MaxRetries[t]
  THEN /\ retries' = [retries EXCEPT ![t] = @ + 1]
       /\ state' = [state EXCEPT ![t] = "RETRYING"]
       /\ Enqueue(t)
  ELSE /\ state' = [state EXCEPT ![t] = "FAILED"]
       /\ UNCHANGED <<retries, queueVars>>

\* The handler raises, or the subsystem's tick was not executed.
Raise(w) ==
  /\ Resumes(w)
  /\ failed' = [failed EXCEPT ![slot[w]] = @ + 1]
  /\ RetryOrFail(holds[w])
  /\ Release(w) /\ Return(w)
  /\ UNCHANGED <<tasks, assigned, completed, boundVars, budget, history>>

\* The coroutine is cancelled at its await: CancelledError is no Exception,
\* so only the finally clause runs and the task keeps its state.
Cancel(w) ==
  /\ Resumes(w)
  /\ cancelled' = cancelled \cup {holds[w]}
  /\ Release(w)
  /\ at' = [at EXCEPT ![w] = "idle"]
  /\ budget' = [budget EXCEPT ![w] = 0]
  /\ UNCHANGED <<tasks, queueVars, taskVars, tallyVars, boundVars, onLoop,
                 attempts>>

-----------------------------------------------------------------------------
(* Capabilities come and go while tasks wait and run.                      *)

SetHandlers(S) ==
  /\ onLoop = NoWorker
  /\ handlers' = S
  /\ UNCHANGED <<tasks, queueVars, taskVars, loadVars, tallyVars, subsystems,
                 workerVars, onLoop, history>>

RegisterHandler(p)   == p \notin handlers /\ SetHandlers(handlers \cup {p})
UnregisterHandler(p) == p \in handlers /\ SetHandlers(handlers \ {p})

\* register_subsystem binds a name, a failed recover_subsystem removes it;
\* module Subsystems has the detail.
SetSubsystems(S) ==
  /\ onLoop = NoWorker
  /\ subsystems' = S
  /\ UNCHANGED <<tasks, queueVars, taskVars, loadVars, tallyVars, handlers,
                 workerVars, onLoop, history>>

BindSubsystem(s) == s \notin subsystems /\ SetSubsystems(subsystems \cup {s})
LoseSubsystem(s) == s \in subsystems /\ SetSubsystems(subsystems \ {s})

-----------------------------------------------------------------------------
Drain(w) == \/ EndDrain(w)
            \/ \E e \in queue : Dispatch(w, e) \/ Block(w, e)

Finish(w) == Succeed(w) \/ Raise(w)

Rebinding == \/ \E p \in Pistons : RegisterHandler(p) \/ UnregisterHandler(p)
             \/ \E s \in Subsystems : BindSubsystem(s) \/ LoseSubsystem(s)

Next == \/ \E t \in Tasks : Submit(t)
        \/ \E w \in Workers : StartDrain(w) \/ Drain(w) \/ Finish(w) \/ Cancel(w)
        \/ Rebinding

Spec == Init /\ [][Next]_vars

(***************************************************************************)
(* asyncio resumes ready coroutines first come first served, so one whose  *)
(* handler keeps being ready is resumed although others take turns: strong *)
(* fairness. run() calls tick, and so process_tasks, again and again.      *)
(***************************************************************************)
Fairness == \A w \in Workers : /\ WF_vars(Drain(w))
                               /\ SF_vars(Finish(w))
                               /\ SF_vars(StartDrain(w))

FairSpec == Spec /\ Fairness
-----------------------------------------------------------------------------
(* Properties.                                                             *)

\* Every variable has its type; a task never has more retries than its budget.
TypeOK ==
  /\ tasks \in Seq(Tasks)
  /\ queue \in SUBSET Entries
  /\ sequence \in Nat
  /\ state \in [Tasks -> TaskState]
  /\ assigned \in [Tasks -> Pistons \cup {NoPiston}]
  /\ retries \in [Tasks -> Nat]
  /\ \A t \in Tasks : retries[t] <= MaxRetries[t]
  /\ load \in [Pistons -> Nat]
  /\ status \in [Pistons -> {"idle", "busy"}]
  /\ completed \in [Pistons -> Nat]
  /\ failed \in [Pistons -> Nat]
  /\ handlers \in SUBSET Pistons
  /\ subsystems \in SUBSET Subsystems
  /\ at \in [Workers -> Phases]
  /\ holds \in [Workers -> Tasks \cup {NoTask}]
  /\ slot \in [Workers -> Pistons \cup {NoPiston}]
  /\ budget \in [Workers -> Nat]
  /\ onLoop \in Workers \cup {NoWorker}
  /\ attempts \in [Tasks -> Nat]
  /\ cancelled \in SUBSET Tasks

On(p) == {w \in Workers : slot[w] = p}

(* A piston's load is the number of coroutines that run a task on it, and  *)
(* never more than max_concurrent: the increment of assign_task and the    *)
(* decrement of run_task's finally clause pair up however the coroutines   *)
(* interleave, fail or are cancelled.                                      *)
SlotAccounting ==
  \A p \in Pistons : load[p] = Cardinality(On(p)) /\ load[p] <= MaxConcurrent[p]

EntriesOf(t) == {e \in queue : e.task = t}
HoldersOf(t) == {w \in Workers : holds[w] = t}

Placed(t) ==
  /\ t \notin Submitted => EntriesOf(t) = {} /\ HoldersOf(t) = {}
  /\ t \in Submitted /\ state[t] \in Waiting =>
       (\E e \in queue : EntriesOf(t) = {e}) /\ HoldersOf(t) = {}
  /\ state[t] = "RUNNING" =>
       /\ EntriesOf(t) = {}
       /\ IF t \in cancelled THEN HoldersOf(t) = {}
                             ELSE \E w \in Workers : HoldersOf(t) = {w}
  /\ state[t] \in Terminal => EntriesOf(t) = {} /\ HoldersOf(t) = {}

(* Every submitted task is in exactly one place: waiting under exactly one *)
(* queue entry, in the hands of exactly one coroutine, settled, or, once a *)
(* coroutine was cancelled under it, RUNNING in nobody's hands. No task is *)
(* lost, queued twice or run by two coroutines.                            *)
OnePlace == \A t \in Tasks : Placed(t)

Started == {"RUNNING", "COMPLETED", "FAILED"}

(* "Failed tasks are requeued up to their explicit retry budget": a task   *)
(* is started at most max_retries + 1 times, and is given up only after    *)
(* all of them.                                                            *)
RetryBudget ==
  \A t \in Tasks :
    /\ attempts[t] = retries[t] + (IF state[t] \in Started THEN 1 ELSE 0)
    /\ attempts[t] <= MaxRetries[t] + 1
    /\ state[t] = "FAILED" => attempts[t] = MaxRetries[t] + 1

\* The queue came to the task: it was started or found no piston.
Reached(t) == attempts[t] > 0 \/ state[t] = "BLOCKED_UNBOUND"

(* "asyncio.PriorityQueue orders tasks by priority and stable sequence":   *)
(* no task is reached before one that was submitted earlier and is at      *)
(* least as urgent, whatever is retried in between.                        *)
NoOvertaking ==
  \A i, j \in DOMAIN tasks :
    /\ i < j
    /\ Priority[tasks[i]] <= Priority[tasks[j]]
    /\ Reached(tasks[j])
    => Reached(tasks[i])

(* A task is blocked only when no piston that may take it has a handler or *)
(* a bound subsystem ("no executable piston matches this task").           *)
BlockedMeansUnbound ==
  [][\A t \in Tasks :
       state[t] # "BLOCKED_UNBOUND" /\ state'[t] = "BLOCKED_UNBOUND"
       => \A p \in Matches[t] : ~ Executable(p)]_vars

(* Every submitted task settles: it completes, fails or is blocked, unless *)
(* the coroutine that ran it was cancelled.                                *)
EveryTaskSettles ==
  \A t \in Tasks :
    t \in Submitted ~> (state[t] \in Terminal \/ t \in cancelled)

-----------------------------------------------------------------------------
(* The ledger this runtime implements.                                     *)

Stage == [t \in Tasks |->
            IF t \notin Submitted THEN "new"
            ELSE IF state[t] \in Waiting THEN "waiting"
            ELSE IF t \in cancelled THEN "abandoned"
            ELSE state[t]]

RunsOn == [t \in Tasks |-> IF Stage[t] = "RUNNING" THEN assigned[t] ELSE NoPiston]

Ledger == INSTANCE TaskLedger WITH stage <- Stage, runsOn <- RunsOn, starts <- attempts

(* Seen from outside, the queue, the loads and the coroutines are a ledger *)
(* in which every start finds a free slot and every retry is within budget.*)
ImplementsLedger == Ledger!Spec
=============================================================================
