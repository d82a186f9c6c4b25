-------------------------- MODULE TaskRuntime_proofs --------------------------
(***************************************************************************)
(* Proofs about Spec of TaskRuntime and OpenSpec of DirectCalls, for every *)
(* value of the constants.                                                 *)
(***************************************************************************)
EXTENDS DirectCalls, FiniteSetTheorems, TLAPS

Running(w) == at[w] = "executing"

\* A coroutine has a task and a piston exactly while it awaits a handler.
Shape == \A w \in Workers :
           /\ at[w] # "direct"
           /\ Running(w) <=> slot[w] \in Pistons
           /\ Running(w) <=> holds[w] \in Tasks

Typed == TypeOK /\ Shape

LEMMA InitTyped == Init => Typed
  BY RuntimeAssumption DEF Init, Typed, TypeOK, Shape, Running, Entries, TaskState,
     Waiting, Terminal, Phases

\* What the parts of the actions leave well typed.
LEMMA EnqueueType ==
  ASSUME TypeOK, NEW t \in Tasks, Enqueue(t)
  PROVE  queue' \in SUBSET Entries /\ sequence' \in Nat
  BY DEF TypeOK, Enqueue, Entries

LEMMA RetryType ==
  ASSUME TypeOK, NEW t \in Tasks, RetryOrFail(t)
  PROVE  /\ queue' \in SUBSET Entries /\ sequence' \in Nat
         /\ state' \in [Tasks -> TaskState]
         /\ retries' \in [Tasks -> Nat]
         /\ \A u \in Tasks : retries'[u] <= MaxRetries[u]
  <1>1. CASE retries[t] < MaxRetries[t]
    <2>1. Enqueue(t) /\ retries' = [retries EXCEPT ![t] = @ + 1]
                     /\ state' = [state EXCEPT ![t] = "RETRYING"]
      BY <1>1 DEF RetryOrFail
    <2>2. queue' \in SUBSET Entries /\ sequence' \in Nat
      BY <2>1, EnqueueType
    <2>3. state' \in [Tasks -> TaskState]
      BY <2>1 DEF TypeOK, TaskState, Waiting
    <2>4. retries' \in [Tasks -> Nat]
      BY <2>1 DEF TypeOK
    <2>5. \A u \in Tasks : retries'[u] <= MaxRetries[u]
      <3> TAKE u \in Tasks
      <3>1. /\ retries[u] \in Nat /\ MaxRetries[u] \in Nat
            /\ retries[u] <= MaxRetries[u]
            /\ retries \in [Tasks -> Nat]
        BY RuntimeAssumption DEF TypeOK
      <3>2. retries'[u] = IF u = t THEN retries[u] + 1 ELSE retries[u]
        BY <2>1, <3>1
      <3> QED BY <1>1, <3>1, <3>2
    <2> QED BY <2>2, <2>3, <2>4, <2>5
  <1>2. CASE ~ (retries[t] < MaxRetries[t])
    <2>1. /\ state' = [state EXCEPT ![t] = "FAILED"]
          /\ UNCHANGED <<retries, queue, sequence>>
      BY <1>2 DEF RetryOrFail, queueVars
    <2>2. state' \in [Tasks -> TaskState]
      BY <2>1 DEF TypeOK, TaskState, Terminal
    <2> QED BY <2>1, <2>2 DEF TypeOK
  <1> QED BY <1>1, <1>2

LEMMA ReleaseType ==
  ASSUME Typed, NEW w \in Workers, Running(w), Release(w)
  PROVE  /\ load' \in [Pistons -> Nat]
         /\ status' \in [Pistons -> {"idle", "busy"}]
         /\ holds' \in [Workers -> Tasks \cup {NoTask}]
         /\ slot' \in [Workers -> Pistons \cup {NoPiston}]
         /\ holds' = [holds EXCEPT ![w] = NoTask]
         /\ slot' = [slot EXCEPT ![w] = NoPiston]
  BY DEF Typed, TypeOK, Shape, Release

LEMMA ReturnType ==
  ASSUME Typed, NEW w \in Workers, Running(w), Return(w)
  PROVE  /\ at' = [at EXCEPT ![w] = "draining"]
         /\ onLoop' = w
         /\ at' \in [Workers -> Phases]
  BY DEF Typed, TypeOK, Shape, Return, Running, Phases

LEMMA ResumesRuns ==
  ASSUME Typed, NEW w \in Workers, Resumes(w)
  PROVE  Running(w) /\ slot[w] \in Pistons /\ holds[w] \in Tasks
  BY DEF Typed, TypeOK, Shape, Resumes, Running

LEMMA NextTyped == Typed /\ [Next]_vars => Typed'
  <1> SUFFICES ASSUME Typed, [Next]_vars PROVE Typed'
    OBVIOUS
  <1> USE RuntimeAssumption
  <1>1. ASSUME NEW t \in Tasks, Submit(t) PROVE Typed'
    <2>1. tasks' \in Seq(Tasks)
      BY <1>1 DEF Submit, Typed, TypeOK
    <2> QED BY <1>1, <2>1, EnqueueType DEF Submit, Typed, TypeOK, Shape, Running,
           taskVars, loadVars, tallyVars, boundVars, workerVars, history
  <1>2. ASSUME NEW w \in Workers, StartDrain(w) PROVE Typed'
    BY <1>2 DEF StartDrain, Typed, TypeOK, Shape, Running, Phases,
       queueVars, taskVars, loadVars, tallyVars, boundVars, history
  <1>3. ASSUME NEW w \in Workers, EndDrain(w) PROVE Typed'
    BY <1>3 DEF EndDrain, Typed, TypeOK, Shape, Running, Phases,
       queueVars, taskVars, loadVars, tallyVars, boundVars, history
  <1>4. ASSUME NEW w \in Workers, NEW e \in queue, Dispatch(w, e) PROVE Typed'
    <2>1. e.task \in Tasks
      BY DEF Typed, TypeOK, Entries
    <2>2. PICK p \in Best(e.task) : /\ load' = [load EXCEPT ![p] = @ + 1]
                                    /\ Begin(w, e.task, p, "executing")
      BY <1>4 DEF Dispatch
    <2>3. p \in Pistons
      BY <2>1, <2>2 DEF Best, Candidates
    <2>4. budget' \in [Workers -> Nat] /\ queue' \in SUBSET Entries
      BY <1>4 DEF Dispatch, Pop, Typed, TypeOK
    <2>5. /\ load' \in [Pistons -> Nat]
          /\ status' \in [Pistons -> {"idle", "busy"}]
          /\ assigned' \in [Tasks -> Pistons \cup {NoPiston}]
      BY <2>1, <2>2, <2>3 DEF Begin, Typed, TypeOK
    <2>6. /\ state' \in [Tasks -> TaskState]
          /\ attempts' \in [Tasks -> Nat]
      BY <2>1, <2>2 DEF Begin, Typed, TypeOK, TaskState
    <2>7. /\ at' \in [Workers -> Phases]
          /\ holds' \in [Workers -> Tasks \cup {NoTask}]
          /\ slot' \in [Workers -> Pistons \cup {NoPiston}]
          /\ onLoop' \in Workers \cup {NoWorker}
      BY <2>1, <2>2, <2>3 DEF Begin, Typed, TypeOK, Phases
    <2>8. UNCHANGED <<tasks, sequence, retries, completed, failed, handlers,
                      subsystems, cancelled>>
      BY <1>4, <2>2 DEF Dispatch, Pop, Begin, tallyVars, boundVars
    <2>9. TypeOK'
      BY <2>4, <2>5, <2>6, <2>7, <2>8 DEF Typed, TypeOK
    <2> QED BY <2>1, <2>2, <2>3, <2>9 DEF Begin, Typed, TypeOK, Shape, Running
  <1>5. ASSUME NEW w \in Workers, NEW e \in queue, Block(w, e) PROVE Typed'
    <2>1. e.task \in Tasks
      BY DEF Typed, TypeOK, Entries
    <2>2. budget' \in [Workers -> Nat] /\ queue' \in SUBSET Entries
      BY <1>5 DEF Block, Pop, Typed, TypeOK
    <2> QED BY <1>5, <2>1, <2>2 DEF Block, Pop, Typed, TypeOK, Shape, Running,
           TaskState, Terminal, loadVars, tallyVars, boundVars, history
  <1>6. ASSUME NEW w \in Workers, Succeed(w) PROVE Typed'
    <2>1. Running(w) /\ slot[w] \in Pistons /\ holds[w] \in Tasks
      BY <1>6, ResumesRuns DEF Succeed
    <2>2. Release(w) /\ Return(w)
      BY <1>6 DEF Succeed
    <2>3. /\ load' \in [Pistons -> Nat]
          /\ status' \in [Pistons -> {"idle", "busy"}]
          /\ holds' \in [Workers -> Tasks \cup {NoTask}]
          /\ slot' \in [Workers -> Pistons \cup {NoPiston}]
          /\ holds' = [holds EXCEPT ![w] = NoTask]
          /\ slot' = [slot EXCEPT ![w] = NoPiston]
          /\ at' = [at EXCEPT ![w] = "draining"]
          /\ at' \in [Workers -> Phases]
          /\ onLoop' = w
      BY <2>1, <2>2, ReleaseType, ReturnType
    <2>4. state' \in [Tasks -> TaskState] /\ completed' \in [Pistons -> Nat]
      BY <1>6, <2>1 DEF Succeed, Typed, TypeOK, TaskState, Terminal
    <2>5. UNCHANGED <<tasks, queue, sequence, assigned, retries, failed, handlers,
                      subsystems, budget, attempts, cancelled>>
      BY <1>6 DEF Succeed, queueVars, boundVars, history
    <2>6. TypeOK'
      BY <2>3, <2>4, <2>5 DEF Typed, TypeOK
    <2> QED BY <2>1, <2>3, <2>6 DEF Typed, TypeOK, Shape, Running
  <1>7. ASSUME NEW w \in Workers, Raise(w) PROVE Typed'
    <2>1. Running(w) /\ slot[w] \in Pistons /\ holds[w] \in Tasks
      BY <1>7, ResumesRuns DEF Raise
    <2>2. Release(w) /\ Return(w) /\ RetryOrFail(holds[w])
      BY <1>7 DEF Raise
    <2>3. /\ load' \in [Pistons -> Nat]
          /\ status' \in [Pistons -> {"idle", "busy"}]
          /\ holds' \in [Workers -> Tasks \cup {NoTask}]
          /\ slot' \in [Workers -> Pistons \cup {NoPiston}]
          /\ holds' = [holds EXCEPT ![w] = NoTask]
          /\ slot' = [slot EXCEPT ![w] = NoPiston]
          /\ at' = [at EXCEPT ![w] = "draining"]
          /\ at' \in [Workers -> Phases]
          /\ onLoop' = w
      BY <2>1, <2>2, ReleaseType, ReturnType
    <2>4. /\ queue' \in SUBSET Entries /\ sequence' \in Nat
          /\ state' \in [Tasks -> TaskState]
          /\ retries' \in [Tasks -> Nat]
          /\ \A u \in Tasks : retries'[u] <= MaxRetries[u]
      BY <2>1, <2>2, RetryType DEF Typed
    <2>5. failed' \in [Pistons -> Nat]
      BY <1>7, <2>1 DEF Raise, Typed, TypeOK
    <2>6. UNCHANGED <<tasks, assigned, completed, handlers, subsystems, budget,
                      attempts, cancelled>>
      BY <1>7 DEF Raise, boundVars, history
    <2>7. TypeOK'
      BY <2>3, <2>4, <2>5, <2>6 DEF Typed, TypeOK
    <2> QED BY <2>1, <2>3, <2>7 DEF Typed, TypeOK, Shape, Running
  <1>8. ASSUME NEW w \in Workers, Cancel(w) PROVE Typed'
    <2>1. Running(w) /\ slot[w] \in Pistons /\ holds[w] \in Tasks
      BY <1>8, ResumesRuns DEF Cancel
    <2>2. /\ load' \in [Pistons -> Nat]
          /\ status' \in [Pistons -> {"idle", "busy"}]
          /\ holds' \in [Workers -> Tasks \cup {NoTask}]
          /\ slot' \in [Workers -> Pistons \cup {NoPiston}]
          /\ holds' = [holds EXCEPT ![w] = NoTask]
          /\ slot' = [slot EXCEPT ![w] = NoPiston]
      BY <1>8, <2>1, ReleaseType DEF Cancel
    <2>3. TypeOK'
      BY <1>8, <2>1, <2>2 DEF Cancel, Typed, TypeOK, Phases,
         queueVars, taskVars, tallyVars, boundVars
    <2> QED BY <1>8, <2>1, <2>2, <2>3 DEF Cancel, Typed, TypeOK, Shape, Running
  <1>9. CASE Rebinding
    BY <1>9 DEF Rebinding, RegisterHandler, UnregisterHandler, BindSubsystem,
       LoseSubsystem, SetHandlers, SetSubsystems, Typed, TypeOK, Shape, Running,
       queueVars, taskVars, loadVars, tallyVars, workerVars, history
  <1>10. CASE UNCHANGED vars
    BY <1>10 DEF vars, Typed, TypeOK, Shape, Running, queueVars, taskVars,
       loadVars, tallyVars, boundVars, workerVars, history
  <1> QED BY <1>1, <1>2, <1>3, <1>4, <1>5, <1>6, <1>7, <1>8, <1>9, <1>10
         DEF Next, Drain, Finish

(* Every variable keeps its type and no task exceeds its retry budget.     *)
THEOREM TypeCorrect == Spec => []TypeOK
  <1>1. Typed => TypeOK
    BY DEF Typed
  <1> QED BY <1>1, InitTyped, NextTyped, PTL DEF Spec

-----------------------------------------------------------------------------
(* Slot accounting: coroutines enter and leave On(p) one at a time, each    *)
(* with the matching step of the load counter.                              *)

LEMMA OnFinite ==
  ASSUME NEW p PROVE IsFiniteSet(On(p)) /\ Cardinality(On(p)) \in Nat
  <1>1. IsFiniteSet(On(p))
    BY RuntimeAssumption, FS_Subset DEF On
  <1> QED BY <1>1, FS_CardinalityType

LEMMA Enters ==
  ASSUME Typed, NEW w \in Workers, NEW p \in Pistons, ~ Running(w),
         slot' = [slot EXCEPT ![w] = p]
  PROVE  /\ Cardinality(On(p)') = Cardinality(On(p)) + 1
         /\ \A q \in Pistons \ {p} : On(q)' = On(q)
  <1>1. w \notin On(p)
    BY DEF Typed, Shape, On
  <1>2. On(p)' = On(p) \cup {w}
    BY DEF Typed, TypeOK, On
  <1>3. \A q \in Pistons \ {p} : On(q)' = On(q)
    BY DEF Typed, TypeOK, Shape, On
  <1> QED BY <1>1, <1>2, <1>3, OnFinite, FS_AddElement

LEMMA Leaves ==
  ASSUME Typed, NEW w \in Workers, Running(w),
         slot' = [slot EXCEPT ![w] = NoPiston]
  PROVE  /\ slot[w] \in Pistons
         /\ Cardinality(On(slot[w])) > 0
         /\ Cardinality({v \in Workers : slot'[v] = slot[w]})
              = Cardinality(On(slot[w])) - 1
         /\ \A q \in Pistons \ {slot[w]} : On(q)' = On(q)
  <1> DEFINE p == slot[w]
  <1>1. p \in Pistons /\ w \in On(p)
    BY DEF Typed, Shape, On
  <1>2. {v \in Workers : slot'[v] = p} = On(p) \ {w}
    BY <1>1, RuntimeAssumption DEF Typed, TypeOK, On
  <1>3. \A q \in Pistons \ {p} : On(q)' = On(q)
    BY <1>1, RuntimeAssumption DEF Typed, TypeOK, On
  <1>4. Cardinality(On(p) \ {w}) = Cardinality(On(p)) - 1
    BY <1>1, OnFinite, FS_RemoveElement
  <1>5. Cardinality(On(p)) > 0
    BY <1>1, OnFinite, FS_EmptySet
  <1> QED BY <1>1, <1>2, <1>3, <1>4, <1>5

LEMMA ReleaseAccounts ==
  ASSUME Typed, SlotAccounting, NEW w \in Workers, Running(w), Release(w)
  PROVE  SlotAccounting'
  <1> DEFINE p == slot[w]
  <1>1. /\ slot' = [slot EXCEPT ![w] = NoPiston]
        /\ load' = [load EXCEPT ![p] = IF @ > 0 THEN @ - 1 ELSE 0]
    BY DEF Release
  <1>2. /\ p \in Pistons
        /\ Cardinality(On(p)) > 0
        /\ Cardinality({v \in Workers : slot'[v] = p}) = Cardinality(On(p)) - 1
        /\ \A q \in Pistons \ {p} : On(q)' = On(q)
    BY <1>1, Leaves
  <1>3. SUFFICES ASSUME NEW q \in Pistons
                 PROVE  load'[q] = Cardinality(On(q)') /\ load'[q] <= MaxConcurrent[q]
    BY DEF SlotAccounting
  <1>4. /\ load[q] = Cardinality(On(q)) /\ load[q] <= MaxConcurrent[q]
        /\ load[q] \in Nat /\ MaxConcurrent[q] \in Nat
        /\ load \in [Pistons -> Nat]
    BY RuntimeAssumption DEF SlotAccounting, Typed, TypeOK
  <1>5. CASE q = p
    <2>1. On(q)' = {v \in Workers : slot'[v] = p}
      BY <1>5 DEF On
    <2>2. load'[q] = load[q] - 1
      BY <1>1, <1>2, <1>4, <1>5
    <2> QED BY <1>2, <1>4, <1>5, <2>1, <2>2
  <1>6. CASE q # p
    BY <1>1, <1>2, <1>4, <1>6
  <1> QED BY <1>5, <1>6

SlotInv == Typed /\ SlotAccounting

LEMMA InitSlot == Init => SlotInv
  <1> SUFFICES ASSUME Init PROVE SlotAccounting
    BY InitTyped DEF SlotInv
  <1>1. ASSUME NEW p \in Pistons
        PROVE  load[p] = Cardinality(On(p)) /\ load[p] <= MaxConcurrent[p]
    <2>1. load[p] = 0 /\ On(p) = {}
      BY RuntimeAssumption DEF Init, On
    <2>2. MaxConcurrent[p] \in Nat
      BY RuntimeAssumption
    <2> QED BY <2>1, <2>2, FS_EmptySet
  <1> QED BY <1>1 DEF SlotAccounting

LEMMA NextSlot == SlotInv /\ [Next]_vars => SlotInv'
  <1> SUFFICES ASSUME SlotInv, [Next]_vars PROVE SlotAccounting'
    BY NextTyped DEF SlotInv
  <1>1. Typed /\ SlotAccounting
    BY DEF SlotInv
  <1>2. CASE UNCHANGED <<load, slot>>
    BY <1>1, <1>2 DEF SlotAccounting, On
  <1>3. ASSUME NEW w \in Workers, NEW e \in queue, Dispatch(w, e)
        PROVE  SlotAccounting'
    <2>1. PICK p \in Best(e.task) : /\ load' = [load EXCEPT ![p] = @ + 1]
                                    /\ Begin(w, e.task, p, "executing")
      BY <1>3 DEF Dispatch
    <2>2. p \in Pistons /\ load[p] < MaxConcurrent[p]
      BY <1>1, RuntimeAssumption
      DEF Best, Candidates, CapacityAvailable, Typed, TypeOK, Entries
    <2>3. ~ Running(w) /\ slot' = [slot EXCEPT ![w] = p]
      BY <1>3, <2>1 DEF Dispatch, Pop, Running, Begin
    <2>4. /\ Cardinality(On(p)') = Cardinality(On(p)) + 1
          /\ \A q \in Pistons \ {p} : On(q)' = On(q)
      BY <1>1, <2>2, <2>3, Enters
    <2>5. SUFFICES ASSUME NEW q \in Pistons
                   PROVE  load'[q] = Cardinality(On(q)') /\ load'[q] <= MaxConcurrent[q]
      BY DEF SlotAccounting
    <2>6. /\ load[q] = Cardinality(On(q)) /\ load[q] <= MaxConcurrent[q]
          /\ load[q] \in Nat /\ MaxConcurrent[q] \in Nat
          /\ load'[q] = IF q = p THEN load[q] + 1 ELSE load[q]
      BY <1>1, <2>1, RuntimeAssumption DEF SlotAccounting, Typed, TypeOK
    <2> QED BY <2>2, <2>4, <2>6
  <1>4. ASSUME NEW w \in Workers, Succeed(w) \/ Raise(w) \/ Cancel(w)
        PROVE  SlotAccounting'
    BY <1>1, <1>4, ResumesRuns, ReleaseAccounts DEF Succeed, Raise, Cancel
  <1>5. ASSUME NEW t \in Tasks, Submit(t) PROVE SlotAccounting'
    BY <1>2, <1>5 DEF Submit, loadVars, workerVars
  <1>6. ASSUME NEW w \in Workers, StartDrain(w) \/ EndDrain(w)
        PROVE  SlotAccounting'
    BY <1>2, <1>6 DEF StartDrain, EndDrain, loadVars
  <1>7. ASSUME NEW w \in Workers, NEW e \in queue, Block(w, e)
        PROVE  SlotAccounting'
    BY <1>2, <1>7 DEF Block, loadVars
  <1>8. CASE Rebinding
    BY <1>2, <1>8 DEF Rebinding, RegisterHandler, UnregisterHandler, BindSubsystem,
       LoseSubsystem, SetHandlers, SetSubsystems, loadVars, workerVars
  <1>9. CASE UNCHANGED vars
    BY <1>2, <1>9 DEF vars, loadVars, workerVars
  <1> QED BY <1>3, <1>4, <1>5, <1>6, <1>7, <1>8, <1>9 DEF Next, Drain, Finish

(* However the coroutines interleave, fail or are cancelled, a piston's     *)
(* load is the number of coroutines running a task on it and never exceeds  *)
(* max_concurrent.                                                          *)
THEOREM LoadIsAccounted == Spec => []SlotAccounting
  <1>1. SlotInv => SlotAccounting
    BY DEF SlotInv
  <1> QED BY <1>1, InitSlot, NextSlot, PTL DEF Spec

-----------------------------------------------------------------------------
(* One place per task. Beside OnePlace itself the induction needs that what *)
(* is queued waits, what is held runs, and that only running tasks can have *)
(* lost their coroutine.                                                    *)

FreshWaits == \A t \in Tasks : t \notin Submitted => state[t] = "PENDING"

PlaceInv ==
  /\ Typed
  /\ OnePlace
  /\ \A t \in Tasks : state[t] \in Waiting \cup Terminal \cup {"RUNNING"}
  /\ \A e \in queue : state[e.task] \in Waiting /\ e.task \in Submitted
  /\ \A w \in Workers : Running(w) =>
       /\ state[holds[w]] = "RUNNING"
       /\ holds[w] \in Submitted \ cancelled
       /\ HoldersOf(holds[w]) = {w}
  /\ \A t \in cancelled : state[t] = "RUNNING"
  /\ FreshWaits

LEMMA InitPlace == Init => PlaceInv
  <1> SUFFICES ASSUME Init PROVE PlaceInv
    OBVIOUS
  <1>1. Typed
    BY InitTyped
  <1>2. Submitted = {} /\ queue = {} /\ cancelled = {}
    BY DEF Init, Submitted
  <1>3. \A t \in Tasks : state[t] = "PENDING" /\ HoldersOf(t) = {}
    BY RuntimeAssumption DEF Init, HoldersOf
  <1>4. \A w \in Workers : ~ Running(w)
    BY DEF Init, Running
  <1>5. OnePlace
    BY <1>2, <1>3 DEF OnePlace, Placed, EntriesOf, Waiting, Terminal
  <1> QED BY <1>1, <1>2, <1>3, <1>4, <1>5 DEF PlaceInv, FreshWaits, Waiting

\* A task nothing happens to keeps its place.
LEMMA Undisturbed ==
  ASSUME NEW t \in Tasks, Placed(t),
         state'[t] = state[t], EntriesOf(t)' = EntriesOf(t),
         HoldersOf(t)' = HoldersOf(t),
         t \in Submitted' <=> t \in Submitted, t \in cancelled' <=> t \in cancelled
  PROVE  Placed(t)'
  BY DEF Placed, EntriesOf

LEMMA SubmitEffect ==
  ASSUME Typed, NEW t \in Tasks, tasks' = Append(tasks, t)
  PROVE  Submitted' = Submitted \cup {t}
  <1>1. /\ Len(tasks) \in Nat /\ DOMAIN tasks = 1 .. Len(tasks)
        /\ DOMAIN tasks' = 1 .. Len(tasks) + 1
        /\ \A i \in 1 .. Len(tasks) : tasks'[i] = tasks[i]
        /\ tasks'[Len(tasks) + 1] = t
    BY DEF Typed, TypeOK
  <1> QED BY <1>1 DEF Submitted

LEMMA EnqueueEffect ==
  ASSUME Typed, NEW t \in Tasks, Enqueue(t)
  PROVE  /\ \E e \in queue' : e.task = t /\ queue' = queue \cup {e}
         /\ EntriesOf(t) = {} => \E e \in queue' : EntriesOf(t)' = {e}
         /\ \A u \in Tasks \ {t} : EntriesOf(u)' = EntriesOf(u)
  <1> DEFINE new == [seq |-> sequence + 1, task |-> t]
  <1>1. queue' = queue \cup {new} /\ new.task = t
    BY DEF Enqueue
  <1> HIDE DEF new
  <1> QED BY <1>1 DEF EntriesOf

LEMMA PopEffect ==
  ASSUME PlaceInv, NEW w \in Workers, NEW e \in queue, Pop(w, e)
  PROVE  /\ e.task \in Tasks
         /\ EntriesOf(e.task)' = {}
         /\ \A u \in Tasks \ {e.task} : EntriesOf(u)' = EntriesOf(u)
         /\ \A d \in queue' : d \in queue /\ d.task # e.task
         /\ HoldersOf(e.task) = {}
  <1>1. e.task \in Tasks /\ queue' = queue \ {e}
    BY DEF PlaceInv, Typed, TypeOK, Entries, Pop
  <1>2. state[e.task] \in Waiting /\ e.task \in Submitted
    BY DEF PlaceInv
  <1>3. EntriesOf(e.task) = {e} /\ HoldersOf(e.task) = {}
    BY <1>1, <1>2 DEF PlaceInv, OnePlace, Placed, EntriesOf
  <1> QED BY <1>1, <1>3 DEF EntriesOf

LEMMA HoldEffect ==
  ASSUME Typed, NEW w \in Workers, NEW t \in Tasks, ~ Running(w),
         holds' = [holds EXCEPT ![w] = t]
  PROVE  /\ HoldersOf(t)' = HoldersOf(t) \cup {w}
         /\ \A u \in Tasks \ {t} : HoldersOf(u)' = HoldersOf(u)
  BY DEF Typed, TypeOK, Shape, HoldersOf

LEMMA DropEffect ==
  ASSUME PlaceInv, NEW w \in Workers, Running(w),
         holds' = [holds EXCEPT ![w] = NoTask]
  PROVE  /\ holds[w] \in Tasks
         /\ {v \in Workers : holds'[v] = holds[w]} = {}
         /\ \A u \in Tasks \ {holds[w]} : HoldersOf(u)' = HoldersOf(u)
         /\ EntriesOf(holds[w]) = {}
  <1> DEFINE t == holds[w]
  <1>1. t \in Tasks /\ HoldersOf(t) = {w} /\ state[t] = "RUNNING"
    BY DEF PlaceInv, Typed, Shape
  <1>2. {v \in Workers : holds'[v] = t} = {}
    BY <1>1, RuntimeAssumption DEF PlaceInv, Typed, TypeOK, HoldersOf
  <1>3. \A u \in Tasks \ {t} : HoldersOf(u)' = HoldersOf(u)
    BY <1>1, RuntimeAssumption DEF PlaceInv, Typed, TypeOK, HoldersOf
  <1>4. EntriesOf(t) = {}
    BY <1>1 DEF PlaceInv, OnePlace, Placed
  <1> QED BY <1>1, <1>2, <1>3, <1>4

\* A coroutine other than those that start or finish keeps what it runs.
LEMMA PlaceUnchanged ==
  ASSUME PlaceInv, Typed', UNCHANGED <<tasks, queue, state, holds, cancelled>>,
         \A w \in Workers : Running(w)' <=> Running(w)
  PROVE  PlaceInv'
  <1>1. Submitted' = Submitted /\ \A t \in Tasks : EntriesOf(t)' = EntriesOf(t)
                                      /\ HoldersOf(t)' = HoldersOf(t)
    BY DEF Submitted, EntriesOf, HoldersOf
  <1>2. OnePlace'
    BY <1>1 DEF PlaceInv, OnePlace, Placed, EntriesOf
  <1>3. \A w \in Workers : Running(w)' => holds[w] \in Tasks
    BY DEF PlaceInv, Typed, Shape
  <1> QED BY <1>1, <1>2, <1>3 DEF PlaceInv, FreshWaits

LEMMA SubmitPlace ==
  ASSUME PlaceInv, Typed', NEW t \in Tasks, Submit(t)
  PROVE  PlaceInv'
  <1>1. /\ Submitted' = Submitted \cup {t} /\ t \notin Submitted
        /\ UNCHANGED <<state, holds, at, cancelled>> /\ Enqueue(t)
    BY SubmitEffect DEF PlaceInv, Submit, taskVars, workerVars, history
  <1>2. EntriesOf(t) = {} /\ HoldersOf(t) = {}
    BY <1>1 DEF PlaceInv, OnePlace, Placed
  <1>3. /\ \E e \in queue' : e.task = t /\ queue' = queue \cup {e}
        /\ \E e \in queue' : EntriesOf(t)' = {e}
        /\ \A u \in Tasks \ {t} : EntriesOf(u)' = EntriesOf(u)
    BY <1>1, <1>2, EnqueueEffect DEF PlaceInv
  <1>4. \A u \in Tasks : HoldersOf(u)' = HoldersOf(u)
    BY <1>1 DEF HoldersOf
  <1>5. state[t] \in Waiting /\ state[t] = "PENDING"
    BY <1>1 DEF PlaceInv, FreshWaits, Waiting
  <1>6. Placed(t)'
    BY <1>1, <1>2, <1>3, <1>4, <1>5 DEF Placed, Waiting, Terminal
  <1>7. ASSUME NEW u \in Tasks \ {t} PROVE Placed(u)'
    BY <1>1, <1>3, <1>4, Undisturbed DEF PlaceInv, OnePlace
  <1>8. OnePlace'
    BY <1>6, <1>7 DEF OnePlace
  <1>9. \A w \in Workers : Running(w)' =>
          /\ state'[holds'[w]] = "RUNNING"
          /\ holds'[w] \in Submitted' \ cancelled'
          /\ HoldersOf(holds[w])' = {w}
    BY <1>1, <1>4 DEF PlaceInv, Running, Typed, Shape
  <1> QED BY <1>1, <1>3, <1>5, <1>8, <1>9 DEF PlaceInv, FreshWaits

LEMMA DispatchPlace ==
  ASSUME PlaceInv, Typed', NEW w \in Workers, NEW e \in queue, Dispatch(w, e)
  PROVE  PlaceInv'
  <1> DEFINE t == e.task
  <1>1. /\ t \in Tasks
        /\ EntriesOf(t)' = {} /\ HoldersOf(t) = {}
        /\ \A u \in Tasks \ {t} : EntriesOf(u)' = EntriesOf(u)
        /\ \A d \in queue' : d \in queue /\ d.task # t
    BY PopEffect DEF Dispatch
  <1>2. /\ ~ Running(w) /\ state[t] \in Waiting /\ UNCHANGED tasks
        /\ state' = [state EXCEPT ![t] = "RUNNING"]
        /\ at' = [at EXCEPT ![w] = "executing"]
        /\ holds' = [holds EXCEPT ![w] = t]
        /\ UNCHANGED cancelled
    BY DEF Dispatch, Pop, Begin, Running
  <1>3. Submitted' = Submitted /\ t \in Submitted /\ t \notin cancelled
    BY <1>2 DEF PlaceInv, Submitted, Waiting
  <1>4. /\ HoldersOf(t)' = {w}
        /\ \A u \in Tasks \ {t} : HoldersOf(u)' = HoldersOf(u)
    <2>1. Typed /\ ~ Running(w) /\ t \in Tasks /\ holds' = [holds EXCEPT ![w] = t]
      BY <1>1, <1>2 DEF PlaceInv
    <2>2. /\ HoldersOf(t)' = HoldersOf(t) \cup {w}
          /\ \A u \in Tasks \ {t} : HoldersOf(u)' = HoldersOf(u)
      BY <2>1, HoldEffect
    <2> QED BY <1>1, <2>2
  <1>5. /\ state'[t] = "RUNNING"
        /\ \A u \in Tasks \ {t} : state'[u] = state[u]
    BY <1>1, <1>2 DEF PlaceInv, Typed, TypeOK
  <1>6. Placed(t)'
    BY <1>1, <1>2, <1>3, <1>4, <1>5 DEF Placed, Waiting, Terminal
  <1>7. ASSUME NEW u \in Tasks \ {t} PROVE Placed(u)'
    BY <1>1, <1>2, <1>3, <1>4, <1>5, Undisturbed DEF PlaceInv, OnePlace
  <1>8. OnePlace'
    BY <1>6, <1>7 DEF OnePlace
  <1>9. ASSUME NEW v \in Workers, Running(v)'
        PROVE  /\ state'[holds'[v]] = "RUNNING"
               /\ holds'[v] \in Submitted' \ cancelled'
               /\ {x \in Workers : holds'[x] = holds'[v]} = {v}
    <2>1. CASE v = w
      BY <1>2, <1>3, <1>4, <1>5, <2>1 DEF PlaceInv, Typed, TypeOK, HoldersOf
    <2>2. CASE v # w
      <3>1. Running(v) /\ holds'[v] = holds[v]
        BY <1>2, <1>9, <2>2 DEF Running, PlaceInv, Typed, TypeOK
      <3>2. holds[v] \in Tasks \ {t} /\ HoldersOf(holds[v]) = {v}
        BY <1>2, <3>1 DEF PlaceInv, Typed, Shape, Waiting
      <3> QED BY <1>2, <1>3, <1>4, <1>5, <3>1, <3>2 DEF PlaceInv, HoldersOf
    <2> QED BY <2>1, <2>2
  <1>11. /\ \A u \in Tasks : state'[u] \in Waiting \cup Terminal \cup {"RUNNING"}
         /\ \A d \in queue' : state'[d.task] \in Waiting /\ d.task \in Submitted'
         /\ \A u \in cancelled' : state'[u] = "RUNNING"
         /\ FreshWaits'
    BY <1>1, <1>2, <1>3, <1>5 DEF PlaceInv, FreshWaits, Typed, TypeOK, Entries
  <1> QED BY <1>8, <1>9, <1>11 DEF PlaceInv, HoldersOf

LEMMA BlockPlace ==
  ASSUME PlaceInv, Typed', NEW w \in Workers, NEW e \in queue, Block(w, e)
  PROVE  PlaceInv'
  <1> DEFINE t == e.task
  <1>1. /\ t \in Tasks
        /\ EntriesOf(t)' = {} /\ HoldersOf(t) = {}
        /\ \A u \in Tasks \ {t} : EntriesOf(u)' = EntriesOf(u)
        /\ \A d \in queue' : d \in queue /\ d.task # t
    BY PopEffect DEF Block
  <1>2. /\ state[t] \in Waiting
        /\ state' = [state EXCEPT ![t] = "BLOCKED_UNBOUND"]
        /\ UNCHANGED <<tasks, at, holds, cancelled>>
    BY DEF Block, Pop, history
  <1>3. Submitted' = Submitted /\ t \in Submitted /\ t \notin cancelled
    BY <1>2 DEF PlaceInv, Submitted, Waiting
  <1>4. \A u \in Tasks : HoldersOf(u)' = HoldersOf(u)
    BY <1>2 DEF HoldersOf
  <1>5. /\ state'[t] = "BLOCKED_UNBOUND"
        /\ \A u \in Tasks \ {t} : state'[u] = state[u]
    BY <1>1, <1>2 DEF PlaceInv, Typed, TypeOK
  <1>6. Placed(t)'
    BY <1>1, <1>3, <1>4, <1>5 DEF Placed, Waiting, Terminal
  <1>7. ASSUME NEW u \in Tasks \ {t} PROVE Placed(u)'
    BY <1>1, <1>2, <1>3, <1>4, <1>5, Undisturbed DEF PlaceInv, OnePlace
  <1>8. OnePlace'
    BY <1>6, <1>7 DEF OnePlace
  <1>9. ASSUME NEW v \in Workers, Running(v)'
        PROVE  /\ state'[holds'[v]] = "RUNNING"
               /\ holds'[v] \in Submitted' \ cancelled'
               /\ {x \in Workers : holds'[x] = holds'[v]} = {v}
    <2>1. Running(v) /\ holds'[v] = holds[v]
      BY <1>2, <1>9 DEF Running
    <2>2. holds[v] \in Tasks \ {t}
      BY <1>2, <2>1 DEF PlaceInv, Typed, Shape, Waiting
    <2> QED BY <1>2, <1>3, <1>5, <2>1, <2>2 DEF PlaceInv, HoldersOf
  <1>11. /\ \A u \in Tasks : state'[u] \in Waiting \cup Terminal \cup {"RUNNING"}
         /\ \A d \in queue' : state'[d.task] \in Waiting /\ d.task \in Submitted'
         /\ \A u \in cancelled' : state'[u] = "RUNNING"
         /\ FreshWaits'
    BY <1>1, <1>2, <1>3, <1>5
    DEF PlaceInv, FreshWaits, Typed, TypeOK, Entries, Terminal
  <1> QED BY <1>8, <1>9, <1>11 DEF PlaceInv, HoldersOf

\* What a coroutine leaves behind, whatever becomes of its task.
LEMMA LeavePlace ==
  ASSUME PlaceInv, NEW w \in Workers, Running(w),
         holds' = [holds EXCEPT ![w] = NoTask],
         at' = [at EXCEPT ![w] = "draining"] \/ at' = [at EXCEPT ![w] = "idle"],
         UNCHANGED tasks,
         \A u \in Tasks \ {holds[w]} : state'[u] = state[u],
         \A u \in Tasks \ {holds[w]} : u \in cancelled' <=> u \in cancelled
  PROVE  \A v \in Workers : Running(v)' =>
          /\ state'[holds'[v]] = "RUNNING"
          /\ holds'[v] \in Submitted' \ cancelled'
          /\ {x \in Workers : holds'[x] = holds'[v]} = {v}
  <1> SUFFICES ASSUME NEW v \in Workers, Running(v)'
               PROVE  /\ state'[holds'[v]] = "RUNNING"
                      /\ holds'[v] \in Submitted' \ cancelled'
                      /\ {x \in Workers : holds'[x] = holds'[v]} = {v}
    OBVIOUS
  <1>1. v # w /\ Running(v) /\ holds'[v] = holds[v]
    BY DEF Running, PlaceInv, Typed, TypeOK
  <1>2. /\ HoldersOf(holds[w]) = {w} /\ HoldersOf(holds[v]) = {v}
        /\ holds[v] \in Tasks /\ state[holds[v]] = "RUNNING"
        /\ holds[v] \in Submitted \ cancelled
    BY <1>1 DEF PlaceInv, Typed, Shape
  <1>3. holds[v] # holds[w]
    BY <1>1, <1>2
  <1>4. Submitted' = Submitted
    BY DEF Submitted
  <1>6. {x \in Workers : holds'[x] = holds[v]} = {v}
    BY <1>2, <1>3, RuntimeAssumption DEF HoldersOf, PlaceInv, Typed, TypeOK
  <1> QED BY <1>1, <1>2, <1>3, <1>4, <1>6

\* The facts a finishing or cancelled coroutine w with task t starts from.
LEMMA HolderFacts ==
  ASSUME PlaceInv, NEW w \in Workers, Running(w), Release(w)
  PROVE  /\ holds[w] \in Tasks /\ state[holds[w]] = "RUNNING"
         /\ holds[w] \in Submitted \ cancelled
         /\ EntriesOf(holds[w]) = {}
         /\ holds' = [holds EXCEPT ![w] = NoTask]
         /\ {v \in Workers : holds'[v] = holds[w]} = {}
         /\ \A u \in Tasks \ {holds[w]} : HoldersOf(u)' = HoldersOf(u)
  <1>1. holds' = [holds EXCEPT ![w] = NoTask]
    BY DEF Release
  <1>2. /\ holds[w] \in Tasks
        /\ {v \in Workers : holds'[v] = holds[w]} = {}
        /\ \A u \in Tasks \ {holds[w]} : HoldersOf(u)' = HoldersOf(u)
        /\ EntriesOf(holds[w]) = {}
    BY <1>1, DropEffect
  <1> QED BY <1>1, <1>2 DEF PlaceInv

LEMMA SettlePlace ==
  ASSUME PlaceInv, Typed', NEW w \in Workers, Running(w), Release(w),
         at' = [at EXCEPT ![w] = "draining"],
         NEW s \in {"COMPLETED", "FAILED"},
         state' = [state EXCEPT ![holds[w]] = s],
         UNCHANGED <<tasks, queue, cancelled>>
  PROVE  PlaceInv'
  <1>1. PICK t \in Tasks : t = holds[w]
    BY HolderFacts
  <1>2. /\ state[t] = "RUNNING" /\ t \in Submitted \ cancelled
        /\ EntriesOf(t) = {}
        /\ holds' = [holds EXCEPT ![w] = NoTask]
        /\ {v \in Workers : holds'[v] = t} = {}
        /\ \A u \in Tasks \ {t} : HoldersOf(u)' = HoldersOf(u)
    BY <1>1, HolderFacts
  <1>3. /\ state'[t] = s /\ \A u \in Tasks \ {t} : state'[u] = state[u]
        /\ Submitted' = Submitted /\ \A u \in Tasks : EntriesOf(u)' = EntriesOf(u)
    BY <1>1 DEF PlaceInv, Typed, TypeOK, Submitted, EntriesOf
  <1>4. Placed(t)'
    <2>1. HoldersOf(t)' = {}
      BY <1>2 DEF HoldersOf
    <2> QED BY <1>2, <1>3, <2>1 DEF Placed, Waiting, Terminal
  <1>5. ASSUME NEW u \in Tasks \ {t} PROVE Placed(u)'
    BY <1>2, <1>3, Undisturbed DEF PlaceInv, OnePlace
  <1>6. OnePlace'
    BY <1>4, <1>5 DEF OnePlace
  <1>7. \A v \in Workers : Running(v)' =>
          /\ state'[holds'[v]] = "RUNNING"
          /\ holds'[v] \in Submitted' \ cancelled'
          /\ {x \in Workers : holds'[x] = holds'[v]} = {v}
    BY <1>1, <1>2, <1>3, LeavePlace
  <1>8. /\ \A u \in Tasks : state'[u] \in Waiting \cup Terminal \cup {"RUNNING"}
        /\ \A d \in queue' : state'[d.task] \in Waiting /\ d.task \in Submitted'
        /\ \A u \in cancelled' : state'[u] = "RUNNING"
        /\ FreshWaits'
    BY <1>2, <1>3
    DEF PlaceInv, FreshWaits, Typed, TypeOK, Entries, Terminal, EntriesOf
  <1> QED BY <1>6, <1>7, <1>8 DEF PlaceInv, HoldersOf

LEMMA RequeuePlace ==
  ASSUME PlaceInv, Typed', NEW w \in Workers, Running(w), Release(w),
         at' = [at EXCEPT ![w] = "draining"],
         state' = [state EXCEPT ![holds[w]] = "RETRYING"],
         Enqueue(holds[w]), UNCHANGED <<tasks, cancelled>>
  PROVE  PlaceInv'
  <1>1. PICK t \in Tasks : t = holds[w]
    BY HolderFacts
  <1>2. /\ state[t] = "RUNNING" /\ t \in Submitted \ cancelled
        /\ EntriesOf(t) = {}
        /\ holds' = [holds EXCEPT ![w] = NoTask]
        /\ {v \in Workers : holds'[v] = t} = {}
        /\ \A u \in Tasks \ {t} : HoldersOf(u)' = HoldersOf(u)
    BY <1>1, HolderFacts
  <1>3. /\ state'[t] = "RETRYING" /\ \A u \in Tasks \ {t} : state'[u] = state[u]
        /\ Submitted' = Submitted
    BY <1>1 DEF PlaceInv, Typed, TypeOK, Submitted
  <1>4. Typed /\ Enqueue(t)
    BY <1>1 DEF PlaceInv
  <1>5. /\ \E e \in queue' : e.task = t /\ queue' = queue \cup {e}
        /\ \E e \in queue' : EntriesOf(t)' = {e}
        /\ \A u \in Tasks \ {t} : EntriesOf(u)' = EntriesOf(u)
    BY <1>2, <1>4, EnqueueEffect
  <1>6. Placed(t)'
    <2>1. HoldersOf(t)' = {}
      BY <1>2 DEF HoldersOf
    <2> QED BY <1>2, <1>3, <1>5, <2>1 DEF Placed, Waiting, Terminal
  <1>7. ASSUME NEW u \in Tasks \ {t} PROVE Placed(u)'
    BY <1>2, <1>3, <1>5, Undisturbed DEF PlaceInv, OnePlace
  <1>8. OnePlace'
    BY <1>6, <1>7 DEF OnePlace
  <1>9. \A v \in Workers : Running(v)' =>
          /\ state'[holds'[v]] = "RUNNING"
          /\ holds'[v] \in Submitted' \ cancelled'
          /\ {x \in Workers : holds'[x] = holds'[v]} = {v}
    BY <1>1, <1>2, <1>3, LeavePlace
  <1>10. \A d \in queue' : state'[d.task] \in Waiting /\ d.task \in Submitted'
    BY <1>2, <1>3, <1>5
    DEF PlaceInv, Typed, TypeOK, Entries, EntriesOf, Waiting
  <1>11. /\ \A u \in Tasks : state'[u] \in Waiting \cup Terminal \cup {"RUNNING"}
         /\ \A u \in cancelled' : state'[u] = "RUNNING"
         /\ FreshWaits'
    BY <1>2, <1>3 DEF PlaceInv, FreshWaits, Typed, TypeOK, Waiting
  <1> QED BY <1>8, <1>9, <1>10, <1>11 DEF PlaceInv, HoldersOf

LEMMA CancelPlace ==
  ASSUME PlaceInv, Typed', NEW w \in Workers, Cancel(w)
  PROVE  PlaceInv'
  <1>1. Running(w) /\ Release(w)
    BY ResumesRuns DEF Cancel, PlaceInv
  <1>2. PICK t \in Tasks : t = holds[w]
    BY <1>1, HolderFacts
  <1>3. /\ state[t] = "RUNNING" /\ t \in Submitted \ cancelled
        /\ EntriesOf(t) = {}
        /\ holds' = [holds EXCEPT ![w] = NoTask]
        /\ {v \in Workers : holds'[v] = t} = {}
        /\ \A u \in Tasks \ {t} : HoldersOf(u)' = HoldersOf(u)
    BY <1>1, <1>2, HolderFacts
  <1>4. /\ UNCHANGED <<tasks, queue, state>> /\ cancelled' = cancelled \cup {t}
        /\ at' = [at EXCEPT ![w] = "idle"]
    BY <1>2 DEF Cancel, queueVars, taskVars
  <1>5. Submitted' = Submitted /\ \A u \in Tasks : EntriesOf(u)' = EntriesOf(u)
    BY <1>4 DEF Submitted, EntriesOf
  <1>6. Placed(t)'
    <2>1. HoldersOf(t)' = {}
      BY <1>3 DEF HoldersOf
    <2> QED BY <1>3, <1>4, <1>5, <2>1 DEF Placed, Waiting, Terminal
  <1>7. ASSUME NEW u \in Tasks \ {t} PROVE Placed(u)'
    BY <1>3, <1>4, <1>5, Undisturbed DEF PlaceInv, OnePlace
  <1>8. OnePlace'
    BY <1>6, <1>7 DEF OnePlace
  <1>9. \A v \in Workers : Running(v)' =>
          /\ state'[holds'[v]] = "RUNNING"
          /\ holds'[v] \in Submitted' \ cancelled'
          /\ {x \in Workers : holds'[x] = holds'[v]} = {v}
    BY <1>1, <1>2, <1>3, <1>4, LeavePlace
  <1>10. /\ \A u \in Tasks : state'[u] \in Waiting \cup Terminal \cup {"RUNNING"}
         /\ \A d \in queue' : state'[d.task] \in Waiting /\ d.task \in Submitted'
         /\ \A u \in cancelled' : state'[u] = "RUNNING"
         /\ FreshWaits'
    BY <1>3, <1>4, <1>5 DEF PlaceInv, FreshWaits
  <1> QED BY <1>8, <1>9, <1>10 DEF PlaceInv, HoldersOf

LEMMA NextPlace == PlaceInv /\ [Next]_vars => PlaceInv'
  <1> SUFFICES ASSUME PlaceInv, [Next]_vars PROVE PlaceInv'
    OBVIOUS
  <1>1. Typed /\ Typed'
    BY NextTyped DEF PlaceInv
  <1>2. ASSUME NEW t \in Tasks, Submit(t) PROVE PlaceInv'
    BY <1>1, <1>2, SubmitPlace
  <1>3. ASSUME NEW w \in Workers, NEW e \in queue, Dispatch(w, e) PROVE PlaceInv'
    BY <1>1, <1>3, DispatchPlace
  <1>4. ASSUME NEW w \in Workers, NEW e \in queue, Block(w, e) PROVE PlaceInv'
    BY <1>1, <1>4, BlockPlace
  <1>5. ASSUME NEW w \in Workers, Succeed(w) PROVE PlaceInv'
    <2>1. Running(w) /\ Release(w) /\ at' = [at EXCEPT ![w] = "draining"]
      BY <1>1, <1>5, ResumesRuns, ReturnType DEF Succeed
    <2>2. /\ state' = [state EXCEPT ![holds[w]] = "COMPLETED"]
          /\ UNCHANGED <<tasks, queue, cancelled>>
      BY <1>5 DEF Succeed, queueVars, history
    <2> QED BY <1>1, <2>1, <2>2, SettlePlace
  <1>6. ASSUME NEW w \in Workers, Raise(w) PROVE PlaceInv'
    <2>1. Running(w) /\ Release(w) /\ at' = [at EXCEPT ![w] = "draining"]
      BY <1>1, <1>6, ResumesRuns, ReturnType DEF Raise
    <2>2. UNCHANGED <<tasks, cancelled>> /\ RetryOrFail(holds[w])
      BY <1>6 DEF Raise, history
    <2>3. CASE retries[holds[w]] < MaxRetries[holds[w]]
      <3>1. Enqueue(holds[w]) /\ state' = [state EXCEPT ![holds[w]] = "RETRYING"]
        BY <2>2, <2>3 DEF RetryOrFail
      <3> QED BY <1>1, <2>1, <2>2, <3>1, RequeuePlace
    <2>4. CASE ~ (retries[holds[w]] < MaxRetries[holds[w]])
      <3>1. UNCHANGED queue /\ state' = [state EXCEPT ![holds[w]] = "FAILED"]
        BY <2>2, <2>4 DEF RetryOrFail, queueVars
      <3> QED BY <1>1, <2>1, <2>2, <3>1, SettlePlace
    <2> QED BY <2>3, <2>4
  <1>7. ASSUME NEW w \in Workers, Cancel(w) PROVE PlaceInv'
    BY <1>1, <1>7, CancelPlace
  <1>8. ASSUME NEW w \in Workers, StartDrain(w) \/ EndDrain(w) PROVE PlaceInv'
    <2>1. UNCHANGED <<tasks, queue, state, holds, cancelled>>
      BY <1>8 DEF StartDrain, EndDrain, queueVars, taskVars, history
    <2>2. \A v \in Workers : Running(v)' <=> Running(v)
      BY <1>1, <1>8 DEF StartDrain, EndDrain, Running, Typed, TypeOK
    <2> QED BY <1>1, <2>1, <2>2, PlaceUnchanged
  <1>9. CASE Rebinding \/ UNCHANGED vars
    <2>1. UNCHANGED <<tasks, queue, state, holds, cancelled, at>>
      BY <1>9 DEF Rebinding, RegisterHandler, UnregisterHandler, BindSubsystem,
         LoseSubsystem, SetHandlers, SetSubsystems, vars, queueVars, taskVars,
         workerVars, history
    <2>2. \A v \in Workers : Running(v)' <=> Running(v)
      BY <2>1 DEF Running
    <2> QED BY <1>1, <2>1, <2>2, PlaceUnchanged
  <1> QED BY <1>2, <1>3, <1>4, <1>5, <1>6, <1>7, <1>8, <1>9
         DEF Next, Drain, Finish

(* No submitted task is ever lost, queued twice or run by two coroutines:   *)
(* each is in exactly one place.                                            *)
THEOREM TasksHaveOnePlace == Spec => []OnePlace
  <1>1. PlaceInv => OnePlace
    BY DEF PlaceInv
  <1> QED BY <1>1, InitPlace, NextPlace, PTL DEF Spec

-----------------------------------------------------------------------------
(* The retry budget. A start adds one to attempts and makes the task        *)
(* RUNNING; only its own coroutine moves it on from there.                  *)

BudgetInv == PlaceInv /\ RetryBudget

Counted(t) ==
  /\ attempts[t] = retries[t] + (IF state[t] \in Started THEN 1 ELSE 0)
  /\ attempts[t] <= MaxRetries[t] + 1
  /\ state[t] = "FAILED" => attempts[t] = MaxRetries[t] + 1

LEMMA BudgetIsCounted == RetryBudget <=> \A t \in Tasks : Counted(t)
  BY DEF RetryBudget, Counted

LEMMA CountTypes ==
  ASSUME Typed, NEW t \in Tasks
  PROVE  /\ attempts[t] \in Nat /\ retries[t] \in Nat /\ MaxRetries[t] \in Nat
         /\ retries[t] <= MaxRetries[t]
         /\ attempts \in [Tasks -> Nat] /\ retries \in [Tasks -> Nat]
         /\ state \in [Tasks -> TaskState]
  BY RuntimeAssumption DEF Typed, TypeOK

LEMMA InitBudget == Init => BudgetInv
  <1>1. Init => RetryBudget
    <2> SUFFICES ASSUME Init, NEW t \in Tasks PROVE Counted(t)
      BY BudgetIsCounted
    <2>1. attempts[t] = 0 /\ retries[t] = 0 /\ state[t] = "PENDING"
      BY DEF Init
    <2>2. MaxRetries[t] \in Nat
      BY RuntimeAssumption
    <2> QED BY <2>1, <2>2 DEF Counted, Started
  <1> QED BY <1>1, InitPlace DEF BudgetInv

LEMMA NextBudget == BudgetInv /\ [Next]_vars => BudgetInv'
  <1> SUFFICES ASSUME BudgetInv, [Next]_vars PROVE \A t \in Tasks : Counted(t)'
    <2>1. BudgetInv' <=> PlaceInv' /\ \A t \in Tasks : Counted(t)'
      BY DEF BudgetInv, RetryBudget, Counted
    <2> QED BY <2>1, NextPlace DEF BudgetInv
  <1>1. Typed /\ PlaceInv /\ \A t \in Tasks : Counted(t)
    BY BudgetIsCounted DEF BudgetInv, PlaceInv
  <1>2. ASSUME UNCHANGED <<attempts, retries, state>>
        PROVE  \A t \in Tasks : Counted(t)'
    BY <1>1, <1>2 DEF Counted
  <1>3. ASSUME NEW w \in Workers, NEW e \in queue, Dispatch(w, e)
        PROVE  \A t \in Tasks : Counted(t)'
    <2> DEFINE u == e.task
    <2>1. u \in Tasks /\ state[u] \in Waiting
      BY <1>1, <1>3 DEF Typed, TypeOK, Entries, Dispatch
    <2>2. /\ state' = [state EXCEPT ![u] = "RUNNING"]
          /\ attempts' = [attempts EXCEPT ![u] = @ + 1]
          /\ retries' = retries
      BY <1>3 DEF Dispatch, Begin
    <2>3. TAKE t \in Tasks
    <2>4. CASE t = u
      <3>1. attempts[u] = retries[u]
        BY <1>1, <2>1, CountTypes DEF Counted, Started, Waiting
      <3>2. state'[u] = "RUNNING" /\ attempts'[u] = attempts[u] + 1
        BY <1>1, <2>1, <2>2, CountTypes
      <3> QED BY <1>1, <2>1, <2>2, <2>4, <3>1, <3>2, CountTypes DEF Counted, Started
    <2>5. CASE t # u
      <3>1. state'[t] = state[t] /\ attempts'[t] = attempts[t]
        BY <1>1, <2>1, <2>2, <2>5, CountTypes
      <3> QED BY <1>1, <2>2, <3>1 DEF Counted
    <2> QED BY <2>4, <2>5
  <1>4. ASSUME NEW w \in Workers, NEW e \in queue, Block(w, e)
        PROVE  \A t \in Tasks : Counted(t)'
    <2> DEFINE u == e.task
    <2>1. u \in Tasks /\ state[u] \in Waiting
      BY <1>1, <1>4 DEF Typed, TypeOK, Entries, Block
    <2>2. /\ state' = [state EXCEPT ![u] = "BLOCKED_UNBOUND"]
          /\ UNCHANGED <<attempts, retries>>
      BY <1>4 DEF Block, history
    <2>3. TAKE t \in Tasks
    <2>4. state'[t] = IF t = u THEN "BLOCKED_UNBOUND" ELSE state[t]
      BY <1>1, <2>1, <2>2, CountTypes
    <2> QED BY <1>1, <2>1, <2>2, <2>4 DEF Counted, Started, Waiting
  <1>5. ASSUME NEW w \in Workers, Succeed(w)
        PROVE  \A t \in Tasks : Counted(t)'
    <2>1. /\ holds[w] \in Tasks /\ state[holds[w]] = "RUNNING"
          /\ state' = [state EXCEPT ![holds[w]] = "COMPLETED"]
          /\ UNCHANGED <<attempts, retries>>
      BY <1>1, <1>5, ResumesRuns DEF Succeed, PlaceInv, history
    <2>2. TAKE t \in Tasks
    <2>3. state'[t] = IF t = holds[w] THEN "COMPLETED" ELSE state[t]
      BY <1>1, <2>1, CountTypes
    <2> QED BY <1>1, <2>1, <2>3 DEF Counted, Started
  <1>6. ASSUME NEW w \in Workers, Raise(w)
        PROVE  \A t \in Tasks : Counted(t)'
    <2>1. PICK u \in Tasks : u = holds[w]
      BY <1>1, <1>6, ResumesRuns DEF Raise
    <2>2. state[u] = "RUNNING" /\ RetryOrFail(u) /\ attempts' = attempts
      BY <1>1, <1>6, <2>1, ResumesRuns DEF Raise, PlaceInv, history
    <2>3. attempts[u] = retries[u] + 1
      BY <1>1, <2>2 DEF Counted, Started
    <2>4. CASE retries[u] < MaxRetries[u]
      <3>1. /\ retries' = [retries EXCEPT ![u] = @ + 1]
            /\ state' = [state EXCEPT ![u] = "RETRYING"]
        BY <2>2, <2>4 DEF RetryOrFail
      <3>2. TAKE t \in Tasks
      <3>3. /\ state'[t] = IF t = u THEN "RETRYING" ELSE state[t]
            /\ retries'[t] = IF t = u THEN retries[u] + 1 ELSE retries[t]
        BY <1>1, <3>1, CountTypes
      <3>4. CASE t = u
        BY <1>1, <2>2, <2>3, <3>3, <3>4, CountTypes DEF Counted, Started
      <3>5. CASE t # u
        BY <1>1, <2>2, <3>3, <3>5 DEF Counted
      <3> QED BY <3>4, <3>5
    <2>5. CASE ~ (retries[u] < MaxRetries[u])
      <3>1. state' = [state EXCEPT ![u] = "FAILED"] /\ retries' = retries
        BY <2>2, <2>5 DEF RetryOrFail
      <3>2. TAKE t \in Tasks
      <3>3. state'[t] = IF t = u THEN "FAILED" ELSE state[t]
        BY <1>1, <3>1, CountTypes
      <3>4. retries[u] = MaxRetries[u]
        BY <1>1, <2>5, CountTypes
      <3>5. CASE t = u
        BY <1>1, <2>2, <2>3, <3>1, <3>3, <3>4, <3>5 DEF Counted, Started
      <3>6. CASE t # u
        BY <1>1, <2>2, <3>1, <3>3, <3>6 DEF Counted
      <3> QED BY <3>5, <3>6
    <2> QED BY <2>4, <2>5
  <1>7. ASSUME NEW w \in Workers, StartDrain(w) \/ EndDrain(w) \/ Cancel(w)
        PROVE  UNCHANGED <<attempts, retries, state>>
    BY <1>7 DEF StartDrain, EndDrain, Cancel, taskVars, history
  <1>8. ASSUME NEW t \in Tasks, Submit(t)
        PROVE  UNCHANGED <<attempts, retries, state>>
    BY <1>8 DEF Submit, taskVars, history
  <1>9. CASE Rebinding \/ UNCHANGED vars
    <2>1. UNCHANGED <<attempts, retries, state>>
      BY <1>9 DEF Rebinding, RegisterHandler, UnregisterHandler, BindSubsystem,
         LoseSubsystem, SetHandlers, SetSubsystems, vars, taskVars, history
    <2> QED BY <1>2, <2>1
  <1> QED BY <1>2, <1>3, <1>4, <1>5, <1>6, <1>7, <1>8, <1>9
         DEF Next, Drain, Finish

(* A task is started at most max_retries + 1 times, and is given up only    *)
(* after all of them.                                                       *)
THEOREM RetriesWithinBudget == Spec => []RetryBudget
  <1>1. BudgetInv => RetryBudget
    BY DEF BudgetInv
  <1> QED BY <1>1, InitBudget, NextBudget, PTL DEF Spec

-----------------------------------------------------------------------------
(* The ledger. A coroutine's piston is the one its task is assigned to, so  *)
(* the tasks the ledger shows on a piston inject into the coroutines on it. *)

AssignInv == \A w \in Workers : Running(w) => assigned[holds[w]] = slot[w]

LedgerInv == SlotInv /\ BudgetInv /\ AssignInv

LEMMA NextAssign ==
  ASSUME PlaceInv, AssignInv, [Next]_vars PROVE AssignInv'
  <1> USE DEF AssignInv
  <1>1. Typed
    BY DEF PlaceInv
  <1>2. ASSUME NEW w \in Workers, NEW e \in queue, Dispatch(w, e) PROVE AssignInv'
    <2>1. PICK t \in Tasks : t = e.task
      BY <1>1 DEF Typed, TypeOK, Entries
    <2>2. PICK p \in Pistons : Begin(w, t, p, "executing")
      BY <1>2, <2>1, RuntimeAssumption DEF Dispatch, Best, Candidates
    <2>3. /\ assigned' = [assigned EXCEPT ![t] = p]
          /\ at' = [at EXCEPT ![w] = "executing"]
          /\ holds' = [holds EXCEPT ![w] = t]
          /\ slot' = [slot EXCEPT ![w] = p]
      BY <2>2 DEF Begin
    <2>4. \A v \in Workers : Running(v) => holds[v] \in Tasks \ {t}
      BY <1>2, <2>1, PopEffect DEF Dispatch, HoldersOf, PlaceInv, Typed, Shape
    <2> QED BY <1>1, <2>3, <2>4 DEF Running, Typed, TypeOK
  <1>3. ASSUME NEW w \in Workers, NEW e \in queue, Block(w, e) PROVE AssignInv'
    <2>1. PICK t \in Tasks : t = e.task
      BY <1>1 DEF Typed, TypeOK, Entries
    <2>2. /\ assigned' = [assigned EXCEPT ![t] = NoPiston]
          /\ UNCHANGED <<at, holds, slot>>
      BY <1>3, <2>1 DEF Block
    <2>3. \A v \in Workers : Running(v) => holds[v] \in Tasks \ {t}
      BY <1>3, <2>1, PopEffect DEF Block, HoldersOf, PlaceInv, Typed, Shape
    <2> QED BY <1>1, <2>2, <2>3 DEF Running, Typed, TypeOK
  <1>4. ASSUME NEW w \in Workers, Succeed(w) \/ Raise(w) \/ Cancel(w)
        PROVE  AssignInv'
    <2>1. /\ Running(w) /\ assigned' = assigned
          /\ holds' = [holds EXCEPT ![w] = NoTask]
          /\ slot' = [slot EXCEPT ![w] = NoPiston]
      BY <1>1, <1>4, ResumesRuns DEF Succeed, Raise, Cancel, Release, taskVars
    <2>2. at' = [at EXCEPT ![w] = "draining"] \/ at' = [at EXCEPT ![w] = "idle"]
      BY <1>4 DEF Succeed, Raise, Cancel, Return
    <2>3. \A v \in Workers : Running(v)' => v # w /\ Running(v)
      BY <1>1, <2>2 DEF Running, Typed, TypeOK
    <2> QED BY <1>1, <2>1, <2>3 DEF Typed, TypeOK
  <1>5. ASSUME NEW w \in Workers, StartDrain(w) \/ EndDrain(w) PROVE AssignInv'
    BY <1>1, <1>5 DEF StartDrain, EndDrain, Running, Typed, TypeOK, taskVars
  <1>6. ASSUME UNCHANGED <<assigned, workerVars>> PROVE AssignInv'
    BY <1>6 DEF Running, workerVars
  <1>7. ASSUME NEW t \in Tasks, Submit(t) PROVE AssignInv'
    BY <1>6, <1>7 DEF Submit, taskVars
  <1>8. CASE Rebinding \/ UNCHANGED vars
    BY <1>6, <1>8 DEF Rebinding, RegisterHandler, UnregisterHandler, BindSubsystem,
       LoseSubsystem, SetHandlers, SetSubsystems, vars, taskVars
  <1> QED BY <1>2, <1>3, <1>4, <1>5, <1>7, <1>8 DEF Next, Drain, Finish

LEMMA LedgerInvariant == Spec => []LedgerInv
  <1>1. Init => LedgerInv
    BY InitSlot, InitBudget DEF LedgerInv, AssignInv, Init, Running
  <1>2. LedgerInv /\ [Next]_vars => LedgerInv'
    BY NextSlot, NextBudget, NextAssign DEF LedgerInv, BudgetInv
  <1> QED BY <1>1, <1>2, PTL DEF Spec

\* The stage of one task, and what it runs on.
LEMMA StageOf ==
  ASSUME PlaceInv, NEW t \in Tasks
  PROVE  /\ t \notin Submitted <=> Stage[t] = "new"
         /\ t \in Submitted /\ state[t] \in Waiting <=> Stage[t] = "waiting"
         /\ t \in Submitted \ cancelled /\ state[t] = "RUNNING" <=> Stage[t] = "RUNNING"
         /\ RunsOn[t] = IF Stage[t] = "RUNNING" THEN assigned[t] ELSE NoPiston
  BY DEF PlaceInv, FreshWaits, Stage, RunsOn, Waiting, Terminal

\* A step that concerns one task moves the ledger at that task only.
LEMMA LedgerMoves ==
  ASSUME NEW t \in Tasks,
         \A u \in Tasks \ {t} : /\ u \in Submitted' <=> u \in Submitted
                                /\ u \in cancelled' <=> u \in cancelled
                                /\ state'[u] = state[u]
                                /\ assigned'[u] = assigned[u]
  PROVE  /\ \A s : Stage'[t] = s => Stage' = [Stage EXCEPT ![t] = s]
         /\ \A p : RunsOn'[t] = p => RunsOn' = [RunsOn EXCEPT ![t] = p]
  <1>1. \A u \in Tasks \ {t} : Stage'[u] = Stage[u]
    BY DEF Stage
  <1>2. \A u \in Tasks \ {t} : RunsOn'[u] = RunsOn[u]
    BY <1>1 DEF RunsOn
  <1>3. /\ Stage = [u \in Tasks |-> Stage[u]] /\ Stage' = [u \in Tasks |-> Stage'[u]]
        /\ RunsOn = [u \in Tasks |-> RunsOn[u]]
        /\ RunsOn' = [u \in Tasks |-> RunsOn'[u]]
    BY DEF Stage, RunsOn
  <1> QED BY <1>1, <1>2, <1>3

LEMMA LedgerStutters ==
  ASSUME UNCHANGED <<tasks, state, assigned, cancelled, attempts>>
  PROVE  UNCHANGED Ledger!ledger
  <1>1. Submitted' = Submitted
    BY DEF Submitted
  <1>2. Stage' = Stage /\ RunsOn' = RunsOn
    BY <1>1 DEF Stage, RunsOn
  <1> QED BY <1>2 DEF Ledger!ledger

\* The ledger never shows more tasks on a piston than coroutines run there.
LEMMA ShownFit ==
  ASSUME LedgerInv, NEW p \in Pistons
  PROVE  /\ IsFiniteSet({u \in Tasks : RunsOn[u] = p})
         /\ Cardinality({u \in Tasks : RunsOn[u] = p}) <= load[p]
  <1> DEFINE U == {u \in Tasks : RunsOn[u] = p}
             f == [u \in U |-> CHOOSE w \in Workers : holds[w] = u /\ slot[w] = p]
  <1>1. ASSUME NEW u \in U PROVE \E w \in Workers : holds[w] = u /\ slot[w] = p
    <2>1. u \in Submitted \ cancelled /\ state[u] = "RUNNING" /\ assigned[u] = p
      BY StageOf, RuntimeAssumption DEF LedgerInv, BudgetInv
    <2>2. PICK w \in Workers : HoldersOf(u) = {w}
      BY <2>1 DEF LedgerInv, BudgetInv, PlaceInv, OnePlace, Placed
    <2>3. holds[w] = u /\ Running(w)
      BY <2>2 DEF HoldersOf, LedgerInv, SlotInv, Typed, Shape
    <2> QED BY <2>1, <2>3 DEF LedgerInv, AssignInv
  <1>2. \A u \in U : f[u] \in Workers /\ holds[f[u]] = u /\ slot[f[u]] = p
    BY <1>1
  <1>3. f \in Injection(U, On(p))
    <2>1. f \in [U -> On(p)] /\ DOMAIN f = U
      BY <1>2 DEF On
    <2> HIDE DEF f, U
    <2>2. \A a, b \in DOMAIN f : f[a] = f[b] => a = b
      BY <1>2, <2>1
    <2> QED BY <2>1, <2>2 DEF Injection, IsInjective
  <1>4. IsFiniteSet(U) /\ Cardinality(U) <= Cardinality(On(p))
    BY <1>3, OnFinite, FS_Injection
  <1> QED BY <1>4 DEF LedgerInv, SlotInv, SlotAccounting

LEMMA SubmitImplements ==
  ASSUME LedgerInv, NEW t \in Tasks, Submit(t)
  PROVE  Ledger!Submit(t)
  <1>1. PlaceInv /\ Typed
    BY DEF LedgerInv, BudgetInv, SlotInv
  <1>2. /\ t \notin Submitted /\ Submitted' = Submitted \cup {t}
        /\ UNCHANGED <<state, assigned, cancelled, attempts>>
    BY <1>1, SubmitEffect DEF Submit, taskVars, history
  <1>3. state[t] = "PENDING" /\ Stage[t] = "new" /\ RunsOn[t] = NoPiston
    BY <1>1, <1>2, StageOf DEF PlaceInv, FreshWaits
  <1>4. Stage'[t] = "waiting" /\ RunsOn'[t] = RunsOn[t]
    BY <1>2, <1>3 DEF Stage, RunsOn, Waiting
  <1>5. Stage' = [Stage EXCEPT ![t] = "waiting"] /\ RunsOn' = [RunsOn EXCEPT ![t] = RunsOn[t]]
    BY <1>2, <1>4, LedgerMoves
  <1>6. RunsOn' = RunsOn
    BY <1>5 DEF RunsOn
  <1> QED BY <1>2, <1>3, <1>5, <1>6 DEF Ledger!Submit, Ledger!Move

\* What a task the queue came to was before.
LEMMA PoppedWaits ==
  ASSUME LedgerInv, NEW w \in Workers, NEW e \in queue, Pop(w, e)
  PROVE  /\ e.task \in Tasks /\ e.task \in Submitted \ cancelled
         /\ Stage[e.task] = "waiting" /\ RunsOn[e.task] = NoPiston
         /\ Submitted' = Submitted
  <1>1. PlaceInv /\ e.task \in Tasks
    BY DEF LedgerInv, BudgetInv, SlotInv, Typed, TypeOK, Entries
  <1>2. /\ state[e.task] \in Waiting /\ e.task \in Submitted
        /\ e.task \notin cancelled
    BY <1>1 DEF PlaceInv, Waiting
  <1> QED BY <1>1, <1>2, StageOf DEF Pop, Submitted

\* Module TaskLedger counts with its own instance of FiniteSets.
LEMMA SameCardinality == \A S : Ledger!Cardinality(S) = Cardinality(S)
  BY Zenon DEF Ledger!Cardinality, Cardinality

LEMMA DispatchImplements ==
  ASSUME LedgerInv, NEW w \in Workers, NEW e \in queue, Dispatch(w, e)
  PROVE  \E t \in Tasks, p \in Pistons : Ledger!Start(t, p)
  <1>1. PICK t \in Tasks : t = e.task
    BY PoppedWaits DEF Dispatch
  <1>2. PICK p \in Best(t) : Begin(w, t, p, "executing")
    BY <1>1 DEF Dispatch
  <1>3. p \in Pistons /\ p \in Matches[t] /\ load[p] < MaxConcurrent[p]
    BY <1>2, RuntimeAssumption DEF Best, Candidates, CapacityAvailable
  <1>4. /\ t \in Submitted \ cancelled /\ Submitted' = Submitted
        /\ Stage[t] = "waiting" /\ RunsOn[t] = NoPiston
    BY <1>1, PoppedWaits DEF Dispatch
  <1>5. /\ state' = [state EXCEPT ![t] = "RUNNING"]
        /\ assigned' = [assigned EXCEPT ![t] = p]
        /\ attempts' = [attempts EXCEPT ![t] = @ + 1]
        /\ cancelled' = cancelled
    BY <1>2 DEF Begin
  <1>6. /\ state'[t] = "RUNNING" /\ assigned'[t] = p
        /\ \A u \in Tasks \ {t} : state'[u] = state[u] /\ assigned'[u] = assigned[u]
    BY <1>5 DEF LedgerInv, SlotInv, Typed, TypeOK
  <1>7. Stage'[t] = "RUNNING" /\ RunsOn'[t] = p
    BY <1>4, <1>5, <1>6 DEF Stage, RunsOn, Waiting
  <1>8. Stage' = [Stage EXCEPT ![t] = "RUNNING"] /\ RunsOn' = [RunsOn EXCEPT ![t] = p]
    BY <1>4, <1>5, <1>6, <1>7, LedgerMoves
  <1>9. Cardinality({u \in Tasks : RunsOn[u] = p}) < MaxConcurrent[p]
    <2> DEFINE U == {u \in Tasks : RunsOn[u] = p}
    <2>1. IsFiniteSet(U) /\ Cardinality(U) <= load[p]
      BY <1>3, ShownFit
    <2>2. Cardinality(U) \in Nat /\ load[p] \in Nat /\ MaxConcurrent[p] \in Nat
      BY <1>3, <2>1, FS_CardinalityType, RuntimeAssumption
      DEF LedgerInv, SlotInv, Typed, TypeOK
    <2> QED BY <1>3, <2>1, <2>2
  <1>10. Ledger!Start(t, p)
    <2>1. Ledger!Move(t, "waiting", "RUNNING")
      BY <1>4, <1>8 DEF Ledger!Move
    <2>2. attempts' = [attempts EXCEPT ![t] = @ + 1]
      BY <1>5
    <2>3. p \in Matches[t] /\ RunsOn' = [RunsOn EXCEPT ![t] = p]
      BY <1>3, <1>8
    <2> QED BY <1>9, <2>1, <2>2, <2>3, SameCardinality DEF Ledger!Start
  <1> QED BY <1>3, <1>10

LEMMA BlockImplements ==
  ASSUME LedgerInv, NEW w \in Workers, NEW e \in queue, Block(w, e)
  PROVE  Ledger!Block(e.task)
  <1>1. PICK t \in Tasks : t = e.task
    BY PoppedWaits DEF Block
  <1>2. /\ t \in Submitted \ cancelled /\ Submitted' = Submitted
        /\ Stage[t] = "waiting" /\ RunsOn[t] = NoPiston
    BY <1>1, PoppedWaits DEF Block
  <1>3. /\ state' = [state EXCEPT ![t] = "BLOCKED_UNBOUND"]
        /\ assigned' = [assigned EXCEPT ![t] = NoPiston]
        /\ UNCHANGED <<attempts, cancelled>>
    BY <1>1 DEF Block, history
  <1>4. /\ state'[t] = "BLOCKED_UNBOUND"
        /\ \A u \in Tasks \ {t} : state'[u] = state[u] /\ assigned'[u] = assigned[u]
    BY <1>3 DEF LedgerInv, SlotInv, Typed, TypeOK
  <1>5. Stage'[t] = "BLOCKED_UNBOUND" /\ RunsOn'[t] = NoPiston
    BY <1>2, <1>3, <1>4 DEF Stage, RunsOn, Waiting
  <1>6. /\ Stage' = [Stage EXCEPT ![t] = "BLOCKED_UNBOUND"]
        /\ RunsOn' = [RunsOn EXCEPT ![t] = NoPiston]
    BY <1>2, <1>3, <1>4, <1>5, LedgerMoves
  <1>7. RunsOn' = RunsOn
    BY <1>2, <1>6 DEF RunsOn
  <1> QED BY <1>1, <1>2, <1>3, <1>6, <1>7 DEF Ledger!Block, Ledger!Move

\* A coroutine gives its task up, to a stage the ledger knows.
LEMMA LeaveImplements ==
  ASSUME LedgerInv, NEW w \in Workers, Running(w), NEW t \in Tasks, t = holds[w],
         NEW s, s # "RUNNING", Stage'[t] = s,
         \A u \in Tasks \ {t} : state'[u] = state[u] /\ (u \in cancelled' <=> u \in cancelled),
         UNCHANGED <<tasks, assigned, attempts>>
  PROVE  Ledger!Leave(t, s)
  <1>1. PlaceInv /\ t \in Submitted \ cancelled /\ state[t] = "RUNNING"
    BY DEF LedgerInv, BudgetInv, PlaceInv
  <1>2. Stage[t] = "RUNNING"
    BY <1>1, StageOf
  <1>3. RunsOn'[t] = NoPiston
    BY DEF RunsOn
  <1>4. Submitted' = Submitted
    BY DEF Submitted
  <1>5. Stage' = [Stage EXCEPT ![t] = s] /\ RunsOn' = [RunsOn EXCEPT ![t] = NoPiston]
    BY <1>3, <1>4, LedgerMoves
  <1> QED BY <1>2, <1>5 DEF Ledger!Leave, Ledger!Move

LEMMA FinishImplements ==
  ASSUME LedgerInv, NEW w \in Workers, Succeed(w) \/ Raise(w) \/ Cancel(w)
  PROVE  \E t \in Tasks : \/ Ledger!Complete(t) \/ Ledger!Retry(t)
                          \/ Ledger!GiveUp(t) \/ Ledger!Abandon(t)
  <1>1. Typed /\ PlaceInv /\ Running(w)
    BY ResumesRuns DEF LedgerInv, SlotInv, BudgetInv, Succeed, Raise, Cancel
  <1>2. PICK t \in Tasks : t = holds[w]
    BY <1>1 DEF Typed, Shape
  <1>3. /\ t \in Submitted \ cancelled /\ state[t] = "RUNNING"
        /\ state \in [Tasks -> TaskState]
    BY <1>1, <1>2 DEF PlaceInv, Typed, TypeOK
  <1>4. UNCHANGED <<tasks, assigned, attempts>>
    BY DEF Succeed, Raise, Cancel, history, taskVars
  <1>5. Submitted' = Submitted
    BY <1>4 DEF Submitted
  <1>6. /\ attempts[t] = retries[t] + 1 /\ retries[t] <= MaxRetries[t]
        /\ attempts[t] \in Nat /\ retries[t] \in Nat /\ MaxRetries[t] \in Nat
    BY <1>1, <1>3, BudgetIsCounted, CountTypes DEF LedgerInv, BudgetInv, Counted, Started
  <1>7. CASE Succeed(w)
    <2>1. state' = [state EXCEPT ![t] = "COMPLETED"] /\ cancelled' = cancelled
      BY <1>2, <1>7 DEF Succeed, history
    <2>2. Stage'[t] = "COMPLETED"
      BY <1>3, <1>5, <2>1 DEF Stage, Waiting
    <2>3. Ledger!Leave(t, "COMPLETED")
      BY <1>1, <1>2, <1>3, <1>4, <2>1, <2>2, LeaveImplements
    <2> QED BY <2>3 DEF Ledger!Complete
  <1>8. CASE Raise(w)
    <2>1. RetryOrFail(t) /\ cancelled' = cancelled
      BY <1>2, <1>8 DEF Raise, history
    <2>2. CASE retries[t] < MaxRetries[t]
      <3>1. state' = [state EXCEPT ![t] = "RETRYING"]
        BY <2>1, <2>2 DEF RetryOrFail
      <3>2. Stage'[t] = "waiting"
        BY <1>3, <1>5, <3>1 DEF Stage, Waiting
      <3>3. Ledger!Leave(t, "waiting")
        BY <1>1, <1>2, <1>3, <1>4, <2>1, <3>1, <3>2, LeaveImplements
      <3>4. attempts[t] <= MaxRetries[t]
        BY <1>6, <2>2
      <3> QED BY <3>3, <3>4 DEF Ledger!Retry
    <2>3. CASE ~ (retries[t] < MaxRetries[t])
      <3>1. state' = [state EXCEPT ![t] = "FAILED"]
        BY <2>1, <2>3 DEF RetryOrFail
      <3>2. Stage'[t] = "FAILED"
        BY <1>3, <1>5, <2>1, <3>1 DEF Stage, Waiting
      <3>3. Ledger!Leave(t, "FAILED")
        BY <1>1, <1>2, <1>3, <1>4, <2>1, <3>1, <3>2, LeaveImplements
      <3>4. attempts[t] = MaxRetries[t] + 1
        BY <1>6, <2>3
      <3> QED BY <3>3, <3>4 DEF Ledger!GiveUp
    <2> QED BY <2>2, <2>3
  <1>9. CASE Cancel(w)
    <2>1. state' = state /\ cancelled' = cancelled \cup {t}
      BY <1>2, <1>9 DEF Cancel, taskVars
    <2>2. Stage'[t] = "abandoned"
      BY <1>3, <1>5, <2>1 DEF Stage, Waiting
    <2>3. Ledger!Leave(t, "abandoned")
      BY <1>1, <1>2, <1>3, <1>4, <2>1, <2>2, LeaveImplements
    <2> QED BY <2>3 DEF Ledger!Abandon
  <1> QED BY <1>7, <1>8, <1>9

LEMMA StepImplements ==
  LedgerInv /\ [Next]_vars => [Ledger!Next]_(Ledger!ledger)
  <1> SUFFICES ASSUME LedgerInv, [Next]_vars
               PROVE  Ledger!Next \/ UNCHANGED Ledger!ledger
    OBVIOUS
  <1> USE DEF Ledger!Next
  <1>1. ASSUME NEW t \in Tasks, Submit(t) PROVE Ledger!Next
    BY <1>1, SubmitImplements
  <1>2. ASSUME NEW w \in Workers, NEW e \in queue, Dispatch(w, e) PROVE Ledger!Next
    BY <1>2, DispatchImplements, PoppedWaits DEF Dispatch
  <1>3. ASSUME NEW w \in Workers, NEW e \in queue, Block(w, e) PROVE Ledger!Next
    BY <1>3, BlockImplements, PoppedWaits DEF Block
  <1>4. ASSUME NEW w \in Workers, Succeed(w) \/ Raise(w) \/ Cancel(w)
        PROVE  Ledger!Next
    BY <1>4, FinishImplements
  <1>5. ASSUME NEW w \in Workers, StartDrain(w) \/ EndDrain(w)
        PROVE  UNCHANGED Ledger!ledger
    BY <1>5, LedgerStutters DEF StartDrain, EndDrain, taskVars, history
  <1>6. CASE Rebinding \/ UNCHANGED vars
    BY <1>6, LedgerStutters DEF Rebinding, RegisterHandler, UnregisterHandler,
       BindSubsystem, LoseSubsystem, SetHandlers, SetSubsystems, vars, taskVars, history
  <1> QED BY <1>1, <1>2, <1>3, <1>4, <1>5, <1>6 DEF Next, Drain, Finish

(* The runtime implements the ledger: however coroutines interleave on the  *)
(* queue and the load counters, a client sees tasks that wait, start only   *)
(* on a permitted piston with a free slot, and are retried within budget.   *)
THEOREM RuntimeImplementsLedger == Spec => ImplementsLedger
  <1>1. Init => Ledger!Init
    <2> SUFFICES ASSUME Init PROVE Ledger!Init
      OBVIOUS
    <2>1. Submitted = {}
      BY DEF Init, Submitted
    <2> QED BY <2>1 DEF Init, Ledger!Init, Stage, RunsOn
  <1> QED BY <1>1, StepImplements, LedgerInvariant, PTL
         DEF Spec, ImplementsLedger, Ledger!Spec

-----------------------------------------------------------------------------
(* The order of the queue. An entry of a task the queue has not come to yet *)
(* is older than every entry of a task submitted later, retries included.   *)

FirstCome ==
  /\ \A t \in Tasks : t \notin Submitted => attempts[t] = 0
  /\ \A i, j \in DOMAIN tasks : tasks[i] = tasks[j] => i = j
  /\ \A d \in queue : d.seq <= sequence
  /\ \A i, j \in DOMAIN tasks, d, e \in queue :
       /\ i < j /\ d.task = tasks[i] /\ e.task = tasks[j]
       /\ ~ Reached(tasks[i])
       => d.seq < e.seq

OrderInv == BudgetInv /\ FirstCome /\ NoOvertaking

LEMMA RunningWasReached ==
  ASSUME BudgetInv, NEW w \in Workers, Running(w)
  PROVE  holds[w] \in Tasks /\ state[holds[w]] = "RUNNING" /\ attempts[holds[w]] > 0
  <1>1. PICK t \in Tasks : t = holds[w]
    BY DEF BudgetInv, PlaceInv, Typed, Shape
  <1>2. state[t] = "RUNNING"
    BY <1>1 DEF BudgetInv, PlaceInv
  <1>3. attempts[t] = retries[t] + 1 /\ retries[t] \in Nat
    BY <1>2 DEF BudgetInv, RetryBudget, Started, PlaceInv, Typed, TypeOK
  <1> QED BY <1>1, <1>2, <1>3

\* Only the head of the queue is reached, and what was reached stays so.
LEMMA ReachStep ==
  ASSUME BudgetInv, [Next]_vars, NEW t \in Tasks
  PROVE  /\ Reached(t) => Reached(t)'
         /\ Reached(t)' => Reached(t) \/ \E e \in queue : e.task = t /\ IsHead(e)
  <1>1. /\ PlaceInv /\ Typed
        /\ state \in [Tasks -> TaskState] /\ attempts \in [Tasks -> Nat]
    BY DEF BudgetInv, PlaceInv, Typed, TypeOK
  <1>2. ASSUME state'[t] = state[t], attempts'[t] = attempts[t]
        PROVE  Reached(t)' <=> Reached(t)
    BY <1>2 DEF Reached
  <1>3. ASSUME NEW w \in Workers, NEW e \in queue, Dispatch(w, e)
        PROVE  /\ Reached(t) => Reached(t)'
               /\ Reached(t)' => Reached(t) \/ (e.task = t /\ IsHead(e))
    <2>1. PICK u \in Tasks : u = e.task
      BY <1>1 DEF Typed, TypeOK, Entries
    <2>2. /\ attempts' = [attempts EXCEPT ![u] = @ + 1]
          /\ state' = [state EXCEPT ![u] = "RUNNING"]
          /\ IsHead(e)
      BY <1>3, <2>1 DEF Dispatch, Pop, Begin
    <2>3. CASE t = u
      <3>1. attempts'[t] = attempts[t] + 1 /\ attempts[t] \in Nat
        BY <1>1, <2>2, <2>3
      <3> QED BY <2>1, <2>2, <2>3, <3>1 DEF Reached
    <2>4. CASE t # u
      BY <1>1, <1>2, <2>2, <2>4
    <2> QED BY <2>3, <2>4
  <1>4. ASSUME NEW w \in Workers, NEW e \in queue, Block(w, e)
        PROVE  /\ Reached(t) => Reached(t)'
               /\ Reached(t)' => Reached(t) \/ (e.task = t /\ IsHead(e))
    <2>1. PICK u \in Tasks : u = e.task
      BY <1>1 DEF Typed, TypeOK, Entries
    <2>2. /\ attempts' = attempts
          /\ state' = [state EXCEPT ![u] = "BLOCKED_UNBOUND"]
          /\ IsHead(e)
      BY <1>4, <2>1 DEF Block, Pop, history
    <2> QED BY <1>1, <1>2, <2>1, <2>2 DEF Reached
  <1>5. ASSUME NEW w \in Workers, Succeed(w) \/ Raise(w)
        PROVE  Reached(t)' <=> Reached(t)
    <2>1. Running(w) /\ attempts' = attempts
      BY <1>1, <1>5, ResumesRuns DEF Succeed, Raise, history
    <2>2. PICK u \in Tasks : u = holds[w]
      BY <2>1, RunningWasReached
    <2>3. attempts[u] > 0
      BY <2>1, <2>2, RunningWasReached
    <2>4. \E s : state' = [state EXCEPT ![u] = s]
      BY <1>5, <2>2 DEF Succeed, Raise, RetryOrFail
    <2> QED BY <1>1, <1>2, <2>1, <2>3, <2>4 DEF Reached
  <1>6. ASSUME UNCHANGED <<state, attempts>> PROVE Reached(t)' <=> Reached(t)
    BY <1>2, <1>6
  <1>7. ASSUME NEW u \in Tasks, Submit(u) PROVE Reached(t)' <=> Reached(t)
    BY <1>6, <1>7 DEF Submit, taskVars, history
  <1>8. ASSUME NEW w \in Workers, StartDrain(w) \/ EndDrain(w) \/ Cancel(w)
        PROVE  Reached(t)' <=> Reached(t)
    BY <1>6, <1>8 DEF StartDrain, EndDrain, Cancel, taskVars, history
  <1>9. ASSUME Rebinding \/ UNCHANGED vars PROVE Reached(t)' <=> Reached(t)
    BY <1>6, <1>9 DEF Rebinding, RegisterHandler, UnregisterHandler, BindSubsystem,
       LoseSubsystem, SetHandlers, SetSubsystems, vars, taskVars, history
  <1> QED BY <1>3, <1>4, <1>5, <1>7, <1>8, <1>9 DEF Next, Drain, Finish

\* A step that submits nothing: entries leave, or a reached task is requeued.
LEMMA QueueStep ==
  ASSUME BudgetInv, [Next]_vars, tasks' = tasks
  PROVE  \/ queue' \in SUBSET queue /\ sequence' = sequence
         \/ \E t \in Tasks : Enqueue(t) /\ Reached(t)
  <1>1. Typed
    BY DEF BudgetInv, PlaceInv
  <1>2. ASSUME NEW t \in Tasks, Submit(t) PROVE FALSE
    <2>1. tasks' = Append(tasks, t) /\ tasks \in Seq(Tasks)
      BY <1>1, <1>2 DEF Submit, Typed, TypeOK
    <2>2. Len(tasks') = Len(tasks) + 1 /\ Len(tasks) \in Nat
      BY <2>1
    <2> QED BY <2>2
  <1>3. ASSUME NEW w \in Workers, Raise(w)
        PROVE  \/ queue' \in SUBSET queue /\ sequence' = sequence
               \/ \E t \in Tasks : Enqueue(t) /\ Reached(t)
    <2>1. Running(w) /\ RetryOrFail(holds[w])
      BY <1>1, <1>3, ResumesRuns DEF Raise
    <2>2. holds[w] \in Tasks /\ Reached(holds[w])
      BY <2>1, RunningWasReached DEF Reached
    <2> QED BY <2>1, <2>2 DEF RetryOrFail, queueVars
  <1>4. ASSUME NEW w \in Workers, NEW e \in queue, Dispatch(w, e) \/ Block(w, e)
        PROVE  queue' \in SUBSET queue /\ sequence' = sequence
    BY <1>4 DEF Dispatch, Block, Pop
  <1>5. ASSUME NEW w \in Workers,
               StartDrain(w) \/ EndDrain(w) \/ Succeed(w) \/ Cancel(w)
        PROVE  queue' = queue /\ sequence' = sequence
    BY <1>5 DEF StartDrain, EndDrain, Succeed, Cancel, queueVars
  <1>6. ASSUME Rebinding \/ UNCHANGED vars
        PROVE  queue' = queue /\ sequence' = sequence
    BY <1>6 DEF Rebinding, RegisterHandler, UnregisterHandler, BindSubsystem,
       LoseSubsystem, SetHandlers, SetSubsystems, vars, queueVars
  <1> QED BY <1>2, <1>3, <1>4, <1>5, <1>6 DEF Next, Drain, Finish

\* A task comes to be started only after it was submitted.
LEMMA FreshUnstarted ==
  ASSUME BudgetInv, FirstCome, [Next]_vars
  PROVE  \A t \in Tasks : t \notin Submitted' => attempts'[t] = 0
  <1>1. PlaceInv /\ Typed /\ attempts \in [Tasks -> Nat]
    BY DEF BudgetInv, PlaceInv, Typed, TypeOK
  <1>2. ASSUME UNCHANGED attempts, Submitted \subseteq Submitted'
        PROVE  \A t \in Tasks : t \notin Submitted' => attempts'[t] = 0
    BY <1>2 DEF FirstCome
  <1>3. tasks' = tasks => Submitted' = Submitted
    BY DEF Submitted
  <1>4. ASSUME NEW w \in Workers, NEW e \in queue, Dispatch(w, e)
        PROVE  \A t \in Tasks : t \notin Submitted' => attempts'[t] = 0
    <2>1. PICK u \in Tasks : u = e.task /\ u \in Submitted
      BY <1>1 DEF PlaceInv, Typed, TypeOK, Entries
    <2>2. attempts' = [attempts EXCEPT ![u] = @ + 1] /\ tasks' = tasks
      BY <1>4, <2>1 DEF Dispatch, Pop, Begin
    <2> QED BY <1>1, <1>3, <2>1, <2>2 DEF FirstCome
  <1>5. ASSUME NEW t \in Tasks, Submit(t)
        PROVE  UNCHANGED attempts /\ Submitted \subseteq Submitted'
    BY <1>1, <1>5, SubmitEffect DEF Submit, history
  <1>6. ASSUME NEW w \in Workers, NEW e \in queue, Block(w, e)
        PROVE  UNCHANGED <<attempts, tasks>>
    BY <1>6 DEF Block, Pop, history
  <1>7. ASSUME NEW w \in Workers, \/ StartDrain(w) \/ EndDrain(w)
                                  \/ Succeed(w) \/ Raise(w) \/ Cancel(w)
        PROVE  UNCHANGED <<attempts, tasks>>
    BY <1>7 DEF StartDrain, EndDrain, Succeed, Raise, Cancel, history
  <1>8. ASSUME Rebinding \/ UNCHANGED vars PROVE UNCHANGED <<attempts, tasks>>
    BY <1>8 DEF Rebinding, RegisterHandler, UnregisterHandler, BindSubsystem,
       LoseSubsystem, SetHandlers, SetSubsystems, vars, history
  <1> QED BY <1>2, <1>3, <1>4, <1>5, <1>6, <1>7, <1>8 DEF Next, Drain, Finish

LEMMA SubmitOrTasks ==
  ASSUME [Next]_vars PROVE tasks' = tasks \/ \E t \in Tasks : Submit(t)
  BY DEF Next, Drain, Finish, StartDrain, EndDrain, Dispatch, Block, Pop, Succeed,
     Raise, Cancel, Rebinding, RegisterHandler, UnregisterHandler, BindSubsystem,
     LoseSubsystem, SetHandlers, SetSubsystems, vars

\* What a submission adds, seen by index.
LEMMA SubmittedLast ==
  ASSUME BudgetInv, NEW t \in Tasks, Submit(t)
  PROVE  \E n \in Nat : /\ DOMAIN tasks = 1 .. n /\ DOMAIN tasks' = 1 .. n + 1
                        /\ \A i \in 1 .. n : tasks'[i] = tasks[i] /\ tasks[i] # t
                        /\ tasks'[n + 1] = t
  <1>1. tasks' = Append(tasks, t) /\ tasks \in Seq(Tasks) /\ t \notin Submitted
    BY DEF Submit, BudgetInv, PlaceInv, Typed, TypeOK
  <1> WITNESS Len(tasks) \in Nat
  <1> QED BY <1>1 DEF Submitted

LEMMA NextFirstCome ==
  ASSUME BudgetInv, FirstCome, [Next]_vars PROVE FirstCome'
  <1>1. /\ Typed /\ PlaceInv /\ sequence \in Nat
        /\ \A d \in queue : d.seq \in Nat /\ d.task \in Tasks
        /\ \A i \in DOMAIN tasks : tasks[i] \in Tasks
    BY DEF BudgetInv, PlaceInv, Typed, TypeOK, Entries
  <1>2. \A t \in Tasks : t \notin Submitted' => attempts'[t] = 0
    BY FreshUnstarted
  <1>3. CASE tasks' = tasks
    <2>1. \A i \in DOMAIN tasks : ~ Reached(tasks[i])' => ~ Reached(tasks[i])
      <3>1. \A t \in Tasks : Reached(t) => Reached(t)'
        BY ReachStep
      <3> QED BY <1>1, <1>3, <3>1 DEF Reached
    <2>2. CASE queue' \in SUBSET queue /\ sequence' = sequence
      BY <1>2, <1>3, <2>1, <2>2 DEF FirstCome
    <2>3. ASSUME NEW t \in Tasks, Enqueue(t), Reached(t) PROVE FirstCome'
      <3>1. PICK new : /\ new.seq = sequence + 1 /\ new.task = t
                       /\ queue' = queue \cup {new}
        BY <2>3 DEF Enqueue
      <3>2. sequence' = sequence + 1
        BY <2>3 DEF Enqueue
      <3>3. \A d \in queue : d.seq < new.seq /\ d.seq <= sequence'
        BY <1>1, <3>1, <3>2 DEF FirstCome
      <3>4. ASSUME NEW i \in DOMAIN tasks, NEW j \in DOMAIN tasks,
                   NEW d \in queue', NEW e \in queue',
                   i < j, d.task = tasks[i], e.task = tasks[j], ~ Reached(tasks[i])'
            PROVE  d.seq < e.seq
        <4>1. ~ Reached(tasks[i]) /\ tasks[i] # t
          BY <2>1, <2>3, <3>4
        <4>2. d \in queue
          BY <3>1, <3>4, <4>1
        <4>3. CASE e = new
          BY <3>3, <4>2, <4>3
        <4>4. CASE e # new
          BY <3>1, <3>4, <4>1, <4>2, <4>4 DEF FirstCome
        <4> QED BY <4>3, <4>4
      <3>5. \A d \in queue' : d.seq <= sequence'
        BY <1>1, <3>1, <3>2, <3>3
      <3> QED BY <1>2, <1>3, <3>4, <3>5 DEF FirstCome
    <2> QED BY <1>3, <2>2, <2>3, QueueStep
  <1>4. ASSUME NEW t \in Tasks, Submit(t) PROVE FirstCome'
    <2>1. PICK n \in Nat : /\ DOMAIN tasks = 1 .. n /\ DOMAIN tasks' = 1 .. n + 1
                           /\ \A i \in 1 .. n : tasks'[i] = tasks[i] /\ tasks[i] # t
                           /\ tasks'[n + 1] = t
      BY <1>4, SubmittedLast
    <2>2. PICK new : /\ new.seq = sequence + 1 /\ new.task = t
                     /\ queue' = queue \cup {new} /\ sequence' = sequence + 1
      BY <1>4 DEF Submit, Enqueue
    <2>3. \A d \in queue : /\ d.seq < new.seq /\ d.seq <= sequence'
                           /\ d.task \in Submitted /\ d.task # t
      BY <1>1, <1>4, <2>2 DEF FirstCome, PlaceInv, Submit
    <2>4. \A d \in queue' : d.seq <= sequence'
      BY <1>1, <2>2, <2>3
    <2>5. \A i, j \in DOMAIN tasks' : tasks'[i] = tasks'[j] => i = j
      BY <2>1 DEF FirstCome
    <2>6. ASSUME NEW i \in DOMAIN tasks', NEW j \in DOMAIN tasks',
                 NEW d \in queue', NEW e \in queue', i < j,
                 d.task = tasks'[i], e.task = tasks'[j],
                 ~ (attempts'[tasks'[i]] > 0 \/ state'[tasks'[i]] = "BLOCKED_UNBOUND")
          PROVE  d.seq < e.seq
      <3>1. i \in 1 .. n /\ tasks'[i] = tasks[i] /\ tasks[i] # t
        BY <2>1, <2>6
      <3>2. d \in queue
        BY <2>2, <2>6, <3>1
      <3>3. CASE e = new
        BY <2>3, <3>2, <3>3
      <3>4. CASE e # new
        <4>1. e \in queue /\ j \in 1 .. n /\ tasks'[j] = tasks[j]
          BY <2>1, <2>2, <2>3, <2>6, <3>4
        <4>2. ~ Reached(tasks[i])
          BY <1>4, <2>6, <3>1 DEF Submit, taskVars, history, Reached
        <4> QED BY <2>1, <2>6, <3>1, <3>2, <4>1, <4>2 DEF FirstCome
      <3> QED BY <3>3, <3>4
    <2> QED BY <1>2, <2>4, <2>5, <2>6 DEF FirstCome, Reached
  <1> QED BY <1>3, <1>4, SubmitOrTasks

\* A submitted task the queue has not come to still waits in it.
LEMMA UnreachedIsQueued ==
  ASSUME BudgetInv, NEW t \in Submitted, t \in Tasks, ~ Reached(t)
  PROVE  \E d \in queue : d.task = t
  <1>1. state[t] \notin Started /\ state[t] # "BLOCKED_UNBOUND"
    BY DEF BudgetInv, RetryBudget, Reached, PlaceInv, Typed, TypeOK, Started
  <1>2. state[t] \in Waiting
    BY <1>1 DEF BudgetInv, PlaceInv, Terminal, Started
  <1> QED BY <1>2 DEF BudgetInv, PlaceInv, OnePlace, Placed, EntriesOf

LEMMA NextNoOvertaking ==
  ASSUME OrderInv, [Next]_vars PROVE NoOvertaking'
  <1>1. /\ Typed /\ PlaceInv /\ BudgetInv /\ FirstCome /\ NoOvertaking
        /\ \A d \in queue : d.seq \in Nat /\ d.task \in Tasks
        /\ \A i \in DOMAIN tasks : tasks[i] \in Tasks
        /\ Priority \in [Tasks -> Nat]
    <2>1. BudgetInv /\ PlaceInv /\ Typed /\ FirstCome /\ NoOvertaking
      BY DEF OrderInv, BudgetInv, PlaceInv
    <2>2. tasks \in Seq(Tasks) /\ queue \in SUBSET Entries
      BY <2>1 DEF Typed, TypeOK
    <2> QED BY <2>1, <2>2, RuntimeAssumption DEF Entries
  <1>2. ASSUME NEW i \in DOMAIN tasks, NEW j \in DOMAIN tasks, i < j,
               NEW u \in Tasks, NEW v \in Tasks, u = tasks[i], v = tasks[j],
               Priority[u] <= Priority[v], Reached(v)'
        PROVE  Reached(u)'
    <2>1. SUFFICES ASSUME ~ Reached(u) PROVE FALSE
      BY <1>1, ReachStep
    <2>2. ~ Reached(v)
      BY <1>1, <1>2, <2>1 DEF NoOvertaking
    <2>3. PICK e \in queue : e.task = v /\ IsHead(e)
      BY <1>1, <1>2, <2>2, ReachStep
    <2>4. PICK d \in queue : d.task = u
      BY <1>1, <1>2, <2>1, UnreachedIsQueued DEF Submitted
    <2>5. d.seq < e.seq
      BY <1>1, <1>2, <2>1, <2>3, <2>4 DEF FirstCome
    <2>6. d # e
      BY <1>1, <2>5
    <2>7. Precedes(e, d)
      BY <2>3, <2>6 DEF IsHead
    <2> QED BY <1>1, <1>2, <2>3, <2>4, <2>5, <2>7 DEF Precedes
  <1>3. CASE tasks' = tasks
    <2> SUFFICES ASSUME NEW i \in DOMAIN tasks, NEW j \in DOMAIN tasks, i < j,
                        Priority[tasks[i]] <= Priority[tasks[j]],
                        attempts'[tasks[j]] > 0 \/ state'[tasks[j]] = "BLOCKED_UNBOUND"
                 PROVE  attempts'[tasks[i]] > 0 \/ state'[tasks[i]] = "BLOCKED_UNBOUND"
      BY <1>3 DEF NoOvertaking, Reached
    <2>1. PICK u \in Tasks, v \in Tasks : u = tasks[i] /\ v = tasks[j]
      BY <1>1
    <2>2. Reached(v)' /\ Priority[u] <= Priority[v]
      BY <2>1 DEF Reached
    <2>3. Reached(u)'
      BY <1>2, <2>1, <2>2
    <2> QED BY <2>1, <2>3 DEF Reached
  <1>4. ASSUME NEW t \in Tasks, Submit(t) PROVE NoOvertaking'
    <2>1. PICK n \in Nat : /\ DOMAIN tasks = 1 .. n /\ DOMAIN tasks' = 1 .. n + 1
                           /\ \A i \in 1 .. n : tasks'[i] = tasks[i] /\ tasks[i] # t
                           /\ tasks'[n + 1] = t
      BY <1>1, <1>4, SubmittedLast
    <2>2. UNCHANGED <<attempts, state>> /\ t \notin Submitted
      BY <1>4 DEF Submit, taskVars, history
    <2>3. attempts[t] = 0 /\ state[t] = "PENDING"
      BY <1>1, <2>2 DEF FirstCome, PlaceInv, FreshWaits
    <2>4. ASSUME NEW i \in DOMAIN tasks', NEW j \in DOMAIN tasks', i < j,
                 Priority[tasks'[i]] <= Priority[tasks'[j]],
                 attempts'[tasks'[j]] > 0 \/ state'[tasks'[j]] = "BLOCKED_UNBOUND"
          PROVE  attempts'[tasks'[i]] > 0 \/ state'[tasks'[i]] = "BLOCKED_UNBOUND"
      <3>1. j \in 1 .. n /\ i \in 1 .. n
        BY <2>1, <2>2, <2>3, <2>4
      <3>2. tasks'[i] = tasks[i] /\ tasks'[j] = tasks[j]
        BY <2>1, <3>1
      <3> QED BY <1>1, <2>1, <2>2, <2>4, <3>1, <3>2 DEF NoOvertaking, Reached
    <2> QED BY <2>4 DEF NoOvertaking, Reached
  <1> QED BY <1>3, <1>4, SubmitOrTasks

(* No task is reached before one submitted earlier and at least as urgent,  *)
(* however many tasks are retried, blocked or cancelled in between.         *)
THEOREM QueueIsFair == Spec => []NoOvertaking
  <1>1. Init => OrderInv
    <2> SUFFICES ASSUME Init PROVE OrderInv
      OBVIOUS
    <2>1. DOMAIN tasks = {} /\ queue = {}
      BY DEF Init
    <2> QED BY <2>1, InitBudget DEF OrderInv, FirstCome, NoOvertaking, Init
  <1>2. OrderInv /\ [Next]_vars => OrderInv'
    BY NextBudget, NextFirstCome, NextNoOvertaking DEF OrderInv
  <1>3. OrderInv => NoOvertaking
    BY DEF OrderInv
  <1> QED BY <1>1, <1>2, <1>3, PTL DEF Spec

-----------------------------------------------------------------------------
(* Direct calls of assign_task and run_task: OpenSpec. run_task trusts an   *)
(* old assignment, so loads and coroutines no longer match and a task may   *)
(* have several entries; what stays is that a waiting task has one and that *)
(* the counters stay in bounds.                                             *)

InRunTask(w) == at[w] \in {"executing", "direct"}

OpenShape == \A w \in Workers : /\ InRunTask(w) <=> slot[w] \in Pistons
                                /\ InRunTask(w) <=> holds[w] \in Tasks

OpenTyped == TypeOK /\ OpenShape

LEMMA BestFits ==
  ASSUME TypeOK, NEW t \in Tasks, NEW p \in Best(t)
  PROVE  p \in Pistons /\ load[p] < MaxConcurrent[p]
  BY RuntimeAssumption DEF Best, Candidates, CapacityAvailable

LEMMA BeginTyped ==
  ASSUME OpenTyped, NEW w \in Workers, NEW t \in Tasks, NEW p \in Pistons,
         NEW phase \in {"executing", "direct"}, Begin(w, t, p, phase),
         load' \in [Pistons -> Nat], budget' \in [Workers -> Nat],
         queue' \in SUBSET Entries,
         UNCHANGED <<tasks, sequence, tallyVars, boundVars>>
  PROVE  OpenTyped'
  <1>1. /\ status' \in [Pistons -> {"idle", "busy"}]
        /\ assigned' \in [Tasks -> Pistons \cup {NoPiston}]
    BY DEF Begin, OpenTyped, TypeOK
  <1>2. state' \in [Tasks -> TaskState] /\ attempts' \in [Tasks -> Nat]
    BY DEF Begin, OpenTyped, TypeOK, TaskState
  <1>3. /\ at' = [at EXCEPT ![w] = phase] /\ at' \in [Workers -> Phases]
        /\ holds' = [holds EXCEPT ![w] = t] /\ holds' \in [Workers -> Tasks \cup {NoTask}]
        /\ slot' = [slot EXCEPT ![w] = p] /\ slot' \in [Workers -> Pistons \cup {NoPiston}]
        /\ onLoop' \in Workers \cup {NoWorker}
    BY DEF Begin, OpenTyped, TypeOK, Phases
  <1>4. UNCHANGED <<tasks, sequence, retries, completed, failed, handlers,
                    subsystems, cancelled>>
    BY DEF Begin, tallyVars, boundVars
  <1>5. TypeOK'
    BY <1>1, <1>2, <1>3, <1>4 DEF OpenTyped, TypeOK
  <1>6. OpenShape'
    BY <1>3 DEF OpenTyped, OpenShape, InRunTask, TypeOK
  <1> QED BY <1>5, <1>6 DEF OpenTyped

LEMMA RunTaskHolds ==
  ASSUME OpenTyped, NEW w \in Workers, Resumes(w)
  PROVE  InRunTask(w) /\ slot[w] \in Pistons /\ holds[w] \in Tasks
  BY DEF OpenTyped, OpenShape, InRunTask, Resumes

\* The finally clause and the way back, for run_task called by anyone.
LEMMA LeaveTyped ==
  ASSUME OpenTyped, NEW w \in Workers, InRunTask(w), Release(w),
         \/ at' = [at EXCEPT ![w] = "draining"] /\ onLoop' = w
         \/ at' = [at EXCEPT ![w] = "idle"] /\ onLoop' \in Workers \cup {NoWorker}
  PROVE  /\ load' \in [Pistons -> Nat]
         /\ status' \in [Pistons -> {"idle", "busy"}]
         /\ holds' \in [Workers -> Tasks \cup {NoTask}]
         /\ slot' \in [Workers -> Pistons \cup {NoPiston}]
         /\ at' \in [Workers -> Phases]
         /\ onLoop' \in Workers \cup {NoWorker}
         /\ OpenShape'
  <1>1. /\ load' \in [Pistons -> Nat]
        /\ status' \in [Pistons -> {"idle", "busy"}]
    BY DEF Release, OpenTyped, OpenShape, TypeOK
  <1>2. /\ holds' = [holds EXCEPT ![w] = NoTask]
        /\ slot' = [slot EXCEPT ![w] = NoPiston]
        /\ holds' \in [Workers -> Tasks \cup {NoTask}]
        /\ slot' \in [Workers -> Pistons \cup {NoPiston}]
    BY DEF Release, OpenTyped, TypeOK
  <1>3. at' \in [Workers -> Phases] /\ onLoop' \in Workers \cup {NoWorker}
    BY DEF OpenTyped, TypeOK, Phases
  <1>4. OpenShape'
    BY <1>2, RuntimeAssumption DEF OpenTyped, OpenShape, InRunTask, TypeOK
  <1> QED BY <1>1, <1>2, <1>3, <1>4

LEMMA ReturnsTo ==
  ASSUME NEW w \in Workers, Return(w)
  PROVE  \/ at' = [at EXCEPT ![w] = "draining"] /\ onLoop' = w
         \/ at' = [at EXCEPT ![w] = "idle"] /\ onLoop' \in Workers \cup {NoWorker}
  BY DEF Return

LEMMA SharedTyped ==
  ASSUME OpenTyped, Next PROVE OpenTyped'
  <1> USE RuntimeAssumption
  <1>1. ASSUME NEW t \in Tasks, Submit(t) PROVE OpenTyped'
    <2>1. tasks' \in Seq(Tasks)
      BY <1>1 DEF Submit, OpenTyped, TypeOK
    <2>2. queue' \in SUBSET Entries /\ sequence' \in Nat
      BY <1>1, EnqueueType DEF Submit, OpenTyped
    <2> QED BY <1>1, <2>1, <2>2 DEF Submit, OpenTyped, TypeOK, OpenShape, InRunTask,
           taskVars, loadVars, tallyVars, boundVars, workerVars, history
  <1>2. ASSUME NEW w \in Workers, StartDrain(w) \/ EndDrain(w) PROVE OpenTyped'
    <2>1. /\ at[w] \in {"idle", "draining"}
          /\ at' = [at EXCEPT ![w] = "draining"] \/ at' = [at EXCEPT ![w] = "idle"]
          /\ onLoop' \in Workers \cup {NoWorker}
          /\ budget' \in [Workers -> Nat]
      <3>1. /\ budget \in [Workers -> Nat] /\ MaxBatch \in Nat
        BY DEF OpenTyped, TypeOK
      <3>2. CASE StartDrain(w)
        BY <3>1, <3>2 DEF StartDrain
      <3>3. CASE EndDrain(w)
        BY <3>1, <3>3 DEF EndDrain
      <3> QED BY <1>2, <3>2, <3>3
    <2>2. UNCHANGED <<tasks, queue, sequence, state, assigned, retries, load, status,
                      completed, failed, handlers, subsystems, holds, slot,
                      attempts, cancelled>>
      BY <1>2 DEF StartDrain, EndDrain, queueVars, taskVars, loadVars, tallyVars,
         boundVars, history
    <2>3. at' \in [Workers -> Phases]
      BY <2>1 DEF OpenTyped, TypeOK, Phases
    <2>4. OpenShape'
      BY <2>1, <2>2 DEF OpenTyped, TypeOK, OpenShape, InRunTask
    <2> QED BY <2>1, <2>2, <2>3, <2>4 DEF OpenTyped, TypeOK
  <1>3. ASSUME NEW w \in Workers, NEW e \in queue, Dispatch(w, e) PROVE OpenTyped'
    <2>1. PICK t \in Tasks : t = e.task
      BY DEF OpenTyped, TypeOK, Entries
    <2>2. PICK p \in Best(t) : /\ load' = [load EXCEPT ![p] = @ + 1]
                               /\ Begin(w, t, p, "executing")
      BY <1>3, <2>1 DEF Dispatch
    <2>3. p \in Pistons
      BY <2>2, BestFits DEF OpenTyped
    <2>5. load' \in [Pistons -> Nat]
      BY <2>2, <2>3 DEF OpenTyped, TypeOK
    <2>4. /\ budget' \in [Workers -> Nat] /\ queue' \in SUBSET Entries
          /\ UNCHANGED <<tasks, sequence, tallyVars, boundVars>>
      BY <1>3 DEF Dispatch, Pop, OpenTyped, TypeOK
    <2> QED BY <2>2, <2>3, <2>4, <2>5, BeginTyped
  <1>4. ASSUME NEW w \in Workers, NEW e \in queue, Block(w, e) PROVE OpenTyped'
    <2>1. e.task \in Tasks
      BY DEF OpenTyped, TypeOK, Entries
    <2>2. budget' \in [Workers -> Nat] /\ queue' \in SUBSET Entries
      BY <1>4 DEF Block, Pop, OpenTyped, TypeOK
    <2> QED BY <1>4, <2>1, <2>2 DEF Block, Pop, OpenTyped, TypeOK, OpenShape, InRunTask,
           TaskState, Terminal, loadVars, tallyVars, boundVars, history
  <1>5. ASSUME NEW w \in Workers, Succeed(w) PROVE OpenTyped'
    <2>1. InRunTask(w) /\ slot[w] \in Pistons /\ holds[w] \in Tasks
      BY <1>5, RunTaskHolds DEF Succeed
    <2>2. /\ load' \in [Pistons -> Nat]
          /\ status' \in [Pistons -> {"idle", "busy"}]
          /\ holds' \in [Workers -> Tasks \cup {NoTask}]
          /\ slot' \in [Workers -> Pistons \cup {NoPiston}]
          /\ at' \in [Workers -> Phases]
          /\ onLoop' \in Workers \cup {NoWorker}
          /\ OpenShape'
      BY <1>5, <2>1, LeaveTyped, ReturnsTo DEF Succeed
    <2>3. state' \in [Tasks -> TaskState] /\ completed' \in [Pistons -> Nat]
      BY <1>5, <2>1 DEF Succeed, OpenTyped, TypeOK, TaskState, Terminal
    <2>4. UNCHANGED <<tasks, queue, sequence, assigned, retries, failed, handlers,
                      subsystems, budget, attempts, cancelled>>
      BY <1>5 DEF Succeed, queueVars, boundVars, history
    <2> QED BY <2>2, <2>3, <2>4 DEF OpenTyped, TypeOK
  <1>6. ASSUME NEW w \in Workers, Raise(w) PROVE OpenTyped'
    <2>1. InRunTask(w) /\ slot[w] \in Pistons /\ holds[w] \in Tasks
      BY <1>6, RunTaskHolds DEF Raise
    <2>2. /\ load' \in [Pistons -> Nat]
          /\ status' \in [Pistons -> {"idle", "busy"}]
          /\ holds' \in [Workers -> Tasks \cup {NoTask}]
          /\ slot' \in [Workers -> Pistons \cup {NoPiston}]
          /\ at' \in [Workers -> Phases]
          /\ onLoop' \in Workers \cup {NoWorker}
          /\ OpenShape'
      BY <1>6, <2>1, LeaveTyped, ReturnsTo DEF Raise
    <2>3. RetryOrFail(holds[w]) /\ TypeOK
      BY <1>6 DEF Raise, OpenTyped
    <2>4. /\ queue' \in SUBSET Entries /\ sequence' \in Nat
          /\ state' \in [Tasks -> TaskState]
          /\ retries' \in [Tasks -> Nat]
          /\ \A u \in Tasks : retries'[u] <= MaxRetries[u]
      BY <2>1, <2>3, RetryType
    <2>5. failed' \in [Pistons -> Nat]
      BY <1>6, <2>1 DEF Raise, OpenTyped, TypeOK
    <2>6. UNCHANGED <<tasks, assigned, completed, handlers, subsystems, budget,
                      attempts, cancelled>>
      BY <1>6 DEF Raise, boundVars, history
    <2> QED BY <2>2, <2>4, <2>5, <2>6 DEF OpenTyped, TypeOK
  <1>7. ASSUME NEW w \in Workers, Cancel(w) PROVE OpenTyped'
    <2>1. InRunTask(w) /\ slot[w] \in Pistons /\ holds[w] \in Tasks
      BY <1>7, RunTaskHolds DEF Cancel
    <2>2. onLoop' = onLoop /\ onLoop \in Workers \cup {NoWorker}
      BY <1>7 DEF Cancel, OpenTyped, TypeOK
    <2>3. /\ load' \in [Pistons -> Nat]
          /\ status' \in [Pistons -> {"idle", "busy"}]
          /\ holds' \in [Workers -> Tasks \cup {NoTask}]
          /\ slot' \in [Workers -> Pistons \cup {NoPiston}]
          /\ at' \in [Workers -> Phases]
          /\ OpenShape'
      BY <1>7, <2>1, <2>2, LeaveTyped DEF Cancel
    <2>4. cancelled' \in SUBSET Tasks /\ budget' \in [Workers -> Nat]
      BY <1>7, <2>1 DEF Cancel, OpenTyped, TypeOK
    <2>5. UNCHANGED <<tasks, queue, sequence, state, assigned, retries, completed,
                      failed, handlers, subsystems, attempts>>
      BY <1>7 DEF Cancel, queueVars, taskVars, tallyVars, boundVars
    <2> QED BY <2>2, <2>3, <2>4, <2>5 DEF OpenTyped, TypeOK
  <1>8. CASE Rebinding
    BY <1>8 DEF Rebinding, RegisterHandler, UnregisterHandler, BindSubsystem,
       LoseSubsystem, SetHandlers, SetSubsystems, OpenTyped, TypeOK, OpenShape,
       InRunTask, queueVars, taskVars, loadVars, tallyVars, workerVars, history
  <1> QED BY <1>1, <1>2, <1>3, <1>4, <1>5, <1>6, <1>7, <1>8 DEF Next, Drain, Finish

LEMMA CallsTyped ==
  ASSUME OpenTyped, NEW t \in Tasks,
         \/ \E w \in Workers : RunTask(w, t)
         \/ AssignTask(t)
  PROVE  OpenTyped'
  <1>1. TypeOK
    BY DEF OpenTyped
  <1>2. ASSUME AssignTask(t) PROVE OpenTyped'
    <2>1. PICK p \in Best(t) : /\ assigned' = [assigned EXCEPT ![t] = p]
                               /\ load' = [load EXCEPT ![p] = @ + 1]
      BY <1>2 DEF AssignTask
    <2>2. p \in Pistons
      BY <1>1, BestFits
    <2>3. /\ load' \in [Pistons -> Nat]
          /\ assigned' \in [Tasks -> Pistons \cup {NoPiston}]
          /\ state' \in [Tasks -> TaskState]
      BY <1>1, <1>2, <2>1, <2>2 DEF AssignTask, TypeOK, TaskState
    <2> QED BY <1>2, <2>3 DEF AssignTask, OpenTyped, TypeOK, OpenShape, InRunTask,
           queueVars, tallyVars, boundVars, workerVars, history
  <1>3. ASSUME NEW w \in Workers, RunUnassigned(w, t) PROVE OpenTyped'
    <2>1. PICK p \in Best(t) : /\ load' = [load EXCEPT ![p] = @ + 1]
                               /\ Begin(w, t, p, "direct")
      BY <1>3 DEF RunUnassigned
    <2>2. p \in Pistons
      BY <1>1, BestFits
    <2>3. load' \in [Pistons -> Nat]
      BY <1>1, <2>1, <2>2 DEF TypeOK
    <2>4. /\ budget' \in [Workers -> Nat] /\ queue' \in SUBSET Entries
          /\ UNCHANGED <<tasks, sequence, tallyVars, boundVars>>
      BY <1>1, <1>3 DEF RunUnassigned, TypeOK, queueVars
    <2> QED BY <2>1, <2>2, <2>3, <2>4, BeginTyped
  <1>4. ASSUME NEW w \in Workers, RunBlocked(w, t) PROVE OpenTyped'
    BY <1>4 DEF RunBlocked, OpenTyped, TypeOK, OpenShape, InRunTask, TaskState,
       Terminal, queueVars, loadVars, tallyVars, boundVars, workerVars, history
  <1>5. ASSUME NEW w \in Workers, RunAssigned(w, t) PROVE OpenTyped'
    <2>1. PICK p \in Pistons : p = assigned[t]
      BY <1>1, <1>5 DEF RunAssigned, TypeOK
    <2>2. /\ load' \in [Pistons -> Nat] /\ budget' \in [Workers -> Nat]
          /\ queue' \in SUBSET Entries /\ Begin(w, t, p, "direct")
          /\ UNCHANGED <<tasks, sequence, tallyVars, boundVars>>
      BY <1>1, <1>5, <2>1 DEF RunAssigned, TypeOK, queueVars
    <2> QED BY <2>2, BeginTyped
  <1>6. ASSUME NEW w \in Workers, RunUnbound(w, t) PROVE OpenTyped'
    <2>1. PICK p \in Pistons : p = assigned[t]
      BY <1>1, <1>6 DEF RunUnbound, TypeOK
    <2>2. RetryOrFail(t)
      BY <1>6 DEF RunUnbound
    <2>3. /\ queue' \in SUBSET Entries /\ sequence' \in Nat
          /\ state' \in [Tasks -> TaskState]
          /\ retries' \in [Tasks -> Nat]
          /\ \A u \in Tasks : retries'[u] <= MaxRetries[u]
      BY <1>1, <2>2, RetryType
    <2>4. /\ failed' \in [Pistons -> Nat] /\ load' \in [Pistons -> Nat]
          /\ status' \in [Pistons -> {"idle", "busy"}]
          /\ attempts' \in [Tasks -> Nat]
      BY <1>1, <1>6, <2>1 DEF RunUnbound, TypeOK
    <2>5. UNCHANGED <<tasks, assigned, completed, handlers, subsystems, at, holds,
                      slot, budget, onLoop, cancelled>>
      BY <1>6 DEF RunUnbound, boundVars, workerVars
    <2> QED BY <2>3, <2>4, <2>5 DEF OpenTyped, TypeOK, OpenShape, InRunTask
  <1> QED BY <1>2, <1>3, <1>4, <1>5, <1>6 DEF RunTask

LEMMA NextOpenTyped == OpenTyped /\ [OpenNext]_vars => OpenTyped'
  <1> SUFFICES ASSUME OpenTyped, [OpenNext]_vars PROVE OpenTyped'
    OBVIOUS
  <1>1. ASSUME NEW w \in Workers, NEW e \in queue, DropEntry(w, e) PROVE OpenTyped'
    <2>1. budget' \in [Workers -> Nat] /\ queue' \in SUBSET Entries
      BY <1>1 DEF DropEntry, Pop, OpenTyped, TypeOK
    <2> QED BY <1>1, <2>1 DEF DropEntry, Pop, OpenTyped, TypeOK, OpenShape, InRunTask,
           taskVars, loadVars, tallyVars, boundVars, history
  <1>2. CASE UNCHANGED vars
    BY <1>2 DEF vars, OpenTyped, TypeOK, OpenShape, InRunTask, queueVars, taskVars,
       loadVars, tallyVars, boundVars, workerVars, history
  <1> QED BY <1>1, <1>2, SharedTyped, CallsTyped DEF OpenNext

LEMMA InitOpenTyped == Init => OpenTyped
  BY InitTyped DEF Init, OpenTyped, Typed, OpenShape, Shape, InRunTask, Running

\* A waiting task stays queued when its entries stay, or when it stops waiting.
LEMMA KeepsQueued ==
  ASSUME WaitingIsQueued,
         \A t \in Tasks :
           \/ state'[t] \notin Waiting
           \/ Queued(t)'
           \/ /\ state'[t] = state[t]
              /\ t \in Submitted' => t \in Submitted
              /\ Queued(t) => Queued(t)'
  PROVE  WaitingIsQueued'
  BY DEF WaitingIsQueued, Waiting

\* The head leaves and its task, if it waited, waits no more.
LEMMA PopKeepsQueued ==
  ASSUME OpenTyped, WaitingIsQueued, NEW w \in Workers, NEW e \in queue,
         Dispatch(w, e) \/ Block(w, e) \/ DropEntry(w, e)
  PROVE  WaitingIsQueued'
  <1>1. PICK u \in Tasks : u = e.task
    BY DEF OpenTyped, TypeOK, Entries
  <1>2. queue' = queue \ {e} /\ Submitted' = Submitted
    BY DEF Dispatch, Block, DropEntry, Pop, Submitted
  <1>3. /\ state'[u] \notin Waiting
        /\ \A t \in Tasks \ {u} : state'[t] = state[t]
    BY <1>1 DEF Dispatch, Block, DropEntry, Begin, OpenTyped, TypeOK, Waiting, taskVars
  <1>4. \A t \in Tasks \ {u} : Queued(t) => Queued(t)'
    BY <1>1, <1>2 DEF Queued
  <1> QED BY <1>2, <1>3, <1>4, KeepsQueued

LEMMA RetryKeepsQueued ==
  ASSUME OpenTyped, WaitingIsQueued, NEW u \in Tasks, RetryOrFail(u), tasks' = tasks
  PROVE  WaitingIsQueued'
  <1>1. Submitted' = Submitted
    BY DEF Submitted
  <1>2. \A t \in Tasks \ {u} : state'[t] = state[t]
    BY DEF RetryOrFail, OpenTyped, TypeOK
  <1>3. queue \subseteq queue'
    BY DEF RetryOrFail, Enqueue, queueVars
  <1>4. \A t \in Tasks : Queued(t) => Queued(t)'
    BY <1>3 DEF Queued
  <1>5. state'[u] \notin Waiting \/ Queued(u)'
    <2>1. CASE retries[u] < MaxRetries[u]
      <3>1. PICK e \in queue' : e = [seq |-> sequence + 1, task |-> u]
        BY <2>1 DEF RetryOrFail, Enqueue
      <3> QED BY <3>1 DEF Queued
    <2>2. CASE ~ (retries[u] < MaxRetries[u])
      BY <2>2 DEF RetryOrFail, OpenTyped, TypeOK, Waiting
    <2> QED BY <2>1, <2>2
  <1> QED BY <1>1, <1>2, <1>4, <1>5, KeepsQueued

\* The task is moved to a state in which it does not wait.
LEMMA MovedOn ==
  ASSUME OpenTyped, WaitingIsQueued, NEW u \in Tasks,
         NEW s, s \notin Waiting, state' = [state EXCEPT ![u] = s],
         UNCHANGED <<tasks, queue>>
  PROVE  WaitingIsQueued'
  <1>1. /\ state'[u] \notin Waiting
        /\ \A t \in Tasks \ {u} : state'[t] = state[t]
    BY DEF OpenTyped, TypeOK
  <1>2. Submitted' = Submitted /\ \A t \in Tasks : Queued(t)' <=> Queued(t)
    BY DEF Submitted, Queued
  <1> QED BY <1>1, <1>2, KeepsQueued

LEMMA NextQueued ==
  ASSUME OpenTyped, WaitingIsQueued, [OpenNext]_vars PROVE WaitingIsQueued'
  <1>1. ASSUME UNCHANGED <<tasks, queue, state>> PROVE WaitingIsQueued'
    BY <1>1 DEF WaitingIsQueued, Queued, Submitted
  <1>2. ASSUME NEW t \in Tasks, Submit(t) PROVE WaitingIsQueued'
    <2>1. /\ tasks' = Append(tasks, t) /\ tasks \in Seq(Tasks) /\ state' = state
          /\ queue \subseteq queue' /\ Queued(t)'
      <3>1. PICK e \in queue' : e = [seq |-> sequence + 1, task |-> t]
        BY <1>2 DEF Submit, Enqueue
      <3> QED BY <1>2, <3>1 DEF Submit, Enqueue, Queued, OpenTyped, TypeOK, taskVars
    <2>2. \A u \in Submitted' : u = t \/ u \in Submitted
      BY <2>1 DEF Submitted
    <2>3. \A u \in Tasks : Queued(u) => Queued(u)'
      BY <2>1 DEF Queued
    <2> QED BY <2>1, <2>2, <2>3, KeepsQueued
  <1>3. ASSUME NEW w \in Workers, NEW e \in queue,
               Dispatch(w, e) \/ Block(w, e) \/ DropEntry(w, e)
        PROVE  WaitingIsQueued'
    BY <1>3, PopKeepsQueued
  <1>4. ASSUME NEW w \in Workers, Raise(w) PROVE WaitingIsQueued'
    BY <1>4, RunTaskHolds, RetryKeepsQueued DEF Raise
  <1>5. ASSUME NEW w \in Workers, NEW t \in Tasks, RunUnbound(w, t)
        PROVE  WaitingIsQueued'
    BY <1>5, RetryKeepsQueued DEF RunUnbound
  <1>6. ASSUME NEW w \in Workers, Succeed(w) PROVE WaitingIsQueued'
    <2>1. PICK t \in Tasks : t = holds[w]
      BY <1>6, RunTaskHolds DEF Succeed
    <2>2. state' = [state EXCEPT ![t] = "COMPLETED"] /\ UNCHANGED <<tasks, queue>>
      BY <1>6, <2>1 DEF Succeed, queueVars
    <2> QED BY <2>2, MovedOn DEF Waiting
  <1>7. ASSUME NEW w \in Workers, NEW t \in Tasks, RunUnassigned(w, t) \/ RunAssigned(w, t)
        PROVE  WaitingIsQueued'
    <2>1. state' = [state EXCEPT ![t] = "RUNNING"] /\ UNCHANGED <<tasks, queue>>
      BY <1>7 DEF RunUnassigned, RunAssigned, Begin, queueVars
    <2> QED BY <2>1, MovedOn DEF Waiting
  <1>8. ASSUME NEW w \in Workers, NEW t \in Tasks, RunBlocked(w, t)
        PROVE  WaitingIsQueued'
    <2>1. state' = [state EXCEPT ![t] = "BLOCKED_UNBOUND"] /\ UNCHANGED <<tasks, queue>>
      BY <1>8 DEF RunBlocked, queueVars
    <2> QED BY <2>1, MovedOn DEF Waiting
  <1>9. ASSUME NEW t \in Tasks, AssignTask(t) PROVE WaitingIsQueued'
    <2>1. state' = [state EXCEPT ![t] = "ASSIGNED"] /\ UNCHANGED <<tasks, queue>>
      BY <1>9 DEF AssignTask, queueVars
    <2> QED BY <2>1, MovedOn DEF Waiting
  <1>10. ASSUME NEW w \in Workers, StartDrain(w) \/ EndDrain(w) \/ Cancel(w)
         PROVE  WaitingIsQueued'
    BY <1>1, <1>10 DEF StartDrain, EndDrain, Cancel, queueVars, taskVars
  <1>11. ASSUME Rebinding \/ UNCHANGED vars PROVE WaitingIsQueued'
    BY <1>1, <1>11 DEF Rebinding, RegisterHandler, UnregisterHandler, BindSubsystem,
       LoseSubsystem, SetHandlers, SetSubsystems, vars, queueVars, taskVars
  <1> QED BY <1>2, <1>3, <1>4, <1>5, <1>6, <1>7, <1>8, <1>9, <1>10, <1>11
         DEF OpenNext, RunTask, Next, Drain, Finish

(* Whatever mix of calls is made, a task that waits has an entry in the     *)
(* queue: none is forgotten.                                                *)
THEOREM WaitingTasksAreQueued == OpenSpec => []WaitingIsQueued
  <1>1. Init => WaitingIsQueued
    BY DEF Init, WaitingIsQueued, Submitted
  <1>2. OpenTyped /\ WaitingIsQueued /\ [OpenNext]_vars => (OpenTyped /\ WaitingIsQueued)'
    BY NextOpenTyped, NextQueued
  <1> QED BY <1>1, <1>2, InitOpenTyped, PTL DEF OpenSpec

\* The counters: only a piston with room is counted up.
Fits == \A p \in Pistons : load[p] <= MaxConcurrent[p]

LEMMA NextFits ==
  ASSUME OpenTyped, Fits, [OpenNext]_vars PROVE Fits'
  <1>1. /\ TypeOK /\ load \in [Pistons -> Nat] /\ MaxConcurrent \in [Pistons -> Nat]
    BY RuntimeAssumption DEF OpenTyped, TypeOK
  <1>2. ASSUME load' = load PROVE Fits'
    BY <1>2 DEF Fits
  <1>3. ASSUME NEW t \in Tasks, NEW p \in Best(t), load' = [load EXCEPT ![p] = @ + 1]
        PROVE  Fits'
    <2>1. p \in Pistons /\ load[p] < MaxConcurrent[p]
      BY <1>1, BestFits
    <2>2. \A q \in Pistons : /\ load[q] \in Nat /\ MaxConcurrent[q] \in Nat
                             /\ load'[q] = IF q = p THEN load[q] + 1 ELSE load[q]
      BY <1>1, <1>3, <2>1
    <2> QED BY <2>1, <2>2 DEF Fits
  <1>4. ASSUME NEW p \in Pistons, load' = [load EXCEPT ![p] = IF @ > 0 THEN @ - 1 ELSE 0]
        PROVE  Fits'
    <2>1. \A q \in Pistons :
            /\ load[q] \in Nat /\ MaxConcurrent[q] \in Nat
            /\ load'[q] = IF q = p THEN (IF load[q] > 0 THEN load[q] - 1 ELSE 0)
                                   ELSE load[q]
      BY <1>1, <1>4
    <2> QED BY <2>1 DEF Fits
  <1>5. ASSUME NEW w \in Workers, NEW e \in queue, Dispatch(w, e) PROVE Fits'
    <2>1. e.task \in Tasks
      BY <1>1 DEF TypeOK, Entries
    <2> QED BY <1>3, <1>5, <2>1 DEF Dispatch
  <1>6. ASSUME NEW w \in Workers, Succeed(w) \/ Raise(w) \/ Cancel(w) PROVE Fits'
    BY <1>4, <1>6, RunTaskHolds DEF Succeed, Raise, Cancel, Release
  <1>7. ASSUME NEW t \in Tasks, AssignTask(t) PROVE Fits'
    BY <1>3, <1>7 DEF AssignTask
  <1>8. ASSUME NEW w \in Workers, NEW t \in Tasks, RunTask(w, t) PROVE Fits'
    <2>1. RunUnassigned(w, t) => Fits'
      BY <1>3 DEF RunUnassigned
    <2>2. RunUnbound(w, t) => Fits'
      BY <1>1, <1>4 DEF RunUnbound, TypeOK
    <2>3. RunAssigned(w, t) \/ RunBlocked(w, t) => Fits'
      BY <1>2 DEF RunAssigned, RunBlocked, loadVars
    <2> QED BY <1>8, <2>1, <2>2, <2>3 DEF RunTask
  <1>9. ASSUME NEW w \in Workers, NEW e \in queue, Block(w, e) \/ DropEntry(w, e)
        PROVE  Fits'
    BY <1>2, <1>9 DEF Block, DropEntry, loadVars
  <1>10. ASSUME NEW w \in Workers, StartDrain(w) \/ EndDrain(w) PROVE Fits'
    BY <1>2, <1>10 DEF StartDrain, EndDrain, loadVars
  <1>11. ASSUME NEW t \in Tasks, Submit(t) PROVE Fits'
    BY <1>2, <1>11 DEF Submit, loadVars
  <1>12. ASSUME Rebinding \/ UNCHANGED vars PROVE Fits'
    BY <1>2, <1>12 DEF Rebinding, RegisterHandler, UnregisterHandler, BindSubsystem,
       LoseSubsystem, SetHandlers, SetSubsystems, vars, loadVars
  <1> QED BY <1>5, <1>6, <1>7, <1>8, <1>9, <1>10, <1>11, <1>12
         DEF OpenNext, Next, Drain, Finish

(* Whatever mix of calls is made, the load counters stay within zero and    *)
(* max_concurrent and no task is retried beyond its budget.                 *)
THEOREM CountersStayInBounds == OpenSpec => []CountersInBounds
  <1>1. Init => Fits
    BY RuntimeAssumption DEF Init, Fits
  <1>2. OpenTyped /\ Fits /\ [OpenNext]_vars => (OpenTyped /\ Fits)'
    BY NextOpenTyped, NextFits
  <1>3. OpenTyped /\ Fits => CountersInBounds
    BY RuntimeAssumption DEF OpenTyped, TypeOK, Fits, CountersInBounds
  <1> QED BY <1>1, <1>2, <1>3, InitOpenTyped, PTL DEF OpenSpec
=============================================================================
