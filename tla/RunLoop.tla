-------------------------------- MODULE RunLoop --------------------------------
(***************************************************************************)
(* The timed loop of MastermindOrchestrator (core/mastermind_orchestrator  *)
(* .py: tick, run, stop), with several coroutines that call run(). They    *)
(* share one running flag: run() sets it, stop() and the finally clause of *)
(* every run() clear it. What a tick does is in Subsystems and TaskRuntime;*)
(* here it is an await that returns or raises.                             *)
(***************************************************************************)
EXTENDS Naturals

CONSTANTS
  Runners,       \* coroutines that call run()
  MaxDuration,   \* bound: duration_ticks
  MaxTicks       \* bound: ticks in a behaviour

VARIABLES
  running,       \* self.running
  tickCount,     \* self.tick_count
  phase,         \* where each run() is
  left,          \* iterations its for loop has left
  interrupted,   \* history: stop(), or the end of another run(), since it began
  ended          \* history: how its last run() returned

vars == <<running, tickCount, phase, left, interrupted, ended>>

Init ==
  /\ running = FALSE /\ tickCount = 0
  /\ phase = [r \in Runners |-> "idle"]
  /\ left = [r \in Runners |-> 0]
  /\ interrupted = [r \in Runners |-> FALSE]
  /\ ended = [r \in Runners |-> "never"]

Active(r) == phase[r] # "idle"

-----------------------------------------------------------------------------
\* Fault: an exception leaves the flag as it is.
ClearOnReturn(how) == running' = (running /\ how = "raised")

\* The finally clause.
Clear(how) == running' = FALSE

\* run() of r returns, or raises out of a tick.
End(r, how) ==
  /\ Clear(how)
  /\ phase' = [phase EXCEPT ![r] = "idle"]
  /\ left' = [left EXCEPT ![r] = 0]
  /\ ended' = [ended EXCEPT ![r] = how]
  /\ interrupted' = [q \in Runners |-> interrupted[q] \/ (q # r /\ Active(q))]
  /\ UNCHANGED tickCount

\* tick() up to its first await, in an iteration of r with n to follow.
BeginTick(r, n) ==
  /\ tickCount < MaxTicks
  /\ tickCount' = tickCount + 1
  /\ phase' = [phase EXCEPT ![r] = "ticking"]
  /\ left' = [left EXCEPT ![r] = n]

\* Fault: the flag is not set.
KeepFlag == UNCHANGED running

SetFlag == running' = TRUE

\* run(): up to the first await, or to the end when no tick is asked for.
Run(r) ==
  /\ ~ Active(r)
  /\ \/ End(r, "full")
     \/ \E n \in 1 .. MaxDuration :
          /\ BeginTick(r, n - 1)
          /\ SetFlag
          /\ interrupted' = [interrupted EXCEPT ![r] = FALSE]
          /\ ended' = [ended EXCEPT ![r] = "never"]

\* Back at the head of the for loop.
Iterate(r) ==
  \/ left[r] = 0 /\ End(r, "full")
  \/ left[r] > 0 /\ ~ running /\ End(r, "short")
  \/ /\ left[r] > 0 /\ running
     /\ BeginTick(r, left[r] - 1)
     /\ UNCHANGED <<running, interrupted, ended>>

\* The tick returns. With an interval the coroutine sleeps, even after the last.
Return(r) ==
  /\ phase[r] = "ticking"
  /\ \/ Iterate(r)
     \/ /\ phase' = [phase EXCEPT ![r] = "sleeping"]
        /\ UNCHANGED <<running, tickCount, left, interrupted, ended>>

Wake(r) == phase[r] = "sleeping" /\ Iterate(r)

\* The tick raises, or the coroutine is cancelled at either await.
Raise(r) == Active(r) /\ End(r, "raised")

Stop ==
  /\ running' = FALSE
  /\ interrupted' = [r \in Runners |-> interrupted[r] \/ Active(r)]
  /\ UNCHANGED <<tickCount, phase, left, ended>>

\* tick() called on its own, as _main does.
TickAlone ==
  /\ tickCount < MaxTicks
  /\ tickCount' = tickCount + 1
  /\ UNCHANGED <<running, phase, left, interrupted, ended>>

Next == Stop \/ TickAlone \/ \E r \in Runners : Run(r) \/ Return(r) \/ Wake(r) \/ Raise(r)

Spec == Init /\ [][Next]_vars

-----------------------------------------------------------------------------
(* Properties.                                                             *)

TypeOK ==
  /\ running \in BOOLEAN /\ tickCount \in 0 .. MaxTicks
  /\ phase \in [Runners -> {"idle", "ticking", "sleeping"}]
  /\ left \in [Runners -> 0 .. MaxDuration]
  /\ interrupted \in [Runners -> BOOLEAN]
  /\ ended \in [Runners -> {"never", "full", "short", "raised"}]

(* The shared flag is cleared by whoever ends: still, a run() comes back    *)
(* with fewer ticks than asked only if stop() was called or another run()   *)
(* ended since it began, and summary() reports "running" only while some    *)
(* run() is in progress, also when ticks raise and coroutines are cancelled.*)
RunsEndAsAsked ==
  /\ \A r \in Runners : ended[r] = "short" => interrupted[r]
  /\ running => \E r \in Runners : Active(r)
=============================================================================
