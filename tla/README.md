# Verification of xAI Colossus 2

TLA+ models, TLC runs and TLAPS proofs for the Colossus 2 infrastructure
orchestrator. The repository is a Python simulation of a data centre: two
orchestrators tick a dozen subsystems (cooling, energy, security, nanofluids,
servers, water, microcode, community) and react to what they report. Much of
it computes; the parts kept here are those that *decide* or that *remember*:
the task runtime, the bindings of subsystems, the loops and their signals, the
breakers that isolate zones, the battery and its balancer, the files that
processes share, the checks that attest or promote something, and the small
state machines of the plant.

1. [The system](#1-the-system)
2. [Modules and the code](#2-modules-and-the-code)
3. [Runs](#3-runs)
4. [Bounds and fairness](#4-bounds-and-fairness)
5. [Proofs](#5-proofs)
6. [Where code and documents disagree](#6-where-code-and-documents-disagree)
7. [What is not modelled](#7-what-is-not-modelled)
8. [Plan](#8-plan)

To repeat everything, in this directory:
`tlc -config <cfg> <module>` for each line of section 3, and
`tlapm <module>_proofs.tla` for each line of section 5. `PROJECT.json` lists the
components, the runs, mutants for every checked property, the source lines of
every definition, the hazards and the theorems.

## 1. The system

### 1.1 The orchestrators

**Task runtime** (`core/mastermind_orchestrator.py`). State: `tasks` by id, a
priority queue of `(priority, sequence, id)`, per task `state`,
`assigned_piston`, `retries`, per piston `current_load`, `status`,
`tasks_completed`, `tasks_failed`, the registered handlers. Operations:
`submit_task`, `chain_tasks`, `process_tasks`, `run_task`, `assign_task`,
`register_task_handler`, `unregister_task_handler`. Hard: coroutines that drain
the queue interleave at each handler's await; a handler raises, is cancelled, or
loses its capability while the task waits; retries re-enter the queue. Correct
when no slot leaks, no task is lost or run twice, retries stay in budget, the
queue's order holds, and every task settles.

**Subsystem bindings** (same file). State: `subsystems` (name to binding),
`discovery`, each binding's `health`, `last_tick`, `last_error`. Operations:
`register_subsystem`, `discover_sibling_subsystems`, `tick_subsystem`,
`monitor_health`, `recover_subsystem`. They share `subsystems` with the task
runtime, for which a bound name makes a piston executable. Hard:
`tick_subsystem` keeps a binding across an await while others replace, drop or
rediscover the name. Correct when health is evidence of a binding's own ticks
and nothing working is thrown away.

**Timed loop** (same file: `tick`, `run`, `stop`). State: one `running` flag for
all runs. Hard: the finally clause of one run clears what another loops on.
Correct when a run that comes back early was interrupted.

**Colossus tick cycle** (`core/colossus_orchestrator.py`). State: zones with
their `isolated` flag, the fusion `mode` and its active pistons, tick and
counters, the `CircuitBreaker` (strikes, isolated zones, countdowns). A tick
calls every subsystem in a fixed order and feeds results back. Hard: the
breaker's three tables change in two calls of a tick, the cascade shield has a
countdown that somebody else must drive, feedback reads values of this tick or
of an older one.

**The orchestrator around its ticks** (same file: `__init__`,
`_validate_manifest`, `run`, `_compute_health`). State: the manifest, the
subsystems that came up, the shutdown flag, `health`, records of the memory
bridge. Hard: a manifest with sections missing, ticks that raise, signals in the
sleep, manual ticks beside the loop. Correct when what was built can run, and
runs and records agree.

**Telemetry bus** (same file). State: buffer, sequence number, subscribers.
Hard: `emit` from threads without a lock. Correct when nothing is lost below the
limit and the limit holds.

### 1.2 Protection of the plant

| component | state | what makes it correct |
|---|---|---|
| cascade shield (`thermal/cascade_shield.py`) | per zone CLOSED, OPEN, HALF_OPEN, streak, two countdowns | opens only on a streak, leaves OPEN when its caller drives recovery |
| Megapack and grid balancer (`energy/`) | the pack's mode, charge, grid, fault; demand, DVFS factor, grid mode | reserve kept, GPUs throttled last, surplus stored; orders come from the balancer, the pack's own tick and operators |
| PUE optimizer (`energy/pue_optimizer.py`) | history, cooldown | a critical average is answered although every reader shares the cooldown |
| hydra immune system (`security/hydra_immune.py`) | threat level, keys, sealed zones | strikes end with their cause, there is always a key |
| ghost ember (`security/ghost_ember.py`) | a window of averages and a drift flag per sensor | a sensor that settled is not flagged for ever |
| incident autoresponse (`security/incident_autoresponse.py`) | playbooks, audit trail, log, dry-run flag | the trail tells what was done, also after an exception |
| coolant (`nanosphere/`) | a lifecycle state, age and score per batch, a flag per circuit | a flagged circuit gets its batch replaced |
| water plant (`waterplant/`) | stages on line, the last water, permit checks | what the permit finds was alerted |
| servers (`servers/`) | racks laid out three times, error counters | same racks everywhere, errors counted |

### 1.3 Records and attestations

| component | state | what makes it correct |
|---|---|---|
| memory bridge (`memory/aspen_bridge.py`) | a hot list, an append-only archive with rotation, shared by processes that die and that rename it under each other's open files | no tick twice, a process's ticks in order, losses explained, a restart finds the tail |
| sidecar (`mastermind_sidecar.py`) | a JSON file every sidecar rewrites | updates stay unless processes overlap |
| SBOM chain (`security/sbom_chain.py`) | known components, audit log, counters | passed means genuine |
| promotion authority (`src/promotion_authority.py`) | grants, a receipt file | accepted means bound to the receipt and fresh |
| portfolio router (`core/portfolio_router.py`) | a registry, read and validated twice | what is routed as ready was verified |
| devops pipeline (`core/devops_pipeline.py`) | runs with stages and gates | all green means tested |
| microcode (`microcode/`) | active versions, patches, firmware matrix, driver records | rollbacks undo, verdicts stand |
| API gateway and MCP bridge (`api/gateway.py`, `connectors/mcp_bridge.py`) | token bucket, request count | no window admits more than capacity and refill |

### 1.4 Components that only compute

Immersion engine, predictive dispatch, digital twin, demand forecaster, circuit
optimizer, emissions, impact, licensing, cooling tower, physics constants, CLI,
scripts. `alpha/` and `omega/` hold copies of the energy and security modules.

### 1.5 How they interact

The CLI and the gateway make a `ColossusOrchestrator` and call `tick_cycle`; it
calls the subsystems' `tick` and writes each tick to the memory bridge, whose
files are shared by all processes. `MastermindOrchestrator` reaches the same kind
of subsystems through bindings and also runs tasks on them; its sidecars share
the shadow memory. The MCP bridge is a client of the gateway. Within a process
everything is one asyncio event loop, so only an await that really suspends lets
others in: the await of a task's handler, the one of a bound subsystem's tick,
and the sleep between ticks. What `tick_cycle` awaits never suspends. Threads
reach the telemetry bus, as the concurrency test of `tests/test_end_to_end.py`
does.

## 2. Modules and the code

| module | models | state and actions |
|---|---|---|
| `TaskRuntime` | task runtime | one variable per field; `Submit`, `StartDrain`, `EndDrain`, `DropEntry`, `Dispatch`, `Block`, `Succeed`, `Raise`, `Cancel`, the rebinding of handlers and subsystems |
| `TaskLedger` | what the runtime promises | a task is new, waiting, running, settled or abandoned; `TaskRuntime` implements it |
| `DirectCalls` | clients that call `assign_task` and `run_task` themselves | `TaskRuntime` with `AssignTask` and the four outcomes of `RunTask` |
| `Subsystems` | bindings, discovery, health, recovery | bindings are numbered objects; a coroutine is idle, ticking, scanning or reporting |
| `RunLoop` | `run`, `stop`, `tick` of the mastermind | a run is idle, in a tick or asleep; `Run`, `Return`, `Wake`, `Raise`, `Stop`, `TickAlone` |
| `TickCycle` | the control exerted by `tick_cycle` | composes the circuit breaker, `CascadeShield` (by `INSTANCE`), Hydra's threat level and the fusion mode; a tick is one step |
| `ColossusRun` | construction, run and records of the other orchestrator | the manifest as keys per section; `Build`, `Run`, `Iterate`, `Wake`, `Raise`, `Finish`, `Signal`, `TickAlone` |
| `TelemetryBus` | `emit` of threads | one step per read or write of a field; list objects are numbered |
| `Gateway` | bucket, endpoints, the MCP bridge | `Request`, `TickRequest`, `CallTool`, `TimePasses` |
| `CascadeShield` | the shield on its own | per zone the record of `ZoneCircuitState`; `Evaluated` and `Recovered` are the two calls |
| `Megapack`, `GridBalancer` | the battery; the balancer with it | `Tick` is the dispatch waterfall followed by the pack's tick |
| `PueOptimizer` | samples, average, recommendations, cooldown | `Sample`, `GetPue`, `Tick`, `TimePasses` |
| `HydraImmune` | threat level, counter strikes | `Tick` |
| `GhostEmber` | drift of a sensor's average | `Ingest` |
| `IncidentResponse` | playbooks and their trail | `Execute`, `RegisterPlaybook`, `SetDryRun` |
| `Coolant` | engine, lifecycle and stability of batches | `Tick`, `Older`, `Evaluate`, `ScheduleReplacement`, `RetireBatch` |
| `WaterLoop` | treatment and compliance | `SetStageOnline`, `Tick`, `CheckDischarge` |
| `Fleet` | racks of three components, error counts | `Ingest`, `Tick`; the layouts are operators |
| `AspenBridge` | the tick archive of several processes | files are numbered objects with a sequence of lines, to which names and open descriptors refer; `Start`, `Load`, `Look`, `Rename`, `OtherRotationFails`, `Open`, `Write`, `Tear`, `Crash`, `SecondPasses` |
| `Sidecar` | the shadow memory of several processes, whose file may be empty or unreadable in between | `Read`, `Truncate`, `Write`, `Crash`, `Get` |
| `SbomChain` | registration and verification; the owner may change maker, specs, hash and signature of a manifest it registered | `RegisterComponent`, `VerifyComponent`, `VerifyChain`, `ChangeManifest` |
| `PromotionAuthority` | grants against a changing receipt | `Issue`, `Check`, `ReceiptChanges`, `TimePasses` |
| `PortfolioRouter` | validation of a registry, routing | `Load` over every small registry |
| `DevOpsPipeline` | stages and gates of a run | `StartRun`, `EndStage`, `RaiseInStage` |
| `Microcode` | hot patcher, firmware matrix, driver table | one action per registration, patch, rollback and tick |
| `Services` | `Subsystems`, `RunLoop`, `TelemetryBus`, `Gateway`, `ColossusRun` together | a step is one of the part that `part` names |
| `Protections` | `CascadeShield`, `Coolant`, `WaterLoop`, `PueOptimizer`, `HydraImmune`, `GhostEmber`, `Fleet`, `IncidentResponse` together | likewise |
| `Records` | `AspenBridge`, `Sidecar`, `SbomChain`, `PromotionAuthority`, `PortfolioRouter`, `Microcode`, `DevOpsPipeline` together | likewise |
| `MC*` | small instances | values of constants for TLC |
| `*_proofs` | theorems | section 5 |

Choices that matter when a module is compared with the code:

- **Atomicity.** `TaskRuntime` and `Subsystems` split a coroutine exactly at the
  await of a handler or tick; `onLoop` names the coroutine that has the loop in
  between. Getting from a non-empty queue and putting on an unbounded one do not
  suspend. `AspenBridge` makes one step per system call that others can see:
  the size check, the rename, the open, the write of the buffer at close, and in
  a start the open and the read. A rename between an open and its write leaves
  the writer with the renamed file. Making an entry and remembering it is local
  and merged with the open after it, so ticks are numbered by their opens.
  `Sidecar` splits at the truncation and the write; `TelemetryBus`
  at every access to a field, as threads may switch there; `append` and a slice
  are atomic in CPython.
- **Cancellation.** `CancelledError` is not an `Exception`, so only `finally`
  runs. `Cancel` does that, and leaves the task RUNNING as the code does.
- **Float data.** Temperatures, power steps, deviations, demands and entropies
  are inputs; what a reading is (anomalous, critical, how large a deficit) is
  chosen at each step. Where arithmetic decides, it is exact in a unit the code
  steps by: the threat level in twentieths, the power usage effectiveness in
  hundredths, coolant ages in steps of 20 days (one point of the score each),
  turbidity in thousandths. The pack's efficiency factor is left out.
- **Cryptography.** A hash is the data hashed; a signature or MAC is what it
  covers together with who made it.
- **Counters.** Strikes of the breaker are kept up to their limit, beyond which
  the code only asks whether the limit is reached. The shield keeps the distance
  to the last anomaly up to 2, since it only asks whether it exceeds 1. Tick
  numbers nobody compares are left out.
- **Inputs.** `Rediscover` may find any subset of the siblings.
  `recover_subsystem` is called from `monitor_health`, its only caller in the
  repository. No code changes the number of turbines online, so the baseload is
  a constant. What a stage of the pipeline finds is an input: others work in the
  same directory.
- **Unreachable code.** The rollback of a playbook cannot be reached (every step
  that returns reports success), so it is no action of `IncidentResponse`.
- **History.** `attempts`, `cancelled`, `outcome`, `streak`, `calm`, `stored`,
  `madeBy`, a manifest's `original`,
  `disturbed`, `newest`, `torn`, `replaced`, `interrupted`, `ended`, `base`,
  `orderly`, `adjusted`, `admitted`, `wasDry`, `raised` and the last three fields of the
  promotion's `result` are not in the code; they record what properties refer to
  and guard nothing, except that `DirectCalls` bounds its runs by `attempts` and
  `TickCycle` gives the shield's unused `streak` its strikes.

Definitions commented `Fault:` are mutated forms of the definition below them;
nothing but the mutants of `PROJECT.json` uses them.

**Compositions by part.** `Services`, `Records` and `Protections` each put
several components together that share no variable, so no property of one can
depend on another; checking their product would only multiply states. The
variable `part` picks the component a behaviour is about, the others stay in
one initial state, and the reachable states are the sum of the components', each
explored in full. A composite property is the conjunction of the components'
properties that share a theme; each conjunct has a mutant of its own component.
The constants of the parts are constants of the composition, so that what is
proved of it holds for all their values. Components that do interact are composed
for real: `TickCycle` with `CascadeShield` and Hydra's level, `GridBalancer` with
`Megapack`, `Gateway` with the bridge, `DirectCalls` with `TaskRuntime`,
`Coolant` of three files.

## 3. Runs

| run | module, configuration | what it shows |
|---|---|---|
| `task_safety` | `MCTaskRuntime`, `TaskRuntime_safety.cfg` | loads are the coroutines on a piston and never exceed its limit (`SlotAccounting`); no task is lost, queued twice or run twice, cancelled ones included (`OnePlace`); attempts stay within the budget (`RetryBudget`); the runtime implements `TaskLedger` |
| `task_live` | `MCTaskRuntime`, `TaskRuntime_live.cfg` | no task overtakes an earlier one that is at least as urgent, whatever is retried (`NoOvertaking`); every submitted task settles (`EveryTaskSettles`) |
| `task_blocked` | `MCTaskRuntime`, `TaskRuntime_blocked.cfg` | violated: a busy piston blocks a task for good |
| `direct_open` | `MCDirectCalls`, `DirectCalls_open.cfg` | what is left when clients mix in their own calls: waiting tasks are queued, counters stay in bounds |
| `direct_capacity` | `MCDirectCalls`, `DirectCalls_capacity.cfg` | violated: an old assignment takes no slot |
| `subsystems_shared` | `MCSubsystems`, `Subsystems_shared.cfg` | `Subsystems`: health is evidence, nothing is called bound without a binding (`HealthIsEvidence`), a working binding is kept, a name vanishes under a tick only by another one's recovery. `RunLoop`, `ColossusRun`: runs end as asked, records are in order, health is monotone (`RunsEndAsAsked`). `TelemetryBus`: nothing is lost below the limit (`EventsKept`). `Gateway`: no window admits more than capacity and refill (`RateIsBounded`; twice what the docstring says, see section 6) |
| `shield_run` | `MCPlant`, `Plant.cfg` | `CascadeShield`: opens only on a streak, and leaves OPEN for a caller that drives recovery. `WaterLoop`, `Fleet`, `IncidentResponse`: what is reported is what happened (`ReportsAreTrue`). `Coolant`, `PueOptimizer`, `HydraImmune`, `GhostEmber`: an alarm is answered, and ends with its cause (`AlarmsAreAnswered`) |
| `tick_run` | `MCTickCycle`, `TickCycle_run.cfg` | the breaker's tables agree; a zone it holds is isolated; it releases a zone whose anomalies end; a threat security left behind is answered although operators change the mode |
| `tick_isolation_ends` | `MCTickCycle`, `TickCycle_ends.cfg` | violated: a zone the shield opened stays isolated |
| `tick_escalates` | `MCTickCycle`, `TickCycle_escalates.cfg` | violated: the threat of a security system that runs is never seen |
| `grid_run` | `GridBalancer`, `GridBalancer_run.cfg` | a pack at its critical charge does not discharge; GPUs are throttled last; a lasting surplus fills the pack unless it is left discharging |
| `archive_run` | `MCRecords`, `Records.cfg` | `AspenBridge`: no tick is read twice and a process's ticks stay in order; a stored tick is lost only to a torn line before it or with a file whose name a rename took; a restart recovers the newest ticks of each process without a gap, up to the file it reads; all of it also when files are renamed under an open. `Sidecar`: updates stay unless processes overlap (`UpdatesKept`). `SbomChain`, `PromotionAuthority`: what is attested is genuine (`AttestedIsGenuine`). `PortfolioRouter`, `DevOpsPipeline`: what is published was tested (`PublishedIsTested`). `Microcode`: rollbacks in reverse order undo, verdicts stand |

`CHECK_DEADLOCK` is on everywhere. Where the clients of a component owe nothing,
or a bound of the instance ends what they can do, the module has a step that
stands for "nobody calls" (`Rest` in `TelemetryBus` and `Records`).

## 4. Bounds and fairness

| run | instance | why it is enough |
|---|---|---|
| `task_safety`, `task_blocked` | 2 tasks, 2 coroutines, 2 pistons of one slot (one of them executable only through a subsystem, one task restricted to one piston), 1 retry, batches of 2 | contention for a slot, a choice of pistons, loss of a capability while waiting and running, retry and exhaustion, and a batch that ends early all occur |
| `task_live` | 3 tasks (priorities 1, 0, 1; retries 1, 1, 0), 2 coroutines, 1 piston | two tasks of one priority with a more urgent one between them, and a retry behind a third task |
| `direct_*` | 2 tasks, 2 coroutines, 1 piston; `MaxStarts` = 2 ends direct runs | a task run twice at once, and an assignment left from an earlier attempt |
| `subsystems_shared` | bindings: 2 coroutines, 2 names (one a sibling that can be rediscovered, one only registered), `MaxBindings` = 3. Loops: 2 runs of up to 2 ticks, 4 ticks. Bus: 2 threads, 2 events each, a buffer of 2. Gateway: capacity 2, rate 1, 4 units of time. Life: 6 manifests, durations up to 2, 3 ticks, up to 5 anomalies, 5 records | a binding replaced during a tick, by the other kind of binding, and once more; a run that starts while another ends; an append to a list that was just replaced; a bucket empty, refilled and full; a section or key missing in each way that the code reacts to. The coroutines and threads are interchangeable, which the symmetry uses; no liveness is checked there |
| `shield_run` | shield: 2 zones, limit 3, 3 recovery ticks, 5 half-open ticks as in the code. Coolant: sizes 30 and 80 nm, 3 and 5 %, a half life of 9 steps, ages to 20. Water: 18 and 35 °C, every set of stages, 2 checks. PUE: 1.03 to 1.25 over a window of 2 and a history of 3. Immune: the code's threshold, key limits and zones. Fleet: 0, 2, 7, 8 and 9 racks over 3 and 2 zones, 2 GPUs. Drift: 4 levels, a window of 3. Playbooks: 3 lists of steps, 2 executions | the shield's limit is above the gap of 2 that breaks a streak; coolant that is flagged before it is due, after, or never; a rack count below, at and above a multiple of the zones; averages above each threshold, and a drift that comes back |
| `tick_*` | none found in the first two scans, which have no baseline; 1 or 2 zones, limit 3, 2 or 3 recovery ticks, the fusion modes of the manifest, up to 5 findings per scan as there are channels (1 in `tick_run`, where the level still reaches its top) | zones do not influence each other except through the mode |
| `grid_run` | capacity 20, thresholds 5, 10 and 95 %, rates 1 and 2, demands from 2 below the baseload to 4 above | every branch of the waterfall and every threshold is met from both sides, also stepped over |
| `archive_run` | archive: 2 processes, 4 ticks, `max_hot` 2, rotation at 2 lines, 1 append cut short, 2 seconds of clock. Sidecars: 2, with 2 keys and 4 updates. SBOM: 1 component, 2 specs, any changes of its manifest, 3 verifications, in lists of up to 3. Grants: 2 repositories, 2 sources, 2 contents, time to live 1, 2 units of time, 1 grant (a check looks at no other). Registry: 2 names spelt two ways, 3 repositories. Microcode: 2 components and versions, 3 patches, 2 combinations and GPUs, 3 records. Pipeline: 1 run | a list that overflows, a file longer than the list, both processes rotating at once within a second and across one, a reader and a writer whose file is renamed while they have it open, an archive replaced by a second one. (A late write to a file that is already replaced takes 5 ticks and two renames; the theorems cover it.) Processes are interchangeable, and so are the sources of grants, which the symmetry uses; no liveness is checked there. The clock moves only when a process is about to read it three overlapping updates; a manifest changed between two checks; a receipt that changes and comes back; ids that meet after they are stripped; a rollback out of order. Pipeline runs do not touch each other |

`MaxStarts`, `MaxBindings`, `MaxTicks`, `MaxSeconds`, `MaxDuration`, `PerThread`,
`MaxTime`, `MaxReports`, `MaxRecords`, `MaxUpdates`, `MaxAudit` with
`MaxVerified`, `MaxTorn`, `MaxGrants`, `MaxNumber`, `MaxPatches`, `MaxRuns`,
`MaxAge`, `MaxChecks`, `MaxErrors` and `MaxExecutions` bound the instances; the
other constants are parameters of the code.

Fairness:

- `TaskRuntime`: weak for a coroutine that has the loop; strong for the return of
  a handler, because the event loop resumes ready coroutines first come first
  served, so one whose turn keeps coming is not passed over for good; strong for
  starting to drain, because `run()` calls `tick()` again and again and each call
  drains. Handlers are assumed to return or raise. Nothing is assumed of
  submissions, of lost or new capabilities, or of cancellation.
- `TickCycle`: weak for the tick, since `run()` ticks until it is shut down.
  Operators owe nothing.
- `GridBalancer`, `HydraImmune`, `Coolant` and `PueOptimizer`: weak for the tick
  (and for time passing). `tick_cycle` ticks them only while the fusion mode keeps
  their piston active (GHOST for energy and PUE, MICROWAVE for the nanofluids,
  CORE-THINK for security), so `SurplusFills` and `AlarmsAreAnswered` are about a
  run that goes on in such modes; a mode that switches the piston off stops them.
- `CascadeShield`: weak for a tick that includes `tick_recovery`. This is an
  assumption on the shield's caller, and the code's one looping caller does not
  meet it: only the module's own main and its tests drive recovery, and
  `tick_cycle` never does. `OpenEnds` says what the shield promises to a caller
  that does; `tick_isolation_ends` shows what comes of one that does not.
- `GhostEmber`: sensors keep reporting. No orchestrator owns the detector; its
  test and its own main feed it in a loop, and a drift flag can only be dropped
  by a further reading, so the property is about a sensor that keeps reporting.
- `Protections` states each of these for the part a behaviour is about: the fairness
  of a part that is at rest would be unsatisfiable.
- The other modules are checked for safety only.

## 5. Proofs

Proved by TLAPS for every value of the constants that satisfies the named
assumption. Every safety invariant and every action property that a passing run
checks is here, and so is the refinement of `TaskLedger`; what is left to the
model checker alone is liveness.

| module | theorem | states |
|---|---|---|
| `TaskRuntime_proofs` | `TypeCorrect`, `LoadIsAccounted`, `TasksHaveOnePlace`, `RetriesWithinBudget`, `QueueIsFair` | `TypeOK`, `SlotAccounting`, `OnePlace`, `RetryBudget`, `NoOvertaking` of `TaskRuntime` |
| | `RuntimeImplementsLedger` | `ImplementsLedger`: `TaskRuntime` implements `TaskLedger` |
| | `WaitingTasksAreQueued`, `CountersStayInBounds` | `WaitingIsQueued`, `CountersInBounds` of `DirectCalls` |
| `Subsystems_proofs` | `SubsystemsTypeCorrect`, `HealthIsTrue`, `WorkingKept`, `OnlyRecovery` | `TypeOK`, `HealthIsEvidence`, `WorkingBindingKept`, `OnlyRecoveryTakesNames` of `Subsystems` |
| `Services_proofs` | `ServicesTypeCorrect`, `RunsEnd`, `EventsAreKept`, `RateHolds` | `TypesOK`, `RunsEndAsAsked`, `EventsKept`, `RateIsBounded` of `Services` |
| `Protections_proofs` | `TypeCorrect`, `OpensOnlyOnStreak` | `TypeOK`, `OpensOnStreak` of `CascadeShield` |
| | `ProtectionsTypeCorrect`, `ReportsHold` | `TypesOK`, `ReportsAreTrue` of `Protections` |
| `TickCycle_proofs` | `BreakerAgrees`, `HeldZonesIsolated`, `TypeCorrect` | `BreakerConsistent`, `HeldIsIsolated`, `TypeOK` of `TickCycle` |
| `GridBalancer_proofs` | `TypeCorrect`, `ReserveIsKept`, `ThrottlesLast` | `TypeOK`, `CriticalReserve`, `ThrottleIsLastResort` of `GridBalancer` |
| `AspenBridge_proofs` | `BridgeTypeCorrect`, `TicksKeepOrder`, `LossesAreAccounted`, `RestartsRecoverTail` | `TypeOK`, `TicksOnceInOrder`, `LossIsAccounted`, `RestartRecoversTail` of `AspenBridge` |
| `Records_proofs` | `RecordsTypeCorrect`, `UpdatesAreKept`, `AttestationIsGenuine`, `PublicationIsTested`, `PatchesAreUndone`, `VerdictsStand` | `TypesOK`, `UpdatesKept`, `AttestedIsGenuine`, `PublishedIsTested`, `RollbackUndoes`, `VerdictStands` of `Records` |
| | `ArchiveKeepsPromises` | the three properties of the archive, in the composition |

### 5.1 Runtime, bindings, services

- **Task runtime** (`RuntimeAssumption`: finitely many coroutines, `None` is no
  task or piston, limits and budgets are natural numbers). `SlotAccounting` is not
  inductive alone. The decrement of `finally` needs the coroutine to hold a slot,
  which needs the phases of coroutines to agree with what they hold; that a task
  is in one place needs entries to carry distinct sequence numbers no larger than
  the counter, and the state of a held task to be RUNNING. The strengthening adds
  exactly these facts, and each action disturbs few of them. Counting the
  coroutines on a piston uses the library's theorems on finite sets.
- **Ledger.** Each action maps to a step of `TaskLedger` or to a stutter. The
  start of a task is the step that needs an invariant: the ledger asks for a free
  slot, and the runtime's load counter is below its limit. `SlotAccounting` makes
  the counter the number of coroutines on the piston, and the piston a running
  task is assigned to is the one its coroutine holds a slot of.
- **Queue order.** `NoOvertaking` speaks of what was reached; what makes it
  inductive is that an entry of a task not yet reached is older than every entry
  of a task submitted later. A retry takes a new sequence number, but is of a
  task that was reached.
- **Direct calls.** A step that lets a task wait puts an entry for it, and an entry
  is dropped only of a task that does not wait. Only a piston with room is counted
  up, and the decrement stops at 0; that the counters count coroutines no longer
  holds (`direct_capacity`).
- **Bindings** (`SubsystemsAssumption`: finitely many names, which are natural
  numbers; no coroutine is `NoCaller`). `HealthIsEvidence` needs that who awaits a
  tick holds a binding that was made, which needs the bindings of a discovery to
  be numbered within what it made: `FoundNumber` counts them. The two action
  properties follow from the invariant: only `Rediscover`, `Register` and a
  recovery change the table, the first two leave no name without a binding it
  had, and a recovery is the step of a monitor whose own name is CRITICAL. For
  `TypeOK` the coroutine that has the loop is tied to its phase (`Holds`).
- **Timed loop.** A run in progress that was not interrupted finds the flag set:
  whoever clears it interrupts all others.
- **Telemetry bus** (`ServicesAssumption`: finitely many threads, a buffer of at
  least one). Each thread is at any of its reads and writes. A copy about to
  become the buffer is nobody else's and short (`Private`); a buffer that is too
  long has a thread that will see it, one yet to fetch it or measuring the list
  that is the buffer now (`Watched`); up to the limit there is one
  list and nobody trims it (`Untrimmed`), which needs that a list has at most one
  entry per event that was begun; and no thread has loaded a count above the
  number of events that were counted (`NotOvercounted`).
- **Gateway.** Requests since a time s, up to the last refill, together with the
  tokens left, are at most the capacity and what flowed back since s; after the
  last refill none passed (`Accounted`). Each request, refill and refusal keeps
  it, for every s at once.
- **Life of the orchestrator.** Records carry numbers that grow, except that a
  SHUTDOWN repeats the last; a loop that goes on has ticks to do; and what was
  built has the key its loop reads.

### 5.2 The plant

- **Cascade shield** (`ShieldAssumption`: positive limits). The count of
  consecutive anomalies is at most the streak of anomalous ticks whenever the
  last anomaly is at most a tick old; the code's reset makes it so.
- **Tick cycle** (`TickAssumption`: at least two strikes). A zone is tripped
  exactly when its strikes are at the limit and when its countdown is positive.
  `HeldIsIsolated` follows from what a tick does to an unexpired zone, and needs
  that a zone released in a tick cannot be tripped again in it: hence two strikes.
  `TypeOK` needs that a closed zone of the shield has strikes to go; it states
  that inside the tick cycle the shield is CLOSED or OPEN and never HALF_OPEN.
- **Megapack** (`PackAssumption`, `BalancerAssumption`). Every path into
  DISCHARGING is guarded by the critical threshold, and the cut-off comes after
  both movements of charge in a tick. For `ThrottleIsLastResort`: GPUs are
  throttled only on a deficit beyond the pack's maximum, and then a pack that is
  neither locked nor at its critical charge is ordered to discharge, or does
  already; only the cut-off can end that in the same tick.
- **Water** (`ProtectionsAssumption`, as below). Water that a tick made is
  neutral, flows, and has its alert if it is turbid (`Treated`). A check keeps the
  violations it found together with that tick's alerts, so stages that change in
  between cannot part them.
- **Fleet**, for any number of racks and any non-empty list of distinct zones. The
  racks before the last zone are a block per zone, of the quotient's size, the
  last takes the rest: by induction over the list the blocks have `k * b` racks,
  and the whole `rackCount`. The error count is at least the sum of the errors
  shown: `ShownRaised` gives what raising one entry does to the sum, from the
  fold's definition by induction over the finite set of GPUs.
- **Playbooks**, for any lists of the code's steps. A list that tells every
  isolation before its step, joined to another, does so too; by induction over the
  list that `FlattenSeq` flattens this holds of a whole execution, broken off
  where a step raises. A dry run has no entry that isolates and does not break
  off.
- **Coolant, PUE, immune system, drift**: type correctness. It holds the limits
  that code relies on (a score within 0 to 100, a history, window and key list cut
  to length); that an alarm is answered is liveness.

### 5.3 Records

- **Archive** (`BridgeAssumption`). That a process's ticks stay in order although
  a late write may land in a renamed file needs two facts (`FilesInv`): what a
  process is about to write is its newest tick, and all its others are in the
  file it has open or in older ones (`Pending`); and no file with a line in it,
  nor one that is open, was made after the warm file (`Newest`), so a file made
  next is newer than all. Losses: a line left open belongs to an append that was
  cut short, so its tick was never stored; lost ticks, and one more for each file
  whose last line is open, are at most the appends cut short (`LossInv`). That a
  file has a name or lost it to a rename holds of every file with lines, also one
  that somebody still has open. A restart: by induction over the lines, after i of them
  it has what they decode to, in order, so cutting the list to its newest leaves
  no gap; a newer tick of the same process cannot be in an older file, as the
  order above says; and no hot list exceeds `max_hot`.
- **Sidecars** (`RecordsAssumption`, as below). While nothing disturbs them, one
  sidecar at most is in an update; until it writes, the file and what it read are
  what was stored last.
- **SBOM chain.** Counters agree with the log as long as it was not halved, for
  `verify_chain` over lists of any length, by following its loop with the
  invariant that the logs are. Passed needs a trusted maker, specs that
  meet the manifest's hash if there is a manifest, and a signature over the specs,
  or over the manifest as it is. A signature over contents other than those
  registered is none the owner can have put there, so that manifest is as it was
  registered.
- **Promotion** (`Ttl \in Nat`). Every grant in circulation is as the authority
  made it, for no longer than the time to live from now; a changed field, the
  repository too, is not the one its MAC covers (`ForgedIsRefused`).
- **Registry.** What the two validations establish of an accepted registry; the
  one that counts names as they are stripped refuses two that meet.
- **Microcode.** What a component has is what its newest standing patch brought,
  and each standing patch found what the one below it brought (`Stacked`), as long
  as its rollbacks were newest first. A verdict depends on the first record of a
  combination, which only appends follow.
- **Pipeline.** Each stage that ended has gates, and those of the test stage are
  what its run of pytest makes of them.

`RecordsAssumption`, `ServicesAssumption` and `ProtectionsAssumption` say that
bounds and limits are natural numbers, those the code divides by or slices with
positive (the SBOM log's halved length too), that versions and specs are numbers
apart from 0, which stands for none, that a facility's zones have distinct names,
and that playbooks are lists of the code's steps.

### 5.4 Induction

The library's induction theorems take a predicate as a parameter and cannot be
instantiated here. Where a proof needs induction over data it states it for a
set instead of a predicate (`ByInduction`, `NumberInduction`, `SubsetInduction`,
from `WFMin`: a non-empty set of natural numbers has a least element), and it unfolds
a recursive function by first proving that one with its equations exists
(`SumExists`, `FlattenExists`). No module uses RECURSIVE operators.

### 5.5 Only model-checked

Liveness under fairness, which is beyond the prover: `EveryTaskSettles`,
`OpenEnds`, `BreakerRecovers`, `StaleThreatAnswered`, `SurplusFills` and
`AlarmsAreAnswered` (a flagged circuit gets its batch replaced, a critical average
is answered, strikes cease, drift is forgotten). `OpenEnds` is about a caller
that drives recovery. The runs that expect a violation are counterexamples and
have nothing to prove.

## 6. Where code and documents disagree

Shown by a run that expects the violation (`findings` in `PROJECT.json`):

- A task is blocked for good with "no executable piston matches this task" when
  its piston is merely busy (`core/mastermind_orchestrator.py:529`, against
  README.md:77).
- `run_task` on an old assignment takes no slot (`:540`), so a piston runs more
  than `max_concurrent` tasks.
- `tick_cycle` never calls the shield's `tick_recovery`; a zone it opened stays
  isolated (`core/colossus_orchestrator.py:409`, against PRO_CODE_AUDIT.md:28).
- The result of a security tick has no `threat_level`, so the emergency response
  announced at `core/colossus_orchestrator.py:523` cannot follow a security tick.

Met while modelling; the models do what the code does, and no run is spent on
them.

Orchestrators:

- A cancelled coroutine leaves its task RUNNING for good, although `TaskState`
  declares CANCELLED (`mastermind_orchestrator.py:55`, `:587`).
- With two monitors, `self.subsystems[name]` after the await may raise KeyError,
  which ends the whole tick (`:475`); and the report says "executed" of a binding
  that was registered anew during that tick.
- `stop()` before a later `run()` is forgotten, and the end of one run ends the
  others (`:653`, `:663`).
- The security adapter of the mastermind loads `hydra_immune.py` of a sibling
  repository and asks it for `HydraImmune()` (`:393`); the file of that name here
  has a `HydraImmuneSystem`.
- The tick cycle isolates a zone on one anomalous reading, not only on a streak
  (`colossus_orchestrator.py:434`); a trip of the breaker is flagged in the next
  tick, although the class promises to isolate in less than 100 ms (`:136`).
- The SHUTDOWN record repeats the number of the last tick, so tick numbers are no
  ids in the archive; `duration_ticks` 0 runs for ever here and ends at once in
  the mastermind; the shutdown flag is never reset, so a later `run()` only
  writes another SHUTDOWN record; a tick that raises is counted and leaves no
  record, and a new health only if it was a summary that raised (`:542`).
- Validation errors of the manifest are ignored; `max_consecutive_anomalies` has
  no default in a section that is present (KeyError); an empty manifest stands
  for the file's.
- Telemetry sequence numbers may repeat, and a trim may lose an event that is
  appended at that moment (`colossus_orchestrator.py:108`).

Plant:

- The shield forgets what it counted while half open when it closes
  (`cascade_shield.py:126`), so a single anomaly in HALF_OPEN does not reopen it.
- In a surplus tick the balancer and the pack's own tick both charge, up to twice
  `max_charge_mw` (`grid_balancer.py:130`, `megapack_state_machine.py:196`).
- The balancer moves charge whether or not the pack accepted the order, also in
  FAULT and MAINTENANCE; at or below the low threshold it draws the maximum, not
  the deficit; a deficit that the pack could cover but for its charge is neither
  served nor throttled; a pack left DISCHARGING is never charged from a surplus.
- A grid loss at critical charge leaves a charging pack charging;
  `trigger_fault` without a grid sets the code but not the state.
- `grid_mode` never returns to NOMINAL: the branch that should do it asks for
  NOMINAL first (`grid_balancer.py:174`).
- Reading the PUE in the warning range starts the cooldown that then silences a
  critical one (`pue_optimizer.py:100`); `_max_adjustments` is not used.
- Zones once sealed by the immune system are never unsealed, and which two of the
  three are sealed is the order of a set.
- A sensor that settles at 0 stays flagged as drifting: a window of zeros is not
  looked at (`ghost_ember.py:102`).
- Coolant at the defaults (30 nm, 3 %) is never flagged, so its batches stay
  REPLACEMENT_DUE; the engine announces REPLACEMENT_SCHEDULED in every tick even
  when it is refused (`conductivity_engine.py:164`); a retired batch is never
  replaced by another.
- The removal table of the INTAKE stage takes out everything; water above 30 °C
  violates the permit and is never alerted; a check before the first tick finds
  violations of water that never was.
- GPU monitor and fabric lay out zones A, B and C while the rack manager takes
  those of the manifest; an unknown GPU id creates an entry.
- Steps of a playbook always report success, so the rollback in reverse order is
  unreachable, and an exception leaves `execute` with neither rollback nor log
  (`incident_autoresponse.py:246`).

Records:

- The hot tier keeps 1000 ticks according to `aspen_bridge.py:8`; it is cut to 500
  on overflow, and starts empty after a rotation and a restart.
- Two processes that rotate in the same second replace the archive just made
  (`aspen_bridge.py:68`); a torn line spoils the entry after it (`:85`).
- The line of a tick is written to the file that was opened for it, whatever its
  name is by then (`aspen_bridge.py:84`): a tick may land in an archive after
  another process has put newer ones into the new warm file, or in a file a
  second rename has replaced, where it is lost. What a restart loads is free of
  gaps up to the file it reads, not in the order of the whole system's ticks.
- A sidecar that reads the shadow memory while another writes it takes it for
  empty, and its update then drops all other keys (`mastermind_sidecar.py:87`).
- `verify_chain` reports a valid chain while every verification in it failed: it
  hands in the manifest's signature with specs that another signature must cover,
  and looks only at the manufacturer. One that is not trusted counts as untrusted
  twice.
- A router built over a mapping loses an entry when two ids differ in spaces
  only; from a file the second validation refuses that
  (`portfolio_router.py:110`).
- A failing gate does not stop the pipeline; a missing repository makes a run
  FAILED with `all_gates_pass` vacuously true; "repos_passed" counts complete runs
  with failing tests.
- A patch does not reach the firmware matrix, and a rollback out of order brings
  back a version that was already replaced (`hot_patcher.py:77`).
- The bucket promises "max 100 req/s" (`gateway.py:41`, and the text of the 429
  answer, `:86`). A full bucket and a second's refill pass 200 requests within one
  second; `RateIsBounded` states and proves the bound that does hold, capacity
  plus refill.
- `handle_async("tick")` and the memory tool pass neither key nor bucket; the
  guard in `call_tool` for a running loop is dead, and a tick there raises
  RuntimeError.

## 7. What is not modelled

- What properties excuse on purpose. `UpdatesKept` excuses updates of two sidecars
  that overlap, `RollbackUndoes` rollbacks out of order: the code loses or brings
  back something there (section 6), and the properties say that it happens only
  there. `ThrottleIsLastResort` excuses a locked pack, from which the code draws
  all the same. `PassedIsGenuine` excuses a hash the owner replaced, which no
  signature covers; an owner who keeps an older signature of the chain and puts
  it back is not modelled.
- Driver records are taken as they were registered, although the table keeps the
  caller's list of supported GPUs (`driver_compatibility.py:47`) and nothing in
  the repository changes it.
- Floating-point simulation (section 1.4): the control that depends on it takes
  its results as inputs, and nothing in it is decided from an earlier state.
- Of the tick cycle: pre-cooling, the digital twin, feedback on flow and budgets
  and reports, which nothing in the modelled part reads back.
- Of the task runtime: task payloads and results, evidence records, the router's
  ranking of domains.
- Of the memory bridge: the anomaly and decision logs, which are only appended
  and read back; that their rotation may raise is modelled.
- Of the immune system and ghost ember: entropies, baselines, event logs.
- Of the sidecar: health reports and submitted tasks, lists of one process.
- Of the water plant: the cooling tower, an evaporation formula. Of the servers:
  temperatures, power and link loads, which are random walks. Of the nanofluids:
  the conductivity factor and the genetic search of the circuit optimizer.
- Community reports (emissions, impact, licensing), which only accumulate; the
  demand forecaster and predictive dispatch, which estimate; the CLI and the
  scripts, which parse, print and check files; `alpha/` and `omega/`, copies
  whose originals are modelled.

## 8. Plan

Done: task runtime and its ledger, direct calls, bindings, both loops, tick
cycle, shield, battery and balancer, archive; gateway, bus, sidecar, SBOM,
promotion, portfolio, pipeline, microcode; coolant, water, PUE, immune system,
drift, fleet, incidents; proofs of every safety property that is checked, and of
the refinement.

Next, by importance:

- The safety half of the liveness properties, stated and proved as invariants or
  action properties: what makes a tick progress (a countdown that falls in every
  tick of an open zone, a charge that rises in every surplus tick), so that only
  the fairness step is left to the model checker.
- Abstract specifications for the archive (a set of stored ticks from which only
  faults and renames take) and for the shield inside the tick cycle, with their refinements.
- Models: a process that ticks and persists (`ColossusRun` with `AspenBridge`),
  so that a crash between a tick and its record is part of a run.
