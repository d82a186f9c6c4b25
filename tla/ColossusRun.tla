------------------------------ MODULE ColossusRun ------------------------------
(***************************************************************************)
(* The life of a ColossusOrchestrator (core/colossus_orchestrator.py): the *)
(* manifest it is built from, the subsystems that come up, run() with its  *)
(* signals, and what it writes to the memory bridge. What a tick does to   *)
(* the zones is in TickCycle; here it reports anomalies, or raises.        *)
(*                                                                         *)
(* tick_cycle never suspends and the shutdown flag is read only at the     *)
(* head of the loop, so a tick is one step and run() gives way in its      *)
(* sleep.                                                                  *)
(***************************************************************************)
EXTENDS Naturals, Sequences

CONSTANTS
  Manifests,     \* the manifests it may be given
  Complete,      \* the manifest in the file
  Durations,     \* duration_ticks asked for; 0 also stands for None
  MaxReports,    \* bound: anomalies of a kind in a tick
  MaxTicks,      \* bound: ticks in a behaviour
  MaxRecords     \* bound: records in a behaviour

VARIABLES
  manifest,      \* keys present in each section
  built,         \* "no", "yes", or "KeyError"
  remembers,     \* self._memory came up
  phase,         \* of run(): "idle", "head" of the loop, "sleeping", "leaving"
  shutdown,      \* self._shutdown
  tick,          \* self.tick
  health,        \* self.health
  asked, done,   \* duration_ticks and tick_count of the run
  records,       \* what persist_tick wrote
  ended          \* history: how the last run ended

vars == <<manifest, built, remembers, phase, shutdown, tick, health, asked, done,
          records, ended>>

Init ==
  /\ manifest \in Manifests /\ built = "no" /\ remembers = FALSE
  /\ phase = "idle" /\ shutdown = FALSE
  /\ tick = 0 /\ health = "nominal"
  /\ asked = 0 /\ done = 0
  /\ records = <<>> /\ ended = "never"

-----------------------------------------------------------------------------
(* __init__.                                                               *)

\* Sections whose required keys have defaults. The limit of consecutive anomalies
\* is not required: it has its default only in a section that is missing.
Defaulted == {"thermal", "energy", "nanosphere", "security"}
Defaults(section) == IF section = "thermal" THEN {"required", "limit"} ELSE {"required"}

\* Fault: a section that is there is taken as it is.
FilledSections(m) ==
  [s \in DOMAIN m \cup Defaulted |-> IF s \in DOMAIN m THEN m[s] ELSE Defaults(s)]

\* _validate_manifest; the errors it lists change nothing.
Filled(m) ==
  [s \in DOMAIN m \cup Defaulted |->
     IF s \notin DOMAIN m THEN Defaults(s)
     ELSE IF s \in Defaulted THEN m[s] \cup {"required"} ELSE m[s]]

\* What is read without a default.
Buildable(m) == "limit" \in m["thermal"] /\ "facility" \in DOMAIN m /\ "required" \in m["facility"]

\* An empty manifest is taken for none. Any subsystem may fail to come
\* up; the memory is the one told apart here.
Build ==
  /\ built # "yes"
  /\ manifest' = Filled(IF DOMAIN manifest = {} THEN Complete ELSE manifest)
  /\ IF Buildable(manifest') THEN built' = "yes" /\ remembers' \in BOOLEAN
     ELSE built' = "KeyError" /\ UNCHANGED remembers
  /\ UNCHANGED <<phase, shutdown, tick, health, asked, done, records, ended>>

-----------------------------------------------------------------------------
(* tick_cycle, as far as it is seen from outside.                          *)

Gauge == [nominal |-> 0, degraded |-> 1, emergency |-> 2, critical |-> 3]

\* Fault: one critical anomaly among many is lost in the warnings.
HealthByCount(critical, warnings) ==
  IF critical >= 3 THEN "critical"
  ELSE IF warnings >= 5 THEN "degraded"
  ELSE IF critical >= 1 THEN "emergency" ELSE "nominal"

\* _compute_health.
HealthOf(critical, warnings) ==
  IF critical >= 3 THEN "critical"
  ELSE IF critical >= 1 THEN "emergency"
  ELSE IF warnings >= 5 THEN "degraded" ELSE "nominal"

\* persist_tick; what it raises is caught.
Persist(kind) ==
  \/ remembers /\ records' = Append(records, [kind |-> kind, tick |-> tick'])
  \/ UNCHANGED records

ComputeHealth ==
  \E critical, warnings \in 0 .. MaxReports : health' = HealthOf(critical, warnings)

\* A tick that comes to its end, also when servers, water plant, microcode or
\* community raise.
Report == ComputeHealth /\ Persist("TICK")

\* A tick that raises leaves no record; a summary raises after the new health.
Break == (ComputeHealth \/ UNCHANGED health) /\ UNCHANGED records

BeginTick ==
  /\ built = "yes" /\ tick < MaxTicks /\ Len(records) < MaxRecords
  /\ tick' = tick + 1

\* tick_cycle called by somebody else: the gateway, the command line.
TickAlone ==
  /\ phase \in {"idle", "sleeping"}
  /\ BeginTick
  /\ Report \/ Break
  /\ UNCHANGED <<manifest, built, remembers, phase, shutdown, asked, done, ended>>

-----------------------------------------------------------------------------
(* run.                                                                    *)

Run ==
  /\ built = "yes" /\ phase = "idle"
  /\ phase' = "head"
  /\ asked' \in Durations /\ done' = 0 /\ ended' = "never"
  /\ UNCHANGED <<manifest, built, remembers, shutdown, tick, health, records>>

\* Fault: one tick more.
EnoughLate(n) == asked > 0 /\ n > asked

\* No duration, or 0, is never enough.
Enough(n) == asked > 0 /\ n >= asked

Iterate ==
  /\ ~ shutdown /\ phase = "head"
  /\ BeginTick
  /\ Report
  /\ done' = done + 1
  /\ phase' = IF Enough(done') THEN "leaving" ELSE "sleeping"
  /\ UNCHANGED <<manifest, built, remembers, shutdown, asked, ended>>

Wake ==
  /\ phase = "sleeping" /\ phase' = "head"
  /\ UNCHANGED <<manifest, built, remembers, shutdown, tick, health, asked, done, records, ended>>

\* A tick raises, or the run is cancelled in its sleep: no record of it.
Raise ==
  /\ \/ ~ shutdown /\ phase = "head" /\ BeginTick /\ Break
     \/ phase = "sleeping" /\ UNCHANGED <<tick, health, records>>
  /\ phase' = "idle" /\ ended' = "raised"
  /\ UNCHANGED <<manifest, built, remembers, shutdown, asked, done>>

\* The shutdown record has the number of the last tick.
Finish ==
  /\ phase = "leaving" \/ (phase = "head" /\ shutdown)
  /\ Len(records) < MaxRecords
  /\ phase' = "idle" /\ ended' = "returned"
  /\ UNCHANGED tick
  /\ Persist("SHUTDOWN")
  /\ UNCHANGED <<manifest, built, remembers, shutdown, health, asked, done>>

\* SIGINT or SIGTERM, once a run() has set their handler.
Signal ==
  /\ phase # "idle" \/ ended # "never"
  /\ shutdown' = TRUE
  /\ UNCHANGED <<manifest, built, remembers, phase, tick, health, asked, done, records, ended>>

Next == Build \/ TickAlone \/ Run \/ Iterate \/ Wake \/ Raise \/ Finish \/ Signal

Spec == Init /\ [][Next]_vars

-----------------------------------------------------------------------------
(* Properties.                                                             *)

TypeOK ==
  /\ built \in {"no", "yes", "KeyError"} /\ remembers \in BOOLEAN
  /\ phase \in {"idle", "head", "sleeping", "leaving"}
  /\ tick \in 0 .. MaxTicks /\ health \in DOMAIN Gauge
  /\ asked \in Durations /\ done \in 0 .. tick
  /\ ended \in {"never", "returned", "raised"}
  /\ \A i \in DOMAIN records : records[i].kind \in {"TICK", "SHUTDOWN"}

(* Whatever manifest, signals, manual ticks and failing ticks there are:    *)
(* an orchestrator that could be built finds what its loop reads; a run     *)
(* does as many ticks as asked and returns with fewer only on a signal; the *)
(* records' numbers never fall, and one comes twice only with a shutdown.   *)
RunsAreRecorded ==
  /\ phase # "idle" => "required" \in manifest["thermal"]
  /\ asked > 0 => done <= asked
  /\ ended = "returned" => shutdown \/ (asked > 0 /\ done = asked)
  /\ \A i, j \in DOMAIN records : i < j =>
       \/ records[i].tick < records[j].tick
       \/ records[i].tick = records[j].tick /\ records[j].kind = "SHUTDOWN"

(* The health gauge never falls when a tick finds one anomaly more.         *)
HealthIsMonotone ==
  \A c, w \in 0 .. MaxReports :
    Gauge[HealthOf(c, w)] <= Gauge[HealthOf(c + 1, w)] /\ Gauge[HealthOf(c, w)] <= Gauge[HealthOf(c, w + 1)]
=============================================================================
