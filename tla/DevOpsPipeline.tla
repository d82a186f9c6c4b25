----------------------------- MODULE DevOpsPipeline -----------------------------
(***************************************************************************)
(* DevOpsPipeline (core/devops_pipeline.py): the stages of a run over a    *)
(* repository, the gates they record, and what a report makes of them. The *)
(* repository is a directory others work in, so each stage finds it as it  *)
(* is then: its answers are inputs. Of the gates of a stage the set of     *)
(* their results is kept. Stages block the event loop, so runs do not      *)
(* interleave.                                                             *)
(***************************************************************************)
EXTENDS Naturals, Sequences

CONSTANTS MaxRuns   \* bound: runs in a behaviour

VARIABLES runs   \* self.runs; "pytest" of a run is history: how its tests ended

vars == <<runs>>

Stages == <<"validate", "test", "audit", "build", "deploy", "verify">>
Failed == 0
Complete == Len(Stages) + 1
NoGates == [s \in DOMAIN Stages |-> {}]

Init == runs = <<>>

\* The run in progress is the last one.
Current == runs[Len(runs)]
Busy == runs # <<>> /\ Current.stage \in DOMAIN Stages

-----------------------------------------------------------------------------
\* run_pipeline: a repository that is not there fails without a gate.
StartRun ==
  /\ ~ Busy /\ Len(runs) < MaxRuns
  /\ \E stage \in {1, Failed} :
       runs' = Append(runs, [stage |-> stage, gates |-> NoGates, pytest |-> "notRun"])

\* Three files, a test directory, and Python files.
Validate(results) ==
  \E python \in {"pass", "fail"}, others \in (SUBSET {"pass", "warn"}) \ {{}} :
    results = others \cup {python}

\* Fault: tests that run out of time are no failure.
TestLeniently(results, ended) ==
  \/ ended = "noTests" /\ results = {"skip"}
  \/ ended = "rc0" /\ results = {"pass"}
  \/ ended = "rc1" /\ results = {"fail"}
  \/ ended = "timeout" /\ results = {"warn"}

\* pytest in a subprocess: a timeout or an OSError is a FAIL as well.
Test(results, ended) ==
  \/ ended = "noTests" /\ results = {"skip"}
  \/ ended = "rc0" /\ results = {"pass"}
  \/ ended \in {"rc1", "timeout"} /\ results = {"fail"}

\* Seven gates, of which four look at the repository; none can fail.
Audit(results) == results \in {{"pass"}, {"pass", "warn"}}

Build(results) == results \in {{"pass"}, {"warn"}}

\* git status, and git log: SKIP when git cannot be run.
Deploy(results) == results \in {{"pass"}, {"warn"}, {"skip"}}
Verify(results) == results \in {{"pass"}, {"skip"}}

Gates(stage, results, ended) ==
  \/ Stages[stage] = "validate" /\ Validate(results)
  \/ Stages[stage] = "test" /\ Test(results, ended)
  \/ Stages[stage] = "audit" /\ Audit(results)
  \/ Stages[stage] = "build" /\ Build(results)
  \/ Stages[stage] = "deploy" /\ Deploy(results)
  \/ Stages[stage] = "verify" /\ Verify(results)

Results == SUBSET {"pass", "warn", "fail", "skip"}

\* A stage ends; whatever its gates say, the next one begins.
EndStage ==
  /\ Busy
  /\ LET s == Current.stage IN
       \E results \in Results, ended \in {"noTests", "rc0", "rc1", "timeout"} :
         /\ Gates(s, results, ended)
         /\ runs' = [runs EXCEPT ![Len(runs)] =
              [stage |-> s + 1,
               gates |-> [@.gates EXCEPT ![s] = results],
               pytest |-> IF Stages[s] = "test" THEN ended ELSE @.pytest]]

\* A look at the repository raises, some of the stage's gates recorded. What runs
\* pytest and git catches what it raises.
RaiseInStage ==
  /\ Busy
  /\ \E results \in SUBSET {"pass", "warn", "fail"} :
       /\ \/ Stages[Current.stage] = "validate"
          \/ Stages[Current.stage] = "audit" /\ "fail" \notin results
          \/ Stages[Current.stage] \in {"test", "build"} /\ results = {}
       /\ runs' = [runs EXCEPT ![Len(runs)] =
            [@ EXCEPT !.stage = Failed, !.gates[Current.stage] = results]]

Next == StartRun \/ EndStage \/ RaiseInStage

Spec == Init /\ [][Next]_vars

-----------------------------------------------------------------------------
(* all_gates_pass. A report calls a run passed for its stage alone.        *)
AllGatesPass(run) == \A s \in DOMAIN run.gates : run.gates[s] \subseteq {"pass", "warn"}

(* Properties.                                                             *)

(* A gate that fails stops nothing, a missing gate fails nothing, and a run *)
(* that raised may have only good gates: still, a run reported complete     *)
(* with all its gates passed had its tests run to the end, with exit code   *)
(* 0, and every stage before and after recorded a gate.                     *)
GreenMeansTested ==
  \A i \in DOMAIN runs :
    runs[i].stage = Complete /\ AllGatesPass(runs[i]) =>
      /\ runs[i].pytest = "rc0"
      /\ \A s \in DOMAIN Stages : runs[i].gates[s] # {}
=============================================================================
