--------------------------- MODULE IncidentResponse ---------------------------
(***************************************************************************)
(* IncidentResponse (security/incident_autoresponse.py): playbooks are     *)
(* lists of steps; execute runs one over the context of an incident, with  *)
(* an audit trail. Every step that returns reports success, so the         *)
(* rollback is never taken; a step that meets None in its context raises,  *)
(* and the exception leaves execute as it stands.                          *)
(***************************************************************************)
EXTENDS Naturals, Sequences, SequencesExt

CONSTANTS
  Custom,         \* step lists clients register, also over the default
  MaxExecutions   \* bound

PlaybookStep == {"DETECT", "ISOLATE", "ANALYZE", "REMEDIATE", "RECOVER", "REPORT"}

Default == <<"DETECT", "ISOLATE", "ANALYZE", "REMEDIATE", "RECOVER", "REPORT">>

\* What a client finds under a name: steps, or no playbook.
Unknown == <<"unknown">>

VARIABLES
  playbook,    \* the steps under the one name that is followed
  dryRun,      \* the responder's flag
  trail,       \* audit entries of the last execution
  wasDry,      \* whether that execution was a dry run
  executions, logged, failed, raised   \* counters, the last two of callers

vars == <<playbook, dryRun, trail, wasDry, executions, logged, failed, raised>>

Init == /\ playbook \in {Default, Unknown} /\ dryRun \in BOOLEAN
        /\ trail = <<>> /\ wasDry = FALSE
        /\ executions = 0 /\ logged = 0 /\ failed = 0 /\ raised = 0

-----------------------------------------------------------------------------
\* None as the affected zones, or as the threat level, of a real run.
Raises(step, context, dry) ==
  /\ ~ dry
  /\ \/ step \in {"ISOLATE", "RECOVER"} /\ context.zones = "None"
     \/ step \in {"ANALYZE", "REMEDIATE"} /\ context.threat = "None"

\* Fault: a dry run isolates.
IsolatedAnyway(step, context, dry) ==
  IF step = "ISOLATE" /\ context.zones = "some" THEN <<"ISOLATED">> ELSE <<>>

Isolated(step, context, dry) ==
  IF step = "ISOLATE" /\ context.zones = "some" /\ ~ dry THEN <<"ISOLATED">> ELSE <<>>

\* The entries of the steps before the one that raises, if any.
Steps(context, dry) ==
  LET ok == SelectInSeq(playbook, LAMBDA s : Raises(s, context, dry))
      done == IF ok = 0 THEN playbook ELSE SubSeq(playbook, 1, ok - 1)
  IN FlattenSeq([i \in DOMAIN done |-> Isolated(done[i], context, dry) \o <<done[i]>>])

Execute == \E zones \in {"some", "none", "None"}, threat \in {"high", "None"}, dry \in BOOLEAN :
  LET context == [zones |-> zones, threat |-> threat]
      isDry == dryRun \/ dry
      isKnown == playbook # Unknown
      ends == isKnown /\ \A i \in DOMAIN playbook : ~ Raises(playbook[i], context, isDry)
  IN /\ executions < MaxExecutions
     /\ executions' = executions + 1
     /\ trail' = <<"EXECUTE_START">>
                   \o (IF isKnown THEN Steps(context, isDry) ELSE <<"EXECUTE_FAILED">>)
                   \o (IF ends THEN <<"EXECUTE_COMPLETE">> ELSE <<>>)
     /\ wasDry' = isDry
     /\ logged' = logged + (IF ends THEN 1 ELSE 0)
     /\ failed' = failed + (IF isKnown THEN 0 ELSE 1)
     /\ raised' = raised + (IF isKnown /\ ~ ends THEN 1 ELSE 0)
     /\ UNCHANGED <<playbook, dryRun>>

RegisterPlaybook == /\ playbook' \in Custom
                    /\ UNCHANGED <<dryRun, trail, wasDry, executions, logged, failed, raised>>

SetDryRun == /\ dryRun' = ~ dryRun
             /\ UNCHANGED <<playbook, trail, wasDry, executions, logged, failed, raised>>

Next == Execute \/ RegisterPlaybook \/ SetDryRun

Spec == Init /\ [][Next]_vars

-----------------------------------------------------------------------------
(* Properties.                                                             *)

(* The trail tells how an execution went: every one is completed and       *)
(* logged, of no playbook, or broken off by an exception; one that is a dry *)
(* run by either flag ends and isolates nothing; and a zone is isolated     *)
(* only if the step that does it is recorded after it.                      *)
TrailTellsAll ==
  /\ executions = logged + failed + raised
  /\ (wasDry => ~ Contains(trail, "ISOLATED")
               /\ Last(trail) \in {"EXECUTE_COMPLETE", "EXECUTE_FAILED"})
  /\ \A i \in DOMAIN trail : trail[i] = "ISOLATED" => i < Len(trail) /\ trail[i + 1] = "ISOLATE"

=============================================================================
