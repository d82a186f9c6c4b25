------------------------------- MODULE Microcode -------------------------------
(***************************************************************************)
(* The microcode tables (microcode/): HotPatcher applies and rolls back    *)
(* versions, FirmwareMatrix records which versions are current and latest, *)
(* DriverCompatibility which combinations work. They share no data: a      *)
(* patch does not reach the matrix.                                        *)
(*                                                                         *)
(* Versions are numbers that stand for names; 0 is "not registered". CUDA  *)
(* and driver version are one name, a combination.                         *)
(***************************************************************************)
EXTENDS Naturals, Sequences, FiniteSets

CONSTANTS
  Components, Versions,
  Combinations, Gpus,
  MaxPatches, MaxRecords   \* bounds: patches, compatibility records

VARIABLES
  active,        \* HotPatcher._active_versions
  patches,       \* HotPatcher._patch_history
  matrix,        \* FirmwareMatrix._entries
  alarms,        \* components the last tick of the matrix called critical
  records,       \* DriverCompatibility._entries
  incompatible,  \* DriverCompatibility._incompatible
  base,          \* history: version a component was registered with
  orderly        \* history: its patches were undone newest first

patcher == <<active, patches, base, orderly>>
firmware == <<matrix, alarms>>
drivers == <<records, incompatible>>
vars == <<patcher, firmware, drivers>>

Unregistered == [current |-> 0, latest |-> 0, critical |-> FALSE]

Init ==
  /\ active = [c \in Components |-> 0] /\ patches = <<>>
  /\ base = [c \in Components |-> 0] /\ orderly = [c \in Components |-> TRUE]
  /\ matrix = [c \in Components |-> Unregistered] /\ alarms = {}
  /\ records = <<>> /\ incompatible = {}

-----------------------------------------------------------------------------
(* HotPatcher.                                                             *)

\* The patches of a component that are not rolled back.
Standing(c) == {i \in DOMAIN patches : patches[i].component = c /\ ~ patches[i].rolledBack}

\* register_component, also again over patches that stand.
RegisterComponent(c, v) ==
  /\ active' = [active EXCEPT ![c] = v]
  /\ base' = [base EXCEPT ![c] = v]
  /\ orderly' = [orderly EXCEPT ![c] = Standing(c) = {}]
  /\ UNCHANGED patches

ApplyPatch(c, v) ==
  /\ active[c] # 0 /\ Len(patches) < MaxPatches
  /\ active' = [active EXCEPT ![c] = v]
  /\ patches' = Append(patches, [component |-> c, before |-> active[c], after |-> v,
                                 rolledBack |-> FALSE])
  /\ UNCHANGED <<base, orderly>>

\* Fault: the version restored is the one the patch brought.
RestoredAfter(patch) == patch.after

\* The version a rollback restores.
Restored(patch) == patch.before

\* rollback, of any patch that was not rolled back yet.
Rollback(i) ==
  LET c == patches[i].component IN
  /\ ~ patches[i].rolledBack
  /\ active' = [active EXCEPT ![c] = Restored(patches[i])]
  /\ patches' = [patches EXCEPT ![i].rolledBack = TRUE]
  /\ orderly' = [orderly EXCEPT ![c] = @ /\ \A j \in Standing(c) : j <= i]
  /\ UNCHANGED base

Patch ==
  /\ \/ \E c \in Components, v \in Versions : RegisterComponent(c, v) \/ ApplyPatch(c, v)
     \/ \E i \in DOMAIN patches : Rollback(i)
  /\ UNCHANGED <<firmware, drivers>>

-----------------------------------------------------------------------------
(* FirmwareMatrix.                                                         *)

HasUpdate(entry) == entry.current # entry.latest

\* check_critical. check_updates is the same without the flag.
Critical == {c \in Components : HasUpdate(matrix[c]) /\ matrix[c].critical}

\* register replaces the entry of the component.
RegisterFirmware ==
  /\ \E c \in Components, v, w \in Versions, critical \in BOOLEAN :
       matrix' = [matrix EXCEPT ![c] =
                    [current |-> v, latest |-> w, critical |-> critical]]
  /\ UNCHANGED <<patcher, alarms, drivers>>

TickFirmware == alarms' = Critical /\ UNCHANGED <<patcher, matrix, drivers>>

-----------------------------------------------------------------------------
(* DriverCompatibility.                                                    *)

\* Fault: the last record of a combination decides.
FindLast(combination) ==
  {i \in DOMAIN records : /\ records[i].of = combination
                          /\ \A j \in DOMAIN records :
                               records[j].of = combination => j <= i}

\* _find_entry: the first record of the combination, if there is one.
FindEntry(combination) ==
  {i \in DOMAIN records : /\ records[i].of = combination
                          /\ \A j \in 1 .. i - 1 : records[j].of # combination}

\* check: compatible also when nothing is known, then with a warning.
Compatible(combination, gpu) ==
  /\ <<combination, gpu>> \notin incompatible
  /\ \A i \in FindEntry(combination) : gpu \in records[i].gpus

RegisterRecord ==
  /\ Len(records) < MaxRecords
  /\ \E combination \in Combinations, gpus \in SUBSET Gpus :
       records' = Append(records, [of |-> combination, gpus |-> gpus])
  /\ UNCHANGED <<patcher, firmware, incompatible>>

RegisterIncompatible ==
  /\ \E combination \in Combinations, gpu \in Gpus :
       incompatible' = incompatible \cup {<<combination, gpu>>}
  /\ UNCHANGED <<patcher, firmware, records>>

Next == Patch \/ RegisterFirmware \/ TickFirmware \/ RegisterRecord \/ RegisterIncompatible

Spec == Init /\ [][Next]_vars

-----------------------------------------------------------------------------
(* Properties.                                                             *)

TypeOK ==
  /\ active \in [Components -> Versions \cup {0}]
  /\ \A i \in DOMAIN patches : patches[i].component \in Components
                            /\ {patches[i].before, patches[i].after} \subseteq Versions
  /\ \A c \in Components : {matrix[c].current, matrix[c].latest} \subseteq Versions \cup {0}
  /\ alarms \subseteq Components
  /\ incompatible \subseteq Combinations \X Gpus

(* While a component's patches are undone newest first, and it is not      *)
(* registered anew over them, it runs what its newest standing patch        *)
(* brought, or what it was registered with: any number of patches and       *)
(* rollbacks of several components can come in between. (Undone in another  *)
(* order, a version that was already replaced comes back.)                  *)
RollbackUndoes ==
  \A c \in Components : orderly[c] =>
    IF Standing(c) = {} THEN active[c] = base[c]
    ELSE \E i \in Standing(c) : /\ \A j \in Standing(c) : j <= i
                                /\ active[c] = patches[i].after

(* A verdict is settled by the first record of its combination: later       *)
(* records do not change it, and a combination once found incompatible is   *)
(* never compatible again.                                                  *)
VerdictStands ==
  [][\A combination \in Combinations, gpu \in Gpus :
       /\ ~ Compatible(combination, gpu) => ~ Compatible(combination, gpu)'
       /\ (FindEntry(combination) # {} /\ incompatible' = incompatible)
            => Compatible(combination, gpu)' = Compatible(combination, gpu)]_drivers
=============================================================================
