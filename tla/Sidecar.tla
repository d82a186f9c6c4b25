-------------------------------- MODULE Sidecar --------------------------------
(***************************************************************************)
(* The shadow memory of MastermindSidecar (mastermind_sidecar.py): a JSON  *)
(* file that every sidecar of a directory reads, merges one key into and   *)
(* writes back, without a lock. Each sidecar is a process that can die at  *)
(* any point.                                                              *)
(*                                                                         *)
(* write_text empties the file and then writes it; in between, and after   *)
(* a crash there, it cannot be decoded: it is empty, or has part of a text *)
(* or parts of two. Values are numbered in the order the updates begin; 0  *)
(* is a key that is not in the file. Its own last_updated key, the health  *)
(* log and the task queue are left out.                                    *)
(***************************************************************************)
EXTENDS Naturals

CONSTANTS
  Sidecars,
  Keys,
  MaxUpdates   \* bound: updates in a behaviour

VARIABLES
  file,       \* the memory in the file, or Empty, or Unreadable
  phase,      \* where each sidecar is in update_shadow_memory
  key,        \* the key it updates
  memory,     \* the memory it read, with its key merged in
  updates,    \* updates begun
  reading,    \* what get_shadow_memory last answered
  stored,     \* history: what undisturbed updates have put into the file
  disturbed,  \* history: an overlap or a crash, and no quiet update since
  newest      \* history: the key the last write of the file was for, and its value

history == <<stored, disturbed, newest>>
vars == <<file, phase, key, memory, updates, reading, history>>

Nothing == [k \in Keys |-> 0]   \* no file, or an empty object
Memories == [Keys -> 0 .. MaxUpdates]

\* A file that does not decode; no memory has these values.
Empty == [k \in Keys |-> MaxUpdates + 1]
Unreadable == [k \in Keys |-> MaxUpdates + 2]

Init ==
  /\ file = Nothing
  /\ phase = [s \in Sidecars |-> "idle"]
  /\ key \in {[s \in Sidecars |-> k] : k \in Keys}
  /\ memory = [s \in Sidecars |-> Nothing]
  /\ updates = 0 /\ reading = Nothing
  /\ stored = Nothing /\ disturbed = FALSE /\ newest = [key |-> "none", value |-> 0]

Quiet == \A s \in Sidecars : phase[s] = "idle"
Others(s) == \E q \in Sidecars \ {s} : phase[q] # "idle"

-----------------------------------------------------------------------------
\* Fault: what the file holds is not read.
Blank == Nothing

\* The memory an update starts from: nothing, when the file does not decode.
Decoded == IF file \in {Empty, Unreadable} THEN Nothing ELSE file

Read(s) ==
  /\ phase[s] = "idle" /\ updates < MaxUpdates
  /\ updates' = updates + 1
  /\ \E k \in Keys :
       /\ key' = [key EXCEPT ![s] = k]
       /\ memory' = [memory EXCEPT ![s] = [Decoded EXCEPT ![k] = updates']]
  /\ phase' = [phase EXCEPT ![s] = "merged"]
  /\ disturbed' = (disturbed \/ Others(s))
  /\ UNCHANGED <<file, reading, stored, newest>>

\* write_text opens the file.
Truncate(s) ==
  /\ phase[s] = "merged"
  /\ file' = Empty
  /\ phase' = [phase EXCEPT ![s] = "writing"]
  /\ UNCHANGED <<key, memory, updates, reading, history>>

(* It writes from the start of the file; over what another sidecar wrote    *)
(* meanwhile, whole or in part, a shorter text leaves the end of that one.  *)
Write(s) ==
  /\ phase[s] = "writing"
  /\ file' \in {memory[s]} \cup (IF file = Empty THEN {} ELSE {Unreadable})
  /\ phase' = [phase EXCEPT ![s] = "idle"]
  /\ memory' = [memory EXCEPT ![s] = Nothing]
  /\ LET k == key[s]  v == memory[s][k] IN
       /\ newest' = [key |-> k, value |-> v]
       /\ stored' = IF disturbed THEN Decoded' ELSE [stored EXCEPT ![k] = v]
  /\ disturbed' = (file' = Unreadable \/ Others(s))
  /\ UNCHANGED <<key, updates, reading>>

\* The process dies, or the disk is full: part of the text may be written.
Crash(s) ==
  /\ phase[s] # "idle"
  /\ phase' = [phase EXCEPT ![s] = "idle"]
  /\ memory' = [memory EXCEPT ![s] = Nothing]
  /\ file' \in {file} \cup (IF phase[s] = "writing" THEN {Unreadable} ELSE {})
  /\ disturbed' = (disturbed \/ phase[s] = "writing")
  /\ UNCHANGED <<key, updates, reading, stored, newest>>

\* get_shadow_memory: None when the file does not decode.
Get ==
  /\ reading' = file
  /\ UNCHANGED <<file, phase, key, memory, updates, history>>

Next == Get \/ \E s \in Sidecars : Read(s) \/ Truncate(s) \/ Write(s) \/ Crash(s)

Spec == Init /\ [][Next]_vars

-----------------------------------------------------------------------------
(* Properties.                                                             *)

TypeOK ==
  /\ {file, reading} \subseteq Memories \cup {Empty, Unreadable}
  /\ phase \in [Sidecars -> {"idle", "merged", "writing"}]
  /\ memory \in [Sidecars -> Memories] /\ stored \in Memories
  /\ updates \in 0 .. MaxUpdates /\ disturbed \in BOOLEAN

(* "Maintain local shadow memory": every key that was updated keeps its     *)
(* value in the file, unless updates of two sidecars overlapped or one died *)
(* while it wrote; and whatever overlapped, once all is quiet a file that   *)
(* decodes, with no crash since, has the update that was written last.      *)
UpdatesKept ==
  Quiet => /\ ~ disturbed => file = stored
           /\ file \notin {Empty, Unreadable} /\ newest.value > 0 =>
                file[newest.key] = newest.value
=============================================================================
