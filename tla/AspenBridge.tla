------------------------------ MODULE AspenBridge ------------------------------
(***************************************************************************)
(* AspenBridge (memory/aspen_bridge.py): every tick is kept in a hot list  *)
(* and appended as a line to the warm file, which is renamed when it grows *)
(* too large. A process that starts loads the hot list from the warm file. *)
(* The CLI's run and tick commands and the gateway make a bridge each, so  *)
(* several processes share the files, and each can die at any point.       *)
(*                                                                         *)
(* A step makes one call that other processes can see: stat, rename, open, *)
(* write, read. What is open stays open when its name moves on, so a file  *)
(* is an object of its own, numbered by the tick whose open created it,    *)
(* and warm and archives say which file has a name. Making an entry is     *)
(* seen by its process alone, so it is one step with the open after it,    *)
(* and ticks are numbered in the order of their opens. A line is the       *)
(* number of its tick, or Torn when it cannot be decoded.                  *)
(*                                                                         *)
(* The anomaly and decision files, written alike and never loaded, are     *)
(* left out, but for what their rotation can do to a tick.                 *)
(***************************************************************************)
EXTENDS Naturals, Sequences, FiniteSets, SequencesExt

CONSTANTS
  Processes,
  MaxHot,       \* max_hot
  MaxLines,     \* lines that make the warm file larger than max_bytes
  MaxTicks,     \* bound: ticks made in a behaviour
  MaxTorn,      \* bound: appends cut short
  MaxSeconds    \* bound: seconds of the clock that names rotated files

ASSUME BridgeAssumption ==
  /\ IsFiniteSet(Processes)
  /\ MaxHot \in Nat \ {0} /\ MaxLines \in Nat \ {0}
  /\ MaxTicks \in Nat /\ MaxTorn \in Nat /\ MaxSeconds \in Nat

VARIABLES
  lines,      \* file -> its lines
  cut,        \* file -> its last line has no newline
  warm,       \* the file named tick_archive.jsonl, or None
  archives,   \* second -> the file renamed to a name with it, or None
  now,        \* the clock, in seconds
  phase,      \* where each process is in __init__ or persist_tick
  stamp,      \* the second its _rotate_file took for the new name, else 0
  fd,         \* the file it has open, or None
  entry,      \* the tick it is about to write, else 0
  hot,        \* AspenBridge._hot
  madeBy,     \* history: the process that made each tick
  stored,     \* history: ticks whose line was written to its end
  torn,       \* history: appends that were cut short
  replaced    \* history: files whose name a later rename took

disk == <<lines, cut, warm, archives>>
local == <<phase, stamp, fd, entry, hot>>
history == <<madeBy, stored, torn, replaced>>
vars == <<disk, now, local, history>>

Torn == 0
None == 0
Files == 1 .. MaxTicks
Seconds == 0 .. MaxSeconds
ticks == Len(madeBy)

\* The lines that decode, in their order.
Decoded(list) ==
  LET kept[i \in 0 .. Len(list)] ==
        IF i = 0 THEN <<>>
        ELSE IF list[i] = Torn THEN kept[i - 1] ELSE Append(kept[i - 1], list[i])
  IN  kept[Len(list)]

Init ==
  /\ lines = [f \in Files |-> <<>>] /\ cut = [f \in Files |-> FALSE]
  /\ warm = None /\ archives = [s \in Seconds |-> None]
  /\ now = 0
  /\ phase = [p \in Processes |-> "down"]
  /\ stamp = [p \in Processes |-> 0]
  /\ fd = [p \in Processes |-> None]
  /\ entry = [p \in Processes |-> 0]
  /\ hot = [p \in Processes |-> <<>>]
  /\ madeBy = <<>> /\ stored = {} /\ torn = 0 /\ replaced = {}

-----------------------------------------------------------------------------
(* The hot list.                                                           *)

LastOf(list, n) ==
  SubSeq(list, IF Len(list) > n THEN Len(list) - n + 1 ELSE 1, Len(list))

\* Fault: reading ends at the first line that does not decode.
LoadedUntilTorn(f) ==
  LET bad == {i \in DOMAIN lines[f] : lines[f][i] = Torn}
      end == IF bad = {} THEN Len(lines[f])
             ELSE (CHOOSE i \in bad : \A j \in bad : i <= j) - 1
  IN  LastOf(SubSeq(lines[f], 1, end), MaxHot)

\* _load_warm: lines that do not decode are skipped.
Loaded(f) == LastOf(Decoded(lines[f]), MaxHot)

\* Fault: the list is never trimmed.
RememberAll(list, tick) == Append(list, tick)

\* An overflowing list keeps its newer half, _hot[-max_hot // 2:].
Remember(list, tick) ==
  LET longer == Append(list, tick)
  IN  IF Len(longer) > MaxHot THEN LastOf(longer, (MaxHot + 1) \div 2) ELSE longer

-----------------------------------------------------------------------------
(* Starting: __init__.                                                     *)

\* exists and open of _load_warm; a file renamed in between stops the start.
Start(p) ==
  /\ phase[p] = "down"
  /\ phase' = [phase EXCEPT ![p] = IF warm = None THEN "up" ELSE "loading"]
  /\ fd' = [fd EXCEPT ![p] = warm]
  /\ UNCHANGED <<disk, now, stamp, entry, hot, history>>

\* It reads what it has open, whatever its name is by now.
Load(p) ==
  /\ phase[p] = "loading"
  /\ phase' = [phase EXCEPT ![p] = "up"]
  /\ hot' = [hot EXCEPT ![p] = Loaded(fd[p])]
  /\ fd' = [fd EXCEPT ![p] = None]
  /\ UNCHANGED <<disk, now, stamp, entry, history>>

-----------------------------------------------------------------------------
(* persist_tick.                                                           *)

TooLarge == warm # None /\ Len(lines[warm]) >= MaxLines

\* _rotate_file finds the file small enough, or too large and reads the clock.
Look(p) ==
  /\ phase[p] = "up"
  /\ \/ /\ TooLarge
        /\ phase' = [phase EXCEPT ![p] = "rotating"]
        /\ stamp' = [stamp EXCEPT ![p] = now]
     \/ /\ ~ TooLarge /\ ticks < MaxTicks
        /\ phase' = [phase EXCEPT ![p] = "ready"]
        /\ UNCHANGED stamp
  /\ UNCHANGED <<disk, now, fd, entry, hot, history>>

\* Fault: the file is copied and keeps its lines.
CopyAway(s) ==
  /\ archives' = [archives EXCEPT ![s] = ticks]
  /\ lines' = [lines EXCEPT ![ticks] = lines[warm]]
  /\ UNCHANGED <<warm, cut>>

\* path.rename, to a name with second s in it, of which there may be a file.
MoveAway(s) ==
  /\ archives' = [archives EXCEPT ![s] = warm]
  /\ warm' = None
  /\ UNCHANGED <<lines, cut>>

\* The rename raises if another process has renamed first.
Rename(p) ==
  /\ phase[p] = "rotating"
  /\ \/ /\ warm # None
        /\ MoveAway(stamp[p])
        /\ replaced' = replaced \cup ({archives[stamp[p]]} \ {None})
        /\ phase' = [phase EXCEPT ![p] = "ready"]
     \/ /\ warm = None
        /\ phase' = [phase EXCEPT ![p] = "up"]
        /\ UNCHANGED <<disk, replaced>>
  /\ stamp' = [stamp EXCEPT ![p] = 0]
  /\ UNCHANGED <<now, fd, entry, hot, madeBy, stored, torn>>

\* Rotating the anomaly or decision file raises: the tick is not remembered.
OtherRotationFails(p) ==
  /\ phase[p] = "ready"
  /\ phase' = [phase EXCEPT ![p] = "up"]
  /\ UNCHANGED <<disk, now, stamp, fd, entry, hot, history>>

(* The entry is remembered, then the warm file opened to append, and made   *)
(* if there is none. An open that raises leaves the tick in the hot list.   *)
Open(p) ==
  /\ phase[p] = "ready" /\ ticks < MaxTicks
  /\ madeBy' = Append(madeBy, p)
  /\ hot' = [hot EXCEPT ![p] = Remember(@, ticks + 1)]
  /\ \/ /\ warm' = IF warm = None THEN ticks + 1 ELSE warm
        /\ fd' = [fd EXCEPT ![p] = warm']
        /\ entry' = [entry EXCEPT ![p] = ticks + 1]
        /\ phase' = [phase EXCEPT ![p] = "writing"]
     \/ /\ phase' = [phase EXCEPT ![p] = "up"]
        /\ UNCHANGED <<warm, fd, entry>>
  /\ UNCHANGED <<lines, cut, archives, now, stamp, stored, torn, replaced>>

\* Fault: the file is opened to be written anew.
Overwritten(f, line) == <<line>>

\* An append meets a line without newline: the two are one that is no JSON.
Extended(f, line) ==
  IF cut[f] THEN [lines[f] EXCEPT ![Len(lines[f])] = Torn] ELSE Append(lines[f], line)

\* The buffer is written when the file is closed: one append, to what is open.
Write(p) ==
  /\ phase[p] = "writing"
  /\ lines' = [lines EXCEPT ![fd[p]] = Extended(fd[p], entry[p])]
  /\ cut' = [cut EXCEPT ![fd[p]] = FALSE]
  /\ stored' = stored \cup {entry[p]}
  /\ phase' = [phase EXCEPT ![p] = "up"]
  /\ fd' = [fd EXCEPT ![p] = None]
  /\ entry' = [entry EXCEPT ![p] = 0]
  /\ UNCHANGED <<warm, archives, now, stamp, hot, madeBy, torn, replaced>>

(* The append is cut short, perhaps only by its newline. The process goes   *)
(* on without this tick in the file (tick_cycle logs the error), or dies.   *)
Tear(p) ==
  /\ phase[p] = "writing" /\ torn < MaxTorn
  /\ \E line \in {Torn, entry[p]} :
       lines' = [lines EXCEPT ![fd[p]] = Extended(fd[p], line)]
  /\ cut' = [cut EXCEPT ![fd[p]] = TRUE]
  /\ torn' = torn + 1
  /\ phase' = [phase EXCEPT ![p] = "up"]
  /\ fd' = [fd EXCEPT ![p] = None]
  /\ entry' = [entry EXCEPT ![p] = 0]
  /\ UNCHANGED <<warm, archives, now, stamp, hot, madeBy, stored, replaced>>

\* The process dies between two calls, or its start fails.
Crash(p) ==
  /\ phase[p] # "down"
  /\ phase' = [phase EXCEPT ![p] = "down"]
  /\ stamp' = [stamp EXCEPT ![p] = 0]
  /\ fd' = [fd EXCEPT ![p] = None]
  /\ entry' = [entry EXCEPT ![p] = 0]
  /\ hot' = [hot EXCEPT ![p] = <<>>]
  /\ UNCHANGED <<disk, now, history>>

\* The clock moves when somebody is about to read it; who does not, cannot tell.
SecondPasses ==
  /\ now < MaxSeconds
  /\ TooLarge /\ \E p \in Processes : phase[p] = "up"
  /\ now' = now + 1
  /\ UNCHANGED <<disk, local, history>>

-----------------------------------------------------------------------------
Next == \/ SecondPasses
        \/ \E p \in Processes :
             \/ Start(p) \/ Load(p) \/ Look(p) \/ Rename(p) \/ OtherRotationFails(p)
             \/ Open(p) \/ Write(p) \/ Tear(p) \/ Crash(p)

Spec == Init /\ [][Next]_vars

-----------------------------------------------------------------------------
(* Properties.                                                             *)

(* Every field holds a value the code can give it, and the hot list never   *)
(* has more than max_hot ticks (persist_tick, _load_warm).                  *)
TypeOK ==
  /\ lines \in [Files -> Seq(0 .. ticks)]
  /\ cut \in [Files -> BOOLEAN]
  /\ \A f \in Files : cut[f] => lines[f] # <<>>
  /\ warm \in 0 .. ticks /\ archives \in [Seconds -> 0 .. ticks]
  /\ now \in Seconds
  /\ phase \in [Processes -> {"down", "loading", "up", "rotating", "ready", "writing"}]
  /\ stamp \in [Processes -> 0 .. now]
  /\ fd \in [Processes -> 0 .. ticks] /\ entry \in [Processes -> 0 .. ticks]
  /\ hot \in [Processes -> Seq(1 .. ticks)]
  /\ \A p \in Processes : Len(hot[p]) <= MaxHot
  /\ madeBy \in Seq(Processes) /\ ticks <= MaxTicks
  /\ stored \subseteq 1 .. ticks /\ torn \in 0 .. MaxTorn
  /\ replaced \subseteq 1 .. ticks

\* The files that still have a name.
Named == ({warm} \cup {archives[s] : s \in Seconds}) \ {None}

In(files) == UNION {ToSet(lines[f]) : f \in files}

(* "Warm - JSONL log files (persistent, queryable)": a tick that was        *)
(* written stays in a file that has a name, whatever is renamed while it    *)
(* is written. Each append cut short spoils at most the one written after   *)
(* it in its file, and a rename replaces the file renamed in that second,   *)
(* with what is still being written to it.                                  *)
LossIsAccounted == Cardinality(stored \ In(Named \cup replaced)) <= torn

\* Line i of file f was there before line j of g.
Before(f, i, g, j) == f < g \/ (f = g /\ i < j)

(* No tick is read twice, and those of a process are in the order it made   *)
(* them, from line to line and from file to file: whichever processes       *)
(* append and rotate, also when a file is renamed between an open and its    *)
(* write. (In a file, ticks of two processes can be in either order, and    *)
(* the names of rotated files too: the clock is read before the rename.)    *)
TicksOnceInOrder ==
  \A f \in Files : \A i \in DOMAIN lines[f] : \A g \in Files : \A j \in DOMAIN lines[g] :
    LET n == lines[f][i]
        m == lines[g][j]
    IN  Before(f, i, g, j) /\ n # Torn /\ m # Torn /\ madeBy[n] = madeBy[m] => n < m

(* A restart recovers the newest ticks without a gap, late writes to old    *)
(* files or not: for each process, every later tick than one that is loaded *)
(* is loaded too, unless no file has it but one made since the read file.   *)
(* A file with a tick in it is never loaded as empty.                       *)
RestartRecoversTail ==
  [][\A p \in Processes :
       phase[p] = "loading" /\ phase'[p] = "up" =>
         LET list == ToSet(hot'[p]) IN
         /\ list = {} => ToSet(lines[fd[p]]) \subseteq {Torn}
         /\ \A n \in list, m \in In(1 .. fd[p]) \ {Torn} :
              madeBy[m] = madeBy[n] /\ m > n => m \in list]_vars
=============================================================================
