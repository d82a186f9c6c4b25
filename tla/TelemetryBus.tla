----------------------------- MODULE TelemetryBus -----------------------------
(***************************************************************************)
(* TelemetryBus (core/colossus_orchestrator.py): threads emit into one     *)
(* bounded buffer without a lock. A thread may be switched between any two *)
(* reads and writes of the bus's fields; append and a slice are atomic.    *)
(*                                                                         *)
(* self._buffer names a list object: trimming makes a new list, and a      *)
(* thread that has fetched the old one still appends to that. Handlers are *)
(* left out: what they raise is caught, and they see the event itself.     *)
(***************************************************************************)
EXTENDS Naturals, Sequences, FiniteSets, SequencesExt

CONSTANTS
  Threads,
  MaxBuffer,   \* max_buffer
  PerThread    \* bound: events a thread emits

VARIABLES
  count,     \* self._event_count
  lists,     \* the list objects made so far
  current,   \* the one self._buffer names
  at,        \* where each thread is in emit
  emitted,   \* events each thread has begun
  seq,       \* "seq" of its event
  loaded,    \* the count it has loaded to add 1
  list       \* the list it has fetched, or the copy it has made; else 0

vars == <<count, lists, current, at, emitted, seq, loaded, list>>

Init ==
  /\ count = 0 /\ lists = <<<<>>>> /\ current = 1
  /\ at = [t \in Threads |-> "idle"]
  /\ emitted = [t \in Threads |-> 0]
  /\ seq = [t \in Threads |-> 0]
  /\ loaded = [t \in Threads |-> 0]
  /\ list = [t \in Threads |-> 0]

Buffer == lists[current]

Goes(t, from, to) == at[t] = from /\ at' = [at EXCEPT ![t] = to]

-----------------------------------------------------------------------------
(* emit, step by step.                                                     *)

BuildEvent(t) ==
  /\ emitted[t] < PerThread
  /\ Goes(t, "idle", "built")
  /\ emitted' = [emitted EXCEPT ![t] = @ + 1]
  /\ seq' = [seq EXCEPT ![t] = count]
  /\ UNCHANGED <<count, lists, current, loaded, list>>

LoadCount(t) ==
  /\ Goes(t, "built", "adding")
  /\ loaded' = [loaded EXCEPT ![t] = count]
  /\ UNCHANGED <<count, lists, current, emitted, seq, list>>

StoreCount(t) ==
  /\ Goes(t, "adding", "counted")
  /\ count' = loaded[t] + 1
  /\ loaded' = [loaded EXCEPT ![t] = 0]
  /\ UNCHANGED <<lists, current, emitted, seq, list>>

FetchBuffer(t) ==
  /\ Goes(t, "counted", "appending")
  /\ list' = [list EXCEPT ![t] = current]
  /\ UNCHANGED <<count, lists, current, emitted, seq, loaded>>

AppendEvent(t) ==
  /\ Goes(t, "appending", "checking")
  /\ lists' = [lists EXCEPT ![list[t]] =
       Append(@, [by |-> t, nr |-> emitted[t], seq |-> seq[t]])]
  /\ list' = [list EXCEPT ![t] = 0]
  /\ UNCHANGED <<count, current, emitted, seq, loaded>>

\* Fault: the buffer is trimmed one event too late.
TooLongLate(events) == Len(events) > MaxBuffer + 1

TooLong(events) == Len(events) > MaxBuffer

\* self._buffer is read, then measured; it may be no longer the buffer by then.
FetchToCheck(t) ==
  /\ Goes(t, "checking", "measuring")
  /\ list' = [list EXCEPT ![t] = current]
  /\ UNCHANGED <<count, lists, current, emitted, seq, loaded>>

\* The handlers are called last, and change nothing here.
CheckLength(t) ==
  /\ \/ Goes(t, "measuring", "trimming") /\ TooLong(lists[list[t]])
     \/ Goes(t, "measuring", "idle") /\ ~ TooLong(lists[list[t]])
  /\ list' = [list EXCEPT ![t] = 0]
  /\ UNCHANGED <<count, lists, current, emitted, seq, loaded>>

\* self._buffer is read again, then sliced.
FetchAgain(t) ==
  /\ Goes(t, "trimming", "slicing")
  /\ list' = [list EXCEPT ![t] = current]
  /\ UNCHANGED <<count, lists, current, emitted, seq, loaded>>

Newest(events) ==
  IF Len(events) <= MaxBuffer THEN events
  ELSE SubSeq(events, Len(events) - MaxBuffer + 1, Len(events))

Slice(t) ==
  /\ Goes(t, "slicing", "swapping")
  /\ lists' = Append(lists, Newest(lists[list[t]]))
  /\ list' = [list EXCEPT ![t] = Len(lists')]
  /\ UNCHANGED <<count, current, emitted, seq, loaded>>

SwapBuffer(t) ==
  /\ Goes(t, "swapping", "idle")
  /\ current' = list[t]
  /\ list' = [list EXCEPT ![t] = 0]
  /\ UNCHANGED <<count, lists, emitted, seq, loaded>>

Emit(t) == \/ BuildEvent(t) \/ LoadCount(t) \/ StoreCount(t) \/ FetchBuffer(t)
           \/ AppendEvent(t) \/ FetchToCheck(t) \/ CheckLength(t) \/ FetchAgain(t)
           \/ Slice(t) \/ SwapBuffer(t)

\* Every thread has emitted what it does in this behaviour.
Rest ==
  /\ \A t \in Threads : at[t] = "idle" /\ emitted[t] = PerThread
  /\ UNCHANGED vars

Next == Rest \/ \E t \in Threads : Emit(t)

Spec == Init /\ [][Next]_vars

-----------------------------------------------------------------------------
(* Properties.                                                             *)

TypeOK ==
  /\ current \in DOMAIN lists
  /\ at \in [Threads -> {"idle", "built", "adding", "counted", "appending",
                         "checking", "measuring", "trimming", "slicing", "swapping"}]
  /\ list \in [Threads -> 0 .. Len(lists)]
  /\ \A t \in Threads : /\ emitted[t] \in 0 .. PerThread
                        /\ seq[t] \in 0 .. PerThread * Cardinality(Threads)

\* Events by thread and number.
Begun(t) == {t} \X (1 .. emitted[t])
InBuffer == {<<e.by, e.nr>> : e \in ToSet(Buffer)}
Ended(t) == IF at[t] = "idle" THEN Begun(t) ELSE Begun(t) \ {<<t, emitted[t]>>}

(* However threads interleave: until more than max_buffer events have been  *)
(* emitted none is lost, as the concurrency test counts; when no emit is    *)
(* going on the buffer is within its limit; and the events of one thread    *)
(* stay in the order it emitted them. (A trim that meets an append may lose *)
(* the event, and sequence numbers may repeat.)                             *)
EventsKept ==
  /\ Cardinality(UNION {Begun(t) : t \in Threads}) <= MaxBuffer =>
       \A t \in Threads : Ended(t) \subseteq InBuffer
  /\ (\A t \in Threads : at[t] = "idle") => ~ Len(Buffer) > MaxBuffer
  /\ \A i, j \in DOMAIN Buffer :
       i < j /\ Buffer[i].by = Buffer[j].by => Buffer[i].nr < Buffer[j].nr
=============================================================================
