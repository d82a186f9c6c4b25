---------------------------- MODULE Services_proofs ----------------------------
(***************************************************************************)
(* Proofs about Services, for any coroutines, threads, limits, manifests   *)
(* and rates: runs end as they were asked to, whoever shares their flag;   *)
(* the telemetry bus keeps its events in order and within its limit; the   *)
(* gateway lets no more pass than its bucket; and an orchestrator runs and *)
(* records what it was asked to.                                           *)
(***************************************************************************)
EXTENDS Sequences, Services, Subsystems_proofs

-----------------------------------------------------------------------------
(* The timed loop.                                                         *)

(* A run whose flag was cleared under it knows of it; what it has left to   *)
(* do ends as "short" only then.                                            *)
Undisturbed == \A r \in Runners : Loop!Active(r) /\ ~ interrupted[r] => running


LoopInv == Loop!TypeOK /\ Undisturbed /\ Loop!RunsEndAsAsked

LEMMA LoopNumbers == MaxDuration \in Nat /\ LoopTicks \in Nat
BY ServicesAssumption

LEMMA LoopInit == Loop!Init => LoopInv
<1> SUFFICES ASSUME Loop!Init PROVE LoopInv
  OBVIOUS
<1>1. 0 \in 0 .. MaxDuration /\ 0 \in 0 .. LoopTicks
  BY LoopNumbers
<1> QED BY <1>1 DEF Loop!Init, LoopInv, Loop!TypeOK, Undisturbed,
     Loop!RunsEndAsAsked, Loop!Active

(* Every way a run ends: its finally clause leaves no flag set, and all     *)
(* others are interrupted.                                                  *)
LEMMA RunEnds ==
  ASSUME LoopInv, NEW r \in Runners, NEW how \in {"full", "short", "raised"}, Loop!End(r, how),
         how = "short" => interrupted[r]
  PROVE  LoopInv'
<1>1. 0 \in 0 .. MaxDuration
  BY LoopNumbers
<1> QED BY <1>1 DEF LoopInv, Loop!TypeOK, Undisturbed,
     Loop!RunsEndAsAsked, Loop!Active, Loop!End, Loop!Clear

LEMMA RunIterates ==
  ASSUME LoopInv, NEW r \in Runners, Loop!Active(r), Loop!Iterate(r)
  PROVE  LoopInv'
<1>1. CASE Loop!End(r, "full")
  BY <1>1, RunEnds
<1>2. CASE ~ running /\ Loop!End(r, "short")
  <2>1. interrupted[r]
    BY <1>2 DEF LoopInv, Loop!TypeOK, Undisturbed
  <2> QED BY <1>2, <2>1, RunEnds
<1>3. CASE /\ left[r] > 0 /\ running
           /\ Loop!BeginTick(r, left[r] - 1)
           /\ UNCHANGED <<running, interrupted, ended>>
  BY <1>3, LoopNumbers DEF LoopInv, Loop!TypeOK, Undisturbed,
     Loop!RunsEndAsAsked, Loop!Active, Loop!BeginTick
<1> QED BY <1>1, <1>2, <1>3 DEF Loop!Iterate

LEMMA LoopStep == LoopInv /\ [Loop!Next]_Loop!vars => LoopInv'
<1> SUFFICES ASSUME LoopInv, [Loop!Next]_Loop!vars PROVE LoopInv'
  OBVIOUS
<1>1. ASSUME NEW r \in Runners, Loop!Run(r) PROVE LoopInv'
  <2>1. CASE Loop!End(r, "full")
    BY <2>1, RunEnds
  <2>2. CASE \E n \in 1 .. MaxDuration :
               /\ Loop!BeginTick(r, n - 1)
               /\ Loop!SetFlag
               /\ interrupted' = [interrupted EXCEPT ![r] = FALSE]
               /\ ended' = [ended EXCEPT ![r] = "never"]
    BY <2>2, LoopNumbers DEF LoopInv, Loop!TypeOK, Undisturbed,
     Loop!RunsEndAsAsked, Loop!Active, Loop!BeginTick, Loop!SetFlag
  <2> QED BY <1>1, <2>1, <2>2 DEF Loop!Run
<1>2. ASSUME NEW r \in Runners, Loop!Return(r) PROVE LoopInv'
  <2>1. CASE Loop!Iterate(r)
    BY <1>2, <2>1, RunIterates DEF Loop!Return, Loop!Active
  <2>2. CASE /\ phase' = [phase EXCEPT ![r] = "sleeping"]
             /\ UNCHANGED <<running, tickCount, left, interrupted, ended>>
    BY <1>2, <2>2, LoopNumbers DEF LoopInv, Loop!TypeOK, Undisturbed,
     Loop!RunsEndAsAsked, Loop!Active, Loop!Return
  <2> QED BY <1>2, <2>1, <2>2 DEF Loop!Return
<1>3. ASSUME NEW r \in Runners, Loop!Wake(r) PROVE LoopInv'
  BY <1>3, RunIterates DEF Loop!Wake, Loop!Active
<1>4. ASSUME NEW r \in Runners, Loop!Raise(r) PROVE LoopInv'
  BY <1>4, RunEnds DEF Loop!Raise
<1>5. CASE Loop!Stop
  BY <1>5, LoopNumbers DEF LoopInv, Loop!TypeOK, Undisturbed,
     Loop!RunsEndAsAsked, Loop!Active, Loop!Stop
<1>6. CASE Loop!TickAlone \/ UNCHANGED Loop!vars
  BY <1>6, LoopNumbers DEF LoopInv, Loop!TypeOK, Undisturbed,
     Loop!RunsEndAsAsked, Loop!Active, Loop!TickAlone, Loop!vars
<1> QED BY <1>1, <1>2, <1>3, <1>4, <1>5, <1>6 DEF Loop!Next

-----------------------------------------------------------------------------
(* The telemetry bus: lists of events, whatever threads do to them. em[t]   *)
(* is the number of the last event of thread t, fresh the threads whose     *)
(* last event is in no list yet.                                            *)
Event == [by : Threads, nr : Nat, seq : Nat]
Steps == {"idle", "built", "adding", "counted", "appending",
          "checking", "measuring", "trimming", "slicing", "swapping"}

Sound(s, em, fresh) ==
  /\ \A i \in 1 .. Len(s) :
       /\ s[i].by \in Threads /\ s[i].nr \in Nat \ {0} /\ s[i].nr <= em[s[i].by]
       /\ s[i].by \in fresh => s[i].nr < em[s[i].by]
  /\ \A i, j \in 1 .. Len(s) : i < j /\ s[i].by = s[j].by => s[i].nr < s[j].nr

Emissions == [Threads -> 0 .. PerThread]

LEMMA BusNumbers == MaxBuffer \in Nat \ {0} /\ PerThread \in Nat /\ IsFiniteSet(Threads)
BY ServicesAssumption

LEMMA EmissionIsNat ==
  ASSUME NEW em \in Emissions, NEW t \in Threads PROVE em[t] \in Nat /\ em[t] <= PerThread
BY BusNumbers DEF Emissions

(* A list stays sound while threads go on,                                  *)
LEMMA SoundKept ==
  ASSUME NEW s, NEW em \in Emissions, NEW em2 \in Emissions, NEW fresh, NEW fresh2,
         Sound(s, em, fresh), \A t \in Threads : em[t] <= em2[t],
         \A t \in Threads : t \in fresh2 => t \in fresh \/ em[t] < em2[t]
  PROVE  Sound(s, em2, fresh2)
<1>1. \A t \in Threads : em[t] \in Nat /\ em2[t] \in Nat
  BY EmissionIsNat
<1>2. ASSUME NEW i \in 1 .. Len(s)
      PROVE  /\ s[i].by \in Threads /\ s[i].nr \in Nat \ {0} /\ s[i].nr <= em2[s[i].by]
             /\ s[i].by \in fresh2 => s[i].nr < em2[s[i].by]
  <2> PICK t : t = s[i].by
    OBVIOUS
  <2>1. t \in Threads /\ s[i].nr \in Nat \ {0} /\ s[i].nr <= em[t] /\ (t \in fresh => s[i].nr < em[t])
    BY DEF Sound
  <2>2. em[t] \in Nat /\ em2[t] \in Nat /\ em[t] <= em2[t]
    BY <1>1, <2>1
  <2> QED BY <2>1, <2>2
<1> QED BY <1>2 DEF Sound

(* when the last event of a thread is appended to it,                       *)
LEMMA SoundAppended ==
  ASSUME NEW s \in Seq(Event), NEW em \in Emissions, NEW fresh, NEW t \in fresh, NEW e \in Event,
         Sound(s, em, fresh), e.by = t, e.nr = em[t], em[t] # 0, NEW s2, s2 = Append(s, e)
  PROVE  Sound(s2, em, fresh \ {t})
<1>0. t \in Threads /\ em[t] \in Nat
  <2>1. t \in Threads
    BY DEF Event
  <2> QED BY <2>1, EmissionIsNat
<1>1. /\ Len(s2) = Len(s) + 1 /\ Len(s) \in Nat /\ s2[Len(s) + 1] = e
      /\ \A i \in 1 .. Len(s) : s2[i] = s[i]
  OBVIOUS
<1>2. \A i \in 1 .. Len(s2) : i \in 1 .. Len(s) \/ i = Len(s) + 1
  BY <1>1
<1>3. ASSUME NEW i \in 1 .. Len(s2)
      PROVE  /\ s2[i].by \in Threads /\ s2[i].nr \in Nat \ {0} /\ s2[i].nr <= em[s2[i].by]
             /\ s2[i].by \in fresh \ {t} => s2[i].nr < em[s2[i].by]
  <2>1. CASE i \in 1 .. Len(s)
    BY <1>1, <2>1 DEF Sound
  <2>2. CASE i = Len(s) + 1
    BY <1>0, <1>1, <2>2
  <2> QED BY <1>2, <2>1, <2>2
<1>4. ASSUME NEW i \in 1 .. Len(s2), NEW j \in 1 .. Len(s2), i < j, s2[i].by = s2[j].by
      PROVE  s2[i].nr < s2[j].nr
  <2>0. i \in 1 .. Len(s)
    BY <1>1, <1>2, <1>4
  <2>1. CASE j \in 1 .. Len(s)
    BY <1>1, <1>4, <2>0, <2>1 DEF Sound
  <2>2. CASE j = Len(s) + 1
    BY <1>0, <1>1, <1>4, <2>0, <2>2 DEF Sound
  <2> QED BY <1>2, <2>1, <2>2
<1> QED BY <1>3, <1>4 DEF Sound

(* and when its newest events are copied.                                   *)
LEMMA NewestEvents ==
  ASSUME NEW s \in Seq(Event)
  PROVE  /\ Bus!Newest(s) \in Seq(Event)
         /\ Len(Bus!Newest(s)) \in Nat /\ Len(Bus!Newest(s)) <= MaxBuffer
         /\ \E k \in Nat : \A i \in 1 .. Len(Bus!Newest(s)) :
              i + k \in 1 .. Len(s) /\ Bus!Newest(s)[i] = s[i + k]
<1>0. Len(s) \in Nat /\ MaxBuffer \in Nat \ {0}
  BY BusNumbers
<1>1. CASE Len(s) <= MaxBuffer
  <2>1. Bus!Newest(s) = s
    BY <1>1 DEF Bus!Newest
  <2>2. \A i \in 1 .. Len(s) : i + 0 \in 1 .. Len(s) /\ s[i] = s[i + 0]
    BY <1>0
  <2> QED BY <1>0, <1>1, <2>1, <2>2
<1>2. CASE Len(s) > MaxBuffer
  <2> PICK k : k = Len(s) - MaxBuffer
    OBVIOUS
  <2> PICK r : r = SubSeq(s, k + 1, Len(s))
    OBVIOUS
  <2>1. k \in Nat /\ k + MaxBuffer = Len(s) /\ k + 1 \in 1 .. Len(s)
    BY <1>0, <1>2
  <2>2. Bus!Newest(s) = r
    BY <1>0, <1>2 DEF Bus!Newest
  <2>3. r \in Seq(Event) /\ Len(r) = MaxBuffer
    BY <1>0, <2>1
  <2>4. \A i \in 1 .. MaxBuffer : i + k \in 1 .. Len(s) /\ r[i] = s[i + k]
    BY <1>0, <2>1
  <2>5. \A i \in 1 .. Len(Bus!Newest(s)) : i + k \in 1 .. Len(s) /\ Bus!Newest(s)[i] = s[i + k]
    BY <2>2, <2>3, <2>4
  <2>6. Bus!Newest(s) \in Seq(Event) /\ Len(Bus!Newest(s)) = MaxBuffer
    BY <2>2, <2>3
  <2>7. Len(Bus!Newest(s)) \in Nat /\ Len(Bus!Newest(s)) <= MaxBuffer
    BY <1>0, <2>6
  <2>8. \E m \in Nat : \A i \in 1 .. Len(Bus!Newest(s)) :
          i + m \in 1 .. Len(s) /\ Bus!Newest(s)[i] = s[i + m]
    BY <2>1, <2>5
  <2> QED BY <2>6, <2>7, <2>8
<1> QED BY <1>0, <1>1, <1>2

LEMMA SoundCopied ==
  ASSUME NEW s \in Seq(Event), NEW em, NEW fresh, Sound(s, em, fresh)
  PROVE  Sound(Bus!Newest(s), em, fresh)
<1> PICK r : r = Bus!Newest(s)
  OBVIOUS
<1>1. Len(r) \in Nat /\ Len(s) \in Nat
  BY NewestEvents
<1>2. PICK k \in Nat : \A i \in 1 .. Len(r) : i + k \in 1 .. Len(s) /\ r[i] = s[i + k]
  BY NewestEvents
<1>3. ASSUME NEW i \in 1 .. Len(r)
      PROVE  /\ r[i].by \in Threads /\ r[i].nr \in Nat \ {0} /\ r[i].nr <= em[r[i].by]
             /\ r[i].by \in fresh => r[i].nr < em[r[i].by]
  <2> PICK m : m = i + k
    OBVIOUS
  <2>1. m \in 1 .. Len(s) /\ r[i] = s[m]
    BY <1>2
  <2> QED BY <2>1 DEF Sound
<1>4. ASSUME NEW i \in 1 .. Len(r), NEW j \in 1 .. Len(r), i < j, r[i].by = r[j].by
      PROVE  r[i].nr < r[j].nr
  <2> PICK m : m = i + k
    OBVIOUS
  <2> PICK n : n = j + k
    OBVIOUS
  <2>1. m \in 1 .. Len(s) /\ r[i] = s[m] /\ n \in 1 .. Len(s) /\ r[j] = s[n]
    BY <1>2
  <2>2. m < n
    BY <1>4
  <2> QED BY <1>4, <2>1, <2>2 DEF Sound
<1>5. Sound(r, em, fresh)
  BY <1>3, <1>4 DEF Sound
<1> QED BY <1>5

-----------------------------------------------------------------------------
(* Lists of lists.                                                          *)
LEMMA OneLonger ==
  ASSUME NEW L \in Seq(Seq(Event)), NEW l \in 1 .. Len(L), NEW e \in Event,
         NEW M, M = [L EXCEPT ![l] = Append(@, e)]
  PROVE  /\ M \in Seq(Seq(Event)) /\ Len(M) = Len(L)
         /\ L[l] \in Seq(Event) /\ M[l] = Append(L[l], e)
         /\ \A k \in 1 .. Len(L) : k # l => M[k] = L[k]
<1> PICK S : S = Seq(Event)
  OBVIOUS
<1>1. L \in Seq(S) /\ L[l] \in S
  OBVIOUS
<1>2. Append(L[l], e) \in S
  BY <1>1
<1> PICK x : x = Append(L[l], e)
  OBVIOUS
<1>3. M = [L EXCEPT ![l] = x]
  OBVIOUS
<1>4. M \in Seq(S) /\ Len(M) = Len(L) /\ M[l] = x /\ \A k \in 1 .. Len(L) : k # l => M[k] = L[k]
  BY <1>1, <1>2, <1>3
<1> QED BY <1>1, <1>4

LEMMA OneMore ==
  ASSUME NEW L \in Seq(Seq(Event)), NEW s \in Seq(Event), NEW M, M = Append(L, s)
  PROVE  /\ M \in Seq(Seq(Event)) /\ Len(M) = Len(L) + 1 /\ Len(L) \in Nat
         /\ M[Len(L) + 1] = s /\ \A k \in 1 .. Len(L) : M[k] = L[k]
<1> PICK S : S = Seq(Event)
  OBVIOUS
<1>1. M \in Seq(S) /\ Len(M) = Len(L) + 1 /\ Len(L) \in Nat
      /\ M[Len(L) + 1] = s /\ \A k \in 1 .. Len(L) : M[k] = L[k]
  OBVIOUS
<1> QED BY <1>1

-----------------------------------------------------------------------------
(* Events by thread and number: those that have begun, and those that have  *)
(* been counted.                                                            *)
Events(em) == {p \in Threads \X (1 .. PerThread) : p[2] <= em[p[1]]}
CountedEvents(em, place) ==
  {p \in Events(em) : p[2] = em[p[1]] => place[p[1]] \notin {"built", "adding"}}

LEMMA EventsAreFinite ==
  ASSUME NEW E \in SUBSET (Threads \X (1 .. PerThread))
  PROVE  /\ IsFiniteSet(E) /\ Cardinality(E) \in Nat
         /\ Cardinality(E) <= PerThread * Cardinality(Threads)
         /\ PerThread * Cardinality(Threads) \in Nat
<1> PICK T : T = Threads \X (1 .. PerThread)
  OBVIOUS
<1>1. IsFiniteSet(1 .. PerThread) /\ Cardinality(1 .. PerThread) = PerThread
  BY BusNumbers, FS_Interval
<1>2. IsFiniteSet(T) /\ Cardinality(T) = Cardinality(Threads) * PerThread
  BY <1>1, BusNumbers, FS_Product
<1>3. IsFiniteSet(E) /\ Cardinality(E) <= Cardinality(T)
  BY <1>2, FS_Subset
<1>4. Cardinality(Threads) \in Nat /\ Cardinality(E) \in Nat
  BY <1>3, BusNumbers, FS_CardinalityType
<1>5. Cardinality(Threads) * PerThread = PerThread * Cardinality(Threads)
      /\ PerThread * Cardinality(Threads) \in Nat
  BY <1>4, BusNumbers
<1> QED BY <1>2, <1>3, <1>4, <1>5

LEMMA EventsGrow ==
  ASSUME NEW em \in Emissions, NEW em2 \in Emissions, \A t \in Threads : em[t] <= em2[t]
  PROVE  /\ Cardinality(Events(em)) \in Nat /\ Cardinality(Events(em2)) \in Nat
         /\ Cardinality(Events(em)) <= Cardinality(Events(em2))
<1>1. IsFiniteSet(Events(em2)) /\ Cardinality(Events(em2)) \in Nat /\ Cardinality(Events(em)) \in Nat
  BY EventsAreFinite DEF Events
<1>2. ASSUME NEW p \in Events(em) PROVE p \in Events(em2)
  <2>1. p[1] \in Threads /\ p[2] \in Nat /\ p \in Threads \X (1 .. PerThread)
    BY BusNumbers DEF Events
  <2>2. em[p[1]] \in Nat /\ em2[p[1]] \in Nat
    BY <2>1, EmissionIsNat
  <2>3. p[2] <= em[p[1]] /\ em[p[1]] <= em2[p[1]]
    BY <2>1 DEF Events
  <2> QED BY <2>1, <2>2, <2>3 DEF Events
<1>3. Events(em) \in SUBSET Events(em2)
  BY <1>2
<1> QED BY <1>1, <1>3, FS_Subset

(* A sound list holds no event twice, and so none but the events begun.     *)
LEMMA ListFits ==
  ASSUME NEW s \in Seq(Event), NEW em \in Emissions, NEW fresh, Sound(s, em, fresh)
  PROVE  Len(s) <= Cardinality(Events(em))
<1> DEFINE f == [i \in 1 .. Len(s) |-> <<s[i].by, s[i].nr>>]
<1>0. Len(s) \in Nat
  OBVIOUS
<1>1. ASSUME NEW i \in 1 .. Len(s) PROVE f[i] \in Events(em) /\ f[i] = <<s[i].by, s[i].nr>>
  <2> PICK t : t = s[i].by
    OBVIOUS
  <2> PICK n : n = s[i].nr
    OBVIOUS
  <2>1. t \in Threads /\ n \in Nat \ {0} /\ n <= em[t]
    BY DEF Sound
  <2>2. em[t] \in Nat /\ em[t] <= PerThread /\ PerThread \in Nat
    BY <2>1, EmissionIsNat, BusNumbers
  <2>3. n \in 1 .. PerThread
    BY <2>1, <2>2
  <2>4. <<t, n>> \in Events(em)
    BY <2>1, <2>3 DEF Events
  <2> QED BY <2>4
<1>2. ASSUME NEW i \in 1 .. Len(s), NEW j \in 1 .. Len(s), f[i] = f[j] PROVE i = j
  <2>1. s[i].by = s[j].by /\ s[i].nr = s[j].nr
    BY <1>1, <1>2
  <2>2. s[i].nr \in Nat /\ s[j].nr \in Nat
    BY DEF Sound
  <2>3. ~ i < j
    BY <2>1, <2>2 DEF Sound
  <2>4. ~ j < i
    BY <2>1, <2>2 DEF Sound
  <2> QED BY <1>0, <2>3, <2>4
<1>3. f \in Injection(1 .. Len(s), Events(em))
  <2>1. f \in [1 .. Len(s) -> Events(em)]
    BY <1>1
  <2>2. \A i, j \in 1 .. Len(s) : f[i] = f[j] => i = j
    BY <1>2
  <2> HIDE DEF f
  <2> QED BY <2>1, <2>2 DEF Injection, IsInjective
<1>4. IsFiniteSet(Events(em))
  BY EventsAreFinite DEF Events
<1> HIDE DEF f
<1>5. Cardinality(1 .. Len(s)) <= Cardinality(Events(em))
  BY <1>3, <1>4, FS_Injection
<1>6. Cardinality(1 .. Len(s)) = Len(s)
  <2> PICK n \in Nat : n = Len(s)
    BY <1>0
  <2>1. Cardinality(1 .. n) = IF 1 > n THEN 0 ELSE n - 1 + 1
    <3>1. 1 \in Int /\ n \in Int
      OBVIOUS
    <3> QED BY <3>1, FS_Interval
  <2> QED BY <2>1
<1> QED BY <1>5, <1>6

-----------------------------------------------------------------------------
(* The bus's fields: a thread with an event has a number for it, and one    *)
(* that fetched a list has it.                                              *)
BusTypes ==
  /\ lists \in Seq(Seq(Event)) /\ current \in 1 .. Len(lists)
  /\ where \in [Threads -> Steps]
  /\ list \in [Threads -> 0 .. Len(lists)]
  /\ emitted \in Emissions
  /\ count \in Nat /\ seq \in [Threads -> Nat] /\ loaded \in [Threads -> Nat]
  /\ \A t \in Threads : where[t] # "idle" => emitted[t] # 0
  /\ \A t \in Threads : where[t] \in {"appending", "measuring", "slicing", "swapping"} => list[t] # 0

Fresh == {t \in Threads : where[t] \in {"built", "adding", "counted", "appending"}}

ListsSound == \A l \in 1 .. Len(lists) : Sound(lists[l], emitted, Fresh)

(* A copy that is about to become the buffer is nobody else's, and short.   *)
Private ==
  \A t \in Threads : where[t] = "swapping" =>
    /\ list[t] # current /\ Len(lists[list[t]]) <= MaxBuffer
    /\ \A u \in Threads : u # t => list[u] # list[t]

(* Who made the buffer too long, or saw that it is, has not ended: it will   *)
(* fetch the buffer, is measuring it and no older list, or trims.           *)
Trimmers ==
  {t \in Threads : \/ where[t] \in {"checking", "trimming", "slicing", "swapping"}
                   \/ where[t] = "measuring" /\ list[t] = current}
Watched == Len(lists[current]) > MaxBuffer => Trimmers # {}

(* As long as no more events have begun than the buffer holds, there is one *)
(* list, nobody trims it, and it has every event but those still on their   *)
(* way.                                                                     *)
Untrimmed ==
  Cardinality(Events(emitted)) <= MaxBuffer =>
    /\ Len(lists) = 1
    /\ \A t \in Threads : where[t] \notin {"trimming", "slicing", "swapping"}
    /\ \A t \in Threads, n \in 1 .. PerThread :
         n <= emitted[t] =>
           \/ t \in Fresh /\ n = emitted[t]
           \/ \E i \in 1 .. Len(lists[1]) : lists[1][i].by = t /\ lists[1][i].nr = n

(* The counter never passes the number of events that were counted.         *)
NotOvercounted ==
  /\ count <= Cardinality(CountedEvents(emitted, where))
  /\ \A t \in Threads : /\ loaded[t] <= Cardinality(CountedEvents(emitted, where))
                        /\ seq[t] <= PerThread * Cardinality(Threads)

BusInv == BusTypes /\ ListsSound /\ Private /\ Watched /\ Untrimmed /\ NotOvercounted

LEMMA ListFacts ==
  ASSUME BusTypes
  PROVE  /\ Len(lists) \in Nat \ {0} /\ current \in Nat \ {0} /\ current <= Len(lists)
         /\ \A l \in 1 .. Len(lists) : lists[l] \in Seq(Event) /\ Len(lists[l]) \in Nat
         /\ \A t \in Threads : list[t] \in Nat /\ list[t] <= Len(lists)
         /\ \A t \in Threads : emitted[t] \in Nat /\ emitted[t] <= PerThread
<1> PICK S : S = Seq(Event)
  OBVIOUS
<1>1. lists \in Seq(S) /\ current \in 1 .. Len(lists) /\ Len(lists) \in Nat
  BY DEF BusTypes
<1>2. \A l \in 1 .. Len(lists) : lists[l] \in S
  BY <1>1
<1>3. \A l \in 1 .. Len(lists) : lists[l] \in Seq(Event) /\ Len(lists[l]) \in Nat
  BY <1>2
<1>4. \A t \in Threads : list[t] \in 0 .. Len(lists)
  BY DEF BusTypes
<1>5. \A t \in Threads : emitted[t] \in Nat /\ emitted[t] <= PerThread
  BY EmissionIsNat DEF BusTypes
<1> QED BY <1>1, <1>3, <1>4, <1>5

(* Where a step of emit takes its thread.                                   *)
LEMMA StepGoes ==
  ASSUME BusTypes, NEW t \in Threads, NEW from \in Steps, NEW to \in Steps, Bus!Goes(t, from, to)
  PROVE  /\ where[t] = from /\ where'[t] = to /\ where' \in [Threads -> Steps]
         /\ \A u \in Threads : u # t => where'[u] = where[u]
BY DEF BusTypes, Bus!Goes

(* What a step does to the lists: nothing, one event more in one of them,   *)
(* or one list more, a copy.                                                *)
LEMMA AppendFacts ==
  ASSUME BusTypes, NEW t \in Threads, Bus!AppendEvent(t)
  PROVE  /\ lists' \in Seq(Seq(Event)) /\ Len(lists') = Len(lists)
         /\ list[t] \in 1 .. Len(lists)
         /\ \E e \in Event : /\ e.by = t /\ e.nr = emitted[t]
                             /\ lists'[list[t]] = Append(lists[list[t]], e)
         /\ \A k \in 1 .. Len(lists) : k # list[t] => lists'[k] = lists[k]
<1>1. list[t] \in 1 .. Len(lists)
  BY ListFacts, StepGoes DEF Bus!AppendEvent, BusTypes, Bus!Goes
<1> PICK e : e = [by |-> t, nr |-> emitted[t], seq |-> seq[t]]
  OBVIOUS
<1>2. e \in Event /\ e.by = t /\ e.nr = emitted[t]
  <2>1. emitted[t] \in Nat /\ seq[t] \in Nat
    BY ListFacts DEF BusTypes
  <2> QED BY <2>1 DEF Event
<1>3. lists' = [lists EXCEPT ![list[t]] = Append(@, e)]
  BY DEF Bus!AppendEvent
<1>4. lists \in Seq(Seq(Event))
  BY DEF BusTypes
<1>5. /\ lists' \in Seq(Seq(Event)) /\ Len(lists') = Len(lists)
      /\ lists'[list[t]] = Append(lists[list[t]], e)
      /\ \A k \in 1 .. Len(lists) : k # list[t] => lists'[k] = lists[k]
  BY <1>1, <1>2, <1>3, <1>4, OneLonger
<1> QED BY <1>1, <1>2, <1>5

LEMMA SliceFacts ==
  ASSUME BusTypes, NEW t \in Threads, Bus!Slice(t)
  PROVE  /\ lists' \in Seq(Seq(Event)) /\ Len(lists') = Len(lists) + 1
         /\ list[t] \in 1 .. Len(lists)
         /\ lists'[Len(lists) + 1] = Bus!Newest(lists[list[t]])
         /\ \A k \in 1 .. Len(lists) : lists'[k] = lists[k]
         /\ list' = [list EXCEPT ![t] = Len(lists) + 1]
<1>1. list[t] \in 1 .. Len(lists)
  BY ListFacts, StepGoes DEF Bus!Slice, BusTypes, Bus!Goes
<1>2. lists[list[t]] \in Seq(Event)
  BY <1>1, ListFacts
<1> PICK s : s = Bus!Newest(lists[list[t]])
  OBVIOUS
<1>3. s \in Seq(Event)
  BY <1>2, NewestEvents
<1>4. lists' = Append(lists, s) /\ lists \in Seq(Seq(Event))
  BY DEF Bus!Slice, BusTypes
<1>5. /\ lists' \in Seq(Seq(Event)) /\ Len(lists') = Len(lists) + 1
      /\ lists'[Len(lists) + 1] = s /\ \A k \in 1 .. Len(lists) : lists'[k] = lists[k]
  BY <1>3, <1>4, OneMore
<1>6. list' = [list EXCEPT ![t] = Len(lists) + 1]
  BY <1>5 DEF Bus!Slice
<1> QED BY <1>1, <1>5, <1>6

-----------------------------------------------------------------------------
(* The steps that leave the lists alone.                                    *)
QuietStep(t) ==
  \/ Bus!BuildEvent(t) \/ Bus!LoadCount(t) \/ Bus!StoreCount(t)
  \/ Bus!FetchBuffer(t) \/ Bus!FetchToCheck(t) \/ Bus!CheckLength(t) \/ Bus!FetchAgain(t)

LEMMA TypesStep ==
  ASSUME BusTypes, NEW t \in Threads, Bus!Emit(t)
  PROVE  BusTypes'
<1>0. /\ Len(lists) \in Nat \ {0} /\ current \in 1 .. Len(lists)
      /\ emitted[t] \in Nat /\ PerThread \in Nat
  BY ListFacts, BusNumbers DEF BusTypes
<1>1. CASE Bus!BuildEvent(t)
  <2>1. where' = [where EXCEPT ![t] = "built"] /\ emitted' = [emitted EXCEPT ![t] = @ + 1]
        /\ seq' = [seq EXCEPT ![t] = count] /\ UNCHANGED <<count, lists, current, loaded, list>>
    BY <1>1 DEF Bus!BuildEvent, Bus!Goes
  <2>2. emitted[t] + 1 \in 0 .. PerThread /\ emitted[t] + 1 # 0
    BY <1>0, <1>1 DEF Bus!BuildEvent
  <2>3. emitted' \in Emissions /\ emitted'[t] # 0 /\ \A u \in Threads : u # t => emitted'[u] = emitted[u]
    BY <2>1, <2>2 DEF BusTypes, Emissions
  <2>4. where' \in [Threads -> Steps] /\ where'[t] = "built"
        /\ \A u \in Threads : u # t => where'[u] = where[u]
    BY <2>1 DEF BusTypes, Steps
  <2>5. seq' \in [Threads -> Nat]
    BY <2>1 DEF BusTypes
  <2> QED BY <2>1, <2>3, <2>4, <2>5 DEF BusTypes
<1>2. CASE Bus!LoadCount(t)
  BY <1>2 DEF Bus!LoadCount, Bus!Goes, BusTypes, Steps
<1>3. CASE Bus!StoreCount(t)
  BY <1>3 DEF Bus!StoreCount, Bus!Goes, BusTypes, Steps
<1>4. CASE Bus!FetchBuffer(t) \/ Bus!FetchToCheck(t) \/ Bus!FetchAgain(t)
  <2>1. current \in 0 .. Len(lists) /\ current # 0
    BY <1>0
  <2>2. list' = [list EXCEPT ![t] = current] /\ UNCHANGED <<count, lists, current, emitted, seq, loaded>>
    BY <1>4 DEF Bus!FetchBuffer, Bus!FetchToCheck, Bus!FetchAgain
  <2>3. list' \in [Threads -> 0 .. Len(lists)] /\ list'[t] # 0
        /\ \A u \in Threads : u # t => list'[u] = list[u]
    BY <2>1, <2>2 DEF BusTypes
  <2>4. where' \in [Threads -> Steps] /\ where[t] # "idle"
        /\ \A u \in Threads : u # t => where'[u] = where[u]
    BY <1>4 DEF BusTypes, Steps, Bus!FetchBuffer, Bus!FetchToCheck, Bus!FetchAgain, Bus!Goes
  <2> QED BY <2>2, <2>3, <2>4 DEF BusTypes
<1>5. CASE Bus!CheckLength(t)
  <2>1. where' \in [Threads -> Steps] /\ where[t] # "idle" /\ where'[t] \in {"trimming", "idle"}
        /\ \A u \in Threads : u # t => where'[u] = where[u]
    BY <1>5 DEF BusTypes, Steps, Bus!CheckLength, Bus!Goes
  <2>2. list' = [list EXCEPT ![t] = 0] /\ UNCHANGED <<count, lists, current, emitted, seq, loaded>>
    BY <1>5 DEF Bus!CheckLength
  <2>3. list' \in [Threads -> 0 .. Len(lists)] /\ \A u \in Threads : u # t => list'[u] = list[u]
    BY <1>0, <2>2 DEF BusTypes
  <2> QED BY <2>1, <2>2, <2>3 DEF BusTypes
<1>6. CASE Bus!AppendEvent(t)
  <2>1. lists' \in Seq(Seq(Event)) /\ Len(lists') = Len(lists)
    BY <1>6, AppendFacts
  <2>2. where' \in [Threads -> Steps] /\ where[t] # "idle" /\ where'[t] = "checking"
        /\ \A u \in Threads : u # t => where'[u] = where[u]
    BY <1>6 DEF BusTypes, Steps, Bus!AppendEvent, Bus!Goes
  <2>3. list' = [list EXCEPT ![t] = 0] /\ UNCHANGED <<count, current, emitted, seq, loaded>>
    BY <1>6 DEF Bus!AppendEvent
  <2>4. list' \in [Threads -> 0 .. Len(lists')] /\ \A u \in Threads : u # t => list'[u] = list[u]
    BY <1>0, <2>1, <2>3 DEF BusTypes
  <2> QED BY <2>1, <2>2, <2>3, <2>4 DEF BusTypes
<1>7. CASE Bus!Slice(t)
  <2>1. lists' \in Seq(Seq(Event)) /\ Len(lists') = Len(lists) + 1
        /\ list' = [list EXCEPT ![t] = Len(lists) + 1]
    BY <1>7, SliceFacts
  <2>2. where' \in [Threads -> Steps] /\ where[t] # "idle"
        /\ \A u \in Threads : u # t => where'[u] = where[u]
    BY <1>7 DEF BusTypes, Steps, Bus!Slice, Bus!Goes
  <2>3. UNCHANGED <<count, current, emitted, seq, loaded>>
    BY <1>7 DEF Bus!Slice
  <2>4. current \in 1 .. Len(lists')
    BY <1>0, <2>1
  <2>5. list' \in [Threads -> 0 .. Len(lists')] /\ list'[t] # 0
        /\ \A u \in Threads : u # t => list'[u] = list[u]
    <3>1. 0 .. Len(lists) \subseteq 0 .. Len(lists') /\ Len(lists) + 1 \in 0 .. Len(lists')
      BY <1>0, <2>1
    <3>2. Len(lists) + 1 # 0
      BY <1>0
    <3> QED BY <2>1, <3>1, <3>2 DEF BusTypes
  <2> QED BY <2>1, <2>2, <2>3, <2>4, <2>5 DEF BusTypes
<1>8. CASE Bus!SwapBuffer(t)
  <2>1. list[t] \in 1 .. Len(lists)
    BY <1>8, ListFacts DEF Bus!SwapBuffer, Bus!Goes, BusTypes
  <2>2. where' \in [Threads -> Steps] /\ where'[t] = "idle"
        /\ \A u \in Threads : u # t => where'[u] = where[u]
    BY <1>8 DEF BusTypes, Steps, Bus!SwapBuffer, Bus!Goes
  <2>3. current' = list[t] /\ list' = [list EXCEPT ![t] = 0]
        /\ UNCHANGED <<count, lists, emitted, seq, loaded>>
    BY <1>8 DEF Bus!SwapBuffer
  <2>4. list' \in [Threads -> 0 .. Len(lists)] /\ \A u \in Threads : u # t => list'[u] = list[u]
    BY <1>0, <2>3 DEF BusTypes
  <2> QED BY <2>1, <2>2, <2>3, <2>4 DEF BusTypes
<1> QED BY <1>1, <1>2, <1>3, <1>4, <1>5, <1>6, <1>7, <1>8 DEF Bus!Emit

-----------------------------------------------------------------------------
LEMMA SoundStep ==
  ASSUME BusTypes, BusTypes', ListsSound, NEW t \in Threads, Bus!Emit(t)
  PROVE  ListsSound'
<1>0. /\ Len(lists) \in Nat \ {0} /\ emitted \in Emissions /\ emitted' \in Emissions
      /\ \A u \in Threads : emitted[u] \in Nat /\ emitted[u] <= PerThread
      /\ \A l \in 1 .. Len(lists) : lists[l] \in Seq(Event)
  BY ListFacts DEF BusTypes
<1>1. ASSUME UNCHANGED lists, \A u \in Threads : emitted[u] <= emitted'[u],
             \A u \in Threads : u \in Fresh' => u \in Fresh \/ emitted[u] < emitted'[u]
      PROVE  ListsSound'
  <2> SUFFICES ASSUME NEW l \in 1 .. Len(lists) PROVE Sound(lists[l], emitted', Fresh')
    BY <1>1 DEF ListsSound
  <2>1. Sound(lists[l], emitted, Fresh)
    BY DEF ListsSound
  <2> PICK em2 : em2 = emitted'
    OBVIOUS
  <2> PICK fresh2 : fresh2 = Fresh'
    OBVIOUS
  <2> QED BY <1>0, <1>1, <2>1, SoundKept
<1>2. CASE Bus!BuildEvent(t)
  <2>1. UNCHANGED lists /\ emitted'[t] = emitted[t] + 1 /\ \A u \in Threads : u # t => emitted'[u] = emitted[u]
    BY <1>2 DEF Bus!BuildEvent, BusTypes, Emissions
  <2>2. \A u \in Threads : u # t => where'[u] = where[u]
    BY <1>2 DEF Bus!BuildEvent, BusTypes, Bus!Goes
  <2>3. \A u \in Threads : emitted[u] <= emitted'[u] /\ (u \in Fresh' => u \in Fresh \/ emitted[u] < emitted'[u])
    BY <1>0, <2>1, <2>2 DEF Fresh
  <2> QED BY <1>1, <2>1, <2>3
<1>3. CASE \/ Bus!LoadCount(t) \/ Bus!StoreCount(t) \/ Bus!FetchBuffer(t)
           \/ Bus!FetchToCheck(t) \/ Bus!CheckLength(t) \/ Bus!FetchAgain(t) \/ Bus!SwapBuffer(t)
  <2>1. UNCHANGED <<lists, emitted>>
    BY <1>3 DEF Bus!LoadCount, Bus!StoreCount, Bus!FetchBuffer, Bus!FetchToCheck, Bus!CheckLength, Bus!FetchAgain, Bus!SwapBuffer
  <2>2. \A u \in Threads : u \in Fresh' => u \in Fresh
    BY <1>3 DEF Bus!LoadCount, Bus!StoreCount, Bus!FetchBuffer, Bus!FetchToCheck, Bus!CheckLength, Bus!FetchAgain,
       Bus!SwapBuffer, Bus!Goes, BusTypes, Fresh
  <2>3. \A u \in Threads : emitted[u] <= emitted'[u]
    BY <1>0, <2>1
  <2> QED BY <1>1, <2>1, <2>2, <2>3
<1>4. CASE Bus!AppendEvent(t)
  <2>1. /\ where[t] = "appending" /\ where'[t] = "checking" /\ UNCHANGED emitted
        /\ \A u \in Threads : u # t => where'[u] = where[u]
    BY <1>4 DEF Bus!AppendEvent, Bus!Goes, BusTypes
  <2>2. t \in Fresh /\ Fresh' = Fresh \ {t} /\ emitted[t] # 0
    BY <2>1 DEF Fresh, BusTypes
  <2>3. PICK e \in Event : /\ e.by = t /\ e.nr = emitted[t]
                           /\ lists'[list[t]] = Append(lists[list[t]], e)
    BY <1>4, AppendFacts
  <2>4. /\ list[t] \in 1 .. Len(lists) /\ Len(lists') = Len(lists)
        /\ \A k \in 1 .. Len(lists) : k # list[t] => lists'[k] = lists[k]
    BY <1>4, AppendFacts
  <2> SUFFICES ASSUME NEW l \in 1 .. Len(lists) PROVE Sound(lists'[l], emitted, Fresh \ {t})
    BY <2>1, <2>2, <2>4 DEF ListsSound
  <2> PICK em : em = emitted
    OBVIOUS
  <2> PICK fresh : fresh = Fresh
    OBVIOUS
  <2>5. Sound(lists[l], em, fresh) /\ lists[l] \in Seq(Event) /\ em \in Emissions
    BY <1>0 DEF ListsSound
  <2>6. CASE l = list[t]
    BY <2>2, <2>3, <2>5, <2>6, SoundAppended
  <2>7. CASE l # list[t]
    <3>1. lists'[l] = lists[l]
      BY <2>4, <2>7
    <3>2. \A u \in Threads : em[u] <= em[u]
      BY <1>0
    <3> QED BY <2>5, <3>1, <3>2, SoundKept
  <2> QED BY <2>6, <2>7
<1>5. CASE Bus!Slice(t)
  <2>1. UNCHANGED emitted /\ Fresh' = Fresh
    BY <1>5 DEF Bus!Slice, Bus!Goes, BusTypes, Fresh
  <2>2. /\ Len(lists') = Len(lists) + 1 /\ list[t] \in 1 .. Len(lists)
        /\ lists'[Len(lists) + 1] = Bus!Newest(lists[list[t]])
        /\ \A k \in 1 .. Len(lists) : lists'[k] = lists[k]
    BY <1>5, SliceFacts
  <2> SUFFICES ASSUME NEW l \in 1 .. Len(lists) + 1 PROVE Sound(lists'[l], emitted, Fresh)
    BY <2>1, <2>2 DEF ListsSound
  <2>3. CASE l \in 1 .. Len(lists)
    BY <2>2, <2>3 DEF ListsSound
  <2>4. CASE l = Len(lists) + 1
    <3>1. lists[list[t]] \in Seq(Event) /\ Sound(lists[list[t]], emitted, Fresh)
      BY <1>0, <2>2 DEF ListsSound
    <3> PICK s : s = lists[list[t]]
      OBVIOUS
    <3>2. Sound(Bus!Newest(s), emitted, Fresh)
      BY <3>1, SoundCopied
    <3> QED BY <2>2, <2>4, <3>2
  <2> QED BY <1>0, <2>3, <2>4
<1> QED BY <1>2, <1>3, <1>4, <1>5 DEF Bus!Emit

-----------------------------------------------------------------------------
LEMMA PrivateStep ==
  ASSUME BusTypes, BusTypes', Private, NEW t \in Threads, Bus!Emit(t)
  PROVE  Private'
<1>0. /\ Len(lists) \in Nat \ {0} /\ current \in Nat \ {0} /\ current <= Len(lists)
      /\ \A u \in Threads : list[u] \in Nat /\ list[u] <= Len(lists)
  BY ListFacts
<1> SUFFICES ASSUME NEW u \in Threads, where'[u] = "swapping"
             PROVE  /\ list'[u] # current' /\ Len(lists'[list'[u]]) <= MaxBuffer
                    /\ \A v \in Threads : v # u => list'[v] # list'[u]
  BY DEF Private
<1>1. CASE Bus!Slice(t)
  <2>1. /\ list[t] \in 1 .. Len(lists)
        /\ lists'[Len(lists) + 1] = Bus!Newest(lists[list[t]])
        /\ \A k \in 1 .. Len(lists) : lists'[k] = lists[k]
        /\ list' = [list EXCEPT ![t] = Len(lists) + 1]
    BY <1>1, SliceFacts
  <2>2. list'[t] = Len(lists) + 1 /\ (\A v \in Threads : v # t => list'[v] = list[v]) /\ current' = current
    BY <1>1, <2>1 DEF BusTypes, Bus!Slice
  <2>3. CASE u = t
    <3>1. Len(lists'[list'[u]]) <= MaxBuffer
      <4>1. lists[list[t]] \in Seq(Event)
        BY <2>1, ListFacts
      <4>2. Len(Bus!Newest(lists[list[t]])) <= MaxBuffer
        BY <4>1, NewestEvents
      <4> QED BY <2>1, <2>2, <2>3, <4>2
    <3> QED BY <1>0, <2>2, <2>3, <3>1
  <2>4. CASE u # t
    <3>1. where[u] = "swapping"
      BY <1>1, <2>4 DEF Bus!Slice, Bus!Goes, BusTypes
    <3>2. list[u] \in 1 .. Len(lists) /\ list'[u] = list[u]
      <4>1. list[u] # 0 /\ list[u] \in Nat /\ list[u] <= Len(lists)
        BY <1>0, <3>1 DEF BusTypes
      <4> QED BY <1>0, <2>2, <2>4, <4>1
    <3> QED BY <1>0, <2>1, <2>2, <2>4, <3>1, <3>2 DEF Private
  <2> QED BY <2>3, <2>4
<1>2. ASSUME ~ Bus!Slice(t)
      PROVE  where[u] = "swapping" /\ list[u] \in 1 .. Len(lists)
             /\ list[u] # current /\ Len(lists[list[u]]) <= MaxBuffer
             /\ \A v \in Threads : v # u => list[v] # list[u]
  <2>1. where[u] = "swapping"
    BY <1>2 DEF Bus!Emit, Bus!BuildEvent, Bus!LoadCount, Bus!StoreCount, Bus!FetchBuffer,
       Bus!AppendEvent, Bus!FetchToCheck, Bus!CheckLength, Bus!FetchAgain, Bus!SwapBuffer, Bus!Goes, BusTypes
  <2>2. list[u] # 0
    BY <2>1 DEF BusTypes
  <2> QED BY <1>0, <2>1, <2>2 DEF Private
<1>3. CASE Bus!BuildEvent(t) \/ Bus!LoadCount(t) \/ Bus!StoreCount(t)
  <2>1. UNCHANGED <<lists, list, current>> /\ ~ Bus!Slice(t)
    BY <1>3 DEF Bus!BuildEvent, Bus!LoadCount, Bus!StoreCount, Bus!Slice, Bus!Goes
  <2> QED BY <1>2, <2>1
<1>4. CASE Bus!FetchBuffer(t) \/ Bus!FetchToCheck(t) \/ Bus!FetchAgain(t)
  <2>1. /\ UNCHANGED <<lists, current>> /\ ~ Bus!Slice(t)
        /\ list' = [list EXCEPT ![t] = current] /\ where'[t] # "swapping"
    BY <1>4 DEF Bus!FetchBuffer, Bus!FetchToCheck, Bus!FetchAgain, Bus!Slice, Bus!Goes, BusTypes
  <2>2. list'[t] = current /\ \A v \in Threads : v # t => list'[v] = list[v]
    BY <2>1 DEF BusTypes
  <2>3. u # t
    BY <2>1
  <2> QED BY <1>2, <2>1, <2>2, <2>3
<1>5. CASE Bus!AppendEvent(t)
  <2>1. /\ current' = current /\ ~ Bus!Slice(t)
        /\ list' = [list EXCEPT ![t] = 0] /\ where'[t] # "swapping"
    BY <1>5 DEF Bus!AppendEvent, Bus!Slice, Bus!Goes, BusTypes
  <2>2. list'[t] = 0 /\ \A v \in Threads : v # t => list'[v] = list[v]
    BY <2>1 DEF BusTypes
  <2>3. u # t
    BY <2>1
  <2>4. \A k \in 1 .. Len(lists) : k # list[t] => lists'[k] = lists[k]
    BY <1>5, AppendFacts
  <2>5. lists'[list[u]] = lists[list[u]]
    BY <1>2, <2>1, <2>3, <2>4
  <2> QED BY <1>2, <2>1, <2>2, <2>3, <2>5
<1>7. CASE Bus!CheckLength(t)
  <2>1. /\ UNCHANGED <<lists, current>> /\ ~ Bus!Slice(t)
        /\ list' = [list EXCEPT ![t] = 0] /\ where'[t] # "swapping"
    BY <1>7 DEF Bus!CheckLength, Bus!Slice, Bus!Goes, BusTypes
  <2>2. list'[t] = 0 /\ \A v \in Threads : v # t => list'[v] = list[v]
    BY <2>1 DEF BusTypes
  <2>3. u # t
    BY <2>1
  <2> QED BY <1>2, <2>1, <2>2, <2>3
<1>6. CASE Bus!SwapBuffer(t)
  <2>1. /\ lists' = lists /\ ~ Bus!Slice(t) /\ current' = list[t]
        /\ list' = [list EXCEPT ![t] = 0] /\ where'[t] # "swapping"
    BY <1>6 DEF Bus!SwapBuffer, Bus!Slice, Bus!Goes, BusTypes
  <2>2. list'[t] = 0 /\ \A v \in Threads : v # t => list'[v] = list[v]
    BY <2>1 DEF BusTypes
  <2>3. u # t
    BY <2>1
  <2> QED BY <1>2, <2>1, <2>2, <2>3
<1> QED BY <1>1, <1>3, <1>4, <1>5, <1>6, <1>7 DEF Bus!Emit

LEMMA WatchedStep ==
  ASSUME BusTypes, BusTypes', Private, Watched, NEW t \in Threads, Bus!Emit(t)
  PROVE  Watched'
<1> SUFFICES ASSUME Len(lists'[current']) > MaxBuffer PROVE \E u \in Threads : u \in Trimmers'
  BY DEF Watched
<1>1. CASE Bus!AppendEvent(t) \/ Bus!FetchAgain(t) \/ Bus!Slice(t)
  BY <1>1 DEF Bus!AppendEvent, Bus!FetchAgain, Bus!Slice, Bus!Goes, BusTypes, Trimmers
<1>5. CASE Bus!FetchToCheck(t)
  <2>1. where'[t] = "measuring" /\ list'[t] = current /\ current' = current
    BY <1>5 DEF Bus!FetchToCheck, Bus!Goes, BusTypes
  <2> QED BY <2>1 DEF Trimmers
<1>2. CASE Bus!BuildEvent(t) \/ Bus!LoadCount(t) \/ Bus!StoreCount(t) \/ Bus!FetchBuffer(t)
  <2>1. UNCHANGED <<lists, current>>
        /\ where[t] \notin {"checking", "measuring", "trimming", "slicing", "swapping"}
        /\ \A u \in Threads : u # t => where'[u] = where[u] /\ list'[u] = list[u]
    BY <1>2 DEF Bus!BuildEvent, Bus!LoadCount, Bus!StoreCount, Bus!FetchBuffer, Bus!Goes, BusTypes
  <2>2. PICK u \in Trimmers : TRUE
    BY <2>1 DEF Watched
  <2>3. u # t /\ u \in Threads
    BY <2>1, <2>2 DEF Trimmers
  <2>4. where'[u] = where[u] /\ list'[u] = list[u]
    BY <2>1, <2>3
  <2>5. u \in Trimmers'
    BY <2>1, <2>2, <2>3, <2>4 DEF Trimmers
  <2> QED BY <2>3, <2>5
<1>3. CASE Bus!CheckLength(t)
  <2>1. /\ UNCHANGED <<lists, current>> /\ where[t] = "measuring"
        /\ \A u \in Threads : u # t => where'[u] = where[u] /\ list'[u] = list[u]
    BY <1>3 DEF Bus!CheckLength, Bus!Goes, BusTypes
  <2>2. PICK u \in Trimmers : TRUE
    BY <2>1 DEF Watched
  <2>3. CASE u # t
    <3>1. u \in Threads /\ where'[u] = where[u] /\ list'[u] = list[u]
      BY <2>1, <2>2, <2>3 DEF Trimmers
    <3> QED BY <2>1, <2>2, <3>1 DEF Trimmers
  <2>4. CASE u = t
    <3>1. list[t] = current
      BY <2>1, <2>2, <2>4 DEF Trimmers
    <3>2. Bus!TooLong(lists[list[t]])
      BY <2>1, <3>1 DEF Bus!TooLong
    <3>3. where'[t] = "trimming"
      BY <1>3, <3>2 DEF Bus!CheckLength, Bus!Goes, BusTypes
    <3> QED BY <3>3 DEF Trimmers
  <2> QED BY <2>3, <2>4
<1>4. CASE Bus!SwapBuffer(t)
  <2>1. lists' = lists /\ current' = list[t] /\ where[t] = "swapping"
    BY <1>4 DEF Bus!SwapBuffer, Bus!Goes
  <2>2. Len(lists[list[t]]) <= MaxBuffer /\ list[t] \in 1 .. Len(lists)
    <3>1. list[t] # 0
      BY <2>1 DEF BusTypes
    <3> QED BY <2>1, <3>1, ListFacts DEF Private
  <2>3. Len(lists[list[t]]) \in Nat
    BY <2>2, ListFacts
  <2> QED BY <2>1, <2>2, <2>3, BusNumbers
<1> QED BY <1>1, <1>2, <1>3, <1>4, <1>5 DEF Bus!Emit

-----------------------------------------------------------------------------
LEMMA UntrimmedStep ==
  ASSUME BusTypes, BusTypes', ListsSound, Untrimmed, NEW t \in Threads, Bus!Emit(t)
  PROVE  Untrimmed'
<1>0. /\ Len(lists) \in Nat \ {0} /\ current \in Nat \ {0} /\ current <= Len(lists)
      /\ \A u \in Threads : list[u] \in Nat /\ list[u] <= Len(lists)
      /\ \A u \in Threads : emitted[u] \in Nat /\ emitted[u] <= PerThread
      /\ emitted \in Emissions /\ emitted' \in Emissions /\ PerThread \in Nat
  BY ListFacts, BusNumbers DEF BusTypes
<1> SUFFICES ASSUME Cardinality(Events(emitted')) <= MaxBuffer
             PROVE  /\ Len(lists') = 1
                    /\ \A u \in Threads : where'[u] \notin {"trimming", "slicing", "swapping"}
                    /\ \A u \in Threads, n \in 1 .. PerThread :
                         n <= emitted'[u] =>
                           \/ u \in Fresh' /\ n = emitted'[u]
                           \/ \E i \in 1 .. Len(lists'[1]) : lists'[1][i].by = u /\ lists'[1][i].nr = n
  BY DEF Untrimmed
<1>1. \A u \in Threads : emitted[u] <= emitted'[u]
  <2>1. CASE Bus!BuildEvent(t)
    BY <1>0, <2>1 DEF Bus!BuildEvent, Emissions
  <2>2. CASE ~ Bus!BuildEvent(t)
    <3>1. emitted' = emitted
      BY <2>2 DEF Bus!Emit, Bus!LoadCount, Bus!StoreCount, Bus!FetchBuffer,
         Bus!AppendEvent, Bus!FetchToCheck, Bus!CheckLength, Bus!FetchAgain, Bus!Slice, Bus!SwapBuffer
    <3> QED BY <1>0, <3>1
  <2> QED BY <2>1, <2>2
<1>2. Cardinality(Events(emitted)) <= MaxBuffer /\ Cardinality(Events(emitted)) \in Nat
  <2> PICK em2 : em2 = emitted'
    OBVIOUS
  <2>1. /\ Cardinality(Events(emitted)) \in Nat /\ Cardinality(Events(em2)) \in Nat
        /\ Cardinality(Events(emitted)) <= Cardinality(Events(em2))
    BY <1>0, <1>1, EventsGrow
  <2> QED BY <2>1, BusNumbers
<1>3. /\ Len(lists) = 1 /\ current = 1
      /\ \A u \in Threads : where[u] \notin {"trimming", "slicing", "swapping"}
      /\ \A u \in Threads, n \in 1 .. PerThread :
           n <= emitted[u] =>
             \/ u \in Fresh /\ n = emitted[u]
             \/ \E i \in 1 .. Len(lists[1]) : lists[1][i].by = u /\ lists[1][i].nr = n
  <2>1. Len(lists) = 1
    BY <1>2 DEF Untrimmed
  <2>2. current = 1
    BY <1>0, <2>1
  <2> QED BY <1>2, <2>1, <2>2 DEF Untrimmed
<1>4. ~ Bus!TooLong(lists[1])
  <2>1. lists[1] \in Seq(Event) /\ Sound(lists[1], emitted, Fresh) /\ Len(lists[1]) \in Nat
    BY <1>3, ListFacts DEF ListsSound
  <2> PICK fresh : fresh = Fresh
    OBVIOUS
  <2>2. Len(lists[1]) <= Cardinality(Events(emitted))
    BY <1>0, <2>1, ListFits
  <2> QED BY <1>2, <1>3, <2>1, <2>2, BusNumbers DEF Bus!TooLong
<1>5. CASE Bus!BuildEvent(t)
  <2>1. /\ lists' = lists /\ emitted'[t] = emitted[t] + 1
        /\ \A u \in Threads : u # t => emitted'[u] = emitted[u] /\ where'[u] = where[u]
        /\ where[t] = "idle" /\ where'[t] = "built"
    BY <1>5 DEF Bus!BuildEvent, Bus!Goes, BusTypes, Emissions
  <2>2. t \in Fresh' /\ t \notin Fresh /\ \A u \in Threads : u # t => (u \in Fresh' <=> u \in Fresh)
    BY <2>1 DEF Fresh
  <2>3. ASSUME NEW u \in Threads, NEW n \in 1 .. PerThread, n <= emitted'[u]
        PROVE  \/ u \in Fresh' /\ n = emitted'[u]
               \/ \E i \in 1 .. Len(lists'[1]) : lists'[1][i].by = u /\ lists'[1][i].nr = n
    <3>1. CASE u = t
      <4>1. n = emitted[t] + 1 \/ n <= emitted[t]
        BY <1>0, <2>1, <2>3, <3>1
      <4> QED BY <1>3, <2>1, <2>2, <3>1, <4>1
    <3>2. CASE u # t
      BY <1>3, <2>1, <2>2, <2>3, <3>2
    <3> QED BY <3>1, <3>2
  <2> QED BY <1>3, <2>1, <2>3
<1>6. CASE Bus!LoadCount(t) \/ Bus!StoreCount(t) \/ Bus!FetchBuffer(t)
  <2>1. /\ lists' = lists /\ emitted' = emitted
        /\ \A u \in Threads : u # t => where'[u] = where[u]
        /\ t \in Fresh /\ t \in Fresh' /\ where'[t] \notin {"trimming", "slicing", "swapping"}
    BY <1>6 DEF Bus!LoadCount, Bus!StoreCount, Bus!FetchBuffer, Bus!Goes, BusTypes, Fresh
  <2>2. \A u \in Threads : u \in Fresh => u \in Fresh'
    BY <2>1 DEF Fresh
  <2> QED BY <1>3, <2>1, <2>2
<1>7. CASE Bus!CheckLength(t)
  <2>1. /\ lists' = lists /\ emitted' = emitted
        /\ \A u \in Threads : u # t => where'[u] = where[u]
        /\ where[t] = "measuring" /\ where'[t] = "idle"
    <3>1. where[t] = "measuring"
      BY <1>7 DEF Bus!CheckLength, Bus!Goes
    <3>2. list[t] # 0
      BY <3>1 DEF BusTypes
    <3>3. list[t] = 1
      BY <1>0, <1>3, <3>2
    <3> QED BY <1>4, <1>7, <3>1, <3>3 DEF Bus!CheckLength, Bus!Goes, BusTypes
  <2>2. \A u \in Threads : u \in Fresh => u \in Fresh'
    BY <2>1 DEF Fresh
  <2> QED BY <1>3, <2>1, <2>2
<1>10. CASE Bus!FetchToCheck(t)
  <2>1. /\ lists' = lists /\ emitted' = emitted
        /\ \A u \in Threads : u # t => where'[u] = where[u]
        /\ where[t] = "checking" /\ where'[t] = "measuring"
    BY <1>10 DEF Bus!FetchToCheck, Bus!Goes, BusTypes
  <2>2. \A u \in Threads : u \in Fresh => u \in Fresh'
    BY <2>1 DEF Fresh
  <2> QED BY <1>3, <2>1, <2>2
<1>8. CASE Bus!AppendEvent(t)
  <2>1. /\ emitted' = emitted
        /\ \A u \in Threads : u # t => where'[u] = where[u]
        /\ where[t] = "appending" /\ where'[t] = "checking"
    BY <1>8 DEF Bus!AppendEvent, Bus!Goes, BusTypes
  <2>2. \A u \in Threads : u # t /\ u \in Fresh => u \in Fresh'
    BY <2>1 DEF Fresh
  <2>3. PICK e \in Event : /\ e.by = t /\ e.nr = emitted[t]
                           /\ lists'[list[t]] = Append(lists[list[t]], e)
    BY <1>8, AppendFacts
  <2>4. list[t] = 1 /\ Len(lists') = 1
    <3>1. list[t] \in 1 .. Len(lists) /\ Len(lists') = Len(lists)
      BY <1>8, AppendFacts
    <3> QED BY <1>3, <3>1
  <2> PICK old : old = lists[1]
    OBVIOUS
  <2> PICK new : new = lists'[1]
    OBVIOUS
  <2>5. old \in Seq(Event) /\ new = Append(old, e)
    BY <1>3, <2>3, <2>4, ListFacts
  <2>6. /\ Len(new) = Len(old) + 1 /\ Len(old) \in Nat /\ new[Len(old) + 1] = e
        /\ \A i \in 1 .. Len(old) : new[i] = old[i]
    BY <2>5
  <2>7. \A i \in 1 .. Len(old) : i \in 1 .. Len(new)
    BY <2>6
  <2>8. Len(old) + 1 \in 1 .. Len(new)
    BY <2>6
  <2>9. ASSUME NEW u \in Threads, NEW n \in 1 .. PerThread, n <= emitted[u]
        PROVE  \/ u \in Fresh' /\ n = emitted[u]
               \/ \E i \in 1 .. Len(new) : new[i].by = u /\ new[i].nr = n
    <3>1. CASE \E i \in 1 .. Len(old) : old[i].by = u /\ old[i].nr = n
      BY <2>6, <2>7, <3>1
    <3>2. CASE u = t /\ n = emitted[u]
      BY <2>3, <2>6, <2>8, <3>2
    <3>3. CASE u # t /\ u \in Fresh /\ n = emitted[u]
      BY <2>2, <3>3
    <3> QED BY <1>3, <2>9, <3>1, <3>2, <3>3
  <2> QED BY <1>3, <2>1, <2>4, <2>9
<1>9. CASE Bus!FetchAgain(t) \/ Bus!Slice(t) \/ Bus!SwapBuffer(t)
  BY <1>3, <1>9 DEF Bus!FetchAgain, Bus!Slice, Bus!SwapBuffer, Bus!Goes
<1> QED BY <1>5, <1>6, <1>7, <1>8, <1>9, <1>10 DEF Bus!Emit

-----------------------------------------------------------------------------
LEMMA CountedFacts ==
  /\ IsFiniteSet(CountedEvents(emitted, where)) /\ Cardinality(CountedEvents(emitted, where)) \in Nat
  /\ Cardinality(CountedEvents(emitted, where)) <= PerThread * Cardinality(Threads)
  /\ PerThread * Cardinality(Threads) \in Nat
<1>1. CountedEvents(emitted, where) \in SUBSET (Threads \X (1 .. PerThread))
  BY DEF CountedEvents, Events
<1> QED BY <1>1, EventsAreFinite

LEMMA OvercountStep ==
  ASSUME BusTypes, BusTypes', NotOvercounted, NEW t \in Threads, Bus!Emit(t)
  PROVE  NotOvercounted'
<1> PICK C : C = CountedEvents(emitted, where)
  OBVIOUS
<1> PICK C2 : C2 = CountedEvents(emitted', where')
  OBVIOUS
<1>0. /\ IsFiniteSet(C) /\ Cardinality(C) \in Nat
      /\ Cardinality(C) <= PerThread * Cardinality(Threads) /\ PerThread * Cardinality(Threads) \in Nat
      /\ count \in Nat /\ count <= Cardinality(C)
      /\ \A u \in Threads : /\ loaded[u] \in Nat /\ loaded[u] <= Cardinality(C)
                            /\ seq[u] \in Nat /\ seq[u] <= PerThread * Cardinality(Threads)
  BY CountedFacts DEF NotOvercounted, BusTypes
<1>1. \A u \in Threads : emitted[u] \in Nat /\ emitted[u] <= PerThread /\ PerThread \in Nat
  BY ListFacts, BusNumbers
<1>2. ASSUME C2 = C, count' <= Cardinality(C),
             \A u \in Threads : loaded'[u] <= Cardinality(C) /\ seq'[u] <= PerThread * Cardinality(Threads)
      PROVE  NotOvercounted'
  BY <1>2 DEF NotOvercounted
<1>3. CASE Bus!BuildEvent(t)
  <2>1. /\ emitted'[t] = emitted[t] + 1 /\ where[t] = "idle" /\ where'[t] = "built"
        /\ \A u \in Threads : u # t => emitted'[u] = emitted[u] /\ where'[u] = where[u]
    BY <1>3 DEF Bus!BuildEvent, Bus!Goes, BusTypes, Emissions
  <2>2. ASSUME NEW p \in Threads \X (1 .. PerThread) PROVE p \in C2 <=> p \in C
    <3>1. p[1] \in Threads /\ p[2] \in Nat
      BY <1>1
    <3>2. CASE p[1] = t
      <4>1. p \in C2 <=> p[2] <= emitted[t] + 1 /\ p[2] # emitted[t] + 1
        BY <2>1, <3>2 DEF CountedEvents, Events
      <4>2. p \in C <=> p[2] <= emitted[t]
        BY <2>1, <3>2 DEF CountedEvents, Events
      <4> QED BY <1>1, <3>1, <4>1, <4>2
    <3>3. CASE p[1] # t
      BY <2>1, <3>1, <3>3 DEF CountedEvents, Events
    <3> QED BY <3>2, <3>3
  <2>3. C2 = C
    BY <2>2 DEF CountedEvents, Events
  <2>4. count' = count /\ loaded' = loaded /\ seq' = [seq EXCEPT ![t] = count]
    BY <1>3 DEF Bus!BuildEvent
  <2>5. \A u \in Threads : seq'[u] = count \/ seq'[u] = seq[u]
    BY <2>4 DEF BusTypes
  <2> QED BY <1>0, <1>2, <2>3, <2>4, <2>5
<1>4. CASE Bus!LoadCount(t)
  <2>1. /\ emitted' = emitted /\ where[t] = "built" /\ where'[t] = "adding"
        /\ \A u \in Threads : u # t => where'[u] = where[u]
    BY <1>4 DEF Bus!LoadCount, Bus!Goes, BusTypes
  <2>2. C2 = C
    BY <2>1 DEF CountedEvents, Events
  <2>3. count' = count /\ seq' = seq /\ loaded' = [loaded EXCEPT ![t] = count]
    BY <1>4 DEF Bus!LoadCount
  <2>4. \A u \in Threads : loaded'[u] = count \/ loaded'[u] = loaded[u]
    BY <2>3 DEF BusTypes
  <2> QED BY <1>0, <1>2, <2>2, <2>3, <2>4
<1>5. CASE Bus!StoreCount(t)
  <2>1. /\ emitted' = emitted /\ where[t] = "adding" /\ where'[t] = "counted"
        /\ \A u \in Threads : u # t => where'[u] = where[u]
    BY <1>5 DEF Bus!StoreCount, Bus!Goes, BusTypes
  <2> PICK q : q = <<t, emitted[t]>>
    OBVIOUS
  <2>2. q \in Threads \X (1 .. PerThread) /\ q[1] = t /\ q[2] = emitted[t] /\ emitted[t] # 0
    <3>1. emitted[t] # 0
      BY <2>1 DEF BusTypes
    <3> QED BY <1>1, <3>1
  <2>3. q \notin C
    BY <2>1, <2>2 DEF CountedEvents
  <2>4. ASSUME NEW p \in Threads \X (1 .. PerThread) PROVE p \in C2 <=> p \in C \cup {q}
    <3>1. CASE p[1] = t /\ p[2] = emitted[t]
      <4>1. p = q
        BY <3>1
      <4>2. q \in C2
        BY <1>1, <2>1, <2>2 DEF CountedEvents, Events
      <4> QED BY <4>1, <4>2
    <3>2. CASE ~ (p[1] = t /\ p[2] = emitted[t])
      <4>1. p # q
        BY <2>2, <3>2
      <4>2. p \in C2 <=> p \in C
        BY <2>1, <3>2 DEF CountedEvents, Events
      <4> QED BY <4>1, <4>2
    <3> QED BY <3>1, <3>2
  <2>5. C2 = C \cup {q}
    <3>1. C2 \subseteq Threads \X (1 .. PerThread) /\ C \cup {q} \subseteq Threads \X (1 .. PerThread)
      BY <2>2 DEF CountedEvents, Events
    <3> QED BY <2>4, <3>1
  <2>6. Cardinality(C2) = Cardinality(C) + 1
    BY <1>0, <2>3, <2>5, FS_AddElement
  <2>7. count' = loaded[t] + 1 /\ seq' = seq /\ loaded' = [loaded EXCEPT ![t] = 0]
    BY <1>5 DEF Bus!StoreCount
  <2>8. \A u \in Threads : loaded'[u] = 0 \/ loaded'[u] = loaded[u]
    BY <2>7 DEF BusTypes
  <2>9. count' <= Cardinality(C2)
    BY <1>0, <2>6, <2>7
  <2>10. \A u \in Threads : loaded'[u] <= Cardinality(C2) /\ seq'[u] <= PerThread * Cardinality(Threads)
    BY <1>0, <2>6, <2>7, <2>8
  <2> QED BY <2>9, <2>10 DEF NotOvercounted
<1>6. CASE \/ Bus!FetchBuffer(t) \/ Bus!AppendEvent(t) \/ Bus!FetchToCheck(t) \/ Bus!CheckLength(t)
           \/ Bus!FetchAgain(t) \/ Bus!Slice(t) \/ Bus!SwapBuffer(t)
  <2>1. UNCHANGED <<emitted, count, seq, loaded>>
    BY <1>6 DEF Bus!FetchBuffer, Bus!AppendEvent, Bus!FetchToCheck, Bus!CheckLength, Bus!FetchAgain, Bus!Slice, Bus!SwapBuffer
  <2>2. /\ where[t] \notin {"built", "adding"} /\ where'[t] \notin {"built", "adding"}
        /\ \A u \in Threads : u # t => where'[u] = where[u]
    BY <1>6 DEF Bus!FetchBuffer, Bus!AppendEvent, Bus!FetchToCheck, Bus!CheckLength, Bus!FetchAgain, Bus!Slice,
       Bus!SwapBuffer, Bus!Goes, BusTypes
  <2>3. C2 = C
    BY <2>1, <2>2 DEF CountedEvents, Events
  <2> QED BY <1>0, <1>2, <2>1, <2>3
<1> QED BY <1>3, <1>4, <1>5, <1>6 DEF Bus!Emit

-----------------------------------------------------------------------------
LEMMA BusInit == Bus!Init => BusInv
<1> SUFFICES ASSUME Bus!Init PROVE BusInv
  OBVIOUS
<1>1. /\ lists = << <<>> >> /\ current = 1 /\ count = 0
      /\ where = [t \in Threads |-> "idle"] /\ emitted = [t \in Threads |-> 0]
      /\ seq = [t \in Threads |-> 0] /\ loaded = [t \in Threads |-> 0] /\ list = [t \in Threads |-> 0]
  BY DEF Bus!Init
<1>2. /\ lists \in Seq(Seq(Event)) /\ Len(lists) = 1 /\ lists[1] = <<>> /\ Len(lists[1]) = 0
  <2> PICK s : s = <<>>
    OBVIOUS
  <2>1. s \in Seq(Event) /\ Len(s) = 0
    OBVIOUS
  <2> PICK S : S = Seq(Event)
    OBVIOUS
  <2>2. lists = <<s>> /\ s \in S
    BY <1>1, <2>1
  <2>3. lists \in Seq(S) /\ Len(lists) = 1 /\ lists[1] = s
    BY <2>2
  <2> QED BY <2>1, <2>3
<1>3. BusTypes
  <2>1. emitted \in Emissions
    BY <1>1, BusNumbers DEF Emissions
  <2> QED BY <1>1, <1>2, <2>1 DEF BusTypes, Steps
<1>4. ListsSound
  BY <1>2 DEF ListsSound, Sound
<1>5. Private /\ Watched
  BY <1>1, <1>2, BusNumbers DEF Private, Watched
<1>6. Untrimmed
  <2>1. \A t \in Threads, n \in 1 .. PerThread : ~ n <= emitted[t]
    BY <1>1, BusNumbers
  <2> QED BY <1>1, <1>2, <2>1 DEF Untrimmed
<1>7. NotOvercounted
  BY <1>1, CountedFacts DEF NotOvercounted
<1> QED BY <1>3, <1>4, <1>5, <1>6, <1>7 DEF BusInv

LEMMA BusStep == BusInv /\ [Bus!Next]_Bus!vars => BusInv'
<1> SUFFICES ASSUME BusInv, [Bus!Next]_Bus!vars PROVE BusInv'
  OBVIOUS
<1>1. ASSUME NEW t \in Threads, Bus!Emit(t) PROVE BusInv'
  <2>1. BusTypes'
    BY <1>1, TypesStep DEF BusInv
  <2>2. ListsSound'
    BY <1>1, <2>1, SoundStep DEF BusInv
  <2>3. Private' /\ Watched'
    BY <1>1, <2>1, PrivateStep, WatchedStep DEF BusInv
  <2>4. Untrimmed'
    BY <1>1, <2>1, UntrimmedStep DEF BusInv
  <2>5. NotOvercounted'
    BY <1>1, <2>1, OvercountStep DEF BusInv
  <2> QED BY <2>1, <2>2, <2>3, <2>4, <2>5 DEF BusInv
<1>2. CASE UNCHANGED Bus!vars
  <2>1. UNCHANGED <<count, lists, current, where, emitted, seq, loaded, list>>
    BY <1>2 DEF Bus!vars
  <2>2. Fresh' = Fresh /\ Trimmers' = Trimmers
    BY <2>1 DEF Fresh, Trimmers
  <2>3. BusTypes'
    BY <2>1 DEF BusInv, BusTypes
  <2>4. ListsSound'
    BY <2>1, <2>2 DEF BusInv, ListsSound
  <2>5. Private' /\ Watched'
    BY <2>1, <2>2 DEF BusInv, Private, Watched
  <2>6. Untrimmed'
    BY <2>1, <2>2 DEF BusInv, Untrimmed
  <2>7. NotOvercounted'
    BY <2>1 DEF BusInv, NotOvercounted
  <2> QED BY <2>3, <2>4, <2>5, <2>6, <2>7 DEF BusInv
<1>3. CASE Bus!Rest
  BY <1>2, <1>3 DEF Bus!Rest
<1> QED BY <1>1, <1>2, <1>3 DEF Bus!Next

LEMMA SameCardinality == \A S : Bus!Cardinality(S) = Cardinality(S)
BY Zenon DEF Bus!Cardinality, Cardinality

LEMMA BusSafe == BusInv => Bus!TypeOK /\ Bus!EventsKept
<1> SUFFICES ASSUME BusInv PROVE Bus!TypeOK /\ Bus!EventsKept
  OBVIOUS
<1>0. /\ BusTypes /\ Len(lists) \in Nat \ {0} /\ current \in Nat \ {0} /\ current <= Len(lists)
      /\ lists[current] \in Seq(Event) /\ Len(lists[current]) \in Nat
      /\ \A u \in Threads : emitted[u] \in Nat /\ emitted[u] <= PerThread
  BY ListFacts DEF BusInv, BusTypes
<1>1. Bus!TypeOK
  <2>1. current \in DOMAIN lists
    <3> PICK S : S = Seq(Event)
      OBVIOUS
    <3>1. lists \in Seq(S)
      BY <1>0 DEF BusTypes
    <3> QED BY <1>0, <3>1
  <2>2. \A t \in Threads : emitted[t] \in 0 .. PerThread /\ seq[t] \in 0 .. PerThread * Bus!Cardinality(Threads)
    <3>1. \A t \in Threads : seq[t] \in Nat /\ seq[t] <= PerThread * Cardinality(Threads)
      BY DEF BusInv, BusTypes, NotOvercounted
    <3>2. PerThread * Cardinality(Threads) \in Nat /\ PerThread \in Nat
      BY CountedFacts, BusNumbers
    <3>3. Bus!Cardinality(Threads) = Cardinality(Threads)
      BY SameCardinality
    <3> QED BY <1>0, <3>1, <3>2, <3>3
  <2> QED BY <1>0, <2>1, <2>2 DEF Bus!TypeOK, BusTypes, Steps
<1>2. ASSUME Bus!Cardinality(UNION {Bus!Begun(t) : t \in Threads}) <= MaxBuffer, NEW t \in Threads
      PROVE  Bus!Ended(t) \subseteq Bus!InBuffer
  <2> PICK B : B = UNION {Bus!Begun(u) : u \in Threads}
    OBVIOUS
  <2>1. B = Events(emitted)
    <3>1. ASSUME NEW p \in B PROVE p \in Events(emitted)
      <4>1. PICK u \in Threads : p \in {u} \X (1 .. emitted[u])
        BY DEF Bus!Begun
      <4>2. p \in Threads \X (1 .. PerThread) /\ p[1] = u /\ p[2] <= emitted[u]
        BY <1>0, <4>1, BusNumbers
      <4> QED BY <4>2 DEF Events
    <3>2. ASSUME NEW p \in Events(emitted) PROVE p \in B
      <4>1. p[1] \in Threads /\ p[2] \in 1 .. PerThread /\ p = <<p[1], p[2]>> /\ p[2] <= emitted[p[1]]
        BY DEF Events
      <4>2. p[2] \in 1 .. emitted[p[1]]
        BY <1>0, <4>1, BusNumbers
      <4>3. p \in Bus!Begun(p[1])
        BY <4>1, <4>2 DEF Bus!Begun
      <4> QED BY <4>1, <4>3
    <3> QED BY <3>1, <3>2
  <2>2. Cardinality(Events(emitted)) <= MaxBuffer
    BY <1>2, <2>1, SameCardinality
  <2>3. current = 1
    <3>1. Len(lists) = 1
      BY <2>2 DEF BusInv, Untrimmed
    <3> QED BY <1>0, <3>1
  <2> SUFFICES ASSUME NEW p \in Bus!Ended(t) PROVE p \in Bus!InBuffer
    OBVIOUS
  <2> PICK n : n = p[2]
    OBVIOUS
  <2>4. p = <<t, n>> /\ n \in 1 .. emitted[t] /\ (where[t] # "idle" => n # emitted[t])
    BY DEF Bus!Ended, Bus!Begun
  <2>5. n \in 1 .. PerThread /\ n <= emitted[t]
    BY <1>0, <2>4, BusNumbers
  <2>6. ~ (t \in Fresh /\ n = emitted[t])
    BY <2>4 DEF Fresh
  <2>7. PICK i \in 1 .. Len(lists[1]) : lists[1][i].by = t /\ lists[1][i].nr = n
    BY <2>2, <2>5, <2>6 DEF BusInv, Untrimmed
  <2>8. lists[current][i] \in Bus!ToSet(lists[current])
    <3> PICK s : s = lists[current]
      OBVIOUS
    <3>1. s \in Seq(Event) /\ i \in DOMAIN s
      BY <1>0, <2>3
    <3> QED BY <3>1 DEF Bus!ToSet
  <2> QED BY <2>3, <2>4, <2>7, <2>8 DEF Bus!InBuffer, Bus!Buffer
<1>3. ASSUME \A t \in Threads : where[t] = "idle" PROVE ~ Len(Bus!Buffer) > MaxBuffer
  BY <1>3 DEF BusInv, Watched, Trimmers, Bus!Buffer
<1>4. \A i, j \in DOMAIN Bus!Buffer :
        i < j /\ Bus!Buffer[i].by = Bus!Buffer[j].by => Bus!Buffer[i].nr < Bus!Buffer[j].nr
  <2> PICK s : s = lists[current]
    OBVIOUS
  <2>1. s \in Seq(Event) /\ Sound(s, emitted, Fresh)
    BY <1>0 DEF BusInv, ListsSound
  <2>2. \A i, j \in DOMAIN s : i < j /\ s[i].by = s[j].by => s[i].nr < s[j].nr
    BY <2>1 DEF Sound
  <2> QED BY <2>2 DEF Bus!Buffer
<1>5. Bus!EventsKept
  BY <1>2, <1>3, <1>4 DEF Bus!EventsKept
<1> QED BY <1>1, <1>5

-----------------------------------------------------------------------------
(* The gateway. Of what has passed since a time s up to the last refill,    *)
(* and what the bucket holds, no more came than it began with and flowed    *)
(* back; after the last refill nothing has passed.                          *)
Accounted ==
  \A s \in 0 .. now :
    /\ s <= refilled => Gate!PassedSince(s) + tokens <= Capacity + Rate * (refilled - s)
    /\ s > refilled => Gate!PassedSince(s) = 0

Counts ==
  /\ now \in 0 .. MaxTime /\ refilled \in 0 .. now
  /\ tokens \in 0 .. Capacity
  /\ admitted \in [0 .. MaxTime -> Nat]
  /\ requests = admitted[now]

GateInv == Counts /\ Accounted /\ Gate!TypeOK

LEMMA GateNumbers == Capacity \in Nat /\ Rate \in Nat /\ MaxTime \in Nat /\ GateTicks \in Nat
BY ServicesAssumption

(* What flows back over two periods is what flows back over both.           *)
FlowOver(a, b, c) ==
  /\ Rate * (c - a) = Rate * (b - a) + (c - b) * Rate
  /\ Rate * (b - a) \in Nat /\ (c - b) * Rate \in Nat /\ Rate * (c - a) \in Nat

LEMMA Flow == \A a, b, c \in Nat : a <= b /\ b <= c => FlowOver(a, b, c)
<1> SUFFICES ASSUME NEW a \in Nat, NEW b \in Nat, NEW c \in Nat, a <= b, b <= c
             PROVE  FlowOver(a, b, c)
  OBVIOUS
<1>1. Rate \in Nat /\ b - a \in Nat /\ c - b \in Nat /\ c - a \in Nat
  BY GateNumbers
<1>2. \A x, y \in Nat : x * y \in Nat /\ x * y = y * x
  OBVIOUS
<1>3. \A x, y, z \in Nat : x * (y + z) = x * y + x * z
  OBVIOUS
<1>4. c - a = (b - a) + (c - b)
  OBVIOUS
<1> QED BY <1>1, <1>2, <1>3, <1>4 DEF FlowOver

(* The bucket after a call, whether it let one more pass or not.            *)
LEMMA KeepSound ==
  ASSUME Counts, Accounted, NEW one \in {0, 1}, Gate!Refilled >= one,
         Gate!Keep(Gate!Refilled - one), UNCHANGED now,
         admitted' = [admitted EXCEPT ![now] = @ + one], requests' = requests + one
  PROVE  Counts' /\ Accounted'
<1> PICK r : r = Gate!Refilled
  OBVIOUS
<1> PICK back : back = (now - refilled) * Rate
  OBVIOUS
<1>0. now \in Nat /\ refilled \in Nat /\ refilled <= now /\ tokens \in Nat /\ tokens <= Capacity
      /\ now <= MaxTime
  BY GateNumbers DEF Counts
<1>1. back \in Nat
  <2>1. FlowOver(refilled, refilled, now)
    BY <1>0, Flow
  <2> QED BY <2>1 DEF FlowOver
<1>2. r \in Nat /\ r <= Capacity /\ r <= tokens + back /\ one <= r
  BY <1>0, <1>1, GateNumbers DEF Gate!Refilled, Gate!Least
<1>3. tokens' = r - one /\ refilled' = now /\ now' = now
  BY DEF Gate!Keep
<1>4. /\ admitted' \in [0 .. MaxTime -> Nat]
      /\ admitted'[now] = admitted[now] + one
      /\ \A t \in 0 .. MaxTime : t # now => admitted'[t] = admitted[t]
  BY <1>0 DEF Counts
<1>5. Counts'
  <2>1. now' \in 0 .. MaxTime /\ refilled' \in 0 .. now' /\ tokens' \in 0 .. Capacity
    BY <1>0, <1>2, <1>3, GateNumbers
  <2>2. requests' = admitted'[now']
    BY <1>3, <1>4 DEF Counts
  <2> QED BY <1>4, <2>1, <2>2 DEF Counts
<1>6. ASSUME NEW s \in 0 .. now
      PROVE  /\ Gate!PassedSince(s)' = Gate!PassedSince(s) + one
             /\ Gate!PassedSince(s) \in Int
  <2>1. s = 0 \/ (s - 1 \in 0 .. MaxTime /\ s - 1 # now)
    BY <1>0, GateNumbers
  <2>2. admitted[now] \in Nat /\ (s # 0 => admitted[s - 1] \in Nat)
    BY <1>0, <2>1 DEF Counts
  <2> QED BY <1>3, <1>4, <2>1, <2>2 DEF Gate!PassedSince
<1>7. ASSUME NEW s \in 0 .. now
      PROVE  Gate!PassedSince(s)' + tokens' <= Capacity + Rate * (now - s)
  <2> PICK p : p = Gate!PassedSince(s)
    OBVIOUS
  <2>0. p \in Int /\ Gate!PassedSince(s)' = p + one
    BY <1>6
  <2>1. CASE s <= refilled
    <3> PICK x : x = Rate * (refilled - s)
      OBVIOUS
    <3>1. Rate * (now - s) = x + back /\ x \in Nat
      <4>1. FlowOver(s, refilled, now)
        BY <1>0, <2>1, Flow
      <4> QED BY <4>1 DEF FlowOver
    <3>2. p + tokens <= Capacity + x
      BY <2>1 DEF Accounted
    <3> QED BY <1>0, <1>1, <1>2, <1>3, <2>0, <3>1, <3>2, GateNumbers
  <2>2. CASE s > refilled
    <3>1. Rate * (now - s) \in Nat
      <4>1. FlowOver(s, s, now)
        BY <1>0, Flow
      <4> QED BY <4>1 DEF FlowOver
    <3>2. p = 0
      BY <2>2 DEF Accounted
    <3> QED BY <1>0, <1>2, <1>3, <2>0, <3>1, <3>2, GateNumbers
  <2> QED BY <1>0, <2>1, <2>2
<1>8. Accounted'
  <2> SUFFICES ASSUME NEW s \in 0 .. now
               PROVE  /\ Gate!PassedSince(s)' + tokens' <= Capacity + Rate * (refilled' - s)
                      /\ ~ s > refilled'
    BY <1>3 DEF Accounted
  <2> QED BY <1>0, <1>3, <1>7
<1> QED BY <1>5, <1>8

LEMMA GateInit == Gate!Init => GateInv
<1> SUFFICES ASSUME Gate!Init PROVE GateInv
  OBVIOUS
<1>1. now = 0 /\ refilled = 0 /\ tokens = Capacity /\ requests = 0 /\ ticks = 0
      /\ admitted = [t \in 0 .. MaxTime |-> 0]
  BY DEF Gate!Init, Gate!Times
<1>2. 0 \in 0 .. MaxTime /\ 0 \in 0 .. 0 /\ Capacity \in 0 .. Capacity /\ 0 \in 0 .. GateTicks
  BY GateNumbers
<1>3. Counts
  BY <1>1, <1>2 DEF Counts
<1>4. Accounted
  <2> SUFFICES ASSUME NEW s \in 0 .. 0
               PROVE  Gate!PassedSince(s) + Capacity <= Capacity + Rate * (0 - s) /\ ~ s > 0
    BY <1>1 DEF Accounted
  <2>1. s = 0 /\ Gate!PassedSince(s) = 0
    BY <1>1, <1>2 DEF Gate!PassedSince
  <2>2. Rate * (0 - 0) = 0
    BY GateNumbers
  <2> QED BY <2>1, <2>2, GateNumbers
<1>5. Gate!TypeOK
  <2>1. secured \in BOOLEAN /\ has \subseteq Probed
    BY ServicesAssumption DEF Gate!Init
  <2>2. reply.of = "none"
    BY DEF Gate!Init
  <2>3. now \in 0 .. MaxTime /\ refilled \in 0 .. now
    BY <1>1, <1>2
  <2> QED BY <1>1, <1>2, <2>1, <2>2, <2>3 DEF Gate!TypeOK, Gate!Times
<1> QED BY <1>3, <1>4, <1>5 DEF GateInv

(* A request, with a key or without, that the bucket sees or does not.      *)
LEMMA HandleSound ==
  ASSUME Counts, Accounted, NEW endpoint \in Gate!Endpoints, NEW keyed \in BOOLEAN,
         Gate!Handle(endpoint, keyed), UNCHANGED now
  PROVE  Counts' /\ Accounted' /\ reply'.of \in Gate!Endpoints
<1>0. reply'.of \in Gate!Endpoints
  BY DEF Gate!Handle, Gate!Replies
<1>1. CASE UNCHANGED <<tokens, refilled, requests, admitted>>
  BY <1>0, <1>1 DEF Counts, Accounted, Gate!PassedSince
<1>2. CASE Gate!Refuse /\ UNCHANGED <<requests, admitted>>
  <2>1. now \in 0 .. MaxTime /\ admitted \in [0 .. MaxTime -> Nat] /\ requests \in Nat
    BY GateNumbers DEF Counts
  <2>2. admitted' = [admitted EXCEPT ![now] = @ + 0] /\ requests' = requests + 0
    BY <1>2, <2>1
  <2>3. Gate!Refilled \in Nat
    <3>1. now \in Nat /\ refilled \in Nat /\ refilled <= now /\ tokens \in Nat
      BY GateNumbers DEF Counts
    <3>2. (now - refilled) * Rate \in Nat
      <4>1. FlowOver(refilled, refilled, now)
        BY <3>1, Flow
      <4> QED BY <4>1 DEF FlowOver
    <3> QED BY <3>1, <3>2, GateNumbers DEF Gate!Refilled, Gate!Least
  <2>4. Gate!Keep(Gate!Refilled - 0)
    BY <1>2, <2>3 DEF Gate!Refuse, Gate!Keep
  <2>5. Gate!Refilled >= 0
    BY <2>3
  <2> QED BY <1>0, <2>2, <2>4, <2>5, KeepSound
<1>3. CASE /\ Gate!Consume /\ requests' = requests + 1
           /\ admitted' = [admitted EXCEPT ![now] = @ + 1]
  BY <1>0, <1>3, KeepSound DEF Gate!Consume
<1> QED BY <1>1, <1>2, <1>3 DEF Gate!Handle, Gate!bucket

LEMMA TimeSound ==
  ASSUME Counts, Accounted, Gate!TimePasses
  PROVE  Counts' /\ Accounted'
<1>0. now \in Nat /\ refilled \in Nat /\ refilled <= now /\ now + 1 <= MaxTime
  BY GateNumbers DEF Counts, Gate!TimePasses
<1>1. now' = now + 1 /\ UNCHANGED <<tokens, refilled, requests>>
  BY DEF Gate!TimePasses, Gate!bucket
<1>2. /\ admitted' \in [0 .. MaxTime -> Nat]
      /\ admitted'[now + 1] = admitted[now]
      /\ \A t \in 0 .. now : admitted'[t] = admitted[t]
  <2>1. admitted' = [admitted EXCEPT ![now + 1] = admitted[now]]
    BY <1>1 DEF Gate!TimePasses
  <2> QED BY <1>0, <2>1 DEF Counts
<1>3. Counts'
  <2>1. now' \in 0 .. MaxTime /\ refilled' \in 0 .. now'
    BY <1>0, <1>1, GateNumbers
  <2> QED BY <1>1, <1>2, <2>1 DEF Counts
<1>4. ASSUME NEW s \in 0 .. now + 1
      PROVE  /\ s <= refilled => Gate!PassedSince(s)' + tokens <= Capacity + Rate * (refilled - s)
             /\ s > refilled => Gate!PassedSince(s)' = 0
  <2>1. CASE s <= now
    <3>1. s = 0 \/ s - 1 \in 0 .. now
      BY <1>0, <2>1
    <3>2. Gate!PassedSince(s)' = Gate!PassedSince(s)
      BY <1>0, <1>1, <1>2, <3>1 DEF Gate!PassedSince
    <3>3. s \in 0 .. now
      BY <1>0, <2>1
    <3> QED BY <3>2, <3>3 DEF Accounted
  <2>2. CASE s = now + 1
    <3>1. Gate!PassedSince(s)' = 0
      <4>1. admitted[now] \in Nat /\ now \in 0 .. now /\ s # 0 /\ s - 1 = now
        BY <1>0, <2>2 DEF Counts
      <4> QED BY <1>1, <1>2, <2>2, <4>1 DEF Gate!PassedSince
    <3>2. ~ s <= refilled
      BY <1>0, <2>2
    <3> QED BY <3>1, <3>2
  <2> QED BY <1>0, <2>1, <2>2
<1>5. Accounted'
  BY <1>1, <1>4 DEF Accounted
<1> QED BY <1>3, <1>5

LEMMA GateStep == GateInv /\ [Gate!Next]_Gate!vars => GateInv'
<1> SUFFICES ASSUME Counts, Accounted, Gate!TypeOK, [Gate!Next]_Gate!vars
             PROVE  Counts' /\ Accounted' /\ Gate!TypeOK'
  BY DEF GateInv
<1>0. \E e \in Gate!Endpoints : TRUE
  BY DEF Gate!Endpoints
<1>1. ASSUME Counts' /\ Accounted', UNCHANGED <<secured, has>>, ticks' \in 0 .. GateTicks,
             reply'.of \in Gate!Endpoints \cup {"memory", "none"}
      PROVE  Gate!TypeOK'
  <2>1. requests' \in Nat
    BY <1>1 DEF Counts
  <2> QED BY <1>1, <2>1 DEF Gate!TypeOK, Counts, Gate!Times, Gate!Endpoints, Gate!Always
<1>2. CASE Gate!Request
  <2>1. UNCHANGED <<secured, has, now, ticks>>
    BY <1>2 DEF Gate!Request
  <2>2. Counts' /\ Accounted' /\ reply'.of \in Gate!Endpoints
    BY <1>2, <2>1, HandleSound DEF Gate!Request
  <2> QED BY <1>1, <2>1, <2>2 DEF Gate!TypeOK
<1>3. ASSUME UNCHANGED <<now, tokens, refilled, requests, admitted>> PROVE Counts' /\ Accounted'
  BY <1>3 DEF Counts, Accounted, Gate!PassedSince
<1>4. ASSUME Gate!Tick PROVE ticks' \in 0 .. GateTicks /\ reply'.of \in Gate!Endpoints
  BY <1>4, GateNumbers DEF Gate!Tick, Gate!Replies, Gate!TypeOK, Gate!Endpoints
<1>5. CASE Gate!TickRequest
  BY <1>1, <1>3, <1>4, <1>5 DEF Gate!TickRequest, Gate!bucket
<1>6. CASE Gate!CallTool
  <2>1. CASE /\ \E endpoint \in Gate!Endpoints \ {"ready", "live", "metrics", "tick", "unknown"} :
                  Gate!Handle(endpoint, FALSE)
             /\ UNCHANGED <<secured, has, now, ticks>>
    <3>1. Counts' /\ Accounted' /\ reply'.of \in Gate!Endpoints
      BY <2>1, HandleSound
    <3> QED BY <1>1, <2>1, <3>1 DEF Gate!TypeOK
  <2>2. CASE /\ Gate!Tick \/ (Gate!Replies("tick", "raises") /\ UNCHANGED ticks)
             /\ UNCHANGED <<secured, has, now, Gate!bucket, requests, admitted>>
    <3>1. ticks' \in 0 .. GateTicks /\ reply'.of \in Gate!Endpoints
      BY <1>4, <2>2 DEF Gate!Replies, Gate!TypeOK, Gate!Endpoints
    <3> QED BY <1>1, <1>3, <2>2, <3>1 DEF Gate!bucket
  <2>3. CASE /\ Gate!Replies("memory", IF "memory" \in has THEN "data" ELSE "error")
             /\ UNCHANGED <<secured, has, now, Gate!bucket, requests, ticks, admitted>>
    BY <1>1, <1>3, <2>3 DEF Gate!bucket, Gate!Replies, Gate!TypeOK
  <2> QED BY <1>6, <2>1, <2>2, <2>3 DEF Gate!CallTool
<1>7. CASE Gate!TimePasses
  <2>1. Counts' /\ Accounted'
    BY <1>7, TimeSound
  <2>2. UNCHANGED <<secured, has, ticks, reply>>
    BY <1>7 DEF Gate!TimePasses
  <2> QED BY <1>1, <2>1, <2>2 DEF Gate!TypeOK
<1>8. CASE UNCHANGED Gate!vars
  BY <1>1, <1>3, <1>8 DEF Gate!vars, Gate!bucket, Gate!TypeOK
<1> QED BY <1>2, <1>5, <1>6, <1>7, <1>8 DEF Gate!Next

LEMMA GateSafe == GateInv => Gate!RateIsBounded
<1> SUFFICES ASSUME Counts, Accounted PROVE Gate!RateIsBounded
  BY DEF GateInv
<1>0. now \in Nat /\ refilled \in Nat /\ refilled <= now /\ tokens \in Nat
  BY GateNumbers DEF Counts
<1>1. ASSUME NEW s \in 0 .. now PROVE Gate!PassedSince(s) <= Capacity + Rate * (now - s)
  <2>0. Gate!PassedSince(s) \in Int
    <3>1. now \in 0 .. MaxTime /\ (s = 0 \/ s - 1 \in 0 .. MaxTime)
      BY <1>0, GateNumbers DEF Counts
    <3>2. admitted[now] \in Nat /\ (s # 0 => admitted[s - 1] \in Nat)
      BY <3>1 DEF Counts
    <3> QED BY <3>2 DEF Gate!PassedSince
  <2> PICK p : p = Gate!PassedSince(s)
    OBVIOUS
  <2>1. CASE s <= refilled
    <3> PICK x : x = Rate * (refilled - s)
      OBVIOUS
    <3> PICK y : y = (now - refilled) * Rate
      OBVIOUS
    <3>1. Rate * (now - s) = x + y /\ x \in Nat /\ y \in Nat
      <4>1. FlowOver(s, refilled, now)
        BY <1>0, <2>1, Flow
      <4> QED BY <4>1 DEF FlowOver
    <3>2. p + tokens <= Capacity + x
      BY <2>1 DEF Accounted
    <3> QED BY <1>0, <2>0, <3>1, <3>2, GateNumbers
  <2>2. CASE s > refilled
    <3>1. Rate * (now - s) \in Nat
      <4>1. FlowOver(s, s, now)
        BY <1>0, Flow
      <4> QED BY <4>1 DEF FlowOver
    <3>2. p = 0
      BY <2>2 DEF Accounted
    <3> QED BY <2>0, <3>1, <3>2, GateNumbers
  <2> QED BY <1>0, <2>1, <2>2
<1>2. requests = Gate!PassedSince(0)
  <2>1. admitted[now] \in Nat
    BY GateNumbers DEF Counts
  <2> QED BY <2>1 DEF Counts, Gate!PassedSince
<1> QED BY <1>1, <1>2 DEF Gate!RateIsBounded

-----------------------------------------------------------------------------
(* The life of a ColossusOrchestrator.                                     *)

(* The records, apart: their numbers are those of ticks that have been, in  *)
(* order, and only a shutdown has the number of the record before it.       *)
Record == [kind : {"TICK", "SHUTDOWN"}, tick : Nat]

RecordsInv ==
  /\ tick \in Nat
  /\ records \in Seq(Record)
  /\ \A i \in 1 .. Len(records) :
       /\ records[i].kind \in {"TICK", "SHUTDOWN"}
       /\ records[i].tick \in Nat /\ records[i].tick <= tick
  /\ \A i, j \in 1 .. Len(records) : i < j =>
       \/ records[i].tick < records[j].tick
       \/ records[i].tick = records[j].tick /\ records[j].kind = "SHUTDOWN"

(* The run: a built orchestrator finds what its loop reads, only a built    *)
(* one runs, and while it runs it has ticks to do until it leaves.          *)
RunInv ==
  /\ built \in {"no", "yes", "KeyError"} /\ remembers \in BOOLEAN
  /\ inRun \in {"idle", "head", "sleeping", "leaving"}
  /\ returned \in {"never", "returned", "raised"}
  /\ tick \in 0 .. LifeTicks /\ asked \in Durations /\ done \in 0 .. tick
  /\ overall \in {"nominal", "degraded", "emergency", "critical"}
  /\ built = "yes" => "required" \in manifest["thermal"]
  /\ inRun # "idle" => built = "yes" /\ returned = "never"
  /\ inRun \in {"head", "sleeping"} => asked = 0 \/ done < asked
  /\ inRun = "leaving" => asked > 0 /\ done = asked
  /\ asked > 0 => done <= asked
  /\ returned = "returned" => shutdown \/ (asked > 0 /\ done = asked)

LifeInv == RecordsInv /\ RunInv

LEMMA LifeNumbers == LifeTicks \in Nat /\ Durations \subseteq Nat /\ 0 \in Durations
BY ServicesAssumption

LEMMA LifeInit == Life!Init => LifeInv
<1> SUFFICES ASSUME Life!Init PROVE LifeInv
  OBVIOUS
<1>1. RecordsInv
  BY DEF Life!Init, RecordsInv
<1>2. RunInv
  <2>1. 0 \in 0 .. LifeTicks /\ 0 \in 0 .. 0
    BY LifeNumbers
  <2>2. tick \in 0 .. LifeTicks /\ done \in 0 .. tick /\ asked = 0 /\ asked \in Durations
    BY <2>1, LifeNumbers DEF Life!Init
  <2>3. overall = "nominal" /\ inRun = "idle" /\ built = "no" /\ returned = "never" /\ remembers = FALSE
    BY DEF Life!Init
  <2>4. built \in {"no", "yes", "KeyError"} /\ remembers \in BOOLEAN
    BY <2>3
  <2>5. /\ inRun \in {"idle", "head", "sleeping", "leaving"}
        /\ returned \in {"never", "returned", "raised"}
        /\ overall \in {"nominal", "degraded", "emergency", "critical"}
    BY <2>3
  <2>6. built # "yes" /\ inRun = "idle" /\ returned # "returned" /\ ~ asked > 0
    BY <2>2, <2>3
  <2> QED BY <2>2, <2>4, <2>5, <2>6 DEF RunInv
<1> QED BY <1>1, <1>2 DEF LifeInv

(* persist_tick after a tick, or with the number of the last one when the   *)
(* run ends.                                                                *)
LEMMA PersistSound ==
  ASSUME RecordsInv, NEW kind \in {"TICK", "SHUTDOWN"}, Life!Persist(kind),
         tick' = IF kind = "TICK" THEN tick + 1 ELSE tick
  PROVE  RecordsInv'
<1>1. tick' \in Nat /\ tick <= tick' /\ (kind = "TICK" => tick < tick')
  BY DEF RecordsInv
<1>2. CASE UNCHANGED records
  <2>1. \A i \in 1 .. Len(records) : records[i].tick <= tick'
    BY <1>1 DEF RecordsInv
  <2> QED BY <1>1, <1>2, <2>1 DEF RecordsInv
<1>3. CASE records' = Append(records, [kind |-> kind, tick |-> tick'])
  <2> PICK e : e = [kind |-> kind, tick |-> tick']
    OBVIOUS
  <2>1. e \in Record /\ e.kind = kind /\ e.tick = tick'
    BY <1>1 DEF Record
  <2>2. /\ records' \in Seq(Record)
        /\ Len(records') = Len(records) + 1 /\ Len(records) \in Nat
        /\ records'[Len(records) + 1] = e
        /\ \A i \in 1 .. Len(records) : records'[i] = records[i]
    BY <1>3, <2>1 DEF RecordsInv
  <2>4. \A i \in 1 .. Len(records') : i \in 1 .. Len(records) \/ i = Len(records) + 1
    BY <2>2
  <2>5. ASSUME NEW i \in 1 .. Len(records')
        PROVE  /\ records'[i].kind \in {"TICK", "SHUTDOWN"}
               /\ records'[i].tick \in Nat /\ records'[i].tick <= tick'
    <3>1. CASE i \in 1 .. Len(records)
      BY <1>1, <2>2, <3>1 DEF RecordsInv
    <3>2. CASE i = Len(records) + 1
      BY <1>1, <2>1, <2>2, <3>2
    <3> QED BY <2>4, <3>1, <3>2
  <2>6. ASSUME NEW i \in 1 .. Len(records'), NEW j \in 1 .. Len(records'), i < j
        PROVE  \/ records'[i].tick < records'[j].tick
               \/ records'[i].tick = records'[j].tick /\ records'[j].kind = "SHUTDOWN"
    <3>0. i \in 1 .. Len(records)
      BY <2>2, <2>4, <2>6
    <3>1. CASE j \in 1 .. Len(records)
      BY <2>2, <2>6, <3>0, <3>1 DEF RecordsInv
    <3>2. CASE j = Len(records) + 1
      <4>1. records'[i].tick <= tick /\ records'[i].tick \in Nat
        BY <2>2, <3>0 DEF RecordsInv
      <4>2. records'[j].tick = tick' /\ records'[j].kind = kind
        BY <2>1, <2>2, <3>2
      <4>3. tick \in Nat
        BY DEF RecordsInv
      <4> QED BY <1>1, <4>1, <4>2, <4>3
    <3> QED BY <2>4, <3>1, <3>2
  <2> QED BY <1>1, <2>2, <2>5, <2>6 DEF RecordsInv
<1> QED BY <1>2, <1>3 DEF Life!Persist

(* What the loop cannot do without is there in every manifest that has been *)
(* filled.                                                                  *)
LEMMA FilledIsRunnable ==
  ASSUME NEW m PROVE "required" \in Life!Filled(m)["thermal"]
BY DEF Life!Filled, Life!Defaulted, Life!Defaults

LEMMA BreakSound ==
  ASSUME RunInv, Life!Break
  PROVE  records' = records /\ overall' \in {"nominal", "degraded", "emergency", "critical"}
BY DEF Life!Break, Life!ComputeHealth, Life!HealthOf, RunInv

LEMMA LifeStep == LifeInv /\ [Life!Next]_Life!vars => LifeInv'
<1> SUFFICES ASSUME RecordsInv, RunInv, [Life!Next]_Life!vars PROVE RecordsInv' /\ RunInv'
  BY DEF LifeInv
<1> USE DEF Life!vars
<1>0. tick \in Nat /\ done \in Nat /\ asked \in Nat
  BY LifeNumbers DEF RunInv
<1>1. CASE Life!Build
  <2>1. built' \in {"yes", "KeyError"} /\ built # "yes" /\ "required" \in manifest'["thermal"]
    BY <1>1, FilledIsRunnable DEF Life!Build
  <2>2. remembers' \in BOOLEAN
    BY <1>1 DEF Life!Build, RunInv
  <2>3. UNCHANGED <<inRun, shutdown, tick, overall, asked, done, records, returned>>
    BY <1>1 DEF Life!Build
  <2>4. RunInv'
    BY <2>1, <2>2, <2>3 DEF RunInv
  <2> QED BY <2>3, <2>4 DEF RecordsInv
<1>2. ASSUME Life!Report, tick' = tick + 1 PROVE RecordsInv' /\ overall' \in {"nominal", "degraded", "emergency", "critical"}
  BY <1>2, PersistSound DEF Life!Report, Life!ComputeHealth, Life!HealthOf
<1>3. CASE Life!TickAlone
  <2>1. tick' = tick + 1 /\ tick < LifeTicks
    BY <1>3 DEF Life!TickAlone, Life!BeginTick
  <2>2. RecordsInv' /\ overall' \in {"nominal", "degraded", "emergency", "critical"}
    <3>1. CASE Life!Report
      BY <1>2, <2>1, <3>1
    <3>2. CASE Life!Break
      <4>1. \A i \in 1 .. Len(records) : records[i].tick <= tick'
        BY <1>0, <2>1 DEF RecordsInv
      <4>2. records' = records /\ overall' \in {"nominal", "degraded", "emergency", "critical"}
        BY <3>2, BreakSound
      <4> QED BY <1>0, <2>1, <4>1, <4>2 DEF RecordsInv, RunInv
    <3> QED BY <1>3, <3>1, <3>2 DEF Life!TickAlone
  <2>3. UNCHANGED <<manifest, built, remembers, inRun, shutdown, asked, done, returned>>
    BY <1>3 DEF Life!TickAlone
  <2>4. tick' \in 0 .. LifeTicks /\ done \in 0 .. tick'
    BY <1>0, <2>1, LifeNumbers DEF RunInv
  <2>5. RunInv'
    BY <2>2, <2>3, <2>4 DEF RunInv
  <2> QED BY <2>2, <2>5
<1>4. CASE Life!Run
  <2>1. RunInv'
    BY <1>0, <1>4, LifeNumbers DEF Life!Run, RunInv
  <2> QED BY <1>4, <2>1 DEF Life!Run, RecordsInv
<1>5. CASE Life!Iterate
  <2>1. tick' = tick + 1 /\ tick < LifeTicks /\ done' = done + 1
    BY <1>5 DEF Life!Iterate, Life!BeginTick
  <2>2. RecordsInv' /\ overall' \in {"nominal", "degraded", "emergency", "critical"}
    BY <1>2, <1>5, <2>1 DEF Life!Iterate
  <2>3. tick' \in 0 .. LifeTicks /\ done' \in 0 .. tick'
    BY <1>0, <2>1, LifeNumbers DEF RunInv
  <2>4. inRun' = IF Life!Enough(done') THEN "leaving" ELSE "sleeping"
    BY <1>5 DEF Life!Iterate
  <2>5. inRun = "head" /\ UNCHANGED <<manifest, built, remembers, shutdown, asked, returned>>
    BY <1>5 DEF Life!Iterate
  <2>6. asked = 0 \/ done < asked
    BY <2>5 DEF RunInv
  <2>7. CASE Life!Enough(done')
    BY <1>0, <2>1, <2>2, <2>3, <2>4, <2>5, <2>6, <2>7 DEF RunInv, Life!Enough
  <2>8. CASE ~ Life!Enough(done')
    BY <1>0, <2>1, <2>2, <2>3, <2>4, <2>5, <2>6, <2>8 DEF RunInv, Life!Enough
  <2> QED BY <2>7, <2>8
<1>6. CASE Life!Wake
  BY <1>6 DEF Life!Wake, RecordsInv, RunInv
<1>7. CASE Life!Raise
  <2>1. tick' \in 0 .. LifeTicks /\ tick <= tick'
    BY <1>0, <1>7, LifeNumbers DEF Life!Raise, Life!BeginTick, RunInv
  <2>2. /\ UNCHANGED <<manifest, built, remembers, shutdown, asked, done, records>>
        /\ overall' \in {"nominal", "degraded", "emergency", "critical"}
    BY <1>7, BreakSound DEF Life!Raise, RunInv
  <2>3. inRun' = "idle" /\ returned' = "raised"
    BY <1>7 DEF Life!Raise
  <2>4. tick' \in Nat /\ done \in 0 .. tick'
    BY <1>0, <2>1, LifeNumbers DEF RunInv
  <2>5. RunInv'
    BY <2>1, <2>2, <2>3, <2>4 DEF RunInv
  <2>6. RecordsInv'
    <3>1. \A i \in 1 .. Len(records) : records[i].tick <= tick'
      BY <1>0, <2>1, <2>4 DEF RecordsInv
    <3> QED BY <2>2, <2>4, <3>1 DEF RecordsInv
  <2> QED BY <2>5, <2>6
<1>8. CASE Life!Finish
  <2>1. RecordsInv'
    BY <1>8, PersistSound DEF Life!Finish
  <2>2. RunInv'
    BY <1>8 DEF Life!Finish, RunInv
  <2> QED BY <2>1, <2>2
<1>9. CASE Life!Signal
  BY <1>9 DEF Life!Signal, RecordsInv, RunInv
<1>10. CASE UNCHANGED Life!vars
  BY <1>10 DEF RecordsInv, RunInv
<1> QED BY <1>1, <1>3, <1>4, <1>5, <1>6, <1>7, <1>8, <1>9, <1>10 DEF Life!Next

(* The gauge of health does not fall with one anomaly more.                 *)
LEMMA GaugeRises == Life!HealthIsMonotone
<1> SUFFICES ASSUME NEW c \in 0 .. MaxReports, NEW w \in 0 .. MaxReports
             PROVE  /\ Life!Gauge[Life!HealthOf(c, w)] <= Life!Gauge[Life!HealthOf(c + 1, w)]
                    /\ Life!Gauge[Life!HealthOf(c, w)] <= Life!Gauge[Life!HealthOf(c, w + 1)]
  BY DEF Life!HealthIsMonotone
<1>1. c \in Nat /\ w \in Nat
  BY ServicesAssumption
<1>2. CASE c >= 3
  BY <1>1, <1>2 DEF Life!Gauge, Life!HealthOf
<1>3. CASE ~ c >= 3 /\ c >= 1
  BY <1>1, <1>3 DEF Life!Gauge, Life!HealthOf
<1>4. CASE ~ c >= 1
  BY <1>1, <1>4 DEF Life!Gauge, Life!HealthOf
<1> QED BY <1>1, <1>2, <1>3, <1>4

LEMMA LifeSafe == LifeInv => Life!TypeOK /\ Life!RunsAreRecorded
<1> SUFFICES ASSUME LifeInv PROVE Life!TypeOK /\ Life!RunsAreRecorded
  OBVIOUS
<1>1. DOMAIN records = 1 .. Len(records)
  BY DEF LifeInv, RecordsInv
<1>2. \A i \in DOMAIN records : records[i].kind \in {"TICK", "SHUTDOWN"}
  BY <1>1 DEF LifeInv, RecordsInv
<1>3. DOMAIN Life!Gauge = {"nominal", "degraded", "emergency", "critical"}
  BY DEF Life!Gauge
<1>4. Life!TypeOK
  BY <1>2, <1>3 DEF LifeInv, RunInv, Life!TypeOK
<1>5. Life!RunsAreRecorded
  BY <1>1 DEF LifeInv, RunInv, RecordsInv, Life!RunsAreRecorded
<1> QED BY <1>4, <1>5

-----------------------------------------------------------------------------
(* All of them together: a step is one of one part, and the others rest.    *)
AllInv == IInv /\ Holds /\ LoopInv /\ BusInv /\ GateInv /\ LifeInv

LEMMA AllStart == AllInit => AllInv
BY InvInit, HoldsInit, LoopInit, BusInit, GateInit, LifeInit DEF AllInit, AllInv

LEMMA OnePartMoves ==
  ASSUME [AllNext]_allVars
  PROVE  /\ [Next]_vars /\ [Loop!Next]_Loop!vars /\ [Bus!Next]_Bus!vars
         /\ [Gate!Next]_Gate!vars /\ [Life!Next]_Life!vars
<1>1. UNCHANGED loopVars => UNCHANGED Loop!vars
  BY DEF loopVars, Loop!vars
<1>2. UNCHANGED busVars => UNCHANGED Bus!vars
  BY DEF busVars, Bus!vars
<1>3. UNCHANGED gateVars => UNCHANGED Gate!vars
  BY DEF gateVars, Gate!vars, Gate!bucket
<1>4. UNCHANGED lifeVars => UNCHANGED Life!vars
  BY DEF lifeVars, Life!vars
<1> QED BY <1>1, <1>2, <1>3, <1>4 DEF AllNext, allVars

LEMMA AllMove == AllInv /\ [AllNext]_allVars => AllInv'
<1> SUFFICES ASSUME AllInv, [AllNext]_allVars PROVE AllInv'
  OBVIOUS
<1>1. IInv' /\ Holds'
  BY OnePartMoves, InvStep, HoldsStep DEF AllInv
<1>2. LoopInv' /\ BusInv' /\ GateInv' /\ LifeInv'
  BY OnePartMoves, LoopStep, BusStep, GateStep, LifeStep DEF AllInv
<1> QED BY <1>1, <1>2 DEF AllInv

LEMMA AllAlways == AllSpec => []AllInv
BY AllStart, AllMove, PTL DEF AllSpec

(* The fields of the bindings, the loop, the bus, the gateway and the life  *)
(* of the other orchestrator have values their code gives them; a sequence  *)
(* number never passes the number of events there can be (emit), a bucket   *)
(* holds no more than its capacity (consume).                               *)
THEOREM ServicesTypeCorrect == AllSpec => []TypesOK
<1>1. AllInv => TypesOK
  BY TypesHold, BusSafe, LifeSafe DEF AllInv, LoopInv, GateInv, TypesOK
<1> QED BY <1>1, AllAlways, PTL

(* Of any number of run() calls that share the running flag, one returns    *)
(* with ticks left only if stop() was called or another one ended since it  *)
(* began; and whatever manifest, signals and failing ticks there are, a     *)
(* run of the other orchestrator finds what its loop reads, does the ticks  *)
(* it was asked for and leaves its records in order (run, stop, tick_cycle).*)
THEOREM RunsEnd == AllSpec => []RunsEndAsAsked
<1>1. AllInv => RunsEndAsAsked
  BY LifeSafe, GaugeRises DEF AllInv, LoopInv, RunsEndAsAsked
<1> QED BY <1>1, AllAlways, PTL

(* However many threads emit without a lock, and however they interleave:   *)
(* none of the events is lost until there are more than the buffer holds,   *)
(* the buffer is within its limit whenever no emit is going on, and the     *)
(* events of one thread keep their order (emit).                            *)
THEOREM EventsAreKept == AllSpec => []EventsKept
<1>1. AllInv => EventsKept
  BY BusSafe DEF AllInv, EventsKept
<1> QED BY <1>1, AllAlways, PTL

(* In every window of time no more requests pass than the bucket holds and  *)
(* what flows back meanwhile, for every capacity and rate (consume, handle).*)
THEOREM RateHolds == AllSpec => []RateIsBounded
<1>1. AllInv => RateIsBounded
  BY GateSafe DEF AllInv, RateIsBounded
<1> QED BY <1>1, AllAlways, PTL
=============================================================================
