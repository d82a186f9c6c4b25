-------------------------- MODULE AspenBridge_proofs ---------------------------
(***************************************************************************)
(* Proofs about AspenBridge, for any number of processes, crashes and torn *)
(* lines, and with renames between another process's open and its write:   *)
(* no tick is read twice, those of a process stay in order, none is lost   *)
(* that a cut-short append or a replaced file does not account for, and a  *)
(* restart finds each process's newest ticks without a gap.                *)
(***************************************************************************)
EXTENDS AspenBridge, FiniteSetTheorems, SequenceTheorems, WellFoundedInduction, TLAPS

(* The type that the order of the files needs.                              *)
FilesType ==
  /\ lines \in [Files -> Seq(0 .. ticks)]
  /\ cut \in [Files -> BOOLEAN]
  /\ \A f \in Files : cut[f] => lines[f] # <<>>
  /\ warm \in 0 .. ticks /\ archives \in [Seconds -> 0 .. ticks]
  /\ now \in Seconds
  /\ phase \in [Processes -> {"down", "loading", "up", "rotating", "ready", "writing"}]
  /\ stamp \in [Processes -> Seconds]
  /\ fd \in [Processes -> 0 .. ticks] /\ entry \in [Processes -> 0 .. ticks]
  /\ madeBy \in Seq(Processes) /\ ticks <= MaxTicks

(* What a process has open to write or read is a file, and what it is about *)
(* to write is the newest tick it made: all its others are in that file or  *)
(* in older ones.                                                           *)
Pending ==
  \A p \in Processes :
    /\ phase[p] \in {"loading", "writing"} => fd[p] # None
    /\ phase[p] = "writing" =>
         /\ entry[p] # 0 /\ madeBy[entry[p]] = p
         /\ \A f \in Files : \A i \in DOMAIN lines[f] :
              lines[f][i] # Torn /\ madeBy[lines[f][i]] = p => lines[f][i] < entry[p] /\ f <= fd[p]

\* No file with a line in it, and none that is open, was made after the warm file.
Newest ==
  /\ \A f \in Files : lines[f] # <<>> => f <= ticks /\ (warm # None => f <= warm)
  /\ \A p \in Processes : warm # None => fd[p] <= warm

FilesInv == FilesType /\ Pending /\ Newest /\ TicksOnceInOrder

(* An append leaves each old line as it was or makes it undecodable, and    *)
(* its last line is the given one or undecodable.                           *)
LEMMA AppendLines ==
  ASSUME FilesType, NEW f \in Files, NEW line \in 0 .. ticks, NEW L, L = Extended(f, line)
  PROVE  /\ L \in Seq(0 .. ticks) /\ L # <<>>
         /\ \A i \in DOMAIN L : \/ L[i] = Torn
                                \/ i \in DOMAIN lines[f] /\ L[i] = lines[f][i]
                                \/ i = Len(lines[f]) + 1 /\ L[i] = line
         /\ L[Len(L)] = IF cut[f] THEN Torn ELSE line
         /\ ~ cut[f] => ToSet(L) = ToSet(lines[f]) \cup {line}
         /\ cut[f] => ToSet(lines[f]) \ {lines[f][Len(lines[f])]} \subseteq ToSet(L)
<1> USE DEF Torn
<1>0. PICK K, n : K = lines[f] /\ n = ticks
  OBVIOUS
<1>1. n \in Nat /\ K \in Seq(0 .. n) /\ line \in 0 .. n /\ (cut[f] => K # <<>>)
  BY <1>0 DEF FilesType, ticks
<1>2. PICK k \in Nat : k = Len(K) /\ DOMAIN K = 1 .. k /\ \A i \in 1 .. k : K[i] \in 0 .. n
  BY <1>1
<1>3. CASE cut[f]
  <2>1. L = [K EXCEPT ![k] = 0] /\ k \in DOMAIN K /\ k > 0
    BY <1>0, <1>1, <1>2, <1>3 DEF Extended
  <2>2. DOMAIN L = 1 .. k /\ L \in Seq(0 .. n) /\ L # <<>> /\ Len(L) = k /\ L[k] = 0
    BY <1>1, <1>2, <2>1
  <2>3. \A i \in 1 .. k : i # k => L[i] = K[i]
    BY <1>2, <2>1
  <2>4. ASSUME NEW m \in ToSet(K) \ {K[k]} PROVE m \in ToSet(L)
    <3>1. PICK i \in 1 .. k : K[i] = m /\ i # k
      BY <1>2, <2>4 DEF ToSet
    <3> QED BY <2>2, <2>3, <3>1 DEF ToSet
  <2> QED BY <1>0, <1>2, <1>3, <2>2, <2>3, <2>4
<1>4. CASE ~ cut[f]
  <2>1. L = Append(K, line)
    BY <1>0, <1>4 DEF Extended
  <2>2. /\ L \in Seq(0 .. n) /\ Len(L) = k + 1 /\ L[k + 1] = line /\ L # <<>>
        /\ \A i \in 1 .. k : L[i] = K[i]
        /\ DOMAIN L = 1 .. (k + 1)
    BY <1>1, <1>2, <2>1
  <2>3. ASSUME NEW m \in ToSet(L) PROVE m \in ToSet(K) \cup {line}
    <3>1. PICK i \in 1 .. (k + 1) : L[i] = m
      BY <2>2, <2>3 DEF ToSet
    <3>2. i = k + 1 \/ i \in 1 .. k
      OBVIOUS
    <3> QED BY <1>2, <2>2, <3>1, <3>2 DEF ToSet
  <2>4. ASSUME NEW m \in ToSet(K) PROVE m \in ToSet(L)
    <3>1. PICK i \in 1 .. k : K[i] = m
      BY <1>2, <2>4 DEF ToSet
    <3> QED BY <2>2, <3>1 DEF ToSet
  <2>5. line \in ToSet(L)
    <3>1. k + 1 \in DOMAIN L
      BY <2>2
    <3> QED BY <2>2, <3>1 DEF ToSet
  <2>6. ToSet(L) = ToSet(K) \cup {line}
    BY <2>3, <2>4, <2>5
  <2>7. ASSUME NEW i \in DOMAIN L
        PROVE  (i \in DOMAIN K /\ L[i] = K[i]) \/ (i = k + 1 /\ L[i] = line)
    <3>1. i = k + 1 \/ i \in 1 .. k
      BY <2>2
    <3> QED BY <1>2, <2>2, <3>1
  <2> QED BY <1>0, <1>2, <1>4, <2>2, <2>6, <2>7
<1> QED BY <1>3, <1>4

LEMMA TickMade ==
  ASSUME FilesType, NEW p \in Processes, madeBy' = Append(madeBy, p), ticks < MaxTicks,
         NEW n, n = ticks
  PROVE  /\ n \in Nat /\ ticks' = n + 1 /\ madeBy' \in Seq(Processes) /\ ticks' <= MaxTicks
         /\ madeBy'[n + 1] = p /\ n + 1 \in Files
         /\ \A i \in 1 .. n : madeBy'[i] = madeBy[i]
         /\ 0 .. n \subseteq 0 .. ticks'
<1>1. PICK s, S : s = madeBy /\ S = Processes
  OBVIOUS
<1>2. s \in Seq(S) /\ p \in S /\ n = Len(s) /\ MaxTicks \in Nat
  BY <1>1, BridgeAssumption DEF FilesType, ticks
<1>3. n \in Nat /\ Append(s, p) \in Seq(S) /\ Len(Append(s, p)) = n + 1
      /\ Append(s, p)[n + 1] = p /\ \A i \in 1 .. n : Append(s, p)[i] = s[i]
  BY <1>2
<1>4. ticks' = n + 1
  BY <1>1, <1>3 DEF ticks
<1> QED BY <1>1, <1>2, <1>3, <1>4 DEF Files

(* An append to the file a process has open, however old, keeps the order:  *)
(* no tick of this process is in a later file, or is newer.                 *)
LEMMA AppendKeeps ==
  ASSUME FilesInv, NEW p \in Processes, phase[p] = "writing",
         NEW line \in {Torn, entry[p]}, NEW c \in BOOLEAN,
         lines' = [lines EXCEPT ![fd[p]] = Extended(fd[p], line)],
         cut' = [cut EXCEPT ![fd[p]] = c],
         phase' = [phase EXCEPT ![p] = "up"], fd' = [fd EXCEPT ![p] = None],
         entry' = [entry EXCEPT ![p] = 0],
         UNCHANGED <<warm, archives, now, stamp, madeBy>>
  PROVE  FilesInv'
<1>1. PICK f, e, L, n : f = fd[p] /\ e = entry[p] /\ L = Extended(f, line) /\ n = ticks
  OBVIOUS
<1>2. /\ n \in Nat /\ MaxTicks \in Nat /\ n <= MaxTicks /\ ticks' = n
      /\ f \in 1 .. n /\ f \in Files /\ e \in 1 .. n /\ line \in 0 .. n
  <2>1. fd[p] \in 0 .. ticks /\ fd[p] # 0 /\ entry[p] \in 0 .. ticks /\ entry[p] # 0
    BY DEF FilesInv, FilesType, Pending, None
  <2>2. ticks \in Nat /\ ticks <= MaxTicks /\ ticks' = ticks /\ MaxTicks \in Nat
    BY BridgeAssumption DEF FilesInv, FilesType, ticks
  <2>3. f \in 1 .. n /\ e \in 1 .. n /\ line \in 0 .. n
    BY <1>1, <2>1, <2>2 DEF Torn
  <2> QED BY <1>1, <2>2, <2>3 DEF Files
<1>3. /\ L \in Seq(0 .. n) /\ L # <<>>
      /\ \A i \in DOMAIN L : \/ L[i] = Torn
                             \/ i \in DOMAIN lines[f] /\ L[i] = lines[f][i]
                             \/ i = Len(lines[f]) + 1 /\ L[i] = line
  <2>1. FilesType /\ line \in 0 .. ticks
    BY <1>1, <1>2 DEF FilesInv
  <2>2. f \in Files /\ L = Extended(f, line) /\ n = ticks
    BY <1>1, <1>2
  <2>3. L \in Seq(0 .. ticks) /\ L # <<>>
    BY <2>1, <2>2, AppendLines
  <2>4. \A i \in DOMAIN L : \/ L[i] = Torn
                            \/ i \in DOMAIN lines[f] /\ L[i] = lines[f][i]
                            \/ i = Len(lines[f]) + 1 /\ L[i] = line
    BY <2>1, <2>2, AppendLines
  <2> QED BY <2>2, <2>3, <2>4
<1>4. lines' = [lines EXCEPT ![f] = L] /\ cut' = [cut EXCEPT ![f] = c]
  BY <1>1
<1>5. lines \in [Files -> Seq(0 .. n)] /\ cut \in [Files -> BOOLEAN]
  BY <1>1 DEF FilesInv, FilesType
<1>6. /\ lines' \in [Files -> Seq(0 .. n)] /\ cut' \in [Files -> BOOLEAN] /\ lines'[f] = L
      /\ \A g \in Files \ {f} : lines'[g] = lines[g] /\ cut'[g] = cut[g]
  BY <1>2, <1>3, <1>4, <1>5
<1>7. PICK k \in Nat : k = Len(lines[f]) /\ DOMAIN lines[f] = 1 .. k
  BY <1>2, <1>5
<1>8. ASSUME NEW g \in Files, NEW i \in DOMAIN lines'[g], lines'[g][i] # Torn
      PROVE  \/ i \in DOMAIN lines[g] /\ lines'[g][i] = lines[g][i]
             \/ g = f /\ i = k + 1 /\ lines'[g][i] = e
  <2>1. CASE g = f
    <3>1. /\ i \in DOMAIN L /\ L[i] # Torn
      BY <1>6, <1>8, <2>1
    <3>2. (i \in DOMAIN lines[f] /\ L[i] = lines[f][i]) \/ (i = k + 1 /\ L[i] = line)
      BY <1>3, <1>7, <3>1
    <3> QED BY <1>1, <1>6, <2>1, <3>1, <3>2
  <2>2. CASE g # f
    BY <1>6, <1>8, <2>2
  <2> QED BY <2>1, <2>2
<1>9. /\ madeBy[e] = p
      /\ \A g \in Files : \A i \in DOMAIN lines[g] :
           lines[g][i] # Torn /\ madeBy[lines[g][i]] = p => lines[g][i] < e /\ g <= f
  BY <1>1 DEF FilesInv, Pending
<1>10. TicksOnceInOrder'
  <2> SUFFICES ASSUME NEW g \in Files, NEW h \in Files,
                      NEW i \in DOMAIN lines'[g], NEW j \in DOMAIN lines'[h],
                      Before(g, i, h, j), lines'[g][i] # Torn, lines'[h][j] # Torn,
                      madeBy[lines'[g][i]] = madeBy[lines'[h][j]]
               PROVE  lines'[g][i] < lines'[h][j]
    BY DEF TicksOnceInOrder
  <2>0. g \in Nat /\ h \in Nat /\ f \in Nat
    BY <1>2 DEF Files
  <2>1. CASE /\ i \in DOMAIN lines[g] /\ lines'[g][i] = lines[g][i]
             /\ j \in DOMAIN lines[h] /\ lines'[h][j] = lines[h][j]
    BY <2>1 DEF FilesInv, TicksOnceInOrder
  <2>2. CASE /\ i \in DOMAIN lines[g] /\ lines'[g][i] = lines[g][i]
             /\ h = f /\ j = k + 1 /\ lines'[h][j] = e
    BY <1>9, <2>2
  <2>3. CASE /\ g = f /\ i = k + 1 /\ lines'[g][i] = e
             /\ j \in DOMAIN lines[h] /\ lines'[h][j] = lines[h][j]
    <3>1. h <= f
      BY <1>9, <2>3
    <3>2. h = f /\ i < j
      BY <2>0, <2>3, <3>1 DEF Before
    <3> QED BY <1>7, <2>3, <3>2
  <2>4. CASE /\ g = f /\ i = k + 1 /\ lines'[g][i] = e
             /\ h = f /\ j = k + 1 /\ lines'[h][j] = e
    BY <2>0, <2>4 DEF Before
  <2> QED BY <1>8, <2>1, <2>2, <2>3, <2>4
<1>11. FilesType'
  <2>1. \A g \in Files : cut'[g] => lines'[g] # <<>>
    BY <1>3, <1>6 DEF FilesInv, FilesType
  <2>2. /\ phase' \in [Processes -> {"down", "loading", "up", "rotating", "ready", "writing"}]
        /\ fd' \in [Processes -> 0 .. ticks'] /\ entry' \in [Processes -> 0 .. ticks']
    BY <1>1, <1>2 DEF FilesInv, FilesType, None
  <2>3. ticks' = ticks
    BY <1>1, <1>2
  <2>4. /\ warm' \in 0 .. ticks' /\ archives' \in [Seconds -> 0 .. ticks'] /\ now' \in Seconds
        /\ stamp' \in [Processes -> Seconds] /\ madeBy' \in Seq(Processes) /\ ticks' <= MaxTicks
    BY <2>3 DEF FilesInv, FilesType
  <2> QED BY <1>2, <1>6, <2>1, <2>2, <2>4 DEF FilesType
<1>12. ASSUME NEW q \in Processes, phase'[q] \in {"loading", "writing"}
       PROVE  q # p /\ phase'[q] = phase[q] /\ fd'[q] = fd[q] /\ entry'[q] = entry[q]
  BY <1>12 DEF FilesInv, FilesType
<1>13. ASSUME NEW q \in Processes, phase'[q] = "writing", NEW g \in Files,
              NEW i \in DOMAIN lines'[g], lines'[g][i] # Torn, madeBy[lines'[g][i]] = q
       PROVE  lines'[g][i] < entry'[q] /\ g <= fd'[q]
  <2>1. q # p /\ phase[q] = "writing" /\ fd'[q] = fd[q] /\ entry'[q] = entry[q]
    BY <1>12, <1>13
  <2>2. i \in DOMAIN lines[g] /\ lines'[g][i] = lines[g][i]
    BY <1>8, <1>9, <1>13, <2>1
  <2> QED BY <1>13, <2>1, <2>2 DEF FilesInv, Pending
<1>14. Pending'
  BY <1>12, <1>13 DEF FilesInv, Pending
<1>15. Newest'
  <2>1. fd[p] <= ticks /\ (warm # None => fd[p] <= warm)
    BY <1>1, <1>2 DEF FilesInv, Newest
  <2>2. ASSUME NEW g \in Files, lines'[g] # <<>>
        PROVE  g <= ticks' /\ (warm' # None => g <= warm')
    BY <1>1, <1>2, <1>6, <2>1, <2>2 DEF FilesInv, Newest
  <2>3. ASSUME NEW q \in Processes, warm' # None PROVE fd'[q] <= warm'
    BY <1>2, <2>3 DEF FilesInv, FilesType, Newest, None
  <2> QED BY <2>2, <2>3 DEF Newest
<1> QED BY <1>10, <1>11, <1>14, <1>15 DEF FilesInv

Phases == {"down", "loading", "up", "rotating", "ready", "writing"}

\* A step that leaves the files alone and opens none but the warm one.
LEMMA LocalKeeps ==
  ASSUME FilesInv, UNCHANGED <<lines, cut, warm, archives, madeBy>>,
         now' \in Seconds, stamp' \in [Processes -> Seconds],
         phase' \in [Processes -> Phases],
         fd' \in [Processes -> 0 .. ticks], entry' \in [Processes -> 0 .. ticks],
         \A q \in Processes :
           /\ phase'[q] = "writing" => phase[q] = "writing" /\ fd'[q] = fd[q] /\ entry'[q] = entry[q]
           /\ phase'[q] = "loading" => fd'[q] # None
           /\ warm # None => fd'[q] <= warm
  PROVE  FilesInv'
<1>1. ticks' = ticks
  BY DEF ticks
<1>2. FilesType'
  BY <1>1 DEF FilesInv, FilesType, Phases
<1>3. Pending'
  BY DEF FilesInv, Pending
<1>4. Newest'
  BY <1>1 DEF FilesInv, Newest
<1>5. TicksOnceInOrder'
  BY DEF FilesInv, TicksOnceInOrder
<1> QED BY <1>2, <1>3, <1>4, <1>5 DEF FilesInv

LEMMA StartKeeps ==
  ASSUME FilesInv, NEW p \in Processes, Start(p) PROVE FilesInv'
<1> USE DEF None
<1>1. PICK x : x = IF warm = None THEN "up" ELSE "loading"
  OBVIOUS
<1>2. /\ phase[p] = "down" /\ phase' = [phase EXCEPT ![p] = x] /\ fd' = [fd EXCEPT ![p] = warm]
      /\ UNCHANGED <<lines, cut, warm, archives, madeBy, now, stamp, entry>>
  BY <1>1 DEF Start, disk, history
<1>3. /\ x \in {"up", "loading"} /\ (x = "loading" => warm # 0)
      /\ phase \in [Processes -> Phases] /\ warm \in 0 .. ticks /\ ticks \in Nat
      /\ fd \in [Processes -> 0 .. ticks] /\ entry \in [Processes -> 0 .. ticks]
  BY <1>1 DEF FilesInv, FilesType, Phases, ticks
<1>4. /\ phase' \in [Processes -> Phases] /\ fd' \in [Processes -> 0 .. ticks]
      /\ phase'[p] = x /\ fd'[p] = warm
      /\ \A q \in Processes \ {p} : phase'[q] = phase[q] /\ fd'[q] = fd[q] /\ entry'[q] = entry[q]
  BY <1>2, <1>3 DEF Phases
<1>5. ASSUME NEW q \in Processes
      PROVE  /\ phase'[q] = "writing" => phase[q] = "writing" /\ fd'[q] = fd[q] /\ entry'[q] = entry[q]
             /\ phase'[q] = "loading" => fd'[q] # None
             /\ warm # None => fd'[q] <= warm
  BY <1>3, <1>4 DEF FilesInv, Pending, Newest
<1>6. now' \in Seconds /\ stamp' \in [Processes -> Seconds] /\ entry' \in [Processes -> 0 .. ticks]
  BY <1>2, <1>3 DEF FilesInv, FilesType
<1> QED BY <1>2, <1>4, <1>5, <1>6, LocalKeeps

\* A step to a phase with no file open in it.
LEMMA IdleKeeps ==
  ASSUME FilesInv, NEW p \in Processes, NEW x \in Phases \ {"loading", "writing"},
         phase' = [phase EXCEPT ![p] = x],
         fd' = fd \/ fd' = [fd EXCEPT ![p] = None],
         entry' = entry \/ entry' = [entry EXCEPT ![p] = 0],
         NEW t \in Seconds, stamp' = stamp \/ stamp' = [stamp EXCEPT ![p] = t],
         UNCHANGED <<lines, cut, warm, archives, madeBy, now>>
  PROVE  FilesInv'
<1> USE DEF None
<1>1. /\ phase \in [Processes -> Phases] /\ ticks \in Nat /\ warm \in 0 .. ticks
      /\ fd \in [Processes -> 0 .. ticks] /\ entry \in [Processes -> 0 .. ticks]
      /\ stamp \in [Processes -> Seconds] /\ now \in Seconds
  BY DEF FilesInv, FilesType, Phases, ticks
<1>2. /\ phase' \in [Processes -> Phases] /\ phase'[p] = x
      /\ \A q \in Processes \ {p} : phase'[q] = phase[q]
  BY <1>1
<1>3. /\ fd' \in [Processes -> 0 .. ticks] /\ fd'[p] \in {0, fd[p]}
      /\ \A q \in Processes \ {p} : fd'[q] = fd[q]
  BY <1>1
<1>4. /\ entry' \in [Processes -> 0 .. ticks]
      /\ \A q \in Processes \ {p} : entry'[q] = entry[q]
  BY <1>1
<1>5. stamp' \in [Processes -> Seconds]
  BY <1>1
<1>6. ASSUME NEW q \in Processes
      PROVE  /\ phase'[q] = "writing" => phase[q] = "writing" /\ fd'[q] = fd[q] /\ entry'[q] = entry[q]
             /\ phase'[q] = "loading" => fd'[q] # None
             /\ warm # None => fd'[q] <= warm
  BY <1>1, <1>2, <1>3, <1>4 DEF FilesInv, Pending, Newest
<1> QED BY <1>1, <1>2, <1>3, <1>4, <1>5, <1>6, LocalKeeps

(* A rename takes the name from the newest file: whatever is made next is   *)
(* newer than all there is.                                                 *)
LEMMA RenameKeeps ==
  ASSUME FilesInv, NEW p \in Processes, Rename(p) PROVE FilesInv'
<1> USE DEF None
<1>0. 0 \in Seconds
  BY BridgeAssumption DEF Seconds
<1>1. /\ phase[p] = "rotating" /\ stamp' = [stamp EXCEPT ![p] = 0]
      /\ UNCHANGED <<now, fd, entry, madeBy>>
  BY DEF Rename
<1>2. CASE phase' = [phase EXCEPT ![p] = "up"] /\ UNCHANGED disk
  <2>1. "up" \in Phases \ {"loading", "writing"} /\ UNCHANGED <<lines, cut, warm, archives>>
    BY <1>2 DEF Phases, disk
  <2> QED BY <1>0, <1>1, <1>2, <2>1, IdleKeeps
<1>3. CASE MoveAway(stamp[p]) /\ phase' = [phase EXCEPT ![p] = "ready"]
  <2>1. PICK s : s = stamp[p]
    OBVIOUS
  <2>2. /\ archives' = [archives EXCEPT ![s] = warm] /\ warm' = 0
        /\ UNCHANGED <<lines, cut>>
    BY <1>3, <2>1 DEF MoveAway
  <2>3. /\ phase \in [Processes -> Phases] /\ ticks \in Nat /\ warm \in 0 .. ticks
        /\ archives \in [Seconds -> 0 .. ticks] /\ ticks' = ticks
        /\ stamp \in [Processes -> Seconds]
    BY <1>1 DEF FilesInv, FilesType, Phases, ticks
  <2>4. archives' \in [Seconds -> 0 .. ticks'] /\ warm' \in 0 .. ticks'
    <3>1. PICK S : S = 0 .. ticks
      OBVIOUS
    <3>2. S = 0 .. ticks' /\ 0 \in S /\ warm \in S /\ archives \in [Seconds -> S]
      BY <2>3, <3>1
    <3>3. archives' \in [Seconds -> S] /\ warm' \in S
      BY <2>2, <3>2
    <3> QED BY <3>2, <3>3
  <2>5. phase' \in [Processes -> Phases] /\ stamp' \in [Processes -> Seconds]
    BY <1>0, <1>1, <1>3, <2>3 DEF Phases
  <2>6. FilesType'
    BY <1>1, <2>2, <2>3, <2>4, <2>5 DEF FilesInv, FilesType, Phases
  <2>7. \A q \in Processes : phase'[q] \in {"loading", "writing"} => phase'[q] = phase[q]
    BY <1>3, <2>3
  <2>8. Pending'
    BY <1>1, <2>2, <2>7 DEF FilesInv, Pending
  <2>9. Newest'
    BY <2>2, <2>3 DEF FilesInv, Newest
  <2>10. TicksOnceInOrder'
    BY <1>1, <2>2 DEF FilesInv, TicksOnceInOrder
  <2> QED BY <2>6, <2>8, <2>9, <2>10 DEF FilesInv
<1> QED BY <1>2, <1>3 DEF Rename

(* An open makes a tick newer than those of its process in any file, and    *)
(* gives a file that none is newer than.                                    *)
LEMMA OpenKeeps ==
  ASSUME FilesInv, NEW p \in Processes, Open(p) PROVE FilesInv'
<1> USE DEF None
<1>1. PICK n : n = ticks
  OBVIOUS
<1>2. /\ phase[p] = "ready" /\ madeBy' = Append(madeBy, p) /\ n < MaxTicks
      /\ UNCHANGED <<lines, cut, archives, now, stamp>>
      /\ \/ /\ warm' = IF warm = None THEN n + 1 ELSE warm
            /\ fd' = [fd EXCEPT ![p] = warm']
            /\ entry' = [entry EXCEPT ![p] = n + 1]
            /\ phase' = [phase EXCEPT ![p] = "writing"]
         \/ /\ phase' = [phase EXCEPT ![p] = "up"]
            /\ UNCHANGED <<warm, fd, entry>>
  BY <1>1 DEF Open
<1>3. /\ n \in Nat /\ ticks' = n + 1 /\ madeBy' \in Seq(Processes) /\ ticks' <= MaxTicks
      /\ madeBy'[n + 1] = p /\ \A i \in 1 .. n : madeBy'[i] = madeBy[i]
  BY <1>1, <1>2, TickMade DEF FilesInv
<1>4. /\ lines \in [Files -> Seq(0 .. n)] /\ archives \in [Seconds -> 0 .. n] /\ warm \in 0 .. n
      /\ phase \in [Processes -> Phases]
      /\ fd \in [Processes -> 0 .. n] /\ entry \in [Processes -> 0 .. n]
  BY <1>1 DEF FilesInv, FilesType, Phases
<1>5. 0 .. n \subseteq 0 .. n + 1 /\ n + 1 \in 0 .. n + 1 /\ n + 1 # 0
  BY <1>3
<1>6. \A f \in Files : \A i \in DOMAIN lines[f] :
        lines[f][i] \in 0 .. n /\ (lines[f][i] # 0 => madeBy'[lines[f][i]] = madeBy[lines[f][i]])
  <2>1. ASSUME NEW f \in Files, NEW i \in DOMAIN lines[f] PROVE lines[f][i] \in 0 .. n
    <3>1. PICK K, S : K = lines[f] /\ S = 0 .. n
      OBVIOUS
    <3>2. K \in Seq(S) /\ i \in DOMAIN K
      BY <1>4, <2>1, <3>1
    <3>3. K[i] \in S
      BY <3>2
    <3> QED BY <3>1, <3>3
  <2>2. ASSUME NEW m \in 0 .. n, m # 0 PROVE madeBy'[m] = madeBy[m]
    BY <1>3, <2>2
  <2> QED BY <2>1, <2>2
<1>7. TicksOnceInOrder'
  <2> SUFFICES ASSUME NEW f \in Files, NEW g \in Files,
                      NEW i \in DOMAIN lines[f], NEW j \in DOMAIN lines[g],
                      Before(f, i, g, j), lines[f][i] # 0, lines[g][j] # 0,
                      madeBy'[lines[f][i]] = madeBy'[lines[g][j]]
               PROVE  lines[f][i] < lines[g][j]
    BY <1>2 DEF TicksOnceInOrder, Torn
  <2>1. madeBy[lines[f][i]] = madeBy[lines[g][j]]
    BY <1>6
  <2> QED BY <2>1 DEF FilesInv, TicksOnceInOrder, Torn
<1>8. lines' \in [Files -> Seq(0 .. n + 1)] /\ archives' \in [Seconds -> 0 .. n + 1]
  <2>1. ASSUME NEW f \in Files PROVE lines[f] \in Seq(0 .. n + 1)
    <3>1. PICK K, S, T : K = lines[f] /\ S = 0 .. n /\ T = 0 .. n + 1
      OBVIOUS
    <3>2. K \in Seq(S) /\ S \subseteq T
      BY <1>4, <1>5, <3>1
    <3>3. K \in Seq(T)
      BY <3>2
    <3> QED BY <3>1, <3>3
  <2> QED BY <1>2, <1>4, <1>5, <2>1
<1>9. /\ warm' \in 0 .. n + 1 /\ (warm # 0 => warm' = warm)
      /\ (warm' # 0 => warm' = n + 1 \/ (warm # 0 /\ warm' = warm))
  BY <1>2, <1>4, <1>5
<1>10. /\ phase' \in [Processes -> Phases] /\ phase'[p] \in {"writing", "up"}
       /\ \A q \in Processes \ {p} : phase'[q] = phase[q]
  BY <1>2, <1>4 DEF Phases
<1>11. /\ fd' \in [Processes -> 0 .. n + 1] /\ entry' \in [Processes -> 0 .. n + 1]
       /\ fd'[p] \in {warm', fd[p]} /\ (phase'[p] = "writing" => fd'[p] = warm' /\ warm' # 0 /\ entry'[p] = n + 1)
       /\ \A q \in Processes \ {p} : fd'[q] = fd[q] /\ entry'[q] = entry[q]
  BY <1>2, <1>3, <1>4, <1>5, <1>9
<1>12. FilesType'
  BY <1>2, <1>3, <1>8, <1>9, <1>10, <1>11 DEF FilesInv, FilesType, Phases
<1>13. Newest'
  <2>1. \A f \in Files : lines[f] # <<>> => f \in Nat /\ f <= n /\ (warm # 0 => f <= warm)
    BY <1>1 DEF FilesInv, Newest, Files
  <2>2. ASSUME NEW f \in Files, lines'[f] # <<>>
        PROVE  f <= ticks' /\ (warm' # 0 => f <= warm')
    BY <1>2, <1>3, <1>9, <2>1, <2>2
  <2>3. ASSUME NEW q \in Processes, warm' # 0 PROVE fd'[q] <= warm'
    <3>1. fd[q] <= warm'
      BY <1>1, <1>3, <1>4, <1>9, <2>3 DEF FilesInv, Newest
    <3>2. fd'[q] \in {warm', fd[q]}
      BY <1>11
    <3> QED BY <1>9, <3>1, <3>2
  <2> QED BY <2>2, <2>3 DEF Newest
<1>14. ASSUME NEW q \in Processes, phase'[q] \in {"loading", "writing"}
       PROVE  /\ fd'[q] # 0
              /\ phase'[q] = "writing" =>
                   /\ entry'[q] # 0 /\ madeBy'[entry'[q]] = q
                   /\ \A f \in Files : \A i \in DOMAIN lines'[f] :
                        lines'[f][i] # Torn /\ madeBy'[lines'[f][i]] = q
                          => lines'[f][i] < entry'[q] /\ f <= fd'[q]
  <2>1. CASE q = p
    <3>1. phase'[p] = "writing" /\ fd'[p] = warm' /\ warm' # 0 /\ entry'[p] = n + 1
      BY <1>10, <1>11, <1>14, <2>1
    <3>2. ASSUME NEW f \in Files, NEW i \in DOMAIN lines'[f]
          PROVE  lines'[f][i] < n + 1 /\ f <= warm'
      <4>1. lines'[f] # <<>>
        BY <1>2, <1>4, <3>2
      <4> QED BY <1>2, <1>3, <1>6, <1>13, <3>1, <3>2, <4>1 DEF Newest
    <3> QED BY <1>3, <1>5, <2>1, <3>1, <3>2
  <2>2. CASE q # p
    <3>1. phase'[q] = phase[q] /\ fd'[q] = fd[q] /\ entry'[q] = entry[q]
      BY <1>10, <1>11, <2>2
    <3>2. fd[q] # 0 /\ (phase[q] = "writing" => entry[q] # 0 /\ madeBy[entry[q]] = q)
      BY <1>14, <3>1 DEF FilesInv, Pending
    <3>3. phase[q] = "writing" => madeBy'[entry[q]] = q
      <4>1. entry[q] \in 0 .. n
        BY <1>4
      <4>2. phase[q] = "writing" => entry[q] \in 1 .. n
        BY <1>3, <3>2, <4>1
      <4> QED BY <1>3, <3>2, <4>2
    <3>4. ASSUME phase[q] = "writing", NEW f \in Files, NEW i \in DOMAIN lines[f],
                 lines[f][i] # Torn, madeBy'[lines[f][i]] = q
          PROVE  lines[f][i] < entry[q] /\ f <= fd[q]
      BY <1>6, <3>4 DEF FilesInv, Pending, Torn
    <3> QED BY <1>2, <3>1, <3>2, <3>3, <3>4
  <2> QED BY <2>1, <2>2
<1>15. Pending'
  BY <1>14 DEF Pending
<1> QED BY <1>7, <1>12, <1>13, <1>15 DEF FilesInv

(* The files start empty.                                                  *)
LEMMA FilesInit == Init => FilesInv
<1> SUFFICES ASSUME Init PROVE FilesInv
  OBVIOUS
<1>1. ticks = 0 /\ <<>> \in Seq(Processes) /\ <<>> \in Seq(0 .. 0)
  BY DEF Init, ticks
<1>2. FilesType
  BY <1>1, BridgeAssumption DEF Init, FilesType, Seconds, None
<1>3. Pending
  BY DEF Init, Pending
<1>4. Newest
  BY DEF Init, Newest, None
<1>5. TicksOnceInOrder
  BY DEF Init, TicksOnceInOrder
<1> QED BY <1>2, <1>3, <1>4, <1>5 DEF FilesInv

LEMMA FilesNext == FilesInv /\ [Next]_vars => FilesInv'
<1> SUFFICES ASSUME FilesInv, [Next]_vars PROVE FilesInv'
  OBVIOUS
<1> USE DEF disk, local, history
<1>0. 0 \in Seconds /\ now \in Seconds
  BY BridgeAssumption DEF FilesInv, FilesType, Seconds
<1>1. ASSUME UNCHANGED <<lines, cut, warm, archives, phase, stamp, fd, entry, madeBy>>, now' \in Seconds
      PROVE  FilesInv'
  <2>1. /\ stamp' \in [Processes -> Seconds] /\ phase' \in [Processes -> Phases]
        /\ fd' \in [Processes -> 0 .. ticks] /\ entry' \in [Processes -> 0 .. ticks]
    BY <1>1 DEF FilesInv, FilesType, Phases
  <2>2. \A q \in Processes :
           /\ phase'[q] = "writing" => phase[q] = "writing" /\ fd'[q] = fd[q] /\ entry'[q] = entry[q]
           /\ phase'[q] = "loading" => fd'[q] # None
           /\ warm # None => fd'[q] <= warm
    BY <1>1 DEF FilesInv, Pending, Newest
  <2> QED BY <1>1, <2>1, <2>2, LocalKeeps
<1>2. CASE UNCHANGED vars
  BY <1>0, <1>1, <1>2 DEF vars
<1>3. CASE SecondPasses
  <2>1. now' \in Seconds
    BY <1>0, <1>3, BridgeAssumption DEF SecondPasses, Seconds
  <2> QED BY <1>1, <1>3, <2>1 DEF SecondPasses
<1>4. ASSUME NEW p \in Processes, Load(p) \/ Look(p) \/ OtherRotationFails(p) \/ Crash(p)
      PROVE  FilesInv'
  <2>1. PICK x \in Phases \ {"loading", "writing"} : phase' = [phase EXCEPT ![p] = x]
    BY <1>4 DEF Load, Look, OtherRotationFails, Crash, Phases
  <2>2. PICK t \in Seconds : stamp' = stamp \/ stamp' = [stamp EXCEPT ![p] = t]
    <3>1. \E t \in {0, now} : stamp' = stamp \/ stamp' = [stamp EXCEPT ![p] = t]
      BY <1>4 DEF Load, Look, OtherRotationFails, Crash
    <3> QED BY <1>0, <3>1
  <2>3. /\ fd' = fd \/ fd' = [fd EXCEPT ![p] = None]
        /\ entry' = entry \/ entry' = [entry EXCEPT ![p] = 0]
        /\ UNCHANGED <<lines, cut, warm, archives, madeBy, now>>
    BY <1>4 DEF Load, Look, OtherRotationFails, Crash
  <2> QED BY <2>1, <2>2, <2>3, IdleKeeps
<1>5. ASSUME NEW p \in Processes, Write(p) PROVE FilesInv'
  <2>1. PICK line \in {Torn, entry[p]}, c \in BOOLEAN : line = entry[p] /\ c = FALSE
    OBVIOUS
  <2>2. /\ lines' = [lines EXCEPT ![fd[p]] = Extended(fd[p], line)]
        /\ cut' = [cut EXCEPT ![fd[p]] = c]
    BY <1>5, <2>1 DEF Write
  <2> QED BY <1>5, <2>2, AppendKeeps DEF Write
<1>6. ASSUME NEW p \in Processes, Tear(p) PROVE FilesInv'
  <2>1. PICK line \in {Torn, entry[p]} : lines' = [lines EXCEPT ![fd[p]] = Extended(fd[p], line)]
    BY <1>6 DEF Tear
  <2>2. PICK c \in BOOLEAN : c = TRUE
    OBVIOUS
  <2>3. cut' = [cut EXCEPT ![fd[p]] = c]
    BY <1>6, <2>2 DEF Tear
  <2> QED BY <1>6, <2>1, <2>3, AppendKeeps DEF Tear
<1> QED BY <1>2, <1>3, <1>4, <1>5, <1>6, StartKeeps, RenameKeeps, OpenKeeps DEF Next

(* However many processes append, rotate, crash and tear lines in the files *)
(* of the memory bridge, and whatever is renamed under an open file, no tick *)
(* is readable twice and those of a process are in the order it made them,  *)
(* from line to line and from file to file.                                 *)
THEOREM TicksKeepOrder == Spec => []TicksOnceInOrder
<1>1. FilesInv => TicksOnceInOrder
  BY DEF FilesInv
<1> QED BY FilesInit, FilesNext, <1>1, PTL DEF Spec

-----------------------------------------------------------------------------
(* Losses. A line left open belongs to an append that was cut short, so its *)
(* tick was never stored, and that append still has one loss to its credit. *)
(* Every file with a line in it, or open to write, has a name or was        *)
(* replaced.                                                                *)

Lost == stored \ In(Files)
Cut == {f \in Files : cut[f]}

LossInv ==
  /\ \A f \in Files : lines[f] # <<>> => f \in Named \cup replaced
  /\ \A p \in Processes :
       phase[p] = "writing" => fd[p] \in Named \cup replaced /\ entry[p] \notin stored
  /\ stored \subseteq 1 .. ticks /\ torn \in Nat
  /\ \A f \in Files : cut[f] => Last(lines[f]) \notin stored
  /\ Cardinality(Lost) + Cardinality(Cut) <= torn

LEMMA LostFinite ==
  ASSUME FilesType, stored \subseteq 1 .. ticks
  PROVE  /\ IsFiniteSet(Lost) /\ Cardinality(Lost) \in Nat
         /\ IsFiniteSet(Cut) /\ Cardinality(Cut) \in Nat
<1>1. ticks \in Nat /\ MaxTicks \in Nat
  BY BridgeAssumption DEF FilesType, ticks
<1>2. IsFiniteSet(1 .. ticks) /\ IsFiniteSet(1 .. MaxTicks)
  BY <1>1, FS_Interval
<1>3. IsFiniteSet(Lost) /\ IsFiniteSet(Cut)
  BY <1>2, FS_Subset DEF Lost, Cut, Files
<1> QED BY <1>3, FS_CardinalityType

LEMMA GrowsBy ==
  ASSUME NEW S, IsFiniteSet(S), NEW x, NEW T, T \subseteq S \cup {x}
  PROVE  /\ Cardinality(T) <= Cardinality(S) + 1
         /\ T \subseteq S => Cardinality(T) <= Cardinality(S)
         /\ T \subseteq S \ {x} /\ x \in S => Cardinality(T) <= Cardinality(S) - 1
         /\ IsFiniteSet(T) /\ Cardinality(T) \in Nat /\ Cardinality(S) \in Nat
<1>1. /\ IsFiniteSet(S \cup {x}) /\ Cardinality(S \cup {x}) \in Nat
      /\ Cardinality(S \cup {x}) <= Cardinality(S) + 1 /\ Cardinality(S) \in Nat
  BY FS_AddElement, FS_CardinalityType
<1>2. IsFiniteSet(T) /\ Cardinality(T) \in Nat /\ Cardinality(T) <= Cardinality(S \cup {x})
  BY <1>1, FS_Subset, FS_CardinalityType
<1>3. T \subseteq S => Cardinality(T) <= Cardinality(S)
  BY FS_Subset
<1>4. ASSUME T \subseteq S \ {x}, x \in S PROVE Cardinality(T) <= Cardinality(S) - 1
  <2>1. IsFiniteSet(S \ {x}) /\ Cardinality(S \ {x}) = Cardinality(S) - 1
    BY <1>4, FS_RemoveElement
  <2> QED BY <1>4, <2>1, FS_Subset
<1> QED BY <1>1, <1>2, <1>3, <1>4

LEMMA NamesStay ==
  ASSUME UNCHANGED <<warm, archives, replaced>>
  PROVE  (Named \cup replaced)' = Named \cup replaced
BY DEF Named

\* What both kinds of append do to the ticks in the files.
LEMMA AppendLoses ==
  ASSUME FilesInv, LossInv, NEW p \in Processes, phase[p] = "writing",
         NEW line \in {Torn, entry[p]},
         lines' = [lines EXCEPT ![fd[p]] = Extended(fd[p], line)],
         NEW f, f = fd[p], NEW e, e = entry[p]
  PROVE  /\ f \in Files /\ e \in 1 .. ticks /\ e \notin stored
         /\ lines'[f] # <<>> /\ \A g \in Files \ {f} : lines'[g] = lines[g]
         /\ Last(lines'[f]) \in {Torn, line}
         /\ \A g \in Files : cut[g] => Last(lines[g]) # e
         /\ stored \cap In(Files) \subseteq In(Files)'
         /\ ~ cut[f] => line \in In(Files)'
<1>1. fd[p] \in 0 .. ticks /\ fd[p] # 0 /\ entry[p] \in 0 .. ticks /\ entry[p] # 0
  BY DEF FilesInv, FilesType, Pending, None
<1>2. ticks \in Nat /\ ticks <= MaxTicks /\ MaxTicks \in Nat
  BY BridgeAssumption DEF FilesInv, FilesType, ticks
<1>3. f \in Files /\ e \in 1 .. ticks /\ line \in 0 .. ticks /\ e \notin stored
  BY <1>1, <1>2 DEF Files, Torn, LossInv
<1>4. PICK L : L = Extended(f, line)
  OBVIOUS
<1>5. FilesType /\ f \in Files
  BY <1>3 DEF FilesInv
<1>6. L # <<>> /\ Last(L) \in {Torn, line}
  BY <1>3, <1>4, <1>5, AppendLines DEF Last
<1>7. ~ cut[f] => ToSet(L) = ToSet(lines[f]) \cup {line}
  BY <1>3, <1>4, <1>5, AppendLines
<1>8. cut[f] => ToSet(lines[f]) \ {Last(lines[f])} \subseteq ToSet(L)
  BY <1>3, <1>4, <1>5, AppendLines DEF Last
<1>9. lines'[f] = L /\ \A g \in Files \ {f} : lines'[g] = lines[g]
  BY <1>3, <1>4 DEF FilesInv, FilesType
<1>10. ASSUME NEW g \in Files, cut[g] PROVE Last(lines[g]) # e
  <2>1. lines[g] # <<>> /\ lines[g] \in Seq(0 .. ticks)
    BY <1>10 DEF FilesInv, FilesType
  <2>2. Len(lines[g]) \in DOMAIN lines[g]
    BY <2>1
  <2>3. Last(lines[g]) # Torn /\ madeBy[Last(lines[g])] = p
          => Last(lines[g]) < e
    BY <2>2 DEF FilesInv, Pending, Last
  <2>4. madeBy[e] = p /\ e # Torn /\ ~ (e < e)
    BY <1>3 DEF FilesInv, Pending, Torn
  <2> QED BY <2>3, <2>4
<1>11. ASSUME NEW m \in stored, m \in In(Files) PROVE m \in In(Files)'
  <2>1. PICK g \in Files : m \in ToSet(lines[g])
    BY <1>11 DEF In
  <2>2. CASE g # f
    <3>1. m \in ToSet(lines'[g])
      BY <1>9, <2>1, <2>2
    <3> QED BY <3>1 DEF In
  <2>3. CASE g = f
    <3>1. cut[f] => m # Last(lines[f])
      BY <1>3, <1>11 DEF LossInv
    <3>2. m \in ToSet(lines'[f])
      BY <1>7, <1>8, <1>9, <2>1, <2>3, <3>1
    <3> QED BY <1>3, <3>2 DEF In
  <2> QED BY <2>2, <2>3
<1>12. ~ cut[f] => line \in In(Files)'
  <2> SUFFICES ASSUME ~ cut[f] PROVE line \in In(Files)'
    OBVIOUS
  <2>1. line \in ToSet(lines'[f])
    BY <1>7, <1>9
  <2> QED BY <1>3, <2>1 DEF In
<1> QED BY <1>3, <1>6, <1>9, <1>10, <1>11, <1>12

LEMMA AppendStays ==
  ASSUME FilesInv, LossInv, NEW p \in Processes, phase[p] = "writing",
         NEW line \in {Torn, entry[p]},
         lines' = [lines EXCEPT ![fd[p]] = Extended(fd[p], line)],
         phase' = [phase EXCEPT ![p] = "up"], fd' = [fd EXCEPT ![p] = None],
         entry' = [entry EXCEPT ![p] = 0],
         NEW e, e = entry[p], stored' \subseteq stored \cup {e},
         UNCHANGED <<warm, archives, madeBy, replaced>>
  PROVE  /\ \A g \in Files : lines'[g] # <<>> => g \in (Named \cup replaced)'
         /\ \A q \in Processes :
              phase'[q] = "writing" => fd'[q] \in (Named \cup replaced)' /\ entry'[q] \notin stored'
         /\ stored' \subseteq 1 .. ticks' /\ ticks' = ticks
<1>1. PICK f : f = fd[p]
  OBVIOUS
<1>2. /\ f \in Files /\ e \in 1 .. ticks /\ \A g \in Files \ {f} : lines'[g] = lines[g]
  BY <1>1, AppendLoses
<1>3. (Named \cup replaced)' = Named \cup replaced
  BY NamesStay
<1>4. ASSUME NEW g \in Files, lines'[g] # <<>> PROVE g \in Named \cup replaced
  BY <1>1, <1>2, <1>4 DEF LossInv
<1>5. ASSUME NEW q \in Processes, phase'[q] = "writing"
      PROVE  fd'[q] \in Named \cup replaced /\ entry'[q] \notin stored'
  <2>1. q # p /\ phase[q] = "writing" /\ fd'[q] = fd[q] /\ entry'[q] = entry[q]
    BY <1>5 DEF FilesInv, FilesType
  <2>2. entry[q] # e
    BY <2>1 DEF FilesInv, Pending
  <2> QED BY <2>1, <2>2 DEF LossInv
<1>6. stored' \subseteq 1 .. ticks' /\ ticks' = ticks
  BY <1>2 DEF LossInv, ticks
<1> QED BY <1>3, <1>4, <1>5, <1>6

LEMMA WriteLoses ==
  ASSUME FilesInv, LossInv, NEW p \in Processes, Write(p) PROVE LossInv'
<1>1. PICK f, e, line : f = fd[p] /\ e = entry[p] /\ line = e /\ line \in {Torn, entry[p]}
  OBVIOUS
<1>2. /\ phase[p] = "writing" /\ lines' = [lines EXCEPT ![fd[p]] = Extended(fd[p], line)]
      /\ cut' = [cut EXCEPT ![f] = FALSE] /\ stored' = stored \cup {e}
      /\ phase' = [phase EXCEPT ![p] = "up"] /\ fd' = [fd EXCEPT ![p] = None]
      /\ entry' = [entry EXCEPT ![p] = 0]
      /\ UNCHANGED <<warm, archives, madeBy, torn, replaced>>
  BY <1>1 DEF Write
<1>3. /\ f \in Files /\ \A g \in Files \ {f} : lines'[g] = lines[g]
      /\ \A g \in Files : cut[g] => Last(lines[g]) # e
      /\ stored \cap In(Files) \subseteq In(Files)'
      /\ ~ cut[f] => e \in In(Files)'
  <2>1. f \in Files
    BY <1>1, <1>2, AppendLoses
  <2>2. \A g \in Files \ {f} : lines'[g] = lines[g]
    BY <1>1, <1>2, AppendLoses
  <2>3. \A g \in Files : cut[g] => Last(lines[g]) # e
    BY <1>1, <1>2, AppendLoses
  <2>4. stored \cap In(Files) \subseteq In(Files)'
    BY <1>1, <1>2, AppendLoses
  <2>5. ~ cut[f] => line \in In(Files)'
    BY <1>1, <1>2, AppendLoses
  <2> QED BY <1>1, <2>1, <2>2, <2>3, <2>4, <2>5
<1>4. /\ \A g \in Files : lines'[g] # <<>> => g \in (Named \cup replaced)'
      /\ \A q \in Processes :
           phase'[q] = "writing" => fd'[q] \in (Named \cup replaced)' /\ entry'[q] \notin stored'
      /\ stored' \subseteq 1 .. ticks' /\ ticks' = ticks
  BY <1>1, <1>2, AppendStays
<1>5. ~ cut'[f] /\ \A g \in Files \ {f} : cut'[g] = cut[g]
  BY <1>2, <1>3 DEF FilesInv, FilesType
<1>6. \A g \in Files : cut'[g] => Last(lines'[g]) \notin stored'
  BY <1>2, <1>3, <1>5 DEF LossInv
<1>7. /\ IsFiniteSet(Lost) /\ IsFiniteSet(Cut) /\ Cardinality(Lost) \in Nat
      /\ Cardinality(Cut) \in Nat /\ Cardinality(Lost) + Cardinality(Cut) <= torn /\ torn \in Nat
  BY LostFinite DEF FilesInv, LossInv
<1>8. PICK A, B, C, D : A = Lost /\ B = Cut /\ C = Lost' /\ D = Cut'
  OBVIOUS
<1>9. D \subseteq B \ {f} /\ C \subseteq A \cup {e} /\ (~ cut[f] => C \subseteq A) /\ (cut[f] => f \in B)
  <2>1. Cut' \subseteq Cut \ {f}
    BY <1>5 DEF Cut
  <2>2. Lost' \subseteq Lost \cup {e} /\ (~ cut[f] => Lost' \subseteq Lost)
    BY <1>2, <1>3 DEF Lost
  <2> QED BY <1>3, <1>8, <2>1, <2>2 DEF Cut
<1>10. Cardinality(C) + Cardinality(D) <= torn'
  <2>1. /\ Cardinality(C) <= Cardinality(A) + 1 /\ (C \subseteq A => Cardinality(C) <= Cardinality(A))
        /\ Cardinality(C) \in Nat
    BY <1>7, <1>8, <1>9, GrowsBy
  <2>2. /\ (D \subseteq B => Cardinality(D) <= Cardinality(B)) /\ Cardinality(D) \in Nat
        /\ (D \subseteq B \ {f} /\ f \in B => Cardinality(D) <= Cardinality(B) - 1)
    <3>1. D \subseteq B \cup {f}
      BY <1>9
    <3> QED BY <1>7, <1>8, <3>1, GrowsBy
  <2>3. CASE cut[f]
    BY <1>2, <1>7, <1>8, <1>9, <2>1, <2>2, <2>3
  <2>4. CASE ~ cut[f]
    BY <1>2, <1>7, <1>8, <1>9, <2>1, <2>2, <2>4
  <2> QED BY <2>3, <2>4
<1>11. torn' \in Nat
  BY <1>2, <1>7
<1> QED BY <1>4, <1>6, <1>8, <1>10, <1>11 DEF LossInv

LEMMA TearLoses ==
  ASSUME FilesInv, LossInv, NEW p \in Processes, Tear(p) PROVE LossInv'
<1>1. PICK line \in {Torn, entry[p]} : lines' = [lines EXCEPT ![fd[p]] = Extended(fd[p], line)]
  BY DEF Tear
<1>2. PICK f, e : f = fd[p] /\ e = entry[p]
  OBVIOUS
<1>3. /\ phase[p] = "writing" /\ cut' = [cut EXCEPT ![f] = TRUE] /\ torn' = torn + 1
      /\ phase' = [phase EXCEPT ![p] = "up"] /\ fd' = [fd EXCEPT ![p] = None]
      /\ entry' = [entry EXCEPT ![p] = 0]
      /\ UNCHANGED <<warm, archives, madeBy, stored, replaced>>
  BY <1>2 DEF Tear
<1>4. /\ f \in Files /\ e \notin stored /\ \A g \in Files \ {f} : lines'[g] = lines[g]
      /\ Last(lines'[f]) \in {Torn, line}
      /\ stored \cap In(Files) \subseteq In(Files)'
  <2>1. f \in Files /\ e \notin stored
    BY <1>1, <1>2, <1>3, AppendLoses
  <2>2. \A g \in Files \ {f} : lines'[g] = lines[g]
    BY <1>1, <1>2, <1>3, AppendLoses
  <2>3. Last(lines'[f]) \in {Torn, line}
    BY <1>1, <1>2, <1>3, AppendLoses
  <2>4. stored \cap In(Files) \subseteq In(Files)'
    BY <1>1, <1>2, <1>3, AppendLoses
  <2> QED BY <2>1, <2>2, <2>3, <2>4
<1>5. /\ \A g \in Files : lines'[g] # <<>> => g \in (Named \cup replaced)'
      /\ \A q \in Processes :
           phase'[q] = "writing" => fd'[q] \in (Named \cup replaced)' /\ entry'[q] \notin stored'
      /\ stored' \subseteq 1 .. ticks' /\ ticks' = ticks
  <2>1. stored' \subseteq stored \cup {e}
    BY <1>3
  <2> QED BY <1>1, <1>2, <1>3, <2>1, AppendStays
<1>6. \A g \in Files \ {f} : cut'[g] = cut[g]
  BY <1>3, <1>4 DEF FilesInv, FilesType
<1>7. /\ IsFiniteSet(Lost) /\ IsFiniteSet(Cut) /\ Cardinality(Lost) \in Nat
      /\ Cardinality(Cut) \in Nat /\ Cardinality(Lost) + Cardinality(Cut) <= torn /\ torn \in Nat
  BY LostFinite DEF FilesInv, LossInv
<1>8. Torn \notin stored
  BY DEF LossInv, Torn
<1>9. Last(lines'[f]) \notin stored
  BY <1>2, <1>4, <1>8
<1>10. \A g \in Files : cut'[g] => Last(lines'[g]) \notin stored'
  BY <1>3, <1>4, <1>6, <1>9 DEF LossInv
<1>11. PICK A, B, C, D : A = Lost /\ B = Cut /\ C = Lost' /\ D = Cut'
  OBVIOUS
<1>12. C \subseteq A /\ D \subseteq B \cup {f}
  <2>1. Lost' \subseteq Lost
    BY <1>3, <1>4 DEF Lost
  <2>2. Cut' \subseteq Cut \cup {f}
    BY <1>6 DEF Cut
  <2> QED BY <1>11, <2>1, <2>2
<1>13. Cardinality(C) + Cardinality(D) <= torn'
  <2>1. Cardinality(C) <= Cardinality(A) /\ Cardinality(C) \in Nat
    <3>1. C \subseteq A \cup {f}
      BY <1>12
    <3> QED BY <1>7, <1>11, <1>12, <3>1, GrowsBy
  <2>2. Cardinality(D) <= Cardinality(B) + 1 /\ Cardinality(D) \in Nat
    BY <1>7, <1>11, <1>12, GrowsBy
  <2> QED BY <1>3, <1>7, <1>11, <2>1, <2>2
<1>14. torn' \in Nat
  BY <1>3, <1>7
<1> QED BY <1>5, <1>10, <1>11, <1>13, <1>14 DEF LossInv

LEMMA FilesKept ==
  ASSUME FilesInv, LossInv, UNCHANGED <<lines, cut, stored, torn>>,
         ticks <= ticks', ticks' \in Nat, Named \cup replaced \subseteq (Named \cup replaced)' \cup {None},
         \A q \in Processes : phase'[q] = "writing" =>
           \/ phase[q] = "writing" /\ fd'[q] = fd[q] /\ entry'[q] = entry[q]
           \/ fd'[q] \in (Named \cup replaced)' /\ entry'[q] = ticks + 1
  PROVE  LossInv'
<1>1. stored \subseteq 1 .. ticks /\ ticks \in Nat
  BY DEF LossInv, FilesInv, FilesType, ticks
<1>2. stored' \subseteq 1 .. ticks' /\ ticks + 1 \notin stored
  BY <1>1
<1>3. Lost' = Lost /\ Cut' = Cut
  BY DEF Lost, Cut, In
<1>4. ASSUME NEW f \in Files, lines'[f] # <<>> PROVE f \in (Named \cup replaced)'
  <2>1. f # None /\ f \in Named \cup replaced
    BY <1>4, BridgeAssumption DEF LossInv, Files, None
  <2> QED BY <2>1
<1>5. ASSUME NEW q \in Processes, phase'[q] = "writing"
      PROVE  fd'[q] \in (Named \cup replaced)' /\ entry'[q] \notin stored'
  <2>1. CASE phase[q] = "writing" /\ fd'[q] = fd[q] /\ entry'[q] = entry[q]
    BY <2>1 DEF LossInv, FilesInv, Pending
  <2> QED BY <1>2, <1>5, <2>1
<1>6. /\ \A f \in Files : cut'[f] => Last(lines'[f]) \notin stored'
      /\ torn' \in Nat /\ Cardinality(Lost') + Cardinality(Cut') <= torn'
  BY <1>3 DEF LossInv
<1> QED BY <1>2, <1>4, <1>5, <1>6 DEF LossInv

(* A rename loses nothing but what it replaces.                             *)
LEMMA RenameLoses ==
  ASSUME FilesInv, LossInv, NEW p \in Processes, Rename(p) PROVE LossInv'
<1>1. /\ UNCHANGED <<lines, cut, stored, torn, fd, entry, madeBy>>
      /\ \E x \in {"ready", "up"} : phase' = [phase EXCEPT ![p] = x]
  BY DEF Rename, MoveAway, disk
<1>2. ticks' = ticks /\ ticks \in Nat
  BY <1>1 DEF ticks, FilesInv, FilesType
<1>3. \A q \in Processes : phase'[q] = "writing" =>
         phase[q] = "writing" /\ fd'[q] = fd[q] /\ entry'[q] = entry[q]
  BY <1>1 DEF FilesInv, FilesType
<1>4. Named \cup replaced \subseteq (Named \cup replaced)' \cup {None}
  <2>1. CASE UNCHANGED <<warm, archives, replaced>>
    BY <2>1, NamesStay
  <2>2. CASE /\ MoveAway(stamp[p])
             /\ replaced' = replaced \cup ({archives[stamp[p]]} \ {None})
    <3>1. PICK s \in Seconds : s = stamp[p]
      BY DEF FilesInv, FilesType
    <3>2. /\ archives' = [archives EXCEPT ![s] = warm]
          /\ replaced' = replaced \cup ({archives[s]} \ {None})
          /\ archives \in [Seconds -> 0 .. ticks]
      BY <2>2, <3>1 DEF MoveAway, FilesInv, FilesType
    <3>3. archives'[s] = warm /\ \A r \in Seconds \ {s} : archives'[r] = archives[r]
      BY <3>2
    <3>4. warm \in Named' \cup {None}
      BY <3>1, <3>3 DEF Named
    <3>5. ASSUME NEW r \in Seconds PROVE archives[r] \in (Named \cup replaced)' \cup {None}
      <4>1. CASE r = s
        BY <3>2, <4>1
      <4>2. CASE r # s
        BY <3>3, <4>2 DEF Named
      <4> QED BY <4>1, <4>2
    <3>6. Named \subseteq (Named \cup replaced)' \cup {None}
      BY <3>4, <3>5 DEF Named
    <3> QED BY <3>2, <3>6
  <2> QED BY <2>1, <2>2 DEF Rename, disk
<1> QED BY <1>1, <1>2, <1>3, <1>4, FilesKept

LEMMA OpenLoses ==
  ASSUME FilesInv, LossInv, NEW p \in Processes, Open(p) PROVE LossInv'
<1>1. /\ madeBy' = Append(madeBy, p) /\ ticks < MaxTicks
      /\ UNCHANGED <<lines, cut, archives, stored, torn, replaced>>
      /\ \/ /\ warm' = IF warm = None THEN ticks + 1 ELSE warm
            /\ fd' = [fd EXCEPT ![p] = warm']
            /\ entry' = [entry EXCEPT ![p] = ticks + 1]
            /\ phase' = [phase EXCEPT ![p] = "writing"]
         \/ /\ phase' = [phase EXCEPT ![p] = "up"]
            /\ UNCHANGED <<warm, fd, entry>>
  BY DEF Open
<1>2. ticks' = ticks + 1 /\ ticks \in Nat
  <2>1. PICK n : n = ticks
    OBVIOUS
  <2>2. n \in Nat /\ ticks' = n + 1
    BY <1>1, <2>1, TickMade DEF FilesInv
  <2> QED BY <2>1, <2>2
<1>3. /\ phase \in [Processes -> Phases]
      /\ fd \in [Processes -> 0 .. ticks] /\ entry \in [Processes -> 0 .. ticks]
  BY DEF FilesInv, FilesType, Phases
<1>4. warm # None => warm' = warm
  BY <1>1
<1>5. Named \cup replaced \subseteq (Named \cup replaced)' \cup {None}
  <2>1. warm \in Named' \cup {None}
    BY <1>4 DEF Named
  <2>2. \A s \in Seconds : archives[s] \in Named' \cup {None}
    BY <1>1 DEF Named
  <2> QED BY <1>1, <2>1, <2>2 DEF Named
<1>6. ASSUME NEW q \in Processes, phase'[q] = "writing"
      PROVE  \/ phase[q] = "writing" /\ fd'[q] = fd[q] /\ entry'[q] = entry[q]
             \/ fd'[q] \in (Named \cup replaced)' /\ entry'[q] = ticks + 1
  <2>1. CASE q # p
    BY <1>1, <1>3, <1>6, <2>1
  <2>2. CASE q = p
    <3>1. phase' = [phase EXCEPT ![p] = "writing"]
      BY <1>1, <1>3, <1>6, <2>2
    <3>2. /\ warm' = IF warm = None THEN ticks + 1 ELSE warm
          /\ fd' = [fd EXCEPT ![p] = warm']
          /\ entry' = [entry EXCEPT ![p] = ticks + 1]
      BY <1>1, <1>3, <3>1
    <3>3. fd'[p] = warm' /\ entry'[p] = ticks + 1
      BY <1>3, <3>2
    <3>4. warm' # None
      BY <1>2, <3>2 DEF None
    <3>5. warm' \in Named'
      BY <3>4 DEF Named
    <3> QED BY <2>2, <3>3, <3>5
  <2> QED BY <2>1, <2>2
<1>7. ticks <= ticks' /\ ticks' \in Nat
  BY <1>2
<1> QED BY <1>1, <1>5, <1>6, <1>7, FilesKept

LEMMA LossNext == FilesInv /\ LossInv /\ [Next]_vars => LossInv'
<1> SUFFICES ASSUME FilesInv, LossInv, [Next]_vars PROVE LossInv'
  OBVIOUS
<1> USE DEF disk, local, history
<1>1. ASSUME UNCHANGED <<lines, cut, warm, archives, madeBy, stored, torn, replaced>>,
             \A q \in Processes : phase'[q] = "writing" =>
               phase[q] = "writing" /\ fd'[q] = fd[q] /\ entry'[q] = entry[q]
      PROVE  LossInv'
  <2>1. ticks' = ticks /\ ticks \in Nat
    BY <1>1 DEF ticks, FilesInv, FilesType
  <2>2. ticks <= ticks' /\ ticks' \in Nat
    BY <2>1
  <2>3. Named \cup replaced \subseteq (Named \cup replaced)' \cup {None}
    BY <1>1, NamesStay
  <2> QED BY <1>1, <2>2, <2>3, FilesKept
<1>2. ASSUME NEW p \in Processes,
             Start(p) \/ Load(p) \/ Look(p) \/ OtherRotationFails(p) \/ Crash(p)
      PROVE  LossInv'
  <2>1. PICK x \in {"down", "loading", "up", "rotating", "ready"} : phase' = [phase EXCEPT ![p] = x]
    BY <1>2 DEF Start, Load, Look, OtherRotationFails, Crash
  <2>2. /\ \E y : fd' = fd \/ fd' = [fd EXCEPT ![p] = y]
        /\ entry' = entry \/ entry' = [entry EXCEPT ![p] = 0]
        /\ UNCHANGED <<lines, cut, warm, archives, madeBy, stored, torn, replaced>>
    BY <1>2 DEF Start, Load, Look, OtherRotationFails, Crash
  <2>3. \A q \in Processes : phase'[q] = "writing" =>
           phase[q] = "writing" /\ fd'[q] = fd[q] /\ entry'[q] = entry[q]
    BY <2>1, <2>2 DEF FilesInv, FilesType
  <2> QED BY <1>1, <2>2, <2>3
<1>3. ASSUME SecondPasses \/ UNCHANGED vars PROVE LossInv'
  BY <1>1, <1>3 DEF SecondPasses, vars
<1> QED BY <1>2, <1>3, RenameLoses, OpenLoses, WriteLoses, TearLoses DEF Next

LEMMA LossInit == Init => LossInv
<1> SUFFICES ASSUME Init PROVE LossInv
  OBVIOUS
<1>1. stored = {} /\ torn = 0 /\ Lost = {} /\ Cut = {}
  BY DEF Init, Lost, Cut
<1>2. Cardinality(Lost) + Cardinality(Cut) <= torn
  BY <1>1, FS_EmptySet
<1> QED BY <1>1, <1>2 DEF Init, LossInv

(* However many processes append, rotate, crash and tear lines, a tick that  *)
(* was written is lost only to an append cut short right before it in its   *)
(* file, each of which spoils one at most, or with a file whose name a      *)
(* rename of the same second took, also when it was written to it later.    *)
THEOREM LossesAreAccounted == Spec => []LossIsAccounted
<1>1. FilesInv /\ LossInv => LossIsAccounted
  <2> SUFFICES ASSUME FilesInv, LossInv PROVE LossIsAccounted
    OBVIOUS
  <2>1. PICK A, C : A = Lost /\ C = stored \ In(Named \cup replaced)
    OBVIOUS
  <2>2. ASSUME NEW m \in In(Files) PROVE m \in In(Named \cup replaced)
    <3>1. PICK f \in Files : m \in ToSet(lines[f])
      BY <2>2 DEF In
    <3>2. lines[f] # <<>>
      BY <3>1 DEF ToSet
    <3> QED BY <3>1, <3>2 DEF LossInv, In
  <2>3. C \subseteq A
    BY <2>1, <2>2 DEF Lost
  <2>4. /\ IsFiniteSet(A) /\ Cardinality(A) \in Nat /\ Cardinality(Cut) \in Nat
        /\ Cardinality(A) + Cardinality(Cut) <= torn /\ torn \in Nat
    BY <2>1, LostFinite DEF FilesInv, LossInv
  <2>5. Cardinality(C) \in Nat /\ Cardinality(C) <= Cardinality(A)
    BY <2>3, <2>4, FS_Subset, FS_CardinalityType
  <2> QED BY <2>1, <2>4, <2>5 DEF LossIsAccounted
<1> QED BY <1>1, FilesInit, FilesNext, LossInit, LossNext, PTL DEF Spec

-----------------------------------------------------------------------------
(* Induction and recursion over positions, without operator parameters.     *)

LEMMA SmallestNumber ==
  ASSUME NEW T \in SUBSET Nat, T # {}
  PROVE  \E x \in T : \A y \in T : x <= y
<1>1. PICK R : R = OpToRel(<, Nat)
  OBVIOUS
<1>2. IsWellFoundedOn(R, Nat)
  BY <1>1, NatLessThanWellFounded
<1>3. PICK x \in T : \A y \in T : ~ (<<y, x>> \in R)
  BY <1>2, WFMin
<1>4. \A y, z \in Nat : <<y, z>> \in R <=> y < z
  BY <1>1 DEF OpToRel
<1>5. ASSUME NEW y \in T PROVE x <= y
  <2>1. ~ (y < x)
    BY <1>3, <1>4
  <2> QED BY <2>1
<1> QED BY <1>5

LEMMA ByInduction ==
  ASSUME NEW S, 0 \in S, \A n \in Nat : n \in S => n + 1 \in S
  PROVE  \A n \in Nat : n \in S
<1> SUFFICES ASSUME Nat \ S # {} PROVE FALSE
  OBVIOUS
<1>1. PICK x \in Nat \ S : \A y \in Nat \ S : x <= y
  BY SmallestNumber
<1>2. x - 1 \in Nat /\ ~ (x <= x - 1)
  BY <1>1
<1>3. x - 1 \in S
  BY <1>1, <1>2
<1>4. (x - 1) + 1 \in S
  BY <1>2, <1>3
<1> QED BY <1>1, <1>4

\* f starts at a and makes n steps.
Steps(X, a, n, step, f) ==
  f \in [0 .. n -> X] /\ f[0] = a /\ \A i \in 1 .. n : f[i] = step[f[i - 1]][i]

LEMMA ByRecursion ==
  ASSUME NEW X, NEW a \in X, NEW n \in Nat, NEW step \in [X -> [1 .. n -> X]]
  PROVE  \E f : Steps(X, a, n, step, f)
<1> DEFINE Upto(m) == \E f : Steps(X, a, m, step, f)
           S == {m \in Nat : m <= n => Upto(m)}
<1>1. 0 \in S
  <2>1. PICK f : f = [i \in 0 .. 0 |-> a]
    OBVIOUS
  <2>2. f \in [0 .. 0 -> X] /\ f[0] = a /\ \A i \in 1 .. 0 : f[i] = step[f[i - 1]][i]
    BY <2>1
  <2>3. Steps(X, a, 0, step, f)
    BY <2>2 DEF Steps
  <2> QED BY <2>3
<1>2. ASSUME NEW m \in Nat, m \in S PROVE m + 1 \in S
  <2> SUFFICES ASSUME m + 1 <= n PROVE Upto(m + 1)
    OBVIOUS
  <2>0. PICK f : Steps(X, a, m, step, f)
    BY <1>2
  <2>1. f \in [0 .. m -> X] /\ f[0] = a /\ \A i \in 1 .. m : f[i] = step[f[i - 1]][i]
    BY <2>0 DEF Steps
  <2>2. step[f[m]][m + 1] \in X
    <3>1. f[m] \in X /\ m + 1 \in 1 .. n
      BY <1>2, <2>1
    <3>2. step[f[m]] \in [1 .. n -> X]
      BY <3>1
    <3> QED BY <3>1, <3>2
  <2>3. PICK g : g = [i \in 0 .. (m + 1) |-> IF i = m + 1 THEN step[f[m]][m + 1] ELSE f[i]]
    OBVIOUS
  <2>4. g \in [0 .. (m + 1) -> X] /\ g[0] = a
    BY <2>1, <2>2, <2>3
  <2>5. ASSUME NEW i \in 1 .. (m + 1) PROVE g[i] = step[g[i - 1]][i]
    <3>1. CASE i = m + 1
      <4>1. g[i - 1] = f[m] /\ g[i] = step[f[m]][m + 1]
        BY <2>3, <3>1
      <4> QED BY <3>1, <4>1
    <3>2. CASE i # m + 1
      <4>1. g[i] = f[i] /\ g[i - 1] = f[i - 1] /\ i \in 1 .. m
        BY <2>3, <3>2
      <4> QED BY <2>1, <4>1
    <3> QED BY <3>1, <3>2
  <2>6. Steps(X, a, m + 1, step, g)
    BY <2>4, <2>5 DEF Steps
  <2> QED BY <2>6
<1> HIDE DEF S
<1>3. n \in S
  BY <1>1, <1>2, ByInduction
<1> QED BY <1>3 DEF S

-----------------------------------------------------------------------------
(* The lines that decode.                                                   *)

\* at says which of the lines of L up to the i-th each of those in D is.
Places(L, i, D, at) ==
  /\ at \in [1 .. Len(D) -> 1 .. i]
  /\ \A j \in 1 .. Len(D) : D[j] = L[at[j]]
  /\ \A j, k \in 1 .. Len(D) : j < k => at[j] < at[k]
  /\ \A h \in 1 .. i : L[h] # 0 => \E j \in 1 .. Len(D) : at[j] = h

Kept(L, D, i) == D \in Seq(Nat \ {0}) /\ \E at : Places(L, i, D, at)

LEMMA KeptLonger ==
  ASSUME NEW L \in Seq(Nat), NEW i \in Nat, i + 1 \in DOMAIN L, NEW D, Kept(L, D, i),
         NEW E, E = IF L[i + 1] = 0 THEN D ELSE Append(D, L[i + 1])
  PROVE  Kept(L, E, i + 1)
<1>1. PICK at : Places(L, i, D, at)
  BY DEF Kept
<1>2. D \in Seq(Nat \ {0})
  BY DEF Kept
<1>3. PICK len \in Nat : len = Len(D) /\ DOMAIN D = 1 .. len
  BY <1>2
<1>4. /\ at \in [1 .. len -> 1 .. i]
      /\ \A j \in 1 .. len : D[j] = L[at[j]]
      /\ \A j, k \in 1 .. len : j < k => at[j] < at[k]
      /\ \A h \in 1 .. i : L[h] # 0 => \E j \in 1 .. len : at[j] = h
  BY <1>1, <1>3 DEF Places
<1>5. \A j \in 1 .. len : at[j] \in 1 .. i /\ at[j] # i + 1 /\ at[j] < i + 1 /\ at[j] \in 1 .. i + 1
  BY <1>4
<1>6. CASE L[i + 1] = 0
  <2>1. E = D
    BY <1>6
  <2>2. at \in [1 .. len -> 1 .. i + 1]
    BY <1>4, <1>5
  <2>3. ASSUME NEW h \in 1 .. i + 1, L[h] # 0 PROVE \E j \in 1 .. len : at[j] = h
    <3>1. h \in 1 .. i
      BY <1>6, <2>3
    <3> QED BY <1>4, <2>3, <3>1
  <2>4. Places(L, i + 1, D, at)
    BY <1>3, <1>4, <2>2, <2>3 DEF Places
  <2> QED BY <1>2, <2>1, <2>4 DEF Kept
<1>7. CASE L[i + 1] # 0
  <2>1. PICK x \in Nat \ {0} : x = L[i + 1]
    BY <1>7
  <2>2. E = Append(D, x)
    BY <1>7, <2>1
  <2>3. /\ E \in Seq(Nat \ {0}) /\ Len(E) = len + 1 /\ E[len + 1] = x
        /\ \A j \in 1 .. len : E[j] = D[j]
    <3>1. PICK S : S = Nat \ {0}
      OBVIOUS
    <3>2. D \in Seq(S) /\ x \in S
      BY <1>2, <3>1
    <3>3. E \in Seq(S)
      BY <2>2, <3>2
    <3>4. Len(E) = len + 1 /\ E[len + 1] = x
      BY <1>3, <2>2, <3>2
    <3>5. \A j \in 1 .. len : E[j] = D[j]
      BY <1>3, <2>2, <3>2
    <3> QED BY <3>1, <3>3, <3>4, <3>5
  <2>4. PICK to : to = [j \in 1 .. len + 1 |-> IF j = len + 1 THEN i + 1 ELSE at[j]]
    OBVIOUS
  <2>5. to[len + 1] = i + 1 /\ \A j \in 1 .. len : to[j] = at[j]
    BY <1>3, <2>4
  <2>6. to \in [1 .. len + 1 -> 1 .. i + 1]
    BY <1>5, <2>4
  <2>7. ASSUME NEW j \in 1 .. len + 1 PROVE E[j] = L[to[j]]
    <3>1. j = len + 1 \/ j \in 1 .. len
      OBVIOUS
    <3> QED BY <1>4, <2>1, <2>3, <2>5, <3>1
  <2>8. ASSUME NEW j \in 1 .. len + 1, NEW k \in 1 .. len + 1, j < k PROVE to[j] < to[k]
    <3>1. j \in 1 .. len /\ to[j] = at[j]
      BY <2>5, <2>8
    <3>2. k = len + 1 \/ k \in 1 .. len
      OBVIOUS
    <3>3. CASE k = len + 1
      BY <1>5, <2>5, <3>1, <3>3
    <3>4. CASE k \in 1 .. len
      BY <1>4, <2>5, <2>8, <3>1, <3>4
    <3> QED BY <3>2, <3>3, <3>4
  <2>9. ASSUME NEW h \in 1 .. i + 1, L[h] # 0 PROVE \E j \in 1 .. len + 1 : to[j] = h
    <3>1. CASE h = i + 1
      BY <2>5, <3>1
    <3>2. CASE h # i + 1
      <4>1. h \in 1 .. i
        BY <3>2
      <4>2. PICK j \in 1 .. len : at[j] = h
        BY <1>4, <2>9, <4>1
      <4> QED BY <2>5, <4>2
    <3> QED BY <3>1, <3>2
  <2>10. Places(L, i + 1, E, to)
    BY <2>3, <2>6, <2>7, <2>8, <2>9 DEF Places
  <2> QED BY <2>3, <2>10 DEF Kept
<1> QED BY <1>6, <1>7

LEMMA DecodedLines ==
  ASSUME NEW L \in Seq(Nat)
  PROVE  Kept(L, Decoded(L), Len(L))
<1>1. PICK n \in Nat : n = Len(L) /\ DOMAIN L = 1 .. n /\ \A i \in 1 .. n : L[i] \in Nat
  OBVIOUS
<1>2. PICK a \in Seq(Nat) : a = <<>>
  <2>1. <<>> \in Seq(Nat)
    OBVIOUS
  <2> QED BY <2>1
<1>3. PICK kept : /\ kept = [i \in 0 .. n |->
                               IF i = 0 THEN a
                               ELSE IF L[i] = Torn THEN kept[i - 1]
                               ELSE Append(kept[i - 1], L[i])]
                  /\ Decoded(L) = kept[n]
  <2>1. PICK step : step = [s \in Seq(Nat) |-> [i \in 1 .. n |->
                              IF L[i] = Torn THEN s ELSE Append(s, L[i])]]
    OBVIOUS
  <2>2. step \in [Seq(Nat) -> [1 .. n -> Seq(Nat)]]
    <3>1. ASSUME NEW s \in Seq(Nat), NEW i \in 1 .. n
          PROVE  (IF L[i] = Torn THEN s ELSE Append(s, L[i])) \in Seq(Nat)
      BY <1>1
    <3> QED BY <2>1, <3>1
  <2>3. PICK f \in [0 .. n -> Seq(Nat)] :
          f[0] = a /\ \A i \in 1 .. n : f[i] = step[f[i - 1]][i]
    <3>1. PICK X : X = Seq(Nat)
      OBVIOUS
    <3>2. a \in X /\ step \in [X -> [1 .. n -> X]]
      BY <1>2, <2>2, <3>1
    <3>3. \E f : Steps(X, a, n, step, f)
      BY <3>2, ByRecursion
    <3> QED BY <3>1, <3>3 DEF Steps
  <2>4. ASSUME NEW i \in 1 .. n
        PROVE  f[i] = IF L[i] = Torn THEN f[i - 1] ELSE Append(f[i - 1], L[i])
    <3>1. f[i - 1] \in Seq(Nat)
      BY <2>3
    <3> QED BY <2>1, <2>3, <3>1
  <2>5. ASSUME NEW i \in 0 .. n
        PROVE  f[i] = IF i = 0 THEN a
                      ELSE IF L[i] = Torn THEN f[i - 1] ELSE Append(f[i - 1], L[i])
    <3>1. i = 0 \/ i \in 1 .. n
      OBVIOUS
    <3> QED BY <2>3, <2>4, <3>1
  <2>6. f = [i \in 0 .. n |-> IF i = 0 THEN a
                              ELSE IF L[i] = Torn THEN f[i - 1]
                              ELSE Append(f[i - 1], L[i])]
    BY <2>3, <2>5
  <2>7. PICK kept : kept = CHOOSE g : g = [i \in 0 .. n |->
                                             IF i = 0 THEN a
                                             ELSE IF L[i] = Torn THEN g[i - 1]
                                             ELSE Append(g[i - 1], L[i])]
    OBVIOUS
  <2>8. kept = [i \in 0 .. n |-> IF i = 0 THEN a
                                 ELSE IF L[i] = Torn THEN kept[i - 1]
                                 ELSE Append(kept[i - 1], L[i])]
    BY <2>6, <2>7
  <2>9. Decoded(L) = kept[n]
    BY <1>1, <1>2, <2>7 DEF Decoded
  <2> QED BY <2>8, <2>9
<1> DEFINE S == {i \in Nat : i <= n => Kept(L, kept[i], i)}
<1>4. 0 \in S
  <2>1. kept[0] = a /\ a \in Seq(Nat \ {0}) /\ Len(a) = 0
    BY <1>2, <1>3
  <2>2. PICK at : at = [j \in 1 .. 0 |-> 0]
    OBVIOUS
  <2>3. Places(L, 0, a, at)
    BY <2>1, <2>2 DEF Places
  <2> QED BY <2>1, <2>3 DEF Kept
<1>5. ASSUME NEW i \in Nat, i \in S PROVE i + 1 \in S
  <2> SUFFICES ASSUME i + 1 <= n PROVE Kept(L, kept[i + 1], i + 1)
    OBVIOUS
  <2>1. Kept(L, kept[i], i) /\ i + 1 \in DOMAIN L
    BY <1>1, <1>5
  <2>2. kept[i + 1] = IF L[i + 1] = 0 THEN kept[i] ELSE Append(kept[i], L[i + 1])
    <3>1. i + 1 \in 0 .. n /\ i + 1 # 0 /\ (i + 1) - 1 = i
      BY <1>5
    <3> QED BY <1>3, <3>1 DEF Torn
  <2>3. PICK D, E : D = kept[i] /\ E = kept[i + 1]
    OBVIOUS
  <2> QED BY <2>1, <2>2, <2>3, KeptLonger
<1> HIDE DEF S
<1>6. n \in S
  BY <1>4, <1>5, ByInduction
<1>7. Kept(L, kept[n], n)
  BY <1>6 DEF S
<1> QED BY <1>1, <1>3, <1>7

-----------------------------------------------------------------------------
(* The hot list: how a list is cut to its newest part, and what a process   *)
(* loads when it starts.                                                    *)

LEMMA LastOfList ==
  ASSUME NEW S, NEW L \in Seq(S), NEW n \in Nat \ {0}
  PROVE  /\ LastOf(L, n) \in Seq(S)
         /\ Len(LastOf(L, n)) <= n
         /\ L # <<>> => LastOf(L, n) # <<>>
         /\ \E d \in Nat : /\ Len(L) = Len(LastOf(L, n)) + d
                           /\ \A i \in 1 .. Len(LastOf(L, n)) :
                                LastOf(L, n)[i] = L[i + d]
<1>1. PICK k \in Nat : k = Len(L) /\ DOMAIN L = 1 .. k /\ \A i \in 1 .. k : L[i] \in S
  OBVIOUS
<1>2. PICK d \in Nat : d = IF k > n THEN k - n ELSE 0
  <2>1. (IF k > n THEN k - n ELSE 0) \in Nat
    OBVIOUS
  <2> QED BY <2>1
<1>3. PICK t : t = LastOf(L, n)
  OBVIOUS
<1>4. t = SubSeq(L, d + 1, k)
  <2>1. d + 1 = IF k > n THEN k - n + 1 ELSE 1
    BY <1>2
  <2> QED BY <1>1, <1>3, <2>1 DEF LastOf
<1>5. /\ t \in Seq(S)
      /\ Len(t) = IF d + 1 <= k THEN k - (d + 1) + 1 ELSE 0
      /\ \A i \in 1 .. k - (d + 1) + 1 : t[i] = L[(d + 1) + i - 1]
  <2>1. \A i \in (d + 1) .. k : L[i] \in S
    BY <1>1
  <2>2. d + 1 \in Int /\ k \in Int
    OBVIOUS
  <2> QED BY <1>4, <2>1, <2>2, SubSeqProperties
<1>6. Len(t) = k - d /\ Len(t) <= n
  BY <1>2, <1>5
<1>7. \A i \in 1 .. Len(t) : t[i] = L[i + d]
  BY <1>5, <1>6
<1>8. L # <<>> => t # <<>>
  <2> SUFFICES ASSUME L # <<>> PROVE t # <<>>
    OBVIOUS
  <2>1. k > 0
    BY <1>1
  <2>2. Len(t) > 0
    BY <1>2, <1>6, <2>1
  <2> QED BY <2>2
<1> QED BY <1>1, <1>3, <1>5, <1>6, <1>7, <1>8

\* What a process holds after loading, and after remembering one tick more.
LEMMA LoadedList ==
  ASSUME FilesType, NEW f \in Files
  PROVE  Loaded(f) \in Seq(1 .. ticks) /\ Len(Loaded(f)) <= MaxHot
<1>1. PICK L, n, D : L = lines[f] /\ n = ticks /\ D = Decoded(L)
  OBVIOUS
<1>2. n \in Nat /\ L \in Seq(0 .. n)
  BY <1>1 DEF FilesType, ticks
<1>3. L \in Seq(Nat) /\ \A i \in DOMAIN L : L[i] \in 0 .. n
  <2>1. PICK S : S = 0 .. n /\ S \subseteq Nat
    BY <1>2
  <2>2. L \in Seq(S)
    BY <1>2, <2>1
  <2>3. \A i \in DOMAIN L : L[i] \in S
    BY <2>2
  <2>4. L \in Seq(Nat)
    <3>1. PICK T : T = Nat
      OBVIOUS
    <3>2. S \subseteq T
      BY <2>1, <3>1
    <3>3. L \in Seq(T)
      BY <2>2, <3>2
    <3> QED BY <3>1, <3>3
  <2> QED BY <2>1, <2>3, <2>4
<1>4. D \in Seq(Nat \ {0}) /\ \E at : Places(L, Len(L), D, at)
  BY <1>1, <1>3, DecodedLines DEF Kept
<1>5. PICK at : Places(L, Len(L), D, at)
  BY <1>4
<1>6. ASSUME NEW j \in DOMAIN D PROVE D[j] \in 1 .. n
  <2>1. j \in 1 .. Len(D) /\ D[j] \in Nat \ {0}
    BY <1>4
  <2>2. D[j] = L[at[j]] /\ at[j] \in 1 .. Len(L)
    BY <1>5, <2>1 DEF Places
  <2>3. at[j] \in DOMAIN L
    BY <1>3, <2>2
  <2> QED BY <1>2, <1>3, <2>1, <2>2, <2>3
<1>7. D \in Seq(1 .. n)
  <2>1. PICK k \in Nat : k = Len(D) /\ DOMAIN D = 1 .. k /\ D \in [1 .. k -> Nat \ {0}]
    BY <1>4
  <2>2. D \in [1 .. k -> 1 .. n]
    BY <1>6, <2>1
  <2> QED BY <2>2, SeqDef
<1>8. PICK m, S : m = MaxHot /\ S = 1 .. n
  OBVIOUS
<1>9. m \in Nat \ {0} /\ D \in Seq(S)
  BY <1>7, <1>8, BridgeAssumption
<1>10. LastOf(D, m) \in Seq(S) /\ Len(LastOf(D, m)) <= m
  BY <1>9, LastOfList
<1>11. Loaded(f) = LastOf(D, m)
  BY <1>1, <1>8 DEF Loaded
<1> QED BY <1>1, <1>8, <1>10, <1>11

LEMMA RememberedList ==
  ASSUME NEW n \in Nat, NEW list \in Seq(1 .. n), Len(list) <= MaxHot
  PROVE  Remember(list, n + 1) \in Seq(1 .. n + 1) /\ Len(Remember(list, n + 1)) <= MaxHot
<1>1. PICK longer : longer = Append(list, n + 1)
  OBVIOUS
<1>2. longer \in Seq(1 .. n + 1) /\ Len(longer) \in Nat
  <2>1. list \in Seq(1 .. n + 1)
    OBVIOUS
  <2> QED BY <1>1, <2>1
<1>3. /\ MaxHot \in Nat \ {0}
      /\ (MaxHot + 1) \div 2 \in Nat \ {0} /\ (MaxHot + 1) \div 2 <= MaxHot
  BY BridgeAssumption
<1>4. PICK half \in Nat \ {0} : half = (MaxHot + 1) \div 2 /\ half <= MaxHot
  BY <1>3
<1>5. Remember(list, n + 1) = IF Len(longer) > MaxHot THEN LastOf(longer, half) ELSE longer
  BY <1>1, <1>4 DEF Remember
<1>6. CASE Len(longer) > MaxHot
  <2>1. PICK t : t = LastOf(longer, half)
    OBVIOUS
  <2>2. t \in Seq(1 .. n + 1) /\ Len(t) <= half
    BY <1>2, <2>1, LastOfList
  <2>3. Len(t) \in Nat
    BY <2>2
  <2> QED BY <1>3, <1>4, <1>5, <1>6, <2>1, <2>2, <2>3
<1>7. CASE ~ (Len(longer) > MaxHot)
  BY <1>2, <1>3, <1>5, <1>7
<1> QED BY <1>6, <1>7

-----------------------------------------------------------------------------
\* The part of the type that FilesType does not cover.
TypeRest ==
  /\ stamp \in [Processes -> 0 .. now]
  /\ hot \in [Processes -> Seq(1 .. ticks)]
  /\ \A p \in Processes : Len(hot[p]) <= MaxHot
  /\ stored \subseteq 1 .. ticks /\ torn \in 0 .. MaxTorn
  /\ replaced \subseteq 1 .. ticks

LEMMA TypeInit == Init => TypeOK
<1> SUFFICES ASSUME Init PROVE TypeOK
  OBVIOUS
<1>1. FilesType
  BY FilesInit DEF FilesInv
<1>2. TypeRest
  <2>1. MaxHot \in Nat /\ MaxTorn \in Nat
    BY BridgeAssumption
  <2> QED BY <2>1 DEF Init, TypeRest
<1> QED BY <1>1, <1>2 DEF FilesType, TypeRest, TypeOK

LEMMA TypeSplit == FilesType => (TypeOK <=> TypeRest)
BY DEF FilesType, TypeOK, TypeRest

LEMMA TypeStep == FilesInv /\ TypeRest /\ [Next]_vars => TypeRest'
<1> SUFFICES ASSUME FilesInv, TypeRest, [Next]_vars PROVE TypeRest'
  OBVIOUS
<1> USE DEF disk, local, history
<1>0. /\ now \in Nat /\ ticks \in Nat /\ MaxTicks \in Nat /\ MaxHot \in Nat
      /\ MaxTorn \in Nat /\ MaxSeconds \in Nat
  BY BridgeAssumption DEF FilesInv, FilesType, Seconds, ticks
<1>1. CASE UNCHANGED <<now, stamp, hot, madeBy, stored, torn, replaced>>
  BY <1>1 DEF TypeRest, ticks
<1>2. CASE SecondPasses
  <2>1. now' = now + 1 /\ UNCHANGED <<stamp, hot, madeBy, stored, torn, replaced>>
    BY <1>2 DEF SecondPasses
  <2>2. stamp' \in [Processes -> 0 .. now']
    BY <1>0, <2>1 DEF TypeRest
  <2> QED BY <2>1, <2>2 DEF TypeRest, ticks
<1>3. ASSUME NEW p \in Processes, Start(p) \/ OtherRotationFails(p) PROVE TypeRest'
  BY <1>1, <1>3 DEF Start, OtherRotationFails
<1>4. ASSUME NEW p \in Processes, NEW h \in Seq(1 .. ticks), Len(h) <= MaxHot,
             hot' = [hot EXCEPT ![p] = h] \/ hot' = hot,
             UNCHANGED <<now, madeBy, replaced>>, NEW t \in 0 .. now,
             stamp' = [stamp EXCEPT ![p] = t] \/ stamp' = stamp,
             stored' \subseteq 1 .. ticks, torn' \in 0 .. MaxTorn
      PROVE  TypeRest'
  <2>1. ticks' = ticks
    BY <1>4 DEF ticks
  <2>2. hot' \in [Processes -> Seq(1 .. ticks)] /\ \A q \in Processes : Len(hot'[q]) <= MaxHot
    BY <1>4 DEF TypeRest
  <2>3. stamp' \in [Processes -> 0 .. now']
    BY <1>4 DEF TypeRest
  <2> QED BY <1>4, <2>1, <2>2, <2>3 DEF TypeRest
<1>5. <<>> \in Seq(1 .. ticks) /\ Len(<<>>) <= MaxHot /\ 0 \in 0 .. now
  BY <1>0
<1>6. ASSUME NEW p \in Processes, Load(p) PROVE TypeRest'
  <2>1. PICK s : s = Loaded(fd[p])
    OBVIOUS
  <2>2. fd[p] \in Files
    <3>1. fd[p] \in 0 .. ticks /\ fd[p] # 0 /\ ticks <= MaxTicks
      BY <1>6 DEF Load, FilesInv, FilesType, Pending, None
    <3> QED BY <1>0, <3>1 DEF Files
  <2>3. s \in Seq(1 .. ticks) /\ Len(s) <= MaxHot
    BY <2>1, <2>2, LoadedList DEF FilesInv
  <2>4. hot' = [hot EXCEPT ![p] = s] /\ UNCHANGED <<now, stamp, madeBy, stored, torn, replaced>>
    BY <1>6, <2>1 DEF Load
  <2>5. stored' \subseteq 1 .. ticks /\ torn' \in 0 .. MaxTorn
    BY <2>4 DEF TypeRest
  <2> QED BY <1>4, <1>5, <2>3, <2>4, <2>5
<1>7. ASSUME NEW p \in Processes, Look(p) PROVE TypeRest'
  <2>1. /\ \E t \in 0 .. now : stamp' = [stamp EXCEPT ![p] = t] \/ stamp' = stamp
        /\ UNCHANGED <<now, hot, madeBy, stored, torn, replaced>>
    BY <1>0, <1>7 DEF Look
  <2>2. stored' \subseteq 1 .. ticks /\ torn' \in 0 .. MaxTorn
    BY <2>1 DEF TypeRest
  <2> QED BY <1>4, <1>5, <2>1, <2>2
<1>8. ASSUME NEW p \in Processes, Crash(p) PROVE TypeRest'
  <2>1. /\ stamp' = [stamp EXCEPT ![p] = 0] /\ hot' = [hot EXCEPT ![p] = <<>>]
        /\ UNCHANGED <<now, madeBy, stored, torn, replaced>>
    BY <1>8 DEF Crash
  <2>2. stored' \subseteq 1 .. ticks /\ torn' \in 0 .. MaxTorn
    BY <2>1 DEF TypeRest
  <2> QED BY <1>4, <1>5, <2>1, <2>2
<1>9. ASSUME NEW p \in Processes, Write(p) \/ Tear(p) PROVE TypeRest'
  <2>1. /\ UNCHANGED <<now, stamp, hot, madeBy, replaced>> /\ phase[p] = "writing"
        /\ stored' = stored \/ stored' = stored \cup {entry[p]}
        /\ torn' = torn \/ (torn < MaxTorn /\ torn' = torn + 1)
    BY <1>9 DEF Write, Tear
  <2>2. entry[p] \in 1 .. ticks
    <3>1. entry[p] \in 0 .. ticks /\ entry[p] # 0
      BY <2>1 DEF FilesInv, FilesType, Pending
    <3> QED BY <1>0, <3>1
  <2>3. stored' \subseteq 1 .. ticks
    BY <2>1, <2>2 DEF TypeRest
  <2>4. torn' \in 0 .. MaxTorn
    BY <1>0, <2>1 DEF TypeRest
  <2> QED BY <1>4, <1>5, <2>1, <2>3, <2>4
<1>10. ASSUME NEW p \in Processes, Rename(p) PROVE TypeRest'
  <2>1. /\ stamp' = [stamp EXCEPT ![p] = 0]
        /\ \/ replaced' = replaced
           \/ replaced' = replaced \cup ({archives[stamp[p]]} \ {None})
        /\ UNCHANGED <<now, hot, madeBy, stored, torn>>
    BY <1>10 DEF Rename
  <2>2. archives[stamp[p]] \in 0 .. ticks
    BY DEF FilesInv, FilesType
  <2>3. {archives[stamp[p]]} \ {None} \subseteq 1 .. ticks
    BY <1>0, <2>2 DEF None
  <2>4. replaced' \subseteq 1 .. ticks
    BY <2>1, <2>3 DEF TypeRest
  <2>5. stamp' \in [Processes -> 0 .. now']
    BY <1>5, <2>1 DEF TypeRest
  <2> QED BY <2>1, <2>4, <2>5 DEF TypeRest, ticks
<1>11. ASSUME NEW p \in Processes, Open(p) PROVE TypeRest'
  <2>1. PICK n : n = ticks
    OBVIOUS
  <2>2. /\ madeBy' = Append(madeBy, p) /\ n < MaxTicks
        /\ hot' = [hot EXCEPT ![p] = Remember(hot[p], n + 1)]
        /\ UNCHANGED <<now, stamp, stored, torn, replaced>>
    BY <1>11, <2>1 DEF Open, TypeRest
  <2>3. n \in Nat /\ ticks' = n + 1
    BY <2>1, <2>2, TickMade DEF FilesInv
  <2>4. hot[p] \in Seq(1 .. n) /\ Len(hot[p]) <= MaxHot
    BY <2>1 DEF TypeRest
  <2>5. PICK h : h = Remember(hot[p], n + 1)
    OBVIOUS
  <2>6. h \in Seq(1 .. n + 1) /\ Len(h) <= MaxHot
    <3>1. PICK list : list = hot[p]
      OBVIOUS
    <3>2. list \in Seq(1 .. n) /\ Len(list) <= MaxHot /\ h = Remember(list, n + 1)
      BY <2>4, <2>5, <3>1
    <3> QED BY <2>3, <3>2, RememberedList
  <2>7. PICK S, T : S = 1 .. n /\ T = 1 .. n + 1
    OBVIOUS
  <2>8. S \subseteq T /\ hot \in [Processes -> Seq(S)] /\ h \in Seq(T)
    BY <2>1, <2>3, <2>6, <2>7 DEF TypeRest
  <2>9. \A q \in Processes : hot[q] \in Seq(T)
    BY <2>8
  <2>10. hot' \in [Processes -> Seq(T)] /\ \A q \in Processes : Len(hot'[q]) <= MaxHot
    BY <2>2, <2>5, <2>6, <2>8, <2>9 DEF TypeRest
  <2>11. stored' \subseteq T /\ replaced' \subseteq T
    BY <2>1, <2>2, <2>7, <2>8 DEF TypeRest
  <2>12. stamp' \in [Processes -> 0 .. now'] /\ torn' \in 0 .. MaxTorn
    BY <2>2 DEF TypeRest
  <2> QED BY <2>3, <2>7, <2>10, <2>11, <2>12 DEF TypeRest
<1>12. CASE UNCHANGED vars
  BY <1>1, <1>12 DEF vars
<1> QED BY <1>2, <1>3, <1>6, <1>7, <1>8, <1>9, <1>10, <1>11, <1>12 DEF Next

(* The memory bridge's fields hold values its code can give them: each hot  *)
(* list has ticks that were made and at most max_hot of them, whether it was *)
(* loaded from a file with torn lines or trimmed when it overflowed.        *)
THEOREM BridgeTypeCorrect == Spec => []TypeOK
<1>1. Init => FilesInv /\ TypeRest
  BY FilesInit, TypeInit, TypeSplit DEF FilesInv
<1>2. FilesInv /\ TypeRest => TypeOK
  BY TypeSplit DEF FilesInv
<1> QED BY <1>1, <1>2, FilesNext, TypeStep, PTL DEF Spec

-----------------------------------------------------------------------------
(* Restarts. Whatever a process has in the file it read is in file order,   *)
(* so what follows a loaded tick of the same process is loaded with it.     *)

LEMMA LoadRecovers ==
  ASSUME FilesInv, TypeRest, NEW p \in Processes, Load(p)
  PROVE  LET list == ToSet(hot'[p]) IN
         /\ list = {} => ToSet(lines[fd[p]]) \subseteq {Torn}
         /\ \A n \in list, m \in In(1 .. fd[p]) \ {Torn} :
              madeBy[m] = madeBy[n] /\ m > n => m \in list
<1> USE DEF Torn
<1>1. PICK f, L, D, M, n : /\ f = fd[p] /\ L = lines[f] /\ D = Decoded(L) /\ M = MaxHot
                           /\ n = ticks
  OBVIOUS
<1>2. f \in Files /\ f \in 1 .. n /\ n \in Nat /\ MaxTicks \in Nat /\ n <= MaxTicks /\ M \in Nat \ {0}
  <2>1. fd[p] \in 0 .. ticks /\ fd[p] # 0 /\ ticks <= MaxTicks
    BY DEF Load, FilesInv, FilesType, Pending, None
  <2>2. ticks \in Nat /\ MaxTicks \in Nat
    BY BridgeAssumption DEF FilesInv, FilesType, ticks
  <2> QED BY <1>1, <2>1, <2>2, BridgeAssumption DEF Files
<1>3. /\ L \in Seq(Nat)
      /\ \A i \in DOMAIN L : L[i] \in 0 .. n
  <2>1. PICK S : S = 0 .. n /\ S \subseteq Nat
    BY <1>2
  <2>2. L \in Seq(S)
    BY <1>1, <1>2, <2>1 DEF FilesInv, FilesType
  <2>3. \A i \in DOMAIN L : L[i] \in S
    BY <2>2
  <2>4. L \in Seq(Nat)
    <3>1. PICK T : T = Nat
      OBVIOUS
    <3>2. S \subseteq T
      BY <2>1, <3>1
    <3>3. L \in Seq(T)
      BY <2>2, <3>2
    <3> QED BY <3>1, <3>3
  <2> QED BY <2>1, <2>3, <2>4
<1>4. Kept(L, D, Len(L))
  BY <1>1, <1>3, DecodedLines
<1>5. PICK at : Places(L, Len(L), D, at)
  BY <1>4 DEF Kept
<1>6. PICK len \in Nat : len = Len(D) /\ DOMAIN D = 1 .. len /\ D \in Seq(Nat \ {0})
                         /\ \A j \in 1 .. len : D[j] \in Nat \ {0}
  BY <1>4 DEF Kept
<1>7. PICK k \in Nat : k = Len(L) /\ DOMAIN L = 1 .. k
  BY <1>3
<1>8. /\ at \in [1 .. len -> 1 .. k]
      /\ \A j \in 1 .. len : D[j] = L[at[j]]
      /\ \A i, j \in 1 .. len : i < j => at[i] < at[j]
      /\ \A h \in 1 .. k : L[h] # 0 => \E j \in 1 .. len : at[j] = h
  BY <1>5, <1>6, <1>7 DEF Places
<1>9. PICK t : t = LastOf(D, M)
  OBVIOUS
<1>10. PICK S : S = Nat \ {0}
  OBVIOUS
<1>11. t \in Seq(S) /\ (D # <<>> => t # <<>>)
  BY <1>2, <1>6, <1>9, <1>10, LastOfList
<1>12. PICK d \in Nat : /\ len = Len(t) + d
                        /\ \A i \in 1 .. Len(t) : t[i] = D[i + d]
  <2>1. D \in Seq(S) /\ M \in Nat \ {0}
    BY <1>2, <1>6, <1>10
  <2>2. \E d \in Nat : /\ Len(D) = Len(LastOf(D, M)) + d
                       /\ \A i \in 1 .. Len(LastOf(D, M)) : LastOf(D, M)[i] = D[i + d]
    BY <2>1, LastOfList
  <2> QED BY <1>6, <1>9, <2>2
<1>13. PICK c \in Nat : c = Len(t) /\ DOMAIN t = 1 .. c
  BY <1>11
<1>14. hot'[p] = t
  <2>1. hot' = [hot EXCEPT ![p] = t]
    BY <1>1, <1>9 DEF Load, Loaded
  <2>2. hot \in [Processes -> Seq(1 .. ticks)]
    BY DEF TypeRest
  <2> QED BY <2>1, <2>2
<1>15. ToSet(t) = {D[j] : j \in (d + 1) .. len}
  <2>1. ASSUME NEW x \in ToSet(t) PROVE x \in {D[j] : j \in (d + 1) .. len}
    <3>1. PICK i \in 1 .. c : t[i] = x
      BY <1>13, <2>1 DEF ToSet
    <3>2. i + d \in (d + 1) .. len /\ x = D[i + d]
      BY <1>12, <1>13, <3>1
    <3> QED BY <3>2
  <2>2. ASSUME NEW j \in (d + 1) .. len PROVE D[j] \in ToSet(t)
    <3>1. j - d \in 1 .. c /\ D[j] = t[j - d]
      <4>1. j - d \in 1 .. c /\ (j - d) + d = j
        BY <1>12, <1>13, <2>2
      <4> QED BY <1>12, <1>13, <4>1
    <3> QED BY <1>13, <3>1 DEF ToSet
  <2> QED BY <2>1, <2>2
<1>16. ASSUME ToSet(t) = {} PROVE ToSet(L) \subseteq {0}
  <2>1. D = <<>>
    <3>1. c = 0
      <4>1. ASSUME c # 0 PROVE FALSE
        <5>1. 1 \in DOMAIN t
          BY <1>13, <4>1
        <5>2. t[1] \in ToSet(t)
          BY <5>1 DEF ToSet
        <5> QED BY <1>16, <5>2
      <4> QED BY <4>1
    <3>2. t = <<>>
      BY <1>11, <1>13, <3>1
    <3> QED BY <1>11, <3>2
  <2>2. len = 0
    BY <1>6, <2>1
  <2>3. ASSUME NEW h \in 1 .. k PROVE L[h] = 0
    BY <1>8, <2>2
  <2> QED BY <1>7, <2>3 DEF ToSet
<1>17. ASSUME NEW x \in ToSet(t), NEW m \in In(1 .. f) \ {0}, madeBy[m] = madeBy[x], m > x
       PROVE  m \in ToSet(t)
  <2>1. PICK a \in (d + 1) .. len : x = D[a]
    BY <1>15, <1>17
  <2>2. a \in 1 .. len /\ at[a] \in DOMAIN L /\ L[at[a]] = x /\ x # 0 /\ x \in 0 .. n
    BY <1>3, <1>6, <1>7, <1>8, <1>12, <2>1
  <2>3. PICK g \in 1 .. f : m \in ToSet(lines[g])
    BY <1>17 DEF In
  <2>4. PICK i \in DOMAIN lines[g] : lines[g][i] = m
    BY <2>3 DEF ToSet
  <2>5. g \in Files /\ g \in Nat /\ f \in Nat
    BY <1>2, <2>3 DEF Files
  <2>6. m \in 0 .. n
    <3>1. PICK K, T : K = lines[g] /\ T = 0 .. n
      OBVIOUS
    <3>2. K \in Seq(T) /\ i \in DOMAIN K
      BY <1>1, <2>4, <2>5, <3>1 DEF FilesInv, FilesType
    <3>3. K[i] \in T
      BY <3>2
    <3> QED BY <2>4, <3>1, <3>3
  <2>7. ~ Before(g, i, f, at[a])
    <3>1. ASSUME Before(g, i, f, at[a]) PROVE FALSE
      <4>1. at[a] \in DOMAIN lines[f] /\ lines[f][at[a]] = x
        BY <1>1, <2>2
      <4>2. m # 0 /\ madeBy[m] = madeBy[x] /\ ~ (m < x)
        BY <1>2, <1>17, <2>2, <2>6
      <4> QED BY <1>2, <2>2, <2>4, <2>5, <3>1, <4>1, <4>2 DEF FilesInv, TicksOnceInOrder
    <3> QED BY <3>1
  <2>8. g = f
    BY <2>3, <2>5, <2>7 DEF Before
  <2>9. i \in 1 .. k /\ L[i] = m
    BY <1>1, <1>7, <2>4, <2>8
  <2>10. PICK b \in 1 .. len : at[b] = i
    BY <1>8, <1>17, <2>9
  <2>11. ~ (i < at[a])
    BY <2>7, <2>8 DEF Before
  <2>12. b > a
    <3>1. at[a] \in 1 .. k /\ at[a] # i
      BY <1>7, <1>17, <2>2, <2>6, <2>9
    <3>2. at[a] < at[b]
      BY <2>9, <2>10, <2>11, <3>1
    <3>3. ~ (b < a)
      <4>1. ASSUME b < a PROVE FALSE
        <5>1. at[b] < at[a]
          BY <1>8, <2>2, <4>1
        <5> QED BY <2>9, <2>10, <3>1, <3>2, <5>1
      <4> QED BY <4>1
    <3>4. b # a
      BY <3>1, <2>10
    <3> QED BY <2>2, <3>3, <3>4
  <2>13. b \in (d + 1) .. len /\ D[b] = m
    BY <1>8, <2>1, <2>9, <2>10, <2>12
  <2> QED BY <1>15, <2>13
<1> QED BY <1>1, <1>14, <1>16, <1>17

\* A process is up after loading by Load only.
LEMMA OnlyLoadEndsLoading ==
  ASSUME FilesType, [Next]_vars, NEW p \in Processes, phase[p] = "loading", phase'[p] = "up"
  PROVE  Load(p)
<1>1. phase \in [Processes -> Phases] /\ phase' # phase
  BY DEF FilesType, Phases
<1>2. ~ SecondPasses /\ ~ UNCHANGED vars
  BY <1>1 DEF SecondPasses, vars, local
<1>3. PICK q \in Processes :
        \/ Start(q) \/ Load(q) \/ Look(q) \/ Rename(q) \/ OtherRotationFails(q)
        \/ Open(q) \/ Write(q) \/ Tear(q) \/ Crash(q)
  BY <1>2 DEF Next
<1>4. \E x \in Phases : phase' = [phase EXCEPT ![q] = x]
  BY <1>3 DEF Start, Load, Look, Rename, OtherRotationFails, Open, Write, Tear, Crash, Phases
<1>5. q = p
  BY <1>1, <1>4
<1> QED BY <1>1, <1>3, <1>5
     DEF Start, Look, Rename, OtherRotationFails, Open, Write, Tear, Crash

(* Whatever processes wrote, rotated, tore and crashed before, and wherever *)
(* late writes went, a process that starts finds the newest readable ticks  *)
(* of each process, up to the file it reads, without a gap.                 *)
THEOREM RestartsRecoverTail == Spec => RestartRecoversTail
<1>1. ASSUME FilesInv, TypeRest, [Next]_vars
      PROVE  [\A p \in Processes :
                phase[p] = "loading" /\ phase'[p] = "up" =>
                  LET list == ToSet(hot'[p]) IN
                  /\ list = {} => ToSet(lines[fd[p]]) \subseteq {Torn}
                  /\ \A n \in list, m \in In(1 .. fd[p]) \ {Torn} :
                       madeBy[m] = madeBy[n] /\ m > n => m \in list]_vars
  BY <1>1, OnlyLoadEndsLoading, LoadRecovers DEF FilesInv
<1>2. Init => FilesInv /\ TypeRest
  BY FilesInit, TypeInit, TypeSplit DEF FilesInv
<1> QED BY <1>1, <1>2, FilesNext, TypeStep, PTL DEF Spec, RestartRecoversTail
=============================================================================
