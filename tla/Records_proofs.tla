------------------------------ MODULE Records_proofs ------------------------------
(***************************************************************************)
(* Proofs about the parts of Records, and from them about their            *)
(* composition: each part has an inductive invariant of its own, which a   *)
(* step of another part leaves alone.                                      *)
(***************************************************************************)
EXTENDS Records, AspenBridge_proofs

-----------------------------------------------------------------------------
(* The sidecars. Undisturbed, at most one of them is in its update: until   *)
(* it writes, the file and what it read are what was stored last.           *)

MemoryType ==
  /\ file \in Side!Memories \cup {Side!Empty, Side!Unreadable}
  /\ reading \in Side!Memories \cup {Side!Empty, Side!Unreadable}
  /\ at \in [Sidecars -> {"idle", "merged", "writing"}]
  /\ key \in [Sidecars -> Keys]
  /\ memory \in [Sidecars -> Side!Memories]
  /\ content \in Side!Memories
  /\ updates \in 0 .. MaxUpdates /\ disturbed \in BOOLEAN

Alone(s) == \A q \in Sidecars \ {s} : at[q] = "idle"

Undisturbed ==
  /\ Side!Quiet => file = content
  /\ \A s \in Sidecars : at[s] # "idle" =>
       /\ Alone(s)
       /\ file = IF at[s] = "merged" THEN content ELSE Side!Empty
       /\ memory[s] = [content EXCEPT ![key[s]] = memory[s][key[s]]]

NewestInFile ==
  file \notin {Side!Empty, Side!Unreadable} /\ newest.value > 0 =>
    file[newest.key] = newest.value

MemoryInv == MemoryType /\ (~ disturbed => Undisturbed) /\ NewestInFile

LEMMA UnreadableIsNoMemory ==
  /\ Side!Unreadable \notin Side!Memories /\ Side!Empty \notin Side!Memories
  /\ Side!Unreadable # Side!Empty
<1>1. PICK k \in Keys : TRUE
  BY RecordsAssumption
<1>2. /\ MaxUpdates + 1 \notin 0 .. MaxUpdates /\ MaxUpdates + 2 \notin 0 .. MaxUpdates
      /\ MaxUpdates + 2 # MaxUpdates + 1
  BY RecordsAssumption
<1>3. Side!Unreadable[k] = MaxUpdates + 2 /\ Side!Empty[k] = MaxUpdates + 1
  BY <1>1 DEF Side!Unreadable, Side!Empty
<1> QED BY <1>1, <1>2, <1>3 DEF Side!Memories

LEMMA NothingIsMemory == Side!Nothing \in Side!Memories
BY RecordsAssumption DEF Side!Nothing, Side!Memories

LEMMA DecodedIsMemory == MemoryType => Side!Decoded \in Side!Memories
BY NothingIsMemory DEF MemoryType, Side!Decoded

LEMMA MemoryInit == Side!Init => MemoryInv
<1> SUFFICES ASSUME Side!Init PROVE MemoryInv
  OBVIOUS
<1>1. MemoryType
  <2>1. key \in [Sidecars -> Keys]
    BY DEF Side!Init
  <2>2. memory \in [Sidecars -> Side!Memories] /\ at \in [Sidecars -> {"idle"}]
    BY NothingIsMemory DEF Side!Init
  <2>3. file = Side!Nothing /\ reading = Side!Nothing /\ content = Side!Nothing
    BY DEF Side!Init
  <2>4. updates \in 0 .. MaxUpdates /\ disturbed = FALSE
    BY RecordsAssumption DEF Side!Init
  <2> QED BY <2>1, <2>2, <2>3, <2>4, NothingIsMemory DEF MemoryType
<1>2. file = content /\ \A s \in Sidecars : at[s] = "idle"
  BY DEF Side!Init
<1>3. newest.value = 0
  BY DEF Side!Init
<1> QED BY <1>1, <1>2, <1>3 DEF MemoryInv, Undisturbed, NewestInFile

LEMMA ReadKeeps ==
  ASSUME MemoryInv, NEW s \in Sidecars, Side!Read(s)
  PROVE  MemoryInv'
<1>1. PICK k \in Keys :
        /\ key' = [key EXCEPT ![s] = k]
        /\ memory' = [memory EXCEPT ![s] = [Side!Decoded EXCEPT ![k] = updates']]
  BY DEF Side!Read
<1>2. /\ at[s] = "idle" /\ updates' = updates + 1 /\ updates < MaxUpdates
      /\ at' = [at EXCEPT ![s] = "merged"]
      /\ disturbed' = (disturbed \/ Side!Others(s))
      /\ UNCHANGED <<file, reading, content, newest>>
  BY DEF Side!Read
<1>3. MemoryType
  BY DEF MemoryInv
<1>4. updates' \in 0 .. MaxUpdates
  BY <1>2, <1>3, RecordsAssumption DEF MemoryType
<1>5. [Side!Decoded EXCEPT ![k] = updates'] \in Side!Memories
  BY <1>3, <1>4, DecodedIsMemory DEF Side!Memories
<1>6. MemoryType'
  BY <1>1, <1>2, <1>3, <1>4, <1>5 DEF MemoryType, Side!Others
<1>7. ASSUME ~ disturbed' PROVE Undisturbed'
  <2>1. ~ disturbed /\ Alone(s) /\ Side!Quiet
    BY <1>2, <1>7 DEF Side!Others, Alone, Side!Quiet
  <2>2. file = content /\ Side!Decoded = content
    BY <1>3, <2>1, UnreadableIsNoMemory DEF MemoryInv, Undisturbed, MemoryType, Side!Decoded
  <2>3. at'[s] = "merged" /\ \A q \in Sidecars \ {s} : at'[q] = "idle"
    BY <1>2, <1>3, <2>1 DEF MemoryType, Alone
  <2>4. key'[s] = k /\ memory'[s] = [content EXCEPT ![k] = updates']
    BY <1>1, <1>3, <2>2 DEF MemoryType
  <2>5. memory'[s] = [content EXCEPT ![k] = memory'[s][k]]
    BY <1>3, <2>4 DEF MemoryType, Side!Memories
  <2> QED BY <1>2, <2>2, <2>3, <2>4, <2>5 DEF Undisturbed, Alone, Side!Quiet
<1> QED BY <1>2, <1>6, <1>7 DEF MemoryInv, NewestInFile

LEMMA TruncateKeeps ==
  ASSUME MemoryInv, NEW s \in Sidecars, Side!Truncate(s)
  PROVE  MemoryInv'
<1>1. /\ at[s] = "merged" /\ file' = Side!Empty /\ at' = [at EXCEPT ![s] = "writing"]
      /\ UNCHANGED <<key, memory, updates, reading, content, disturbed, newest>>
  BY DEF Side!Truncate, Side!history
<1>2. MemoryType /\ MemoryType'
  BY <1>1 DEF MemoryInv, MemoryType
<1>3. at'[s] = "writing" /\ \A q \in Sidecars \ {s} : at'[q] = at[q]
  BY <1>1, <1>2 DEF MemoryType
<1>4. ~ disturbed => Undisturbed'
  BY <1>1, <1>3 DEF MemoryInv, Undisturbed, Alone, Side!Quiet
<1> QED BY <1>1, <1>2, <1>4 DEF MemoryInv, NewestInFile, Side!Empty, Side!Unreadable

LEMMA WriteKeeps ==
  ASSUME MemoryInv, NEW s \in Sidecars, Side!Write(s)
  PROVE  MemoryInv'
<1>0. PICK k \in Keys : k = key[s]
  BY DEF MemoryInv, MemoryType
<1>1. PICK v : k = key[s] /\ v = memory[s][k]
  BY <1>0
<1>2. /\ at[s] = "writing"
      /\ file' \in {memory[s]} \cup (IF file = Side!Empty THEN {} ELSE {Side!Unreadable})
      /\ at' = [at EXCEPT ![s] = "idle"]
      /\ memory' = [memory EXCEPT ![s] = Side!Nothing]
      /\ newest' = [key |-> k, value |-> v]
      /\ content' = IF disturbed THEN Side!Decoded' ELSE [content EXCEPT ![k] = v]
      /\ disturbed' = (file' = Side!Unreadable \/ Side!Others(s))
      /\ UNCHANGED <<key, updates, reading>>
  BY <1>1 DEF Side!Write
<1>3. MemoryType
  BY DEF MemoryInv
<1>4. memory[s] \in Side!Memories /\ v \in 0 .. MaxUpdates
  BY <1>1, <1>3 DEF MemoryType, Side!Memories
<1>5. file' \in Side!Memories \cup {Side!Empty, Side!Unreadable}
  BY <1>2, <1>4 DEF MemoryType
<1>6. Side!Decoded' \in Side!Memories
  BY <1>5, NothingIsMemory DEF Side!Decoded, Side!Nothing, Side!Empty, Side!Unreadable
<1>7. [content EXCEPT ![k] = v] \in Side!Memories
  BY <1>3, <1>4 DEF MemoryType, Side!Memories
<1>8. MemoryType'
  BY <1>2, <1>3, <1>5, <1>6, <1>7, NothingIsMemory DEF MemoryType
<1>9. NewestInFile'
  BY <1>1, <1>2, <1>3 DEF NewestInFile, Side!Empty, Side!Unreadable
<1>10. ASSUME ~ disturbed' PROVE Undisturbed'
  <2>1. file' # Side!Unreadable /\ file' = memory[s] /\ Alone(s)
    BY <1>2, <1>10 DEF Side!Others, Alone
  <2>2. \A q \in Sidecars : at'[q] = "idle"
    BY <1>2, <1>3, <2>1 DEF MemoryType, Alone
  <2>3. file' = content'
    <3>1. CASE disturbed
      BY <1>2, <1>4, <2>1, <3>1, UnreadableIsNoMemory DEF Side!Decoded, Side!Empty, Side!Unreadable
    <3>2. CASE ~ disturbed
      BY <1>1, <1>2, <2>1, <3>2 DEF MemoryInv, Undisturbed
    <3> QED BY <3>1, <3>2
  <2> QED BY <2>2, <2>3 DEF Undisturbed
<1> QED BY <1>8, <1>9, <1>10 DEF MemoryInv

LEMMA SidecarCrashKeeps ==
  ASSUME MemoryInv, NEW s \in Sidecars, Side!Crash(s)
  PROVE  MemoryInv'
<1>1. /\ at[s] # "idle" /\ at' = [at EXCEPT ![s] = "idle"]
      /\ memory' = [memory EXCEPT ![s] = Side!Nothing]
      /\ file' \in {file} \cup (IF at[s] = "writing" THEN {Side!Unreadable} ELSE {})
      /\ disturbed' = (disturbed \/ at[s] = "writing")
      /\ UNCHANGED <<key, updates, reading, content, newest>>
  BY DEF Side!Crash
<1>2. MemoryType
  BY DEF MemoryInv
<1>3. MemoryType'
  BY <1>1, <1>2, NothingIsMemory DEF MemoryType
<1>4. ASSUME ~ disturbed' PROVE Undisturbed'
  <2>1. ~ disturbed /\ at[s] = "merged" /\ file' = file
    BY <1>1, <1>2, <1>4 DEF MemoryType
  <2>2. Alone(s) /\ file = content
    BY <2>1 DEF MemoryInv, Undisturbed
  <2>3. \A q \in Sidecars : at'[q] = "idle"
    BY <1>1, <1>2, <2>2 DEF MemoryType, Alone
  <2> QED BY <1>1, <2>1, <2>2, <2>3 DEF Undisturbed
<1> QED BY <1>1, <1>3, <1>4 DEF MemoryInv, NewestInFile, Side!Empty, Side!Unreadable

LEMMA MemoryNext == MemoryInv /\ [Side!Next]_Side!vars => MemoryInv'
<1> SUFFICES ASSUME MemoryInv, [Side!Next]_Side!vars PROVE MemoryInv'
  OBVIOUS
<1>1. CASE Side!Get
  BY <1>1 DEF Side!Get, Side!history, MemoryInv, MemoryType, Undisturbed, Alone, NewestInFile,
              Side!Quiet, Side!Empty, Side!Unreadable
<1>2. CASE UNCHANGED Side!vars
  BY <1>2 DEF Side!vars, Side!history, MemoryInv, MemoryType, Undisturbed, Alone, NewestInFile,
              Side!Quiet, Side!Empty, Side!Unreadable
<1> QED BY <1>1, <1>2, ReadKeeps, TruncateKeeps, WriteKeeps, SidecarCrashKeeps DEF Side!Next

LEMMA MemoryKept == MemoryInv => UpdatesKept /\ Side!TypeOK
<1> SUFFICES ASSUME MemoryInv PROVE UpdatesKept /\ Side!TypeOK
  OBVIOUS
<1>1. Side!TypeOK
  BY DEF MemoryInv, MemoryType, Side!TypeOK
<1>2. UpdatesKept
  BY DEF MemoryInv, Undisturbed, NewestInFile, UpdatesKept, Side!UpdatesKept
<1> QED BY <1>1, <1>2

-----------------------------------------------------------------------------
(* The SBOM chain. Its log and counters agree after any number of           *)
(* verifications, those of one verify_chain included.                       *)

Fields == [trusted : BOOLEAN, passed : BOOLEAN, tampered : BOOLEAN, intact : BOOLEAN]
Entries == {e \in Fields : e.passed => e.trusted /\ e.intact}
Tallies == [verified : Nat, trusted : Nat, untrusted : Nat, tampered : Nat]

Passed(list) == {i \in DOMAIN list : list[i].passed}

\* Until the log is halved it has all that was counted.
Agree(list, n) ==
  /\ Len(list) <= MaxAudit
  /\ n.trusted <= n.verified
  /\ n.verified - n.trusted <= n.untrusted
  /\ n.untrusted <= 2 * (n.verified - n.trusted)
  /\ n.verified <= MaxAudit => Len(list) = n.verified
                               /\ n.trusted = Cardinality(Passed(list))

Logs == {log \in [audit : Seq(Entries), counts : Tallies] : Agree(log.audit, log.counts)}

(* A manifest's signature is the one it got when it was registered, over    *)
(* what it said then, until its owner replaces it by one of another kind.   *)
Specified == Specs \cup {Sbom!Absent}
Makers == {"none", "trusted", "other"}
Signatures(original) ==
  {Sbom!Foreign, <<"manifest", original>>} \cup {<<"specs", s>> : s \in Specs}

Signings == {Sbom!Foreign} \cup {<<"manifest", o>> : o \in Makers \X Specified}
                          \cup {<<"specs", s>> : s \in Specs}
Manifests ==
  {m \in [maker : Makers, specs : Specified, hashed : Specified, signed : Signings,
           original : Makers \X Specified] : m.signed \in Signatures(m.original)}

KnownType == known \in [Manifested -> Manifests]

\* A manifest that its signature covers is as it was registered.
LEMMA SignedIsOriginal ==
  ASSUME NEW m \in Manifests, Sbom!ManifestSigned(m) = m.signed
  PROVE  Sbom!Contents(m) = m.original
<1>1. PICK o \in Makers \X Specified, s \in Signings :
        o = m.original /\ s = m.signed /\ s \in Signatures(o)
  BY DEF Manifests
<1>2. PICK x : x = Sbom!Contents(m) /\ s = <<"manifest", x>>
  BY <1>1 DEF Sbom!ManifestSigned
<1>3. s # Sbom!Foreign /\ \A y \in Specs : s # <<"specs", y>>
  BY <1>2 DEF Sbom!Foreign
<1>4. s = <<"manifest", o>>
  BY <1>1, <1>3 DEF Signatures
<1> QED BY <1>1, <1>2, <1>4

LEMMA VerdictIsEntry ==
  ASSUME KnownType, NEW c \in Manifested, NEW maker, NEW specs, NEW signature
  PROVE  Sbom!Verdict(c, maker, specs, signature) \in Entries
<1>1. PICK hashed, signed, trusted \in BOOLEAN :
        /\ trusted = (maker = "trusted")
        /\ hashed = Sbom!HashValid(c, specs)
        /\ signed = Sbom!SignatureValid(c, specs, signature)
  <2>1. /\ Sbom!HashValid(c, specs) \in BOOLEAN
        /\ Sbom!SignatureValid(c, specs, signature) \in BOOLEAN
    BY DEF Sbom!HashValid, Sbom!SignatureValid, Sbom!Registered
  <2> QED BY <2>1
<1>2. PICK intact \in BOOLEAN :
        intact = (/\ Sbom!Registered(c) => \/ specs = known[c].original[2]
                                          \/ known[c].hashed # known[c].original[2]
                  /\ \/ signature = <<"specs", specs>>
                     \/ Sbom!Registered(c) /\ Sbom!Contents(known[c]) = known[c].original)
  OBVIOUS
<1>3. hashed /\ signed => intact
  <2>1. known[c] \in Manifests
    BY DEF KnownType
  <2>2. Sbom!ManifestSigned(known[c]) = known[c].signed => Sbom!Contents(known[c]) = known[c].original
    BY <2>1, SignedIsOriginal
  <2> QED BY <1>1, <1>2, <2>2 DEF Sbom!HashValid, Sbom!SignatureValid
<1>4. PICK tampered \in BOOLEAN :
        tampered = (specs # Sbom!Absent /\ Sbom!Registered(c) /\ ~ hashed)
  OBVIOUS
<1>5. Sbom!Verdict(c, maker, specs, signature)
        = [trusted |-> trusted, passed |-> trusted /\ hashed /\ signed,
           tampered |-> tampered, intact |-> intact]
  BY <1>1, <1>2, <1>4 DEF Sbom!Verdict
<1> QED BY <1>3, <1>5 DEF Entries, Fields

LEMMA LoggedEntry ==
  ASSUME NEW list \in Seq(Entries), NEW n \in Tallies, Agree(list, n), NEW e \in Entries
  PROVE  /\ Sbom!Logged(list, e) \in Seq(Entries)
         /\ Len(Sbom!Logged(list, e)) <= MaxAudit
         /\ n.verified + 1 <= MaxAudit => Sbom!Logged(list, e) = Append(list, e)
<1>1. PICK longer : longer = Append(list, e)
  OBVIOUS
<1>2. PICK k \in Nat : /\ k = Len(longer) /\ longer \in Seq(Entries) /\ k = Len(list) + 1
                       /\ \A i \in 1 .. k : longer[i] \in Entries
  BY <1>1
<1>3. MaxAudit \in Nat \ {0, 1}
  BY RecordsAssumption
<1>4. PICK h \in Nat : h = MaxAudit \div 2 /\ h <= MaxAudit
  <2>1. MaxAudit \div 2 \in Nat /\ MaxAudit \div 2 <= MaxAudit
    BY <1>3
  <2> QED BY <2>1
<1>5. Sbom!Logged(list, e) = IF k > MaxAudit THEN SubSeq(longer, k - h + 1, k) ELSE longer
  BY <1>1, <1>2, <1>4 DEF Sbom!Logged
<1>6. CASE k > MaxAudit
  <2>1. k - h + 1 \in Int /\ k \in Int /\ \A i \in (k - h + 1) .. k : longer[i] \in Entries
    <3>1. k - h + 1 >= 1
      BY <1>3, <1>4, <1>6
    <3> QED BY <1>2, <3>1
  <2>2. /\ SubSeq(longer, k - h + 1, k) \in Seq(Entries)
        /\ Len(SubSeq(longer, k - h + 1, k)) = IF k - h + 1 <= k THEN k - (k - h + 1) + 1 ELSE 0
    BY <2>1, SubSeqProperties
  <2>3. Len(SubSeq(longer, k - h + 1, k)) <= MaxAudit
    BY <1>3, <1>4, <2>2
  <2>4. n.verified \in Nat /\ ~ (n.verified + 1 <= MaxAudit)
    BY <1>2, <1>3, <1>6 DEF Agree, Tallies
  <2> QED BY <1>5, <1>6, <2>2, <2>3, <2>4
<1>7. CASE ~ (k > MaxAudit)
  BY <1>1, <1>2, <1>3, <1>5, <1>7
<1> QED BY <1>6, <1>7

LEMMA PassedGrows ==
  ASSUME NEW list \in Seq(Entries), NEW e \in Entries, NEW t, t = Append(list, e)
  PROVE  /\ Len(t) = Len(list) + 1
         /\ Cardinality(Passed(list)) \in Nat
         /\ Cardinality(Passed(t)) = Cardinality(Passed(list)) + Sbom!One(e.passed)
<1>1. PICK k \in Nat : /\ k = Len(list) /\ Len(t) = k + 1 /\ t[k + 1] = e
                       /\ \A i \in 1 .. k : t[i] = list[i]
                       /\ DOMAIN list = 1 .. k /\ DOMAIN t = 1 .. (k + 1)
  OBVIOUS
<1>2. Passed(list) \subseteq 1 .. k
  BY <1>1 DEF Passed
<1>3. IsFiniteSet(Passed(list)) /\ Cardinality(Passed(list)) \in Nat
  <2>1. IsFiniteSet(1 .. k)
    BY FS_Interval
  <2>2. IsFiniteSet(Passed(list))
    BY <1>2, <2>1, FS_Subset
  <2> QED BY <2>2, FS_CardinalityType
<1>4. CASE e.passed
  <2>1. Passed(t) = Passed(list) \cup {k + 1} /\ k + 1 \notin Passed(list)
    BY <1>1, <1>2, <1>4 DEF Passed
  <2>2. Cardinality(Passed(list) \cup {k + 1}) = Cardinality(Passed(list)) + 1
    BY <1>3, <2>1, FS_AddElement
  <2>3. Sbom!One(e.passed) = 1
    BY <1>4 DEF Sbom!One
  <2> QED BY <1>1, <1>3, <2>1, <2>2, <2>3
<1>5. CASE ~ e.passed
  <2>1. Passed(t) = Passed(list)
    BY <1>1, <1>5 DEF Passed
  <2> QED BY <1>1, <1>3, <1>5, <2>1 DEF Sbom!One
<1> QED BY <1>4, <1>5

LEMMA EnteredLog ==
  ASSUME NEW log \in Logs, NEW e \in Entries
  PROVE  Sbom!Entered(log, e) \in Logs
<1>1. PICK list \in Seq(Entries), n \in Tallies :
        list = log.audit /\ n = log.counts /\ Agree(list, n)
  BY DEF Logs
<1>2. PICK v, t, u, m \in Nat : v = n.verified /\ t = n.trusted /\ u = n.untrusted /\ m = n.tampered
  BY DEF Tallies
<1>3. PICK p, a, b \in {0, 1} : /\ p = Sbom!One(e.passed) /\ a = Sbom!One(~ e.trusted)
                                /\ b = Sbom!One(~ e.passed) /\ p = 1 - b /\ a <= b
  BY DEF Entries, Fields, Sbom!One
<1>4. PICK r \in Nat : r = m + Sbom!One(e.tampered)
  <2>1. m + Sbom!One(e.tampered) \in Nat
    BY DEF Sbom!One
  <2> QED BY <2>1
<1>5. PICK after : after = Sbom!Counted(n, e)
  OBVIOUS
<1>6. after = [verified |-> v + 1, trusted |-> t + p, untrusted |-> u + a + b, tampered |-> r]
  BY <1>2, <1>3, <1>4, <1>5 DEF Sbom!Counted
<1>7. after \in Tallies
  BY <1>6 DEF Tallies
<1>8. PICK longer : longer = Sbom!Logged(list, e)
  OBVIOUS
<1>9. longer \in Seq(Entries) /\ Len(longer) <= MaxAudit /\ (v + 1 <= MaxAudit => longer = Append(list, e))
  BY <1>1, <1>2, <1>8, LoggedEntry
<1>10. Agree(longer, after)
  <2>1. /\ after.verified = v + 1 /\ after.trusted = t + p /\ after.untrusted = u + a + b
    BY <1>6
  <2>2. /\ t <= v /\ v - t <= u /\ u <= 2 * (v - t)
        /\ v <= MaxAudit => Len(list) = v /\ t = Cardinality(Passed(list))
    BY <1>1, <1>2 DEF Agree
  <2>3. /\ t + p <= v + 1 /\ (v + 1) - (t + p) <= u + a + b
        /\ u + a + b <= 2 * ((v + 1) - (t + p))
    <3>1. CASE b = 0
      <4>1. p = 1 /\ a = 0
        BY <1>3, <3>1
      <4> QED BY <2>2, <3>1, <4>1
    <3>2. CASE b = 1
      <4>1. p = 0
        BY <1>3, <3>2
      <4> QED BY <2>2, <3>2, <4>1
    <3> QED BY <3>1, <3>2
  <2>4. ASSUME v + 1 <= MaxAudit
        PROVE  Len(longer) = v + 1 /\ t + p = Cardinality(Passed(longer))
    <3>1. longer = Append(list, e) /\ MaxAudit \in Nat
      BY <1>9, <2>4, RecordsAssumption
    <3>2. /\ Len(longer) = Len(list) + 1
          /\ Cardinality(Passed(longer)) = Cardinality(Passed(list)) + p
      BY <1>3, <3>1, PassedGrows
    <3>3. Len(list) = v /\ t = Cardinality(Passed(list))
      BY <2>2, <2>4, <3>1
    <3> QED BY <3>2, <3>3
  <2> QED BY <1>9, <2>1, <2>3, <2>4 DEF Agree
<1>11. Sbom!Entered(log, e) = [audit |-> longer, counts |-> after]
  BY <1>1, <1>5, <1>8 DEF Sbom!Entered
<1> QED BY <1>7, <1>9, <1>10, <1>11 DEF Logs

LEMMA CheckedChain ==
  ASSUME KnownType, Sbom!Log \in Logs, NEW n \in Nat, NEW ids \in [1 .. n -> Manifested],
         Sbom!VerifyChain(ids)
  PROVE  [audit |-> audit', counts |-> counts'] \in Logs /\ counts'.verified <= MaxVerified
<1>1. PICK a \in Logs : a = Sbom!Log
  OBVIOUS
<1>2. Len(ids) = n
  BY SeqDef
<1>3. PICK step : step = [l \in Logs |-> [i \in 1 .. n |->
                            IF Sbom!Registered(ids[i])
                            THEN Sbom!Entered(l, Sbom!Recheck(ids[i])) ELSE l]]
  OBVIOUS
<1>4. step \in [Logs -> [1 .. n -> Logs]]
  <2>1. ASSUME NEW l \in Logs, NEW i \in 1 .. n
        PROVE  (IF Sbom!Registered(ids[i]) THEN Sbom!Entered(l, Sbom!Recheck(ids[i])) ELSE l) \in Logs
    <3>1. Sbom!Recheck(ids[i]) \in Entries
      <4>1. ids[i] \in Manifested
        BY <2>1
      <4> QED BY <4>1, VerdictIsEntry DEF Sbom!Recheck
    <3> QED BY <3>1, EnteredLog
  <2> QED BY <1>3, <2>1
<1>5. PICK f : Steps(Logs, a, n, step, f)
  BY <1>4, ByRecursion
<1>6. f \in [0 .. n -> Logs] /\ f[0] = a /\ \A i \in 1 .. n : f[i] = step[f[i - 1]][i]
  BY <1>5 DEF Steps
<1>7. ASSUME NEW i \in 0 .. n
      PROVE  f[i] = IF i = 0 THEN Sbom!Log
                    ELSE IF Sbom!Registered(ids[i])
                    THEN Sbom!Entered(f[i - 1], Sbom!Recheck(ids[i])) ELSE f[i - 1]
  <2>1. CASE i = 0
    BY <1>1, <1>6, <2>1
  <2>2. CASE i # 0
    <3>1. i \in 1 .. n /\ f[i - 1] \in Logs
      BY <1>6, <2>2
    <3>2. f[i] = step[f[i - 1]][i]
      BY <1>6, <3>1
    <3> QED BY <1>3, <2>2, <3>1, <3>2
  <2> QED BY <2>1, <2>2
<1>8. f = [i \in 0 .. n |-> IF i = 0 THEN Sbom!Log
                            ELSE IF Sbom!Registered(ids[i])
                            THEN Sbom!Entered(f[i - 1], Sbom!Recheck(ids[i])) ELSE f[i - 1]]
  BY <1>6, <1>7
<1>9. PICK g : g = CHOOSE h : h = [i \in 0 .. n |-> IF i = 0 THEN Sbom!Log
                            ELSE IF Sbom!Registered(ids[i])
                            THEN Sbom!Entered(h[i - 1], Sbom!Recheck(ids[i])) ELSE h[i - 1]]
  OBVIOUS
<1>10. g = [i \in 0 .. n |-> IF i = 0 THEN Sbom!Log
                            ELSE IF Sbom!Registered(ids[i])
                            THEN Sbom!Entered(g[i - 1], Sbom!Recheck(ids[i])) ELSE g[i - 1]]
  BY <1>8, <1>9
<1>11. Sbom!Enter(g[n])
  BY <1>2, <1>9 DEF Sbom!VerifyChain
<1> DEFINE S == {i \in Nat : i <= n => g[i] \in Logs}
<1>12. 0 \in S
  <2>1. g[0] = a
    BY <1>1, <1>10
  <2> QED BY <2>1
<1>13. ASSUME NEW i \in Nat, i \in S PROVE i + 1 \in S
  <2> SUFFICES ASSUME i + 1 <= n PROVE g[i + 1] \in Logs
    OBVIOUS
  <2>1. g[i] \in Logs /\ i + 1 \in 0 .. n /\ i + 1 \in 1 .. n /\ i + 1 # 0 /\ (i + 1) - 1 = i
    BY <1>13
  <2>2. g[i + 1] = IF Sbom!Registered(ids[i + 1])
                   THEN Sbom!Entered(g[i], Sbom!Recheck(ids[i + 1])) ELSE g[i]
    BY <1>10, <2>1
  <2>3. Sbom!Recheck(ids[i + 1]) \in Entries
    <3>1. ids[i + 1] \in Manifested
      BY <2>1
    <3> QED BY <3>1, VerdictIsEntry DEF Sbom!Recheck
  <2> QED BY <2>1, <2>2, <2>3, EnteredLog
<1> HIDE DEF S
<1>14. n \in S
  BY <1>12, <1>13, ByInduction
<1>15. PICK l \in Logs : l = g[n]
  BY <1>14 DEF S
<1>16. audit' = l.audit /\ counts' = l.counts /\ l.counts.verified <= MaxVerified
  BY <1>11, <1>15 DEF Sbom!Enter
<1>17. l = [audit |-> l.audit, counts |-> l.counts]
  BY DEF Logs
<1> QED BY <1>16, <1>17

SbomInv == KnownType /\ Sbom!Log \in Logs /\ counts.verified <= MaxVerified

LEMMA SbomInit == Sbom!Init => SbomInv
<1> SUFFICES ASSUME Sbom!Init PROVE SbomInv
  OBVIOUS
<1>1. MaxAudit \in Nat /\ MaxVerified \in Nat
  BY RecordsAssumption
<1>2. PICK m : m = Sbom!NoManifest
  OBVIOUS
<1>3. m \in Manifests
  BY <1>2 DEF Sbom!NoManifest, Sbom!Manifest, Manifests, Signings, Signatures, Makers, Specified
<1>5. KnownType
  BY <1>2, <1>3 DEF Sbom!Init, KnownType
<1>6. counts \in Tallies /\ audit \in Seq(Entries) /\ Agree(audit, counts)
  <2>1. audit = <<>> /\ counts = [verified |-> 0, trusted |-> 0, untrusted |-> 0, tampered |-> 0]
    BY DEF Sbom!Init
  <2>2. Passed(<<>>) = {}
    BY DEF Passed
  <2>3. Cardinality(Passed(audit)) = 0 /\ Len(audit) = 0
    BY <2>1, <2>2, FS_EmptySet
  <2> QED BY <1>1, <2>1, <2>3 DEF Tallies, Agree
<1>7. Sbom!Log \in Logs /\ counts.verified <= MaxVerified
  BY <1>1, <1>6 DEF Sbom!Log, Logs, Sbom!Init
<1> QED BY <1>5, <1>7 DEF SbomInv

LEMMA RegisterKnown ==
  ASSUME KnownType, NEW c \in Manifested, Sbom!RegisterComponent(c) PROVE KnownType'
<1>1. PICK maker \in {"trusted", "other"}, specs \in Specs :
        known' = [known EXCEPT ![c] = Sbom!Manifest(maker, specs)]
  BY DEF Sbom!RegisterComponent
<1>2. PICK o \in Makers \X Specified : o = <<maker, specs>>
  BY DEF Makers, Specified
<1>3. PICK m : m = [maker |-> maker, specs |-> specs, hashed |-> specs,
                    signed |-> <<"manifest", o>>, original |-> o]
  OBVIOUS
<1>4. m \in Manifests
  BY <1>2, <1>3 DEF Manifests, Signings, Signatures, Makers, Specified
<1>5. m = Sbom!Manifest(maker, specs)
  BY <1>2, <1>3 DEF Sbom!Manifest
<1> QED BY <1>1, <1>4, <1>5 DEF KnownType

LEMMA ChangeKnown ==
  ASSUME KnownType, NEW c \in Manifested, Sbom!ChangeManifest(c) PROVE KnownType'
<1>1. PICK m \in Manifests : m = known[c]
  BY DEF KnownType
<1>2. PICK n \in Sbom!Changed(m) : known' = [known EXCEPT ![c] = n]
  BY <1>1 DEF Sbom!ChangeManifest
<1>3. /\ m.maker \in Makers /\ m.specs \in Specified /\ m.hashed \in Specified
      /\ m.original \in Makers \X Specified /\ m.signed \in Signings
      /\ m.signed \in Signatures(m.original)
      /\ m = [maker |-> m.maker, specs |-> m.specs, hashed |-> m.hashed,
              signed |-> m.signed, original |-> m.original]
  BY DEF Manifests
<1>4. \/ \E maker \in {"trusted", "other"} : n = [m EXCEPT !.maker = maker]
      \/ \E specs \in Specs : n = [m EXCEPT !.specs = specs] \/ n = [m EXCEPT !.hashed = specs]
      \/ \E g \in {Sbom!Foreign} \cup {<<"specs", s>> : s \in Specs} : n = [m EXCEPT !.signed = g]
  BY DEF Sbom!Changed
<1>5. n \in Manifests
  BY <1>3, <1>4 DEF Manifests, Signings, Signatures, Makers, Specified
<1> QED BY <1>2, <1>5 DEF KnownType

LEMMA SbomNext == SbomInv /\ [Sbom!Next]_Sbom!vars => SbomInv'
<1> SUFFICES ASSUME SbomInv, [Sbom!Next]_Sbom!vars PROVE SbomInv'
  OBVIOUS
<1>1. ASSUME [audit |-> audit', counts |-> counts'] \in Logs, counts'.verified <= MaxVerified,
             known' = known
      PROVE  SbomInv'
  BY <1>1 DEF SbomInv, KnownType, Sbom!Log
<1>2. ASSUME NEW c \in Manifested, Sbom!VerifyComponent(c) PROVE SbomInv'
  <2>1. PICK maker, specs, signature :
          Sbom!Enter(Sbom!Entered(Sbom!Log, Sbom!Verdict(c, maker, specs, signature)))
    BY <1>2 DEF Sbom!VerifyComponent
  <2>2. PICK l \in Logs : Sbom!Enter(l)
    BY <2>1, VerdictIsEntry, EnteredLog DEF SbomInv
  <2>3. l = [audit |-> l.audit, counts |-> l.counts]
    BY DEF Logs
  <2>4. audit' = l.audit /\ counts' = l.counts /\ l.counts.verified <= MaxVerified
    BY <2>2 DEF Sbom!Enter
  <2> QED BY <1>1, <1>2, <2>3, <2>4 DEF Sbom!VerifyComponent
<1>3. ASSUME NEW n \in 0 .. MaxVerified, NEW ids \in [1 .. n -> Manifested], Sbom!VerifyChain(ids)
      PROVE  SbomInv'
  <2>1. n \in Nat
    BY RecordsAssumption
  <2>2. /\ [audit |-> audit', counts |-> counts'] \in Logs
        /\ counts'.verified <= MaxVerified
    BY <1>3, <2>1, CheckedChain DEF SbomInv
  <2> QED BY <1>1, <1>3, <2>2 DEF Sbom!VerifyChain
<1>4. ASSUME NEW c \in Manifested, Sbom!RegisterComponent(c) \/ Sbom!ChangeManifest(c)
      PROVE  SbomInv'
  <2>1. KnownType'
    BY <1>4, RegisterKnown, ChangeKnown DEF SbomInv
  <2>2. UNCHANGED <<audit, counts>>
    BY <1>4 DEF Sbom!RegisterComponent, Sbom!ChangeManifest
  <2> QED BY <2>1, <2>2 DEF SbomInv, Sbom!Log
<1>5. CASE UNCHANGED Sbom!vars
  BY <1>5 DEF SbomInv, KnownType, Sbom!Log, Sbom!vars
<1> QED BY <1>2, <1>3, <1>4, <1>5 DEF Sbom!Next

LEMMA SbomTyped == SbomInv => Sbom!TypeOK
<1> SUFFICES ASSUME SbomInv PROVE Sbom!TypeOK
  OBVIOUS
<1>1. Len(audit) <= MaxAudit /\ counts.verified \in 0 .. MaxVerified
  <2>1. counts \in Tallies /\ Agree(audit, counts) /\ counts.verified <= MaxVerified
    BY DEF SbomInv, Logs, Sbom!Log
  <2>2. counts.verified \in Nat
    BY <2>1 DEF Tallies
  <2> QED BY <2>1, <2>2, RecordsAssumption DEF Agree
<1>2. ASSUME NEW c \in Manifested
      PROVE  known[c].specs \in Specs \cup {Sbom!Absent}
  <2>1. known[c] \in Manifests
    BY DEF SbomInv, KnownType
  <2> QED BY <2>1 DEF Manifests, Specified
<1> QED BY <1>1, <1>2 DEF Sbom!TypeOK

LEMMA SbomCardinality == \A S : Sbom!Cardinality(S) = Cardinality(S)
BY Zenon DEF Sbom!Cardinality, Cardinality

LEMMA LogIsGenuine == SbomInv => Sbom!PassedIsGenuine
<1> SUFFICES ASSUME SbomInv PROVE Sbom!PassedIsGenuine
  OBVIOUS
<1>1. audit \in Seq(Entries) /\ counts \in Tallies /\ Agree(audit, counts)
  BY DEF SbomInv, Logs, Sbom!Log
<1>2. \A i \in DOMAIN audit : audit[i].passed => audit[i].trusted /\ audit[i].intact
  <2>1. \A i \in DOMAIN audit : audit[i] \in Entries
    BY <1>1
  <2> QED BY <2>1 DEF Entries
<1>3. LET failed == counts.verified - counts.trusted IN
        failed <= counts.untrusted /\ counts.untrusted <= 2 * failed
  BY <1>1 DEF Agree
<1>4. counts.verified < MaxAudit =>
        counts.trusted = Sbom!Cardinality({i \in DOMAIN audit : audit[i].passed})
  <2>1. counts.verified \in Nat /\ MaxAudit \in Nat
    BY <1>1, RecordsAssumption DEF Tallies
  <2> QED BY <1>1, <2>1, SbomCardinality DEF Agree, Passed
<1> QED BY <1>2, <1>3, <1>4 DEF Sbom!PassedIsGenuine

-----------------------------------------------------------------------------
(* The promotion authority. A grant in circulation is its own: the MAC      *)
(* covers just what it says, and it was made for no longer than the time to *)
(* live from now.                                                           *)
Genuine(g) ==
  \E repository \in Leaves, source \in Shas, digest \in Promotion!Contents, until \in Nat :
    /\ g = Promotion!Grant(repository, source, digest, until)
    /\ until <= clock + Ttl

GrantsInv ==
  /\ clock \in Nat
  /\ \A g \in grants : Genuine(g)
  /\ Promotion!AcceptedIsBound

(* What was not issued is not accepted: a changed field is not the one its  *)
(* MAC covers, and another maker's MAC is not the operator's.               *)
LEMMA ForgedIsRefused ==
  ASSUME NEW g, Genuine(g), Ttl \in Nat, clock \in Nat,
         NEW grant,
         \/ grant = [g EXCEPT !.until = @ + 1]
         \/ \E s \in Shas : grant = [g EXCEPT !.source = s]
         \/ \E r \in Leaves : grant = [g EXCEPT !.repository = r]
         \/ \E maker \in {"other", "absent"} : grant = [g EXCEPT !.mac[1] = maker],
         grant # g
  PROVE  Promotion!Verify(grant) # "accepted"
<1>1. PICK repository \in Leaves, source \in Shas, digest \in Promotion!Contents, until \in Nat :
        g = Promotion!Grant(repository, source, digest, until)
  BY DEF Genuine
<1>2. SUFFICES grant.mac # <<"operator", Promotion!Body(grant)>>
  BY DEF Promotion!Verify
<1>3. CASE grant = [g EXCEPT !.until = @ + 1]
  <2>1. grant.mac = <<"operator", <<repository, source, digest, until>>>> /\ grant.until = until + 1
    BY <1>1, <1>3 DEF Promotion!Grant, Promotion!Body
  <2> QED BY <2>1 DEF Promotion!Body
<1>4. ASSUME NEW s \in Shas, grant = [g EXCEPT !.source = s]
      PROVE  grant.mac # <<"operator", Promotion!Body(grant)>>
  <2>1. s # source
    BY <1>1, <1>4 DEF Promotion!Grant
  <2>2. grant.mac = <<"operator", <<repository, source, digest, until>>>> /\ grant.source = s
    BY <1>1, <1>4 DEF Promotion!Grant, Promotion!Body
  <2> QED BY <2>1, <2>2 DEF Promotion!Body
<1>6. ASSUME NEW r \in Leaves, grant = [g EXCEPT !.repository = r]
      PROVE  grant.mac # <<"operator", Promotion!Body(grant)>>
  <2>1. r # repository
    BY <1>1, <1>6 DEF Promotion!Grant
  <2>2. grant.mac = <<"operator", <<repository, source, digest, until>>>> /\ grant.repository = r
    BY <1>1, <1>6 DEF Promotion!Grant
  <2> QED BY <2>1, <2>2 DEF Promotion!Body
<1>5. ASSUME NEW maker \in {"other", "absent"}, grant = [g EXCEPT !.mac[1] = maker]
      PROVE  grant.mac # <<"operator", Promotion!Body(grant)>>
  <2>1. grant.mac = [<<"operator", <<repository, source, digest, until>>>> EXCEPT ![1] = maker]
    BY <1>1, <1>5 DEF Promotion!Grant, Promotion!Body
  <2>2. grant.mac[1] = maker
    BY <2>1
  <2> QED BY <2>2
<1> QED BY <1>3, <1>4, <1>5, <1>6

LEMMA GrantsInit == Promotion!Init => GrantsInv
BY DEF Promotion!Init, GrantsInv, Promotion!AcceptedIsBound

LEMMA GrantsNext == GrantsInv /\ [Promotion!Next]_Promotion!vars => GrantsInv'
<1> SUFFICES ASSUME GrantsInv, [Promotion!Next]_Promotion!vars PROVE GrantsInv'
  OBVIOUS
<1>0. Ttl \in Nat
  BY RecordsAssumption
<1>1. CASE Promotion!Issue
  <2>1. PICK repository \in Leaves, source \in Shas, digest \in Promotion!Contents :
          grants' = grants \cup {Promotion!Grant(repository, source, digest, clock + Ttl)}
    BY <1>1 DEF Promotion!Issue
  <2>2. clock' = clock /\ result' = result /\ clock + Ttl \in Nat
    BY <1>0, <1>1 DEF Promotion!Issue, GrantsInv
  <2>3. ASSUME NEW g \in grants' PROVE Genuine(g)'
    <3>1. CASE g \in grants
      BY <2>2, <3>1 DEF GrantsInv, Genuine
    <3>2. CASE g = Promotion!Grant(repository, source, digest, clock + Ttl)
      BY <2>2, <3>2 DEF Genuine
    <3> QED BY <2>1, <3>1, <3>2
  <2> QED BY <2>2, <2>3 DEF GrantsInv, Promotion!AcceptedIsBound
<1>2. CASE Promotion!Check
  <2>1. PICK grant \in Promotion!Presented :
          result' = [answer |-> Promotion!Checked(grant), issued |-> grant \in grants,
                     fresh |-> clock <= grant.until /\ grant.until <= clock + Ttl,
                     fits |-> proof = grant.digest /\ proof.source = grant.source]
    BY <1>2 DEF Promotion!Check
  <2>2. clock' = clock /\ grants' = grants
    BY <1>2 DEF Promotion!Check
  <2>3. ASSUME Promotion!Checked(grant) = "accepted"
        PROVE  /\ grant \in grants
               /\ clock <= grant.until /\ grant.until <= clock + Ttl
               /\ proof = grant.digest /\ proof.source = grant.source
    <3>1. Promotion!Verify(grant) = "accepted" /\ Promotion!Fits(grant) = "fits"
      <4>1. Promotion!Fits(grant) \in {"PROOF_DIGEST_MISMATCH", "SOURCE_SHA_MISMATCH", "fits"}
        BY DEF Promotion!Fits
      <4> QED BY <2>3, <4>1 DEF Promotion!Checked
    <3>2. grant \in grants
      <4>1. ASSUME grant \notin grants PROVE FALSE
        <5>1. PICK g \in grants :
                \/ grant = [g EXCEPT !.until = @ + 1]
                \/ \E s \in Shas : grant = [g EXCEPT !.source = s]
                \/ \E r \in Leaves : grant = [g EXCEPT !.repository = r]
                \/ \E maker \in {"other", "absent"} : grant = [g EXCEPT !.mac[1] = maker]
          BY <4>1 DEF Promotion!Presented
        <5>2. Genuine(g) /\ clock \in Nat
          BY DEF GrantsInv
        <5>3. grant # g
          BY <4>1
        <5> QED BY <1>0, <3>1, <5>1, <5>2, <5>3, ForgedIsRefused
      <4> QED BY <4>1
    <3>3. grant.until \in Nat /\ grant.until <= clock + Ttl
      BY <3>2 DEF GrantsInv, Genuine, Promotion!Grant
    <3>4. ~ clock > grant.until
      BY <3>1 DEF Promotion!Verify
    <3>5. proof = grant.digest /\ proof.source = grant.source
      BY <3>1 DEF Promotion!Fits
    <3> QED BY <3>2, <3>3, <3>4, <3>5 DEF GrantsInv
  <2>4. Promotion!AcceptedIsBound'
    BY <2>1, <2>3 DEF Promotion!AcceptedIsBound
  <2> QED BY <2>2, <2>4 DEF GrantsInv, Genuine
<1>3. CASE Promotion!ReceiptChanges \/ UNCHANGED Promotion!vars
  BY <1>3 DEF Promotion!ReceiptChanges, Promotion!vars, GrantsInv, Genuine, Promotion!AcceptedIsBound
<1>4. CASE Promotion!TimePasses
  <2>1. clock' = clock + 1 /\ grants' = grants /\ result' = result
    BY <1>4 DEF Promotion!TimePasses
  <2>2. ASSUME NEW g \in grants PROVE Genuine(g)'
    <3>1. clock \in Nat /\ Genuine(g)
      BY DEF GrantsInv
    <3> QED BY <1>0, <2>1, <3>1 DEF Genuine
  <2> QED BY <2>1, <2>2 DEF GrantsInv, Promotion!AcceptedIsBound
<1> QED BY <1>1, <1>2, <1>3, <1>4 DEF Promotion!Next


-----------------------------------------------------------------------------
(* The registry. What is routed was accepted, and an accepted registry      *)
(* loses no source to another one of its name.                              *)

RegistryShape(r) ==
  /\ DOMAIN r = {"verified", "blocked", "sources", "receipts", "total"}
  /\ r.verified = <<>> \/ r.verified \in Portfolio!Verifieds

RegistryInv ==
  /\ RegistryShape(raw)
  /\ outcome \in {"file", "mapping"} =>
       /\ raw.verified \in Portfolio!Verifieds
       /\ Portfolio!SourcesValid(raw) /\ Portfolio!CandidatesValid(raw)
       /\ Portfolio!Accepts(raw, outcome)

LEMMA RegistryInit == Portfolio!Init => RegistryInv
BY DEF Portfolio!Init, RegistryInv, RegistryShape

LEMMA RegistryNext == RegistryInv /\ [Portfolio!Next]_Portfolio!vars => RegistryInv'
<1> SUFFICES ASSUME RegistryInv, [Portfolio!Next]_Portfolio!vars PROVE RegistryInv'
  OBVIOUS
<1>1. CASE UNCHANGED Portfolio!vars
  BY <1>1 DEF RegistryInv, Portfolio!vars
<1>2. CASE outcome' = "RegistryValidationError" /\ UNCHANGED raw
  BY <1>2 DEF RegistryInv
<1>3. CASE Portfolio!Load /\ ~ (outcome' = "RegistryValidationError" /\ UNCHANGED raw)
  <2>0. PICK v \in Portfolio!Verifieds, from \in {"file", "mapping"} : \E named :
          /\ named = [raw EXCEPT !.verified = v] /\ Portfolio!SourcesValid(named)
          /\ outcome' = from
          /\ \E b \in Portfolio!Blockeds : LET both == [named EXCEPT !.blocked = b] IN
               /\ Portfolio!CandidatesValid(both)
               /\ \E s, n \in Portfolio!Numbers, t \in 1 .. 2 * MaxNumber :
                    raw' = [both EXCEPT !.sources = s, !.receipts = n, !.total = t]
                    /\ Portfolio!Accepts(raw', from)
    BY <1>3 DEF Portfolio!Load
  <2>1. PICK named :
          /\ named = [raw EXCEPT !.verified = v] /\ Portfolio!SourcesValid(named)
          /\ outcome' = from
          /\ \E b \in Portfolio!Blockeds : LET both == [named EXCEPT !.blocked = b] IN
               /\ Portfolio!CandidatesValid(both)
               /\ \E s, n \in Portfolio!Numbers, t \in 1 .. 2 * MaxNumber :
                    raw' = [both EXCEPT !.sources = s, !.receipts = n, !.total = t]
                    /\ Portfolio!Accepts(raw', from)
    BY <2>0
  <2>b. PICK b \in Portfolio!Blockeds : \E both :
          /\ both = [named EXCEPT !.blocked = b] /\ Portfolio!CandidatesValid(both)
          /\ \E s, n \in Portfolio!Numbers, t \in 1 .. 2 * MaxNumber :
               raw' = [both EXCEPT !.sources = s, !.receipts = n, !.total = t]
               /\ Portfolio!Accepts(raw', from)
    BY <2>1
  <2>2. PICK both :
          /\ both = [named EXCEPT !.blocked = b] /\ Portfolio!CandidatesValid(both)
          /\ \E s, n \in Portfolio!Numbers, t \in 1 .. 2 * MaxNumber :
               raw' = [both EXCEPT !.sources = s, !.receipts = n, !.total = t]
               /\ Portfolio!Accepts(raw', from)
    BY <2>b
  <2>3. PICK s, n \in Portfolio!Numbers, t \in 1 .. 2 * MaxNumber :
                       /\ raw' = [both EXCEPT !.sources = s, !.receipts = n, !.total = t]
                       /\ Portfolio!Accepts(raw', from)
    BY <2>2
  <2>4. RegistryShape(raw)
    BY DEF RegistryInv
  <2>5. /\ DOMAIN raw' = {"verified", "blocked", "sources", "receipts", "total"}
        /\ raw'.verified = v /\ named.verified = v /\ both.verified = v
        /\ raw'.blocked = b /\ both.blocked = b
    BY <2>1, <2>2, <2>3, <2>4 DEF RegistryShape
  <2>6. Portfolio!SourcesValid(raw')
    BY <2>1, <2>5 DEF Portfolio!SourcesValid
  <2>7. Portfolio!CandidatesValid(raw')
    BY <2>2, <2>5 DEF Portfolio!CandidatesValid
  <2> QED BY <2>1, <2>3, <2>5, <2>6, <2>7 DEF RegistryInv, RegistryShape
<1> QED BY <1>1, <1>2, <1>3 DEF Portfolio!Next, Portfolio!Load

-----------------------------------------------------------------------------
\* Under a name there is one of its entries.
LEMMA OneOfItsEntries ==
  ASSUME NEW v \in Portfolio!Verifieds, NEW n \in Portfolio!NamesOf(v)
  PROVE  \E d \in DOMAIN v : d.name = n /\ Portfolio!Normalised(v)[n] = v[d]
<1>1. PICK ids \in SUBSET Portfolio!Ids : v \in [ids -> Portfolio!Sources]
  BY DEF Portfolio!Verifieds, Portfolio!IdSets
<1>2. \A d \in DOMAIN v : d.spaces \in {0, 1}
  BY <1>1 DEF Portfolio!Ids
<1>3. \E d \in DOMAIN v :
        d.name = n /\ \A e \in DOMAIN v : e.name = n => e.spaces >= d.spaces
  <2>1. PICK d \in DOMAIN v : d.name = n
    BY DEF Portfolio!NamesOf
  <2>2. CASE \E e \in DOMAIN v : e.name = n /\ e.spaces = 0
    BY <1>2, <2>2
  <2>3. CASE ~ \E e \in DOMAIN v : e.name = n /\ e.spaces = 0
    BY <1>2, <2>1, <2>3
  <2> QED BY <2>2, <2>3
<1>4. PICK d : d = CHOOSE o \in DOMAIN v :
                 o.name = n /\ \A e \in DOMAIN v : e.name = n => e.spaces >= o.spaces
  OBVIOUS
<1>5. d \in DOMAIN v /\ d.name = n
  BY <1>3, <1>4
<1>6. Portfolio!Normalised(v)[n] = v[d]
  BY <1>4 DEF Portfolio!Normalised
<1> QED BY <1>5, <1>6

Artifacts(v) == {v[d].artifact : d \in DOMAIN v}

\* With two entries of one name there are not as many names, nor as many artifacts
\* under the names, as artifacts in the file.
LEMMA LostEntryIsMissed ==
  ASSUME NEW v \in Portfolio!Verifieds, NEW x \in DOMAIN v, NEW y \in DOMAIN v,
         x # y, x.name = y.name,
         \A d, e \in DOMAIN v : d # e => v[d].artifact # v[e].artifact
  PROVE  /\ Cardinality(Portfolio!NamesOf(v)) # Cardinality(Artifacts(v))
         /\ Cardinality({Portfolio!Normalised(v)[n].artifact : n \in Portfolio!NamesOf(v)})
              # Cardinality(Artifacts(v))
<1>1. PICK f : f = [n \in Portfolio!NamesOf(v) |-> Portfolio!Normalised(v)[n].artifact]
  OBVIOUS
<1>2. \A n \in Portfolio!NamesOf(v) :
        \E d \in DOMAIN v : d.name = n /\ f[n] = v[d].artifact
                            /\ Portfolio!Normalised(v)[n] = v[d]
  BY <1>1, OneOfItsEntries
<1>3. PICK lost \in {x, y} : v[lost].artifact \notin {f[n] : n \in Portfolio!NamesOf(v)}
  <2>1. x.name \in Portfolio!NamesOf(v)
    BY DEF Portfolio!NamesOf
  <2>2. PICK d \in DOMAIN v : d.name = x.name /\ f[x.name] = v[d].artifact
    BY <1>2, <2>1
  <2>3. PICK l \in {x, y} : l # d
    OBVIOUS
  <2>4. ASSUME NEW n \in Portfolio!NamesOf(v) PROVE f[n] # v[l].artifact
    <3>1. PICK e \in DOMAIN v : e.name = n /\ f[n] = v[e].artifact
      BY <1>2
    <3>2. CASE n = x.name
      BY <2>2, <2>3, <3>2
    <3>3. CASE n # x.name
      BY <2>3, <3>1, <3>3
    <3> QED BY <3>2, <3>3
  <2> QED BY <2>3, <2>4
<1>4. PICK a : a = v[lost].artifact
  OBVIOUS
<1>5. /\ a \in Artifacts(v)
      /\ {f[n] : n \in Portfolio!NamesOf(v)} \subseteq Artifacts(v) \ {a}
  BY <1>2, <1>3, <1>4 DEF Artifacts
<1>6. IsFiniteSet(Artifacts(v))
  <2>1. Artifacts(v) \subseteq 1 .. MaxNumber
    BY DEF Artifacts, Portfolio!Verifieds, Portfolio!Sources, Portfolio!Numbers
  <2>2. MaxNumber \in Int /\ 1 \in Int
    BY RecordsAssumption
  <2>3. IsFiniteSet(1 .. MaxNumber)
    BY <2>2, FS_Interval
  <2> QED BY <2>1, <2>3, FS_Subset
<1>7. /\ IsFiniteSet(Artifacts(v) \ {a})
      /\ Cardinality(Artifacts(v) \ {a}) = Cardinality(Artifacts(v)) - 1
      /\ Cardinality(Artifacts(v)) \in Nat
  BY <1>5, <1>6, FS_RemoveElement, FS_CardinalityType
<1>8. \A n, m \in Portfolio!NamesOf(v) : f[n] = f[m] => n = m
  BY <1>2
<1>9. f \in Injection(Portfolio!NamesOf(v), Artifacts(v) \ {a})
  BY <1>1, <1>5, <1>8 DEF Injection, IsInjective
<1>10. /\ Cardinality(Portfolio!NamesOf(v)) \in Nat
       /\ Cardinality(Portfolio!NamesOf(v)) <= Cardinality(Artifacts(v) \ {a})
  BY <1>7, <1>9, FS_Injection, FS_CardinalityType
<1>11. {Portfolio!Normalised(v)[n].artifact : n \in Portfolio!NamesOf(v)}
          = {f[n] : n \in Portfolio!NamesOf(v)}
  BY <1>1
<1>12. PICK S : S = {f[n] : n \in Portfolio!NamesOf(v)}
  OBVIOUS
<1>13. Cardinality(S) \in Nat /\ Cardinality(S) <= Cardinality(Artifacts(v) \ {a})
  BY <1>5, <1>7, <1>12, FS_Subset, FS_CardinalityType
<1>14. PICK p, q, r \in Nat :
         /\ p = Cardinality(Portfolio!NamesOf(v)) /\ q = Cardinality(Artifacts(v))
         /\ r = Cardinality(S) /\ Cardinality(Artifacts(v) \ {a}) = q - 1
  BY <1>7, <1>10, <1>13
<1>15. p <= q - 1 /\ r <= q - 1
  BY <1>10, <1>13, <1>14
<1>16. p # q /\ r # q
  BY <1>15
<1> QED BY <1>11, <1>12, <1>14, <1>16

LEMMA PortfolioCardinality == \A S : Portfolio!Cardinality(S) = Cardinality(S)
  BY Zenon DEF Portfolio!Cardinality, Cardinality

LEMMA SourcesOfTheirOwn ==
  ASSUME RegistryInv, outcome \in {"file", "mapping"},
         outcome = "file" \/ raw.receipts = raw.sources,
         NEW x \in DOMAIN raw.verified, NEW y \in DOMAIN raw.verified, x.name = y.name
  PROVE  x = y
<1> SUFFICES ASSUME x # y PROVE FALSE
  OBVIOUS
<1>1. PICK v \in Portfolio!Verifieds : v = raw.verified
  BY DEF RegistryInv
<1>2. \A d, e \in DOMAIN v : d # e => v[d].artifact # v[e].artifact
  BY <1>1 DEF RegistryInv, Portfolio!SourcesValid, Portfolio!Distinct
<1>3. /\ Cardinality(Portfolio!NamesOf(v)) # Cardinality(Artifacts(v))
      /\ Cardinality({Portfolio!Normalised(v)[n].artifact : n \in Portfolio!NamesOf(v)})
           # Cardinality(Artifacts(v))
  BY <1>1, <1>2, LostEntryIsMissed
<1>4. /\ raw.sources = Cardinality(Portfolio!NamesOf(v))
      /\ raw.receipts = Cardinality(Artifacts(v))
  <2>1. Portfolio!Reconciles(raw)
    BY DEF RegistryInv, Portfolio!Accepts
  <2>2. /\ raw.sources = Portfolio!Cardinality(Portfolio!NamesOf(raw.verified))
        /\ raw.receipts = Portfolio!Cardinality(Artifacts(raw.verified))
    BY <2>1 DEF Portfolio!Reconciles, Artifacts
  <2> QED BY <1>1, <2>2, PortfolioCardinality
<1>5. outcome = "file"
  BY <1>3, <1>4
<1>6. PICK r : r = Portfolio!Stripped(raw)
  OBVIOUS
<1>7. r.receipts = Cardinality({r.verified[d].artifact : d \in DOMAIN r.verified})
  BY <1>5, <1>6, PortfolioCardinality DEF RegistryInv, Portfolio!Accepts, Portfolio!Valid, Portfolio!Reconciles
<1>8. /\ r.receipts = raw.receipts
      /\ r.verified = [d \in [name : Portfolio!NamesOf(v), spaces : {0}] |->
                         Portfolio!Normalised(v)[d.name]]
  BY <1>1, <1>6 DEF RegistryInv, RegistryShape, Portfolio!Stripped
<1>9. {r.verified[d].artifact : d \in DOMAIN r.verified}
         = {Portfolio!Normalised(v)[n].artifact : n \in Portfolio!NamesOf(v)}
  <2>1. DOMAIN r.verified = [name : Portfolio!NamesOf(v), spaces : {0}]
    BY <1>8
  <2>2. ASSUME NEW n \in Portfolio!NamesOf(v)
        PROVE  \E d \in DOMAIN r.verified : r.verified[d] = Portfolio!Normalised(v)[n]
    <3>1. [name |-> n, spaces |-> 0] \in DOMAIN r.verified
      BY <2>1
    <3> QED BY <1>8, <3>1
  <2>3. ASSUME NEW d \in DOMAIN r.verified
        PROVE  \E n \in Portfolio!NamesOf(v) : r.verified[d] = Portfolio!Normalised(v)[n]
    BY <1>8, <2>1
  <2> QED BY <2>2, <2>3
<1> QED BY <1>3, <1>4, <1>7, <1>8, <1>9

LEMMA RoutesAreHonest == RegistryInv => Portfolio!RoutesHonestly
<1> SUFFICES ASSUME RegistryInv, outcome \in {"file", "mapping"}
             PROVE  Portfolio!RoutesHonestly
  BY DEF Portfolio!RoutesHonestly
<1>1. PICK v \in Portfolio!Verifieds : v = raw.verified
  BY DEF RegistryInv
<1>2. /\ Portfolio!Verified = Portfolio!Normalised(v)
      /\ DOMAIN Portfolio!Verified = Portfolio!NamesOf(v)
  BY <1>1 DEF Portfolio!Verified, Portfolio!Normalised
<1>3. ASSUME NEW n \in Portfolio!Domains
      PROVE  Portfolio!Route(n).promotionReady <=> n \in Portfolio!NamesOf(v)
  BY <1>2 DEF Portfolio!Route
<1>4. ASSUME NEW n \in Portfolio!NamesOf(v)
      PROVE  \E d \in DOMAIN v : /\ d.name = n
                                 /\ Portfolio!Route(n) = [repository |-> v[d].repository,
                                                          promotionReady |-> TRUE]
  BY <1>2, OneOfItsEntries DEF Portfolio!Route
<1>5. ASSUME NEW n \in Portfolio!Domains, Portfolio!Route(n).promotionReady,
             NEW d \in DOMAIN raw.blocked
      PROVE  Portfolio!Route(n).repository # raw.blocked[d].repository
  <2>1. PICK e \in DOMAIN v : Portfolio!Route(n) = [repository |-> v[e].repository,
                                                    promotionReady |-> TRUE]
    BY <1>3, <1>4, <1>5
  <2>2. raw.blocked[d].repository # v[e].repository
    BY <1>1, <1>5 DEF RegistryInv, Portfolio!CandidatesValid
  <2> QED BY <2>1, <2>2
<1>6. raw.sources = Portfolio!Cardinality({n \in Portfolio!Domains : Portfolio!Route(n).promotionReady})
  <2>1. {n \in Portfolio!Domains : Portfolio!Route(n).promotionReady} = Portfolio!NamesOf(v)
    BY <1>2, <1>3 DEF Portfolio!Domains
  <2> QED BY <1>1, <2>1 DEF RegistryInv, Portfolio!Accepts, Portfolio!Reconciles
<1>7. raw.total = Portfolio!Tests(Portfolio!Verified)
  BY <1>1, <1>2 DEF RegistryInv, Portfolio!Accepts, Portfolio!Reconciles
<1>8. ASSUME outcome = "file" \/ raw.receipts = raw.sources, NEW d \in DOMAIN raw.verified
      PROVE  Portfolio!Route(d.name) = [repository |-> raw.verified[d].repository,
                                        promotionReady |-> TRUE]
  <2>1. d.name \in Portfolio!NamesOf(v)
    BY <1>1, <1>8 DEF Portfolio!NamesOf
  <2>2. PICK e \in DOMAIN v : /\ e.name = d.name
                              /\ Portfolio!Route(d.name) = [repository |-> v[e].repository,
                                                            promotionReady |-> TRUE]
    BY <1>4, <2>1
  <2>3. e = d
    BY <1>1, <1>8, <2>2, SourcesOfTheirOwn
  <2> QED BY <1>1, <2>2, <2>3
<1> QED BY <1>5, <1>6, <1>7, <1>8 DEF Portfolio!RoutesHonestly

-----------------------------------------------------------------------------
(* Microcode. While patches are undone newest first, each standing patch    *)
(* found what the one below it brought, so undoing it restores just that.   *)

\* v is what the newest patch of S brought, or what c was registered with.
Found(c, S, v) ==
  IF S = {} THEN v = base[c]
  ELSE \E i \in S : (\A j \in S : j <= i) /\ v = patches[i].after

Below(c, i) == {j \in Code!Standing(c) : j < i}

Stacked(c) ==
  /\ Found(c, Code!Standing(c), active[c])
  /\ \A i \in Code!Standing(c) : Found(c, Below(c, i), patches[i].before)

PatchType ==
  [component : Devices, before : Versions, after : Versions, rolledBack : BOOLEAN]

PatcherType ==
  /\ active \in [Devices -> Versions \cup {0}]
  /\ base \in [Devices -> Versions \cup {0}]
  /\ orderly \in [Devices -> BOOLEAN]
  /\ patches \in Seq(PatchType)

PatcherInv == PatcherType /\ \A c \in Devices : orderly[c] => Stacked(c)

LEMMA PatcherInit == Code!Init => PatcherInv
BY DEF Code!Init, PatcherInv, PatcherType, Stacked, Found, Code!Standing

\* What a component was registered with, its standing patches and its version are
\* all there is to its stack.
LEMMA SameStack ==
  ASSUME PatcherType, PatcherType', NEW c \in Devices, Stacked(c),
         active'[c] = active[c], base'[c] = base[c],
         Code!Standing(c)' = Code!Standing(c),
         \A i \in Code!Standing(c) : patches'[i].before = patches[i].before
                                 /\ patches'[i].after = patches[i].after
  PROVE  Stacked(c)'
BY DEF Stacked, Found, Below

LEMMA RegisterStacks ==
  ASSUME PatcherInv, NEW c \in Devices, NEW v \in Versions, Code!RegisterComponent(c, v)
  PROVE  PatcherInv'
<1>1. /\ active' = [active EXCEPT ![c] = v] /\ base' = [base EXCEPT ![c] = v]
      /\ orderly' = [orderly EXCEPT ![c] = Code!Standing(c) = {}]
      /\ patches' = patches
  BY DEF Code!RegisterComponent
<1>2. PatcherType /\ PatcherType'
  BY <1>1 DEF PatcherInv, PatcherType
<1>3. ASSUME NEW d \in Devices PROVE Code!Standing(d)' = Code!Standing(d)
  BY <1>1 DEF Code!Standing
<1>4. ASSUME NEW d \in Devices, orderly'[d] PROVE Stacked(d)'
  <2>1. CASE d = c
    <3>1. Code!Standing(c) = {} /\ active'[c] = v /\ base'[c] = v
      BY <1>1, <1>2, <1>4, <2>1 DEF PatcherType
    <3> QED BY <1>3, <2>1, <3>1 DEF Stacked, Found
  <2>2. CASE d # c
    <3>1. active'[d] = active[d] /\ base'[d] = base[d] /\ Stacked(d)
      BY <1>1, <1>2, <1>4, <2>2 DEF PatcherInv, PatcherType
    <3> QED BY <1>1, <1>2, <1>3, <3>1, SameStack
  <2> QED BY <2>1, <2>2
<1> QED BY <1>2, <1>4 DEF PatcherInv

LEMMA ApplyStacks ==
  ASSUME PatcherInv, NEW c \in Devices, NEW v \in Versions, Code!ApplyPatch(c, v)
  PROVE  PatcherInv'
<1>0. PICK new, n : /\ new = [component |-> c, before |-> active[c], after |-> v,
                               rolledBack |-> FALSE]
                    /\ n = Len(patches) + 1
  OBVIOUS
<1>1. /\ active[c] # 0 /\ active' = [active EXCEPT ![c] = v]
      /\ patches' = Append(patches, new) /\ base' = base /\ orderly' = orderly
  BY <1>0 DEF Code!ApplyPatch
<1>2. PatcherType
  BY DEF PatcherInv
<1>3. new \in PatchType
  BY <1>0, <1>1, <1>2 DEF PatcherType, PatchType
<1>4. PatcherType'
  BY <1>1, <1>2, <1>3 DEF PatcherType
<1>5. /\ n \in Nat /\ DOMAIN patches = 1 .. (n - 1) /\ DOMAIN patches' = 1 .. n
      /\ patches'[n] = new /\ \A i \in 1 .. (n - 1) : patches'[i] = patches[i]
  BY <1>0, <1>1, <1>2, <1>3 DEF PatcherType
<1>6. ASSUME NEW d \in Devices, d # c PROVE Code!Standing(d)' = Code!Standing(d)
  BY <1>0, <1>5, <1>6 DEF Code!Standing
<1>7. Code!Standing(c)' = Code!Standing(c) \cup {n}
  BY <1>0, <1>5 DEF Code!Standing
<1>8. Code!Standing(c) \subseteq 1 .. (n - 1)
  BY <1>5 DEF Code!Standing
<1>9. ASSUME NEW d \in Devices, orderly'[d] PROVE Stacked(d)'
  <2>1. Stacked(d)
    BY <1>1, <1>9 DEF PatcherInv
  <2>2. CASE d # c
    <3>1. active'[d] = active[d] /\ base'[d] = base[d]
      BY <1>1, <1>2, <2>2 DEF PatcherType
    <3>2. \A i \in Code!Standing(d) : patches'[i] = patches[i]
      BY <1>5 DEF Code!Standing
    <3> QED BY <1>2, <1>4, <1>6, <2>1, <2>2, <3>1, <3>2, SameStack
  <2>3. CASE d = c
    <3>1. Found(c, Code!Standing(c), active[c])'
      <4>1. active'[c] = v /\ patches'[n].after = v
        BY <1>0, <1>1, <1>2, <1>5 DEF PatcherType
      <4> QED BY <1>5, <1>7, <1>8, <4>1 DEF Found
    <3>2. ASSUME NEW i \in Code!Standing(c) PROVE Found(c, Below(c, i), patches[i].before)'
      <4>1. Below(c, i)' = Below(c, i) /\ Below(c, i) \subseteq 1 .. (n - 1) /\ i \in 1 .. (n - 1)
        BY <1>5, <1>7, <1>8, <3>2 DEF Below
      <4>2. Found(c, Below(c, i), patches[i].before)
        BY <2>1, <2>3, <3>2 DEF Stacked
      <4> QED BY <1>1, <1>5, <4>1, <4>2 DEF Found
    <3>3. Found(c, Below(c, n), patches[n].before)'
      <4>1. Below(c, n)' = Code!Standing(c) /\ patches'[n].before = active[c]
        BY <1>0, <1>5, <1>7, <1>8 DEF Below
      <4>2. Found(c, Code!Standing(c), active[c])
        BY <2>1, <2>3 DEF Stacked
      <4> QED BY <1>1, <1>5, <1>8, <4>1, <4>2 DEF Found
    <3> QED BY <1>7, <2>3, <3>1, <3>2, <3>3 DEF Stacked
  <2> QED BY <2>2, <2>3
<1> QED BY <1>4, <1>9 DEF PatcherInv

LEMMA RollbackStacks ==
  ASSUME PatcherInv, NEW i \in DOMAIN patches, Code!Rollback(i)
  PROVE  PatcherInv'
<1>1. PatcherType
  BY DEF PatcherInv
<1>2. patches[i] \in PatchType
  BY <1>1 DEF PatcherType
<1>3. PICK c \in Devices : c = patches[i].component
  BY <1>2 DEF PatchType
<1>4. /\ ~ patches[i].rolledBack
      /\ active' = [active EXCEPT ![c] = patches[i].before]
      /\ patches' = [patches EXCEPT ![i].rolledBack = TRUE]
      /\ orderly' = [orderly EXCEPT ![c] = @ /\ \A j \in Code!Standing(c) : j <= i]
      /\ base' = base
  BY <1>3 DEF Code!Rollback, Code!Restored
<1>5. patches[i].before \in Versions /\ [patches[i] EXCEPT !.rolledBack = TRUE] \in PatchType
  BY <1>2 DEF PatchType
<1>6. patches' \in Seq(PatchType)
  BY <1>1, <1>4, <1>5 DEF PatcherType
<1>7. PatcherType'
  BY <1>1, <1>4, <1>5, <1>6 DEF PatcherType
<1>8. /\ DOMAIN patches' = DOMAIN patches /\ DOMAIN patches \subseteq Nat
      /\ patches'[i] = [patches[i] EXCEPT !.rolledBack = TRUE]
      /\ \A j \in DOMAIN patches \ {i} : patches'[j] = patches[j]
  BY <1>1, <1>4 DEF PatcherType
<1>9. \A j \in DOMAIN patches : /\ patches'[j].component = patches[j].component
                                /\ patches'[j].before = patches[j].before
                                /\ patches'[j].after = patches[j].after
  BY <1>2, <1>8 DEF PatchType
<1>10. patches'[i].rolledBack
  BY <1>2, <1>8 DEF PatchType
<1>11. ASSUME NEW d \in Devices, d # c PROVE Code!Standing(d)' = Code!Standing(d)
  BY <1>3, <1>8, <1>9, <1>11 DEF Code!Standing
<1>12. Code!Standing(c)' = Code!Standing(c) \ {i} /\ i \in Code!Standing(c)
  BY <1>3, <1>4, <1>8, <1>9, <1>10 DEF Code!Standing
<1>13. ASSUME NEW d \in Devices, orderly'[d] PROVE Stacked(d)'
  <2>1. orderly[d]
    BY <1>1, <1>4, <1>13 DEF PatcherType
  <2>2. Stacked(d)
    BY <2>1 DEF PatcherInv
  <2>3. CASE d # c
    <3>1. active'[d] = active[d] /\ base'[d] = base[d]
      BY <1>1, <1>4, <2>3 DEF PatcherType
    <3>2. Code!Standing(d) \subseteq DOMAIN patches
      BY DEF Code!Standing
    <3> QED BY <1>1, <1>7, <1>9, <1>11, <2>2, <2>3, <3>1, <3>2, SameStack
  <2>4. CASE d = c
    <3>1. \A j \in Code!Standing(c) : j <= i
      BY <1>1, <1>4, <1>13, <2>4 DEF PatcherType
    <3>2. Code!Standing(c) \subseteq DOMAIN patches
      BY DEF Code!Standing
    <3>3. Code!Standing(c)' = Below(c, i)
      BY <1>8, <1>12, <3>1, <3>2 DEF Below
    <3>4. Found(c, Below(c, i), patches[i].before)
      BY <1>12, <2>2, <2>4 DEF Stacked
    <3>5. active'[c] = patches[i].before
      BY <1>1, <1>4 DEF PatcherType
    <3>6. Below(c, i) \subseteq DOMAIN patches
      BY <3>2 DEF Below
    <3>7. Found(c, Code!Standing(c), active[c])'
      BY <1>4, <1>9, <3>3, <3>4, <3>5, <3>6 DEF Found
    <3>8. ASSUME NEW j \in Code!Standing(c)' PROVE Found(c, Below(c, j), patches[j].before)'
      <4>1. Below(c, j)' = Below(c, j)
        BY <1>8, <1>12, <3>1, <3>2, <3>8 DEF Below
      <4>2. Found(c, Below(c, j), patches[j].before) /\ j \in DOMAIN patches
        BY <1>12, <2>2, <2>4, <3>2, <3>8 DEF Stacked
      <4>3. Below(c, j) \subseteq DOMAIN patches
        BY <3>2 DEF Below
      <4> QED BY <1>4, <1>9, <4>1, <4>2, <4>3 DEF Found
    <3> QED BY <2>4, <3>7, <3>8 DEF Stacked
  <2> QED BY <2>3, <2>4
<1> QED BY <1>7, <1>13 DEF PatcherInv

LEMMA PatcherNext == PatcherInv /\ [Code!Next]_Code!vars => PatcherInv'
<1> SUFFICES ASSUME PatcherInv, [Code!Next]_Code!vars PROVE PatcherInv'
  OBVIOUS
<1>1. ASSUME UNCHANGED <<active, patches, base, orderly>> PROVE PatcherInv'
  BY <1>1 DEF PatcherInv, PatcherType, Stacked, Found, Below, Code!Standing
<1>2. CASE Code!Patch
  BY <1>2, RegisterStacks, ApplyStacks, RollbackStacks DEF Code!Patch
<1> QED BY <1>1, <1>2 DEF Code!Next, Code!RegisterFirmware, Code!TickFirmware,
           Code!RegisterRecord, Code!RegisterIncompatible, Code!vars, Code!patcher

LEMMA PatchesUndone == PatcherInv => RollbackUndoes
BY DEF PatcherInv, Stacked, Found, RollbackUndoes, Code!RollbackUndoes

(* The firmware matrix and the table of combinations. Records are only      *)
(* appended, and the first of a combination is the one that is found.       *)

TablesType ==
  /\ matrix \in [Devices -> [current : Versions \cup {0}, latest : Versions \cup {0},
                             critical : BOOLEAN]]
  /\ alarms \subseteq Devices
  /\ records \in Seq([of : Combinations, gpus : SUBSET Gpus])
  /\ incompatible \subseteq Combinations \X Gpus

LEMMA TablesInit == Code!Init => TablesType
BY DEF Code!Init, TablesType, Code!Unregistered

LEMMA TablesNext == TablesType /\ [Code!Next]_Code!vars => TablesType'
<1> SUFFICES ASSUME TablesType, [Code!Next]_Code!vars PROVE TablesType'
  OBVIOUS
<1> USE DEF TablesType, Code!firmware, Code!drivers, Code!patcher
<1>1. CASE Code!Patch \/ UNCHANGED Code!vars
  BY <1>1 DEF Code!Patch, Code!vars
<1>2. CASE Code!RegisterFirmware
  BY <1>2 DEF Code!RegisterFirmware
<1>3. CASE Code!TickFirmware
  BY <1>3 DEF Code!TickFirmware, Code!Critical
<1>4. CASE Code!RegisterRecord
  BY <1>4 DEF Code!RegisterRecord
<1>5. CASE Code!RegisterIncompatible
  BY <1>5 DEF Code!RegisterIncompatible
<1> QED BY <1>1, <1>2, <1>3, <1>4, <1>5 DEF Code!Next

LEMMA TablesTyped == PatcherInv /\ TablesType => Code!TypeOK
<1> SUFFICES ASSUME PatcherInv, TablesType PROVE Code!TypeOK
  OBVIOUS
<1>1. ASSUME NEW i \in DOMAIN patches
      PROVE  /\ patches[i].component \in Devices
             /\ {patches[i].before, patches[i].after} \subseteq Versions
  <2>1. patches[i] \in PatchType
    BY DEF PatcherInv, PatcherType
  <2> QED BY <2>1 DEF PatchType
<1> QED BY <1>1 DEF PatcherInv, PatcherType, TablesType, Code!TypeOK

\* A step leaves the records that are found where they are.
LEMMA FirstRecordStays ==
  ASSUME TablesType, [Code!Next]_Code!vars, NEW x \in Combinations, Code!FindEntry(x) # {}
  PROVE  /\ Code!FindEntry(x)' = Code!FindEntry(x)
         /\ \A i \in Code!FindEntry(x) : records'[i] = records[i]
<1>1. CASE UNCHANGED records
  BY <1>1 DEF Code!FindEntry
<1>2. CASE Code!RegisterRecord
  <2>1. PICK e : records' = Append(records, e)
    BY <1>2 DEF Code!RegisterRecord
  <2>2. PICK n \in Nat : n = Len(records)
    BY DEF TablesType
  <2>3. /\ DOMAIN records = 1 .. n /\ DOMAIN records' = 1 .. (n + 1)
        /\ \A i \in 1 .. n : records'[i] = records[i]
    BY <2>1, <2>2 DEF TablesType
  <2>4. PICK f \in 1 .. n : records[f].of = x /\ \A j \in 1 .. f - 1 : records[j].of # x
    BY <2>3 DEF Code!FindEntry
  <2> QED BY <2>3, <2>4 DEF Code!FindEntry
<1> QED BY <1>1, <1>2 DEF Code!Next, Code!Patch, Code!RegisterFirmware, Code!TickFirmware,
           Code!RegisterIncompatible, Code!vars, Code!drivers

LEMMA VerdictStep ==
  ASSUME TablesType, [Code!Next]_Code!vars, NEW x \in Combinations, NEW g \in Gpus
  PROVE  /\ ~ Code!Compatible(x, g) => ~ Code!Compatible(x, g)'
         /\ (Code!FindEntry(x) # {} /\ incompatible' = incompatible)
              => Code!Compatible(x, g)' = Code!Compatible(x, g)
<1>1. incompatible \subseteq incompatible'
  BY DEF Code!Next, Code!Patch, Code!RegisterFirmware, Code!TickFirmware, Code!RegisterRecord,
         Code!RegisterIncompatible, Code!vars, Code!drivers
<1>2. CASE Code!FindEntry(x) = {}
  BY <1>1, <1>2 DEF Code!Compatible
<1>3. CASE Code!FindEntry(x) # {}
  <2>1. /\ Code!FindEntry(x)' = Code!FindEntry(x)
        /\ \A i \in Code!FindEntry(x) : records'[i] = records[i]
    BY <1>3, FirstRecordStays
  <2> QED BY <1>1, <2>1 DEF Code!Compatible
<1> QED BY <1>2, <1>3

-----------------------------------------------------------------------------
(* The pipeline. Each stage a run has left recorded a gate, and once it has *)
(* left the tests their gate says how they ended.                           *)

RunType ==
  [stage : 0 .. 7, gates : [1 .. 6 -> Pipe!Results],
   pytest : {"notRun", "noTests", "rc0", "rc1", "timeout"}]

Recorded(run) ==
  /\ \A s \in 1 .. 6 : s < run.stage => run.gates[s] # {}
  /\ run.stage > 2 => Pipe!Test(run.gates[2], run.pytest)

PipelineInv ==
  /\ runs \in Seq(RunType)
  /\ \A i \in DOMAIN runs : Recorded(runs[i])

\* Kinds of its fields, for a run that is made.
LEMMA RunMade ==
  ASSUME NEW stage \in 0 .. 7, NEW gates \in [1 .. 6 -> Pipe!Results],
         NEW pytest \in {"notRun", "noTests", "rc0", "rc1", "timeout"},
         NEW run, run = [stage |-> stage, gates |-> gates, pytest |-> pytest]
  PROVE  run \in RunType /\ run.stage = stage /\ run.gates = gates /\ run.pytest = pytest
BY DEF RunType

LEMMA RunFields ==
  ASSUME NEW run \in RunType
  PROVE  /\ run = [stage |-> run.stage, gates |-> run.gates, pytest |-> run.pytest]
         /\ run.stage \in 0 .. 7 /\ run.gates \in [1 .. 6 -> Pipe!Results]
         /\ run.pytest \in {"notRun", "noTests", "rc0", "rc1", "timeout"}
BY DEF RunType

LEMMA StageNumbers ==
  /\ DOMAIN Pipe!Stages = 1 .. 6 /\ Pipe!Complete = 7
  /\ \A s \in 1 .. 6 : Pipe!Stages[s] = "test" <=> s = 2
BY DEF Pipe!Stages, Pipe!Complete

LEMMA GatesRecorded ==
  ASSUME NEW s \in 1 .. 6, NEW results, NEW ended, Pipe!Gates(s, results, ended)
  PROVE  results # {} /\ (s = 2 => Pipe!Test(results, ended))
<1>1. s = 2 => Pipe!Test(results, ended)
  BY DEF Pipe!Gates, Pipe!Stages
<1>2. Pipe!Test(results, ended) => results # {}
  BY DEF Pipe!Test
<1>3. Pipe!Validate(results) \/ Pipe!Audit(results) \/ Pipe!Build(results)
        \/ Pipe!Deploy(results) \/ Pipe!Verify(results) => results # {}
  BY DEF Pipe!Validate, Pipe!Audit, Pipe!Build, Pipe!Deploy, Pipe!Verify
<1> QED BY <1>1, <1>2, <1>3 DEF Pipe!Gates

LEMMA PipelineInit == Pipe!Init => PipelineInv
BY DEF Pipe!Init, PipelineInv

\* Only the run in progress, the last one, changes.
LEMMA LastRunChanges ==
  ASSUME PipelineInv, NEW run \in RunType, Recorded(run), Pipe!Busy,
         runs' = [runs EXCEPT ![Len(runs)] = run]
  PROVE  PipelineInv'
BY DEF PipelineInv, Pipe!Busy

LEMMA PipelineNext == PipelineInv /\ [Pipe!Next]_Pipe!vars => PipelineInv'
<1> SUFFICES ASSUME PipelineInv, [Pipe!Next]_Pipe!vars PROVE PipelineInv'
  OBVIOUS
<1>1. CASE Pipe!StartRun
  <2>1. PICK stage \in {1, 0} :
          runs' = Append(runs, [stage |-> stage, gates |-> Pipe!NoGates, pytest |-> "notRun"])
    BY <1>1 DEF Pipe!StartRun, Pipe!Failed
  <2>2. PICK run : run = [stage |-> stage, gates |-> Pipe!NoGates, pytest |-> "notRun"]
    OBVIOUS
  <2>3. Pipe!NoGates \in [1 .. 6 -> Pipe!Results]
    BY StageNumbers DEF Pipe!NoGates, Pipe!Results
  <2>4. run \in RunType /\ run.stage \in {0, 1}
    BY <2>2, <2>3, RunMade
  <2>5. Recorded(run)
    BY <2>4 DEF Recorded
  <2>6. PICK n \in Nat : n = Len(runs)
    BY DEF PipelineInv
  <2>7. /\ runs' = Append(runs, run) /\ runs' \in Seq(RunType)
        /\ DOMAIN runs = 1 .. n /\ DOMAIN runs' = 1 .. (n + 1)
        /\ runs'[n + 1] = run /\ \A i \in 1 .. n : runs'[i] = runs[i]
    BY <2>1, <2>2, <2>4, <2>6 DEF PipelineInv
  <2>8. ASSUME NEW i \in DOMAIN runs' PROVE Recorded(runs'[i])
    BY <2>5, <2>7 DEF PipelineInv
  <2> QED BY <2>7, <2>8 DEF PipelineInv, Recorded
<1>2. ASSUME Pipe!Busy
      PROVE  \E old \in RunType : /\ old = Pipe!Current /\ old.stage \in 1 .. 6
                                  /\ Recorded(old)
  <2>1. Len(runs) \in DOMAIN runs
    BY <1>2 DEF PipelineInv, Pipe!Busy
  <2>2. Pipe!Current \in RunType /\ Recorded(Pipe!Current)
    BY <2>1 DEF PipelineInv, Pipe!Current
  <2> QED BY <1>2, <2>2, StageNumbers DEF Pipe!Busy
<1>3. CASE Pipe!EndStage
  <2>1. PICK old \in RunType : /\ old = Pipe!Current /\ old.stage \in 1 .. 6
                               /\ Recorded(old)
    BY <1>2, <1>3 DEF Pipe!EndStage
  <2>2. PICK s \in 1 .. 6 : s = old.stage
    BY <2>1
  <2>3. PICK results \in Pipe!Results, ended \in {"noTests", "rc0", "rc1", "timeout"} :
          /\ Pipe!Gates(s, results, ended)
          /\ runs' = [runs EXCEPT ![Len(runs)] =
               [stage |-> s + 1, gates |-> [old.gates EXCEPT ![s] = results],
                pytest |-> IF Pipe!Stages[s] = "test" THEN ended ELSE old.pytest]]
    <3>1. old = runs[Len(runs)] /\ s = Pipe!Current.stage
      BY <2>1, <2>2 DEF Pipe!Current
    <3>2. PICK results \in Pipe!Results, ended \in {"noTests", "rc0", "rc1", "timeout"} :
            /\ Pipe!Gates(s, results, ended)
            /\ runs' = [runs EXCEPT ![Len(runs)] =
                 [stage |-> s + 1, gates |-> [@.gates EXCEPT ![s] = results],
                  pytest |-> IF Pipe!Stages[s] = "test" THEN ended ELSE @.pytest]]
      BY <1>3, <3>1 DEF Pipe!EndStage
    <3>3. runs' = [runs EXCEPT ![Len(runs)] =
               [stage |-> s + 1, gates |-> [old.gates EXCEPT ![s] = results],
                pytest |-> IF Pipe!Stages[s] = "test" THEN ended ELSE old.pytest]]
      BY <3>1, <3>2
    <3> QED BY <3>2, <3>3
  <2>4. PICK run : run = [stage |-> s + 1, gates |-> [old.gates EXCEPT ![s] = results],
                          pytest |-> IF s = 2 THEN ended ELSE old.pytest]
    OBVIOUS
  <2>5. /\ run \in RunType /\ run.stage = s + 1
        /\ run.gates = [old.gates EXCEPT ![s] = results]
        /\ run.pytest = IF s = 2 THEN ended ELSE old.pytest
    <3>1. s + 1 \in 0 .. 7 /\ [old.gates EXCEPT ![s] = results] \in [1 .. 6 -> Pipe!Results]
      BY <2>3, RunFields
    <3>2. (IF s = 2 THEN ended ELSE old.pytest)
             \in {"notRun", "noTests", "rc0", "rc1", "timeout"}
      BY <2>3, RunFields
    <3> QED BY <2>4, <3>1, <3>2, RunMade
  <2>6. results # {} /\ (s = 2 => Pipe!Test(results, ended))
    BY <2>3, GatesRecorded
  <2>7. old.gates \in [1 .. 6 -> Pipe!Results]
    BY RunFields
  <2>8. Recorded(run)
    BY <2>1, <2>2, <2>5, <2>6, <2>7 DEF Recorded
  <2>9. runs' = [runs EXCEPT ![Len(runs)] = run]
    BY <2>2, <2>3, <2>4, StageNumbers
  <2> QED BY <1>3, <2>5, <2>8, <2>9, LastRunChanges DEF Pipe!EndStage
<1>4. CASE Pipe!RaiseInStage
  <2>1. PICK old \in RunType : /\ old = Pipe!Current /\ old.stage \in 1 .. 6
                               /\ Recorded(old)
    BY <1>2, <1>4 DEF Pipe!RaiseInStage
  <2>2. PICK results \in SUBSET {"pass", "warn", "fail"} :
          runs' = [runs EXCEPT ![Len(runs)] =
            [old EXCEPT !.stage = 0, !.gates[old.stage] = results]]
    BY <1>4, <2>1 DEF Pipe!RaiseInStage, Pipe!Current, Pipe!Failed
  <2>3. PICK run : run = [old EXCEPT !.stage = 0, !.gates[old.stage] = results]
    OBVIOUS
  <2>4. run \in RunType /\ run.stage = 0
    <3>1. results \in Pipe!Results
      BY DEF Pipe!Results
    <3>2. [old.gates EXCEPT ![old.stage] = results] \in [1 .. 6 -> Pipe!Results]
      BY <2>1, <3>1, RunFields
    <3>3. run = [stage |-> 0, gates |-> [old.gates EXCEPT ![old.stage] = results],
                 pytest |-> old.pytest]
      <4>1. PICK g, a, p : /\ old = [stage |-> a, gates |-> g, pytest |-> p]
                           /\ g = old.gates /\ a = old.stage /\ p = old.pytest
        BY RunFields
      <4>2. run = [[stage |-> a, gates |-> g, pytest |-> p]
                     EXCEPT !.stage = 0, !.gates[a] = results]
        BY <2>3, <4>1
      <4> QED BY <4>1, <4>2
    <3> QED BY <3>2, <3>3, RunFields, RunMade
  <2>5. Recorded(run)
    BY <2>4 DEF Recorded
  <2> QED BY <1>4, <2>2, <2>3, <2>4, <2>5, LastRunChanges DEF Pipe!RaiseInStage
<1>5. CASE UNCHANGED Pipe!vars
  BY <1>5 DEF PipelineInv, Pipe!vars
<1> QED BY <1>1, <1>3, <1>4, <1>5 DEF Pipe!Next

LEMMA GreenIsTested == PipelineInv => Pipe!GreenMeansTested
<1> SUFFICES ASSUME PipelineInv, NEW i \in DOMAIN runs, runs[i].stage = 7,
                    Pipe!AllGatesPass(runs[i])
             PROVE  /\ runs[i].pytest = "rc0"
                    /\ \A s \in 1 .. 6 : runs[i].gates[s] # {}
  BY StageNumbers DEF Pipe!GreenMeansTested
<1>1. runs[i] \in RunType /\ Recorded(runs[i])
  BY DEF PipelineInv
<1>2. Pipe!Test(runs[i].gates[2], runs[i].pytest)
  BY <1>1 DEF Recorded
<1>3. runs[i].gates[2] \subseteq {"pass", "warn"}
  BY <1>1 DEF Pipe!AllGatesPass, RunType
<1>4. runs[i].pytest = "rc0"
  BY <1>2, <1>3 DEF Pipe!Test
<1> QED BY <1>1, <1>4 DEF Recorded

-----------------------------------------------------------------------------
(* The composition. Every step of it is a step of each part or leaves that  *)
(* part alone.                                                              *)

LEMMA BridgeMoves == [AllNext]_allVars => [Next]_vars
BY DEF AllNext, allVars, Archive, Memory, Chain, Grant, Registry, Tables, Pipeline, Rest

LEMMA SidecarsMove == [AllNext]_allVars => [Side!Next]_Side!vars
BY DEF AllNext, allVars, Archive, Memory, Chain, Grant, Registry, Tables, Pipeline, Rest,
       Side!vars, Side!history, sidecarVars

LEMMA ChainMoves == [AllNext]_allVars => [Sbom!Next]_Sbom!vars
BY DEF AllNext, allVars, Archive, Memory, Chain, Grant, Registry, Tables, Pipeline, Rest,
       Sbom!vars, sbomVars

LEMMA GrantsMove == [AllNext]_allVars => [Promotion!Next]_Promotion!vars
BY DEF AllNext, allVars, Archive, Memory, Chain, Grant, Registry, Tables, Pipeline, Rest,
       Promotion!vars, grantVars

LEMMA RegistryMoves == [AllNext]_allVars => [Portfolio!Next]_Portfolio!vars
BY DEF AllNext, allVars, Archive, Memory, Chain, Grant, Registry, Tables, Pipeline, Rest,
       Portfolio!vars, registryVars

LEMMA TablesMove == [AllNext]_allVars => [Code!Next]_Code!vars
BY DEF AllNext, allVars, Archive, Memory, Chain, Grant, Registry, Tables, Pipeline, Rest,
       Code!vars, Code!patcher, Code!firmware, Code!drivers, Code!Next, codeVars

LEMMA PipelineMoves == [AllNext]_allVars => [Pipe!Next]_Pipe!vars
BY DEF AllNext, allVars, Archive, Memory, Chain, Grant, Registry, Tables, Pipeline, Rest,
       Pipe!vars

(* Whatever the log, the memory files, the chain and the tables go through, *)
(* their fields hold values the code can give them: lists stay in bounds,   *)
(* versions are registered ones.                                            *)
THEOREM RecordsTypeCorrect == AllSpec => []TypesOK
<1>1. AllInit => FilesInv /\ TypeRest /\ MemoryInv /\ SbomInv /\ PatcherInv /\ TablesType
  BY FilesInit, TypeInit, TypeSplit, MemoryInit, SbomInit, PatcherInit, TablesInit
     DEF AllInit, FilesInv
<1>2. FilesInv /\ TypeRest /\ MemoryInv /\ SbomInv /\ PatcherInv /\ TablesType => TypesOK
  BY TypeSplit, MemoryKept, SbomTyped, TablesTyped DEF FilesInv, TypesOK
<1>3. FilesInv /\ TypeRest /\ MemoryInv /\ SbomInv /\ PatcherInv /\ TablesType
        /\ [AllNext]_allVars
        => (FilesInv /\ TypeRest /\ MemoryInv /\ SbomInv /\ PatcherInv /\ TablesType)'
  BY BridgeMoves, SidecarsMove, ChainMoves, TablesMove, FilesNext, TypeStep, MemoryNext,
     SbomNext, PatcherNext, TablesNext
<1> QED BY <1>1, <1>2, <1>3, PTL DEF AllSpec

(* Shadow memory: whatever the sidecars read, merge, truncate, write and    *)
(* crash on, an update that no other process disturbed is in the file, and  *)
(* the newest one that was written is read from it.                         *)
THEOREM UpdatesAreKept == AllSpec => []UpdatesKept
<1>1. AllInit => MemoryInv
  BY MemoryInit DEF AllInit
<1>2. MemoryInv => UpdatesKept
  BY MemoryKept
<1>3. MemoryInv /\ [AllNext]_allVars => MemoryInv'
  BY SidecarsMove, MemoryNext
<1> QED BY <1>1, <1>2, <1>3, PTL DEF AllSpec

(* What is attested is genuine, whatever is registered, changed, verified   *)
(* and presented: an SBOM entry passes only for the specs that were         *)
(* registered and signed, with counters that agree with the log, and        *)
(* verify_bound_grant fails closed on anything but a grant that was issued   *)
(* as it stands, is still valid and fits the receipt in the file.           *)
THEOREM AttestationIsGenuine == AllSpec => []AttestedIsGenuine
<1>1. AllInit => SbomInv /\ GrantsInv
  BY SbomInit, GrantsInit DEF AllInit
<1>2. SbomInv /\ GrantsInv => AttestedIsGenuine
  BY LogIsGenuine DEF GrantsInv, AttestedIsGenuine
<1>3. SbomInv /\ GrantsInv /\ [AllNext]_allVars => (SbomInv /\ GrantsInv)'
  BY ChainMoves, GrantsMove, SbomNext, GrantsNext
<1> QED BY <1>1, <1>2, <1>3, PTL DEF AllSpec

(* What is published is true: a route of an accepted registry is that of    *)
(* its one verified source, counted and never a blocked candidate's, and a  *)
(* pipeline whose gates all pass has run its tests.                         *)
THEOREM PublicationIsTested == AllSpec => []PublishedIsTested
<1>1. AllInit => RegistryInv /\ PipelineInv
  BY RegistryInit, PipelineInit DEF AllInit
<1>2. RegistryInv /\ PipelineInv => PublishedIsTested
  BY RoutesAreHonest, GreenIsTested DEF PublishedIsTested
<1>3. RegistryInv /\ PipelineInv /\ [AllNext]_allVars => (RegistryInv /\ PipelineInv)'
  BY RegistryMoves, PipelineMoves, RegistryNext, PipelineNext
<1> QED BY <1>1, <1>2, <1>3, PTL DEF AllSpec

(* Hot patching: as long as patches of a component are rolled back newest   *)
(* first, its version is the one its newest standing patch brought, and the *)
(* registered one once none stands, in any order of patches.                *)
THEOREM PatchesAreUndone == AllSpec => []RollbackUndoes
<1>1. AllInit => PatcherInv
  BY PatcherInit DEF AllInit
<1>2. PatcherInv /\ [AllNext]_allVars => PatcherInv'
  BY TablesMove, PatcherNext
<1> QED BY <1>1, <1>2, PatchesUndone, PTL DEF AllSpec

(* Driver compatibility: the first record of a combination settles its      *)
(* verdict, and what was found incompatible is never found compatible.      *)
THEOREM VerdictsStand == AllSpec => VerdictStands
<1>1. AllInit => TablesType
  BY TablesInit DEF AllInit
<1>2. TablesType /\ [AllNext]_allVars => TablesType'
  BY TablesMove, TablesNext
<1>3. TablesType /\ [AllNext]_allVars =>
        [\A combination \in Combinations, gpu \in Gpus :
           /\ ~ Code!Compatible(combination, gpu) => ~ Code!Compatible(combination, gpu)'
           /\ (Code!FindEntry(combination) # {} /\ incompatible' = incompatible)
                => Code!Compatible(combination, gpu)' = Code!Compatible(combination, gpu)]_Code!drivers
  BY TablesMove, VerdictStep
<1> QED BY <1>1, <1>2, <1>3, PTL DEF AllSpec, VerdictStands, Code!VerdictStands

(* The files of the memory bridge keep their promises in the composition    *)
(* too: no tick is read twice, losses are accounted for, and a restart      *)
(* finds the newest ticks.                                                  *)
THEOREM ArchiveKeepsPromises ==
  AllSpec => []TicksOnceInOrder /\ []LossIsAccounted /\ RestartRecoversTail
<1>1. AllInit => Init
  BY DEF AllInit
<1>2. AllSpec => Spec
  BY <1>1, BridgeMoves, PTL DEF AllSpec, Spec
<1> QED BY <1>2, TicksKeepOrder, LossesAreAccounted, RestartsRecoverTail, PTL
=============================================================================
