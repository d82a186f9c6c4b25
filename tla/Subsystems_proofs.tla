--------------------------- MODULE Subsystems_proofs ---------------------------
(***************************************************************************)
(* Proofs about Subsystems, for any names, siblings and coroutines: the    *)
(* health of a binding is evidence of its own ticks, monitor_health keeps  *)
(* what works, and a ticked name vanishes only by another one's recovery.  *)
(***************************************************************************)
EXTENDS Subsystems, FiniteSetTheorems, WellFoundedInduction, TLAPS

Healths == {"HEALTHY", "DEGRADED", "CRITICAL", "OFFLINE"}
Phases == {"idle", "scanning", "ticking", "calling", "reporting", "KeyError"}

(* The typing the properties rest on: who awaits a tick knows a binding     *)
(* that was made, and only monitors are within monitor_health.              *)
Types ==
  /\ made \in 0 .. MaxBindings
  /\ bound \in [Names -> 0 .. made]
  /\ discovery \in [Names -> {"none", "bound", "unbound"}]
  /\ health \in [Ids -> Healths]
  /\ outcome \in [Ids -> {"none", "ticked", "raised"}]
  /\ at \in [Callers -> Phases]
  /\ todo \in [Callers -> SUBSET Names]
  /\ name \in [Callers -> Names \cup {0}]
  /\ binding \in [Callers -> 0 .. made]
  /\ recover \in [Callers -> BOOLEAN]

Positions ==
  \A c \in Callers :
    /\ at[c] \in {"ticking", "calling"} => binding[c] # 0
    /\ at[c] \in {"ticking", "calling", "reporting"} => name[c] \in Names
    /\ at[c] \in {"scanning", "ticking", "reporting"} => c \in Monitors

IInv == Types /\ Positions /\ HealthIsEvidence

-----------------------------------------------------------------------------
(* The next name of a scan is one that is left to visit.                    *)
LEMMA MinIsMember ==
  ASSUME NEW S \in SUBSET Nat, S # {}
  PROVE  Min(S) \in S
<1> DEFINE R == {p \in Nat \X Nat : p[1] < p[2]}
<1>1. PICK x \in S : \A y \in S : ~ (<<y, x>> \in R)
  <2>1. IsWellFoundedOn(R, Nat)
    BY NatLessThanWellFounded DEF OpToRel
  <2> HIDE DEF R
  <2> QED BY <2>1, WFMin
<1>2. \A y \in S : x <= y
  <2> SUFFICES ASSUME NEW y \in S PROVE x <= y
    OBVIOUS
  <2>1. ~ (<<y, x>> \in R)
    BY <1>1
  <2> QED BY <2>1
<1> QED BY <1>2 DEF Min

(* The bindings discover_sibling_subsystems makes are numbered after those  *)
(* there are, up to as many as it makes.                                    *)
LEMMA FoundNumber ==
  ASSUME NEW found \in SUBSET Siblings, NEW n \in found
  PROVE  /\ Cardinality(found) \in Nat
         /\ Cardinality({m \in found : m <= n}) \in 1 .. Cardinality(found)
<1> DEFINE upTo == {m \in found : m <= n}
<1>1. IsFiniteSet(found)
  BY SubsystemsAssumption, FS_Subset
<1>2. IsFiniteSet(upTo) /\ Cardinality(upTo) <= Cardinality(found)
  BY <1>1, FS_Subset
<1>3. n \in upTo
  BY SubsystemsAssumption
<1>4. Cardinality(upTo) # 0
  BY <1>2, <1>3, FS_EmptySet
<1>5. Cardinality(upTo) \in Nat /\ Cardinality(found) \in Nat
  BY <1>1, <1>2, FS_CardinalityType
<1> HIDE DEF upTo
<1> QED BY <1>2, <1>4, <1>5 DEF upTo

LEMMA InvInit == Init => IInv
BY SubsystemsAssumption DEF Init, IInv, Types, Positions, HealthIsEvidence, Ids, Healths, Phases

-----------------------------------------------------------------------------
(* The registry: every way to bind a name keeps the numbers of bindings in  *)
(* range, never unmakes one, and leaves no name "bound" without one.        *)
Registry ==
  /\ made \in 0 .. MaxBindings
  /\ bound \in [Names -> 0 .. made]
  /\ discovery \in [Names -> {"none", "bound", "unbound"}]
  /\ \A n \in Names : discovery[n] = "bound" => bound[n] # 0

LEMMA BindSound ==
  ASSUME Registry, NEW n \in Names, Bind(n)
  PROVE  Registry' /\ made <= made' /\ bound'[n] # 0
BY SubsystemsAssumption DEF Registry, Bind

LEMMA RecoverSound ==
  ASSUME Registry, NEW n \in Names, Recover(n)
  PROVE  Registry' /\ made <= made'
<1>1. CASE Bind(n)
  BY <1>1, BindSound
<1>2. CASE /\ bound' = [bound EXCEPT ![n] = 0]
           /\ discovery' = [discovery EXCEPT ![n] = "unbound"]
           /\ UNCHANGED made
  BY <1>2, SubsystemsAssumption DEF Registry
<1> QED BY <1>1, <1>2 DEF Recover

LEMMA RediscoverSound ==
  ASSUME Registry, Rediscover
  PROVE  Registry' /\ made <= made'
<1>1. PICK found \in SUBSET Siblings :
        /\ made + Cardinality(found) <= MaxBindings
        /\ made' = made + Cardinality(found)
        /\ bound' = [n \in Names |->
             CASE n \in found -> made + Cardinality({m \in found : m <= n})
               [] n \in Siblings \ found -> Kept(n)
               [] OTHER -> bound[n]]
        /\ discovery' = [n \in Names |->
             CASE n \in found -> "bound"
               [] n \in Siblings \ found -> "unbound"
               [] OTHER -> discovery[n]]
  BY DEF Rediscover
<1>2. Cardinality(found) \in Nat
  <2>1. IsFiniteSet(found)
    BY SubsystemsAssumption, FS_Subset
  <2> QED BY <2>1, FS_CardinalityType
<1>3. made \in Nat /\ made' \in 0 .. MaxBindings /\ made <= made'
  BY <1>1, <1>2, SubsystemsAssumption DEF Registry
<1>4. ASSUME NEW n \in Names
      PROVE  /\ bound'[n] \in 0 .. made'
             /\ discovery'[n] \in {"none", "bound", "unbound"}
             /\ discovery'[n] = "bound" => bound'[n] # 0
  <2>1. CASE n \in found
    <3>1. Cardinality({m \in found : m <= n}) \in 1 .. Cardinality(found)
      BY <2>1, FoundNumber
    <3>2. bound'[n] = made + Cardinality({m \in found : m <= n}) /\ discovery'[n] = "bound"
      BY <1>1, <2>1
    <3> QED BY <1>1, <1>2, <1>3, <3>1, <3>2
  <2>2. CASE n \in Siblings \ found
    <3>1. bound'[n] = bound[n] /\ discovery'[n] = "unbound"
      BY <1>1, <2>2 DEF Kept
    <3> QED BY <1>3, <3>1, SubsystemsAssumption DEF Registry
  <2>3. CASE n \notin Siblings
    <3>1. bound'[n] = bound[n] /\ discovery'[n] = discovery[n]
      BY <1>1, <2>3
    <3> QED BY <1>3, <3>1, SubsystemsAssumption DEF Registry
  <2> QED BY <2>1, <2>2, <2>3
<1>5. bound' \in [Names -> 0 .. made'] /\ discovery' \in [Names -> {"none", "bound", "unbound"}]
  <2> DEFINE b == bound'
             d == discovery'
  <2>1. b = [n \in Names |-> b[n]] /\ d = [n \in Names |-> d[n]]
    BY <1>1
  <2>2. \A n \in Names : b[n] \in 0 .. made' /\ d[n] \in {"none", "bound", "unbound"}
    BY <1>4
  <2> HIDE DEF b, d
  <2>3. b \in [Names -> 0 .. made'] /\ d \in [Names -> {"none", "bound", "unbound"}]
    BY <2>1, <2>2
  <2> QED BY <2>3 DEF b, d
<1> QED BY <1>3, <1>4, <1>5 DEF Registry

-----------------------------------------------------------------------------
(* The invariant, part by part.                                             *)
Evidence ==
  /\ health \in [Ids -> Healths]
  /\ outcome \in [Ids -> {"none", "ticked", "raised"}]
  /\ \A i \in Ids : /\ health[i] = "HEALTHY" => outcome[i] = "ticked"
                    /\ health[i] = "CRITICAL" => outcome[i] = "raised"

Locals ==
  /\ at \in [Callers -> Phases]
  /\ todo \in [Callers -> SUBSET Names]
  /\ name \in [Callers -> Names \cup {0}]
  /\ binding \in [Callers -> 0 .. made]
  /\ recover \in [Callers -> BOOLEAN]
  /\ Positions

(* Whatever happens to the registry, what coroutines hold stays in range.   *)
LEMMA LocalsKept ==
  ASSUME Registry, Locals, made' \in Nat, made <= made', UNCHANGED callerVars
  PROVE  Locals'
<1>1. 0 .. made \subseteq 0 .. made'
  BY SubsystemsAssumption DEF Registry
<1> QED BY <1>1 DEF Locals, Positions, callerVars, Phases

(* The step of a coroutine alone: what it awaits is what was bound.         *)
LEMMA AwaitSound ==
  ASSUME Registry, Locals, NEW c \in Callers, NEW n \in Names, NEW phase \in {"ticking", "calling"},
         phase = "ticking" => c \in Monitors,
         Await(c, n, phase), todo' \in [Callers -> SUBSET Names]
  PROVE  Locals'
BY SubsystemsAssumption DEF Registry, Locals, Positions, Await, registry, Phases

LEMMA LeaveSound ==
  ASSUME Locals, NEW c \in Callers, NEW phase \in {"idle", "KeyError"}, Leave(c, phase),
         UNCHANGED made, 0 \in 0 .. made
  PROVE  Locals'
BY DEF Locals, Positions, Leave, Phases

LEMMA InvStep == IInv /\ [Next]_vars => IInv'
<1> SUFFICES ASSUME Registry, Evidence, Locals, [Next]_vars
             PROVE  Registry' /\ Evidence' /\ Locals'
  BY DEF IInv, Types, HealthIsEvidence, Registry, Evidence, Locals
<1>0. made \in Nat /\ 0 \in 0 .. made
  BY SubsystemsAssumption DEF Registry
<1>1. CASE Rediscover
  <2>1. Registry' /\ made <= made'
    BY <1>1, RediscoverSound
  <2>2. Evidence'
    BY <1>1 DEF Rediscover, Evidence, Healths
  <2>3. Locals'
    <3>1. made' \in Nat
      BY <2>1, SubsystemsAssumption DEF Registry
    <3> QED BY <1>1, <2>1, <3>1, LocalsKept DEF Rediscover
  <2> QED BY <2>1, <2>2, <2>3
<1>2. ASSUME NEW n \in Names, Register(n)
      PROVE  Registry' /\ Evidence' /\ Locals'
  <2>1. Registry' /\ made <= made'
    BY <1>2, BindSound DEF Register
  <2>2. Evidence'
    BY <1>2 DEF Register, measures, Evidence
  <2>3. Locals'
    <3>1. made' \in Nat
      BY <2>1, SubsystemsAssumption DEF Registry
    <3> QED BY <1>2, <2>1, <3>1, LocalsKept DEF Register
  <2> QED BY <2>1, <2>2, <2>3
<1>3. ASSUME NEW c \in Callers, NEW n \in Names, CallTick(c, n)
      PROVE  Registry' /\ Evidence' /\ Locals'
  <2>1. Registry' /\ Evidence'
    BY <1>3 DEF CallTick, Await, registry, measures, Registry, Evidence
  <2>2. Locals'
    <3>1. todo' \in [Callers -> SUBSET Names]
      BY <1>3 DEF CallTick, Locals
    <3> QED BY <1>3, <3>1, AwaitSound DEF CallTick
  <2> QED BY <2>1, <2>2
<1>4. ASSUME NEW c \in Callers, Resume(c)
      PROVE  Registry' /\ Evidence' /\ Locals'
  <2>1. Registry' /\ UNCHANGED made
    BY <1>4 DEF Resume, registry, Registry
  <2>2. binding[c] \in Ids
    BY <1>4, SubsystemsAssumption DEF Resume, Registry, Locals, Positions, Ids
  <2>3. Evidence'
    <3>1. PICK ok \in BOOLEAN :
            /\ \E h \in IF ok THEN {"HEALTHY", "DEGRADED"} ELSE {"CRITICAL"} :
                 health' = [health EXCEPT ![binding[c]] = h]
            /\ outcome' = [outcome EXCEPT ![binding[c]] = IF ok THEN "ticked" ELSE "raised"]
      BY <1>4 DEF Resume, Ticked
    <3> QED BY <2>2, <3>1 DEF Evidence, Healths
  <2>4. Locals'
    <3>1. CASE /\ at[c] = "ticking" /\ at' = [at EXCEPT ![c] = "reporting"]
               /\ binding' = [binding EXCEPT ![c] = 0]
               /\ UNCHANGED <<todo, name, recover>>
      BY <1>0, <2>1, <3>1 DEF Locals, Positions, Phases
    <3>2. CASE Leave(c, "idle")
      BY <1>0, <2>1, <3>2, LeaveSound
    <3> QED BY <1>4, <3>1, <3>2 DEF Resume
  <2> QED BY <2>1, <2>3, <2>4
<1>5. ASSUME NEW c \in Callers, Cancel(c)
      PROVE  Registry' /\ Evidence' /\ Locals'
  <2>1. Registry' /\ Evidence' /\ UNCHANGED made
    BY <1>5 DEF Cancel, registry, measures, Registry, Evidence
  <2> QED BY <1>0, <1>5, <2>1, LeaveSound DEF Cancel
<1>6. ASSUME NEW c \in Callers, StartMonitor(c)
      PROVE  Registry' /\ Evidence' /\ Locals'
  <2>1. Registry' /\ Evidence' /\ UNCHANGED made
    BY <1>6 DEF StartMonitor, registry, measures, Registry, Evidence
  <2>2. Known \in SUBSET Names
    BY DEF Known
  <2>3. Locals'
    BY <1>6, <2>1, <2>2 DEF StartMonitor, Locals, Positions, Phases
  <2> QED BY <2>1, <2>3
<1>7. ASSUME NEW c \in Callers, Visit(c)
      PROVE  Registry' /\ Evidence' /\ Locals'
  <2>1. Registry' /\ Evidence' /\ UNCHANGED made
    BY <1>7 DEF Visit, Await, registry, measures, Registry, Evidence
  <2> DEFINE n == Min(todo[c])
  <2>2. n \in Names
    <3>1. todo[c] \in SUBSET Nat /\ todo[c] # {} /\ todo[c] \subseteq Names
      BY <1>7, SubsystemsAssumption DEF Visit, Locals
    <3> QED BY <3>1, MinIsMember
  <2>3. todo' = [todo EXCEPT ![c] = @ \ {n}]
    BY <1>7 DEF Visit
  <2>4. todo' \in [Callers -> SUBSET Names]
    BY <2>3 DEF Locals
  <2>5. c \in Monitors
    BY <1>7 DEF Visit, Locals, Positions
  <2>6. Await(c, n, "ticking") \/ UNCHANGED <<at, name, binding, recover>>
    BY <1>7 DEF Visit
  <2> HIDE DEF n
  <2>7. CASE Await(c, n, "ticking")
    BY <2>1, <2>2, <2>4, <2>5, <2>7, AwaitSound
  <2>8. CASE UNCHANGED <<at, name, binding, recover>>
    BY <2>1, <2>4, <2>8 DEF Locals, Positions
  <2> QED BY <2>1, <2>6, <2>7, <2>8
<1>8. ASSUME NEW c \in Callers, Report(c)
      PROVE  Registry' /\ Evidence' /\ Locals'
  <2>1. name[c] \in Names /\ c \in Monitors
    BY <1>8 DEF Report, Locals, Positions
  <2>2. Recover(name[c]) \/ UNCHANGED registry
    BY <1>8 DEF Report
  <2>3. Registry' /\ made <= made'
    <3>1. CASE Recover(name[c])
      BY <2>1, <3>1, RecoverSound
    <3>2. CASE UNCHANGED registry
      BY <1>0, <3>2 DEF registry, Registry
    <3> QED BY <2>2, <3>1, <3>2
  <2>4. Evidence'
    BY <1>8 DEF Report, measures, Evidence
  <2>5. Locals'
    <3>1. 0 .. made \subseteq 0 .. made'
      BY <1>0, <2>3, SubsystemsAssumption DEF Registry
    <3> QED BY <1>8, <2>1, <3>1 DEF Report, Locals, Positions, Phases
  <2> QED BY <2>3, <2>4, <2>5
<1>9. ASSUME NEW c \in Callers, EndMonitor(c) \/ Crash(c)
      PROVE  Registry' /\ Evidence' /\ Locals'
  <2>1. Registry' /\ Evidence' /\ UNCHANGED made
    BY <1>9 DEF EndMonitor, Crash, registry, measures, Registry, Evidence
  <2>2. Leave(c, "idle") \/ Leave(c, "KeyError")
    BY <1>9 DEF EndMonitor, Crash
  <2> QED BY <1>0, <2>1, <2>2, LeaveSound
<1>10. CASE UNCHANGED vars
  BY <1>10 DEF vars, registry, measures, callerVars, Registry, Evidence, Locals, Positions
<1> QED BY <1>1, <1>2, <1>3, <1>4, <1>5, <1>6, <1>7, <1>8, <1>9, <1>10 DEF Next, Monitoring

LEMMA Invariant == Spec => []IInv
BY InvInit, InvStep, PTL DEF Spec

-----------------------------------------------------------------------------
(* Health is evidence: whatever coroutines tick, register, discover and     *)
(* recover, a HEALTHY or CRITICAL binding is one whose own last tick ended  *)
(* so (tick_subsystem), and no name is "bound" without a binding.           *)
THEOREM HealthIsTrue == Spec => []HealthIsEvidence
<1>1. IInv => HealthIsEvidence
  BY DEF IInv
<1> QED BY <1>1, Invariant, PTL

(* monitor_health recovers, and so replaces or drops, only a binding whose  *)
(* own last tick raised.                                                    *)
THEOREM WorkingKept == Spec => WorkingBindingKept
<1>1. IInv /\ [Next]_vars =>
        [\A n \in Names : (onLoop # NoCaller /\ bound[n] # 0 /\ bound'[n] # bound[n])
                            => outcome[bound[n]] = "raised"]_vars
  <2> SUFFICES ASSUME IInv, Next, NEW n \in Names,
                      onLoop # NoCaller, bound[n] # 0, bound'[n] # bound[n]
               PROVE  outcome[bound[n]] = "raised"
    OBVIOUS
  <2>1. PICK c \in Callers : Report(c)
    <3>1. ~ UNCHANGED bound
      OBVIOUS
    <3> QED BY <3>1 DEF Next, Rediscover, Register, CallTick, Resume, Cancel, StartMonitor,
              Monitoring, Visit, EndMonitor, Crash, Await, registry
  <2>2. name[c] \in Names
    BY <2>1 DEF IInv, Positions, Report
  <2>3. Recover(name[c]) /\ health[bound[name[c]]] = "CRITICAL"
    BY <2>1 DEF Report, registry
  <2>4. n = name[c]
    BY <2>2, <2>3 DEF Recover, Bind, IInv, Types
  <2>5. bound[n] \in Ids
    BY SubsystemsAssumption DEF IInv, Types, Ids
  <2> QED BY <2>3, <2>4, <2>5 DEF IInv, HealthIsEvidence
<1> QED BY <1>1, Invariant, PTL DEF Spec, WorkingBindingKept

(* A name that is being ticked loses its binding only by another monitor    *)
(* that recovers: one monitor alone never meets the KeyError                *)
(* (monitor_health, recover_subsystem).                                     *)
THEOREM OnlyRecovery == Spec => OnlyRecoveryTakesNames
<1>1. IInv /\ [Next]_vars =>
        [\A c \in Callers : (at[c] = "ticking" /\ bound[name[c]] # 0 /\ bound'[name[c]] = 0)
           => \E d \in Monitors \ {c} : onLoop = d /\ at[d] = "reporting" /\ recover[d]]_vars
  <2> SUFFICES ASSUME IInv, Next, NEW c \in Callers,
                      at[c] = "ticking", bound[name[c]] # 0, bound'[name[c]] = 0
               PROVE  \E d \in Monitors \ {c} : onLoop = d /\ at[d] = "reporting" /\ recover[d]
    OBVIOUS
  <2>0. name[c] \in Names
    BY DEF IInv, Positions
  <2> PICK n \in Names : n = name[c]
    BY <2>0
  <2>1. made \in Nat /\ bound \in [Names -> 0 .. made]
    BY SubsystemsAssumption DEF IInv, Types
  <2>2. bound[n] # 0 /\ bound'[n] = 0
    OBVIOUS
  <2>3. ~ Rediscover
    <3> SUFFICES ASSUME Rediscover PROVE FALSE
      OBVIOUS
    <3>1. PICK found \in SUBSET Siblings :
            bound' = [m \in Names |->
              CASE m \in found -> made + Cardinality({k \in found : k <= m})
                [] m \in Siblings \ found -> Kept(m)
                [] OTHER -> bound[m]]
      BY DEF Rediscover
    <3>2. CASE n \in found
      <4>0. /\ Cardinality(found) \in Nat
            /\ Cardinality({k \in found : k <= n}) \in 1 .. Cardinality(found)
        BY <3>2, FoundNumber
      <4>1. Cardinality({k \in found : k <= n}) \in Nat \ {0}
        BY <4>0
      <4>2. bound'[n] = made + Cardinality({k \in found : k <= n})
        BY <2>1, <3>1, <3>2
      <4>3. made + Cardinality({k \in found : k <= n}) # 0
        BY <2>1, <4>1
      <4> QED BY <2>2, <4>2, <4>3
    <3>3. CASE n \notin found
      BY <2>1, <2>2, <3>1, <3>3 DEF Kept
    <3> QED BY <3>2, <3>3
  <2>4. ~ \E m \in Names : Register(m)
    BY <2>1, <2>2 DEF Register, Bind
  <2>5. PICK d \in Callers : Report(d)
    BY <2>2, <2>3, <2>4 DEF Next, CallTick, Resume, Cancel, StartMonitor,
       Monitoring, Visit, EndMonitor, Crash, Await, registry
  <2>6. recover[d]
    BY <2>2, <2>5 DEF Report, registry
  <2>7. onLoop = d /\ at[d] = "reporting" /\ d \in Monitors
    BY <2>5 DEF Report, IInv, Positions
  <2> QED BY <2>6, <2>7
<1> QED BY <1>1, Invariant, PTL DEF Spec, OnlyRecoveryTakesNames

-----------------------------------------------------------------------------
(* Who is where: a coroutine between two awaits is the one that has the     *)
(* loop, and only one that awaits a tick holds a binding.                   *)
Holds ==
  /\ executed \in [Callers -> BOOLEAN]
  /\ onLoop \in Callers \cup {NoCaller}
  /\ \A c \in Callers : /\ at[c] \in {"scanning", "reporting"} <=> onLoop = c
                        /\ at[c] \notin {"ticking", "calling"} => binding[c] = 0

LEMMA HoldsInit == Init => Holds
BY SubsystemsAssumption DEF Init, Holds

LEMMA HoldsStep == IInv /\ Holds /\ [Next]_vars => Holds'
<1> SUFFICES ASSUME Locals, Holds, [Next]_vars PROVE Holds'
  BY DEF IInv, Types, Locals
<1> USE DEF Locals, Phases
<1>0. NoCaller \notin Callers
  BY SubsystemsAssumption
<1>1. ASSUME UNCHANGED <<callerVars, onLoop>> PROVE Holds'
  BY <1>1 DEF Holds, callerVars
<1>2. CASE Rediscover \/ \E n \in Names : Register(n)
  BY <1>1, <1>2 DEF Rediscover, Register
<1>3. ASSUME NEW c \in Callers, NEW n \in Names, NEW p \in {"ticking", "calling"}, Await(c, n, p),
             onLoop \in {NoCaller, c}
      PROVE  Holds'
  BY <1>0, <1>3 DEF Holds, Await
<1>4. ASSUME NEW c \in Callers, NEW p \in {"idle", "KeyError"}, Leave(c, p),
             onLoop \in {NoCaller, c}, onLoop' = NoCaller
      PROVE  Holds'
  BY <1>0, <1>4 DEF Holds, Leave
<1>5. ASSUME NEW c \in Callers, NEW n \in Names, CallTick(c, n) PROVE Holds'
  BY <1>3, <1>5 DEF CallTick
<1>6. ASSUME NEW c \in Callers, Resume(c) PROVE Holds'
  <2>1. CASE Leave(c, "idle") /\ UNCHANGED onLoop
    BY <1>4, <1>6, <2>1 DEF Resume
  <2>2. CASE /\ at[c] = "ticking"
             /\ at' = [at EXCEPT ![c] = "reporting"]
             /\ \E ok \in BOOLEAN : executed' = [executed EXCEPT ![c] = ok]
             /\ binding' = [binding EXCEPT ![c] = 0]
             /\ onLoop' = c
    <3>1. onLoop = NoCaller
      BY <1>6 DEF Resume
    <3> QED BY <1>0, <2>2, <3>1 DEF Holds
  <2> QED BY <1>6, <2>1, <2>2 DEF Resume
<1>7. ASSUME NEW c \in Callers, Cancel(c) PROVE Holds'
  BY <1>4, <1>7 DEF Cancel
<1>8. ASSUME NEW c \in Callers, StartMonitor(c) PROVE Holds'
  BY <1>0, <1>8 DEF StartMonitor, Holds
<1>9. ASSUME NEW c \in Callers, Visit(c) PROVE Holds'
  <2> PICK n : n = Min(todo[c])
    OBVIOUS
  <2>1. Await(c, n, "ticking") \/ UNCHANGED <<at, binding, executed, onLoop>>
    BY <1>9 DEF Visit
  <2>2. CASE Await(c, n, "ticking")
    BY <1>0, <1>9, <2>2 DEF Visit, Holds, Await
  <2>3. CASE UNCHANGED <<at, binding, executed, onLoop>>
    BY <2>3 DEF Holds
  <2> QED BY <2>1, <2>2, <2>3
<1>10. ASSUME NEW c \in Callers, Report(c) PROVE Holds'
  BY <1>0, <1>10 DEF Report, Holds
<1>11. ASSUME NEW c \in Callers, EndMonitor(c) \/ Crash(c) PROVE Holds'
  BY <1>4, <1>11 DEF EndMonitor, Crash
<1>12. CASE UNCHANGED vars
  BY <1>1, <1>12 DEF vars
<1> QED BY <1>2, <1>5, <1>6, <1>7, <1>8, <1>9, <1>10, <1>11, <1>12 DEF Next, Monitoring

LEMMA TypesHold == IInv /\ Holds => TypeOK
<1> SUFFICES ASSUME IInv, Holds PROVE TypeOK
  OBVIOUS
<1>1. made \in Nat
  BY SubsystemsAssumption DEF IInv, Types
<1>2. ASSUME NEW c \in Callers
      PROVE  at[c] \in {"ticking", "calling"} <=> binding[c] \in 1 .. made
  BY <1>1 DEF IInv, Types, Positions, Holds
<1> QED BY <1>2 DEF IInv, Types, Positions, Holds, TypeOK, Healths, Phases

(* The fields of the bindings have values the code gives them, one          *)
(* coroutine at most runs between two awaits, and who awaits a tick knows a *)
(* binding that was made (tick_subsystem, monitor_health).                  *)
THEOREM SubsystemsTypeCorrect == Spec => []TypeOK
<1>1. Init => IInv /\ Holds
  BY InvInit, HoldsInit
<1>2. IInv /\ Holds /\ [Next]_vars => (IInv /\ Holds)'
  BY InvStep, HoldsStep
<1> QED BY <1>1, <1>2, TypesHold, PTL DEF Spec
=============================================================================
