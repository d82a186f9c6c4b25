------------------------------ MODULE Subsystems ------------------------------
(***************************************************************************)
(* Subsystem bindings of MastermindOrchestrator                            *)
(* (core/mastermind_orchestrator.py): registration, discovery, ticks,      *)
(* health and recovery, with several coroutines that call monitor_health   *)
(* or tick_subsystem on one event loop.                                    *)
(*                                                                         *)
(* A SubsystemBinding is an object: tick_subsystem keeps the one it looked *)
(* up while it awaits the tick handler, and self.subsystems may hold       *)
(* another one, or none, when it comes back. Bindings are numbered in the  *)
(* order they are made; 0 is "no binding".                                 *)
(***************************************************************************)
EXTENDS Naturals, FiniteSets, FiniteSetsExt

CONSTANTS
  Names,         \* subsystem names, as numbers in their sorted order
  Domains,       \* names the router knows: monitored without any binding
  Siblings,      \* names _discover_one can bind: cooling, energy, security
  Callers,       \* coroutines
  Monitors,      \* those of them that call monitor_health
  NoCaller,
  MaxBindings    \* bound: bindings made in a behaviour

ASSUME SubsystemsAssumption ==
  /\ Names \subseteq Nat /\ IsFiniteSet(Names)
  /\ Domains \subseteq Names /\ Siblings \subseteq Names
  /\ Monitors \subseteq Callers /\ NoCaller \notin Callers
  /\ MaxBindings \in Nat

VARIABLES
  bound,       \* self.subsystems: name -> binding, 0 when absent
  discovery,   \* self.discovery[name]["state"], "none" when absent
  made,        \* bindings made so far
  health,      \* SubsystemBinding.health
  at,          \* where each coroutine is
  todo,        \* names its monitor_health has yet to visit
  name,        \* the name it is at
  binding,     \* the binding its tick_subsystem looked up
  executed,    \* result["executed"] of its last tick
  recover,     \* the argument of its monitor_health
  onLoop,      \* the coroutine that has the event loop
  outcome      \* history: how the last tick of a binding ended

registry == <<bound, discovery, made>>
measures == <<health, outcome>>
callerVars == <<at, todo, name, binding, executed, recover>>
vars == <<registry, measures, callerVars, onLoop>>

Ids == 1 .. MaxBindings

Init ==
  /\ bound = [n \in Names |-> 0]
  /\ discovery = [n \in Names |-> "none"]
  /\ made = 0
  /\ health = [i \in Ids |-> "DEGRADED"]
  /\ at = [c \in Callers |-> "idle"]
  /\ todo = [c \in Callers |-> {}]
  /\ name = [c \in Callers |-> 0]
  /\ binding = [c \in Callers |-> 0]
  /\ executed = [c \in Callers |-> FALSE]
  /\ onLoop = NoCaller
  /\ outcome = [i \in Ids |-> "none"]
  /\ recover = [c \in Callers |-> FALSE]

-----------------------------------------------------------------------------
(* Binding and discovery.                                                  *)

\* register_subsystem: a new binding, DEGRADED until it ticks.
Bind(n) ==
  /\ made < MaxBindings
  /\ made' = made + 1
  /\ bound' = [bound EXCEPT ![n] = made + 1]
  /\ discovery' = [discovery EXCEPT ![n] = "bound"]

Register(n) ==
  /\ onLoop = NoCaller
  /\ Bind(n)
  /\ UNCHANGED <<measures, callerVars, onLoop>>

\* Fault: a name that is not discovered loses its binding.
NotKept(n) == 0

\* What a name stays bound to when its discovery fails.
Kept(n) == bound[n]

(* discover_sibling_subsystems: the siblings found are bound afresh, one    *)
(* after the other; of the rest, a binding that exists goes OFFLINE.        *)
Rediscover ==
  /\ onLoop = NoCaller
  /\ \E found \in SUBSET Siblings :
       LET missed == Siblings \ found IN
       /\ made + Cardinality(found) <= MaxBindings
       /\ made' = made + Cardinality(found)
       /\ bound' = [n \in Names |->
            CASE n \in found -> made + Cardinality({m \in found : m <= n})
              [] n \in missed -> Kept(n)
              [] OTHER -> bound[n]]
       /\ discovery' = [n \in Names |->
            CASE n \in found -> "bound"
              [] n \in missed -> "unbound"
              [] OTHER -> discovery[n]]
       /\ health' = [i \in Ids |->
            IF \E n \in missed : bound[n] = i THEN "OFFLINE" ELSE health[i]]
  /\ UNCHANGED <<outcome, callerVars, onLoop>>

\* Fault: the binding is dropped without a new discovery.
DropOnly(n) ==
  /\ bound' = [bound EXCEPT ![n] = 0]
  /\ UNCHANGED <<discovery, made>>

(* recover_subsystem: the binding is dropped, and the name bound afresh if  *)
(* its sibling can be discovered. A name that was only ever registered is   *)
(* unknown to _discover_one and stays unbound.                              *)
Recover(n) ==
  /\ \/ n \in Siblings /\ Bind(n)
     \/ /\ bound' = [bound EXCEPT ![n] = 0]
        /\ discovery' = [discovery EXCEPT ![n] = "unbound"]
        /\ UNCHANGED made

-----------------------------------------------------------------------------
(* tick_subsystem.                                                         *)

\* The locals of a coroutine when it ends, at phase p.
Leave(c, p) ==
  /\ at' = [at EXCEPT ![c] = p]
  /\ todo' = [todo EXCEPT ![c] = {}]
  /\ name' = [name EXCEPT ![c] = 0]
  /\ binding' = [binding EXCEPT ![c] = 0]
  /\ executed' = [executed EXCEPT ![c] = FALSE]
  /\ recover' = [recover EXCEPT ![c] = FALSE]

\* Fault: an absent name is ticked too.
AwaitAbsent(c, n, phase) ==
  /\ at' = [at EXCEPT ![c] = phase]
  /\ name' = [name EXCEPT ![c] = n]
  /\ binding' = [binding EXCEPT ![c] = bound[n]]
  /\ onLoop' = NoCaller
  /\ UNCHANGED <<registry, measures, executed, recover>>

\* Up to the await of the tick handler.
Await(c, n, phase) ==
  /\ bound[n] # 0
  /\ at' = [at EXCEPT ![c] = phase]
  /\ name' = [name EXCEPT ![c] = n]
  /\ binding' = [binding EXCEPT ![c] = bound[n]]
  /\ onLoop' = NoCaller
  /\ UNCHANGED <<registry, measures, executed, recover>>

\* A piston's run_task calls it: no monitor_health around it.
CallTick(c, n) ==
  /\ onLoop = NoCaller /\ at[c] = "idle"
  /\ Await(c, n, "calling")
  /\ UNCHANGED todo

\* Fault: the outcome goes to whatever is bound now.
TickedNow(c) == bound[name[c]]

Ticked(c) == binding[c]

\* The rest of it: the outcome goes to the binding it looked up.
Resume(c) ==
  LET b == Ticked(c) IN
  /\ onLoop = NoCaller /\ at[c] \in {"ticking", "calling"}
  /\ \E ok \in BOOLEAN :
       /\ \E h \in IF ok THEN {"HEALTHY", "DEGRADED"} ELSE {"CRITICAL"} :
            health' = [health EXCEPT ![b] = h]
       /\ outcome' = [outcome EXCEPT ![binding[c]] = IF ok THEN "ticked" ELSE "raised"]
       /\ \/ /\ at[c] = "ticking"
             /\ at' = [at EXCEPT ![c] = "reporting"]
             /\ executed' = [executed EXCEPT ![c] = ok]
             /\ binding' = [binding EXCEPT ![c] = 0]
             /\ onLoop' = c
             /\ UNCHANGED <<todo, name, recover>>
          \/ at[c] = "calling" /\ Leave(c, "idle") /\ UNCHANGED onLoop
  /\ UNCHANGED registry

\* CancelledError at the await is no Exception: nothing is recorded.
Cancel(c) ==
  /\ onLoop = NoCaller /\ at[c] \in {"ticking", "calling"}
  /\ Leave(c, "idle")
  /\ UNCHANGED <<registry, measures, onLoop>>

-----------------------------------------------------------------------------
(* monitor_health.                                                         *)

Known == {n \in Names : n \in Domains \/ discovery[n] # "none" \/ bound[n] # 0}

StartMonitor(c) ==
  /\ onLoop = NoCaller /\ at[c] = "idle" /\ c \in Monitors
  /\ at' = [at EXCEPT ![c] = "scanning"]
  /\ todo' = [todo EXCEPT ![c] = Known]
  /\ \E r \in BOOLEAN : recover' = [recover EXCEPT ![c] = r]
  /\ onLoop' = c
  /\ UNCHANGED <<registry, measures, name, binding, executed>>

\* The next name in sorted order: ticked if it is bound now, else skipped.
Visit(c) ==
  /\ onLoop = c /\ at[c] = "scanning" /\ todo[c] # {}
  /\ LET n == Min(todo[c]) IN
       /\ todo' = [todo EXCEPT ![c] = @ \ {n}]
       /\ \/ Await(c, n, "ticking")
          \/ /\ bound[n] = 0
             /\ UNCHANGED <<registry, measures, at, name, binding, executed,
                            recover, onLoop>>

\* self.subsystems[name] is read again; a CRITICAL binding is recovered.
Report(c) ==
  LET n == name[c]  b == bound[n] IN
  /\ onLoop = c /\ at[c] = "reporting" /\ b # 0
  /\ IF recover[c] /\ health[b] = "CRITICAL" THEN Recover(n) ELSE UNCHANGED registry
  /\ at' = [at EXCEPT ![c] = "scanning"]
  /\ name' = [name EXCEPT ![c] = 0]
  /\ executed' = [executed EXCEPT ![c] = FALSE]
  /\ UNCHANGED <<measures, todo, binding, recover, onLoop>>

\* The name is gone: KeyError ends monitor_health and the tick around it.
Crash(c) ==
  /\ onLoop = c /\ at[c] = "reporting" /\ bound[name[c]] = 0
  /\ Leave(c, "KeyError")
  /\ onLoop' = NoCaller
  /\ UNCHANGED <<registry, measures>>

EndMonitor(c) ==
  /\ onLoop = c /\ at[c] = "scanning" /\ todo[c] = {}
  /\ Leave(c, "idle")
  /\ onLoop' = NoCaller
  /\ UNCHANGED <<registry, measures>>

-----------------------------------------------------------------------------
Monitoring(c) == Visit(c) \/ Report(c) \/ EndMonitor(c)

Next == \/ Rediscover \/ \E n \in Names : Register(n)
        \/ \E c \in Callers : \/ \E n \in Names : CallTick(c, n)
                              \/ Resume(c) \/ Cancel(c)
                              \/ StartMonitor(c) \/ Monitoring(c) \/ Crash(c)

Spec == Init /\ [][Next]_vars

-----------------------------------------------------------------------------
(* Properties.                                                             *)

(* Every field holds a value the code can give it; a coroutine that holds  *)
(* the loop is inside monitor_health, and one that awaits a tick knows a   *)
(* binding that was made (tick_subsystem, monitor_health).                 *)
TypeOK ==
  /\ made \in 0 .. MaxBindings
  /\ bound \in [Names -> 0 .. made]
  /\ discovery \in [Names -> {"none", "bound", "unbound"}]
  /\ health \in [Ids -> {"HEALTHY", "DEGRADED", "CRITICAL", "OFFLINE"}]
  /\ outcome \in [Ids -> {"none", "ticked", "raised"}]
  /\ at \in [Callers -> {"idle", "scanning", "ticking", "calling", "reporting",
                        "KeyError"}]
  /\ todo \in [Callers -> SUBSET Names]
  /\ executed \in [Callers -> BOOLEAN] /\ recover \in [Callers -> BOOLEAN]
  /\ onLoop \in Callers \cup {NoCaller}
  /\ \A c \in Callers :
       /\ at[c] \in {"scanning", "reporting"} <=> onLoop = c
       /\ at[c] \in {"ticking", "calling"} <=> binding[c] \in 1 .. made
       /\ at[c] \in {"ticking", "calling", "reporting"} => name[c] \in Names

(* Health is evidence: however ticks, discoveries and recoveries of several *)
(* coroutines interleave, a binding is HEALTHY only if its own last tick    *)
(* succeeded, CRITICAL only if its own last tick raised; and the discovery  *)
(* table never says "bound" of a name without a binding, also after a       *)
(* recovery that found nothing (recover_subsystem).                         *)
HealthIsEvidence ==
  /\ \A i \in Ids : /\ health[i] = "HEALTHY" => outcome[i] = "ticked"
                    /\ health[i] = "CRITICAL" => outcome[i] = "raised"
  /\ \A n \in Names : discovery[n] = "bound" => bound[n] # 0

(* monitor_health takes a binding away only if the last tick of that very   *)
(* binding raised, even when the binding was replaced while it awaited      *)
(* another one's tick.                                                      *)
WorkingBindingKept ==
  [][\A n \in Names :
       (onLoop # NoCaller /\ bound[n] # 0 /\ bound'[n] # bound[n])
         => outcome[bound[n]] = "raised"]_vars

(* The name a coroutine ticks can vanish during its await only by another   *)
(* coroutine's recovery: with a single monitor, self.subsystems[name] after *)
(* the tick raises no KeyError, whatever registers or rediscovers meanwhile.*)
OnlyRecoveryTakesNames ==
  [][\A c \in Callers :
       (at[c] = "ticking" /\ bound[name[c]] # 0 /\ bound'[name[c]] = 0)
         => \E d \in Monitors \ {c} : onLoop = d /\ at[d] = "reporting" /\ recover[d]]_vars
=============================================================================
