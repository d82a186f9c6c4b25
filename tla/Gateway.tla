-------------------------------- MODULE Gateway --------------------------------
(***************************************************************************)
(* The API gateway (api/gateway.py) and the MCP bridge in front of it      *)
(* (connectors/mcp_bridge.py): the key, the token bucket, and who passes   *)
(* them. Time is counted in the unit in which Rate tokens flow back; a     *)
(* call takes no time.                                                     *)
(*                                                                         *)
(* A manual tick through handle_async, and the memory tool, pass neither   *)
(* the key nor the bucket. The body of an answer is left out.              *)
(***************************************************************************)
EXTENDS Naturals

CONSTANTS
  Capacity,    \* capacity of the bucket
  Rate,        \* tokens per unit of time
  Subsystems,  \* the eight the readiness probe asks for
  Answering,   \* thermal, energy, security and nanosphere: an endpoint each
  MaxTime,     \* bound: units of time in a behaviour
  MaxTicks     \* bound: ticks through the gateway

VARIABLES
  secured,    \* an API key is set
  loaded,     \* subsystems the orchestrator has
  now,        \* time.monotonic
  tokens,     \* TokenBucket._tokens
  refilled,   \* TokenBucket._last_refill
  requests,   \* ColossusAPI._request_count
  ticks,      \* the orchestrator's tick
  reply,      \* endpoint and kind of the last answer
  admitted    \* history: requests the bucket has let pass, up to each time

bucket == <<tokens, refilled>>
vars == <<secured, loaded, now, bucket, requests, ticks, reply, admitted>>

Times == 0 .. MaxTime
Always == {"status", "health", "zones", "events", "metrics"}
Endpoints == Answering \cup Always \cup {"ready", "live", "tick", "unknown"}

Init ==
  /\ secured \in BOOLEAN
  /\ loaded \in {Subsystems, Answering, {}}
  /\ now = 0 /\ tokens = Capacity /\ refilled = 0
  /\ requests = 0 /\ ticks = 0
  /\ reply = [of |-> "none", kind |-> "none"]
  /\ admitted = [t \in Times |-> 0]

-----------------------------------------------------------------------------
Least(a, b) == IF a < b THEN a ELSE b

\* Fault: the time of the refill is not kept, so it is credited again.
KeepTokens(left) == tokens' = left /\ UNCHANGED refilled

\* The bucket after a call that leaves it so many tokens.
Keep(left) == tokens' = left /\ refilled' = now

Refilled == Least(Capacity, tokens + (now - refilled) * Rate)

\* TokenBucket.consume.
Consume == Refilled >= 1 /\ Keep(Refilled - 1)
Refuse == Refilled < 1 /\ Keep(Refilled)

\* The endpoint handlers: the kind of answer each gives. The tick handler only
\* points to handle_async.
Answer(endpoint) ==
  CASE endpoint \in Answering -> IF endpoint \in loaded THEN "data" ELSE "OFFLINE"
    [] endpoint = "ready" -> IF Subsystems \subseteq loaded THEN "ready" ELSE "notReady"
    [] endpoint = "live" -> IF ticks >= 1 THEN "live" ELSE "notLive"
    [] endpoint \in Always -> "data"
    [] OTHER -> "error"

Replies(endpoint, kind) == reply' = [of |-> endpoint, kind |-> kind]

\* handle: the key, then the bucket, then the endpoint.
Handle(endpoint, keyed) ==
  \/ /\ secured /\ ~ keyed
     /\ Replies(endpoint, "401")
     /\ UNCHANGED <<bucket, requests, admitted>>
  \/ /\ secured => keyed
     /\ Refuse
     /\ Replies(endpoint, "429")
     /\ UNCHANGED <<requests, admitted>>
  \/ /\ secured => keyed
     /\ Consume
     /\ requests' = requests + 1
     /\ admitted' = [admitted EXCEPT ![now] = @ + 1]
     /\ Replies(endpoint, Answer(endpoint))

Request ==
  /\ \E endpoint \in Endpoints, keyed \in BOOLEAN : Handle(endpoint, keyed)
  /\ UNCHANGED <<secured, loaded, now, ticks>>

\* handle_async("tick"); any other endpoint goes to handle.
Tick ==
  /\ ticks < MaxTicks
  /\ ticks' = ticks + 1
  /\ Replies("tick", "data")

TickRequest == Tick /\ UNCHANGED <<secured, loaded, now, bucket, requests, admitted>>

(* call_tool: a tool is a request without a key, except the tick, which    *)
(* needs a thread where no event loop runs (else run_until_complete raises *)
(* to the caller, and the check before it asks the new loop, which never   *)
(* runs), and the memory's statistics.                                     *)
CallTool ==
  \/ /\ \E endpoint \in Endpoints \ {"ready", "live", "metrics", "tick", "unknown"} :
          Handle(endpoint, FALSE)
     /\ UNCHANGED <<secured, loaded, now, ticks>>
  \/ /\ \/ Tick
        \/ Replies("tick", "raises") /\ UNCHANGED ticks
     /\ UNCHANGED <<secured, loaded, now, bucket, requests, admitted>>
  \/ /\ Replies("memory", IF "memory" \in loaded THEN "data" ELSE "error")
     /\ UNCHANGED <<secured, loaded, now, bucket, requests, ticks, admitted>>

TimePasses ==
  /\ now < MaxTime
  /\ now' = now + 1
  /\ admitted' = [admitted EXCEPT ![now'] = admitted[now]]
  /\ UNCHANGED <<secured, loaded, bucket, requests, ticks, reply>>

Next == Request \/ TickRequest \/ CallTool \/ TimePasses

Spec == Init /\ [][Next]_vars

-----------------------------------------------------------------------------
(* Properties.                                                             *)

TypeOK ==
  /\ secured \in BOOLEAN /\ loaded \subseteq Subsystems
  /\ now \in Times /\ refilled \in 0 .. now
  /\ tokens \in 0 .. Capacity
  /\ requests \in Nat /\ ticks \in 0 .. MaxTicks
  /\ reply.of \in Endpoints \cup {"memory", "none"}

\* Requests that passed from time s on.
PassedSince(s) == admitted[now] - (IF s = 0 THEN 0 ELSE admitted[s - 1])

(* Capacity plus refill: in every window of time no more requests pass than *)
(* the full bucket holds and what flows back meanwhile (TokenBucket), however *)
(* refused calls and pauses are spread, and whichever client they come from; *)
(* the requests that passed are those that are counted. (So a second may see *)
(* Capacity + Rate requests, twice the "max 100 req/s" of the docstring.)   *)
RateIsBounded ==
  /\ \A s \in 0 .. now : PassedSince(s) <= Capacity + Rate * (now - s)
  /\ requests = PassedSince(0)
=============================================================================
