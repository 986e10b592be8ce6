------------------------------ MODULE ModelRoute ------------------------------
(***************************************************************************)
(* The model every service asks (adapters/frontend_llm.py, deepseek.py,    *)
(* llm.py): one switchable adapter, whose delegate a client may change     *)
(* while requests of the learning tasks are out, and the retries and the   *)
(* fallback of the delegates.                                              *)
(***************************************************************************)
EXTENDS Integers, Sequences, FiniteSets

CONSTANTS
    Requesters,
    Foreground,       \* the one that holds _send_lock while it asks
    Models,
    MaxRoutes,        \* bound on the adapters that are made
    JsonRetries,      \* json_retry_count
    ResourceRetries   \* retry_count

ASSUME RouteAssumption ==
    /\ Foreground \in Requesters
    /\ MaxRoutes \in Nat \ {0}
    /\ JsonRetries \in Nat /\ ResourceRetries \in Nat

VARIABLES
    adapters,   \* those made so far, in order
    router,     \* the delegate, by its number, and the model
    request,    \* request[c]: the last request of c
    learnt      \* the adapters through which a chat fallback has answered

routeVars == <<adapters, router, request, learnt>>

\* The frontend gives its route; without one there is DeepSeek, or nothing.
FrontendProtocols == {"responses", "lite"}
Protocols == {"none", "deepseek"} \cup FrontendProtocols

Adapter(protocol, model) == [protocol |-> protocol, model |-> model, fallback |-> FALSE]

NoRequest == [phase |-> "idle"]

RouteInit ==
    /\ \E protocol \in {"none", "deepseek"}, m \in Models :
          /\ adapters = <<Adapter(protocol, m)>>
          /\ router = [delegate |-> 1, model |-> m]
    /\ request = [c \in Requesters |-> NoRequest]
    /\ learnt = {}

Out(c) == request[c].phase = "out"

\* configure_llm, or a turn that brings its route; under _send_lock.
Configure(protocol, m) ==
    /\ ~Out(Foreground) /\ Len(adapters) < MaxRoutes
    /\ adapters' = Append(adapters, Adapter(protocol, m))
    /\ router' = [delegate |-> Len(adapters) + 1, model |-> m]
    /\ UNCHANGED <<request, learnt>>

-----------------------------------------------------------------------------
\* The adapter of a request, and what the request has become.
AdapterOf(c) == adapters[request[c].adapter]
Becomes(c, r) == request' = [request EXCEPT ![c] = r]

Answered(c, answer) == Becomes(c, [request[c] EXCEPT !.phase = "answered", !.got = answer])
Failed(c) == Becomes(c, [phase |-> "failed"])

\* The delegate and the model are read together when the request is made.
RouteRequest(json) ==
    LET a == adapters[router.delegate]
    IN  [phase |-> "out", adapter |-> router.delegate, model |-> router.model, json |-> json,
         endpoint |-> IF a.fallback THEN "chat" ELSE "main",
         posts |-> 1, invalid |-> 0, exhausted |-> 0, got |-> "none"]

\* No route, or _validate_request: nothing is sent.
Reject(c) ==
    /\ ~Out(c)
    /\ adapters[router.delegate].protocol \in {"none", "deepseek"}
    /\ Failed(c)
    /\ UNCHANGED <<adapters, router, learnt>>

Ask(c, json) ==
    /\ ~Out(c)
    /\ adapters[router.delegate].protocol # "none"
    /\ Becomes(c, RouteRequest(json))
    /\ UNCHANGED <<adapters, router, learnt>>

\* What comes back: an answer; no answer that can be read, or none of the kind
\* that was asked for; an empty one; one that was stopped for lack of
\* resources; an HTTP status that means the endpoint cannot serve the request;
\* another error.
Outcomes == {"good", "garbled", "empty", "exhausted", "refused", "error"}

\* DeepSeekV4Adapter: two budgets of retries, one for answers that are not the
\* JSON that was asked for and one for exhausted resources.  Of the statuses of
\* an endpoint that cannot serve, 404, 405 and 415 count as an answer that
\* cannot be read (_map_error), the others fail the request.
Again(c, budget) ==
    Becomes(c, [request[c] EXCEPT ![budget] = @ + 1, !.posts = @ + 1])

DeepSeekReceives(c, got) ==
    /\ AdapterOf(c).protocol = "deepseek"
    /\ UNCHANGED <<adapters, router, learnt>>
    /\ \/ /\ got \in {"refused", "error"} \/ (got = "garbled" /\ ~request[c].json)
          /\ Failed(c)
       \/ /\ got = "exhausted"
          /\ IF request[c].exhausted < ResourceRetries
               THEN Again(c, "exhausted") ELSE Failed(c)
       \/ /\ got \in {"garbled", "empty", "refused"} /\ request[c].json
          /\ IF request[c].invalid < JsonRetries
               THEN Again(c, "invalid") ELSE Failed(c)
       \/ /\ got = "good" \/ (got = "empty" /\ ~request[c].json)
          /\ Answered(c, got)

\* LiteLLMAdapter, which does not ask again (retry_count of a frontend route).
LiteReceives(c, got) ==
    /\ AdapterOf(c).protocol = "lite"
    /\ UNCHANGED <<adapters, router, learnt>>
    /\ IF got \in {"garbled", "refused", "error"} THEN Failed(c) ELSE Answered(c, got)

\* OpenAIResponsesAdapter: an endpoint that cannot serve the request is replaced
\* by Chat Completions.  Its text is not parsed.
ResponsesReceives(c, got) ==
    /\ AdapterOf(c).protocol = "responses" /\ request[c].endpoint = "main"
    /\ UNCHANGED <<adapters, router, learnt>>
    /\ CASE got = "refused" ->
              Becomes(c, [request[c] EXCEPT !.endpoint = "chat", !.posts = @ + 1])
         [] got = "error" -> Failed(c)
         [] OTHER -> Answered(c, got)

\* The fallback is kept for the requests to come once it has answered.
ChatReceives(c, got) ==
    /\ AdapterOf(c).protocol = "responses" /\ request[c].endpoint = "chat"
    /\ UNCHANGED router
    /\ \/ /\ got \in {"garbled", "refused", "error"}
          /\ Failed(c)
          /\ UNCHANGED <<adapters, learnt>>
       \/ /\ got \notin {"garbled", "refused", "error"}
          /\ Answered(c, got)
          /\ adapters' = [adapters EXCEPT ![request[c].adapter].fallback = TRUE]
          /\ learnt' = learnt \cup {request[c].adapter}

Receive(c) ==
    /\ Out(c)
    /\ \E got \in Outcomes :
          \/ DeepSeekReceives(c, got) \/ LiteReceives(c, got)
          \/ ResponsesReceives(c, got) \/ ChatReceives(c, got)

RouteNext ==
    \/ \E p \in FrontendProtocols, m \in Models : Configure(p, m)
    \/ \E c \in Requesters :
          Receive(c) \/ Reject(c) \/ \E json \in BOOLEAN : Ask(c, json)

-----------------------------------------------------------------------------
RouteTypeOK ==
    /\ \A i \in DOMAIN adapters : adapters[i].protocol \in Protocols /\ adapters[i].model \in Models
    /\ router.delegate \in DOMAIN adapters /\ router.model \in Models
    /\ \A c \in Requesters : request[c].phase \in {"idle", "out", "answered", "failed"}
    /\ learnt \subseteq DOMAIN adapters

\* The most posts a request may cost: calls of LiteLLM or of the endpoint.  What
\* LiteLLM sends again by itself (max_retries) is not counted.
Limit(protocol) ==
    CASE protocol = "deepseek" -> 1 + JsonRetries + ResourceRetries
      [] protocol = "responses" -> 2
      [] OTHER -> 1

\* Whatever is configured while a request is out, each of its posts goes to the
\* adapter it was routed to with the model of that adapter; their number is
\* bounded; DeepSeek never passes for an answer what it was asked again for; and
\* an adapter leaves its endpoint for good only after its fallback has answered.
RouteIsKept ==
    /\ \A c \in Requesters : request[c].phase \in {"out", "answered"} =>
          /\ request[c].model = AdapterOf(c).model
          /\ request[c].posts <= Limit(AdapterOf(c).protocol)
          /\ request[c].phase = "answered" /\ AdapterOf(c).protocol = "deepseek" =>
                request[c].got = "good" \/ (request[c].got = "empty" /\ ~request[c].json)
    /\ \A i \in DOMAIN adapters : adapters[i].fallback => i \in learnt

\* Every request is answered or fails.
RequestsSettle == \A c \in Requesters : Out(c) ~> ~Out(c)
=============================================================================
