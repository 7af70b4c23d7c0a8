------------------------------ MODULE LlmRouting ------------------------------
(***************************************************************************)
(* The model gateway: which deployment of an alias is tried first, how the *)
(* endpoint probe changes that order while calls are in flight, and how    *)
(* one logical call ends (llm/registry.py, llm/health.py,                  *)
(* llm/router_gateway.py, application/structured.py).                      *)
(***************************************************************************)
EXTENDS Integers, Sequences, FiniteSets, Absent

CONSTANTS
    Endpoints,          \* distinct api_base values
    Document,           \* the reviewed registry: a set of deployments, each with its place
    Fallbacks,          \* [alias -> sequence of aliases]
    Aliases,            \* every alias the document declares
    FailuresToDemote,   \* consecutive failed probes before a demotion
    MaxRepairs          \* repairs of an unusable reply

ASSUME RoutingAssumption ==
    /\ FailuresToDemote \in Nat \ {0} /\ MaxRepairs \in {0, 1}
    /\ IsFiniteSet(Document)
    /\ \A d \in Document :
          d \in [alias : Aliases, base : Endpoints, priority : Nat \ {0}, at : Nat, family : {d.family}]
    /\ \A d, e \in Document : d.alias = e.alias /\ d.at = e.at => d = e

\* _reject_unknown_fallbacks, and no alias declared twice: what a loaded document satisfies.
ASSUME FallbackAssumption ==
    \A a \in Aliases : \A i \in DOMAIN Fallbacks[a] : Fallbacks[a][i] \in Aliases \ {a}

VARIABLES
    alive,      \* [Endpoints -> BOOLEAN]: the servers
    baseline,   \* the deployments whose key was configured
    failures,   \* EndpointHealthMonitor._consecutive_failures, saturated at FailuresToDemote
    demoted,    \* EndpointHealthMonitor._demoted
    probing,    \* None between passes, else the endpoints still to be probed in this one
    registry,   \* LiteLlmRouterGateway._registry, as its set of deployments
    router,     \* the deployments _router was built from
    call        \* the logical call in flight

healthVars == <<alive, baseline, failures, demoted, probing, registry, router>>
routingVars == <<healthVars, call>>

-----------------------------------------------------------------------------
(* The registry.                                                           *)

\* _resolve_alias: a deployment without a key is left out.
Resolve(keys) == {d \in Document : d.base \in keys}

AliasesOf(reg) == {d.alias : d \in reg}

\* probe_targets: one probe per distinct endpoint.
ProbeTargets(reg) == {d.base : d \in reg}

\* Demoted endpoints last, else by priority, and equal priorities as the document has them.
Before(d, e, dem) ==
    \/ d.base \notin dem /\ e.base \in dem
    \/ /\ d.base \in dem <=> e.base \in dem
       /\ \/ d.priority < e.priority
          \/ d.priority = e.priority /\ d.at < e.at

\* with_demoted_endpoints: renumbered per alias in that order, so that no ties are left.
WithDemoted(reg, dem) ==
    IF dem = {} THEN reg
    ELSE {[d EXCEPT !.priority =
              1 + Cardinality({e \in reg : e.alias = d.alias /\ Before(e, d, dem)})] : d \in reg}

\* The deployments an alias is served by, and those of the lowest priority.
Through(alias, reg) == {d \in reg : d.alias = alias}

Firsts(S) == {d \in S : \A e \in S : d.priority <= e.priority}

\* The deployment the wire format is taken from: the first in the list of the lowest priority.
Primary(reg, alias) ==
    CHOOSE d \in Firsts(Through(alias, reg)) :
        \A e \in Firsts(Through(alias, reg)) : d.at <= e.at

\* _fallbacks: only targets that resolved a deployment.
ReachableFallbacks(reg, alias) ==
    SelectSeq(Fallbacks[alias], LAMBDA a : a \in AliasesOf(reg))

-----------------------------------------------------------------------------
(* The endpoint health monitor.                                            *)

\* Mutant: the failures are counted anew in every pass.
StartRefresh_anew ==
    /\ probing = None
    /\ probing' = ProbeTargets(baseline)
    /\ failures' = [e \in Endpoints |-> 0]
    /\ UNCHANGED <<alive, baseline, demoted, registry, router, call>>

\* The probe loop starts a pass.
StartRefresh ==
    /\ probing = None
    /\ probing' = ProbeTargets(baseline)
    /\ UNCHANGED <<alive, baseline, failures, demoted, registry, router, call>>

\* _record: one success restores, FailuresToDemote consecutive failures demote.
Record(e, healthy) ==
    LET n == IF failures[e] < FailuresToDemote THEN failures[e] + 1 ELSE failures[e] IN
    IF healthy
    THEN failures' = [failures EXCEPT ![e] = 0] /\ demoted' = demoted \ {e}
    ELSE /\ failures' = [failures EXCEPT ![e] = n]
         /\ demoted' = IF n >= FailuresToDemote THEN demoted \cup {e} ELSE demoted

\* _probe_one: the answer of GET /models; a probe that raises is a failed probe.
ProbeOne(e) ==
    /\ probing # None /\ e \in probing
    /\ Record(e, alive[e])
    /\ probing' = probing \ {e}
    /\ UNCHANGED <<alive, baseline, registry, router, call>>

\* Mutant: the router built for the first table is kept.
UseRegistry_keptRouter(reg) == registry' = reg /\ router' = router

\* use_registry: a changed order means a new router.
UseRegistry(reg) ==
    /\ registry' = reg
    /\ router' = IF reg = registry THEN router ELSE reg

\* The pass is over: publish the table the verdicts imply.
EndRefresh ==
    /\ probing = {}
    /\ UseRegistry(WithDemoted(baseline, demoted))
    /\ probing' = None
    /\ UNCHANGED <<alive, baseline, failures, demoted, call>>

\* A server goes down or comes back.
Flip(e) ==
    /\ alive' = [alive EXCEPT ![e] = ~@]
    /\ UNCHANGED <<baseline, failures, demoted, probing, registry, router, call>>

-----------------------------------------------------------------------------
(* One logical call.                                                       *)

NoCall == [pc |-> "none", alias |-> None, body |-> None, through |-> {}, left |-> {},
           next |-> <<>>, json |-> FALSE, attempts |-> 0, budget |-> 0]

\* _ERROR_CATEGORIES and _translate: an unknown class counts as unavailable.
Category(exception) ==
    CASE exception = "Timeout" -> "timeout"
      [] exception = "RateLimitError" -> "rate_limited"
      [] exception = "AuthenticationError" -> "unauthenticated"
      [] exception = "BadRequestError" -> "protocol"
      [] OTHER -> "unavailable"

\* _validate, _call_options with _thinking_body, then the router: the fields sent are those
\* of the registry's primary, and the router is the one of this instant.
Send(alias, json, attempts, budget) ==
    call' = IF alias \notin AliasesOf(registry)
            THEN [NoCall EXCEPT !.pc = "not_configured"]
            ELSE [pc |-> "sent", alias |-> alias, body |-> Primary(registry, alias).family,
                  through |-> router, left |-> Through(alias, router),
                  next |-> ReachableFallbacks(router, alias), json |-> json,
                  attempts |-> attempts, budget |-> budget]

\* request_structured_object, or a free-form reply: the first attempt.
StartCall(alias, json, budget) ==
    /\ call.pc = "none"
    /\ IF budget = 0 THEN call' = [NoCall EXCEPT !.pc = "over_budget"]
       ELSE Send(alias, json, 1, budget - 1)
    /\ UNCHANGED healthVars

\* The deployments the router may turn to next: the priority is its order, and among equal
\* ones it picks any.
Candidates == Firsts(call.left)

\* One answers: a JSON object, prose, or nothing readable (_content raises).
CallAnswered(reply) ==
    /\ call.pc = "sent" /\ \E d \in Candidates : alive[d.base]
    /\ \/ reply = "empty" /\ call' = [call EXCEPT !.pc = "protocol"]
       \/ reply = "text" /\ ~call.json /\ call' = [call EXCEPT !.pc = "text"]
       \/ reply = "object" /\ call.json /\ call' = [call EXCEPT !.pc = "object"]
       \/ /\ reply = "prose" /\ call.json
          /\ call' = [call EXCEPT !.pc = IF call.attempts > MaxRepairs THEN "invalid" ELSE "repair"]
    /\ UNCHANGED healthVars

\* The one repair: the same conversation and the refused reply, at the same alias.
Repair ==
    /\ call.pc = "repair"
    /\ IF call.budget = 0 THEN call' = [NoCall EXCEPT !.pc = "over_budget"]
       ELSE Send(call.alias, TRUE, call.attempts + 1, call.budget - 1)
    /\ UNCHANGED healthVars

\* One does not answer: the next deployment, the next alias, or the error's category.
CallRefused(exception) ==
    /\ call.pc = "sent"
    /\ \E d \in Candidates :
          /\ ~alive[d.base]
          /\ LET rest == call.left \ {d} IN
             call' = IF rest # {} THEN [call EXCEPT !.left = rest]
                     ELSE IF call.next # <<>>
                     THEN [call EXCEPT !.left = Through(Head(call.next), call.through),
                                       !.next = Tail(call.next)]
                     ELSE [call EXCEPT !.left = {}, !.pc = Category(exception)]
    /\ UNCHANGED healthVars

Exceptions == {"Timeout", "RateLimitError", "AuthenticationError", "BadRequestError", "Other"}
Replies == {"object", "prose", "empty", "text"}
GatewayErrors == {Category(x) : x \in Exceptions} \cup {"not_configured", "protocol"}
CallEnded == call.pc \in GatewayErrors \cup {"object", "text", "invalid", "over_budget"}

CallStep ==
    \/ \E r \in Replies : CallAnswered(r)
    \/ Repair
    \/ \E x \in Exceptions : CallRefused(x)

RoutingInit ==
    /\ failures = [e \in Endpoints |-> 0]
    /\ demoted = {}
    /\ probing = None
    /\ registry = baseline
    /\ router = baseline
    /\ call = NoCall

Probe == StartRefresh \/ EndRefresh \/ \E e \in Endpoints : ProbeOne(e)

-----------------------------------------------------------------------------
(* Properties.                                                             *)

\* The thinking fields of a call are in the format of a deployment the router may try first,
\* however the probe reorders deployments around the call (use_registry, _thinking_body), and
\* once deployments have been reordered there is one such deployment only.
WireFormatMatches ==
    call.pc = "sent" /\ call.left = Through(call.alias, call.through) =>
        /\ \E d \in Candidates : call.body = d.family
        /\ call.through = baseline \/ \A d, e \in Candidates : d = e

\* Once the servers stop changing, every alias ends with live deployments first, if it has
\* one: dead endpoints are demoted and recovered ones are restored (_record, use_registry).
LiveDeploymentsFirst ==
    <>[](\A a \in AliasesOf(baseline) :
            (\E d \in baseline : d.alias = a /\ alive[d.base])
                => \A d \in Firsts(Through(a, router)) : alive[d.base])
=============================================================================
