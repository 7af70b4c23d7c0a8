----------------------------- MODULE MesAdapter -----------------------------
(***************************************************************************)
(* The MES adapter (data_api/hongzhao.py): one execute call per page, with *)
(* the tenant check, the proactive refresh, the retried send and the       *)
(* mapping of answers to errors. A call belongs to the task that makes it, *)
(* and one action is the code between two awaits.                          *)
(***************************************************************************)
EXTENDS TokenGateway

CONSTANTS
    MaxRetries,     \* AdapterSettings.max_retries
    MaxRequests,    \* max_mes_requests of the run's budget
    Budgeted        \* tasks that work under a bound run budget

ASSUME AdapterAssumption ==
    MaxRetries \in Nat /\ MaxRequests \in Nat /\ Budgeted \subseteq Actors

VARIABLES
    call,           \* the execute call of each task
    requests,       \* upstream attempts the run's budget has counted
    disabled,       \* the tenant registry says disabled
    faults,         \* failures the environment may still cause
    default         \* the adapter's own bundle, for calls outside any binding

adapterVars == <<call, requests, disabled, faults, default>>

\* What the adapter raises.
MesError == {"tenant_disabled", "unauthenticated", "forbidden", "upstream_unavailable",
             "upstream_timeout", "rate_limited", "upstream_invalid", "invalid_request",
             "budget"}

NoCall == [pc |-> "idle", left |-> 0, error |-> None]

Calls ==
    [pc : {"idle", "tenant", "refresh", "sending", "answered", "failed"},
     left : 0..(MaxRetries + 1), error : MesError \cup {None}]

AdapterTypeOK ==
    /\ call \in [Actors -> Calls]
    /\ requests \in 0..MaxRequests
    /\ disabled \in BOOLEAN
    /\ faults \in Nat
    /\ default \in MesCredentialBundle \cup {None}

AdapterInit ==
    /\ call = [a \in Actors |-> NoCall]
    /\ requests = 0
    /\ disabled = FALSE
    /\ default = None

Fail(a, error) == call' = [call EXCEPT ![a].pc = "failed", ![a].error = error]

\* consume_upstream_attempt: a bound budget counts every attempt, and refuses it before it
\* is made; without a bound budget nothing is counted.
InBudget(a) == a \in Budgeted => requests < MaxRequests

Consume(a) == requests' = IF a \in Budgeted THEN requests + 1 ELSE requests

-----------------------------------------------------------------------------

\* execute: the catalogue is asked first, then the tenant registry.
Execute(a) ==
    /\ call[a].pc = "idle"
    /\ call' = [call EXCEPT ![a] = [NoCall EXCEPT !.pc = "tenant"]]
    /\ UNCHANGED <<gatewayVars, requests, disabled, faults, default>>

\* _send: one attempt is taken from the budget, then the request is posted.
SendOrStop(a, left) ==
    IF InBudget(a)
    THEN /\ call' = [call EXCEPT ![a] = [pc |-> "sending", left |-> left, error |-> None]]
         /\ Consume(a)
    ELSE /\ call' = [call EXCEPT ![a] = [pc |-> "failed", left |-> left, error |-> "budget"]]
         /\ UNCHANGED requests

\* The registry answers (_assert_tenant_enabled); then the bundle of the task is sent, or
\* refreshed first when it is about to expire. The exchange counts as an attempt too.
TenantChecked(a) ==
    /\ call[a].pc = "tenant"
    /\ \/ /\ disabled
          /\ Fail(a, "tenant_disabled")
          /\ UNCHANGED <<exch, requests>>
       \/ /\ ~disabled /\ ~needs_refresh(ctx[a])
          /\ SendOrStop(a, MaxRetries)
          /\ UNCHANGED exch
       \/ /\ ~disabled /\ needs_refresh(ctx[a])
          /\ LET entry == byIdentity[ctx[a].who]
             IN IF InBudget(a)
                THEN /\ Ask(a, entry.cred, entry)
                     /\ call' = [call EXCEPT ![a].pc = "refresh"]
                     /\ Consume(a)
                ELSE Fail(a, "budget") /\ UNCHANGED <<exch, requests>>
    /\ UNCHANGED <<clock, mes, issued, byDigest, byIdentity, ctx, disabled, faults, default>>

\* The refresh of a caller's bundle ends: it goes on only under the scope it had.
Refreshed(a) ==
    /\ call[a].pc = "refresh" /\ Answered(a)
    /\ RefreshKeeps(a) /\ RefreshRebinds(a) /\ EndExchange(a)
    /\ IF SameScope(a)
       THEN /\ SendOrStop(a, MaxRetries)
            /\ default' = _bundle_from_response(a)
       ELSE /\ Fail(a, IF exch[a].bundle = None THEN "upstream_unavailable"
                       ELSE IF HasPrincipal(a) THEN "forbidden" ELSE "unauthenticated")
            /\ UNCHANGED <<requests, default>>
    /\ UNCHANGED <<clock, mes, issued, disabled, faults>>

\* A timeout, a transport failure or a 429 is retried while attempts are left.
Retry(a, error) ==
    /\ call[a].pc = "sending" /\ faults > 0
    /\ faults' = faults - 1
    /\ IF call[a].left > 0
       THEN SendOrStop(a, call[a].left - 1)
       ELSE Fail(a, error) /\ UNCHANGED requests
    /\ UNCHANGED <<gatewayVars, disabled, default>>

\* Every other failure of the transport is final (_map_status).
Rejected(a, error) ==
    /\ call[a].pc = "sending" /\ faults > 0
    /\ faults' = faults - 1
    /\ Fail(a, error)
    /\ UNCHANGED <<gatewayVars, requests, disabled, default>>

TokenAccepted(bundle) == clock < bundle.expires

\* The MES answers code 0, the token has expired or its signature is refused, and
\* map_message_to_error raises. The answer is an envelope, so the handler around _send,
\* which would refresh and send again, does not see it.
Expired(a) ==
    /\ call[a].pc = "sending"
    /\ \/ ~TokenAccepted(ctx[a]) /\ UNCHANGED faults
       \/ TokenAccepted(ctx[a]) /\ faults > 0 /\ faults' = faults - 1
    /\ Fail(a, "unauthenticated")
    /\ UNCHANGED <<gatewayVars, requests, disabled, default>>

Disable ==
    /\ ~disabled /\ faults > 0
    /\ disabled' = TRUE
    /\ faults' = faults - 1
    /\ UNCHANGED <<gatewayVars, call, requests, default>>

=============================================================================
