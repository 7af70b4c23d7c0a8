------------------------------ MODULE MesAccess ------------------------------
(***************************************************************************)
(* Access to the MES: one interaction binds its user's bundle and fetches  *)
(* in concurrent tasks, which inherit a copy of its context; other         *)
(* requests of the same process authenticate meanwhile; and the owner      *)
(* snapshot fetcher (data_api/owner_snapshots.py) fetches under a second,  *)
(* separately verified identity.                                           *)
(***************************************************************************)
EXTENDS BoundedPager

CONSTANTS
    User,           \* whose interaction is modelled
    UserCredential, OwnerCredential,
    Fetches,        \* the interaction's concurrent fetches
    Requests,       \* other API requests
    Snapshot,       \* the owner snapshot fetcher
    OwnerFacts,     \* facts whose role is OWNER
    Deptless,       \* facts that name no bound department
    Loads           \* scenarios: the actors of a behaviour and its bounds

ASSUME ActorsAssumption ==
    /\ Actors = Fetches \cup Requests \cup {Snapshot}
    /\ Fetches \cap Requests = {} /\ Snapshot \notin Fetches \cup Requests
    /\ User \in Users /\ {UserCredential, OwnerCredential} \subseteq Credentials
    /\ OwnerFacts \subseteq KnownFacts /\ Deptless \subseteq KnownFacts

ASSUME LoadsAssumption ==
    Loads \subseteq [fetches : SUBSET Fetches, requests : SUBSET Requests, source : Seq(Rows),
                    paged : SUBSET BOOLEAN, mes : SUBSET [Credentials -> [who : Users, facts : Facts]],
                    ticks : Nat, changes : Nat, entered : Nat, withdrawn : Nat, faults : Nat,
                    snapshots : Nat]

VARIABLES
    run,            \* the interaction: its place and the bundle it was bound to
    edge,           \* each API request's place in resolve_credential
    owner,          \* the snapshot fetcher's place, the identity it has verified, and whether
                    \* it waited for a department lookup between the check and the binding
    load            \* what the scenario still allows

vars == <<gatewayVars, adapterVars, pagerVars, run, edge, owner, load>>

TypeOK ==
    /\ GatewayTypeOK /\ AdapterTypeOK /\ PagerTypeOK
    /\ run \in [pc : {"new", "bound", "over"}, bound : MesCredentialBundle \cup {None}]
    /\ edge \in [Requests -> {"new", "exchange", "known", "rejected"}]
    /\ owner \in [pc : {"off", "exchange", "registry", "authorize", "departments", "fetch",
                        "registry_again", "authorize_again", "departments_again"},
                  who : Users \cup {None}, identity : Users \cup {None}, looked : BOOLEAN]
    /\ load \in [fetches : SUBSET Fetches, ticks : Nat, changes : Nat, entered : Nat,
                 withdrawn : Nat, snapshots : Nat]

Init ==
    /\ GatewayInit /\ AdapterInit
    /\ mes[UserCredential].who = User
    /\ \E l \in Loads :
          /\ load = [fetches |-> l.fetches, ticks |-> l.ticks, changes |-> l.changes,
                     entered |-> l.entered, withdrawn |-> l.withdrawn,
                     snapshots |-> l.snapshots]
          /\ faults = l.faults
          /\ paged \in l.paged
          /\ source = l.source
          /\ mes \in l.mes
          /\ edge = [q \in Requests |-> IF q \in l.requests THEN "new" ELSE "known"]
    /\ owner = [pc |-> "off", who |-> None, identity |-> None, looked |-> FALSE]
    /\ walk = [a \in Actors |-> NoWalk]
    /\ run = [pc |-> "new", bound |-> None]

-----------------------------------------------------------------------------
(* API requests.                                                           *)

\* authenticate: answered from the cache, or exchanged.
Authenticate(q) ==
    /\ edge[q] = "new"
    /\ \/ /\ CachedPrincipal(UserCredential)
          /\ edge' = [edge EXCEPT ![q] = "known"]
          /\ UNCHANGED exch
       \/ /\ ~CachedPrincipal(UserCredential)
          /\ Ask(q, UserCredential, None)
          /\ edge' = [edge EXCEPT ![q] = "exchange"]
    /\ UNCHANGED <<clock, mes, issued, byDigest, byIdentity, ctx, adapterVars, pagerVars, run,
                   owner, load>>

\* The exchange comes back; the bundle is kept, or the request answers 401 or 502.
Authenticated(q) ==
    /\ edge[q] = "exchange" /\ Answered(q)
    /\ AuthenticateKeeps(q) /\ EndExchange(q)
    /\ edge' = [edge EXCEPT ![q] = IF HasPrincipal(q) THEN "known" ELSE "rejected"]
    /\ UNCHANGED <<clock, mes, issued, ctx, adapterVars, pagerVars, run, owner, load>>

-----------------------------------------------------------------------------
(* The interaction.                                                        *)

\* The interaction starts once its user has been authenticated: bind_for.
Bind ==
    /\ run.pc = "new" /\ byIdentity[User] # None
    /\ run' = [pc |-> "bound", bound |-> byIdentity[User].bundle]
    /\ BindFor(load.fetches, User)
    /\ UNCHANGED <<clock, mes, issued, byDigest, byIdentity, exch, adapterVars, pagerVars, edge,
                   owner, load>>

Fetch(f) ==
    /\ run.pc = "bound" /\ f \in load.fetches
    /\ \/ StartWalk(f) \/ NextPage(f) \/ PageAnswered(f) \/ CallFailed(f)
       \/ (TenantChecked(f) \/ Refreshed(f)) /\ UNCHANGED pagerVars
    /\ UNCHANGED <<run, edge, owner, load>>

\* All fetches have ended, and so does the binding.
Unbind ==
    /\ run.pc = "bound" /\ \A f \in load.fetches : walk[f].pc \in {"done", "failed"}
    /\ run' = [run EXCEPT !.pc = "over"]
    /\ ctx' = [a \in Actors |-> IF a \in load.fetches THEN None ELSE ctx[a]]
    /\ UNCHANGED <<clock, mes, issued, byDigest, byIdentity, exch, adapterVars, pagerVars, edge,
                   owner, load>>

-----------------------------------------------------------------------------
(* The owner snapshot fetcher: _fetch under its lock.                      *)

OwnerTo(pc) == owner' = [owner EXCEPT !.pc = pc]

OwnerGateway == UNCHANGED <<clock, mes, issued, pagerVars, run, edge>>

Spend(field) == load[field] > 0 /\ load' = [load EXCEPT ![field] = @ - 1]

\* A principal must have the role OWNER and be the one verified before.
IsOwner(b) == b.facts \in OwnerFacts /\ owner.identity \in {None, b.who}

\* Mutant: the user has an entry, whatever its role.
AnyEntry(u) == byIdentity[u] # None

OwnerEntry(u) == byIdentity[u] # None /\ byIdentity[u].bundle.facts \in OwnerFacts

Departmentless(u) == byIdentity[u].bundle.facts \in Deptless

\* _identity is set, and bind_for takes the entry that the user has now.
OwnerBinds(looked) ==
    /\ BindFor({Snapshot}, owner.who)
    /\ owner' = [owner EXCEPT !.pc = "fetch", !.identity = owner.who, !.looked = looked]

\* _fetch under the fetcher's lock begins with _resolve_owner, which authenticates the
\* configured credential.
ResolveOwner ==
    /\ owner.pc = "off" /\ Spend("snapshots")
    /\ walk' = [walk EXCEPT ![Snapshot] = NoWalk]
    /\ call' = [call EXCEPT ![Snapshot] = NoCall]
    /\ IF CachedPrincipal(OwnerCredential)
       THEN LET b == byDigest[OwnerCredential].bundle
            IN /\ owner' = IF IsOwner(b) /\ OwnerEntry(b.who)
                           THEN [owner EXCEPT !.pc = "registry", !.who = b.who] ELSE owner
               /\ UNCHANGED exch
       ELSE Ask(Snapshot, OwnerCredential, None) /\ OwnerTo("exchange")
    /\ UNCHANGED <<clock, mes, issued, byDigest, byIdentity, ctx, requests, disabled, faults,
                   default, source, paged, run, edge>>

OwnerExchanged ==
    /\ owner.pc = "exchange" /\ Answered(Snapshot)
    /\ AuthenticateKeeps(Snapshot) /\ EndExchange(Snapshot)
    /\ owner' = IF HasPrincipal(Snapshot) /\ IsOwner(exch[Snapshot].bundle)
                THEN [owner EXCEPT !.pc = "registry", !.who = exch[Snapshot].bundle.who]
                ELSE [owner EXCEPT !.pc = "off"]
    /\ UNCHANGED <<ctx, adapterVars, load>> /\ OwnerGateway

\* _validate_owner asks the tenant registry (_assert_active), then authorizes, which reads
\* the entry the user has by then and, when it names no department, waits for the
\* directory (_current_depts). It runs before the fetch and again in a refresh, where a
\* refusal is the error of the call.
OwnerRegistry ==
    /\ \/ /\ owner.pc = "registry"
          /\ OwnerTo(IF disabled THEN "off" ELSE "authorize")
          /\ UNCHANGED call
       \/ /\ owner.pc = "registry_again"
          /\ OwnerTo(IF disabled THEN "fetch" ELSE "authorize_again")
          /\ IF disabled THEN Fail(Snapshot, "tenant_disabled") ELSE UNCHANGED call
    /\ UNCHANGED <<byDigest, byIdentity, exch, ctx, requests, disabled, faults, default, load>>
    /\ OwnerGateway

OwnerAuthorize ==
    /\ owner.pc = "authorize"
    /\ IF OwnerEntry(owner.who) /\ ~Departmentless(owner.who) THEN OwnerBinds(FALSE)
       ELSE /\ OwnerTo(IF OwnerEntry(owner.who) THEN "departments" ELSE "off")
            /\ UNCHANGED ctx
    /\ UNCHANGED <<byDigest, byIdentity, exch, adapterVars, load>> /\ OwnerGateway

\* The directory answers, and the fetch binds the entry of that moment without another look
\* at its role; or the lookup fails, and the authorization with it.
OwnerDepartments ==
    /\ owner.pc = "departments"
    /\ \/ OwnerBinds(TRUE)
       \/ OwnerTo("off") /\ UNCHANGED ctx
    /\ UNCHANGED <<byDigest, byIdentity, exch, adapterVars, load>> /\ OwnerGateway

\* The fetch itself: the same adapter and pager, with a refresh of its own.
OwnerFetch ==
    /\ owner.pc = "fetch"
    /\ \/ StartWalk(Snapshot) \/ NextPage(Snapshot) \/ PageAnswered(Snapshot)
       \/ CallFailed(Snapshot)
       \/ TenantChecked(Snapshot) /\ UNCHANGED pagerVars
    /\ UNCHANGED <<run, edge, owner, load>>

\* _refresh: the identity must stay, and the owner is validated again before the bundle is
\* used.
OwnerRefreshed ==
    /\ owner.pc = "fetch" /\ call[Snapshot].pc = "refresh" /\ Answered(Snapshot)
    /\ RefreshKeeps(Snapshot) /\ EndExchange(Snapshot)
    /\ IF RefreshedIdentity(Snapshot) /\ IsOwner(exch[Snapshot].bundle)
       THEN /\ ctx' = [ctx EXCEPT ![Snapshot] = _bundle_from_response(Snapshot)]
            /\ owner' = [owner EXCEPT !.pc = "registry_again", !.looked = FALSE]
            /\ UNCHANGED call
       ELSE /\ Fail(Snapshot, IF RefreshedIdentity(Snapshot) THEN "forbidden"
                              ELSE "upstream_unavailable")
            /\ UNCHANGED <<ctx, owner>>
    /\ UNCHANGED <<requests, disabled, faults, default, load>> /\ OwnerGateway

OwnerReauthorize ==
    /\ owner.pc = "authorize_again"
    /\ \/ /\ OwnerEntry(owner.who) /\ Departmentless(owner.who)
          /\ OwnerTo("departments_again") /\ UNCHANGED <<call, requests>>
       \/ /\ OwnerEntry(owner.who) /\ ~Departmentless(owner.who)
          /\ OwnerTo("fetch") /\ SendOrStop(Snapshot, MaxRetries)
       \/ /\ ~OwnerEntry(owner.who)
          /\ OwnerTo("fetch") /\ Fail(Snapshot, "forbidden") /\ UNCHANGED requests
    /\ UNCHANGED <<byDigest, byIdentity, exch, ctx, disabled, faults, default, load>>
    /\ OwnerGateway

\* The refreshed bundle stays the current one, whatever the user's entry is by now.
OwnerDepartmentsAgain ==
    /\ owner.pc = "departments_again"
    /\ OwnerTo("fetch")
    /\ \/ SendOrStop(Snapshot, MaxRetries)
       \/ Fail(Snapshot, "forbidden") /\ UNCHANGED requests
    /\ UNCHANGED <<byDigest, byIdentity, exch, ctx, disabled, faults, default, load>>
    /\ OwnerGateway

\* The fetch has ended and gives the lock back.
OwnerEnd ==
    /\ owner.pc = "fetch" /\ walk[Snapshot].pc \in {"done", "failed"}
    /\ owner' = [owner EXCEPT !.pc = "off", !.who = None, !.looked = FALSE]
    /\ ctx' = [ctx EXCEPT ![Snapshot] = None]
    /\ UNCHANGED <<byDigest, byIdentity, exch, adapterVars, load>> /\ OwnerGateway

-----------------------------------------------------------------------------
(* The MES and time.                                                       *)

Mes(a) ==
    /\ \/ (Issue(a) \/ Refuse(a)) /\ UNCHANGED adapterVars
       \/ \E e \in {"upstream_timeout", "upstream_unavailable", "rate_limited"} : Retry(a, e)
       \/ \E e \in {"upstream_invalid", "invalid_request", "upstream_unavailable"} : Rejected(a, e)
       \/ Expired(a)
    /\ UNCHANGED <<pagerVars, run, edge, owner, load>>

Administer ==
    /\ \/ \E c \in Credentials : \E identity \in [who : {mes[c].who}, facts : Facts] :
             Reassign(c, identity) /\ Spend("changes")
       \/ \E u \in Users : /\ Reassign(OwnerCredential, [who |-> u, facts |-> mes[OwnerCredential].facts])
                           /\ Spend("changes")
    /\ UNCHANGED <<adapterVars, pagerVars, run, edge, owner>>

Produce ==
    /\ \/ Spend("entered") /\ \E r \in Rows, i \in 1..(Len(source) + 1) : Enter(r, i)
       \/ Spend("withdrawn") /\ \E i \in DOMAIN source : Withdraw(i)
    /\ UNCHANGED <<run, edge, owner>>

Suspend == Disable /\ UNCHANGED <<pagerVars, run, edge, owner, load>>

Tick ==
    /\ clock < MaxClock /\ Spend("ticks")
    /\ clock' = clock + 1
    /\ UNCHANGED <<mes, issued, byDigest, byIdentity, exch, ctx, adapterVars, pagerVars, run, edge,
                   owner>>

\* Everything has been asked for and answered.
Rest ==
    /\ run.pc = "over" \/ byIdentity[User] = None
    /\ \A q \in Requests : edge[q] \in {"known", "rejected"}
    /\ owner.pc = "off" /\ load.snapshots = 0
    /\ UNCHANGED vars

OwnerStep ==
    \/ ResolveOwner \/ OwnerExchanged \/ OwnerRegistry \/ OwnerAuthorize \/ OwnerDepartments
    \/ OwnerFetch \/ OwnerRefreshed \/ OwnerReauthorize \/ OwnerDepartmentsAgain \/ OwnerEnd

Next ==
    \/ \E q \in Requests : Authenticate(q) \/ Authenticated(q)
    \/ Bind \/ Unbind \/ \E f \in Fetches : Fetch(f)
    \/ OwnerStep
    \/ \E a \in Actors : Mes(a)
    \/ Administer \/ Produce \/ Suspend \/ Tick \/ Rest

\* The event loop runs every task that can go on, and every HTTP call has a timeout.
Fairness ==
    /\ \A q \in Requests : WF_vars(Authenticate(q) \/ Authenticated(q))
    /\ WF_vars(Bind) /\ WF_vars(Unbind) /\ WF_vars(OwnerStep)
    /\ \A f \in Fetches : WF_vars(Fetch(f))
    /\ \A a \in Actors : WF_vars(Mes(a))

Spec == Init /\ [][Next]_vars /\ Fairness

-----------------------------------------------------------------------------
(* Properties.                                                             *)

\* GatewayTokenRefresher: whatever is refreshed, replaced by other requests or changed at
\* the MES meanwhile, an interaction sends every request as the user and under the facts
\* it was bound to, or it stops.
SendsUnderBoundScope ==
    \A f \in Fetches : call[f].pc = "sending" =>
        /\ ctx[f].who = run.bound.who
        /\ ctx[f].facts = run.bound.facts

\* OwnerSnapshotFetcher: a snapshot request carries a bundle of the one identity that was
\* verified, for as long as the process lives, and an owner's: other requests may replace
\* the entry between the check of the role and the binding, or during a refresh. What the
\* code leaves open is the directory lookup of an owner whose token names no department:
\* the entry bound after it is not looked at again, until a refresh has checked it.
SnapshotSentByOwner ==
    call[Snapshot].pc = "sending" =>
        /\ ctx[Snapshot].who = owner.identity
        /\ ~owner.looked => ctx[Snapshot].facts \in OwnerFacts

\* BoundedPager.fetch_all: unless rows were taken away while it walked, a complete result
\* is exactly what the source held when the walk began, in its order.
CompleteIsSnapshot ==
    \A a \in Actors : walk[a].pc = "done" /\ walk[a].complete /\ ~walk[a].shrank =>
        walk[a].items = walk[a].first

\* HongzhaoMesAdapter: bounded retries, one refresh at most and a bounded walk: every
\* interaction that has begun to fetch ends.
FetchesEnd == (run.pc = "bound") ~> (run.pc = "over")

=============================================================================
