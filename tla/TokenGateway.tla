---------------------------- MODULE TokenGateway ----------------------------
(***************************************************************************)
(* The token exchange gateway (data_api/token_gateway.py): encrypted       *)
(* credentials are exchanged for bundles, the newest written bundle is     *)
(* kept per credential digest and per user, and a task works under the     *)
(* bundle that its context variable CURRENT_BUNDLE holds.                  *)
(* An exchange is two steps of the MES, reading the identity facts and     *)
(* answering, so that answers may overtake each other.                     *)
(***************************************************************************)
EXTENDS Naturals, FiniteSets

CONSTANTS
    Credentials,    \* encrypted app_keys
    Users,          \* identities (tenant and user) they may stand for
    Facts,          \* roles and bound departments of an identity
    KnownFacts,     \* those whose first role is known here
    Actors,         \* tasks that exchange credentials
    Life,           \* ticks a bundle lives
    Threshold,      \* ticks before expiry at which it is refreshed
    AbsoluteExpiry, \* the MES sends expiresAt (else only expiresIn)
    MaxExchanges,   \* bound on exchanges
    MaxClock,       \* bound on the clock
    None

ASSUME GatewayAssumption ==
    /\ KnownFacts \subseteq Facts
    /\ Life \in Nat /\ Threshold \in Nat /\ Threshold < Life
    /\ AbsoluteExpiry \in BOOLEAN
    /\ MaxExchanges \in Nat /\ MaxClock \in Nat

VARIABLES
    clock,          \* now
    mes,            \* what the MES knows of each credential
    issued,         \* number of bundles issued
    byDigest,       \* _entries_by_digest
    byIdentity,     \* _entries_by_identity
    exch,           \* the exchange each task waits for
    ctx             \* CURRENT_BUNDLE of each task

gatewayVars == <<clock, mes, issued, byDigest, byIdentity, exch, ctx>>

MesCredentialBundle ==
    [serial : 1..MaxExchanges, who : Users, facts : Facts, expires : 0..(MaxClock + Life)]

LiveEntry == [bundle : MesCredentialBundle, cred : Credentials]

\* An exchange under way: the credential, the entry it refreshes if any, and the answer.
Exchange ==
    [cred : Credentials, entry : LiveEntry \cup {None},
     stage : {"asked", "answered"}, bundle : MesCredentialBundle \cup {None}]

ASSUME NoneAssumption ==
    None \notin MesCredentialBundle \cup LiveEntry \cup Exchange \cup Users \cup Nat

GatewayTypeOK ==
    /\ clock \in 0..MaxClock
    /\ mes \in [Credentials -> [who : Users, facts : Facts]]
    /\ issued \in 0..MaxExchanges
    /\ byDigest \in [Credentials -> LiveEntry \cup {None}]
    /\ byIdentity \in [Users -> LiveEntry \cup {None}]
    /\ exch \in [Actors -> Exchange \cup {None}]
    /\ ctx \in [Actors -> MesCredentialBundle \cup {None}]

GatewayInit ==
    /\ clock = 0
    /\ mes \in [Credentials -> [who : Users, facts : KnownFacts]]
    /\ issued = 0
    /\ byDigest = [c \in Credentials |-> None]
    /\ byIdentity = [u \in Users |-> None]
    /\ exch = [a \in Actors |-> None]
    /\ ctx = [a \in Actors |-> None]

needs_refresh(bundle) == bundle.expires <= clock + Threshold

-----------------------------------------------------------------------------
(* The token endpoint.                                                     *)

\* The MES reads the identity behind a credential and issues a bundle for it.
Issue(a) ==
    /\ exch[a] # None /\ exch[a].stage = "asked" /\ issued < MaxExchanges
    /\ issued' = issued + 1
    /\ exch' = [exch EXCEPT ![a].stage = "answered",
                    ![a].bundle = [serial |-> issued + 1, who |-> mes[exch[a].cred].who,
                                   facts |-> mes[exch[a].cred].facts, expires |-> clock + Life]]
    /\ UNCHANGED <<clock, mes, byDigest, byIdentity, ctx>>

\* The MES refuses the credential, or the endpoint cannot be reached.
Refuse(a) ==
    /\ exch[a] # None /\ exch[a].stage = "asked"
    /\ exch' = [exch EXCEPT ![a].stage = "answered"]
    /\ UNCHANGED <<clock, mes, issued, byDigest, byIdentity, ctx>>

\* An administrator of the MES changes what a credential stands for.
Reassign(c, identity) ==
    /\ mes[c] # identity
    /\ mes' = [mes EXCEPT ![c] = identity]
    /\ UNCHANGED <<clock, issued, byDigest, byIdentity, exch, ctx>>

-----------------------------------------------------------------------------
(* The gateway's own steps. Each Primed operator below is a conjunct of an *)
(* action of the task that takes it.                                       *)

Answered(a) == exch[a] # None /\ exch[a].stage = "answered"

\* _parse_expiry: expiresAt, or the time of receipt plus expiresIn.
parse_expiry(bundle) == IF AbsoluteExpiry THEN bundle.expires ELSE clock + Life

_bundle_from_response(a) ==
    [exch[a].bundle EXCEPT !.expires = parse_expiry(exch[a].bundle)]

\* _principal_from_bundle refuses a bundle without a known role.
HasPrincipal(a) == exch[a].bundle # None /\ exch[a].bundle.facts \in KnownFacts

Ask(a, c, entry) ==
    exch' = [exch EXCEPT ![a] = [cred |-> c, entry |-> entry, stage |-> "asked", bundle |-> None]]

EndExchange(a) == exch' = [exch EXCEPT ![a] = None]

Keep(c, who, bundle) ==
    /\ byDigest' = [byDigest EXCEPT ![c] = [bundle |-> bundle, cred |-> c]]
    /\ byIdentity' = [byIdentity EXCEPT ![who] = [bundle |-> bundle, cred |-> c]]

Forgotten == UNCHANGED <<byDigest, byIdentity>>

\* authenticate answers from the cache.
CachedPrincipal(c) == byDigest[c] # None /\ ~needs_refresh(byDigest[c].bundle)

\* authenticate keeps the bundle that came back under its digest and its user.
AuthenticateKeeps(a) ==
    IF HasPrincipal(a)
    THEN Keep(exch[a].cred, exch[a].bundle.who, _bundle_from_response(a))
    ELSE Forgotten

\* refresh_bundle: the identity must be the one of the entry that was read before.
RefreshedIdentity(a) == HasPrincipal(a) /\ exch[a].bundle.who = exch[a].entry.bundle.who

RefreshKeeps(a) ==
    IF RefreshedIdentity(a)
    THEN Keep(exch[a].cred, exch[a].entry.bundle.who, _bundle_from_response(a))
    ELSE Forgotten

\* Mutant: any bundle of the same user is taken.
SameUser(a) == RefreshedIdentity(a)

\* GatewayTokenRefresher.refresh: the facts must be those the task was bound to. The
\* bundle that was bound stays current when they are not.
SameScope(a) == RefreshedIdentity(a) /\ exch[a].bundle.facts = ctx[a].facts

RefreshRebinds(a) ==
    ctx' = [ctx EXCEPT ![a] = IF SameScope(a) THEN _bundle_from_response(a) ELSE @]

\* bind_for gives a task the bundle of a user.
BindFor(tasks, u) ==
    ctx' = [a \in Actors |-> IF a \in tasks THEN byIdentity[u].bundle ELSE ctx[a]]

=============================================================================
