---------------------------- MODULE TenantRegistry ----------------------------
(***************************************************************************)
(* Factory accounts.  Platform operators sign in and create, rename,       *)
(* disable and enable factories in tenant_registry; every change is        *)
(* audited, and the audit is purged after its retention.  The business     *)
(* side registers a factory the first time its credential is accepted and  *)
(* turns a disabled one away before the handler runs.  The two sides share *)
(* nothing but the table, and every statement on it is a step of its own   *)
(* that may fail; the business side fails open.                            *)
(***************************************************************************)
EXTENDS Naturals, FiniteSets, Absent

CONSTANTS
    AppKeys,            \* factories
    Operators,          \* user names of platform accounts
    ApiToken,           \* the configured token, an operator that is always admin
    PlatformRoles,      \* {"viewer", "analyst", "admin"}
    Asks,               \* business requests
    TokenTtl,           \* ticks a login token is valid
    AuditDays,          \* ticks an audit record is kept
    RegistryHorizon,    \* bound: the clock stops here
    MaxChanges,         \* bound: operator requests, logins included
    MaxRegistryFaults   \* bound: failing statements

\* A row of the table.
TenantRow == [name : {"named", "placeholder"}, status : {"active", "disabled"}]

ASSUME RegistryAssumption == None \notin TenantRow

VARIABLES
    tnow,
    registry,           \* [AppKeys -> None or [name, status]]: the table
    suspended,          \* history: the factories an operator's write left disabled
    accounts,           \* [Operators -> None or role]: platform_principal
    token,              \* [operators -> None or [role, expires]]: what each holds
    op,                 \* each operator's request
    ask,                \* each business request
    trail,              \* admin_audit: [action, at]
    used                \* what the bounds have counted

tvars == <<tnow, registry, suspended, accounts, token, op, ask, trail, used>>

Holders == Operators \cup {ApiToken}
Idle == [step |-> "idle", action |-> None, key |-> None, name |-> None, status |-> None]
NoAsk == [step |-> "idle", key |-> None, suspended |-> FALSE, blind |-> FALSE]

RegistryInit ==
    /\ tnow = 0
    /\ registry = [k \in AppKeys |-> None]
    /\ suspended = {}
    /\ accounts \in [Operators -> {None, "admin"}]
    /\ token = [h \in Holders |->
          IF h = ApiToken THEN [role |-> "admin", expires |-> RegistryHorizon + 1]
          ELSE IF accounts[h] = None THEN None
          ELSE [role |-> accounts[h], expires |-> TokenTtl]]
    /\ op = [h \in Holders |-> Idle]
    /\ ask = [r \in Asks |-> NoAsk]
    /\ trail = {}
    /\ used = [changes |-> 0, faults |-> 0]

StatementFails == /\ used.faults < MaxRegistryFaults
                  /\ used' = [used EXCEPT !.faults = @ + 1]
StatementRuns == UNCHANGED used
Counted == used.changes < MaxChanges /\ used' = [used EXCEPT !.changes = @ + 1]

BusinessUnchanged == UNCHANGED <<ask, tnow>>
TableUnchanged == UNCHANGED <<registry, suspended>>
AccountsUnchanged == UNCHANGED <<accounts, token>>

Goes(h, step) == op' = [op EXCEPT ![h].step = step]
Answers(h) == op' = [op EXCEPT ![h] = Idle]
Resting(h) == op[h] = Idle

(***************************************************************************)
(* Platform accounts.                                                      *)
(***************************************************************************)
\* The signature holds for every token an operator has; only its expiry can refuse it.
DecodeToken(h) == token[h] # None /\ token[h].expires > tnow

\* Only a bearer token that is the configured one, or is signed and unexpired,
\* names a scope; the role is the one the token carries.
ResolveToken(h) == IF DecodeToken(h) THEN token[h].role ELSE None

AllowsManageTenants(h) == ResolveToken(h) = "admin"

IssueToken(o) == [role |-> accounts[o], expires |-> tnow + TokenTtl]

\* The audit with one more record.
Audited(action) == trail \cup {[action |-> action, at |-> tnow]}

Login(o) ==
    /\ Resting(o) /\ Counted
    /\ \/ /\ accounts[o] # None
          /\ token' = [token EXCEPT ![o] = IssueToken(o)]
          /\ UNCHANGED trail
       \/ /\ trail' = Audited("login_failed")
          /\ UNCHANGED token
    /\ UNCHANGED <<accounts, op>> /\ TableUnchanged /\ BusinessUnchanged

\* A request is refused with the token it arrived with; nothing is checked again later.
Begin(h, request) ==
    /\ Resting(h) /\ Counted
    /\ op' = [op EXCEPT ![h] = IF AllowsManageTenants(h) THEN request ELSE Idle]
    /\ UNCHANGED trail /\ TableUnchanged /\ AccountsUnchanged /\ BusinessUnchanged

Request(step, action, key, name, status) ==
    [step |-> step, action |-> action, key |-> key, name |-> name, status |-> status]

Requests ==
    {Request("account", "register", o, r, None) : o \in Operators, r \in PlatformRoles}
    \cup {Request("insert", "create", k, "named", s) : k \in AppKeys, s \in {"active", "disabled"}}
    \cup ({Request("before", "update", k, n, s) :
             k \in AppKeys, n \in {None, "named"}, s \in {None, "active", "disabled"}}
          \ {Request("before", "update", k, None, None) : k \in AppKeys})
    \cup {Request("before", "disable", k, None, "disabled") : k \in AppKeys}
    \cup {Request("before", "enable", k, None, "active") : k \in AppKeys}

\* A user name is taken once and for all; the role is fixed with it.
CreatePrincipal(h) ==
    LET o == op[h].key IN
    /\ op[h].step = "account" /\ StatementRuns
    /\ IF accounts[o] = None
       THEN accounts' = [accounts EXCEPT ![o] = op[h].name] /\ Goes(h, "audit")
       ELSE UNCHANGED accounts /\ Answers(h)
    /\ UNCHANGED <<token, trail>> /\ TableUnchanged /\ BusinessUnchanged

(***************************************************************************)
(* Factory accounts, the operators' side.                                  *)
(***************************************************************************)
\* The operators' decisions, kept beside the table: a request that was let in while
\* its factory is disabled stays suspect until an operator enables the factory.
Decided(k, status) ==
    /\ suspended' = IF status = "disabled" THEN suspended \cup {k} ELSE suspended \ {k}
    /\ ask' = [r \in Asks |-> IF ask[r].key = k /\ status # "disabled"
                              THEN [ask[r] EXCEPT !.suspended = FALSE] ELSE ask[r]]

\* INSERT: the AppKey is the key, a second row of it is refused.
Inserted(k, row) == IF registry[k] = None THEN [registry EXCEPT ![k] = row] ELSE registry

\* COALESCE: a field the request leaves out keeps what the row has now, not what it
\* had when it was read.
Coalesced(row, request) ==
    [name |-> IF request.name = None THEN row.name ELSE request.name,
     status |-> IF request.status = None THEN row.status ELSE request.status]

\* An AppKey that is there already, registered by a question for instance, refuses
\* the create, whatever status it asks for.
CreateTenant(h) ==
    LET k == op[h].key IN
    /\ op[h].step = "insert" /\ StatementRuns
    /\ registry' = Inserted(k, [name |-> op[h].name, status |-> op[h].status])
    /\ IF registry[k] = None
       THEN Decided(k, op[h].status) /\ Goes(h, "audit")
       ELSE UNCHANGED <<suspended, ask>> /\ Answers(h)
    /\ UNCHANGED <<tnow, trail>> /\ AccountsUnchanged

\* update, disable and enable read the row first, for its AppKey and the audit.
ReadBefore(h) ==
    /\ op[h].step = "before" /\ StatementRuns
    /\ IF registry[op[h].key] = None THEN Answers(h) ELSE Goes(h, "write")
    /\ UNCHANGED trail /\ TableUnchanged /\ AccountsUnchanged /\ BusinessUnchanged

UpdateTenant(h) ==
    LET k == op[h].key IN
    /\ op[h].step = "write" /\ StatementRuns
    /\ registry' = [registry EXCEPT ![k] = Coalesced(registry[k], op[h])]
    /\ IF op[h].status = None THEN UNCHANGED <<suspended, ask>> ELSE Decided(k, op[h].status)
    /\ Goes(h, "audit")
    /\ UNCHANGED <<tnow, trail>> /\ AccountsUnchanged

RecordAudit(h) ==
    /\ op[h].step = "audit" /\ StatementRuns
    /\ trail' = Audited(op[h].action)
    /\ Answers(h)
    /\ TableUnchanged /\ AccountsUnchanged /\ BusinessUnchanged

\* A statement that raises ends the request where it is: a change without its audit
\* record when it is the audit that fails.
OperatorFails(h) ==
    /\ ~Resting(h) /\ StatementFails /\ Answers(h)
    /\ UNCHANGED trail /\ TableUnchanged /\ AccountsUnchanged /\ BusinessUnchanged

\* The retention command.
PurgeAudit ==
    /\ \E e \in trail : e.at + AuditDays < tnow
    /\ trail' = {e \in trail : e.at + AuditDays >= tnow}
    /\ UNCHANGED <<op, used>> /\ TableUnchanged /\ AccountsUnchanged /\ BusinessUnchanged

(***************************************************************************)
(* Factory accounts, the business side.                                    *)
(***************************************************************************)
OperatorsUnchanged == UNCHANGED <<op, trail, tnow, suspended>>

\* The credential exchange names the factory; a credential it refuses ends here.
Arrive(r, k) ==
    /\ ask[r].step = "idle"
    /\ \E accepted \in BOOLEAN :
          ask' = [ask EXCEPT ![r] = [NoAsk EXCEPT !.step = IF accepted THEN "seen" ELSE "refused",
                                                  !.key = k, !.suspended = k \in suspended]]
    /\ UNCHANGED <<registry, used>> /\ AccountsUnchanged /\ OperatorsUnchanged

\* Mutant of RegisterSeen: an upsert in place of the insert.
RegisterSeenUpserts(r) ==
    /\ ask[r].step = "seen" /\ StatementRuns
    /\ registry' = [registry EXCEPT ![ask[r].key] = [name |-> "placeholder", status |-> "active"]]
    /\ ask' = [ask EXCEPT ![r].step = "admit"]
    /\ AccountsUnchanged /\ OperatorsUnchanged

\* INSERT ... ON CONFLICT DO NOTHING; a failing write is alerted and otherwise ignored.
RegisterSeen(r) ==
    /\ ask[r].step = "seen"
    /\ \/ /\ StatementRuns
          /\ registry' = Inserted(ask[r].key, [name |-> "placeholder", status |-> "active"])
       \/ StatementFails /\ UNCHANGED registry
    /\ ask' = [ask EXCEPT ![r].step = "admit"]
    /\ AccountsUnchanged /\ OperatorsUnchanged

\* An unknown factory, and a registry that cannot be read, let the request in.
RequireTenantEnabled(r) ==
    LET row == registry[ask[r].key] IN
    /\ ask[r].step = "admit"
    /\ \/ /\ StatementRuns
          /\ ask' = [ask EXCEPT ![r].step =
                IF row # None /\ row.status = "disabled" THEN "forbidden" ELSE "handled"]
       \/ /\ StatementFails
          /\ ask' = [ask EXCEPT ![r].step = "handled", ![r].blind = TRUE]
    /\ UNCHANGED registry /\ AccountsUnchanged /\ OperatorsUnchanged

RegistryTick ==
    /\ tnow < RegistryHorizon /\ tnow' = tnow + 1
    /\ UNCHANGED <<registry, suspended, accounts, token, op, ask, trail, used>>

RegistryNext ==
    \/ \E o \in Operators : Login(o)
    \/ \E h \in Holders, request \in Requests : Begin(h, request)
    \/ \E h \in Holders :
          \/ CreatePrincipal(h) \/ CreateTenant(h) \/ ReadBefore(h) \/ UpdateTenant(h)
          \/ RecordAudit(h) \/ OperatorFails(h)
    \/ \E r \in Asks : \/ \E k \in AppKeys : Arrive(r, k)
                       \/ RegisterSeen(r) \/ RequireTenantEnabled(r)
    \/ PurgeAudit \/ RegistryTick

RegistrySpec == RegistryInit /\ [][RegistryNext]_tvars

(***************************************************************************)
(* Properties.                                                             *)
(***************************************************************************)
\* A factory that an operator has disabled, and none has enabled since, gets nothing
\* done: a request of it that arrived after that write reaches its handler only when
\* the registry could not be read.  Neither the first-seen registration of the same
\* factory by another request, nor an operator who renames it on what was read before,
\* brings it back.
SuspendedDoesNoWork ==
    \A r \in Asks :
        ask[r].step = "handled" /\ ask[r].suspended /\ ask[r].key \in suspended => ask[r].blind
==============================================================================
