------------------------------ MODULE OpsReports ------------------------------
(***************************************************************************)
(* The operator's breakdowns (by dimension, model, error, MES category and *)
(* operation) and pages (factories, users), computed from the raw facts    *)
(* when they are asked for.  Every statement of a request has a snapshot   *)
(* of its own, and facts are committed, factories registered and renamed   *)
(* between two of them; a page of factories or users is addressed by its   *)
(* offset.  Tokens and questions of a factory row are rollup rows and      *)
(* belong to UsageReports.                                                 *)
(***************************************************************************)
EXTENDS Naturals, Sequences, FiniteSets, Absent

CONSTANTS
    Plants,             \* tenants, as numbers: their ids are sorted
    UsageFacts,         \* the facts that may be committed
    Inquiry,            \* the requests an operator makes
    CategoryRows,       \* mes_operation_category: [operations in the table -> category]
    DefaultCategories,  \* DEFAULT_OPERATION_CATEGORIES
    MaxDimensionRows,   \* max_dimension_rows
    UserPageSize,       \* user_page_size
    UserPageMax,        \* user_page_max
    UsageBefore,        \* the facts committed at the start
    Enrolled, Matching, \* the plants registered, and matched by the name filter, at the start
    MaxMetered,         \* bound: facts committed
    MaxRenames          \* bound: factories renamed

\* A scope without plants is platform-wide; a tenant_ref is the plant it addresses.
UsageFact == [id : Nat, plant : Plants, table : {"interaction", "llm", "mes"}, at : Nat,
              event : {"started", "routed", "completed"},   \* of an interaction
              status : {"completed", "failed", None},
              key : STRING \cup {None},     \* capability, actual_model or operation_id
              error : STRING \cup {None},   \* error_category
              who : Nat \cup {None}]        \* user_subject_id

ReportKinds == {"dimensions", "mes_categories", "mes_failures", "mes_operations", "models",
                "errors", "users", "by_tenant"}

Categories == {"output", "payroll", "order", "other"}

\* The table is seeded by the migrations, and nothing in the code writes it.
ASSUME FactAssumption ==
    /\ UsageFacts \subseteq UsageFact
    /\ \A o \in DOMAIN CategoryRows : CategoryRows[o] \in Categories
    /\ \A o \in DOMAIN DefaultCategories : DefaultCategories[o] \in Categories
    /\ UsageBefore \subseteq UsageFacts /\ IsFiniteSet(UsageBefore)
    /\ None \notin Categories

\* A question was asked by someone: user_subject_id may not be NULL.
ASSUME SubjectAssumption ==
    \A f \in UsageFacts : f.table = "interaction" => f.who \in Nat

ASSUME InquiryAssumption ==
    /\ Plants \subseteq Nat /\ IsFiniteSet(Plants) /\ Enrolled \subseteq Plants
    /\ Inquiry \subseteq [kind : ReportKinds, scope : SUBSET Plants, ref : Plants \cup {None},
                          dimension : STRING \cup {None}, name : BOOLEAN,
                          limit : Nat \cup {None}, start : Nat, end : Nat]
    /\ {MaxDimensionRows, UserPageSize, UserPageMax} \subseteq Nat
    /\ None \notin Plants
    /\ \A S \in SUBSET (Plants \cup {f.who : f \in UsageFacts}) : S # None

VARIABLES
    usage,              \* the facts committed
    enrolled,           \* plants with a tenant_registry row
    matching,           \* plants whose name contains the fragment of a name filter
    renames,
    view                \* the request being answered, and the walk it is a page of

ovars == <<usage, enrolled, matching, renames, view>>

NoView == [step |-> "none", q |-> None, plants |-> {}, accounts |-> {}, requested |-> {},
           counted |-> {}, values |-> <<>>, truncated |-> FALSE,
           offset |-> 0, page |-> {}, shown |-> {},
           asked |-> {}, due |-> None, rows |-> {}, disturbed |-> FALSE]

ReportsInit ==
    /\ usage = UsageBefore /\ renames = 0 /\ view = NoView
    /\ enrolled = Enrolled /\ matching = Matching

(***************************************************************************)
(* Statements.                                                             *)
(***************************************************************************)
InPeriod(q, f) == q.start <= f.at /\ f.at < q.end

TenantsWithFacts(q) == {f.plant : f \in {g \in usage : InPeriod(q, g)}}

FactsIn(table, q, plants) == {f \in usage : f.table = table /\ f.plant \in plants /\ InPeriod(q, f)}

ListInteractionFacts(q, plants) == FactsIn("interaction", q, plants)
ListLlmCallFacts(q, plants) == FactsIn("llm", q, plants)
ListMesCallFacts(q, plants) == FactsIn("mes", q, plants)

\* The table's row, or the reviewed default, or "other".
CategoryOf(operation) ==
    IF operation \in DOMAIN CategoryRows THEN CategoryRows[operation]
    ELSE IF operation \in DOMAIN DefaultCategories THEN DefaultCategories[operation]
    ELSE "other"

\* A finite set in a strict order: every element behind those that precede it.
Ordered(S, Precedes(_, _)) ==
    [i \in 1..Cardinality(S) |->
        CHOOSE x \in S : Cardinality({y \in S : Precedes(y, x)}) = i - 1]

\* Questions per user, the most active first, the id among equals.
UserActivity(q, plants) ==
    LET asked == {f \in ListInteractionFacts(q, plants) : f.event = "started"}
        pairs == {<<u, Cardinality({f \in asked : f.who = u})>> : u \in {f.who : f \in asked}}
    IN Ordered(pairs, LAMBDA a, b : a[2] > b[2] \/ (a[2] = b[2] /\ a[1] < b[1]))

(***************************************************************************)
(* Breakdowns.                                                             *)
(***************************************************************************)
Tally(fs, Label(_)) ==
    [l \in {Label(f) : f \in fs} \ {None} |-> Cardinality({f \in fs : Label(f) = l})]

\* most_common: among labels counted equally often any may be the one that is cut.
MostCommon(tally) ==
    {kept \in SUBSET DOMAIN tally :
       /\ Cardinality(kept) = IF Cardinality(DOMAIN tally) > MaxDimensionRows
                              THEN MaxDimensionRows ELSE Cardinality(DOMAIN tally)
       /\ \A l \in kept, m \in DOMAIN tally \ kept : tally[l] >= tally[m]}

\* Mutant of Overfull: the labels that are left are compared with the limit.
Overfull_afterCut(fs, tally) ==
    \E kept \in MostCommon(tally) : Cardinality(kept) > MaxDimensionRows
\* The facts counted, not the labels, are compared with the limit.
Overfull(fs, tally) == Cardinality(fs) > MaxDimensionRows

Answer(values, truncated) ==
    view' = [view EXCEPT !.step = "done", !.values = values, !.truncated = truncated]

\* A tally cut to its largest entries.
AnswerCapped(fs, Label(_)) ==
    LET tally == Tally(fs, Label) IN
    \E kept \in MostCommon(tally) :
       Answer([l \in kept |-> tally[l]], Overfull({f \in fs : Label(f) # None}, tally))

TablesUnchanged == UNCHANGED <<usage, enrolled, matching, renames>>

Breaking(kind) == view.step = "facts" /\ view.q.kind = kind /\ TablesUnchanged

InteractionDimensions == {"capability", "status", "error_category"}
LlmDimensions == {"actual_model", "error_category"}

FactAttr(dimension, f) ==
    CASE dimension = "status" -> f.status
      [] dimension = "error_category" -> f.error
      [] OTHER -> f.key

Dimensions ==
    LET q == view.q IN
    /\ Breaking("dimensions")
    /\ AnswerCapped(IF q.dimension \in InteractionDimensions THEN ListInteractionFacts(q, view.plants)
                    ELSE ListLlmCallFacts(q, view.plants),
                    LAMBDA f : FactAttr(q.dimension, f))

MesCategories ==
    /\ Breaking("mes_categories")
    /\ Answer(Tally({f \in ListMesCallFacts(view.q, view.plants) : f.status = "completed"},
                    LAMBDA f : CategoryOf(f.key)), FALSE)

\* The failed calls by category, and by error where they have one.
MesFailures ==
    LET failed == {f \in ListMesCallFacts(view.q, view.plants) : f.status = "failed"}
        categories == Tally(failed, LAMBDA f : CategoryOf(f.key))
        errors == Tally(failed, LAMBDA f : f.error) IN
    /\ Breaking("mes_failures")
    /\ Answer([l \in ({"category"} \X DOMAIN categories) \cup ({"error"} \X DOMAIN errors) |->
                 IF l[1] = "category" THEN categories[l[2]] ELSE errors[l[2]]], FALSE)

MesOperations ==
    /\ Breaking("mes_operations")
    /\ AnswerCapped({f \in ListMesCallFacts(view.q, view.plants) : f.status = "completed"},
                    LAMBDA f : f.key)

\* Calls of a model; its four token totals are sums over the same facts.
Models ==
    /\ Breaking("models")
    /\ Answer(Tally(ListLlmCallFacts(view.q, view.plants), LAMBDA f : f.key), FALSE)

\* Errors come from two tables, in two statements.
InteractionErrors ==
    /\ Breaking("errors")
    /\ view' = [view EXCEPT !.step = "more", !.counted = ListInteractionFacts(view.q, view.plants)]

LlmErrors ==
    /\ view.step = "more"
    /\ AnswerCapped(view.counted \cup ListLlmCallFacts(view.q, view.plants), LAMBDA f : f.error)
    /\ TablesUnchanged

(***************************************************************************)
(* Which plants a request is about.                                        *)
(***************************************************************************)
Refused == view' = [view EXCEPT !.step = "refused"]

\* The range is checked where UsageReports does; a dimension nobody knows is refused.
Supported(q) ==
    q.kind = "dimensions" => q.dimension \in InteractionDimensions \cup LlmDimensions

FirstStep(q) == IF q.kind = "by_tenant" THEN "accounts" ELSE "tenants"

Inquire(q) ==
    /\ view.step = "none"
    /\ view' = [NoView EXCEPT !.q = q, !.asked = usage,
                              !.step = IF Supported(q) THEN FirstStep(q) ELSE "refused"]
    /\ TablesUnchanged

CoversTenant(q, p) == q.scope = {} \/ p \in q.scope

\* _resolve_ref: an unknown handle and one outside the scope are refused.
Addresses(q) == q.ref = None \/ (q.ref \in enrolled /\ CoversTenant(q, q.ref))

\* Without plants the report is empty, and complete.
Concerning(plants) ==
    view' = [view EXCEPT !.plants = plants,
               !.step = IF plants = {} THEN "done" ELSE IF view.q.kind = "users" THEN "page" ELSE "facts"]

TenantIds ==
    LET q == view.q
        base == IF q.scope # {} THEN q.scope ELSE TenantsWithFacts(q) IN
    /\ view.step = "tenants" /\ TablesUnchanged
    /\ IF q.ref = None THEN Concerning(base)
       ELSE view' = [view EXCEPT !.plants = base, !.step = "ref"]

ResolveRef ==
    /\ view.step = "ref" /\ TablesUnchanged
    /\ IF Addresses(view.q) THEN Concerning(view.plants \cap {view.q.ref}) ELSE Refused

(***************************************************************************)
(* Pages.                                                                  *)
(***************************************************************************)
ClampPage(limit) ==
    IF limit = None THEN UserPageSize ELSE IF limit < UserPageMax THEN limit ELSE UserPageMax

PageOf(rows) ==
    LET last == view.offset + ClampPage(view.q.limit) IN
    SubSeq(rows, view.offset + 1, IF last < Len(rows) THEN last ELSE Len(rows))

\* The page is shown; next_cursor is the offset behind it while rows are left.
Shows(page, total) ==
    /\ view' = [view EXCEPT !.step = IF view.offset + Len(page) < total THEN "answered" ELSE "done",
                            !.offset = view.offset + Len(page),
                            !.shown = @ \cup {page[i] : i \in 1..Len(page)}]
    /\ TablesUnchanged

\* The registry as rows and by handle, before anything else is read.
RegistryIndex ==
    /\ view.step = "accounts" /\ TablesUnchanged
    /\ IF Addresses(view.q)
       THEN view' = [view EXCEPT !.step = IF view.q.name THEN "names" ELSE "candidates",
                                 !.accounts = enrolled,
                                 !.requested = IF view.q.ref = None THEN {} ELSE {view.q.ref}]
       ELSE Refused

SearchNames ==
    /\ view.step = "names" /\ TablesUnchanged
    /\ view' = [view EXCEPT !.step = "candidates", !.requested = @ \cup (matching \cap enrolled)]

\* Registered plants and plants with facts, within the scope; a filter that found
\* nothing filters nothing.
CandidateTenantKeys ==
    LET q == view.q
        scoped == IF q.scope # {} THEN q.scope ELSE view.accounts \cup TenantsWithFacts(q)
        candidates == IF view.requested # {} THEN view.requested ELSE scoped IN
    /\ view.step = "candidates" /\ TablesUnchanged
    /\ IF ~(view.requested \subseteq scoped) THEN Refused
       ELSE view' = [view EXCEPT !.step = IF candidates = {} THEN "done" ELSE "rows",
                       !.plants = candidates, !.rows = candidates,
                       !.due = IF @ = None THEN candidates ELSE @,
                       !.disturbed = @ \/ (view.due # None /\ ~(view.rows \subseteq candidates))]

\* Successful MES calls of each plant of the page, in the order of the plants.
ByTenant ==
    LET mes(p) == {f \in ListMesCallFacts(view.q, {p}) : f.status = "completed"}
        keys == Ordered(view.plants, LAMBDA a, b : a < b)
        items == [i \in 1..Len(keys) |->
                    [of |-> keys[i], mes |-> Tally(mes(keys[i]), LAMBDA f : CategoryOf(f.key))]]
    IN view.step = "rows" /\ Shows(PageOf(items), Len(items))

\* The page and the total are two statements.
Users ==
    LET activity == UserActivity(view.q, view.plants) IN
    /\ view.step = "page" /\ TablesUnchanged
    /\ view' = [view EXCEPT !.step = "total",
                  !.page = PageOf(activity), !.rows = activity,
                  !.due = IF @ = None THEN {activity[i][1] : i \in 1..Len(activity)} ELSE @,
                  !.disturbed = @ \/ (view.due # None /\ view.rows # activity)]

UsersTotal ==
    /\ view.step = "total"
    /\ Shows([i \in 1..Len(view.page) |-> [of |-> view.page[i][1], mes |-> <<>>]],
             Len(UserActivity(view.q, view.plants)))

\* The operator asks for the next page, a request of its own.
NextPage ==
    /\ view.step = "answered" /\ TablesUnchanged
    /\ view' = [view EXCEPT !.step = FirstStep(view.q)]

(***************************************************************************)
(* What happens meanwhile.                                                 *)
(***************************************************************************)
Meter(f) ==
    /\ f \notin usage /\ Cardinality(usage \ UsageBefore) < MaxMetered /\ usage' = usage \cup {f}
    /\ UNCHANGED <<enrolled, matching, renames, view>>

Enrol(p) ==
    /\ p \notin enrolled /\ enrolled' = enrolled \cup {p}
    /\ UNCHANGED <<usage, matching, renames, view>>

Rename(p) ==
    /\ p \in enrolled /\ renames < MaxRenames /\ renames' = renames + 1
    /\ matching' = IF p \in matching THEN matching \ {p} ELSE matching \cup {p}
    /\ UNCHANGED <<usage, enrolled, view>>

ReportsNext ==
    \/ \E q \in Inquiry : Inquire(q)
    \/ TenantIds \/ ResolveRef
    \/ Dimensions \/ MesCategories \/ MesFailures \/ MesOperations \/ Models
    \/ InteractionErrors \/ LlmErrors
    \/ RegistryIndex \/ SearchNames \/ CandidateTenantKeys \/ ByTenant
    \/ Users \/ UsersTotal \/ NextPage
    \/ \E f \in UsageFacts : Meter(f)
    \/ \E p \in Plants : Enrol(p) \/ Rename(p)

ReportsSpec == ReportsInit /\ [][ReportsNext]_ovars

(***************************************************************************)
(* Properties.                                                             *)
(***************************************************************************)
\* What a fact is counted under.
LabelsOf(q, f) ==
    LET mes(status, labels) == IF f.table = "mes" /\ f.status = status THEN labels ELSE {} IN
    CASE q.kind = "dimensions" ->
           IF f.table = (IF q.dimension = "actual_model" THEN "llm" ELSE "interaction")
           THEN {FactAttr(q.dimension, f)} ELSE {}
      [] q.kind = "models" -> IF f.table = "llm" THEN {f.key} ELSE {}
      [] q.kind = "errors" -> IF f.table # "mes" THEN {f.error} ELSE {}
      [] q.kind = "mes_operations" -> mes("completed", {f.key})
      [] q.kind = "mes_failures" ->
           mes("failed", {<<"category", CategoryOf(f.key)>>} \cup ({"error"} \X ({f.error} \ {None})))
      [] OTHER -> mes("completed", {CategoryOf(f.key)})

\* The counts lie between those of the facts before and after.
Between(values, q, before, after) ==
    LET count(fs, l) == Cardinality({f \in fs : InPeriod(q, f) /\ l \in LabelsOf(q, f)})
        value(l) == IF l \in DOMAIN values THEN values[l] ELSE 0 IN
    \A l \in (UNION {LabelsOf(q, f) : f \in UsageFacts} \cup DOMAIN values) \ {None} :
       count(before, l) <= value(l) /\ value(l) <= count(after, l)

\* An operator's report leaves nothing out that was there when it was asked for, and
\* counts nothing outside its factories and its period, nor anything twice: every
\* number of a breakdown that does not call itself truncated, and the MES calls of
\* every factory row, lie between the facts committed before the request and the
\* facts committed by now.  A walk over the pages of factories shows every factory of
\* its first page's list, even while factories join that list, unless one left it
\* (a rename under a name filter); a walk over users does unless the ranking moved.
ReportsLeaveNothingOut ==
    LET q == view.q
        mine(fs, plants) == {f \in fs : f.plant \in plants}
        plants == {p \in Plants : CoversTenant(q, p) /\ q.ref \in {None, p}} IN
    /\ view.step = "done" /\ ~view.truncated /\ q.kind \notin {"users", "by_tenant"} =>
          Between(view.values, q, mine(view.asked, plants), mine(usage, plants))
    /\ view.step # "none" /\ q.kind = "by_tenant" =>
          \A r \in view.shown :
             CoversTenant(q, r.of) /\ Between(r.mes, q, mine(view.asked, {r.of}), mine(usage, {r.of}))
    /\ view.step = "done" /\ view.due # None /\ ~view.disturbed =>
          view.due \subseteq {r.of : r \in view.shown}
==============================================================================
