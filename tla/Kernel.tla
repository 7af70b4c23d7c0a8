------------------------------- MODULE Kernel -------------------------------
(***************************************************************************)
(* The execution kernel (execution/kernel.py) runs reviewed recipes for a  *)
(* viewer who pages through the order groups of the answer and opens one   *)
(* of them, while the data of the source changes, requests hang, fail, are *)
(* answered from the result cache, and the user cancels.                   *)
(*                                                                         *)
(* A row is an order: its plan and a value. The summary of a recipe has    *)
(* one group per plan, the details of a group are its rows.                *)
(***************************************************************************)
EXTENDS Naturals, Sequences, SequencesExt, FiniteSets, Absent

CONSTANTS
    Recipes,            \* what RecipeRegistry has loaded
    Operations,         \* registered operations
    PlanOrder,          \* the plan codes, in the order of the distinct-values query
    World,              \* the successive contents of the source
    Concurrencies,      \* values of fanout_concurrency
    MaxApiCalls,        \* KernelSettings.max_api_calls
    MaxMesRequests, MaxProcessedRows, CallTimeout,      \* RunLimits
    AttemptTimeout, MaxRetries,                         \* AdapterSettings
    GroupPageSize,      \* preview_max_groups
    MaxRuns             \* bound: runs of one viewer of an answer with pages

Plans == Range(PlanOrder)
Kinds == {"upstream_timeout", "upstream_unavailable"}   \* _UPSTREAM_DEGRADE_TYPES, two of four
Refusals == {"forbidden", "budget_exhausted"}           \* errors that are never degraded
Reasons == Kinds \cup {"max_pages", "call_budget_exhausted"}     \* of an incomplete fetch

VARIABLES
    recipe, concurrency,
    version,            \* which content the source has now
    request,            \* CapabilityRunRequest: group page, at most one snapshot, selected group
    pc,
    todo, wanted,       \* covered combinations not yet requested; how many there are in all
    batch,              \* the requests of the current gather
    acc,                \* the locals of _fetch_fanned and what they were made of
    walked, fetches, calls,
    control,            \* RunControl: requests and rows used, cancelled, why it has stopped
    elapsed,            \* since with_call began
    table,              \* ResultTable
    result,             \* what run returned or raised
    viewed,             \* what the viewer holds: snapshot, groups seen, the whole summary
    began,              \* the version of the source when the run started
    runs

stepVars == <<todo, wanted, batch, acc>>
walkVars == <<walked, fetches, calls>>
viewVars == <<result, viewed, runs>>
fixed == <<recipe, concurrency>>
kernelVars ==
    <<fixed, version, request, pc, stepVars, walkVars, control, elapsed, table, viewVars, began>>

-----------------------------------------------------------------------------
(* Recipes.                                                                *)

\* A step: an operation and, for a fan-out, the earlier step its parameter is bound to.
\* Only the references are checked, not that the bound step comes first.
validate_recipe(r) ==
    /\ \A i, j \in DOMAIN r.steps : i # j => r.steps[i].id # r.steps[j].id
    /\ \A i \in DOMAIN r.steps :
          /\ r.steps[i].operation \in Operations
          /\ r.steps[i].from \in {None} \cup {r.steps[j].id : j \in DOMAIN r.steps}

\* Details need a group key shared with the result, and a card.
validate_aux_outputs(r) == r.details => r.card

load_recipes == \A r \in Recipes : validate_recipe(r) /\ validate_aux_outputs(r)

ASSUME RecipesAssumption == load_recipes

\* A capability has a result column, and a column the step it comes from.
ASSUME StepsAssumption == \A r \in Recipes : r.steps \in Seq(Range(r.steps)) /\ r.steps # <<>>
ASSUME LimitsAssumption ==
    /\ {MaxApiCalls, MaxMesRequests, MaxProcessedRows, CallTimeout, AttemptTimeout, MaxRetries,
        GroupPageSize, MaxRuns} \subseteq Nat
    /\ GroupPageSize > 0 /\ CallTimeout > 0 /\ AttemptTimeout > 0
    /\ Concurrencies \subseteq Nat \ {0}
    /\ PlanOrder \in Seq(Plans)
    /\ \A i, j \in DOMAIN PlanOrder : i # j => PlanOrder[i] # PlanOrder[j]
    /\ World \in Seq(Range(World)) /\ World # <<>>
    /\ \A v \in DOMAIN World : World[v] \in Seq([plan : Plans, value : Nat])
ASSUME NoneAssumption ==
    /\ None \notin Plans \cup Reasons \cup Refusals
                   \cup {"bounded sandbox computation failed", "order_view_snapshot_changed",
                         "order_view_unavailable"}
    /\ \A why \in Reasons \cup {"incomplete"} : None # [source |-> why \in Kinds, why |-> why]
    /\ None # [source |-> FALSE, why |-> "metric_unavailable"]

-----------------------------------------------------------------------------
(* Answers of the source.                                                  *)

Nothing == [failed |-> None, rows |-> <<>>, complete |-> TRUE, reason |-> None,
            footer |-> None, calls |-> 0, generated |-> None, shadow |-> None]

Failed(why) == [Nothing EXCEPT !.failed = why]

\* The rows of a plan, or all of them, in their order.
RowsOf(rows, plan) ==
    FoldLeft(LAMBDA kept, row : IF plan \in {None, row.plan} THEN Append(kept, row) ELSE kept,
             <<>>, rows)

\* The rows of a request: everything, or what belongs to the plan it was bound to.
Matching(v, plan) == RowsOf(World[v], plan)

Live(v, plan) ==
    [Nothing EXCEPT !.rows = Matching(v, plan), !.footer = Len(Matching(v, plan)), !.calls = 1]

\* A walk that the pager cut short.
Cut(v, plan) ==
    [Live(v, plan) EXCEPT !.rows = IF @ = <<>> THEN @ ELSE Front(@), !.complete = FALSE,
                          !.reason = "max_pages"]

\* From the result cache, with the version it was generated from; a checked one carries
\* what the source says now (data_api/result_cache.py).
_source_call_count(a) == IF a.generated = None \/ a.shadow # None THEN 1 ELSE 0

Cached(v, plan) == [Live(v, plan) EXCEPT !.generated = v, !.calls = 0]
Shadowed(v, now, plan) ==
    LET a == [Live(v, plan) EXCEPT !.generated = v, !.shadow = Live(now, plan)]
    IN [a EXCEPT !.calls = _source_call_count(a)]

-----------------------------------------------------------------------------

NoControl == [used |-> 0, rows |-> 0, cancelled |-> FALSE, stopped |-> None]
NoRequest == [page |-> 1, snapshot |-> {}, selected |-> None]
NoView == [snapshot |-> {}, groups |-> <<>>, whole |-> <<>>, opened |-> <<>>, more |-> FALSE]
NoAcc == [fetch |-> Nothing, said |-> <<>>]
NoResult == [kind |-> "none", code |-> None]

KernelInit ==
    /\ recipe \in Recipes /\ concurrency \in Concurrencies
    /\ version = 1 /\ began = 1
    /\ request = NoRequest
    /\ pc = "idle"
    /\ todo = <<>> /\ wanted = 0 /\ batch = <<>> /\ acc = NoAcc
    /\ walked = <<>> /\ fetches = <<>> /\ calls = 0
    /\ control = NoControl /\ elapsed = 0
    /\ table = None /\ result = NoResult /\ viewed = NoView
    /\ runs = 0

\* The run is over: nothing of it is left in flight.
Raise(code) ==
    /\ pc' = "idle" /\ result' = [kind |-> "failed", code |-> code]
    /\ todo' = <<>> /\ batch' = <<>> /\ acc' = NoAcc /\ wanted' = 0

-----------------------------------------------------------------------------
(* run: validation of the request.                                         *)

\* What a viewer asks for: the answer from the start, the next page of groups of the
\* answer it holds, or one of the groups it has seen.
ViewerRequests ==
    {NoRequest}
    \cup (IF viewed.more
          THEN {[NoRequest EXCEPT !.page = Len(viewed.groups) \div GroupPageSize + 1,
                                  !.snapshot = viewed.snapshot]} ELSE {})
    \cup {[NoRequest EXCEPT !.selected = g.plan, !.snapshot = viewed.snapshot]
            : g \in Range(viewed.groups)}

\* A later page needs the snapshot it belongs to, and neither pages nor selections exist
\* without details.
_validate_group_page(r) ==
    /\ r.page > 1 => r.snapshot # {}
    /\ r.selected # None => r.page = 1
    /\ (r.page # 1 \/ r.snapshot # {}) => recipe.details

_validate_order_view(r) == r.selected # None => recipe.details

StartRun(r) ==
    /\ pc = "idle" /\ runs < (IF recipe.details THEN MaxRuns ELSE 1)
    /\ r \in ViewerRequests
    /\ _validate_order_view(r) /\ _validate_group_page(r)
    /\ request' = r /\ runs' = runs + 1 /\ began' = version
    /\ pc' = "step"
    /\ walked' = <<>> /\ fetches' = <<>> /\ calls' = 0
    /\ control' = NoControl /\ elapsed' = 0
    /\ table' = None /\ result' = NoResult
    /\ viewed' = IF r = NoRequest THEN NoView ELSE viewed
    /\ UNCHANGED <<fixed, version, stepVars>>

-----------------------------------------------------------------------------
(* _fetch_api_steps.                                                       *)

Current == recipe.steps[Len(fetches) + 1]
TableOf(id) == LET i == CHOOSE i \in DOMAIN recipe.steps : recipe.steps[i].id = id
               IN fetches[i].rows
Registered(id) == \E i \in DOMAIN fetches : recipe.steps[i].id = id

\* The plans of the rows, as positions in PlanOrder, and in that order.
PositionsOf(rows) == {k \in DOMAIN PlanOrder : \E i \in DOMAIN rows : rows[i].plan = PlanOrder[k]}

_distinct_values_sql(rows) ==
    LET at == PositionsOf(rows)
        Nth(n) == CHOOSE k \in at : Cardinality({j \in at : j <= k}) = n
    IN [n \in 1..Cardinality(at) |-> PlanOrder[Nth(n)]]

Asked(plan) == [plan |-> plan, state |-> "queued", waited |-> 0, attempt |-> 1, said |-> None]

\* The next batch of a gather.
Slice(s) == IF Len(s) < concurrency THEN Len(s) ELSE concurrency

Gather(s) ==
    /\ batch' = [i \in 1..Slice(s) |-> Asked(s[i])]
    /\ todo' = SubSeq(s, Slice(s) + 1, Len(s))

\* Mutant: the calls of earlier steps are not counted.
BudgetPerStep == MaxApiCalls

\* How many combinations the remaining call budget covers, decided before any request.
Budget == IF calls < MaxApiCalls THEN MaxApiCalls - calls ELSE 0

BeginStep ==
    /\ pc = "step" /\ Len(fetches) < Len(recipe.steps)
    /\ acc' = NoAcc
    /\ IF Current.from = None
       THEN /\ Gather(<<None>>) /\ wanted' = 1 /\ pc' = "gather" /\ UNCHANGED result
       ELSE IF ~Registered(Current.from)
       THEN Raise("sandbox rejected param binding")
       ELSE LET combos  == _distinct_values_sql(TableOf(Current.from))
                covered == SubSeq(combos, 1, IF Len(combos) < Budget THEN Len(combos) ELSE Budget)
            IN Gather(covered) /\ wanted' = Len(combos) /\ pc' = "gather" /\ UNCHANGED result
    /\ UNCHANGED <<fixed, version, request, walkVars, control, elapsed, table, viewed, runs,
                   began>>

Answered(i, a) == batch' = [batch EXCEPT ![i].state = "back", ![i].said = a]

\* The scoped executor finds the operation's answer in the cache: no request is sent.
AnswerFromCache(i) ==
    /\ batch[i].state = "queued"
    /\ \E v \in {version - 1, version} \cap DOMAIN World : Answered(i, Cached(v, batch[i].plan))
    /\ UNCHANGED control

\* consume_upstream_attempt: one more request of the run's budget, or the run stops.
Attempt(i, e) ==
    IF control.used < MaxMesRequests
    THEN control' = [control EXCEPT !.used = @ + 1] /\ batch' = [batch EXCEPT ![i] = e]
    ELSE /\ control' = [control EXCEPT !.stopped = "budget_exhausted"]
         /\ Answered(i, Failed("budget_exhausted"))

SendRequest(i) == batch[i].state = "queued" /\ Attempt(i, [batch[i] EXCEPT !.state = "sent"])

\* The source answers; the cache may answer for it while the source is only compared with;
\* or it refuses, which no later step can make up for.
Reply(i) ==
    /\ batch[i].state = "sent"
    /\ \/ Answered(i, Live(version, batch[i].plan))
       \/ Answered(i, Cut(version, batch[i].plan))
       \/ \E v \in {version - 1} \cap DOMAIN World :
             Answered(i, Shadowed(v, version, batch[i].plan))
       \/ Answered(i, Failed("upstream_unavailable"))
       \/ Answered(i, Failed("forbidden"))
    /\ UNCHANGED control

\* An attempt that hangs is given up after its own timeout and sent again, up to MaxRetries.
GiveUp(i) ==
    /\ batch[i].state = "sent" /\ batch[i].waited >= AttemptTimeout
    /\ IF batch[i].attempt <= MaxRetries
       THEN Attempt(i, [batch[i] EXCEPT !.attempt = @ + 1, !.waited = 0])
       ELSE Answered(i, Failed("upstream_timeout")) /\ UNCHANGED control

requestFrame == <<fixed, version, request, pc, todo, wanted, acc, walkVars, elapsed, table,
                  viewVars, began>>

\* The kernel's side of a request; when the source replies is not up to it.
_fetch_one ==
    /\ pc = "gather"
    /\ \E i \in DOMAIN batch : AnswerFromCache(i) \/ SendRequest(i) \/ GiveUp(i)
    /\ UNCHANGED requestFrame

SourceReplies ==
    /\ pc = "gather"
    /\ \E i \in DOMAIN batch : Reply(i)
    /\ UNCHANGED requestFrame

\* One outcome of a gathered batch, in combination order.
Folded(a, entry) ==
    IF a.fetch.failed # None THEN a
    ELSE LET o == entry.said
         IN [said  |-> Append(a.said, o),
             fetch |-> IF o.failed # None THEN Failed(o.failed)
                       ELSE [a.fetch EXCEPT
                                !.footer = IF o.footer # None THEN o.footer ELSE @,
                                !.rows = @ \o o.rows,
                                !.complete = @ /\ o.complete,
                                !.reason = IF ~o.complete /\ o.reason # None THEN o.reason ELSE @,
                                !.calls = @ + o.calls]]

\* What the fan-out returns when every covered combination has been folded in.
FannedResult(f, covered) ==
    [f EXCEPT !.complete = @ /\ covered = wanted,
              !.reason = IF covered < wanted THEN "call_budget_exhausted" ELSE @,
              !.footer = IF wanted <= 1 THEN @ ELSE None]

\* A source failure degrades the step to an empty, incomplete fetch.
UpstreamDegraded(why) == [Nothing EXCEPT !.complete = FALSE, !.reason = why]

\* Why RunControl.check would raise, if it would.
StopCode == IF control.stopped # None THEN control.stopped
            ELSE IF control.cancelled THEN "cancelled" ELSE None

\* The step is over: its rows are counted and registered.
RegisterFetch(f, said, fanned) ==
    IF StopCode # None
    THEN Raise(StopCode) /\ UNCHANGED <<walkVars, control>>
    ELSE IF control.rows + Len(f.rows) > MaxProcessedRows
    THEN /\ Raise("budget_exhausted")
         /\ control' = [control EXCEPT !.stopped = "budget_exhausted"]
         /\ UNCHANGED walkVars
    ELSE /\ control' = [control EXCEPT !.rows = @ + Len(f.rows)]
         /\ fetches' = Append(fetches, f) /\ calls' = calls + f.calls
         /\ walked' = Append(walked, [said |-> said, wanted |-> wanted, fanned |-> fanned])
         /\ pc' = "step" /\ batch' = <<>> /\ todo' = <<>> /\ acc' = NoAcc /\ wanted' = 0
         /\ UNCHANGED result

Gathered ==
    /\ pc = "gather" /\ \A i \in DOMAIN batch : batch[i].state = "back"
    /\ LET a      == FoldLeft(Folded, acc, batch)
           f      == a.fetch
           fanned == Current.from # None
       IN IF f.failed \in Kinds
          THEN RegisterFetch(UpstreamDegraded(f.failed), a.said, fanned)
          ELSE IF f.failed # None
          THEN Raise(f.failed) /\ UNCHANGED <<walkVars, control>>
          ELSE IF todo # <<>>
          THEN acc' = a /\ Gather(todo) /\ UNCHANGED <<pc, wanted, result, walkVars, control>>
          ELSE RegisterFetch(IF fanned THEN FannedResult(f, Len(a.said)) ELSE a.said[1],
                             a.said, fanned)
    /\ UNCHANGED <<fixed, version, request, elapsed, table, viewed, runs, began>>

\* with_call polls: a cancelled, stopped or overdue run ends and its task is cancelled.
WithCallStops ==
    /\ pc \in {"step", "gather"}
    /\ StopCode # None \/ elapsed >= CallTimeout
    /\ Raise(IF StopCode # None THEN StopCode ELSE "deadline_exceeded")
    /\ UNCHANGED <<fixed, version, request, walkVars, control, elapsed, table, viewed, runs,
                   began>>

-----------------------------------------------------------------------------
(* _build_table.                                                           *)

\* Mutant: a later complete step clears the mark of an earlier one.
ReasonOfLastStep(fs) ==
    IF Last(fs).complete THEN None ELSE [source |-> Last(fs).reason \in Kinds, why |-> Last(fs).reason]

\* The last incomplete fetch names the reason.
IncompleteReason(fs) ==
    LET bad  == {i \in DOMAIN fs : ~fs[i].complete}
        last == fs[Max(bad)].reason
        why  == IF last = None THEN "incomplete" ELSE last
    IN IF bad = {} THEN None ELSE [source |-> why \in Kinds, why |-> why]

_dependency_empty(fs) == \A i \in DOMAIN fs : fs[i].rows = <<>>

\* One summary per plan, with its values.
Summaries(rows) ==
    LET plans == _distinct_values_sql(rows)
    IN [i \in DOMAIN plans |->
          [plan |-> plans[i], values |-> RowsOf(rows, plans[i])]]

\* The local compute of the first step.
_run_compute_steps(fs) == IF _dependency_empty(fs) THEN <<>> ELSE Summaries(fs[1].rows)

\* A column whose metric is not confirmed is shown as unavailable.
WithMetrics(rows) == IF recipe.confirmed THEN rows
                     ELSE [i \in DOMAIN rows |-> [rows[i] EXCEPT !.values = "unavailable"]]

\* Column totals; without one, the sum over the first source rows there are.
_build_totals(rows, fs) ==
    IF rows # <<>> /\ recipe.confirmed THEN "columns"
    ELSE IF _dependency_empty(fs) THEN "none" ELSE "je"

\* The groups of a page, or the one selected.
PageOf(rows, r) ==
    IF r.selected # None
    THEN LET at == {i \in DOMAIN rows : rows[i].plan = r.selected}
         IN IF at = {} THEN <<>> ELSE <<rows[CHOOSE i \in at : TRUE]>>
    ELSE LET from == (r.page - 1) * GroupPageSize
         IN SubSeq(rows, from + 1,
                   IF Len(rows) < from + GroupPageSize THEN Len(rows) ELSE from + GroupPageSize)

\* A selected group that the result does not have is a ValueError.
build_order_groups(rows, r) ==
    [gone   |-> r.selected # None /\ ~\E i \in DOMAIN rows : rows[i].plan = r.selected,
     groups |-> PageOf(rows, r),
     more   |-> /\ r.selected = None
                /\ (r.page - 1) * GroupPageSize + Len(PageOf(rows, r)) < Len(rows)]

\* An empty window has no card; details need one.
_build_card(rows, r) ==
    IF ~recipe.card \/ rows = <<>> THEN None
    ELSE IF recipe.details THEN build_order_groups(rows, r)
    ELSE [gone |-> FALSE, groups |-> <<>>, more |-> FALSE]

_build_table(fs, r) ==
    LET summary == _run_compute_steps(fs)
        fetched == IncompleteReason(fs)
    IN [rows   |-> WithMetrics(summary),
        reason |-> IF fetched = None /\ summary # <<>> /\ ~recipe.confirmed
                   THEN [source |-> FALSE, why |-> "metric_unavailable"] ELSE fetched,
        totals |-> _build_totals(summary, fs),
        card   |-> _build_card(WithMetrics(summary), r)]

Unbuilt(t) == t.card # None /\ t.card.gone

\* The computation runs in a thread; whatever it raises becomes one error.
Build ==
    /\ pc = "step" /\ Len(fetches) = Len(recipe.steps)
    /\ ~control.cancelled /\ control.stopped = None
    /\ LET t == _build_table(fetches, request)
       IN IF Unbuilt(t)
          THEN Raise("bounded sandbox computation failed") /\ UNCHANGED table
          ELSE table' = t /\ pc' = "verify" /\ UNCHANGED <<result, stepVars>>
    /\ UNCHANGED <<fixed, version, request, walkVars, control, elapsed, viewed, runs, began>>

\* run_sandbox_call: a computation that is cancelled or slower than call_timeout is
\* interrupted and awaited.
Interrupted ==
    /\ pc = "verify" \/ (pc = "step" /\ Len(fetches) = Len(recipe.steps))
    /\ Raise(IF control.cancelled THEN "cancelled" ELSE "deadline_exceeded")
    /\ UNCHANGED <<fixed, version, request, walkVars, control, elapsed, table, viewed, runs,
                   began>>

-----------------------------------------------------------------------------
(* _verify_final_shadow and the answer.                                    *)

ShadowFetches == [i \in DOMAIN fetches |->
    IF fetches[i].shadow # None THEN fetches[i].shadow ELSE fetches[i]]

\* The answers that are delivered: the cached ones if the table computed from the
\* realtime rows is the same, else the realtime ones, without cache provenance.
Verified ==
    LET realtime == _build_table(ShadowFetches, request)
    IN IF (\A i \in DOMAIN fetches : fetches[i].shadow = None) \/ table = realtime
       THEN [table |-> table, fetches |-> fetches]
       ELSE [table |-> realtime,
             fetches |-> [i \in DOMAIN fetches |-> [Nothing EXCEPT !.rows = ShadowFetches[i].rows]]]

\* Mutant: the digest leaves the rows out.
SnapshotAges(fs) == [i \in DOMAIN fs |-> fs[i].generated]

\* The digest of the source rows and of the age of cached ones.
SnapshotId(fs) == [i \in DOMAIN fs |-> [rows |-> fs[i].rows, generated |-> fs[i].generated]]

_cache_provenance(fs) == {fs[i].generated : i \in DOMAIN fs} \ {None}

_to_run_result(v) ==
    [kind |-> "answer", code |-> None, rows |-> v.table.rows, reason |-> v.table.reason,
     totals |-> v.table.totals, calls |-> calls, ages |-> _cache_provenance(v.fetches)]

\* What the viewer makes of a page or of an opened group.
Shown(t, id) ==
    IF request.selected # None THEN [viewed EXCEPT !.opened = t.card.groups]
    ELSE IF request.page > 1
    THEN [viewed EXCEPT !.groups = @ \o t.card.groups, !.more = t.card.more]
    ELSE [snapshot |-> {id}, groups |-> t.card.groups, whole |-> t.rows, opened |-> <<>>,
          more |-> t.card.more]

_attach_order_view_context ==
    LET v  == Verified
        id == SnapshotId(v.fetches)
    IN IF Unbuilt(v.table)
       THEN [code |-> "bounded sandbox computation failed"]
       ELSE IF request.snapshot # {} /\ id \notin request.snapshot
       THEN [code |-> "order_view_snapshot_changed"]
       ELSE IF request.selected # None /\ v.table.card = None
       THEN [code |-> "order_view_unavailable"]
       ELSE [code |-> None, result |-> _to_run_result(v),
             viewed |-> IF recipe.details /\ v.table.card # None THEN Shown(v.table, id)
                        ELSE viewed]

Deliver ==
    /\ pc = "verify" /\ ~control.cancelled
    /\ LET d == _attach_order_view_context
       IN IF d.code # None THEN Raise(d.code) /\ UNCHANGED viewed
          ELSE pc' = "idle" /\ result' = d.result /\ viewed' = d.viewed /\ UNCHANGED stepVars
    /\ UNCHANGED <<fixed, version, request, walkVars, control, elapsed, table, runs, began>>

-----------------------------------------------------------------------------
(* The source, the user and time.                                          *)

SourceChanges ==
    /\ version < Len(World) /\ version' = version + 1
    /\ UNCHANGED <<fixed, request, pc, stepVars, walkVars, control, elapsed, table, viewVars,
                   began>>

Cancel ==
    /\ pc # "idle" /\ ~control.cancelled
    /\ control' = [control EXCEPT !.cancelled = TRUE]
    /\ UNCHANGED <<fixed, version, request, pc, stepVars, walkVars, elapsed, table, viewVars,
                   began>>

\* Time passes while requests hang; what is due happens first.
Tick ==
    /\ pc = "gather" /\ elapsed < CallTimeout
    /\ \E i \in DOMAIN batch : batch[i].state = "sent"
    /\ \A i \in DOMAIN batch : batch[i].state = "sent" => batch[i].waited < AttemptTimeout
    /\ elapsed' = elapsed + 1
    /\ batch' = [i \in DOMAIN batch |-> IF batch[i].state = "sent"
                                        THEN [batch[i] EXCEPT !.waited = @ + 1] ELSE batch[i]]
    /\ UNCHANGED <<fixed, version, request, pc, todo, wanted, acc, walkVars, control, table,
                   viewVars, began>>

KernelNext ==
    \/ \E r \in ViewerRequests : StartRun(r)
    \/ BeginStep \/ _fetch_one \/ Gathered \/ WithCallStops
    \/ Build \/ Interrupted \/ Deliver
    \/ SourceReplies \/ SourceChanges \/ Cancel \/ Tick

KernelSpec == KernelInit /\ [][KernelNext]_kernelVars
-----------------------------------------------------------------------------
(* Properties.                                                             *)

FetchAnswers ==
    [failed : Kinds \cup Refusals \cup {None}, rows : Seq([plan : Plans, value : Nat]),
     complete : BOOLEAN, reason : Reasons \cup {None}, footer : Nat \cup {None},
     calls : Nat, generated : (DOMAIN World) \cup {None}]
Bare(a) == [f \in DOMAIN a \ {"shadow"} |-> a[f]]

TypeOK ==
    /\ recipe \in Recipes /\ concurrency \in Concurrencies
    /\ version \in DOMAIN World /\ began \in 1..version
    /\ pc \in {"idle", "step", "gather", "verify"}
    /\ Len(todo) + Len(batch) <= wanted /\ Len(batch) <= concurrency
    /\ \A i \in DOMAIN batch :
          /\ batch[i].plan \in Plans \cup {None} /\ batch[i].state \in {"queued", "sent", "back"}
          /\ batch[i].waited \in 0..AttemptTimeout /\ batch[i].attempt \in 1..(MaxRetries + 1)
    /\ \A i \in DOMAIN fetches : Bare(fetches[i]) \in FetchAnswers
    /\ Len(walked) = Len(fetches) /\ Len(fetches) <= Len(recipe.steps)
    /\ control.used \in 0..MaxMesRequests /\ control.rows \in 0..MaxProcessedRows
    /\ elapsed \in 0..CallTimeout
    /\ runs \in 0..MaxRuns

\* Requests are issued in batches and answered in any order, but what a run fetches is what
\* one request after the other would have fetched (_fetch_fanned: "every concurrency level
\* produces the same rows, request count, footer and reason as the serial walk").
Serial == INSTANCE SerialWalk WITH Degradable <- Kinds
SerialEquivalence == Serial!Spec

\* An answer that is not marked incomplete has everything: each step asked for every value it
\* was bound to, every request was answered in full, and the summary shows the source as it was
\* during the run (or one change before, when it came from the cache), never a failed or cut
\* fetch as "no data".
WholeOrMarked ==
    result.kind = "answer" /\ result.reason = None =>
        /\ \A k \in DOMAIN walked :
              /\ Len(walked[k].said) = walked[k].wanted
              /\ walked[k].fanned =>
                    \A p \in {row.plan : row \in Range(TableOf(recipe.steps[k].from))} :
                        \E v \in (began - 1)..version : v > 0 /\
                            RowsOf(fetches[k].rows, p) = Matching(v, p)
        /\ \E v \in (began - 1)..version : v > 0 /\
              {[plan |-> g.plan, values |-> g.values] : g \in Range(result.rows)} =
              {[plan |-> row.plan, values |-> Matching(v, row.plan)] : row \in Range(World[v])}

\* What a viewer has put together from pages, and the group it has opened, are of one and the
\* same result (_attach_order_view_context refuses a page of another snapshot): no group is
\* missing or shown twice, whatever changed between the runs.
PagesAreOneResult ==
    /\ IsPrefix(viewed.groups, viewed.whole)
    /\ ~viewed.more => viewed.groups = viewed.whole
    /\ Range(viewed.opened) \subseteq Range(viewed.whole)

=============================================================================
