---------------------------- MODULE UsageReports ----------------------------
(***************************************************************************)
(* The dashboard's summary and timeseries reports over the rollup tables   *)
(* of UsageRollup: a report resolves its tenants, reads the rollup rows    *)
(* and then the freshness of the raw facts, each query with a snapshot of  *)
(* its own, and flags itself incomplete when the rollup is behind.         *)
(***************************************************************************)
EXTENDS UsageRollup

CONSTANTS
  Registered,   \* tenants with a tenant_registry row, hence with a tenant_ref
  Requests,     \* the requests this instance makes
  NoRef,        \* no factory filter
  MaxSpan,      \* max_span_days
  MaxBuckets,   \* timeseries_max_buckets
  Tolerance     \* rollup_lag_tolerance

\* A platform scope without tenants covers all of them.  A tenant_ref is modelled
\* by the tenant it addresses.
Request == [kind : {"summary", "hour", "day"}, scope : SUBSET Tenants,
            ref : Tenants \cup {NoRef}, start : Nat, end : Nat]

ASSUME RequestAssumption == /\ Requests \subseteq Request /\ Requests # {} /\ Registered \subseteq Tenants
                            /\ NoRef \notin Tenants
ASSUME LimitAssumption == MaxSpan \in Nat /\ MaxBuckets \in Nat /\ Tolerance \in Nat

VARIABLE report

vars == <<rollupVars, report>>

Report == [pc : {"none", "tenants", "rows", "freshness", "done", "refused"},
           request : Requests,
           tenants : SUBSET Tenants,
           rows : SUBSET Row,
           incomplete : BOOLEAN,
           seen : SUBSET Fact]    \* history: the facts committed when the request came

check_range(q) == q.start < q.end /\ q.end - q.start <= MaxSpan
covers_tenant(q, t) == q.scope = {} \/ t \in q.scope

\* _tenant_ids before the factory filter: the scope, or every tenant with facts.
Base(q) == IF q.scope # {} THEN q.scope ELSE list_tenant_ids(q.start, q.end)

EffectiveTenants(q) == IF q.ref = NoRef THEN Base(q) ELSE {q.ref} \cap Base(q)

\* Rows are selected by their bucket's start; daily rows by date, the end date excluded.
list_rollup_rows(q, tenants) ==
  LET g == IF q.kind = "day" THEN "day" ELSE "hour"
      low == IF g = "day" THEN bucket_key(q.start, "day") ELSE q.start
      high == IF g = "day" THEN bucket_key(q.end, "day") ELSE q.end
  IN {r \in rows : /\ r.granularity = g /\ r.tenant \in tenants
                   /\ low <= r.bucket /\ r.bucket < high}

\* The facts whose newest received_at is the freshness: MES calls are not among
\* them, and received_at is written as occurred_at.
query_freshness(q, tenants) ==
  {f \in facts : /\ f.table \in {"interaction", "llm"} /\ f.tenant \in tenants
                 /\ InRange(f, q.start, q.end)}

\* Mutant: no rows are taken for no usage.
rollup_behind_with_rows(rs, fresh) ==
  rs # {} /\ \E f \in fresh : \A r \in rs : r.stamp < f.at - Tolerance
\* max(stamps) < max(fresh) - Tolerance; false without fresh facts, true without rows.
rollup_behind(rs, fresh) == \E f \in fresh : \A r \in rs : r.stamp < f.at - Tolerance

\* A modelled timeseries asks for no MES metric; those points, read from the fact
\* table, count towards the same limit and would be merged in here.
Truncated(q, rs) == q.kind # "summary" /\ Cardinality({r.bucket : r \in rs}) >= MaxBuckets

-----------------------------------------------------------------------------
\* A request keeps nothing from the one before, so a behaviour follows one request,
\* made at any moment.
Ask(q) ==
  /\ report.pc = "none"
  /\ calls < MaxCalls
  /\ calls' = calls + 1
  /\ report' = [pc |-> IF check_range(q) THEN "tenants" ELSE "refused",
                request |-> q, tenants |-> {}, rows |-> {}, incomplete |-> FALSE,
                seen |-> facts]
  /\ UNCHANGED <<now, pending, facts, rows, job, lastPass, faults>>

\* An unknown handle and one outside the scope are refused; a report without
\* tenants is empty and complete.
ResolveTenants ==
  LET q == report.request
      tenants == EffectiveTenants(q)
  IN /\ report.pc = "tenants"
     /\ report' =
          IF q.ref # NoRef /\ (q.ref \notin Registered \/ ~covers_tenant(q, q.ref))
          THEN [report EXCEPT !.pc = "refused"]
          ELSE [report EXCEPT !.pc = IF tenants = {} THEN "done" ELSE "rows",
                              !.tenants = tenants]
     /\ UNCHANGED rollupVars

ReadRows ==
  /\ report.pc = "rows"
  /\ report' = [report EXCEPT !.pc = "freshness",
                              !.rows = list_rollup_rows(report.request, report.tenants)]
  /\ UNCHANGED rollupVars

ReadFreshness ==
  LET q == report.request
      fresh == query_freshness(q, report.tenants)
  IN /\ report.pc = "freshness"
     /\ report' = [report EXCEPT !.pc = "done",
                     !.incomplete = Truncated(q, report.rows)
                                    \/ rollup_behind(report.rows, fresh)]
     /\ UNCHANGED rollupVars

-----------------------------------------------------------------------------
Init == /\ RollupInit
        /\ report = [pc |-> "none", request |-> CHOOSE q \in Requests : TRUE, tenants |-> {},
                     rows |-> {}, incomplete |-> FALSE, seen |-> {}]

ReportStep == (\E q \in Requests : Ask(q)) \/ ResolveTenants \/ ReadRows \/ ReadFreshness

Next == \/ RollupNext /\ UNCHANGED report
        \/ ReportStep

\* The worker's task keeps running (its loop survives every exception), and a
\* started command or a committing transaction ends.
Fairness == /\ \A j \in Jobs : WF_vars(Pass(j) /\ UNCHANGED report)
            /\ WF_vars((\E f \in pending : CommitFact(f)) /\ UNCHANGED report)
            /\ WF_vars(Tick /\ UNCHANGED report)

Spec == Init /\ [][Next]_vars /\ Fairness

-----------------------------------------------------------------------------
(* Properties *)

\* The tables and every actor's memory hold values of their types.
TypeOK ==
  /\ now \in Nat /\ pending \subseteq Fact /\ facts \subseteq Fact /\ rows \subseteq Row
  /\ job \in [Jobs -> Job] /\ lastPass \in Int /\ faults \in Nat /\ calls \in Nat
  /\ report \in Report

\* A pass overwrites rows, also ones another pass has written since it read the
\* facts; a fact it takes out of the statistics is one it could not have counted:
\* outside its window, or committed after it began (rollup_range, list_facts).
PassDropsOnlyUnseen ==
  [][\A j \in Jobs :
       job[j].pc = "upsert" /\ job'[j].pc = "idle" /\ rows' # rows =>
         \A r \in rows : \A f \in r.facts :
           \/ \E s \in rows' : SameKey(r, s) /\ f \in s.facts
           \/ ~InRange(f, job[j].start, job[j].end)
           \/ f \notin job[j].seen]_vars

\* A stopped or failing rollup is not read as zero traffic (_alert_failure): a report
\* that does not flag itself has no fact, committed before it was asked for, that is
\* newer by more than the tolerance than the last pass that committed.
StallIsFlagged ==
  report.pc = "done" /\ ~report.incomplete =>
    \A f \in query_freshness(report.request, report.tenants) \cap report.seen :
      lastPass >= 0 /\ f.at <= lastPass + Tolerance

Counted(f) == \A g \in Granularity :
                \E r \in rows : r.granularity = g /\ f \in r.facts

\* Whatever failed passes, late commits and overlapping commands have done to the
\* rows, the worker brings every fact of its window back into them for good.
RollupConverges == <>[](\A f \in facts : InRange(f, now - Window, now) => Counted(f))

\* "The rollup engine groups them into hour and day buckets and upserts idempotent
\* rows" (application/rollup.py, module comment): recomputing a bucket never takes a
\* fact out of it that it had counted.
CountedStaysCounted ==
  [][\A r \in rows : \E s \in rows' : SameKey(r, s) /\ r.facts \subseteq s.facts]_vars

=============================================================================
