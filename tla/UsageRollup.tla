----------------------------- MODULE UsageRollup -----------------------------
(***************************************************************************)
(* Usage metering and its rollup: facts are stamped when they happen and   *)
(* committed later; jobs (the in-process worker and the one-shot command)  *)
(* recompute the hour and day rows of a trailing window from the facts and *)
(* upsert them.  Every query and every transaction is a step of its own.   *)
(*                                                                         *)
(* A metric is a sum over facts, so a row is modelled by the set of facts  *)
(* it sums; two sums differ only when the sets do.  Time is in ticks.      *)
(***************************************************************************)
EXTENDS Integers, FiniteSets

CONSTANTS
  Tenants,
  Sources,        \* the <<tenant, fact table>> pairs this instance produces
  Worker, Cli,    \* run_forever, and factory-agent-rollup
  Window,         \* usage_rollup_window_hours
  CliWindows,     \* values of --hours
  HourLength, DayLength,
  MaxTime, MaxFacts, MaxFaults,
  MaxCalls        \* bounds; a call is a run of the command or a report request

FactTable == {"interaction", "llm", "mes"}
Granularity == {"hour", "day"}
Jobs == {Worker, Cli}

ASSUME SourceAssumption == Sources \subseteq Tenants \X FactTable
ASSUME WindowAssumption == /\ Window \in Nat \ {0} /\ CliWindows \subseteq Nat \ {0}
                           /\ HourLength \in Nat \ {0} /\ DayLength \in Nat \ {0}
ASSUME RollupBoundAssumption == /\ MaxTime \in Nat /\ MaxFacts \in Nat
                                /\ MaxFaults \in Nat /\ MaxCalls \in Nat
ASSUME JobAssumption == Worker # Cli

VARIABLES
  now,
  pending,    \* usage events stamped with occurred_at and not yet committed
  facts,      \* the rows of the three fact tables
  rows,       \* tenant_usage_hourly and tenant_usage_daily
  job,        \* each job's position in run_once and what it holds in memory
  lastPass,   \* history: the latest rolled_up_at a pass has committed, -1 before any
  faults, calls

rollupVars == <<now, pending, facts, rows, job, lastPass, faults, calls>>

Fact == [tenant : Tenants, table : FactTable, at : Nat]
Row == [granularity : Granularity, tenant : Tenants, bucket : Nat,
        facts : SUBSET Fact, stamp : Nat]
JobPc == {"idle", "discover", "interaction", "llm", "mes", "categories", "upsert"}
Job == [pc : JobPc, start : Int, end : Nat, tenants : SUBSET Tenants,
        got : SUBSET Fact, stamp : Nat,
        seen : SUBSET Fact]     \* history: the facts committed when the pass began

Idle == [pc |-> "idle", start |-> 0, end |-> 0, tenants |-> {}, got |-> {},
         stamp |-> 0, seen |-> {}]

-----------------------------------------------------------------------------
\* A half-open range of occurred_at, as every query of the fact tables has it.
InRange(f, start, end) == start <= f.at /\ f.at < end

Length(granularity) == IF granularity = "hour" THEN HourLength ELSE DayLength
bucket_key(at, granularity) == at - (at % Length(granularity))

\* One row per tenant, granularity and bucket that has a fact in the pass.
compute_bucket_metrics(got, tenants, stamp) ==
  {[granularity |-> g, tenant |-> f.tenant, bucket |-> bucket_key(f.at, g),
    facts |-> {h \in got : h.tenant = f.tenant
                           /\ bucket_key(h.at, g) = bucket_key(f.at, g)},
    stamp |-> stamp] : g \in Granularity, f \in {h \in got : h.tenant \in tenants}}

SameKey(r, s) == /\ r.granularity = s.granularity /\ r.tenant = s.tenant
                 /\ r.bucket = s.bucket

\* INSERT ... ON CONFLICT DO UPDATE of every row, in one transaction.
upsert_rollup_rows(old, new) ==
  {r \in old : \A s \in new : ~SameKey(r, s)} \cup new

-----------------------------------------------------------------------------
\* An event happens now.  A redelivered event_id is ignored (ON CONFLICT DO
\* NOTHING), which adding a member to a set already does.
Record(src) ==
  LET f == [tenant |-> src[1], table |-> src[2], at |-> now]
  IN /\ Cardinality(pending \cup facts) < MaxFacts
     /\ f \notin pending \cup facts
     /\ pending' = pending \cup {f}
     /\ UNCHANGED <<now, facts, rows, job, lastPass, faults, calls>>

\* The transaction that carries the event commits, however late.
CommitFact(f) ==
  /\ f \in pending
  /\ pending' = pending \ {f}
  /\ facts' = facts \cup {f}
  /\ UNCHANGED <<now, rows, job, lastPass, faults, calls>>

\* The metering write fails; it is logged and the event is gone.
LoseFact(f) ==
  /\ f \in pending
  /\ faults < MaxFaults
  /\ pending' = pending \ {f}
  /\ faults' = faults + 1
  /\ UNCHANGED <<now, facts, rows, job, lastPass, calls>>

Tick == /\ now < MaxTime
        /\ now' = now + 1
        /\ UNCHANGED <<pending, facts, rows, job, lastPass, faults, calls>>

-----------------------------------------------------------------------------
WindowsOf(j) == IF j = Worker THEN {Window} ELSE CliWindows

\* run_once: the window is fixed before the first query.
Begin(j) ==
  /\ job[j].pc = "idle"
  /\ j = Cli => calls < MaxCalls
  /\ calls' = IF j = Cli THEN calls + 1 ELSE calls
  /\ \E w \in WindowsOf(j) :
       job' = [job EXCEPT ![j] = [Idle EXCEPT !.pc = "discover", !.start = now - w,
                                              !.end = now, !.seen = facts]]
  /\ UNCHANGED <<now, pending, facts, rows, lastPass, faults>>

\* Mutant: tenants known only by their MES calls are not discovered.
list_tenant_ids_unmetered(start, end) ==
  {f.tenant : f \in {h \in facts : h.table # "mes" /\ InRange(h, start, end)}}
list_tenant_ids(start, end) == {f.tenant : f \in {h \in facts : InRange(h, start, end)}}

Discover(j) ==
  LET found == list_tenant_ids(job[j].start, job[j].end)
  IN /\ job[j].pc = "discover"
     /\ job' = [job EXCEPT ![j] = IF found = {} THEN Idle
                                  ELSE [@ EXCEPT !.pc = "interaction", !.tenants = found]]
     /\ UNCHANGED <<now, pending, facts, rows, lastPass, faults, calls>>

AfterTable(table) == CASE table = "interaction" -> "llm"
                       [] table = "llm" -> "mes"
                       [] table = "mes" -> "categories"

\* Mutant: the start of the window is excluded.
list_facts_open(table, tenants, start, end) ==
  {f \in facts : f.table = table /\ f.tenant \in tenants /\ start < f.at /\ f.at < end}
\* list_facts: the rows of one fact table that its SELECT returns.
list_facts(table, tenants, start, end) ==
  {f \in facts : f.table = table /\ f.tenant \in tenants /\ InRange(f, start, end)}

\* The three tables are read by three statements, each with its own snapshot.
ReadTable(j) ==
  /\ job[j].pc \in FactTable
  /\ job' = [job EXCEPT ![j] =
       [job[j] EXCEPT !.pc = AfterTable(job[j].pc),
                      !.got = job[j].got \cup
                        list_facts(job[j].pc, job[j].tenants, job[j].start, job[j].end)]]
  /\ UNCHANGED <<now, pending, facts, rows, lastPass, faults, calls>>

\* The categories are read, and only then is rolled_up_at taken.
Compute(j) ==
  /\ job[j].pc = "categories"
  /\ job' = [job EXCEPT ![j] = [@ EXCEPT !.pc = "upsert", !.stamp = now]]
  /\ UNCHANGED <<now, pending, facts, rows, lastPass, faults, calls>>

Upsert(j) ==
  /\ job[j].pc = "upsert"
  /\ rows' = upsert_rollup_rows(
               rows, compute_bucket_metrics(job[j].got, job[j].tenants, job[j].stamp))
  /\ lastPass' = IF job[j].got # {} /\ job[j].stamp > lastPass THEN job[j].stamp ELSE lastPass
  /\ job' = [job EXCEPT ![j] = Idle]
  /\ UNCHANGED <<now, pending, facts, faults, calls>>

\* A query or the transaction fails, or the process stops: the worker survives
\* and sleeps, the command exits.  Nothing of the pass is kept.
FailPass(j) ==
  /\ job[j].pc # "idle"
  /\ faults < MaxFaults
  /\ faults' = faults + 1
  /\ job' = [job EXCEPT ![j] = Idle]
  /\ UNCHANGED <<now, pending, facts, rows, lastPass, calls>>

-----------------------------------------------------------------------------
RollupInit ==
  /\ now = 0 /\ pending = {} /\ facts = {} /\ rows = {} /\ lastPass = -1
  /\ job = [j \in Jobs |-> Idle]
  /\ faults = 0 /\ calls = 0

Pass(j) == Begin(j) \/ Discover(j) \/ ReadTable(j) \/ Compute(j) \/ Upsert(j)

RollupNext ==
  \/ \E src \in Sources : Record(src)
  \/ \E f \in pending : CommitFact(f) \/ LoseFact(f)
  \/ Tick
  \/ \E j \in Jobs : Pass(j) \/ FailPass(j)

=============================================================================
