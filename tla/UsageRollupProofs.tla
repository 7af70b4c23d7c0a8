-------------------------- MODULE UsageRollupProofs --------------------------
(***************************************************************************)
(* Proofs for UsageReports: type correctness, what a pass may drop, and    *)
(* that a stalled rollup is flagged, for every window, bucket length,      *)
(* tolerance and set of tenants and requests.  Then, from a section of     *)
(* its own, for OpsReports: the operator's breakdowns and pages, computed  *)
(* from the raw facts, are whole.                                          *)
(***************************************************************************)
EXTENDS UsageReports, OpsReports, FunctionTheorems, FiniteSetTheorems, TLAPS

\* The start of a bucket is a time (bucket_key).
LEMMA BucketType == ASSUME NEW at \in Nat, NEW g \in Granularity
                    PROVE  bucket_key(at, g) \in Nat
  <1>1. Length(g) \in Nat \ {0}
    BY WindowAssumption DEF Length
  <1>2. ASSUME NEW n \in Nat \ {0} PROVE at - (at % n) \in Nat
    BY SMTT(30)
  <1> QED BY <1>1, <1>2 DEF bucket_key

\* The rows a pass computes have the types of the tables (compute_bucket_metrics).
LEMMA MetricsType ==
  ASSUME NEW got \in SUBSET Fact, NEW tenants \in SUBSET Tenants, NEW stamp \in Nat
  PROVE  compute_bucket_metrics(got, tenants, stamp) \subseteq Row
  <1> SUFFICES ASSUME NEW g \in Granularity, NEW f \in got
               PROVE  [granularity |-> g, tenant |-> f.tenant, bucket |-> bucket_key(f.at, g),
                       facts |-> {h \in got : h.tenant = f.tenant
                                    /\ bucket_key(h.at, g) = bucket_key(f.at, g)},
                       stamp |-> stamp] \in Row
    BY DEF compute_bucket_metrics
  <1>1. f.at \in Nat /\ f.tenant \in Tenants
    BY DEF Fact
  <1>2. bucket_key(f.at, g) \in Nat
    BY <1>1, BucketType
  <1> QED BY <1>1, <1>2 DEF Row

\* A job that is not in a pass (RollupWorker between two cycles).
LEMMA IdleType == Idle \in Job
  BY DEF Idle, Job, JobPc

\* Every variable keeps its type, whatever fails and however late facts commit.
THEOREM RollupTypeCorrect == Spec => []TypeOK
  <1>1. Init => TypeOK
    BY RequestAssumption DEF Init, RollupInit, TypeOK, Idle, Job, JobPc, Report, Request
  <1>2. TypeOK /\ [Next]_vars => TypeOK'
    <2> SUFFICES ASSUME TypeOK, [Next]_vars PROVE TypeOK'
      OBVIOUS
    <2> USE DEF TypeOK
    <2>1. ASSUME NEW src \in Sources, Record(src), UNCHANGED report PROVE TypeOK'
      <3>1. [tenant |-> src[1], table |-> src[2], at |-> now] \in Fact
        BY SourceAssumption DEF Fact
      <3> QED BY <2>1, <3>1 DEF Record
    <2>2. ASSUME NEW f \in pending, CommitFact(f) \/ LoseFact(f), UNCHANGED report PROVE TypeOK'
      BY <2>2 DEF CommitFact, LoseFact
    <2>3. ASSUME Tick, UNCHANGED report PROVE TypeOK'
      BY <2>3 DEF Tick
    <2>4. ASSUME NEW j \in Jobs, Begin(j), UNCHANGED report PROVE TypeOK'
      <3> PICK w \in WindowsOf(j) :
            job' = [job EXCEPT ![j] = [Idle EXCEPT !.pc = "discover", !.start = now - w,
                                                   !.end = now, !.seen = facts]]
        BY <2>4 DEF Begin
      <3>1. w \in Nat
        BY WindowAssumption DEF WindowsOf
      <3>2. [Idle EXCEPT !.pc = "discover", !.start = now - w, !.end = now, !.seen = facts]
              \in Job
        <4>1. now - w \in Int /\ now \in Nat /\ facts \subseteq Fact
          BY <3>1
        <4> HIDE DEF TypeOK
        <4>2. \A J \in Job : \A a \in Int : \A b \in Nat : \A c \in SUBSET Fact :
                [J EXCEPT !.pc = "discover", !.start = a, !.end = b, !.seen = c] \in Job
          BY DEF Job, JobPc
        <4> QED BY <4>1, <4>2, IdleType
      <3>3. job' \in [Jobs -> Job]
        BY <3>2
      <3> QED BY <2>4, <3>3 DEF Begin
    <2>5. ASSUME NEW j \in Jobs, Discover(j), UNCHANGED report PROVE TypeOK'
      <3>1. list_tenant_ids(job[j].start, job[j].end) \subseteq Tenants
        BY DEF list_tenant_ids, Fact
      <3>2. Idle \in Job
        BY DEF Idle, Job, JobPc
      <3>3. [job[j] EXCEPT !.pc = "interaction",
                           !.tenants = list_tenant_ids(job[j].start, job[j].end)] \in Job
        BY <3>1 DEF Job, JobPc
      <3> QED BY <2>5, <3>2, <3>3 DEF Discover
    <2>6. ASSUME NEW j \in Jobs, ReadTable(j), UNCHANGED report PROVE TypeOK'
      <3>1. AfterTable(job[j].pc) \in JobPc
        BY <2>6 DEF ReadTable, AfterTable, FactTable, JobPc
      <3>2. list_facts(job[j].pc, job[j].tenants, job[j].start, job[j].end) \subseteq Fact
        BY DEF list_facts
      <3>3. [job[j] EXCEPT !.pc = AfterTable(job[j].pc),
              !.got = job[j].got \cup
                list_facts(job[j].pc, job[j].tenants, job[j].start, job[j].end)] \in Job
        BY <3>1, <3>2 DEF Job
      <3>4. job' \in [Jobs -> Job]
        BY <2>6, <3>3 DEF ReadTable
      <3> QED BY <2>6, <3>4 DEF ReadTable
    <2>7. ASSUME NEW j \in Jobs, Compute(j), UNCHANGED report PROVE TypeOK'
      <3>1. [job[j] EXCEPT !.pc = "upsert", !.stamp = now] \in Job
        BY DEF Job, JobPc
      <3> QED BY <2>7, <3>1 DEF Compute
    <2>8. ASSUME NEW j \in Jobs, Upsert(j), UNCHANGED report PROVE TypeOK'
      <3>1. job[j] \in Job
        OBVIOUS
      <3>2. compute_bucket_metrics(job[j].got, job[j].tenants, job[j].stamp) \subseteq Row
        BY <3>1, MetricsType DEF Job
      <3>3. rows' \subseteq Row
        BY <2>8, <3>2 DEF Upsert, upsert_rollup_rows
      <3>4. job' \in [Jobs -> Job]
        BY <2>8 DEF Upsert, Idle, Job, JobPc
      <3>5. lastPass' \in Int
        BY <2>8, <3>1 DEF Upsert, Job
      <3> QED BY <2>8, <3>3, <3>4, <3>5 DEF Upsert
    <2>9. ASSUME NEW j \in Jobs, FailPass(j), UNCHANGED report PROVE TypeOK'
      BY <2>9 DEF FailPass, Idle, Job, JobPc
    <2>10. ASSUME NEW q \in Requests, Ask(q) PROVE TypeOK'
      BY <2>10 DEF Ask, Report
    <2>11. ASSUME ResolveTenants PROVE TypeOK'
      <3>1. EffectiveTenants(report.request) \subseteq Tenants
        BY RequestAssumption DEF EffectiveTenants, Base, list_tenant_ids, Fact, Report, Request
      <3> QED BY <2>11, <3>1 DEF ResolveTenants, Report, rollupVars
    <2>12. ASSUME ReadRows PROVE TypeOK'
      <3>1. list_rollup_rows(report.request, report.tenants) \subseteq Row
        BY DEF list_rollup_rows
      <3> QED BY <2>12, <3>1 DEF ReadRows, Report, rollupVars
    <2>13. ASSUME ReadFreshness PROVE TypeOK'
      BY <2>13, Zenon DEF ReadFreshness, Report, rollupVars
    <2>14. CASE UNCHANGED vars
      BY <2>14 DEF vars, rollupVars
    <2> QED BY <2>1, <2>2, <2>3, <2>4, <2>5, <2>6, <2>7, <2>8, <2>9, <2>10, <2>11, <2>12,
               <2>13, <2>14 DEF Next, RollupNext, ReportStep, Pass
  <1> QED BY <1>1, <1>2, PTL DEF Spec

-----------------------------------------------------------------------------
(* What a pass may drop *)

TablesRead(pc) == CASE pc = "llm" -> {"interaction"}
                    [] pc = "mes" -> {"interaction", "llm"}
                    [] pc \in {"categories", "upsert"} -> FactTable
                    [] OTHER -> {}

\* What a job in a pass holds of the facts that were there when it began.
HoldsSeen(J) ==
  /\ J.seen \subseteq facts
  /\ J.pc \notin {"idle", "discover"} =>
       \A f \in J.seen : InRange(f, J.start, J.end) => f.tenant \in J.tenants
  /\ \A f \in J.seen : f.table \in TablesRead(J.pc) /\ InRange(f, J.start, J.end) => f \in J.got

\* A row sums facts of its own tenant and bucket.
OwnFacts(r) == \A f \in r.facts : f.tenant = r.tenant /\ bucket_key(f.at, r.granularity) = r.bucket

PassInv == /\ \A j \in Jobs : HoldsSeen(job[j])
           /\ \A r \in rows : OwnFacts(r)

\* Facts are only ever added (write_usage_events).
LEMMA FactsGrow == ASSUME TypeOK, [Next]_vars PROVE facts \subseteq facts'
  BY DEF Next, RollupNext, ReportStep, Record, CommitFact, LoseFact, Tick, Pass, Begin, Discover,
         ReadTable, Compute, Upsert, FailPass, Ask, ResolveTenants, ReadRows, ReadFreshness,
         vars, rollupVars

\* A job that starts over has nothing to hold.
LEMMA IdleHolds == ASSUME NEW j \in Jobs, job'[j] = Idle PROVE HoldsSeen(job[j])'
  BY DEF HoldsSeen, Idle, TablesRead

\* A job is undisturbed by the steps of others: facts are only added.
LEMMA OthersHold ==
  ASSUME NEW j \in Jobs, HoldsSeen(job[j]), job'[j] = job[j], facts \subseteq facts'
  PROVE  HoldsSeen(job[j])'
  BY DEF HoldsSeen, InRange

\* The rows of a pass sum facts of their own bucket.
LEMMA MetricsOwn ==
  ASSUME NEW got, NEW tenants, NEW stamp,
         NEW r \in compute_bucket_metrics(got, tenants, stamp)
  PROVE  OwnFacts(r)
  BY DEF compute_bucket_metrics, OwnFacts

\* Every step keeps what the jobs hold and what the rows sum.
LEMMA PassInvStep == TypeOK /\ PassInv /\ [Next]_vars => PassInv'
  <1> SUFFICES ASSUME TypeOK, PassInv, [Next]_vars PROVE PassInv'
    OBVIOUS
  <1>0. facts \subseteq facts'
    BY FactsGrow
  <1>a. ASSUME job' = job PROVE \A j \in Jobs : HoldsSeen(job[j])'
    BY <1>a, <1>0, OthersHold DEF PassInv
  <1>b. ASSUME NEW j \in Jobs, NEW J, job' = [job EXCEPT ![j] = J],
               HoldsSeen(job[j])'
        PROVE  \A k \in Jobs : HoldsSeen(job[k])'
    <2> TAKE k \in Jobs
    <2>1. CASE k = j
      BY <1>b, <2>1
    <2>2. CASE k # j
      <3>1. job'[k] = job[k]
        BY <1>b, <2>2 DEF TypeOK
      <3> QED BY <3>1, <1>0, OthersHold DEF PassInv
    <2> QED BY <2>1, <2>2
  <1>c. ASSUME rows' = rows PROVE \A r \in rows' : OwnFacts(r)
    BY <1>c DEF PassInv
  <1>1. ASSUME NEW src \in Sources, Record(src) PROVE PassInv'
    BY <1>1, <1>a, <1>c DEF Record, PassInv, OwnFacts
  <1>2. ASSUME NEW f \in pending, CommitFact(f) \/ LoseFact(f) PROVE PassInv'
    BY <1>2, <1>a, <1>c DEF CommitFact, LoseFact, PassInv, OwnFacts
  <1>3. ASSUME Tick PROVE PassInv'
    BY <1>3, <1>a, <1>c DEF Tick, PassInv, OwnFacts
  <1>4. ASSUME NEW j \in Jobs, Begin(j) PROVE PassInv'
    <2> PICK w \in WindowsOf(j) :
          job' = [job EXCEPT ![j] = [Idle EXCEPT !.pc = "discover", !.start = now - w,
                                                 !.end = now, !.seen = facts]]
      BY <1>4 DEF Begin
    <2>1. /\ job'[j].pc = "discover" /\ job'[j].seen = facts
      BY DEF TypeOK, Idle
    <2>2. HoldsSeen(job[j])'
      BY <2>1, <1>0 DEF HoldsSeen, TablesRead
    <2> QED BY <1>4, <2>2, <1>b, <1>c DEF Begin, PassInv, OwnFacts
  <1>5. ASSUME NEW j \in Jobs, Discover(j) PROVE PassInv'
    <2> DEFINE found == list_tenant_ids(job[j].start, job[j].end)
    <2>1. HoldsSeen(job[j])'
      <3>1. CASE found = {}
        BY <1>5, <3>1, IdleHolds DEF Discover, TypeOK
      <3>2. CASE found # {}
        <4>1. job'[j] = [job[j] EXCEPT !.pc = "interaction", !.tenants = found]
          BY <1>5, <3>2 DEF Discover, TypeOK
        <4>2. /\ job'[j].pc = "interaction" /\ job'[j].tenants = found
              /\ job'[j].start = job[j].start /\ job'[j].end = job[j].end
              /\ job'[j].seen = job[j].seen
          BY <4>1 DEF TypeOK, Job
        <4>3. \A f \in facts : InRange(f, job[j].start, job[j].end) => f.tenant \in found
          BY DEF list_tenant_ids
        <4> QED BY <4>2, <4>3, <1>0 DEF HoldsSeen, TablesRead, PassInv, InRange
      <3> QED BY <3>1, <3>2
    <2> QED BY <1>5, <2>1, <1>b, <1>c DEF Discover, PassInv, OwnFacts
  <1>6. ASSUME NEW j \in Jobs, ReadTable(j) PROVE PassInv'
    <2> DEFINE more == list_facts(job[j].pc, job[j].tenants, job[j].start, job[j].end)
    <2>1. /\ job'[j].pc = AfterTable(job[j].pc) /\ job'[j].got = job[j].got \cup more
          /\ job'[j].start = job[j].start /\ job'[j].end = job[j].end
          /\ job'[j].seen = job[j].seen /\ job'[j].tenants = job[j].tenants
      BY <1>6 DEF ReadTable, TypeOK, Job
    <2>2. /\ TablesRead(AfterTable(job[j].pc)) = TablesRead(job[j].pc) \cup {job[j].pc}
          /\ job[j].pc \notin {"idle", "discover"}
          /\ AfterTable(job[j].pc) \notin {"idle", "discover"}
      BY <1>6 DEF ReadTable, AfterTable, TablesRead, FactTable
    <2>3. HoldsSeen(job[j])
      BY DEF PassInv
    <2>4. \A f \in job[j].seen :
            f.table = job[j].pc /\ InRange(f, job[j].start, job[j].end) => f \in more
      BY <2>2, <2>3 DEF list_facts, HoldsSeen
    <2>5. HoldsSeen(job[j])'
      BY <2>1, <2>2, <2>3, <2>4, <1>0 DEF HoldsSeen, InRange
    <2> QED BY <1>6, <2>5, <1>b, <1>c DEF ReadTable, PassInv, OwnFacts
  <1>7. ASSUME NEW j \in Jobs, Compute(j) PROVE PassInv'
    <2>1. /\ job'[j].pc = "upsert" /\ job'[j].got = job[j].got
          /\ job'[j].start = job[j].start /\ job'[j].end = job[j].end
          /\ job'[j].seen = job[j].seen /\ job'[j].tenants = job[j].tenants
      BY <1>7 DEF Compute, TypeOK, Job
    <2>2. HoldsSeen(job[j])'
      BY <2>1, <1>7, <1>0 DEF HoldsSeen, PassInv, Compute, TablesRead, InRange
    <2> QED BY <1>7, <2>2, <1>b, <1>c DEF Compute, PassInv, OwnFacts
  <1>8. ASSUME NEW j \in Jobs, Upsert(j) PROVE PassInv'
    <2>1. HoldsSeen(job[j])'
      BY <1>8, IdleHolds DEF Upsert, TypeOK
    <2>2. \A r \in rows' : OwnFacts(r)
      BY <1>8, MetricsOwn DEF Upsert, upsert_rollup_rows, PassInv
    <2> QED BY <1>8, <2>1, <2>2, <1>b DEF Upsert, PassInv, OwnFacts
  <1>9. ASSUME NEW j \in Jobs, FailPass(j) PROVE PassInv'
    <2>1. HoldsSeen(job[j])'
      BY <1>9, IdleHolds DEF FailPass, TypeOK
    <2> QED BY <1>9, <2>1, <1>b, <1>c DEF FailPass, PassInv, OwnFacts
  <1>10. ASSUME ReportStep \/ UNCHANGED vars PROVE PassInv'
    BY <1>10, <1>a, <1>c DEF ReportStep, Ask, ResolveTenants, ReadRows, ReadFreshness, vars,
       rollupVars, PassInv, OwnFacts
  <1> QED BY <1>1, <1>2, <1>3, <1>4, <1>5, <1>6, <1>7, <1>8, <1>9, <1>10
             DEF Next, RollupNext, Pass

\* A pass that overwrites a row keeps every fact of its window that was committed
\* when it began, however passes of the worker and the command overlap.
THEOREM PassesDropOnlyUnseen == Spec => PassDropsOnlyUnseen
  <1> DEFINE Drop ==
        \A j \in Jobs :
          job[j].pc = "upsert" /\ job'[j].pc = "idle" /\ rows' # rows =>
            \A r \in rows : \A f \in r.facts :
              \/ \E s \in rows' : SameKey(r, s) /\ f \in s.facts
              \/ ~InRange(f, job[j].start, job[j].end)
              \/ f \notin job[j].seen
  <1>1. Init => PassInv
    BY DEF Init, RollupInit, PassInv, HoldsSeen, Idle, TablesRead
  <1>2. TypeOK /\ PassInv /\ [Next]_vars => [Drop]_vars
    <2> SUFFICES ASSUME TypeOK, PassInv, Next,
                        NEW j \in Jobs, job[j].pc = "upsert", job'[j].pc = "idle", rows' # rows,
                        NEW r \in rows, NEW f \in r.facts,
                        InRange(f, job[j].start, job[j].end), f \in job[j].seen
                 PROVE  \E s \in rows' : SameKey(r, s) /\ f \in s.facts
      BY DEF Drop
    <2>1. PICK k \in Jobs : Upsert(k)
      BY DEF Next, RollupNext, ReportStep, Record, CommitFact, LoseFact, Tick, Pass, Begin,
             Discover, ReadTable, Compute, FailPass, Ask, ResolveTenants, ReadRows,
             ReadFreshness, rollupVars
    <2>2. k = j
      BY <2>1 DEF Upsert, TypeOK
    <2> DEFINE new == compute_bucket_metrics(job[j].got, job[j].tenants, job[j].stamp)
    <2>3. rows' = upsert_rollup_rows(rows, new)
      BY <2>1, <2>2 DEF Upsert
    <2>4. CASE \A s \in new : ~SameKey(r, s)
      BY <2>3, <2>4 DEF upsert_rollup_rows, SameKey
    <2>5. CASE \E s \in new : SameKey(r, s)
      <3>1. PICK s \in new : SameKey(r, s)
        BY <2>5
      <3>2. f \in Fact /\ r.granularity \in Granularity
        BY DEF TypeOK, Row
      <3>3. f \in job[j].got
        <4>1. f.table \in TablesRead("upsert")
          BY <3>2 DEF Fact, TablesRead
        <4> QED BY <4>1 DEF PassInv, HoldsSeen
      <3>4. f.tenant = r.tenant /\ bucket_key(f.at, r.granularity) = r.bucket
        BY DEF PassInv, OwnFacts
      <3>5. PICK g \in Granularity, h \in {x \in job[j].got : x.tenant \in job[j].tenants} :
              s = [granularity |-> g, tenant |-> h.tenant, bucket |-> bucket_key(h.at, g),
                   facts |-> {x \in job[j].got : x.tenant = h.tenant
                                /\ bucket_key(x.at, g) = bucket_key(h.at, g)},
                   stamp |-> job[j].stamp]
        BY DEF compute_bucket_metrics
      <3>6. f \in s.facts
        BY <3>1, <3>3, <3>4, <3>5 DEF SameKey
      <3>7. s \in rows'
        BY <2>3 DEF upsert_rollup_rows
      <3> QED BY <3>1, <3>6, <3>7
    <2> QED BY <2>4, <2>5
  <1> QED BY <1>1, <1>2, PassInvStep, RollupTypeCorrect, PTL DEF Spec, PassDropsOnlyUnseen

-----------------------------------------------------------------------------
(* A stalled rollup is flagged *)

StampInv == /\ \A r \in rows \cup report.rows : r.stamp <= lastPass
            /\ report.seen \subseteq facts

\* A report that does not flag itself rests on a pass that is no older than the
\* tolerance below every fact it was asked about.
THEOREM StalledRollupIsFlagged == Spec => []StallIsFlagged
  <1> DEFINE Asked == query_freshness(report.request, report.tenants) \cap report.seen
             Inv == TypeOK /\ StampInv /\ StallIsFlagged
  <1>1. Init => StampInv /\ StallIsFlagged
    BY DEF Init, RollupInit, StampInv, StallIsFlagged
  <1>2. Inv /\ TypeOK' /\ [Next]_vars => StampInv' /\ StallIsFlagged'
    <2> SUFFICES ASSUME Inv, TypeOK', [Next]_vars PROVE StampInv' /\ StallIsFlagged'
      OBVIOUS
    <2>0. facts \subseteq facts'
      BY FactsGrow
    <2>1. ASSUME report' = report, lastPass <= lastPass', lastPass' \in Int,
                 \A r \in rows' : r \in rows \/ r.stamp <= lastPass'
          PROVE  StampInv' /\ StallIsFlagged'
      <3>1. StampInv'
        BY <2>1, <2>0 DEF StampInv, TypeOK, Row, Report
      <3>2. Asked' = Asked
        BY <2>1, <2>0 DEF StampInv, query_freshness, InRange
      <3>3. \A f \in Asked : f.at \in Nat
        BY DEF query_freshness, TypeOK, Fact
      <3>4. StallIsFlagged'
        BY <2>1, <3>2, <3>3, LimitAssumption DEF StallIsFlagged, TypeOK
      <3> QED BY <3>1, <3>4
    <2>2. ASSUME RollupNext, UNCHANGED report, rows' = rows, lastPass' = lastPass
          PROVE  StampInv' /\ StallIsFlagged'
      BY <2>1, <2>2 DEF TypeOK
    <2>3. ASSUME NEW j \in Jobs, Upsert(j), UNCHANGED report PROVE StampInv' /\ StallIsFlagged'
      <3>1. job[j] \in Job
        BY DEF TypeOK
      <3>2. lastPass <= lastPass' /\ lastPass' \in Int
        BY <2>3, <3>1 DEF Upsert, TypeOK, Job
      <3>3. ASSUME NEW r \in compute_bucket_metrics(job[j].got, job[j].tenants, job[j].stamp)
            PROVE  r.stamp <= lastPass'
        <4>1. r.stamp = job[j].stamp /\ job[j].got # {}
          BY DEF compute_bucket_metrics
        <4> QED BY <4>1, <2>3, <3>1 DEF Upsert, TypeOK, Job
      <3> QED BY <2>1, <2>3, <3>2, <3>3 DEF Upsert, upsert_rollup_rows
    <2>4. ASSUME NEW q \in Requests, Ask(q) PROVE StampInv' /\ StallIsFlagged'
      BY <2>4 DEF Ask, StampInv, StallIsFlagged, TypeOK
    <2>5. ASSUME ResolveTenants PROVE StampInv' /\ StallIsFlagged'
      <3>1. /\ report'.rows = report.rows /\ report'.seen = report.seen
            /\ report'.pc = "done" => report'.tenants = {}
        BY <2>5 DEF ResolveTenants, TypeOK, Report
      <3>2. UNCHANGED <<rows, lastPass, facts>>
        BY <2>5 DEF ResolveTenants, rollupVars
      <3> QED BY <3>1, <3>2 DEF StampInv, StallIsFlagged, query_freshness
    <2>6. ASSUME ReadRows PROVE StampInv' /\ StallIsFlagged'
      <3>1. /\ report'.rows = list_rollup_rows(report.request, report.tenants)
            /\ report'.seen = report.seen /\ report'.pc = "freshness"
        BY <2>6 DEF ReadRows, TypeOK, Report
      <3>2. report'.rows \subseteq rows
        BY <3>1 DEF list_rollup_rows
      <3>3. UNCHANGED <<rows, lastPass, facts>>
        BY <2>6 DEF ReadRows, rollupVars
      <3> QED BY <3>1, <3>2, <3>3 DEF StampInv, StallIsFlagged
    <2>7. ASSUME ReadFreshness PROVE StampInv' /\ StallIsFlagged'
      <3> DEFINE fresh == query_freshness(report.request, report.tenants)
      <3>1. /\ report'.rows = report.rows /\ report'.seen = report.seen
            /\ report'.request = report.request /\ report'.tenants = report.tenants
            /\ ~report'.incomplete => ~rollup_behind(report.rows, fresh)
        BY <2>7 DEF ReadFreshness, TypeOK, Report
      <3>2. UNCHANGED <<rows, lastPass, facts>>
        BY <2>7 DEF ReadFreshness, rollupVars
      <3>3. query_freshness(report.request, report.tenants)' = fresh
        BY <3>1, <3>2 DEF query_freshness, InRange
      <3>4. ASSUME ~rollup_behind(report.rows, fresh), NEW f \in fresh
            PROVE  lastPass >= 0 /\ f.at <= lastPass + Tolerance
        <4>1. PICK r \in report.rows : ~(r.stamp < f.at - Tolerance)
          BY <3>4 DEF rollup_behind
        <4>2. r.stamp \in Nat /\ f.at \in Nat /\ lastPass \in Int /\ r.stamp <= lastPass
          BY DEF StampInv, TypeOK, Report, Row, Fact, query_freshness
        <4> QED BY <4>1, <4>2, LimitAssumption
      <3> QED BY <3>1, <3>2, <3>3, <3>4 DEF StampInv, StallIsFlagged
    <2>8. CASE UNCHANGED vars
      BY <2>8, <2>1 DEF vars, rollupVars, TypeOK
    <2> QED BY <2>2, <2>3, <2>4, <2>5, <2>6, <2>7, <2>8 DEF Next, RollupNext, ReportStep, Pass,
               Record, CommitFact, LoseFact, Tick, Begin, Discover, ReadTable, Compute, FailPass
  <1> QED BY <1>1, <1>2, RollupTypeCorrect, PTL DEF Spec

-----------------------------------------------------------------------------
(* Operator's reports *)

\* R orders S strictly, and what lies before an element.
Orders(R, S) ==
  /\ \A x \in S : <<x, x>> \notin R
  /\ \A x, y \in S : x # y => (<<x, y>> \in R \/ <<y, x>> \in R)
  /\ \A x, y, z \in S : (<<x, y>> \in R /\ <<y, z>> \in R) => <<x, z>> \in R

Below(R, S, x) == {y \in S : <<y, x>> \in R}

\* Fewer elements are before an earlier one.
LEMMA BelowGrows ==
  ASSUME NEW S, NEW R, IsFiniteSet(S), Orders(R, S), NEW x \in S, NEW y \in S, <<x, y>> \in R
  PROVE  Cardinality(Below(R, S, x)) < Cardinality(Below(R, S, y))
<1>1. Below(R, S, x) \subseteq S /\ Below(R, S, y) \subseteq S
  BY DEF Below
<1>2. IsFiniteSet(Below(R, S, x)) /\ IsFiniteSet(Below(R, S, y))
  BY <1>1, FS_Subset
<1>3. x \notin Below(R, S, x)
  BY DEF Below, Orders
<1>4. Below(R, S, x) \cup {x} \subseteq Below(R, S, y)
  BY DEF Below, Orders
<1>5. Cardinality(Below(R, S, x) \cup {x}) = Cardinality(Below(R, S, x)) + 1
  BY <1>2, <1>3, FS_AddElement
<1>6. Cardinality(Below(R, S, x) \cup {x}) <= Cardinality(Below(R, S, y))
  BY <1>2, <1>4, FS_Subset
<1>7. Cardinality(Below(R, S, x)) \in Nat /\ Cardinality(Below(R, S, y)) \in Nat
  BY <1>2, FS_CardinalityType
<1> QED
  BY <1>5, <1>6, <1>7

\* Every element has a place of its own, and every place an element.
LEMMA PlacesAreTaken ==
  ASSUME NEW S, NEW R, IsFiniteSet(S), Orders(R, S)
  PROVE  /\ Cardinality(S) \in Nat
         /\ \A x \in S : Cardinality(Below(R, S, x)) \in 0..(Cardinality(S) - 1)
         /\ \A x, y \in S : Cardinality(Below(R, S, x)) = Cardinality(Below(R, S, y)) => x = y
         /\ \A i \in 1..Cardinality(S) :
              \E x \in S : Cardinality(Below(R, S, x)) = i - 1
<1>1. Cardinality(S) \in Nat
  BY FS_CardinalityType
<1>2. ASSUME NEW x \in S
      PROVE  Cardinality(Below(R, S, x)) \in 0..(Cardinality(S) - 1)
  <2>1. IsFiniteSet(S \ {x}) /\ Cardinality(S \ {x}) = Cardinality(S) - 1
    BY FS_RemoveElement
  <2>2. Below(R, S, x) \subseteq S \ {x}
    BY DEF Below, Orders
  <2>3. IsFiniteSet(Below(R, S, x)) /\ Cardinality(Below(R, S, x)) <= Cardinality(S) - 1
    BY <2>1, <2>2, FS_Subset
  <2>4. Cardinality(Below(R, S, x)) \in Nat
    BY <2>3, FS_CardinalityType
  <2> QED
    BY <1>1, <2>3, <2>4
<1>3. ASSUME NEW x \in S, NEW y \in S,
             Cardinality(Below(R, S, x)) = Cardinality(Below(R, S, y))
      PROVE  x = y
  <2>1. Cardinality(Below(R, S, x)) \in Nat
    BY <1>1, <1>2
  <2>2. ~(<<x, y>> \in R) /\ ~(<<y, x>> \in R)
    BY <1>3, <2>1, BelowGrows
  <2> QED
    BY <2>2 DEF Orders
<1> DEFINE place == [x \in S |-> Cardinality(Below(R, S, x)) + 1]
<1>4. place \in Injection(S, 1..Cardinality(S))
  <2>1. place \in [S -> 1..Cardinality(S)]
    BY <1>1, <1>2
  <2>2. ASSUME NEW x \in S, NEW y \in S, place[x] = place[y]
        PROVE  x = y
    <3>1. Cardinality(Below(R, S, x)) \in Nat /\ Cardinality(Below(R, S, y)) \in Nat
      BY <1>1, <1>2
    <3>2. Cardinality(Below(R, S, x)) = Cardinality(Below(R, S, y))
      BY <2>2, <3>1
    <3> QED
      BY <1>3, <3>2
  <2> HIDE DEF place
  <2> QED
    BY <2>1, <2>2 DEF Injection, IsInjective
<1>5. IsFiniteSet(1..Cardinality(S)) /\ Cardinality(1..Cardinality(S)) = Cardinality(S)
  BY <1>1, FS_Interval
<1>6. place \in Surjection(S, 1..Cardinality(S))
  <2> HIDE DEF place
  <2> QED
    BY <1>4, <1>5, FS_Injection
<1>7. ASSUME NEW i \in 1..Cardinality(S)
      PROVE  \E x \in S : Cardinality(Below(R, S, x)) = i - 1
  <2>1. PICK x \in S : place[x] = i
    BY <1>6 DEF Surjection
  <2>2. Cardinality(Below(R, S, x)) + 1 = i
    BY <2>1
  <2>3. Cardinality(Below(R, S, x)) \in Nat
    BY <1>1, <1>2
  <2> QED
    BY <1>1, <2>2, <2>3
<1> QED
  BY <1>1, <1>2, <1>3, <1>7

\* s has every element of S once, each behind those before it.
Arranges(s, R, S) ==
  /\ s \in [1..Cardinality(S) -> S]
  /\ \A i \in 1..Cardinality(S) : Cardinality(Below(R, S, s[i])) = i - 1
  /\ \A x \in S : \E i \in 1..Cardinality(S) :
       s[i] = x /\ Cardinality(Below(R, S, x)) = i - 1

LEMMA ArrangedByRank ==
  ASSUME NEW S, NEW R, IsFiniteSet(S), Orders(R, S), NEW s,
         s = [i \in 1..Cardinality(S) |->
                CHOOSE x \in S : Cardinality(Below(R, S, x)) = i - 1]
  PROVE  Arranges(s, R, S)
<1>1. ASSUME NEW i \in 1..Cardinality(S)
      PROVE  s[i] \in S /\ Cardinality(Below(R, S, s[i])) = i - 1
  <2>1. \E x \in S : Cardinality(Below(R, S, x)) = i - 1
    BY PlacesAreTaken
  <2>2. s[i] = CHOOSE x \in S : Cardinality(Below(R, S, x)) = i - 1
    OBVIOUS
  <2> QED
    BY <2>1, <2>2
<1>2. ASSUME NEW x \in S
      PROVE  \E i \in 1..Cardinality(S) :
               s[i] = x /\ Cardinality(Below(R, S, x)) = i - 1
  <2> DEFINE i == Cardinality(Below(R, S, x)) + 1
  <2>1. Cardinality(S) \in Nat /\ Cardinality(Below(R, S, x)) \in 0..(Cardinality(S) - 1)
    BY PlacesAreTaken
  <2>2. i \in 1..Cardinality(S) /\ Cardinality(Below(R, S, x)) = i - 1
    BY <2>1
  <2>3. s[i] \in S /\ Cardinality(Below(R, S, s[i])) = i - 1
    BY <1>1, <2>2
  <2>4. s[i] = x
    BY <2>2, <2>3, PlacesAreTaken
  <2> QED
    BY <2>2, <2>4
<1>3. s \in [1..Cardinality(S) -> S]
  BY <1>1
<1> QED
  BY <1>1, <1>2, <1>3 DEF Arranges

Rising == {p \in Nat \X Nat : p[1] < p[2]}

\* The plants of a list, in their order.
LEMMA PlantsAreArranged ==
  ASSUME NEW S \in SUBSET Nat, IsFiniteSet(S)
  PROVE  Arranges(Ordered(S, LAMBDA a, b : a < b), Rising, S)
<1>1. Orders(Rising, S)
  BY DEF Orders, Rising
<1>2. \A x \in S : {y \in S : y < x} = Below(Rising, S, x)
  BY DEF Below, Rising
<1>3. Ordered(S, LAMBDA a, b : a < b)
        = [i \in 1..Cardinality(S) |->
             CHOOSE x \in S : Cardinality(Below(Rising, S, x)) = i - 1]
  <2>1. ASSUME NEW i
        PROVE  (CHOOSE x \in S : Cardinality({y \in S : y < x}) = i - 1)
               = (CHOOSE x \in S : Cardinality(Below(Rising, S, x)) = i - 1)
    BY <1>2
  <2>2. Ordered(S, LAMBDA a, b : a < b)
          = [i \in 1..Cardinality(S) |-> CHOOSE x \in S : Cardinality({y \in S : y < x}) = i - 1]
    BY DEF Ordered
  <2> QED
    BY <2>1, <2>2
<1> QED
  BY <1>1, <1>3, ArrangedByRank

\* More questions first, then the smaller id.
Ranking == {p \in (Nat \X Nat) \X (Nat \X Nat) :
              p[1][2] > p[2][2] \/ (p[1][2] = p[2][2] /\ p[1][1] < p[2][1])}

LEMMA PairsAreArranged ==
  ASSUME NEW S \in SUBSET (Nat \X Nat), IsFiniteSet(S)
  PROVE  Arranges(Ordered(S, LAMBDA a, b : a[2] > b[2] \/ (a[2] = b[2] /\ a[1] < b[1])),
                  Ranking, S)
<1>1. Orders(Ranking, S)
  BY DEF Orders, Ranking
<1>2. \A x \in S : {y \in S : y[2] > x[2] \/ (y[2] = x[2] /\ y[1] < x[1])} = Below(Ranking, S, x)
  BY DEF Below, Ranking
<1>3. Ordered(S, LAMBDA a, b : a[2] > b[2] \/ (a[2] = b[2] /\ a[1] < b[1]))
        = [i \in 1..Cardinality(S) |->
             CHOOSE x \in S : Cardinality(Below(Ranking, S, x)) = i - 1]
  <2>1. ASSUME NEW i
        PROVE  (CHOOSE x \in S :
                  Cardinality({y \in S : y[2] > x[2] \/ (y[2] = x[2] /\ y[1] < x[1])}) = i - 1)
               = (CHOOSE x \in S : Cardinality(Below(Ranking, S, x)) = i - 1)
    BY <1>2
  <2>2. Ordered(S, LAMBDA a, b : a[2] > b[2] \/ (a[2] = b[2] /\ a[1] < b[1]))
          = [i \in 1..Cardinality(S) |-> CHOOSE x \in S :
               Cardinality({y \in S : y[2] > x[2] \/ (y[2] = x[2] /\ y[1] < x[1])}) = i - 1]
    BY DEF Ordered
  <2> QED
    BY <2>1, <2>2
<1> QED
  BY <1>1, <1>3, ArrangedByRank

\* The factories a request is about, and the facts of some of them.
Target(q) == {p \in Plants : CoversTenant(q, p) /\ q.ref \in {None, p}}

FactsOf(fs, plants) == {f \in fs : f.plant \in plants}

\* A tally of facts by a label each has.
TallyOf(fs, lab) == [l \in {lab[f] : f \in fs} \ {None} |-> Cardinality({f \in fs : lab[f] = l})]

\* What was tallied is what the report is about, and nothing of it is left out that was there
\* when it was asked for.
Tallied(fs, lab, q, before, after) ==
  /\ fs \subseteq after
  /\ \A f \in fs : InPeriod(q, f) /\ LabelsOf(q, f) = {lab[f]}
  /\ \A f \in before : InPeriod(q, f) => (f \in fs \/ LabelsOf(q, f) = {})

Counting(fs, q, l) == {f \in fs : InPeriod(q, f) /\ l \in LabelsOf(q, f)}

\* Between, label by label.
LEMMA BetweenLabels ==
  ASSUME NEW values, NEW q, NEW before, NEW after,
         \A l : l # None =>
           LET n == IF l \in DOMAIN values THEN values[l] ELSE 0 IN
           Cardinality(Counting(before, q, l)) <= n /\ n <= Cardinality(Counting(after, q, l))
  PROVE  Between(values, q, before, after)
BY DEF Between, Counting

LEMMA TallyIsBetween ==
  ASSUME NEW fs, NEW lab, NEW q, NEW before, NEW after, IsFiniteSet(after), before \subseteq after,
         Tallied(fs, lab, q, before, after)
  PROVE  Between(TallyOf(fs, lab), q, before, after)
<1> DEFINE values == TallyOf(fs, lab)
<1>1. ASSUME NEW l, l # None
      PROVE  LET n == IF l \in DOMAIN values THEN values[l] ELSE 0 IN
             Cardinality(Counting(before, q, l)) <= n /\ n <= Cardinality(Counting(after, q, l))
  <2> DEFINE mid == {f \in fs : lab[f] = l}
  <2>1. (IF l \in DOMAIN values THEN values[l] ELSE 0) = Cardinality(mid)
    <3>1. CASE l \in {lab[f] : f \in fs}
      BY <1>1, <3>1 DEF TallyOf
    <3>2. CASE l \notin {lab[f] : f \in fs}
      <4>1. mid = {}
        BY <3>2
      <4>2. Cardinality(mid) = 0
        BY <4>1, FS_EmptySet
      <4>3. l \notin DOMAIN values
        BY <3>2 DEF TallyOf
      <4> QED
        BY <4>2, <4>3
    <3> QED
      BY <3>1, <3>2
  <2>2. Counting(before, q, l) \subseteq mid
    BY DEF Counting, Tallied
  <2>3. mid \subseteq Counting(after, q, l)
    BY DEF Counting, Tallied
  <2>4. IsFiniteSet(Counting(after, q, l))
    BY FS_Subset DEF Counting
  <2>5. IsFiniteSet(mid) /\ Cardinality(mid) <= Cardinality(Counting(after, q, l))
    BY <2>3, <2>4, FS_Subset
  <2>6. Cardinality(Counting(before, q, l)) <= Cardinality(mid)
    BY <2>2, <2>5, FS_Subset
  <2> HIDE DEF mid, values
  <2> QED
    BY <2>1, <2>5, <2>6
<1> HIDE DEF values
<1>2. Between(values, q, before, after)
  BY <1>1, BetweenLabels
<1> QED
  BY <1>2 DEF values

\* What lies between stays between as facts are committed.
LEMMA BetweenGrows ==
  ASSUME NEW values, NEW q, NEW before, NEW after, NEW more, IsFiniteSet(more),
         after \subseteq more, Between(values, q, before, after),
         \A l \in DOMAIN values : values[l] \in Nat
  PROVE  Between(values, q, before, more)
<1> DEFINE labels == (UNION {LabelsOf(q, f) : f \in UsageFacts} \cup DOMAIN values) \ {None}
           n(l) == IF l \in DOMAIN values THEN values[l] ELSE 0
<1>1. ASSUME NEW l \in labels
      PROVE  Cardinality(Counting(before, q, l)) <= n(l) /\ n(l) <= Cardinality(Counting(more, q, l))
  <2>1. Cardinality(Counting(before, q, l)) <= n(l) /\ n(l) <= Cardinality(Counting(after, q, l))
    BY DEF Between, Counting
  <2>2. Counting(after, q, l) \subseteq Counting(more, q, l) /\ Counting(more, q, l) \subseteq more
    BY DEF Counting
  <2>3. IsFiniteSet(Counting(more, q, l))
    BY <2>2, FS_Subset
  <2>4. /\ IsFiniteSet(Counting(after, q, l))
        /\ Cardinality(Counting(after, q, l)) <= Cardinality(Counting(more, q, l))
    BY <2>2, <2>3, FS_Subset
  <2>5. Cardinality(Counting(after, q, l)) \in Nat /\ Cardinality(Counting(more, q, l)) \in Nat
    BY <2>3, <2>4, FS_CardinalityType
  <2>6. n(l) \in Nat
    OBVIOUS
  <2> QED
    BY <2>1, <2>4, <2>5, <2>6
<1> QED
  BY <1>1 DEF Between, Counting

\* A tally that does not call itself cut is not.
LEMMA WholeTally ==
  ASSUME NEW fs, NEW lab, IsFiniteSet(fs), NEW kept \in MostCommon(TallyOf(fs, lab)),
         ~Overfull({f \in fs : lab[f] # None}, TallyOf(fs, lab))
  PROVE  kept = DOMAIN TallyOf(fs, lab)
<1> DEFINE named == {f \in fs : lab[f] # None}
           labels == DOMAIN TallyOf(fs, lab)
           name == [f \in named |-> lab[f]]
<1>0. MaxDimensionRows \in Nat
  BY InquiryAssumption
<1>1. IsFiniteSet(named) /\ Cardinality(named) \in Nat
  BY FS_Subset, FS_CardinalityType
<1>2. labels = {lab[f] : f \in fs} \ {None}
  BY DEF TallyOf
<1>3. name \in Surjection(named, labels)
  BY <1>2 DEF Surjection
<1>4. IsFiniteSet(labels) /\ Cardinality(labels) <= Cardinality(named)
  BY <1>1, <1>3, FS_Surjection
<1>5. Cardinality(named) <= MaxDimensionRows
  BY <1>0, <1>1 DEF Overfull
<1>6. Cardinality(labels) \in Nat
  BY <1>4, FS_CardinalityType
<1>7. kept \in SUBSET labels /\ Cardinality(kept) = Cardinality(labels)
  BY <1>0, <1>1, <1>4, <1>5, <1>6 DEF MostCommon
<1> QED
  BY <1>4, <1>7, FS_Subset

Breakdowns == ReportKinds \ {"users", "by_tenant"}

ViewFields == {"step", "q", "plants", "accounts", "requested", "counted", "values", "truncated",
               "offset", "page", "shown", "asked", "due", "rows", "disturbed"}

ViewSteps == {"none", "refused", "tenants", "ref", "facts", "more", "page", "total", "answered",
              "accounts", "names", "candidates", "rows", "done"}

IsView(v) ==
  /\ v = [x \in ViewFields |-> v[x]]
  /\ v.step \in ViewSteps /\ v.truncated \in BOOLEAN /\ v.disturbed \in BOOLEAN
  /\ v.plants \subseteq Plants /\ v.accounts \subseteq Plants /\ v.requested \subseteq Plants
  /\ v.offset \in Nat

\* A request that is being answered: its facts, and which steps it goes through.
Answering(u, v) ==
  v.step # "none" =>
    /\ v.q \in Inquiry /\ v.asked \subseteq u
    /\ v.step # "refused" => Supported(v.q)
    /\ v.step \in {"facts", "more"} => v.q.kind \in Breakdowns
    /\ v.step = "more" => v.q.kind = "errors"
    /\ v.step \in {"page", "total"} => v.q.kind = "users"
    /\ v.step \in {"accounts", "names", "candidates", "rows"} => v.q.kind = "by_tenant"
    /\ v.step \in {"tenants", "ref"} => v.q.kind # "by_tenant"
    /\ v.step = "answered" => v.q.kind \in {"users", "by_tenant"}
    /\ v.step = "ref" => v.q.ref # None

\* The plants taken up lie within the request and have all the facts it asked for.
Reaches(plants, q, asked) ==
  /\ plants \subseteq Target(q)
  /\ \A f \in asked : (InPeriod(q, f) /\ f.plant \in Target(q)) => f.plant \in plants

InteractionsOf(fs, q, plants) ==
  {f \in fs : f.table = "interaction" /\ f.plant \in plants /\ InPeriod(q, f)}

Counts(values) == \A l \in DOMAIN values : values[l] \in Nat

\* A report of some plants is right.
Right(values, q, asked, u, plants) ==
  Counts(values) /\ Between(values, q, FactsOf(asked, plants), FactsOf(u, plants))

BreakdownInv(u, v) ==
  v.step # "none" /\ v.q.kind \in Breakdowns =>
    /\ v.due = None
    /\ v.step \in {"tenants", "ref"} => v.values = <<>>
    /\ v.step = "ref" =>
         /\ \A p \in v.plants : CoversTenant(v.q, p)
         /\ \A f \in v.asked : (InPeriod(v.q, f) /\ CoversTenant(v.q, f.plant)) => f.plant \in v.plants
    /\ v.step \in {"facts", "more"} => Reaches(v.plants, v.q, v.asked)
    /\ v.step = "more" =>
         /\ InteractionsOf(v.asked, v.q, v.plants) \subseteq v.counted
         /\ v.counted \subseteq InteractionsOf(u, v.q, v.plants)
    /\ v.step = "done" /\ ~v.truncated => Right(v.values, v.q, v.asked, u, Target(v.q))

RowsInv(u, v) ==
  v.step # "none" /\ v.q.kind = "by_tenant" =>
    /\ v.step = "rows" => \A p \in v.plants : CoversTenant(v.q, p)
    /\ \A r \in v.shown : CoversTenant(v.q, r.of) /\ Right(r.mes, v.q, v.asked, u, {r.of})

ShownOf(shown) == {r.of : r \in shown}

\* A factory of the first list was shown or lies behind the offset, wherever it is now.
Ahead(due, lines, shown, offset) ==
  /\ due \subseteq lines /\ lines \subseteq Plants
  /\ \A d \in due : d \in ShownOf(shown) \/ offset <= Cardinality(Below(Rising, lines, d))

TenantWalk(v) ==
  v.step # "none" /\ v.q.kind = "by_tenant" =>
    /\ v.due = None => v.shown = {} /\ v.offset = 0 /\ v.step \notin {"rows", "done"}
    /\ v.due # None /\ ~v.disturbed => Ahead(v.due, v.rows, v.shown, v.offset)
    /\ v.step = "rows" => v.plants = v.rows
    /\ v.step = "done" /\ ~v.disturbed => v.due \subseteq ShownOf(v.shown)

\* The plants a list of users is taken from; the users with questions there.
BasePlants(u, q) == IF q.scope # {} THEN q.scope ELSE {f.plant : f \in {g \in u : InPeriod(q, g)}}

AskedBy(u, q, plants) ==
  {f.who : f \in {g \in InteractionsOf(u, q, plants) : g.event = "started"}}

\* The users up to the offset were shown.
Behind(due, lines, shown, offset) ==
  /\ due = {lines[i][1] : i \in 1..Len(lines)}
  /\ \A i \in 1..Len(lines) : i <= offset => lines[i][1] \in ShownOf(shown)

PageAt(lines, offset, q) ==
  LET last == offset + ClampPage(q.limit) IN
  SubSeq(lines, offset + 1, IF last < Len(lines) THEN last ELSE Len(lines))

UserWalk(u, v) ==
  v.step # "none" /\ v.q.kind = "users" =>
    /\ v.due = None => v.shown = {} /\ v.offset = 0 /\ v.step # "total"
    /\ v.due # None => v.rows \in Seq(Nat \X Nat)
    /\ v.due # None /\ ~v.disturbed => Behind(v.due, v.rows, v.shown, v.offset)
    /\ v.due # None \/ v.step = "page" =>
         \E p \in BasePlants(u, v.q) : v.q.ref \in {None, p}
    /\ v.step = "ref" =>
         v.plants \subseteq BasePlants(u, v.q) /\ (v.due # None => v.q.ref \in v.plants)
    /\ v.step = "total" =>
         /\ v.page = PageAt(v.rows, v.offset, v.q)
         /\ Len(v.rows) <= Cardinality(AskedBy(u, v.q, v.plants))
    /\ v.step = "done" /\ v.due # None /\ ~v.disturbed => v.due \subseteq ShownOf(v.shown)

ViewOk(u, v) ==
  IsView(v) /\ Answering(u, v) /\ BreakdownInv(u, v) /\ RowsInv(u, v) /\ TenantWalk(v)
  /\ UserWalk(u, v)

ReportsInv ==
  /\ usage \subseteq UsageFacts /\ IsFiniteSet(usage) /\ enrolled \subseteq Plants
  /\ ViewOk(usage, view)

LEMMA MoreUsageIsFine ==
  ASSUME NEW v, NEW u, NEW w, u \subseteq w, IsFiniteSet(w), ViewOk(u, v)
  PROVE  ViewOk(w, v)
<1>1. IsView(v) /\ TenantWalk(v) /\ Answering(w, v)
  BY DEF ViewOk, Answering
<1>2. ASSUME NEW values, NEW q, NEW asked, NEW plants, Right(values, q, asked, u, plants)
      PROVE  Right(values, q, asked, w, plants)
  <2>1. FactsOf(u, plants) \subseteq FactsOf(w, plants) /\ FactsOf(w, plants) \subseteq w
    BY DEF FactsOf
  <2>2. IsFiniteSet(FactsOf(w, plants))
    BY <2>1, FS_Subset
  <2> QED
    BY <1>2, <2>1, <2>2, BetweenGrows DEF Right, Counts
<1>3. BreakdownInv(w, v)
  <2>1. InteractionsOf(u, v.q, v.plants) \subseteq InteractionsOf(w, v.q, v.plants)
    BY DEF InteractionsOf
  <2> QED
    BY <1>2, <2>1 DEF ViewOk, BreakdownInv
<1>4. RowsInv(w, v)
  BY <1>2 DEF ViewOk, RowsInv
<1>5. UserWalk(w, v)
  <2>1. BasePlants(u, v.q) \subseteq BasePlants(w, v.q)
    BY DEF BasePlants
  <2>2. ASSUME NEW n \in Nat, n <= Cardinality(AskedBy(u, v.q, v.plants))
        PROVE  n <= Cardinality(AskedBy(w, v.q, v.plants))
    <3> DEFINE began == {f \in InteractionsOf(w, v.q, v.plants) : f.event = "started"}
               who == [f \in began |-> f.who]
    <3>1. began \subseteq w
      BY DEF InteractionsOf
    <3>2. IsFiniteSet(began)
      BY <3>1, FS_Subset
    <3>3. who \in Surjection(began, AskedBy(w, v.q, v.plants))
      BY DEF Surjection, AskedBy
    <3>4. IsFiniteSet(AskedBy(w, v.q, v.plants))
      <4> HIDE DEF began, who
      <4> QED
        BY <3>2, <3>3, FS_Surjection
    <3>5. AskedBy(u, v.q, v.plants) \subseteq AskedBy(w, v.q, v.plants)
      BY DEF AskedBy, InteractionsOf
    <3>6. /\ IsFiniteSet(AskedBy(u, v.q, v.plants))
          /\ Cardinality(AskedBy(u, v.q, v.plants)) <= Cardinality(AskedBy(w, v.q, v.plants))
      BY <3>4, <3>5, FS_Subset
    <3>7. /\ Cardinality(AskedBy(u, v.q, v.plants)) \in Nat
          /\ Cardinality(AskedBy(w, v.q, v.plants)) \in Nat
      BY <3>4, <3>6, FS_CardinalityType
    <3> QED
      BY <2>2, <3>6, <3>7
  <2>3. ASSUME v.step = "total", v.q.kind = "users", UserWalk(u, v)
        PROVE  Len(v.rows) <= Cardinality(AskedBy(w, v.q, v.plants))
    <3>1. v.rows \in Seq(Nat \X Nat) /\ Len(v.rows) <= Cardinality(AskedBy(u, v.q, v.plants))
      BY <2>3 DEF UserWalk
    <3> QED
      BY <2>2, <3>1
  <2> QED
    BY <2>1, <2>3 DEF ViewOk, UserWalk
<1> QED
  BY <1>1, <1>3, <1>4, <1>5 DEF ViewOk

LEMMA ReportsBegin == ReportsInit => ReportsInv
<1> SUFFICES ASSUME ReportsInit PROVE ReportsInv
  OBVIOUS
<1>1. usage \subseteq UsageFacts /\ IsFiniteSet(usage) /\ enrolled \subseteq Plants
  BY FactAssumption, InquiryAssumption DEF ReportsInit
<1>2. view.step = "none"
  BY DEF ReportsInit, NoView
<1>3. IsView(view)
  BY DEF ReportsInit, NoView, IsView, ViewFields, ViewSteps
<1> QED
  BY <1>1, <1>2, <1>3
     DEF ReportsInv, ViewOk, Answering, BreakdownInv, RowsInv, TenantWalk, UserWalk

LEMMA MeterKeeps == ASSUME NEW f \in UsageFacts, Meter(f), ReportsInv PROVE ReportsInv'
<1>1. IsFiniteSet(usage') /\ usage \subseteq usage' /\ usage' \subseteq UsageFacts
  BY FS_AddElement DEF Meter, ReportsInv
<1>2. ViewOk(usage', view)
  BY <1>1, MoreUsageIsFine DEF ReportsInv
<1> QED
  BY <1>1, <1>2 DEF Meter, ReportsInv

\* What the table of factories says belongs to no report.
LEMMA RegistryKeeps ==
  ASSUME NEW p \in Plants, Enrol(p) \/ Rename(p), ReportsInv
  PROVE  ReportsInv'
BY DEF Enrol, Rename, ReportsInv

LEMMA InquireKeeps == ASSUME NEW q \in Inquiry, Inquire(q), ReportsInv PROVE ReportsInv'
<1> DEFINE first == IF Supported(q) THEN FirstStep(q) ELSE "refused"
<1>1. view' = [NoView EXCEPT !.q = q, !.asked = usage, !.step = first]
  BY DEF Inquire
<1>2. first \in {"refused", "tenants", "accounts"} /\ (first # "refused" => Supported(q))
      /\ (first = "tenants" => q.kind # "by_tenant") /\ (first = "accounts" => q.kind = "by_tenant")
  BY DEF FirstStep
<1> HIDE DEF first
<1> DEFINE w == view'
<1>3. /\ w.step = first /\ w.q = q /\ w.asked = usage /\ w.plants = {} /\ w.accounts = {}
      /\ w.requested = {} /\ w.values = <<>> /\ w.offset = 0 /\ w.shown = {} /\ w.due = None
      /\ w.truncated = FALSE /\ w.disturbed = FALSE
  BY <1>1 DEF NoView
<1>4. w = [x \in ViewFields |-> w[x]]
  BY <1>1 DEF NoView, ViewFields
<1> HIDE DEF w
<1>5. IsView(w)
  <2>1. w.truncated \in BOOLEAN /\ w.disturbed \in BOOLEAN
    BY <1>3, Zenon
  <2>2. w.step \in ViewSteps
    BY <1>2, <1>3 DEF ViewSteps
  <2>3. w.plants \subseteq Plants /\ w.accounts \subseteq Plants /\ w.requested \subseteq Plants
        /\ w.offset \in Nat
    BY <1>3
  <2> QED
    BY <1>4, <2>1, <2>2, <2>3, Zenon DEF IsView
<1>6. ViewOk(usage, w)
  BY <1>2, <1>3, <1>5 DEF ViewOk, Answering, BreakdownInv, RowsInv, TenantWalk, UserWalk, Breakdowns
<1> QED
  BY <1>6 DEF w, ReportsInv, Inquire, TablesUnchanged

\* A breakdown that was counted right is answered.
LEMMA BreakdownEnds ==
  ASSUME ReportsInv, TablesUnchanged, view.step \in {"facts", "more"}, NEW values,
         NEW cut \in BOOLEAN,
         view' = [view EXCEPT !.step = "done", !.values = values, !.truncated = cut],
         ~cut => Right(values, view.q, view.asked, usage, Target(view.q))
  PROVE  ReportsInv'
<1> DEFINE v == view
           w == view'
<1>1. IsView(v) /\ Answering(usage, v)
  BY DEF ReportsInv, ViewOk
<1>2. /\ w.step = "done" /\ w.values = values /\ w.truncated = cut /\ w.q = v.q
      /\ w.asked = v.asked /\ w.plants = v.plants /\ w.accounts = v.accounts /\ w.due = v.due
      /\ w.requested = v.requested /\ w.offset = v.offset /\ w.disturbed = v.disturbed
      /\ w = [x \in ViewFields |-> w[x]]
  BY <1>1 DEF IsView, ViewFields
<1>3. v.q \in Inquiry /\ v.asked \subseteq usage /\ Supported(v.q) /\ v.q.kind \in Breakdowns
      /\ v.step # "none" /\ v.step # "refused" /\ v.due = None
  BY <1>1 DEF Answering, BreakdownInv, ReportsInv, ViewOk
<1> HIDE DEF v, w
<1>4. IsView(w)
  <2>1. w.truncated \in BOOLEAN /\ w.disturbed \in BOOLEAN
    BY <1>1, <1>2, Zenon DEF IsView
  <2>2. w.step \in ViewSteps
    BY <1>2 DEF ViewSteps
  <2>3. w.plants \subseteq Plants /\ w.accounts \subseteq Plants /\ w.requested \subseteq Plants
        /\ w.offset \in Nat
    BY <1>1, <1>2 DEF IsView
  <2> QED
    BY <1>2, <2>1, <2>2, <2>3, Zenon DEF IsView
<1>5. Answering(usage, w)
  BY <1>2, <1>3 DEF Answering
<1>6. BreakdownInv(usage, w)
  <2>1. ~w.truncated => Right(w.values, w.q, w.asked, usage, Target(w.q))
    BY <1>2, Zenon DEF v
  <2> QED
    BY <1>2, <1>3, <2>1 DEF BreakdownInv
<1>7. RowsInv(usage, w) /\ TenantWalk(w) /\ UserWalk(usage, w)
  BY <1>2, <1>3 DEF RowsInv, TenantWalk, UserWalk, Breakdowns
<1> QED
  BY <1>4, <1>5, <1>6, <1>7 DEF w, ReportsInv, ViewOk, TablesUnchanged

LEMMA TallyCounts == ASSUME NEW fs, NEW lab, IsFiniteSet(fs) PROVE Counts(TallyOf(fs, lab))
<1> SUFFICES ASSUME NEW l \in DOMAIN TallyOf(fs, lab) PROVE TallyOf(fs, lab)[l] \in Nat
  BY DEF Counts
<1>1. TallyOf(fs, lab)[l] = Cardinality({f \in fs : lab[f] = l})
  BY DEF TallyOf
<1>2. IsFiniteSet({f \in fs : lab[f] = l})
  BY FS_Subset
<1> QED
  BY <1>1, <1>2, FS_CardinalityType

\* The facts of a report are tallied by what it counts them under.
Labelled(fs, lab, q, plants) ==
  /\ \A f \in fs : f \in usage /\ f.plant \in plants /\ InPeriod(q, f) /\ LabelsOf(q, f) = {lab[f]}
  /\ \A f \in view.asked : (f.plant \in plants /\ InPeriod(q, f)) => (f \in fs \/ LabelsOf(q, f) = {})

LEMMA LabelledIsRight ==
  ASSUME ReportsInv, view.step \in {"facts", "more"}, NEW fs, NEW lab,
         Labelled(fs, lab, view.q, view.plants)
  PROVE  IsFiniteSet(fs) /\ Right(TallyOf(fs, lab), view.q, view.asked, usage, Target(view.q))
<1>1. Reaches(view.plants, view.q, view.asked) /\ view.asked \subseteq usage
  BY DEF ReportsInv, ViewOk, Answering, BreakdownInv
<1>2. IsFiniteSet(usage)
  BY DEF ReportsInv
<1>3. IsFiniteSet(fs)
  BY <1>2, FS_Subset DEF Labelled
<1>4. FactsOf(view.asked, Target(view.q)) \subseteq FactsOf(usage, Target(view.q))
  BY <1>1 DEF FactsOf
<1>5. IsFiniteSet(FactsOf(usage, Target(view.q)))
  BY <1>2, FS_Subset DEF FactsOf
<1>6. Tallied(fs, lab, view.q, FactsOf(view.asked, Target(view.q)), FactsOf(usage, Target(view.q)))
  BY <1>1 DEF Tallied, FactsOf, Reaches, Labelled
<1> QED
  BY <1>3, <1>4, <1>5, <1>6, TallyIsBetween, TallyCounts DEF Right

\* A tally that may be cut.
LEMMA CappedKeeps ==
  ASSUME ReportsInv, TablesUnchanged, view.step \in {"facts", "more"}, NEW fs, NEW lab,
         Labelled(fs, lab, view.q, view.plants), NEW kept \in MostCommon(TallyOf(fs, lab)),
         Answer([l \in kept |-> TallyOf(fs, lab)[l]],
                Overfull({f \in fs : lab[f] # None}, TallyOf(fs, lab)))
  PROVE  ReportsInv'
<1> DEFINE values == [l \in kept |-> TallyOf(fs, lab)[l]]
           cut == Overfull({f \in fs : lab[f] # None}, TallyOf(fs, lab))
<1>1. cut \in BOOLEAN
  BY DEF Overfull
<1>2. view' = [view EXCEPT !.step = "done", !.values = values, !.truncated = cut]
  BY DEF Answer
<1>3. ~cut => values = TallyOf(fs, lab)
  <2> SUFFICES ASSUME ~cut PROVE values = TallyOf(fs, lab)
    OBVIOUS
  <2>1. kept = DOMAIN TallyOf(fs, lab)
    BY LabelledIsRight, WholeTally
  <2> QED
    BY <2>1 DEF TallyOf
<1>4. ~cut => Right(values, view.q, view.asked, usage, Target(view.q))
  BY <1>3, LabelledIsRight
<1> HIDE DEF values, cut
<1> QED
  BY <1>1, <1>2, <1>4, BreakdownEnds

LEMMA UncutKeeps ==
  ASSUME ReportsInv, TablesUnchanged, view.step \in {"facts", "more"}, NEW fs, NEW lab,
         Labelled(fs, lab, view.q, view.plants), Answer(TallyOf(fs, lab), FALSE)
  PROVE  ReportsInv'
<1>1. Right(TallyOf(fs, lab), view.q, view.asked, usage, Target(view.q))
  BY LabelledIsRight
<1>2. view' = [view EXCEPT !.step = "done", !.values = TallyOf(fs, lab), !.truncated = FALSE]
  BY DEF Answer
<1> QED
  BY <1>1, <1>2, BreakdownEnds

LEMMA DimensionsKeep == Dimensions /\ ReportsInv => ReportsInv'
<1> SUFFICES ASSUME Dimensions, ReportsInv PROVE ReportsInv'
  OBVIOUS
<1> DEFINE q == view.q
           fs == IF q.dimension \in InteractionDimensions
                 THEN ListInteractionFacts(q, view.plants) ELSE ListLlmCallFacts(q, view.plants)
           lab == [f \in fs |-> FactAttr(q.dimension, f)]
<1>1. /\ view.step = "facts" /\ q.kind = "dimensions" /\ TablesUnchanged
      /\ AnswerCapped(fs, LAMBDA f : FactAttr(q.dimension, f))
  BY DEF Dimensions, Breaking
<1>2. q.dimension \in InteractionDimensions \cup LlmDimensions /\ view.asked \subseteq usage
  BY <1>1 DEF ReportsInv, ViewOk, Answering, Supported
<1>3. Labelled(fs, lab, q, view.plants)
  <2> DEFINE table == IF q.dimension = "actual_model" THEN "llm" ELSE "interaction"
  <2>1. fs = FactsIn(table, q, view.plants)
    BY <1>2 DEF ListInteractionFacts, ListLlmCallFacts, InteractionDimensions, LlmDimensions
  <2>2. \A f : LabelsOf(q, f) = IF f.table = table THEN {FactAttr(q.dimension, f)} ELSE {}
    BY <1>1 DEF LabelsOf
  <2>3. \A f \in fs : lab[f] = FactAttr(q.dimension, f)
    OBVIOUS
  <2> HIDE DEF fs, lab, table, q
  <2> QED
    BY <1>2, <2>1, <2>2, <2>3 DEF Labelled, FactsIn
<1>4. Tally(fs, LAMBDA f : FactAttr(q.dimension, f)) = TallyOf(fs, lab)
  BY DEF Tally, TallyOf
<1>5. {f \in fs : FactAttr(q.dimension, f) # None} = {f \in fs : lab[f] # None}
  OBVIOUS
<1>6. PICK kept \in MostCommon(TallyOf(fs, lab)) :
        Answer([l \in kept |-> TallyOf(fs, lab)[l]],
               Overfull({f \in fs : lab[f] # None}, TallyOf(fs, lab)))
  <2> HIDE DEF fs
  <2> QED
    BY <1>1, <1>4, <1>5, Zenon DEF AnswerCapped
<1> HIDE DEF fs, lab
<1> QED
  BY <1>1, <1>3, <1>6, CappedKeeps

LEMMA MesCategoriesKeep == MesCategories /\ ReportsInv => ReportsInv'
<1> SUFFICES ASSUME MesCategories, ReportsInv PROVE ReportsInv'
  OBVIOUS
<1> DEFINE q == view.q
           fs == {f \in ListMesCallFacts(q, view.plants) : f.status = "completed"}
           lab == [f \in fs |-> CategoryOf(f.key)]
<1>1. /\ view.step = "facts" /\ q.kind = "mes_categories" /\ TablesUnchanged
      /\ Answer(Tally(fs, LAMBDA f : CategoryOf(f.key)), FALSE)
  BY DEF MesCategories, Breaking
<1>2. view.asked \subseteq usage
  BY <1>1 DEF ReportsInv, ViewOk, Answering
<1>3. Labelled(fs, lab, q, view.plants)
  <2>1. fs = {f \in FactsIn("mes", q, view.plants) : f.status = "completed"}
    BY DEF ListMesCallFacts
  <2>2. \A f : LabelsOf(q, f) = IF f.table = "mes" /\ f.status = "completed"
                                THEN {CategoryOf(f.key)} ELSE {}
    BY <1>1 DEF LabelsOf
  <2>3. \A f \in fs : lab[f] = CategoryOf(f.key)
    OBVIOUS
  <2> HIDE DEF fs, lab, q
  <2> QED
    BY <1>2, <2>1, <2>2, <2>3 DEF Labelled, FactsIn
<1>4. Tally(fs, LAMBDA f : CategoryOf(f.key)) = TallyOf(fs, lab)
  BY DEF Tally, TallyOf
<1> HIDE DEF fs, lab
<1> QED
  BY <1>1, <1>3, <1>4, UncutKeeps

LEMMA ModelsKeep == Models /\ ReportsInv => ReportsInv'
<1> SUFFICES ASSUME Models, ReportsInv PROVE ReportsInv'
  OBVIOUS
<1> DEFINE q == view.q
           fs == ListLlmCallFacts(q, view.plants)
           lab == [f \in fs |-> f.key]
<1>1. /\ view.step = "facts" /\ q.kind = "models" /\ TablesUnchanged
      /\ Answer(Tally(fs, LAMBDA f : f.key), FALSE)
  BY DEF Models, Breaking
<1>2. view.asked \subseteq usage
  BY <1>1 DEF ReportsInv, ViewOk, Answering
<1>3. Labelled(fs, lab, q, view.plants)
  <2>1. fs = FactsIn("llm", q, view.plants)
    BY DEF ListLlmCallFacts
  <2>2. \A f : LabelsOf(q, f) = IF f.table = "llm" THEN {f.key} ELSE {}
    BY <1>1 DEF LabelsOf
  <2>3. \A f \in fs : lab[f] = f.key
    OBVIOUS
  <2> HIDE DEF fs, lab, q
  <2> QED
    BY <1>2, <2>1, <2>2, <2>3 DEF Labelled, FactsIn
<1>4. Tally(fs, LAMBDA f : f.key) = TallyOf(fs, lab)
  BY DEF Tally, TallyOf
<1> HIDE DEF fs, lab
<1> QED
  BY <1>1, <1>3, <1>4, UncutKeeps

LEMMA MesOperationsKeep == MesOperations /\ ReportsInv => ReportsInv'
<1> SUFFICES ASSUME MesOperations, ReportsInv PROVE ReportsInv'
  OBVIOUS
<1> DEFINE q == view.q
           fs == {f \in ListMesCallFacts(q, view.plants) : f.status = "completed"}
           lab == [f \in fs |-> f.key]
<1>1. /\ view.step = "facts" /\ q.kind = "mes_operations" /\ TablesUnchanged
      /\ AnswerCapped(fs, LAMBDA f : f.key)
  BY DEF MesOperations, Breaking
<1>2. view.asked \subseteq usage
  BY <1>1 DEF ReportsInv, ViewOk, Answering
<1>3. Labelled(fs, lab, q, view.plants)
  <2>1. fs = {f \in FactsIn("mes", q, view.plants) : f.status = "completed"}
    BY DEF ListMesCallFacts
  <2>2. \A f : LabelsOf(q, f) = IF f.table = "mes" /\ f.status = "completed" THEN {f.key} ELSE {}
    BY <1>1 DEF LabelsOf
  <2>3. \A f \in fs : lab[f] = f.key
    OBVIOUS
  <2> HIDE DEF fs, lab, q
  <2> QED
    BY <1>2, <2>1, <2>2, <2>3 DEF Labelled, FactsIn
<1>4. Tally(fs, LAMBDA f : f.key) = TallyOf(fs, lab)
  BY DEF Tally, TallyOf
<1>5. {f \in fs : f.key # None} = {f \in fs : lab[f] # None}
  OBVIOUS
<1>6. PICK kept \in MostCommon(TallyOf(fs, lab)) :
        Answer([l \in kept |-> TallyOf(fs, lab)[l]],
               Overfull({f \in fs : lab[f] # None}, TallyOf(fs, lab)))
  <2> HIDE DEF fs
  <2> QED
    BY <1>1, <1>4, <1>5, Zenon DEF AnswerCapped
<1> HIDE DEF fs, lab
<1> QED
  BY <1>1, <1>3, <1>6, CappedKeeps

LEMMA LlmErrorsKeep == LlmErrors /\ ReportsInv => ReportsInv'
<1> SUFFICES ASSUME LlmErrors, ReportsInv PROVE ReportsInv'
  OBVIOUS
<1> DEFINE q == view.q
           fs == view.counted \cup ListLlmCallFacts(q, view.plants)
           lab == [f \in fs |-> f.error]
<1>1. view.step = "more" /\ TablesUnchanged /\ AnswerCapped(fs, LAMBDA f : f.error)
  BY DEF LlmErrors
<1>2. view.asked \subseteq usage /\ usage \subseteq UsageFacts /\ q.kind = "errors"
  BY <1>1 DEF ReportsInv, ViewOk, Answering
<1>3. /\ InteractionsOf(view.asked, q, view.plants) \subseteq view.counted
      /\ view.counted \subseteq InteractionsOf(usage, q, view.plants)
  BY <1>1, <1>2 DEF ReportsInv, ViewOk, BreakdownInv, Breakdowns, ReportKinds
<1>4. Labelled(fs, lab, q, view.plants)
  <2>1. fs = view.counted \cup FactsIn("llm", q, view.plants)
    BY DEF ListLlmCallFacts
  <2>2. \A f : LabelsOf(q, f) = IF f.table # "mes" THEN {f.error} ELSE {}
    BY <1>2 DEF LabelsOf
  <2>3. \A f \in fs : lab[f] = f.error
    OBVIOUS
  <2>4. \A f \in usage : f.table \in {"interaction", "llm", "mes"}
    BY <1>2, FactAssumption DEF UsageFact
  <2> HIDE DEF fs, lab, q
  <2> QED
    BY <1>2, <1>3, <2>1, <2>2, <2>3, <2>4 DEF Labelled, FactsIn, InteractionsOf
<1>5. Tally(fs, LAMBDA f : f.error) = TallyOf(fs, lab)
  BY DEF Tally, TallyOf
<1>6. {f \in fs : f.error # None} = {f \in fs : lab[f] # None}
  OBVIOUS
<1>7. PICK kept \in MostCommon(TallyOf(fs, lab)) :
        Answer([l \in kept |-> TallyOf(fs, lab)[l]],
               Overfull({f \in fs : lab[f] # None}, TallyOf(fs, lab)))
  <2> HIDE DEF fs
  <2> QED
    BY <1>1, <1>5, <1>6, Zenon DEF AnswerCapped
<1> HIDE DEF fs, lab
<1> QED
  BY <1>1, <1>4, <1>7, CappedKeeps

LEMMA InteractionErrorsKeep == InteractionErrors /\ ReportsInv => ReportsInv'
<1> SUFFICES ASSUME InteractionErrors, ReportsInv PROVE ReportsInv'
  OBVIOUS
<1> DEFINE v == view
           w == view'
           counted == ListInteractionFacts(v.q, v.plants)
<1>1. /\ v.step = "facts" /\ v.q.kind = "errors" /\ TablesUnchanged
      /\ w = [v EXCEPT !.step = "more", !.counted = counted]
  BY DEF InteractionErrors, Breaking
<1>2. IsView(v) /\ Answering(usage, v) /\ BreakdownInv(usage, v)
  BY DEF ReportsInv, ViewOk
<1>3. /\ v.q \in Inquiry /\ v.asked \subseteq usage /\ Supported(v.q)
      /\ Reaches(v.plants, v.q, v.asked) /\ v.due = None
  BY <1>1, <1>2 DEF Answering, BreakdownInv
<1>4. /\ InteractionsOf(v.asked, v.q, v.plants) \subseteq counted
      /\ counted \subseteq InteractionsOf(usage, v.q, v.plants)
  BY <1>3 DEF InteractionsOf, ListInteractionFacts, FactsIn
<1> HIDE DEF counted
<1>5. /\ w.step = "more" /\ w.counted = counted /\ w.values = v.values
      /\ w.truncated = v.truncated /\ w.q = v.q
      /\ w.asked = v.asked /\ w.plants = v.plants /\ w.accounts = v.accounts /\ w.due = v.due
      /\ w.requested = v.requested /\ w.offset = v.offset /\ w.disturbed = v.disturbed
      /\ w = [x \in ViewFields |-> w[x]]
  BY <1>1, <1>2 DEF IsView, ViewFields
<1> HIDE DEF v, w
<1>6. IsView(w)
  <2>1. w.truncated \in BOOLEAN /\ w.disturbed \in BOOLEAN
    BY <1>2, <1>5, Zenon DEF IsView
  <2>2. w.step \in ViewSteps
    BY <1>5 DEF ViewSteps
  <2>3. w.plants \subseteq Plants /\ w.accounts \subseteq Plants /\ w.requested \subseteq Plants
        /\ w.offset \in Nat
    BY <1>2, <1>5 DEF IsView
  <2> QED
    BY <1>5, <2>1, <2>2, <2>3, Zenon DEF IsView
<1>7. Answering(usage, w) /\ BreakdownInv(usage, w)
  BY <1>1, <1>3, <1>4, <1>5 DEF Answering, BreakdownInv, Breakdowns, ReportKinds
<1>8. RowsInv(usage, w) /\ TenantWalk(w) /\ UserWalk(usage, w)
  BY <1>1, <1>5 DEF RowsInv, TenantWalk, UserWalk
<1> QED
  BY <1>1, <1>6, <1>7, <1>8 DEF w, ReportsInv, ViewOk, TablesUnchanged

LEMMA CategoryIsKnown == \A o : CategoryOf(o) \in Categories
BY FactAssumption DEF CategoryOf, Categories

\* A failed call is counted once under its category and once under its error.
LEMMA MesFailuresKeep == MesFailures /\ ReportsInv => ReportsInv'
<1> SUFFICES ASSUME MesFailures, ReportsInv PROVE ReportsInv'
  OBVIOUS
<1> DEFINE q == view.q
           fs == {f \in ListMesCallFacts(q, view.plants) : f.status = "failed"}
           cat == TallyOf(fs, [f \in fs |-> CategoryOf(f.key)])
           err == TallyOf(fs, [f \in fs |-> f.error])
           values == [l \in ({"category"} \X DOMAIN cat) \cup ({"error"} \X DOMAIN err) |->
                        IF l[1] = "category" THEN cat[l[2]] ELSE err[l[2]]]
           before == FactsOf(view.asked, Target(q))
           after == FactsOf(usage, Target(q))
<1>1. /\ Tally(fs, LAMBDA f : CategoryOf(f.key)) = cat
      /\ Tally(fs, LAMBDA f : f.error) = err
  BY DEF Tally, TallyOf
<1>2. view.step = "facts" /\ q.kind = "mes_failures" /\ TablesUnchanged
  BY DEF MesFailures, Breaking
<1>3. Answer(values, FALSE)
  BY <1>1 DEF MesFailures
<1>4. /\ view.asked \subseteq usage /\ Reaches(view.plants, q, view.asked)
      /\ IsFiniteSet(usage)
  BY <1>2 DEF ReportsInv, ViewOk, Answering, BreakdownInv
<1>5. fs = {f \in FactsIn("mes", q, view.plants) : f.status = "failed"}
  BY DEF ListMesCallFacts
<1>6. \A f : LabelsOf(q, f) =
        IF f.table = "mes" /\ f.status = "failed"
        THEN {<<"category", CategoryOf(f.key)>>} \cup ({"error"} \X ({f.error} \ {None})) ELSE {}
  BY <1>2 DEF LabelsOf
<1>7. /\ DOMAIN cat = {CategoryOf(f.key) : f \in fs}
      /\ \A c \in DOMAIN cat : cat[c] = Cardinality({f \in fs : CategoryOf(f.key) = c})
  <2>1. None \notin {CategoryOf(f.key) : f \in fs}
    BY CategoryIsKnown, FactAssumption
  <2> QED
    BY <2>1 DEF TallyOf
<1>8. /\ DOMAIN err = {f.error : f \in fs} \ {None}
      /\ \A e \in DOMAIN err : err[e] = Cardinality({f \in fs : f.error = e})
  BY DEF TallyOf
<1>9. fs \subseteq after /\ \A f \in fs : InPeriod(q, f) /\ f.table = "mes" /\ f.status = "failed"
  <2> HIDE DEF q, fs
  <2> QED
    BY <1>4, <1>5 DEF FactsIn, Reaches, FactsOf
<1>10. \A f \in before : InPeriod(q, f) => (f \in fs \/ LabelsOf(q, f) = {})
  <2> HIDE DEF q, fs
  <2> QED
    BY <1>4, <1>5, <1>6 DEF FactsIn, Reaches, FactsOf
<1>11. IsFiniteSet(after) /\ IsFiniteSet(fs)
  BY <1>4, <1>9, FS_Subset DEF FactsOf
<1> HIDE DEF cat, err, fs, q, before, after
<1>12. ASSUME NEW l, l # None
       PROVE  LET n == IF l \in DOMAIN values THEN values[l] ELSE 0 IN
              n = Cardinality({f \in fs : l \in LabelsOf(q, f)})
  <2> DEFINE mid == {f \in fs : l \in LabelsOf(q, f)}
  <2>1. ASSUME NEW c \in DOMAIN cat, l = <<"category", c>>
        PROVE  l \in DOMAIN values /\ values[l] = Cardinality(mid)
    <3>1. mid = {f \in fs : CategoryOf(f.key) = c}
      BY <1>6, <1>9, <2>1
    <3>2. l \in DOMAIN values /\ values[l] = cat[c]
      BY <2>1
    <3> QED
      BY <1>7, <3>1, <3>2
  <2>2. ASSUME NEW e \in DOMAIN err, l = <<"error", e>>
        PROVE  l \in DOMAIN values /\ values[l] = Cardinality(mid)
    <3>1. mid = {f \in fs : f.error = e}
      BY <1>6, <1>8, <1>9, <2>2
    <3>2. l \in DOMAIN values /\ values[l] = err[e]
      BY <2>2
    <3> QED
      BY <1>8, <3>1, <3>2
  <2>3. ASSUME l \notin DOMAIN values PROVE Cardinality(mid) = 0
    <3>1. ASSUME NEW f \in fs, l \in LabelsOf(q, f) PROVE FALSE
      <4>1. CASE l = <<"category", CategoryOf(f.key)>>
        BY <1>7, <2>3, <4>1
      <4>2. CASE l \in {"error"} \X ({f.error} \ {None})
        BY <1>8, <2>3, <4>2
      <4> QED
        BY <1>6, <1>9, <3>1, <4>1, <4>2
    <3>2. mid = {}
      BY <3>1
    <3> QED
      BY <3>2, FS_EmptySet
  <2> HIDE DEF mid
  <2>4. CASE l \in DOMAIN values
    <3>1. (\E c \in DOMAIN cat : l = <<"category", c>>) \/ (\E e \in DOMAIN err : l = <<"error", e>>)
      BY <2>4
    <3>2. values[l] = Cardinality(mid)
      <4> HIDE DEF values
      <4> QED
        BY <2>1, <2>2, <3>1
    <3> HIDE DEF values
    <3> QED
      BY <2>4, <3>2 DEF mid
  <2>5. CASE l \notin DOMAIN values
    <3> HIDE DEF values
    <3> QED
      BY <2>3, <2>5 DEF mid
  <2> QED
    BY <2>4, <2>5
<1> DEFINE number(l) == IF l \in DOMAIN values THEN values[l] ELSE 0
<1>13. ASSUME NEW l, l # None
       PROVE  /\ number(l) \in Nat
              /\ Cardinality(Counting(before, q, l)) <= number(l)
              /\ number(l) <= Cardinality(Counting(after, q, l))
  <2> DEFINE mid == {f \in fs : l \in LabelsOf(q, f)}
  <2>1. number(l) = Cardinality(mid)
    <3> HIDE DEF values
    <3> QED
      BY <1>12, <1>13
  <2>2. Counting(before, q, l) \subseteq mid /\ mid \subseteq Counting(after, q, l)
    BY <1>9, <1>10 DEF Counting
  <2>3. IsFiniteSet(Counting(after, q, l))
    BY <1>11, FS_Subset DEF Counting
  <2>4. IsFiniteSet(mid) /\ Cardinality(mid) <= Cardinality(Counting(after, q, l))
    BY <2>2, <2>3, FS_Subset
  <2>5. Cardinality(Counting(before, q, l)) <= Cardinality(mid) /\ Cardinality(mid) \in Nat
    BY <2>2, <2>4, FS_Subset, FS_CardinalityType
  <2> HIDE DEF mid, values, number
  <2> QED
    BY <2>1, <2>4, <2>5
<1>14. Counts(cat) /\ Counts(err)
  BY <1>11, TallyCounts DEF cat, err
<1>15. Counts(values)
  BY <1>14 DEF Counts
<1>16. Between(values, q, before, after)
  <2> HIDE DEF values
  <2> QED
    BY <1>13, BetweenLabels
<1> HIDE DEF values
<1>17. Right(values, view.q, view.asked, usage, Target(view.q))
  BY <1>15, <1>16 DEF Right, before, after, q
<1>18. view' = [view EXCEPT !.step = "done", !.values = values, !.truncated = FALSE]
  BY <1>3 DEF Answer
<1> QED
  BY <1>2, <1>17, <1>18, BreakdownEnds

\* A step that leaves the walk as it is: nothing was read, or only the registry.
SameWalk(v, w) ==
  /\ w = [x \in ViewFields |-> w[x]]
  /\ w.q = v.q /\ w.asked = v.asked /\ w.plants = v.plants /\ w.values = v.values
  /\ w.truncated = v.truncated /\ w.offset = v.offset /\ w.shown = v.shown /\ w.due = v.due
  /\ w.rows = v.rows /\ w.disturbed = v.disturbed
  /\ w.accounts \subseteq Plants /\ w.requested \subseteq Plants

LEMMA SameWalkKeeps ==
  ASSUME ReportsInv, TablesUnchanged, view.step # "none", SameWalk(view, view'),
         view'.step \in {"refused", "tenants", "accounts", "names", "candidates"},
         view'.step # "refused" => view.step # "refused",
         view'.step = "tenants" => view.q.kind = "users",
         view'.step \in {"accounts", "names", "candidates"} => view.q.kind = "by_tenant"
  PROVE  ReportsInv'
<1> DEFINE v == view
           w == view'
<1>1. ViewOk(usage, v)
  BY DEF ReportsInv
<1>2. /\ w = [x \in ViewFields |-> w[x]]
      /\ w.q = v.q /\ w.asked = v.asked /\ w.plants = v.plants /\ w.values = v.values
      /\ w.truncated = v.truncated /\ w.offset = v.offset /\ w.shown = v.shown /\ w.due = v.due
      /\ w.rows = v.rows /\ w.disturbed = v.disturbed
      /\ w.accounts \subseteq Plants /\ w.requested \subseteq Plants
  BY DEF SameWalk
<1>3. /\ v.step # "none" /\ w.step \in {"refused", "tenants", "accounts", "names", "candidates"}
      /\ (w.step # "refused" => v.step # "refused")
      /\ (w.step = "tenants" => v.q.kind = "users")
      /\ (w.step \in {"accounts", "names", "candidates"} => v.q.kind = "by_tenant")
  OBVIOUS
<1> HIDE DEF v, w
<1>4. IsView(w)
  <2>1. w.truncated \in BOOLEAN /\ w.disturbed \in BOOLEAN
    BY <1>1, <1>2, Zenon DEF IsView, ViewOk
  <2>2. w.step \in ViewSteps
    BY <1>3 DEF ViewSteps
  <2>3. w.plants \subseteq Plants /\ w.offset \in Nat
    BY <1>1, <1>2 DEF IsView, ViewOk
  <2> QED
    BY <1>2, <2>1, <2>2, <2>3, Zenon DEF IsView
<1>5. Answering(usage, w)
  BY <1>1, <1>2, <1>3 DEF Answering, ViewOk
<1>6. BreakdownInv(usage, w)
  BY <1>1, <1>2, <1>3 DEF BreakdownInv, Breakdowns, ViewOk
<1>7. RowsInv(usage, w)
  BY <1>1, <1>2, <1>3 DEF RowsInv, ViewOk
<1>8. TenantWalk(w)
  BY <1>1, <1>2, <1>3 DEF TenantWalk, ViewOk
<1>9. UserWalk(usage, w)
  BY <1>1, <1>2, <1>3 DEF UserWalk, ViewOk
<1> QED
  BY <1>4, <1>5, <1>6, <1>7, <1>8, <1>9 DEF w, ReportsInv, ViewOk, TablesUnchanged

LEMMA RefusedKeeps ==
  ASSUME ReportsInv, TablesUnchanged, view.step # "none", Refused
  PROVE  ReportsInv'
<1>1. IsView(view) /\ view' = [view EXCEPT !.step = "refused"]
  BY DEF ReportsInv, ViewOk, Refused
<1>2. SameWalk(view, view') /\ view'.step = "refused"
  BY <1>1 DEF SameWalk, IsView, ViewFields
<1> QED
  BY <1>2, SameWalkKeeps

LEMMA NextPageKeeps == NextPage /\ ReportsInv => ReportsInv'
<1> SUFFICES ASSUME NextPage, ReportsInv PROVE ReportsInv'
  OBVIOUS
<1>1. /\ IsView(view) /\ view.step = "answered" /\ TablesUnchanged
      /\ view' = [view EXCEPT !.step = FirstStep(view.q)]
  BY DEF ReportsInv, ViewOk, NextPage
<1>2. SameWalk(view, view') /\ view'.step = FirstStep(view.q)
  BY <1>1 DEF SameWalk, IsView, ViewFields
<1>3. view.q.kind \in {"users", "by_tenant"}
  BY <1>1 DEF ReportsInv, ViewOk, Answering
<1> QED
  BY <1>1, <1>2, <1>3, SameWalkKeeps DEF FirstStep

LEMMA RegistryIndexKeeps == RegistryIndex /\ ReportsInv => ReportsInv'
<1> SUFFICES ASSUME RegistryIndex, ReportsInv PROVE ReportsInv'
  OBVIOUS
<1>1. IsView(view) /\ view.step = "accounts" /\ TablesUnchanged /\ enrolled \subseteq Plants
  BY DEF ReportsInv, ViewOk, RegistryIndex
<1>2. view.q.kind = "by_tenant" /\ view.q \in Inquiry
  BY <1>1 DEF ReportsInv, ViewOk, Answering
<1>3. CASE Addresses(view.q)
  <2> DEFINE s == IF view.q.name THEN "names" ELSE "candidates"
             r == IF view.q.ref = None THEN {} ELSE {view.q.ref}
  <2>1. view' = [view EXCEPT !.step = s, !.accounts = enrolled, !.requested = r]
    BY <1>3 DEF RegistryIndex
  <2>2. r \subseteq Plants
    BY <1>2, InquiryAssumption
  <2>3. s \in {"names", "candidates"}
    OBVIOUS
  <2> HIDE DEF s, r
  <2>4. SameWalk(view, view') /\ view'.step = s
    BY <1>1, <2>1, <2>2 DEF SameWalk, IsView, ViewFields
  <2> QED
    BY <1>1, <1>2, <2>3, <2>4, SameWalkKeeps
<1>4. CASE ~Addresses(view.q)
  BY <1>1, <1>4, RefusedKeeps DEF RegistryIndex
<1> QED
  BY <1>3, <1>4

LEMMA SearchNamesKeeps == SearchNames /\ ReportsInv => ReportsInv'
<1> SUFFICES ASSUME SearchNames, ReportsInv PROVE ReportsInv'
  OBVIOUS
<1>1. /\ IsView(view) /\ view.step = "names" /\ TablesUnchanged /\ enrolled \subseteq Plants
      /\ view' = [view EXCEPT !.step = "candidates", !.requested = @ \cup (matching \cap enrolled)]
  BY DEF ReportsInv, ViewOk, SearchNames
<1>2. view.q.kind = "by_tenant"
  BY <1>1 DEF ReportsInv, ViewOk, Answering
<1>3. SameWalk(view, view') /\ view'.step = "candidates"
  BY <1>1 DEF SameWalk, IsView, ViewFields
<1> QED
  BY <1>1, <1>2, <1>3, SameWalkKeeps

\* The plants of a report are known; without any it is empty, and right.
LEMMA ConcerningKeeps ==
  ASSUME ReportsInv, TablesUnchanged, view.step \in {"tenants", "ref"}, NEW plants \in SUBSET Plants,
         Concerning(plants),
         view.q.kind \in Breakdowns => Reaches(plants, view.q, view.asked),
         view.q.kind = "users" /\ plants # {} =>
           \E p \in BasePlants(usage, view.q) : view.q.ref \in {None, p},
         view.q.kind = "users" /\ view.due # None => plants # {}
  PROVE  ReportsInv'
<1> DEFINE v == view
           w == view'
           s == IF plants = {} THEN "done" ELSE IF v.q.kind = "users" THEN "page" ELSE "facts"
<1>1. ViewOk(usage, v) /\ v.step \in {"tenants", "ref"}
  BY DEF ReportsInv
<1>2. w = [v EXCEPT !.plants = plants, !.step = s]
  BY DEF Concerning
<1>3. /\ s \in {"done", "page", "facts"} /\ (s = "done" => plants = {})
      /\ (s = "page" => v.q.kind = "users") /\ (s = "facts" => v.q.kind # "users")
      /\ (s # "done" => plants # {})
  OBVIOUS
<1> HIDE DEF s
<1>4. /\ w = [x \in ViewFields |-> w[x]] /\ w.step = s /\ w.plants = plants
      /\ w.q = v.q /\ w.asked = v.asked /\ w.values = v.values
      /\ w.truncated = v.truncated /\ w.offset = v.offset /\ w.shown = v.shown /\ w.due = v.due
      /\ w.rows = v.rows /\ w.disturbed = v.disturbed
      /\ w.accounts = v.accounts /\ w.requested = v.requested
  BY <1>1, <1>2 DEF IsView, ViewFields, ViewOk
<1>5. /\ v.q.kind \in Breakdowns => Reaches(plants, v.q, v.asked)
      /\ v.q.kind = "users" /\ plants # {} =>
           \E p \in BasePlants(usage, v.q) : v.q.ref \in {None, p}
      /\ v.q.kind = "users" /\ v.due # None => plants # {}
  OBVIOUS
<1>6. v.q.kind \in ReportKinds /\ v.q.kind # "by_tenant" /\ v.asked \subseteq usage /\ v.q \in Inquiry
  BY <1>1, InquiryAssumption DEF ViewOk, Answering
<1>7. IsFiniteSet(usage)
  BY DEF ReportsInv
<1> HIDE DEF v, w
<1>8. IsView(w)
  <2>1. w.truncated \in BOOLEAN /\ w.disturbed \in BOOLEAN
    BY <1>1, <1>4, Zenon DEF IsView, ViewOk
  <2>2. w.step \in ViewSteps
    BY <1>3, <1>4 DEF ViewSteps
  <2>3. w.plants \subseteq Plants /\ w.accounts \subseteq Plants /\ w.requested \subseteq Plants
        /\ w.offset \in Nat
    BY <1>1, <1>4 DEF IsView, ViewOk
  <2> QED
    BY <1>4, <2>1, <2>2, <2>3, Zenon DEF IsView
<1>9. Answering(usage, w)
  BY <1>1, <1>3, <1>4, <1>6 DEF Answering, ViewOk, Breakdowns
<1>10. BreakdownInv(usage, w)
  <2>1. ASSUME v.q.kind \in Breakdowns, plants = {}
        PROVE  v.values = <<>> /\ Right(<<>>, v.q, v.asked, usage, Target(v.q))
    <3>1. v.values = <<>>
      BY <1>1, <2>1 DEF ViewOk, BreakdownInv
    <3>2. \A l : Counting(FactsOf(v.asked, Target(v.q)), v.q, l) = {}
      BY <1>5, <2>1 DEF Counting, FactsOf, Reaches
    <3>3. DOMAIN <<>> = {}
      OBVIOUS
    <3>4. ASSUME NEW l
          PROVE  Cardinality(Counting(FactsOf(usage, Target(v.q)), v.q, l)) \in Nat
      <4>1. Counting(FactsOf(usage, Target(v.q)), v.q, l) \subseteq usage
        BY DEF Counting, FactsOf
      <4> QED
        BY <1>7, <4>1, FS_Subset, FS_CardinalityType
    <3>5. Between(<<>>, v.q, FactsOf(v.asked, Target(v.q)), FactsOf(usage, Target(v.q)))
      <4>1. ASSUME NEW l
            PROVE  LET n == IF l \in DOMAIN <<>> THEN <<>>[l] ELSE 0 IN
                   /\ Cardinality(Counting(FactsOf(v.asked, Target(v.q)), v.q, l)) <= n
                   /\ n <= Cardinality(Counting(FactsOf(usage, Target(v.q)), v.q, l))
        BY <3>2, <3>3, <3>4, FS_EmptySet
      <4> QED
        BY <4>1, BetweenLabels
    <3> QED
      BY <3>1, <3>3, <3>5 DEF Right, Counts
  <2> QED
    BY <1>1, <1>3, <1>4, <1>5, <2>1 DEF BreakdownInv, ViewOk
<1>11. RowsInv(usage, w) /\ TenantWalk(w)
  BY <1>4, <1>6 DEF RowsInv, TenantWalk
<1>12. UserWalk(usage, w)
  BY <1>1, <1>3, <1>4, <1>5 DEF UserWalk, ViewOk
<1> QED
  BY <1>8, <1>9, <1>10, <1>11, <1>12 DEF w, ReportsInv, ViewOk, TablesUnchanged

LEMMA BaseIsKnown ==
  ASSUME ReportsInv, NEW q \in Inquiry
  PROVE  /\ BasePlants(usage, q) \subseteq Plants
         /\ \A p \in BasePlants(usage, q) : CoversTenant(q, p)
         /\ \A f \in usage : (InPeriod(q, f) /\ CoversTenant(q, f.plant)) =>
                               f.plant \in BasePlants(usage, q)
<1>1. q.scope \subseteq Plants
  BY InquiryAssumption
<1>2. \A f \in usage : f.plant \in Plants
  BY FactAssumption DEF ReportsInv, UsageFact
<1> QED
  BY <1>1, <1>2 DEF BasePlants, CoversTenant

LEMMA TenantIdsKeeps == TenantIds /\ ReportsInv => ReportsInv'
<1> SUFFICES ASSUME TenantIds, ReportsInv PROVE ReportsInv'
  OBVIOUS
<1> DEFINE base == BasePlants(usage, view.q)
<1>1. view.step = "tenants" /\ TablesUnchanged
  BY DEF TenantIds
<1>2. base = IF view.q.scope # {} THEN view.q.scope ELSE TenantsWithFacts(view.q)
  BY DEF BasePlants, TenantsWithFacts
<1>3. IF view.q.ref = None THEN Concerning(base)
      ELSE view' = [view EXCEPT !.plants = base, !.step = "ref"]
  BY <1>2 DEF TenantIds
<1>4. ViewOk(usage, view) /\ view.q \in Inquiry /\ view.asked \subseteq usage
      /\ view.q.kind # "by_tenant" /\ view.q.kind \in ReportKinds
  BY <1>1, InquiryAssumption DEF ReportsInv, ViewOk, Answering
<1>5. /\ base \subseteq Plants
      /\ \A p \in base : CoversTenant(view.q, p)
      /\ \A f \in usage : (InPeriod(view.q, f) /\ CoversTenant(view.q, f.plant)) => f.plant \in base
  BY <1>4, BaseIsKnown
<1>6. view.q.kind = "users" /\ view.due # None => \E p \in base : view.q.ref \in {None, p}
  BY <1>1, <1>4 DEF ViewOk, UserWalk
<1>7. CASE view.q.ref = None
  <2>1. Reaches(base, view.q, view.asked)
    BY <1>4, <1>5, <1>7 DEF Reaches, Target
  <2>2. base # {} => \E p \in base : view.q.ref \in {None, p}
    BY <1>7
  <2>3. Concerning(base)
    BY <1>3, <1>7
  <2>4. view.q.kind = "users" /\ view.due # None => base # {}
    BY <1>6
  <2>5. base \in SUBSET Plants
    BY <1>5
  <2>6. view.q.kind = "users" /\ base # {} =>
          \E p \in BasePlants(usage, view.q) : view.q.ref \in {None, p}
    BY <2>2
  <2>7. view.step \in {"tenants", "ref"}
    BY <1>1
  <2> HIDE DEF base
  <2> QED
    BY <1>1, <2>1, <2>3, <2>4, <2>5, <2>6, <2>7, ConcerningKeeps
<1>8. CASE view.q.ref # None
  <2> DEFINE v == view
             w == view'
  <2>1. w = [v EXCEPT !.plants = base, !.step = "ref"]
    BY <1>3, <1>8
  <2>2. /\ w = [x \in ViewFields |-> w[x]] /\ w.step = "ref" /\ w.plants = base
        /\ w.q = v.q /\ w.asked = v.asked /\ w.values = v.values
        /\ w.truncated = v.truncated /\ w.offset = v.offset /\ w.shown = v.shown /\ w.due = v.due
        /\ w.rows = v.rows /\ w.disturbed = v.disturbed
        /\ w.accounts = v.accounts /\ w.requested = v.requested
    <3> HIDE DEF base
    <3> QED
      BY <1>4, <2>1 DEF IsView, ViewFields, ViewOk
  <2>3. base \subseteq BasePlants(usage, v.q)
    OBVIOUS
  <2> HIDE DEF base
  <2>4. v.step = "tenants" /\ v.q.kind # "by_tenant" /\ v.q.ref # None /\ ViewOk(usage, v)
    BY <1>1, <1>4, <1>8
  <2>5. /\ base \subseteq Plants
        /\ \A p \in base : CoversTenant(v.q, p)
        /\ \A f \in v.asked : (InPeriod(v.q, f) /\ CoversTenant(v.q, f.plant)) => f.plant \in base
        /\ v.q.kind = "users" /\ v.due # None => v.q.ref \in base
    BY <1>4, <1>5, <1>6, <1>8
  <2> HIDE DEF v, w
  <2>6. IsView(w)
    <3>1. w.truncated \in BOOLEAN /\ w.disturbed \in BOOLEAN
      BY <2>2, <2>4, Zenon DEF IsView, ViewOk
    <3>2. w.step \in ViewSteps
      BY <2>2 DEF ViewSteps
    <3>3. w.plants \subseteq Plants /\ w.accounts \subseteq Plants /\ w.requested \subseteq Plants
          /\ w.offset \in Nat
      BY <2>2, <2>4, <2>5 DEF IsView, ViewOk
    <3> QED
      BY <2>2, <3>1, <3>2, <3>3, Zenon DEF IsView
  <2>7. Answering(usage, w)
    BY <2>2, <2>4 DEF Answering, ViewOk
  <2>8. BreakdownInv(usage, w)
    BY <2>2, <2>4, <2>5 DEF BreakdownInv, ViewOk
  <2>9. RowsInv(usage, w) /\ TenantWalk(w)
    BY <2>2, <2>4 DEF RowsInv, TenantWalk
  <2>10. UserWalk(usage, w)
    BY <2>2, <2>3, <2>4, <2>5 DEF UserWalk, ViewOk
  <2> QED
    BY <1>1, <2>6, <2>7, <2>8, <2>9, <2>10 DEF w, ReportsInv, ViewOk, TablesUnchanged
<1> QED
  BY <1>7, <1>8

LEMMA ResolveRefKeeps == ResolveRef /\ ReportsInv => ReportsInv'
<1> SUFFICES ASSUME ResolveRef, ReportsInv PROVE ReportsInv'
  OBVIOUS
<1> DEFINE plants == view.plants \cap {view.q.ref}
<1>1. view.step = "ref" /\ TablesUnchanged
  BY DEF ResolveRef
<1>2. ViewOk(usage, view) /\ view.q.ref # None /\ view.plants \subseteq Plants
      /\ view.asked \subseteq usage
  BY <1>1 DEF ReportsInv, ViewOk, Answering, IsView
<1>3. CASE Addresses(view.q)
  <2>1. Concerning(plants)
    BY <1>3 DEF ResolveRef
  <2>2. view.q.kind \in Breakdowns => Reaches(plants, view.q, view.asked)
    <3> SUFFICES ASSUME view.q.kind \in Breakdowns PROVE Reaches(plants, view.q, view.asked)
      OBVIOUS
    <3>1. /\ \A p \in view.plants : CoversTenant(view.q, p)
          /\ \A f \in view.asked :
               (InPeriod(view.q, f) /\ CoversTenant(view.q, f.plant)) => f.plant \in view.plants
      BY <1>1, <1>2 DEF ViewOk, BreakdownInv
    <3> QED
      BY <1>2, <3>1 DEF Reaches, Target
  <2>3. view.q.kind = "users" /\ plants # {} =>
          \E p \in BasePlants(usage, view.q) : view.q.ref \in {None, p}
    BY <1>1, <1>2 DEF ViewOk, UserWalk
  <2>4. view.q.kind = "users" /\ view.due # None => plants # {}
    BY <1>1, <1>2 DEF ViewOk, UserWalk
  <2>5. plants \in SUBSET Plants /\ view.step \in {"tenants", "ref"}
    BY <1>1, <1>2
  <2> HIDE DEF plants
  <2> QED
    BY <1>1, <2>1, <2>2, <2>3, <2>4, <2>5, ConcerningKeeps
<1>4. CASE ~Addresses(view.q)
  BY <1>1, <1>4, RefusedKeeps DEF ResolveRef
<1> QED
  BY <1>3, <1>4

\* A factory only moves back in a list that others join.
LEMMA AheadGrows ==
  ASSUME NEW due, NEW lines, NEW shown, NEW offset \in Nat, Ahead(due, lines, shown, offset),
         NEW more \in SUBSET Plants, lines \subseteq more
  PROVE  Ahead(due, more, shown, offset)
<1>1. ASSUME NEW d \in due, d \notin ShownOf(shown)
      PROVE  offset <= Cardinality(Below(Rising, more, d))
  <2>1. offset <= Cardinality(Below(Rising, lines, d))
    BY <1>1 DEF Ahead
  <2>2. Below(Rising, lines, d) \subseteq Below(Rising, more, d) /\ Below(Rising, more, d) \subseteq Plants
    BY DEF Below
  <2>3. IsFiniteSet(Below(Rising, more, d))
    BY <2>2, InquiryAssumption, FS_Subset
  <2>4. /\ IsFiniteSet(Below(Rising, lines, d))
        /\ Cardinality(Below(Rising, lines, d)) <= Cardinality(Below(Rising, more, d))
    BY <2>2, <2>3, FS_Subset
  <2>5. Cardinality(Below(Rising, lines, d)) \in Nat /\ Cardinality(Below(Rising, more, d)) \in Nat
    BY <2>3, <2>4, FS_CardinalityType
  <2> QED
    BY <2>1, <2>4, <2>5
<1> QED
  BY <1>1 DEF Ahead

LEMMA CandidateTenantKeysKeeps == CandidateTenantKeys /\ ReportsInv => ReportsInv'
<1> SUFFICES ASSUME CandidateTenantKeys, ReportsInv PROVE ReportsInv'
  OBVIOUS
<1> DEFINE v == view
           w == view'
           scoped == IF v.q.scope # {} THEN v.q.scope ELSE v.accounts \cup TenantsWithFacts(v.q)
           c == IF v.requested # {} THEN v.requested ELSE scoped
           s == IF c = {} THEN "done" ELSE "rows"
           due == IF v.due = None THEN c ELSE v.due
           left == v.disturbed \/ (v.due # None /\ ~(v.rows \subseteq c))
<1>1. v.step = "candidates" /\ TablesUnchanged /\ ViewOk(usage, v)
  BY DEF CandidateTenantKeys, ReportsInv
<1>2. v.q \in Inquiry /\ v.asked \subseteq usage /\ v.q.kind = "by_tenant" /\ Supported(v.q)
      /\ v.accounts \subseteq Plants /\ v.requested \subseteq Plants
  BY <1>1 DEF ViewOk, Answering, IsView
<1>3. CASE ~(v.requested \subseteq scoped)
  <2>1. Refused
    BY <1>3 DEF CandidateTenantKeys
  <2> QED
    BY <1>1, <2>1, RefusedKeeps
<1>4. CASE v.requested \subseteq scoped
  <2>1. w = [v EXCEPT !.step = s, !.plants = c, !.rows = c, !.due = due, !.disturbed = left]
    BY <1>4 DEF CandidateTenantKeys
  <2>2. c \in SUBSET Plants /\ \A p \in c : CoversTenant(v.q, p)
    <3>1. v.q.scope \subseteq Plants
      BY <1>2, InquiryAssumption
    <3>2. TenantsWithFacts(v.q) \subseteq Plants
      BY FactAssumption DEF ReportsInv, UsageFact, TenantsWithFacts
    <3> QED
      BY <1>2, <1>4, <3>1, <3>2 DEF CoversTenant
  <2>3. c # None
    BY <2>2, InquiryAssumption
  <2>4. left \in BOOLEAN
    OBVIOUS
  <2>5. /\ s \in {"done", "rows"} /\ (s = "done" => c = {})
        /\ due # None /\ (v.due = None => due = c) /\ (v.due # None => due = v.due)
    BY <2>3
  <2>6. ASSUME ~left PROVE ~v.disturbed /\ (v.due # None => v.rows \subseteq c)
    BY <2>6
  <2> HIDE DEF c, s, due, left
  <2>7. /\ w = [x \in ViewFields |-> w[x]] /\ w.step = s /\ w.plants = c /\ w.rows = c
        /\ w.due = due /\ w.disturbed = left
        /\ w.q = v.q /\ w.asked = v.asked /\ w.values = v.values
        /\ w.truncated = v.truncated /\ w.offset = v.offset /\ w.shown = v.shown
        /\ w.accounts = v.accounts /\ w.requested = v.requested
    BY <1>1, <2>1 DEF IsView, ViewFields, ViewOk
  <2> HIDE DEF v, w
  <2>8. IsView(w)
    <3>1. w.truncated \in BOOLEAN /\ w.disturbed \in BOOLEAN
      BY <1>1, <2>4, <2>7, Zenon DEF IsView, ViewOk
    <3>2. w.step \in ViewSteps
      BY <2>5, <2>7 DEF ViewSteps
    <3>3. w.plants \subseteq Plants /\ w.accounts \subseteq Plants /\ w.requested \subseteq Plants
          /\ w.offset \in Nat
      BY <1>1, <2>2, <2>7 DEF IsView, ViewOk
    <3> QED
      BY <2>7, <3>1, <3>2, <3>3, Zenon DEF IsView
  <2>9. Answering(usage, w)
    BY <1>1, <1>2, <2>5, <2>7 DEF Answering, ViewOk
  <2>10. BreakdownInv(usage, w) /\ UserWalk(usage, w)
    BY <1>2, <2>7 DEF BreakdownInv, UserWalk, Breakdowns
  <2>11. RowsInv(usage, w)
    BY <1>1, <2>2, <2>7 DEF RowsInv, ViewOk
  <2>12. ~left => Ahead(due, c, v.shown, v.offset)
    <3> SUFFICES ASSUME ~left PROVE Ahead(due, c, v.shown, v.offset)
      OBVIOUS
    <3>0. v.offset \in Nat
      BY <1>1 DEF IsView, ViewOk
    <3>1. CASE v.due = None
      <4>1. v.offset = 0 /\ due = c
        BY <1>1, <1>2, <2>5, <3>1 DEF ViewOk, TenantWalk
      <4>2. ASSUME NEW d \in due PROVE 0 <= Cardinality(Below(Rising, c, d))
        <5>1. Below(Rising, c, d) \subseteq Plants
          BY <2>2 DEF Below
        <5> QED
          BY <5>1, InquiryAssumption, FS_Subset, FS_CardinalityType
      <4> QED
        BY <2>2, <4>1, <4>2 DEF Ahead
    <3>2. CASE v.due # None
      <4>1. Ahead(v.due, v.rows, v.shown, v.offset)
        BY <1>1, <1>2, <2>6, <3>2 DEF ViewOk, TenantWalk
      <4> QED
        BY <2>2, <2>5, <2>6, <3>0, <3>2, <4>1, AheadGrows
    <3> QED
      BY <3>1, <3>2
  <2>13. TenantWalk(w)
    <3>1. w.due # None
      BY <2>5, <2>7
    <3>2. w.step = "rows" => w.plants = w.rows
      BY <2>7
    <3>3. ~w.disturbed => Ahead(w.due, w.rows, w.shown, w.offset)
      BY <2>7, <2>12, Zenon
    <3>4. w.step = "done" /\ ~w.disturbed => w.due \subseteq ShownOf(w.shown)
      BY <2>5, <2>7, <3>3 DEF Ahead
    <3> QED
      BY <3>1, <3>2, <3>3, <3>4 DEF TenantWalk
  <2> QED
    BY <1>1, <2>8, <2>9, <2>10, <2>11, <2>13 DEF w, ReportsInv, ViewOk, TablesUnchanged
<1> QED
  BY <1>3, <1>4

LEMMA ClampIsNumber == ASSUME NEW q \in Inquiry PROVE ClampPage(q.limit) \in Nat
BY InquiryAssumption DEF ClampPage

\* A page is the stretch of the rows behind the offset.
Stretch(page, lines, offset) ==
  /\ \A j \in 1..Len(page) : offset + j \in 1..Len(lines) /\ page[j] = lines[offset + j]
  /\ \A i \in 1..Len(lines) : (offset < i /\ i <= offset + Len(page)) =>
       \E j \in 1..Len(page) : page[j] = lines[i]

LEMMA PageIsStretch ==
  ASSUME NEW T, NEW lines \in Seq(T), NEW offset \in Nat, NEW q \in Inquiry
  PROVE  PageAt(lines, offset, q) \in Seq(T) /\ Stretch(PageAt(lines, offset, q), lines, offset)
<1> DEFINE page == PageAt(lines, offset, q)
<1> DEFINE size == ClampPage(q.limit)
           last == IF offset + size < Len(lines) THEN offset + size ELSE Len(lines)
<1>1. size \in Nat
  BY ClampIsNumber
<1> HIDE DEF size
<1>2. page = SubSeq(lines, offset + 1, last)
  BY DEF PageAt, size
<1> HIDE DEF page
<1>3. last \in Nat /\ last <= Len(lines)
  BY <1>1
<1> HIDE DEF last
<1>4. /\ page \in Seq(T)
      /\ Len(page) = IF offset + 1 <= last THEN last - offset ELSE 0
      /\ \A j \in 1..Len(page) : page[j] = lines[offset + j]
  BY <1>2, <1>3
<1>5. \A j \in 1..Len(page) : offset + j \in 1..Len(lines)
  BY <1>3, <1>4
<1>6. ASSUME NEW i \in 1..Len(lines), offset < i, i <= offset + Len(page)
      PROVE  \E j \in 1..Len(page) : page[j] = lines[i]
  <2>1. i - offset \in 1..Len(page) /\ offset + (i - offset) = i
    BY <1>4, <1>6
  <2> QED
    BY <1>4, <2>1
<1> QED
  BY <1>4, <1>5, <1>6 DEF Stretch, page

\* The MES calls of one factory row.
LEMMA RowIsRight ==
  ASSUME ReportsInv, view.step = "rows", NEW p, NEW fs, NEW mes,
         fs = {f \in ListMesCallFacts(view.q, {p}) : f.status = "completed"},
         mes = Tally(fs, LAMBDA f : CategoryOf(f.key))
  PROVE  Right(mes, view.q, view.asked, usage, {p})
<1> DEFINE q == view.q
           lab == [f \in fs |-> CategoryOf(f.key)]
<1>1. view.asked \subseteq usage /\ q.kind = "by_tenant" /\ IsFiniteSet(usage)
  BY DEF ReportsInv, ViewOk, Answering
<1>2. mes = TallyOf(fs, lab)
  BY DEF Tally, TallyOf
<1>3. fs = {f \in FactsIn("mes", q, {p}) : f.status = "completed"}
  BY DEF ListMesCallFacts
<1>4. \A f : LabelsOf(q, f) = IF f.table = "mes" /\ f.status = "completed"
                              THEN {CategoryOf(f.key)} ELSE {}
  BY <1>1 DEF LabelsOf
<1>5. \A f \in fs : lab[f] = CategoryOf(f.key)
  OBVIOUS
<1> HIDE DEF lab, q
<1>6. Tallied(fs, lab, q, FactsOf(view.asked, {p}), FactsOf(usage, {p}))
  BY <1>1, <1>3, <1>4, <1>5 DEF Tallied, FactsOf, FactsIn
<1>7. IsFiniteSet(FactsOf(usage, {p})) /\ FactsOf(view.asked, {p}) \subseteq FactsOf(usage, {p})
  BY <1>1, FS_Subset DEF FactsOf
<1>8. IsFiniteSet(fs)
  BY <1>6, <1>7, FS_Subset DEF Tallied
<1>9. Right(mes, q, view.asked, usage, {p})
  BY <1>2, <1>6, <1>7, <1>8, TallyIsBetween, TallyCounts DEF Right
<1> QED
  BY <1>9 DEF q

LEMMA ByTenantKeeps == ByTenant /\ ReportsInv => ReportsInv'
<1> SUFFICES ASSUME ByTenant, ReportsInv PROVE ReportsInv'
  OBVIOUS
<1> DEFINE v == view
           w == view'
           mes(p) == {f \in ListMesCallFacts(v.q, {p}) : f.status = "completed"}
           keys == Ordered(v.plants, LAMBDA a, b : a < b)
           items == [i \in 1..Len(keys) |->
                       [of |-> keys[i], mes |-> Tally(mes(keys[i]), LAMBDA f : CategoryOf(f.key))]]
           page == PageAt(items, v.offset, v.q)
           n == Cardinality(v.plants)
<1>1. v.step = "rows" /\ ViewOk(usage, v)
  BY DEF ByTenant, ReportsInv
<1>2. Shows(page, Len(items)) /\ TablesUnchanged
  BY DEF ByTenant, PageOf, PageAt, Shows
<1>3. /\ v.q \in Inquiry /\ v.q.kind = "by_tenant" /\ v.asked \subseteq usage
      /\ v.plants \subseteq Plants /\ v.offset \in Nat /\ v.due # None /\ v.plants = v.rows
      /\ \A p \in v.plants : CoversTenant(v.q, p)
  BY <1>1 DEF ViewOk, Answering, IsView, TenantWalk, RowsInv
<1>4. IsFiniteSet(v.plants) /\ v.plants \in SUBSET Nat /\ n \in Nat
  BY <1>3, InquiryAssumption, FS_Subset, FS_CardinalityType
<1>5. Arranges(keys, Rising, v.plants)
  BY <1>4, PlantsAreArranged
<1>6. keys \in [1..n -> v.plants] /\ Len(keys) = n
  <2> HIDE DEF keys
  <2>1. keys \in [1..n -> v.plants]
    BY <1>5 DEF Arranges
  <2> QED
    BY <1>4, <2>1
<1>7. ASSUME NEW i \in 1..n PROVE items[i].of = keys[i] /\ Right(items[i].mes, v.q, v.asked, usage, {keys[i]})
  <2>1. items[i] = [of |-> keys[i], mes |-> Tally(mes(keys[i]), LAMBDA f : CategoryOf(f.key))]
    <3> HIDE DEF keys
    <3> QED
      BY <1>6
  <2> HIDE DEF keys, items
  <2>2. items[i].of = keys[i] /\ items[i].mes = Tally(mes(keys[i]), LAMBDA f : CategoryOf(f.key))
    BY <2>1
  <2> QED
    BY <1>1, <2>2, RowIsRight
<1>8. items \in Seq({items[i] : i \in 1..n}) /\ Len(items) = n
  <2> HIDE DEF keys
  <2>1. items = [i \in 1..n |-> items[i]]
    BY <1>6
  <2> HIDE DEF items
  <2> QED
    BY <1>4, <2>1
<1> HIDE DEF keys, items
<1>9. /\ page \in Seq({items[i] : i \in 1..n})
      /\ \A j \in 1..Len(page) : v.offset + j \in 1..n /\ page[j] = items[v.offset + j]
      /\ \A i \in 1..n : (v.offset < i /\ i <= v.offset + Len(page)) =>
           \E j \in 1..Len(page) : page[j] = items[i]
  <2> DEFINE T == {items[i] : i \in 1..n}
  <2>1. items \in Seq(T) /\ Len(items) = n
    BY <1>8
  <2> HIDE DEF T, n
  <2>2. page \in Seq(T) /\ Stretch(page, items, v.offset)
    BY <1>3, <2>1, PageIsStretch
  <2> HIDE DEF page
  <2> QED
    BY <2>1, <2>2 DEF Stretch, T
<1> HIDE DEF page
<1> DEFINE s == IF v.offset + Len(page) < n THEN "answered" ELSE "done"
           new == {page[i] : i \in 1..Len(page)}
<1>10. w = [v EXCEPT !.step = s, !.offset = v.offset + Len(page), !.shown = @ \cup new]
  BY <1>2, <1>8 DEF Shows
<1>11. s \in {"answered", "done"} /\ (s = "done" => v.offset + Len(page) >= n) /\ Len(page) \in Nat
  BY <1>3, <1>4, <1>9
<1> HIDE DEF s
<1>12. /\ w = [x \in ViewFields |-> w[x]] /\ w.step = s /\ w.offset = v.offset + Len(page)
       /\ w.shown = v.shown \cup new
       /\ w.plants = v.plants /\ w.rows = v.rows /\ w.due = v.due /\ w.disturbed = v.disturbed
       /\ w.q = v.q /\ w.asked = v.asked /\ w.values = v.values /\ w.truncated = v.truncated
       /\ w.accounts = v.accounts /\ w.requested = v.requested
  <2> HIDE DEF new
  <2> QED
    BY <1>1, <1>10 DEF IsView, ViewFields, ViewOk
<1>13. \A r \in new : CoversTenant(v.q, r.of) /\ Right(r.mes, v.q, v.asked, usage, {r.of})
  <2>1. ASSUME NEW j \in 1..Len(page)
        PROVE  /\ CoversTenant(v.q, page[j].of)
               /\ Right(page[j].mes, v.q, v.asked, usage, {page[j].of})
    <3>1. PICK i \in 1..n : page[j] = items[i]
      BY <1>9
    <3>2. keys[i] \in v.plants
      BY <1>6
    <3> QED
      BY <1>3, <1>7, <3>1, <3>2
  <2> QED
    BY <2>1
<1>14. ASSUME NEW d \in v.plants, d \notin ShownOf(v.shown \cup new), NEW k \in Nat,
              k = Cardinality(Below(Rising, v.plants, d)), v.offset <= k
       PROVE  v.offset + Len(page) <= k /\ k < n
  <2>1. PICK i \in 1..n : keys[i] = d /\ k = i - 1
    BY <1>5, <1>14 DEF Arranges
  <2>2. ASSUME i <= v.offset + Len(page) PROVE FALSE
    <3> HIDE DEF new
    <3>0. i \in Nat /\ i > v.offset /\ i <= v.offset + Len(page)
      BY <1>3, <1>14, <2>1, <2>2
    <3>1. PICK j \in 1..Len(page) : page[j] = items[i]
      BY <1>9, <2>1, <3>0
    <3> USE DEF new
    <3>2. page[j] \in new /\ page[j].of = d
      BY <1>7, <2>1, <3>1
    <3> HIDE DEF new
    <3> QED
      BY <1>14, <3>2 DEF ShownOf
  <2> QED
    BY <1>3, <1>4, <1>11, <2>1, <2>2
<1> HIDE DEF v, w
<1>15. IsView(w)
  <2>1. w.truncated \in BOOLEAN /\ w.disturbed \in BOOLEAN
    BY <1>1, <1>12, Zenon DEF IsView, ViewOk
  <2>2. w.step \in ViewSteps
    BY <1>11, <1>12 DEF ViewSteps
  <2>3. w.plants \subseteq Plants /\ w.accounts \subseteq Plants /\ w.requested \subseteq Plants
        /\ w.offset \in Nat
    <3> HIDE DEF new
    <3>1. w.plants \subseteq Plants /\ w.accounts \subseteq Plants /\ w.requested \subseteq Plants
      BY <1>1, <1>12 DEF IsView, ViewOk
    <3>2. v.offset + Len(page) \in Nat
      BY <1>3, <1>11
    <3> QED
      BY <1>12, <3>1, <3>2
  <2> QED
    BY <1>12, <2>1, <2>2, <2>3, Zenon DEF IsView
<1>16. Answering(usage, w)
  BY <1>1, <1>3, <1>11, <1>12 DEF Answering, ViewOk
<1>17. BreakdownInv(usage, w) /\ UserWalk(usage, w)
  BY <1>3, <1>12 DEF BreakdownInv, UserWalk, Breakdowns
<1>18. RowsInv(usage, w)
  <2>1. \A r \in v.shown : CoversTenant(v.q, r.of) /\ Right(r.mes, v.q, v.asked, usage, {r.of})
    BY <1>1, <1>3 DEF ViewOk, RowsInv
  <2> HIDE DEF new
  <2> QED
    BY <1>11, <1>12, <1>13, <2>1 DEF RowsInv
<1>19. ASSUME ~v.disturbed
       PROVE  /\ Ahead(w.due, w.rows, w.shown, w.offset)
              /\ s = "done" => w.due \subseteq ShownOf(w.shown)
  <2> HIDE DEF new
  <2>1. Ahead(v.due, v.plants, v.shown, v.offset)
    BY <1>1, <1>3, <1>19 DEF ViewOk, TenantWalk
  <2>2. ASSUME NEW d \in v.due, d \notin ShownOf(w.shown)
        PROVE  w.offset <= Cardinality(Below(Rising, v.plants, d)) /\ s # "done"
    <3> DEFINE k == Cardinality(Below(Rising, v.plants, d))
    <3>1. d \in v.plants
      BY <2>1 DEF Ahead
    <3>2. k \in Nat
      BY <1>4, FS_Subset, FS_CardinalityType DEF Below
    <3>3. d \notin ShownOf(v.shown)
      BY <1>12, <2>2 DEF ShownOf
    <3>4. v.offset <= k
      BY <2>1, <3>3 DEF Ahead
    <3> HIDE DEF k
    <3>5. v.offset + Len(page) <= k /\ k < n
      BY <1>12, <1>14, <2>2, <3>1, <3>2, <3>4 DEF k
    <3> QED
      BY <1>3, <1>4, <1>11, <1>12, <3>2, <3>5 DEF k
  <2> QED
    BY <1>3, <1>12, <2>1, <2>2 DEF Ahead
<1>20. TenantWalk(w)
  <2>1. w.due # None /\ w.step # "rows"
    BY <1>3, <1>11, <1>12
  <2>2. ~w.disturbed => ~v.disturbed
    BY <1>12, Zenon
  <2> QED
    BY <1>12, <1>19, <2>1, <2>2 DEF TenantWalk
<1> QED
  BY <1>2, <1>15, <1>16, <1>17, <1>18, <1>20 DEF w, ReportsInv, ViewOk, TablesUnchanged

\* One pair per user with questions.
LEMMA ActivityIsRanked ==
  ASSUME ReportsInv, NEW q, NEW plants
  PROVE  /\ UserActivity(q, plants) \in Seq(Nat \X Nat)
         /\ Len(UserActivity(q, plants)) = Cardinality(AskedBy(usage, q, plants))
         /\ Cardinality(AskedBy(usage, q, plants)) \in Nat
         /\ {UserActivity(q, plants)[i][1] : i \in 1..Len(UserActivity(q, plants))}
              \subseteq {f.who : f \in UsageFacts}
<1> DEFINE asked == {f \in ListInteractionFacts(q, plants) : f.event = "started"}
           count(u) == Cardinality({f \in asked : f.who = u})
           users == {f.who : f \in asked}
           pairs == {<<u, count(u)>> : u \in users}
           A == UserActivity(q, plants)
<1>1. asked \subseteq usage /\ IsFiniteSet(usage) /\ usage \subseteq UsageFacts
  BY DEF ReportsInv, ListInteractionFacts, FactsIn
<1>2. users = AskedBy(usage, q, plants)
  BY DEF AskedBy, InteractionsOf, ListInteractionFacts, FactsIn
<1>3. \A f \in asked : f.who \in Nat
  BY <1>1, SubjectAssumption DEF ListInteractionFacts, FactsIn
<1>4. IsFiniteSet(asked)
  BY <1>1, FS_Subset
<1>5. \A u : count(u) \in Nat
  <2>1. ASSUME NEW u PROVE count(u) \in Nat
    <3>1. {f \in asked : f.who = u} \subseteq asked
      OBVIOUS
    <3> HIDE DEF asked
    <3> QED
      BY <1>4, <3>1, FS_Subset, FS_CardinalityType
  <2> QED
    BY <2>1
<1>6. A = Ordered(pairs, LAMBDA a, b : a[2] > b[2] \/ (a[2] = b[2] /\ a[1] < b[1]))
  BY DEF UserActivity
<1> HIDE DEF asked
<1>7. IsFiniteSet(users)
  <2> DEFINE who == [f \in asked |-> f.who]
  <2>1. who \in Surjection(asked, users)
    BY DEF Surjection
  <2> HIDE DEF who, users
  <2> QED
    BY <1>4, <2>1, FS_Surjection
<1> HIDE DEF count
<1>8. pairs \in SUBSET (Nat \X Nat)
  <2>1. users \subseteq Nat
    BY <1>3
  <2> HIDE DEF users
  <2> QED
    BY <1>5, <2>1
<1>9. IsFiniteSet(pairs) /\ Cardinality(pairs) = Cardinality(users)
  <2> DEFINE pair == [u \in users |-> <<u, count(u)>>]
  <2>1. pair \in Surjection(users, pairs)
    <3> HIDE DEF users
    <3> QED
      BY DEF Surjection
  <2>2. pair \in Injection(users, pairs)
    <3> HIDE DEF users
    <3> QED
      BY DEF Injection, IsInjective
  <2> HIDE DEF pair, users, pairs
  <2> QED
    BY <1>7, <2>1, <2>2, FS_Surjection
<1>10. Arranges(A, Ranking, pairs)
  <2> HIDE DEF pairs
  <2> QED
    BY <1>6, <1>8, <1>9, PairsAreArranged
<1>11. Cardinality(pairs) \in Nat
  BY <1>9, FS_CardinalityType
<1>12. \A x \in pairs : x[1] \in {f.who : f \in UsageFacts}
  <2>1. users \subseteq {f.who : f \in UsageFacts}
    BY <1>1
  <2> HIDE DEF users
  <2> QED
    BY <2>1
<1> HIDE DEF pairs, A, users
<1>13. A \in [1..Cardinality(pairs) -> pairs]
  BY <1>10 DEF Arranges
<1>14. A \in Seq(Nat \X Nat) /\ Len(A) = Cardinality(pairs)
  BY <1>8, <1>11, <1>13
<1>15. {A[i][1] : i \in 1..Len(A)} \subseteq {f.who : f \in UsageFacts}
  BY <1>12, <1>13, <1>14
<1> QED
  BY <1>2, <1>9, <1>11, <1>14, <1>15 DEF A

LEMMA UsersKeep == Users /\ ReportsInv => ReportsInv'
<1> SUFFICES ASSUME Users, ReportsInv PROVE ReportsInv'
  OBVIOUS
<1> DEFINE v == view
           w == view'
           A == UserActivity(v.q, v.plants)
           page == PageAt(A, v.offset, v.q)
           due == IF v.due = None THEN {A[i][1] : i \in 1..Len(A)} ELSE v.due
           moved == v.disturbed \/ (v.due # None /\ v.rows # A)
<1>1. v.step = "page" /\ TablesUnchanged /\ ViewOk(usage, v)
  BY DEF Users, ReportsInv
<1>2. w = [v EXCEPT !.step = "total", !.page = page, !.rows = A, !.due = due, !.disturbed = moved]
  BY DEF Users, PageOf, PageAt
<1>3. /\ v.q \in Inquiry /\ v.asked \subseteq usage /\ v.q.kind = "users" /\ Supported(v.q)
      /\ v.offset \in Nat
      /\ \E p \in BasePlants(usage, v.q) : v.q.ref \in {None, p}
  BY <1>1 DEF ViewOk, Answering, IsView, UserWalk
<1>4. /\ A \in Seq(Nat \X Nat)
      /\ Len(A) <= Cardinality(AskedBy(usage, v.q, v.plants))
      /\ {A[i][1] : i \in 1..Len(A)} \subseteq {f.who : f \in UsageFacts}
  <2> HIDE DEF A, v
  <2>1. /\ A \in Seq(Nat \X Nat)
        /\ Len(A) = Cardinality(AskedBy(usage, v.q, v.plants))
        /\ Cardinality(AskedBy(usage, v.q, v.plants)) \in Nat
        /\ {A[i][1] : i \in 1..Len(A)} \subseteq {f.who : f \in UsageFacts}
    BY ActivityIsRanked DEF A
  <2> DEFINE k == Cardinality(AskedBy(usage, v.q, v.plants))
             n == Len(A)
  <2>2. n = k /\ k \in Nat
    BY <2>1
  <2>3. n <= k
    <3> HIDE DEF n, k
    <3> QED
      BY <2>2
  <2> QED
    BY <2>1, <2>3
<1> HIDE DEF A
<1>5. /\ (v.due = None => due = {A[i][1] : i \in 1..Len(A)}) /\ (v.due # None => due = v.due)
      /\ due # None
  <2>1. {A[i][1] : i \in 1..Len(A)} # None
    BY <1>4, InquiryAssumption
  <2> QED
    BY <2>1
<1>6. moved \in BOOLEAN
  OBVIOUS
<1>7. ~moved => ~v.disturbed /\ (v.due # None => v.rows = A)
  OBVIOUS
<1>8. page = PageAt(A, v.offset, v.q)
  OBVIOUS
<1> HIDE DEF due, moved, page
<1>9. /\ w = [x \in ViewFields |-> w[x]] /\ w.step = "total" /\ w.page = page /\ w.rows = A
      /\ w.due = due /\ w.disturbed = moved
      /\ w.q = v.q /\ w.asked = v.asked /\ w.values = v.values /\ w.plants = v.plants
      /\ w.truncated = v.truncated /\ w.offset = v.offset /\ w.shown = v.shown
      /\ w.accounts = v.accounts /\ w.requested = v.requested
  BY <1>1, <1>2 DEF IsView, ViewFields, ViewOk
<1> HIDE DEF v, w
<1>10. IsView(w)
  <2>1. w.truncated \in BOOLEAN /\ w.disturbed \in BOOLEAN
    BY <1>1, <1>6, <1>9, Zenon DEF IsView, ViewOk
  <2>2. w.step \in ViewSteps
    BY <1>9 DEF ViewSteps
  <2>3. w.plants \subseteq Plants /\ w.accounts \subseteq Plants /\ w.requested \subseteq Plants
        /\ w.offset \in Nat
    BY <1>1, <1>9 DEF IsView, ViewOk
  <2> QED
    BY <1>9, <2>1, <2>2, <2>3, Zenon DEF IsView
<1>11. Answering(usage, w)
  BY <1>3, <1>9 DEF Answering
<1>12. BreakdownInv(usage, w) /\ RowsInv(usage, w) /\ TenantWalk(w)
  BY <1>3, <1>9 DEF BreakdownInv, RowsInv, TenantWalk, Breakdowns
<1>13. ~moved => Behind(due, A, v.shown, v.offset)
  <2> SUFFICES ASSUME ~moved PROVE Behind(due, A, v.shown, v.offset)
    OBVIOUS
  <2>1. CASE v.due = None
    <3>1. v.offset = 0 /\ due = {A[i][1] : i \in 1..Len(A)}
      BY <1>1, <1>3, <1>5, <2>1 DEF ViewOk, UserWalk
    <3> QED
      BY <1>4, <3>1 DEF Behind
  <2>2. CASE v.due # None
    BY <1>1, <1>3, <1>5, <1>7, <2>2 DEF ViewOk, UserWalk
  <2> QED
    BY <2>1, <2>2
<1>14. UserWalk(usage, w)
  <2>1. ~w.disturbed => Behind(w.due, w.rows, w.shown, w.offset)
    BY <1>9, <1>13, Zenon
  <2>2. w.due # None /\ w.rows \in Seq(Nat \X Nat)
    BY <1>4, <1>5, <1>9
  <2> QED
    BY <1>3, <1>4, <1>8, <1>9, <2>1, <2>2 DEF UserWalk
<1> QED
  BY <1>1, <1>10, <1>11, <1>12, <1>14 DEF w, ReportsInv, ViewOk, TablesUnchanged

LEMMA UsersTotalKeeps == UsersTotal /\ ReportsInv => ReportsInv'
<1> SUFFICES ASSUME UsersTotal, ReportsInv PROVE ReportsInv'
  OBVIOUS
<1> DEFINE v == view
           w == view'
           total == Len(UserActivity(v.q, v.plants))
           named == [i \in 1..Len(v.page) |-> [of |-> v.page[i][1], mes |-> <<>>]]
<1>1. v.step = "total" /\ ViewOk(usage, v) /\ Shows(named, total) /\ TablesUnchanged
  BY DEF UsersTotal, Shows, ReportsInv
<1>2. /\ v.q \in Inquiry /\ v.asked \subseteq usage /\ v.q.kind = "users" /\ Supported(v.q)
      /\ v.offset \in Nat /\ v.due # None /\ v.rows \in Seq(Nat \X Nat)
      /\ v.page = PageAt(v.rows, v.offset, v.q)
      /\ Len(v.rows) <= Cardinality(AskedBy(usage, v.q, v.plants))
  BY <1>1 DEF ViewOk, Answering, IsView, UserWalk
<1>3. total \in Nat /\ Len(v.rows) <= total
  <2> HIDE DEF v
  <2>1. total = Cardinality(AskedBy(usage, v.q, v.plants)) /\ total \in Nat
    BY ActivityIsRanked
  <2> QED
    BY <1>2, <2>1
<1> HIDE DEF total
<1>4. v.page \in Seq(Nat \X Nat) /\ Stretch(v.page, v.rows, v.offset)
  <2> HIDE DEF v
  <2> QED
    BY <1>2, PageIsStretch
<1>5. Len(named) = Len(v.page) /\ Len(v.page) \in Nat /\ DOMAIN named = 1..Len(v.page)
  <2>1. Len(v.page) \in Nat
    BY <1>4
  <2> DEFINE n == Len(v.page)
  <2>2. named = [i \in 1..n |-> named[i]]
    OBVIOUS
  <2> HIDE DEF n, named
  <2>3. named \in Seq({named[i] : i \in 1..n}) /\ DOMAIN named = 1..n /\ Len(named) = n
    BY <2>1, <2>2 DEF n
  <2> QED
    BY <2>1, <2>3 DEF n
<1>6. \A i \in 1..Len(v.page) : named[i].of = v.page[i][1]
  OBVIOUS
<1> DEFINE new == {named[i] : i \in 1..Len(named)}
           s == IF v.offset + Len(named) < total THEN "answered" ELSE "done"
           offset == v.offset + Len(named)
<1>7. w = [v EXCEPT !.step = s, !.offset = offset, !.shown = @ \cup new]
  BY <1>1 DEF Shows
<1> HIDE DEF named
<1>8. \A j \in 1..Len(v.page) : v.page[j][1] \in ShownOf(new)
  BY <1>5, <1>6 DEF ShownOf
<1>9. /\ s \in {"answered", "done"} /\ offset \in Nat /\ offset = v.offset + Len(v.page)
      /\ (s = "done" => total <= offset)
  BY <1>2, <1>3, <1>5
<1> HIDE DEF s, offset, new
<1>10. /\ w = [x \in ViewFields |-> w[x]] /\ w.step = s /\ w.offset = offset
       /\ w.shown = v.shown \cup new
       /\ w.plants = v.plants /\ w.rows = v.rows /\ w.due = v.due /\ w.disturbed = v.disturbed
       /\ w.q = v.q /\ w.asked = v.asked /\ w.values = v.values /\ w.truncated = v.truncated
       /\ w.accounts = v.accounts /\ w.requested = v.requested
  BY <1>1, <1>7 DEF IsView, ViewFields, ViewOk
<1> HIDE DEF v, w
<1>11. IsView(w)
  <2>1. w.truncated \in BOOLEAN /\ w.disturbed \in BOOLEAN
    BY <1>1, <1>10, Zenon DEF IsView, ViewOk
  <2>2. w.step \in ViewSteps
    BY <1>9, <1>10 DEF ViewSteps
  <2>3. w.plants \subseteq Plants /\ w.accounts \subseteq Plants /\ w.requested \subseteq Plants
        /\ w.offset \in Nat
    BY <1>1, <1>9, <1>10 DEF IsView, ViewOk
  <2> QED
    BY <1>10, <2>1, <2>2, <2>3, Zenon DEF IsView
<1>12. Answering(usage, w)
  BY <1>2, <1>9, <1>10 DEF Answering
<1>13. BreakdownInv(usage, w) /\ RowsInv(usage, w) /\ TenantWalk(w)
  BY <1>2, <1>10 DEF BreakdownInv, RowsInv, TenantWalk, Breakdowns
<1>14. ASSUME ~v.disturbed
       PROVE  /\ Behind(v.due, v.rows, w.shown, offset)
              /\ s = "done" => v.due \subseteq ShownOf(w.shown)
  <2>1. Behind(v.due, v.rows, v.shown, v.offset)
    BY <1>1, <1>2, <1>14 DEF ViewOk, UserWalk
  <2>2. ASSUME NEW i \in 1..Len(v.rows), i <= offset
        PROVE  v.rows[i][1] \in ShownOf(w.shown)
    <3>1. CASE i <= v.offset
      BY <1>10, <2>1, <3>1 DEF Behind, ShownOf
    <3>2. CASE v.offset < i
      <4>1. PICK j \in 1..Len(v.page) : v.page[j] = v.rows[i]
        BY <1>4, <1>9, <2>2, <3>2 DEF Stretch
      <4> QED
        BY <1>8, <1>10, <4>1 DEF ShownOf
    <3> QED
      BY <1>2, <3>1, <3>2
  <2>3. Behind(v.due, v.rows, w.shown, offset)
    BY <2>1, <2>2 DEF Behind
  <2>4. ASSUME s = "done" PROVE v.due \subseteq ShownOf(w.shown)
    <3>1. Len(v.rows) <= offset /\ Len(v.rows) \in Nat
      BY <1>2, <1>3, <1>9, <2>4
    <3>2. \A i \in 1..Len(v.rows) : v.rows[i][1] \in ShownOf(w.shown)
      BY <1>9, <2>2, <3>1
    <3> QED
      BY <2>1, <3>2 DEF Behind
  <2> QED
    BY <2>3, <2>4
<1>15. \E p \in BasePlants(usage, v.q) : v.q.ref \in {None, p}
  BY <1>1, <1>2 DEF ViewOk, UserWalk
<1>16. UserWalk(usage, w)
  <2>1. ~w.disturbed => ~v.disturbed
    BY <1>10, Zenon
  <2> QED
    BY <1>2, <1>9, <1>10, <1>14, <1>15, <2>1 DEF UserWalk
<1> QED
  BY <1>1, <1>11, <1>12, <1>13, <1>16 DEF w, ReportsInv, ViewOk, TablesUnchanged

LEMMA ReportsStep == ReportsInv /\ [ReportsNext]_ovars => ReportsInv'
<1> SUFFICES ASSUME ReportsInv, [ReportsNext]_ovars PROVE ReportsInv'
  OBVIOUS
<1>1. CASE UNCHANGED ovars
  BY <1>1 DEF ovars, ReportsInv
<1> QED
  BY <1>1, InquireKeeps, TenantIdsKeeps, ResolveRefKeeps, DimensionsKeep, MesCategoriesKeep,
     MesFailuresKeep, MesOperationsKeep, ModelsKeep, InteractionErrorsKeep, LlmErrorsKeep,
     RegistryIndexKeeps, SearchNamesKeeps, CandidateTenantKeysKeeps, ByTenantKeeps, UsersKeep,
     UsersTotalKeeps, NextPageKeeps, MeterKeeps, RegistryKeeps
     DEF ReportsNext

LEMMA ReportsInvSuffices == ReportsInv => ReportsLeaveNothingOut
<1> SUFFICES ASSUME ReportsInv PROVE ReportsLeaveNothingOut
  OBVIOUS
<1> DEFINE v == view
<1>1. ViewOk(usage, v)
  BY DEF ReportsInv
<1>2. ASSUME v.step = "done", ~v.truncated, v.q.kind \notin {"users", "by_tenant"}
      PROVE  Between(v.values, v.q, FactsOf(v.asked, Target(v.q)), FactsOf(usage, Target(v.q)))
  <2>1. v.q.kind \in Breakdowns
    BY <1>1, <1>2, InquiryAssumption DEF ViewOk, Answering, Breakdowns
  <2> QED
    BY <1>1, <1>2, <2>1 DEF ViewOk, BreakdownInv, Right
<1>3. ASSUME v.step # "none", v.q.kind = "by_tenant", NEW r \in v.shown
      PROVE  /\ CoversTenant(v.q, r.of)
             /\ Between(r.mes, v.q, FactsOf(v.asked, {r.of}), FactsOf(usage, {r.of}))
  BY <1>1, <1>3 DEF ViewOk, RowsInv, Right
<1>4. ASSUME v.step = "done", v.due # None, ~v.disturbed
      PROVE  v.due \subseteq {r.of : r \in v.shown}
  <2>1. v.q.kind \in ReportKinds
    BY <1>1, <1>4, InquiryAssumption DEF ViewOk, Answering
  <2>2. CASE v.q.kind = "by_tenant"
    BY <1>1, <1>4, <2>2 DEF ViewOk, TenantWalk, ShownOf
  <2>3. CASE v.q.kind = "users"
    BY <1>1, <1>4, <2>3 DEF ViewOk, UserWalk, ShownOf
  <2>4. CASE v.q.kind \in Breakdowns
    BY <1>1, <1>4, <2>4 DEF ViewOk, BreakdownInv
  <2> QED
    BY <2>1, <2>2, <2>3, <2>4 DEF Breakdowns
<1> QED
  BY <1>2, <1>3, <1>4 DEF ReportsLeaveNothingOut, FactsOf, Target

\* An operator's breakdowns and pages (statistics/ops.py) leave nothing out that was committed
\* when they were asked for, count nothing twice or outside their factories and period unless
\* they call themselves truncated, and their walks show every row of the first list, whatever
\* is metered, registered and renamed between two statements.
THEOREM ReportsAreWhole == ReportsSpec => []ReportsLeaveNothingOut
BY ReportsBegin, ReportsStep, ReportsInvSuffices, PTL DEF ReportsSpec

=============================================================================
