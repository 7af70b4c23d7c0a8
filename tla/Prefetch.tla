------------------------------ MODULE Prefetch ------------------------------
(***************************************************************************)
(* The detail prefetch of every replica, over the store of ResultCache: at *)
(* start and every day at the prefetch hour a worker takes the tenant's    *)
(* lease for the day, fetches both families for the window of the days     *)
(* before, publishes them and marks the day complete.                      *)
(***************************************************************************)
EXTENDS ResultCache

CONSTANTS
  Workers,
  Scenarios,          \* deployments and loads, one of which a behaviour has
  PrefetchHour,       \* the tick of a day at which the daily run is due
  Poll,               \* poll_seconds
  PrefetchTimeout,    \* run_timeout_seconds
  LeaseMargin         \* what lease_seconds adds to it

ASSUME PrefetchAssumption == /\ PrefetchHour \in Nat /\ PrefetchHour < DayLength
                             /\ Poll \in Nat \ {0}
                             /\ PrefetchTimeout \in Nat \ {0} /\ LeaseMargin \in Nat \ {0}

\* The cache's mode, the replicas that prefetch, and how many rows, requests and faults
\* are to come.
Scenario == [mode : ResultCacheMode, workers : SUBSET Workers,
             entries : Nat, calls : Nat, faults : Nat]
ASSUME ScenarioAssumption == Scenarios \subseteq Scenario

VARIABLES
  worker,     \* each replica's worker: its place in run_once and what it holds
  leases,     \* producer leases in Redis, by day
  markers,    \* completed-day markers in Redis, by day and phase
  published   \* history: the <<operation, day>> pairs a prefetch has written

prefetchVars == <<worker, leases, markers, published>>
vars == <<cacheVars, prefetchVars>>

PREFETCH_PLANS == <<"payroll", "progress">>
Phase == {"warmup", "daily"}

WorkerPc == {"disabled", "boot", "sleep", "lease", "marker", "fetch", "put", "mark", "release"}
Worker == [pc : WorkerPc, day : Nat, phase : Phase, left : Nat, done : 0 .. 2,
           written : SUBSET Operation, res : Result, retry : BOOLEAN, due : Nat]
Lease == [day : Nat, holder : Workers, left : Nat]
Marker == [day : Nat, phase : Phase, ttl : Nat]

Boot == [pc |-> "boot", day |-> 0, phase |-> "warmup", left |-> PrefetchTimeout,
         done |-> 0, written |-> {}, res |-> NoResult, retry |-> FALSE, due |-> 0]

Running(w) == worker[w].pc \notin {"disabled", "boot", "sleep"}

-----------------------------------------------------------------------------
(* The schedule *)

phase_at(t) == IF t % DayLength < PrefetchHour THEN "warmup" ELSE "daily"

next_run_at(t) == LET candidate == DayOf(t) * DayLength + PrefetchHour
                  IN IF candidate <= t THEN candidate + DayLength ELSE candidate

\* Mutant: the lease expires with the run.
lease_seconds_short == PrefetchTimeout
lease_seconds == PrefetchTimeout + LeaseMargin

\* run_forever sleeps to the next run, or only for a poll when a retry is needed, and
\* for a poll at least.
Sleep(retry) == [Boot EXCEPT !.pc = "sleep", !.retry = retry, !.left = Poll,
                             !.due = IF retry THEN 0 ELSE next_run_at(clock)]

\* The deadline and the day are fixed here and hold for the whole run.
StartRun(w) ==
  /\ \/ worker[w].pc = "boot"
     \/ worker[w].pc = "sleep" /\ worker[w].left = 0 /\ clock >= worker[w].due
  /\ \/ /\ worker' = [worker EXCEPT ![w] = [Boot EXCEPT !.pc = "lease", !.day = Today,
                                             !.phase = phase_at(clock),
                                             !.retry = worker[w].retry]]
        /\ NoFault
     \* the owner cannot be verified
     \/ worker' = [worker EXCEPT ![w] = Sleep(TRUE)] /\ Fault
  /\ UNCHANGED <<clock, source, store, mode, caller, entries, calls, leases, markers, published>>

-----------------------------------------------------------------------------
(* One run *)

HeldLease(w) == [day |-> worker[w].day, holder |-> w, left |-> lease_seconds]

\* A failed SET may have reached the store; the lease is then nobody's until it expires.
AcquireLease(w) ==
  LET free == \A l \in leases : l.day # worker[w].day
  IN /\ worker[w].pc = "lease"
     /\ \/ /\ free /\ leases' = leases \cup {HeldLease(w)} /\ NoFault
           /\ worker' = [worker EXCEPT ![w].pc = "marker"]
        \/ /\ ~free /\ UNCHANGED leases /\ NoFault
           /\ worker' = [worker EXCEPT ![w] = Sleep(TRUE)]
        \/ /\ free /\ leases' \in {leases, leases \cup {HeldLease(w)}} /\ Fault
           /\ worker' = [worker EXCEPT ![w] = Sleep(TRUE)]
     /\ UNCHANGED <<clock, source, store, mode, caller, entries, calls, markers, published>>

\* An unreadable marker counts as none.
ReadMarker(w) ==
  LET found == \E m \in markers : m.day = worker[w].day /\ m.phase = worker[w].phase
      complete == [worker[w] EXCEPT !.pc = "release", !.retry = FALSE]
      missing == [worker[w] EXCEPT !.pc = "fetch"]
  IN /\ worker[w].pc = "marker"
     /\ \/ worker' = [worker EXCEPT ![w] = IF found THEN complete ELSE missing] /\ NoFault
        \/ found /\ worker' = [worker EXCEPT ![w] = missing] /\ Fault
     /\ UNCHANGED <<clock, source, store, mode, caller, entries, calls, leases, markers, published>>

Plan(w) == PREFETCH_PLANS[worker[w].done + 1]

\* A family is finished, with or without a snapshot, and the next one begins.
FinishPlan(w, written) ==
  [worker[w] EXCEPT !.pc = IF worker[w].done + 1 = Len(PREFETCH_PLANS) THEN "mark" ELSE "fetch",
                    !.done = @ + 1, !.res = NoResult, !.written = written]

Fetch(w) ==
  LET rows == time_sliced_rows(source, prefetch_window(worker[w].day))
      fetched(res) == [worker[w] EXCEPT !.pc = "put", !.res = res]
  IN /\ worker[w].pc = "fetch"
     /\ \/ worker' = [worker EXCEPT ![w] = fetched(Whole(rows))] /\ NoFault
        \/ /\ \E res \in BadResults(rows) :
                worker' = [worker EXCEPT ![w] =
                  IF res.complete THEN fetched(res) ELSE FinishPlan(w, worker[w].written)]
           /\ Fault
     /\ UNCHANGED <<clock, source, store, mode, caller, entries, calls, leases, markers, published>>

PublishPlan(w) ==
  /\ Publish(Plan(w), prefetch_window(worker[w].day), worker[w].res)
  /\ published' = published \cup {<<Plan(w), worker[w].day>>}

\* A failed put may have reached the store.
Put(w) ==
  LET good == write_accepts(worker[w].res, FALSE)
  IN /\ worker[w].pc = "put"
     /\ \/ /\ good /\ PublishPlan(w) /\ NoFault
           /\ worker' = [worker EXCEPT ![w] = FinishPlan(w, worker[w].written \cup {Plan(w)})]
        \/ /\ ~good /\ UNCHANGED <<store, published>> /\ NoFault
           /\ worker' = [worker EXCEPT ![w] = FinishPlan(w, worker[w].written)]
        \/ /\ good /\ (PublishPlan(w) \/ UNCHANGED <<store, published>>) /\ Fault
           /\ worker' = [worker EXCEPT ![w] = FinishPlan(w, worker[w].written)]
     /\ UNCHANGED <<clock, source, mode, caller, entries, calls, leases, markers>>

\* Mutant: one family is enough.
all_written_any(written) == written # {}
all_written(written) == written = Operation

Marked(w) ==
  {m \in markers : m.day # worker[w].day \/ m.phase # worker[w].phase}
  \cup {[day |-> worker[w].day, phase |-> worker[w].phase, ttl |-> SettledTTL]}

\* Both families are written: the day is marked; else the run is to be repeated.
Mark(w) ==
  LET ended(retry) == [worker[w] EXCEPT !.pc = "release", !.retry = retry]
      complete == all_written(worker[w].written)
  IN /\ worker[w].pc = "mark"
     /\ \/ /\ complete /\ markers' = Marked(w) /\ NoFault
           /\ worker' = [worker EXCEPT ![w] = ended(FALSE)]
        \/ /\ ~complete /\ UNCHANGED markers /\ NoFault
           /\ worker' = [worker EXCEPT ![w] = ended(TRUE)]
        \/ /\ complete /\ markers' \in {markers, Marked(w)} /\ Fault
           /\ worker' = [worker EXCEPT ![w] = ended(TRUE)]
     /\ UNCHANGED <<clock, source, store, mode, caller, entries, calls, leases, published>>

\* release_lease deletes the lease only if it still carries this worker's token.
Released(w) == {l \in leases : ~(l.day = worker[w].day /\ l.holder = w)}

Release(w) ==
  /\ worker[w].pc = "release"
  /\ \/ leases' = Released(w) /\ NoFault
     \/ UNCHANGED leases /\ Fault
  /\ worker' = [worker EXCEPT ![w] = Sleep(worker[w].retry)]
  /\ UNCHANGED <<clock, source, store, mode, caller, entries, calls, markers, published>>

\* The deadline cancels whatever is awaited.  A store call under way may still have
\* reached the store.  A lease that was taken is given back, which may fail too; one
\* whose acknowledgement is awaited is not.
Timeout(w) ==
  LET at == worker[w].pc
      free == \A l \in leases : l.day # worker[w].day
  IN /\ Running(w) /\ worker[w].left = 0
     /\ worker' = [worker EXCEPT ![w] = Sleep(TRUE)]
     /\ \/ at = "put" /\ write_accepts(worker[w].res, FALSE) /\ PublishPlan(w)
        \/ UNCHANGED <<store, published>>
     /\ \/ at = "mark" /\ all_written(worker[w].written) /\ markers' = Marked(w)
        \/ UNCHANGED markers
     /\ \/ UNCHANGED leases
        \/ at # "lease" /\ leases' = Released(w)
        \/ at = "lease" /\ free /\ leases' = leases \cup {HeldLease(w)}
     /\ UNCHANGED <<clock, source, mode, caller, entries, calls, faults>>

\* The replica dies and is started again.
Crash(w) ==
  /\ Running(w) /\ Fault
  /\ worker' = [worker EXCEPT ![w] = Boot]
  /\ UNCHANGED <<clock, source, store, mode, caller, entries, calls, leases, markers, published>>

-----------------------------------------------------------------------------
\* Mutant: a lease without an expiry.
AgedLeases_forever == leases
AgedLeases == {[l EXCEPT !.left = @ - 1] : l \in {k \in leases : k.left > 1}}

\* Time passes; at the end of the modelled calendar lifetimes still run out.  A run that
\* reaches its deadline has met a slow MES, which counts as a fault.
Tick ==
  LET late == \E w \in Workers : Running(w) /\ worker[w].left = 1
  IN /\ CallersMayWait
     /\ \A w \in Workers : Running(w) => worker[w].left > 0
     /\ clock' = IF clock < MaxTime THEN clock + 1 ELSE clock
     /\ IF late THEN Fault ELSE NoFault
     /\ caller' = WaitedCallers
     /\ store' = AgedStore
     /\ worker' = [w \in Workers |->
                     IF Running(w) \/ (worker[w].pc = "sleep" /\ worker[w].left > 0)
                     THEN [worker[w] EXCEPT !.left = @ - 1] ELSE worker[w]]
     /\ leases' = AgedLeases
     /\ markers' = {[m EXCEPT !.ttl = @ - 1] : m \in {k \in markers : k.ttl > 1}}
     /\ UNCHANGED <<source, mode, entries, calls, published>>

Init == /\ CacheInit
        /\ \E s \in Scenarios :
             /\ mode = s.mode /\ entries = s.entries /\ calls = s.calls /\ faults = s.faults
             /\ worker = [w \in Workers |->
                  IF w \in s.workers THEN Boot ELSE [Boot EXCEPT !.pc = "disabled"]]
        /\ leases = {} /\ markers = {} /\ published = {}

RunStep(w) == \/ AcquireLease(w) \/ ReadMarker(w) \/ Fetch(w) \/ Put(w) \/ Mark(w)
              \/ Release(w) \/ Timeout(w)

Next == \/ CacheNext /\ UNCHANGED prefetchVars
        \/ \E w \in Workers : StartRun(w) \/ RunStep(w) \/ Crash(w)
        \/ Tick

\* The event loop runs every call and every worker; nobody has to ask.
Fairness == /\ \A c \in Callers : WF_vars(CallerStep(c) /\ UNCHANGED prefetchVars)
            /\ \A w \in Workers : WF_vars(StartRun(w) \/ RunStep(w))
            /\ WF_vars(Tick)

Spec == Init /\ [][Next]_vars /\ Fairness

-----------------------------------------------------------------------------
(* Properties *)

\* Every actor's memory and everything in Redis has its type.
TypeOK ==
  /\ clock \in Nat /\ source \subseteq Row /\ store \subseteq Entry
  /\ mode \in ResultCacheMode /\ caller \in [Callers -> Caller]
  /\ entries \in Nat /\ calls \in Nat /\ faults \in Nat
  /\ worker \in [Workers -> Worker] /\ leases \subseteq Lease
  /\ markers \subseteq Marker /\ published \subseteq Operation \X Nat

\* "Caller-filtered MES results never populate the shared owner snapshot"
\* (ResultCacheExecutor): whoever wrote it and however the MES misbehaved, a snapshot
\* holds every row the owner had in its window when the MES was read, ungrouped.
SharedSnapshotIsWhole == \A e \in store : e.rows = e.truth /\ ~e.grouped

Larger(a, b) == IF a > b THEN a ELSE b

\* Rows entered this long before a question are in every answer the cache gives it.
Staleness(q, asked) ==
  IF q.window.to >= DayOf(asked) THEN UnsettledTTL + MaxRun
  ELSE Larger(SettledTTL, UnsettledTTL) + Larger(MaxRun, PrefetchTimeout)

\* An answer from the cache is the caller's own view of the MES as it was at one moment
\* not too long ago: nothing outside scope and window, no mixture of snapshots, no row
\* missing that is older than the TTL of the window and the longest fetch.
CachedAnswerIsRecentView ==
  \A c \in Callers : caller[c].pc = "done" /\ caller[c].ans.cached =>
    \E k \in 0 .. Cardinality(source) :
      /\ caller[c].ans.rows = local_view_rows({r \in source : r.n <= k}, caller[c].q)
      /\ \A r \in source :
           r.at + Staleness(caller[c].q, caller[c].asked) <= caller[c].asked => r.n <= k

\* "Redis leases prevent overlapping producers" (application/prefetch.py): crashes,
\* timeouts, lost releases and late acknowledgements included.
OneProducerPerDay ==
  \A v, w \in Workers :
    /\ worker[v].pc \in {"marker", "fetch", "put", "mark"}
    /\ worker[w].pc \in {"marker", "fetch", "put", "mark"}
    /\ worker[v].day = worker[w].day
    => v = w

\* A day is marked complete only when both families of that very day were published.
MarkedDayIsPublished ==
  \A m \in markers : \A op \in Operation : <<op, m.day>> \in published

\* No lock, store failure or bad snapshot keeps a request from ending: when no more come,
\* none is left.
RequestsEnd == []<>(\A c \in Callers : ~Busy(c))

\* A worker that owes a run (it failed, timed out, or another one held the lease, perhaps
\* a dead one) gets it done, once faults cease.
RetriesSettle == []<>(\A w \in Workers : ~worker[w].retry)

=============================================================================
