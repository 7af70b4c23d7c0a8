# Verification of factory-agent

TLA+ models, TLC runs and TLAPS proofs of factory-agent, a service that answers
production questions over a manufacturing execution system (MES). The Python package is
`src/src/factory_agent`; every model definition is tied to its lines in `PROJECT.json`.

## The system

A client posts a question; `SessionService.start` commits an *interaction* row as
`pending`. The client then opens an SSE stream. The first stream to win a
compare-and-set (`claim_run`) spawns a background executor that runs the pipeline
(parse, authorize, fetch or analyse, compose, answer) and commits every event before
anybody sees it; every stream only replays and follows the log. Executors, streams,
cancel calls and recovery sweeps live in any worker process and meet only in PostgreSQL.

| Component | State | Operations | Hard behaviour | Correct when |
|---|---|---|---|---|
| session state machine (`domain/session.py`) | state, status | transitions | none | terminal states have no successor |
| interaction lifecycle (`application/session/*`) | interaction row, event log, messages, executor memory, stream cursors | stream, claim, run, stop points, terminal commits, cancel, sweeps, self-heal, shutdown | interleaving at every await, crash between two commits, aborted transactions, reconnects, timeouts | one run, one outcome, a log that only grows, no live run reaped, everything finishes |
| session store (`persistence/session_store.py`, `queries.py`) | four tables | commit with or without lifecycle, compare-and-sets | unconditional upsert, unique keys | transactions keep row, log and messages consistent |
| transcript and narration | open, produced, closed | facts, frames, close | closed once before every terminal | saved at a free sequence |
| usage metering (`application/usage.py`, `persistence/metering.py`) | three fact tables | record, redeliver, lose | stamped first, committed later in a transaction of its own | at most one completion per interaction |
| usage rollup (`application/rollup.py`) | hour and day rows | recompute and upsert a trailing window | late facts, overlapping passes, failing passes, window edge against bucket edge | replays lose nothing |
| operations reports (`statistics/ops.py`, `statistics/store.py`) | none | summary, timeseries; breakdowns, pages of factories and users | each query its own snapshot; pages by offset while the list changes | a stalled rollup is never read as no traffic; an untruncated report leaves nothing out |
| result cache, prefetch (`data_api/result_cache.py`, `application/prefetch.py`, `application/cache.py`) | snapshots, leases, markers | read, fill, evict, prefetch | lease expiry, eviction race | no unauthorised or mixed snapshot |
| token gateway (`data_api/token_gateway.py`) | token bundles by digest and by identity | authenticate, refresh, rebind | read before an await, write after it | a run keeps the identity and the rights it began with |
| MES adapter, pager (`data_api/hongzhao.py`, `data_api/pagination.py`) | attempts, pages, budgets | execute, retry, fetch all, resize | drifting totals, restart with a larger page, refresh between pages | complete means every row once; a fetch ends |
| owner snapshots (`data_api/owner_snapshots.py`) | verified owner | resolve, verify, refresh, fetch | rights change between check and use | sent by the verified user, always the same one, and as an owner |
| execution kernel (`execution/kernel.py`, `bounded.py`) | call and row budgets, batches | fetch, fan out, degrade, build, page | answers in any order under one budget; source changes between pages | same result as a serial walk; nothing missing unmarked |
| LLM routing (`llm/*`) | failure counters, routing table | probe, demote, restore, call, fall back | flapping servers; table replaced during a call | a live deployment first; the format of the deployment it is sent to |
| intent, authorization, filters (`application/*`) | the turn, the session's last window | parse, clarify, authorize, resolve people, narrow, drill | rights change during a turn; five sources of a period | only calls within the scope, about the period asked for |
| L2 analysis (`application/l2/*`) | loaded datasets, rounds | plan, ensure, reuse, compute, answer | data changes between loads; the planner never stops | reused data is exact; the turn ends |
| exports (`export_service.py`, `export/*`, `statistics/exports.py`) | bytes, sidecars, read cache, report files and rows | issue, download, purge, sign | two writes, expiry during a download, restarts | a link works until it expires, for its owner |
| tenants, accounts, audit (`statistics/tenants.py`, `platform_auth.py`, `retention.py`) | registry, accounts, tokens, audit log | sign in, create, rename, disable, register on first sight, purge | operators and requests race; reads fail open | a disabled factory gets nothing done |
| listings (`persistence/*_store.py`, `queries.py`, `api/sessions.py`, `api/personal.py`) | rows, cursor | page, record, touch, delete | rows change between pages, equal time stamps | every row that stays put is shown once |
| tracing (`application/trace.py`, `persistence/*trace_store.py`, `observability/*`) | facts, captures, phases | record, commit, expire, load, assemble | parts lost, clocks that step, a run still going | the bars fit the axis and add up |
| transcript text (`session/thinking.py`, `narration.py`) | allowed numbers, frames, budgets | state, cut, check, flush, close | the check looks at the whole text at each frame | no true sentence is lost within the budget |
| dictionaries, rosters (`data_api/knowledge_directory.py`, `directory.py`, `application/cache.py`) | futures in flight, cache lines | fetch, wait, decode, store, invalidate | waiters of a leader that fails or is stopped | complete means the whole directory of the own factory |
| API framing, bootstrap, configuration | none of their own | wiring | none | configured time limits are ordered |

## Modules

| Module | Role |
|---|---|
| `SessionStates` | statuses, states, transition table, terminal event names |
| `SessionService` | one interaction: store, executor, streams, cancel, sweeps; properties |
| `MCSessionService` | the symmetry set of the TLC runs |
| `SessionServiceProofs` | type correctness, proved |
| `SessionSafetyProofs` | safety theorems about runs, the event log and its outcome, proved |
| `UsageRollup` | usage facts, the rollup worker and the one-shot rollup command |
| `UsageReports` | the dashboard's reports over the rollup's tables; properties of both |
| `MCUsageReports` | tenants, sources and requests of the TLC runs |
| `UsageRollupProofs` | type correctness and two safety theorems of the above, and the theorem about the operator's reports (`OpsReports`), proved |
| `ResultCache` | the shared snapshots and the executor calls that answer from them |
| `Prefetch` | the prefetch workers, leases and markers over that store; time; properties of both |
| `MCPrefetch` | questions and scenarios of the TLC runs |
| `CacheProofs` | type correctness and four safety theorems of the above, proved |
| `TokenGateway` | credentials, bundles, exchanges that may overtake each other |
| `MesAdapter` | one `execute` call: tenant check, refresh, retries, budget, errors; extends `TokenGateway` |
| `BoundedPager` | `fetch_all` over the adapter and a source that grows and shrinks; extends `MesAdapter` |
| `MesAccess` | an interaction with concurrent fetches, other requests and the owner's snapshot fetcher; properties of the four |
| `MCMesAccess` | actors and scenarios of the TLC run |
| `MesAccessProofs` | type correctness, three safety theorems and an action property of the four, proved |
| `SerialWalk` | abstract specification: what a fetch phase is, one request after the other |
| `Kernel` | runs of recipes: batches, budgets, degradation, table, pages; refines `SerialWalk` |
| `KernelProofs` | the theorems about pages, whole answers and the refinement of `SerialWalk`, proved |
| `LlmRouting` | endpoints, probes, the routing table, one logical model call |
| `Conversation` | turns: parse, period, authorization, narrowing, drill, business call; extends `LlmRouting` |
| `Analysis` | the L2 loop over `Conversation`; properties of the three |
| `MCAssistant` | the assistant and the kernel side by side, each behaviour one's: people, words, cards, queries and scenarios of the one, recipes and the changing source of the other |
| `AssistantProofs` | four safety theorems of the three, proved |
| `Absent` | the value that stands for None |
| `Exports`, `TenantRegistry`, `Listings`, `Trace`, `Narration`, `Directories`, `OpsReports` | one service each, with its properties |
| `MCServices` | the seven services side by side; each behaviour is one service's |
| `ServiceProofs` | theorems about exports, tenants, listings, directories and traces, proved |

`SessionService` starts where `start` has committed: a pending row, the question's
message at sequence 1, no event. Its variables and the code:

- `row`, `age`, `events`, `msgs`, `metered`: the `agent_interaction` row (status, state,
  `last_event_sequence`, error category), the distance of `updated_at` from now,
  `agent_event`, the sequences in `agent_message`, the completion usage events.
  `Upsert` is `commit(lifecycle=True)`, `Touch` is `commit(lifecycle=False)`; both are one
  transaction, which aborts when a message sequence is taken.
- `run`: the executor's program counter and memory (`RunState`: state, next sequence,
  transcript; pending completion events; the cancel event; the deadline). Each `Exec...`
  action is the code between two awaits that touch the database. A commit that aborts
  unwinds through `Raised`: to `_terminate(FAILED)` in `_run`, or past it to the last
  resort in `_execute`. The verdicts of parsing, authorization, fetching and analysis are
  choices; a question may be answered, chatted, clarified or failed at each place where
  the code can do so.
- `stream`: one record per connection: its place in `stream`/`_follow`, its client's
  `Last-Event-ID`, and the ids the client got from wire-only events (`phantoms`).
  `ended` is a stream that delivered a terminal event, `cut` one that ended without.
- `job`: what a reaper (a sweeper, a healing stream, the executor's last resort) holds
  between its compare-and-set and the commit of the terminal event; `lost` counts those
  that die there.
- `creq`: cancel calls, between their read, their commit and their in-process signal.

`UsageRollup` models one database and two jobs (`run_forever`'s worker and
`factory-agent-rollup`), which do not exclude each other:

- `pending`, `facts`: usage events between `occurred_at` and their commit, and the rows of
  the three fact tables; `rows`: the hourly and daily tables. A metric is a sum over
  facts, so a row is represented by the set of facts it sums: a recomputation that would
  change a sum changes the set.
- `job`: a pass's place in `run_once` (window, tenant discovery, one statement per fact
  table, categories, upsert) and what it has read. `FailPass` is an exception or a stopped
  process at any of these places. `seen` and `lastPass` are history variables.
- `report` (in `UsageReports`): a request resolves its tenants, reads rows and then
  freshness; `incomplete` is the flag the client sees. Sums, shares and percentiles of a
  report are left out, and so are MES points in a timeseries.

`ResultCache` and `Prefetch` model one tenant, one Redis and the MES:

- `source`: the rows in the MES, each with its day, department, and the order and time of
  its entry; `Record` enters one for today or, late, for yesterday. `clock` counts ticks,
  `DayLength` of them to a day, so midnight may fall between any two steps.
- `store`: the snapshots by operation and window, with the time they have left. `truth`
  and `day` are history: what the owner had in the window when the MES was read, and on
  which day. `leases` and `markers` are the other keys; `published` is history.
- `caller`: one `execute_full_step` each, one action per await: looking up a key, waiting
  for the process's lock, the owner's fetch, publishing, serving, the shadow fetch, the
  eviction, the fallback and its write-back. A call still running when its time is up is
  stopped (`Stop`) and leaves in doubt what it was writing.
- `worker`: one replica's prefetch: `StartRun` fixes day and deadline, then lease, marker,
  both families, marker, release. `Timeout` cancels it at any of these awaits, `Crash`
  loses its memory. A failed store call may have reached the store.
- A footer stands for the sums the code can recompute: it adds up exactly if no row is
  missing. The MES is assumed to send one; a response without any footer passes the
  code's gate unchecked. Columns, derivations, aggregation and encoding are left out:
  grouping adds up the rows of a view and so cannot change which rows are in it.
- `Init` picks a scenario (mode, prefetching replicas, numbers of rows, requests and
  faults), so that the loads of one run add up instead of multiplying. A slow MES that makes a prefetch
  time out counts as a fault. At the end of the modelled calendar the clock stands still
  while lifetimes still run out.

`MesAccess` models one process: its tasks, the gateway's two maps and the MES behind it.

- `mes`: who a credential stands for and with which rights; an administrator may change
  both at any time. `exch` is the exchange a task awaits; the MES reads its facts in one
  step and answers in another, so answers may overtake each other.
- `byDigest`, `byIdentity`, `ctx`: the gateway's entries and the `CURRENT_BUNDLE` of each
  task. Fetches inherit a copy of the interaction's context, as asyncio tasks do.
- `call`, `requests`: an adapter call per task and the attempts counted by the run's
  budget; `walk`: the pager. `first` and `shrank` are history.
- `owner`: the snapshot fetcher between resolving a credential, asking the registry and the
  authorizer, fetching and refreshing. The authorizer reads the user's entry and, if it names no
  departments, awaits the directory (`authorization.py:211-216`); `bind_for` then takes the entry
  of that moment (`owner_snapshots.py:145`). `looked` remembers such a lookup, whose own MES calls
  are left out: it answers or fails.

`Kernel` is one viewer of one recipe: runs, each a walk over the API steps, then the sandbox
and the table. `batch` holds the requests under way with their attempts and time, `control`
the attempts and rows counted by the run control, `version` which of the source's states is
current. `walked` is history: what the source said to every request in combination order.
`Serial == INSTANCE SerialWalk` reads `walked`, `fetches` and `calls`; its `Step` says what
a step of a recipe adds up to when requests go one by one. `SerialEquivalence` makes TLC
check that every step of the kernel is one of its steps or changes none of the three.

`Analysis` is one caller's turns. A parse result is a record of what matters later (type,
capability, certainty, ISO range, words, department, person); the model's answer is any of
a set of them, or unusable. `turn` follows the pipeline's branches to the business calls,
`host` holds the loaded datasets of an analysis and `ensured` what each query was answered
with. `baseline`, `router`, `alive` and `call` are the routing table as configured, as
used, the servers and the call under way.

`MCServices` puts seven independent state machines into one run. In `Exports` every store call
is a step that may fail; in `TenantRegistry` and `Listings` every statement is; `Trace` keeps
facts and captures apart as the code does, with starts that differ from true time by a skew, and
lets a cancelled run go on: its progress touches the row, its next transition overwrites it, and
both log their stage (stages announced in one commit are one commit each); `Narration` spells
sentences out, because its budget cuts characters and its gate reads numbers; in `Directories` a
row is its number, so that what a directory held at a moment is an initial segment; in
`OpsReports` a report keeps the facts committed when it was asked for beside the numbers it
computes, and a walk keeps the list of its first page.

Smaller abstractions elsewhere: `Directories` leaves out the check on the number of rows a
hanging dictionary has reached (`knowledge_directory.py:490`), which only marks more answers
incomplete, and `Narration` leaves out the commas inside long numbers (`thinking.py:80`), so a frame
that cuts a sentence at such a comma is not represented.

Abstractions of the session: a failed commit in `_narrate_over` goes to the rescue handler
instead of `_fail` (`pipeline.py:943`), which ends the run failed as well; event payloads, texts
and durations are dropped; an event is its sequence and whether it is a terminal name. Metering
failures are swallowed by the code, so counting a completion with its business commit is an
upper bound. One interaction is modelled because rows of different interactions share nothing
but the conversation timestamp. A transaction either commits or aborts; one that commits while
its acknowledgement is lost is not modelled.

## Runs

| Run | Instance | Checks |
|---|---|---|
| `recovery` | 2 connections (symmetric), 1 sweeper, 1 crash, 1 aborted transaction, 1 narration | `OneExecutorEver`, `WatermarkCoversLog`, `OneOutcome`, `FinishedIsLogged`, `FinishedStaysFinished` |
| `cancel` | 1 connection, 1 cancel, 1 sweeper, 1 crash, 1 failed history write | `AbandonedNeverRan`, `LiveRunNotStale`, `EventuallyFinished` |
| `follow` | 1 connection, 1 sweeper, 1 crash, 1 aborted transaction, 1 narration, 1 follow timeout | `NoDeliveryPastTerminal`, `FollowerReleased` |
| `resurrection` | the smallest instance that shows it | `CancelledStaysCancelled`, which the code does not keep |
| `usage` | 2 tenants (one known only by its MES calls), worker with a 2-hour window and one call of either the 1-hour command or a report, 2 facts, 1 fault, 3 ticks; an hour is one tick, a day two | `PassDropsOnlyUnseen`, `StallIsFlagged`, `RollupConverges` |
| `usage_shrink` | the same without faults and calls | `CountedStaysCounted`, which the code does not keep |
| `cache` | 11 scenarios: up to 2 requests of 3 kinds (owner today, department head two days ago, analysis today), 2 rows, 2 faults, 2 replicas, all modes; a day is 2 ticks, `backtrack_days` 2, TTLs 1 and 2 ticks, run limits 1 tick, 3 ticks of calendar | `SharedSnapshotIsWhole`, `CachedAnswerIsRecentView`, `OneProducerPerDay`, `MarkedDayIsPublished`, `RequestsEnd`, `RetriesSettle` |
| `mes_access` | 8 scenarios: two fetches of two pages while bundles expire and rights change; a walk over a source of 0 to 4 rows that gains and loses one; an owner who fetches twice while credentials change hands; 3 faults | `SendsUnderBoundScope`, `SnapshotSentByOwner`, `CompleteIsSnapshot`, `FetchesEnd` |
| `assistant` | questions and cards (2 turns, 3 roles, 2 departments, 2 windows, a reassignment), an analysis (3 steps, 6 queries, rows that change), a failover (2 servers, two deployments of equal priority, 3 changes); kernel: 4 recipes (list with details, fan-out, two sources, a binding to a later step), 3 orders, 3 states of the source, batches of 1 and 2, 3 calls, 4 attempts, 5 rows, 2 runs | `CallsStayInScope`, `ReuseIsExact`, `WireFormatMatches`, `AnswersTheAskedPeriod`, `TurnsEnd`, `LiveDeploymentsFirst`; `SerialEquivalence`, `WholeOrMarked`, `PagesAreOneResult` |
| `named_employee` | the assistant of `assistant` | `NamedEmployeeIsBound`, which the code does not keep |
| `services` | artifacts: 2 exports, 2 callers, 1 fault, 1 restart; reports: 1 export; registry: 1 factory, 1 operator and the API token, 2 changes, 2 requests, 1 fault; listings: 4 listings, 3 rows, pages of 1, 2 writers; trace: 2 operations of 4 kinds (a cancel counts as one of them and as the fault), 2 stages, 1 fault; narration: 5 steps, a budget that ends inside; directories: 2 turns, 2 factories, 1 new row, 1 fault, 1 stop; usage: 3 factories (2 registered), 2 users, 2 facts beside 4 earlier ones, 2 renames, breakdowns of 1 row and pages of 1 | `HandedOutWorks`, `SuspendedDoesNoWork`, `WalkShowsEverythingOnce`, `TimelineAddsUp`, `TrueLinesAreShown`, `CompleteIsTheDirectory`, `WaitIsForLiveFetch`, `ReportsLeaveNothingOut` |
| `directory_cancel` | the directories of `services` | `OthersNeverTear`, which the code does not keep |

Type invariants are proved for the session, the rollup, the cache and the access to the MES
(below). `Kernel` states one too, which holds on the kernel's part of `assistant`.

Bounds. Two connections are enough for every race on the claim (winner and loser) while
either may reconnect any number of times; one sweeper races the streams' self-heal, which
is the same compare-and-set. One crash and one aborted transaction may hit any step, and
together any two. `StaleAfter = AbandonAfter = MaxSilence = 1` tick distinguishes fresh,
at the limit and beyond it. One narration makes the transcript non-empty, so that closing
it commits. The proofs remove the bounds for the theorems below. For usage, two facts are enough for
a fact that is dropped from a row while another stays, three ticks for a window that has
left the start of a day, and one optional call for each of the overlaps that matter: two
passes, or a pass and a report. For the cache, two requests meet at the lock and at the
key, with a third actor where a prefetch runs beside one; two replicas are the winner and
the loser of a lease, with one fault for a crash, a lost call or a deadline; four ticks
are two midnights, enough for a snapshot to be used on the day after its own. For the MES, two
fetches share one context and one budget, a bundle that lives 2 ticks is refreshed at 1, and
pages of 1 growing to 2 over at most 5 rows meet both budgets, the resize and every
outcome of a walk. For the kernel, three orders in batches of two leave a rest, budgets of
3, 4 and 5 end inside a step, and three states of the source put a change, a withdrawal and
an emptied list between any two requests and between two pages. For the assistant, two
turns are a question and what follows it; three changes of two servers make one die, the
other die and the first come back. For the services, two actors of a kind make each race,
and one fault or restart may hit any of their steps.

Time. `config.py` refuses a run timeout that is not smaller than the stale window, so a
live run commits, stops or dies before it looks stale: `TimeAssumption` and the guard of
`Tick`. `LiveRunNotStale` then depends on every claim and commit really refreshing
`updated_at`; a touch that forgets it breaks the property.

Fairness. Weak fairness on the executor, on every stream's own steps, on started cancel calls
(the event loop runs each ready task), on the sweeps (`sweep_forever` runs in every worker and
survives a failing pass) and on time. None on clients: nobody has to connect, stay, time out or
cancel; crashes and faults are never forced. In `UsageReports`: weak fairness on the passes of
the worker (its loop catches every exception), on a started command, on committing a metering
transaction and on time, none on requests. In `Prefetch`: weak fairness on the steps of every
call and every worker (the event loop runs them; for a call the timer that stops it is not
relied on) and on time, none on requests, rows or faults. In `MesAccess`: weak fairness on every
task's own steps and on the MES answering or failing (each attempt has a timeout); none on
administrators, rows or faults. In `Analysis`: weak fairness on the turn's own steps and on the
probe, which `probe_forever` repeats after every failure; none on servers or callers. Deadlock
is checked for the session, the rollup, the cache and the MES: there time can always pass or the
worker begin again. A kernel's runs, a caller's turns and the services' requests are finitely
many in an instance and really stop (CHECK_DEADLOCK FALSE).

## What the runs show

The claim, the sweeps and the executor are safe against each other for as long as no cancel is
in flight and history writes succeed; with a cancel, liveness, the abandoned sweep and the stale
sweep remain correct. The rollup converges: failed passes, late commits and overlapping commands
are repaired by the worker's next pass for every fact of its window, and a report over a stalled
rollup says so. The cache never mixes or truncates: whatever fails, a snapshot is whole, an
answer from it is the caller's own view of one moment no older than the TTL and the longest
fetch, every request ends, and the prefetch of a day has one producer, who is replaced if it
dies. An interaction talks to the MES as one user with the rights it began with, or stops. A
complete walk is the source as it was when the walk began, unless rows were taken away
meanwhile: the pager compares counts, so a row withdrawn and another entered behind it go
unnoticed. Fan-out is invisible: rows, footer, request count and reason are those of the serial
walk at every concurrency. A business call stays in the departments its turn was authorized for,
and whom a card or an analysis names is of those departments; whom a question names is left to
the MES. A link works until it expires, a disabled factory gets nothing done once the write that
disables it is in (unless the registry cannot be read: that check fails open), walks of pages
are exact for rows that stay where they are, and a dictionary handed out as complete is what the
factory had. A breakdown that is not truncated counts every fact committed before it was asked
for, and walking the pages of factories shows each of them while others join.

Four statements of the repository have a run that shows they do not hold:

- `resurrection`: the executor's lifecycle commits overwrite a row that a cancel made
  terminal after the executor's last check.
- `usage_shrink`: the window's start falls inside a bucket, the bucket is recomputed from
  the facts after that start only, and facts counted before are dropped. A daily row
  shrinks this way with every pass while the window's start moves through its day.
- `named_employee`: `permission_matrix.py:22-26` and `:87-89` say that the target employee of
  FR-012 must be inside the bound departments of a leader or manager, "enforced server-side before
  any business call". An employee named in words is resolved in the tenant's directory and taken as he is
  (`pipeline.py:513-524`, `filters.py:79-80`; the comment there says so): the call goes out for
  an employee of another department.
- `directory_cancel`: the turn that leads a dictionary fetch is stopped; the future is
  cancelled, and every turn that waits for it is torn down as if the process shut down. Its
  interaction stays running until a sweep calls it lost.

The models contain further behaviour that a comment, document or test denies. No run is
kept for it; each is a short behaviour of the module named:

- `SessionService`: a run that died before its first event is reaped with a message
  sequence that the question already holds, so the terminal commit aborts
  (`lifecycle.py:106-109`); a failing history write after the terminal commit fails a
  completed interaction (`pipeline.py:352`, against `:1835`); a follow timeout gives the
  client the id of an event it never received, and `Last-Event-ID` then skips that event
  (`lifecycle.py:77`).
- `Prefetch`: the TTL of a snapshot is chosen by the date at which it is written, so rows
  read before midnight for a window with today in it are kept for 24 hours instead of 90
  seconds (`result_cache.py:1070`, against `cache.py:35-36`).
- `MesAdapter`: the reactive refresh is never reached, because an expired token is only
  recognised after the handler that would refresh it (`hongzhao.py:256`, `:283`, against
  `:23-25`).
- `Kernel`: the whole fetch phase shares one call timeout that is no longer than a single
  attempt's, so a hanging source ends the run instead of degrading a step
  (`kernel.py:226`, against `:86`); a group that is gone when it is opened is reported as a
  failed computation, because `run_sandbox_call` replaces the error (`bounded.py:34`).
- `MesAccess`: both authorization and the calls of a snapshot are to bind the owner
  (`owner_snapshots.py:3-7`), but when the owner's bundle names no departments another sign-in of
  that user may replace it while the directory is awaited, and the bundle bound then need not be
  an owner's (`authorization.py:211-216`, `owner_snapshots.py:145`). `SnapshotSentByOwner` asks for the
  verified user always and for the role unless such a lookup came between.
- `Conversation`: the limit on clarification rounds starts at 0 in every turn, so a session can
  be asked again without end (`definitions.py:77`, `pipeline.py:785`).

Noticed while modelling, without a statement to hold against it: a department roster is cached
for a day whether or not it is complete (`directory.py:63`, `:121`), which is why
`CompleteIsTheDirectory` leaves it out; a dictionary fetched before an invalidation may be
stored after it; a sweep's loop ends with the first record whose terminal commit fails
(`lifecycle.py:174`); a cancelled run still closes its transcript, at a sequence the cancelled
event may hold (`outcomes.py:601`); a cancel inside the L1 fetch is reported as a failed
execution (`pipeline.py:943`); a stream that looks between the two transactions of a reap ends
without a terminal event (`service.py:226`); a report that ends within a day leaves that day out
(`statistics/store.py:579`); a range whose first fact has just landed is flagged at once
(`statistics/ops.py:995`); an eviction decided on an earlier read may remove a good snapshot
(`result_cache.py:1684`); the number of conversations is checked before the insert, not with it;
an audit record of a change that was made may be lost; a name filter that matches no factory
lists all of them, and one whose match registers between two statements is refused
(`statistics/ops.py:789-797`); a user who moves up the ranking between two pages is skipped
(`statistics/store.py:665`), as is a factory when another leaves a name filter's matches; a
stage of the trace may extend past the axis of a running interaction, and of a cancelled one
whose run still announces a stage after `completed_at` (`outcomes.py:252`, `trace.py:611`); at
the edge of the transcript's budget a number can be cut in half.

`FinishedStaysFinished`, `WatermarkCoversLog`, `OneOutcome`,
`FinishedIsLogged` and `NoDeliveryPastTerminal` are therefore stated for interactions
without an effective cancel and with working history writes (`Undisturbed`).

## Proofs

TLAPS proves, for any sets of connections, cancels and sweepers and any bounds, from
`TimeAssumption`, `BoundAssumption` and `ActorAssumption`:

- `TypeCorrect`: `Spec => []TypeOK`. `TypeOK` alone is not inductive: a stream's cursor
  moves to the last sequence of the log, which exists only if the log is bounded, and a
  healing stream commits the record it holds. `TypeInv` adds both (`EventSet`,
  `HealingOK`).
- `OneExecutor`, `AbandonedIsUnclaimed`, `LiveRunSafe`: from `SafetyInv`, the conjunction
  of `TypeInv`, `ClaimInv` (a pending row was never claimed; a claimed run without an
  executor has one claimer; an abandoned question has neither), `TimeInv` (the row of a
  live run is no older than the run has been silent) and `UndisturbedInv` (a live run's
  row says running until its terminal commit, and a reaper's record says what the row
  says).
- `FinishedForGood`: `Spec => FinishedStaysFinished`, an action property, from the same
  invariant.

- `WatermarkHolds`, `OutcomeIsUnique`, `FinishedMeansLogged`, `TerminalEndsDelivery`: from
  `OutcomeInv`, which holds of an undisturbed interaction. `SeqInv`: a live executor's
  sequence is not behind the row's. `LogInv`: the log stays below the row's sequence and
  holds at most one terminal event, exactly when the row is terminal or the event is still
  owed by a reaper or lost with it. `JobInv`: a reaped record is the only one, and neither its sequence
  nor its outcome is in the log yet. `MeterInv`: nothing is metered before the outcome is
  written. `CursorInv`: a client behind logged events only is behind every sequence that is
  reserved and unwritten. Each of the four properties alone says nothing of what a process is
  about to append, which is where a second outcome would come from.

The executor's twenty-one steps are first reduced to a few permitted effects on row, age
and run (`ExecStepEffect`), and every other step to a quiet one, a claim, a reservation or a
reaped commit; the invariants are then preserved once per effect.

For `UsageReports`, for any tenants, sources, requests, windows and bounds:

- `RollupTypeCorrect`: `Spec => []TypeOK`.
- `PassesDropOnlyUnseen`: a committing pass takes out of the rows only facts outside its
  window or committed after it began. The invariant says, per place in `run_once`, that
  the pass has already read every seen fact of its window and of its tenants in the
  tables behind it, and that those tenants include every tenant with such a fact.
- `StalledRollupIsFlagged`: from an invariant that bounds the stamp of every row by the
  last committed pass, in the table and in what a report has read.

For `OpsReports`, over `ReportsSpec` and for any factories, facts, requests, caps and page sizes:

- `ReportsAreWhole` (`ReportsLeaveNothingOut`), from `ReportsInv`. `BreakdownInv`: a breakdown that is
  half done (the model's errors are read after the interactions') holds a tally whose counts
  lie between those of the facts before the request and now, for the factories `_tenant_ids`
  resolved, which include every factory with a fact of the period. A cap cuts nothing unless it
  says so. `RowsInv`: the same for the MES calls of every factory row that was shown. `TenantWalk`:
  a factory of the first page's list that was not shown yet has at least as many factories before it
  as the offset, because a list that others join moves it back only (`Ahead`). `UserWalk`: while
  the ranking stands still, the users up to the offset were shown (`Behind`). That the list has
  every member once, each at its rank, is the lemma about `Ordered`: the number of those
  that precede is a bijection, by counting, so no induction is needed.

It rests on `FactAssumption` and `InquiryAssumption` (facts and requests have their types, the
tables are finite, None is no category, factory or set of them) and `SubjectAssumption` (an
interaction has a user: `user_subject_id` is not nullable, `persistence/tables.py:132`).

For `Prefetch`, for any callers, processes, questions, replicas, windows, lifetimes, run
limits and loads:

- `CacheTypeCorrect` and `SnapshotsAreWhole`: from `Inv`, which says of every actor that a
  result it may still publish is `Trusted` (a footer that adds up vouches for the rows,
  by the cardinality of finite sets), and of every snapshot that it is whole. The store
  gate alone is not inductive: what is in flight has to be covered.
- `OneProducer`: from `LeaseInv`: a day has one lease, and a worker past it holds it for
  longer than it may still run. This is where the margin of `lease_seconds` is needed.
- `MarkedIsPublished`: from `MarkInv`: what a run counts as written it has published for
  its own day.
- `CachedAnswersAreRecent`: from `AgeInv`, which bounds the time at which a snapshot was read
  by the life it has left. The short life bounds it by itself; the long one is given only to a
  window whose last day was over by the write, so a question that may be served from it
  after that day tolerates it (`Lived`). Callers and workers in flight need the same: what a
  call publishes it has read since it was asked, what a run publishes was read within its limit
  and on or after the day the run began. `config.py` does not order the two lifetimes, so the
  tolerance of a settled window (`Staleness`) is the larger of them. A day that ends between read
  and write (`result_cache.py:1070`) is therefore bounded: it costs the tolerance of a settled
  window and no more.

For `MesAccess`, for any credentials, users, facts, tasks, lifetimes, retries, budgets, page
sizes and scenarios, from `GatewayAssumption`, `NoneAssumption`, `AdapterAssumption`,
`PagerAssumption`, `ActorsAssumption` and `LoadsAssumption` (None is no value, actors are
different, scenarios have their types):

- `MesTypeCorrect`: `Spec => []TypeOK`.
- `SendsStayInScope`: from `ScopeInv` (a fetch of a bound interaction holds a bundle of the
  bound user and facts, and nobody else calls), `CallInv` (a refresh in flight is for the entry
  of the user the task works as) and `IdentityInv` (the entry of a user holds a bundle of that
  user). A bundle is compared with the context only when the exchange answers, so the
  exchange in flight has to be covered.
- `SnapshotsAreTheOwners`: from `OwnerInv`, which follows the fetcher through both validations
  and the department lookups in them: a request goes out under the verified user's bundle, and
  an owner's unless a lookup came between check and binding; `OwnerNeverChanges`: an action
  property from the same invariant.
- `CompleteWalksAreWhole`: from `PagesInv`: a walk that knows its total, and from which
  nothing was taken, holds the first rows of the source it began with, as many as the pages
  before its next one; the source is still that one, or longer. A row that was entered
  therefore shows in the total, and the walk ends incomplete. The page arithmetic (full
  pages, the larger page after the first answer, the last short page) is proved in lemmas.

For the services, each for any sets, rows and bounds and over its own specification
(`ExportsSpec` and its like; `MCServices` runs them side by side):

- `LinksKeepWorking` (`Exports`), from `ExportsInv`: what is stored of an artifact is what its
  export wrote, and all of it is there from the moment its id is handed out until it expires;
  a link has its row and a row its file; a download that purges carries an expired entry.
- `DisabledStaysOut` (`TenantRegistry`), from `RegistryInv`: the table says what the operators
  decided, a request that got as far as its write found a row, and a request asked while
  its factory was suspended is handled only by a check that could not read the table.
- `WalkIsWhole` (`Listings`), from `ListingsInv`: an id names one row of its owner (`TableInv`),
  a drawn id belongs to one writer or one row (`WriterInv`), every row that was shown lies at
  or before the cursor, wherever it has moved since, and every row that is due was shown or lies
  behind the cursor (`WalkInv`).
- `CompleteMeansWhole` and `WaitersHaveALeader` (`Directories`), from `DirectoryInv`: a future
  is held by a turn that is fetching what the future is about, a turn that waits waits for
  such a future, and every snapshot that calls itself complete, in the cache, in a future's
  outcome or in a turn's hands, is what the directory held at its date.
- `TracesAddUp` (`Trace`), from `TraceInv`: the spans of every table have their types and are
  finitely many, the stages are in the order of their times and none is of the future (`RunInv`); what
  each statement of a read returned, and that a row which its run had ended goes with stages that
  are all in its time (`Final`, `LoadOk`): after its own end a run announces no stage, and a cancel that
  comes late only takes one away. A cancelled row has no such bound, since its run goes on. A
  document that was shown then adds up. That is the arithmetic of the sweeps. Whatever was swept
  so far, the counter of a kind is its bars that have started less those that have stopped, so in the
  stretch before the next edge the active kinds are the kinds that run there (`Passed`,
  `ActiveRun`), and occupancy, overlap and exclusive time count milliseconds up to that edge. The union
  of one kind's bars is the same argument over intervals (`CoveredBy`), and each millisecond after the
  first stage, to the end of the axis or the last stage, lies in exactly one stage bar (`StagesTile`).

The services' assumptions (`ExportAssumption`, `RegistryAssumption`, `ListingAssumption`,
`DirectoryAssumption`, `TraceAssumption`) say that the constants have their types, that None is
none of their values, that artifacts are not reports and that the people of a listing are
finitely many.

For a turn of the assistant, for any people, roles, capabilities, vocabularies, cards, queries,
deployments and servers:

- `CallsSpeakTheFirstFormat` (`LlmRouting`), from `RoutingInv`: the table calls are described
  from is the one the router was built from; it is the document's, whose priorities may tie
  (`registry.py:50` defaults them to 1 and nothing compares them), or one the probe has reordered, whose
  places are all different; and a call that was sent has the format of the deployment of lowest
  priority that comes first in the list (`SentRight`). The router picks any of the lowest priority: the
  call has the format of one of them, and in a reordered table there is only one. That there is a
  first one is taken from the well-foundedness of the numbers.
- `CallsStayAuthorized` and `TheAskedPeriodIsAnswered` (an action property of `Analysis`), from
  `TurnInv`, per place of the pipeline: the window of the intent is a period the input names, or
  is still open and the input names none (`Understood`, `AskedFor`); the capability passed the
  role matrix (`Permitted`); the filters of a call to be made lie in the authorized range
  (`InScope`). The last needs the matrix: a person's own rows are enforced only for personal
  capabilities, so an employee must not hold others. Whom a card or an analysis names was
  compared with the bound departments, or is the caller; nothing of the kind is true of whom a
  question names. A card skips the parser, which is why its own period is part of `AskedFor`.
- `ReusedDatasetsAreExact` (`Analysis`), from `HostInv`: every dataset the host holds, reused or
  not, is what its own query selects from the snapshot it was loaded from, and calls the quantity a
  column only if every row has a usable one (`Exact`).

They rest on `RoutingAssumption` (the document is a finite list, so the deployments of an alias have
different places in it), `ConversationAssumption`, `MatrixAssumption` (an employee holds personal
capabilities only, `permission_matrix.py:60-93`, and the analysis is none of them), `CardAssumption` (a
card names an employee by id), `TimeAssumption` (words name windows, None is no window) and
`AnalysisAssumption`.

For the kernel, for any recipes, sources, page sizes and budgets, from `RecipesAssumption` (what
`load_recipes` refuses is no recipe), `StepsAssumption` (a recipe has a step), `LimitsAssumption`
(limits are numbers, pages and timeouts are not empty, the planner's order names no plan twice) and
`NoneAssumption`:

- `PagesStayOneResult` (`PagesAreOneResult`), from `ViewInv`: the table that is verified was
  built from the fetches of the run; the viewer's groups are the first groups of the whole
  result, a whole number of pages unless it is all of it, and that whole is a function of the rows
  in the snapshot it names (`Held`); a request in flight is for the next page or for one group
  of that very snapshot (`Wanted`). So a later run that reports the same snapshot computes the same
  whole, whatever the source did between the two.
- `AnswersAreWholeOrMarked` (`WholeOrMarked`) and `KernelIsSerial` (`SerialEquivalence`, the
  refinement of `SerialWalk`), both from `ViewInv` and `WalkInv`. `WalkInv` says of every finished
  step that its fetch is what the answers of its combinations add up to, and that these are the
  requests of the step's parameters bound to the tables before it (`Past`); of the step under way,
  that the accumulator is the fold of the answers gathered so far and that batch and rest are
  the combinations not gathered yet, in their order (`Gathering`); of a request in flight,
  that what came back is an answer the source could give between the start of the run and now
  (`Entries`); and of a result, that a reason it does not give was found in none of the fetches (`Told`).
  Neither property alone is inductive: an unmarked answer rests on every fold behind it. In the
  refinement every action leaves `walked`, `fetches` and `calls` alone, or starts over, or appends one
  step; the last is where the order in which the batch was answered has to disappear.

The folds of the kernel (rows, calls, footer and first reason of a list of answers) are proved
without an induction rule: a property of all prefixes that holds of the empty one and passes to the
next cannot fail at a least one (`LeastNumber`, from the well-foundedness of the numbers; `IsFold`,
`FoldStep`). The sweeps of a trace are folds over a finite set that take the latest item last; that
such a fold exists is shown the same way, by the least cardinality at which it would not
(`SweepExists`).

Only model-checked: `TrueLinesAreShown`, whose module is recursive (a text of any length is cut and
read character by character), which the prover does not accept (a theorem
would also need frames longer than any number: a long number cut by a frame is one the gate
rejects); and all liveness (`EventuallyFinished`, `FollowerReleased`, `RollupConverges`, `RequestsEnd`,
`RetriesSettle`, `FetchesEnd`, `TurnsEnd`, `LiveDeploymentsFirst`), which under fairness is out of
the prover's reach. So is a general induction over data: the library's induction rules have an operator
as parameter, so the folds above are each proved by their own least counterexample.

## Plan

Done: the interaction lifecycle; usage metering, rollup and reports; result cache and
prefetch; MES access; the execution kernel as a refinement of the serial walk; routing, turns and
analysis; exports, tenants, listings, traces, narration, directories and the operator's breakdowns;
the proofs above. Left are the type invariant of `Kernel` as a theorem, and `Narration` without
recursive operators, so that its invariant can be proved as well.

## Not modelled

- Text: prompts, the grammar of time expressions, summaries, the wording rules of the scope
  guard, the rendering of trace reports, redaction, spreadsheets' cells. Their verdicts are
  choices where a module depends on them.
- Table arithmetic: metrics, joins, aggregation, percentiles, SQL of the sandbox. Rows and
  which rows are in a result are modelled, their sums are not.
- Record layouts: MES schemas and catalogues, capability tables, domain types, ports.
- `RecipeDagExecutor` (`execution/dag.py`), `purge_all` and `ExportFileStore.delete` have no
  caller.
- Wiring and I/O: bootstrap, configuration, command line, logging, HTTP decoding and SSE
  framing, database partitions, the scripts.
- Rows of one user without a protocol between actors: favourites, preferences, mappings, push,
  and the renaming and deletion of conversations.

Every component is listed with its status and the reason in `PROJECT.json`.
