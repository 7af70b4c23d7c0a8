----------------------------- MODULE ResultCache -----------------------------
(***************************************************************************)
(* The shared cache of owner detail snapshots and the executors that       *)
(* answer from it.  A snapshot holds every row the owner can see in a      *)
(* window of calendar days; the scope of whoever asks is applied when the  *)
(* snapshot is read.  Every store call and every MES call is a step of its *)
(* own; the calendar may turn between any two of them.                     *)
(***************************************************************************)
EXTENDS Integers, FiniteSets, Sequences

CONSTANTS
  Callers, Processes, Home,   \* requests in flight, and the process each runs in
  Depts,
  Questions,        \* the requests this instance makes
  HasProvider,      \* an owner credential is configured
  DayLength,        \* ticks of a day
  Backtrack,        \* backtrack_days
  UnsettledTTL, SettledTTL,
  MaxRun,           \* ticks after which a run is stopped by its session
  EntryKinds,       \* the <<day, dept>> of rows people enter, the day relative to today
  MaxTime           \* the end of the modelled calendar

ResultCacheMode == {"off", "read", "readwrite", "shadow"}
Operation == {"payroll", "progress"}
Window == [from : Int, to : Int]

\* A question's window is relative to the day it is asked.  Everybody but the owner is
\* narrowed to departments; an owner may narrow the question.  An l2 question comes from
\* the analysis source, all others from the recipes of the kernel.
Question == [op : Operation, owner : BOOLEAN, narrowed : BOOLEAN, depts : SUBSET Depts,
             grouped : BOOLEAN, l2 : BOOLEAN, window : Window]

ASSUME CallerAssumption == /\ Home \in [Callers -> Processes]
                           /\ Questions \subseteq Question /\ Questions # {}
                           /\ \A q \in Questions : q.owner \/ q.narrowed
ASSUME ProviderAssumption == HasProvider \in BOOLEAN
ASSUME CalendarAssumption == /\ DayLength \in Nat \ {0} /\ Backtrack \in Nat \ {0}
                             /\ UnsettledTTL \in Nat \ {0} /\ SettledTTL \in Nat \ {0}
                             /\ MaxRun \in Nat \ {0}
ASSUME EntryAssumption == EntryKinds \subseteq {-1, 0} \X Depts
ASSUME CacheBoundAssumption == MaxTime \in Nat

VARIABLES
  clock,
  source,     \* the rows in the MES, numbered in the order they were entered
  store,      \* the snapshots in Redis
  mode,
  caller,     \* what each executor call holds between two awaits
  entries,    \* rows still to be entered
  calls,      \* requests still to come
  faults      \* failures of the store, the MES or the data still to come

cacheVars == <<clock, source, store, mode, caller, entries, calls, faults>>

Row == [n : Nat, day : Int, dept : Depts, at : Nat]

\* What a source returns.  total stands for the footer; truth (the rows that were there)
\* and day (when the MES was read) are history.
Result == [rows : SUBSET Row, total : Nat, complete : BOOLEAN,
           truth : SUBSET Row, day : Nat]
Entry == [op : Operation, window : Window, rows : SUBSET Row, grouped : BOOLEAN,
          ttl : Nat, truth : SUBSET Row, day : Nat]
Hit == [rows : SUBSET Row, window : Window]
Answer == [rows : SUBSET Row, complete : BOOLEAN, cached : BOOLEAN]

NoResult == [rows |-> {}, total |-> 0, complete |-> FALSE, truth |-> {}, day |-> 0]
NoHit == [rows |-> {}, window |-> [from |-> 0, to |-> 0]]
NoAnswer == [rows |-> {}, complete |-> FALSE, cached |-> FALSE]

CallerPc == {"idle", "probe", "lock", "produce", "publish", "serve", "shadow", "discard",
             "evict", "realtime", "writeback", "done", "failed"}
Caller == [pc : CallerPc, q : Question, asked : Nat, left : Nat, locked : BOOLEAN,
           cands : Seq(Window), hit : Hit, res : Result, ans : Answer]

-----------------------------------------------------------------------------
(* The calendar and the windows *)

DayOf(t) == t \div DayLength
Today == DayOf(clock)

prefetch_window(today) == [from |-> today - Backtrack, to |-> today - 1]

Covers(w, v) == w.from <= v.from /\ v.to <= w.to

window_category(w, today) == IF w.to >= today THEN "unsettled"
                             ELSE IF w.from < today - Backtrack THEN "out_of_range"
                             ELSE "settled"

\* The order in which read probes the keys: each must cover the question by itself.
candidates(w, today) ==
  LET p == prefetch_window(today)
      previous == prefetch_window(today - 1)
      shared == (IF Covers(p, w) THEN <<p>> ELSE <<>>)
                \o (IF Covers(p, w) /\ Covers(previous, w) THEN <<previous>> ELSE <<>>)
  IN IF w = p \/ (w = previous /\ Covers(p, w)) THEN shared ELSE Append(shared, w)

-----------------------------------------------------------------------------
(* Rows and results *)

InWindow(r, w) == w.from <= r.day /\ r.day <= w.to
time_sliced_rows(rows, w) == {r \in rows : InWindow(r, w)}
scope_filtered_rows(rows, q) ==
  IF q.narrowed THEN {r \in rows : r.dept \in q.depts} ELSE rows

\* Mutant: a snapshot's other days are served too.
local_view_rows_unsliced(rows, q) == scope_filtered_rows(rows, q)
\* Grouping adds up exactly the rows of the view, and so changes nothing here.
local_view_rows(rows, q) ==
  time_sliced_rows(scope_filtered_rows(rows, q), q.window)

\* The footer stands for totals the rows can be added up to.
footer_reconciles(res) == res.total = Cardinality(res.rows)

Whole(rows) == [rows |-> rows, total |-> Cardinality(rows), complete |-> TRUE,
                truth |-> rows, day |-> Today]

\* A bad answer of the MES: pages are missing and the pager has noticed, or rows are
\* missing and only the footer tells.
BadResults(rows) ==
  {[Whole(rows) EXCEPT !.rows = some, !.complete = FALSE] : some \in SUBSET rows}
  \cup {[Whole(rows) EXCEPT !.rows = some] : some \in SUBSET rows \ {rows}}

-----------------------------------------------------------------------------
(* The store *)

Lookup(op, w) == {e \in store : e.op = op /\ e.window = w}

\* The snapshot's life depends on today when it is written.
entry_ttl(w) == IF window_category(w, Today) = "unsettled" THEN UnsettledTTL ELSE SettledTTL

write_accepts(res, grouped) == ~grouped /\ footer_reconciles(res)

Publish(op, w, res) ==
  store' = (store \ Lookup(op, w))
           \cup {[op |-> op, window |-> w, rows |-> res.rows, grouped |-> FALSE,
                  ttl |-> entry_ttl(w), truth |-> res.truth, day |-> res.day]}

Evicted(op, w) == store \ Lookup(op, w)

Writes == mode \in {"readwrite", "shadow"}

-----------------------------------------------------------------------------
(* An executor call: ResultCacheExecutor.execute_full_step *)

Fault == faults > 0 /\ faults' = faults - 1
NoFault == faults' = faults

Fresh(q) == [pc |-> "idle", q |-> q, asked |-> 0, left |-> MaxRun, locked |-> FALSE,
             cands |-> <<>>, hit |-> NoHit, res |-> NoResult, ans |-> NoAnswer]

Goto(c, pc) == [caller[c] EXCEPT !.pc = pc, !.locked = FALSE, !.cands = <<>>]

Finish(c, rows, complete, cached) ==
  [Fresh(caller[c].q) EXCEPT !.pc = "done", !.asked = caller[c].asked,
     !.ans = [rows |-> rows, complete |-> complete, cached |-> cached]]

\* The caller's own MES call raised, or the call was stopped: no answer.
Failed(c) == [Fresh(caller[c].q) EXCEPT !.pc = "failed", !.asked = caller[c].asked]

Ask(c, q) ==
  LET w == [from |-> Today + q.window.from, to |-> Today + q.window.to]
  IN /\ caller[c].pc = "idle"
     /\ calls > 0 /\ calls' = calls - 1
     /\ caller' = [caller EXCEPT ![c] =
          [Fresh([q EXCEPT !.window = w])
             EXCEPT !.pc = IF mode = "off" THEN "realtime" ELSE "probe",
                    !.asked = clock,
                    !.cands = IF mode = "off" THEN <<>> ELSE candidates(w, Today)]]
     /\ UNCHANGED <<clock, source, store, mode, entries, faults>>

\* Mutant: wait for somebody else to fill the cache.
Missed_poll(c) == [caller[c] EXCEPT !.cands = candidates(caller[c].q.window, Today)]
\* No candidate is left: produce a snapshot under the process's lock, or fall back.
Missed(c) == IF caller[c].locked THEN [caller[c] EXCEPT !.pc = "produce", !.cands = <<>>]
             ELSE IF HasProvider /\ ~caller[c].q.l2 THEN Goto(c, "lock")
             ELSE Goto(c, "realtime")

\* One candidate of read.  A store error and a payload that does not decode or match
\* count as a miss.
Probe(c) ==
  LET w == Head(caller[c].cands)
      found == Lookup(caller[c].q.op, w)
      Next_candidate == IF Tail(caller[c].cands) = <<>> THEN Missed(c)
                        ELSE [caller[c] EXCEPT !.cands = Tail(caller[c].cands)]
  IN /\ caller[c].pc = "probe"
     /\ \/ \E e \in found :
             /\ caller' = [caller EXCEPT ![c] =
                  [Goto(c, "serve") EXCEPT !.hit = [rows |-> e.rows, window |-> w]]]
             /\ NoFault
        \/ found = {} /\ caller' = [caller EXCEPT ![c] = Next_candidate] /\ NoFault
        \/ found # {} /\ caller' = [caller EXCEPT ![c] = Next_candidate] /\ Fault
     /\ UNCHANGED <<clock, source, store, mode, entries, calls>>

\* The lock is a key's, within one process; it is held to the end of _fetch_snapshot.
AcquireLock(c) ==
  /\ caller[c].pc = "lock"
  /\ \A d \in Callers : caller[d].locked =>
       \/ Home[d] # Home[c]
       \/ caller[d].q.op # caller[c].q.op \/ caller[d].q.window # caller[c].q.window
  /\ caller' = [caller EXCEPT ![c] = [@ EXCEPT !.pc = "probe", !.locked = TRUE,
                                        !.cands = candidates(caller[c].q.window, Today)]]
  /\ UNCHANGED <<clock, source, store, mode, entries, calls, faults>>

\* The owner's credential reads the whole window.  It may be refused (identity, role,
\* tenant or authorization changed) or fail; incomplete detail is not used.
Produce(c) ==
  LET rows == time_sliced_rows(source, caller[c].q.window)
  IN /\ caller[c].pc = "produce"
     /\ \/ /\ caller' = [caller EXCEPT ![c] = [@ EXCEPT !.pc = "publish",
                                                        !.res = Whole(rows)]]
           /\ NoFault
        \/ /\ \E res \in BadResults(rows) :
                caller' = [caller EXCEPT ![c] =
                  IF res.complete THEN [@ EXCEPT !.pc = "publish", !.res = res]
                  ELSE Goto(c, "realtime")]
           /\ Fault
     /\ UNCHANGED <<clock, source, store, mode, entries, calls>>

\* The snapshot has arrived: it passes the gate of write and is put, or, in read mode,
\* has its footer checked and is used once.  A failed put may have reached the store.
FinishSnapshot(c) ==
  LET q == caller[c].q
      res == caller[c].res
      used == [Goto(c, "serve") EXCEPT !.res = NoResult,
                                       !.hit = [rows |-> res.rows, window |-> q.window]]
      unused == [Goto(c, "realtime") EXCEPT !.res = NoResult]
      good == write_accepts(res, FALSE)
  IN /\ caller[c].pc = "publish"
     /\ \/ /\ good /\ caller' = [caller EXCEPT ![c] = used] /\ NoFault
           /\ IF Writes THEN Publish(q.op, q.window, res) ELSE UNCHANGED store
        \/ /\ ~good /\ caller' = [caller EXCEPT ![c] = unused] /\ NoFault
           /\ UNCHANGED store
        \/ /\ good /\ Writes /\ caller' = [caller EXCEPT ![c] = unused] /\ Fault
           /\ Publish(q.op, q.window, res) \/ UNCHANGED store
     /\ UNCHANGED <<clock, source, mode, entries, calls>>

\* The view is projected.  Rows that cannot be projected, or that lack what the analysis
\* needs, make the snapshot invalid.
Serve(c) ==
  LET q == caller[c].q
  IN /\ caller[c].pc = "serve"
     /\ \/ /\ caller' = [caller EXCEPT ![c] =
                IF mode = "shadow" THEN Goto(c, "shadow")
                ELSE Finish(c, local_view_rows(caller[c].hit.rows, q), TRUE, TRUE)]
           /\ NoFault
        \/ caller' = [caller EXCEPT ![c] = Goto(c, "evict")] /\ Fault
     /\ UNCHANGED <<clock, source, store, mode, entries, calls>>

\* Mutant: the source's own footer is not checked.
fetch_realtime_trusting(res, q) ==
  IF q.op = "payroll"
  THEN {[res EXCEPT !.rows = local_view_rows(res.rows, q),
                    !.total = Cardinality(local_view_rows(res.rows, q))]}
  ELSE {res}
\* Payroll detail is projected after its source's footer was checked, because the
\* projection recomputes the footer.  Ungrouped progress is returned as it came; grouped
\* progress either way, depending on its dimensions.
fetch_realtime(res, q) ==
  LET projected == [res EXCEPT !.rows = local_view_rows(res.rows, q),
                               !.total = Cardinality(local_view_rows(res.rows, q)),
                               !.complete = res.complete /\ footer_reconciles(res)]
  IN IF q.op = "payroll" THEN {projected}
     ELSE IF q.grouped THEN {projected, res} ELSE {res}

\* What the MES holds for the caller's credential and request.
CallerRows(q) == {r \in source : InWindow(r, q.window) /\ (q.narrowed => r.dept \in q.depts)}

\* Results carry, as history, what the owner would have seen.
Realtime(q, raw) ==
  {[res EXCEPT !.truth = time_sliced_rows(source, q.window)] : res \in fetch_realtime(raw, q)}

\* Shadow mode fetches as if there were no cache and compares the finished results; the
\* analysis compares the rows only and always takes the fetched ones.
Shadow(c) ==
  LET q == caller[c].q
      view == local_view_rows(caller[c].hit.rows, q)
      Compared(res) ==
        IF res.rows = view /\ (q.l2 \/ res.complete)
        THEN Finish(c, view, res.complete, ~q.l2)
        ELSE [Goto(c, "discard") EXCEPT !.res = res]
  IN /\ caller[c].pc = "shadow"
     /\ \/ /\ \E res \in Realtime(q, Whole(CallerRows(q))) :
                caller' = [caller EXCEPT ![c] = Compared(res)]
           /\ NoFault
        \/ /\ \E raw \in BadResults(CallerRows(q)) : \E res \in Realtime(q, raw) :
                caller' = [caller EXCEPT ![c] = Compared(res)]
           /\ Fault
        \/ caller' = [caller EXCEPT ![c] = Failed(c)] /\ Fault
     /\ UNCHANGED <<clock, source, store, mode, entries, calls>>

\* The key that was hit is dropped, whatever it holds by now; a store error leaves it.
Drop(c) ==
  \/ store' = Evicted(caller[c].q.op, caller[c].hit.window) /\ NoFault
  \/ UNCHANGED store /\ Fault

\* discard_cached_result: the realtime result is the answer.
Discard(c) ==
  /\ caller[c].pc = "discard"
  /\ caller' = [caller EXCEPT ![c] =
                  Finish(c, caller[c].res.rows, caller[c].res.complete, FALSE)]
  /\ Drop(c)
  /\ UNCHANGED <<clock, source, mode, entries, calls>>

Evict(c) ==
  /\ caller[c].pc = "evict"
  /\ caller' = [caller EXCEPT ![c] = [Goto(c, "realtime") EXCEPT !.hit = NoHit]]
  /\ Drop(c)
  /\ UNCHANGED <<clock, source, mode, entries, calls>>

FetchRealtime(c) ==
  LET q == caller[c].q
      Received(res) == IF mode = "off" THEN Finish(c, res.rows, res.complete, FALSE)
                       ELSE [Goto(c, "writeback") EXCEPT !.res = res]
  IN /\ caller[c].pc = "realtime"
     /\ \/ /\ \E res \in Realtime(q, Whole(CallerRows(q))) :
                caller' = [caller EXCEPT ![c] = Received(res)]
           /\ NoFault
        \/ /\ \E raw \in BadResults(CallerRows(q)) : \E res \in Realtime(q, raw) :
                caller' = [caller EXCEPT ![c] = Received(res)]
           /\ Fault
        \/ caller' = [caller EXCEPT ![c] = Failed(c)] /\ Fault
     /\ UNCHANGED <<clock, source, store, mode, entries, calls>>

maybe_write(q, res) == Writes /\ res.complete /\ q.owner /\ ~q.grouped /\ ~q.narrowed

\* The answer does not depend on whether the write succeeds.
WriteBack(c) ==
  LET q == caller[c].q
      res == caller[c].res
      allowed == maybe_write(q, res) /\ write_accepts(res, q.grouped)
  IN /\ caller[c].pc = "writeback"
     /\ caller' = [caller EXCEPT ![c] = Finish(c, res.rows, res.complete, FALSE)]
     /\ \/ allowed /\ Publish(q.op, q.window, res) /\ NoFault
        \/ ~allowed /\ UNCHANGED store /\ NoFault
        \/ allowed /\ UNCHANGED store /\ Fault
     /\ UNCHANGED <<clock, source, mode, entries, calls>>

Busy(c) == caller[c].pc \notin {"idle", "done", "failed"}

\* The session stops a call that has used up its time.  A store call under way may still
\* have reached the store.
Stop(c) ==
  LET q == caller[c].q
      res == caller[c].res
  IN /\ Busy(c) /\ caller[c].left = 0
     /\ caller' = [caller EXCEPT ![c] = Failed(c)]
     /\ \/ UNCHANGED store
        \/ /\ caller[c].pc = "publish" /\ Writes /\ write_accepts(res, FALSE)
           /\ Publish(q.op, q.window, res)
        \/ /\ caller[c].pc = "writeback" /\ maybe_write(q, res)
           /\ write_accepts(res, q.grouped) /\ Publish(q.op, q.window, res)
        \/ /\ caller[c].pc \in {"discard", "evict"}
           /\ store' = Evicted(q.op, caller[c].hit.window)
     /\ UNCHANGED <<clock, source, mode, entries, calls, faults>>

-----------------------------------------------------------------------------
(* The MES *)

\* A row is entered for today, or belatedly for yesterday.
Record(kind) ==
  /\ entries > 0 /\ entries' = entries - 1
  /\ source' = source \cup {[n |-> Cardinality(source) + 1, day |-> Today + kind[1],
                             dept |-> kind[2], at |-> clock]}
  /\ UNCHANGED <<clock, store, mode, caller, calls, faults>>

-----------------------------------------------------------------------------
(* A tick: what it takes from every lifetime *)

\* No call is older than MaxRun.
CallersMayWait == \A c \in Callers : Busy(c) => caller[c].left > 0

WaitedCallers ==
  [c \in Callers |-> IF Busy(c) THEN [caller[c] EXCEPT !.left = @ - 1] ELSE caller[c]]

\* Redis drops what has no time left.
AgedStore == {[e EXCEPT !.ttl = @ - 1] : e \in {f \in store : f.ttl > 1}}

-----------------------------------------------------------------------------
CacheInit ==
  /\ clock = 0 /\ source = {} /\ store = {}
  /\ caller = [c \in Callers |-> Fresh(CHOOSE q \in Questions : TRUE)]

CallerStep(c) ==
  \/ Probe(c) \/ AcquireLock(c) \/ Produce(c) \/ FinishSnapshot(c) \/ Serve(c)
  \/ Shadow(c) \/ Discard(c) \/ Evict(c) \/ FetchRealtime(c) \/ WriteBack(c) \/ Stop(c)

CacheNext ==
  \/ \E c \in Callers : CallerStep(c) \/ \E q \in Questions : Ask(c, q)
  \/ \E kind \in EntryKinds : Record(kind)

=============================================================================
