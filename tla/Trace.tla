-------------------------------- MODULE Trace --------------------------------
(***************************************************************************)
(* The trace of one interaction.  While the run executes, MES and model    *)
(* calls leave metering facts and, with content capture on, every call and *)
(* local operation leaves a capture in the run's buffer; a commit writes   *)
(* the row, the stage's event, the facts and the drained captures, the     *)
(* last two in transactions of their own that may be lost.  A cancel ends  *)
(* the row while the run goes on to its next stop point, and goes on       *)
(* committing until then.  The trace view loads the carriers one statement *)
(* at a time, after the owner's record, and adds them up into a timeline.  *)
(*                                                                         *)
(* Time is in the milliseconds of the axis, 0 the creation of the record.  *)
(* Parent links, tokens, row buckets, statuses and the rendering of the    *)
(* report are left out.                                                    *)
(***************************************************************************)
EXTENDS Integers, Sequences, FiniteSets, FiniteSetsExt, Folds, Absent

CONSTANTS
    Viewers, TraceOwner,    \* callers of the trace routes, and whose interaction it is
    Observable,             \* the operations the run performs: <<kind, timing_role, skew>>, skew the
                            \* recorded start minus the true one (clock steps, derived starts)
    Environment, DebugTraceEnabled,
    TraceRetention,         \* how long a capture is kept
    PhaseNames,             \* states the run announces on entering them
    MaxOps,                 \* bound: operations of the run; its cancel counts as one
    MaxPhases,              \* bound: stages announced
    MaxTraceFaults,         \* bound: lost writes, unaudited reports and the cancel
    TraceHorizon,           \* bound of the clock
    MaxDuring               \* bound: steps of the run between two statements of one read

ASSUME TraceAssumption ==
    /\ \A what \in Observable : what[1] \in {"mes", "llm", "cache", "duckdb"} /\ what[3] \in Int
    /\ TraceHorizon \in Nat

TimedKinds == {"mes", "llm", "cache", "duckdb"}
LocalKinds == {"cache", "duckdb"}
Carriers == <<"phases", "llm", "mes", "fact", "debug">>

VARIABLES
    clockMs,
    ended,          \* operations that have ended, counted
    recorded,       \* the run's facts and captures since its last commit
    trow,           \* the interaction's row: [end, status], "completed" for what the run ended itself
    running,        \* the run has not ended itself
    canceller,      \* the cancel request: [step, next], next the stage event after the record it loaded
    phaseRows,      \* its phase events: [name, at]
    factRows,       \* metering facts: spans of kind mes and llm
    ledger,         \* the completed fact's duration, or None
    debugRows,      \* captures that reached the table
    viewer,         \* the request for the trace
    tfaults

runvars == <<running, canceller>>

tables == <<trow, phaseRows, factRows, ledger, debugRows>>

trvars == <<clockMs, ended, recorded, tables, runvars, viewer, tfaults>>

\* The environment is the boundary, the switch the preference.
ReportAvailable == Environment \in {"local", "dev"} /\ DebugTraceEnabled

TraceInit ==
    /\ clockMs = 0 /\ ended = 0 /\ recorded = {}
    /\ trow = [end |-> 0, status |-> "running"]
    /\ running = TRUE /\ canceller = [step |-> "idle", next |-> 0]
    /\ phaseRows = <<>> /\ factRows = {} /\ ledger = None /\ debugRows = {}
    /\ viewer = [step |-> "idle"] /\ tfaults = 0

(***************************************************************************)
(* The run.                                                                *)
(***************************************************************************)
\* What is recorded of an operation that ends after dur; equal ones are told apart.
Span(what, dur) ==
    LET span(n) == [kind |-> what[1], role |-> what[2], start |-> clockMs - dur + what[3],
                    dur |-> dur, copy |-> n]
        seen == recorded \cup factRows \cup debugRows IN
    span(CHOOSE n \in 1..MaxOps : span(n) \notin seen /\ \A l \in 1..(n - 1) : span(l) \in seen)

\* The recorder and the buffer are the run's: what ends after the run has closed them is
\* recorded nowhere.
Record(what, dur) ==
    /\ ended < MaxOps /\ running /\ dur <= clockMs
    /\ ended' = ended + 1
    /\ recorded' = recorded \cup {Span(what, dur)}
    /\ UNCHANGED <<clockMs, tables, runvars, tfaults>>

\* A MES call leaves a capture and a metering record.
RecordMesCall(what, dur) == what[1] = "mes" /\ Record(what, dur)

\* So does a model call.
RecordModelCall(what, dur) == what[1] = "llm" /\ Record(what, dur)

\* A cache or sandbox operation leaves a capture only.
TraceLocalOperation(what, dur) == what[1] \in LocalKinds /\ ReportAvailable /\ Record(what, dur)

\* What follows the row and its events: the facts, then the captures, which exist only
\* where content may be captured.  Both writes log their failure and drop what they held.
Drain(keepFacts, keepCaptures) ==
    /\ tfaults' = tfaults + (IF keepFacts THEN 0 ELSE 1) + (IF keepCaptures THEN 0 ELSE 1)
    /\ tfaults' <= MaxTraceFaults
    /\ factRows' = factRows \cup {s \in recorded : keepFacts /\ s.kind \notin LocalKinds}
    /\ debugRows' = debugRows \cup {s \in recorded : keepCaptures /\ ReportAvailable}
    /\ recorded' = {}

Announce(name) ==
    /\ Len(phaseRows) < MaxPhases
    /\ phaseRows' = Append(phaseRows, [name |-> name, at |-> clockMs])

\* A transition writes the whole row, whatever became of it meanwhile.
TracePhase(name, keepFacts, keepCaptures) ==
    /\ running /\ Announce(name)
    /\ trow' = [end |-> clockMs, status |-> "running"]
    /\ Drain(keepFacts, keepCaptures)
    /\ UNCHANGED <<clockMs, ended, ledger, runvars>>

\* Progress repeats the state the run is in and only touches the row: one that is over
\* keeps its end.
TraceProgress(keepFacts, keepCaptures) ==
    /\ running /\ Announce(IF phaseRows = <<>> THEN "parsing" ELSE phaseRows[Len(phaseRows)].name)
    /\ trow' = IF trow.status = "running" THEN [trow EXCEPT !.end = clockMs] ELSE trow
    /\ Drain(keepFacts, keepCaptures)
    /\ UNCHANGED <<clockMs, ended, ledger, runvars>>

\* The run's own terminal announces no stage.
TraceFinish(keepFacts, keepCaptures) ==
    /\ running /\ running' = FALSE
    /\ trow' = [end |-> clockMs, status |-> "completed"]
    /\ ledger' = IF keepFacts THEN clockMs ELSE ledger
    /\ Drain(keepFacts, keepCaptures)
    /\ UNCHANGED <<clockMs, ended, phaseRows, canceller>>

\* One request, which finds the interaction unfinished and numbers its event after it.
LoadToCancel ==
    /\ canceller.step = "idle" /\ trow.status = "running" /\ ended < MaxOps
    /\ ended' = ended + 1 /\ tfaults' = tfaults + 1 /\ tfaults' <= MaxTraceFaults
    /\ canceller' = [step |-> "loaded", next |-> Len(phaseRows) + 1]
    /\ UNCHANGED <<clockMs, recorded, tables, running>>

Without(marks, k) == [i \in 1..(Len(marks) - 1) |-> IF i < k THEN marks[i] ELSE marks[i + 1]]

\* The row ends, even if the run has ended it meanwhile.  The event takes the place of
\* what was logged under its number since; the run's recorder and buffer stay as they are.
TraceCancel(keepFact, overwrites) ==
    /\ canceller.step = "loaded" /\ canceller' = [canceller EXCEPT !.step = "done"]
    /\ trow' = [end |-> clockMs, status |-> "cancelled"]
    /\ overwrites => canceller.next \in DOMAIN phaseRows
    /\ phaseRows' = IF overwrites THEN Without(phaseRows, canceller.next) ELSE phaseRows
    /\ ledger' = IF keepFact THEN clockMs ELSE ledger
    /\ tfaults' = tfaults + (IF keepFact THEN 0 ELSE 1) /\ tfaults' <= MaxTraceFaults
    /\ UNCHANGED <<clockMs, ended, recorded, factRows, debugRows, running>>

TraceTick ==
    /\ clockMs < TraceHorizon
    /\ clockMs' = clockMs + 1
    /\ UNCHANGED <<ended, recorded, tables, runvars, tfaults>>

Expired(c) == c.start + TraceRetention < clockMs

\* At startup.
PurgeExpired ==
    /\ \E c \in debugRows : Expired(c)
    /\ debugRows' = {c \in debugRows : ~Expired(c)}
    /\ UNCHANGED <<clockMs, ended, recorded, trow, phaseRows, factRows, ledger, runvars, tfaults>>

(***************************************************************************)
(* The document.                                                           *)
(***************************************************************************)
Offset(moment) == Max({0, moment})

PayloadBlock(s, got) ==
    IF ~ReportAvailable THEN None ELSE IF s \in got["debug"] THEN "content" ELSE "unavailable"

Bar(s, leaf, got) ==
    [kind |-> s.kind, copy |-> s.copy, leaf |-> leaf, offset |-> Offset(s.start), dur |-> s.dur,
     payload |-> PayloadBlock(s, got)]

MesSpans(got) == {Bar(s, TRUE, got) : s \in got["mes"]}

LlmSpans(got) == {Bar(s, TRUE, got) : s \in got["llm"]}

\* Local operations exist as captures only.
LocalSpans(got) == {Bar(s, s.role = "leaf", got) : s \in {c \in got["debug"] : c.kind \in LocalKinds}}

BuildSpans(got) ==
    MesSpans(got) \cup LlmSpans(got) \cup (IF ReportAvailable THEN LocalSpans(got) ELSE {})

\* Mutant of TotalMs: the measured total, when there is one, is final.
TotalIsLedger(row, got, spans) ==
    IF got["fact"] # None THEN got["fact"] ELSE Max({0, row.end} \cup {s.offset + s.dur : s \in spans})

TotalMs(row, got, spans) ==
    Max({0, row.end} \cup ({got["fact"]} \ {None}) \cup {s.offset + s.dur : s \in spans})

\* Clamped to the axis; empty ones are left out.
SpanIntervals(spans, total) ==
    LET from(s) == Min({total, s.offset})
        to(s) == Min({total, s.offset + s.dur}) IN
    {iv \in {[span |-> s, kind |-> s.kind, from |-> from(s), to |-> to(s), key |-> <<from(s), to(s)>>] :
              s \in spans} : iv.to > iv.from}

\* Tuples are compared entry by entry.
Earlier(a, b) == \E i \in DOMAIN a : a[i] < b[i] /\ \A j \in 1..(i - 1) : a[j] = b[j]

Latest(S) == CHOOSE y \in S : \A z \in S : ~Earlier(y.key, z.key)

\* Items are swept in the order of their keys, equal keys in any order: the latest one
\* comes on top of what the others have added up to.
Sweep(step(_, _), zero, S) == MapThenFoldSet(step, zero, LAMBDA x : x, Latest, S)

Cover(iv, acc) ==
    [total |-> acc.total + Max({0, iv.to - Max({iv.from, acc.end})}), end |-> Max({acc.end, iv.to})]

UnionMs(intervals) == Sweep(Cover, [total |-> 0, end |-> 0], intervals).total

KindRank == [k \in TimedKinds |->
    CASE k = "cache" -> 1 [] k = "duckdb" -> 2 [] k = "llm" -> 3 [] k = "mes" -> 4]

Edge(iv, moment, change) ==
    [key |-> <<moment, KindRank[iv.kind], change>>, moment |-> moment, kind |-> iv.kind,
     change |-> change, of |-> iv]

Edges(bars) == {Edge(iv, iv.from, 1) : iv \in bars} \cup {Edge(iv, iv.to, -1) : iv \in bars}

NoTime == [k \in TimedKinds |-> 0]

\* The stretch before an edge belongs to the kinds then active.
Elapse(e, acc) ==
    LET elapsed == e.moment - acc.previous
        present == {k \in TimedKinds : acc.active[k] > 0} IN
    [previous |-> e.moment,
     active |-> [acc.active EXCEPT ![e.kind] = @ + e.change],
     occupancy |-> acc.occupancy + (IF present # {} THEN elapsed ELSE 0),
     overlap |-> acc.overlap + (IF Cardinality(present) > 1 THEN elapsed ELSE 0),
     exclusive |-> [k \in TimedKinds |-> acc.exclusive[k] + (IF present = {k} THEN elapsed ELSE 0)]]

IntervalOccupancy(spans, total) ==
    Sweep(Elapse, [previous |-> 0, active |-> NoTime, occupancy |-> 0, overlap |-> 0,
                   exclusive |-> NoTime],
          Edges(SpanIntervals(spans, total)))

\* Announcements that repeat the state before them collapse; a window lasts until the
\* next one, the last until the end of the axis.
BuildPhases(rows, total) ==
    LET kept == {i \in DOMAIN rows : i = 1 \/ rows[i].name # rows[i - 1].name}
        next(i) == {j \in kept : j > i}
        end(i) == IF next(i) = {} THEN total ELSE Offset(rows[Min(next(i))].at) IN
    {[offset |-> Offset(rows[i].at), dur |-> Max({0, end(i) - Offset(rows[i].at)}), at |-> i] :
        i \in kept}

\* The ledger of the header: the same calls the bars draw, and what is left of the
\* measured total (without calls, the fact's own segments, which are left out).
DurationBreakdown(got) ==
    LET total == IF got["fact"] = None THEN 0 ELSE got["fact"]
        spent(spans) == MapThenSumSet(LAMBDA s : s.dur, spans) IN
    [total |-> total, mes |-> spent(got["mes"]), llm |-> spent(got["llm"]),
     local |-> Max({0, total - spent(got["mes"]) - spent(got["llm"])})]

\* Only leaves are summed: a parent's time is its children's.
ProcessingSummary(spans, total) ==
    LET leaves == {s \in spans : s.leaf} IN
    [timing |-> IntervalOccupancy(leaves, total),
     unions |-> [k \in TimedKinds |->
                    UnionMs(SpanIntervals({s \in leaves : s.kind = k}, total))]]

AssembleTrace(row, got) ==
    LET spans == BuildSpans(got)
        total == TotalMs(row, got, spans)
        summary == ProcessingSummary(spans, total) IN
    [total |-> total, spans |-> spans, header |-> DurationBreakdown(got),
     timing |-> summary.timing, unions |-> summary.unions,
     phases |-> BuildPhases(got["phases"], total)]

(***************************************************************************)
(* The routes.                                                             *)
(***************************************************************************)
\* A missing interaction and a foreign one are the same answer: nothing is loaded.
OpenTrace(v) ==
    /\ viewer.step = "idle" /\ v = TraceOwner
    /\ viewer' = [step |-> "loading", row |-> trow, got |-> <<>>, during |-> 0]
    /\ UNCHANGED <<clockMs, ended, recorded, tables, runvars, tfaults>>

LoadPhases == phaseRows

LoadLlmSpans == {f \in factRows : f.kind = "llm"}

LoadMesSpans == {f \in factRows : f.kind = "mes"}

LoadInteractionFact == ledger

\* Expired rows are filtered, not deleted: a read never doubles as a write.
LoadPayloads == {d \in debugRows : ~Expired(d)}

Carrier(c) ==
    CASE c = "phases" -> LoadPhases
      [] c = "llm" -> LoadLlmSpans
      [] c = "mes" -> LoadMesSpans
      [] c = "fact" -> LoadInteractionFact
      [] c = "debug" -> LoadPayloads

Loaded(got) == [c \in {Carriers[i] : i \in DOMAIN Carriers} |->
                   got[CHOOSE i \in DOMAIN Carriers : Carriers[i] = c]]

\* One statement per carrier, each on a connection of its own.
LoadCarrier ==
    /\ viewer.step = "loading" /\ Len(viewer.got) < Len(Carriers)
    /\ viewer' = [viewer EXCEPT !.got = Append(@, Carrier(Carriers[Len(@) + 1]))]
    /\ UNCHANGED <<clockMs, ended, recorded, tables, runvars, tfaults>>

\* The report's route exists where a report is available; its audit row lands before the
\* bytes are released, or they are not.
ReleaseTrace(report, audited) ==
    /\ viewer.step = "loading" /\ Len(viewer.got) = Len(Carriers)
    /\ report => ReportAvailable
    /\ audited \/ report
    /\ viewer' = IF audited
                 THEN [step |-> "shown", row |-> viewer.row,
                       doc |-> AssembleTrace(viewer.row, Loaded(viewer.got))]
                 ELSE [step |-> "idle"]
    /\ tfaults' = tfaults + (IF audited THEN 0 ELSE 1) /\ tfaults' <= MaxTraceFaults
    /\ UNCHANGED <<clockMs, ended, recorded, tables, runvars>>

Work ==
    \/ \E what \in Observable, dur \in 0..TraceHorizon :
          RecordMesCall(what, dur) \/ RecordModelCall(what, dur) \/ TraceLocalOperation(what, dur)
    \/ LoadToCancel

Write ==
    \/ \E name \in PhaseNames, keepFacts, keepCaptures \in BOOLEAN :
          TracePhase(name, keepFacts, keepCaptures)
    \/ \E keepFacts, keepCaptures \in BOOLEAN :
          TraceProgress(keepFacts, keepCaptures) \/ TraceFinish(keepFacts, keepCaptures)
    \/ \E keepFact, overwrites \in BOOLEAN : TraceCancel(keepFact, overwrites)
    \/ TraceTick
    \/ PurgeExpired

\* A behaviour is followed up to its first document.  Between two statements of the read
\* only what changes the tables or the clock is of interest to it.
TraceNext ==
    \/ viewer.step = "idle" /\ (Work \/ Write) /\ UNCHANGED viewer
    \/ /\ viewer.step = "loading" /\ viewer.during < MaxDuring
       /\ Len(viewer.got) < Len(Carriers)
       /\ Write
       /\ viewer' = [viewer EXCEPT !.during = @ + 1]
    \/ \E v \in Viewers : OpenTrace(v)
    \/ LoadCarrier
    \/ \E report, audited \in BOOLEAN : ReleaseTrace(report, audited)

TraceSpec == TraceInit /\ [][TraceNext]_trvars

(***************************************************************************)
(* Properties.                                                             *)
(***************************************************************************)
\* What runs in the m-th millisecond, counted bar by bar.
KindsAt(doc, m) == {s.kind : s \in {x \in doc.spans : x.leaf /\ x.offset <= m /\ m < x.offset + x.dur}}

Extent(doc) == 0..(Max({0} \cup {s.offset + s.dur : s \in doc.spans}) - 1)

\* The sums of application/trace.py agree with the bars they sum, whichever facts and
\* captures were lost, late, expired or read while the run went on: occupancy, overlap
\* and each kind's exclusive and own time, found by sorted sweeps over intervals clamped
\* to the axis, count exactly the milliseconds in which some, several, only that and
\* that kind ran; the segments add up to the occupancy and fit the axis.  From the first
\* announcement on each millisecond, to the end of the axis or the last announcement, is
\* one stage bar's.  When the run had ended itself before the read no stage passes the
\* axis; one that a cancelled run still announces may start past it.
TimelineAddsUp ==
    viewer.step = "shown" =>
        LET doc == viewer.doc IN
        /\ doc.timing.occupancy = Cardinality({m \in Extent(doc) : KindsAt(doc, m) # {}})
        /\ doc.timing.overlap = Cardinality({m \in Extent(doc) : Cardinality(KindsAt(doc, m)) > 1})
        /\ \A k \in TimedKinds :
              /\ doc.timing.exclusive[k] = Cardinality({m \in Extent(doc) : KindsAt(doc, m) = {k}})
              /\ doc.unions[k] = Cardinality({m \in Extent(doc) : k \in KindsAt(doc, m)})
        /\ doc.timing.occupancy <= doc.total
        /\ LET t == doc.timing IN
           t.occupancy = t.overlap + t.exclusive["mes"] + t.exclusive["llm"]
                         + t.exclusive["cache"] + t.exclusive["duckdb"]
        /\ LET starts == {p.offset : p \in doc.phases} IN
           \A m \in 0..(Max({doc.total} \cup starts) - 1) :
              Cardinality({p \in doc.phases : p.offset <= m /\ m < p.offset + p.dur})
                = IF \E s \in starts : s <= m THEN 1 ELSE 0
        /\ viewer.row.status = "completed" => \A p \in doc.phases : p.offset + p.dur <= doc.total
=============================================================================
