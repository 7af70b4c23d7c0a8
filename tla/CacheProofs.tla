----------------------------- MODULE CacheProofs -----------------------------
(***************************************************************************)
(* Proofs about the shared cache and its prefetch: types, whole snapshots, *)
(* one producer per day, markers only for published days, recent answers.  *)
(***************************************************************************)
EXTENDS Prefetch, FiniteSetTheorems, TLAPS

-----------------------------------------------------------------------------
(* The inductive invariant, one part per actor *)

\* A result whose footer adds up is everything there was.
Trusted(res) == footer_reconciles(res) => res.rows = res.truth

GoodCaller(r) ==
  /\ r \in Caller
  /\ r.pc = "probe" => r.cands # <<>>
  /\ r.pc = "publish" => Trusted(r.res)
  /\ r.pc = "writeback" /\ r.res.complete /\ ~r.q.grouped /\ ~r.q.narrowed => Trusted(r.res)

GoodEntry(e) == e \in Entry /\ e.rows = e.truth /\ ~e.grouped

GoodWorker(r) ==
  /\ r \in Worker
  /\ r.pc \in {"lease", "marker"} => r.done = 0
  /\ r.pc \in {"fetch", "put"} => r.done <= 1
  /\ r.pc = "put" => Trusted(r.res)
  /\ r.pc \in {"lease", "marker", "fetch", "put", "mark", "release"} =>
       r.left <= PrefetchTimeout

SourceOK == clock \in Nat /\ source \subseteq Row /\ IsFiniteSet(source)
LoadOK == mode \in ResultCacheMode /\ entries \in Nat /\ calls \in Nat /\ faults \in Nat
CallersOK == DOMAIN caller = Callers /\ caller = [c \in Callers |-> caller[c]]
             /\ \A c \in Callers : GoodCaller(caller[c])
StoreOK == \A e \in store : GoodEntry(e)
WorkersOK == worker = [w \in Workers |-> worker[w]] /\ \A w \in Workers : GoodWorker(worker[w])
RedisOK == leases \subseteq Lease /\ markers \subseteq Marker /\ published \subseteq Operation \X Nat

Inv == SourceOK /\ LoadOK /\ CallersOK /\ StoreOK /\ WorkersOK /\ RedisOK

-----------------------------------------------------------------------------
(* The calendar and the windows *)

\* Days are counted from zero.
LEMMA DayType == ASSUME NEW t \in Nat PROVE DayOf(t) \in Nat
  BY CalendarAssumption DEF DayOf

\* A prefetch window is a window.
LEMMA PrefetchWindowType == ASSUME NEW t \in Int PROVE prefetch_window(t) \in Window
  BY CalendarAssumption DEF prefetch_window, Window

\* There is always a window to look up.
LEMMA CandidatesType ==
  ASSUME NEW w \in Window, NEW t \in Int
  PROVE candidates(w, t) \in Seq(Window) /\ candidates(w, t) # <<>>
<1> DEFINE p == prefetch_window(t)
           previous == prefetch_window(t - 1)
           A == IF Covers(p, w) THEN <<p>> ELSE <<>>
           B == IF Covers(p, w) /\ Covers(previous, w) THEN <<previous>> ELSE <<>>
<1>1. p \in Window /\ previous \in Window
  BY PrefetchWindowType
<1>2. A \in Seq(Window) /\ B \in Seq(Window)
  BY <1>1
<1>3. A \o B \in Seq(Window) /\ Append(A \o B, w) \in Seq(Window)
      /\ Append(A \o B, w) # <<>>
  BY <1>2
<1>4. w = p \/ (w = previous /\ Covers(p, w)) => A \o B # <<>>
  <2>1. ASSUME w = p \/ (w = previous /\ Covers(p, w)) PROVE A = <<p>>
    <3>1. Covers(w, w)
      BY DEF Covers, Window
    <3> QED BY <2>1, <3>1
  <2> QED BY <2>1, <1>1, <1>2
<1> QED BY <1>3, <1>4 DEF candidates

\* A window is settled or not when it is written; its snapshot has a life either way.
LEMMA TTLType == ASSUME NEW w \in Window PROVE entry_ttl(w) \in Nat
  BY CalendarAssumption DEF entry_ttl

-----------------------------------------------------------------------------
(* Rows and results *)

\* What the owner's credential returns, whole or bad: it has its type, and a footer that
\* adds up vouches for the rows.
LEMMA OwnerResult ==
  ASSUME SourceOK, NEW rows, rows \subseteq source, NEW res \in BadResults(rows) \cup {Whole(rows)}
  PROVE /\ res \in Result /\ res.truth = rows /\ res.rows \subseteq rows
        /\ footer_reconciles(res) => res.rows = rows
<1>1. IsFiniteSet(rows) /\ Cardinality(rows) \in Nat
  BY FS_Subset, FS_CardinalityType DEF SourceOK
<1>2. Today \in Nat
  BY DayType DEF Today, SourceOK
<1>3. rows \subseteq Row
  BY DEF SourceOK
<1>4. Whole(rows) \in Result /\ Whole(rows).truth = rows /\ Whole(rows).rows = rows
      /\ Whole(rows).total = Cardinality(rows)
  BY <1>1, <1>2, <1>3 DEF Whole, Result
<1>5. res \in Result /\ res.truth = rows /\ res.rows \subseteq rows
      /\ res.total = Cardinality(rows)
  <2>1. CASE res = Whole(rows)
    BY <2>1, <1>4
  <2>2. CASE \E some \in SUBSET rows : res = [Whole(rows) EXCEPT !.rows = some, !.complete = FALSE]
    BY <2>2, <1>3, <1>4 DEF Result
  <2>3. CASE \E some \in SUBSET rows : res = [Whole(rows) EXCEPT !.rows = some]
    BY <2>3, <1>3, <1>4 DEF Result
  <2> QED BY <2>1, <2>2, <2>3 DEF BadResults
<1>6. ASSUME footer_reconciles(res) PROVE res.rows = rows
  BY <1>6, <1>5, <1>1, FS_Subset DEF footer_reconciles
<1> QED BY <1>5, <1>6

\* What a caller's own request returns: it has its type, and unless it is grouped or
\* narrowed a complete result whose footer adds up is what the owner sees.
LEMMA CallerResult ==
  ASSUME SourceOK, NEW q \in Question,
         NEW raw \in BadResults(CallerRows(q)) \cup {Whole(CallerRows(q))},
         NEW res \in Realtime(q, raw)
  PROVE /\ res \in Result
        /\ res.complete /\ ~q.grouped /\ ~q.narrowed => Trusted(res)
<1> DEFINE mine == CallerRows(q)
           all == time_sliced_rows(source, q.window)
<1>1. mine \subseteq source /\ all \subseteq source
  BY DEF CallerRows, time_sliced_rows
<1>2. /\ raw \in Result /\ raw.rows \subseteq mine
      /\ footer_reconciles(raw) => raw.rows = mine
  BY <1>1, OwnerResult
<1>3. ~q.narrowed => mine = all
  BY DEF CallerRows, time_sliced_rows
<1>4. PICK got \in fetch_realtime(raw, q) : res = [got EXCEPT !.truth = all]
  BY DEF Realtime
<1> DEFINE view == local_view_rows(raw.rows, q)
<1>5. view \subseteq raw.rows /\ (~q.narrowed /\ raw.rows = mine => view = all)
  BY <1>3 DEF local_view_rows, scope_filtered_rows, time_sliced_rows
<1>6. IsFiniteSet(view) /\ Cardinality(view) \in Nat
  BY <1>1, <1>2, <1>5, FS_Subset, FS_CardinalityType DEF SourceOK
<1>7. all \subseteq Row /\ view \subseteq Row
  BY <1>1, <1>2, <1>5 DEF SourceOK
<1> DEFINE projected == [raw EXCEPT !.rows = view, !.total = Cardinality(view),
                                    !.complete = raw.complete /\ footer_reconciles(raw)]
<1>8. CASE got = projected
  <2>1. footer_reconciles(raw) \in BOOLEAN
    BY DEF footer_reconciles
  <2>2. /\ res \in Result /\ res.rows = view /\ res.truth = all
        /\ res.complete => footer_reconciles(raw)
    BY <1>4, <1>8, <1>2, <1>6, <1>7, <2>1 DEF Result
  <2> QED BY <2>2, <1>2, <1>5 DEF Trusted
<1>9. CASE got = raw
  <2>1. /\ res \in Result /\ res.rows = raw.rows /\ res.truth = all
        /\ res.total = raw.total
    BY <1>4, <1>9, <1>2, <1>7 DEF Result
  <2> QED BY <2>1, <1>2, <1>3 DEF Trusted, footer_reconciles
<1>10. got = projected \/ got = raw
  BY DEF fetch_realtime
<1> QED BY <1>8, <1>9, <1>10

-----------------------------------------------------------------------------
(* Records of the actors *)

\* What a call begins, goes on and ends with.
LEMMA CallerRecords ==
  ASSUME CallersOK, NEW c \in Callers
  PROVE /\ caller[c] \in Caller /\ GoodCaller(caller[c])
        /\ \A q \in Question : Fresh(q) \in Caller /\ Fresh(q).pc = "idle" /\ Fresh(q).q = q
        /\ \A pc \in CallerPc \ {"probe", "publish", "writeback"} : GoodCaller(Goto(c, pc))
        /\ \A rows \in SUBSET Row : \A complete, cached \in BOOLEAN :
             GoodCaller(Finish(c, rows, complete, cached))
        /\ GoodCaller(Failed(c))
<1>1. caller[c] \in Caller /\ GoodCaller(caller[c])
  BY DEF CallersOK, GoodCaller
<1>2. NoHit \in Hit /\ NoResult \in Result /\ NoAnswer \in Answer /\ <<>> \in Seq(Window)
  BY DEF NoHit, NoResult, NoAnswer, Hit, Result, Answer, Window
<1>3. ASSUME NEW q \in Question
      PROVE Fresh(q) \in Caller /\ Fresh(q).pc = "idle" /\ Fresh(q).q = q
  BY <1>2, CalendarAssumption DEF Fresh, Caller, CallerPc
<1>4. ASSUME NEW pc \in CallerPc \ {"probe", "publish", "writeback"} PROVE GoodCaller(Goto(c, pc))
  <2>1. Goto(c, pc) \in Caller /\ Goto(c, pc).pc = pc
    BY <1>1, <1>2 DEF Goto, Caller
  <2> QED BY <2>1 DEF GoodCaller
<1>5. caller[c].q \in Question /\ caller[c].asked \in Nat
  BY <1>1 DEF Caller
<1>6. Fresh(caller[c].q) \in Caller
  BY <1>3, <1>5
<1>7. ASSUME NEW rows \in SUBSET Row, NEW complete \in BOOLEAN, NEW cached \in BOOLEAN
      PROVE GoodCaller(Finish(c, rows, complete, cached))
  <2>1. [rows |-> rows, complete |-> complete, cached |-> cached] \in Answer
    BY DEF Answer
  <2>2. Finish(c, rows, complete, cached) \in Caller /\ Finish(c, rows, complete, cached).pc = "done"
    BY <1>5, <1>6, <2>1 DEF Finish, Caller, CallerPc
  <2> QED BY <2>2 DEF GoodCaller
<1>8. GoodCaller(Failed(c))
  <2>1. Failed(c) \in Caller /\ Failed(c).pc = "failed"
    BY <1>5, <1>6 DEF Failed, Caller, CallerPc
  <2> QED BY <2>1 DEF GoodCaller
<1> QED BY <1>1, <1>3, <1>4, <1>7, <1>8

\* Writing one call's record keeps the others'.
LEMMA CallerUpdate ==
  ASSUME CallersOK, NEW c \in Callers, NEW r, GoodCaller(r),
         caller' = [caller EXCEPT ![c] = r]
  PROVE CallersOK'
  BY DEF CallersOK, GoodCaller, Trusted, footer_reconciles

\* A trusted result makes a good snapshot.
LEMMA PublishGood ==
  ASSUME SourceOK, StoreOK, NEW op \in Operation, NEW w \in Window, NEW res \in Result,
         res.rows = res.truth, Publish(op, w, res)
  PROVE StoreOK'
<1> DEFINE e == [op |-> op, window |-> w, rows |-> res.rows, grouped |-> FALSE,
                 ttl |-> entry_ttl(w), truth |-> res.truth, day |-> res.day]
<1>1. res.rows \subseteq Row /\ res.truth \subseteq Row /\ res.day \in Nat
  BY DEF Result
<1>2. GoodEntry(e)
  BY <1>1, TTLType DEF GoodEntry, Entry
<1>3. store' = (store \ Lookup(op, w)) \cup {e}
  BY DEF Publish
<1> QED BY <1>2, <1>3 DEF StoreOK, GoodEntry

\* Dropping snapshots keeps the rest good.
LEMMA FewerGood == ASSUME StoreOK, store' \subseteq store PROVE StoreOK'
  BY DEF StoreOK, GoodEntry

-----------------------------------------------------------------------------
(* Every step of a call preserves the invariant *)

\* A question keeps its type when its window becomes a calendar window.
LEMMA AskGood ==
  ASSUME Inv, NEW c \in Callers, NEW q \in Questions, Ask(c, q)
  PROVE CallersOK' /\ LoadOK'
<1> DEFINE w == [from |-> Today + q.window.from, to |-> Today + q.window.to]
           asked == [q EXCEPT !.window = w]
           pc == IF mode = "off" THEN "realtime" ELSE "probe"
           cands == IF mode = "off" THEN <<>> ELSE candidates(w, Today)
           r == [Fresh(asked) EXCEPT !.pc = pc, !.asked = clock, !.cands = cands]
<1>1. Today \in Nat /\ q \in Question /\ clock \in Nat /\ CallersOK
  BY DayType, CallerAssumption DEF Today, Inv, SourceOK
<1>2. q.window.from \in Int /\ q.window.to \in Int
  BY <1>1 DEF Question, Window
<1>3. w \in Window
  BY <1>1, <1>2 DEF Window
<1>4. asked \in Question
  BY <1>1, <1>3 DEF Question
<1>5. Fresh(asked) \in Caller
  BY <1>1, <1>4, CallerRecords
<1>6. cands \in Seq(Window) /\ (pc = "probe" => cands # <<>>)
  BY <1>1, <1>3, CandidatesType
<1>7. r \in Caller /\ r.pc = pc /\ r.cands = cands
  BY <1>1, <1>5, <1>6 DEF Caller, CallerPc
<1>8. GoodCaller(r)
  BY <1>6, <1>7 DEF GoodCaller
<1>9. caller' = [caller EXCEPT ![c] = r]
  BY DEF Ask
<1>10. LoadOK'
  BY DEF Ask, Inv, LoadOK
<1> HIDE DEF r
<1> QED BY <1>1, <1>8, <1>9, <1>10, CallerUpdate

\* Looking up a key ends in a hit, in the next key, or where a miss leads.
LEMMA ProbeGood ==
  ASSUME Inv, NEW c \in Callers, Probe(c)
  PROVE CallersOK'
<1> DEFINE cands == caller[c].cands
           w == Head(cands)
           next == [caller[c] EXCEPT !.cands = Tail(cands)]
<1>1. CallersOK /\ caller[c] \in Caller /\ cands # <<>>
  BY CallerRecords DEF Inv, Probe, GoodCaller
<1>2. cands \in Seq(Window)
  BY <1>1 DEF Caller
<1>3. w \in Window /\ Tail(cands) \in Seq(Window)
  BY <1>1, <1>2
<1>4. GoodCaller(Missed(c))
  <2>1. GoodCaller(Goto(c, "lock")) /\ GoodCaller(Goto(c, "realtime"))
    BY <1>1, CallerRecords DEF CallerPc
  <2>2. GoodCaller([caller[c] EXCEPT !.pc = "produce", !.cands = <<>>])
    <3> DEFINE r == [caller[c] EXCEPT !.pc = "produce", !.cands = <<>>]
    <3>1. <<>> \in Seq(Window)
      OBVIOUS
    <3>2. r \in Caller /\ r.pc = "produce"
      BY <1>1, <3>1 DEF Caller, CallerPc
    <3> QED BY <3>2 DEF GoodCaller
  <2> QED BY <2>1, <2>2 DEF Missed
<1>5. Tail(cands) # <<>> => GoodCaller(next)
  <2>1. next \in Caller /\ next.pc = "probe" /\ next.cands = Tail(cands)
    BY <1>1, <1>3 DEF Caller, Probe
  <2> QED BY <2>1 DEF GoodCaller
<1>6. \A e \in store : GoodCaller([Goto(c, "serve") EXCEPT !.hit = [rows |-> e.rows, window |-> w]])
  <2> TAKE e \in store
  <2> DEFINE r == [Goto(c, "serve") EXCEPT !.hit = [rows |-> e.rows, window |-> w]]
  <2>1. [rows |-> e.rows, window |-> w] \in Hit
    BY <1>3 DEF Inv, StoreOK, GoodEntry, Entry, Hit
  <2>2. Goto(c, "serve") \in Caller /\ Goto(c, "serve").pc = "serve"
    BY <1>1, CallerRecords DEF CallerPc, GoodCaller, Goto, Caller
  <2>3. r \in Caller /\ r.pc = "serve"
    BY <2>1, <2>2 DEF Caller
  <2> QED BY <2>3 DEF GoodCaller
<1>7. \E r : GoodCaller(r) /\ caller' = [caller EXCEPT ![c] = r]
  <2> HIDE DEF next
  <2> QED BY <1>4, <1>5, <1>6 DEF Probe, Lookup, next
<1> QED BY <1>1, <1>7, CallerUpdate

\* Under the lock the keys are looked up again.
LEMMA AcquireLockGood ==
  ASSUME Inv, NEW c \in Callers, AcquireLock(c)
  PROVE CallersOK'
<1> DEFINE w == caller[c].q.window
           r == [caller[c] EXCEPT !.pc = "probe", !.locked = TRUE, !.cands = candidates(w, Today)]
<1>1. CallersOK /\ caller[c] \in Caller /\ Today \in Nat
  BY CallerRecords, DayType DEF Inv, SourceOK, Today
<1>2. w \in Window
  BY <1>1 DEF Caller, Question
<1>3. candidates(w, Today) \in Seq(Window) /\ candidates(w, Today) # <<>>
  BY <1>1, <1>2, CandidatesType
<1>4. r \in Caller /\ r.pc = "probe" /\ r.cands = candidates(w, Today)
  BY <1>1, <1>3 DEF Caller, CallerPc
<1>5. GoodCaller(r)
  BY <1>3, <1>4 DEF GoodCaller
<1>6. caller' = [caller EXCEPT ![c] = r]
  BY DEF AcquireLock
<1> HIDE DEF r
<1> QED BY <1>1, <1>5, <1>6, CallerUpdate

\* A snapshot that goes on to be published is trusted.
LEMMA ProduceGood ==
  ASSUME Inv, NEW c \in Callers, Produce(c)
  PROVE CallersOK'
<1> DEFINE rows == time_sliced_rows(source, caller[c].q.window)
           got(res) == [caller[c] EXCEPT !.pc = "publish", !.res = res]
<1>1. CallersOK /\ caller[c] \in Caller /\ SourceOK
  BY CallerRecords DEF Inv
<1>2. rows \subseteq source
  BY DEF time_sliced_rows
<1>3. \A res \in BadResults(rows) \cup {Whole(rows)} : GoodCaller(got(res))
  <2> TAKE res \in BadResults(rows) \cup {Whole(rows)}
  <2>1. res \in Result /\ Trusted(res)
    BY <1>1, <1>2, OwnerResult DEF Trusted
  <2>2. got(res) \in Caller /\ got(res).pc = "publish" /\ got(res).res = res
    BY <1>1, <2>1 DEF Caller, CallerPc
  <2> QED BY <2>1, <2>2 DEF GoodCaller
<1>4. GoodCaller(Goto(c, "realtime"))
  BY <1>1, CallerRecords DEF CallerPc
<1>5. \E r : GoodCaller(r) /\ caller' = [caller EXCEPT ![c] = r]
  <2> SUFFICES \E res \in BadResults(rows) \cup {Whole(rows)} :
                 \/ caller' = [caller EXCEPT ![c] = got(res)]
                 \/ caller' = [caller EXCEPT ![c] = Goto(c, "realtime")]
    BY <1>3, <1>4
  <2> QED BY DEF Produce
<1> QED BY <1>1, <1>5, CallerUpdate

\* A published snapshot is good, and what is used of it has its type.
LEMMA FinishSnapshotGood ==
  ASSUME Inv, NEW c \in Callers, FinishSnapshot(c)
  PROVE CallersOK' /\ StoreOK'
<1> DEFINE q == caller[c].q
           res == caller[c].res
           hit == [rows |-> res.rows, window |-> q.window]
           used == [Goto(c, "serve") EXCEPT !.res = NoResult, !.hit = hit]
           unused == [Goto(c, "realtime") EXCEPT !.res = NoResult]
<1>1. CallersOK /\ caller[c] \in Caller /\ GoodCaller(caller[c]) /\ SourceOK /\ StoreOK
  BY CallerRecords DEF Inv
<1>2. res \in Result /\ q.op \in Operation /\ q.window \in Window
  BY <1>1 DEF Caller, Question
<1>3. Trusted(res)
  BY <1>1 DEF GoodCaller, FinishSnapshot
<1>4. hit \in Hit /\ NoResult \in Result
  BY <1>2 DEF Hit, Result, NoResult
<1>5. /\ Goto(c, "serve") \in Caller /\ Goto(c, "serve").pc = "serve"
      /\ Goto(c, "realtime") \in Caller /\ Goto(c, "realtime").pc = "realtime"
  BY <1>1, CallerRecords DEF CallerPc, GoodCaller, Goto, Caller
<1>6. GoodCaller(used)
  <2>1. used \in Caller /\ used.pc = "serve"
    BY <1>4, <1>5 DEF Caller
  <2> QED BY <2>1 DEF GoodCaller
<1>7. GoodCaller(unused)
  <2>1. unused \in Caller /\ unused.pc = "realtime"
    BY <1>4, <1>5 DEF Caller
  <2> QED BY <2>1 DEF GoodCaller
<1>8. caller' = [caller EXCEPT ![c] = used] \/ caller' = [caller EXCEPT ![c] = unused]
  BY DEF FinishSnapshot
<1>9. \/ store' = store
      \/ footer_reconciles(res) /\ Publish(q.op, q.window, res)
  BY DEF FinishSnapshot, write_accepts
<1>10. StoreOK'
  <2>1. CASE store' = store
    BY <2>1, <1>1, FewerGood
  <2>2. CASE footer_reconciles(res) /\ Publish(q.op, q.window, res)
    BY <2>2, <1>1, <1>2, <1>3, PublishGood DEF Trusted
  <2> QED BY <1>9, <2>1, <2>2
<1> HIDE DEF used, unused
<1> QED BY <1>1, <1>6, <1>7, <1>8, <1>10, CallerUpdate

\* A view has its type.
LEMMA ServeGood ==
  ASSUME Inv, NEW c \in Callers, Serve(c)
  PROVE CallersOK'
<1>1. CallersOK /\ caller[c] \in Caller
  BY CallerRecords DEF Inv
<1>2. local_view_rows(caller[c].hit.rows, caller[c].q) \in SUBSET Row
  BY <1>1 DEF Caller, Hit, local_view_rows, scope_filtered_rows, time_sliced_rows
<1>3. /\ GoodCaller(Goto(c, "shadow")) /\ GoodCaller(Goto(c, "evict"))
      /\ GoodCaller(Finish(c, local_view_rows(caller[c].hit.rows, caller[c].q), TRUE, TRUE))
  BY <1>1, <1>2, CallerRecords DEF CallerPc
<1>4. \E r : GoodCaller(r) /\ caller' = [caller EXCEPT ![c] = r]
  BY <1>3 DEF Serve
<1> QED BY <1>1, <1>4, CallerUpdate

\* What shadow mode and the fallback receive from the caller's own request.
Received(c) ==
  UNION {Realtime(caller[c].q, raw) : raw \in BadResults(CallerRows(caller[c].q))
                                             \cup {Whole(CallerRows(caller[c].q))}}

\* It has its type, and is trusted where it may be written back.
LEMMA ReceivedGood ==
  ASSUME Inv, NEW c \in Callers, NEW res \in Received(c)
  PROVE /\ res \in Result
        /\ res.complete /\ ~caller[c].q.grouped /\ ~caller[c].q.narrowed => Trusted(res)
<1>1. caller[c].q \in Question /\ SourceOK
  BY CallerRecords DEF Inv, Caller
<1> QED BY <1>1, CallerResult DEF Received

\* Comparing leaves a view or the fetched result.
LEMMA ShadowGood ==
  ASSUME Inv, NEW c \in Callers, Shadow(c)
  PROVE CallersOK'
<1> DEFINE q == caller[c].q
           view == local_view_rows(caller[c].hit.rows, q)
           kept(res) == [Goto(c, "discard") EXCEPT !.res = res]
<1>1. CallersOK /\ caller[c] \in Caller
  BY CallerRecords DEF Inv
<1>2. view \in SUBSET Row /\ q.l2 \in BOOLEAN
  BY <1>1 DEF Caller, Question, Hit, local_view_rows, scope_filtered_rows, time_sliced_rows
<1>3. Goto(c, "discard") \in Caller /\ Goto(c, "discard").pc = "discard"
  BY <1>1, CallerRecords DEF CallerPc, GoodCaller, Goto, Caller
<1>4. \A res \in Received(c) : GoodCaller(kept(res)) /\ GoodCaller(Finish(c, view, res.complete, ~q.l2))
  <2> TAKE res \in Received(c)
  <2>1. res \in Result /\ res.complete \in BOOLEAN
    BY ReceivedGood DEF Result
  <2>2. kept(res) \in Caller /\ kept(res).pc = "discard"
    BY <1>3, <2>1 DEF Caller
  <2>3. GoodCaller(kept(res))
    BY <2>2 DEF GoodCaller
  <2> QED BY <1>1, <1>2, <2>1, <2>3, CallerRecords
<1>5. GoodCaller(Failed(c))
  BY <1>1, CallerRecords
<1>6. \/ caller' = [caller EXCEPT ![c] = Failed(c)]
      \/ \E res \in Received(c) :
           \/ caller' = [caller EXCEPT ![c] = kept(res)]
           \/ caller' = [caller EXCEPT ![c] = Finish(c, view, res.complete, ~q.l2)]
  BY DEF Shadow, Received
<1> QED BY <1>1, <1>4, <1>5, <1>6, CallerUpdate

\* Dropping a key ends the comparison or leads to the fallback.
LEMMA DropGood ==
  ASSUME Inv, NEW c \in Callers, Discard(c) \/ Evict(c)
  PROVE CallersOK' /\ StoreOK'
<1>1. CallersOK /\ caller[c] \in Caller /\ StoreOK
  BY CallerRecords DEF Inv
<1>2. store' \subseteq store
  BY DEF Discard, Evict, Drop, Evicted
<1>3. GoodCaller(Finish(c, caller[c].res.rows, caller[c].res.complete, FALSE))
  <2>1. caller[c].res.rows \in SUBSET Row /\ caller[c].res.complete \in BOOLEAN
    BY <1>1 DEF Caller, Result
  <2> QED BY <1>1, <2>1, CallerRecords
<1>4. GoodCaller([Goto(c, "realtime") EXCEPT !.hit = NoHit])
  <2> DEFINE r == [Goto(c, "realtime") EXCEPT !.hit = NoHit]
  <2>1. NoHit \in Hit
    BY DEF NoHit, Hit, Window
  <2>2. Goto(c, "realtime") \in Caller /\ Goto(c, "realtime").pc = "realtime"
    BY <1>1, CallerRecords DEF CallerPc, GoodCaller, Goto, Caller
  <2>3. r \in Caller /\ r.pc = "realtime"
    BY <2>1, <2>2 DEF Caller
  <2> QED BY <2>3 DEF GoodCaller
<1>5. \E r : GoodCaller(r) /\ caller' = [caller EXCEPT ![c] = r]
  BY <1>3, <1>4 DEF Discard, Evict
<1> QED BY <1>1, <1>2, <1>5, CallerUpdate, FewerGood

\* What the fallback holds until it may be written back is trusted.
LEMMA FetchRealtimeGood ==
  ASSUME Inv, NEW c \in Callers, FetchRealtime(c)
  PROVE CallersOK'
<1> DEFINE kept(res) == [Goto(c, "writeback") EXCEPT !.res = res]
<1>1. CallersOK /\ caller[c] \in Caller
  BY CallerRecords DEF Inv
<1>2. <<>> \in Seq(Window)
  OBVIOUS
<1>3. /\ Goto(c, "writeback") \in Caller /\ Goto(c, "writeback").pc = "writeback"
      /\ Goto(c, "writeback").q = caller[c].q
  BY <1>1, <1>2 DEF CallerPc, Goto, Caller
<1>4. \A res \in Received(c) : GoodCaller(kept(res))
                               /\ GoodCaller(Finish(c, res.rows, res.complete, FALSE))
  <2> TAKE res \in Received(c)
  <2>1. /\ res \in Result /\ res.rows \in SUBSET Row /\ res.complete \in BOOLEAN
        /\ res.complete /\ ~caller[c].q.grouped /\ ~caller[c].q.narrowed => Trusted(res)
    BY ReceivedGood DEF Result
  <2>2. /\ kept(res) \in Caller /\ kept(res).pc = "writeback" /\ kept(res).res = res
        /\ kept(res).q = caller[c].q
    BY <1>3, <2>1 DEF Caller
  <2>3. GoodCaller(kept(res))
    BY <2>1, <2>2 DEF GoodCaller
  <2> QED BY <1>1, <2>1, <2>3, CallerRecords
<1>5. GoodCaller(Failed(c))
  BY <1>1, CallerRecords
<1>6. \/ caller' = [caller EXCEPT ![c] = Failed(c)]
      \/ \E res \in Received(c) :
           \/ caller' = [caller EXCEPT ![c] = kept(res)]
           \/ caller' = [caller EXCEPT ![c] = Finish(c, res.rows, res.complete, FALSE)]
  BY DEF FetchRealtime, Received
<1> QED BY <1>1, <1>4, <1>5, <1>6, CallerUpdate

\* Only whole owner detail is written back.
LEMMA WriteBackGood ==
  ASSUME Inv, NEW c \in Callers, caller[c].pc = "writeback",
         maybe_write(caller[c].q, caller[c].res),
         write_accepts(caller[c].res, caller[c].q.grouped),
         Publish(caller[c].q.op, caller[c].q.window, caller[c].res)
  PROVE StoreOK'
<1>1. /\ caller[c] \in Caller /\ GoodCaller(caller[c]) /\ SourceOK /\ StoreOK
  BY CallerRecords DEF Inv
<1>2. /\ caller[c].q.op \in Operation /\ caller[c].q.window \in Window
      /\ caller[c].res \in Result
  BY <1>1 DEF Caller, Question
<1>3. caller[c].res.rows = caller[c].res.truth
  BY <1>1 DEF GoodCaller, Trusted, maybe_write, write_accepts
<1> QED BY <1>1, <1>2, <1>3, PublishGood

\* The end of a call, written back or stopped, leaves good snapshots.
LEMMA EndGood ==
  ASSUME Inv, NEW c \in Callers, WriteBack(c) \/ Stop(c)
  PROVE CallersOK' /\ StoreOK'
<1> DEFINE q == caller[c].q
           res == caller[c].res
<1>1. CallersOK /\ caller[c] \in Caller /\ GoodCaller(caller[c]) /\ SourceOK /\ StoreOK
  BY CallerRecords DEF Inv
<1>2. /\ GoodCaller(Failed(c)) /\ GoodCaller(Finish(c, res.rows, res.complete, FALSE))
  <2>1. res.rows \in SUBSET Row /\ res.complete \in BOOLEAN
    BY <1>1 DEF Caller, Result
  <2> QED BY <1>1, <2>1, CallerRecords
<1>3. \E r : GoodCaller(r) /\ caller' = [caller EXCEPT ![c] = r]
  BY <1>2 DEF WriteBack, Stop
<1>4. \/ store' \subseteq store
      \/ /\ caller[c].pc = "writeback" /\ maybe_write(q, res) /\ write_accepts(res, q.grouped)
         /\ Publish(q.op, q.window, res)
      \/ /\ caller[c].pc = "publish" /\ footer_reconciles(res) /\ Publish(q.op, q.window, res)
  BY DEF WriteBack, Stop, Evicted, write_accepts
<1>5. CASE store' \subseteq store
  BY <1>1, <1>3, <1>5, CallerUpdate, FewerGood
<1>6. CASE /\ caller[c].pc = "writeback" /\ maybe_write(q, res)
           /\ write_accepts(res, q.grouped) /\ Publish(q.op, q.window, res)
  BY <1>1, <1>3, <1>6, CallerUpdate, WriteBackGood
<1>7. CASE caller[c].pc = "publish" /\ footer_reconciles(res) /\ Publish(q.op, q.window, res)
  <2>1. res.rows = res.truth /\ res \in Result /\ q.op \in Operation /\ q.window \in Window
    BY <1>1, <1>7 DEF GoodCaller, Trusted, Caller, Question
  <2> QED BY <1>1, <1>3, <1>7, <2>1, CallerUpdate, PublishGood
<1> QED BY <1>4, <1>5, <1>6, <1>7

\* The MES gets one more row.
LEMMA RecordGood ==
  ASSUME Inv, NEW kind \in EntryKinds, Record(kind)
  PROVE SourceOK' /\ LoadOK'
<1> DEFINE r == [n |-> Cardinality(source) + 1, day |-> Today + kind[1],
                 dept |-> kind[2], at |-> clock]
<1>1. Today \in Nat /\ clock \in Nat /\ Cardinality(source) \in Nat
  BY DayType, FS_CardinalityType DEF Today, Inv, SourceOK
<1>2. kind[1] \in Int /\ kind[2] \in Depts
  BY EntryAssumption
<1>3. r \in Row
  BY <1>1, <1>2 DEF Row
<1>4. source' = source \cup {r} /\ clock' = clock
  BY DEF Record
<1>5. IsFiniteSet(source \cup {r})
  BY FS_AddElement DEF Inv, SourceOK
<1>6. LoadOK'
  BY DEF Record, Inv, LoadOK
<1> QED BY <1>3, <1>4, <1>5, <1>6 DEF Inv, SourceOK

\* A step of a call leaves the MES and the load alone, but for faults.
LEMMA CallFrame ==
  ASSUME Inv, NEW c \in Callers, CallerStep(c)
  PROVE /\ SourceOK' /\ LoadOK'
        /\ CallersOK' /\ StoreOK'
<1>1. /\ UNCHANGED <<clock, source, mode, entries, calls>>
      /\ faults' = faults \/ (faults > 0 /\ faults' = faults - 1)
  BY DEF CallerStep, Probe, AcquireLock, Produce, FinishSnapshot, Serve, Shadow, Discard,
         Evict, Drop, FetchRealtime, WriteBack, Stop, Fault, NoFault
<1>2. SourceOK' /\ LoadOK'
  BY <1>1 DEF Inv, SourceOK, LoadOK
<1>3. StoreOK
  BY DEF Inv
<1>4. CASE Probe(c)
  BY <1>2, <1>3, <1>4, ProbeGood, FewerGood DEF Probe
<1>5. CASE AcquireLock(c)
  BY <1>2, <1>3, <1>5, AcquireLockGood, FewerGood DEF AcquireLock
<1>6. CASE Produce(c)
  BY <1>2, <1>3, <1>6, ProduceGood, FewerGood DEF Produce
<1>7. CASE FinishSnapshot(c)
  BY <1>2, <1>7, FinishSnapshotGood
<1>8. CASE Serve(c)
  BY <1>2, <1>3, <1>8, ServeGood, FewerGood DEF Serve
<1>9. CASE Shadow(c)
  BY <1>2, <1>3, <1>9, ShadowGood, FewerGood DEF Shadow
<1>10. CASE Discard(c) \/ Evict(c)
  BY <1>2, <1>10, DropGood
<1>11. CASE FetchRealtime(c)
  BY <1>2, <1>3, <1>11, FetchRealtimeGood, FewerGood DEF FetchRealtime
<1>12. CASE WriteBack(c) \/ Stop(c)
  BY <1>2, <1>12, EndGood
<1> QED BY <1>4, <1>5, <1>6, <1>7, <1>8, <1>9, <1>10, <1>11, <1>12 DEF CallerStep

\* Calls and people preserve the invariant.
LEMMA CacheNextGood ==
  ASSUME Inv, CacheNext, UNCHANGED prefetchVars
  PROVE Inv'
<1>1. WorkersOK' /\ RedisOK'
  BY DEF Inv, WorkersOK, RedisOK, prefetchVars, GoodWorker, Trusted, footer_reconciles
<1>2. ASSUME NEW c \in Callers, CallerStep(c) PROVE Inv'
  BY <1>1, <1>2, CallFrame DEF Inv
<1>3. ASSUME NEW c \in Callers, NEW q \in Questions, Ask(c, q) PROVE Inv'
  <2>1. SourceOK' /\ StoreOK'
    BY <1>3, FewerGood DEF Ask, Inv, SourceOK
  <2> QED BY <1>1, <1>3, <2>1, AskGood DEF Inv
<1>4. ASSUME NEW kind \in EntryKinds, Record(kind) PROVE Inv'
  <2>1. CallersOK' /\ StoreOK'
    BY <1>4, FewerGood DEF Record, Inv, CallersOK, GoodCaller, Trusted, footer_reconciles
  <2> QED BY <1>1, <1>4, <2>1, RecordGood DEF Inv
<1> QED BY <1>2, <1>3, <1>4 DEF CacheNext

-----------------------------------------------------------------------------
(* Every step of a worker preserves the invariant *)

\* What a worker begins, sleeps and goes on with.
LEMMA WorkerRecords ==
  ASSUME Inv, NEW w \in Workers
  PROVE /\ worker[w] \in Worker /\ GoodWorker(worker[w])
        /\ Boot \in Worker /\ GoodWorker(Boot) /\ Boot.pc = "boot" /\ Boot.written = {}
        /\ \A retry \in BOOLEAN : GoodWorker(Sleep(retry)) /\ Sleep(retry).pc = "sleep"
                                  /\ Sleep(retry).written = {}
<1>1. worker[w] \in Worker /\ GoodWorker(worker[w])
  BY DEF Inv, WorkersOK, GoodWorker
<1>2. NoResult \in Result
  BY DEF NoResult, Result
<1>3. Boot \in Worker /\ Boot.pc = "boot" /\ Boot.written = {}
  BY <1>2, PrefetchAssumption DEF Boot, Worker, WorkerPc, Phase
<1>4. next_run_at(clock) \in Nat
  <2>1. clock \in Nat /\ DayOf(clock) \in Nat /\ DayLength \in Nat /\ PrefetchHour \in Nat
    BY DayType, CalendarAssumption, PrefetchAssumption DEF Inv, SourceOK
  <2>2. DayOf(clock) * DayLength \in Nat
    BY <2>1
  <2> QED BY <2>1, <2>2 DEF next_run_at
<1>5. ASSUME NEW retry \in BOOLEAN
      PROVE GoodWorker(Sleep(retry)) /\ Sleep(retry).pc = "sleep" /\ Sleep(retry).written = {}
  <2>1. (IF retry THEN 0 ELSE next_run_at(clock)) \in Nat
    BY <1>4
  <2>2. Sleep(retry) \in Worker /\ Sleep(retry).pc = "sleep" /\ Sleep(retry).written = {}
    BY <1>3, <2>1, PrefetchAssumption DEF Sleep, Worker, WorkerPc
  <2> QED BY <2>2 DEF GoodWorker
<1>6. GoodWorker(Boot)
  BY <1>3 DEF GoodWorker
<1> QED BY <1>1, <1>3, <1>5, <1>6

\* Writing one worker's record keeps the others'.
LEMMA WorkerUpdate ==
  ASSUME WorkersOK, NEW w \in Workers, NEW r, GoodWorker(r),
         worker' = [worker EXCEPT ![w] = r]
  PROVE WorkersOK'
  BY DEF WorkersOK, GoodWorker, Trusted, footer_reconciles

\* A family is fetched and published under one of the two operations.
LEMMA PlanType ==
  ASSUME Inv, NEW w \in Workers, worker[w].pc \in {"fetch", "put"}
  PROVE /\ Plan(w) \in Operation
        /\ \A written \in SUBSET Operation : GoodWorker(FinishPlan(w, written))
        /\ prefetch_window(worker[w].day) \in Window
<1>1. worker[w] \in Worker /\ worker[w].done \in 0 .. 1 /\ worker[w].left <= PrefetchTimeout
  BY WorkerRecords DEF GoodWorker, Worker
<1>2. Plan(w) \in Operation
  BY <1>1 DEF Plan, PREFETCH_PLANS, Operation
<1>3. ASSUME NEW written \in SUBSET Operation PROVE GoodWorker(FinishPlan(w, written))
  <2> DEFINE r == FinishPlan(w, written)
             pc == IF worker[w].done + 1 = Len(PREFETCH_PLANS) THEN "mark" ELSE "fetch"
  <2>1. Len(PREFETCH_PLANS) = 2 /\ NoResult \in Result
    BY DEF PREFETCH_PLANS, NoResult, Result
  <2>2. pc \in WorkerPc /\ pc # "put" /\ (pc = "fetch" => worker[w].done + 1 <= 1)
    BY <2>1, <1>1 DEF WorkerPc
  <2>3. worker[w].done + 1 \in 0 .. 2
    BY <1>1
  <2>4. r = [worker[w] EXCEPT !.pc = pc, !.done = worker[w].done + 1, !.res = NoResult,
                              !.written = written]
    BY <1>1 DEF FinishPlan, Worker
  <2>5. r \in Worker /\ r.pc = pc /\ r.done = worker[w].done + 1 /\ r.left = worker[w].left
    BY <1>1, <2>1, <2>2, <2>3, <2>4 DEF Worker
  <2> QED BY <1>1, <2>2, <2>5 DEF GoodWorker
<1>4. prefetch_window(worker[w].day) \in Window
  BY <1>1, PrefetchWindowType DEF Worker
<1> QED BY <1>2, <1>3, <1>4

\* What a step of one worker leaves alone; its faults are counted.
LEMMA WorkerFrame ==
  ASSUME Inv, NEW w \in Workers, StartRun(w) \/ RunStep(w) \/ Crash(w)
  PROVE SourceOK' /\ LoadOK' /\ CallersOK'
<1>1. /\ UNCHANGED <<clock, source, mode, entries, calls, caller>>
      /\ faults' = faults \/ (faults > 0 /\ faults' = faults - 1)
  BY DEF StartRun, RunStep, Crash, AcquireLease, ReadMarker, Fetch, Put, Mark, Release,
         Timeout, Fault, NoFault
<1> QED BY <1>1 DEF Inv, SourceOK, LoadOK, CallersOK, GoodCaller, Trusted, footer_reconciles

\* A run begins with its whole time before it, or not at all.
LEMMA StartRunGood ==
  ASSUME Inv, NEW w \in Workers, StartRun(w) \/ Crash(w)
  PROVE WorkersOK'
<1> DEFINE r == [Boot EXCEPT !.pc = "lease", !.day = Today, !.phase = phase_at(clock),
                             !.retry = worker[w].retry]
<1>1. WorkersOK /\ worker[w] \in Worker /\ Boot \in Worker
  BY WorkerRecords DEF Inv
<1>2. Today \in Nat /\ phase_at(clock) \in Phase /\ worker[w].retry \in BOOLEAN
  BY <1>1, DayType DEF Today, Inv, SourceOK, phase_at, Phase, Worker
<1>3. r \in Worker /\ r.pc = "lease" /\ r.left = PrefetchTimeout /\ r.done = 0
  BY <1>1, <1>2 DEF Worker, WorkerPc, Boot
<1>4. GoodWorker(r)
  BY <1>3, PrefetchAssumption DEF GoodWorker
<1>5. \/ worker' = [worker EXCEPT ![w] = r]
      \/ worker' = [worker EXCEPT ![w] = Sleep(TRUE)]
      \/ worker' = [worker EXCEPT ![w] = Boot]
  BY DEF StartRun, Crash
<1> HIDE DEF r
<1> QED BY <1>1, <1>4, <1>5, WorkerRecords, WorkerUpdate

\* Taking, giving back and marking.
LEMMA RedisGood ==
  ASSUME Inv, NEW w \in Workers, worker[w].pc \notin {"disabled", "boot", "sleep"}
  PROVE /\ HeldLease(w) \in Lease /\ Released(w) \subseteq leases
        /\ leases \subseteq Lease /\ markers \subseteq Marker
        /\ Marked(w) \subseteq Marker
<1>1. worker[w] \in Worker /\ leases \subseteq Lease /\ markers \subseteq Marker
  BY WorkerRecords DEF Inv, RedisOK
<1>2. worker[w].day \in Nat /\ worker[w].phase \in Phase
  BY <1>1 DEF Worker
<1>3. HeldLease(w) \in Lease
  BY <1>2, PrefetchAssumption DEF HeldLease, Lease, lease_seconds
<1>4. [day |-> worker[w].day, phase |-> worker[w].phase, ttl |-> SettledTTL] \in Marker
  BY <1>2, CalendarAssumption DEF Marker
<1>5. Marked(w) \subseteq Marker
  BY <1>1, <1>4 DEF Marked
<1> QED BY <1>1, <1>3, <1>5 DEF Released

\* Moving on within a run keeps the record good.
LEMMA MoveGood ==
  ASSUME Inv, NEW w \in Workers, NEW pc \in {"marker", "mark", "release"},
         NEW retry \in BOOLEAN, worker[w].pc \notin {"disabled", "boot", "sleep"},
         pc = "marker" => worker[w].done = 0
  PROVE /\ GoodWorker([worker[w] EXCEPT !.pc = pc])
        /\ GoodWorker([worker[w] EXCEPT !.pc = pc, !.retry = retry])
<1>1. worker[w] \in Worker /\ worker[w].left <= PrefetchTimeout
  BY WorkerRecords DEF GoodWorker, Worker, WorkerPc
<1> DEFINE a == [worker[w] EXCEPT !.pc = pc]
           b == [worker[w] EXCEPT !.pc = pc, !.retry = retry]
<1>2. a \in Worker /\ a.pc = pc /\ a.left = worker[w].left /\ a.done = worker[w].done
  BY <1>1 DEF Worker, WorkerPc
<1>3. b \in Worker /\ b.pc = pc /\ b.left = worker[w].left /\ b.done = worker[w].done
  BY <1>1 DEF Worker, WorkerPc
<1> QED BY <1>1, <1>2, <1>3 DEF GoodWorker

\* Taking the lease, marking the day and giving the lease back.
LEMMA LeaseStepGood ==
  ASSUME Inv, NEW w \in Workers, AcquireLease(w) \/ Mark(w) \/ Release(w)
  PROVE WorkersOK' /\ RedisOK' /\ StoreOK'
<1>1. WorkersOK /\ StoreOK /\ RedisOK
  BY DEF Inv
<1>2. worker[w].pc \in {"lease", "mark", "release"}
  BY DEF AcquireLease, Mark, Release
<1>3. worker[w] \in Worker /\ worker[w].retry \in BOOLEAN
  BY WorkerRecords DEF Worker
<1>4. \E r : GoodWorker(r) /\ worker' = [worker EXCEPT ![w] = r]
  <2>1. \/ /\ worker[w].pc = "lease"
           /\ worker' = [worker EXCEPT ![w] = [worker[w] EXCEPT !.pc = "marker"]]
        \/ \E retry \in BOOLEAN :
             \/ worker' = [worker EXCEPT ![w] = [worker[w] EXCEPT !.pc = "release", !.retry = retry]]
             \/ worker' = [worker EXCEPT ![w] = Sleep(retry)]
    BY <1>3 DEF AcquireLease, Mark, Release
  <2>2. worker[w].pc = "lease" => GoodWorker([worker[w] EXCEPT !.pc = "marker"])
    <3>1. worker[w].pc = "lease" => worker[w].done = 0
      BY WorkerRecords DEF GoodWorker
    <3> QED BY <1>2, <3>1, MoveGood
  <2>3. \A retry \in BOOLEAN : GoodWorker([worker[w] EXCEPT !.pc = "release", !.retry = retry])
    BY <1>2, MoveGood
  <2> QED BY <2>1, <2>2, <2>3, WorkerRecords
<1>5. /\ leases' \subseteq leases \cup {HeldLease(w)}
      /\ markers' \in {markers, Marked(w)} /\ UNCHANGED <<published, store>>
  BY <1>2, RedisGood DEF AcquireLease, Mark, Release
<1> QED BY <1>1, <1>2, <1>4, <1>5, WorkerUpdate, RedisGood, FewerGood DEF RedisOK

\* What is fetched is trusted until it is put.
LEMMA FetchGood ==
  ASSUME Inv, NEW w \in Workers, Fetch(w)
  PROVE WorkersOK'
<1> DEFINE rows == time_sliced_rows(source, prefetch_window(worker[w].day))
           fetched(res) == [worker[w] EXCEPT !.pc = "put", !.res = res]
<1>1. /\ WorkersOK /\ SourceOK /\ worker[w] \in Worker /\ worker[w].pc = "fetch"
      /\ GoodWorker(worker[w])
  BY WorkerRecords DEF Inv, Fetch
<1>2. rows \subseteq source
  BY DEF time_sliced_rows
<1>3. \A res \in BadResults(rows) \cup {Whole(rows)} : GoodWorker(fetched(res))
  <2> TAKE res \in BadResults(rows) \cup {Whole(rows)}
  <2>1. res \in Result /\ Trusted(res)
    BY <1>1, <1>2, OwnerResult DEF Trusted
  <2>2. /\ fetched(res) \in Worker /\ fetched(res).pc = "put" /\ fetched(res).res = res
        /\ fetched(res).done = worker[w].done /\ fetched(res).left = worker[w].left
    BY <1>1, <2>1 DEF Worker, WorkerPc
  <2> QED BY <1>1, <2>1, <2>2 DEF GoodWorker
<1>4. GoodWorker(FinishPlan(w, worker[w].written))
  BY <1>1, PlanType DEF Worker
<1>5. \E r : GoodWorker(r) /\ worker' = [worker EXCEPT ![w] = r]
  <2> SUFFICES \E res \in BadResults(rows) \cup {Whole(rows)} :
                 \/ worker' = [worker EXCEPT ![w] = fetched(res)]
                 \/ worker' = [worker EXCEPT ![w] = FinishPlan(w, worker[w].written)]
    BY <1>3, <1>4
  <2> QED BY DEF Fetch
<1> QED BY <1>1, <1>5, WorkerUpdate

\* Only a whole family is published.
LEMMA PublishPlanGood ==
  ASSUME Inv, NEW w \in Workers, worker[w].pc = "put", write_accepts(worker[w].res, FALSE),
         PublishPlan(w)
  PROVE StoreOK' /\ published' \subseteq Operation \X Nat
<1>1. /\ SourceOK /\ StoreOK /\ worker[w] \in Worker /\ GoodWorker(worker[w])
      /\ published \subseteq Operation \X Nat
  BY WorkerRecords DEF Inv, RedisOK
<1>2. Plan(w) \in Operation /\ prefetch_window(worker[w].day) \in Window
  BY PlanType
<1>3. worker[w].res \in Result /\ worker[w].day \in Nat
  BY <1>1 DEF Worker
<1>4. worker[w].res.rows = worker[w].res.truth
  BY <1>1 DEF GoodWorker, Trusted, write_accepts
<1>5. StoreOK'
  BY <1>1, <1>2, <1>3, <1>4, PublishGood DEF PublishPlan
<1> QED BY <1>1, <1>2, <1>3, <1>5 DEF PublishPlan

\* Publishing a family, or timing out while doing so.
LEMMA PutGood ==
  ASSUME Inv, NEW w \in Workers, Put(w) \/ Timeout(w)
  PROVE WorkersOK' /\ StoreOK' /\ RedisOK'
<1>1. /\ WorkersOK /\ StoreOK /\ RedisOK /\ worker[w] \in Worker
  BY WorkerRecords DEF Inv
<1>2. worker[w].pc \notin {"disabled", "boot", "sleep"}
  BY DEF Put, Timeout, Running
<1>3. WorkersOK'
  <2>1. CASE Timeout(w)
    BY <2>1, <1>1, WorkerRecords, WorkerUpdate DEF Timeout
  <2>2. CASE Put(w)
    <3>1. worker[w].written \in SUBSET Operation /\ Plan(w) \in Operation
      BY <1>1, <2>2, PlanType DEF Worker, Put
    <3>2. GoodWorker(FinishPlan(w, worker[w].written \cup {Plan(w)}))
          /\ GoodWorker(FinishPlan(w, worker[w].written))
      BY <3>1, <2>2, PlanType DEF Put
    <3> QED BY <1>1, <3>2, <2>2, WorkerUpdate DEF Put
  <2> QED BY <2>1, <2>2
<1>4. \/ UNCHANGED <<store, published>>
      \/ worker[w].pc = "put" /\ write_accepts(worker[w].res, FALSE) /\ PublishPlan(w)
  BY DEF Put, Timeout
<1>5. StoreOK' /\ published' \subseteq Operation \X Nat
  BY <1>1, <1>4, FewerGood, PublishPlanGood DEF RedisOK
<1>6. leases' \subseteq leases \cup {HeldLease(w)} /\ markers' \in {markers, Marked(w)}
  BY <1>2, RedisGood DEF Put, Timeout
<1> QED BY <1>2, <1>3, <1>5, <1>6, RedisGood DEF RedisOK

\* A completed day ends the run, any other begins with the first family.
LEMMA ReadMarkerGood ==
  ASSUME Inv, NEW w \in Workers, ReadMarker(w)
  PROVE WorkersOK'
<1> DEFINE r == [worker[w] EXCEPT !.pc = "fetch"]
<1>1. /\ WorkersOK /\ worker[w] \in Worker /\ GoodWorker(worker[w]) /\ worker[w].pc = "marker"
  BY WorkerRecords DEF Inv, ReadMarker
<1>2. r \in Worker /\ r.pc = "fetch" /\ r.done = 0 /\ r.left = worker[w].left
  BY <1>1 DEF Worker, WorkerPc, GoodWorker
<1>3. GoodWorker(r)
  BY <1>1, <1>2 DEF GoodWorker
<1>4. GoodWorker([worker[w] EXCEPT !.pc = "release", !.retry = FALSE])
  BY <1>1, MoveGood
<1>5. \/ worker' = [worker EXCEPT ![w] = r]
      \/ worker' = [worker EXCEPT ![w] = [worker[w] EXCEPT !.pc = "release", !.retry = FALSE]]
  BY DEF ReadMarker
<1> HIDE DEF r
<1> QED BY <1>1, <1>3, <1>4, <1>5, WorkerUpdate

\* Workers preserve the invariant.
LEMMA WorkerStepGood ==
  ASSUME Inv, NEW w \in Workers, StartRun(w) \/ RunStep(w) \/ Crash(w)
  PROVE Inv'
<1>1. SourceOK' /\ LoadOK' /\ CallersOK' /\ StoreOK /\ RedisOK
  BY WorkerFrame DEF Inv
<1>2. CASE StartRun(w) \/ Crash(w)
  BY <1>1, <1>2, StartRunGood, FewerGood DEF StartRun, Crash, Inv, RedisOK
<1>3. CASE ReadMarker(w)
  BY <1>1, <1>3, ReadMarkerGood, FewerGood DEF ReadMarker, Inv, RedisOK
<1>4. CASE Fetch(w)
  BY <1>1, <1>4, FetchGood, FewerGood DEF Fetch, Inv, RedisOK
<1>5. CASE Put(w) \/ Timeout(w)
  BY <1>1, <1>5, PutGood DEF Inv
<1>6. CASE AcquireLease(w) \/ Mark(w) \/ Release(w)
  BY <1>1, <1>6, LeaseStepGood DEF Inv
<1> QED BY <1>2, <1>3, <1>4, <1>5, <1>6 DEF RunStep

-----------------------------------------------------------------------------
(* Time *)

\* A waiting call has time left to lose.
LEMMA WaitGood == ASSUME CallersOK, CallersMayWait, caller' = WaitedCallers PROVE CallersOK'
<1>1. ASSUME NEW c \in Callers PROVE GoodCaller(WaitedCallers[c])
  <2>1. caller[c] \in Caller /\ GoodCaller(caller[c])
    BY DEF CallersOK, GoodCaller
  <2>2. CASE ~Busy(c)
    BY <2>1, <2>2 DEF WaitedCallers
  <2>3. CASE Busy(c)
    <3> DEFINE r == [caller[c] EXCEPT !.left = caller[c].left - 1]
    <3>1. caller[c].left - 1 \in Nat
      BY <2>1, <2>3 DEF CallersMayWait, Caller
    <3>2. /\ r \in Caller /\ r.pc = caller[c].pc /\ r.q = caller[c].q
          /\ r.res = caller[c].res /\ r.cands = caller[c].cands
      BY <2>1, <3>1 DEF Caller
    <3>3. WaitedCallers[c] = r
      BY <2>3, <2>1 DEF WaitedCallers, Caller
    <3> QED BY <2>1, <3>2, <3>3 DEF GoodCaller
  <2> QED BY <2>2, <2>3
<1>2. \A c \in Callers : caller'[c] = WaitedCallers[c]
  OBVIOUS
<1>3. caller' = [c \in Callers |-> caller'[c]] /\ DOMAIN caller' = Callers
  BY DEF WaitedCallers
<1> QED BY <1>1, <1>2, <1>3 DEF CallersOK, GoodCaller, Trusted, footer_reconciles

\* A worker after a tick.
Waited(w) == IF Running(w) \/ (worker[w].pc = "sleep" /\ worker[w].left > 0)
             THEN [worker[w] EXCEPT !.left = worker[w].left - 1] ELSE worker[w]

\* A worker loses time only where it has some, and nothing else.
LEMMA WaitedWorker ==
  ASSUME Inv, Tick, NEW w \in Workers
  PROVE /\ worker'[w] = Waited(w) /\ GoodWorker(Waited(w))
        /\ Waited(w).pc = worker[w].pc /\ Waited(w).day = worker[w].day
        /\ Waited(w).written = worker[w].written /\ Waited(w).left \in Nat
        /\ Waited(w).res = worker[w].res
        /\ Running(w) => worker[w].left > 0 /\ Waited(w).left = worker[w].left - 1
<1>1. worker[w] \in Worker /\ GoodWorker(worker[w])
  BY WorkerRecords
<1>2. worker[w].left \in Nat /\ (Running(w) => worker[w].left > 0)
  BY <1>1 DEF Worker, Tick
<1>3. worker'[w] = Waited(w)
  BY <1>1 DEF Tick, Waited, Worker
<1>4. CASE Running(w) \/ (worker[w].pc = "sleep" /\ worker[w].left > 0)
  <2> DEFINE r == [worker[w] EXCEPT !.left = worker[w].left - 1]
  <2>1. worker[w].left - 1 \in Nat
    BY <1>2, <1>4
  <2>2. /\ r \in Worker /\ r.pc = worker[w].pc /\ r.done = worker[w].done /\ r.res = worker[w].res
        /\ r.left = worker[w].left - 1 /\ r.day = worker[w].day /\ r.written = worker[w].written
    BY <1>1, <2>1 DEF Worker
  <2>3. worker[w].left <= PrefetchTimeout => r.left <= PrefetchTimeout
    BY <1>2, <2>2, PrefetchAssumption
  <2>4. GoodWorker(r)
    BY <1>1, <2>2, <2>3 DEF GoodWorker
  <2>5. Waited(w) = r
    BY <1>4 DEF Waited
  <2> QED BY <1>2, <1>3, <2>1, <2>2, <2>4, <2>5
<1>5. CASE ~(Running(w) \/ (worker[w].pc = "sleep" /\ worker[w].left > 0))
  BY <1>1, <1>2, <1>3, <1>5 DEF Waited
<1> QED BY <1>4, <1>5

\* Time preserves the invariant.
LEMMA TickGood == ASSUME Inv, Tick PROVE Inv'
<1>1. SourceOK' /\ LoadOK'
  BY DEF Tick, Inv, SourceOK, LoadOK, Fault, NoFault
<1>2. CallersOK'
  BY WaitGood DEF Tick, Inv
<1>3. StoreOK'
  <2>1. ASSUME NEW e \in store, e.ttl > 1 PROVE GoodEntry([e EXCEPT !.ttl = e.ttl - 1])
    <3> DEFINE f == [e EXCEPT !.ttl = e.ttl - 1]
    <3>1. GoodEntry(e) /\ e \in Entry
      BY DEF Inv, StoreOK, GoodEntry
    <3>2. e.ttl - 1 \in Nat
      BY <2>1, <3>1 DEF Entry
    <3>3. f \in Entry /\ f.rows = e.rows /\ f.truth = e.truth /\ f.grouped = e.grouped
      BY <3>1, <3>2 DEF Entry
    <3> QED BY <3>1, <3>3 DEF GoodEntry
  <2>2. ASSUME NEW f \in store' PROVE \E e \in store : e.ttl > 1 /\ f = [e EXCEPT !.ttl = e.ttl - 1]
    <3>1. \A e \in store : e \in Entry
      BY DEF Inv, StoreOK, GoodEntry
    <3> QED BY <3>1, <2>2 DEF Tick, AgedStore, Entry
  <2>3. \A f \in store' : GoodEntry(f)
    BY <2>1, <2>2
  <2> QED BY <2>3 DEF StoreOK, GoodEntry
<1>4. WorkersOK'
  <2>1. \A w \in Workers : GoodWorker(worker'[w])
    BY WaitedWorker
  <2>2. worker' = [w \in Workers |-> worker'[w]]
    BY DEF Tick
  <2> QED BY <2>1, <2>2 DEF WorkersOK, GoodWorker, Trusted, footer_reconciles
<1>5. RedisOK'
  <2>1. leases \subseteq Lease /\ markers \subseteq Marker /\ published' \subseteq Operation \X Nat
    BY DEF Inv, RedisOK, Tick
  <2>2. leases' \subseteq Lease
    BY <2>1 DEF Tick, AgedLeases, Lease
  <2>3. markers' \subseteq Marker
    BY <2>1 DEF Tick, Marker
  <2> QED BY <2>1, <2>2, <2>3 DEF RedisOK
<1> QED BY <1>1, <1>2, <1>3, <1>4, <1>5 DEF Inv

-----------------------------------------------------------------------------
(* Types and whole snapshots *)

\* It holds in the beginning.
LEMMA InitGood == Init => Inv
<1> SUFFICES ASSUME Init PROVE Inv
  OBVIOUS
<1> DEFINE q0 == CHOOSE q \in Questions : TRUE
<1>1. q0 \in Question
  BY CallerAssumption
<1>2. caller = [c \in Callers |-> Fresh(q0)]
  BY DEF Init, CacheInit
<1>3. NoHit \in Hit /\ NoResult \in Result /\ NoAnswer \in Answer /\ <<>> \in Seq(Window)
  BY DEF NoHit, NoResult, NoAnswer, Hit, Result, Answer, Window
<1>4. Fresh(q0) \in Caller /\ Fresh(q0).pc = "idle"
  BY <1>1, <1>3, CalendarAssumption DEF Fresh, Caller, CallerPc
<1>5. CallersOK
  <2>1. GoodCaller(Fresh(q0))
    BY <1>4 DEF GoodCaller
  <2> HIDE DEF q0
  <2> QED BY <1>2, <2>1 DEF CallersOK
<1>6. SourceOK
  BY FS_EmptySet DEF Init, CacheInit, SourceOK
<1>7. LoadOK
  BY ScenarioAssumption DEF Init, LoadOK, Scenario
<1> DEFINE off == [Boot EXCEPT !.pc = "disabled"]
<1>8. Boot \in Worker /\ Boot.pc = "boot"
  BY <1>3, PrefetchAssumption DEF Boot, Worker, WorkerPc, Phase
<1>9. off \in Worker /\ off.pc = "disabled"
  BY <1>8 DEF Worker, WorkerPc
<1>10. GoodWorker(Boot) /\ GoodWorker(off)
  BY <1>8, <1>9 DEF GoodWorker
<1>11. PICK s \in Scenarios : worker = [w \in Workers |-> IF w \in s.workers THEN Boot ELSE off]
  BY DEF Init
<1>12. WorkersOK
  <2> HIDE DEF off
  <2> QED BY <1>10, <1>11 DEF WorkersOK
<1>13. StoreOK /\ RedisOK
  BY DEF Init, CacheInit, StoreOK, RedisOK
<1> QED BY <1>5, <1>6, <1>7, <1>12, <1>13 DEF Inv

\* Every step preserves it.
LEMMA NextGood == Inv /\ [Next]_vars => Inv'
<1> SUFFICES ASSUME Inv, [Next]_vars PROVE Inv'
  OBVIOUS
<1>1. CASE UNCHANGED vars
  BY <1>1 DEF vars, cacheVars, prefetchVars, Inv, SourceOK, LoadOK, CallersOK, StoreOK,
              WorkersOK, RedisOK, GoodCaller, GoodEntry, GoodWorker, Trusted, footer_reconciles
<1>2. CASE CacheNext /\ UNCHANGED prefetchVars
  BY <1>2, CacheNextGood
<1>3. CASE \E w \in Workers : StartRun(w) \/ RunStep(w) \/ Crash(w)
  BY <1>3, WorkerStepGood
<1>4. CASE Tick
  BY <1>4, TickGood
<1> QED BY <1>1, <1>2, <1>3, <1>4 DEF Next

\* It holds in every behaviour.
LEMMA Invariant == Spec => []Inv
  BY InitGood, NextGood, PTL DEF Spec

\* Types: for any callers, questions, workers, windows, lifetimes and loads, every actor's
\* memory and everything in Redis has its type (TypeOK).
THEOREM CacheTypeCorrect == Spec => []TypeOK
<1>1. Inv => TypeOK
  <2> SUFFICES ASSUME Inv PROVE TypeOK
    OBVIOUS
  <2>1. caller \in [Callers -> Caller]
    BY DEF Inv, CallersOK, GoodCaller
  <2>2. worker \in [Workers -> Worker]
    BY DEF Inv, WorkersOK, GoodWorker
  <2>3. store \subseteq Entry
    BY DEF Inv, StoreOK, GoodEntry
  <2> QED BY <2>1, <2>2, <2>3 DEF TypeOK, Inv, SourceOK, LoadOK, RedisOK
<1> QED BY <1>1, Invariant, PTL

\* Whole snapshots: whoever writes it (a call under the lock, a call's fallback, a prefetch,
\* or one of them after it was given up), a snapshot in the store holds every row the owner
\* had in its window when the MES was read (SharedSnapshotIsWhole).
THEOREM SnapshotsAreWhole == Spec => []SharedSnapshotIsWhole
<1>1. Inv => SharedSnapshotIsWhole
  BY DEF Inv, StoreOK, GoodEntry, SharedSnapshotIsWhole
<1> QED BY <1>1, Invariant, PTL

-----------------------------------------------------------------------------
(* One producer per day *)

Holding == {"marker", "fetch", "put", "mark", "release"}

OneLease == \A k, l \in leases : k.day = l.day => k = l

\* A worker that is past the lease has it, and for longer than it may run.
HasLease(w) == \E l \in leases : /\ l.day = worker[w].day /\ l.holder = w
                                 /\ l.left >= worker[w].left + LeaseMargin

LeaseInv == OneLease /\ \A w \in Workers : worker[w].pc \in Holding => HasLease(w)

\* Within a run the day stays, and only time takes from what is left of it.
LEMMA KeepsDay ==
  ASSUME Inv, NEW w \in Workers, ReadMarker(w) \/ Fetch(w) \/ Put(w) \/ Mark(w)
  PROVE worker'[w].day = worker[w].day /\ worker'[w].left = worker[w].left
<1>1. worker[w] \in Worker /\ worker = [v \in Workers |-> worker[v]]
  BY WorkerRecords DEF Inv, WorkersOK
<1>2. \A written : FinishPlan(w, written).day = worker[w].day
                   /\ FinishPlan(w, written).left = worker[w].left
  BY <1>1 DEF FinishPlan, Worker
<1>3. CASE ReadMarker(w)
  <2> DEFINE a == [worker[w] EXCEPT !.pc = "release", !.retry = FALSE]
             b == [worker[w] EXCEPT !.pc = "fetch"]
  <2>1. /\ a.day = worker[w].day /\ a.left = worker[w].left
        /\ b.day = worker[w].day /\ b.left = worker[w].left
    BY <1>1 DEF Worker
  <2>2. worker' = [worker EXCEPT ![w] = a] \/ worker' = [worker EXCEPT ![w] = b]
    BY <1>3 DEF ReadMarker
  <2> HIDE DEF a, b
  <2> QED BY <1>1, <2>1, <2>2
<1>4. CASE Fetch(w)
  <2> DEFINE got(res) == [worker[w] EXCEPT !.pc = "put", !.res = res]
  <2>1. \A res : got(res).day = worker[w].day /\ got(res).left = worker[w].left
    BY <1>1 DEF Worker
  <2>2. \E r : /\ worker' = [worker EXCEPT ![w] = r]
               /\ r = FinishPlan(w, worker[w].written) \/ \E res : r = got(res)
    BY <1>4 DEF Fetch
  <2> HIDE DEF got
  <2>3. PICK r : /\ worker' = [worker EXCEPT ![w] = r]
                 /\ r = FinishPlan(w, worker[w].written) \/ \E res : r = got(res)
    BY <2>2
  <2>4. worker'[w] = r
    BY <1>1, <2>3
  <2> QED BY <1>2, <2>1, <2>3, <2>4
<1>5. CASE Put(w)
  BY <1>1, <1>2, <1>5 DEF Put
<1>6. CASE Mark(w)
  BY <1>1, <1>6 DEF Mark, Worker
<1> QED BY <1>3, <1>4, <1>5, <1>6

\* Each step of a worker leaves the other workers' leases alone.
LEMMA LeaseStep ==
  ASSUME Inv, LeaseInv, NEW w \in Workers, StartRun(w) \/ RunStep(w) \/ Crash(w)
  PROVE LeaseInv'
<1>1. worker[w] \in Worker /\ GoodWorker(worker[w]) /\ worker = [v \in Workers |-> worker[v]]
  BY WorkerRecords DEF Inv, WorkersOK
<1>2. leases \subseteq Lease
  BY DEF Inv, RedisOK
<1>3. \A v \in Workers : v # w => worker'[v] = worker[v]
  BY <1>1 DEF StartRun, RunStep, Crash, AcquireLease, ReadMarker, Fetch, Put, Mark, Release,
              Timeout
<1>4. \/ leases' = leases
      \/ leases' = Released(w)
      \/ /\ \A l \in leases : l.day # worker[w].day
         /\ leases' = leases \cup {HeldLease(w)}
  BY DEF StartRun, RunStep, Crash, AcquireLease, ReadMarker, Fetch, Put, Mark, Release, Timeout
<1>5. OneLease'
  BY <1>4 DEF LeaseInv, OneLease, HeldLease, Released
<1>6. ASSUME NEW v \in Workers, v # w, worker'[v].pc \in Holding PROVE HasLease(v)'
  <2>1. worker'[v] = worker[v] /\ HasLease(v)
    BY <1>3, <1>6 DEF LeaseInv
  <2>2. PICK l \in leases : /\ l.day = worker[v].day /\ l.holder = v
                            /\ l.left >= worker[v].left + LeaseMargin
    BY <2>1 DEF HasLease
  <2>3. l \in leases'
    BY <1>4, <1>6, <2>2 DEF Released
  <2> QED BY <2>1, <2>2, <2>3 DEF HasLease
<1>7. ASSUME worker'[w].pc \in Holding PROVE HasLease(w)'
  <2>1. CASE AcquireLease(w)
    <3>1. /\ worker' = [worker EXCEPT ![w].pc = "marker"]
          /\ leases' = leases \cup {HeldLease(w)} /\ worker[w].pc = "lease"
      <4>1. worker'[w].pc # "sleep"
        BY <1>7 DEF Holding
      <4>2. worker' # [worker EXCEPT ![w] = Sleep(TRUE)]
        BY <1>1, <4>1, WorkerRecords
      <4> QED BY <4>2, <2>1 DEF AcquireLease
    <3>2. worker'[w].day = worker[w].day /\ worker'[w].left = worker[w].left
      BY <1>1, <3>1 DEF Worker
    <3>3. worker[w].left <= PrefetchTimeout /\ worker[w].left \in Nat
      BY <1>1, <3>1 DEF GoodWorker, Worker
    <3>4. lease_seconds >= worker[w].left + LeaseMargin
      BY <3>3, PrefetchAssumption DEF lease_seconds
    <3>5. /\ HeldLease(w) \in leases' /\ HeldLease(w).day = worker'[w].day
          /\ HeldLease(w).holder = w /\ HeldLease(w).left >= worker'[w].left + LeaseMargin
      BY <3>1, <3>2, <3>4 DEF HeldLease
    <3> QED BY <3>5 DEF HasLease
  <2>2. CASE ReadMarker(w) \/ Fetch(w) \/ Put(w) \/ Mark(w)
    <3>1. worker[w].pc \in Holding /\ leases' = leases
      BY <2>2 DEF ReadMarker, Fetch, Put, Mark, Holding
    <3>2. worker'[w].day = worker[w].day /\ worker'[w].left = worker[w].left
      BY <1>1, <2>2, KeepsDay
    <3> QED BY <3>1, <3>2 DEF LeaseInv, HasLease
  <2>3. CASE StartRun(w) \/ Crash(w) \/ Release(w) \/ Timeout(w)
    <3>1. worker[w].retry \in BOOLEAN /\ [Boot EXCEPT !.pc = "lease", !.day = Today,
             !.phase = phase_at(clock), !.retry = worker[w].retry].pc = "lease"
      BY <1>1, WorkerRecords DEF Worker
    <3>2. worker'[w].pc \in {"lease", "sleep", "boot"}
      BY <1>1, <2>3, <3>1, WorkerRecords DEF StartRun, Crash, Release, Timeout
    <3> QED BY <1>7, <3>2 DEF Holding
  <2> QED BY <2>1, <2>2, <2>3 DEF RunStep
<1> QED BY <1>5, <1>6, <1>7 DEF LeaseInv

\* Leases outlast the runs they protect, also while time passes.
LEMMA LeaseTick == ASSUME Inv, LeaseInv, Tick PROVE LeaseInv'
<1>1. leases \subseteq Lease
  BY DEF Inv, RedisOK
<1> DEFINE Older(l) == [l EXCEPT !.left = l.left - 1]
<1>2. leases' = {Older(l) : l \in {k \in leases : k.left > 1}}
  BY <1>1 DEF Tick, AgedLeases, Lease
<1>3. \A l \in leases : /\ Older(l).day = l.day /\ Older(l).holder = l.holder
                        /\ Older(l).left = l.left - 1 /\ l.left \in Nat
  BY <1>1 DEF Lease
<1> HIDE DEF Older
<1>4. OneLease'
  BY <1>2, <1>3 DEF LeaseInv, OneLease
<1>5. ASSUME NEW w \in Workers, worker'[w].pc \in Holding PROVE HasLease(w)'
  <2>1. /\ worker[w].pc \in Holding /\ Running(w) /\ worker'[w].day = worker[w].day
        /\ worker[w].left > 0 /\ worker'[w].left = worker[w].left - 1
    BY <1>5, WaitedWorker DEF Running, Holding
  <2>2. PICK l \in leases : /\ l.day = worker[w].day /\ l.holder = w
                            /\ l.left >= worker[w].left + LeaseMargin
    BY <2>1 DEF LeaseInv, HasLease
  <2>3. worker[w].left \in Nat
    BY WorkerRecords DEF Worker
  <2>4. l.left > 1 /\ l.left - 1 >= worker[w].left - 1 + LeaseMargin
    BY <1>3, <2>1, <2>2, <2>3, PrefetchAssumption
  <2>5. /\ Older(l) \in leases' /\ Older(l).day = worker'[w].day /\ Older(l).holder = w
        /\ Older(l).left >= worker'[w].left + LeaseMargin
    BY <1>2, <1>3, <2>1, <2>2, <2>4
  <2> QED BY <2>5 DEF HasLease
<1> QED BY <1>4, <1>5 DEF LeaseInv

\* One producer: for any number of replicas, any run limit and any margin of the lease, no
\* two of them are within the lease of the same day (OneProducerPerDay).
THEOREM OneProducer == Spec => []OneProducerPerDay
<1>1. Init => LeaseInv
  <2> SUFFICES ASSUME Init PROVE LeaseInv
    OBVIOUS
  <2>1. OneLease
    BY DEF Init, OneLease
  <2>2. ASSUME NEW w \in Workers PROVE worker[w].pc \in {"boot", "disabled"}
    <3>1. Boot.pc = "boot" /\ [Boot EXCEPT !.pc = "disabled"].pc = "disabled"
      BY DEF Boot
    <3> QED BY <3>1 DEF Init
  <2> QED BY <2>1, <2>2 DEF LeaseInv, Holding
<1>2. Inv /\ LeaseInv /\ [Next]_vars => LeaseInv'
  <2> SUFFICES ASSUME Inv, LeaseInv, [Next]_vars PROVE LeaseInv'
    OBVIOUS
  <2>1. CASE UNCHANGED prefetchVars
    BY <2>1 DEF prefetchVars, LeaseInv, OneLease, HasLease
  <2>2. CASE \E w \in Workers : StartRun(w) \/ RunStep(w) \/ Crash(w)
    BY <2>2, LeaseStep
  <2>3. CASE Tick
    BY <2>3, LeaseTick
  <2> QED BY <2>1, <2>2, <2>3 DEF Next, vars
<1>3. LeaseInv => OneProducerPerDay
  BY DEF LeaseInv, OneLease, HasLease, Holding, OneProducerPerDay
<1> QED BY <1>1, <1>2, <1>3, Invariant, PTL DEF Spec

-----------------------------------------------------------------------------
(* Marked days *)

\* What a run counts as written, it has published for its day.
WrittenInv == \A w \in Workers : \A op \in worker[w].written : <<op, worker[w].day>> \in published

MarkInv == WrittenInv /\ MarkedDayIsPublished

\* Within a run the list of written families grows only by what is published with it.
LEMMA KeepsWritten ==
  ASSUME Inv, NEW w \in Workers, ReadMarker(w) \/ Fetch(w) \/ Put(w) \/ Mark(w)
  PROVE \/ worker'[w].written = worker[w].written
        \/ worker'[w].written = worker[w].written \cup {Plan(w)}
           /\ <<Plan(w), worker[w].day>> \in published'
<1>1. worker[w] \in Worker /\ worker = [v \in Workers |-> worker[v]]
  BY WorkerRecords DEF Inv, WorkersOK
<1>2. \A written : FinishPlan(w, written).written = written
  BY <1>1 DEF FinishPlan, Worker
<1>3. CASE ReadMarker(w)
  <2> DEFINE a == [worker[w] EXCEPT !.pc = "release", !.retry = FALSE]
             b == [worker[w] EXCEPT !.pc = "fetch"]
  <2>1. a.written = worker[w].written /\ b.written = worker[w].written
    BY <1>1 DEF Worker
  <2>2. worker' = [worker EXCEPT ![w] = a] \/ worker' = [worker EXCEPT ![w] = b]
    BY <1>3 DEF ReadMarker
  <2> HIDE DEF a, b
  <2> QED BY <1>1, <2>1, <2>2
<1>4. CASE Fetch(w)
  <2> DEFINE got(res) == [worker[w] EXCEPT !.pc = "put", !.res = res]
  <2>1. \A res : got(res).written = worker[w].written
    BY <1>1 DEF Worker
  <2>2. \E r : /\ worker' = [worker EXCEPT ![w] = r]
               /\ r = FinishPlan(w, worker[w].written) \/ \E res : r = got(res)
    BY <1>4 DEF Fetch
  <2> HIDE DEF got
  <2>3. PICK r : /\ worker' = [worker EXCEPT ![w] = r]
                 /\ r = FinishPlan(w, worker[w].written) \/ \E res : r = got(res)
    BY <2>2
  <2>4. worker'[w] = r
    BY <1>1, <2>3
  <2> QED BY <1>2, <2>1, <2>3, <2>4
<1>5. CASE Put(w)
  <2>1. \/ worker' = [worker EXCEPT ![w] = FinishPlan(w, worker[w].written)]
        \/ /\ worker' = [worker EXCEPT ![w] = FinishPlan(w, worker[w].written \cup {Plan(w)})]
           /\ PublishPlan(w)
    BY <1>5 DEF Put
  <2>2. PublishPlan(w) => <<Plan(w), worker[w].day>> \in published'
    BY DEF PublishPlan
  <2> QED BY <1>1, <1>2, <2>1, <2>2
<1>6. CASE Mark(w)
  BY <1>1, <1>6 DEF Mark, Worker
<1> QED BY <1>3, <1>4, <1>5, <1>6

\* A run's list of written families grows by what it has published, and a marker is set
\* from the complete list.
LEMMA MarkStep ==
  ASSUME Inv, MarkInv, NEW w \in Workers, StartRun(w) \/ RunStep(w) \/ Crash(w)
  PROVE MarkInv'
<1>1. worker[w] \in Worker /\ worker = [v \in Workers |-> worker[v]]
  BY WorkerRecords DEF Inv, WorkersOK
<1>2. \A v \in Workers : v # w => worker'[v] = worker[v]
  BY <1>1 DEF StartRun, RunStep, Crash, AcquireLease, ReadMarker, Fetch, Put, Mark, Release,
              Timeout
<1>3. published \subseteq published'
  BY DEF StartRun, RunStep, Crash, AcquireLease, ReadMarker, Fetch, Put, Mark, Release,
         Timeout, PublishPlan
<1>4. \A op \in worker'[w].written : <<op, worker'[w].day>> \in published'
  <2>1. CASE StartRun(w) \/ Crash(w) \/ Release(w) \/ Timeout(w)
    <3>1. worker[w].retry \in BOOLEAN /\ [Boot EXCEPT !.pc = "lease", !.day = Today,
             !.phase = phase_at(clock), !.retry = worker[w].retry].written = {}
      BY <1>1, WorkerRecords DEF Worker
    <3>2. worker'[w].written = {}
      BY <1>1, <2>1, <3>1, WorkerRecords DEF StartRun, Crash, Release, Timeout
    <3> QED BY <3>2
  <2>2. CASE AcquireLease(w)
    <3>1. \/ worker' = [worker EXCEPT ![w] = Sleep(TRUE)]
          \/ worker' = [worker EXCEPT ![w].pc = "marker"]
      BY <2>2 DEF AcquireLease
    <3>2. \/ worker'[w].written = {}
          \/ worker'[w].written = worker[w].written /\ worker'[w].day = worker[w].day
      BY <1>1, <3>1, WorkerRecords DEF Worker
    <3> QED BY <1>3, <3>2 DEF MarkInv, WrittenInv
  <2>3. CASE ReadMarker(w) \/ Fetch(w) \/ Put(w) \/ Mark(w)
    <3>1. worker'[w].day = worker[w].day
      BY <2>3, KeepsDay
    <3>2. \/ worker'[w].written = worker[w].written
          \/ worker'[w].written = worker[w].written \cup {Plan(w)}
             /\ <<Plan(w), worker[w].day>> \in published'
      BY <1>1, <2>3, KeepsWritten
    <3> QED BY <1>3, <3>1, <3>2 DEF MarkInv, WrittenInv
  <2> QED BY <2>1, <2>2, <2>3 DEF RunStep
<1>5. WrittenInv'
  BY <1>2, <1>3, <1>4 DEF MarkInv, WrittenInv
<1>6. markers' = markers \/ (worker[w].written = Operation /\ markers' = Marked(w))
  BY DEF StartRun, RunStep, Crash, AcquireLease, ReadMarker, Fetch, Put, Mark, Release,
         Timeout, all_written
<1>7. MarkedDayIsPublished'
  <2>1. CASE markers' = markers
    BY <2>1, <1>3 DEF MarkInv, MarkedDayIsPublished
  <2>2. CASE worker[w].written = Operation /\ markers' = Marked(w)
    <3> SUFFICES ASSUME NEW m \in markers', NEW op \in Operation PROVE <<op, m.day>> \in published
      BY <1>3 DEF MarkedDayIsPublished
    <3>1. m \in markers \/ m.day = worker[w].day
      BY <2>2 DEF Marked
    <3> QED BY <2>2, <3>1 DEF MarkInv, MarkedDayIsPublished, WrittenInv
  <2> QED BY <1>6, <2>1, <2>2
<1> QED BY <1>5, <1>7 DEF MarkInv

\* Markers: a day is marked complete only when both families of that very day were
\* published, whatever failed, timed out or was repeated (MarkedDayIsPublished).
THEOREM MarkedIsPublished == Spec => []MarkedDayIsPublished
<1>1. Init => MarkInv
  <2> SUFFICES ASSUME Init PROVE MarkInv
    OBVIOUS
  <2>1. ASSUME NEW w \in Workers PROVE worker[w].written = {}
    <3>1. Boot.written = {} /\ [Boot EXCEPT !.pc = "disabled"].written = {}
      BY DEF Boot
    <3> QED BY <3>1 DEF Init
  <2> QED BY <2>1 DEF MarkInv, WrittenInv, MarkedDayIsPublished, Init
<1>2. Inv /\ MarkInv /\ [Next]_vars => MarkInv'
  <2> SUFFICES ASSUME Inv, MarkInv, [Next]_vars PROVE MarkInv'
    OBVIOUS
  <2>1. CASE UNCHANGED prefetchVars
    BY <2>1 DEF prefetchVars, MarkInv, WrittenInv, MarkedDayIsPublished
  <2>2. CASE \E w \in Workers : StartRun(w) \/ RunStep(w) \/ Crash(w)
    BY <2>2, MarkStep
  <2>3. CASE Tick
    <3>1. published' = published
      BY <2>3 DEF Tick
    <3>2. WrittenInv'
      BY <2>3, <3>1, WaitedWorker DEF MarkInv, WrittenInv
    <3>3. ASSUME NEW m \in markers' PROVE \E k \in markers : m.day = k.day
      <4>1. markers \subseteq Marker
        BY DEF Inv, RedisOK
      <4>2. PICK k \in markers : m = [k EXCEPT !.ttl = k.ttl - 1]
        BY <2>3, <3>3, <4>1 DEF Tick, Marker
      <4> QED BY <4>1, <4>2 DEF Marker
    <3> QED BY <3>1, <3>2, <3>3 DEF MarkInv, MarkedDayIsPublished
  <2> QED BY <2>1, <2>2, <2>3 DEF Next, vars
<1>3. MarkInv => MarkedDayIsPublished
  BY DEF MarkInv
<1> QED BY <1>1, <1>2, <1>3, Invariant, PTL DEF Spec

-----------------------------------------------------------------------------
(* Recent views *)

\* The rows that had been entered when the source held k of them.
Upto(k) == {r \in source : r.n <= k}

\* The rows are those of the window at one moment, no earlier than t.
Seen(rows, w, t) ==
  \E k \in 0 .. Cardinality(source) :
    /\ rows = time_sliced_rows(Upto(k), w)
    /\ \A r \in source : r.n <= k \/ r.at >= t

\* A view for the question, in which nothing is missing that is too old.
Recent(rows, q, asked) ==
  \E k \in 0 .. Cardinality(source) :
    /\ rows = local_view_rows(Upto(k), q)
    /\ \A r \in source : r.at + Staleness(q, asked) <= asked => r.n <= k

\* A call that has not ended began at most the time ago that it has used up.  What it has
\* read it has read since; what it was served covers the question and is recent.
TimelyCaller(r) ==
  /\ r.asked <= clock
  /\ r.pc \notin {"idle", "done", "failed"} => clock + r.left <= r.asked + MaxRun
  /\ \A i \in DOMAIN r.cands : Covers(r.cands[i], r.q.window)
  /\ r.pc \in {"publish", "writeback"} => Seen(r.res.truth, r.q.window, r.asked)
  /\ r.pc \in {"serve", "shadow"} =>
       /\ Covers(r.hit.window, r.q.window)
       /\ Seen(r.hit.rows, r.hit.window, r.asked + 1 - Staleness(r.q, r.asked))
  /\ r.pc = "done" /\ r.ans.cached => Recent(r.ans.rows, r.q, r.asked)

\* How long ago a snapshot was read, from the life it has left: the short life, or the long
\* one, which only a window has whose last day was over by the time of the write.
Lived(e, t) ==
  \/ clock + e.ttl <= t + MaxRun + UnsettledTTL
  \/ /\ clock + e.ttl <= t + Larger(MaxRun, PrefetchTimeout) + SettledTTL
     /\ e.window.to < DayOf(t + MaxRun)

TimelyEntry(e) ==
  e.ttl >= 1 /\ \E t \in 0 .. clock : Seen(e.rows, e.window, t) /\ Lived(e, t)

\* A run fetches the days before the one it began on, and has done so within its limit.
TimelyWorker(r) ==
  /\ r.pc \notin {"disabled", "boot", "sleep"} => r.day <= Today
  /\ r.pc = "put" =>
       \E t \in 0 .. clock : /\ Seen(r.res.truth, prefetch_window(r.day), t)
                             /\ clock + r.left <= t + PrefetchTimeout
                             /\ r.day <= DayOf(t)

Numbered == \A r \in source : r.n \in 1 .. Cardinality(source)

AgeInv ==
  /\ Numbered
  /\ \A c \in Callers : TimelyCaller(caller[c])
  /\ \A e \in store : TimelyEntry(e)
  /\ \A w \in Workers : TimelyWorker(worker[w])

\* Days do not run backwards.
LEMMA DayMonotone ==
  ASSUME NEW a \in Nat, NEW b \in Nat, a <= b
  PROVE DayOf(a) <= DayOf(b)
  BY CalendarAssumption DEF DayOf

\* The tolerance covers the short life of a snapshot and the long one where it counts.
LEMMA StalenessBounds ==
  ASSUME NEW q \in Question, NEW asked \in Nat
  PROVE /\ Staleness(q, asked) \in Nat /\ Staleness(q, asked) >= UnsettledTTL + MaxRun
        /\ Staleness(q, asked) >= 1
        /\ q.window.to < DayOf(asked) =>
             Staleness(q, asked) >= SettledTTL + Larger(MaxRun, PrefetchTimeout)
<1>1. q.window.to \in Int /\ DayOf(asked) \in Int
  BY DayType DEF Question, Window
<1> QED BY <1>1, CalendarAssumption, PrefetchAssumption DEF Staleness, Larger

\* Every key that is looked up covers the question by itself.
LEMMA CandidatesCover ==
  ASSUME NEW w \in Window, NEW t \in Int, NEW i \in DOMAIN candidates(w, t)
  PROVE Covers(candidates(w, t)[i], w)
<1> DEFINE p == prefetch_window(t)
           previous == prefetch_window(t - 1)
           A == IF Covers(p, w) THEN <<p>> ELSE <<>>
           B == IF Covers(p, w) /\ Covers(previous, w) THEN <<previous>> ELSE <<>>
           Good(s) == s \in Seq(Window) /\ \A j \in 1 .. Len(s) : Covers(s[j], w)
<1>1. p \in Window /\ previous \in Window
  BY PrefetchWindowType
<1>2. Covers(w, w)
  BY DEF Covers, Window
<1>3. Good(A) /\ Good(B)
  BY <1>1
<1>4. ASSUME NEW s, NEW u, Good(s), Good(u) PROVE Good(s \o u)
  <2>1. s \o u \in Seq(Window) /\ Len(s \o u) = Len(s) + Len(u)
    BY <1>4
  <2>2. ASSUME NEW j \in 1 .. Len(s \o u) PROVE Covers((s \o u)[j], w)
    <3>1. Len(s) \in Nat /\ Len(u) \in Nat /\ j \in 1 .. Len(s) + Len(u)
      BY <1>4, <2>1
    <3>2. CASE j <= Len(s)
      <4>1. (s \o u)[j] = s[j] /\ j \in 1 .. Len(s)
        BY <1>4, <3>1, <3>2
      <4> QED BY <1>4, <4>1
    <3>3. CASE j > Len(s)
      <4>1. (s \o u)[j] = u[j - Len(s)] /\ j - Len(s) \in 1 .. Len(u)
        BY <1>4, <3>1, <3>3
      <4> QED BY <1>4, <4>1
    <3> QED BY <3>1, <3>2, <3>3
  <2> QED BY <2>1, <2>2
<1>5. \A s : Good(s) => Good(Append(s, w))
  BY <1>2
<1> HIDE DEF A, B
<1>6. Good(A \o B)
  BY <1>3, <1>4
<1>7. Good(Append(A \o B, w))
  BY <1>5, <1>6
<1>8. candidates(w, t) = A \o B \/ candidates(w, t) = Append(A \o B, w)
  BY DEF candidates, A, B
<1>9. Good(candidates(w, t))
  BY <1>6, <1>7, <1>8
<1> QED BY <1>9

\* What is read now is what was there now.
LEMMA SeenNow ==
  ASSUME Inv, Numbered, NEW w
  PROVE Seen(time_sliced_rows(source, w), w, clock)
<1>1. Cardinality(source) \in Nat
  BY FS_CardinalityType DEF Inv, SourceOK
<1>2. \A r \in source : r.n <= Cardinality(source)
  BY <1>1 DEF Numbered
<1>3. Upto(Cardinality(source)) = source
  BY <1>2 DEF Upto
<1> QED BY <1>1, <1>2, <1>3 DEF Seen

\* What was read since some time was read since any earlier one.
LEMMA SeenEarlier ==
  ASSUME Inv, NEW rows, NEW w, NEW t \in Int, Seen(rows, w, t), NEW u \in Int, u <= t
  PROVE Seen(rows, w, u)
<1>1. \A r \in source : r.at \in Nat
  BY DEF Inv, SourceOK, Row
<1>2. PICK k \in 0 .. Cardinality(source) :
         /\ rows = time_sliced_rows(Upto(k), w)
         /\ \A r \in source : r.n <= k \/ r.at >= t
  BY DEF Seen
<1>3. \A r \in source : r.n <= k \/ r.at >= u
  BY <1>1, <1>2
<1> QED BY <1>2, <1>3 DEF Seen

\* A snapshot that covers the question and is not too old gives a recent view.
LEMMA SeenGivesView ==
  ASSUME Inv, NEW q \in Question, NEW asked \in Nat, NEW w \in Window, Covers(w, q.window),
         NEW rows, Seen(rows, w, asked + 1 - Staleness(q, asked))
  PROVE Recent(local_view_rows(rows, q), q, asked)
<1> DEFINE s == Staleness(q, asked)
<1>1. s \in Nat
  BY StalenessBounds
<1>2. q.window \in Window
  BY DEF Question
<1>3. PICK k \in 0 .. Cardinality(source) :
         /\ rows = time_sliced_rows(Upto(k), w)
         /\ \A r \in source : r.n <= k \/ r.at >= asked + 1 - s
  BY DEF Seen
<1>4. \A r \in source : r.day \in Int /\ r.at \in Nat
  BY DEF Inv, SourceOK, Row
<1>5. \A r \in source : InWindow(r, q.window) => InWindow(r, w)
  BY <1>2, <1>4 DEF InWindow, Covers, Window
<1>6. local_view_rows(rows, q) = local_view_rows(Upto(k), q)
  BY <1>3, <1>5 DEF local_view_rows, scope_filtered_rows, time_sliced_rows, Upto
<1> HIDE DEF s
<1>7. \A r \in source : r.at + s <= asked => r.n <= k
  BY <1>1, <1>3, <1>4
<1> QED BY <1>6, <1>7 DEF Recent, s

\* A snapshot in the store that covers a question of now or before is not too old for it.
LEMMA EntryServes ==
  ASSUME Inv, NEW e \in store, TimelyEntry(e), NEW q \in Question, NEW asked \in Nat,
         asked <= clock, Covers(e.window, q.window)
  PROVE Seen(e.rows, e.window, asked + 1 - Staleness(q, asked))
<1> DEFINE s == Staleness(q, asked)
<1>1. clock \in Nat /\ e \in Entry
  BY DEF Inv, SourceOK, StoreOK, GoodEntry
<1>2. e.ttl \in Nat /\ e.ttl >= 1 /\ e.window.to \in Int /\ q.window.to \in Int
  BY <1>1 DEF TimelyEntry, Entry, Window, Question
<1>3. PICK t \in 0 .. clock : Seen(e.rows, e.window, t) /\ Lived(e, t)
  BY DEF TimelyEntry
<1>4. /\ s \in Nat /\ s >= UnsettledTTL + MaxRun
      /\ q.window.to < DayOf(asked) => s >= SettledTTL + Larger(MaxRun, PrefetchTimeout)
  BY StalenessBounds
<1>5. Larger(MaxRun, PrefetchTimeout) \in Nat /\ MaxRun \in Nat /\ UnsettledTTL \in Nat
      /\ SettledTTL \in Nat
  BY CalendarAssumption, PrefetchAssumption DEF Larger
<1>6. t \in Nat /\ DayOf(asked) \in Nat /\ DayOf(t + MaxRun) \in Nat
  BY <1>1, <1>5, DayType
<1> HIDE DEF s
<1>7. asked + 1 - s <= t
  <2>1. CASE clock + e.ttl <= t + MaxRun + UnsettledTTL
    BY <1>1, <1>2, <1>4, <1>5, <1>6, <2>1
  <2>2. CASE /\ clock + e.ttl <= t + Larger(MaxRun, PrefetchTimeout) + SettledTTL
             /\ e.window.to < DayOf(t + MaxRun)
    <3>1. CASE q.window.to < DayOf(asked)
      BY <1>1, <1>2, <1>4, <1>5, <1>6, <2>2, <3>1
    <3>2. CASE ~(q.window.to < DayOf(asked))
      <4>1. q.window.to <= e.window.to
        BY DEF Covers
      <4>2. DayOf(asked) < DayOf(t + MaxRun)
        BY <1>2, <1>6, <2>2, <3>2, <4>1
      <4>3. ~(t + MaxRun <= asked)
        <5>1. t + MaxRun \in Nat
          BY <1>5, <1>6
        <5> QED BY <1>6, <4>2, <5>1, DayMonotone
      <4> QED BY <1>4, <1>5, <1>6, <4>3
    <3> QED BY <3>1, <3>2
  <2> QED BY <1>3, <2>1, <2>2 DEF Lived
<1> QED BY <1>1, <1>3, <1>4, <1>6, <1>7, SeenEarlier DEF s

\* What is written carries its life: the long one only for days that were over when the MES
\* was read, or that ended while a call of limited length was under way.
LEMMA PublishTimely ==
  ASSUME Inv, AgeInv, NEW op, NEW w \in Window, NEW res, NEW t \in 0 .. clock,
         Seen(res.rows, w, t), UNCHANGED <<clock, source>>, Publish(op, w, res),
         clock <= t + MaxRun \/ (clock <= t + PrefetchTimeout /\ w.to < DayOf(t))
  PROVE \A e \in store' : TimelyEntry(e)
<1> DEFINE f == [op |-> op, window |-> w, rows |-> res.rows, grouped |-> FALSE,
                 ttl |-> entry_ttl(w), truth |-> res.truth, day |-> res.day]
<1>1. clock \in Nat /\ t \in Nat /\ w.to \in Int /\ w.from \in Int
  BY DEF Inv, SourceOK, Window
<1>2. /\ Larger(MaxRun, PrefetchTimeout) \in Nat /\ MaxRun \in Nat /\ UnsettledTTL \in Nat \ {0}
      /\ SettledTTL \in Nat \ {0} /\ PrefetchTimeout \in Nat
      /\ Larger(MaxRun, PrefetchTimeout) >= MaxRun
      /\ Larger(MaxRun, PrefetchTimeout) >= PrefetchTimeout
  BY CalendarAssumption, PrefetchAssumption DEF Larger
<1>3. f.ttl = entry_ttl(w) /\ f.window = w /\ f.rows = res.rows
  OBVIOUS
<1> HIDE DEF f
<1>4. /\ DayOf(t) \in Nat /\ DayOf(clock) \in Nat /\ DayOf(t + MaxRun) \in Nat
      /\ DayOf(t) <= DayOf(clock) /\ DayOf(t) <= DayOf(t + MaxRun)
      /\ clock <= t + MaxRun => DayOf(clock) <= DayOf(t + MaxRun)
  <2>1. t + MaxRun \in Nat /\ t <= t + MaxRun /\ t <= clock
    BY <1>1, <1>2
  <2> QED BY <1>1, <2>1, DayType, DayMonotone
<1>5. \/ entry_ttl(w) = UnsettledTTL /\ w.to >= DayOf(clock)
      \/ entry_ttl(w) = SettledTTL /\ w.to < DayOf(clock)
  BY <1>1, <1>4 DEF entry_ttl, window_category, Today
<1>6. Lived(f, t) /\ f.ttl >= 1
  BY <1>1, <1>2, <1>3, <1>4, <1>5 DEF Lived
<1>7. TimelyEntry(f)
  BY <1>3, <1>6 DEF TimelyEntry
<1>8. store' = (store \ Lookup(op, w)) \cup {f}
  BY DEF Publish, f
<1> QED BY <1>7, <1>8 DEF AgeInv


-----------------------------------------------------------------------------
(* The steps of a call keep time *)

\* What a call carries on, and what it ends with.
LEMMA CallerFields ==
  ASSUME Inv, NEW c \in Callers
  PROVE /\ \A pc : LET g == Goto(c, pc) IN
             /\ g.pc = pc /\ g.q = caller[c].q /\ g.asked = caller[c].asked
             /\ g.left = caller[c].left /\ g.hit = caller[c].hit /\ g.res = caller[c].res
             /\ g.cands = <<>> /\ DOMAIN g = DOMAIN caller[c]
        /\ \A rows, complete, cached : LET f == Finish(c, rows, complete, cached) IN
             /\ f.pc = "done" /\ f.q = caller[c].q /\ f.asked = caller[c].asked
             /\ f.cands = <<>> /\ f.ans.rows = rows /\ f.ans.cached = cached
        /\ Failed(c).pc = "failed" /\ Failed(c).asked = caller[c].asked /\ Failed(c).cands = <<>>
        /\ DOMAIN caller[c] = {"pc", "q", "asked", "left", "locked", "cands", "hit", "res", "ans"}
<1>1. caller[c] \in Caller
  BY CallerRecords DEF Inv
<1>2. DOMAIN caller[c] = {"pc", "q", "asked", "left", "locked", "cands", "hit", "res", "ans"}
  BY <1>1 DEF Caller
<1>3. \A pc : LET g == Goto(c, pc) IN
             /\ g.pc = pc /\ g.q = caller[c].q /\ g.asked = caller[c].asked
             /\ g.left = caller[c].left /\ g.hit = caller[c].hit /\ g.res = caller[c].res
             /\ g.cands = <<>> /\ DOMAIN g = DOMAIN caller[c]
  BY <1>2 DEF Goto
<1>4. \A rows, complete, cached : LET f == Finish(c, rows, complete, cached) IN
             /\ f.pc = "done" /\ f.q = caller[c].q /\ f.asked = caller[c].asked
             /\ f.cands = <<>> /\ f.ans.rows = rows /\ f.ans.cached = cached
  BY DEF Finish, Fresh
<1>5. Failed(c).pc = "failed" /\ Failed(c).asked = caller[c].asked /\ Failed(c).cands = <<>>
  BY DEF Failed, Fresh
<1> QED BY <1>2, <1>3, <1>4, <1>5

\* Going on without a result, ending with what was fetched, and failing keep time.
LEMMA PlainMoves ==
  ASSUME Inv, AgeInv, NEW c \in Callers, Busy(c)
  PROVE /\ \A pc \in {"lock", "realtime", "evict", "discard", "produce"} : TimelyCaller(Goto(c, pc))
        /\ \A rows, complete : TimelyCaller(Finish(c, rows, complete, FALSE))
        /\ TimelyCaller(Failed(c))
<1>1. TimelyCaller(caller[c])
  BY DEF AgeInv
<1>2. caller[c].asked <= clock /\ clock + caller[c].left <= caller[c].asked + MaxRun
  BY <1>1 DEF TimelyCaller, Busy
<1>3. DOMAIN <<>> = {}
  OBVIOUS
<1>4. ASSUME NEW pc \in {"lock", "realtime", "evict", "discard", "produce"}
      PROVE TimelyCaller(Goto(c, pc))
  <2> DEFINE g == Goto(c, pc)
  <2>1. g.pc = pc /\ g.asked = caller[c].asked /\ g.left = caller[c].left /\ g.cands = <<>>
    BY CallerFields
  <2> HIDE DEF g
  <2>2. TimelyCaller(g)
    BY <1>2, <1>3, <2>1 DEF TimelyCaller
  <2> QED BY <2>2 DEF g
<1>5. ASSUME NEW rows, NEW complete PROVE TimelyCaller(Finish(c, rows, complete, FALSE))
  <2> DEFINE f == Finish(c, rows, complete, FALSE)
  <2>1. f.pc = "done" /\ f.asked = caller[c].asked /\ f.cands = <<>> /\ ~f.ans.cached
    BY DEF Finish, Fresh
  <2> HIDE DEF f
  <2>2. TimelyCaller(f)
    BY <1>2, <1>3, <2>1 DEF TimelyCaller
  <2> QED BY <2>2 DEF f
<1>6. TimelyCaller(Failed(c))
  <2> DEFINE f == Failed(c)
  <2>1. f.pc = "failed" /\ f.asked = caller[c].asked /\ f.cands = <<>>
    BY CallerFields
  <2> HIDE DEF f
  <2>2. TimelyCaller(f)
    BY <1>2, <1>3, <2>1 DEF TimelyCaller
  <2> QED BY <2>2 DEF f
<1> QED BY <1>4, <1>5, <1>6

\* One call moves on while the clock and the MES stand still.
Moves(c) == \E r : TimelyCaller(r) /\ caller' = [caller EXCEPT ![c] = r]

LEMMA TimelyUnchanged ==
  ASSUME UNCHANGED <<clock, source>>, NEW r
  PROVE /\ TimelyCaller(r)' <=> TimelyCaller(r)
        /\ TimelyEntry(r)' <=> TimelyEntry(r)
        /\ TimelyWorker(r)' <=> TimelyWorker(r)
  BY DEF TimelyCaller, TimelyEntry, TimelyWorker, Seen, Recent, Upto, Lived, Today

LEMMA MovesKeepTime ==
  ASSUME Inv, AgeInv, NEW c \in Callers, Moves(c), UNCHANGED <<clock, source, worker>>,
         \A e \in store' : TimelyEntry(e)
  PROVE AgeInv'
<1>1. PICK r : TimelyCaller(r) /\ caller' = [caller EXCEPT ![c] = r]
  BY DEF Moves
<1>2. caller = [d \in Callers |-> caller[d]]
  BY DEF Inv, CallersOK
<1>3. \A d \in Callers : TimelyCaller(caller'[d])
  BY <1>1, <1>2 DEF AgeInv
<1>4. (\A d \in Callers : TimelyCaller(caller[d]))'
  BY <1>3, TimelyUnchanged
<1>5. (\A e \in store : TimelyEntry(e))'
  BY TimelyUnchanged
<1>6. (\A w \in Workers : TimelyWorker(worker[w]))'
  BY TimelyUnchanged DEF AgeInv
<1>7. Numbered'
  BY DEF AgeInv, Numbered
<1> QED BY <1>4, <1>5, <1>6, <1>7 DEF AgeInv

\* A question is asked now, with its whole time before it.
LEMMA AskMoves ==
  ASSUME Inv, NEW c \in Callers, NEW q \in Questions, Ask(c, q)
  PROVE Moves(c)
<1> DEFINE w == [from |-> Today + q.window.from, to |-> Today + q.window.to]
           asked == [q EXCEPT !.window = w]
           pc == IF mode = "off" THEN "realtime" ELSE "probe"
           cands == IF mode = "off" THEN <<>> ELSE candidates(w, Today)
           r == [Fresh(asked) EXCEPT !.pc = pc, !.asked = clock, !.cands = cands]
<1>1. Today \in Nat /\ q \in Question /\ clock \in Nat
  BY DayType, CallerAssumption DEF Today, Inv, SourceOK
<1>2. w \in Window
  BY <1>1 DEF Window, Question
<1>3. asked.window = w
  BY <1>1 DEF Question
<1>4. \A i \in DOMAIN cands : Covers(cands[i], w)
  BY <1>1, <1>2, CandidatesCover
<1>5. /\ r.pc = pc /\ r.q = asked /\ r.asked = clock /\ r.left = MaxRun /\ r.cands = cands
  BY DEF Fresh
<1>6. pc \in {"realtime", "probe"} /\ clock + MaxRun <= clock + MaxRun /\ clock <= clock
  BY <1>1, CalendarAssumption
<1>7. caller' = [caller EXCEPT ![c] = r]
  BY DEF Ask
<1> HIDE DEF r, pc, cands, asked, w
<1>8. TimelyCaller(r)
  BY <1>3, <1>4, <1>5, <1>6 DEF TimelyCaller
<1> QED BY <1>7, <1>8 DEF Moves

\* A hit covers the question and is recent; the keys that are left cover it too.
LEMMA ProbeMoves ==
  ASSUME Inv, AgeInv, NEW c \in Callers, Probe(c)
  PROVE Moves(c)
<1> DEFINE cands == caller[c].cands
           q == caller[c].q
           asked == caller[c].asked
           w == Head(cands)
           next == [caller[c] EXCEPT !.cands = Tail(cands)]
           producing == [caller[c] EXCEPT !.pc = "produce", !.cands = <<>>]
           hit(e) == [Goto(c, "serve") EXCEPT !.hit = [rows |-> e.rows, window |-> w]]
<1>1. /\ caller[c] \in Caller /\ GoodCaller(caller[c]) /\ caller[c].pc = "probe" /\ Busy(c)
      /\ TimelyCaller(caller[c])
  BY CallerRecords DEF Inv, Probe, Busy, AgeInv
<1>2. /\ cands \in Seq(Window) /\ cands # <<>> /\ q \in Question /\ asked \in Nat
  BY <1>1 DEF Caller, GoodCaller
<1>3. /\ asked <= clock /\ clock + caller[c].left <= asked + MaxRun
      /\ \A i \in DOMAIN cands : Covers(cands[i], q.window)
  BY <1>1 DEF TimelyCaller
<1>4. Covers(w, q.window) /\ \A i \in DOMAIN Tail(cands) : Covers(Tail(cands)[i], q.window)
  BY <1>2, <1>3
<1>5. TimelyCaller(next)
  <2>1. /\ next.pc = "probe" /\ next.q = q /\ next.asked = asked /\ next.left = caller[c].left
        /\ next.cands = Tail(cands)
    BY <1>1, CallerFields
  <2> HIDE DEF next
  <2> QED BY <1>3, <1>4, <2>1 DEF TimelyCaller
<1>6. TimelyCaller(producing)
  <2>1. /\ producing.pc = "produce" /\ producing.asked = asked /\ producing.left = caller[c].left
        /\ producing.cands = <<>>
    BY <1>1, CallerFields
  <2> HIDE DEF producing
  <2> QED BY <1>3, <2>1 DEF TimelyCaller
<1>7. TimelyCaller(Goto(c, "lock")) /\ TimelyCaller(Goto(c, "realtime"))
  BY <1>1, PlainMoves
<1>8. ASSUME NEW e \in Lookup(q.op, w) PROVE TimelyCaller(hit(e))
  <2> DEFINE h == hit(e)
  <2>1. e \in store /\ e.window = w
    BY DEF Lookup
  <2>2. Seen(e.rows, e.window, asked + 1 - Staleness(q, asked))
    BY <1>2, <1>3, <1>4, <2>1, EntryServes DEF AgeInv
  <2>3. /\ h.pc = "serve" /\ h.q = q /\ h.asked = asked /\ h.left = caller[c].left
        /\ h.cands = <<>> /\ h.hit.rows = e.rows /\ h.hit.window = w
    BY CallerFields
  <2> HIDE DEF h, w
  <2>4. TimelyCaller(h)
    BY <1>3, <1>4, <2>1, <2>2, <2>3 DEF TimelyCaller
  <2> QED BY <2>4 DEF h
<1>9. \/ \E e \in Lookup(q.op, w) : caller' = [caller EXCEPT ![c] = hit(e)]
      \/ caller' = [caller EXCEPT ![c] = next]
      \/ caller' = [caller EXCEPT ![c] = producing]
      \/ caller' = [caller EXCEPT ![c] = Goto(c, "lock")]
      \/ caller' = [caller EXCEPT ![c] = Goto(c, "realtime")]
  BY DEF Probe, Missed
<1> HIDE DEF next, producing, hit
<1> QED BY <1>5, <1>6, <1>7, <1>8, <1>9 DEF Moves

\* Under the lock the keys of today are looked up, which cover the question too.
LEMMA AcquireLockMoves ==
  ASSUME Inv, AgeInv, NEW c \in Callers, AcquireLock(c)
  PROVE Moves(c)
<1> DEFINE w == caller[c].q.window
           cands == candidates(w, Today)
           r == [caller[c] EXCEPT !.pc = "probe", !.locked = TRUE, !.cands = cands]
<1>1. /\ caller[c] \in Caller /\ caller[c].pc = "lock" /\ TimelyCaller(caller[c]) /\ Today \in Nat
  BY CallerRecords, DayType DEF Inv, SourceOK, Today, AcquireLock, AgeInv
<1>2. w \in Window
  BY <1>1 DEF Caller, Question
<1>3. \A i \in DOMAIN cands : Covers(cands[i], w)
  BY <1>1, <1>2, CandidatesCover
<1>4. /\ r.pc = "probe" /\ r.q = caller[c].q /\ r.asked = caller[c].asked
      /\ r.left = caller[c].left /\ r.cands = cands
  BY CallerFields
<1>5. caller' = [caller EXCEPT ![c] = r]
  BY DEF AcquireLock
<1> HIDE DEF r, cands
<1>6. TimelyCaller(r)
  BY <1>1, <1>3, <1>4 DEF TimelyCaller
<1> QED BY <1>5, <1>6 DEF Moves


\* What the owner's credential reads is of now.
LEMMA ProduceMoves ==
  ASSUME Inv, AgeInv, NEW c \in Callers, Produce(c)
  PROVE Moves(c)
<1> DEFINE w == caller[c].q.window
           rows == time_sliced_rows(source, w)
           got(res) == [caller[c] EXCEPT !.pc = "publish", !.res = res]
<1>1. /\ caller[c] \in Caller /\ caller[c].pc = "produce" /\ TimelyCaller(caller[c]) /\ Busy(c)
      /\ SourceOK /\ clock \in Nat
  BY CallerRecords DEF Inv, Produce, AgeInv, Busy, SourceOK
<1>2. caller[c].asked \in Nat /\ caller[c].asked <= clock
      /\ clock + caller[c].left <= caller[c].asked + MaxRun
  BY <1>1 DEF Caller, TimelyCaller
<1>3. Seen(rows, w, caller[c].asked)
  BY <1>1, <1>2, SeenNow, SeenEarlier DEF AgeInv
<1>4. ASSUME NEW res \in BadResults(rows) \cup {Whole(rows)} PROVE TimelyCaller(got(res))
  <2> DEFINE g == got(res)
  <2>1. res.truth = rows
    <3>1. rows \subseteq source
      BY DEF time_sliced_rows
    <3> QED BY <1>1, <3>1, OwnerResult
  <2>2. /\ g.pc = "publish" /\ g.q = caller[c].q /\ g.asked = caller[c].asked
        /\ g.left = caller[c].left /\ g.res = res /\ g.cands = caller[c].cands
    BY CallerFields
  <2> HIDE DEF g, rows
  <2>3. TimelyCaller(g)
    BY <1>1, <1>2, <1>3, <2>1, <2>2 DEF TimelyCaller
  <2> QED BY <2>3 DEF g
<1>5. TimelyCaller(Goto(c, "realtime"))
  BY <1>1, PlainMoves
<1>6. \E res \in BadResults(rows) \cup {Whole(rows)} :
        \/ caller' = [caller EXCEPT ![c] = got(res)]
        \/ caller' = [caller EXCEPT ![c] = Goto(c, "realtime")]
  BY DEF Produce
<1> HIDE DEF got
<1> QED BY <1>4, <1>5, <1>6 DEF Moves

\* A call writes what it has read since it was asked, and used at most its time for it.
LEMMA CallPublishes ==
  ASSUME Inv, AgeInv, NEW c \in Callers, caller[c].pc \in {"publish", "writeback"},
         caller[c].res.rows = caller[c].res.truth,
         UNCHANGED <<clock, source>>,
         Publish(caller[c].q.op, caller[c].q.window, caller[c].res)
  PROVE \A e \in store' : TimelyEntry(e)
<1> DEFINE r == caller[c]
<1>1. r \in Caller /\ TimelyCaller(r) /\ clock \in Nat
  BY CallerRecords DEF Inv, SourceOK, AgeInv
<1>2. r.asked \in Nat /\ r.left \in Nat /\ r.q.window \in Window /\ MaxRun \in Nat
  BY <1>1, CalendarAssumption DEF Caller, Question
<1>3. /\ r.asked <= clock /\ clock + r.left <= r.asked + MaxRun
      /\ Seen(r.res.rows, r.q.window, r.asked)
  BY <1>1 DEF TimelyCaller
<1>4. r.asked \in 0 .. clock /\ clock <= r.asked + MaxRun
  BY <1>1, <1>2, <1>3
<1> QED BY <1>2, <1>3, <1>4, PublishTimely

\* The snapshot that a call has produced is recent for it and for the store.
LEMMA FinishSnapshotMoves ==
  ASSUME Inv, AgeInv, NEW c \in Callers, FinishSnapshot(c)
  PROVE Moves(c) /\ \A e \in store' : TimelyEntry(e)
<1> DEFINE q == caller[c].q
           res == caller[c].res
           asked == caller[c].asked
           used == [Goto(c, "serve") EXCEPT !.res = NoResult,
                                            !.hit = [rows |-> res.rows, window |-> q.window]]
           unused == [Goto(c, "realtime") EXCEPT !.res = NoResult]
<1>1. /\ caller[c] \in Caller /\ caller[c].pc = "publish" /\ TimelyCaller(caller[c]) /\ Busy(c)
      /\ clock \in Nat /\ GoodCaller(caller[c])
  BY CallerRecords DEF Inv, FinishSnapshot, AgeInv, Busy, SourceOK
<1>2. /\ asked \in Nat /\ asked <= clock /\ q \in Question /\ q.window \in Window
      /\ clock + caller[c].left <= asked + MaxRun /\ Seen(res.truth, q.window, asked)
  BY <1>1 DEF Caller, Question, TimelyCaller
<1>3. footer_reconciles(res) => res.rows = res.truth
  BY <1>1 DEF GoodCaller, Trusted
<1>4. footer_reconciles(res) => TimelyCaller(used)
  <2> SUFFICES ASSUME footer_reconciles(res) PROVE TimelyCaller(used)
    OBVIOUS
  <2>1. Staleness(q, asked) \in Nat /\ Staleness(q, asked) >= 1
    BY <1>2, StalenessBounds
  <2>2. asked + 1 - Staleness(q, asked) \in Int /\ asked + 1 - Staleness(q, asked) <= asked
    BY <1>2, <2>1
  <2>3. Seen(res.rows, q.window, asked + 1 - Staleness(q, asked))
    BY <1>2, <1>3, <2>2, SeenEarlier
  <2>4. Covers(q.window, q.window)
    BY <1>2 DEF Covers, Window
  <2>5. /\ used.pc = "serve" /\ used.q = q /\ used.asked = asked /\ used.left = caller[c].left
        /\ used.cands = <<>> /\ used.hit.rows = res.rows /\ used.hit.window = q.window
    BY CallerFields
  <2> HIDE DEF used
  <2> QED BY <1>2, <2>3, <2>4, <2>5 DEF TimelyCaller
<1>5. TimelyCaller(unused)
  <2>1. /\ unused.pc = "realtime" /\ unused.asked = asked /\ unused.left = caller[c].left
        /\ unused.cands = <<>>
    BY CallerFields
  <2> HIDE DEF unused
  <2> QED BY <1>2, <2>1 DEF TimelyCaller
<1>6. \/ footer_reconciles(res) /\ caller' = [caller EXCEPT ![c] = used]
      \/ caller' = [caller EXCEPT ![c] = unused]
  BY DEF FinishSnapshot, write_accepts
<1>7. \/ store' = store
      \/ footer_reconciles(res) /\ Publish(q.op, q.window, res)
  BY DEF FinishSnapshot, write_accepts
<1>8. UNCHANGED <<clock, source>>
  BY DEF FinishSnapshot
<1>9. \A e \in store' : TimelyEntry(e)
  <2>1. CASE store' = store
    BY <2>1 DEF AgeInv
  <2>2. CASE footer_reconciles(res) /\ Publish(q.op, q.window, res)
    BY <1>1, <1>3, <1>8, <2>2, CallPublishes
  <2> QED BY <1>7, <2>1, <2>2
<1> HIDE DEF used, unused
<1> QED BY <1>4, <1>5, <1>6, <1>9 DEF Moves

\* The view of what was served is recent, with or without a comparison.
LEMMA ServeMoves ==
  ASSUME Inv, AgeInv, NEW c \in Callers, Serve(c) \/ Shadow(c)
  PROVE Moves(c)
<1> DEFINE q == caller[c].q
           r == caller[c]
           view == local_view_rows(caller[c].hit.rows, q)
<1>1. /\ r \in Caller /\ r.pc \in {"serve", "shadow"} /\ TimelyCaller(r) /\ Busy(c)
  BY CallerRecords DEF Inv, Serve, Shadow, AgeInv, Busy
<1>2. /\ r.asked \in Nat /\ r.asked <= clock /\ q \in Question /\ r.hit.window \in Window
      /\ clock + r.left <= r.asked + MaxRun
      /\ Covers(r.hit.window, q.window)
      /\ Seen(r.hit.rows, r.hit.window, r.asked + 1 - Staleness(q, r.asked))
  BY <1>1 DEF Caller, Hit, TimelyCaller
<1>3. Recent(view, q, r.asked)
  BY <1>2, SeenGivesView
<1>4. ASSUME NEW complete, NEW cached PROVE TimelyCaller(Finish(c, view, complete, cached))
  <2> DEFINE f == Finish(c, view, complete, cached)
  <2>1. f.pc = "done" /\ f.q = q /\ f.asked = r.asked /\ f.cands = <<>> /\ f.ans.rows = view
    BY CallerFields
  <2> HIDE DEF f, view
  <2>2. TimelyCaller(f)
    BY <1>2, <1>3, <2>1 DEF TimelyCaller
  <2> QED BY <2>2 DEF f, view
<1>5. TimelyCaller(Goto(c, "shadow"))
  <2> DEFINE g == Goto(c, "shadow")
  <2>1. /\ g.pc = "shadow" /\ g.q = q /\ g.asked = r.asked /\ g.left = r.left /\ g.hit = r.hit
        /\ g.cands = <<>>
    BY CallerFields
  <2> HIDE DEF g
  <2>2. TimelyCaller(g)
    BY <1>2, <2>1 DEF TimelyCaller
  <2> QED BY <2>2 DEF g
<1>6. ASSUME NEW res PROVE TimelyCaller([Goto(c, "discard") EXCEPT !.res = res])
  <2> DEFINE g == [Goto(c, "discard") EXCEPT !.res = res]
  <2>1. g.pc = "discard" /\ g.asked = r.asked /\ g.left = r.left /\ g.cands = <<>>
    BY CallerFields
  <2> HIDE DEF g
  <2>2. TimelyCaller(g)
    BY <1>2, <2>1 DEF TimelyCaller
  <2> QED BY <2>2 DEF g
<1>7. TimelyCaller(Goto(c, "evict")) /\ TimelyCaller(Failed(c))
  BY <1>1, PlainMoves
<1>8. \/ caller' = [caller EXCEPT ![c] = Failed(c)]
      \/ caller' = [caller EXCEPT ![c] = Goto(c, "evict")]
      \/ caller' = [caller EXCEPT ![c] = Goto(c, "shadow")]
      \/ \E res : caller' = [caller EXCEPT ![c] = [Goto(c, "discard") EXCEPT !.res = res]]
      \/ \E complete, cached : caller' = [caller EXCEPT ![c] = Finish(c, view, complete, cached)]
  <2>1. CASE Serve(c)
    BY <2>1 DEF Serve
  <2>2. CASE Shadow(c)
    BY <2>2 DEF Shadow
  <2> QED BY <2>1, <2>2
<1> HIDE DEF view
<1>9. CASE \E complete, cached : caller' = [caller EXCEPT ![c] = Finish(c, view, complete, cached)]
  BY <1>4, <1>9 DEF Moves
<1>10. CASE \E res : caller' = [caller EXCEPT ![c] = [Goto(c, "discard") EXCEPT !.res = res]]
  BY <1>6, <1>10 DEF Moves
<1> QED BY <1>5, <1>7, <1>8, <1>9, <1>10 DEF Moves

\* Dropping a key shortens no life and lengthens none.
LEMMA DropMoves ==
  ASSUME Inv, AgeInv, NEW c \in Callers, Discard(c) \/ Evict(c)
  PROVE Moves(c) /\ \A e \in store' : TimelyEntry(e)
<1>1. Busy(c) /\ TimelyCaller(caller[c])
  BY DEF Discard, Evict, Busy, AgeInv
<1>2. TimelyCaller(Finish(c, caller[c].res.rows, caller[c].res.complete, FALSE))
  BY <1>1, PlainMoves
<1>3. TimelyCaller([Goto(c, "realtime") EXCEPT !.hit = NoHit])
  <2> DEFINE g == [Goto(c, "realtime") EXCEPT !.hit = NoHit]
  <2>1. g.pc = "realtime" /\ g.asked = caller[c].asked /\ g.left = caller[c].left /\ g.cands = <<>>
    BY CallerFields
  <2>2. caller[c].asked <= clock /\ clock + caller[c].left <= caller[c].asked + MaxRun
    BY <1>1 DEF TimelyCaller, Busy
  <2> HIDE DEF g
  <2>3. TimelyCaller(g)
    BY <2>1, <2>2 DEF TimelyCaller
  <2> QED BY <2>3 DEF g
<1>4. store' \subseteq store
  BY DEF Discard, Evict, Drop, Evicted
<1>5. Moves(c)
  BY <1>2, <1>3 DEF Moves, Discard, Evict
<1> QED BY <1>4, <1>5 DEF AgeInv


\* The fallback holds, as history, what the owner would have seen now.
LEMMA FetchRealtimeMoves ==
  ASSUME Inv, AgeInv, NEW c \in Callers, FetchRealtime(c)
  PROVE Moves(c)
<1> DEFINE q == caller[c].q
           r == caller[c]
           all == time_sliced_rows(source, q.window)
           kept(res) == [Goto(c, "writeback") EXCEPT !.res = res]
<1>1. /\ r \in Caller /\ TimelyCaller(r) /\ Busy(c) /\ clock \in Nat
  BY CallerRecords DEF Inv, FetchRealtime, AgeInv, Busy, SourceOK
<1>2. /\ r.asked \in Nat /\ r.asked <= clock /\ clock + r.left <= r.asked + MaxRun
  BY <1>1 DEF Caller, TimelyCaller, Busy
<1>3. Seen(all, q.window, r.asked)
  BY <1>1, <1>2, SeenNow, SeenEarlier DEF AgeInv
<1>4. ASSUME NEW res \in Received(c) PROVE TimelyCaller(kept(res))
  <2> DEFINE g == kept(res)
  <2>1. res.truth = all
    <3>1. PICK got : res = [got EXCEPT !.truth = all]
      BY DEF Received, Realtime
    <3>2. "truth" \in DOMAIN res
      BY ReceivedGood DEF Result
    <3> HIDE DEF all
    <3> QED BY <3>1, <3>2
  <2>2. /\ g.pc = "writeback" /\ g.q = q /\ g.asked = r.asked /\ g.left = r.left
        /\ g.cands = <<>> /\ g.res = res
    BY CallerFields
  <2> HIDE DEF g, all
  <2>3. TimelyCaller(g)
    BY <1>2, <1>3, <2>1, <2>2 DEF TimelyCaller
  <2> QED BY <2>3 DEF g
<1>5. TimelyCaller(Failed(c)) /\ \A res : TimelyCaller(Finish(c, res.rows, res.complete, FALSE))
  BY <1>1, PlainMoves
<1>6. \/ caller' = [caller EXCEPT ![c] = Failed(c)]
      \/ \E res \in Received(c) :
           \/ caller' = [caller EXCEPT ![c] = kept(res)]
           \/ caller' = [caller EXCEPT ![c] = Finish(c, res.rows, res.complete, FALSE)]
  BY DEF FetchRealtime, Received
<1> HIDE DEF kept
<1> QED BY <1>4, <1>5, <1>6 DEF Moves

\* A call that is written back or stopped leaves snapshots of its own time.
LEMMA EndMoves ==
  ASSUME Inv, AgeInv, NEW c \in Callers, WriteBack(c) \/ Stop(c)
  PROVE Moves(c) /\ \A e \in store' : TimelyEntry(e)
<1> DEFINE q == caller[c].q
           res == caller[c].res
<1>1. Busy(c) /\ caller[c] \in Caller /\ GoodCaller(caller[c])
  BY CallerRecords DEF Inv, WriteBack, Stop, Busy
<1>2. TimelyCaller(Failed(c)) /\ TimelyCaller(Finish(c, res.rows, res.complete, FALSE))
  BY <1>1, PlainMoves
<1>3. Moves(c)
  BY <1>2 DEF WriteBack, Stop, Moves
<1>4. UNCHANGED <<clock, source>>
  BY DEF WriteBack, Stop
<1>5. \/ store' \subseteq store
      \/ /\ caller[c].pc = "writeback" /\ maybe_write(q, res) /\ write_accepts(res, q.grouped)
         /\ Publish(q.op, q.window, res)
      \/ /\ caller[c].pc = "publish" /\ footer_reconciles(res) /\ Publish(q.op, q.window, res)
  BY DEF WriteBack, Stop, Evicted, write_accepts
<1>6. CASE store' \subseteq store
  BY <1>3, <1>6 DEF AgeInv
<1>7. CASE /\ caller[c].pc = "writeback" /\ maybe_write(q, res) /\ write_accepts(res, q.grouped)
           /\ Publish(q.op, q.window, res)
  <2>1. res.rows = res.truth
    BY <1>1, <1>7 DEF GoodCaller, Trusted, maybe_write, write_accepts
  <2> QED BY <1>3, <1>4, <1>7, <2>1, CallPublishes
<1>8. CASE caller[c].pc = "publish" /\ footer_reconciles(res) /\ Publish(q.op, q.window, res)
  <2>1. res.rows = res.truth
    BY <1>1, <1>8 DEF GoodCaller, Trusted
  <2> QED BY <1>3, <1>4, <1>8, <2>1, CallPublishes
<1> QED BY <1>5, <1>6, <1>7, <1>8

\* Every step of a call keeps time.
LEMMA CallKeepsTime ==
  ASSUME Inv, AgeInv, NEW c \in Callers, CallerStep(c), UNCHANGED prefetchVars
  PROVE AgeInv'
<1>1. UNCHANGED <<clock, source, worker>>
  BY DEF CallerStep, Probe, AcquireLock, Produce, FinishSnapshot, Serve, Shadow, Discard,
         Evict, FetchRealtime, WriteBack, Stop, prefetchVars
<1>2. \A e \in store : TimelyEntry(e)
  BY DEF AgeInv
<1>3. CASE Probe(c)
  <2>1. store' = store /\ Moves(c)
    BY <1>3, ProbeMoves DEF Probe
  <2> QED BY <1>1, <1>2, <2>1, MovesKeepTime
<1>4. CASE AcquireLock(c)
  <2>1. store' = store /\ Moves(c)
    BY <1>4, AcquireLockMoves DEF AcquireLock
  <2> QED BY <1>1, <1>2, <2>1, MovesKeepTime
<1>5. CASE Produce(c)
  <2>1. store' = store /\ Moves(c)
    BY <1>5, ProduceMoves DEF Produce
  <2> QED BY <1>1, <1>2, <2>1, MovesKeepTime
<1>6. CASE FinishSnapshot(c)
  BY <1>1, <1>6, FinishSnapshotMoves, MovesKeepTime
<1>7. CASE Serve(c) \/ Shadow(c)
  <2>1. store' = store /\ Moves(c)
    BY <1>7, ServeMoves DEF Serve, Shadow
  <2> QED BY <1>1, <1>2, <2>1, MovesKeepTime
<1>8. CASE Discard(c) \/ Evict(c)
  BY <1>1, <1>8, DropMoves, MovesKeepTime
<1>9. CASE FetchRealtime(c)
  <2>1. store' = store /\ Moves(c)
    BY <1>9, FetchRealtimeMoves DEF FetchRealtime
  <2> QED BY <1>1, <1>2, <2>1, MovesKeepTime
<1>10. CASE WriteBack(c) \/ Stop(c)
  BY <1>1, <1>10, EndMoves, MovesKeepTime
<1> QED BY <1>3, <1>4, <1>5, <1>6, <1>7, <1>8, <1>9, <1>10 DEF CallerStep

-----------------------------------------------------------------------------
(* New rows, the worker and the clock *)

\* A new row has the next number and comes after everything that was read.
LEMMA SeenStays ==
  ASSUME Inv, Numbered, NEW kind \in EntryKinds, Record(kind)
  PROVE /\ Numbered'
        /\ \A k \in 0 .. Cardinality(source) : Upto(k)' = Upto(k)
        /\ Cardinality(source) <= Cardinality(source') /\ Cardinality(source') \in Nat
        /\ \A rows, w : \A t \in Int : t <= clock /\ Seen(rows, w, t) => Seen(rows, w, t)'
        /\ \A rows : \A q \in Question : \A asked \in Nat :
             asked <= clock /\ Recent(rows, q, asked) => Recent(rows, q, asked)'
<1> DEFINE n == Cardinality(source)
           new == [n |-> n + 1, day |-> Today + kind[1], dept |-> kind[2], at |-> clock]
<1>1. n \in Nat /\ clock \in Nat /\ IsFiniteSet(source)
  BY FS_CardinalityType DEF Inv, SourceOK
<1>2. source' = source \cup {new} /\ clock' = clock
  BY DEF Record
<1>3. new.n = n + 1 /\ new.at = clock
  OBVIOUS
<1>4. \A r \in source : r.n \in 1 .. n
  BY DEF Numbered
<1>5. new \notin source
  BY <1>1, <1>3, <1>4
<1>6. Cardinality(source') = n + 1
  BY <1>1, <1>2, <1>5, FS_AddElement
<1> HIDE DEF new
<1>7. Numbered'
  BY <1>1, <1>2, <1>3, <1>4, <1>6 DEF Numbered
<1>8. ASSUME NEW k \in 0 .. n PROVE Upto(k)' = Upto(k)
  <2>1. ~(new.n <= k)
    BY <1>1, <1>3
  <2> QED BY <1>2, <2>1 DEF Upto
<1>9. ASSUME NEW rows, NEW w, NEW t \in Int, t <= clock, Seen(rows, w, t) PROVE Seen(rows, w, t)'
  <2>1. PICK k \in 0 .. n : /\ rows = time_sliced_rows(Upto(k), w)
                            /\ \A r \in source : r.n <= k \/ r.at >= t
    BY <1>9 DEF Seen
  <2>2. k \in 0 .. Cardinality(source')
    BY <1>1, <1>6
  <2>3. \A r \in source' : r.n <= k \/ r.at >= t
    BY <1>1, <1>2, <1>3, <1>9, <2>1
  <2>4. rows = time_sliced_rows(Upto(k), w)'
    BY <1>8, <2>1 DEF time_sliced_rows
  <2> QED BY <2>2, <2>3, <2>4 DEF Seen
<1>10. ASSUME NEW rows, NEW q \in Question, NEW asked \in Nat, asked <= clock,
              Recent(rows, q, asked)
       PROVE Recent(rows, q, asked)'
  <2>1. PICK k \in 0 .. n : /\ rows = local_view_rows(Upto(k), q)
                            /\ \A r \in source : r.at + Staleness(q, asked) <= asked => r.n <= k
    BY <1>10 DEF Recent
  <2>2. k \in 0 .. Cardinality(source')
    BY <1>1, <1>6
  <2>3. Staleness(q, asked) \in Nat /\ Staleness(q, asked) >= 1
    BY StalenessBounds
  <2>4. ~(new.at + Staleness(q, asked) <= asked)
    BY <1>1, <1>3, <1>10, <2>3
  <2>5. \A r \in source' : r.at + Staleness(q, asked) <= asked => r.n <= k
    BY <1>2, <2>1, <2>4
  <2>6. rows = local_view_rows(Upto(k), q)'
    BY <1>8, <2>1 DEF local_view_rows, scope_filtered_rows, time_sliced_rows
  <2> QED BY <2>2, <2>5, <2>6 DEF Recent
<1> QED BY <1>1, <1>6, <1>7, <1>8, <1>9, <1>10

\* So whatever was timely stays so.
LEMMA TimelyStays ==
  ASSUME Inv, AgeInv, NEW kind \in EntryKinds, Record(kind)
  PROVE /\ \A r \in Caller : TimelyCaller(r) => TimelyCaller(r)'
        /\ \A e \in store : TimelyEntry(e)'
        /\ \A r \in Worker : TimelyWorker(r) => TimelyWorker(r)'
<1>1. clock' = clock /\ clock \in Nat /\ Numbered
  BY DEF Record, Inv, SourceOK, AgeInv
<1>2. ASSUME NEW r \in Caller, TimelyCaller(r) PROVE TimelyCaller(r)'
  <2>1. r.asked \in Nat /\ r.q \in Question /\ r.asked <= clock
    BY <1>2 DEF Caller, TimelyCaller
  <2>2. Staleness(r.q, r.asked) \in Nat /\ Staleness(r.q, r.asked) >= 1
    BY <2>1, StalenessBounds
  <2> DEFINE t == r.asked + 1 - Staleness(r.q, r.asked)
  <2>3. t \in Int /\ t <= clock
    BY <1>1, <2>1, <2>2
  <2> HIDE DEF t
  <2>4. Seen(r.res.truth, r.q.window, r.asked) => Seen(r.res.truth, r.q.window, r.asked)'
    BY <1>1, <2>1, SeenStays
  <2>5. Seen(r.hit.rows, r.hit.window, t) => Seen(r.hit.rows, r.hit.window, t)'
    BY <1>1, <2>3, SeenStays
  <2>6. Recent(r.ans.rows, r.q, r.asked) => Recent(r.ans.rows, r.q, r.asked)'
    BY <1>1, <2>1, SeenStays
  <2> QED BY <1>1, <1>2, <2>4, <2>5, <2>6 DEF TimelyCaller, t
<1>3. ASSUME NEW e \in store PROVE TimelyEntry(e)'
  <2>1. TimelyEntry(e)
    BY DEF AgeInv
  <2>2. PICK t \in 0 .. clock : Seen(e.rows, e.window, t) /\ Lived(e, t)
    BY <2>1 DEF TimelyEntry
  <2>3. Seen(e.rows, e.window, t)'
    BY <1>1, <2>2, SeenStays
  <2>4. Lived(e, t)'
    BY <1>1, <2>2 DEF Lived
  <2> QED BY <1>1, <2>1, <2>3, <2>4 DEF TimelyEntry
<1>4. ASSUME NEW r \in Worker, TimelyWorker(r) PROVE TimelyWorker(r)'
  <2>1. CASE r.pc # "put"
    BY <1>1, <1>4, <2>1 DEF TimelyWorker, Today
  <2>2. CASE r.pc = "put"
    <3>1. PICK t \in 0 .. clock : /\ Seen(r.res.truth, prefetch_window(r.day), t)
                                  /\ clock + r.left <= t + PrefetchTimeout
                                  /\ r.day <= DayOf(t)
      BY <1>4, <2>2 DEF TimelyWorker
    <3>2. Seen(r.res.truth, prefetch_window(r.day), t)'
      BY <1>1, <3>1, SeenStays
    <3> QED BY <1>1, <1>4, <3>1, <3>2 DEF TimelyWorker, Today
  <2> QED BY <2>1, <2>2
<1> QED BY <1>2, <1>3, <1>4

LEMMA RecordKeepsTime ==
  ASSUME Inv, AgeInv, NEW kind \in EntryKinds, Record(kind), UNCHANGED prefetchVars
  PROVE AgeInv'
<1>1. UNCHANGED <<store, caller, worker>> /\ Numbered
  BY DEF Record, prefetchVars, AgeInv
<1>2. Numbered'
  BY <1>1, SeenStays
<1>3. (\A c \in Callers : TimelyCaller(caller[c]))'
  <2>1. \A c \in Callers : caller[c] \in Caller /\ TimelyCaller(caller[c])
    BY CallerRecords DEF Inv, AgeInv
  <2> QED BY <1>1, <2>1, TimelyStays
<1>4. (\A e \in store : TimelyEntry(e))'
  BY <1>1, TimelyStays
<1>5. (\A w \in Workers : TimelyWorker(worker[w]))'
  <2>1. \A w \in Workers : worker[w] \in Worker /\ TimelyWorker(worker[w])
    BY WorkerRecords DEF AgeInv
  <2> QED BY <1>1, <2>1, TimelyStays
<1> QED BY <1>2, <1>3, <1>4, <1>5 DEF AgeInv

\* A run fetches no later day than the one it began on, and what it writes was read within
\* its limit and after the last day of its window.
LEMMA RunKeepsTime ==
  ASSUME Inv, AgeInv, NEW w \in Workers, StartRun(w) \/ RunStep(w) \/ Crash(w)
  PROVE /\ \A v \in Workers : TimelyWorker(worker'[v])
        /\ \A e \in store' : TimelyEntry(e)
<1> DEFINE me == worker[w]
<1>1. /\ me \in Worker /\ GoodWorker(me) /\ TimelyWorker(me)
      /\ worker = [v \in Workers |-> worker[v]]
  BY WorkerRecords DEF Inv, WorkersOK, AgeInv
<1>2. /\ clock \in Nat /\ Today \in Nat /\ Numbered /\ SourceOK
      /\ UNCHANGED <<clock, source>>
  BY DayType DEF Inv, SourceOK, Today, AgeInv, StartRun, RunStep, Crash, AcquireLease, ReadMarker,
                 Fetch, Put, Mark, Release, Timeout
<1>3. \A v \in Workers : v # w => worker'[v] = worker[v]
  BY <1>1 DEF StartRun, RunStep, Crash, AcquireLease, ReadMarker, Fetch, Put, Mark, Release,
              Timeout
<1>4. TimelyWorker(worker'[w])
  <2>1. CASE StartRun(w) \/ Crash(w) \/ Release(w) \/ Timeout(w)
    <3> DEFINE r == [Boot EXCEPT !.pc = "lease", !.day = Today, !.phase = phase_at(clock),
                                 !.retry = me.retry]
    <3>1. me.retry \in BOOLEAN /\ r.pc = "lease" /\ r.day = Today
      BY <1>1, WorkerRecords DEF Worker
    <3>2. \/ worker'[w] = r
          \/ worker'[w].pc \in {"sleep", "boot"}
      BY <1>1, <2>1, <3>1, WorkerRecords DEF StartRun, Crash, Release, Timeout
    <3> HIDE DEF r
    <3> QED BY <1>2, <3>1, <3>2 DEF TimelyWorker
  <2>2. CASE AcquireLease(w)
    <3>1. \/ worker' = [worker EXCEPT ![w] = Sleep(TRUE)]
          \/ worker' = [worker EXCEPT ![w].pc = "marker"] /\ me.pc = "lease"
      BY <2>2 DEF AcquireLease
    <3>2. \/ worker'[w].pc = "sleep"
          \/ worker'[w].pc = "marker" /\ worker'[w].day = me.day /\ me.pc = "lease"
      BY <1>1, <3>1, WorkerRecords DEF Worker
    <3> QED BY <1>1, <3>2 DEF TimelyWorker
  <2>3. CASE Fetch(w)
    <3> DEFINE win == prefetch_window(me.day)
               rows == time_sliced_rows(source, win)
               got(res) == [me EXCEPT !.pc = "put", !.res = res]
    <3>1. me.pc = "fetch" /\ me.day <= Today /\ me.left <= PrefetchTimeout /\ me.left \in Nat
      BY <1>1, <2>3 DEF Fetch, TimelyWorker, GoodWorker, Worker
    <3>2. PICK res \in BadResults(rows) \cup {Whole(rows)} :
            \/ worker' = [worker EXCEPT ![w] = got(res)]
            \/ worker' = [worker EXCEPT ![w] = FinishPlan(w, me.written)]
      BY <2>3 DEF Fetch
    <3>3. CASE worker' = [worker EXCEPT ![w] = got(res)]
      <4> DEFINE g == got(res)
      <4>1. worker'[w] = g
        BY <1>1, <3>3
      <4>2. g.pc = "put" /\ g.day = me.day /\ g.left = me.left /\ g.res = res
        BY <1>1 DEF Worker
      <4>3. res.truth = rows
        <5>1. rows \subseteq source
          BY DEF time_sliced_rows
        <5> QED BY <1>2, <5>1, OwnerResult
      <4>4. Seen(rows, win, clock)
        BY <1>2, SeenNow
      <4>5. clock \in 0 .. clock /\ clock + me.left <= clock + PrefetchTimeout
            /\ me.day <= DayOf(clock)
        BY <1>2, <3>1, PrefetchAssumption DEF Today
      <4> HIDE DEF g, rows
      <4>6. TimelyWorker(g)
        BY <3>1, <4>2, <4>3, <4>4, <4>5 DEF TimelyWorker
      <4> QED BY <4>1, <4>6
    <3>4. CASE worker' = [worker EXCEPT ![w] = FinishPlan(w, me.written)]
      <4>1. worker'[w] = FinishPlan(w, me.written)
        BY <1>1, <3>4
      <4>2. FinishPlan(w, me.written).day = me.day /\ FinishPlan(w, me.written).pc \in {"mark", "fetch"}
        BY <1>1 DEF FinishPlan, Worker
      <4> QED BY <3>1, <4>1, <4>2 DEF TimelyWorker
    <3> QED BY <3>2, <3>3, <3>4
  <2>4. CASE ReadMarker(w) \/ Put(w) \/ Mark(w)
    <3>1. worker'[w].day = me.day
      BY <2>4, KeepsDay
    <3>2. me.pc \notin {"disabled", "boot", "sleep"}
      BY <2>4 DEF ReadMarker, Put, Mark
    <3>3. worker'[w].pc # "put"
      <4>1. CASE ReadMarker(w)
        <5> DEFINE a == [worker[w] EXCEPT !.pc = "release", !.retry = FALSE]
                   b == [worker[w] EXCEPT !.pc = "fetch"]
        <5>1. a.pc = "release" /\ b.pc = "fetch"
          BY <1>1 DEF Worker
        <5>2. worker' = [worker EXCEPT ![w] = a] \/ worker' = [worker EXCEPT ![w] = b]
          BY <4>1 DEF ReadMarker
        <5> HIDE DEF a, b
        <5> QED BY <1>1, <5>1, <5>2
      <4>2. CASE Put(w)
        <5>1. \A written : FinishPlan(w, written).pc \in {"mark", "fetch"}
          BY <1>1 DEF FinishPlan, Worker
        <5> QED BY <1>1, <4>2, <5>1 DEF Put
      <4>3. CASE Mark(w)
        BY <1>1, <4>3 DEF Mark, Worker
      <4> QED BY <2>4, <4>1, <4>2, <4>3
    <3> QED BY <1>1, <3>1, <3>2, <3>3 DEF TimelyWorker
  <2> QED BY <2>1, <2>2, <2>3, <2>4 DEF RunStep
<1>5. \/ store' = store
      \/ me.pc = "put" /\ write_accepts(me.res, FALSE) /\ PublishPlan(w)
  BY DEF StartRun, RunStep, Crash, AcquireLease, ReadMarker, Fetch, Put, Mark, Release, Timeout
<1>6. \A e \in store' : TimelyEntry(e)
  <2>1. CASE store' = store
    BY <2>1 DEF AgeInv
  <2>2. CASE me.pc = "put" /\ write_accepts(me.res, FALSE) /\ PublishPlan(w)
    <3> DEFINE win == prefetch_window(me.day)
    <3>1. PICK t \in 0 .. clock : /\ Seen(me.res.truth, win, t)
                                  /\ clock + me.left <= t + PrefetchTimeout
                                  /\ me.day <= DayOf(t)
      BY <1>1, <2>2 DEF TimelyWorker
    <3>2. me.res.rows = me.res.truth /\ win \in Window
      BY <1>1, <2>2, PlanType DEF GoodWorker, Trusted, write_accepts
    <3>3. me.left \in Nat /\ me.day \in Nat /\ win.to = me.day - 1 /\ PrefetchTimeout \in Nat
      BY <1>1, PrefetchAssumption DEF Worker, prefetch_window
    <3>4. t \in Nat /\ DayOf(t) \in Nat
      BY <1>2, DayType
    <3>5. clock <= t + PrefetchTimeout /\ win.to < DayOf(t)
      BY <1>2, <3>1, <3>3, <3>4
    <3>6. Publish(Plan(w), win, me.res)
      BY <2>2 DEF PublishPlan
    <3> QED BY <1>2, <3>1, <3>2, <3>5, <3>6, PublishTimely
  <2> QED BY <1>5, <2>1, <2>2
<1> QED BY <1>3, <1>4, <1>6 DEF AgeInv

LEMMA WorkersKeepTime ==
  ASSUME Inv, AgeInv, NEW w \in Workers, StartRun(w) \/ RunStep(w) \/ Crash(w)
  PROVE AgeInv'
<1>1. UNCHANGED <<clock, source, caller>>
  BY DEF StartRun, RunStep, Crash, AcquireLease, ReadMarker, Fetch, Put, Mark, Release, Timeout
<1>2. (\A c \in Callers : TimelyCaller(caller[c]))'
  BY <1>1, TimelyUnchanged DEF AgeInv
<1>3. (\A e \in store : TimelyEntry(e))'
  BY <1>1, RunKeepsTime, TimelyUnchanged
<1>4. (\A v \in Workers : TimelyWorker(worker[v]))'
  BY <1>1, RunKeepsTime, TimelyUnchanged
<1>5. Numbered'
  BY <1>1 DEF AgeInv, Numbered
<1> QED BY <1>2, <1>3, <1>4, <1>5 DEF AgeInv

\* Asking a question keeps time.
LEMMA AskKeepsTime ==
  ASSUME Inv, AgeInv, NEW c \in Callers, NEW q \in Questions, Ask(c, q), UNCHANGED prefetchVars
  PROVE AgeInv'
<1>1. UNCHANGED <<clock, source, worker>> /\ store' = store
  BY DEF Ask, prefetchVars
<1>2. \A e \in store' : TimelyEntry(e)
  BY <1>1 DEF AgeInv
<1> QED BY <1>1, <1>2, AskMoves, MovesKeepTime

\* The clock moves on by one at most, and a call loses as much of its time.
LEMMA CallerWaits ==
  ASSUME Inv, AgeInv, Tick, NEW c \in Callers
  PROVE TimelyCaller(caller[c])'
<1> DEFINE r == caller[c]
           f == caller'[c]
<1>1. r \in Caller /\ TimelyCaller(r) /\ clock \in Nat
  BY CallerRecords DEF Inv, SourceOK, AgeInv
<1>2. source' = source /\ clock <= clock' /\ clock' <= clock + 1 /\ clock' \in Nat
  BY <1>1, CalendarAssumption DEF Tick
<1>3. r.left \in Nat /\ r.asked \in Nat
  BY <1>1 DEF Caller
<1>4. f = IF Busy(c) THEN [r EXCEPT !.left = r.left - 1] ELSE r
  BY <1>1 DEF Tick, WaitedCallers, Caller
<1>5. /\ f.pc = r.pc /\ f.q = r.q /\ f.asked = r.asked /\ f.cands = r.cands
      /\ f.res = r.res /\ f.hit = r.hit /\ f.ans = r.ans
      /\ Busy(c) => f.left = r.left - 1
  BY <1>1, <1>4 DEF Caller
<1>6. r.pc \notin {"idle", "done", "failed"} <=> Busy(c)
  BY DEF Busy
<1>7. PICK x : x = f
  OBVIOUS
<1>8. PICK y : y = r
  OBVIOUS
<1> HIDE DEF f, r
<1>9. y.asked <= clock' /\ (y.pc \notin {"idle", "done", "failed"} => clock' + x.left <= y.asked + MaxRun)
  BY <1>1, <1>2, <1>3, <1>5, <1>6, <1>7, <1>8, CalendarAssumption DEF TimelyCaller
<1>10. \A rows, w, t : Seen(rows, w, t)' <=> Seen(rows, w, t)
  BY <1>2 DEF Seen, Upto
<1>11. \A rows, q, t : Recent(rows, q, t)' <=> Recent(rows, q, t)
  BY <1>2 DEF Recent, Upto
<1>12. TimelyCaller(x)'
  BY <1>1, <1>5, <1>7, <1>8, <1>9, <1>10, <1>11 DEF TimelyCaller
<1> QED BY <1>7, <1>12 DEF f

\* A snapshot loses a tick of its life in a tick.
LEMMA EntryAges ==
  ASSUME Inv, AgeInv, Tick, NEW f \in store'
  PROVE TimelyEntry(f)'
<1>1. clock \in Nat /\ \A e \in store : e \in Entry /\ TimelyEntry(e)
  BY DEF Inv, SourceOK, StoreOK, GoodEntry, AgeInv
<1>2. source' = source /\ clock <= clock' /\ clock' <= clock + 1 /\ clock' \in Nat
  BY <1>1, CalendarAssumption DEF Tick
<1>3. PICK e \in store : e.ttl > 1 /\ f = [e EXCEPT !.ttl = e.ttl - 1]
  BY <1>1 DEF Tick, AgedStore, Entry
<1>4. /\ e.ttl \in Nat /\ f.ttl = e.ttl - 1 /\ f.rows = e.rows /\ f.window = e.window
  BY <1>1, <1>3 DEF Entry
<1>5. PICK t \in 0 .. clock : Seen(e.rows, e.window, t) /\ Lived(e, t)
  BY <1>1 DEF TimelyEntry
<1>6. t \in 0 .. clock' /\ clock' + f.ttl <= clock + e.ttl /\ f.ttl >= 1
  BY <1>1, <1>2, <1>3, <1>4, <1>5
<1>7. Seen(f.rows, f.window, t)'
  BY <1>2, <1>4, <1>5 DEF Seen, Upto
<1>8. Lived(f, t)'
  <2>1. \A n \in Int : clock + e.ttl <= n => clock' + f.ttl <= n
    BY <1>1, <1>2, <1>4, <1>6
  <2>2. t + MaxRun + UnsettledTTL \in Int
        /\ t + Larger(MaxRun, PrefetchTimeout) + SettledTTL \in Int
    BY <1>1, <1>5, CalendarAssumption, PrefetchAssumption DEF Larger
  <2> QED BY <1>4, <1>5, <2>1, <2>2 DEF Lived
<1> QED BY <1>6, <1>7, <1>8 DEF TimelyEntry

\* A run keeps its day, and loses a tick of its time in a tick.
LEMMA WorkerWaits ==
  ASSUME Inv, AgeInv, Tick, NEW w \in Workers
  PROVE TimelyWorker(worker[w])'
<1>1. worker[w] \in Worker /\ TimelyWorker(worker[w]) /\ clock \in Nat
  BY WorkerRecords DEF Inv, SourceOK, AgeInv
<1>2. source' = source /\ clock <= clock' /\ clock' <= clock + 1 /\ clock' \in Nat
  BY <1>1, CalendarAssumption DEF Tick
<1>3. Today <= Today' /\ Today \in Nat /\ Today' \in Nat
  <2>1. DayOf(clock) <= DayOf(clock') /\ DayOf(clock) \in Nat /\ DayOf(clock') \in Nat
    BY <1>1, <1>2, DayMonotone, DayType
  <2> QED BY <2>1 DEF Today, DayOf
<1>4. PICK r : r = worker[w]
  OBVIOUS
<1>5. PICK f : f = worker'[w]
  OBVIOUS
<1>6. /\ f.pc = r.pc /\ f.day = r.day /\ f.res = r.res
      /\ r.pc = "put" => f.left = r.left - 1
      /\ r.left \in Nat /\ r.day \in Nat
  BY <1>1, <1>4, <1>5, WaitedWorker DEF Running, Worker
<1>7. f.pc \notin {"disabled", "boot", "sleep"} => f.day <= Today'
  BY <1>1, <1>3, <1>4, <1>6 DEF TimelyWorker
<1>8. CASE f.pc # "put"
  <2>1. TimelyWorker(f)'
    BY <1>7, <1>8 DEF TimelyWorker
  <2> QED BY <1>5, <2>1
<1>9. CASE f.pc = "put"
  <2>1. PICK t \in 0 .. clock : /\ Seen(r.res.truth, prefetch_window(r.day), t)
                                /\ clock + r.left <= t + PrefetchTimeout
                                /\ r.day <= DayOf(t)
    BY <1>1, <1>4, <1>6, <1>9 DEF TimelyWorker
  <2>2. t \in 0 .. clock' /\ clock' + f.left <= t + PrefetchTimeout
    BY <1>1, <1>2, <1>6, <1>9, <2>1, PrefetchAssumption
  <2>3. Seen(f.res.truth, prefetch_window(f.day), t)'
    BY <1>2, <1>6, <2>1 DEF Seen, Upto
  <2>4. TimelyWorker(f)'
    BY <1>6, <1>7, <2>1, <2>2, <2>3 DEF TimelyWorker
  <2> QED BY <1>5, <2>4
<1> QED BY <1>8, <1>9

LEMMA TickKeepsTime == ASSUME Inv, AgeInv, Tick PROVE AgeInv'
<1>1. Numbered'
  BY DEF AgeInv, Numbered, Tick
<1>2. (\A c \in Callers : TimelyCaller(caller[c]))'
  BY CallerWaits
<1>3. (\A e \in store : TimelyEntry(e))'
  BY EntryAges
<1>4. (\A w \in Workers : TimelyWorker(worker[w]))'
  BY WorkerWaits
<1> QED BY <1>1, <1>2, <1>3, <1>4 DEF AgeInv

\* In the beginning nothing has been read.
LEMMA InitInTime == Init => AgeInv
<1> SUFFICES ASSUME Init PROVE AgeInv
  OBVIOUS
<1> DEFINE fresh == Fresh(CHOOSE q \in Questions : TRUE)
           off == [Boot EXCEPT !.pc = "disabled"]
<1>1. clock = 0 /\ source = {} /\ store = {} /\ caller = [c \in Callers |-> fresh]
  BY DEF Init, CacheInit
<1>2. fresh.pc = "idle" /\ fresh.asked = 0 /\ fresh.cands = <<>>
  BY DEF Fresh
<1>3. Boot.pc = "boot" /\ off.pc = "disabled"
  BY DEF Boot
<1>4. PICK s \in Scenarios : worker = [w \in Workers |-> IF w \in s.workers THEN Boot ELSE off]
  BY DEF Init
<1> HIDE DEF fresh, off
<1>5. TimelyCaller(fresh)
  BY <1>1, <1>2 DEF TimelyCaller
<1>6. TimelyWorker(Boot) /\ TimelyWorker(off)
  BY <1>3 DEF TimelyWorker
<1>7. \A w \in Workers : TimelyWorker(worker[w])
  BY <1>4, <1>6
<1>8. Numbered
  BY <1>1 DEF Numbered
<1> QED BY <1>1, <1>5, <1>7, <1>8 DEF AgeInv

\* Recent views: for any calendar, lifetimes, run limits, questions and prefetches, an answer
\* from the cache is the caller's own view of the MES at one moment, and lacks no row that is
\* older than the lifetime of a snapshot of its window and the longest fetch together
\* (CachedAnswerIsRecentView).  So a day that ends between the read and the write, which gives
\* the snapshot the long life, costs no more than the tolerance of the question.
THEOREM CachedAnswersAreRecent == Spec => []CachedAnswerIsRecentView
<1>1. Inv /\ AgeInv /\ [Next]_vars => AgeInv'
  <2> SUFFICES ASSUME Inv, AgeInv, [Next]_vars PROVE AgeInv'
    OBVIOUS
  <2>1. CASE UNCHANGED vars
    BY <2>1 DEF vars, cacheVars, prefetchVars, AgeInv, Numbered, TimelyCaller, TimelyEntry,
                TimelyWorker, Seen, Recent, Upto, Lived, Today
  <2>2. CASE CacheNext /\ UNCHANGED prefetchVars
    BY <2>2, AskKeepsTime, CallKeepsTime, RecordKeepsTime DEF CacheNext
  <2>3. CASE \E w \in Workers : StartRun(w) \/ RunStep(w) \/ Crash(w)
    BY <2>3, WorkersKeepTime
  <2>4. CASE Tick
    BY <2>4, TickKeepsTime
  <2> QED BY <2>1, <2>2, <2>3, <2>4 DEF Next
<1>2. AgeInv => CachedAnswerIsRecentView
  BY DEF AgeInv, TimelyCaller, Recent, Upto, CachedAnswerIsRecentView
<1> QED BY <1>1, <1>2, InitInTime, Invariant, PTL DEF Spec

=============================================================================
