---------------------------- MODULE KernelProofs ----------------------------
(***************************************************************************)
(* The execution kernel, for any recipes, sources, budgets, concurrencies  *)
(* and page sizes: what a viewer puts together from pages is of one        *)
(* result; an answer is whole or marked incomplete; and a run fetches what *)
(* the serial walk would have fetched.                                     *)
(***************************************************************************)
EXTENDS Kernel, FiniteSetTheorems, SequenceTheorems, WellFoundedInduction, TLAPS

IsSeq(s) == \E S : s \in Seq(S)

-----------------------------------------------------------------------------
(* The summary of a run is a sequence, and a function of its source rows.  *)

LEMMA SeqShape ==
    ASSUME NEW s, IsSeq(s)
    PROVE  Len(s) \in Nat /\ DOMAIN s = 1..Len(s)
  BY DEF IsSeq

LEMMA FunctionIsSeq ==
    ASSUME NEW s, NEW n \in Nat, DOMAIN s = 1..n, s = [i \in DOMAIN s |-> s[i]]
    PROVE  IsSeq(s) /\ Len(s) = n
  <1> DEFINE S == {s[i] : i \in 1..n}
  <1>1. s \in [1..n -> S]
    OBVIOUS
  <1>2. s \in Seq(S)
    BY <1>1, SeqDef
  <1> QED
    BY <1>1, <1>2 DEF IsSeq

LEMMA AppendIsSeq ==
    ASSUME NEW s, NEW e, IsSeq(s)
    PROVE  IsSeq(Append(s, e))
  <1>1. PICK S : s \in Seq(S)
    BY DEF IsSeq
  <1>2. s \in Seq(S \cup {e})
    BY <1>1
  <1>3. Append(s, e) \in Seq(S \cup {e})
    BY <1>2
  <1> QED
    BY <1>3 DEF IsSeq

LEMMA EmptyIsSeq == IsSeq(<<>>)
  <1>1. <<>> \in Seq({})
    OBVIOUS
  <1> QED
    BY <1>1 DEF IsSeq

LEMMA SummariesAreSeq ==
    ASSUME NEW rows
    PROVE  IsSeq(Summaries(rows))
  <1> DEFINE n == Cardinality(PositionsOf(rows))
  <1>1. n \in Nat
    <2>1. DOMAIN PlanOrder = 1..Len(PlanOrder) /\ Len(PlanOrder) \in Nat
      BY LimitsAssumption
    <2>2. IsFiniteSet(DOMAIN PlanOrder)
      BY <2>1, FS_Interval
    <2>3. PositionsOf(rows) \subseteq DOMAIN PlanOrder
      BY DEF PositionsOf
    <2> QED
      BY <2>2, <2>3, FS_Subset, FS_CardinalityType
  <1>2. DOMAIN _distinct_values_sql(rows) = 1..n
    BY DEF _distinct_values_sql
  <1> HIDE DEF n
  <1> DEFINE s == Summaries(rows)
  <1>3. DOMAIN s = 1..n /\ s = [i \in DOMAIN s |-> s[i]]
    BY <1>2 DEF Summaries
  <1> HIDE DEF s
  <1>4. IsSeq(s)
    BY <1>1, <1>3, FunctionIsSeq
  <1> QED
    BY <1>4 DEF s

LEMMA ComputeIsSeq ==
    ASSUME NEW fs
    PROVE  IsSeq(WithMetrics(_run_compute_steps(fs)))
  <1> DEFINE s == _run_compute_steps(fs)
  <1>1. IsSeq(s)
    BY SummariesAreSeq, EmptyIsSeq DEF _run_compute_steps
  <1> HIDE DEF s
  <1>2. CASE recipe.confirmed
    BY <1>1, <1>2 DEF WithMetrics, s
  <1>3. CASE ~recipe.confirmed
    <2> DEFINE w == [i \in DOMAIN s |-> [s[i] EXCEPT !.values = "unavailable"]]
    <2>1. DOMAIN w = 1..Len(s) /\ Len(s) \in Nat /\ w = [i \in DOMAIN w |-> w[i]]
      BY <1>1, SeqShape
    <2> HIDE DEF w
    <2>2. IsSeq(w)
      BY <2>1, FunctionIsSeq
    <2> QED
      BY <1>3, <2>2 DEF WithMetrics, w, s
  <1> QED
    BY <1>2, <1>3

\* Only the rows of the fetches matter, not how they came or how old they are.
LEMMA ComputeUsesRows ==
    ASSUME NEW fs, NEW gs, NEW n \in Nat,
           DOMAIN fs = 1..n, DOMAIN gs = 1..n,
           \A i \in 1..n : fs[i].rows = gs[i].rows
    PROVE  _run_compute_steps(fs) = _run_compute_steps(gs)
  <1>1. _dependency_empty(fs) <=> _dependency_empty(gs)
    BY DEF _dependency_empty
  <1>2. CASE _dependency_empty(fs)
    BY <1>1, <1>2 DEF _run_compute_steps
  <1>3. CASE ~_dependency_empty(fs)
    <2>1. 1 \in 1..n
      BY <1>3 DEF _dependency_empty
    <2>2. fs[1].rows = gs[1].rows
      BY <2>1
    <2> QED
      BY <1>1, <1>3, <2>2 DEF _run_compute_steps
  <1> QED
    BY <1>2, <1>3

-----------------------------------------------------------------------------
(* Pages of a sequence.                                                    *)

LEMMA PageShape ==
    ASSUME NEW w, IsSeq(w), NEW r, r.selected = None,
           NEW n \in Nat, (r.page - 1) * GroupPageSize = n, n <= Len(w)
    PROVE  \E m \in n..Len(w) :
              /\ PageOf(w, r) = SubSeq(w, n + 1, m)
              /\ Len(PageOf(w, r)) = m - n
              /\ m < Len(w) => m = n + GroupPageSize
  <1>0. GroupPageSize \in Nat
    BY LimitsAssumption
  <1> DEFINE m == IF Len(w) < n + GroupPageSize THEN Len(w) ELSE n + GroupPageSize
  <1>1. Len(w) \in Nat /\ DOMAIN w = 1..Len(w)
    BY SeqShape
  <1>2. m \in n..Len(w) /\ (m < Len(w) => m = n + GroupPageSize)
    BY <1>0, <1>1
  <1>3. PageOf(w, r) = SubSeq(w, n + 1, m)
    BY DEF PageOf
  <1> HIDE DEF m
  <1>4. PICK S : w \in Seq(S)
    BY DEF IsSeq
  <1>5. Len(SubSeq(w, n + 1, m)) = m - n
    BY <1>1, <1>2, <1>4
  <1> QED
    BY <1>2, <1>3, <1>5

LEMMA JoinPages ==
    ASSUME NEW w, IsSeq(w), NEW n \in Nat, NEW m \in n..Len(w)
    PROVE  SubSeq(w, 1, n) \o SubSeq(w, n + 1, m) = SubSeq(w, 1, m)
  <1>1. PICK S : w \in Seq(S)
    BY DEF IsSeq
  <1>2. Len(w) \in Nat
    BY <1>1
  <1>3. 1 \in 1..Len(w)+1 /\ n \in 0..Len(w) /\ m \in n..Len(w)
    BY <1>2
  <1> QED
    BY <1>1, <1>2, <1>3, ConcatAdjacentSubSeq

LEMMA FirstPage ==
    ASSUME NEW w, IsSeq(w), NEW m \in 0..Len(w)
    PROVE  /\ IsPrefix(SubSeq(w, 1, m), w)
           /\ Len(SubSeq(w, 1, m)) = m
           /\ m = Len(w) => SubSeq(w, 1, m) = w
  <1>1. PICK S : w \in Seq(S)
    BY DEF IsSeq
  <1>2. Len(w) \in Nat /\ SubSeq(w, 1, m) \in Seq(S) /\ Len(SubSeq(w, 1, m)) = m
    BY <1>1
  <1>3. SubSeq(SubSeq(w, 1, m), 1, m) = SubSeq(w, 1, m)
    BY <1>1, <1>2
  <1>4. m = Len(w) => SubSeq(w, 1, m) = w
    BY <1>1, <1>2
  <1> QED
    BY <1>2, <1>3, <1>4 DEF IsPrefix

-----------------------------------------------------------------------------
(* The invariant.                                                          *)

\* What a viewer holds: the first groups of the summary, a whole number of pages of them
\* unless it has all, of the result that its snapshot stands for.
Held(v) ==
    /\ DOMAIN v = {"snapshot", "groups", "whole", "opened", "more"}
    /\ IsSeq(v.whole)
    /\ \E n \in 0..Len(v.whole) :
          /\ v.groups = SubSeq(v.whole, 1, n)
          /\ v.more => \E k \in Nat : n = k * GroupPageSize
          /\ ~v.more => n = Len(v.whole)
    /\ \A id \in v.snapshot : v.whole = WithMetrics(_run_compute_steps(id))
    /\ v.snapshot = {} => v.groups = <<>>
    /\ Range(v.opened) \subseteq Range(v.whole)

\* What a run was asked for: the page after those the viewer holds or one of its groups, of
\* the same snapshot, unless it is an answer from the start.
Wanted(r, v) ==
    /\ r.selected = None /\ r.page # 1 =>
          /\ r.snapshot = v.snapshot /\ r.snapshot # {}
          /\ (r.page - 1) * GroupPageSize = Len(v.groups)
    /\ r.selected # None => r.snapshot = v.snapshot /\ r.snapshot # {}
    /\ r.page = 1 \/ r.page > 1

ViewInv ==
    /\ IsSeq(fetches)
    /\ pc = "verify" => table = _build_table(fetches, request)
    /\ Held(viewed)
    /\ pc # "idle" => Wanted(request, viewed)

LEMMA HeldIsOneResult ==
    ASSUME Held(viewed)
    PROVE  PagesAreOneResult
  <1>1. PICK n \in 0..Len(viewed.whole) :
           viewed.groups = SubSeq(viewed.whole, 1, n) /\ (~viewed.more => n = Len(viewed.whole))
    BY DEF Held
  <1>2. IsSeq(viewed.whole) /\ Range(viewed.opened) \subseteq Range(viewed.whole)
    BY DEF Held
  <1> QED
    BY <1>1, <1>2, FirstPage DEF PagesAreOneResult

LEMMA NothingHeld == Held(NoView)
  <1> DEFINE v == NoView
  <1>1. /\ v.whole = <<>> /\ v.groups = <<>> /\ v.opened = <<>> /\ v.snapshot = {} /\ v.more = FALSE
        /\ DOMAIN v = {"snapshot", "groups", "whole", "opened", "more"}
    BY DEF NoView
  <1> HIDE DEF v
  <1>2. Len(<<>>) = 0 /\ SubSeq(<<>>, 1, 0) = <<>>
    OBVIOUS
  <1>3. IsSeq(v.whole)
    BY <1>1, EmptyIsSeq
  <1>4. Held(v)
    BY <1>1, <1>2, <1>3 DEF Held
  <1> QED
    BY <1>4 DEF v

LEMMA ViewInit == KernelInit => ViewInv
  BY NothingHeld, EmptyIsSeq DEF KernelInit, ViewInv

\* A viewer asks for what follows the pages it holds.
LEMMA RequestsFollowTheView ==
    ASSUME Held(viewed), NEW r \in ViewerRequests, _validate_group_page(r)
    PROVE  Wanted(r, viewed)
  <1> DEFINE g == GroupPageSize
  <1>0. g \in Nat /\ g > 0
    BY LimitsAssumption
  <1> HIDE DEF g
  <1>1. CASE r = NoRequest
    BY <1>1 DEF Wanted, NoRequest
  <1>2. CASE /\ viewed.more
             /\ r = [NoRequest EXCEPT !.page = Len(viewed.groups) \div GroupPageSize + 1,
                                      !.snapshot = viewed.snapshot]
    <2>1. /\ r.page = Len(viewed.groups) \div g + 1 /\ r.snapshot = viewed.snapshot
          /\ r.selected = None
      BY <1>2 DEF NoRequest, g
    <2>2. PICK n \in 0..Len(viewed.whole), k \in Nat :
             viewed.groups = SubSeq(viewed.whole, 1, n) /\ n = k * g
      BY <1>2 DEF Held, g
    <2>3. Len(viewed.groups) = k * g
      BY <2>2, FirstPage DEF Held
    <2>4. (k * g) \div g = k
      BY <1>0
    <2>5. r.page = k + 1 /\ (r.page - 1) * g = Len(viewed.groups)
      BY <2>1, <2>3, <2>4, <1>0
    <2>6. r.page = 1 \/ r.page > 1
      BY <2>5
    <2>7. r.page > 1 => r.snapshot # {}
      BY DEF _validate_group_page
    <2> QED
      BY <2>1, <2>5, <2>6, <2>7 DEF Wanted, g
  <1>3. ASSUME NEW h \in Range(viewed.groups),
               r = [NoRequest EXCEPT !.selected = h.plan, !.snapshot = viewed.snapshot]
        PROVE  Wanted(r, viewed)
    <2>1. r.page = 1 /\ r.snapshot = viewed.snapshot
      BY <1>3 DEF NoRequest
    <2>2. viewed.groups # <<>>
      BY <1>3 DEF Range
    <2>3. viewed.snapshot # {}
      BY <2>2 DEF Held
    <2> QED
      BY <2>1, <2>3 DEF Wanted
  <1> QED
    BY <1>1, <1>2, <1>3 DEF ViewerRequests

-----------------------------------------------------------------------------
(* What a run delivers.                                                    *)

\* The table that is delivered was computed from the rows that the snapshot names.
LEMMA DeliveredRows ==
    ASSUME IsSeq(fetches), table = _build_table(fetches, request)
    PROVE  /\ Verified.table.rows = WithMetrics(_run_compute_steps(SnapshotId(Verified.fetches)))
           /\ Verified.table.card = _build_card(Verified.table.rows, request)
  <1> DEFINE fs == Verified.fetches
             realtime == _build_table(ShadowFetches, request)
  <1>1. Len(fetches) \in Nat /\ DOMAIN fetches = 1..Len(fetches)
    BY SeqShape
  <1> DEFINE n == Len(fetches)
  <1>2. \A hs : /\ _build_table(hs, request).rows = WithMetrics(_run_compute_steps(hs))
                /\ _build_table(hs, request).card =
                      _build_card(WithMetrics(_run_compute_steps(hs)), request)
    BY DEF _build_table
  <1>3. ASSUME NEW hs, DOMAIN hs = 1..n
        PROVE  _run_compute_steps(SnapshotId(hs)) = _run_compute_steps(hs)
    <2> DEFINE id == SnapshotId(hs)
    <2>1. DOMAIN id = 1..n /\ \A i \in 1..n : id[i].rows = hs[i].rows
      BY <1>3 DEF SnapshotId
    <2> HIDE DEF id, n
    <2>2. _run_compute_steps(id) = _run_compute_steps(hs)
      BY <1>1, <1>3, <2>1, ComputeUsesRows DEF n
    <2> QED
      BY <2>2 DEF id
  <1>4. CASE Verified = [table |-> table, fetches |-> fetches]
    <2>1. Verified.table = table /\ Verified.fetches = fetches
      BY <1>4
    <2> QED
      BY <1>1, <1>2, <1>3, <2>1
  <1>5. CASE Verified = [table |-> realtime,
                         fetches |-> [i \in DOMAIN fetches |->
                                        [Nothing EXCEPT !.rows = ShadowFetches[i].rows]]]
    <2> DEFINE hs == [i \in DOMAIN fetches |-> [Nothing EXCEPT !.rows = ShadowFetches[i].rows]]
               ss == ShadowFetches
    <2>1. Verified.table = realtime /\ Verified.fetches = hs
      BY <1>5
    <2>2. DOMAIN hs = 1..n /\ \A i \in 1..n : hs[i].rows = ss[i].rows
      BY <1>1 DEF Nothing
    <2>3. DOMAIN ss = 1..n
      BY <1>1 DEF ShadowFetches
    <2> HIDE DEF hs, ss, n
    <2>4. _run_compute_steps(hs) = _run_compute_steps(ss)
      BY <1>1, <2>2, <2>3, ComputeUsesRows DEF n
    <2>5. _run_compute_steps(SnapshotId(hs)) = _run_compute_steps(ss)
      BY <1>3, <2>2, <2>4
    <2> QED
      BY <1>2, <2>1, <2>5 DEF ss
  <1> QED
    BY <1>4, <1>5 DEF Verified

\* A page that is shown is of the snapshot it was asked for, and follows what is held.
LEMMA ShownIsHeld ==
    ASSUME Held(viewed), Wanted(request, viewed), NEW t, NEW id,
           t.rows = WithMetrics(_run_compute_steps(id)),
           t.card = build_order_groups(t.rows, request),
           request.snapshot = {} \/ id \in request.snapshot
    PROVE  Held(Shown(t, id))
  <1> DEFINE w == t.rows
             v == Shown(t, id)
  <1>0. GroupPageSize \in Nat
    BY LimitsAssumption
  <1>1. IsSeq(w)
    BY ComputeIsSeq
  <1>2. Len(w) \in Nat /\ DOMAIN w = 1..Len(w)
    BY <1>1, SeqShape
  <1>c. /\ t.card.groups = PageOf(w, request)
        /\ t.card.more = (/\ request.selected = None
                          /\ (request.page - 1) * GroupPageSize + Len(PageOf(w, request)) < Len(w))
    BY DEF build_order_groups
  <1>3. CASE request.selected # None
    <2>1. viewed.whole = w
      BY <1>3 DEF Wanted, Held
    <2>2. Range(PageOf(w, request)) \subseteq Range(w)
      <3> DEFINE at == {i \in DOMAIN w : w[i].plan = request.selected}
      <3>1. CASE at = {}
        <4>1. PageOf(w, request) = <<>>
          BY <1>3, <3>1 DEF PageOf
        <4> QED
          BY <4>1 DEF Range
      <3>2. CASE at # {}
        <4>1. PICK i \in DOMAIN w : PageOf(w, request) = <<w[i]>>
          BY <1>3, <3>2 DEF PageOf
        <4> QED
          BY <4>1 DEF Range
      <3> QED
        BY <3>1, <3>2
    <2>3. v = [viewed EXCEPT !.opened = PageOf(w, request)]
      BY <1>3, <1>c DEF Shown
    <2>4. /\ v.opened = PageOf(w, request) /\ v.whole = viewed.whole /\ v.groups = viewed.groups
          /\ v.more = viewed.more /\ v.snapshot = viewed.snapshot /\ DOMAIN v = DOMAIN viewed
      BY <2>3 DEF Held
    <2> HIDE DEF v
    <2>5. Held(v)
      BY <2>1, <2>2, <2>4 DEF Held
    <2> QED
      BY <2>5 DEF v
  <1>4. CASE request.selected = None /\ request.page > 1
    <2>1. viewed.whole = w /\ (request.page - 1) * GroupPageSize = Len(viewed.groups)
      BY <1>4 DEF Wanted, Held
    <2>2. PICK n \in 0..Len(w) : /\ viewed.groups = SubSeq(w, 1, n)
                                 /\ viewed.more => \E k \in Nat : n = k * GroupPageSize
                                 /\ ~viewed.more => n = Len(w)
      BY <2>1 DEF Held
    <2>3. n \in Nat /\ n <= Len(w) /\ (request.page - 1) * GroupPageSize = n
      <3>1. Len(SubSeq(w, 1, n)) = n
        BY <1>1, FirstPage
      <3>2. (request.page - 1) * GroupPageSize = n
        BY <2>1, <2>2, <3>1, Zenon
      <3>3. n \in Nat /\ n <= Len(w)
        BY <1>2
      <3> QED
        BY <3>2, <3>3
    <2>4. PICK m \in n..Len(w) :
             /\ PageOf(w, request) = SubSeq(w, n + 1, m)
             /\ Len(PageOf(w, request)) = m - n
             /\ m < Len(w) => m = n + GroupPageSize
      BY <1>1, <1>4, <2>3, PageShape
    <2>t. n \in Nat /\ m \in Nat /\ Len(w) \in Nat /\ n <= m /\ m <= Len(w)
      <3>1. n \in Nat
        BY <2>3
      <3> QED
        BY <3>1, <1>2
    <2>5. viewed.groups \o PageOf(w, request) = SubSeq(w, 1, m)
      BY <1>1, <2>2, <2>3, <2>4, JoinPages
    <2>6. m \in 0..Len(w) /\ (t.card.more <=> m < Len(w))
      BY <1>2, <1>c, <1>4, <2>3, <2>4
    <2>7. v = [viewed EXCEPT !.groups = SubSeq(w, 1, m), !.more = t.card.more]
      BY <1>4, <1>c, <2>5 DEF Shown
    <2>8. /\ v.opened = viewed.opened /\ v.whole = w /\ v.groups = SubSeq(w, 1, m)
          /\ v.more = t.card.more /\ v.snapshot = viewed.snapshot /\ DOMAIN v = DOMAIN viewed
      BY <2>1, <2>7 DEF Held
    <2>9. v.snapshot # {}
      BY <1>4, <2>8 DEF Wanted
    <2> HIDE DEF v
    <2>10. v.more => \E k \in Nat : m = k * GroupPageSize
      <3> SUFFICES ASSUME v.more PROVE \E k \in Nat : m = k * GroupPageSize
        OBVIOUS
      <3>1. m < Len(w)
        BY <2>6, <2>8
      <3>2. m = n + GroupPageSize
        BY <2>4, <3>1
      <3>n. n # Len(w)
        BY <2>t, <3>1
      <3>3. PICK k \in Nat : n = k * GroupPageSize
        BY <2>2, <3>n
      <3>4. k + 1 \in Nat /\ m = (k + 1) * GroupPageSize
        BY <1>0, <3>2, <3>3
      <3> QED
        BY <3>4
    <2>11. ~v.more => m = Len(w)
      <3>1. ~v.more => ~(m < Len(w))
        BY <2>6, <2>8
      <3> QED
        BY <2>t, <3>1
    <2>12. Held(v)
      BY <1>1, <2>1, <2>6, <2>8, <2>9, <2>10, <2>11 DEF Held
    <2> QED
      BY <2>12 DEF v
  <1>5. CASE request.selected = None /\ ~(request.page > 1)
    <2>1. request.page = 1
      BY <1>5 DEF Wanted
    <2>2. (request.page - 1) * GroupPageSize = 0
      BY <1>0, <2>1
    <2>3. PICK m \in 0..Len(w) :
             /\ PageOf(w, request) = SubSeq(w, 0 + 1, m)
             /\ Len(PageOf(w, request)) = m - 0
             /\ m < Len(w) => m = 0 + GroupPageSize
      BY <1>1, <1>2, <1>5, <2>2, PageShape
    <2>4. t.card.more <=> m < Len(w)
      BY <1>2, <1>c, <1>5, <2>2, <2>3
    <2>5. v = [snapshot |-> {id}, groups |-> SubSeq(w, 1, m), whole |-> w, opened |-> <<>>,
               more |-> t.card.more]
      BY <1>5, <1>c, <2>3 DEF Shown
    <2>6. /\ v.opened = <<>> /\ v.whole = w /\ v.groups = SubSeq(w, 1, m)
          /\ v.more = t.card.more /\ v.snapshot = {id}
          /\ DOMAIN v = {"snapshot", "groups", "whole", "opened", "more"}
      BY <2>5
    <2>7. v.more => \E k \in Nat : m = k * GroupPageSize
      BY <1>0, <1>2, <2>3, <2>4, <2>6
    <2>8. ~v.more => m = Len(w)
      BY <1>2, <2>3, <2>4, <2>6
    <2>9. Range(<<>>) \subseteq Range(w)
      BY DEF Range
    <2> HIDE DEF v
    <2>10. Held(v)
      BY <1>1, <2>3, <2>6, <2>7, <2>8, <2>9 DEF Held
    <2> QED
      BY <2>10 DEF v
  <1> QED
    BY <1>3, <1>4, <1>5

-----------------------------------------------------------------------------
(* The steps.                                                              *)

\* A run goes on, or ends, and the viewer holds what it held.
GoesOn ==
    /\ viewed' = viewed /\ request' = request /\ recipe' = recipe
    /\ pc = "idle" => pc' = "idle"
    /\ IsSeq(fetches')
    /\ (pc = "verify" => table = _build_table(fetches, request))'

LEMMA HeldGoesOn ==
    ASSUME recipe' = recipe, NEW v
    PROVE  Held(v) <=> Held(v)'
  BY DEF Held, WithMetrics

LEMMA GoingOnPreserves ==
    ASSUME ViewInv, GoesOn
    PROVE  ViewInv'
  <1>1. Held(viewed)'
    BY HeldGoesOn DEF ViewInv, GoesOn
  <1>2. (pc # "idle" => Wanted(request, viewed))'
    BY DEF ViewInv, GoesOn, Wanted
  <1>3. (pc = "verify" => table = _build_table(fetches, request))'
    BY DEF GoesOn
  <1> QED
    BY <1>1, <1>2, <1>3 DEF ViewInv, GoesOn

\* The table that is being verified stays the one that was built.
TableKept == recipe' = recipe /\ fetches' = fetches /\ request' = request /\ table' = table

LEMMA KeptTable ==
    ASSUME ViewInv, TableKept, pc' = "verify" => pc = "verify"
    PROVE  (pc = "verify" => table = _build_table(fetches, request))'
  <1>1. _build_table(fetches, request)' = _build_table(fetches, request)
    BY DEF TableKept, _build_table, WithMetrics, _build_totals, _build_card
  <1> QED
    BY <1>1 DEF ViewInv, TableKept

LEMMA StartRunPreserves ==
    ASSUME ViewInv, NEW r \in ViewerRequests, StartRun(r)
    PROVE  ViewInv'
  <1>1. recipe' = recipe /\ request' = r /\ pc' = "step" /\ fetches' = <<>>
    BY DEF StartRun, fixed
  <1>2. Wanted(r, viewed)
    BY RequestsFollowTheView DEF ViewInv, StartRun
  <1>3. CASE r = NoRequest
    <2>1. viewed' = NoView
      BY <1>3 DEF StartRun
    <2>2. Held(viewed)'
      BY <1>1, <2>1, NothingHeld, HeldGoesOn
    <2>3. Wanted(r, NoView)
      BY <1>3 DEF Wanted, NoRequest
    <2> QED
      BY <1>1, <2>1, <2>2, <2>3, EmptyIsSeq DEF ViewInv, Wanted
  <1>4. CASE r # NoRequest
    <2>1. viewed' = viewed
      BY <1>4 DEF StartRun
    <2>2. Held(viewed)'
      BY <1>1, <2>1, HeldGoesOn DEF ViewInv
    <2> QED
      BY <1>1, <1>2, <2>1, <2>2, EmptyIsSeq DEF ViewInv, Wanted
  <1> QED
    BY <1>3, <1>4

LEMMA DeliverPreserves ==
    ASSUME ViewInv, Deliver
    PROVE  ViewInv'
  <1> DEFINE d == _attach_order_view_context
             t == Verified.table
             id == SnapshotId(Verified.fetches)
  <1>1. /\ recipe' = recipe /\ request' = request /\ fetches' = fetches /\ pc = "verify"
        /\ pc' = "idle"
    BY DEF Deliver, fixed, walkVars, Raise
  <1>2. Held(viewed) /\ Wanted(request, viewed) /\ IsSeq(fetches)
        /\ table = _build_table(fetches, request)
    BY <1>1 DEF ViewInv
  <1>3. t.rows = WithMetrics(_run_compute_steps(id)) /\ t.card = _build_card(t.rows, request)
    BY <1>2, DeliveredRows
  <1>4. viewed' = viewed \/ (d.code = None /\ viewed' = d.viewed)
    BY DEF Deliver
  <1> HIDE DEF t, id
  <1>5. d.code = None => /\ request.snapshot = {} \/ id \in request.snapshot
                         /\ d.viewed = IF recipe.details /\ t.card # None THEN Shown(t, id)
                                       ELSE viewed
    BY NoneAssumption DEF _attach_order_view_context, t, id
  <1>6. Held(viewed')
    <2>1. CASE viewed' = viewed
      BY <1>2, <2>1
    <2>2. CASE /\ d.code = None /\ viewed' = Shown(t, id)
               /\ recipe.details /\ t.card # None
      <3>1. t.card = build_order_groups(t.rows, request)
        BY <1>3, <2>2 DEF _build_card
      <3> QED
        BY <1>2, <1>3, <1>5, <2>2, <3>1, ShownIsHeld
    <2> QED
      BY <1>4, <1>5, <2>1, <2>2
  <1>7. Held(viewed)'
    BY <1>1, <1>6, HeldGoesOn
  <1> QED
    BY <1>1, <1>2, <1>7 DEF ViewInv

LEMMA StepPreserves ==
    ASSUME ViewInv, [KernelNext]_kernelVars
    PROVE  ViewInv'
  <1> USE DEF fixed, walkVars, viewVars, stepVars
  <1>0. IsSeq(fetches)
    BY DEF ViewInv
  <1>1. ASSUME NEW r \in ViewerRequests, StartRun(r) PROVE ViewInv'
    BY <1>1, StartRunPreserves
  <1>2. CASE BeginStep
    <2>1. TableKept /\ viewed' = viewed /\ pc # "idle" /\ pc' # "verify"
      BY <1>2 DEF BeginStep, Raise, TableKept
    <2> QED
      BY <1>0, <2>1, KeptTable, GoingOnPreserves DEF GoesOn, TableKept
  <1>3. CASE _fetch_one
    <2>1. TableKept /\ viewed' = viewed /\ pc' = pc
      BY <1>3 DEF _fetch_one, requestFrame, TableKept
    <2> QED
      BY <1>0, <2>1, KeptTable, GoingOnPreserves DEF GoesOn, TableKept
  <1>4. CASE Gathered
    <2>1. /\ viewed' = viewed /\ request' = request /\ recipe' = recipe /\ pc # "idle"
          /\ pc' # "verify"
          /\ fetches' = fetches \/ \E f : fetches' = Append(fetches, f)
      BY <1>4 DEF Gathered, RegisterFetch, Raise
    <2>2. IsSeq(fetches')
      BY <1>0, <2>1, AppendIsSeq
    <2> QED
      BY <2>1, <2>2, GoingOnPreserves DEF GoesOn
  <1>5. CASE WithCallStops
    <2>1. TableKept /\ viewed' = viewed /\ pc' = "idle"
      BY <1>5 DEF WithCallStops, Raise, TableKept
    <2> QED
      BY <1>0, <2>1, KeptTable, GoingOnPreserves DEF GoesOn, TableKept
  <1>6. CASE Build
    <2>1. /\ viewed' = viewed /\ request' = request /\ recipe' = recipe /\ fetches' = fetches
          /\ pc # "idle" /\ (pc' = "verify" => table' = _build_table(fetches, request))
      BY <1>6 DEF Build, Raise
    <2>2. _build_table(fetches, request)' = _build_table(fetches, request)
      BY <2>1 DEF _build_table, WithMetrics, _build_totals, _build_card
    <2> QED
      BY <1>0, <2>1, <2>2, GoingOnPreserves DEF GoesOn
  <1>7. CASE Interrupted
    <2>1. TableKept /\ viewed' = viewed /\ pc' = "idle"
      BY <1>7 DEF Interrupted, Raise, TableKept
    <2> QED
      BY <1>0, <2>1, KeptTable, GoingOnPreserves DEF GoesOn, TableKept
  <1>8. CASE Deliver
    BY <1>8, DeliverPreserves
  <1>9. CASE SourceReplies
    <2>1. TableKept /\ viewed' = viewed /\ pc' = pc
      BY <1>9 DEF SourceReplies, requestFrame, TableKept
    <2> QED
      BY <1>0, <2>1, KeptTable, GoingOnPreserves DEF GoesOn, TableKept
  <1>10. CASE SourceChanges \/ Cancel \/ Tick
    <2>1. TableKept /\ viewed' = viewed /\ pc' = pc
      BY <1>10 DEF SourceChanges, Cancel, Tick, TableKept
    <2> QED
      BY <1>0, <2>1, KeptTable, GoingOnPreserves DEF GoesOn, TableKept
  <1>11. CASE UNCHANGED kernelVars
    <2>1. TableKept /\ viewed' = viewed /\ pc' = pc
      BY <1>11 DEF kernelVars, TableKept
    <2> QED
      BY <1>0, <2>1, KeptTable, GoingOnPreserves DEF GoesOn, TableKept
  <1> QED
    BY <1>1, <1>2, <1>3, <1>4, <1>5, <1>6, <1>7, <1>8, <1>9, <1>10, <1>11 DEF KernelNext

\* Whatever changes between and during the runs of a viewer, the groups it has collected page
\* by page are the first of one summary, all of them once there are no more, and a group it
\* opened is of that summary (_attach_order_view_context compares the digest of the source rows).
THEOREM PagesStayOneResult == KernelSpec => []PagesAreOneResult
  <1>1. KernelInit => ViewInv
    BY ViewInit
  <1>2. ViewInv /\ [KernelNext]_kernelVars => ViewInv'
    BY StepPreserves
  <1>3. ViewInv => PagesAreOneResult
    BY HeldIsOneResult DEF ViewInv
  <1> QED
    BY <1>1, <1>2, <1>3, PTL DEF KernelSpec

-----------------------------------------------------------------------------
(* Folds over sequences, by induction on their length.                     *)

\* A set of numbers has a least one.
LEMMA LeastNumber ==
    ASSUME NEW T, T \subseteq Nat, T # {}
    PROVE  \E m \in T : \A n \in T : m <= n
  <1>1. PICK m \in T : \A n \in T : ~(<<n, m>> \in OpToRel(<, Nat))
    BY NatLessThanWellFounded, WFMin
  <1>2. \A n \in T : <<n, m>> \in Nat \X Nat
    OBVIOUS
  <1>3. ASSUME NEW n \in T PROVE ~(n < m)
    BY <1>1, <1>2 DEF OpToRel
  <1> QED
    BY <1>3

\* A bounded set of numbers has a greatest one.
LEMMA GreatestNumber ==
    ASSUME NEW n \in Nat, NEW T, T \subseteq 1..n, T # {}
    PROVE  Max(T) \in T /\ \A t \in T : t <= Max(T)
  <1> DEFINE B == {n - t : t \in T}
  <1>1. B \subseteq Nat /\ B # {}
    <2>1. \A t \in T : t \in Nat /\ t <= n
      OBVIOUS
    <2>2. \A t \in T : n - t \in Nat
      BY <2>1
    <2> QED
      BY <2>2
  <1>2. PICK b \in B : \A c \in B : b <= c
    BY <1>1, LeastNumber
  <1>3. PICK m \in T : b = n - m
    OBVIOUS
  <1>4. ASSUME NEW t \in T PROVE m >= t
    <2>1. b <= n - t
      BY <1>2
    <2> QED
      BY <1>3, <2>1
  <1>5. \E x \in T : \A y \in T : x >= y
    BY <1>4
  <1>6. Max(T) \in T /\ \A y \in T : Max(T) >= y
    BY <1>5 DEF Max
  <1>7. ASSUME NEW t \in T PROVE t <= Max(T)
    <2> DEFINE m0 == Max(T)
    <2>1. m0 \in 1..n /\ m0 >= t
      BY <1>6
    <2> HIDE DEF m0
    <2>2. t <= m0
      BY <2>1
    <2> QED
      BY <2>2 DEF m0
  <1> QED
    BY <1>6, <1>7

\* The steps of the four folds: an outcome into the fetch of a step, its calls into their
\* number, its rows behind the others, a row into those of plan p.
FoldStep(k, p, a, e) ==
    IF k = 1 THEN Folded(a, e)
    ELSE IF k = 2 THEN a + e.calls
    ELSE IF k = 3 THEN a \o e.rows
    ELSE IF p \in {None, e.plan} THEN Append(a, e) ELSE a

IsIter(k, p, b, s, n, h) ==
    h = [T \in SUBSET (1..n) |->
            IF T = {} THEN b ELSE FoldStep(k, p, h[T \ {Max(T)}], s[Max(T)])]

LEMMA IterExists ==
    ASSUME NEW k, NEW p, NEW b, NEW s, NEW n \in Nat
    PROVE  \E h : IsIter(k, p, b, s, n, h)
  <1> DEFINE Bad == {m \in Nat : ~\E h : IsIter(k, p, b, s, m, h)}
  <1> SUFFICES ASSUME Bad # {} PROVE FALSE
    OBVIOUS
  <1>1. PICK m \in Bad : \A i \in Bad : m <= i
    BY LeastNumber
  <1>2. m \in Nat /\ ~\E h : IsIter(k, p, b, s, m, h)
    OBVIOUS
  <1>3. CASE m = 0
    <2> DEFINE h == [T \in SUBSET (1..0) |-> b]
    <2>1. 1..0 = {}
      OBVIOUS
    <2>2. IsIter(k, p, b, s, 0, h)
      BY <2>1 DEF IsIter
    <2> QED
      BY <1>2, <1>3, <2>2
  <1>4. CASE m # 0
    <2>1. m - 1 \in Nat /\ ~(m <= m - 1)
      BY <1>2, <1>4
    <2>2. m - 1 \notin Bad
      BY <1>1, <2>1
    <2>3. PICK g : IsIter(k, p, b, s, m - 1, g)
      BY <2>1, <2>2
    <2> DEFINE h == [T \in SUBSET (1..m) |->
                        IF m \in T THEN FoldStep(k, p, g[T \ {m}], s[m]) ELSE g[T]]
    <2>4. ASSUME NEW T \in SUBSET (1..m)
          PROVE  h[T] = IF T = {} THEN b ELSE FoldStep(k, p, h[T \ {Max(T)}], s[Max(T)])
      <3>1. CASE T = {}
        <4>1. {} \in SUBSET (1..(m - 1))
          OBVIOUS
        <4> QED
          BY <2>3, <3>1, <4>1 DEF IsIter
      <3>2. CASE m \in T
        <4>1. Max(T) \in T /\ m <= Max(T) /\ Max(T) \in 1..m
          BY <1>2, <3>2, GreatestNumber
        <4>2. Max(T) = m
          BY <1>2, <4>1
        <4>3. T \ {m} \in SUBSET (1..m) /\ m \notin T \ {m}
          OBVIOUS
        <4>4. h[T \ {m}] = g[T \ {m}]
          BY <4>3
        <4> QED
          BY <3>2, <4>2, <4>4
      <3>3. CASE T # {} /\ m \notin T
        <4>1. T \in SUBSET (1..(m - 1))
          BY <1>2, <3>3
        <4>2. T \ {Max(T)} \in SUBSET (1..m) /\ m \notin T \ {Max(T)}
          BY <3>3
        <4>3. h[T] = g[T] /\ h[T \ {Max(T)}] = g[T \ {Max(T)}]
          BY <3>3, <4>2
        <4>4. g[T] = FoldStep(k, p, g[T \ {Max(T)}], s[Max(T)])
          BY <2>3, <3>3, <4>1 DEF IsIter
        <4> QED
          BY <3>3, <4>3, <4>4
      <3> QED
        BY <3>1, <3>2, <3>3
    <2>5. DOMAIN h = SUBSET (1..m)
      OBVIOUS
    <2>6. h = [T \in DOMAIN h |-> h[T]]
      OBVIOUS
    <2> HIDE DEF h
    <2>7. IsIter(k, p, b, s, m, h)
      BY <2>4, <2>5, <2>6 DEF IsIter
    <2> QED
      BY <1>2, <2>7
  <1> QED
    BY <1>3, <1>4

\* The values of a fold, prefix by prefix.
IsFold(k, p, b, s, n, g) ==
    /\ g[0] = b
    /\ \A i \in 1..n : g[i] = FoldStep(k, p, g[i - 1], s[i])

LEMMA IterIsFold ==
    ASSUME NEW k, NEW p, NEW b, NEW s, NEW n \in Nat, NEW h, IsIter(k, p, b, s, n, h)
    PROVE  \E g : IsFold(k, p, b, s, n, g) /\ g[n] = h[1..n]
  <1> DEFINE g == [i \in 0..n |-> h[1..i]]
  <1>1. h[{}] = b
    BY DEF IsIter
  <1>2. g[0] = b
    <2>1. 1..0 = {} /\ 0 \in 0..n
      OBVIOUS
    <2> QED
      BY <1>1, <2>1
  <1>3. ASSUME NEW i \in 1..n PROVE g[i] = FoldStep(k, p, g[i - 1], s[i])
    <2>1. 1..i \in SUBSET (1..n) /\ 1..i # {} /\ i \in 1..i
      OBVIOUS
    <2>2. Max(1..i) \in 1..i /\ i <= Max(1..i)
      BY <2>1, GreatestNumber
    <2>3. Max(1..i) = i
      BY <2>2
    <2>4. (1..i) \ {i} = 1..(i - 1)
      OBVIOUS
    <2>5. h[1..i] = FoldStep(k, p, h[1..(i - 1)], s[i])
      BY <2>1, <2>3, <2>4 DEF IsIter
    <2>6. i \in 0..n /\ i - 1 \in 0..n
      OBVIOUS
    <2> QED
      BY <2>5, <2>6
  <1>4. g[n] = h[1..n]
    OBVIOUS
  <1> HIDE DEF g
  <1> QED
    BY <1>2, <1>3, <1>4 DEF IsFold

\* A fold depends on what was folded only.
LEMMA FoldUnique ==
    ASSUME NEW k, NEW p, NEW b, NEW n \in Nat, NEW s, NEW t, NEW f, NEW g,
           IsFold(k, p, b, s, n, f), IsFold(k, p, b, t, n, g), \A i \in 1..n : s[i] = t[i]
    PROVE  f[n] = g[n]
  <1> DEFINE Bad == {m \in 0..n : f[m] # g[m]}
  <1> SUFFICES ASSUME Bad # {} PROVE FALSE
    OBVIOUS
  <1>0. Bad \subseteq Nat
    OBVIOUS
  <1>1. PICK m \in Bad : \A i \in Bad : m <= i
    BY <1>0, LeastNumber
  <1>2. m \in 0..n /\ f[m] # g[m]
    OBVIOUS
  <1>3. m # 0
    BY <1>2 DEF IsFold
  <1>4. m \in 1..n /\ m - 1 \in 0..n /\ ~(m <= m - 1)
    BY <1>2, <1>3
  <1>5. f[m - 1] = g[m - 1]
    BY <1>1, <1>4
  <1>6. f[m] = FoldStep(k, p, f[m - 1], s[m]) /\ g[m] = FoldStep(k, p, g[m - 1], t[m])
    BY <1>4 DEF IsFold
  <1> QED
    BY <1>2, <1>4, <1>5, <1>6

LEMMA FoldShorter ==
    ASSUME NEW k, NEW p, NEW b, NEW n \in Nat, NEW s, NEW f, NEW m \in 0..n,
           IsFold(k, p, b, s, n, f)
    PROVE  IsFold(k, p, b, s, m, f)
  <1>1. 1..m \subseteq 1..n
    OBVIOUS
  <1> QED
    BY <1>1 DEF IsFold

LEMMA FoldLonger ==
    ASSUME NEW k, NEW p, NEW b, NEW n \in Nat, NEW s, NEW t, NEW f, NEW g,
           IsFold(k, p, b, s, n, f), IsFold(k, p, b, t, n + 1, g), \A i \in 1..n : s[i] = t[i]
    PROVE  g[n + 1] = FoldStep(k, p, f[n], t[n + 1])
  <1>1. n + 1 \in Nat /\ n \in 0..(n + 1) /\ n + 1 \in 1..(n + 1) /\ (n + 1) - 1 = n
    OBVIOUS
  <1>2. IsFold(k, p, b, t, n, g)
    BY <1>1, FoldShorter
  <1>3. f[n] = g[n]
    BY <1>2, FoldUnique
  <1>4. g[n + 1] = FoldStep(k, p, g[(n + 1) - 1], t[n + 1])
    BY <1>1 DEF IsFold
  <1> QED
    BY <1>1, <1>3, <1>4

-----------------------------------------------------------------------------
(* The four folds.                                                         *)

LEMMA RowsOfIsFold ==
    ASSUME NEW s, NEW n \in Nat, DOMAIN s = 1..n, NEW p
    PROVE  \E g : IsFold(4, p, <<>>, s, n, g) /\ RowsOf(s, p) = g[n]
  <1> DEFINE Is(h) == h = [T \in SUBSET (1..n) |->
                              IF T = {} THEN <<>>
                              ELSE IF p \in {None, s[Max(T)].plan}
                                   THEN Append(h[T \ {Max(T)}], s[Max(T)]) ELSE h[T \ {Max(T)}]]
             it == CHOOSE h : Is(h)
  <1>1. \A h : IsIter(4, p, <<>>, s, n, h) <=> Is(h)
    BY DEF IsIter, FoldStep
  <1>2. \E h : Is(h)
    BY <1>1, IterExists
  <1>3. Is(it)
    BY <1>2
  <1>4. RowsOf(s, p) = it[1..n]
    BY DEF RowsOf, FoldLeft, MapThenFoldSet
  <1>5. IsIter(4, p, <<>>, s, n, it)
    BY <1>1, <1>3
  <1> HIDE DEF it
  <1>6. PICK g : IsFold(4, p, <<>>, s, n, g) /\ g[n] = it[1..n]
    BY <1>5, IterIsFold
  <1> QED
    BY <1>4, <1>6

LEMMA CallsIsFold ==
    ASSUME NEW s, NEW n \in Nat, DOMAIN s = 1..n
    PROVE  \E g : IsFold(2, None, 0, s, n, g) /\ Serial!CallsSaid(s) = g[n]
  <1> DEFINE Is(h) == h = [T \in SUBSET (1..n) |->
                              IF T = {} THEN 0 ELSE h[T \ {Serial!Max(T)}] + s[Serial!Max(T)].calls]
             it == CHOOSE h : Is(h)
  <1>0. \A T : Serial!Max(T) = Max(T)
    BY DEF Max, Serial!Max
  <1>1. \A h : IsIter(2, None, 0, s, n, h) <=> Is(h)
    <2> SUFFICES ASSUME NEW h PROVE IsIter(2, None, 0, s, n, h) <=> Is(h)
      OBVIOUS
    <2> DEFINE A(T) == IF T = {} THEN 0 ELSE h[T \ {Max(T)}] + s[Max(T)].calls
               B(T) == IF T = {} THEN 0 ELSE h[T \ {Serial!Max(T)}] + s[Serial!Max(T)].calls
    <2>1. \A T : A(T) = B(T)
      BY <1>0
    <2>2. IsIter(2, None, 0, s, n, h) <=> h = [T \in SUBSET (1..n) |-> A(T)]
      BY DEF IsIter, FoldStep
    <2>3. Is(h) <=> h = [T \in SUBSET (1..n) |-> B(T)]
      OBVIOUS
    <2> HIDE DEF A, B, Is
    <2>4. [T \in SUBSET (1..n) |-> A(T)] = [T \in SUBSET (1..n) |-> B(T)]
      BY <2>1
    <2> QED
      BY <2>2, <2>3, <2>4
  <1>2. \E h : Is(h)
    BY <1>1, IterExists
  <1>3. Is(it)
    BY <1>2
  <1>4. Serial!CallsSaid(s) = it[1..n]
    BY DEF Serial!CallsSaid, Serial!FoldLeft, Serial!MapThenFoldSet
  <1>5. IsIter(2, None, 0, s, n, it)
    BY <1>1, <1>3
  <1> HIDE DEF it
  <1>6. PICK g : IsFold(2, None, 0, s, n, g) /\ g[n] = it[1..n]
    BY <1>5, IterIsFold
  <1> QED
    BY <1>4, <1>6

LEMMA RowsIsFold ==
    ASSUME NEW s, NEW n \in Nat, DOMAIN s = 1..n
    PROVE  \E g : IsFold(3, None, <<>>, s, n, g) /\ Serial!RowsSaid(s) = g[n]
  <1> DEFINE Is(h) == h = [T \in SUBSET (1..n) |->
                              IF T = {} THEN <<>> ELSE h[T \ {Serial!Max(T)}] \o s[Serial!Max(T)].rows]
             it == CHOOSE h : Is(h)
  <1>0. \A T : Serial!Max(T) = Max(T)
    BY DEF Max, Serial!Max
  <1>1. \A h : IsIter(3, None, <<>>, s, n, h) <=> Is(h)
    <2> SUFFICES ASSUME NEW h PROVE IsIter(3, None, <<>>, s, n, h) <=> Is(h)
      OBVIOUS
    <2> DEFINE A(T) == IF T = {} THEN <<>> ELSE h[T \ {Max(T)}] \o s[Max(T)].rows
               B(T) == IF T = {} THEN <<>> ELSE h[T \ {Serial!Max(T)}] \o s[Serial!Max(T)].rows
    <2>1. \A T : A(T) = B(T)
      BY <1>0
    <2>2. IsIter(3, None, <<>>, s, n, h) <=> h = [T \in SUBSET (1..n) |-> A(T)]
      BY DEF IsIter, FoldStep
    <2>3. Is(h) <=> h = [T \in SUBSET (1..n) |-> B(T)]
      OBVIOUS
    <2> HIDE DEF A, B, Is
    <2>4. [T \in SUBSET (1..n) |-> A(T)] = [T \in SUBSET (1..n) |-> B(T)]
      BY <2>1
    <2> QED
      BY <2>2, <2>3, <2>4
  <1>2. \E h : Is(h)
    BY <1>1, IterExists
  <1>3. Is(it)
    BY <1>2
  <1>4. Serial!RowsSaid(s) = it[1..n]
    BY DEF Serial!RowsSaid, Serial!FoldLeft, Serial!MapThenFoldSet
  <1>5. IsIter(3, None, <<>>, s, n, it)
    BY <1>1, <1>3
  <1> HIDE DEF it
  <1>6. PICK g : IsFold(3, None, <<>>, s, n, g) /\ g[n] = it[1..n]
    BY <1>5, IterIsFold
  <1> QED
    BY <1>4, <1>6

LEMMA FoldedIsFold ==
    ASSUME NEW s, NEW n \in Nat, DOMAIN s = 1..n, NEW b
    PROVE  \E g : IsFold(1, None, b, s, n, g) /\ FoldLeft(Folded, b, s) = g[n]
  <1> DEFINE Is(h) == h = [T \in SUBSET (1..n) |->
                              IF T = {} THEN b ELSE Folded(h[T \ {Max(T)}], s[Max(T)])]
             it == CHOOSE h : Is(h)
  <1>1. \A h : IsIter(1, None, b, s, n, h) <=> Is(h)
    BY DEF IsIter, FoldStep
  <1>2. \E h : Is(h)
    BY <1>1, IterExists
  <1>3. Is(it)
    BY <1>2
  <1>4. FoldLeft(Folded, b, s) = it[1..n]
    BY DEF FoldLeft, MapThenFoldSet
  <1>5. IsIter(1, None, b, s, n, it)
    BY <1>1, <1>3
  <1> HIDE DEF it
  <1>6. PICK g : IsFold(1, None, b, s, n, g) /\ g[n] = it[1..n]
    BY <1>5, IterIsFold
  <1> QED
    BY <1>4, <1>6

LEMMA AppendShape ==
    ASSUME NEW s, IsSeq(s), NEW e
    PROVE  /\ Len(s) \in Nat /\ DOMAIN s = 1..Len(s)
           /\ Len(Append(s, e)) = Len(s) + 1 /\ DOMAIN Append(s, e) = 1..(Len(s) + 1)
           /\ Append(s, e)[Len(s) + 1] = e
           /\ \A i \in 1..Len(s) : Append(s, e)[i] = s[i]
  <1>1. PICK S : s \in Seq(S)
    BY DEF IsSeq
  <1>2. s \in Seq(S \cup {e}) /\ e \in S \cup {e}
    BY <1>1
  <1> QED
    BY <1>2

LEMMA RowsOfEmpty == ASSUME NEW p PROVE RowsOf(<<>>, p) = <<>>
  <1>1. DOMAIN <<>> = 1..0 /\ 0 \in Nat
    OBVIOUS
  <1>2. PICK g : IsFold(4, p, <<>>, <<>>, 0, g) /\ RowsOf(<<>>, p) = g[0]
    BY <1>1, RowsOfIsFold
  <1> QED
    BY <1>2 DEF IsFold

LEMMA RowsOfAppend ==
    ASSUME NEW s, IsSeq(s), NEW e, NEW p
    PROVE  RowsOf(Append(s, e), p) =
              IF p \in {None, e.plan} THEN Append(RowsOf(s, p), e) ELSE RowsOf(s, p)
  <1> DEFINE n == Len(s)
             t == Append(s, e)
  <1>1. /\ n \in Nat /\ DOMAIN s = 1..n /\ DOMAIN t = 1..(n + 1) /\ t[n + 1] = e
        /\ \A i \in 1..n : s[i] = t[i]
    BY AppendShape
  <1> HIDE DEF n, t
  <1>2. PICK f : IsFold(4, p, <<>>, s, n, f) /\ RowsOf(s, p) = f[n]
    BY <1>1, RowsOfIsFold
  <1>n. n + 1 \in Nat
    BY <1>1
  <1>3. PICK g : IsFold(4, p, <<>>, t, n + 1, g) /\ RowsOf(t, p) = g[n + 1]
    BY <1>1, <1>n, RowsOfIsFold
  <1>4. g[n + 1] = FoldStep(4, p, f[n], e)
    BY <1>1, <1>2, <1>3, FoldLonger
  <1> QED
    BY <1>2, <1>3, <1>4 DEF FoldStep, t

LEMMA CallsSaidEmpty == Serial!CallsSaid(<<>>) = 0
  <1>1. DOMAIN <<>> = 1..0 /\ 0 \in Nat
    OBVIOUS
  <1>2. PICK g : IsFold(2, None, 0, <<>>, 0, g) /\ Serial!CallsSaid(<<>>) = g[0]
    BY <1>1, CallsIsFold
  <1> QED
    BY <1>2 DEF IsFold

LEMMA CallsSaidAppend ==
    ASSUME NEW s, IsSeq(s), NEW e
    PROVE  Serial!CallsSaid(Append(s, e)) = Serial!CallsSaid(s) + e.calls
  <1> DEFINE n == Len(s)
             t == Append(s, e)
  <1>1. /\ n \in Nat /\ DOMAIN s = 1..n /\ DOMAIN t = 1..(n + 1) /\ t[n + 1] = e
        /\ \A i \in 1..n : s[i] = t[i]
    BY AppendShape
  <1> HIDE DEF n, t
  <1>2. PICK f : IsFold(2, None, 0, s, n, f) /\ Serial!CallsSaid(s) = f[n]
    BY <1>1, CallsIsFold
  <1>n. n + 1 \in Nat
    BY <1>1
  <1>3. PICK g : IsFold(2, None, 0, t, n + 1, g) /\ Serial!CallsSaid(t) = g[n + 1]
    BY <1>1, <1>n, CallsIsFold
  <1>4. g[n + 1] = FoldStep(2, None, f[n], e)
    BY <1>1, <1>2, <1>3, FoldLonger
  <1> QED
    BY <1>2, <1>3, <1>4 DEF FoldStep, t

LEMMA RowsSaidEmpty == Serial!RowsSaid(<<>>) = <<>>
  <1>1. DOMAIN <<>> = 1..0 /\ 0 \in Nat
    OBVIOUS
  <1>2. PICK g : IsFold(3, None, <<>>, <<>>, 0, g) /\ Serial!RowsSaid(<<>>) = g[0]
    BY <1>1, RowsIsFold
  <1> QED
    BY <1>2 DEF IsFold

LEMMA RowsSaidAppend ==
    ASSUME NEW s, IsSeq(s), NEW e
    PROVE  Serial!RowsSaid(Append(s, e)) = Serial!RowsSaid(s) \o e.rows
  <1> DEFINE n == Len(s)
             t == Append(s, e)
  <1>1. /\ n \in Nat /\ DOMAIN s = 1..n /\ DOMAIN t = 1..(n + 1) /\ t[n + 1] = e
        /\ \A i \in 1..n : s[i] = t[i]
    BY AppendShape
  <1> HIDE DEF n, t
  <1>2. PICK f : IsFold(3, None, <<>>, s, n, f) /\ Serial!RowsSaid(s) = f[n]
    BY <1>1, RowsIsFold
  <1>n. n + 1 \in Nat
    BY <1>1
  <1>3. PICK g : IsFold(3, None, <<>>, t, n + 1, g) /\ Serial!RowsSaid(t) = g[n + 1]
    BY <1>1, <1>n, RowsIsFold
  <1>4. g[n + 1] = FoldStep(3, None, f[n], e)
    BY <1>1, <1>2, <1>3, FoldLonger
  <1> QED
    BY <1>2, <1>3, <1>4 DEF FoldStep, t

\* The latest value given, one value later.
LEMMA LatestAppend ==
    ASSUME NEW v, NEW w, NEW n \in Nat, DOMAIN v = 1..n, DOMAIN w = 1..(n + 1),
           \A i \in 1..n : v[i] = w[i]
    PROVE  Serial!LatestOf(w) = IF w[n + 1] # None THEN w[n + 1] ELSE Serial!LatestOf(v)
  <1> DEFINE A == {i \in DOMAIN v : v[i] # None}
             B == {i \in DOMAIN w : w[i] # None}
  <1>0. \A T : Serial!Max(T) = Max(T)
    BY DEF Max, Serial!Max
  <1>v. Serial!LatestOf(v) = IF A = {} THEN None ELSE v[Max(A)]
    BY <1>0 DEF Serial!LatestOf
  <1>w. Serial!LatestOf(w) = IF B = {} THEN None ELSE w[Max(B)]
    BY <1>0 DEF Serial!LatestOf
  <1>1. CASE w[n + 1] # None
    <2>1. n + 1 \in B /\ B \subseteq 1..(n + 1) /\ n + 1 \in Nat
      BY <1>1
    <2>2. Max(B) \in B /\ n + 1 <= Max(B)
      BY <2>1, GreatestNumber
    <2>3. Max(B) = n + 1
      BY <2>1, <2>2
    <2> QED
      BY <1>1, <1>w, <2>1, <2>3
  <1>2. CASE w[n + 1] = None
    <2>1. A = B
      BY <1>2
    <2>2. A # {} => Max(A) \in 1..n
      BY GreatestNumber
    <2> QED
      BY <1>2, <1>v, <1>w, <2>1, <2>2
  <1> QED
    BY <1>1, <1>2

-----------------------------------------------------------------------------
(* The rows of a plan.                                                     *)

Order == [plan : Plans, value : Nat]

\* What holds at 0 and is kept by every step up to n holds up to n.
LEMMA UpTo ==
    ASSUME NEW n \in Nat, NEW Bad, Bad \subseteq 0..n, 0 \notin Bad,
           \A i \in 1..n : i \in Bad => i - 1 \in Bad
    PROVE  Bad = {}
  <1> SUFFICES ASSUME Bad # {} PROVE FALSE
    OBVIOUS
  <1>1. Bad \subseteq Nat
    OBVIOUS
  <1>2. PICK m \in Bad : \A i \in Bad : m <= i
    BY <1>1, LeastNumber
  <1>3. m \in 1..n /\ m - 1 \in Int /\ ~(m <= m - 1)
    OBVIOUS
  <1> QED
    BY <1>2, <1>3

LEMMA SeqIsSeq == ASSUME NEW S, NEW s \in Seq(S) PROVE IsSeq(s)
  BY DEF IsSeq

\* Rows of a plan are rows, of that plan.
LEMMA RowsOfType ==
    ASSUME NEW S, NEW s \in Seq(S), NEW p
    PROVE  /\ RowsOf(s, p) \in Seq(S)
           /\ \A i \in DOMAIN RowsOf(s, p) : p \in {None, RowsOf(s, p)[i].plan}
  <1> DEFINE n == Len(s)
             Fine(r) == r \in Seq(S) /\ \A i \in DOMAIN r : p \in {None, r[i].plan}
  <1>1. n \in Nat /\ DOMAIN s = 1..n /\ \A i \in 1..n : s[i] \in S
    OBVIOUS
  <1> HIDE DEF n
  <1>2. PICK g : IsFold(4, p, <<>>, s, n, g) /\ RowsOf(s, p) = g[n]
    BY <1>1, RowsOfIsFold
  <1> DEFINE Bad == {i \in 0..n : ~Fine(g[i])}
  <1>3. 0 \notin Bad
    <2>1. <<>> \in Seq(S) /\ DOMAIN <<>> = {}
      OBVIOUS
    <2>2. Fine(<<>>)
      BY <2>1
    <2> QED
      BY <1>2, <2>2 DEF IsFold
  <1>4. ASSUME NEW i \in 1..n, Fine(g[i - 1]) PROVE Fine(g[i])
    <2> DEFINE r == g[i - 1]
    <2>1. g[i] = IF p \in {None, s[i].plan} THEN Append(r, s[i]) ELSE r
      BY <1>2 DEF IsFold, FoldStep
    <2>2. CASE p \in {None, s[i].plan}
      <3>1. s[i] \in S /\ r \in Seq(S)
        BY <1>1, <1>4
      <3> HIDE DEF r
      <3>2. /\ Append(r, s[i]) \in Seq(S) /\ DOMAIN Append(r, s[i]) = 1..(Len(r) + 1)
            /\ Append(r, s[i])[Len(r) + 1] = s[i]
            /\ \A j \in 1..Len(r) : Append(r, s[i])[j] = r[j]
            /\ DOMAIN r = 1..Len(r) /\ Len(r) \in Nat
        BY <3>1
      <3>3. ASSUME NEW j \in DOMAIN Append(r, s[i]) PROVE p \in {None, Append(r, s[i])[j].plan}
        <4>1. CASE j = Len(r) + 1
          BY <2>2, <3>2, <4>1
        <4>2. CASE j # Len(r) + 1
          <5>1. j \in 1..Len(r)
            BY <3>2, <4>2
          <5>2. p \in {None, r[j].plan}
            BY <1>4, <3>2, <5>1 DEF r
          <5> QED
            BY <3>2, <5>1, <5>2
        <4> QED
          BY <4>1, <4>2
      <3>4. g[i] = Append(r, s[i])
        BY <2>1, <2>2
      <3> QED
        BY <3>2, <3>3, <3>4
    <2>3. CASE ~(p \in {None, s[i].plan})
      BY <1>4, <2>1, <2>3
    <2> QED
      BY <2>2, <2>3
  <1>5. \A i \in 1..n : i \in Bad => i - 1 \in Bad
    <2>1. ASSUME NEW i \in 1..n, i - 1 \notin Bad PROVE i \notin Bad
      <3>1. i - 1 \in 0..n
        BY <1>1
      <3> QED
        BY <1>4, <2>1, <3>1
    <2> QED
      BY <2>1
  <1>6. Bad = {}
    <2>1. Bad \subseteq 0..n
      OBVIOUS
    <2> HIDE DEF Bad
    <2> QED
      BY <1>1, <1>3, <1>5, <2>1, UpTo
  <1>7. Fine(g[n])
    BY <1>1, <1>6
  <1> QED
    BY <1>2, <1>7

\* Rows that are all of the plan are kept.
LEMMA RowsOfAll ==
    ASSUME NEW S, NEW s \in Seq(S), NEW p, \A i \in DOMAIN s : p \in {None, s[i].plan}
    PROVE  RowsOf(s, p) = s
  <1> DEFINE n == Len(s)
             Good(i, r) == r = SubSeq(s, 1, i)
  <1>1. n \in Nat /\ DOMAIN s = 1..n /\ \A i \in 1..n : s[i] \in S
    OBVIOUS
  <1>s. SubSeq(s, 1, 0) = <<>> /\ SubSeq(s, 1, n) = s
    OBVIOUS
  <1>a. ASSUME NEW i \in 1..n PROVE SubSeq(s, 1, i) = Append(SubSeq(s, 1, i - 1), s[i])
    OBVIOUS
  <1> HIDE DEF n
  <1>2. PICK g : IsFold(4, p, <<>>, s, n, g) /\ RowsOf(s, p) = g[n]
    BY <1>1, RowsOfIsFold
  <1> DEFINE Bad == {i \in 0..n : ~Good(i, g[i])}
  <1>3. 0 \notin Bad
    BY <1>2, <1>s DEF IsFold
  <1>4. ASSUME NEW i \in 1..n, Good(i - 1, g[i - 1]) PROVE Good(i, g[i])
    <2>1. g[i] = IF p \in {None, s[i].plan} THEN Append(g[i - 1], s[i]) ELSE g[i - 1]
      BY <1>2 DEF IsFold, FoldStep
    <2>2. g[i] = Append(g[i - 1], s[i])
      BY <1>1, <2>1
    <2> QED
      BY <1>4, <1>a, <2>2
  <1>5. \A i \in 1..n : i \in Bad => i - 1 \in Bad
    <2>1. ASSUME NEW i \in 1..n, i - 1 \notin Bad PROVE i \notin Bad
      <3>1. i - 1 \in 0..n
        BY <1>1
      <3> QED
        BY <1>4, <2>1, <3>1
    <2> QED
      BY <2>1
  <1>6. Bad = {}
    <2>1. Bad \subseteq 0..n
      OBVIOUS
    <2> HIDE DEF Bad
    <2> QED
      BY <1>1, <1>3, <1>5, <2>1, UpTo
  <1>7. Good(n, g[n])
    BY <1>1, <1>6
  <1> QED
    BY <1>2, <1>7, <1>s

\* Rows of which none is of the plan leave nothing.
LEMMA RowsOfOthers ==
    ASSUME NEW S, NEW s \in Seq(S), NEW p, \A i \in DOMAIN s : ~(p \in {None, s[i].plan})
    PROVE  RowsOf(s, p) = <<>>
  <1> DEFINE n == Len(s)
  <1>1. n \in Nat /\ DOMAIN s = 1..n
    OBVIOUS
  <1> HIDE DEF n
  <1>2. PICK g : IsFold(4, p, <<>>, s, n, g) /\ RowsOf(s, p) = g[n]
    BY <1>1, RowsOfIsFold
  <1> DEFINE Bad == {i \in 0..n : g[i] # <<>>}
  <1>3. 0 \notin Bad
    BY <1>2 DEF IsFold
  <1>4. ASSUME NEW i \in 1..n, g[i - 1] = <<>> PROVE g[i] = <<>>
    <2>1. g[i] = IF p \in {None, s[i].plan} THEN Append(g[i - 1], s[i]) ELSE g[i - 1]
      BY <1>2 DEF IsFold, FoldStep
    <2> QED
      BY <1>1, <1>4, <2>1
  <1>5. \A i \in 1..n : i \in Bad => i - 1 \in Bad
    <2>1. ASSUME NEW i \in 1..n, i - 1 \notin Bad PROVE i \notin Bad
      <3>1. i - 1 \in 0..n
        BY <1>1
      <3> QED
        BY <1>4, <2>1, <3>1
    <2> QED
      BY <2>1
  <1>6. Bad = {}
    <2>1. Bad \subseteq 0..n
      OBVIOUS
    <2> HIDE DEF Bad
    <2> QED
      BY <1>1, <1>3, <1>5, <2>1, UpTo
  <1> QED
    BY <1>1, <1>2, <1>6

\* The operators on sequences as names of their own, so that what joins them can be cited.
Join(a, b) == a \o b
Put(a, e) == Append(a, e)

LEMMA PutToJoined ==
    ASSUME NEW S, NEW a \in Seq(S), NEW b \in Seq(S), NEW e \in S
    PROVE  Put(Join(a, b), e) = Join(a, Put(b, e))
  BY DEF Put, Join

\* The rows of a plan in two lists are those in the one, then those in the other.
LEMMA RowsOfBoth ==
    ASSUME NEW S, NEW s \in Seq(S), NEW t \in Seq(S), NEW p
    PROVE  RowsOf(s \o t, p) = RowsOf(s, p) \o RowsOf(t, p)
  <1> DEFINE n == Len(t)
             Good(i) == RowsOf(s \o SubSeq(t, 1, i), p) = RowsOf(s, p) \o RowsOf(SubSeq(t, 1, i), p)
  <1>1. n \in Nat /\ DOMAIN t = 1..n /\ (\A i \in 1..n : t[i] \in S) /\ SubSeq(t, 1, n) = t
    OBVIOUS
  <1>r. RowsOf(s, p) \in Seq(S)
    BY RowsOfType
  <1> DEFINE Bad == {i \in 0..n : ~Good(i)}
  <1>3. 0 \notin Bad
    <2>1. SubSeq(t, 1, 0) = <<>> /\ s \o <<>> = s
      OBVIOUS
    <2>2. RowsOf(s, p) \o <<>> = RowsOf(s, p)
      BY <1>r
    <2> QED
      BY <2>1, <2>2, RowsOfEmpty
  <1>4. ASSUME NEW i \in 1..n, Good(i - 1) PROVE Good(i)
    <2> DEFINE u == SubSeq(t, 1, i - 1)
               e == t[i]
    <2>1. u \in Seq(S) /\ e \in S /\ SubSeq(t, 1, i) = Append(u, e)
      BY <1>1
    <2>g. RowsOf(s \o u, p) = RowsOf(s, p) \o RowsOf(u, p)
      BY <1>4
    <2> HIDE DEF u, e, n
    <2>2. s \o Append(u, e) = Append(s \o u, e) /\ s \o u \in Seq(S)
      BY <2>1
    <2>3. RowsOf(u, p) \in Seq(S)
      BY <2>1, RowsOfType
    <2>4. IsSeq(u) /\ IsSeq(s \o u)
      BY <2>1, <2>2, SeqIsSeq
    <2>5. RowsOf(Append(u, e), p) =
              IF p \in {None, e.plan} THEN Append(RowsOf(u, p), e) ELSE RowsOf(u, p)
      BY <2>4, RowsOfAppend
    <2>6. RowsOf(Append(s \o u, e), p) =
              IF p \in {None, e.plan} THEN Append(RowsOf(s \o u, p), e) ELSE RowsOf(s \o u, p)
      BY <2>4, RowsOfAppend
    <2>7. Append(RowsOf(s, p) \o RowsOf(u, p), e) = RowsOf(s, p) \o Append(RowsOf(u, p), e)
      <3>1. Put(Join(RowsOf(s, p), RowsOf(u, p)), e) = Join(RowsOf(s, p), Put(RowsOf(u, p), e))
        BY <1>r, <2>1, <2>3, PutToJoined
      <3> QED
        BY <3>1 DEF Put, Join
    <2>8. RowsOf(s \o Append(u, e), p) = RowsOf(s, p) \o RowsOf(Append(u, e), p)
      BY <2>2, <2>5, <2>6, <2>7, <2>g
    <2> QED
      BY <2>1, <2>8
  <1>5. \A i \in 1..n : i \in Bad => i - 1 \in Bad
    <2>1. ASSUME NEW i \in 1..n, i - 1 \notin Bad PROVE i \notin Bad
      <3>1. i - 1 \in 0..n
        BY <1>1
      <3> QED
        BY <1>4, <2>1, <3>1
    <2> QED
      BY <2>1
  <1>6. Bad = {}
    <2>1. Bad \subseteq 0..n
      OBVIOUS
    <2> HIDE DEF Bad, n
    <2> QED
      BY <1>1, <1>3, <1>5, <2>1, UpTo
  <1>7. Good(n)
    BY <1>1, <1>6
  <1> QED
    BY <1>1, <1>7

-----------------------------------------------------------------------------
(* The plans of a table.                                                   *)

\* Where a position stands among the others.
Rank(at, k) == Cardinality({j \in at : j <= k})

LEMMA RanksAreDense ==
    ASSUME NEW m \in Nat, NEW at, at \subseteq 1..m
    PROVE  /\ IsFiniteSet(at) /\ Cardinality(at) \in Nat
           /\ \A k \in at : Rank(at, k) \in 1..Cardinality(at)
           /\ \A j, k \in at : Rank(at, j) = Rank(at, k) => j = k
           /\ \A n \in 1..Cardinality(at) : \E k \in at : Rank(at, k) = n
  <1>1. IsFiniteSet(at) /\ Cardinality(at) \in Nat
    <2>1. IsFiniteSet(1..m)
      BY FS_Interval
    <2> QED
      BY <2>1, FS_Subset, FS_CardinalityType
  <1> DEFINE N == Cardinality(at)
             Below(k) == {j \in at : j <= k}
  <1>2. ASSUME NEW k \in at PROVE Rank(at, k) \in 1..N
    <2>1. Below(k) \subseteq at /\ k \in Below(k)
      OBVIOUS
    <2>2. IsFiniteSet(Below(k)) /\ Cardinality(Below(k)) \in Nat /\ Cardinality(Below(k)) <= N
      BY <1>1, <2>1, FS_Subset, FS_CardinalityType
    <2>3. Cardinality(Below(k)) # 0
      BY <2>1, <2>2, FS_EmptySet
    <2> QED
      BY <1>1, <2>2, <2>3 DEF Rank
  <1>3. ASSUME NEW j \in at, NEW k \in at, j < k PROVE Rank(at, j) # Rank(at, k)
    <2>0. \A x \in at : x \in Int
      OBVIOUS
    <2>1. Below(j) \subseteq Below(k) /\ k \in Below(k) /\ k \notin Below(j)
      <3>1. \A x \in at : x <= j => x <= k
        BY <1>3, <2>0
      <3>2. k <= k /\ ~(k <= j)
        BY <1>3, <2>0
      <3> QED
        BY <3>1, <3>2
    <2>2. IsFiniteSet(Below(k))
      BY <1>1, FS_Subset
    <2>3. Below(j) # Below(k)
      BY <2>1
    <2>4. Cardinality(Below(j)) # Cardinality(Below(k))
      BY <2>1, <2>2, <2>3, FS_Subset
    <2> QED
      BY <2>4 DEF Rank
  <1>4. ASSUME NEW j \in at, NEW k \in at, Rank(at, j) = Rank(at, k) PROVE j = k
    <2>1. j \in Int /\ k \in Int
      OBVIOUS
    <2> QED
      BY <1>3, <1>4, <2>1
  <1> DEFINE f == [k \in at |-> Rank(at, k)]
  <1>5. f \in Injection(at, 1..N)
    <2>1. f \in [at -> 1..N]
      BY <1>2
    <2>2. ASSUME NEW j \in at, NEW k \in at, f[j] = f[k] PROVE j = k
      BY <1>4, <2>2
    <2> HIDE DEF f
    <2> QED
      BY <2>1, <2>2 DEF Injection, IsInjective
  <1>6. IsFiniteSet(1..N) /\ Cardinality(1..N) = N
    BY <1>1, FS_Interval
  <1>7. f \in Surjection(at, 1..N)
    <2> HIDE DEF f, N
    <2> QED
      BY <1>5, <1>6, FS_Injection DEF N
  <1>8. ASSUME NEW n \in 1..N PROVE \E k \in at : Rank(at, k) = n
    <2>1. \E k \in at : f[k] = n
      <3> HIDE DEF f, N
      <3> QED
        BY <1>7 DEF Surjection
    <2> QED
      BY <2>1
  <1> QED
    BY <1>1, <1>2, <1>4, <1>8

\* The distinct plans of the rows: each of them once.
LEMMA DistinctPlans ==
    ASSUME NEW rows \in Seq(Order)
    PROVE  LET d == _distinct_values_sql(rows)
           IN /\ IsSeq(d) /\ Len(d) \in Nat /\ DOMAIN d = 1..Len(d)
              /\ \A i, j \in DOMAIN d : d[i] = d[j] => i = j
              /\ \A i \in DOMAIN d : d[i] \in Plans /\ \E r \in Range(rows) : r.plan = d[i]
              /\ \A r \in Range(rows) : \E i \in DOMAIN d : d[i] = r.plan
  <1> DEFINE d == _distinct_values_sql(rows)
             at == PositionsOf(rows)
             m == Len(PlanOrder)
             N == Cardinality(at)
             Nth(n) == CHOOSE k \in at : Rank(at, k) = n
  <1>0. m \in Nat /\ DOMAIN PlanOrder = 1..m
    BY LimitsAssumption
  <1>1. at \subseteq 1..m
    BY <1>0 DEF PositionsOf
  <1>2. /\ N \in Nat
        /\ \A k \in at : Rank(at, k) \in 1..N
        /\ \A j, k \in at : Rank(at, j) = Rank(at, k) => j = k
        /\ \A n \in 1..N : \E k \in at : Rank(at, k) = n
    <2> HIDE DEF at, m
    <2> QED
      BY <1>0, <1>1, RanksAreDense
  <1>3. d = [n \in 1..N |-> PlanOrder[Nth(n)]]
    BY DEF _distinct_values_sql, Rank
  <1>r. rows = [i \in DOMAIN rows |-> rows[i]] /\ \A i \in DOMAIN rows : rows[i] \in Order
    OBVIOUS
  <1>p. \A k \in at : k \in DOMAIN PlanOrder /\ \E r \in Range(rows) : r.plan = PlanOrder[k]
    BY DEF PositionsOf, Range
  <1>q. \A r \in Range(rows) : \E k \in at : r.plan = PlanOrder[k]
    <2>1. ASSUME NEW i \in DOMAIN rows PROVE \E k \in at : rows[i].plan = PlanOrder[k]
      <3>1. rows[i].plan \in Plans
        BY <1>r DEF Order
      <3>2. PICK k \in DOMAIN PlanOrder : rows[i].plan = PlanOrder[k]
        BY <3>1 DEF Plans, Range
      <3> QED
        BY <3>2 DEF PositionsOf
    <2> QED
      BY <2>1 DEF Range
  <1>i. \A i, j \in DOMAIN PlanOrder : PlanOrder[i] = PlanOrder[j] => i = j
    BY LimitsAssumption
  <1> HIDE DEF at, N, d
  <1>4. ASSUME NEW n \in 1..N PROVE Nth(n) \in at /\ Rank(at, Nth(n)) = n
    BY <1>2
  <1>5. ASSUME NEW k \in at PROVE Nth(Rank(at, k)) = k
    <2>1. Rank(at, k) \in 1..N
      BY <1>2
    <2>2. Nth(Rank(at, k)) \in at /\ Rank(at, Nth(Rank(at, k))) = Rank(at, k)
      BY <1>4, <2>1
    <2> QED
      BY <1>2, <2>2
  <1> HIDE DEF Nth
  <1>6. DOMAIN d = 1..N /\ d = [i \in DOMAIN d |-> d[i]]
    BY <1>3
  <1>7. IsSeq(d) /\ Len(d) = N
    BY <1>2, <1>6, FunctionIsSeq
  <1>8. ASSUME NEW i \in 1..N, NEW j \in 1..N, d[i] = d[j] PROVE i = j
    <2>1. PlanOrder[Nth(i)] = PlanOrder[Nth(j)]
      BY <1>3, <1>8
    <2>2. Nth(i) = Nth(j)
      BY <1>4, <1>i, <1>p, <2>1
    <2> QED
      BY <1>4, <2>2
  <1>9. ASSUME NEW i \in 1..N PROVE d[i] \in Plans /\ \E r \in Range(rows) : r.plan = d[i]
    <2>1. d[i] = PlanOrder[Nth(i)] /\ Nth(i) \in at
      BY <1>3, <1>4
    <2>2. PlanOrder[Nth(i)] \in Plans
      BY <1>p, <2>1 DEF Plans, Range
    <2> QED
      BY <1>p, <2>1, <2>2
  <1>10. ASSUME NEW r \in Range(rows) PROVE \E i \in 1..N : d[i] = r.plan
    <2>1. PICK k \in at : r.plan = PlanOrder[k]
      BY <1>q
    <2>2. Rank(at, k) \in 1..N /\ d[Rank(at, k)] = PlanOrder[k]
      BY <1>2, <1>3, <1>5
    <2> QED
      BY <2>1, <2>2
  <1>11. /\ IsSeq(d) /\ Len(d) \in Nat /\ DOMAIN d = 1..Len(d)
         /\ \A i, j \in DOMAIN d : d[i] = d[j] => i = j
         /\ \A i \in DOMAIN d : d[i] \in Plans /\ \E r \in Range(rows) : r.plan = d[i]
         /\ \A r \in Range(rows) : \E i \in DOMAIN d : d[i] = r.plan
    BY <1>2, <1>6, <1>7, <1>8, <1>9, <1>10
  <1> QED
    BY <1>11 DEF d

-----------------------------------------------------------------------------
(* Answers of the source, and what a step makes of them.                   *)

\* Rows as the source had them between two of its versions.
Window(rows, plan, lo, hi) == \E v \in lo..hi : v > 0 /\ rows = Matching(v, plan)

\* An answer with rows of its plan, all of them if it says so.
Genuine(a, plan, lo, hi) ==
    /\ a.failed \in Kinds \cup Refusals \cup {None}
    /\ a.rows \in Seq(Order) /\ a.complete \in BOOLEAN /\ a.calls \in Nat
    /\ a.reason \in Reasons \cup {None}
    /\ a.failed = None /\ a.complete => Window(a.rows, plan, lo, hi)
    /\ a.shadow # None => /\ a.complete /\ a.shadow.complete
                          /\ a.shadow.reason \in Reasons \cup {None}
                          /\ a.shadow.rows \in Seq(Order)
                          /\ Window(a.shadow.rows, plan, lo, hi)

LEMMA WindowGrows ==
    ASSUME NEW rows, NEW plan, NEW lo \in Nat, NEW hi \in Nat, NEW now \in Nat, hi <= now,
           Window(rows, plan, lo, hi)
    PROVE  Window(rows, plan, lo, now)
  <1>1. \A v \in lo..hi : v \in lo..now
    OBVIOUS
  <1> QED
    BY <1>1 DEF Window

LEMMA GenuineGrows ==
    ASSUME NEW a, NEW plan, NEW lo \in Nat, NEW hi \in Nat, NEW now \in Nat, hi <= now,
           Genuine(a, plan, lo, hi)
    PROVE  Genuine(a, plan, lo, now)
  BY WindowGrows DEF Genuine

LEMMA MatchingType ==
    ASSUME NEW v \in DOMAIN World, NEW plan
    PROVE  Matching(v, plan) \in Seq(Order)
  <1>1. World[v] \in Seq(Order)
    BY LimitsAssumption DEF Order
  <1> QED
    BY <1>1, RowsOfType DEF Matching

LEMMA LiveShape ==
    ASSUME NEW v, NEW plan
    PROVE  /\ Live(v, plan).failed = None /\ Live(v, plan).rows = Matching(v, plan)
           /\ Live(v, plan).complete /\ Live(v, plan).complete \in BOOLEAN
           /\ Live(v, plan).reason = None /\ Live(v, plan).calls = 1
           /\ Live(v, plan).shadow = None
           /\ Live(v, plan) = [failed |-> None, rows |-> Matching(v, plan), complete |-> TRUE,
                               reason |-> None, footer |-> Len(Matching(v, plan)), calls |-> 1,
                               generated |-> None, shadow |-> None]
  <1> DEFINE a == Live(v, plan)
  <1>1. a = [failed |-> None, rows |-> Matching(v, plan), complete |-> TRUE, reason |-> None,
             footer |-> Len(Matching(v, plan)), calls |-> 1, generated |-> None, shadow |-> None]
    <2> DEFINE M == Matching(v, plan)
               l == Len(M)
    <2>1. a = [Nothing EXCEPT !.rows = M, !.footer = l, !.calls = 1]
      BY DEF Live
    <2> HIDE DEF M, l, a
    <2>2. a = [failed |-> None, rows |-> M, complete |-> TRUE, reason |-> None,
               footer |-> l, calls |-> 1, generated |-> None, shadow |-> None]
      BY <2>1 DEF Nothing
    <2> QED
      BY <2>2 DEF M, l
  <1> HIDE DEF a
  <1>2. /\ a.failed = None /\ a.rows = Matching(v, plan) /\ a.complete = TRUE
        /\ a.reason = None /\ a.calls = 1 /\ a.shadow = None
    BY <1>1
  <1>3. a.complete /\ a.complete \in BOOLEAN
    BY <1>2
  <1> QED
    BY <1>1, <1>2, <1>3 DEF a

\* Whatever the source or the cache says is genuine.
LEMMA SaidIsGenuine ==
    ASSUME NEW lo \in Nat, NEW hi \in DOMAIN World, NEW v \in DOMAIN World, NEW plan,
           lo <= v, v <= hi
    PROVE  /\ Genuine(Live(v, plan), plan, lo, hi)
           /\ Genuine(Cut(v, plan), plan, lo, hi)
           /\ Genuine(Cached(v, plan), plan, lo, hi)
           /\ Genuine(Shadowed(v, hi, plan), plan, lo, hi)
           /\ \A why \in Kinds \cup Refusals : Genuine(Failed(why), plan, lo, hi)
  <1> DEFINE M == Matching(v, plan)
  <1>0. DOMAIN World = 1..Len(World) /\ Len(World) \in Nat
    BY LimitsAssumption
  <1>1. M \in Seq(Order) /\ Matching(hi, plan) \in Seq(Order)
    BY MatchingType
  <1>2. v \in lo..hi /\ v > 0 /\ hi \in lo..hi /\ hi > 0
    BY <1>0
  <1>3. Window(M, plan, lo, hi) /\ Window(Matching(hi, plan), plan, lo, hi)
    BY <1>2 DEF Window
  <1> HIDE DEF M
  <1>4. Genuine(Live(v, plan), plan, lo, hi)
    <2> DEFINE a == Live(v, plan)
    <2>1. /\ a.failed = None /\ a.rows = M /\ a.complete /\ a.complete \in BOOLEAN
          /\ a.reason = None /\ a.calls = 1 /\ a.shadow = None
      BY LiveShape DEF M
    <2> HIDE DEF a
    <2>2. Genuine(a, plan, lo, hi)
      BY <1>1, <1>3, <2>1 DEF Genuine
    <2> QED
      BY <2>2 DEF a
  <1>5. Genuine(Cut(v, plan), plan, lo, hi)
    <2> DEFINE a == Cut(v, plan)
               F == IF M = <<>> THEN M ELSE Front(M)
    <2>1. /\ a.failed = None /\ a.rows = F /\ ~a.complete /\ a.complete \in BOOLEAN
          /\ a.reason = "max_pages" /\ a.calls = 1 /\ a.shadow = None
      BY LiveShape DEF Cut, M
    <2>2. F \in Seq(Order)
      <3>1. CASE M = <<>>
        BY <1>1, <3>1
      <3>2. CASE M # <<>>
        <4>1. Len(M) \in Nat /\ Len(M) - 1 \in 0..Len(M)
          BY <1>1, <3>2
        <4>2. SubSeq(M, 1, Len(M) - 1) \in Seq(Order)
          BY <1>1, <4>1
        <4> QED
          BY <3>2, <4>2 DEF Front
      <3> QED
        BY <3>1, <3>2
    <2> HIDE DEF a, F
    <2>3. Genuine(a, plan, lo, hi)
      BY <2>1, <2>2 DEF Genuine, Reasons
    <2> QED
      BY <2>3 DEF a
  <1>6. Genuine(Cached(v, plan), plan, lo, hi)
    <2> DEFINE a == Cached(v, plan)
    <2>1. /\ a.failed = None /\ a.rows = M /\ a.complete /\ a.complete \in BOOLEAN
          /\ a.reason = None /\ a.calls = 0 /\ a.shadow = None
      BY LiveShape DEF Cached, M
    <2> HIDE DEF a
    <2>2. Genuine(a, plan, lo, hi)
      BY <1>1, <1>3, <2>1 DEF Genuine
    <2> QED
      BY <2>2 DEF a
  <1>7. Genuine(Shadowed(v, hi, plan), plan, lo, hi)
    <2> DEFINE a == Shadowed(v, hi, plan)
               b == Live(hi, plan)
    <2>0. /\ b.rows = Matching(hi, plan) /\ b.complete /\ b.reason = None
      BY LiveShape
    <2>1. /\ a.failed = None /\ a.rows = M /\ a.complete /\ a.complete \in BOOLEAN
          /\ a.reason = None /\ a.calls \in {0, 1} /\ a.shadow = b
      <3> HIDE DEF b
      <3> QED
        BY LiveShape DEF Shadowed, M, _source_call_count, b
    <2> HIDE DEF a, b
    <2>2. a.calls \in Nat
      BY <2>1
    <2>3. Genuine(a, plan, lo, hi)
      BY <1>1, <1>3, <2>0, <2>1, <2>2 DEF Genuine
    <2> QED
      BY <2>3 DEF a
  <1>8. ASSUME NEW why \in Kinds \cup Refusals PROVE Genuine(Failed(why), plan, lo, hi)
    <2> DEFINE a == Failed(why)
    <2>1. /\ a.failed = why /\ a.rows = <<>> /\ a.complete \in BOOLEAN
          /\ a.reason = None /\ a.calls = 0 /\ a.shadow = None
      BY DEF Failed, Nothing
    <2>2. why # None
      BY NoneAssumption DEF Reasons
    <2>3. <<>> \in Seq(Order)
      OBVIOUS
    <2> HIDE DEF a
    <2>4. Genuine(a, plan, lo, hi)
      BY <2>1, <2>2, <2>3 DEF Genuine
    <2> QED
      BY <2>4 DEF a
  <1> QED
    BY <1>4, <1>5, <1>6, <1>7, <1>8

\* A fetch that is not from the cache.
Fetch(rows, complete, reason, footer, n) ==
    [failed |-> None, rows |-> rows, complete |-> complete, reason |-> reason,
     footer |-> footer, calls |-> n, generated |-> None, shadow |-> None]

\* What a step without failures has made of the answers to it.
Accumulated(f, said) ==
    /\ f = Fetch(Serial!RowsSaid(said), f.complete, Serial!ReasonSaid(said),
                 Serial!FooterSaid(said), Serial!CallsSaid(said))
    /\ f.complete \in BOOLEAN
    /\ f.complete <=> \A i \in DOMAIN said : said[i].complete

LEMMA NothingAccumulated == Accumulated(Nothing, <<>>)
  <1> DEFINE f == Nothing
  <1>1. f = Fetch(<<>>, TRUE, None, None, 0) /\ f.complete = TRUE
    BY DEF Nothing, Fetch
  <1>2. Serial!ReasonSaid(<<>>) = None /\ Serial!FooterSaid(<<>>) = None
    BY DEF Serial!ReasonSaid, Serial!FooterSaid, Serial!LatestOf
  <1>3. DOMAIN <<>> = {}
    OBVIOUS
  <1> HIDE DEF f
  <1>4. Accumulated(f, <<>>)
    BY <1>1, <1>2, <1>3, RowsSaidEmpty, CallsSaidEmpty DEF Accumulated
  <1> QED
    BY <1>4 DEF f

\* One more answer.
More(f, o) ==
    [f EXCEPT !.footer = IF o.footer # None THEN o.footer ELSE @,
              !.rows = @ \o o.rows,
              !.complete = @ /\ o.complete,
              !.reason = IF ~o.complete /\ o.reason # None THEN o.reason ELSE @,
              !.calls = @ + o.calls]

LEMMA OneMore ==
    ASSUME NEW f, NEW said, IsSeq(said), Accumulated(f, said),
           NEW o, o.complete \in BOOLEAN
    PROVE  Accumulated(More(f, o), Append(said, o))
  <1> DEFINE n == Len(said)
             t == Append(said, o)
             c == f.complete
             R == Serial!RowsSaid(said)
             W == Serial!ReasonSaid(said)
             F == Serial!FooterSaid(said)
             N == Serial!CallsSaid(said)
             h == More(f, o)
  <1>1. /\ n \in Nat /\ DOMAIN said = 1..n /\ DOMAIN t = 1..(n + 1) /\ t[n + 1] = o
        /\ \A i \in 1..n : t[i] = said[i]
    BY AppendShape
  <1>2. Serial!RowsSaid(t) = R \o o.rows /\ Serial!CallsSaid(t) = N + o.calls
    BY RowsSaidAppend, CallsSaidAppend
  <1> HIDE DEF n, t
  <1>3. Serial!FooterSaid(t) = IF o.footer # None THEN o.footer ELSE F
    <2> DEFINE v == [i \in DOMAIN said |-> said[i].footer]
               w == [i \in DOMAIN t |-> t[i].footer]
    <2>1. /\ DOMAIN v = 1..n /\ DOMAIN w = 1..(n + 1) /\ w[n + 1] = o.footer
          /\ \A i \in 1..n : v[i] = w[i]
      BY <1>1
    <2> HIDE DEF v, w
    <2>2. Serial!LatestOf(w) = IF w[n + 1] # None THEN w[n + 1] ELSE Serial!LatestOf(v)
      BY <1>1, <2>1, LatestAppend
    <2> QED
      BY <2>1, <2>2 DEF v, w, Serial!FooterSaid
  <1>4. Serial!ReasonSaid(t) = IF ~o.complete /\ o.reason # None THEN o.reason ELSE W
    <2> DEFINE v == [i \in DOMAIN said |-> IF said[i].complete THEN None ELSE said[i].reason]
               w == [i \in DOMAIN t |-> IF t[i].complete THEN None ELSE t[i].reason]
    <2>1. /\ DOMAIN v = 1..n /\ DOMAIN w = 1..(n + 1)
          /\ w[n + 1] = IF o.complete THEN None ELSE o.reason
          /\ \A i \in 1..n : v[i] = w[i]
      BY <1>1
    <2>d. Serial!ReasonSaid(said) = Serial!LatestOf(v) /\ Serial!ReasonSaid(t) = Serial!LatestOf(w)
      BY DEF Serial!ReasonSaid
    <2> HIDE DEF v, w
    <2>2. Serial!LatestOf(w) = IF w[n + 1] # None THEN w[n + 1] ELSE Serial!LatestOf(v)
      BY <1>1, <2>1, LatestAppend
    <2> QED
      BY <2>1, <2>2, <2>d
  <1>5. f = Fetch(R, c, W, F, N) /\ c \in BOOLEAN /\ (c <=> \A i \in DOMAIN said : said[i].complete)
    BY DEF Accumulated
  <1> HIDE DEF R, W, F, N, c
  <1>6. h = Fetch(R \o o.rows, c /\ o.complete,
                  IF ~o.complete /\ o.reason # None THEN o.reason ELSE W,
                  IF o.footer # None THEN o.footer ELSE F, N + o.calls)
    <2> DEFINE B == f.complete /\ o.complete
               X == IF o.footer # None THEN o.footer ELSE f.footer
               Y == IF ~o.complete /\ o.reason # None THEN o.reason ELSE f.reason
    <2>1. h = [f EXCEPT !.footer = X, !.rows = @ \o o.rows, !.complete = B, !.reason = Y,
                        !.calls = @ + o.calls]
      BY DEF More
    <2>2. f.rows = R /\ f.complete = c /\ f.reason = W /\ f.footer = F /\ f.calls = N
      BY <1>5 DEF Fetch
    <2>3. B = (c /\ o.complete) /\ X = (IF o.footer # None THEN o.footer ELSE F)
          /\ Y = (IF ~o.complete /\ o.reason # None THEN o.reason ELSE W)
      BY <2>2
    <2> HIDE DEF B, X, Y, h
    <2>4. h = Fetch(R \o o.rows, B, Y, X, N + o.calls)
      BY <1>5, <2>1, <2>2 DEF Fetch
    <2> QED
      BY <2>3, <2>4
  <1>7. h.complete = (c /\ o.complete)
    BY <1>6 DEF Fetch
  <1> HIDE DEF h
  <1>8. h.complete \in BOOLEAN
    BY <1>5, <1>7
  <1>9. h.complete <=> \A i \in DOMAIN t : t[i].complete
    <2>1. \A i \in 1..(n + 1) : i = n + 1 \/ i \in 1..n
      BY <1>1
    <2>2. n + 1 \in 1..(n + 1) /\ 1..n \subseteq 1..(n + 1)
      BY <1>1
    <2>3. (\A i \in DOMAIN t : t[i].complete) <=> ((\A i \in DOMAIN said : said[i].complete) /\ o.complete)
      BY <1>1, <2>1, <2>2
    <2> QED
      BY <1>5, <1>7, <2>3
  <1>10. h = Fetch(Serial!RowsSaid(t), h.complete, Serial!ReasonSaid(t), Serial!FooterSaid(t),
                   Serial!CallsSaid(t))
    BY <1>2, <1>3, <1>4, <1>6, <1>7 DEF R, W, F, N
  <1>11. Accumulated(h, t)
    BY <1>8, <1>9, <1>10 DEF Accumulated
  <1> QED
    BY <1>11 DEF h, t

\* The first m answers of a batch have been taken, behind those of the batches before.
Took(x, a, b, m) ==
    /\ IsSeq(x.said) /\ Len(x.said) = Len(a.said) + m
    /\ \A j \in 1..Len(a.said) : x.said[j] = a.said[j]
    /\ \A j \in 1..m : x.said[Len(a.said) + j] = b[j].said

\* The batch is folded in up to i: all of it, or up to its first failure.
FoldedUpTo(x, a, b, i) ==
    \E m \in 0..i :
        /\ Took(x, a, b, m)
        /\ \A j \in 1..m : j < m => b[j].said.failed = None
        /\ \/ m = i /\ Accumulated(x.fetch, x.said) /\ \A j \in 1..m : b[j].said.failed = None
           \/ m > 0 /\ b[m].said.failed # None /\ x.fetch = Failed(b[m].said.failed)

LEMMA TookOneMore ==
    ASSUME NEW x, NEW y, NEW a, IsSeq(a.said), NEW b, NEW m \in Nat, Took(x, a, b, m),
           y.said = Append(x.said, b[m + 1].said)
    PROVE  Took(y, a, b, m + 1)
  <1> DEFINE o == b[m + 1].said
             n == Len(a.said)
  <1>1. n \in Nat
    BY SeqShape
  <1>2. /\ IsSeq(x.said) /\ Len(x.said) = n + m
        /\ \A j \in 1..n : x.said[j] = a.said[j]
        /\ \A j \in 1..m : x.said[n + j] = b[j].said
    BY DEF Took
  <1> HIDE DEF n, o
  <1>3. /\ IsSeq(y.said) /\ Len(y.said) = (n + m) + 1 /\ y.said[(n + m) + 1] = o
        /\ \A j \in 1..(n + m) : y.said[j] = x.said[j]
    BY <1>2, AppendShape, AppendIsSeq DEF o
  <1>4. ASSUME NEW j \in 1..n PROVE y.said[j] = a.said[j]
    <2>1. j \in 1..(n + m)
      BY <1>1
    <2> QED
      BY <1>2, <1>3, <2>1
  <1>5. ASSUME NEW j \in 1..(m + 1) PROVE y.said[n + j] = b[j].said
    <2>1. CASE j = m + 1
      <3>1. n + j = (n + m) + 1
        BY <1>1, <2>1
      <3> QED
        BY <1>3, <2>1, <3>1 DEF o
    <2>2. CASE j # m + 1
      <3>1. j \in 1..m /\ n + j \in 1..(n + m)
        BY <1>1, <2>2
      <3> QED
        BY <1>2, <1>3, <3>1
    <2> QED
      BY <2>1, <2>2
  <1>6. (n + m) + 1 = n + (m + 1)
    BY <1>1
  <1> QED
    BY <1>3, <1>4, <1>5, <1>6 DEF Took, n

LEMMA BatchFolded ==
    ASSUME NEW a, IsSeq(a.said), Accumulated(a.fetch, a.said),
           NEW n \in Nat, NEW b, DOMAIN b = 1..n,
           \A i \in 1..n : b[i].said.complete \in BOOLEAN
    PROVE  FoldedUpTo(FoldLeft(Folded, a, b), a, b, n)
  <1>1. PICK g : IsFold(1, None, a, b, n, g) /\ FoldLeft(Folded, a, b) = g[n]
    BY FoldedIsFold
  <1> DEFINE Bad == {i \in 0..n : ~FoldedUpTo(g[i], a, b, i)}
  <1>3. 0 \notin Bad
    <2>1. g[0] = a
      BY <1>1 DEF IsFold
    <2>2. Len(a.said) \in Nat
      BY SeqShape
    <2>3. Took(a, a, b, 0)
      BY <2>2 DEF Took
    <2>4. FoldedUpTo(a, a, b, 0)
      BY <2>3 DEF FoldedUpTo
    <2> QED
      BY <2>1, <2>4
  <1>4. ASSUME NEW i \in 1..n, FoldedUpTo(g[i - 1], a, b, i - 1) PROVE FoldedUpTo(g[i], a, b, i)
    <2>1. PICK x : x = g[i - 1]
      OBVIOUS
    <2>2. PICK y : y = g[i]
      OBVIOUS
    <2>3. y = Folded(x, b[i])
      BY <1>1, <2>1, <2>2 DEF IsFold, FoldStep
    <2>4. PICK m \in 0..(i - 1) :
             /\ Took(x, a, b, m)
             /\ \A j \in 1..m : j < m => b[j].said.failed = None
             /\ \/ m = i - 1 /\ Accumulated(x.fetch, x.said) /\ \A j \in 1..m : b[j].said.failed = None
                \/ m > 0 /\ b[m].said.failed # None /\ x.fetch = Failed(b[m].said.failed)
      BY <1>4, <2>1 DEF FoldedUpTo
    <2>5. CASE m > 0 /\ b[m].said.failed # None /\ x.fetch = Failed(b[m].said.failed)
      <3>1. x.fetch.failed # None
        BY <2>5 DEF Failed, Nothing
      <3>2. y = x
        BY <2>3, <3>1 DEF Folded
      <3>3. m \in 0..i
        OBVIOUS
      <3>4. FoldedUpTo(y, a, b, i)
        BY <2>4, <2>5, <3>2, <3>3 DEF FoldedUpTo
      <3> QED
        BY <2>2, <3>4
    <2>6. CASE m = i - 1 /\ Accumulated(x.fetch, x.said) /\ \A j \in 1..m : b[j].said.failed = None
      <3> DEFINE o == b[i].said
      <3>1. x.fetch.failed = None
        BY <2>6 DEF Accumulated, Fetch
      <3>2. y.said = Append(x.said, o)
        BY <2>3, <3>1 DEF Folded
      <3>3. m + 1 = i /\ m \in Nat /\ i \in 0..i
        BY <2>6
      <3>4. Took(y, a, b, i)
        <4>1. y.said = Append(x.said, b[m + 1].said)
          BY <3>2, <3>3
        <4>2. Took(y, a, b, m + 1)
          BY <2>4, <3>3, <4>1, TookOneMore
        <4> QED
          BY <3>3, <4>2
      <3>5. \A j \in 1..i : j < i => b[j].said.failed = None
        <4>1. \A j \in 1..i : j < i => j \in 1..m
          BY <3>3
        <4> QED
          BY <2>6, <4>1
      <3>6. CASE o.failed # None
        <4>1. y.fetch = Failed(o.failed)
          BY <2>3, <3>1, <3>6 DEF Folded
        <4>2. FoldedUpTo(y, a, b, i)
          BY <3>3, <3>4, <3>5, <3>6, <4>1 DEF FoldedUpTo
        <4> QED
          BY <2>2, <4>2
      <3>7. CASE o.failed = None
        <4>1. y.fetch = More(x.fetch, o)
          BY <2>3, <3>1, <3>7 DEF Folded, More
        <4>2. IsSeq(x.said)
          BY <2>4 DEF Took
        <4>3. o.complete \in BOOLEAN
          OBVIOUS
        <4> HIDE DEF o
        <4>4. Accumulated(y.fetch, y.said)
          BY <2>6, <3>2, <4>1, <4>2, <4>3, OneMore
        <4>5. \A j \in 1..i : b[j].said.failed = None
          <5>1. \A j \in 1..i : j = i \/ j < i
            OBVIOUS
          <5> QED
            BY <3>5, <3>7, <5>1 DEF o
        <4>6. FoldedUpTo(y, a, b, i)
          BY <3>3, <3>4, <3>5, <4>4, <4>5 DEF FoldedUpTo
        <4> QED
          BY <2>2, <4>6
      <3> QED
        BY <3>6, <3>7
    <2> QED
      BY <2>4, <2>5, <2>6
  <1>5. \A i \in 1..n : i \in Bad => i - 1 \in Bad
    <2>1. ASSUME NEW i \in 1..n, i - 1 \notin Bad PROVE i \notin Bad
      <3>1. i - 1 \in 0..n
        OBVIOUS
      <3> QED
        BY <1>4, <2>1, <3>1
    <2> QED
      BY <2>1
  <1>6. Bad = {}
    <2>1. Bad \subseteq 0..n
      OBVIOUS
    <2> HIDE DEF Bad
    <2> QED
      BY <1>3, <1>5, <2>1, UpTo
  <1>7. FoldedUpTo(g[n], a, b, n)
    BY <1>6
  <1> QED
    BY <1>1, <1>7

-----------------------------------------------------------------------------
(* A step of the walk.                                                     *)

StepOf(r, fs) == r.steps[Len(fs) + 1]
RowsAt(r, fs, id) == fs[CHOOSE i \in DOMAIN r.steps : r.steps[i].id = id].rows
Known(r, fs, id) == \E i \in DOMAIN fs : r.steps[i].id = id

\* What the step asks for, and how much of it the call budget covers.
StepPlans(r, fs) ==
    IF StepOf(r, fs).from = None THEN <<None>>
    ELSE _distinct_values_sql(RowsAt(r, fs, StepOf(r, fs).from))
Left(c) == IF c < MaxApiCalls THEN MaxApiCalls - c ELSE 0
Covered(r, fs, c) ==
    IF StepOf(r, fs).from = None \/ Len(StepPlans(r, fs)) < Left(c) THEN Len(StepPlans(r, fs))
    ELSE Left(c)

\* The tables of the steps that are done.
Tables(r, fs) ==
    /\ r \in Recipes /\ IsSeq(fs) /\ Len(fs) <= Len(r.steps)
    /\ \A k \in DOMAIN fs : fs[k].rows \in Seq(Order)

\* Requests are gathered in the order of the plans, those answered before the current batch
\* without a failure.
Gathering(r, fs, c, w, a, b, t, lo, hi) ==
    /\ Len(fs) < Len(r.steps)
    /\ StepOf(r, fs).from # None => Known(r, fs, StepOf(r, fs).from)
    /\ w = Len(StepPlans(r, fs))
    /\ IsSeq(a.said) /\ IsSeq(b) /\ IsSeq(t)
    /\ Len(a.said) + Len(b) + Len(t) = Covered(r, fs, c)
    /\ \A i \in DOMAIN b : b[i].plan = StepPlans(r, fs)[Len(a.said) + i]
    /\ \A i \in DOMAIN t : t[i] = StepPlans(r, fs)[Len(a.said) + Len(b) + i]
    /\ Accumulated(a.fetch, a.said)
    /\ \A i \in DOMAIN a.said :
          Genuine(a.said[i], StepPlans(r, fs)[i], lo, hi) /\ a.said[i].failed = None
    /\ \A i \in DOMAIN b : b[i].state = "back" => Genuine(b[i].said, b[i].plan, lo, hi)

LEMMA RecipeSteps ==
    ASSUME NEW r \in Recipes
    PROVE  /\ Len(r.steps) \in Nat \ {0} /\ DOMAIN r.steps = 1..Len(r.steps)
           /\ \A i, j \in DOMAIN r.steps : r.steps[i].id = r.steps[j].id => i = j
  <1>1. r.steps \in Seq(Range(r.steps)) /\ r.steps # <<>>
    BY StepsAssumption
  <1>2. \A i, j \in DOMAIN r.steps : i # j => r.steps[i].id # r.steps[j].id
    BY RecipesAssumption DEF load_recipes, validate_recipe
  <1> QED
    BY <1>1, <1>2

LEMMA KnownTable ==
    ASSUME NEW r, NEW fs, Tables(r, fs), NEW id, Known(r, fs, id)
    PROVE  \E i \in DOMAIN fs : /\ (CHOOSE j \in DOMAIN r.steps : r.steps[j].id = id) = i
                                /\ RowsAt(r, fs, id) = fs[i].rows
                                /\ fs[i].rows \in Seq(Order)
  <1>0. r \in Recipes /\ IsSeq(fs) /\ Len(fs) <= Len(r.steps)
    BY DEF Tables
  <1>1. PICK i \in DOMAIN fs : r.steps[i].id = id
    BY DEF Known
  <1>2. DOMAIN fs = 1..Len(fs) /\ Len(fs) \in Nat
    BY <1>0, SeqShape
  <1>3. /\ Len(r.steps) \in Nat /\ DOMAIN r.steps = 1..Len(r.steps)
        /\ \A k, j \in DOMAIN r.steps : r.steps[k].id = r.steps[j].id => k = j
    BY <1>0, RecipeSteps
  <1>4. i \in DOMAIN r.steps
    BY <1>0, <1>2, <1>3
  <1>5. (CHOOSE j \in DOMAIN r.steps : r.steps[j].id = id) = i
    BY <1>1, <1>3, <1>4
  <1> QED
    BY <1>5 DEF RowsAt, Tables

LEMMA StepPlansShape ==
    ASSUME NEW r, NEW fs, Tables(r, fs),
           StepOf(r, fs).from # None => Known(r, fs, StepOf(r, fs).from)
    PROVE  /\ IsSeq(StepPlans(r, fs)) /\ Len(StepPlans(r, fs)) \in Nat
           /\ DOMAIN StepPlans(r, fs) = 1..Len(StepPlans(r, fs))
           /\ StepOf(r, fs).from = None => Len(StepPlans(r, fs)) = 1 /\ StepPlans(r, fs)[1] = None
           /\ \A i, j \in DOMAIN StepPlans(r, fs) : StepPlans(r, fs)[i] = StepPlans(r, fs)[j] => i = j
           /\ StepOf(r, fs).from # None =>
                 /\ \A i \in DOMAIN StepPlans(r, fs) : StepPlans(r, fs)[i] \in Plans
                 /\ \A row \in Range(RowsAt(r, fs, StepOf(r, fs).from)) :
                       \E i \in DOMAIN StepPlans(r, fs) : StepPlans(r, fs)[i] = row.plan
  <1> DEFINE d == StepPlans(r, fs)
             from == StepOf(r, fs).from
  <1>1. CASE from = None
    <2>1. d = <<None>>
      BY <1>1 DEF StepPlans
    <2>2. IsSeq(<<None>>)
      <3>1. <<None>> \in Seq({None})
        OBVIOUS
      <3> QED
        BY <3>1, SeqIsSeq
    <2> HIDE DEF d
    <2>3. /\ IsSeq(d) /\ Len(d) = 1 /\ DOMAIN d = 1..1 /\ d[1] = None
      BY <2>1, <2>2
    <2>4. \A i, j \in DOMAIN d : i = j
      BY <2>3
    <2> QED
      BY <1>1, <2>3, <2>4 DEF d
  <1>2. CASE from # None
    <2> DEFINE rows == RowsAt(r, fs, from)
    <2>1. rows \in Seq(Order)
      BY <1>2, KnownTable
    <2>2. d = _distinct_values_sql(rows)
      BY <1>2 DEF StepPlans
    <2> HIDE DEF d, rows, from
    <2>3. /\ IsSeq(d) /\ Len(d) \in Nat /\ DOMAIN d = 1..Len(d)
          /\ \A i, j \in DOMAIN d : d[i] = d[j] => i = j
          /\ \A i \in DOMAIN d : d[i] \in Plans
          /\ \A row \in Range(rows) : \E i \in DOMAIN d : d[i] = row.plan
      BY <2>1, <2>2, DistinctPlans
    <2> QED
      BY <1>2, <2>3 DEF d, rows, from
  <1> QED
    BY <1>1, <1>2

LEMMA CoveredType ==
    ASSUME NEW r, NEW fs, Tables(r, fs), NEW c \in Nat,
           StepOf(r, fs).from # None => Known(r, fs, StepOf(r, fs).from)
    PROVE  Covered(r, fs, c) \in 0..Len(StepPlans(r, fs))
  <1>1. MaxApiCalls \in Nat
    BY LimitsAssumption
  <1>2. Left(c) \in Nat
    BY <1>1 DEF Left
  <1>3. Len(StepPlans(r, fs)) \in Nat
    BY StepPlansShape
  <1> QED
    BY <1>2, <1>3 DEF Covered

\* The next batch of a gather is the first plans there are, in order.
NextOf(s, n, b, t) ==
    b = [i \in 1..n |-> Asked(s[i])] /\ t = SubSeq(s, n + 1, Len(s))

LEMMA NextBatch ==
    ASSUME NEW s, IsSeq(s), NEW n \in Nat, n <= Len(s), NEW b, NEW t, NextOf(s, n, b, t)
    PROVE  /\ IsSeq(b) /\ Len(b) = n
           /\ \A i \in 1..n : b[i].plan = s[i] /\ b[i].state = "queued"
           /\ IsSeq(t) /\ Len(t) = Len(s) - n
           /\ \A i \in 1..(Len(s) - n) : t[i] = s[n + i]
  <1>1. PICK S : s \in Seq(S)
    BY DEF IsSeq
  <1>2. Len(s) \in Nat
    BY <1>1
  <1>3. /\ DOMAIN b = 1..n /\ b = [i \in DOMAIN b |-> b[i]]
        /\ \A i \in 1..n : b[i].plan = s[i] /\ b[i].state = "queued"
    BY DEF NextOf, Asked
  <1>4. IsSeq(b) /\ Len(b) = n
    BY <1>3, FunctionIsSeq
  <1>5. t \in Seq(S) /\ Len(t) = Len(s) - n /\ \A i \in 1..(Len(s) - n) : t[i] = s[n + i]
    BY <1>1, <1>2 DEF NextOf
  <1>6. IsSeq(t)
    BY <1>5, SeqIsSeq
  <1> QED
    BY <1>3, <1>4, <1>5, <1>6

\* A gather goes on with the next batch of the plans that are left.
LEMMA GatheringGoesOn ==
    ASSUME NEW r, NEW fs, Tables(r, fs), NEW c \in Nat, Len(fs) < Len(r.steps),
           StepOf(r, fs).from # None => Known(r, fs, StepOf(r, fs).from),
           NEW a, IsSeq(a.said), Accumulated(a.fetch, a.said), NEW lo, NEW hi,
           \A i \in DOMAIN a.said :
              Genuine(a.said[i], StepPlans(r, fs)[i], lo, hi) /\ a.said[i].failed = None,
           NEW s, IsSeq(s), Len(a.said) + Len(s) = Covered(r, fs, c),
           \A i \in 1..Len(s) : s[i] = StepPlans(r, fs)[Len(a.said) + i],
           NEW n \in Nat, n <= Len(s), NEW b, NEW t, NextOf(s, n, b, t)
    PROVE  Gathering(r, fs, c, Len(StepPlans(r, fs)), a, b, t, lo, hi)
  <1> DEFINE d == StepPlans(r, fs)
             m == Covered(r, fs, c)
             l == Len(s)
             k == Len(a.said)
  <1>1. k \in Nat /\ l \in Nat /\ k + l = m
    BY SeqShape
  <1>2. /\ IsSeq(b) /\ Len(b) = n
        /\ \A i \in 1..n : b[i].plan = s[i] /\ b[i].state = "queued"
        /\ IsSeq(t) /\ Len(t) = l - n
        /\ \A i \in 1..(l - n) : t[i] = s[n + i]
    BY NextBatch
  <1>3. DOMAIN b = 1..n /\ DOMAIN t = 1..(l - n)
    BY <1>2, SeqShape
  <1>d. \A i \in 1..l : s[i] = d[k + i]
    OBVIOUS
  <1>n. n <= l
    OBVIOUS
  <1> HIDE DEF d, m, l, k
  <1>4. ASSUME NEW i \in DOMAIN b PROVE b[i].plan = d[k + i]
    <2>1. i \in 1..l /\ i \in 1..n
      BY <1>1, <1>3, <1>n
    <2> QED
      BY <1>2, <1>d, <2>1
  <1>5. ASSUME NEW i \in DOMAIN t PROVE t[i] = d[k + n + i]
    <2>1. i \in 1..(l - n)
      BY <1>3
    <2>2. n + i \in 1..l /\ k + (n + i) = k + n + i
      BY <1>1, <1>n, <2>1
    <2> QED
      BY <1>2, <1>d, <2>1, <2>2
  <1>6. k + n + (l - n) = m
    BY <1>1
  <1>7. \A i \in DOMAIN b : b[i].state # "back"
    BY <1>2, <1>3
  <1> QED
    BY <1>2, <1>4, <1>5, <1>6, <1>7 DEF Gathering, d, m, k

\* A step begins with the plans that are covered.
LEMMA GatheringBegins ==
    ASSUME NEW r, NEW fs, Tables(r, fs), NEW c \in Nat, Len(fs) < Len(r.steps),
           StepOf(r, fs).from # None => Known(r, fs, StepOf(r, fs).from),
           NEW s, s = SubSeq(StepPlans(r, fs), 1, Covered(r, fs, c)),
           NEW n \in Nat, n <= Len(s), NEW b, NEW t, NextOf(s, n, b, t), NEW lo, NEW hi
    PROVE  Gathering(r, fs, c, Len(StepPlans(r, fs)), NoAcc, b, t, lo, hi)
  <1> DEFINE d == StepPlans(r, fs)
             m == Covered(r, fs, c)
             a == NoAcc
  <1>1. IsSeq(d) /\ Len(d) \in Nat
    BY StepPlansShape
  <1>2. m \in 0..Len(d)
    BY CoveredType
  <1>3. PICK S : d \in Seq(S)
    BY <1>1 DEF IsSeq
  <1>4. s \in Seq(S) /\ Len(s) = m /\ \A i \in 1..m : s[i] = d[i]
    <2> HIDE DEF d, m
    <2> QED
      BY <1>1, <1>2, <1>3 DEF d, m
  <1>5. IsSeq(s)
    BY <1>4, SeqIsSeq
  <1>6. a.said = <<>> /\ a.fetch = Nothing
    BY DEF NoAcc
  <1>7. IsSeq(a.said) /\ Len(a.said) = 0 /\ DOMAIN a.said = {} /\ Accumulated(a.fetch, a.said)
    BY <1>6, EmptyIsSeq, NothingAccumulated
  <1> HIDE DEF a
  <1>8. Len(a.said) + Len(s) = m /\ \A i \in 1..Len(s) : s[i] = d[Len(a.said) + i]
    <2>1. m \in Nat /\ 0 + m = m /\ \A i \in 1..m : 0 + i = i
      BY <1>1, <1>2
    <2> QED
      BY <1>4, <1>7, <2>1
  <1>9. Gathering(r, fs, c, Len(StepPlans(r, fs)), a, b, t, lo, hi)
    BY <1>5, <1>7, <1>8, GatheringGoesOn
  <1> QED
    BY <1>9 DEF a

\* Requests of the batch are sent, hang, and are answered.
LEMMA GatheringAnswered ==
    ASSUME NEW r, NEW fs, NEW c, NEW w, NEW a, NEW b, NEW t, NEW lo, NEW hi,
           Gathering(r, fs, c, w, a, b, t, lo, hi),
           NEW b2, IsSeq(b2), Len(b2) = Len(b),
           \A i \in DOMAIN b : b2[i].plan = b[i].plan,
           \A i \in DOMAIN b : b2[i].state = "back" => Genuine(b2[i].said, b2[i].plan, lo, hi)
    PROVE  Gathering(r, fs, c, w, a, b2, t, lo, hi)
  <1>1. IsSeq(b)
    BY DEF Gathering
  <1>2. DOMAIN b2 = DOMAIN b
    BY <1>1, SeqShape
  <1> QED
    BY <1>2 DEF Gathering

LEMMA GatheringGrows ==
    ASSUME NEW r, NEW fs, NEW c, NEW w, NEW a, NEW b, NEW t, NEW lo \in Nat, NEW hi \in Nat,
           Gathering(r, fs, c, w, a, b, t, lo, hi), NEW now \in Nat, hi <= now
    PROVE  Gathering(r, fs, c, w, a, b, t, lo, now)
  <1>1. \A i \in DOMAIN b : b[i].state = "back" => Genuine(b[i].said, b[i].plan, lo, now)
    BY GenuineGrows DEF Gathering
  <1>2. \A i \in DOMAIN a.said :
          Genuine(a.said[i], StepPlans(r, fs)[i], lo, now) /\ a.said[i].failed = None
    BY GenuineGrows DEF Gathering
  <1> QED
    BY <1>1, <1>2 DEF Gathering

\* What the answers to a step add up to: everything so far, or a failure that comes last.
Collected(r, fs, x, n, lo, hi) ==
    /\ IsSeq(x.said)
    /\ \A j \in DOMAIN x.said : Genuine(x.said[j], StepPlans(r, fs)[j], lo, hi)
    /\ \/ /\ Accumulated(x.fetch, x.said) /\ Len(x.said) = n
          /\ \A j \in DOMAIN x.said : x.said[j].failed = None
       \/ /\ Len(x.said) > 0 /\ x.said[Len(x.said)].failed # None
          /\ x.fetch = Failed(x.said[Len(x.said)].failed)
          /\ \A j \in DOMAIN x.said : j # Len(x.said) => x.said[j].failed = None

LEMMA BatchCollected ==
    ASSUME NEW r, NEW fs, NEW c, NEW w, NEW a, NEW b, NEW t, NEW lo, NEW hi,
           Gathering(r, fs, c, w, a, b, t, lo, hi), \A i \in DOMAIN b : b[i].state = "back"
    PROVE  Collected(r, fs, FoldLeft(Folded, a, b), Len(a.said) + Len(b), lo, hi)
  <1> DEFINE n == Len(b)
             k == Len(a.said)
             d == StepPlans(r, fs)
  <1>1. /\ IsSeq(a.said) /\ IsSeq(b) /\ Accumulated(a.fetch, a.said)
        /\ \A i \in DOMAIN b : b[i].plan = d[k + i] /\ Genuine(b[i].said, b[i].plan, lo, hi)
        /\ \A i \in DOMAIN a.said : Genuine(a.said[i], d[i], lo, hi) /\ a.said[i].failed = None
    BY DEF Gathering
  <1>2. n \in Nat /\ k \in Nat /\ DOMAIN b = 1..n /\ DOMAIN a.said = 1..k
    BY <1>1, SeqShape
  <1>3. \A i \in 1..n : b[i].said.complete \in BOOLEAN
    BY <1>1, <1>2 DEF Genuine
  <1>4. PICK x : x = FoldLeft(Folded, a, b)
    OBVIOUS
  <1> HIDE DEF n, k, d
  <1>5. FoldedUpTo(x, a, b, n)
    BY <1>1, <1>2, <1>3, <1>4, BatchFolded
  <1>6. PICK m \in 0..n :
           /\ Took(x, a, b, m)
           /\ \A j \in 1..m : j < m => b[j].said.failed = None
           /\ \/ m = n /\ Accumulated(x.fetch, x.said) /\ \A j \in 1..m : b[j].said.failed = None
              \/ m > 0 /\ b[m].said.failed # None /\ x.fetch = Failed(b[m].said.failed)
    BY <1>5 DEF FoldedUpTo
  <1>7. /\ IsSeq(x.said) /\ Len(x.said) = k + m
        /\ \A j \in 1..k : x.said[j] = a.said[j]
        /\ \A j \in 1..m : x.said[k + j] = b[j].said
    BY <1>6 DEF Took, k
  <1>8. DOMAIN x.said = 1..(k + m) /\ m \in Nat
    BY <1>2, <1>7, SeqShape
  <1>9. ASSUME NEW j \in 1..(k + m)
        PROVE  \/ j \in 1..k /\ x.said[j] = a.said[j]
               \/ \E i \in 1..m : j = k + i /\ i \in 1..n /\ x.said[j] = b[i].said
    <2>1. CASE j <= k
      <3>1. j \in 1..k
        BY <1>2, <1>8, <2>1
      <3> QED
        BY <1>7, <3>1
    <2>2. CASE ~(j <= k)
      <3>1. j - k \in 1..m /\ j = k + (j - k) /\ j - k \in 1..n
        BY <1>2, <1>8, <2>2
      <3> QED
        BY <1>7, <3>1
    <2> QED
      BY <2>1, <2>2
  <1>10. ASSUME NEW j \in 1..(k + m) PROVE Genuine(x.said[j], d[j], lo, hi)
    <2>1. CASE j \in 1..k /\ x.said[j] = a.said[j]
      BY <1>1, <1>2, <2>1
    <2>2. ASSUME NEW i \in 1..m, j = k + i, i \in 1..n, x.said[j] = b[i].said
          PROVE  Genuine(x.said[j], d[j], lo, hi)
      BY <1>1, <1>2, <2>2
    <2> QED
      BY <1>9, <2>1, <2>2
  <1>11. CASE m = n /\ Accumulated(x.fetch, x.said) /\ \A j \in 1..m : b[j].said.failed = None
    <2>1. ASSUME NEW j \in 1..(k + m) PROVE x.said[j].failed = None
      BY <1>1, <1>2, <1>9, <1>11
    <2>2. Collected(r, fs, x, k + n, lo, hi)
      BY <1>7, <1>8, <1>10, <1>11, <2>1 DEF Collected, d
    <2> QED
      BY <1>4, <2>2 DEF n, k
  <1>12. CASE m > 0 /\ b[m].said.failed # None /\ x.fetch = Failed(b[m].said.failed)
    <2>1. m \in 1..m /\ k + m > 0
      BY <1>2, <1>8, <1>12
    <2>2. x.said[k + m] = b[m].said
      BY <1>7, <2>1
    <2>3. ASSUME NEW j \in 1..(k + m), j # k + m PROVE x.said[j].failed = None
      <3>1. CASE j \in 1..k /\ x.said[j] = a.said[j]
        BY <1>1, <1>2, <3>1
      <3>2. ASSUME NEW i \in 1..m, j = k + i, x.said[j] = b[i].said PROVE x.said[j].failed = None
        <4>1. i < m
          BY <1>2, <1>8, <2>3, <3>2
        <4> QED
          BY <1>6, <3>2, <4>1
      <3> QED
        BY <1>9, <3>1, <3>2
    <2>4. Collected(r, fs, x, k + n, lo, hi)
      BY <1>7, <1>8, <1>10, <1>12, <2>1, <2>2, <2>3 DEF Collected, d
    <2> QED
      BY <1>4, <2>4 DEF n, k
  <1> QED
    BY <1>6, <1>11, <1>12

-----------------------------------------------------------------------------
(* Steps that are done.                                                    *)

\* A fan-out that is complete has the rows of every plan of the step it was bound to.
Done(r, fs, wd, k, lo, hi) ==
    /\ wd[k].fanned \in BOOLEAN /\ (wd[k].fanned <=> r.steps[k].from # None)
    /\ fs[k].complete \in BOOLEAN /\ fs[k].reason \in Reasons \cup {None}
    /\ fs[k].complete => Len(wd[k].said) = wd[k].wanted
    /\ r.steps[k].from = None =>
          /\ fs[k].complete => Window(fs[k].rows, None, lo, hi)
          /\ fs[k].shadow # None => /\ fs[k].complete /\ fs[k].shadow.complete
                                    /\ fs[k].shadow.reason \in Reasons \cup {None}
                                    /\ fs[k].shadow.rows \in Seq(Order)
                                    /\ Window(fs[k].shadow.rows, None, lo, hi)
    /\ r.steps[k].from # None =>
          /\ fs[k].shadow = None /\ Known(r, fs, r.steps[k].from)
          /\ fs[k].complete =>
               \A p \in {row.plan : row \in Range(RowsAt(r, fs, r.steps[k].from))} :
                  \E v \in lo..hi : v > 0 /\ RowsOf(fs[k].rows, p) = Matching(v, p)

LEMMA DoneGrows ==
    ASSUME NEW r, NEW fs, NEW wd, NEW k, NEW lo \in Nat, NEW hi \in Nat, NEW now \in Nat,
           hi <= now, Done(r, fs, wd, k, lo, hi)
    PROVE  Done(r, fs, wd, k, lo, now)
  <1>1. \A v \in lo..hi : v \in lo..now
    OBVIOUS
  <1> QED
    BY <1>1, WindowGrows DEF Done

\* A step stays done when the next one is.
LEMMA DoneStays ==
    ASSUME NEW r, NEW fs, Tables(r, fs), NEW wd, IsSeq(wd), Len(wd) = Len(fs),
           NEW k \in DOMAIN fs, NEW lo, NEW hi, Done(r, fs, wd, k, lo, hi), NEW f, NEW x
    PROVE  Done(r, Append(fs, f), Append(wd, x), k, lo, hi)
  <1> DEFINE gs == Append(fs, f)
             vd == Append(wd, x)
  <1>1. IsSeq(fs)
    BY DEF Tables
  <1>2. /\ Len(fs) \in Nat /\ DOMAIN fs = 1..Len(fs) /\ DOMAIN gs = 1..(Len(fs) + 1)
        /\ \A i \in 1..Len(fs) : gs[i] = fs[i]
    BY <1>1, AppendShape
  <1>3. \A i \in 1..Len(fs) : vd[i] = wd[i]
    BY AppendShape
  <1>4. k \in 1..Len(fs) /\ gs[k] = fs[k] /\ vd[k] = wd[k]
    BY <1>2, <1>3
  <1>5. ASSUME NEW id, Known(r, fs, id)
        PROVE  Known(r, gs, id) /\ RowsAt(r, gs, id) = RowsAt(r, fs, id)
    <2>1. PICK i \in DOMAIN fs : /\ (CHOOSE j \in DOMAIN r.steps : r.steps[j].id = id) = i
                                 /\ RowsAt(r, fs, id) = fs[i].rows
      BY <1>5, KnownTable
    <2>2. gs[i] = fs[i] /\ RowsAt(r, gs, id) = gs[i].rows
      BY <1>2, <2>1 DEF RowsAt
    <2>3. DOMAIN fs \subseteq DOMAIN gs
      BY <1>2
    <2> QED
      BY <1>5, <2>1, <2>2, <2>3 DEF Known
  <1> HIDE DEF gs, vd
  <1>6. Done(r, gs, vd, k, lo, hi)
    BY <1>4, <1>5 DEF Done
  <1> QED
    BY <1>6 DEF gs, vd

\* What the current step has fetched, and how, when it is over.
Fetched(r, fs, f, e, lo, hi) ==
    /\ f.rows \in Seq(Order) /\ f.calls \in Nat
    /\ e.fanned \in BOOLEAN /\ (e.fanned <=> StepOf(r, fs).from # None)
    /\ f.complete \in BOOLEAN /\ f.reason \in Reasons \cup {None}
    /\ f.complete => Len(e.said) = e.wanted
    /\ StepOf(r, fs).from = None =>
          /\ f.complete => Window(f.rows, None, lo, hi)
          /\ f.shadow # None => /\ f.complete /\ f.shadow.complete
                                /\ f.shadow.reason \in Reasons \cup {None}
                                /\ f.shadow.rows \in Seq(Order)
                                /\ Window(f.shadow.rows, None, lo, hi)
    /\ StepOf(r, fs).from # None =>
          /\ f.shadow = None /\ Known(r, fs, StepOf(r, fs).from)
          /\ f.complete =>
               \A p \in {row.plan : row \in Range(RowsAt(r, fs, StepOf(r, fs).from))} :
                  \E v \in lo..hi : v > 0 /\ RowsOf(f.rows, p) = Matching(v, p)

LEMMA FetchedIsDone ==
    ASSUME NEW r, NEW fs, Tables(r, fs), NEW wd, IsSeq(wd), Len(wd) = Len(fs),
           Len(fs) < Len(r.steps), NEW lo, NEW hi, NEW f, NEW e, Fetched(r, fs, f, e, lo, hi)
    PROVE  /\ Done(r, Append(fs, f), Append(wd, e), Len(fs) + 1, lo, hi)
           /\ Tables(r, Append(fs, f))
  <1> DEFINE gs == Append(fs, f)
             vd == Append(wd, e)
             k == Len(fs) + 1
             from == StepOf(r, fs).from
  <1>1. IsSeq(fs) /\ r \in Recipes /\ \A i \in DOMAIN fs : fs[i].rows \in Seq(Order)
    BY DEF Tables
  <1>2. /\ Len(fs) \in Nat /\ DOMAIN fs = 1..Len(fs) /\ DOMAIN gs = 1..(Len(fs) + 1)
        /\ Len(gs) = Len(fs) + 1 /\ gs[k] = f /\ \A i \in 1..Len(fs) : gs[i] = fs[i]
    BY <1>1, AppendShape
  <1>3. vd[k] = e
    BY AppendShape
  <1>4. Len(r.steps) \in Nat /\ DOMAIN r.steps = 1..Len(r.steps)
    BY <1>1, RecipeSteps
  <1>5. r.steps[k].from = from
    BY DEF StepOf
  <1>6. ASSUME NEW id, Known(r, fs, id)
        PROVE  Known(r, gs, id) /\ RowsAt(r, gs, id) = RowsAt(r, fs, id)
    <2>1. PICK i \in DOMAIN fs : /\ (CHOOSE j \in DOMAIN r.steps : r.steps[j].id = id) = i
                                 /\ RowsAt(r, fs, id) = fs[i].rows
      BY <1>6, KnownTable
    <2>2. gs[i] = fs[i] /\ RowsAt(r, gs, id) = gs[i].rows
      BY <1>2, <2>1 DEF RowsAt
    <2>3. DOMAIN fs \subseteq DOMAIN gs
      BY <1>2
    <2> QED
      BY <1>6, <2>1, <2>2, <2>3 DEF Known
  <1>7. Tables(r, gs)
    <2>1. IsSeq(gs)
      BY <1>1, AppendIsSeq
    <2>2. ASSUME NEW i \in DOMAIN gs PROVE gs[i].rows \in Seq(Order)
      <3>1. i = k \/ i \in DOMAIN fs
        BY <1>2
      <3> QED
        BY <1>1, <1>2, <3>1 DEF Fetched
    <2>3. Len(gs) <= Len(r.steps)
      BY <1>2, <1>4
    <2> HIDE DEF gs
    <2> QED
      BY <1>1, <2>1, <2>2, <2>3 DEF Tables
  <1> HIDE DEF gs, vd, k, from
  <1>8. Done(r, gs, vd, k, lo, hi)
    BY <1>2, <1>3, <1>5, <1>6 DEF Done, Fetched, from
  <1> QED
    BY <1>7, <1>8 DEF gs, vd, k

\* A step whose source failed: nothing, and marked.
LEMMA DegradedIsFetched ==
    ASSUME NEW r, NEW fs, NEW why \in Kinds, NEW e, NEW lo, NEW hi,
           e.fanned \in BOOLEAN, e.fanned <=> StepOf(r, fs).from # None,
           StepOf(r, fs).from # None => Known(r, fs, StepOf(r, fs).from)
    PROVE  Fetched(r, fs, UpstreamDegraded(why), e, lo, hi)
  <1> DEFINE f == UpstreamDegraded(why)
  <1>1. /\ f.rows = <<>> /\ f.calls = 0 /\ ~f.complete /\ f.complete \in BOOLEAN
        /\ f.reason = why /\ f.shadow = None
    BY DEF UpstreamDegraded, Nothing
  <1>2. <<>> \in Seq(Order) /\ why \in Reasons
    BY DEF Reasons
  <1> HIDE DEF f
  <1>3. Fetched(r, fs, f, e, lo, hi)
    BY <1>1, <1>2 DEF Fetched
  <1> QED
    BY <1>3 DEF f

\* A step with one request: its answer.
LEMMA AnswerIsFetched ==
    ASSUME NEW r, NEW fs, NEW o, NEW e, NEW lo, NEW hi,
           StepOf(r, fs).from = None, e.fanned \in BOOLEAN, ~e.fanned,
           Genuine(o, None, lo, hi), o.failed = None, Len(e.said) = e.wanted
    PROVE  Fetched(r, fs, o, e, lo, hi)
  BY DEF Fetched, Genuine

LEMMA RowsStep ==
    ASSUME NEW said, NEW n, NEW g, IsFold(3, None, <<>>, said, n, g), NEW i \in 1..n
    PROVE  g[i] = Join(g[i - 1], said[i].rows)
  <1>1. g[i] = FoldStep(3, None, g[i - 1], said[i])
    BY DEF IsFold
  <1>2. PICK x : x = g[i - 1]
    OBVIOUS
  <1>3. PICK e : e = said[i]
    OBVIOUS
  <1>4. FoldStep(3, None, x, e) = x \o e.rows
    BY DEF FoldStep
  <1>5. FoldStep(3, None, x, e) = Join(x, e.rows)
    BY <1>4 DEF Join
  <1> QED
    BY <1>1, <1>2, <1>3, <1>5

LEMMA JoinType ==
    ASSUME NEW S, NEW a \in Seq(S), NEW b \in Seq(S)
    PROVE  Join(a, b) \in Seq(S)
  BY DEF Join

LEMMA RowsOfJoined ==
    ASSUME NEW S, NEW s \in Seq(S), NEW t \in Seq(S), NEW p
    PROVE  RowsOf(Join(s, t), p) = Join(RowsOf(s, p), RowsOf(t, p))
  BY RowsOfBoth DEF Join

LEMMA JoinNothing ==
    ASSUME NEW S, NEW s \in Seq(S)
    PROVE  Join(s, <<>>) = s /\ Join(<<>>, s) = s
  BY DEF Join

\* The rows of a fan-out.
LEMMA RowsSaidType ==
    ASSUME NEW said, IsSeq(said), \A i \in DOMAIN said : said[i].rows \in Seq(Order)
    PROVE  \E g : /\ IsFold(3, None, <<>>, said, Len(said), g)
                  /\ Serial!RowsSaid(said) = g[Len(said)]
                  /\ \A i \in 0..Len(said) : g[i] \in Seq(Order)
  <1> DEFINE n == Len(said)
  <1>1. n \in Nat /\ DOMAIN said = 1..n
    BY SeqShape
  <1> HIDE DEF n
  <1>2. PICK g : IsFold(3, None, <<>>, said, n, g) /\ Serial!RowsSaid(said) = g[n]
    BY <1>1, RowsIsFold
  <1> DEFINE Bad == {i \in 0..n : g[i] \notin Seq(Order)}
  <1>3. 0 \notin Bad
    <2>1. g[0] = <<>>
      BY <1>2 DEF IsFold
    <2>2. <<>> \in Seq(Order)
      OBVIOUS
    <2> QED
      BY <2>1, <2>2
  <1>4. ASSUME NEW i \in 1..n, g[i - 1] \in Seq(Order) PROVE g[i] \in Seq(Order)
    <2>1. g[i] = Join(g[i - 1], said[i].rows)
      BY <1>2, RowsStep
    <2> QED
      BY <1>1, <1>4, <2>1, JoinType
  <1>5. \A i \in 1..n : i \in Bad => i - 1 \in Bad
    <2>1. ASSUME NEW i \in 1..n, i - 1 \notin Bad PROVE i \notin Bad
      <3>1. i - 1 \in 0..n
        BY <1>1
      <3> QED
        BY <1>4, <2>1, <3>1
    <2> QED
      BY <2>1
  <1>6. Bad = {}
    <2>1. Bad \subseteq 0..n
      OBVIOUS
    <2> HIDE DEF Bad
    <2> QED
      BY <1>1, <1>3, <1>5, <2>1, UpTo
  <1> QED
    BY <1>2, <1>6 DEF n

\* Each plan was asked for once: its rows are those of its answer.
LEMMA FanRows ==
    ASSUME NEW said, IsSeq(said), NEW d, NEW lo, NEW hi,
           \A i \in 1..Len(said) : /\ said[i].rows \in Seq(Order)
                                   /\ d[i] \in Plans /\ Window(said[i].rows, d[i], lo, hi),
           \A i, j \in 1..Len(said) : d[i] = d[j] => i = j,
           lo \in Nat, hi \in DOMAIN World,
           NEW j \in 1..Len(said)
    PROVE  RowsOf(Serial!RowsSaid(said), d[j]) = said[j].rows
  <1> DEFINE n == Len(said)
             p == d[j]
             M == said[j].rows
             Good(i, rows) == RowsOf(rows, p) = IF j <= i THEN M ELSE <<>>
  <1>1. n \in Nat /\ DOMAIN said = 1..n
    BY SeqShape
  <1>2. PICK g : /\ IsFold(3, None, <<>>, said, n, g) /\ Serial!RowsSaid(said) = g[n]
                 /\ \A i \in 0..n : g[i] \in Seq(Order)
    BY <1>1, RowsSaidType
  <1>p. p # None /\ \A i \in 1..n : d[i] # None
    BY NoneAssumption
  <1>w. DOMAIN World = 1..Len(World) /\ Len(World) \in Nat
    BY LimitsAssumption
  <1>3. ASSUME NEW i \in 1..n, NEW k \in DOMAIN said[i].rows PROVE said[i].rows[k].plan = d[i]
    <2>1. PICK v \in lo..hi : v > 0 /\ said[i].rows = Matching(v, d[i])
      BY DEF Window
    <2>2. v \in DOMAIN World
      BY <1>w, <2>1
    <2>3. World[v] \in Seq(Order)
      BY <2>2, LimitsAssumption DEF Order
    <2>4. d[i] \in {None, Matching(v, d[i])[k].plan}
      <3>1. \A z \in DOMAIN RowsOf(World[v], d[i]) : d[i] \in {None, RowsOf(World[v], d[i])[z].plan}
        BY <2>3, RowsOfType
      <3> QED
        BY <2>1, <3>1 DEF Matching
    <2> QED
      BY <1>p, <2>1, <2>4
  <1>4. RowsOf(M, p) = M
    <2>1. M \in Seq(Order)
      OBVIOUS
    <2>2. \A k \in DOMAIN M : p \in {None, M[k].plan}
      BY <1>3
    <2> HIDE DEF M, p
    <2> QED
      BY <2>1, <2>2, RowsOfAll
  <1>5. ASSUME NEW i \in 1..n, i # j PROVE RowsOf(said[i].rows, p) = <<>>
    <2>0. d[i] # p
      BY <1>5
    <2>1. \A k \in DOMAIN said[i].rows : ~(p \in {None, said[i].rows[k].plan})
      BY <1>3, <1>p, <2>0
    <2>2. said[i].rows \in Seq(Order)
      OBVIOUS
    <2> HIDE DEF p
    <2> QED
      BY <2>1, <2>2, RowsOfOthers
  <1>m. M \in Seq(Order)
    OBVIOUS
  <1> DEFINE Bad == {i \in 0..n : ~Good(i, g[i])}
  <1>6. 0 \notin Bad
    <2>1. g[0] = <<>> /\ ~(j <= 0)
      BY <1>2 DEF IsFold
    <2> QED
      BY <2>1, RowsOfEmpty
  <1>7. ASSUME NEW i \in 1..n, Good(i - 1, g[i - 1]) PROVE Good(i, g[i])
    <2>1. g[i] = Join(g[i - 1], said[i].rows)
      BY <1>2, RowsStep
    <2>2. g[i - 1] \in Seq(Order) /\ said[i].rows \in Seq(Order)
      BY <1>1, <1>2
    <2>3. RowsOf(g[i], p) = Join(RowsOf(g[i - 1], p), RowsOf(said[i].rows, p))
      BY <2>1, <2>2, RowsOfJoined
    <2>4. CASE i = j
      <3>1. ~(j <= i - 1) /\ j <= i
        BY <2>4
      <3>2. RowsOf(g[i - 1], p) = <<>> /\ RowsOf(said[i].rows, p) = M
        BY <1>4, <1>7, <2>4, <3>1
      <3>3. Join(<<>>, M) = M
        BY <1>m, JoinNothing
      <3> QED
        BY <2>3, <3>1, <3>2, <3>3
    <2>5. CASE i # j
      <3>1. (j <= i - 1) <=> (j <= i)
        BY <2>5
      <3>2. RowsOf(said[i].rows, p) = <<>>
        BY <1>5, <2>5
      <3>3. RowsOf(g[i - 1], p) = IF j <= i THEN M ELSE <<>>
        BY <1>7, <3>1
      <3>4. Join(RowsOf(g[i - 1], p), <<>>) = RowsOf(g[i - 1], p)
        BY <2>2, RowsOfType, JoinNothing
      <3> QED
        BY <2>3, <3>2, <3>3, <3>4
    <2> QED
      BY <2>4, <2>5
  <1>8. \A i \in 1..n : i \in Bad => i - 1 \in Bad
    <2>1. ASSUME NEW i \in 1..n, i - 1 \notin Bad PROVE i \notin Bad
      <3>1. i - 1 \in 0..n
        BY <1>1
      <3> QED
        BY <1>7, <2>1, <3>1
    <2> QED
      BY <2>1
  <1>9. Bad = {}
    <2>1. Bad \subseteq 0..n
      OBVIOUS
    <2> HIDE DEF Bad, n
    <2> QED
      BY <1>1, <1>6, <1>8, <2>1, UpTo
  <1>10. Good(n, g[n]) /\ j <= n
    BY <1>1, <1>9
  <1> QED
    BY <1>2, <1>10

\* The sum of a fan-out.
Fan(f, n, w) ==
    [f EXCEPT !.complete = @ /\ n = w,
              !.reason = IF n < w THEN "call_budget_exhausted" ELSE @,
              !.footer = IF w <= 1 THEN @ ELSE None]

LEMMA FanShape ==
    ASSUME NEW f, NEW said, IsSeq(said), Accumulated(f, said), NEW w \in Nat
    PROVE  /\ Fan(f, Len(said), w) = Serial!WholeWalk(said, w)
           /\ LET h == Fan(f, Len(said), w)
              IN /\ h.rows = Serial!RowsSaid(said) /\ h.calls = Serial!CallsSaid(said)
                 /\ h.complete \in BOOLEAN
                 /\ h.complete <=> Len(said) = w /\ \A i \in DOMAIN said : said[i].complete
                 /\ h.reason = IF Len(said) < w THEN "call_budget_exhausted"
                               ELSE Serial!ReasonSaid(said)
                 /\ h.shadow = None
  <1> DEFINE n == Len(said)
             c == f.complete
             A == \A i \in DOMAIN said : said[i].complete
             R == Serial!RowsSaid(said)
             W == Serial!ReasonSaid(said)
             F == Serial!FooterSaid(said)
             N == Serial!CallsSaid(said)
             h == Fan(f, n, w)
             k == Serial!WholeWalk(said, w)
             B == f.complete /\ n = w
             C == n = w /\ A
             X == IF n < w THEN "call_budget_exhausted" ELSE f.reason
             X2 == IF n < w THEN "call_budget_exhausted" ELSE W
             Y == IF w <= 1 THEN f.footer ELSE None
             Y2 == IF w > 1 THEN None ELSE F
  <1>1. n \in Nat
    BY SeqShape
  <1>2. f = Fetch(R, c, W, F, N) /\ c \in BOOLEAN /\ (c <=> A)
    BY DEF Accumulated
  <1>3. h = [f EXCEPT !.complete = B, !.reason = X, !.footer = Y]
    BY DEF Fan
  <1>4. k = [Serial!Nothing EXCEPT !.rows = R, !.complete = C, !.reason = X2, !.footer = Y2,
                                   !.calls = N]
    BY DEF Serial!WholeWalk
  <1> HIDE DEF R, W, F, N, A, n
  <1>5. f.reason = W /\ f.footer = F
    BY <1>2 DEF Fetch
  <1>6. X = X2
    BY <1>5
  <1>7. Y = Y2
    BY <1>1, <1>5
  <1>8. B <=> C
    BY <1>2
  <1>9. B = C
    BY <1>8
  <1>10. B \in BOOLEAN
    OBVIOUS
  <1> HIDE DEF h, k, B, C, X, X2, Y, Y2, c
  <1>11. h = Fetch(R, B, X, Y, N)
    BY <1>2, <1>3 DEF Fetch
  <1>12. k = Fetch(R, C, X2, Y2, N)
    BY <1>4 DEF Serial!Nothing, Fetch
  <1>13. h = k
    BY <1>6, <1>7, <1>9, <1>11, <1>12
  <1>14. h.rows = R /\ h.calls = N /\ h.complete = B /\ h.reason = X /\ h.shadow = None
    BY <1>11 DEF Fetch
  <1>15. h.complete \in BOOLEAN /\ (h.complete <=> C)
    BY <1>8, <1>10, <1>14
  <1>16. /\ h = k
         /\ h.rows = R /\ h.calls = N /\ h.complete \in BOOLEAN
         /\ h.complete <=> n = w /\ A
         /\ h.reason = IF n < w THEN "call_budget_exhausted" ELSE W
         /\ h.shadow = None
    BY <1>6, <1>13, <1>14, <1>15 DEF C, X2
  <1> QED
    BY <1>16 DEF h, k, n, R, N, W, A

LEMMA CallsSaidType ==
    ASSUME NEW said, IsSeq(said), \A i \in DOMAIN said : said[i].calls \in Nat
    PROVE  Serial!CallsSaid(said) \in Nat
  <1> DEFINE n == Len(said)
  <1>1. n \in Nat /\ DOMAIN said = 1..n
    BY SeqShape
  <1> HIDE DEF n
  <1>2. PICK g : IsFold(2, None, 0, said, n, g) /\ Serial!CallsSaid(said) = g[n]
    BY <1>1, CallsIsFold
  <1> DEFINE Bad == {i \in 0..n : g[i] \notin Nat}
  <1>3. 0 \notin Bad
    BY <1>2 DEF IsFold
  <1>4. ASSUME NEW i \in 1..n, g[i - 1] \in Nat PROVE g[i] \in Nat
    <2>1. g[i] = FoldStep(2, None, g[i - 1], said[i])
      BY <1>2 DEF IsFold
    <2>2. PICK x \in Nat : x = g[i - 1]
      BY <1>4
    <2>3. PICK e : e = said[i] /\ e.calls \in Nat
      BY <1>1
    <2>4. FoldStep(2, None, x, e) = x + e.calls
      BY DEF FoldStep
    <2>5. x + e.calls \in Nat
      BY <2>3
    <2> QED
      BY <2>1, <2>2, <2>3, <2>4, <2>5
  <1>5. \A i \in 1..n : i \in Bad => i - 1 \in Bad
    <2>1. ASSUME NEW i \in 1..n, i - 1 \notin Bad PROVE i \notin Bad
      <3>1. i - 1 \in 0..n
        BY <1>1
      <3> QED
        BY <1>4, <2>1, <3>1
    <2> QED
      BY <2>1
  <1>6. Bad = {}
    <2>1. Bad \subseteq 0..n
      OBVIOUS
    <2> HIDE DEF Bad
    <2> QED
      BY <1>1, <1>3, <1>5, <2>1, UpTo
  <1> QED
    BY <1>1, <1>2, <1>6

LEMMA ReasonSaidType ==
    ASSUME NEW said, IsSeq(said), \A i \in DOMAIN said : said[i].reason \in Reasons \cup {None}
    PROVE  Serial!ReasonSaid(said) \in Reasons \cup {None}
  <1> DEFINE n == Len(said)
             v == [i \in DOMAIN said |-> IF said[i].complete THEN None ELSE said[i].reason]
             G == {i \in DOMAIN v : v[i] # None}
  <1>1. n \in Nat /\ DOMAIN said = 1..n
    BY SeqShape
  <1>2. Serial!ReasonSaid(said) = Serial!LatestOf(v)
    BY DEF Serial!ReasonSaid
  <1>3. DOMAIN v = 1..n /\ \A i \in 1..n : v[i] \in Reasons \cup {None}
    BY <1>1
  <1>4. Serial!LatestOf(v) = IF G = {} THEN None ELSE v[Max(G)]
    <2>1. \A T : Serial!Max(T) = Max(T)
      BY DEF Max, Serial!Max
    <2> HIDE DEF v
    <2> QED
      BY <2>1 DEF Serial!LatestOf
  <1>5. G \subseteq 1..n
    BY <1>3
  <1> HIDE DEF v, G, n
  <1>6. G # {} => Max(G) \in 1..n
    BY <1>1, <1>5, GreatestNumber
  <1> QED
    BY <1>2, <1>3, <1>4, <1>6

\* A fan-out without failures, over the first plans of a step.
Clean(r, fs, e, lo, hi) ==
    /\ e.fanned \in BOOLEAN /\ e.fanned /\ e.wanted = Len(StepPlans(r, fs))
    /\ IsSeq(e.said) /\ Len(e.said) <= Len(StepPlans(r, fs))
    /\ \A j \in DOMAIN e.said : Genuine(e.said[j], StepPlans(r, fs)[j], lo, hi)
    /\ \A j \in DOMAIN e.said : e.said[j].failed = None

IsFan(h, f, e) == h = Fan(f, Len(e.said), e.wanted)

LEMMA FanIsFetched ==
    ASSUME NEW r, NEW fs, Tables(r, fs), NEW lo \in Nat, NEW hi \in DOMAIN World,
           StepOf(r, fs).from # None, Known(r, fs, StepOf(r, fs).from),
           NEW f, NEW e, Accumulated(f, e.said), Clean(r, fs, e, lo, hi), NEW h, IsFan(h, f, e)
    PROVE  Fetched(r, fs, h, e, lo, hi)
  <1>e. PICK said : said = e.said
    OBVIOUS
  <1>h. h = Fan(f, Len(said), e.wanted)
    BY <1>e DEF IsFan
  <1>a. Accumulated(f, said)
    BY <1>e
  <1> DEFINE d == StepPlans(r, fs)
             w == Len(d)
             n == Len(said)
             from == StepOf(r, fs).from
  <1>0. /\ e.fanned \in BOOLEAN /\ e.fanned /\ e.wanted = Len(StepPlans(r, fs))
        /\ IsSeq(said) /\ Len(said) <= Len(StepPlans(r, fs))
        /\ \A j \in DOMAIN said : Genuine(said[j], StepPlans(r, fs)[j], lo, hi)
        /\ \A j \in DOMAIN said : said[j].failed = None
    BY <1>e DEF Clean
  <1>1. n \in Nat /\ DOMAIN said = 1..n
    BY <1>0, SeqShape
  <1>2. /\ w \in Nat /\ DOMAIN d = 1..w
        /\ \A i, j \in DOMAIN d : d[i] = d[j] => i = j
        /\ \A i \in DOMAIN d : d[i] \in Plans
        /\ \A row \in Range(RowsAt(r, fs, from)) : \E i \in DOMAIN d : d[i] = row.plan
    <2>1. Tables(r, fs) /\ StepOf(r, fs).from # None /\ Known(r, fs, StepOf(r, fs).from)
      OBVIOUS
    <2> QED
      BY ONLY <2>1, StepPlansShape
  <1>3. \A i \in 1..n : /\ said[i].rows \in Seq(Order) /\ said[i].calls \in Nat
                        /\ said[i].reason \in Reasons \cup {None}
                        /\ said[i].complete => Window(said[i].rows, d[i], lo, hi)
    BY <1>0, <1>1 DEF Genuine
  <1>4. n <= w /\ e.wanted = w
    BY <1>0
  <1> HIDE DEF d, w, from, n
  <1>5. /\ h.rows = Serial!RowsSaid(said) /\ h.calls = Serial!CallsSaid(said)
        /\ h.complete \in BOOLEAN
        /\ h.complete <=> n = w /\ \A i \in DOMAIN said : said[i].complete
        /\ h.reason = IF n < w THEN "call_budget_exhausted" ELSE Serial!ReasonSaid(said)
        /\ h.shadow = None
    BY <1>0, <1>2, <1>4, <1>h, <1>a, FanShape DEF n
  <1>6. Serial!RowsSaid(said) \in Seq(Order)
    BY <1>0, <1>1, <1>3, RowsSaidType DEF n
  <1>7. Serial!CallsSaid(said) \in Nat
    BY <1>0, <1>1, <1>3, CallsSaidType
  <1>8. Serial!ReasonSaid(said) \in Reasons \cup {None}
    BY <1>0, <1>1, <1>3, ReasonSaidType
  <1>9. h.reason \in Reasons \cup {None}
    BY <1>5, <1>8 DEF Reasons
  <1>10. ASSUME h.complete, NEW row \in Range(RowsAt(r, fs, from))
         PROVE  \E v \in lo..hi : v > 0 /\ RowsOf(h.rows, row.plan) = Matching(v, row.plan)
    <2>1. n = w /\ \A i \in 1..n : said[i].complete
      BY <1>1, <1>5, <1>10
    <2>2. PICK i \in 1..n : d[i] = row.plan
      BY <1>2, <2>1
    <2>3. \A j \in 1..n : /\ said[j].rows \in Seq(Order)
                          /\ d[j] \in Plans /\ Window(said[j].rows, d[j], lo, hi)
      BY <1>2, <1>3, <2>1
    <2>4. \A j, k \in 1..n : d[j] = d[k] => j = k
      BY <1>2, <2>1
    <2>5. RowsOf(Serial!RowsSaid(said), d[i]) = said[i].rows
      <3>1. \A j \in 1..Len(said) : /\ said[j].rows \in Seq(Order)
                                    /\ d[j] \in Plans /\ Window(said[j].rows, d[j], lo, hi)
        BY <2>3 DEF n
      <3>2. \A j, k \in 1..Len(said) : d[j] = d[k] => j = k
        BY <2>4 DEF n
      <3>3. i \in 1..Len(said)
        BY DEF n
      <3>4. IsSeq(said) /\ lo \in Nat /\ hi \in DOMAIN World
        BY <1>0
      <3>5. PICK z : z = d
        OBVIOUS
      <3>6. RowsOf(Serial!RowsSaid(said), z[i]) = said[i].rows
        BY ONLY <3>1, <3>2, <3>3, <3>4, <3>5, FanRows
      <3> QED
        BY <3>5, <3>6
    <2>6. PICK v \in lo..hi : v > 0 /\ said[i].rows = Matching(v, d[i])
      BY <2>3 DEF Window
    <2> QED
      BY <1>5, <2>2, <2>5, <2>6
  <1>11. Fetched(r, fs, h, e, lo, hi)
    <2>1. h.complete => Len(e.said) = e.wanted
      BY <1>4, <1>5, <1>e DEF n
    <2>2. h.complete => \A p \in {row.plan : row \in Range(RowsAt(r, fs, from))} :
                          \E v \in lo..hi : v > 0 /\ RowsOf(h.rows, p) = Matching(v, p)
      BY <1>10
    <2> QED
      BY <1>0, <1>5, <1>6, <1>7, <1>9, <2>1, <2>2 DEF Fetched, from
  <1> QED
    BY <1>11

-----------------------------------------------------------------------------
(* A step that is over is a step of the serial walk.                       *)

SerialStep(f, e, c) ==
    /\ Serial!Failures(e.said) \subseteq {Len(e.said)}
    /\ \A i \in Serial!Failures(e.said) : e.said[i].failed \in Kinds
    /\ f = IF Serial!Failures(e.said) # {} THEN Serial!Degraded(e.said[Len(e.said)].failed)
           ELSE IF e.fanned THEN Serial!WholeWalk(e.said, e.wanted) ELSE e.said[1]
    /\ Serial!Failures(e.said) = {} =>
          Len(e.said) = IF ~e.fanned \/ c + e.wanted <= MaxApiCalls THEN e.wanted
                        ELSE IF c < MaxApiCalls THEN MaxApiCalls - c ELSE 0

\* Only what did not fail adds up.
LEMMA CollectedCases ==
    ASSUME NEW r, NEW fs, NEW x, NEW n, NEW lo, NEW hi, Collected(r, fs, x, n, lo, hi)
    PROVE  /\ x.fetch.failed = None =>
                 /\ Accumulated(x.fetch, x.said) /\ Len(x.said) = n
                 /\ \A j \in DOMAIN x.said : x.said[j].failed = None
           /\ x.fetch.failed # None =>
                 /\ Len(x.said) > 0 /\ x.said[Len(x.said)].failed = x.fetch.failed
                 /\ \A j \in DOMAIN x.said : j # Len(x.said) => x.said[j].failed = None
           /\ x.fetch.failed \in Kinds \cup Refusals \cup {None}
  <1>0. IsSeq(x.said) /\ \A j \in DOMAIN x.said : Genuine(x.said[j], StepPlans(r, fs)[j], lo, hi)
    BY DEF Collected
  <1>1. CASE /\ Accumulated(x.fetch, x.said) /\ Len(x.said) = n
             /\ \A j \in DOMAIN x.said : x.said[j].failed = None
    <2>1. x.fetch.failed = None
      BY <1>1 DEF Accumulated, Fetch
    <2> QED
      BY <1>1, <2>1
  <1>2. CASE /\ Len(x.said) > 0 /\ x.said[Len(x.said)].failed # None
             /\ x.fetch = Failed(x.said[Len(x.said)].failed)
             /\ \A j \in DOMAIN x.said : j # Len(x.said) => x.said[j].failed = None
    <2>1. x.fetch.failed = x.said[Len(x.said)].failed
      BY <1>2 DEF Failed, Nothing
    <2>2. Len(x.said) \in DOMAIN x.said
      BY <1>0, <1>2, SeqShape
    <2>3. x.said[Len(x.said)].failed \in Kinds \cup Refusals \cup {None}
      BY <1>0, <2>2 DEF Genuine
    <2> QED
      BY <1>2, <2>1, <2>3
  <1> QED
    BY <1>1, <1>2 DEF Collected

LEMMA DegradedStep ==
    ASSUME NEW r, NEW fs, NEW x, NEW n, NEW lo, NEW hi, Collected(r, fs, x, n, lo, hi),
           x.fetch.failed \in Kinds, NEW c, NEW e, e.said = x.said
    PROVE  SerialStep(UpstreamDegraded(x.fetch.failed), e, c)
  <1> DEFINE m == Len(x.said)
             F == Serial!Failures(x.said)
             f == UpstreamDegraded(x.fetch.failed)
  <1>0. x.fetch.failed # None
    BY NoneAssumption DEF Reasons
  <1>1. /\ m > 0 /\ x.said[m].failed = x.fetch.failed
        /\ \A j \in DOMAIN x.said : j # m => x.said[j].failed = None
    BY <1>0, CollectedCases
  <1>2. m \in Nat /\ DOMAIN x.said = 1..m
    BY SeqShape DEF Collected
  <1>3. m \in DOMAIN x.said
    BY <1>1, <1>2
  <1> HIDE DEF m
  <1>4. F = {m}
    BY <1>0, <1>1, <1>3 DEF Serial!Failures
  <1>5. f = Serial!Degraded(x.said[m].failed)
    BY <1>1 DEF UpstreamDegraded, Nothing, Serial!Degraded, Serial!Nothing
  <1> HIDE DEF F, f
  <1>6. SerialStep(f, e, c)
    BY <1>1, <1>4, <1>5 DEF SerialStep, F, m
  <1> QED
    BY <1>6 DEF f

LEMMA WholeStep ==
    ASSUME NEW r, NEW fs, Tables(r, fs), NEW x, NEW c \in Nat, NEW lo, NEW hi,
           StepOf(r, fs).from # None => Known(r, fs, StepOf(r, fs).from),
           Collected(r, fs, x, Covered(r, fs, c), lo, hi), x.fetch.failed = None,
           NEW e, e.said = x.said, e.wanted = Len(StepPlans(r, fs)),
           e.fanned \in BOOLEAN, e.fanned <=> StepOf(r, fs).from # None
    PROVE  SerialStep(IF e.fanned THEN Fan(x.fetch, Len(x.said), e.wanted) ELSE x.said[1], e, c)
  <1> DEFINE m == Len(x.said)
             w == Len(StepPlans(r, fs))
             from == StepOf(r, fs).from
             f == IF e.fanned THEN Fan(x.fetch, Len(x.said), e.wanted) ELSE x.said[1]
  <1>1. /\ Accumulated(x.fetch, x.said) /\ m = Covered(r, fs, c)
        /\ \A j \in DOMAIN x.said : x.said[j].failed = None
    BY CollectedCases
  <1>2. Serial!Failures(x.said) = {}
    BY <1>1 DEF Serial!Failures
  <1>3. IsSeq(x.said) /\ w \in Nat
    BY StepPlansShape DEF Collected
  <1>4. e.fanned => f = Serial!WholeWalk(x.said, e.wanted)
    BY <1>1, <1>3, FanShape
  <1>5. m = IF ~e.fanned \/ c + w <= MaxApiCalls THEN w
            ELSE IF c < MaxApiCalls THEN MaxApiCalls - c ELSE 0
    <2>1. MaxApiCalls \in Nat
      BY LimitsAssumption
    <2>2. m = IF ~e.fanned \/ w < Left(c) THEN w ELSE Left(c)
      BY <1>1 DEF Covered
    <2> HIDE DEF m, w
    <2> QED
      BY <1>3, <2>1, <2>2 DEF Left, w
  <1>6. ~e.fanned => f = x.said[1]
    OBVIOUS
  <1> HIDE DEF f
  <1>7. SerialStep(f, e, c)
    BY <1>2, <1>4, <1>5, <1>6 DEF SerialStep
  <1> QED
    BY <1>7 DEF f

LEMMA WholeIsFetched ==
    ASSUME NEW r, NEW fs, Tables(r, fs), NEW x, NEW c \in Nat, NEW lo \in Nat,
           NEW hi \in DOMAIN World,
           StepOf(r, fs).from # None => Known(r, fs, StepOf(r, fs).from),
           Collected(r, fs, x, Covered(r, fs, c), lo, hi), x.fetch.failed = None,
           NEW e, e.said = x.said, e.wanted = Len(StepPlans(r, fs)),
           e.fanned \in BOOLEAN, e.fanned <=> StepOf(r, fs).from # None
    PROVE  Fetched(r, fs, IF e.fanned THEN Fan(x.fetch, Len(x.said), e.wanted) ELSE x.said[1],
                   e, lo, hi)
  <1>1. /\ Accumulated(x.fetch, x.said) /\ Len(x.said) = Covered(r, fs, c)
        /\ \A j \in DOMAIN x.said : x.said[j].failed = None
    BY CollectedCases
  <1>2. /\ IsSeq(x.said)
        /\ \A j \in DOMAIN x.said : Genuine(x.said[j], StepPlans(r, fs)[j], lo, hi)
    BY DEF Collected
  <1>3. Covered(r, fs, c) \in 0..Len(StepPlans(r, fs)) /\ Len(StepPlans(r, fs)) \in Nat
    BY CoveredType, StepPlansShape
  <1>4. CASE e.fanned
    <2>1. Len(x.said) <= Len(StepPlans(r, fs))
      BY <1>1, <1>3
    <2>2. Fetched(r, fs, Fan(x.fetch, Len(x.said), e.wanted), e, lo, hi)
      <3>1. PICK f : f = x.fetch
        OBVIOUS
      <3>2. PICK h : h = Fan(f, Len(e.said), e.wanted)
        OBVIOUS
      <3>3. StepOf(r, fs).from # None /\ Known(r, fs, StepOf(r, fs).from)
        BY <1>4
      <3>4. Accumulated(f, e.said) /\ Clean(r, fs, e, lo, hi)
        BY <1>1, <1>2, <1>4, <2>1, <3>1 DEF Clean
      <3>5. IsFan(h, f, e)
        BY <3>2 DEF IsFan
      <3>6. Fetched(r, fs, h, e, lo, hi)
        BY <3>3, <3>4, <3>5, FanIsFetched
      <3> QED
        BY <3>1, <3>2, <3>6
    <2> QED
      BY <1>4, <2>2
  <1>5. CASE ~e.fanned
    <2>1. StepOf(r, fs).from = None
      BY <1>5
    <2>2. Len(StepPlans(r, fs)) = 1 /\ StepPlans(r, fs)[1] = None
      BY <2>1, StepPlansShape
    <2>3. Len(x.said) = 1
      BY <1>1, <2>1, <2>2 DEF Covered
    <2>4. 1 \in DOMAIN x.said
      BY <1>2, <2>3, SeqShape
    <2>5. Genuine(x.said[1], None, lo, hi) /\ x.said[1].failed = None
      BY <1>1, <1>2, <2>2, <2>4
    <2>6. Fetched(r, fs, x.said[1], e, lo, hi)
      BY <1>5, <2>1, <2>2, <2>3, <2>5, AnswerIsFetched
    <2> QED
      BY <1>5, <2>6
  <1> QED
    BY <1>4, <1>5

-----------------------------------------------------------------------------
(* The invariant of the walk.                                              *)

\* The steps that are done; the first of them is not bound to another.
Past(r, fs, wd, c, lo, hi) ==
    /\ Tables(r, fs) /\ IsSeq(wd) /\ Len(wd) = Len(fs) /\ c \in Nat
    /\ fs # <<>> => r.steps[1].from = None
    /\ \A k \in DOMAIN fs : Done(r, fs, wd, k, lo, hi)

\* The groups of a summary show one content of the source.
ShowsOne(rows, lo, hi) ==
    \E v \in lo..hi : v > 0 /\
        {[plan |-> g.plan, values |-> g.values] : g \in Range(rows)} =
        {[plan |-> row.plan, values |-> Matching(v, row.plan)] : row \in Range(World[v])}

\* An answer is of a walk that is over; unmarked, it is whole.
Told(at, res, fs, lo, hi) ==
    res.kind = "answer" =>
        /\ at = "idle"
        /\ res.reason = None => (\A k \in DOMAIN fs : fs[k].complete) /\ ShowsOne(res.rows, lo, hi)

\* What is kept of a request.
Slots == {"plan", "state", "waited", "attempt", "said"}
Entries(b) == \A i \in DOMAIN b : DOMAIN b[i] = Slots

WalkInv ==
    /\ concurrency \in Concurrencies
    /\ version \in DOMAIN World /\ began \in 1..version
    /\ Past(recipe, fetches, walked, calls, began - 1, version)
    /\ pc = "gather" =>
          /\ Gathering(recipe, fetches, calls, wanted, acc, batch, todo, began - 1, version)
          /\ Entries(batch)
    /\ pc = "verify" => Len(fetches) = Len(recipe.steps)
    /\ Told(pc, result, fetches, began - 1, version)

LEMMA Versions ==
    ASSUME version \in DOMAIN World, began \in 1..version
    PROVE  /\ version \in Nat /\ began - 1 \in Nat /\ began - 1 <= version
           /\ DOMAIN World = 1..Len(World) /\ Len(World) \in Nat
  <1>1. DOMAIN World = 1..Len(World) /\ Len(World) \in Nat
    BY LimitsAssumption
  <1> QED
    BY <1>1

LEMMA NothingPast ==
    ASSUME NEW r \in Recipes, NEW lo, NEW hi
    PROVE  Past(r, <<>>, <<>>, 0, lo, hi)
  <1>1. IsSeq(<<>>) /\ Len(<<>>) = 0 /\ DOMAIN <<>> = {}
    BY EmptyIsSeq
  <1>2. Len(r.steps) \in Nat
    BY RecipeSteps
  <1> QED
    BY <1>1, <1>2 DEF Past, Tables

LEMMA PastGrows ==
    ASSUME NEW r, NEW fs, NEW wd, NEW c, NEW lo \in Nat, NEW hi \in Nat, NEW now \in Nat,
           hi <= now, Past(r, fs, wd, c, lo, hi)
    PROVE  Past(r, fs, wd, c, lo, now)
  BY DoneGrows DEF Past

LEMMA ToldGrows ==
    ASSUME NEW at, NEW res, NEW fs, NEW lo \in Nat, NEW hi \in Nat, NEW now \in Nat,
           hi <= now, Told(at, res, fs, lo, hi)
    PROVE  Told(at, res, fs, lo, now)
  <1>1. \A v \in lo..hi : v \in lo..now
    OBVIOUS
  <1>2. ASSUME NEW rows, ShowsOne(rows, lo, hi) PROVE ShowsOne(rows, lo, now)
    BY <1>1, <1>2 DEF ShowsOne
  <1> QED
    BY <1>2 DEF Told

\* A step that is over joins those that are done.
LEMMA PastGoesOn ==
    ASSUME NEW r, NEW fs, NEW wd, NEW c, NEW lo, NEW hi, Past(r, fs, wd, c, lo, hi),
           Len(fs) < Len(r.steps),
           StepOf(r, fs).from # None => Known(r, fs, StepOf(r, fs).from),
           NEW f, NEW e, Fetched(r, fs, f, e, lo, hi)
    PROVE  Past(r, Append(fs, f), Append(wd, e), c + f.calls, lo, hi)
  <1> DEFINE gs == Append(fs, f)
             vd == Append(wd, e)
             k == Len(fs) + 1
  <1>1. /\ Tables(r, fs) /\ IsSeq(fs) /\ IsSeq(wd) /\ Len(wd) = Len(fs) /\ c \in Nat
        /\ fs # <<>> => r.steps[1].from = None
        /\ \A i \in DOMAIN fs : Done(r, fs, wd, i, lo, hi)
    BY DEF Past, Tables
  <1>2. Done(r, gs, vd, k, lo, hi) /\ Tables(r, gs)
    BY <1>1, FetchedIsDone
  <1>3. \A i \in DOMAIN fs : Done(r, gs, vd, i, lo, hi)
    BY <1>1, DoneStays
  <1>4. /\ Len(fs) \in Nat /\ DOMAIN fs = 1..Len(fs) /\ DOMAIN gs = 1..(Len(fs) + 1)
        /\ Len(gs) = Len(fs) + 1 /\ Len(vd) = Len(fs) + 1
    BY <1>1, AppendShape
  <1>5. IsSeq(vd)
    BY <1>1, AppendIsSeq
  <1>6. f.calls \in Nat
    BY DEF Fetched
  <1>7. c + f.calls \in Nat
    BY <1>1, <1>6
  <1>8. r.steps[1].from = None
    <2>1. CASE fs # <<>>
      BY <1>1, <2>1
    <2>2. CASE fs = <<>>
      <3>1. DOMAIN fs = {} /\ Len(fs) + 1 = 1
        BY <2>2
      <3>2. ~Known(r, fs, StepOf(r, fs).from)
        BY <3>1 DEF Known
      <3> QED
        BY <3>1, <3>2 DEF StepOf
    <2> QED
      BY <2>1, <2>2
  <1> HIDE DEF gs, vd
  <1>9. \A i \in DOMAIN gs : Done(r, gs, vd, i, lo, hi)
    <2>1. \A i \in DOMAIN gs : i = k \/ i \in DOMAIN fs
      BY <1>4
    <2> QED
      BY <1>2, <1>3, <2>1
  <1>10. Past(r, gs, vd, c + f.calls, lo, hi)
    BY <1>2, <1>4, <1>5, <1>7, <1>8, <1>9 DEF Past
  <1> QED
    BY <1>10 DEF gs, vd

LEMMA WalkInit == KernelInit => WalkInv
  <1> SUFFICES ASSUME KernelInit PROVE WalkInv
    OBVIOUS
  <1>1. /\ recipe \in Recipes /\ concurrency \in Concurrencies /\ version = 1 /\ began = 1
        /\ walked = <<>> /\ fetches = <<>> /\ calls = 0 /\ pc = "idle" /\ result = NoResult
    BY DEF KernelInit
  <1>2. Past(recipe, fetches, walked, calls, began - 1, version)
    BY <1>1, NothingPast
  <1>3. version \in DOMAIN World /\ began \in 1..version
    <2>1. Len(World) \in Nat /\ DOMAIN World = 1..Len(World) /\ Len(World) # 0
      BY LimitsAssumption
    <2> QED
      BY <1>1, <2>1
  <1>4. Told(pc, result, fetches, began - 1, version)
    BY <1>1 DEF Told, NoResult
  <1> QED
    BY <1>1, <1>2, <1>3, <1>4 DEF WalkInv

\* What is registered, and the source, stay as they are.
Still == UNCHANGED <<recipe, concurrency, version, began, fetches, walked, calls>>

LEMMA StillPreserves ==
    ASSUME WalkInv, Still,
           pc' = "gather" =>
              /\ Gathering(recipe, fetches, calls, wanted', acc', batch', todo', began - 1, version)
              /\ Entries(batch'),
           pc' = "verify" => Len(fetches) = Len(recipe.steps),
           Told(pc', result', fetches, began - 1, version)
    PROVE  WalkInv'
  BY DEF WalkInv, Still, Entries

\* A run ends without an answer.
LEMMA RaisePreserves ==
    ASSUME WalkInv, Still, NEW code, Raise(code)
    PROVE  WalkInv'
  <1>1. pc' = "idle" /\ result'.kind = "failed"
    BY DEF Raise
  <1>2. Told(pc', result', fetches, began - 1, version)
    BY <1>1 DEF Told
  <1> QED
    BY <1>1, <1>2, StillPreserves

\* A run that goes on has not answered.
LEMMA NotToldYet ==
    ASSUME WalkInv, pc # "idle", NEW at, NEW fs
    PROVE  Told(at, result, fs, began - 1, version)
  BY DEF WalkInv, Told

-----------------------------------------------------------------------------
(* The steps of the walk.                                                  *)

LEMMA StartRunWalks ==
    ASSUME WalkInv, NEW r \in ViewerRequests, StartRun(r)
    PROVE  WalkInv'
  <1>1. /\ recipe' = recipe /\ concurrency' = concurrency /\ version' = version
        /\ began' = version /\ pc' = "step" /\ walked' = <<>> /\ fetches' = <<>> /\ calls' = 0
        /\ result' = NoResult
    BY DEF StartRun, fixed
  <1>2. version \in DOMAIN World /\ concurrency \in Concurrencies /\ began \in 1..version
        /\ recipe \in Recipes
    BY DEF WalkInv, Past, Tables
  <1>3. version \in 1..version
    BY <1>2, Versions
  <1>4. Past(recipe', fetches', walked', calls', began' - 1, version')
    BY <1>1, <1>2, NothingPast
  <1>5. Told(pc', result', fetches', began' - 1, version')
    BY <1>1 DEF Told, NoResult
  <1> QED
    BY <1>1, <1>2, <1>3, <1>4, <1>5 DEF WalkInv

LEMMA GatherIsNext ==
    ASSUME concurrency \in Concurrencies, NEW s, IsSeq(s), Gather(s)
    PROVE  /\ Slice(s) \in Nat /\ Slice(s) <= Len(s) /\ NextOf(s, Slice(s), batch', todo')
           /\ Entries(batch')
  <1>1. Len(s) \in Nat
    BY SeqShape
  <1>2. concurrency \in Nat
    BY LimitsAssumption
  <1>3. Slice(s) \in Nat /\ Slice(s) <= Len(s)
    BY <1>1, <1>2 DEF Slice
  <1>4. NextOf(s, Slice(s), batch', todo')
    BY DEF Gather, NextOf
  <1>5. Entries(batch')
    BY <1>3 DEF Gather, Entries, Asked, Slots
  <1> QED
    BY <1>3, <1>4, <1>5

LEMMA BeginStepWalks ==
    ASSUME WalkInv, BeginStep
    PROVE  WalkInv'
  <1> DEFINE r == recipe
             fs == fetches
             d == StepPlans(r, fs)
             m == Covered(r, fs, calls)
             s == SubSeq(d, 1, m)
             from == StepOf(r, fs).from
  <1>1. Still /\ pc = "step" /\ Len(fs) < Len(r.steps) /\ acc' = NoAcc
    BY DEF BeginStep, Still, fixed, walkVars
  <1>2. Tables(r, fs) /\ calls \in Nat /\ concurrency \in Concurrencies
    BY DEF WalkInv, Past
  <1>3. /\ Current = StepOf(r, fs) /\ Budget = Left(calls)
        /\ \A id : TableOf(id) = RowsAt(r, fs, id) /\ (Registered(id) <=> Known(r, fs, id))
    BY DEF Current, StepOf, Budget, Left, TableOf, RowsAt, Registered, Known
  <1>4. CASE from # None /\ ~Known(r, fs, from)
    <2>1. Raise("sandbox rejected param binding")
      BY <1>3, <1>4 DEF BeginStep
    <2> QED
      BY <1>1, <2>1, RaisePreserves
  <1>5. CASE from # None => Known(r, fs, from)
    <2>1. /\ IsSeq(d) /\ Len(d) \in Nat
          /\ from = None => Len(d) = 1
      BY <1>2, <1>5, StepPlansShape
    <2>2. m \in 0..Len(d)
      BY <1>2, <1>5, CoveredType
    <2>3. IsSeq(s)
      <3>1. PICK S : d \in Seq(S)
        BY <2>1 DEF IsSeq
      <3> HIDE DEF d, m
      <3>2. s \in Seq(S)
        BY <2>1, <2>2, <3>1
      <3> QED
        BY <3>2, SeqIsSeq
    <2>4. Gather(s) /\ wanted' = Len(d) /\ pc' = "gather" /\ result' = result
      <3>1. CASE from = None
        <4>1. d = <<None>>
          BY <3>1 DEF StepPlans
        <4>2. m = 1
          BY <2>1, <3>1 DEF Covered
        <4>3. SubSeq(<<None>>, 1, 1) = <<None>> /\ Len(<<None>>) = 1
          <5>1. PICK z : z = <<None>>
            OBVIOUS
          <5>2. z \in Seq({None}) /\ Len(z) = 1
            BY <5>1
          <5>3. IsSeq(z) /\ 1 \in 0..Len(z)
            BY <5>2, SeqIsSeq
          <5>4. SubSeq(z, 1, 1) = z
            BY <5>2, <5>3, FirstPage
          <5> QED
            BY <5>1, <5>2, <5>4
        <4>4. s = <<None>>
          BY <4>1, <4>2, <4>3
        <4>5. Gather(<<None>>) /\ wanted' = 1 /\ pc' = "gather" /\ result' = result
          BY <1>3, <3>1 DEF BeginStep
        <4> HIDE DEF d, s, m
        <4> QED
          BY <4>1, <4>3, <4>4, <4>5
      <3>2. CASE from # None
        <4>1. d = _distinct_values_sql(TableOf(Current.from))
          BY <1>3, <3>2 DEF StepPlans
        <4>2. m = IF Len(d) < Budget THEN Len(d) ELSE Budget
          BY <1>3, <3>2 DEF Covered
        <4>3. Current.from # None /\ Registered(Current.from)
          BY <1>3, <1>5, <3>2
        <4> HIDE DEF d, m
        <4>4. s = SubSeq(d, 1, IF Len(d) < Budget THEN Len(d) ELSE Budget)
          BY <4>2
        <4> HIDE DEF s
        <4> QED
          BY <4>1, <4>3, <4>4 DEF BeginStep
      <3> QED
        BY <3>1, <3>2
    <2> DEFINE n == Slice(s)
    <2>5. n \in Nat /\ n <= Len(s) /\ NextOf(s, n, batch', todo') /\ Entries(batch')
      BY <1>2, <2>3, <2>4, GatherIsNext
    <2> HIDE DEF n
    <2>6. PICK q : q = s
      OBVIOUS
    <2>7. q = SubSeq(StepPlans(r, fs), 1, Covered(r, fs, calls))
      BY <2>6
    <2>8. n <= Len(q) /\ NextOf(q, n, batch', todo')
      BY <2>5, <2>6
    <2>9. Gathering(r, fs, calls, Len(d), NoAcc, batch', todo', began - 1, version)
      <3> HIDE DEF s, m, d
      <3> QED
        BY <1>1, <1>2, <1>5, <2>5, <2>7, <2>8, GatheringBegins DEF d
    <2>10. Told(pc', result', fetches, began - 1, version)
      BY <1>1, <2>4, NotToldYet
    <2> QED
      BY <1>1, <2>4, <2>5, <2>9, <2>10, StillPreserves
  <1> QED
    BY <1>4, <1>5

\* Requests of the batch move on.
LEMMA BatchMoves ==
    ASSUME NEW r, NEW fs, NEW c, NEW w, NEW a, NEW b, NEW t, NEW lo, NEW hi,
           Gathering(r, fs, c, w, a, b, t, lo, hi), Entries(b),
           NEW b2, DOMAIN b2 = DOMAIN b, b2 = [j \in DOMAIN b2 |-> b2[j]],
           \A j \in DOMAIN b :
              /\ DOMAIN b2[j] = Slots /\ b2[j].plan = b[j].plan
              /\ b2[j].state = "back" => Genuine(b2[j].said, b[j].plan, lo, hi)
    PROVE  Gathering(r, fs, c, w, a, b2, t, lo, hi) /\ Entries(b2)
  <1>1. Len(b) \in Nat /\ DOMAIN b = 1..Len(b)
    BY SeqShape DEF Gathering
  <1>2. IsSeq(b2) /\ Len(b2) = Len(b)
    BY <1>1, FunctionIsSeq
  <1>3. \A i \in DOMAIN b : b2[i].plan = b[i].plan
    OBVIOUS
  <1>4. \A i \in DOMAIN b : b2[i].state = "back" => Genuine(b2[i].said, b2[i].plan, lo, hi)
    BY <1>3
  <1>5. Gathering(r, fs, c, w, a, b2, t, lo, hi)
    BY <1>2, <1>3, <1>4, GatheringAnswered
  <1> QED
    BY <1>5 DEF Entries

\* One of them.
Moved(b, i, x, b2) == b2 = [b EXCEPT ![i] = x]

LEMMA OneMoves ==
    ASSUME NEW r, NEW fs, NEW c, NEW w, NEW a, NEW b, NEW t, NEW lo, NEW hi,
           Gathering(r, fs, c, w, a, b, t, lo, hi), Entries(b),
           NEW i \in DOMAIN b, NEW x, NEW b2, Moved(b, i, x, b2),
           DOMAIN x = Slots, x.plan = b[i].plan,
           x.state = "back" => Genuine(x.said, b[i].plan, lo, hi)
    PROVE  Gathering(r, fs, c, w, a, b2, t, lo, hi) /\ Entries(b2)
  <1>0. \A j \in DOMAIN b : b[j].state = "back" => Genuine(b[j].said, b[j].plan, lo, hi)
    BY DEF Gathering
  <1>1. DOMAIN b2 = DOMAIN b /\ b2 = [j \in DOMAIN b2 |-> b2[j]]
    BY DEF Moved
  <1>2. b2[i] = x /\ \A j \in DOMAIN b : j # i => b2[j] = b[j]
    BY DEF Moved
  <1>3. ASSUME NEW j \in DOMAIN b
        PROVE  /\ DOMAIN b2[j] = Slots /\ b2[j].plan = b[j].plan
               /\ b2[j].state = "back" => Genuine(b2[j].said, b[j].plan, lo, hi)
    BY <1>0, <1>2 DEF Entries
  <1> QED
    BY <1>1, <1>3, BatchMoves

\* What a request makes of its entry: it is still open, or has a genuine answer.
Goes(b, i, x, lo, hi) ==
    /\ DOMAIN x = Slots /\ x.plan = b[i].plan
    /\ x.state = "back" => Genuine(x.said, b[i].plan, lo, hi)

LEMMA AnsweredGoes ==
    ASSUME Entries(batch), NEW i \in DOMAIN batch, NEW a, NEW lo, NEW hi,
           Genuine(a, batch[i].plan, lo, hi), Answered(i, a)
    PROVE  \E x : Moved(batch, i, x, batch') /\ Goes(batch, i, x, lo, hi)
  <1> DEFINE y == batch[i]
             x == [[y EXCEPT !.state = "back"] EXCEPT !.said = a]
  <1>1. DOMAIN y = Slots
    BY DEF Entries
  <1>2. Moved(batch, i, x, batch')
    BY DEF Answered, Moved
  <1> HIDE DEF y
  <1>3. DOMAIN x = Slots /\ x.plan = y.plan /\ x.said = a
    BY <1>1 DEF Slots
  <1> HIDE DEF x
  <1>4. Goes(batch, i, x, lo, hi)
    BY <1>3 DEF Goes, y
  <1> QED
    BY <1>2, <1>4

LEMMA AttemptGoes ==
    ASSUME Entries(batch), NEW i \in DOMAIN batch, NEW e, NEW lo, NEW hi,
           Goes(batch, i, e, lo, hi), Attempt(i, e),
           Genuine(Failed("budget_exhausted"), batch[i].plan, lo, hi)
    PROVE  \E x : Moved(batch, i, x, batch') /\ Goes(batch, i, x, lo, hi)
  <1>1. CASE control.used < MaxMesRequests
    <2>1. Moved(batch, i, e, batch')
      BY <1>1 DEF Attempt, Moved
    <2> QED
      BY <2>1
  <1>2. CASE ~(control.used < MaxMesRequests)
    <2>1. Answered(i, Failed("budget_exhausted"))
      BY <1>2 DEF Attempt
    <2> QED
      BY <2>1, AnsweredGoes
  <1> QED
    BY <1>1, <1>2

LEMMA RequestGoes ==
    ASSUME version \in DOMAIN World, began \in 1..version, Entries(batch), NEW i \in DOMAIN batch,
           AnswerFromCache(i) \/ SendRequest(i) \/ GiveUp(i) \/ Reply(i)
    PROVE  \E x : Moved(batch, i, x, batch') /\ Goes(batch, i, x, began - 1, version)
  <1> DEFINE lo == began - 1
             plan == batch[i].plan
             y == batch[i]
  <1>0. /\ version \in Nat /\ lo \in Nat /\ lo <= version - 1 /\ lo <= version
        /\ DOMAIN World = 1..Len(World)
    BY Versions
  <1>1. /\ Genuine(Live(version, plan), plan, lo, version)
        /\ Genuine(Cut(version, plan), plan, lo, version)
        /\ \A why \in Kinds \cup Refusals : Genuine(Failed(why), plan, lo, version)
    BY <1>0, SaidIsGenuine
  <1>2. ASSUME NEW v \in {version - 1, version} \cap DOMAIN World
        PROVE  Genuine(Cached(v, plan), plan, lo, version)
    <2>1. v \in DOMAIN World /\ lo <= v /\ v <= version
      BY <1>0
    <2> QED
      BY <1>0, <2>1, SaidIsGenuine
  <1>3. ASSUME NEW v \in {version - 1} \cap DOMAIN World
        PROVE  Genuine(Shadowed(v, version, plan), plan, lo, version)
    <2>1. v \in DOMAIN World /\ lo <= v /\ v <= version
      BY <1>0
    <2> QED
      BY <1>0, <2>1, SaidIsGenuine
  <1>4. /\ Genuine(Failed("upstream_unavailable"), plan, lo, version)
        /\ Genuine(Failed("upstream_timeout"), plan, lo, version)
        /\ Genuine(Failed("forbidden"), plan, lo, version)
        /\ Genuine(Failed("budget_exhausted"), plan, lo, version)
    BY <1>1 DEF Kinds, Refusals
  <1> HIDE DEF lo, plan
  <1>5. ASSUME NEW a, Genuine(a, plan, lo, version), Answered(i, a)
        PROVE  \E x : Moved(batch, i, x, batch') /\ Goes(batch, i, x, lo, version)
    BY <1>5, AnsweredGoes DEF plan
  <1>6. ASSUME NEW e, Goes(batch, i, e, lo, version), Attempt(i, e)
        PROVE  \E x : Moved(batch, i, x, batch') /\ Goes(batch, i, x, lo, version)
    BY <1>4, <1>6, AttemptGoes DEF plan
  <1>y. DOMAIN y = Slots
    BY DEF Entries
  <1>7. CASE AnswerFromCache(i)
    <2>1. PICK v \in {version - 1, version} \cap DOMAIN World : Answered(i, Cached(v, plan))
      BY <1>7 DEF AnswerFromCache, plan
    <2> QED
      BY <1>2, <1>5, <2>1 DEF lo
  <1>8. CASE SendRequest(i)
    <2> DEFINE e == [y EXCEPT !.state = "sent"]
    <2>1. Attempt(i, e)
      BY <1>8 DEF SendRequest
    <2> HIDE DEF y
    <2>2. DOMAIN e = Slots /\ e.plan = y.plan /\ e.state # "back"
      BY <1>y DEF Slots
    <2> HIDE DEF e
    <2>3. Goes(batch, i, e, lo, version)
      BY <2>2 DEF Goes, y
    <2> QED
      BY <1>6, <2>1, <2>3 DEF lo
  <1>9. CASE GiveUp(i)
    <2>1. y.state = "sent"
      BY <1>9 DEF GiveUp
    <2>2. CASE batch[i].attempt <= MaxRetries
      <3> DEFINE e == [y EXCEPT !.attempt = @ + 1, !.waited = 0]
      <3>1. Attempt(i, e)
        BY <1>9, <2>2 DEF GiveUp
      <3> HIDE DEF y
      <3>2. DOMAIN e = Slots /\ e.plan = y.plan /\ e.state = y.state
        BY <1>y DEF Slots
      <3>3. e.state # "back"
        BY <2>1, <3>2
      <3> HIDE DEF e
      <3>4. Goes(batch, i, e, lo, version)
        BY <3>2, <3>3 DEF Goes, y
      <3> QED
        BY <1>6, <3>1, <3>4 DEF lo
    <2>3. CASE ~(batch[i].attempt <= MaxRetries)
      <3>1. Answered(i, Failed("upstream_timeout"))
        BY <1>9, <2>3 DEF GiveUp
      <3> QED
        BY <1>4, <1>5, <3>1 DEF lo
    <2> QED
      BY <2>2, <2>3
  <1>10. CASE Reply(i)
    <2>1. \/ Answered(i, Live(version, plan))
          \/ Answered(i, Cut(version, plan))
          \/ \E v \in {version - 1} \cap DOMAIN World : Answered(i, Shadowed(v, version, plan))
          \/ Answered(i, Failed("upstream_unavailable"))
          \/ Answered(i, Failed("forbidden"))
      BY <1>10 DEF Reply, plan
    <2> QED
      BY <1>1, <1>3, <1>4, <1>5, <2>1 DEF lo
  <1> QED
    BY <1>7, <1>8, <1>9, <1>10

LEMMA RequestWalks ==
    ASSUME WalkInv, _fetch_one \/ SourceReplies
    PROVE  WalkInv'
  <1>1. /\ Still /\ pc = "gather" /\ pc' = pc /\ result' = result /\ wanted' = wanted
        /\ acc' = acc /\ todo' = todo
    BY DEF _fetch_one, SourceReplies, requestFrame, Still, fixed, walkVars, viewVars
  <1>2. PICK i \in DOMAIN batch : AnswerFromCache(i) \/ SendRequest(i) \/ GiveUp(i) \/ Reply(i)
    BY DEF _fetch_one, SourceReplies
  <1>3. /\ version \in DOMAIN World /\ began \in 1..version /\ Entries(batch)
        /\ Gathering(recipe, fetches, calls, wanted, acc, batch, todo, began - 1, version)
    BY <1>1 DEF WalkInv
  <1>4. PICK x : Moved(batch, i, x, batch') /\ Goes(batch, i, x, began - 1, version)
    BY <1>2, <1>3, RequestGoes
  <1>5. /\ DOMAIN x = Slots /\ x.plan = batch[i].plan
        /\ x.state = "back" => Genuine(x.said, batch[i].plan, began - 1, version)
    BY <1>4 DEF Goes
  <1>6. /\ Gathering(recipe, fetches, calls, wanted, acc, batch', todo, began - 1, version)
        /\ Entries(batch')
    BY <1>3, <1>4, <1>5, OneMoves
  <1>7. Told(pc', result', fetches, began - 1, version)
    BY <1>1, NotToldYet
  <1> QED
    BY <1>1, <1>6, <1>7, StillPreserves

LEMMA TickWalks ==
    ASSUME WalkInv, Tick
    PROVE  WalkInv'
  <1> DEFINE b == [i \in DOMAIN batch |-> IF batch[i].state = "sent"
                                          THEN [batch[i] EXCEPT !.waited = @ + 1] ELSE batch[i]]
  <1>1. /\ Still /\ pc = "gather" /\ pc' = pc /\ result' = result /\ wanted' = wanted
        /\ acc' = acc /\ todo' = todo /\ batch' = b
    BY DEF Tick, Still, fixed, walkVars, viewVars
  <1>2. /\ Entries(batch)
        /\ Gathering(recipe, fetches, calls, wanted, acc, batch, todo, began - 1, version)
    BY <1>1 DEF WalkInv
  <1>3. DOMAIN b = DOMAIN batch /\ b = [j \in DOMAIN b |-> b[j]]
    OBVIOUS
  <1>4. ASSUME NEW j \in DOMAIN batch
        PROVE  /\ DOMAIN b[j] = Slots /\ b[j].plan = batch[j].plan
               /\ b[j].state = "back" => Genuine(b[j].said, batch[j].plan, began - 1, version)
    <2> DEFINE y == batch[j]
    <2>1. DOMAIN y = Slots /\ (y.state = "back" => Genuine(y.said, y.plan, began - 1, version))
      BY <1>2 DEF Entries, Gathering
    <2>2. b[j] = IF y.state = "sent" THEN [y EXCEPT !.waited = @ + 1] ELSE y
      OBVIOUS
    <2> HIDE DEF y, b
    <2>3. DOMAIN b[j] = Slots /\ b[j].plan = y.plan /\ b[j].state = y.state /\ b[j].said = y.said
      BY <2>1, <2>2 DEF Slots
    <2> QED
      BY <2>1, <2>3 DEF y
  <1> HIDE DEF b
  <1>5. Gathering(recipe, fetches, calls, wanted, acc, b, todo, began - 1, version) /\ Entries(b)
    BY <1>2, <1>3, <1>4, BatchMoves
  <1>6. Told(pc', result', fetches, began - 1, version)
    BY <1>1, NotToldYet
  <1> QED
    BY <1>1, <1>5, <1>6, StillPreserves

LEMMA SourceChangesWalks ==
    ASSUME WalkInv, SourceChanges
    PROVE  WalkInv'
  <1>1. /\ version < Len(World) /\ version' = version + 1
        /\ UNCHANGED <<recipe, concurrency, began, fetches, walked, calls, pc, result, wanted, acc,
                       batch, todo>>
    BY DEF SourceChanges, fixed, walkVars, viewVars, stepVars
  <1>2. /\ version \in DOMAIN World /\ began \in 1..version /\ concurrency \in Concurrencies
        /\ Past(recipe, fetches, walked, calls, began - 1, version)
        /\ pc = "gather" =>
              /\ Gathering(recipe, fetches, calls, wanted, acc, batch, todo, began - 1, version)
              /\ Entries(batch)
        /\ pc = "verify" => Len(fetches) = Len(recipe.steps)
        /\ Told(pc, result, fetches, began - 1, version)
    BY DEF WalkInv
  <1>3. /\ version \in Nat /\ began - 1 \in Nat /\ version + 1 \in Nat /\ version <= version + 1
        /\ version + 1 \in DOMAIN World /\ began \in 1..(version + 1)
    BY <1>1, <1>2, Versions
  <1>4. Past(recipe, fetches, walked, calls, began - 1, version + 1)
    BY <1>2, <1>3, PastGrows
  <1>5. pc = "gather" =>
          Gathering(recipe, fetches, calls, wanted, acc, batch, todo, began - 1, version + 1)
    BY <1>2, <1>3, GatheringGrows
  <1>6. Told(pc, result, fetches, began - 1, version + 1)
    BY <1>2, <1>3, ToldGrows
  <1> QED
    BY <1>1, <1>2, <1>3, <1>4, <1>5, <1>6 DEF WalkInv, Entries

\* A step is registered, with what was said to it.
Registers(f, e) ==
    /\ fetches' = Append(fetches, f) /\ walked' = Append(walked, e) /\ calls' = calls + f.calls
    /\ pc' = "step" /\ result' = result

LEMMA RegisterCases ==
    ASSUME NEW f, NEW said, NEW fanned \in BOOLEAN, RegisterFetch(f, said, fanned)
    PROVE  \/ (\E code : Raise(code)) /\ UNCHANGED walkVars
           \/ \E e : /\ Registers(f, e)
                     /\ e.said = said /\ e.wanted = wanted /\ e.fanned \in BOOLEAN
                     /\ e.fanned <=> fanned
  <1>1. CASE StopCode # None
    BY <1>1 DEF RegisterFetch, walkVars
  <1>2. CASE StopCode = None /\ control.rows + Len(f.rows) > MaxProcessedRows
    BY <1>2 DEF RegisterFetch
  <1>3. CASE StopCode = None /\ ~(control.rows + Len(f.rows) > MaxProcessedRows)
    <2> DEFINE e == [said |-> said, wanted |-> wanted, fanned |-> fanned]
    <2>1. /\ e.said = said /\ e.wanted = wanted /\ e.fanned = fanned
      OBVIOUS
    <2>2. Registers(f, e)
      BY <1>3 DEF RegisterFetch, Registers
    <2> HIDE DEF e
    <2> QED
      BY <2>1, <2>2
  <1> QED
    BY <1>1, <1>2, <1>3

\* A gathered batch ends the run, is followed by the next batch, or ends the step as the
\* serial walk would have.
LEMMA GatheredCases ==
    ASSUME WalkInv, Gathered
    PROVE  /\ UNCHANGED <<recipe, concurrency, version, began>> /\ pc = "gather"
           /\ \/ (\E code : Raise(code)) /\ UNCHANGED walkVars
              \/ /\ UNCHANGED walkVars /\ pc' = "gather" /\ result' = result
                 /\ Gathering(recipe, fetches, calls, wanted', acc', batch', todo', began - 1, version)
                 /\ Entries(batch')
              \/ \E f, e : /\ Registers(f, e)
                           /\ Fetched(recipe, fetches, f, e, began - 1, version)
                           /\ SerialStep(f, e, calls)
  <1> DEFINE r == recipe
             fs == fetches
             lo == began - 1
             d == StepPlans(r, fs)
             from == StepOf(r, fs).from
             n == Len(acc.said) + Len(batch)
  <1>1. /\ UNCHANGED <<recipe, concurrency, version, began>> /\ pc = "gather"
        /\ \A i \in DOMAIN batch : batch[i].state = "back"
    BY DEF Gathered, fixed
  <1>2. /\ version \in DOMAIN World /\ began \in 1..version /\ concurrency \in Concurrencies
        /\ Tables(r, fs) /\ calls \in Nat
        /\ Gathering(r, fs, calls, wanted, acc, batch, todo, lo, version)
    BY <1>1 DEF WalkInv, Past
  <1>3. lo \in Nat
    BY <1>2, Versions
  <1>4. /\ Len(fs) < Len(r.steps) /\ (from # None => Known(r, fs, from)) /\ wanted = Len(d)
        /\ IsSeq(acc.said) /\ IsSeq(batch) /\ IsSeq(todo)
        /\ Len(acc.said) + Len(batch) + Len(todo) = Covered(r, fs, calls)
        /\ \A i \in DOMAIN todo : todo[i] = d[Len(acc.said) + Len(batch) + i]
    BY <1>2 DEF Gathering
  <1>5. Collected(r, fs, FoldLeft(Folded, acc, batch), n, lo, version)
    BY <1>1, <1>2, BatchCollected
  <1>6. PICK x : x = FoldLeft(Folded, acc, batch)
    OBVIOUS
  <1>7. Collected(r, fs, x, n, lo, version)
    BY <1>5, <1>6
  <1>8. PICK fan \in BOOLEAN : fan <=> from # None
    <2>1. CASE from # None
      <3>1. TRUE \in BOOLEAN /\ (TRUE <=> from # None)
        BY <2>1
      <3> QED
        BY <3>1
    <2>2. CASE from = None
      <3>1. FALSE \in BOOLEAN /\ (FALSE <=> from # None)
        BY <2>2
      <3> QED
        BY <3>1
    <2> QED
      BY <2>1, <2>2
  <1>9. fan = (Current.from # None)
    <2>1. Current.from = from
      BY DEF Current, StepOf
    <2> QED
      BY <1>8, <2>1
  <1>10. Len(acc.said) \in Nat /\ Len(batch) \in Nat /\ Len(todo) \in Nat
         /\ DOMAIN todo = 1..Len(todo)
    BY <1>4, SeqShape
  <1>11. CASE x.fetch.failed \in Kinds
    <2>1. RegisterFetch(UpstreamDegraded(x.fetch.failed), x.said, fan)
      BY <1>6, <1>9, <1>11 DEF Gathered
    <2>2. PICK f : f = UpstreamDegraded(x.fetch.failed)
      OBVIOUS
    <2>3. RegisterFetch(f, x.said, fan)
      BY <2>1, <2>2
    <2>4. CASE \E e : /\ Registers(f, e)
                      /\ e.said = x.said /\ e.wanted = wanted /\ e.fanned \in BOOLEAN
                      /\ e.fanned <=> fan
      <3>1. PICK e : /\ Registers(f, e)
                     /\ e.said = x.said /\ e.wanted = wanted /\ e.fanned \in BOOLEAN
                     /\ e.fanned <=> fan
        BY <2>4
      <3>2. Fetched(r, fs, f, e, lo, version)
        BY <1>4, <1>8, <1>11, <2>2, <3>1, DegradedIsFetched
      <3>3. SerialStep(f, e, calls)
        BY <1>7, <1>11, <2>2, <3>1, DegradedStep
      <3> QED
        BY <1>1, <3>1, <3>2, <3>3
    <2>5. CASE (\E code : Raise(code)) /\ UNCHANGED walkVars
      BY <1>1, <2>5
    <2> QED
      BY <2>3, <2>4, <2>5, RegisterCases
  <1>12. CASE x.fetch.failed \notin Kinds /\ x.fetch.failed # None
    <2>1. Raise(x.fetch.failed) /\ UNCHANGED walkVars
      BY <1>6, <1>12 DEF Gathered
    <2> QED
      BY <1>1, <2>1
  <1>13. CASE x.fetch.failed = None /\ todo # <<>>
    <2>0. None \notin Kinds
      BY NoneAssumption DEF Reasons
    <2>1. acc' = x /\ Gather(todo) /\ UNCHANGED <<pc, wanted, result, walkVars>>
      BY <1>6, <1>13, <2>0 DEF Gathered
    <2>2. /\ Accumulated(x.fetch, x.said) /\ Len(x.said) = n
          /\ \A j \in DOMAIN x.said : x.said[j].failed = None
      BY <1>7, <1>13, CollectedCases
    <2>3. /\ IsSeq(x.said)
          /\ \A j \in DOMAIN x.said : Genuine(x.said[j], d[j], lo, version) /\ x.said[j].failed = None
      BY <1>7, <2>2 DEF Collected
    <2>4. Slice(todo) \in Nat /\ Slice(todo) <= Len(todo)
          /\ NextOf(todo, Slice(todo), batch', todo') /\ Entries(batch')
      BY <1>2, <1>4, <2>1, GatherIsNext
    <2>5. /\ Len(x.said) + Len(todo) = Covered(r, fs, calls)
          /\ \A i \in 1..Len(todo) : todo[i] = d[Len(x.said) + i]
      BY <1>4, <1>10, <2>2
    <2>6. PICK q : q = todo
      OBVIOUS
    <2>7. PICK k \in Nat : k = Slice(todo)
      BY <2>4
    <2>8. /\ IsSeq(q) /\ Len(x.said) + Len(q) = Covered(r, fs, calls)
          /\ \A i \in 1..Len(q) : q[i] = d[Len(x.said) + i]
          /\ k <= Len(q) /\ NextOf(q, k, batch', todo')
      BY <1>4, <2>4, <2>5, <2>6, <2>7
    <2> HIDE DEF lo, r, fs
    <2>9. Gathering(r, fs, calls, Len(d), x, batch', todo', lo, version)
      BY <1>2, <1>4, <2>2, <2>3, <2>8, GatheringGoesOn
    <2> QED
      BY <1>1, <1>4, <2>1, <2>4, <2>9 DEF lo, r, fs
  <1>14. CASE x.fetch.failed = None /\ todo = <<>>
    <2>0. None \notin Kinds
      BY NoneAssumption DEF Reasons
    <2>1. RegisterFetch(IF fan THEN FannedResult(x.fetch, Len(x.said)) ELSE x.said[1], x.said, fan)
      BY <1>6, <1>9, <1>14, <2>0 DEF Gathered
    <2>2. PICK f : f = IF fan THEN FannedResult(x.fetch, Len(x.said)) ELSE x.said[1]
      OBVIOUS
    <2>3. RegisterFetch(f, x.said, fan)
      BY <2>1, <2>2
    <2>4. n = Covered(r, fs, calls)
      <3>1. Len(todo) = 0
        BY <1>14
      <3> QED
        BY <1>4, <1>10, <3>1
    <2>5. CASE \E e : /\ Registers(f, e)
                      /\ e.said = x.said /\ e.wanted = wanted /\ e.fanned \in BOOLEAN
                      /\ e.fanned <=> fan
      <3>1. PICK e : /\ Registers(f, e)
                     /\ e.said = x.said /\ e.wanted = wanted /\ e.fanned \in BOOLEAN
                     /\ e.fanned <=> fan
        BY <2>5
      <3>2. f = IF e.fanned THEN Fan(x.fetch, Len(x.said), e.wanted) ELSE x.said[1]
        BY <2>2, <3>1 DEF FannedResult, Fan
      <3>3. /\ Collected(r, fs, x, Covered(r, fs, calls), lo, version)
            /\ e.wanted = Len(d) /\ (e.fanned <=> from # None)
        BY <1>4, <1>7, <1>8, <2>4, <3>1
      <3>4. Fetched(r, fs, f, e, lo, version)
        BY <1>2, <1>3, <1>4, <1>14, <3>1, <3>2, <3>3, WholeIsFetched
      <3>5. SerialStep(f, e, calls)
        BY <1>2, <1>4, <1>14, <3>1, <3>2, <3>3, WholeStep
      <3> QED
        BY <1>1, <3>1, <3>4, <3>5
    <2>6. CASE (\E code : Raise(code)) /\ UNCHANGED walkVars
      BY <1>1, <2>6
    <2> QED
      BY <2>3, <2>5, <2>6, RegisterCases
  <1> QED
    BY <1>11, <1>12, <1>13, <1>14

LEMMA GatheredWalks ==
    ASSUME WalkInv, Gathered
    PROVE  WalkInv'
  <1>1. UNCHANGED <<recipe, concurrency, version, began>> /\ pc = "gather"
    BY GatheredCases
  <1>2. /\ version \in DOMAIN World /\ began \in 1..version /\ concurrency \in Concurrencies
        /\ Past(recipe, fetches, walked, calls, began - 1, version)
        /\ Gathering(recipe, fetches, calls, wanted, acc, batch, todo, began - 1, version)
    BY <1>1 DEF WalkInv
  <1>3. ASSUME NEW code, Raise(code), UNCHANGED walkVars PROVE WalkInv'
    BY <1>1, <1>3, RaisePreserves DEF Still, walkVars
  <1>4. CASE /\ UNCHANGED walkVars /\ pc' = "gather" /\ result' = result
             /\ Gathering(recipe, fetches, calls, wanted', acc', batch', todo', began - 1, version)
             /\ Entries(batch')
    <2>1. Still
      BY <1>1, <1>4 DEF Still, walkVars
    <2>2. Told(pc', result', fetches, began - 1, version)
      BY <1>1, <1>4, NotToldYet
    <2> QED
      BY <1>4, <2>1, <2>2, StillPreserves
  <1>5. ASSUME NEW f, NEW e, Registers(f, e),
               Fetched(recipe, fetches, f, e, began - 1, version)
        PROVE  WalkInv'
    <2>1. /\ fetches' = Append(fetches, f) /\ walked' = Append(walked, e)
          /\ calls' = calls + f.calls /\ pc' = "step" /\ result' = result
      BY <1>5 DEF Registers
    <2>2. /\ Len(fetches) < Len(recipe.steps)
          /\ StepOf(recipe, fetches).from # None =>
                Known(recipe, fetches, StepOf(recipe, fetches).from)
      BY <1>2 DEF Gathering
    <2>3. Past(recipe, Append(fetches, f), Append(walked, e), calls + f.calls, began - 1, version)
      BY <1>2, <1>5, <2>2, PastGoesOn
    <2>4. Past(recipe, fetches', walked', calls', began - 1, version)
      BY <2>1, <2>3
    <2>5. Told(pc', result', fetches', began - 1, version)
      BY <1>1, <2>1, NotToldYet
    <2> QED
      BY <1>1, <1>2, <2>1, <2>4, <2>5 DEF WalkInv
  <1> QED
    BY <1>3, <1>4, <1>5, GatheredCases

LEMMA EndsWalk ==
    ASSUME WalkInv, WithCallStops \/ Interrupted \/ Build \/ Cancel
    PROVE  WalkInv'
  <1> USE DEF fixed, walkVars, viewVars, stepVars
  <1>1. CASE WithCallStops \/ Interrupted
    <2>1. Still /\ \E code : Raise(code)
      BY <1>1 DEF WithCallStops, Interrupted, Still
    <2> QED
      BY <2>1, RaisePreserves
  <1>2. CASE Build
    <2>1. Still /\ pc = "step" /\ Len(fetches) = Len(recipe.steps)
      BY <1>2 DEF Build, Still
    <2>2. \/ \E code : Raise(code)
          \/ pc' = "verify" /\ result' = result
      BY <1>2 DEF Build
    <2>3. CASE pc' = "verify" /\ result' = result
      <3>1. Told(pc', result', fetches, began - 1, version)
        BY <2>1, <2>3, NotToldYet
      <3> QED
        BY <2>1, <2>3, <3>1, StillPreserves
    <2> QED
      BY <2>1, <2>2, <2>3, RaisePreserves
  <1>3. CASE Cancel
    <2>1. Still /\ UNCHANGED <<pc, result, wanted, acc, batch, todo>> /\ pc # "idle"
      BY <1>3 DEF Cancel, Still
    <2>2. /\ pc = "gather" =>
              /\ Gathering(recipe, fetches, calls, wanted, acc, batch, todo, began - 1, version)
              /\ Entries(batch)
          /\ pc = "verify" => Len(fetches) = Len(recipe.steps)
          /\ Told(pc, result, fetches, began - 1, version)
      BY DEF WalkInv
    <2>3. Entries(batch) => Entries(batch')
      BY <2>1 DEF Entries
    <2> QED
      BY <2>1, <2>2, <2>3, StillPreserves
  <1> QED
    BY <1>1, <1>2, <1>3

-----------------------------------------------------------------------------
(* The answer.                                                             *)

\* An unmarked table is of fetches that are all complete.
LEMMA MarkedUnlessComplete ==
    ASSUME NEW hs, NEW n \in Nat, DOMAIN hs = 1..n,
           \A i \in 1..n : hs[i].reason \in Reasons \cup {None},
           IncompleteReason(hs) = None
    PROVE  \A i \in 1..n : hs[i].complete
  <1> DEFINE bad == {i \in DOMAIN hs : ~hs[i].complete}
             last == hs[Max(bad)].reason
             why == IF last = None THEN "incomplete" ELSE last
  <1> SUFFICES ASSUME bad # {} PROVE FALSE
    OBVIOUS
  <1>1. bad \subseteq 1..n
    OBVIOUS
  <1>2. IncompleteReason(hs) = [source |-> why \in Kinds, why |-> why]
    BY DEF IncompleteReason
  <1> HIDE DEF bad
  <1>3. Max(bad) \in 1..n
    BY <1>1, GreatestNumber
  <1>4. last \in Reasons \cup {None}
    BY <1>3
  <1>5. why \in Reasons \cup {"incomplete"}
    BY <1>4
  <1> HIDE DEF why
  <1>6. None # [source |-> why \in Kinds, why |-> why]
    BY <1>5, NoneAssumption
  <1> QED
    BY <1>2, <1>6

\* The summary of some rows has one group per plan in them.
LEMMA SummaryShows ==
    ASSUME NEW rows \in Seq(Order)
    PROVE  {[plan |-> g.plan, values |-> g.values] : g \in Range(Summaries(rows))} =
           {[plan |-> row.plan, values |-> RowsOf(rows, row.plan)] : row \in Range(rows)}
  <1> DEFINE d == _distinct_values_sql(rows)
             s == Summaries(rows)
             G(p) == [plan |-> p, values |-> RowsOf(rows, p)]
             A == {[plan |-> g.plan, values |-> g.values] : g \in Range(s)}
             B == {[plan |-> row.plan, values |-> RowsOf(rows, row.plan)] : row \in Range(rows)}
  <1>1. /\ \A i \in DOMAIN d : \E row \in Range(rows) : row.plan = d[i]
        /\ \A row \in Range(rows) : \E i \in DOMAIN d : d[i] = row.plan
    BY DistinctPlans
  <1>2. DOMAIN s = DOMAIN d /\ \A i \in DOMAIN d : s[i] = G(d[i])
    BY DEF Summaries
  <1> HIDE DEF d, s
  <1>3. \A p : G(p) = [plan |-> G(p).plan, values |-> G(p).values]
    OBVIOUS
  <1>4. Range(s) = {s[i] : i \in DOMAIN d}
    BY <1>2 DEF Range
  <1>5. ASSUME NEW z \in A PROVE z \in B
    <2>1. PICK i \in DOMAIN d : z = [plan |-> s[i].plan, values |-> s[i].values]
      BY <1>4
    <2>2. z = G(d[i])
      BY <1>2, <1>3, <2>1
    <2>3. PICK row \in Range(rows) : row.plan = d[i]
      BY <1>1
    <2> QED
      BY <2>2, <2>3
  <1>6. ASSUME NEW z \in B PROVE z \in A
    <2>1. PICK row \in Range(rows) : z = G(row.plan)
      OBVIOUS
    <2>2. PICK i \in DOMAIN d : d[i] = row.plan
      BY <1>1
    <2>3. z = s[i] /\ s[i] \in Range(s)
      BY <1>2, <1>4, <2>1, <2>2
    <2>4. z = [plan |-> s[i].plan, values |-> s[i].values]
      BY <1>2, <1>3, <2>2, <2>3
    <2> QED
      BY <2>3, <2>4
  <1> QED
    BY <1>5, <1>6 DEF s

\* The summary of complete fetches shows one content of the source.
LEMMA ComputeShowsOne ==
    ASSUME NEW hs, NEW n \in Nat \ {0}, DOMAIN hs = 1..n, NEW lo \in Nat, NEW hi \in DOMAIN World,
           Window(hs[1].rows, None, lo, hi)
    PROVE  ShowsOne(_run_compute_steps(hs), lo, hi)
  <1> DEFINE s == _run_compute_steps(hs)
  <1>0. DOMAIN World = 1..Len(World) /\ Len(World) \in Nat
    BY LimitsAssumption
  <1>1. PICK v \in lo..hi : v > 0 /\ hs[1].rows = Matching(v, None)
    BY DEF Window
  <1>2. v \in DOMAIN World
    BY <1>0, <1>1
  <1>3. PICK W : W = World[v]
    OBVIOUS
  <1>4. W \in Seq(Order)
    BY <1>2, <1>3, LimitsAssumption DEF Order
  <1>5. RowsOf(W, None) = W
    BY <1>4, RowsOfAll
  <1>6. hs[1].rows = W
    BY <1>1, <1>3, <1>5 DEF Matching
  <1> DEFINE B == {[plan |-> row.plan, values |-> RowsOf(W, row.plan)] : row \in Range(W)}
             C == {[plan |-> row.plan, values |-> Matching(v, row.plan)] : row \in Range(World[v])}
             A == {[plan |-> g.plan, values |-> g.values] : g \in Range(s)}
  <1>7. B = C
    BY <1>3 DEF Matching
  <1>8. A = B
    <2>1. CASE _dependency_empty(hs)
      <3>1. s = <<>> /\ W = <<>>
        BY <1>6, <2>1 DEF _run_compute_steps, _dependency_empty
      <3>2. Range(<<>>) = {}
        BY DEF Range
      <3> QED
        BY <3>1, <3>2
    <2>2. CASE ~_dependency_empty(hs)
      <3>1. s = Summaries(W)
        BY <1>6, <2>2 DEF _run_compute_steps
      <3> HIDE DEF s
      <3> QED
        BY <1>4, <3>1, SummaryShows
    <2> QED
      BY <2>1, <2>2
  <1>9. A = C
    BY <1>7, <1>8
  <1> HIDE DEF s
  <1>10. ShowsOne(s, lo, hi)
    BY <1>1, <1>9 DEF ShowsOne
  <1> QED
    BY <1>10 DEF s

\* An unmarked table is of complete fetches and shows one content of the source.
LEMMA WholeTable ==
    ASSUME NEW hs, NEW n \in Nat \ {0}, DOMAIN hs = 1..n, NEW lo \in Nat, NEW hi \in DOMAIN World,
           \A i \in 1..n : hs[i].reason \in Reasons \cup {None},
           hs[1].complete => Window(hs[1].rows, None, lo, hi),
           NEW q, _build_table(hs, q).reason = None
    PROVE  /\ \A i \in 1..n : hs[i].complete
           /\ ShowsOne(_build_table(hs, q).rows, lo, hi)
  <1> DEFINE s == _run_compute_steps(hs)
             t == _build_table(hs, q)
             missing == IncompleteReason(hs)
  <1>1. /\ t.rows = WithMetrics(s)
        /\ t.reason = IF missing = None /\ s # <<>> /\ ~recipe.confirmed
                      THEN [source |-> FALSE, why |-> "metric_unavailable"] ELSE missing
    BY DEF _build_table
  <1>2. missing = None /\ (s = <<>> \/ recipe.confirmed)
    BY <1>1, NoneAssumption
  <1>3. \A i \in 1..n : hs[i].complete
    BY <1>2, MarkedUnlessComplete
  <1>4. 1 \in 1..n
    OBVIOUS
  <1>5. ShowsOne(s, lo, hi)
    BY <1>3, <1>4, ComputeShowsOne
  <1> HIDE DEF s, t
  <1>6. Range(WithMetrics(s)) = Range(s)
    <2>1. CASE recipe.confirmed
      BY <2>1 DEF WithMetrics
    <2>2. CASE ~recipe.confirmed
      <3>1. DOMAIN s = {}
        BY <1>2, <2>2
      <3>2. DOMAIN WithMetrics(s) = {}
        BY <2>2, <3>1 DEF WithMetrics
      <3> QED
        BY <3>1, <3>2 DEF Range
    <2> QED
      BY <2>1, <2>2
  <1>7. ShowsOne(t.rows, lo, hi)
    BY <1>1, <1>5, <1>6 DEF ShowsOne
  <1> QED
    BY <1>3, <1>7 DEF t

LEMMA DeliverWalks ==
    ASSUME WalkInv, ViewInv, Deliver
    PROVE  WalkInv'
  <1> DEFINE d == _attach_order_view_context
             t == Verified.table
             lo == began - 1
             n == Len(recipe.steps)
             ss == ShadowFetches
  <1>1. Still /\ pc = "verify"
    BY DEF Deliver, Still, fixed, walkVars
  <1>2. /\ version \in DOMAIN World /\ began \in 1..version /\ Len(fetches) = n
        /\ table = _build_table(fetches, request) /\ IsSeq(fetches)
        /\ recipe \in Recipes
        /\ fetches # <<>> => recipe.steps[1].from = None
        /\ \A k \in DOMAIN fetches : Done(recipe, fetches, walked, k, lo, version)
    BY <1>1 DEF WalkInv, ViewInv, Past, Tables
  <1>3. lo \in Nat
    BY <1>2, Versions
  <1>4. n \in Nat \ {0} /\ DOMAIN fetches = 1..n
    BY <1>2, RecipeSteps, SeqShape
  <1>5. fetches # <<>> /\ 1 \in 1..n
    <2>1. 1 \in 1..n
      BY <1>4
    <2>2. DOMAIN <<>> = {}
      OBVIOUS
    <2> QED
      BY <1>4, <2>1, <2>2
  <1>6. ASSUME NEW k \in 1..n
        PROVE  /\ fetches[k].reason \in Reasons \cup {None}
               /\ recipe.steps[k].from = None =>
                     /\ fetches[k].complete => Window(fetches[k].rows, None, lo, version)
                     /\ fetches[k].shadow # None =>
                           /\ fetches[k].complete
                           /\ fetches[k].shadow.reason \in Reasons \cup {None}
                           /\ Window(fetches[k].shadow.rows, None, lo, version)
               /\ recipe.steps[k].from # None => fetches[k].shadow = None
    BY <1>2, <1>4 DEF Done
  <1>7. recipe.steps[1].from = None
    BY <1>2, <1>5
  <1>8. DOMAIN ss = 1..n
        /\ \A k \in 1..n : ss[k] = IF fetches[k].shadow # None THEN fetches[k].shadow ELSE fetches[k]
    BY <1>4 DEF ShadowFetches
  <1> HIDE DEF lo, n, ss
  <1>9. CASE d.code # None
    <2>1. \E code : Raise(code)
      BY <1>9 DEF Deliver
    <2> QED
      BY <1>1, <2>1, RaisePreserves
  <1>10. CASE d.code = None
    <2>1. pc' = "idle" /\ result' = d.result
      BY <1>10 DEF Deliver
    <2>2. d.result = _to_run_result(Verified)
      BY <1>10, NoneAssumption DEF _attach_order_view_context
    <2>3. result'.reason = t.reason /\ result'.rows = t.rows
      BY <2>1, <2>2 DEF _to_run_result
    <2>4. t = table \/ t = _build_table(ss, request)
      BY DEF Verified, ss
    <2>5. ASSUME t.reason = None
          PROVE  (\A k \in 1..n : fetches[k].complete) /\ ShowsOne(t.rows, lo, version)
      <3>1. CASE t = table
        <4>1. \A i \in 1..n : fetches[i].reason \in Reasons \cup {None}
          BY <1>6
        <4>2. fetches[1].complete => Window(fetches[1].rows, None, lo, version)
          BY <1>5, <1>6, <1>7
        <4>3. _build_table(fetches, request).reason = None
          BY <1>2, <2>5, <3>1
        <4>4. /\ \A i \in 1..n : fetches[i].complete
              /\ ShowsOne(_build_table(fetches, request).rows, lo, version)
          BY <1>2, <1>3, <1>4, <4>1, <4>2, <4>3, WholeTable
        <4> QED
          BY <1>2, <3>1, <4>4
      <3>2. CASE t = _build_table(ss, request)
        <4>1. \A i \in 1..n : ss[i].reason \in Reasons \cup {None}
          BY <1>6, <1>8
        <4>2. ss[1].complete => Window(ss[1].rows, None, lo, version)
          BY <1>5, <1>6, <1>7, <1>8
        <4>3. _build_table(ss, request).reason = None
          BY <2>5, <3>2
        <4>4. /\ \A i \in 1..n : ss[i].complete
              /\ ShowsOne(_build_table(ss, request).rows, lo, version)
          BY <1>2, <1>3, <1>4, <1>8, <4>1, <4>2, <4>3, WholeTable
        <4>5. ASSUME NEW i \in 1..n PROVE fetches[i].complete
          BY <1>6, <1>8, <4>4
        <4> QED
          BY <3>2, <4>4, <4>5
      <3> QED
        BY <2>4, <3>1, <3>2
    <2>6. Told(pc', result', fetches, lo, version)
      BY <1>4, <2>1, <2>3, <2>5 DEF Told
    <2> QED
      BY <1>1, <2>1, <2>6, StillPreserves DEF lo
  <1> QED
    BY <1>9, <1>10

LEMMA WalkStep ==
    ASSUME WalkInv, ViewInv, [KernelNext]_kernelVars
    PROVE  WalkInv'
  <1>1. ASSUME NEW r \in ViewerRequests, StartRun(r) PROVE WalkInv'
    BY <1>1, StartRunWalks
  <1>2. CASE BeginStep
    BY <1>2, BeginStepWalks
  <1>3. CASE _fetch_one
    BY <1>3, RequestWalks
  <1>4. CASE Gathered
    BY <1>4, GatheredWalks
  <1>5. CASE WithCallStops
    BY <1>5, EndsWalk
  <1>6. CASE Build
    BY <1>6, EndsWalk
  <1>7. CASE Interrupted
    BY <1>7, EndsWalk
  <1>8. CASE Deliver
    BY <1>8, DeliverWalks
  <1>9. CASE SourceReplies
    BY <1>9, RequestWalks
  <1>10. CASE SourceChanges
    BY <1>10, SourceChangesWalks
  <1>11. CASE Cancel
    BY <1>11, EndsWalk
  <1>12. CASE Tick
    BY <1>12, TickWalks
  <1>13. CASE UNCHANGED kernelVars
    BY <1>13 DEF kernelVars, fixed, walkVars, viewVars, stepVars, WalkInv, Entries
  <1> QED
    BY <1>1, <1>2, <1>3, <1>4, <1>5, <1>6, <1>7, <1>8, <1>9, <1>10, <1>11, <1>12, <1>13 DEF KernelNext

LEMMA InvIsWhole ==
    ASSUME WalkInv
    PROVE  WholeOrMarked
  <1> DEFINE lo == began - 1
  <1> SUFFICES ASSUME result.kind = "answer", result.reason = None PROVE WholeOrMarked
    BY DEF WholeOrMarked
  <1>1. (\A k \in DOMAIN fetches : fetches[k].complete) /\ ShowsOne(result.rows, lo, version)
    BY DEF WalkInv, Told
  <1>2. /\ IsSeq(walked) /\ IsSeq(fetches) /\ Len(walked) = Len(fetches)
        /\ \A k \in DOMAIN fetches : Done(recipe, fetches, walked, k, lo, version)
    BY DEF WalkInv, Past, Tables
  <1>3. DOMAIN walked = DOMAIN fetches
    BY <1>2, SeqShape
  <1>4. \A id : TableOf(id) = RowsAt(recipe, fetches, id)
    BY DEF TableOf, RowsAt
  <1> HIDE DEF lo
  <1>5. ASSUME NEW k \in DOMAIN walked
        PROVE  /\ Len(walked[k].said) = walked[k].wanted
               /\ walked[k].fanned =>
                     \A p \in {row.plan : row \in Range(TableOf(recipe.steps[k].from))} :
                        \E v \in lo..version : v > 0 /\ RowsOf(fetches[k].rows, p) = Matching(v, p)
    <2>1. fetches[k].complete /\ Done(recipe, fetches, walked, k, lo, version)
      BY <1>1, <1>2, <1>3
    <2>2. PICK id : id = recipe.steps[k].from
      OBVIOUS
    <2>3. TableOf(id) = RowsAt(recipe, fetches, id)
      BY <1>4
    <2> QED
      BY <2>1, <2>2, <2>3 DEF Done
  <1> QED
    BY <1>1, <1>5 DEF WholeOrMarked, ShowsOne, lo

\* An answer that is not marked incomplete has everything. However requests are batched, retried,
\* cut, refused, answered from the cache or checked against the source, and whatever changes
\* meanwhile: every step of the run asked for each value it was bound to and got all of its rows,
\* and the summary is the source as it was at one moment of the run (or one change before it).
THEOREM AnswersAreWholeOrMarked == KernelSpec => []WholeOrMarked
  <1>1. KernelInit => ViewInv /\ WalkInv
    BY ViewInit, WalkInit
  <1>2. ViewInv /\ WalkInv /\ [KernelNext]_kernelVars => ViewInv' /\ WalkInv'
    BY StepPreserves, WalkStep
  <1>3. WalkInv => WholeOrMarked
    BY InvIsWhole
  <1> QED
    BY <1>1, <1>2, <1>3, PTL DEF KernelSpec

-----------------------------------------------------------------------------
(* The batches of the kernel and the serial walk.                          *)

LEMMA AppendedWalk ==
    ASSUME NEW s, IsSeq(s), NEW e, NEW t, t = Append(s, e)
    PROVE  Len(t) = Len(s) + 1 /\ SubSeq(t, 1, Len(s)) = s /\ Serial!Last(t) = e
  <1>1. PICK S : s \in Seq(S)
    BY DEF IsSeq
  <1>2. s \in Seq(S \cup {e}) /\ Len(s) \in Nat /\ DOMAIN s = 1..Len(s)
    BY <1>1
  <1>3. /\ Len(t) = Len(s) + 1 /\ t \in Seq(S \cup {e}) /\ t[Len(s) + 1] = e
        /\ \A i \in 1..Len(s) : t[i] = s[i]
    BY <1>2
  <1>4. SubSeq(t, 1, Len(s)) = s
    <2> DEFINE u == SubSeq(t, 1, Len(s))
    <2>1. u \in Seq(S \cup {e}) /\ Len(u) = Len(s) /\ \A i \in 1..Len(s) : u[i] = t[i]
      BY <1>2, <1>3
    <2> HIDE DEF u
    <2>2. \A i \in 1..Len(s) : u[i] = s[i]
      BY <1>3, <2>1
    <2>3. u = s
      BY <1>2, <2>1, <2>2, SeqEqual
    <2> QED
      BY <2>3 DEF u
  <1>5. Serial!Last(t) = e
    BY <1>3 DEF Serial!Last
  <1> QED
    BY <1>3, <1>4, <1>5

LEMMA RegisteredIsSerial ==
    ASSUME IsSeq(walked), IsSeq(fetches), NEW f, NEW e, Registers(f, e), SerialStep(f, e, calls)
    PROVE  Serial!Step
  <1>1. /\ fetches' = Append(fetches, f) /\ walked' = Append(walked, e) /\ calls' = calls + f.calls
    BY DEF Registers
  <1>2. /\ Len(walked') = Len(walked) + 1 /\ SubSeq(walked', 1, Len(walked)) = walked
        /\ Serial!Last(walked') = e /\ Serial!Last(fetches') = f
    BY <1>1, AppendedWalk
  <1>3. calls' = calls + Serial!Last(fetches').calls
    BY <1>1, <1>2
  <1>4. Serial!Last(e.said) = e.said[Len(e.said)]
    BY DEF Serial!Last
  <1>5. fetches' = Append(fetches,
            IF Serial!Failures(e.said) # {} THEN Serial!Degraded(Serial!Last(e.said).failed)
            ELSE IF e.fanned THEN Serial!WholeWalk(e.said, e.wanted) ELSE e.said[1])
    BY <1>1, <1>4 DEF SerialStep
  <1> QED
    BY <1>2, <1>3, <1>5 DEF Serial!Step, SerialStep

LEMMA StepsAreSerial ==
    ASSUME WalkInv, [KernelNext]_kernelVars
    PROVE  [Serial!Next]_(Serial!walkVars)
  <1> USE DEF fixed, walkVars, viewVars, stepVars, Serial!walkVars
  <1>1. ASSUME NEW r \in ViewerRequests, StartRun(r) PROVE Serial!Again
    BY <1>1 DEF StartRun, Serial!Again
  <1>2. CASE Gathered
    <2>1. CASE UNCHANGED walkVars
      BY <2>1
    <2>2. ASSUME NEW f, NEW e, Registers(f, e), SerialStep(f, e, calls) PROVE Serial!Next
      <3>1. IsSeq(walked) /\ IsSeq(fetches)
        BY DEF WalkInv, Past, Tables
      <3> QED
        BY <2>2, <3>1, RegisteredIsSerial DEF Serial!Next
    <2> QED
      BY <1>2, <2>1, <2>2, GatheredCases
  <1>3. CASE BeginStep \/ _fetch_one \/ SourceReplies \/ WithCallStops
    BY <1>3 DEF BeginStep, _fetch_one, SourceReplies, WithCallStops, requestFrame
  <1>4. CASE Build \/ Interrupted \/ Deliver \/ SourceChanges \/ Cancel \/ Tick
    BY <1>4 DEF Build, Interrupted, Deliver, SourceChanges, Cancel, Tick
  <1>5. CASE UNCHANGED kernelVars
    BY <1>5 DEF kernelVars
  <1> QED
    BY <1>1, <1>2, <1>3, <1>4, <1>5 DEF KernelNext, Serial!Next

\* The kernel implements the serial walk: for any concurrency, batches that are answered in any
\* order, and runs that fail, are stopped or start again, give each step the fetch, the calls and
\* the reason that one request after the other would have given it (_fetch_fanned).
THEOREM KernelIsSerial == KernelSpec => SerialEquivalence
  <1>1. KernelInit => ViewInv /\ WalkInv /\ Serial!Init
    BY ViewInit, WalkInit DEF KernelInit, Serial!Init
  <1>2. ViewInv /\ WalkInv /\ [KernelNext]_kernelVars => ViewInv' /\ WalkInv' /\ [Serial!Next]_(Serial!walkVars)
    BY StepPreserves, WalkStep, StepsAreSerial
  <1> QED
    BY <1>1, <1>2, PTL DEF KernelSpec, SerialEquivalence, Serial!Spec

=============================================================================
