--------------------------- MODULE MesAccessProofs ---------------------------
(***************************************************************************)
(* Proofs about the access to the MES: types, the scope under which the    *)
(* interaction and the owner snapshot send, and what a complete walk of    *)
(* the pages holds.                                                        *)
(***************************************************************************)
EXTENDS MesAccess, SequenceTheorems, TLAPS

-----------------------------------------------------------------------------
(* The inductive invariant.                                                *)

\* The records of the pager. Inside an answer a walk is at "rows" for a moment.
Walks ==
  [pc : {"idle", "next", "asking", "rows", "done", "failed"}, items : Seq(Rows),
   seen : SUBSET SUBSET Rows, expected : Nat \cup {None}, page : 1..(MaxPages + 1),
   size : {PageSize, PageSizeCeiling}, resized : BOOLEAN, complete : BOOLEAN,
   reason : Reasons \cup {None}, first : Seq(Rows), shrank : BOOLEAN]

OwnerPlaces ==
  [pc : {"off", "exchange", "registry", "authorize", "departments", "fetch",
         "registry_again", "authorize_again", "departments_again"},
   who : Users \cup {None}, identity : Users \cup {None}, looked : BOOLEAN]

RunPlaces == [pc : {"new", "bound", "over"}, bound : MesCredentialBundle \cup {None}]

LoadLeft == [fetches : SUBSET Fetches, ticks : Nat, changes : Nat, entered : Nat,
             withdrawn : Nat, snapshots : Nat]

PlaceTypes ==
  /\ run \in RunPlaces /\ owner \in OwnerPlaces /\ load \in LoadLeft
  /\ edge \in [Requests -> {"new", "exchange", "known", "rejected"}]

PagerTypes ==
  /\ source \in Seq(Rows) /\ paged \in BOOLEAN
  /\ walk \in [Actors -> Walks] /\ \A a \in Actors : walk[a].pc # "rows"

MesTypes == GatewayTypeOK /\ AdapterTypeOK /\ PagerTypes /\ PlaceTypes

\* The entry kept for a user holds a bundle of that user.
IdentityInv == \A u \in Users : byIdentity[u] # None => byIdentity[u].bundle.who = u

\* A call that is under way belongs to a walk that asked for a page, and it refreshes the
\* entry of the user it is bound to.
Under(a) == call[a].pc \in {"tenant", "refresh", "sending"}

\* A task that works under a bundle of a user the gateway still has an entry for.
BoundTo(a, who) ==
  ctx[a] \in MesCredentialBundle /\ ctx[a].who = who /\ byIdentity[who] # None

CallOK(a) ==
  /\ Under(a) => walk[a].pc = "asking"
  /\ (call[a].pc = "refresh" /\ exch[a] # None) =>
       exch[a].entry \in LiveEntry /\ exch[a].entry.bundle.who = ctx[a].who

CallInv == \A a \in Fetches \cup {Snapshot} : CallOK(a)

ScopeOK(f) ==
  /\ Under(f) => (run.pc = "bound" /\ f \in load.fetches)
  /\ (run.pc = "bound" /\ f \in load.fetches) =>
       BoundTo(f, run.bound.who) /\ ctx[f].facts = run.bound.facts

ScopeInv == \A f \in Fetches : ScopeOK(f)

\* While it fetches, the snapshot fetcher holds a bundle of the identity it has verified,
\* and an owner's unless it was bound after a lookup; a refreshed one is always an owner's.
OwnerInv ==
  /\ owner.pc \in {"registry", "authorize", "departments"} =>
       owner.who \in Users /\ owner.identity \in {None, owner.who}
  /\ owner.pc = "departments" => byIdentity[owner.who] # None
  /\ owner.pc \in {"fetch", "registry_again", "authorize_again", "departments_again"} =>
       /\ owner.who \in Users /\ owner.identity = owner.who
       /\ BoundTo(Snapshot, owner.who) /\ (~owner.looked => ctx[Snapshot].facts \in OwnerFacts)
  /\ Under(Snapshot) =>
       owner.pc \in {"fetch", "registry_again", "authorize_again", "departments_again"}
  /\ owner.pc \in {"registry_again", "authorize_again", "departments_again"} =>
       call[Snapshot].pc = "refresh" /\ exch[Snapshot] = None

\* The rows a walk holds when it asks for its next page.
Before(w) == (w.page - 1) * w.size

\* A walk that knows its total, and from which nothing was taken: the source is what it
\* was at the first answer, or longer; the walk holds the rows before its page, in order.
WalkGood(w) ==
  /\ w.pc = "asking" => w.page <= MaxPages
  /\ w.expected = None => /\ w.pc # "done" /\ w.items = <<>> /\ w.page = 1
                          /\ ~w.resized /\ ~w.complete /\ w.size = PageSize
  /\ (w.expected # None /\ ~w.shrank) =>
       /\ w.expected = Len(w.first) /\ (source = w.first \/ Len(source) > Len(w.first))
       /\ w.pc \in {"next", "asking"} =>
            /\ paged /\ Before(w) <= Len(w.first) /\ w.items = SubSeq(w.first, 1, Before(w))
       /\ (w.pc = "done" /\ w.complete) => w.items = w.first

PagesInv == \A a \in Actors : WalkGood(walk[a])

MesInv == MesTypes /\ IdentityInv /\ CallInv /\ ScopeInv /\ OwnerInv /\ PagesInv

-----------------------------------------------------------------------------
(* What the gateway's and the adapter's operators do to their variables.   *)

EntriesType ==
  byDigest \in [Credentials -> LiveEntry \cup {None}] /\ byIdentity \in [Users -> LiveEntry \cup {None}]

ExchType == exch \in [Actors -> Exchange \cup {None}]
CtxType == ctx \in [Actors -> MesCredentialBundle \cup {None}]
CallType == call \in [Actors -> Calls]

\* No user loses its entry.
EntriesKept == \A u \in Users : byIdentity[u] # None => byIdentity'[u] # None

LEMMA Absence == /\ None \notin MesCredentialBundle /\ None \notin LiveEntry /\ None \notin Exchange
                 /\ None \notin Users /\ None \notin Nat
  BY NoneAssumption

LEMMA FailFacts ==
  ASSUME CallType, NEW a \in Actors, NEW e \in MesError, Fail(a, e)
  PROVE  CallType' /\ call'[a].pc = "failed" /\ \A b \in Actors \ {a} : call'[b] = call[b]
<1>1. call[a] \in Calls
  BY DEF CallType
<1>2. PICK c : c = [call[a] EXCEPT !.pc = "failed", !.error = e]
  OBVIOUS
<1>3. c \in Calls /\ c.pc = "failed"
  BY <1>1, <1>2 DEF Calls
<1>4. call' = [call EXCEPT ![a] = c]
  BY <1>2 DEF Fail, CallType
<1> QED BY <1>3, <1>4 DEF CallType

LEMMA SendFacts ==
  ASSUME CallType, requests \in 0..MaxRequests, NEW a \in Actors, NEW left \in 0..(MaxRetries + 1),
         SendOrStop(a, left)
  PROVE  /\ CallType' /\ requests' \in 0..MaxRequests
         /\ call'[a].pc \in {"sending", "failed"} /\ \A b \in Actors \ {a} : call'[b] = call[b]
<1>1. [pc |-> "sending", left |-> left, error |-> None] \in Calls
      /\ [pc |-> "failed", left |-> left, error |-> "budget"] \in Calls
  BY DEF Calls, MesError
<1>2. CASE InBudget(a)
  <2>1. call' = [call EXCEPT ![a] = [pc |-> "sending", left |-> left, error |-> None]] /\ Consume(a)
    BY <1>2 DEF SendOrStop
  <2>2. requests' \in 0..MaxRequests
    BY <1>2, <2>1, AdapterAssumption DEF Consume, InBudget
  <2> QED BY <1>1, <2>1, <2>2 DEF CallType
<1>3. CASE ~InBudget(a)
  <2>1. call' = [call EXCEPT ![a] = [pc |-> "failed", left |-> left, error |-> "budget"]] /\ requests' = requests
    BY <1>3 DEF SendOrStop
  <2> QED BY <1>1, <2>1 DEF CallType
<1> QED BY <1>2, <1>3

LEMMA AskFacts ==
  ASSUME ExchType, NEW a \in Actors, NEW c \in Credentials, NEW entry \in LiveEntry \cup {None}, Ask(a, c, entry)
  PROVE  ExchType' /\ exch'[a].entry = entry /\ \A b \in Actors \ {a} : exch'[b] = exch[b]
<1> DEFINE x == [cred |-> c, entry |-> entry, stage |-> "asked", bundle |-> None]
<1>1. x \in Exchange /\ x.entry = entry
  BY DEF Exchange
<1>2. exch' = [exch EXCEPT ![a] = x]
  BY DEF Ask
<1> HIDE DEF x
<1> QED BY <1>1, <1>2 DEF ExchType

LEMMA EndFacts ==
  ASSUME ExchType, NEW a \in Actors, EndExchange(a)
  PROVE  ExchType' /\ exch'[a] = None /\ \A b \in Actors \ {a} : exch'[b] = exch[b]
  BY DEF ExchType, EndExchange

\* A bundle that is accepted says of its user and facts what the MES issued.
LEMMA ResponseFacts ==
  ASSUME ExchType, clock \in 0..MaxClock, NEW a \in Actors, exch[a] # None, HasPrincipal(a)
  PROVE  /\ _bundle_from_response(a) \in MesCredentialBundle
         /\ _bundle_from_response(a).who = exch[a].bundle.who
         /\ _bundle_from_response(a).facts = exch[a].bundle.facts
         /\ exch[a].bundle.who \in Users /\ exch[a].cred \in Credentials
<1>1. exch[a] \in Exchange
  BY DEF ExchType
<1>2. PICK b : b = exch[a].bundle
  OBVIOUS
<1>3. b \in MesCredentialBundle
  BY <1>1, <1>2 DEF Exchange, HasPrincipal
<1>4. parse_expiry(b) \in 0..(MaxClock + Life)
  <2>1. b.expires \in 0..(MaxClock + Life)
    BY <1>3 DEF MesCredentialBundle
  <2> QED BY <2>1, GatewayAssumption DEF parse_expiry
<1>5. _bundle_from_response(a) = [b EXCEPT !.expires = parse_expiry(b)]
  BY <1>2 DEF _bundle_from_response
<1> QED BY <1>1, <1>2, <1>3, <1>4, <1>5 DEF MesCredentialBundle, Exchange

LEMMA KeepFacts ==
  ASSUME EntriesType, IdentityInv, NEW c \in Credentials, NEW who \in Users, NEW bundle \in MesCredentialBundle,
         bundle.who = who, Keep(c, who, bundle)
  PROVE  EntriesType' /\ IdentityInv' /\ EntriesKept
<1> DEFINE e == [bundle |-> bundle, cred |-> c]
<1>1. e \in LiveEntry /\ e.bundle = bundle
  BY DEF LiveEntry
<1>2. byDigest' = [byDigest EXCEPT ![c] = e] /\ byIdentity' = [byIdentity EXCEPT ![who] = e]
  BY DEF Keep
<1>3. e # None
  BY <1>1, Absence
<1> HIDE DEF e
<1>4. EntriesType'
  BY <1>1, <1>2 DEF EntriesType
<1>5. \A u \in Users : byIdentity'[u] = IF u = who THEN e ELSE byIdentity[u]
  BY <1>2 DEF EntriesType
<1> QED BY <1>1, <1>3, <1>4, <1>5 DEF IdentityInv, EntriesKept

LEMMA ForgottenFacts ==
  ASSUME EntriesType, IdentityInv, UNCHANGED <<byDigest, byIdentity>>
  PROVE  EntriesType' /\ IdentityInv' /\ EntriesKept
  BY DEF EntriesType, IdentityInv, EntriesKept

LEMMA AuthenticateFacts ==
  ASSUME EntriesType, ExchType, clock \in 0..MaxClock, IdentityInv, NEW a \in Actors, exch[a] # None,
         AuthenticateKeeps(a)
  PROVE  EntriesType' /\ IdentityInv' /\ EntriesKept
<1>1. CASE HasPrincipal(a)
  BY <1>1, ResponseFacts, KeepFacts DEF AuthenticateKeeps
<1>2. CASE ~HasPrincipal(a)
  BY <1>2, ForgottenFacts DEF AuthenticateKeeps, Forgotten
<1> QED BY <1>1, <1>2

LEMMA RefreshFacts ==
  ASSUME EntriesType, ExchType, clock \in 0..MaxClock, IdentityInv, NEW a \in Actors, exch[a] # None,
         RefreshKeeps(a)
  PROVE  EntriesType' /\ IdentityInv' /\ EntriesKept
<1>1. CASE RefreshedIdentity(a)
  <2>1. HasPrincipal(a) /\ exch[a].entry.bundle.who = exch[a].bundle.who
    BY <1>1 DEF RefreshedIdentity
  <2> QED BY <1>1, <2>1, ResponseFacts, KeepFacts DEF RefreshKeeps
<1>2. CASE ~RefreshedIdentity(a)
  BY <1>2, ForgottenFacts DEF RefreshKeeps, Forgotten
<1> QED BY <1>1, <1>2

-----------------------------------------------------------------------------
(* The pager.                                                              *)

LEMMA PagerNumbers ==
  PageSize \in Nat /\ PageSize >= 1 /\ PageSizeCeiling \in Nat /\ PageSizeCeiling >= 1
  /\ MaxPages \in Nat /\ MaxPages >= 1 /\ MaxRows \in Nat /\ MaxRows >= 1
  BY PagerAssumption

LEMMA FirstRowsType ==
  ASSUME NEW q \in Seq(Rows), NEW n \in Nat
  PROVE  FirstRows(q, n) \in Seq(Rows)
<1>1. PICK m \in Nat : m <= Len(q) /\ FirstRows(q, n) = SubSeq(q, 1, m)
  BY DEF FirstRows
<1>2. \A k \in 1..m : q[k] \in Rows
  BY <1>1, ElementOfSeq
<1> QED BY <1>1, <1>2, SubSeqProperties

\* A walk that ends incomplete says nothing about its rows.
LEMMA EndIncomplete ==
  ASSUME NEW w \in Walks, NEW reason \in Reasons, NEW items \in Seq(Rows), w.expected # None,
         ~w.shrank => w.expected = Len(w.first) /\ (source = w.first \/ Len(source) > Len(w.first)),
         NEW x, x = End(w, FALSE, reason, items)
  PROVE  x \in Walks /\ x.pc # "rows" /\ WalkGood(x)
<1>1. /\ x \in Walks /\ x.pc = "done" /\ x.complete = FALSE
      /\ x.expected = w.expected /\ x.first = w.first /\ x.shrank = w.shrank
  BY DEF End, Walks
<1> QED BY <1>1 DEF WalkGood

\* The walk of a page, seen as a place in the rows of the source: k rows come before it.
LEMMA PagePlace ==
  ASSUME NEW w \in Walks
  PROVE  /\ Before(w) \in Nat /\ w.page * w.size = Before(w) + w.size /\ w.size >= 1
         /\ w.size \in Nat /\ w.page \in Nat /\ w.page >= 1
<1>1. w.page \in Nat /\ w.page >= 1 /\ w.size \in Nat /\ w.size >= 1
  BY PagerNumbers DEF Walks
<1>2. \A p, z \in Nat : p >= 1 => (p - 1) * z \in Nat /\ p * z = (p - 1) * z + z
  OBVIOUS
<1> QED BY <1>1, <1>2 DEF Before

\* The rows of a page follow those before it.
LEMMA PageFollows ==
  ASSUME NEW w \in Walks, paged, source \in Seq(Rows), Before(w) <= Len(source),
         NEW page, page = PageOf(w)
  PROVE  /\ page \in Seq(Rows)
         /\ SubSeq(source, 1, Before(w)) \o page = SubSeq(source, 1, Least(w.page * w.size, Len(source)))
         /\ Least(w.page * w.size, Len(source)) \in Nat /\ Least(w.page * w.size, Len(source)) <= Len(source)
<1> DEFINE k == Before(w)
           n == Least(w.page * w.size, Len(source))
<1>1. k \in Nat /\ w.page * w.size = k + w.size /\ w.size \in Nat /\ Len(source) \in Nat
  BY PagePlace
<1>2. n \in Nat /\ k <= n /\ n <= Len(source)
  BY <1>1 DEF Least
<1>3. page = SubSeq(source, k + 1, n)
  BY DEF PageOf, Before
<1> HIDE DEF k, n
<1>4. \A i \in (k + 1)..n : source[i] \in Rows
  BY <1>1, <1>2, ElementOfSeq
<1>5. page \in Seq(Rows)
  BY <1>1, <1>2, <1>3, <1>4, SubSeqProperties
<1>6. 1 \in 1..(Len(source) + 1) /\ k \in (1 - 1)..Len(source) /\ n \in k..Len(source)
  BY <1>1, <1>2
<1>7. SubSeq(source, 1, k) \o SubSeq(source, k + 1, n) = SubSeq(source, 1, n)
  BY <1>6, ConcatAdjacentSubSeq
<1> QED BY <1>2, <1>3, <1>5, <1>7 DEF k, n

LEMMA PrefixLength ==
  ASSUME NEW q \in Seq(Rows), NEW n \in Nat, n <= Len(q)
  PROVE  /\ Len(SubSeq(q, 1, n)) = n /\ SubSeq(q, 1, n) \in Seq(Rows)
         /\ n = Len(q) => SubSeq(q, 1, n) = q
<1>1. \A i \in 1..n : q[i] \in Rows
  BY ElementOfSeq
<1> QED BY <1>1, SubSeqProperties, SubSeqFull

\* What AddRows needs of a walk that goes on.
GoesOn(w, page) ==
  ~w.shrank => /\ w.expected = Len(w.first) /\ source = w.first /\ paged /\ page = PageOf(w)
               /\ Before(w) <= Len(w.first) /\ w.items = SubSeq(w.first, 1, Before(w))

LEMMA AddRowsGood ==
  ASSUME source \in Seq(Rows), NEW w \in Walks, NEW page \in Seq(Rows), w.expected \in Nat, w.page <= MaxPages,
         GoesOn(w, page), NEW x, x = AddRows(w, page)
  PROVE  x \in Walks /\ x.pc # "rows" /\ WalkGood(x)
<1> DEFINE held == w.items \o page
           more == [w EXCEPT !.items = held, !.seen = @ \cup {ToSet(page)}, !.pc = "next", !.page = @ + 1]
<1>1. /\ w.items \in Seq(Rows) /\ held \in Seq(Rows) /\ Len(held) \in Nat /\ w.first \in Seq(Rows)
      /\ w.expected # None /\ Least(w.expected, MaxRows) \in Nat /\ MaxRows \in Nat /\ w.seen \subseteq SUBSET Rows
  <2>1. w.items \in Seq(Rows) /\ w.first \in Seq(Rows) /\ w.seen \subseteq SUBSET Rows
    BY DEF Walks
  <2> QED BY <2>1, ConcatProperties, LenProperties, PagerNumbers, Absence DEF Least
<1>2. ASSUME ~w.shrank
      PROVE  /\ w.expected = Len(w.first) /\ source = w.first
             /\ held = SubSeq(w.first, 1, Least(w.page * w.size, Len(w.first)))
             /\ Least(w.page * w.size, Len(w.first)) \in Nat
             /\ Len(held) = Least(w.page * w.size, Len(w.first))
             /\ Len(held) = Len(w.first) => held = w.first
  <2>1. /\ w.expected = Len(w.first) /\ source = w.first /\ paged /\ page = PageOf(w)
        /\ Before(w) <= Len(w.first) /\ w.items = SubSeq(w.first, 1, Before(w))
    BY <1>2 DEF GoesOn
  <2>2. PICK n : n = Least(w.page * w.size, Len(w.first))
    OBVIOUS
  <2>3. n \in Nat /\ n <= Len(w.first) /\ held = SubSeq(w.first, 1, n)
    BY <2>1, <2>2, PageFollows
  <2> HIDE DEF held
  <2> QED BY <1>1, <2>1, <2>2, <2>3, PrefixLength
<1>3. ToSet(page) \subseteq Rows
  BY ElementOfSeq, LenProperties DEF ToSet
<1>4. x = IF page # <<>> /\ ToSet(page) \in w.seen THEN End(w, FALSE, "duplicate_page", w.items)
          ELSE IF Len(held) > w.expected
          THEN End(w, FALSE, "row_overflow", FirstRows(held, Least(w.expected, MaxRows)))
          ELSE IF Len(held) > MaxRows
          THEN End(w, FALSE, "row_budget_exhausted", FirstRows(held, MaxRows))
          ELSE IF Len(held) = w.expected THEN End(w, TRUE, None, held)
          ELSE IF page = <<>> THEN End(w, FALSE, "missing_pages", held)
          ELSE more
  BY DEF AddRows
<1>5. /\ more \in Walks /\ more.pc = "next" /\ more.items = held /\ more.page = w.page + 1
      /\ more.size = w.size /\ more.expected = w.expected /\ more.first = w.first /\ more.shrank = w.shrank
  <2>1. w.page + 1 \in 1..(MaxPages + 1)
    BY PagerNumbers DEF Walks
  <2>2. w.seen \cup {ToSet(page)} \in SUBSET SUBSET Rows
    BY <1>1, <1>3
  <2> HIDE DEF held
  <2> QED BY <1>1, <2>1, <2>2 DEF Walks
<1> HIDE DEF held, more
<1>6. {"duplicate_page", "row_overflow", "row_budget_exhausted", "missing_pages"} \subseteq Reasons
  BY DEF Reasons
<1>7. FirstRows(held, Least(w.expected, MaxRows)) \in Seq(Rows) /\ FirstRows(held, MaxRows) \in Seq(Rows)
  BY <1>1, FirstRowsType
<1>8. ASSUME NEW reason \in Reasons, NEW items \in Seq(Rows), x = End(w, FALSE, reason, items)
      PROVE  x \in Walks /\ x.pc # "rows" /\ WalkGood(x)
  BY <1>1, <1>2, <1>8, EndIncomplete
<1>9. ASSUME Len(held) = w.expected, x = End(w, TRUE, None, held)
      PROVE  x \in Walks /\ x.pc # "rows" /\ WalkGood(x)
  <2>1. /\ x \in Walks /\ x.pc = "done" /\ x.items = held
        /\ x.expected = w.expected /\ x.first = w.first /\ x.shrank = w.shrank
    BY <1>1, <1>9 DEF End, Walks
  <2> QED BY <1>1, <1>2, <1>9, <2>1 DEF WalkGood
<1>10. ASSUME x = more, ~(Len(held) > w.expected), Len(held) # w.expected
       PROVE  x \in Walks /\ x.pc # "rows" /\ WalkGood(x)
  <2>1. x \in Walks /\ Before(x) = w.page * w.size /\ Before(x) \in Nat
    <3>1. w.page \in Nat /\ x.page = w.page + 1 /\ x.size = w.size /\ x.page - 1 = w.page
      <4>1. w.page \in Nat
        BY PagePlace
      <4>2. x.page = w.page + 1 /\ x.size = w.size
        BY <1>5, <1>10
      <4> QED BY <4>1, <4>2
    <3> QED BY <1>5, <1>10, <3>1, PagePlace DEF Before
  <2>2. ~w.shrank => Len(held) = Before(x) /\ Before(x) <= Len(w.first)
    BY <1>1, <1>2, <1>10, <2>1 DEF Least
  <2>3. ~w.shrank => paged /\ held = SubSeq(w.first, 1, Before(x))
    BY <1>2, <2>2 DEF GoesOn
  <2> QED BY <1>1, <1>2, <1>5, <1>10, <2>1, <2>2, <2>3 DEF WalkGood
<1> QED BY <1>1, <1>4, <1>6, <1>7, <1>8, <1>9, <1>10


\* The first answer fixes the total and the rows the walk is about.
LEMMA FirstAnswerGood ==
  ASSUME source \in Seq(Rows), paged \in BOOLEAN, NEW w \in Walks, w.pc = "asking", w.expected = None, WalkGood(w),
         w.first = source, NEW page, page = PageOf(w), NEW x, x = Answer(w, page, Len(source))
  PROVE  x \in Walks /\ x.pc # "rows" /\ WalkGood(x)
<1> DEFINE total == Len(source)
           known == [w EXCEPT !.expected = total]
           rows == [known EXCEPT !.pc = "rows"]
           again == [known EXCEPT !.pc = "next", !.size = PageSizeCeiling, !.resized = TRUE, !.items = <<>>,
                                  !.seen = {}, !.page = 1]
           first == FirstAnswer(w, page, total)
<1>1. /\ w.items = <<>> /\ w.page = 1 /\ w.size = PageSize /\ w.page <= MaxPages
      /\ total \in Nat /\ total # None
  BY PagerNumbers, Absence, LenProperties DEF WalkGood
<1>2. Before(w) = 0
  <2>1. \A z \in Nat : (1 - 1) * z = 0
    OBVIOUS
  <2> QED BY <1>1, <2>1, PagerNumbers DEF Before
<1>3. /\ page \in Seq(Rows) /\ Len(page) \in Nat /\ (Len(page) = total => page = source)
      /\ Len(page) # total => paged
  <2>1. CASE ~paged
    <3>1. page = source
      BY <2>1 DEF PageOf
    <3> QED BY <1>1, <3>1
  <2>2. CASE paged
    <3>1. PICK n : n = Least(w.page * w.size, Len(source))
      OBVIOUS
    <3>2. /\ page \in Seq(Rows) /\ SubSeq(source, 1, 0) \o page = SubSeq(source, 1, n) /\ n \in Nat /\ n <= Len(source)
      BY <1>1, <1>2, <2>2, <3>1, PageFollows
    <3>3. SubSeq(source, 1, 0) = <<>> /\ <<>> \o page = page
      BY <3>2, SubSeqEmpty, ConcatEmptySeq
    <3> QED BY <1>1, <2>2, <3>2, <3>3, PrefixLength, LenProperties
  <2> QED BY <2>1, <2>2
<1>4. /\ known \in Walks /\ known.expected = total /\ known.first = source /\ known.shrank = w.shrank
      /\ rows \in Walks /\ rows.expected = total /\ rows.first = source /\ rows.shrank = w.shrank
      /\ rows.page = 1 /\ rows.size = PageSize /\ rows.items = <<>> /\ rows.pc = "rows"
      /\ again \in Walks /\ again.expected = total /\ again.first = source /\ again.shrank = w.shrank
      /\ again.page = 1 /\ again.size = PageSizeCeiling /\ again.items = <<>> /\ again.pc = "next"
  <2>1. 1 \in 1..(MaxPages + 1) /\ <<>> \in Seq(Rows) /\ {} \in SUBSET SUBSET Rows
    BY PagerNumbers
  <2> HIDE DEF total
  <2> QED BY <1>1, <2>1 DEF Walks
<1>5. first = IF Len(page) > total
              THEN End(known, FALSE, "row_overflow", FirstRows(page, Least(total, MaxRows)))
              ELSE IF Len(page) > MaxRows
              THEN End(known, FALSE, "row_budget_exhausted", FirstRows(page, MaxRows))
              ELSE IF Len(page) = total THEN End(known, TRUE, None, page)
              ELSE IF Escalates(w, total) THEN again ELSE rows
  BY DEF FirstAnswer
<1>6. x = IF first.pc = "rows" THEN AddRows(first, page) ELSE first
  BY DEF Answer
<1> HIDE DEF total, known, rows, again, first
<1>7. FirstRows(page, Least(total, MaxRows)) \in Seq(Rows) /\ FirstRows(page, MaxRows) \in Seq(Rows)
  <2>1. Least(total, MaxRows) \in Nat /\ MaxRows \in Nat
    BY <1>1, PagerNumbers DEF Least
  <2> QED BY <1>3, <2>1, FirstRowsType
<1>8. \A k \in Walks : k.page = 1 => Before(k) = 0
  <2>1. \A z \in Nat : (1 - 1) * z = 0
    OBVIOUS
  <2> QED BY <2>1, PagePlace DEF Before
<1>9. SubSeq(source, 1, 0) = <<>>
  BY SubSeqEmpty
<1>10. ASSUME NEW reason \in Reasons, NEW items \in Seq(Rows), first = End(known, FALSE, reason, items)
       PROVE  x \in Walks /\ x.pc # "rows" /\ WalkGood(x)
  <2>1. first \in Walks /\ first.pc # "rows" /\ WalkGood(first)
    BY <1>1, <1>4, <1>10, EndIncomplete DEF total
  <2> QED BY <1>6, <2>1
<1>11. ASSUME Len(page) = total, first = End(known, TRUE, None, page)
       PROVE  x \in Walks /\ x.pc # "rows" /\ WalkGood(x)
  <2>1. /\ first \in Walks /\ first.pc = "done" /\ first.items = page /\ first.expected = total
        /\ first.first = source /\ first.shrank = w.shrank
    BY <1>3, <1>4, <1>11 DEF End, Walks
  <2> QED BY <1>1, <1>3, <1>6, <1>11, <2>1 DEF WalkGood, total
<1>12. ASSUME first = again, Len(page) # total PROVE x \in Walks /\ x.pc # "rows" /\ WalkGood(x)
  <2>1. x = again /\ Before(x) = 0
    BY <1>4, <1>6, <1>8, <1>12
  <2>2. source \in Seq(Rows) /\ 0 <= Len(source)
    BY LenProperties
  <2> QED BY <1>1, <1>3, <1>4, <1>9, <1>12, <2>1, <2>2 DEF WalkGood, total
<1>13. ASSUME first = rows, Len(page) # total PROVE x \in Walks /\ x.pc # "rows" /\ WalkGood(x)
  <2>1. x = AddRows(rows, page)
    BY <1>4, <1>6, <1>13
  <2>2. Before(rows) = 0 /\ PageOf(rows) = page
    BY <1>1, <1>4, <1>8 DEF PageOf
  <2>3. GoesOn(rows, page)
    BY <1>3, <1>4, <1>9, <1>13, <2>2, LenProperties DEF GoesOn, total
  <2> QED BY <1>1, <1>3, <1>4, <2>1, <2>3, AddRowsGood, PagerNumbers
<1>14. {"row_overflow", "row_budget_exhausted"} \subseteq Reasons
  BY DEF Reasons
<1>15. \/ first = End(known, FALSE, "row_overflow", FirstRows(page, Least(total, MaxRows)))
       \/ first = End(known, FALSE, "row_budget_exhausted", FirstRows(page, MaxRows))
       \/ Len(page) = total /\ first = End(known, TRUE, None, page)
       \/ Len(page) # total /\ (first = again \/ first = rows)
  <2>1. PICK e1, e2, e3 : /\ e1 = End(known, FALSE, "row_overflow", FirstRows(page, Least(total, MaxRows)))
                          /\ e2 = End(known, FALSE, "row_budget_exhausted", FirstRows(page, MaxRows))
                          /\ e3 = End(known, TRUE, None, page)
    OBVIOUS
  <2>2. first = IF Len(page) > total THEN e1 ELSE IF Len(page) > MaxRows THEN e2
                ELSE IF Len(page) = total THEN e3 ELSE IF Escalates(w, total) THEN again ELSE rows
    BY <1>5, <2>1
  <2>3. first = e1 \/ first = e2 \/ (Len(page) = total /\ first = e3)
        \/ (Len(page) # total /\ (first = again \/ first = rows))
    BY <1>1, <1>3, <2>2
  <2> QED BY <2>1, <2>3
<1> QED BY <1>7, <1>10, <1>11, <1>12, <1>13, <1>14, <1>15

\* A later answer counts only while the total stays what it was.
LEMMA LaterAnswerGood ==
  ASSUME source \in Seq(Rows), paged \in BOOLEAN, NEW w \in Walks, w.pc = "asking", w.expected # None, WalkGood(w),
         NEW page, page = PageOf(w), NEW x, x = Answer(w, page, Len(source))
  PROVE  x \in Walks /\ x.pc # "rows" /\ WalkGood(x)
<1>1. w.expected \in Nat /\ w.items \in Seq(Rows) /\ w.first \in Seq(Rows) /\ w.page <= MaxPages
  BY DEF Walks, WalkGood
<1>2. page \in Seq(Rows)
  <2>1. w.page * w.size \in Nat /\ (w.page - 1) * w.size \in Nat /\ Len(source) \in Nat
    BY PagePlace, LenProperties DEF Before
  <2>2. CASE ~paged
    BY <2>2 DEF PageOf
  <2>3. CASE paged
    <3>1. PICK m \in Nat : m = (w.page - 1) * w.size + 1
      BY <2>1
    <3>2. PICK n \in Nat : n = Least(w.page * w.size, Len(source)) /\ n <= Len(source)
      BY <2>1 DEF Least
    <3>3. page = SubSeq(source, m, n) /\ m >= 1
      <4>1. page = SubSeq(source, m, n)
        BY <2>3, <3>1, <3>2 DEF PageOf
      <4> QED BY <2>1, <3>1, <4>1
    <3>4. \A i \in m..n : source[i] \in Rows
      BY <2>1, <3>2, <3>3, ElementOfSeq
    <3> QED BY <3>3, <3>4, SubSeqProperties
  <2> QED BY <2>2, <2>3
<1>3. CASE w.expected # Len(source)
  <2>1. x = End(w, FALSE, "total_drift", w.items) /\ "total_drift" \in Reasons
    BY <1>3 DEF Answer, Reasons
  <2> QED BY <1>1, <2>1, EndIncomplete DEF WalkGood
<1>4. CASE w.expected = Len(source)
  <2>1. x = AddRows(w, page)
    BY <1>4 DEF Answer
  <2>2. GoesOn(w, page)
    <3>1. ASSUME ~w.shrank PROVE source = w.first
      <4>1. Len(source) = Len(w.first) /\ (source = w.first \/ Len(source) > Len(w.first))
        BY <1>4, <3>1 DEF WalkGood
      <4>2. Len(source) \in Nat
        BY LenProperties
      <4> QED BY <4>1, <4>2
    <3> QED BY <3>1 DEF GoesOn, WalkGood
  <2> QED BY <1>1, <1>2, <2>1, <2>2, AddRowsGood
<1> QED BY <1>3, <1>4

\* A budget that is used up ends the walk.
LEMMA BudgetEndGood ==
  ASSUME NEW w \in Walks, w.pc = "next", OutOfBudget(w), WalkGood(w), NEW x, x = BudgetEnd(w)
  PROVE  x \in Walks /\ x.pc # "rows" /\ WalkGood(x)
<1>1. w.items \in Seq(Rows) /\ {"page_budget_exhausted", "row_budget_exhausted"} \subseteq Reasons
  BY DEF Walks, Reasons
<1>2. w.expected # None
  <2> SUFFICES ASSUME w.expected = None PROVE FALSE
    OBVIOUS
  <2>1. w.items = <<>> /\ w.page = 1
    BY DEF WalkGood
  <2>2. Len(<<>>) = 0
    OBVIOUS
  <2> QED BY <2>1, <2>2, PagerNumbers DEF OutOfBudget
<1>3. FirstRows(w.items, MaxRows) \in Seq(Rows)
  BY <1>1, FirstRowsType, PagerNumbers
<1>4. \E reason \in Reasons, items \in Seq(Rows) : x = End(w, FALSE, reason, items)
  BY <1>1, <1>3 DEF BudgetEnd
<1> QED BY <1>2, <1>4, EndIncomplete DEF WalkGood

-----------------------------------------------------------------------------
(* The beginning, and steps that one task takes.                           *)

LEMMA MesStart == Init => MesInv
<1> SUFFICES ASSUME Init PROVE MesInv
  OBVIOUS
<1>1. PICK l \in Loads :
        /\ load = [fetches |-> l.fetches, ticks |-> l.ticks, changes |-> l.changes, entered |-> l.entered,
                   withdrawn |-> l.withdrawn, snapshots |-> l.snapshots]
        /\ faults = l.faults /\ paged \in l.paged /\ source = l.source
        /\ edge = [q \in Requests |-> IF q \in l.requests THEN "new" ELSE "known"]
  BY DEF Init
<1>2. /\ l.fetches \in SUBSET Fetches /\ l.source \in Seq(Rows) /\ l.paged \in SUBSET BOOLEAN
      /\ l.ticks \in Nat /\ l.changes \in Nat /\ l.entered \in Nat /\ l.withdrawn \in Nat
      /\ l.faults \in Nat /\ l.snapshots \in Nat
  BY <1>1, LoadsAssumption
<1>3. load \in LoadLeft /\ faults \in Nat /\ paged \in BOOLEAN /\ source \in Seq(Rows)
      /\ edge \in [Requests -> {"new", "exchange", "known", "rejected"}]
  BY <1>1, <1>2 DEF LoadLeft
<1>4. /\ owner = [pc |-> "off", who |-> None, identity |-> None, looked |-> FALSE]
      /\ walk = [a \in Actors |-> NoWalk]
      /\ run = [pc |-> "new", bound |-> None]
      /\ call = [a \in Actors |-> NoCall] /\ requests = 0 /\ disabled = FALSE /\ default = None
      /\ clock = 0 /\ mes \in [Credentials -> [who : Users, facts : KnownFacts]] /\ issued = 0
      /\ byDigest = [c \in Credentials |-> None] /\ byIdentity = [u \in Users |-> None]
      /\ exch = [a \in Actors |-> None] /\ ctx = [a \in Actors |-> None]
  BY DEF Init, GatewayInit, AdapterInit
<1>5. NoWalk \in Walks /\ NoWalk.pc = "idle" /\ WalkGood(NoWalk)
  <2>1. 1 \in 1..(MaxPages + 1) /\ <<>> \in Seq(Rows)
    BY PagerNumbers
  <2> QED BY <2>1 DEF NoWalk, Walks, WalkGood
<1>6. NoCall \in Calls /\ NoCall.pc = "idle"
  BY AdapterAssumption DEF NoCall, Calls
<1>7. MesTypes
  <2>1. PlaceTypes
    BY <1>3, <1>4 DEF PlaceTypes, RunPlaces, OwnerPlaces
  <2>2. PagerTypes
    BY <1>3, <1>4, <1>5 DEF PagerTypes
  <2>3. AdapterTypeOK
    <3>1. disabled \in BOOLEAN
      BY <1>4, Zenon
    <3>2. call \in [Actors -> Calls] /\ requests \in 0..MaxRequests
      BY <1>4, <1>6, AdapterAssumption
    <3> QED BY <1>3, <1>4, <3>1, <3>2 DEF AdapterTypeOK
  <2>4. mes \in [Credentials -> [who : Users, facts : Facts]]
    BY <1>4, GatewayAssumption
  <2>5. GatewayTypeOK
    BY <1>4, <2>4, GatewayAssumption DEF GatewayTypeOK
  <2> QED BY <2>1, <2>2, <2>3, <2>5 DEF MesTypes
<1>8. \A a \in Actors : ~Under(a) /\ call[a].pc = "idle"
  BY <1>4, <1>6 DEF Under
<1>9. IdentityInv /\ CallInv /\ ScopeInv /\ OwnerInv /\ PagesInv
  BY <1>4, <1>5, <1>8, ActorsAssumption DEF IdentityInv, CallInv, CallOK, ScopeInv, ScopeOK, OwnerInv, PagesInv
<1> QED BY <1>7, <1>9 DEF MesInv

Same(b) == call'[b] = call[b] /\ walk'[b] = walk[b] /\ exch'[b] = exch[b] /\ ctx'[b] = ctx[b]

\* A step of one task: the others keep their calls, walks and bundles, and no entry of
\* the gateway that they rely on goes away.
LEMMA TaskStep ==
  ASSUME MesInv, MesTypes', IdentityInv', EntriesKept, UNCHANGED <<source, paged, run>>,
         load'.fetches = load.fetches, NEW a \in Actors, \A b \in Actors \ {a} : Same(b), WalkGood(walk'[a]),
         a \in Fetches => (CallOK(a)' /\ ScopeOK(a)'),
         a = Snapshot => (CallOK(a)' /\ OwnerInv'),
         a # Snapshot => owner' = owner
  PROVE  MesInv'
<1>1. Fetches \subseteq Actors /\ Snapshot \in Actors /\ Snapshot \notin Fetches
  BY ActorsAssumption
<1>2. IdentityInv /\ CallInv /\ ScopeInv /\ OwnerInv /\ PagesInv
  BY DEF MesInv
<1>3. CallInv'
  <2> SUFFICES ASSUME NEW b \in Fetches \cup {Snapshot} PROVE CallOK(b)'
    BY DEF CallInv
  <2>1. CASE b = a
    BY <2>1
  <2>2. CASE b # a
    <3>1. Same(b) /\ CallOK(b)
      BY <1>1, <1>2, <2>2 DEF CallInv
    <3> QED BY <3>1 DEF CallOK, Under, Same
  <2> QED BY <2>1, <2>2
<1>4. ScopeInv'
  <2> SUFFICES ASSUME NEW f \in Fetches PROVE ScopeOK(f)'
    BY DEF ScopeInv
  <2>1. CASE f = a
    BY <2>1
  <2>2. CASE f # a
    <3>1. Same(f) /\ ScopeOK(f)
      BY <1>1, <1>2, <2>2 DEF ScopeInv
    <3>2. ctx[f] \in MesCredentialBundle => ctx[f].who \in Users
      BY DEF MesCredentialBundle
    <3> QED BY <3>1, <3>2 DEF ScopeOK, Under, BoundTo, EntriesKept, Same
  <2> QED BY <2>1, <2>2
<1>5. OwnerInv'
  <2>1. CASE a = Snapshot
    BY <2>1
  <2>2. CASE a # Snapshot
    <3>1. Same(Snapshot) /\ owner' = owner
      BY <1>1, <2>2
    <3> QED BY <1>2, <3>1 DEF OwnerInv, Under, BoundTo, EntriesKept, Same
  <2> QED BY <2>1, <2>2
<1>6. PagesInv'
  <2> SUFFICES ASSUME NEW b \in Actors PROVE WalkGood(walk[b])'
    BY DEF PagesInv
  <2>1. WalkGood(walk'[b])
    BY <1>2 DEF PagesInv, Same
  <2> QED BY <2>1 DEF WalkGood, Before
<1> QED BY <1>3, <1>4, <1>5, <1>6 DEF MesInv

\* The parts of the types.
LEMMA TypeParts ==
  ASSUME MesTypes
  PROVE  /\ clock \in 0..MaxClock /\ mes \in [Credentials -> [who : Users, facts : Facts]]
         /\ issued \in 0..MaxExchanges /\ EntriesType /\ ExchType /\ CtxType /\ CallType
         /\ requests \in 0..MaxRequests /\ disabled \in BOOLEAN /\ faults \in Nat
         /\ default \in MesCredentialBundle \cup {None} /\ PagerTypes /\ PlaceTypes
  BY DEF MesTypes, GatewayTypeOK, AdapterTypeOK, EntriesType, ExchType, CtxType, CallType

\* What a step of the adapter or of the pager leaves of task a.
Stepped(a) ==
  /\ ExchType' /\ CallType' /\ PagerTypes' /\ requests' \in 0..MaxRequests
  /\ \A b \in Actors \ {a} : Same(b)
  /\ WalkGood(walk'[a]) /\ CallOK(a)'
  /\ UNCHANGED <<clock, mes, issued, byDigest, byIdentity, ctx, disabled, faults, default, source, paged>>

WalkSet(a, w) == walk' = [walk EXCEPT ![a] = w]

\* Replacing one task's walk.
LEMMA WalkSetFacts ==
  ASSUME PagerTypes, NEW a \in Actors, NEW w \in Walks, w.pc # "rows", WalkSet(a, w), UNCHANGED <<source, paged>>
  PROVE  PagerTypes' /\ walk'[a] = w /\ \A b \in Actors \ {a} : walk'[b] = walk[b]
<1>1. walk \in [Actors -> Walks]
  BY DEF PagerTypes
<1>2. \A b \in Actors : walk'[b] = IF b = a THEN w ELSE walk[b]
  BY <1>1 DEF WalkSet
<1>3. walk' \in [Actors -> Walks]
  BY <1>1 DEF WalkSet
<1> QED BY <1>2, <1>3 DEF PagerTypes

LEMMA WalkFacts ==
  ASSUME MesInv, NEW a \in Actors
  PROVE  walk[a] \in Walks /\ walk[a].pc # "rows" /\ WalkGood(walk[a]) /\ call[a] \in Calls
         /\ ctx[a] \in MesCredentialBundle \cup {None} /\ exch[a] \in Exchange \cup {None}
  BY TypeParts DEF MesInv, PagerTypes, PagesInv, CallType, CtxType, ExchType

LEMMA StartWalkKeeps ==
  ASSUME MesInv, NEW a \in Fetches \cup {Snapshot}, StartWalk(a)
  PROVE  Stepped(a)
<1> DEFINE w == [NoWalk EXCEPT !.pc = "next"]
<1>1. a \in Actors
  BY ActorsAssumption
<1>2. walk[a].pc = "idle" /\ WalkSet(a, w) /\ UNCHANGED <<gatewayVars, adapterVars, source, paged>>
  BY DEF StartWalk, WalkSet
<1>3. w \in Walks /\ w.pc = "next" /\ WalkGood(w)
  <2>1. 1 \in 1..(MaxPages + 1) /\ <<>> \in Seq(Rows)
    BY PagerNumbers
  <2> QED BY <2>1 DEF NoWalk, Walks, WalkGood
<1> HIDE DEF w
<1>4. MesTypes /\ CallOK(a)
  BY DEF MesInv, CallInv
<1>5. PagerTypes' /\ walk'[a] = w /\ \A b \in Actors \ {a} : walk'[b] = walk[b]
  BY <1>1, <1>2, <1>3, <1>4, TypeParts, WalkSetFacts
<1>6. ExchType' /\ CallType' /\ requests' \in 0..MaxRequests
  BY <1>2, <1>4, TypeParts DEF ExchType, CallType, gatewayVars, adapterVars
<1>7. CallOK(a)'
  BY <1>2, <1>4 DEF CallOK, Under, gatewayVars, adapterVars
<1> QED BY <1>2, <1>3, <1>5, <1>6, <1>7 DEF Stepped, Same, gatewayVars, adapterVars

LEMMA NextPageKeeps ==
  ASSUME MesInv, NEW a \in Fetches \cup {Snapshot}, NextPage(a)
  PROVE  Stepped(a)
<1>1. a \in Actors
  BY ActorsAssumption
<1>2. MesTypes /\ CallOK(a) /\ walk[a] \in Walks /\ WalkGood(walk[a]) /\ call[a] \in Calls
  BY <1>1, WalkFacts DEF MesInv, CallInv
<1>3. walk[a].pc = "next" /\ UNCHANGED <<source, paged>> /\ ~Under(a)
  BY <1>2 DEF NextPage, CallOK
<1>4. CASE OutOfBudget(walk[a])
  <2>1. PICK w : w = BudgetEnd(walk[a])
    OBVIOUS
  <2>2. w \in Walks /\ w.pc # "rows" /\ WalkGood(w)
    BY <1>2, <1>3, <1>4, <2>1, BudgetEndGood
  <2>3. WalkSet(a, w) /\ UNCHANGED <<gatewayVars, adapterVars>>
    BY <1>1, <1>2, <1>4, <2>1, TypeParts DEF NextPage, WalkSet, PagerTypes
  <2>4. PagerTypes' /\ walk'[a] = w /\ \A b \in Actors \ {a} : walk'[b] = walk[b]
    BY <1>1, <1>2, <1>3, <2>2, <2>3, TypeParts, WalkSetFacts
  <2>5. ExchType' /\ CallType' /\ requests' \in 0..MaxRequests
    BY <1>2, <2>3, TypeParts DEF ExchType, CallType, gatewayVars, adapterVars
  <2>6. CallOK(a)'
    BY <1>2, <1>3, <2>3 DEF CallOK, Under, gatewayVars, adapterVars
  <2> QED BY <1>3, <2>2, <2>3, <2>4, <2>5, <2>6 DEF Stepped, Same, gatewayVars, adapterVars
<1>5. CASE ~OutOfBudget(walk[a])
  <2>1. PICK w : w = [walk[a] EXCEPT !.pc = "asking"]
    OBVIOUS
  <2>2. /\ WalkSet(a, w) /\ call' = [call EXCEPT ![a] = [NoCall EXCEPT !.pc = "tenant"]]
        /\ UNCHANGED <<gatewayVars, requests, disabled, faults, default>>
    BY <1>1, <1>2, <1>5, <2>1, TypeParts DEF NextPage, Execute, WalkSet, PagerTypes
  <2>3. w \in Walks /\ w.pc = "asking" /\ w.page = walk[a].page /\ w.size = walk[a].size
        /\ w.items = walk[a].items /\ w.expected = walk[a].expected /\ w.first = walk[a].first
        /\ w.shrank = walk[a].shrank /\ w.complete = walk[a].complete /\ w.resized = walk[a].resized
    BY <1>2, <2>1 DEF Walks
  <2>4. w.page <= MaxPages
    BY <1>2, <1>5, <2>3, PagerNumbers DEF OutOfBudget, Walks
  <2>5. WalkGood(w)
    BY <1>2, <1>3, <2>3, <2>4 DEF WalkGood, Before
  <2>6. PagerTypes' /\ walk'[a] = w /\ \A b \in Actors \ {a} : walk'[b] = walk[b]
    BY <1>1, <1>2, <1>3, <2>2, <2>3, TypeParts, WalkSetFacts
  <2>7. [NoCall EXCEPT !.pc = "tenant"] \in Calls /\ [NoCall EXCEPT !.pc = "tenant"].pc = "tenant"
    BY AdapterAssumption DEF NoCall, Calls
  <2>8. CallType' /\ call'[a].pc = "tenant" /\ \A b \in Actors \ {a} : call'[b] = call[b]
    BY <1>1, <1>2, <2>2, <2>7, TypeParts DEF CallType
  <2>9. ExchType' /\ requests' \in 0..MaxRequests
    BY <1>2, <2>2, TypeParts DEF ExchType, gatewayVars
  <2>10. CallOK(a)'
    BY <2>3, <2>6, <2>8 DEF CallOK
  <2> QED BY <1>3, <2>2, <2>5, <2>6, <2>8, <2>9, <2>10 DEF Stepped, Same, gatewayVars
<1> QED BY <1>4, <1>5

LEMMA PageAnsweredKeeps ==
  ASSUME MesInv, NEW a \in Fetches \cup {Snapshot}, PageAnswered(a)
  PROVE  Stepped(a)
<1>1. a \in Actors
  BY ActorsAssumption
<1>2. MesTypes /\ walk[a] \in Walks /\ WalkGood(walk[a]) /\ source \in Seq(Rows) /\ paged \in BOOLEAN
  BY <1>1, WalkFacts, TypeParts DEF MesInv, PagerTypes
<1>3. /\ walk[a].pc = "asking" /\ call' = [call EXCEPT ![a] = NoCall]
      /\ UNCHANGED <<gatewayVars, requests, disabled, faults, default, source, paged>>
  BY DEF PageAnswered
<1>4. PICK w : w = IF walk[a].expected = None THEN [walk[a] EXCEPT !.first = source] ELSE walk[a]
  OBVIOUS
<1>5. PICK x : x = Answer(w, PageOf(w), Len(source))
  OBVIOUS
<1>6. WalkSet(a, x)
  BY <1>4, <1>5 DEF PageAnswered, WalkSet
<1>7. x \in Walks /\ x.pc # "rows" /\ WalkGood(x)
  <2>1. CASE walk[a].expected = None
    <3>1. /\ w \in Walks /\ w.pc = "asking" /\ w.expected = None /\ w.first = source /\ w.items = walk[a].items
          /\ w.page = walk[a].page /\ w.size = walk[a].size /\ w.complete = walk[a].complete
          /\ w.resized = walk[a].resized
      BY <1>2, <1>3, <1>4, <2>1 DEF Walks
    <3>2. WalkGood(w)
      BY <1>2, <1>3, <2>1, <3>1 DEF WalkGood
    <3> QED BY <1>2, <1>5, <3>1, <3>2, FirstAnswerGood
  <2>2. CASE walk[a].expected # None
    BY <1>2, <1>3, <1>4, <1>5, <2>2, LaterAnswerGood
  <2> QED BY <2>1, <2>2
<1>8. PagerTypes' /\ walk'[a] = x /\ \A b \in Actors \ {a} : walk'[b] = walk[b]
  BY <1>1, <1>2, <1>3, <1>6, <1>7, TypeParts, WalkSetFacts
<1>9. NoCall \in Calls /\ NoCall.pc = "idle"
  BY AdapterAssumption DEF NoCall, Calls
<1>10. CallType' /\ call'[a].pc = "idle" /\ \A b \in Actors \ {a} : call'[b] = call[b]
  BY <1>1, <1>2, <1>3, <1>9, TypeParts DEF CallType
<1>11. ExchType' /\ requests' \in 0..MaxRequests
  BY <1>2, <1>3, TypeParts DEF ExchType, gatewayVars
<1>12. CallOK(a)'
  BY <1>10 DEF CallOK, Under
<1> QED BY <1>3, <1>7, <1>8, <1>10, <1>11, <1>12 DEF Stepped, Same, gatewayVars

LEMMA CallFailedKeeps ==
  ASSUME MesInv, NEW a \in Fetches \cup {Snapshot}, CallFailed(a)
  PROVE  Stepped(a)
<1>1. a \in Actors
  BY ActorsAssumption
<1>2. MesTypes /\ walk[a] \in Walks /\ WalkGood(walk[a])
  BY <1>1, WalkFacts DEF MesInv
<1>3. walk[a].pc = "asking" /\ call[a].pc = "failed" /\ UNCHANGED <<gatewayVars, adapterVars, source, paged>>
  BY DEF CallFailed
<1>4. PICK w : w = [walk[a] EXCEPT !.pc = "failed"]
  OBVIOUS
<1>5. WalkSet(a, w)
  BY <1>1, <1>2, <1>4, TypeParts DEF CallFailed, WalkSet, PagerTypes
<1>6. w \in Walks /\ w.pc = "failed" /\ w.page = walk[a].page /\ w.size = walk[a].size
      /\ w.items = walk[a].items /\ w.expected = walk[a].expected /\ w.first = walk[a].first
      /\ w.shrank = walk[a].shrank /\ w.complete = walk[a].complete /\ w.resized = walk[a].resized
  BY <1>2, <1>4 DEF Walks
<1>7. WalkGood(w)
  BY <1>2, <1>6 DEF WalkGood
<1>8. PagerTypes' /\ walk'[a] = w /\ \A b \in Actors \ {a} : walk'[b] = walk[b]
  BY <1>1, <1>2, <1>3, <1>5, <1>6, TypeParts, WalkSetFacts
<1>9. ExchType' /\ CallType' /\ requests' \in 0..MaxRequests
  BY <1>2, <1>3, TypeParts DEF ExchType, CallType, gatewayVars, adapterVars
<1>10. CallOK(a)'
  BY <1>3 DEF CallOK, Under, adapterVars
<1> QED BY <1>3, <1>7, <1>8, <1>9, <1>10 DEF Stepped, Same, gatewayVars, adapterVars


\* A task that calls works under a bundle whose user has an entry.
Working(a) == ctx[a] \in MesCredentialBundle /\ byIdentity[ctx[a].who] # None

LEMMA TenantCheckedKeeps ==
  ASSUME MesInv, NEW a \in Fetches \cup {Snapshot}, Working(a), TenantChecked(a), UNCHANGED pagerVars
  PROVE  Stepped(a)
<1>1. a \in Actors
  BY ActorsAssumption
<1>2. MesTypes /\ CallOK(a) /\ walk[a] \in Walks /\ WalkGood(walk[a]) /\ call[a] \in Calls /\ IdentityInv
  BY <1>1, WalkFacts DEF MesInv, CallInv
<1>3. /\ call[a].pc = "tenant" /\ walk[a].pc = "asking"
      /\ UNCHANGED <<clock, mes, issued, byDigest, byIdentity, ctx, disabled, faults, default>>
      /\ UNCHANGED <<source, paged, walk>>
  BY <1>2 DEF TenantChecked, CallOK, Under, pagerVars
<1>4. PagerTypes' /\ ExchType /\ CallType /\ requests \in 0..MaxRequests
  BY <1>2, <1>3, TypeParts DEF PagerTypes
<1>5. "tenant_disabled" \in MesError /\ "budget" \in MesError /\ MaxRetries \in 0..(MaxRetries + 1)
  BY AdapterAssumption DEF MesError
<1>6. /\ ExchType' /\ CallType' /\ requests' \in 0..MaxRequests
      /\ \A b \in Actors \ {a} : call'[b] = call[b] /\ exch'[b] = exch[b]
      /\ call'[a].pc = "refresh" => (exch'[a].entry \in LiveEntry /\ exch'[a].entry.bundle.who = ctx[a].who)
  <2>1. CASE Fail(a, "tenant_disabled") /\ UNCHANGED <<exch, requests>>
    BY <1>1, <1>4, <1>5, <2>1, FailFacts DEF ExchType
  <2>2. CASE SendOrStop(a, MaxRetries) /\ UNCHANGED exch
    BY <1>1, <1>4, <1>5, <2>2, SendFacts DEF ExchType
  <2>3. CASE Fail(a, "budget") /\ UNCHANGED <<exch, requests>>
    BY <1>1, <1>4, <1>5, <2>3, FailFacts DEF ExchType
  <2>4. ASSUME NEW entry, entry = byIdentity[ctx[a].who], InBudget(a), Ask(a, entry.cred, entry),
               call' = [call EXCEPT ![a].pc = "refresh"], Consume(a)
        PROVE  /\ ExchType' /\ CallType' /\ requests' \in 0..MaxRequests
               /\ \A b \in Actors \ {a} : call'[b] = call[b] /\ exch'[b] = exch[b]
               /\ exch'[a].entry \in LiveEntry /\ exch'[a].entry.bundle.who = ctx[a].who
    <3>1. ctx[a].who \in Users /\ entry \in LiveEntry /\ entry.bundle.who = ctx[a].who
      <4>1. ctx[a].who \in Users
        BY DEF Working, MesCredentialBundle
      <4> QED BY <1>2, <2>4, <4>1, TypeParts DEF Working, EntriesType, IdentityInv
    <3>2. entry.cred \in Credentials
      BY <3>1 DEF LiveEntry
    <3>3. ExchType' /\ exch'[a].entry = entry /\ \A b \in Actors \ {a} : exch'[b] = exch[b]
      BY <1>1, <1>4, <2>4, <3>1, <3>2, AskFacts
    <3>4. requests' \in 0..MaxRequests
      BY <1>4, <2>4, AdapterAssumption DEF Consume, InBudget
    <3>5. CallType' /\ \A b \in Actors \ {a} : call'[b] = call[b]
      <4>1. PICK c : c = [call[a] EXCEPT !.pc = "refresh"]
        OBVIOUS
      <4>2. c \in Calls
        BY <1>2, <4>1 DEF Calls
      <4>3. call' = [call EXCEPT ![a] = c]
        BY <1>1, <1>4, <2>4, <4>1 DEF CallType
      <4> QED BY <1>1, <1>4, <4>2, <4>3 DEF CallType
    <3> QED BY <3>1, <3>3, <3>4, <3>5
  <2>5. PICK entry : entry = byIdentity[ctx[a].who]
    OBVIOUS
  <2>6. \/ Fail(a, "tenant_disabled") /\ UNCHANGED <<exch, requests>>
        \/ SendOrStop(a, MaxRetries) /\ UNCHANGED exch
        \/ Fail(a, "budget") /\ UNCHANGED <<exch, requests>>
        \/ InBudget(a) /\ Ask(a, entry.cred, entry) /\ call' = [call EXCEPT ![a].pc = "refresh"] /\ Consume(a)
    BY <2>5 DEF TenantChecked
  <2>7. (Fail(a, "tenant_disabled") \/ SendOrStop(a, MaxRetries) \/ Fail(a, "budget")) => call'[a].pc # "refresh"
    BY <1>1, <1>4, <1>5, FailFacts, SendFacts
  <2> QED BY <2>1, <2>2, <2>3, <2>4, <2>5, <2>6, <2>7
<1>7. CallOK(a)'
  BY <1>3, <1>6 DEF CallOK
<1> QED BY <1>2, <1>3, <1>4, <1>6, <1>7 DEF Stepped, Same

\* From a step of the pager or the adapter to the types and the entries.
LEMMA SteppedTypes ==
  ASSUME MesInv, NEW a \in Actors, Stepped(a), PlaceTypes'
  PROVE  MesTypes' /\ IdentityInv' /\ EntriesKept
<1>1. MesTypes /\ IdentityInv
  BY DEF MesInv
<1>2. UNCHANGED <<clock, mes, issued, byDigest, byIdentity, ctx, disabled, faults, default>>
  BY DEF Stepped
<1>3. GatewayTypeOK'
  BY <1>1, <1>2, TypeParts DEF GatewayTypeOK, Stepped, ExchType, CtxType, EntriesType
<1>4. AdapterTypeOK'
  BY <1>1, <1>2, TypeParts DEF AdapterTypeOK, Stepped, CallType
<1> QED BY <1>1, <1>2, <1>3, <1>4 DEF MesTypes, Stepped, IdentityInv, EntriesKept

LEMMA PlacesKept ==
  ASSUME MesInv, UNCHANGED <<run, edge, owner, load>>
  PROVE  PlaceTypes'
  BY TypeParts DEF MesInv, PlaceTypes

\* A refresh gives the task a bundle of the same user and the same facts, or none.
LEMMA RefreshedKeeps ==
  ASSUME MesInv, NEW f \in Fetches, run.pc = "bound", f \in load.fetches, Refreshed(f),
         UNCHANGED pagerVars, UNCHANGED <<run, edge, owner, load>>
  PROVE  MesInv'
<1>1. f \in Actors /\ f # Snapshot
  BY ActorsAssumption
<1>2. MesTypes /\ CallOK(f) /\ ScopeOK(f) /\ IdentityInv /\ WalkGood(walk[f])
      /\ clock \in 0..MaxClock /\ EntriesType /\ ExchType /\ CtxType /\ CallType /\ requests \in 0..MaxRequests
  BY <1>1, WalkFacts, TypeParts DEF MesInv, CallInv, ScopeInv
<1>3. /\ call[f].pc = "refresh" /\ exch[f] # None /\ RefreshKeeps(f) /\ RefreshRebinds(f) /\ EndExchange(f)
      /\ UNCHANGED <<clock, mes, issued, disabled, faults>>
  BY DEF Refreshed, Answered
<1>4. EntriesType' /\ IdentityInv' /\ EntriesKept
  BY <1>1, <1>2, <1>3, RefreshFacts
<1>5. ExchType' /\ exch'[f] = None /\ \A b \in Actors \ {f} : exch'[b] = exch[b]
  BY <1>1, <1>2, <1>3, EndFacts
<1>6. ctx[f] \in MesCredentialBundle /\ exch[f].entry.bundle.who = ctx[f].who
  BY <1>2, <1>3 DEF CallOK, ScopeOK, BoundTo
<1>7. SameScope(f) => /\ HasPrincipal(f) /\ _bundle_from_response(f) \in MesCredentialBundle
                      /\ _bundle_from_response(f).who = ctx[f].who
                      /\ _bundle_from_response(f).facts = ctx[f].facts
  BY <1>1, <1>2, <1>3, <1>6, ResponseFacts DEF SameScope, RefreshedIdentity
<1>8. /\ CtxType' /\ ctx'[f] \in MesCredentialBundle /\ ctx'[f].who = ctx[f].who
      /\ ctx'[f].facts = ctx[f].facts /\ \A b \in Actors \ {f} : ctx'[b] = ctx[b]
  <2>1. PICK b : b = IF SameScope(f) THEN _bundle_from_response(f) ELSE ctx[f]
    OBVIOUS
  <2>2. b \in MesCredentialBundle /\ b.who = ctx[f].who /\ b.facts = ctx[f].facts
    BY <1>6, <1>7, <2>1
  <2>3. ctx' = [ctx EXCEPT ![f] = b]
    BY <1>3, <2>1 DEF RefreshRebinds
  <2> QED BY <1>1, <1>2, <2>2, <2>3 DEF CtxType
<1>9. /\ CallType' /\ requests' \in 0..MaxRequests /\ call'[f].pc \in {"sending", "failed"}
      /\ \A b \in Actors \ {f} : call'[b] = call[b]
      /\ default' \in MesCredentialBundle \cup {None}
  <2>1. CASE SameScope(f)
    <3>1. SendOrStop(f, MaxRetries) /\ default' = _bundle_from_response(f) /\ MaxRetries \in 0..(MaxRetries + 1)
      BY <2>1, AdapterAssumption DEF Refreshed
    <3> QED BY <1>1, <1>2, <1>7, <2>1, <3>1, SendFacts
  <2>2. CASE ~SameScope(f)
    <3>1. PICK e : e = IF exch[f].bundle = None THEN "upstream_unavailable"
                       ELSE IF HasPrincipal(f) THEN "forbidden" ELSE "unauthenticated"
      OBVIOUS
    <3>2. e \in MesError
      <4>1. e \in {"upstream_unavailable", "forbidden", "unauthenticated"}
        BY <3>1
      <4> QED BY <4>1 DEF MesError
    <3>3. Fail(f, e) /\ UNCHANGED <<requests, default>>
      BY <2>2, <3>1 DEF Refreshed
    <3> QED BY <1>1, <1>2, <3>2, <3>3, FailFacts, TypeParts
  <2> QED BY <2>1, <2>2
<1>10. MesTypes'
  <2>1. PlaceTypes' /\ PagerTypes'
    BY <1>2, PlacesKept, TypeParts DEF pagerVars, PagerTypes
  <2>2. GatewayTypeOK'
    BY <1>2, <1>3, <1>4, <1>5, <1>8, TypeParts DEF GatewayTypeOK, EntriesType, ExchType, CtxType
  <2>3. AdapterTypeOK'
    BY <1>2, <1>3, <1>9, TypeParts DEF AdapterTypeOK, CallType
  <2> QED BY <2>1, <2>2, <2>3 DEF MesTypes
<1>11. walk' = walk /\ UNCHANGED <<source, paged>>
  BY DEF pagerVars
<1>12. CallOK(f)'
  BY <1>2, <1>3, <1>9, <1>11 DEF CallOK, Under
<1>13. ScopeOK(f)'
  <2>1. ctx[f].who \in Users
    BY <1>6 DEF MesCredentialBundle
  <2> QED BY <1>2, <1>4, <1>8, <2>1 DEF ScopeOK, BoundTo, EntriesKept
<1>14. \A b \in Actors \ {f} : Same(b)
  BY <1>5, <1>8, <1>9, <1>11 DEF Same
<1> QED BY <1>1, <1>2, <1>4, <1>10, <1>11, <1>12, <1>13, <1>14, TaskStep

LEMMA FetchKeeps ==
  ASSUME MesInv, NEW f \in Fetches, Fetch(f)
  PROVE  MesInv'
<1>1. f \in Actors /\ f # Snapshot
  BY ActorsAssumption
<1>2. run.pc = "bound" /\ f \in load.fetches /\ UNCHANGED <<run, edge, owner, load>>
  BY DEF Fetch
<1>3. ScopeOK(f) /\ Working(f)
  BY <1>2 DEF MesInv, ScopeInv, ScopeOK, BoundTo, Working
<1>4. ASSUME Stepped(f) PROVE MesInv'
  <2>1. MesTypes' /\ IdentityInv' /\ EntriesKept
    BY <1>1, <1>2, <1>4, PlacesKept, SteppedTypes
  <2>2. UNCHANGED <<ctx, byIdentity, source, paged>> /\ WalkGood(walk'[f]) /\ CallOK(f)'
        /\ \A b \in Actors \ {f} : Same(b)
    BY <1>4 DEF Stepped
  <2>3. ScopeOK(f)'
    BY <1>2, <1>3, <2>2 DEF ScopeOK, BoundTo
  <2> QED BY <1>1, <1>2, <2>1, <2>2, <2>3, TaskStep
<1>5. \/ Stepped(f)
      \/ Refreshed(f) /\ UNCHANGED pagerVars
  BY <1>3, StartWalkKeeps, NextPageKeeps, PageAnsweredKeeps, CallFailedKeeps, TenantCheckedKeeps DEF Fetch
<1> QED BY <1>2, <1>4, <1>5, RefreshedKeeps

-----------------------------------------------------------------------------
(* API requests, and the binding of the interaction.                       *)

LEMMA RequestKeeps ==
  ASSUME MesInv, NEW q \in Requests, Authenticate(q) \/ Authenticated(q)
  PROVE  MesInv'
<1>1. q \in Actors /\ q # Snapshot /\ q \notin Fetches /\ UserCredential \in Credentials
  BY ActorsAssumption
<1>2. MesTypes /\ IdentityInv /\ WalkGood(walk[q])
      /\ clock \in 0..MaxClock /\ EntriesType /\ ExchType /\ PlaceTypes /\ PagerTypes
  BY <1>1, WalkFacts, TypeParts DEF MesInv
<1>3. /\ UNCHANGED <<clock, mes, issued, ctx, adapterVars, pagerVars, run, owner, load>>
      /\ edge' \in [Requests -> {"new", "exchange", "known", "rejected"}]
  BY <1>2 DEF Authenticate, Authenticated, PlaceTypes
<1>4. /\ ExchType' /\ (\A b \in Actors \ {q} : exch'[b] = exch[b])
      /\ EntriesType' /\ IdentityInv' /\ EntriesKept
  <2>1. CASE Authenticate(q)
    <3>1. UNCHANGED <<byDigest, byIdentity>> /\ (UNCHANGED exch \/ Ask(q, UserCredential, None))
      BY <2>1 DEF Authenticate
    <3>2. ExchType' /\ (\A b \in Actors \ {q} : exch'[b] = exch[b])
      BY <1>1, <1>2, <3>1, AskFacts DEF ExchType
    <3> QED BY <1>2, <3>1, <3>2, ForgottenFacts
  <2>2. CASE Authenticated(q)
    <3>1. exch[q] # None /\ AuthenticateKeeps(q) /\ EndExchange(q)
      BY <2>2 DEF Authenticated, Answered
    <3> QED BY <1>1, <1>2, <3>1, AuthenticateFacts, EndFacts
  <2> QED BY <2>1, <2>2
<1>5. MesTypes'
  <2>1. PlaceTypes' /\ PagerTypes'
    BY <1>2, <1>3 DEF PlaceTypes, PagerTypes, pagerVars
  <2>2. GatewayTypeOK'
    BY <1>2, <1>3, <1>4, TypeParts DEF GatewayTypeOK, EntriesType, ExchType, CtxType
  <2>3. AdapterTypeOK'
    BY <1>2, <1>3 DEF MesTypes, AdapterTypeOK, adapterVars
  <2> QED BY <2>1, <2>2, <2>3 DEF MesTypes
<1>6. \A b \in Actors \ {q} : Same(b)
  BY <1>3, <1>4 DEF Same, adapterVars, pagerVars
<1>7. walk' = walk /\ UNCHANGED <<source, paged, run>> /\ load'.fetches = load.fetches /\ owner' = owner
  BY <1>3 DEF pagerVars
<1> QED BY <1>1, <1>2, <1>4, <1>5, <1>6, <1>7, TaskStep

\* Binding gives every fetch the bundle the interaction was bound to; nothing of the
\* interaction calls the MES before or after.
LEMMA BindKeeps ==
  ASSUME MesInv, Bind \/ Unbind
  PROVE  MesInv'
<1>1. Fetches \subseteq Actors /\ Snapshot \in Actors /\ Snapshot \notin Fetches /\ User \in Users
  BY ActorsAssumption
<1>2. MesTypes /\ IdentityInv /\ CallInv /\ ScopeInv /\ OwnerInv /\ PagesInv
      /\ EntriesType /\ CtxType /\ run \in RunPlaces /\ load \in LoadLeft
  BY TypeParts DEF MesInv, PlaceTypes
<1>3. UNCHANGED <<clock, mes, issued, byDigest, byIdentity, exch, adapterVars, pagerVars, edge, owner, load>>
  BY DEF Bind, Unbind
<1>4. load.fetches \subseteq Fetches
  BY <1>2 DEF LoadLeft
<1>5. ASSUME NEW f \in Fetches PROVE ~Under(f) \/ run.pc = "bound"
  BY <1>2 DEF ScopeInv, ScopeOK
<1>6. CASE Bind
  <2>1. PICK e : e = byIdentity[User]
    OBVIOUS
  <2>2. /\ run.pc = "new" /\ e # None /\ run' = [pc |-> "bound", bound |-> e.bundle]
        /\ ctx' = [a \in Actors |-> IF a \in load.fetches THEN e.bundle ELSE ctx[a]]
    BY <1>6, <2>1 DEF Bind, BindFor
  <2>3. e \in LiveEntry /\ e.bundle \in MesCredentialBundle /\ e.bundle.who = User
    <3>1. e \in LiveEntry
      BY <1>1, <1>2, <2>1, <2>2 DEF EntriesType
    <3> QED BY <1>1, <1>2, <2>1, <2>2, <3>1 DEF LiveEntry, IdentityInv
  <2>4. /\ run' \in RunPlaces /\ run'.pc = "bound" /\ run'.bound = e.bundle
    BY <2>2, <2>3 DEF RunPlaces
  <2>5. /\ CtxType'
        /\ \A a \in Actors : ctx'[a] = IF a \in load.fetches THEN e.bundle ELSE ctx[a]
    BY <1>2, <2>2, <2>3 DEF CtxType
  <2>6. \A f \in Fetches : ~Under(f)
    BY <1>5, <2>2
  <2>7. ASSUME NEW a \in Fetches \cup {Snapshot} PROVE CallOK(a)'
    <3>1. CASE a \in Fetches
      <4>1. ~Under(a)
        BY <2>6, <3>1
      <4> QED BY <1>3, <4>1 DEF CallOK, Under, adapterVars
    <3>2. CASE a = Snapshot
      <4>1. ctx'[a] = ctx[a] /\ CallOK(a)
        BY <1>1, <1>2, <1>4, <2>5, <3>2 DEF CallInv
      <4> QED BY <1>3, <4>1 DEF CallOK, Under, adapterVars, pagerVars
    <3> QED BY <3>1, <3>2
  <2>8. ASSUME NEW f \in Fetches PROVE ScopeOK(f)'
    <3>1. ~Under(f)' /\ load' = load
      BY <1>3, <2>6 DEF Under, adapterVars
    <3>2. f \in load.fetches => ctx'[f] = e.bundle
      BY <1>1, <2>5
    <3>3. byIdentity'[User] # None
      BY <1>3, <2>1, <2>2
    <3> QED BY <2>3, <2>4, <3>1, <3>2, <3>3 DEF ScopeOK, BoundTo
  <2>9. OwnerInv'
    <3>1. ctx'[Snapshot] = ctx[Snapshot]
      BY <1>1, <1>4, <2>5
    <3> QED BY <1>2, <1>3, <3>1 DEF OwnerInv, Under, BoundTo, adapterVars
  <2>10. PagesInv' /\ IdentityInv'
    BY <1>2, <1>3 DEF PagesInv, WalkGood, Before, IdentityInv, pagerVars
  <2>11. MesTypes'
    <3>1. PlaceTypes' /\ PagerTypes'
      BY <1>2, <1>3, <2>4, TypeParts DEF PlaceTypes, PagerTypes, pagerVars
    <3>2. GatewayTypeOK'
      BY <1>2, <1>3, <2>5 DEF MesTypes, GatewayTypeOK, CtxType
    <3>3. AdapterTypeOK'
      BY <1>2, <1>3 DEF MesTypes, AdapterTypeOK, adapterVars
    <3> QED BY <3>1, <3>2, <3>3 DEF MesTypes
  <2> QED BY <2>7, <2>8, <2>9, <2>10, <2>11 DEF MesInv, CallInv, ScopeInv
<1>7. CASE Unbind
  <2>1. /\ run.pc = "bound" /\ \A f \in load.fetches : walk[f].pc \in {"done", "failed"}
        /\ run' = [run EXCEPT !.pc = "over"]
        /\ ctx' = [a \in Actors |-> IF a \in load.fetches THEN None ELSE ctx[a]]
    BY <1>7 DEF Unbind
  <2>2. run' \in RunPlaces /\ run'.pc = "over"
    BY <1>2, <2>1 DEF RunPlaces
  <2>3. CtxType' /\ \A a \in Actors : ctx'[a] = IF a \in load.fetches THEN None ELSE ctx[a]
    BY <1>2, <2>1 DEF CtxType
  <2>4. \A f \in Fetches : ~Under(f)
    <3> SUFFICES ASSUME NEW f \in Fetches, Under(f) PROVE FALSE
      OBVIOUS
    <3>1. walk[f].pc = "asking" /\ f \in load.fetches
      BY <1>2 DEF CallInv, CallOK, ScopeInv, ScopeOK
    <3> QED BY <2>1, <3>1
  <2>5. ASSUME NEW a \in Fetches \cup {Snapshot} PROVE CallOK(a)'
    <3>1. CASE a \in Fetches
      <4>1. ~Under(a)
        BY <2>4, <3>1
      <4> QED BY <1>3, <4>1 DEF CallOK, Under, adapterVars
    <3>2. CASE a = Snapshot
      <4>1. ctx'[a] = ctx[a] /\ CallOK(a)
        BY <1>1, <1>2, <1>4, <2>3, <3>2 DEF CallInv
      <4> QED BY <1>3, <4>1 DEF CallOK, Under, adapterVars, pagerVars
    <3> QED BY <3>1, <3>2
  <2>6. ASSUME NEW f \in Fetches PROVE ScopeOK(f)'
    <3>1. ~Under(f)'
      BY <1>3, <2>4 DEF Under, adapterVars
    <3> QED BY <2>2, <3>1 DEF ScopeOK
  <2>7. OwnerInv'
    <3>1. ctx'[Snapshot] = ctx[Snapshot]
      BY <1>1, <1>4, <2>3
    <3> QED BY <1>2, <1>3, <3>1 DEF OwnerInv, Under, BoundTo, adapterVars
  <2>8. PagesInv' /\ IdentityInv'
    BY <1>2, <1>3 DEF PagesInv, WalkGood, Before, IdentityInv, pagerVars
  <2>9. MesTypes'
    <3>1. PlaceTypes' /\ PagerTypes'
      BY <1>2, <1>3, <2>2, TypeParts DEF PlaceTypes, PagerTypes, pagerVars
    <3>2. GatewayTypeOK'
      BY <1>2, <1>3, <2>3 DEF MesTypes, GatewayTypeOK, CtxType
    <3>3. AdapterTypeOK'
      BY <1>2, <1>3 DEF MesTypes, AdapterTypeOK, adapterVars
    <3> QED BY <3>1, <3>2, <3>3 DEF MesTypes
  <2> QED BY <2>5, <2>6, <2>7, <2>8, <2>9 DEF MesInv, CallInv, ScopeInv
<1> QED BY <1>6, <1>7

-----------------------------------------------------------------------------
(* The MES and time.                                                       *)

LEMMA MesKeeps ==
  ASSUME MesInv, NEW a \in Actors, Mes(a)
  PROVE  MesInv'
<1>1. MesTypes /\ IdentityInv /\ WalkGood(walk[a]) /\ call[a] \in Calls /\ exch[a] \in Exchange \cup {None}
      /\ ExchType /\ CallType /\ requests \in 0..MaxRequests /\ faults \in Nat
  BY WalkFacts, TypeParts DEF MesInv
<1>2. /\ UNCHANGED <<pagerVars, run, edge, owner, load>>
      /\ UNCHANGED <<clock, mes, byDigest, byIdentity, ctx, disabled, default>>
  BY DEF Mes, Issue, Refuse, Retry, Rejected, Expired, gatewayVars, adapterVars
<1>3. /\ ExchType' /\ CallType' /\ requests' \in 0..MaxRequests /\ faults' \in Nat /\ issued' \in 0..MaxExchanges
      /\ \A b \in Actors \ {a} : call'[b] = call[b] /\ exch'[b] = exch[b]
      /\ \/ call' = call /\ exch[a] # None /\ exch'[a] # None /\ exch'[a].entry = exch[a].entry
         \/ exch' = exch /\ call[a].pc = "sending" /\ call'[a].pc \in {"sending", "failed"}
  <2>1. CASE Issue(a) /\ UNCHANGED adapterVars
    <3>1. /\ exch[a] # None /\ issued < MaxExchanges /\ issued' = issued + 1 /\ UNCHANGED adapterVars
      BY <2>1 DEF Issue
    <3>2. exch[a] \in Exchange /\ exch[a].cred \in Credentials
      BY <1>1, <3>1 DEF Exchange
    <3>3. PICK b : b = [serial |-> issued + 1, who |-> mes[exch[a].cred].who, facts |-> mes[exch[a].cred].facts,
                        expires |-> clock + Life]
      OBVIOUS
    <3>4. b \in MesCredentialBundle
      <4>1. clock \in 0..MaxClock /\ mes \in [Credentials -> [who : Users, facts : Facts]]
            /\ issued \in 0..MaxExchanges
        BY <1>1, TypeParts
      <4>2. issued + 1 \in 1..MaxExchanges /\ clock + Life \in 0..(MaxClock + Life)
        BY <3>1, <4>1, GatewayAssumption
      <4>3. mes[exch[a].cred].who \in Users /\ mes[exch[a].cred].facts \in Facts
        BY <3>2, <4>1
      <4> QED BY <3>3, <4>2, <4>3 DEF MesCredentialBundle
    <3>5. PICK x : x = [exch[a] EXCEPT !.stage = "answered", !.bundle = b]
      OBVIOUS
    <3>6. x \in Exchange /\ x.entry = exch[a].entry
      BY <3>2, <3>4, <3>5 DEF Exchange
    <3>7. exch' = [exch EXCEPT ![a] = x]
      BY <1>1, <2>1, <3>3, <3>5 DEF Issue, ExchType
    <3>8. issued' \in 0..MaxExchanges
      BY <1>1, <3>1, TypeParts, GatewayAssumption
    <3>9. ExchType' /\ exch'[a] = x /\ \A y \in Actors \ {a} : exch'[y] = exch[y]
      BY <1>1, <3>6, <3>7 DEF ExchType
    <3>10. exch'[a] # None
      BY <3>6, <3>9, Absence
    <3> QED BY <1>1, <3>1, <3>6, <3>8, <3>9, <3>10 DEF adapterVars, CallType
  <2>2. CASE Refuse(a) /\ UNCHANGED adapterVars
    <3>1. exch[a] # None /\ issued' = issued /\ UNCHANGED adapterVars
      BY <2>2 DEF Refuse
    <3>2. exch[a] \in Exchange
      BY <1>1, <3>1
    <3>3. PICK x : x = [exch[a] EXCEPT !.stage = "answered"]
      OBVIOUS
    <3>4. x \in Exchange /\ x.entry = exch[a].entry
      BY <3>2, <3>3 DEF Exchange
    <3>5. exch' = [exch EXCEPT ![a] = x]
      BY <1>1, <2>2, <3>3 DEF Refuse, ExchType
    <3>6. ExchType' /\ exch'[a] = x /\ \A y \in Actors \ {a} : exch'[y] = exch[y]
      BY <1>1, <3>4, <3>5 DEF ExchType
    <3>7. exch'[a] # None
      BY <3>4, <3>6, Absence
    <3> QED BY <1>1, <3>1, <3>4, <3>6, <3>7, TypeParts DEF adapterVars, CallType
  <2>3. ASSUME NEW e \in {"upstream_timeout", "upstream_unavailable", "rate_limited", "upstream_invalid",
                          "invalid_request", "unauthenticated"},
               call[a].pc = "sending", Fail(a, e), exch' = exch, requests' = requests, issued' = issued,
               faults' \in Nat
        PROVE  /\ ExchType' /\ CallType' /\ requests' \in 0..MaxRequests /\ faults' \in Nat /\ issued' \in 0..MaxExchanges
               /\ \A b \in Actors \ {a} : call'[b] = call[b] /\ exch'[b] = exch[b]
               /\ exch' = exch /\ call[a].pc = "sending" /\ call'[a].pc \in {"sending", "failed"}
    <3>1. e \in MesError
      BY DEF MesError
    <3> QED BY <1>1, <2>3, <3>1, FailFacts, TypeParts DEF ExchType
  <2>4. ASSUME NEW e \in {"upstream_timeout", "upstream_unavailable", "rate_limited"}, Retry(a, e)
        PROVE  /\ ExchType' /\ CallType' /\ requests' \in 0..MaxRequests /\ faults' \in Nat /\ issued' \in 0..MaxExchanges
               /\ \A b \in Actors \ {a} : call'[b] = call[b] /\ exch'[b] = exch[b]
               /\ exch' = exch /\ call[a].pc = "sending" /\ call'[a].pc \in {"sending", "failed"}
    <3>1. call[a].pc = "sending" /\ faults' \in Nat /\ exch' = exch /\ issued' = issued
      BY <1>1, <2>4 DEF Retry, gatewayVars
    <3>2. CASE call[a].left > 0
      <4>1. call[a].left - 1 \in 0..(MaxRetries + 1) /\ SendOrStop(a, call[a].left - 1)
        BY <1>1, <2>4, <3>2, AdapterAssumption DEF Retry, Calls
      <4> QED BY <1>1, <3>1, <4>1, SendFacts, TypeParts DEF ExchType
    <3>3. CASE ~(call[a].left > 0)
      <4>1. Fail(a, e) /\ requests' = requests
        BY <2>4, <3>3 DEF Retry
      <4> QED BY <2>3, <3>1, <4>1
    <3> QED BY <3>2, <3>3
  <2>5. ASSUME NEW e \in {"upstream_invalid", "invalid_request", "upstream_unavailable"}, Rejected(a, e)
        PROVE  /\ ExchType' /\ CallType' /\ requests' \in 0..MaxRequests /\ faults' \in Nat /\ issued' \in 0..MaxExchanges
               /\ \A b \in Actors \ {a} : call'[b] = call[b] /\ exch'[b] = exch[b]
               /\ exch' = exch /\ call[a].pc = "sending" /\ call'[a].pc \in {"sending", "failed"}
    <3>1. call[a].pc = "sending" /\ faults' \in Nat /\ exch' = exch /\ issued' = issued /\ Fail(a, e) /\ requests' = requests
      BY <1>1, <2>5 DEF Rejected, gatewayVars
    <3> QED BY <2>3, <3>1
  <2>6. CASE Expired(a)
    <3>1. call[a].pc = "sending" /\ faults' \in Nat /\ exch' = exch /\ issued' = issued
          /\ Fail(a, "unauthenticated") /\ requests' = requests
      BY <1>1, <2>6 DEF Expired, gatewayVars
    <3> QED BY <2>3, <3>1
  <2> QED BY <2>1, <2>2, <2>4, <2>5, <2>6 DEF Mes
<1>4. MesTypes' /\ IdentityInv' /\ EntriesKept
  <2>1. PlaceTypes' /\ PagerTypes'
    BY <1>1, <1>2, TypeParts DEF PlaceTypes, PagerTypes, pagerVars
  <2>2. GatewayTypeOK'
    BY <1>1, <1>2, <1>3 DEF MesTypes, GatewayTypeOK, ExchType
  <2>3. AdapterTypeOK'
    BY <1>1, <1>2, <1>3 DEF MesTypes, AdapterTypeOK, CallType
  <2> QED BY <1>1, <1>2, <2>1, <2>2, <2>3 DEF MesTypes, IdentityInv, EntriesKept
<1>5. walk' = walk /\ UNCHANGED <<source, paged, run>> /\ load' = load /\ owner' = owner /\ ctx' = ctx
      /\ byIdentity' = byIdentity
  BY <1>2 DEF pagerVars
<1>6. \A b \in Actors \ {a} : Same(b)
  BY <1>3, <1>5 DEF Same
<1>7. a \in Fetches \cup {Snapshot} => CallOK(a)'
  <2> SUFFICES ASSUME a \in Fetches \cup {Snapshot} PROVE CallOK(a)'
    OBVIOUS
  <2>1. CallOK(a)
    BY DEF MesInv, CallInv
  <2> QED BY <1>3, <1>5, <2>1 DEF CallOK, Under
<1>8. a \in Fetches => ScopeOK(a)'
  <2> SUFFICES ASSUME a \in Fetches PROVE ScopeOK(a)'
    OBVIOUS
  <2>1. ScopeOK(a)
    BY DEF MesInv, ScopeInv
  <2> QED BY <1>3, <1>5, <2>1 DEF ScopeOK, Under, BoundTo
<1>9. a = Snapshot => OwnerInv'
  <2> SUFFICES ASSUME a = Snapshot PROVE OwnerInv'
    OBVIOUS
  <2>1. OwnerInv
    BY DEF MesInv
  <2> QED BY <1>3, <1>5, <2>1 DEF OwnerInv, Under, BoundTo
<1> QED BY <1>1, <1>4, <1>5, <1>6, <1>7, <1>8, <1>9, TaskStep


\* A step that touches no task: time, administration, the suspension of the tenant.
LEMMA AsideKeeps ==
  ASSUME MesInv, UNCHANGED <<issued, byDigest, byIdentity, exch, ctx, call, requests, default, pagerVars, run, edge, owner>>,
         clock' \in 0..MaxClock, mes' \in [Credentials -> [who : Users, facts : Facts]],
         disabled' \in BOOLEAN, faults' \in Nat, load' \in LoadLeft, load'.fetches = load.fetches
  PROVE  MesInv'
<1>1. MesTypes /\ IdentityInv /\ CallInv /\ ScopeInv /\ OwnerInv /\ PagesInv
  BY DEF MesInv
<1>2. MesTypes'
  <2>1. PlaceTypes' /\ PagerTypes'
    BY <1>1, TypeParts DEF PlaceTypes, PagerTypes, pagerVars
  <2>2. GatewayTypeOK'
    BY <1>1 DEF MesTypes, GatewayTypeOK
  <2>3. AdapterTypeOK'
    BY <1>1 DEF MesTypes, AdapterTypeOK
  <2> QED BY <2>1, <2>2, <2>3 DEF MesTypes
<1>3. IdentityInv' /\ CallInv'
  BY <1>1 DEF IdentityInv, CallInv, CallOK, Under, pagerVars
<1>4. ScopeInv' /\ OwnerInv'
  BY <1>1 DEF ScopeInv, ScopeOK, OwnerInv, Under, BoundTo
<1>5. PagesInv'
  BY <1>1 DEF PagesInv, WalkGood, Before, pagerVars
<1> QED BY <1>2, <1>3, <1>4, <1>5 DEF MesInv

\* What a scenario spends.
LEMMA SpendFacts ==
  ASSUME load \in LoadLeft, NEW field \in {"ticks", "changes", "entered", "withdrawn", "snapshots"}, Spend(field)
  PROVE  load' \in LoadLeft /\ load'.fetches = load.fetches
<1>1. CASE field = "ticks"
  BY <1>1 DEF Spend, LoadLeft
<1>2. CASE field = "changes"
  BY <1>2 DEF Spend, LoadLeft
<1>3. CASE field = "entered"
  BY <1>3 DEF Spend, LoadLeft
<1>4. CASE field = "withdrawn"
  BY <1>4 DEF Spend, LoadLeft
<1>5. CASE field = "snapshots"
  BY <1>5 DEF Spend, LoadLeft
<1> QED BY <1>1, <1>2, <1>3, <1>4, <1>5

LEMMA WorldKeeps ==
  ASSUME MesInv, Administer \/ Suspend \/ Tick \/ Rest \/ UNCHANGED vars
  PROVE  MesInv'
<1>1. /\ clock \in 0..MaxClock /\ mes \in [Credentials -> [who : Users, facts : Facts]] /\ load \in LoadLeft
      /\ disabled \in BOOLEAN /\ faults \in Nat
  BY TypeParts DEF MesInv, PlaceTypes
<1>2. CASE Administer
  <2>1. PICK c \in Credentials, who \in Users, facts \in Facts :
           Reassign(c, [who |-> who, facts |-> facts]) /\ Spend("changes")
    <3>1. ASSUME NEW c \in Credentials, NEW identity \in [who : {mes[c].who}, facts : Facts]
          PROVE  mes[c].who \in Users /\ identity = [who |-> identity.who, facts |-> identity.facts]
                 /\ identity.who \in Users /\ identity.facts \in Facts
      BY <1>1
    <3>2. OwnerCredential \in Credentials /\ mes[OwnerCredential].facts \in Facts
      BY <1>1, ActorsAssumption
    <3>3. CASE \E c \in Credentials : \E identity \in [who : {mes[c].who}, facts : Facts] :
                  Reassign(c, identity) /\ Spend("changes")
      <4>1. PICK c \in Credentials : \E identity \in [who : {mes[c].who}, facts : Facts] :
                  Reassign(c, identity) /\ Spend("changes")
        BY <3>3
      <4>2. PICK identity \in [who : {mes[c].who}, facts : Facts] : Reassign(c, identity) /\ Spend("changes")
        BY <4>1
      <4>3. Reassign(c, [who |-> identity.who, facts |-> identity.facts])
        BY <3>1, <4>2
      <4> QED BY <3>1, <4>2, <4>3
    <3>4. CASE \E u \in Users : /\ Reassign(OwnerCredential, [who |-> u, facts |-> mes[OwnerCredential].facts])
                                /\ Spend("changes")
      BY <3>2, <3>4
    <3> QED BY <1>2, <3>3, <3>4 DEF Administer
  <2>2. mes' \in [Credentials -> [who : Users, facts : Facts]]
    BY <1>1, <2>1 DEF Reassign
  <2>3. load' \in LoadLeft /\ load'.fetches = load.fetches
    BY <1>1, <2>1, SpendFacts
  <2> QED BY <1>1, <1>2, <2>1, <2>2, <2>3, AsideKeeps DEF Administer, Reassign, adapterVars
<1>3. CASE Suspend
  BY <1>1, <1>3, AsideKeeps DEF Suspend, Disable, gatewayVars
<1>4. CASE Tick
  <2>1. load' \in LoadLeft /\ load'.fetches = load.fetches
    BY <1>1, <1>4, SpendFacts DEF Tick
  <2>2. clock' \in 0..MaxClock
    BY <1>1, <1>4, GatewayAssumption DEF Tick
  <2> QED BY <1>1, <1>4, <2>1, <2>2, AsideKeeps DEF Tick, adapterVars
<1>5. CASE Rest \/ UNCHANGED vars
  BY <1>1, <1>5, AsideKeeps DEF Rest, vars, gatewayVars, adapterVars
<1> QED BY <1>2, <1>3, <1>4, <1>5

\* The source grows by whole rows, or shrinks, which every walk that counts on its
\* total takes note of.
LEMMA EnterFacts ==
  ASSUME NEW q \in Seq(Rows), NEW r \in Rows, NEW i \in 1..(Len(q) + 1)
  PROVE  InsertAt(q, i, r) \in Seq(Rows) /\ Len(InsertAt(q, i, r)) = Len(q) + 1
<1>1. Len(q) \in Nat
  BY LenProperties
<1>2. (\A k \in 1..(i - 1) : q[k] \in Rows) /\ (\A k \in i..Len(q) : q[k] \in Rows)
  BY <1>1, ElementOfSeq
<1>3. PICK s1, s2, s3 : s1 = SubSeq(q, 1, i - 1) /\ s2 = <<r>> /\ s3 = SubSeq(q, i, Len(q))
  OBVIOUS
<1>4. s1 \in Seq(Rows) /\ Len(s1) = i - 1
  BY <1>1, <1>2, <1>3, SubSeqProperties
<1>5. s3 \in Seq(Rows) /\ Len(s3) = Len(q) - i + 1
  BY <1>1, <1>2, <1>3, SubSeqProperties
<1>6. s2 \in Seq(Rows) /\ Len(s2) = 1
  BY <1>3
<1>7. PICK t : t = s1 \o s2
  OBVIOUS
<1>8. t \in Seq(Rows) /\ Len(t) = Len(s1) + Len(s2)
  BY <1>4, <1>6, <1>7, ConcatProperties
<1>9. PICK v : v = t \o s3
  OBVIOUS
<1>10. v \in Seq(Rows) /\ Len(v) = Len(t) + Len(s3)
  BY <1>5, <1>8, <1>9, ConcatProperties
<1>11. Len(v) = Len(q) + 1
  BY <1>1, <1>4, <1>5, <1>6, <1>8, <1>10
<1>12. InsertAt(q, i, r) = v
  BY <1>3, <1>7, <1>9 DEF InsertAt
<1> QED BY <1>10, <1>11, <1>12

LEMMA WithdrawFacts ==
  ASSUME NEW q \in Seq(Rows), NEW i \in 1..Len(q)
  PROVE  RemoveAt(q, i) \in Seq(Rows)
<1>1. Len(q) \in Nat
  BY LenProperties
<1>2. (\A k \in 1..(i - 1) : q[k] \in Rows) /\ (\A k \in (i + 1)..Len(q) : q[k] \in Rows)
  BY <1>1, ElementOfSeq
<1>3. PICK s1, s2 : s1 = SubSeq(q, 1, i - 1) /\ s2 = SubSeq(q, i + 1, Len(q))
  OBVIOUS
<1>4. s1 \in Seq(Rows) /\ s2 \in Seq(Rows)
  BY <1>1, <1>2, <1>3, SubSeqProperties
<1> QED BY <1>3, <1>4, ConcatProperties DEF RemoveAt

LEMMA ProduceKeeps ==
  ASSUME MesInv, Produce
  PROVE  MesInv'
<1>1. MesTypes /\ IdentityInv /\ CallInv /\ ScopeInv /\ OwnerInv /\ PagesInv
      /\ source \in Seq(Rows) /\ walk \in [Actors -> Walks] /\ load \in LoadLeft /\ Len(source) \in Nat
  BY TypeParts, LenProperties DEF MesInv, PagerTypes, PlaceTypes
<1>2. /\ UNCHANGED <<gatewayVars, adapterVars, paged, run, edge, owner>>
      /\ load' \in LoadLeft /\ load'.fetches = load.fetches
  <2>1. Spend("entered") \/ Spend("withdrawn")
    BY DEF Produce
  <2> QED BY <1>1, <2>1, SpendFacts DEF Produce, Enter, Withdraw
<1>3. /\ source' \in Seq(Rows) /\ walk' \in [Actors -> Walks]
      /\ \A a \in Actors : walk'[a].pc = walk[a].pc /\ WalkGood(walk[a])'
  <2>1. CASE \E r \in Rows, i \in 1..(Len(source) + 1) : Enter(r, i)
    <3>1. PICK r \in Rows, i \in 1..(Len(source) + 1) : Enter(r, i)
      BY <2>1
    <3>2. source' \in Seq(Rows) /\ Len(source') = Len(source) + 1 /\ walk' = walk /\ paged' = paged
      BY <1>1, <3>1, EnterFacts DEF Enter
    <3>3. ASSUME NEW a \in Actors PROVE WalkGood(walk[a])'
      <4>1. PICK w : w = walk[a] /\ w \in Walks /\ WalkGood(w)
        BY <1>1 DEF PagesInv
      <4>2. w.expected # None /\ ~w.shrank => Len(source') > Len(w.first)
        <5>1. Len(w.first) \in Nat
          BY <4>1, LenProperties DEF Walks
        <5> QED BY <1>1, <3>2, <4>1, <5>1 DEF WalkGood
      <4> QED BY <3>2, <4>1, <4>2 DEF WalkGood, Before
    <3> QED BY <1>1, <3>2, <3>3
  <2>2. CASE \E i \in DOMAIN source : Withdraw(i)
    <3>1. PICK i \in DOMAIN source : Withdraw(i)
      BY <2>2
    <3>2. i \in 1..Len(source)
      BY <1>1, LenProperties
    <3>3. source' \in Seq(Rows) /\ paged' = paged
      BY <1>1, <3>1, <3>2, WithdrawFacts DEF Withdraw
    <3>4. ASSUME NEW a \in Actors
          PROVE  walk'[a] \in Walks /\ walk'[a].pc = walk[a].pc /\ WalkGood(walk[a])'
      <4>1. PICK w : w = walk[a] /\ w \in Walks /\ WalkGood(w)
        BY <1>1 DEF PagesInv
      <4>2. PICK flag \in BOOLEAN : flag = (w.shrank \/ w.expected # None)
        OBVIOUS
      <4>3. PICK x : x = [w EXCEPT !.shrank = flag]
        OBVIOUS
      <4>4. walk'[a] = x
        BY <3>1, <4>1, <4>2, <4>3, Zenon DEF Withdraw
      <4>5. /\ x \in Walks /\ x.pc = w.pc /\ x.page = w.page /\ x.size = w.size
            /\ x.items = w.items /\ x.expected = w.expected /\ x.first = w.first
            /\ x.complete = w.complete /\ x.resized = w.resized /\ x.shrank = flag
        BY <4>1, <4>3 DEF Walks
      <4>6. x.expected # None => x.shrank
        BY <4>2, <4>5
      <4> QED BY <4>1, <4>4, <4>5, <4>6 DEF WalkGood
    <3>5. walk' \in [Actors -> Walks]
      <4>1. walk' = [a \in Actors |-> walk'[a]]
        BY <3>1 DEF Withdraw
      <4> QED BY <3>4, <4>1
    <3> QED BY <3>3, <3>4, <3>5
  <2> QED BY <2>1, <2>2 DEF Produce
<1>4. MesTypes'
  <2>1. PlaceTypes' /\ PagerTypes'
    BY <1>1, <1>2, <1>3, TypeParts DEF PlaceTypes, PagerTypes
  <2>2. GatewayTypeOK'
    BY <1>1, <1>2 DEF MesTypes, GatewayTypeOK, gatewayVars
  <2>3. AdapterTypeOK'
    BY <1>1, <1>2 DEF MesTypes, AdapterTypeOK, adapterVars
  <2> QED BY <2>1, <2>2, <2>3 DEF MesTypes
<1>5. CallInv'
  <2> SUFFICES ASSUME NEW a \in Fetches \cup {Snapshot} PROVE CallOK(a)'
    BY DEF CallInv
  <2>1. a \in Actors /\ CallOK(a)
    BY <1>1, ActorsAssumption DEF CallInv
  <2> QED BY <1>2, <1>3, <2>1 DEF CallOK, Under, gatewayVars, adapterVars
<1>6. IdentityInv' /\ ScopeInv' /\ OwnerInv'
  BY <1>1, <1>2 DEF IdentityInv, ScopeInv, ScopeOK, OwnerInv, Under, BoundTo, gatewayVars, adapterVars
<1> QED BY <1>3, <1>4, <1>5, <1>6 DEF MesInv, PagesInv

-----------------------------------------------------------------------------
(* The owner snapshot fetcher.                                             *)

\* What a step of the fetcher leaves alone, and the types of what it does not.
OwnerFrame ==
  /\ UNCHANGED <<clock, mes, issued, disabled, faults, default, source, paged, run, edge>>
  /\ EntriesType' /\ IdentityInv' /\ EntriesKept /\ ExchType' /\ CtxType' /\ CallType'
  /\ requests' \in 0..MaxRequests /\ PagerTypes' /\ owner' \in OwnerPlaces
  /\ load' \in LoadLeft /\ load'.fetches = load.fetches
  /\ \A b \in Actors \ {Snapshot} : Same(b)

LEMMA OwnerStepKeeps ==
  ASSUME MesInv, OwnerFrame, WalkGood(walk'[Snapshot]), CallOK(Snapshot)', OwnerInv'
  PROVE  MesInv'
<1>1. Snapshot \in Actors /\ Snapshot \notin Fetches
  BY ActorsAssumption
<1>2. MesTypes
  BY DEF MesInv
<1>3. PlaceTypes'
  BY <1>2, TypeParts DEF OwnerFrame, PlaceTypes
<1>4. GatewayTypeOK'
  BY <1>2, TypeParts DEF OwnerFrame, GatewayTypeOK, EntriesType, ExchType, CtxType
<1>5. AdapterTypeOK'
  BY <1>2, TypeParts DEF OwnerFrame, AdapterTypeOK, CallType
<1>6. MesTypes'
  BY <1>3, <1>4, <1>5 DEF MesTypes, OwnerFrame
<1> QED BY <1>1, <1>6, TaskStep DEF OwnerFrame

\* The fetcher's part of the invariant.
LEMMA FetcherParts ==
  ASSUME MesInv
  PROVE  /\ Snapshot \in Actors /\ IdentityInv /\ OwnerInv /\ CallOK(Snapshot)
         /\ walk[Snapshot] \in Walks /\ WalkGood(walk[Snapshot])
         /\ clock \in 0..MaxClock /\ EntriesType /\ ExchType /\ CtxType /\ CallType
         /\ requests \in 0..MaxRequests /\ PagerTypes /\ owner \in OwnerPlaces /\ load \in LoadLeft
         /\ OwnerCredential \in Credentials
<1>1. Snapshot \in Actors /\ OwnerCredential \in Credentials
  BY ActorsAssumption
<1> QED BY <1>1, WalkFacts, TypeParts DEF MesInv, CallInv, PlaceTypes

\* The fetcher goes to another place and keeps its identity.
LEMMA OwnerPlaceFacts ==
  ASSUME owner \in OwnerPlaces,
         NEW pc \in {"off", "exchange", "registry", "authorize", "departments", "fetch",
                      "registry_again", "authorize_again", "departments_again"}, OwnerTo(pc)
  PROVE  /\ owner' \in OwnerPlaces /\ owner'.pc = pc /\ owner'.looked = owner.looked
         /\ owner'.who = owner.who /\ owner'.identity = owner.identity
  BY DEF OwnerPlaces, OwnerTo

LEMMA ResolveOwnerKeeps ==
  ASSUME MesInv, ResolveOwner
  PROVE  MesInv'
<1>1. /\ Snapshot \in Actors /\ IdentityInv /\ OwnerInv /\ EntriesType /\ ExchType /\ CtxType /\ CallType
      /\ requests \in 0..MaxRequests /\ PagerTypes /\ owner \in OwnerPlaces /\ load \in LoadLeft
      /\ OwnerCredential \in Credentials
  BY FetcherParts
<1>2. /\ owner.pc = "off" /\ Spend("snapshots") /\ WalkSet(Snapshot, NoWalk)
      /\ call' = [call EXCEPT ![Snapshot] = NoCall]
      /\ UNCHANGED <<clock, mes, issued, byDigest, byIdentity, ctx, requests, disabled, faults,
                     default, source, paged, run, edge>>
  BY DEF ResolveOwner, WalkSet
<1>3. load' \in LoadLeft /\ load'.fetches = load.fetches
  BY <1>1, <1>2, SpendFacts
<1>4. NoWalk \in Walks /\ NoWalk.pc = "idle" /\ WalkGood(NoWalk)
  <2>1. 1 \in 1..(MaxPages + 1) /\ <<>> \in Seq(Rows)
    BY PagerNumbers
  <2> QED BY <2>1 DEF NoWalk, Walks, WalkGood
<1>5. PagerTypes' /\ walk'[Snapshot] = NoWalk /\ \A b \in Actors \ {Snapshot} : walk'[b] = walk[b]
  BY <1>1, <1>2, <1>4, WalkSetFacts
<1>6. NoCall \in Calls /\ NoCall.pc = "idle"
  BY AdapterAssumption DEF NoCall, Calls
<1>7. CallType' /\ call'[Snapshot].pc = "idle" /\ \A b \in Actors \ {Snapshot} : call'[b] = call[b]
  BY <1>1, <1>2, <1>6 DEF CallType
<1>8. /\ owner' \in OwnerPlaces /\ owner'.pc \in {"off", "registry", "exchange"}
      /\ owner'.pc = "registry" => owner'.who \in Users /\ owner'.identity \in {None, owner'.who}
      /\ ExchType' /\ \A b \in Actors \ {Snapshot} : exch'[b] = exch[b]
  <2>1. CASE CachedPrincipal(OwnerCredential)
    <3>1. PICK b : b = byDigest[OwnerCredential].bundle
      OBVIOUS
    <3>2. /\ owner' = IF IsOwner(b) /\ OwnerEntry(b.who)
                      THEN [owner EXCEPT !.pc = "registry", !.who = b.who] ELSE owner
          /\ exch' = exch
      BY <2>1, <3>1 DEF ResolveOwner
    <3>3. byDigest[OwnerCredential] \in LiveEntry
      BY <1>1, <2>1 DEF CachedPrincipal, EntriesType
    <3>4. b.who \in Users
      BY <3>1, <3>3 DEF LiveEntry, MesCredentialBundle
    <3>5. CASE IsOwner(b) /\ OwnerEntry(b.who)
      <4>1. owner.identity \in {None, b.who}
        BY <3>5 DEF IsOwner
      <4>2. /\ owner' \in OwnerPlaces /\ owner'.pc = "registry" /\ owner'.who = b.who
            /\ owner'.identity = owner.identity
        BY <1>1, <3>2, <3>4, <3>5 DEF OwnerPlaces
      <4> QED BY <1>1, <3>2, <3>4, <4>1, <4>2 DEF ExchType
    <3>6. CASE ~(IsOwner(b) /\ OwnerEntry(b.who))
      BY <1>1, <1>2, <3>2, <3>6 DEF ExchType
    <3> QED BY <3>5, <3>6
  <2>2. CASE ~CachedPrincipal(OwnerCredential)
    <3>1. Ask(Snapshot, OwnerCredential, None) /\ OwnerTo("exchange")
      BY <2>2 DEF ResolveOwner
    <3>2. ExchType' /\ \A b \in Actors \ {Snapshot} : exch'[b] = exch[b]
      BY <1>1, <3>1, AskFacts
    <3> QED BY <1>1, <3>1, <3>2, OwnerPlaceFacts
  <2> QED BY <2>1, <2>2
<1>9. CallOK(Snapshot)' /\ OwnerInv'
  BY <1>7, <1>8 DEF CallOK, OwnerInv, Under
<1>10. EntriesType' /\ IdentityInv' /\ EntriesKept /\ CtxType'
  BY <1>1, <1>2, ForgottenFacts DEF CtxType
<1>11. \A b \in Actors \ {Snapshot} : Same(b)
  BY <1>2, <1>5, <1>7, <1>8 DEF Same
<1>12. OwnerFrame
  BY <1>1, <1>2, <1>3, <1>5, <1>7, <1>8, <1>10, <1>11 DEF OwnerFrame
<1> QED BY <1>4, <1>5, <1>9, <1>12, OwnerStepKeeps

LEMMA OwnerExchangedKeeps ==
  ASSUME MesInv, OwnerExchanged
  PROVE  MesInv'
<1>1. /\ Snapshot \in Actors /\ IdentityInv /\ OwnerInv /\ CallOK(Snapshot) /\ WalkGood(walk[Snapshot])
      /\ clock \in 0..MaxClock /\ EntriesType /\ ExchType /\ CtxType /\ CallType
      /\ requests \in 0..MaxRequests /\ PagerTypes /\ owner \in OwnerPlaces /\ load \in LoadLeft
  BY FetcherParts
<1>2. /\ owner.pc = "exchange" /\ exch[Snapshot] # None
      /\ AuthenticateKeeps(Snapshot) /\ EndExchange(Snapshot)
      /\ UNCHANGED <<ctx, adapterVars, load>> /\ OwnerGateway
  BY DEF OwnerExchanged, Answered
<1>3. EntriesType' /\ IdentityInv' /\ EntriesKept
  BY <1>1, <1>2, AuthenticateFacts
<1>4. ExchType' /\ exch'[Snapshot] = None /\ \A b \in Actors \ {Snapshot} : exch'[b] = exch[b]
  BY <1>1, <1>2, EndFacts
<1>5. ~Under(Snapshot)
  BY <1>1, <1>2 DEF OwnerInv
<1>6. /\ owner' \in OwnerPlaces /\ owner'.pc \in {"off", "registry"}
      /\ owner'.pc = "registry" => owner'.who \in Users /\ owner'.identity \in {None, owner'.who}
  <2>1. CASE HasPrincipal(Snapshot) /\ IsOwner(exch[Snapshot].bundle)
    <3>1. owner' = [owner EXCEPT !.pc = "registry", !.who = exch[Snapshot].bundle.who]
      BY <2>1 DEF OwnerExchanged
    <3>2. exch[Snapshot].bundle.who \in Users /\ owner.identity \in {None, exch[Snapshot].bundle.who}
      BY <1>1, <1>2, <2>1, ResponseFacts DEF IsOwner
    <3>3. /\ owner' \in OwnerPlaces /\ owner'.pc = "registry" /\ owner'.who = exch[Snapshot].bundle.who
          /\ owner'.identity = owner.identity
      BY <1>1, <3>1, <3>2 DEF OwnerPlaces
    <3> QED BY <3>2, <3>3
  <2>2. CASE ~(HasPrincipal(Snapshot) /\ IsOwner(exch[Snapshot].bundle))
    <3>1. OwnerTo("off")
      BY <2>2 DEF OwnerExchanged, OwnerTo
    <3> QED BY <1>1, <3>1, OwnerPlaceFacts
  <2> QED BY <2>1, <2>2
<1>7. call' = call /\ walk' = walk /\ ctx' = ctx /\ load' = load
  BY <1>2 DEF adapterVars, OwnerGateway, pagerVars
<1>8. CallOK(Snapshot)' /\ OwnerInv'
  BY <1>5, <1>6, <1>7 DEF CallOK, OwnerInv, Under
<1>9. OwnerFrame
  BY <1>1, <1>2, <1>3, <1>4, <1>6, <1>7
     DEF OwnerFrame, OwnerGateway, adapterVars, pagerVars, Same, CtxType, CallType, PagerTypes
<1> QED BY <1>1, <1>7, <1>8, <1>9, OwnerStepKeeps

\* A refusal in the refresh is the error of the call, whose walk is still asking.
LEMMA OwnerRegistryKeeps ==
  ASSUME MesInv, OwnerRegistry
  PROVE  MesInv'
<1>1. /\ Snapshot \in Actors /\ IdentityInv /\ OwnerInv /\ CallOK(Snapshot) /\ WalkGood(walk[Snapshot])
      /\ EntriesType /\ ExchType /\ CtxType /\ CallType
      /\ requests \in 0..MaxRequests /\ PagerTypes /\ owner \in OwnerPlaces /\ load \in LoadLeft
  BY FetcherParts
<1>2. /\ UNCHANGED <<byDigest, byIdentity, exch, ctx, requests, disabled, faults, default, load>>
      /\ OwnerGateway /\ walk' = walk
  BY DEF OwnerRegistry, OwnerGateway, pagerVars
<1>3. EntriesType' /\ IdentityInv' /\ EntriesKept
  BY <1>1, <1>2, ForgottenFacts
<1>4. "tenant_disabled" \in MesError
  BY DEF MesError
<1>5. /\ owner' \in OwnerPlaces /\ owner'.who = owner.who /\ owner'.identity = owner.identity
      /\ owner'.looked = owner.looked
      /\ CallType' /\ (\A b \in Actors \ {Snapshot} : call'[b] = call[b])
      /\ \/ owner'.pc \in {"off", "authorize"} /\ owner.pc = "registry" /\ call' = call
         \/ owner'.pc = "authorize_again" /\ owner.pc = "registry_again" /\ call' = call
         \/ owner'.pc = "fetch" /\ owner.pc = "registry_again" /\ call'[Snapshot].pc = "failed"
  <2>1. CASE owner.pc = "registry" /\ OwnerTo(IF disabled THEN "off" ELSE "authorize") /\ call' = call
    <3>1. OwnerTo("off") \/ OwnerTo("authorize")
      BY <2>1
    <3> QED BY <1>1, <2>1, <3>1, OwnerPlaceFacts DEF CallType
  <2>2. CASE /\ owner.pc = "registry_again"
             /\ OwnerTo(IF disabled THEN "fetch" ELSE "authorize_again")
             /\ IF disabled THEN Fail(Snapshot, "tenant_disabled") ELSE UNCHANGED call
    <3>1. CASE disabled
      <4>1. OwnerTo("fetch") /\ Fail(Snapshot, "tenant_disabled")
        BY <2>2, <3>1
      <4> QED BY <1>1, <1>4, <2>2, <4>1, OwnerPlaceFacts, FailFacts
    <3>2. CASE ~disabled
      <4>1. OwnerTo("authorize_again") /\ call' = call
        BY <2>2, <3>2
      <4> QED BY <1>1, <2>2, <4>1, OwnerPlaceFacts DEF CallType
    <3> QED BY <3>1, <3>2
  <2> QED BY <2>1, <2>2 DEF OwnerRegistry
<1>6. CallOK(Snapshot)' /\ OwnerInv'
  <2>1. CASE owner.pc = "registry" /\ call' = call /\ owner'.pc \in {"off", "authorize"}
    <3>1. ~Under(Snapshot)
      BY <1>1, <2>1 DEF OwnerInv
    <3> QED BY <1>1, <1>5, <2>1, <3>1 DEF CallOK, OwnerInv, Under
  <2>2. CASE owner.pc = "registry_again" /\ call' = call /\ owner'.pc = "authorize_again"
    BY <1>1, <1>2, <1>5, <2>2 DEF CallOK, OwnerInv, Under, BoundTo
  <2>3. CASE owner.pc = "registry_again" /\ owner'.pc = "fetch" /\ call'[Snapshot].pc = "failed"
    BY <1>1, <1>2, <1>5, <2>3 DEF CallOK, OwnerInv, Under, BoundTo
  <2> QED BY <1>5, <2>1, <2>2, <2>3
<1>7. OwnerFrame
  BY <1>1, <1>2, <1>3, <1>5
     DEF OwnerFrame, OwnerGateway, pagerVars, Same, CtxType, ExchType, PagerTypes
<1> QED BY <1>1, <1>2, <1>6, <1>7, OwnerStepKeeps

\* The fetch begins under the entry that its identity has at the binding.
LEMMA OwnerBindsFacts ==
  ASSUME MesInv, EntriesType', IdentityInv', EntriesKept, NEW looked \in BOOLEAN, OwnerBinds(looked),
         owner.pc \in {"authorize", "departments"}, UNCHANGED <<byIdentity, call>>,
         byIdentity[owner.who] # None, ~looked => byIdentity[owner.who].bundle.facts \in OwnerFacts
  PROVE  /\ CtxType' /\ (\A b \in Actors \ {Snapshot} : ctx'[b] = ctx[b])
         /\ owner' \in OwnerPlaces /\ OwnerInv'
<1>1. /\ Snapshot \in Actors /\ IdentityInv /\ OwnerInv /\ EntriesType /\ CtxType
      /\ owner \in OwnerPlaces
  BY FetcherParts
<1>2. ~Under(Snapshot) /\ owner.who \in Users /\ call[Snapshot].pc # "refresh"
  BY <1>1 DEF OwnerInv, Under
<1>3. PICK e : e = byIdentity[owner.who]
  OBVIOUS
<1>4. /\ ctx' = [a \in Actors |-> IF a \in {Snapshot} THEN e.bundle ELSE ctx[a]]
      /\ owner' = [owner EXCEPT !.pc = "fetch", !.identity = owner.who, !.looked = looked]
  BY <1>3 DEF OwnerBinds, BindFor
<1>5. e \in LiveEntry /\ e # None /\ e.bundle.who = owner.who
  BY <1>1, <1>2, <1>3 DEF EntriesType, IdentityInv
<1>6. e.bundle \in MesCredentialBundle /\ (~looked => e.bundle.facts \in OwnerFacts)
  BY <1>3, <1>5 DEF LiveEntry
<1>7. CtxType' /\ ctx'[Snapshot] = e.bundle /\ \A b \in Actors \ {Snapshot} : ctx'[b] = ctx[b]
  BY <1>1, <1>4, <1>6 DEF CtxType
<1>8. /\ owner' \in OwnerPlaces /\ owner'.pc = "fetch" /\ owner'.who = owner.who
      /\ owner'.identity = owner.who /\ owner'.looked = looked
  BY <1>1, <1>2, <1>4 DEF OwnerPlaces
<1>9. OwnerInv'
  BY <1>2, <1>5, <1>6, <1>7, <1>8 DEF OwnerInv, BoundTo
<1> QED BY <1>7, <1>8, <1>9

\* What the two steps of the authorization leave alone.
LEMMA AuthorizationFrame ==
  ASSUME MesInv, UNCHANGED <<byDigest, byIdentity, exch, adapterVars, load>>, OwnerGateway,
         CtxType', \A b \in Actors \ {Snapshot} : ctx'[b] = ctx[b],
         owner.pc \in {"authorize", "departments"}, owner' \in OwnerPlaces, OwnerInv'
  PROVE  MesInv'
<1>1. /\ Snapshot \in Actors /\ IdentityInv /\ OwnerInv /\ CallOK(Snapshot) /\ WalkGood(walk[Snapshot])
      /\ EntriesType /\ ExchType /\ CtxType /\ CallType
      /\ requests \in 0..MaxRequests /\ PagerTypes /\ owner \in OwnerPlaces /\ load \in LoadLeft
  BY FetcherParts
<1>2. walk' = walk /\ call' = call
  BY DEF OwnerGateway, pagerVars, adapterVars
<1>3. EntriesType' /\ IdentityInv' /\ EntriesKept
  BY <1>1, ForgottenFacts
<1>4. ~Under(Snapshot)
  BY <1>1 DEF OwnerInv
<1>5. CallOK(Snapshot)'
  BY <1>2, <1>4 DEF CallOK, Under
<1>6. OwnerFrame
  BY <1>1, <1>2, <1>3
     DEF OwnerFrame, OwnerGateway, pagerVars, adapterVars, Same, CallType, ExchType, PagerTypes
<1> QED BY <1>1, <1>2, <1>5, <1>6, OwnerStepKeeps

LEMMA OwnerAuthorizeKeeps ==
  ASSUME MesInv, OwnerAuthorize
  PROVE  MesInv'
<1>1. OwnerInv /\ CtxType /\ owner \in OwnerPlaces /\ EntriesType /\ IdentityInv
  BY FetcherParts
<1>2. /\ owner.pc = "authorize" /\ UNCHANGED <<byDigest, byIdentity, exch, adapterVars, load>>
      /\ OwnerGateway /\ call' = call
  BY DEF OwnerAuthorize, adapterVars
<1>3. EntriesType' /\ IdentityInv' /\ EntriesKept
  BY <1>1, <1>2, ForgottenFacts
<1>4. ~Under(Snapshot) /\ call[Snapshot].pc # "refresh"
  BY <1>1, <1>2 DEF OwnerInv, Under
<1>5. /\ CtxType' /\ (\A b \in Actors \ {Snapshot} : ctx'[b] = ctx[b])
      /\ owner' \in OwnerPlaces /\ OwnerInv'
  <2>1. CASE OwnerEntry(owner.who) /\ ~Departmentless(owner.who)
    <3>1. OwnerBinds(FALSE) /\ byIdentity[owner.who] # None
          /\ byIdentity[owner.who].bundle.facts \in OwnerFacts
      BY <2>1 DEF OwnerAuthorize, OwnerEntry
    <3> QED BY <1>2, <1>3, <3>1, OwnerBindsFacts
  <2>2. CASE OwnerEntry(owner.who) /\ Departmentless(owner.who)
    <3>1. OwnerTo("departments") /\ ctx' = ctx /\ byIdentity[owner.who] # None
      BY <2>2 DEF OwnerAuthorize, OwnerEntry
    <3>2. /\ owner' \in OwnerPlaces /\ owner'.pc = "departments" /\ owner'.who = owner.who
          /\ owner'.identity = owner.identity
      BY <1>1, <3>1, OwnerPlaceFacts
    <3>3. OwnerInv'
      BY <1>1, <1>2, <1>4, <3>1, <3>2 DEF OwnerInv, Under
    <3> QED BY <1>1, <3>1, <3>2, <3>3 DEF CtxType
  <2>3. CASE ~OwnerEntry(owner.who)
    <3>1. OwnerTo("off") /\ ctx' = ctx
      BY <2>3 DEF OwnerAuthorize
    <3>2. owner' \in OwnerPlaces /\ owner'.pc = "off"
      BY <1>1, <3>1, OwnerPlaceFacts
    <3>3. OwnerInv'
      BY <1>2, <1>4, <3>2 DEF OwnerInv, Under
    <3> QED BY <1>1, <3>1, <3>2, <3>3 DEF CtxType
  <2> QED BY <2>1, <2>2, <2>3
<1> QED BY <1>2, <1>5, AuthorizationFrame

LEMMA OwnerDepartmentsKeeps ==
  ASSUME MesInv, OwnerDepartments
  PROVE  MesInv'
<1>1. OwnerInv /\ CtxType /\ owner \in OwnerPlaces /\ EntriesType /\ IdentityInv
  BY FetcherParts
<1>2. /\ owner.pc = "departments" /\ UNCHANGED <<byDigest, byIdentity, exch, adapterVars, load>>
      /\ OwnerGateway /\ call' = call
  BY DEF OwnerDepartments, adapterVars
<1>3. EntriesType' /\ IdentityInv' /\ EntriesKept
  BY <1>1, <1>2, ForgottenFacts
<1>4. ~Under(Snapshot) /\ byIdentity[owner.who] # None
  BY <1>1, <1>2 DEF OwnerInv
<1>5. /\ CtxType' /\ (\A b \in Actors \ {Snapshot} : ctx'[b] = ctx[b])
      /\ owner' \in OwnerPlaces /\ OwnerInv'
  <2>1. CASE OwnerBinds(TRUE)
    BY <1>2, <1>3, <1>4, <2>1, OwnerBindsFacts
  <2>2. CASE OwnerTo("off") /\ ctx' = ctx
    <3>1. owner' \in OwnerPlaces /\ owner'.pc = "off"
      BY <1>1, <2>2, OwnerPlaceFacts
    <3>2. OwnerInv'
      BY <1>2, <1>4, <3>1 DEF OwnerInv, Under
    <3> QED BY <1>1, <2>2, <3>1, <3>2 DEF CtxType
  <2> QED BY <2>1, <2>2 DEF OwnerDepartments
<1> QED BY <1>2, <1>5, AuthorizationFrame

LEMMA OwnerFetchKeeps ==
  ASSUME MesInv, OwnerFetch
  PROVE  MesInv'
<1>1. Snapshot \in Actors /\ OwnerInv /\ owner \in OwnerPlaces /\ load \in LoadLeft /\ Snapshot \notin Fetches
  BY FetcherParts, ActorsAssumption
<1>2. owner.pc = "fetch" /\ UNCHANGED <<run, edge, owner, load>>
  BY DEF OwnerFetch
<1>3. Working(Snapshot)
  BY <1>1, <1>2 DEF OwnerInv, BoundTo, Working
<1>4. Stepped(Snapshot)
  BY <1>3, StartWalkKeeps, NextPageKeeps, PageAnsweredKeeps, CallFailedKeeps, TenantCheckedKeeps DEF OwnerFetch
<1>5. MesTypes' /\ IdentityInv' /\ EntriesKept
  BY <1>1, <1>2, <1>4, PlacesKept, SteppedTypes
<1>6. UNCHANGED <<ctx, byIdentity, source, paged>> /\ WalkGood(walk'[Snapshot]) /\ CallOK(Snapshot)'
      /\ \A b \in Actors \ {Snapshot} : Same(b)
  BY <1>4 DEF Stepped
<1>7. OwnerInv'
  BY <1>1, <1>2, <1>6 DEF OwnerInv, BoundTo
<1> QED BY <1>1, <1>2, <1>5, <1>6, <1>7, TaskStep

\* The refreshed bundle is one of the same owner, and an owner's.
LEMMA OwnerRefreshedKeeps ==
  ASSUME MesInv, OwnerRefreshed
  PROVE  MesInv'
<1>1. /\ Snapshot \in Actors /\ IdentityInv /\ OwnerInv /\ CallOK(Snapshot) /\ WalkGood(walk[Snapshot])
      /\ clock \in 0..MaxClock /\ EntriesType /\ ExchType /\ CtxType /\ CallType
      /\ requests \in 0..MaxRequests /\ PagerTypes /\ owner \in OwnerPlaces /\ load \in LoadLeft
  BY FetcherParts
<1>2. /\ owner.pc = "fetch" /\ call[Snapshot].pc = "refresh" /\ exch[Snapshot] # None
      /\ RefreshKeeps(Snapshot) /\ EndExchange(Snapshot)
      /\ UNCHANGED <<requests, disabled, faults, default, load>> /\ OwnerGateway /\ walk' = walk
  BY DEF OwnerRefreshed, Answered, OwnerGateway, pagerVars
<1>3. EntriesType' /\ IdentityInv' /\ EntriesKept
  BY <1>1, <1>2, RefreshFacts
<1>4. ExchType' /\ exch'[Snapshot] = None /\ \A b \in Actors \ {Snapshot} : exch'[b] = exch[b]
  BY <1>1, <1>2, EndFacts
<1>5. /\ walk[Snapshot].pc = "asking" /\ owner.who \in Users /\ owner.identity = owner.who
      /\ BoundTo(Snapshot, owner.who) /\ (~owner.looked => ctx[Snapshot].facts \in OwnerFacts)
      /\ exch[Snapshot].entry.bundle.who = owner.who
  BY <1>1, <1>2 DEF OwnerInv, CallOK, Under, BoundTo
<1>6. byIdentity'[owner.who] # None
  BY <1>3, <1>5 DEF BoundTo, EntriesKept
<1>7. /\ CtxType' /\ (\A b \in Actors \ {Snapshot} : ctx'[b] = ctx[b])
      /\ CallType' /\ (\A b \in Actors \ {Snapshot} : call'[b] = call[b])
      /\ owner' \in OwnerPlaces /\ CallOK(Snapshot)' /\ OwnerInv'
  <2>1. CASE RefreshedIdentity(Snapshot) /\ IsOwner(exch[Snapshot].bundle)
    <3>1. PICK b : b = _bundle_from_response(Snapshot)
      OBVIOUS
    <3>2. /\ ctx' = [ctx EXCEPT ![Snapshot] = b] /\ call' = call
          /\ owner' = [owner EXCEPT !.pc = "registry_again", !.looked = FALSE]
      BY <2>1, <3>1 DEF OwnerRefreshed
    <3>3. HasPrincipal(Snapshot) /\ exch[Snapshot].bundle.who = owner.who
          /\ exch[Snapshot].bundle.facts \in OwnerFacts
      BY <1>5, <2>1 DEF RefreshedIdentity, IsOwner
    <3>4. b \in MesCredentialBundle /\ b.who = owner.who /\ b.facts \in OwnerFacts
      BY <1>1, <1>2, <3>1, <3>3, ResponseFacts
    <3>5. CtxType' /\ ctx'[Snapshot] = b /\ \A x \in Actors \ {Snapshot} : ctx'[x] = ctx[x]
      BY <1>1, <3>2, <3>4 DEF CtxType
    <3>6. /\ owner' \in OwnerPlaces /\ owner'.pc = "registry_again"
          /\ owner'.who = owner.who /\ owner'.identity = owner.identity
      BY <1>1, <3>2 DEF OwnerPlaces
    <3>7. OwnerInv'
      BY <1>2, <1>4, <1>5, <1>6, <3>2, <3>4, <3>5, <3>6 DEF OwnerInv, BoundTo, Under
    <3>8. CallOK(Snapshot)'
      BY <1>2, <1>4, <1>5, <3>2 DEF CallOK
    <3> QED BY <1>1, <3>2, <3>5, <3>6, <3>7, <3>8 DEF CallType
  <2>2. CASE ~(RefreshedIdentity(Snapshot) /\ IsOwner(exch[Snapshot].bundle))
    <3>1. PICK e : e = IF RefreshedIdentity(Snapshot) THEN "forbidden" ELSE "upstream_unavailable"
      OBVIOUS
    <3>2. Fail(Snapshot, e) /\ UNCHANGED <<ctx, owner>>
      BY <2>2, <3>1 DEF OwnerRefreshed
    <3>3. e \in MesError
      BY <3>1 DEF MesError
    <3>4. CallType' /\ call'[Snapshot].pc = "failed" /\ \A b \in Actors \ {Snapshot} : call'[b] = call[b]
      BY <1>1, <3>2, <3>3, FailFacts
    <3>5. OwnerInv' /\ CallOK(Snapshot)'
      BY <1>2, <1>5, <1>6, <3>2, <3>4 DEF OwnerInv, CallOK, BoundTo, Under
    <3> QED BY <1>1, <3>2, <3>4, <3>5 DEF CtxType
  <2> QED BY <2>1, <2>2
<1>8. OwnerFrame
  BY <1>1, <1>2, <1>3, <1>4, <1>7 DEF OwnerFrame, OwnerGateway, pagerVars, Same, PagerTypes
<1> QED BY <1>1, <1>2, <1>7, <1>8, OwnerStepKeeps

\* The fetch goes on, or fails, under the bundle that was refreshed.
LEMMA AgainFrame ==
  ASSUME MesInv, owner.pc \in {"authorize_again", "departments_again"}, OwnerGateway, walk' = walk,
         UNCHANGED <<byDigest, byIdentity, exch, ctx, disabled, faults, default, load>>,
         \/ OwnerTo("departments_again") /\ UNCHANGED <<call, requests>>
         \/ OwnerTo("fetch") /\ SendOrStop(Snapshot, MaxRetries)
         \/ OwnerTo("fetch") /\ Fail(Snapshot, "forbidden") /\ UNCHANGED requests
  PROVE  MesInv'
<1>1. /\ Snapshot \in Actors /\ IdentityInv /\ OwnerInv /\ CallOK(Snapshot) /\ WalkGood(walk[Snapshot])
      /\ EntriesType /\ ExchType /\ CtxType /\ CallType
      /\ requests \in 0..MaxRequests /\ PagerTypes /\ owner \in OwnerPlaces /\ load \in LoadLeft
  BY FetcherParts
<1>3. EntriesType' /\ IdentityInv' /\ EntriesKept
  BY <1>1, ForgottenFacts
<1>4. "forbidden" \in MesError /\ MaxRetries \in 0..(MaxRetries + 1)
  BY AdapterAssumption DEF MesError
<1>5. /\ CallType' /\ requests' \in 0..MaxRequests /\ \A b \in Actors \ {Snapshot} : call'[b] = call[b]
      /\ \/ owner'.pc = "departments_again" /\ call' = call
         \/ owner'.pc = "fetch" /\ call'[Snapshot].pc \in {"sending", "failed"}
      /\ owner' \in OwnerPlaces /\ owner'.looked = owner.looked
      /\ owner'.who = owner.who /\ owner'.identity = owner.identity
  <2>1. CASE OwnerTo("departments_again") /\ UNCHANGED <<call, requests>>
    BY <1>1, <2>1, OwnerPlaceFacts DEF CallType
  <2>2. CASE OwnerTo("fetch") /\ SendOrStop(Snapshot, MaxRetries)
    BY <1>1, <1>4, <2>2, OwnerPlaceFacts, SendFacts
  <2>3. CASE OwnerTo("fetch") /\ Fail(Snapshot, "forbidden") /\ UNCHANGED requests
    BY <1>1, <1>4, <2>3, OwnerPlaceFacts, FailFacts
  <2> QED BY <2>1, <2>2, <2>3
<1>7. walk[Snapshot].pc = "asking" /\ call[Snapshot].pc = "refresh" /\ exch[Snapshot] = None
  BY <1>1 DEF OwnerInv, CallOK, Under
<1>8. CallOK(Snapshot)'
  BY <1>5, <1>7 DEF CallOK
<1>9. OwnerInv'
  BY <1>1, <1>5, <1>7 DEF OwnerInv, BoundTo
<1>10. OwnerFrame
  BY <1>1, <1>3, <1>5 DEF OwnerFrame, OwnerGateway, pagerVars, Same, CtxType, ExchType, PagerTypes
<1> QED BY <1>1, <1>8, <1>9, <1>10, OwnerStepKeeps

LEMMA OwnerReauthorizeKeeps ==
  ASSUME MesInv, OwnerReauthorize \/ OwnerDepartmentsAgain
  PROVE  MesInv'
<1>1. CASE OwnerReauthorize
  <2>1. owner.pc = "authorize_again" /\ OwnerGateway /\ walk' = walk
    BY <1>1 DEF OwnerReauthorize, OwnerGateway, pagerVars
  <2> QED BY <1>1, <2>1, AgainFrame DEF OwnerReauthorize
<1>2. CASE OwnerDepartmentsAgain
  <2>1. owner.pc = "departments_again" /\ OwnerGateway /\ walk' = walk
    BY <1>2 DEF OwnerDepartmentsAgain, OwnerGateway, pagerVars
  <2> QED BY <1>2, <2>1, AgainFrame DEF OwnerDepartmentsAgain
<1> QED BY <1>1, <1>2

LEMMA OwnerEndKeeps ==
  ASSUME MesInv, OwnerEnd
  PROVE  MesInv'
<1>1. /\ Snapshot \in Actors /\ IdentityInv /\ OwnerInv /\ CallOK(Snapshot) /\ WalkGood(walk[Snapshot])
      /\ EntriesType /\ ExchType /\ CtxType /\ CallType
      /\ requests \in 0..MaxRequests /\ PagerTypes /\ owner \in OwnerPlaces /\ load \in LoadLeft
  BY FetcherParts
<1>2. /\ owner.pc = "fetch" /\ walk[Snapshot].pc \in {"done", "failed"}
      /\ owner' = [owner EXCEPT !.pc = "off", !.who = None, !.looked = FALSE] /\ ctx' = [ctx EXCEPT ![Snapshot] = None]
      /\ UNCHANGED <<byDigest, byIdentity, exch, adapterVars, load>> /\ OwnerGateway
      /\ walk' = walk /\ call' = call
  BY DEF OwnerEnd, OwnerGateway, pagerVars, adapterVars
<1>3. EntriesType' /\ IdentityInv' /\ EntriesKept
  BY <1>1, <1>2, ForgottenFacts
<1>4. ~Under(Snapshot)
  BY <1>1, <1>2 DEF CallOK
<1>5. owner' \in OwnerPlaces /\ owner'.pc = "off"
  BY <1>1, <1>2 DEF OwnerPlaces
<1>6. CtxType' /\ \A b \in Actors \ {Snapshot} : ctx'[b] = ctx[b]
  BY <1>1, <1>2 DEF CtxType
<1>7. CallOK(Snapshot)' /\ OwnerInv'
  BY <1>2, <1>4, <1>5 DEF CallOK, OwnerInv, Under
<1>8. OwnerFrame
  BY <1>1, <1>2, <1>3, <1>5, <1>6
     DEF OwnerFrame, OwnerGateway, pagerVars, adapterVars, Same, CallType, ExchType, PagerTypes
<1> QED BY <1>1, <1>2, <1>7, <1>8, OwnerStepKeeps

-----------------------------------------------------------------------------
(* The theorems.                                                           *)

LEMMA MesStep == MesInv /\ [Next]_vars => MesInv'
<1> SUFFICES ASSUME MesInv, [Next]_vars PROVE MesInv'
  OBVIOUS
<1>1. ASSUME NEW q \in Requests, Authenticate(q) \/ Authenticated(q) PROVE MesInv'
  BY <1>1, RequestKeeps
<1>2. ASSUME NEW f \in Fetches, Fetch(f) PROVE MesInv'
  BY <1>2, FetchKeeps
<1>3. ASSUME NEW a \in Actors, Mes(a) PROVE MesInv'
  BY <1>3, MesKeeps
<1>4. CASE OwnerStep
  BY <1>4, ResolveOwnerKeeps, OwnerExchangedKeeps, OwnerRegistryKeeps, OwnerAuthorizeKeeps,
     OwnerDepartmentsKeeps, OwnerFetchKeeps, OwnerRefreshedKeeps, OwnerReauthorizeKeeps, OwnerEndKeeps DEF OwnerStep
<1>5. CASE Bind \/ Unbind
  BY <1>5, BindKeeps
<1>6. CASE Administer \/ Suspend \/ Tick \/ Rest \/ UNCHANGED vars
  BY <1>6, WorldKeeps
<1>7. CASE Produce
  BY <1>7, ProduceKeeps
<1> QED BY <1>1, <1>2, <1>3, <1>4, <1>5, <1>6, <1>7 DEF Next

LEMMA MesAlways == Spec => []MesInv
  BY MesStart, MesStep, PTL DEF Spec

\* Every variable of the gateway, the adapter, the pager and their callers keeps its type,
\* whatever the credentials, users, pages, retries and scenarios are.
THEOREM MesTypeCorrect == Spec => []TypeOK
<1>1. MesInv => TypeOK
  <2> SUFFICES ASSUME MesInv PROVE TypeOK
    OBVIOUS
  <2>1. MesTypes
    BY DEF MesInv
  <2>2. PagerTypeOK
    <3>1. ASSUME NEW a \in Actors PROVE WalkOK(walk[a])
      <4>1. walk[a] \in Walks /\ walk[a].pc # "rows"
        BY WalkFacts
      <4> QED BY <4>1 DEF Walks, WalkOK
    <3> QED BY <2>1, <3>1, TypeParts DEF PagerTypeOK, PagerTypes
  <2> QED BY <2>1, <2>2, TypeParts DEF TypeOK, MesTypes, PlaceTypes, RunPlaces, OwnerPlaces, LoadLeft
<1> QED BY <1>1, MesAlways, PTL

\* hongzhao.py sends, and sends again, only under the user and the facts the interaction
\* was bound to: however the requests of the process replace entries, refreshes answer
\* late and the MES changes what a credential stands for.
THEOREM SendsStayInScope == Spec => []SendsUnderBoundScope
<1>1. MesInv => SendsUnderBoundScope
  BY DEF MesInv, ScopeInv, ScopeOK, BoundTo, Under, SendsUnderBoundScope
<1> QED BY <1>1, MesAlways, PTL

\* owner_snapshots.py sends a snapshot request only under a bundle of the identity that the
\* fetcher has verified, and with the role OWNER unless its departments had to be looked up
\* before the bundle was bound.
THEOREM SnapshotsAreTheOwners == Spec => []SnapshotSentByOwner
<1>1. MesInv => SnapshotSentByOwner
  BY DEF MesInv, OwnerInv, BoundTo, Under, SnapshotSentByOwner
<1> QED BY <1>1, MesAlways, PTL

\* BoundedPager.fetch_all returns complete only with the source of the first answer, row by
\* row, unless rows were taken away during the walk: rows entered meanwhile, the larger
\* page after the first answer, the drift of the total and the budgets included.
THEOREM CompleteWalksAreWhole == Spec => []CompleteIsSnapshot
<1>1. MesInv => CompleteIsSnapshot
  <2> SUFFICES ASSUME MesInv, NEW a \in Actors, walk[a].pc = "done", walk[a].complete, ~walk[a].shrank
               PROVE  walk[a].items = walk[a].first
    BY DEF CompleteIsSnapshot
  <2>1. WalkGood(walk[a])
    BY DEF MesInv, PagesInv
  <2> QED BY <2>1 DEF WalkGood
<1> QED BY <1>1, MesAlways, PTL

\* The owner that the fetcher has verified once is its owner for as long as the process
\* lives, even where the configured credential comes to stand for another user.
IdentityFixed == owner.identity # None => owner'.identity = owner.identity

LEMMA IdentityStep ==
  ASSUME MesInv, [Next]_vars
  PROVE  IdentityFixed
<1>1. owner \in OwnerPlaces /\ OwnerInv
  BY FetcherParts
<1>2. CASE ResolveOwner
  <2>1. PICK b : b = byDigest[OwnerCredential].bundle
    OBVIOUS
  <2>2. \/ owner' = owner \/ owner' = [owner EXCEPT !.pc = "registry", !.who = b.who]
        \/ OwnerTo("exchange")
    BY <1>2, <2>1 DEF ResolveOwner
  <2> QED BY <1>1, <2>2 DEF IdentityFixed, OwnerPlaces, OwnerTo
<1>3. CASE OwnerAuthorize \/ OwnerDepartments
  <2>1. /\ owner.pc \in {"authorize", "departments"}
        /\ OwnerTo("off") \/ OwnerTo("departments") \/ OwnerBinds(TRUE) \/ OwnerBinds(FALSE)
    BY <1>3 DEF OwnerAuthorize, OwnerDepartments
  <2> QED BY <1>1, <2>1 DEF OwnerBinds, OwnerInv, OwnerTo, OwnerPlaces, IdentityFixed
<1>4. CASE \/ OwnerExchanged \/ OwnerRegistry \/ OwnerRefreshed \/ OwnerReauthorize
           \/ OwnerDepartmentsAgain \/ OwnerEnd
  BY <1>1, <1>4 DEF OwnerExchanged, OwnerRegistry, OwnerRefreshed, OwnerReauthorize,
                    OwnerDepartmentsAgain, OwnerEnd, OwnerTo, OwnerPlaces, IdentityFixed
<1>5. CASE owner' = owner
  BY <1>5 DEF IdentityFixed
<1>6. \/ ResolveOwner \/ OwnerAuthorize \/ OwnerDepartments \/ owner' = owner
      \/ OwnerExchanged \/ OwnerRegistry \/ OwnerRefreshed \/ OwnerReauthorize
      \/ OwnerDepartmentsAgain \/ OwnerEnd
  BY DEF Next, OwnerStep, Authenticate, Authenticated, Bind, Unbind, Fetch, OwnerFetch, Mes, Administer,
         Produce, Suspend, Tick, Rest, vars
<1> QED BY <1>2, <1>3, <1>4, <1>5, <1>6

\* _resolve_owner and _validate_owner: no step ever replaces the verified identity.
THEOREM OwnerNeverChanges == Spec => [][IdentityFixed]_vars
<1>1. MesInv /\ [Next]_vars => [IdentityFixed]_vars
  BY IdentityStep
<1> QED BY <1>1, MesAlways, PTL DEF Spec

=============================================================================
