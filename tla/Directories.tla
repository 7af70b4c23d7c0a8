----------------------------- MODULE Directories -----------------------------
(***************************************************************************)
(* The factory's directories.  MesDictionarySource is one object of the    *)
(* process: every analysis that wants a dictionary reads it through the    *)
(* shared cache, and concurrent readers of one dictionary wait for the     *)
(* first of them.  CachedDirectorySource caches the employee and           *)
(* department rosters in the same domain, without waiting for each other.  *)
(* The MES side grows while it is read (rows are flagged as deleted, not   *)
(* taken away), answers short, or fails; a reader's turn may be stopped at *)
(* every await.  A row is its number in its directory.                     *)
(***************************************************************************)
EXTENDS Naturals, Sequences, FiniteSets, Absent

CONSTANTS
    Factories,          \* tenants
    DirReaders,         \* turns, each reading once
    Bindings,           \* the assignments of turns to factories to look at
    Entities,           \* styles or bills that a form is asked for: numbers from 1
    Inquiries,          \* what turns ask for: sequences of keys, more than one only of forms
    InitialRows,        \* rows of every directory at first
    DirTtl,             \* _TTL: how long a snapshot is used
    LinePage,           \* rows of a page of hanging lines
    MaxLinePages,       \* max_pages
    MaxDirRows,         \* max_rows
    MaxEdits,           \* bound: rows added at the MES
    MaxDirFaults,       \* bound: failing statements and bad answers
    MaxStops,           \* bound: turns stopped
    DirHorizon          \* bound: the clock stops here

VARIABLES
    factoryOf,          \* [DirReaders -> Factories]: whose credential a turn carries
    dnow,
    added,              \* the rows that directories have gained, and when
    lines,              \* the identity_org lines of the cache
    inflight,           \* the futures of MesDictionarySource: [factory, key, leader]
    read,               \* each turn's read
    dspent               \* what the bounds have counted

dvars == <<factoryOf, dnow, added, lines, inflight, read, dspent>>

\* A family stands for the datasets that are requested alike: "types" for those of one
\* request for the whole factory, "form" for those of one request per entity.
DirKey(family, entity) == [family |-> family, entity |-> entity]
Rosters == {DirKey("employees", 0), DirKey("depts", 0)}
Dictionaries ==
    {DirKey("types", 0), DirKey("lines", 0)} \cup {DirKey("form", e) : e \in Entities}
DirKeys == Rosters \cup Dictionaries

ASSUME DirectoryAssumption ==
    /\ InitialRows \in Nat /\ DirTtl \in Nat /\ None \notin Nat
    /\ Bindings \subseteq [DirReaders -> Factories]
    /\ Inquiries \subseteq Seq(DirKeys) \ {<<>>}

NoPages == [page |-> 1, total |-> None, rows |-> {}]
NoRead == [pc |-> "idle", factory |-> None, todo |-> <<>>, on |-> None, pages |-> NoPages,
           got |-> None, parts |-> <<>>, stopped |-> FALSE]

\* The rows a directory has now, and the numbers of rows it had at an instant.
Gained(f, k) == {a \in added : a.factory = f /\ a.key = k}
Held(f, k) == InitialRows + Cardinality(Gained(f, k))
HeldAt(f, k, t) ==
    {InitialRows + n : n \in Cardinality({a \in Gained(f, k) : a.at < t})
                             .. Cardinality({a \in Gained(f, k) : a.at <= t})}

DirectoriesInit ==
    /\ factoryOf \in Bindings
    /\ dnow = 0
    /\ added = {}
    /\ lines = [f \in Factories |-> [k \in DirKeys |-> None]]
    /\ inflight = {}
    /\ read = [r \in DirReaders |-> NoRead]
    /\ dspent = [edits |-> 0, faults |-> 0, stops |-> 0]

DirFault == dspent.faults < MaxDirFaults /\ dspent' = [dspent EXCEPT !.faults = @ + 1]
NoDirFault == UNCHANGED dspent

KeyOf(r) == Head(read[r].todo)
Working(r) == read[r].pc \in {"lookup", "request", "store"}

Snapshot(f, k, rows, total, complete, reason) ==
    [factory |-> f, key |-> k, rows |-> rows, total |-> total, at |-> dnow,
     complete |-> complete, reason |-> reason]

\* A future that raises, or that is cancelled, in place of a snapshot.
Raised == [complete |-> FALSE, reason |-> "raised"]
Cancelled == [complete |-> FALSE, reason |-> "cancelled"]

(***************************************************************************)
(* Asking.                                                                 *)
(***************************************************************************)
\* The first reader of a dictionary leads, the others wait for it; a roster is read by
\* everybody for himself.
Ensure(r, rd) ==
    LET k == Head(rd.todo)
        pending == {i \in inflight : i.factory = rd.factory /\ i.key = k} IN
    IF k \in Rosters
    THEN /\ read' = [read EXCEPT ![r] = [rd EXCEPT !.pc = "lookup"]]
         /\ UNCHANGED inflight
    ELSE IF pending # {}
    THEN /\ read' = [read EXCEPT ![r] = [rd EXCEPT !.pc = "wait",
                                                   !.on = (CHOOSE i \in pending : TRUE).leader]]
         /\ UNCHANGED inflight
    ELSE /\ read' = [read EXCEPT ![r] = [rd EXCEPT !.pc = "lookup"]]
         /\ inflight' = inflight \cup {[factory |-> rd.factory, key |-> k, leader |-> r]}

\* A dictionary of another factory than the credential's is refused before anything is read.
FetchDirectory(r, f, keys) ==
    /\ read[r].pc = "idle"
    /\ Head(keys) \in Rosters => f = factoryOf[r]
    /\ IF f # factoryOf[r]
       THEN /\ read' = [read EXCEPT ![r].pc = "refused"]
            /\ UNCHANGED inflight
       ELSE Ensure(r, [NoRead EXCEPT !.factory = factoryOf[r], !.todo = keys])
    /\ UNCHANGED <<dnow, added, lines, dspent>>

(***************************************************************************)
(* The shared cache.                                                       *)
(***************************************************************************)
\* A dictionary's line carries its own date and is judged by it; a roster's only
\* leaves with the store's expiry.
Decode(k, line) ==
    /\ line # None /\ line.expires > dnow
    /\ k \in Rosters \/ dnow - line.snapshot.at < DirTtl

\* Mutant of Resolve: an exception is raised to the leader's caller only.
ResolveAnswers(r, outcome) ==
    /\ inflight' = {i \in inflight : i.leader # r}
    /\ read' = [x \in DirReaders |->
          IF x = r \/ (read[x].pc = "wait" /\ read[x].on = r /\ outcome.reason # "raised")
          THEN [read[x] EXCEPT !.pc = "woken", !.got = outcome, !.on = None] ELSE read[x]]

\* The leader's outcome, snapshot, error or cancellation, is everybody's.
Resolve(r, outcome) ==
    /\ inflight' = {i \in inflight : i.leader # r}
    /\ read' = [x \in DirReaders |->
          IF x = r \/ (read[x].pc = "wait" /\ read[x].on = r)
          THEN [read[x] EXCEPT !.pc = "woken", !.got = outcome, !.on = None] ELSE read[x]]

LookupDirectory(r) ==
    LET line == lines[read[r].factory][KeyOf(r)] IN
    /\ read[r].pc = "lookup"
    /\ \/ /\ Decode(KeyOf(r), line) /\ NoDirFault
          /\ Resolve(r, line.snapshot)
       \/ /\ (~Decode(KeyOf(r), line) /\ NoDirFault) \/ DirFault
          /\ read' = [read EXCEPT ![r].pc = "request"]
          /\ UNCHANGED inflight
    /\ UNCHANGED <<dnow, added, lines>>

PutLine(r) ==
    /\ read[r].pc = "store"
    /\ \/ /\ NoDirFault
          /\ lines' = [lines EXCEPT ![read[r].factory][KeyOf(r)] =
                [snapshot |-> read[r].got, expires |-> dnow + DirTtl]]
       \/ DirFault /\ UNCHANGED lines
    /\ Resolve(r, read[r].got)
    /\ UNCHANGED <<dnow, added>>

\* The lines of a factory are invalidated, or the store drops them.
InvalidateBaseData(f) ==
    /\ \E k \in DirKeys : lines[f][k] # None
    /\ DirFault
    /\ lines' = [lines EXCEPT ![f] = [k \in DirKeys |-> None]]
    /\ UNCHANGED <<dnow, added, inflight, read>>

(***************************************************************************)
(* The MES requests.                                                       *)
(***************************************************************************)
\* A complete snapshot goes to the cache first, an incomplete one to the readers only.
Take(r, snapshot) ==
    IF snapshot.complete
    THEN read' = [read EXCEPT ![r].pc = "store", ![r].got = snapshot] /\ UNCHANGED inflight
    ELSE Resolve(r, snapshot)

\* Mutant of Project: the rows are taken for all there are.
ProjectUncounted(f, k, rows, total) == Snapshot(f, k, rows, total, TRUE, None)

\* Every collection of the answer has to have as many rows as it says.
Project(f, k, rows, total) ==
    IF Cardinality(rows) > MaxDirRows THEN Snapshot(f, k, {}, total, FALSE, "row_budget_exhausted")
    ELSE IF Cardinality(rows) # total THEN Snapshot(f, k, rows, total, FALSE, "collection_incomplete")
    ELSE Snapshot(f, k, rows, total, TRUE, None)

\* An answer: all rows from..to of n, or one less.
Replies(n, from, to) == {(from..to) \cap (1..n)} \cup {((from..to) \cap (1..n)) \ {n}}

LoadFamily(r) ==
    LET f == read[r].factory
        k == KeyOf(r)
        n == Held(f, k) IN
    /\ read[r].pc = "request" /\ k.family \in {"types", "form"}
    /\ \E rows \in Replies(n, 1, n) :
          /\ IF rows = 1..n THEN NoDirFault ELSE DirFault
          /\ Take(r, Project(f, k, rows, n))
    /\ UNCHANGED <<dnow, added, lines>>

\* The hanging lines come page by page; every page has to agree with the first.
FetchHangingLines(r) ==
    LET f == read[r].factory
        k == KeyOf(r)
        w == read[r].pages
        n == Held(f, k)
        Fails(total, reason) == Resolve(r, Snapshot(f, k, {}, total, FALSE, reason))
    IN
    /\ read[r].pc = "request" /\ k.family = "lines"
    /\ \E page \in {w.page, 1} :
       \E rows \in Replies(n, (page - 1) * LinePage + 1, page * LinePage) :
          /\ IF page = w.page /\ rows = ((page - 1) * LinePage + 1 .. page * LinePage) \cap (1..n)
             THEN NoDirFault ELSE DirFault
          /\ IF w.total \notin {None, n} THEN Fails(n, "total_drift")
             ELSE IF n > MaxDirRows THEN Fails(n, "row_budget_exhausted")
             ELSE IF rows \cap w.rows # {} THEN Fails(n, "duplicate_page")
             ELSE IF Cardinality(w.rows \cup rows) = n
             THEN Take(r, Snapshot(f, k, w.rows \cup rows, n, TRUE, None))
             ELSE IF rows = {} THEN Fails(n, "missing_pages")
             ELSE IF w.page = MaxLinePages THEN Fails(n, "page_budget_exhausted")
             ELSE /\ read' = [read EXCEPT ![r].pages =
                        [page |-> w.page + 1, total |-> n, rows |-> w.rows \cup rows]]
                  /\ UNCHANGED inflight
    /\ UNCHANGED <<dnow, added, lines>>

\* Employees have to be complete, departments are taken as they come.
FetchRoster(r) ==
    LET f == read[r].factory
        k == KeyOf(r)
        n == Held(f, k) IN
    /\ read[r].pc = "request" /\ k \in Rosters
    /\ \E rows \in Replies(n, 1, n) :
          /\ IF rows = 1..n THEN NoDirFault ELSE DirFault
          /\ IF rows # 1..n /\ k.family = "employees" THEN Resolve(r, Raised)
             ELSE Take(r, Snapshot(f, k, rows, n, TRUE, None))
    /\ UNCHANGED <<dnow, added, lines>>

\* The request fails, or the answer breaks the schema or a relation between its rows.
RequestRaises(r) ==
    /\ read[r].pc = "request" /\ DirFault
    /\ Resolve(r, Raised)
    /\ UNCHANGED <<dnow, added, lines>>

(***************************************************************************)
(* Returning.                                                              *)
(***************************************************************************)
RowsOf(parts) == UNION {{i} \X parts[i].rows : i \in DOMAIN parts}

Returns(r, pc, parts) ==
    /\ read' = [read EXCEPT ![r] = [@ EXCEPT !.pc = pc, !.parts = parts, !.got = None]]
    /\ UNCHANGED inflight

ResumeFetch(r) ==
    LET rd == read[r]
        parts == Append(rd.parts, rd.got) IN
    /\ rd.pc = "woken"
    /\ IF rd.got = Cancelled THEN Returns(r, "torn", <<>>)
       ELSE IF rd.got = Raised THEN Returns(r, "failed", <<>>)
       ELSE IF ~rd.got.complete \/ Cardinality(RowsOf(parts)) > MaxDirRows
       THEN Returns(r, "incomplete", <<>>)
       ELSE IF Len(rd.todo) = 1 THEN Returns(r, "complete", parts)
       ELSE Ensure(r, [rd EXCEPT !.todo = Tail(@), !.parts = parts, !.got = None, !.pages = NoPages])
    /\ UNCHANGED <<dnow, added, lines, dspent>>

\* The turn is cancelled or out of time while it awaits.  A follower only gives up its
\* own wait (asyncio.shield); a leader cancels the future.
StopReader(r) ==
    LET stopped == [read[r] EXCEPT !.pc = "stopped", !.stopped = TRUE, !.on = None, !.got = None] IN
    /\ Working(r) \/ read[r].pc \in {"wait", "woken"}
    /\ dspent.stops < MaxStops
    /\ dspent' = [dspent EXCEPT !.stops = @ + 1]
    /\ inflight' = {i \in inflight : i.leader # r}
    /\ read' = [x \in DirReaders |->
          IF x = r THEN stopped
          ELSE IF read[x].pc = "wait" /\ read[x].on = r
          THEN [read[x] EXCEPT !.pc = "woken", !.got = Cancelled, !.on = None] ELSE read[x]]
    /\ UNCHANGED <<dnow, added, lines>>

(***************************************************************************)
(* The environment.                                                        *)
(***************************************************************************)
\* A row is added while somebody reads the directory; earlier or later is another instance.
AddRow(f, k) ==
    /\ \E r \in DirReaders : Working(r) /\ read[r].factory = f /\ KeyOf(r) = k
    /\ dspent.edits < MaxEdits
    /\ dspent' = [dspent EXCEPT !.edits = @ + 1]
    /\ added' = added \cup {[factory |-> f, key |-> k, at |-> dnow, row |-> Held(f, k) + 1]}
    /\ UNCHANGED <<dnow, lines, inflight, read>>

DirTick ==
    /\ dnow < DirHorizon /\ dnow' = dnow + 1
    /\ UNCHANGED <<added, lines, inflight, read, dspent>>

DirectoriesNext ==
    /\ UNCHANGED factoryOf
    /\ \/ \E r \in DirReaders :
             \/ \E f \in Factories, keys \in Inquiries : FetchDirectory(r, f, keys)
             \/ LookupDirectory(r) \/ PutLine(r) \/ LoadFamily(r) \/ FetchHangingLines(r)
             \/ FetchRoster(r) \/ RequestRaises(r) \/ ResumeFetch(r) \/ StopReader(r)
       \/ \E f \in Factories : InvalidateBaseData(f) \/ \E k \in DirKeys : AddRow(f, k)
       \/ DirTick

DirectoriesSpec == DirectoriesInit /\ [][DirectoriesNext]_dvars

(***************************************************************************)
(* Properties.                                                             *)
(***************************************************************************)
\* "Every named collection must prove completeness" (MesDictionarySource): what a turn
\* is handed as complete is, part by part, exactly what its own factory's directory held
\* at the moment the part is dated with, whoever fetched it and however it came: short
\* answers, pages of a growing directory, lines written by others, a shared fetch.  The
\* department roster is left out: `list_depts` does not ask whether it is complete.
CompleteIsTheDirectory ==
    \A r \in DirReaders : read[r].pc = "complete" =>
        \A i \in DOMAIN read[r].parts :
            LET part == read[r].parts[i] IN
            part.key.family # "depts" =>
                /\ part.rows = 1..part.total
                /\ part.total \in HeldAt(factoryOf[r], part.key, part.at)

\* `_ensure_family`: a turn that waits for another's fetch waits for one that is still
\* under way and that is about the dictionary it wants; whatever ends the fetch ends the
\* wait.
WaitIsForLiveFetch ==
    \A r \in DirReaders : read[r].pc = "wait" =>
        /\ Working(read[r].on)
        /\ [factory |-> factoryOf[r], key |-> KeyOf(r), leader |-> read[r].on] \in inflight

\* "Shutdown drain timeout only: a connection can never cancel this task" (executor.py,
\* `_execute`): a turn is not torn down by the cancellation of another turn.
OthersNeverTear == \A r \in DirReaders : read[r].pc = "torn" => read[r].stopped
==============================================================================
