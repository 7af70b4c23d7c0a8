------------------------------- MODULE Listings -------------------------------
(***************************************************************************)
(* Paged listings.  Query history, a conversation's turns and messages     *)
(* (oldest first) and the conversations of a user (latest activity first)  *)
(* are read page by page with a keyset cursor: the position of the last    *)
(* row of the page, present only when the statement found one row more     *)
(* than the limit.  The client walks the pages while turns are recorded,   *)
(* conversations are created and touched, and history entries deleted.     *)
(***************************************************************************)
EXTENDS Naturals, Sequences, FiniteSets, Absent

CONSTANTS
    People, Reader,     \* owners, and the one whose listing is walked
    Listed,             \* the listings to walk: subset of {"history", "turns", "messages", "conversations"}
    RowIds,             \* 1..n: what breaks ties between rows of one instant
    Writers,            \* requests that record or touch a row
    WriterOf,           \* [Writers -> People]: whose request each is
    PageLimit,          \* rows of a page
    MaxConversations,   \* _MAX_CONVERSATIONS_PER_USER
    Excluded,           \* message kinds the reader asked to leave out
    ListHorizon         \* bound: the clock stops here

\* A row of a listing, and what a cursor encodes of it.
ListRow == [owner : People, at : Nat, id : Nat, kind : {"plain_text", "phase", None}]
ListKey == [at : Nat, id : Nat]

ASSUME ListingAssumption == /\ IsFiniteSet(People) /\ Reader \in People /\ WriterOf \in [Writers -> People]
                            /\ RowIds \subseteq Nat /\ PageLimit \in Nat \ {0}
                            /\ None \notin ListKey

VARIABLES
    listing,            \* which listing this behaviour walks
    lnow,
    table,              \* the rows: [owner, at, id, kind]
    minted,             \* ids given out: all but a conversation's are random, never used twice
    pending,            \* each writer: what it read before its statement
    walk                \* the walk of the first owner's pages

lvars == <<listing, lnow, table, minted, pending, walk>>

NoWrite == [step |-> "idle", row |-> None]

ListingsInit ==
    /\ listing \in Listed
    /\ lnow = 0
    /\ table = {[owner |-> o, at |-> 0, id |-> 0, kind |-> "plain_text"] : o \in People \ {Reader}}
    /\ minted = {}
    /\ pending = [w \in Writers |-> NoWrite]
    /\ walk = [step |-> "idle", cursor |-> None, due |-> {}, pages |-> <<>>]

(***************************************************************************)
(* The statements.                                                         *)
(***************************************************************************)
\* Row order: the instant first, the id among rows of one instant.
Before(r, s) == r.at < s.at \/ (r.at = s.at /\ r.id < s.id)

\* The order of the listing: ascending, descending for conversations.
Precedes(r, s) == IF listing = "conversations" THEN Before(s, r) ELSE Before(r, s)

Owned(o) == {r \in table : r.owner = o}

\* The first n of the rows that follow the cursor.
FirstAfter(rs, cursor, n) ==
    LET after == {r \in rs : cursor = None \/ Precedes(cursor, r)} IN
    {r \in after : Cardinality({s \in after : Precedes(s, r)}) < n}

SelectHistory(o, cursor, n) == FirstAfter(Owned(o), cursor, n)

\* The reader names the kinds to leave out; they are subtracted in the statement, not
\* from the page.
Kept(r) == r.kind \notin Excluded

SelectMessages(o, cursor, n) == FirstAfter({r \in Owned(o) : Kept(r)}, cursor, n)

SelectInteractions(o, cursor, n) == FirstAfter(Owned(o), cursor, n)

SelectConversations(o, cursor, n) == FirstAfter(Owned(o), cursor, n)

\* What a cursor encodes: the order's key of a row.
Position(r) == [at |-> r.at, id |-> r.id]

Last(rs) == CHOOSE r \in rs : \A s \in rs : s = r \/ Precedes(s, r)

\* Mutant of NextCursor: the position of the row beyond the page.
CursorPastPage(found, page) ==
    IF Cardinality(found) > PageLimit /\ page # {} THEN Position(Last(found)) ELSE None

NextCursor(found, page) ==
    IF Cardinality(found) > PageLimit /\ page # {} THEN Position(Last(page)) ELSE None

\* One row more than the page is asked for, to learn whether another page follows.
Paged(found) ==
    LET page == FirstAfter(found, None, PageLimit) IN [rows |-> page, next |-> NextCursor(found, page)]

ListHistory(o, cursor) == Paged(SelectHistory(o, cursor, PageLimit + 1))

ListMessages(o, cursor) == Paged(SelectMessages(o, cursor, PageLimit + 1))

ListInteractions(o, cursor) == Paged(SelectInteractions(o, cursor, PageLimit + 1))

ListConversations(o, cursor) == Paged(SelectConversations(o, cursor, PageLimit + 1))

(***************************************************************************)
(* The reader.                                                             *)
(***************************************************************************)
\* Rows a walk that begins now has to show.
Due == {r.id : r \in {x \in Owned(Reader) : listing = "messages" => Kept(x)}}

Walked(page) ==
    /\ walk' = [step |-> IF page.next = None THEN "done" ELSE "reading",
                cursor |-> page.next,
                due |-> IF walk.step = "idle" THEN Due ELSE walk.due,
                pages |-> Append(walk.pages, page.rows)]
    /\ UNCHANGED <<listing, lnow, table, minted, pending>>

\* The client asks for page after page.
ReadHistory == listing = "history" /\ walk.step # "done" /\ Walked(ListHistory(Reader, walk.cursor))

ReadMessages == listing = "messages" /\ walk.step # "done" /\ Walked(ListMessages(Reader, walk.cursor))

ReadConversations ==
    listing = "conversations" /\ walk.step # "done" /\ Walked(ListConversations(Reader, walk.cursor))

\* Here the service itself walks, a statement per page, before it answers.
ConversationTurns ==
    listing = "turns" /\ walk.step # "done" /\ Walked(ListInteractions(Reader, walk.cursor))

(***************************************************************************)
(* The writers.                                                            *)
(***************************************************************************)
Ids(o) == {r.id : r \in {x \in table : x.owner = o}}

\* History, turns and messages are stamped when they are made and committed later,
\* perhaps after a row that was stamped later.
Stamp(w, o, id, kind) ==
    /\ listing # "conversations" /\ pending[w].step = "idle" /\ id \notin minted
    /\ minted' = minted \cup {id}
    /\ pending' = [pending EXCEPT ![w] =
          [step |-> "commit", row |-> [owner |-> o, at |-> lnow, id |-> id, kind |-> kind]]]
    /\ UNCHANGED <<listing, lnow, table, walk>>

\* Creating a conversation: it is looked up and the cap is checked in statements of
\* their own, before the insert.
CreateConversation(w, o, id) ==
    /\ listing = "conversations" /\ pending[w].step = "idle"
    /\ id \notin Ids(o) /\ Cardinality(Ids(o)) < MaxConversations
    /\ pending' = [pending EXCEPT ![w] =
          [step |-> "commit", row |-> [owner |-> o, at |-> lnow, id |-> id, kind |-> None]]]
    /\ UNCHANGED <<listing, lnow, table, minted, walk>>

\* ON CONFLICT DO NOTHING: of two writers of one id the first wins.  A statement
\* that fails leaves nothing.
Commit(w) ==
    LET row == pending[w].row IN
    /\ pending[w].step = "commit"
    /\ table' = table \/ (row.id \notin Ids(row.owner) /\ table' = table \cup {row})
    /\ pending' = [pending EXCEPT ![w] = NoWrite]
    /\ UNCHANGED <<listing, lnow, minted, walk>>

\* A turn of a conversation takes the clock and touches it when it commits: the
\* later of the two instants stays.
Turn(w, row) ==
    /\ listing = "conversations" /\ pending[w].step = "idle" /\ row \in table
    /\ pending' = [pending EXCEPT ![w] = [step |-> "touch", row |-> [row EXCEPT !.at = lnow]]]
    /\ UNCHANGED <<listing, lnow, table, minted, walk>>

TouchConversation(w) ==
    LET turn == pending[w].row
        old == CHOOSE r \in table : r.owner = turn.owner /\ r.id = turn.id
        moved == turn.at > old.at IN
    /\ pending[w].step = "touch"
    /\ table' = IF moved THEN (table \ {old}) \cup {turn} ELSE table
    /\ walk' = IF moved /\ turn.owner = Reader THEN [walk EXCEPT !.due = @ \ {turn.id}] ELSE walk
    /\ pending' = [pending EXCEPT ![w] = NoWrite]
    /\ UNCHANGED <<listing, lnow, minted>>

DeleteHistory(row) ==
    /\ listing = "history" /\ row \in table
    /\ table' = table \ {row}
    /\ walk' = IF row.owner = Reader THEN [walk EXCEPT !.due = @ \ {row.id}] ELSE walk
    /\ UNCHANGED <<listing, lnow, minted, pending>>

ListTick == /\ lnow < ListHorizon /\ lnow' = lnow + 1
            /\ UNCHANGED <<listing, table, minted, pending, walk>>

Kinds == IF listing = "messages" THEN {"plain_text", "phase"} ELSE {None}

ListingsNext ==
    \/ ReadHistory \/ ReadMessages \/ ReadConversations \/ ConversationTurns
    \/ \E w \in Writers, id \in RowIds :
          \/ CreateConversation(w, WriterOf[w], id)
          \/ \E kind \in Kinds : Stamp(w, WriterOf[w], id, kind)
    \/ \E w \in Writers : \/ Commit(w) \/ TouchConversation(w)
                          \/ \E row \in table : row.owner = WriterOf[w] /\ Turn(w, row)
    \/ \E row \in table : DeleteHistory(row)
    \/ ListTick

ListingsSpec == ListingsInit /\ [][ListingsNext]_lvars

(***************************************************************************)
(* Properties.                                                             *)
(***************************************************************************)
\* A walk over the pages shows every row that was there when it began, and was
\* neither deleted nor moved by a touch since; no row twice; only the reader's own
\* rows, and none of a kind left out.  Rows of one instant, rows committed behind
\* the cursor, the deletion of the row the cursor names and a last page that is
\* exactly full do not change this.
WalkShowsEverythingOnce ==
    LET shown(i) == {r.id : r \in walk.pages[i]} IN
    /\ \A i \in 1..Len(walk.pages) :
          /\ \A r \in walk.pages[i] : r.owner = Reader
                                      /\ (listing = "messages" => r.kind \notin Excluded)
          /\ \A j \in 1..(i - 1) : shown(i) \cap shown(j) = {}
          /\ i < Len(walk.pages) => walk.pages[i] # {}
    /\ walk.step = "done" => walk.due \subseteq UNION {shown(i) : i \in 1..Len(walk.pages)}
==============================================================================
