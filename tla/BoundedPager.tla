---------------------------- MODULE BoundedPager ----------------------------
(***************************************************************************)
(* The bounded pager (data_api/pagination.py) over the adapter: a walk     *)
(* asks for pages until the rows it holds are as many as the source says   *)
(* there are. The source is a sequence of distinct rows that may grow and  *)
(* shrink between two pages.                                               *)
(***************************************************************************)
EXTENDS MesAdapter, Sequences, SequencesExt

CONSTANTS
    PageSize, PageSizeCeiling, MaxPages, MaxRows,   \* PagerBudget
    Rows                                            \* rows the source may ever hold

ASSUME PagerAssumption ==
    /\ PageSize \in Nat \ {0} /\ PageSizeCeiling \in Nat \ {0}
    /\ MaxPages \in Nat \ {0} /\ MaxRows \in Nat \ {0}

VARIABLES
    source,     \* the rows in the MES, in its order
    paged,      \* the operation honours page and size
    walk        \* fetch_all of each task

pagerVars == <<source, paged, walk>>

Reasons == {"page_budget_exhausted", "row_budget_exhausted", "row_overflow", "total_drift",
            "duplicate_page", "missing_pages"}

NoWalk == [pc |-> "idle", items |-> <<>>, seen |-> {}, expected |-> None, page |-> 1,
           size |-> PageSize, resized |-> FALSE, complete |-> FALSE, reason |-> None,
           first |-> <<>>, shrank |-> FALSE]

\* first and shrank are history: the source at the first answer, and whether rows were taken
\* away while the walk went on.
WalkOK(w) ==
    /\ w.pc \in {"idle", "next", "asking", "done", "failed"}
    /\ w.items \in Seq(Rows) /\ w.seen \subseteq SUBSET Rows
    /\ w.expected \in Nat \cup {None} /\ w.page \in 1..(MaxPages + 1)
    /\ w.size \in {PageSize, PageSizeCeiling} /\ w.resized \in BOOLEAN
    /\ w.complete \in BOOLEAN /\ w.reason \in Reasons \cup {None}
    /\ w.first \in Seq(Rows) /\ w.shrank \in BOOLEAN

PagerTypeOK == source \in Seq(Rows) /\ paged \in BOOLEAN /\ \A a \in Actors : WalkOK(walk[a])

-----------------------------------------------------------------------------

End(w, complete, reason, items) ==
    [w EXCEPT !.pc = "done", !.complete = complete, !.reason = reason, !.items = items]

FirstRows(items, n) == SubSeq(items, 1, IF Len(items) < n THEN Len(items) ELSE n)

Least(m, n) == IF m < n THEN m ELSE n

\* The budgets are looked at before each page.
OutOfBudget(w) == w.page > MaxPages \/ Len(w.items) >= MaxRows

BudgetEnd(w) ==
    IF w.page > MaxPages
    THEN End(w, FALSE, "page_budget_exhausted", w.items)
    ELSE End(w, FALSE, "row_budget_exhausted", FirstRows(w.items, MaxRows))

\* The first answer fixes the total; one page may already be too much, or everything, and
\* a window of more than one page is walked again from its start with the larger size.
Escalates(w, total) ==
    ~w.resized /\ total > w.size /\ PageSizeCeiling > w.size

FirstAnswer(w, page, total) ==
    LET known == [w EXCEPT !.expected = total]
    IN IF Len(page) > total
       THEN End(known, FALSE, "row_overflow", FirstRows(page, Least(total, MaxRows)))
       ELSE IF Len(page) > MaxRows
       THEN End(known, FALSE, "row_budget_exhausted", FirstRows(page, MaxRows))
       ELSE IF Len(page) = total THEN End(known, TRUE, None, page)
       ELSE IF Escalates(w, total)
       THEN [known EXCEPT !.pc = "next", !.size = PageSizeCeiling, !.resized = TRUE,
                          !.items = <<>>, !.seen = {}, !.page = 1]
       ELSE [known EXCEPT !.pc = "rows"]

\* A later answer, or the first one when it is kept: add its rows and see how many there are.
AddRows(w, page) ==
    LET held == w.items \o page
        more == [w EXCEPT !.items = held, !.seen = @ \cup {ToSet(page)}, !.pc = "next",
                          !.page = @ + 1]
    IN IF page # <<>> /\ ToSet(page) \in w.seen
       THEN End(w, FALSE, "duplicate_page", w.items)
       ELSE IF Len(held) > w.expected
       THEN End(w, FALSE, "row_overflow", FirstRows(held, Least(w.expected, MaxRows)))
       ELSE IF Len(held) > MaxRows
       THEN End(w, FALSE, "row_budget_exhausted", FirstRows(held, MaxRows))
       ELSE IF Len(held) = w.expected THEN End(w, TRUE, None, held)
       ELSE IF page = <<>> THEN End(w, FALSE, "missing_pages", held)
       ELSE more

\* Mutant: the total of the first page is believed.
AnswerTrusting(w, page, total) ==
    IF w.expected = None
    THEN LET known == FirstAnswer(w, page, total)
         IN IF known.pc = "rows" THEN AddRows(known, page) ELSE known
    ELSE AddRows(w, page)

Answer(w, page, total) ==
    CASE w.expected = None  -> LET known == FirstAnswer(w, page, total)
                               IN IF known.pc = "rows" THEN AddRows(known, page) ELSE known
      [] w.expected # None /\ w.expected # total -> End(w, FALSE, "total_drift", w.items)
      [] OTHER              -> AddRows(w, page)

\* What the MES returns for a page; an operation without pagination returns everything.
PageOf(w) ==
    IF paged THEN SubSeq(source, (w.page - 1) * w.size + 1, Least(w.page * w.size, Len(source)))
             ELSE source

-----------------------------------------------------------------------------

\* fetch_resource begins its walk.
StartWalk(a) ==
    /\ walk[a].pc = "idle"
    /\ walk' = [walk EXCEPT ![a] = [NoWalk EXCEPT !.pc = "next"]]
    /\ UNCHANGED <<gatewayVars, adapterVars, source, paged>>

\* The next page is asked for, or a budget ends the walk.
NextPage(a) ==
    /\ walk[a].pc = "next"
    /\ IF OutOfBudget(walk[a])
       THEN /\ walk' = [walk EXCEPT ![a] = BudgetEnd(@)]
            /\ UNCHANGED <<gatewayVars, adapterVars>>
       ELSE /\ walk' = [walk EXCEPT ![a].pc = "asking"]
            /\ Execute(a)
    /\ UNCHANGED <<source, paged>>

\* The MES answers with rows and a total; the token is good or the call has failed.
PageAnswered(a) ==
    /\ walk[a].pc = "asking" /\ call[a].pc = "sending" /\ TokenAccepted(ctx[a])
    /\ LET w == IF walk[a].expected = None THEN [walk[a] EXCEPT !.first = source] ELSE walk[a]
       IN walk' = [walk EXCEPT ![a] = Answer(w, PageOf(w), Len(source))]
    /\ call' = [call EXCEPT ![a] = NoCall]
    /\ UNCHANGED <<gatewayVars, requests, disabled, faults, default, source, paged>>

\* Mutant: a failed page is asked for again.
CallAgain(a) ==
    /\ walk[a].pc = "asking" /\ call[a].pc = "failed"
    /\ walk' = [walk EXCEPT ![a].pc = "next"]
    /\ call' = [call EXCEPT ![a] = NoCall]
    /\ UNCHANGED <<gatewayVars, requests, disabled, faults, default, source, paged>>

\* A failed call ends the walk with its error.
CallFailed(a) ==
    /\ walk[a].pc = "asking" /\ call[a].pc = "failed"
    /\ walk' = [walk EXCEPT ![a].pc = "failed"]
    /\ UNCHANGED <<gatewayVars, adapterVars, source, paged>>

\* The factory adds a row or takes one away, at any place in the order.
Enter(row, i) ==
    /\ row \notin ToSet(source)
    /\ source' = InsertAt(source, i, row)
    /\ UNCHANGED <<gatewayVars, adapterVars, walk, paged>>

Withdraw(i) ==
    /\ source' = RemoveAt(source, i)
    /\ walk' = [a \in Actors |-> [walk[a] EXCEPT !.shrank = @ \/ walk[a].expected # None]]
    /\ UNCHANGED <<gatewayVars, adapterVars, paged>>

=============================================================================
