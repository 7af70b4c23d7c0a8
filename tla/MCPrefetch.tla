----------------------------- MODULE MCPrefetch -----------------------------
(***************************************************************************)
(* Small instances of Prefetch for TLC.                                    *)
(***************************************************************************)
EXTENDS Prefetch

CONSTANTS p1, d1, d2, w1, w2

\* The calls run in one process and meet at its lock.
MCHome == [c \in Callers |-> p1]

Asking(op, owner, depts, grouped, l2, from, to) ==
  [op |-> op, owner |-> owner, narrowed |-> depts # Depts, depts |-> depts,
   grouped |-> grouped, l2 |-> l2, window |-> [from |-> from, to |-> to]]

\* The owner about today, the head of a department about the day before yesterday, and
\* the analysis about the whole factory's today.
MCQuestions ==
  {Asking("payroll", TRUE, Depts, FALSE, FALSE, 0, 0),
   Asking("progress", FALSE, {d1}, TRUE, FALSE, -2, -2),
   Asking("payroll", TRUE, Depts, FALSE, TRUE, 0, 0)}

\* A row of today and a late one of yesterday.
MCEntryKinds == {<<0, d1>>, <<-1, d2>>}

Running_as(m, workers, rows, requests, failures) ==
  [mode |-> m, workers |-> workers, entries |-> rows, calls |-> requests, faults |-> failures]

\* Two requests together, one with failures, one with a prefetch beside it, a failing
\* prefetch, and two replicas racing for the day.
MCScenarios ==
  {Running_as("readwrite", {}, 1, 2, 0), Running_as("shadow", {}, 1, 2, 0),
   Running_as("readwrite", {}, 2, 1, 0),
   Running_as("readwrite", {}, 1, 1, 2), Running_as("shadow", {}, 1, 1, 1),
   Running_as("off", {}, 1, 1, 1), Running_as("readwrite", {}, 0, 2, 1),
   Running_as("readwrite", {w1}, 1, 1, 0), Running_as("read", {}, 1, 1, 1),
   Running_as("readwrite", {w1}, 1, 0, 1),
   Running_as("readwrite", {w1, w2}, 0, 0, 1)}

=============================================================================
