----------------------------- MODULE MCMesAccess -----------------------------
(***************************************************************************)
(* Small instances of MesAccess for TLC. Each scenario makes one of the    *)
(* hard cases happen: bundles that expire while two tasks fetch, a source  *)
(* that changes between pages, an owner whose facts change, a faulty MES.  *)
(***************************************************************************)
EXTENDS MesAccess

CONSTANTS u1, u2, c1, c2, f1, f2, q1, sn, r1, r2, r3, r4, r5, owns, chief, manages, unknown

MCActors == {f1, f2, q1, sn}

\* Who the credentials stand for in the beginning.
UserManages == [c \in {c1, c2} |-> [who |-> IF c = c1 THEN u1 ELSE u2, facts |-> manages]]
UserOwns == [c \in {c1, c2} |-> [who |-> u1, facts |-> IF c = c1 THEN manages ELSE owns]]
UserIsChief == [UserOwns EXCEPT ![c2].facts = chief]
OtherOwns == [UserManages EXCEPT ![c2].facts = owns]

Quiet == [fetches |-> {f1}, ticks |-> 0, changes |-> 0, entered |-> 0, withdrawn |-> 0,
          faults |-> 0, paged |-> {TRUE}, source |-> <<r1>>, requests |-> {q1}, snapshots |-> 0,
          mes |-> {UserManages}]

\* Two fetches of two pages each while bundles expire and facts change.
Tokens == [Quiet EXCEPT !.fetches = {f1, f2}, !.ticks = 2, !.changes = 1, !.source = <<r1, r2>>]

\* One walk over a source that changes, of every size up to the budgets and past them.
Pages(n) == [Quiet EXCEPT !.entered = 1, !.withdrawn = 1,
                          !.source = SubSeq(<<r1, r2, r3, r4>>, 1, n),
                          !.paged = IF n > 2 THEN {TRUE, FALSE} ELSE {TRUE}]

\* The owner fetches once while two credentials are given to others, or twice while one is.
Owners(n) == [Quiet EXCEPT !.fetches = {}, !.snapshots = n, !.changes = 3 - n, !.ticks = 1,
                           !.mes = {UserManages, UserOwns, OtherOwns}]

\* The token of the owner names no department, so that its authorization waits for the
\* directory while the same user signs in with the other credential.
Chiefs == [Quiet EXCEPT !.fetches = {}, !.snapshots = 1, !.ticks = 2, !.mes = {UserIsChief}]

\* A slow, refusing or limiting MES, and a tenant that is disabled.
Faulty == [Quiet EXCEPT !.faults = 3, !.ticks = 1, !.snapshots = 1, !.mes = {OtherOwns}]

MCLoads == {Tokens, Owners(1), Owners(2), Chiefs, Faulty} \cup {Pages(n) : n \in 0..4}

=============================================================================
