----------------------------- MODULE SerialWalk -----------------------------
(***************************************************************************)
(* What the fetch phase of a recipe promises whatever its concurrency      *)
(* ("every concurrency level produces the same rows, request count, footer *)
(* and reason as the serial walk"): the API steps in recipe order, and the *)
(* requests of a step one after the other in combination order, until one  *)
(* fails or the call budget is used up.                                    *)
(***************************************************************************)
EXTENDS Naturals, Sequences, SequencesExt

CONSTANTS MaxApiCalls, Degradable, None

VARIABLES
    walked,     \* per finished step: how many requests it wanted, whether it is a
                \* fan-out, and what the source said to those that were made, in order
    fetches,    \* per finished step, what the kernel made of it
    calls       \* call_count

walkVars == <<walked, fetches, calls>>

\* An answer with nothing in it, and a step whose source failed: empty and marked.
Nothing == [failed |-> None, rows |-> <<>>, complete |-> TRUE, reason |-> None,
            footer |-> None, calls |-> 0, generated |-> None, shadow |-> None]
Degraded(why) == [Nothing EXCEPT !.complete = FALSE, !.reason = why]

Failures(said) == {i \in DOMAIN said : said[i].failed # None}

\* The latest value of a field among the answers that have one.
LatestOf(values) ==
    LET given == {i \in DOMAIN values : values[i] # None}
    IN IF given = {} THEN None ELSE values[Max(given)]

RowsSaid(said) == FoldLeft(LAMBDA rows, a : rows \o a.rows, <<>>, said)
CallsSaid(said) == FoldLeft(LAMBDA n, a : n + a.calls, 0, said)
ReasonSaid(said) ==
    LatestOf([i \in DOMAIN said |-> IF said[i].complete THEN None ELSE said[i].reason])
FooterSaid(said) == LatestOf([i \in DOMAIN said |-> said[i].footer])

\* What a walk that did not fail adds up to; an uncovered rest is named, and a footer
\* speaks for one request only.
WholeWalk(said, wanted) ==
    [Nothing EXCEPT
        !.rows = RowsSaid(said),
        !.complete = Len(said) = wanted /\ \A i \in DOMAIN said : said[i].complete,
        !.reason = IF Len(said) < wanted THEN "call_budget_exhausted"
                   ELSE ReasonSaid(said),
        !.footer = IF wanted > 1 THEN None ELSE FooterSaid(said),
        !.calls = CallsSaid(said)]

\* One step: walked to its first failure, or to the end of what the budget covers.
Step ==
    /\ Len(walked') = Len(walked) + 1 /\ SubSeq(walked', 1, Len(walked)) = walked
    /\ LET last == Last(walked') IN
       /\ Failures(last.said) \subseteq {Len(last.said)}
       /\ \A i \in Failures(last.said) : last.said[i].failed \in Degradable
       /\ fetches' = Append(fetches,
            IF Failures(last.said) # {} THEN Degraded(Last(last.said).failed)
            ELSE IF last.fanned THEN WholeWalk(last.said, last.wanted) ELSE last.said[1])
       /\ calls' = calls + Last(fetches').calls
       /\ Failures(last.said) = {} =>
            Len(last.said) = IF ~last.fanned \/ calls + last.wanted <= MaxApiCalls
                             THEN last.wanted
                             ELSE IF calls < MaxApiCalls THEN MaxApiCalls - calls ELSE 0

\* The next run starts from nothing.
Again == walked' = <<>> /\ fetches' = <<>> /\ calls' = 0

Init == walked = <<>> /\ fetches = <<>> /\ calls = 0
Next == Step \/ Again

Spec == Init /\ [][Next]_walkVars

=============================================================================
