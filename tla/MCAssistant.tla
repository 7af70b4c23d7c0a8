----------------------------- MODULE MCAssistant -----------------------------
(***************************************************************************)
(* The assistant and the execution kernel, side by side: each behaviour is *)
(* one's, the other stays as it is. The assistant has one caller and three *)
(* scenarios: questions and cards (with a reassignment between the parse   *)
(* and the business call), an analysis over rows that change under it, and *)
(* a model endpoint that dies and comes back. The kernel has a list with   *)
(* order details, a list with one request per plan, two sources with a     *)
(* metric that is not confirmed, and a recipe whose binding refers to a    *)
(* later step.                                                             *)
(***************************************************************************)
EXTENDS Analysis, Kernel

CONSTANTS
    Parts,              \* whose behaviours are checked: "assistant", "kernel"
    A, B, C, orders, progress, stock

VARIABLE part

MCRoles == {"employee", "leader", "owner"}
MCDepts == {"d1", "d2"}
MCEmployees == {"me", "mate", "other"}
MCDeptOf == [e \in MCEmployees |-> IF e = "other" THEN "d2" ELSE "d1"]
MCWindows == {"may", "june"}

MCVocabulary == [this_month |-> "june", last_month |-> "may"]

Membership(role, depts) == [role |-> role, depts |-> depts]
MCMembers == {Membership("employee", {"d1"}), Membership("leader", {"d1"}),
              Membership("owner", {"d1"})}

MCCapabilityRoles ==
    [own_output |-> MCRoles, order_output |-> {"leader", "owner"},
     any_payroll |-> {"leader", "owner"}]
MCRequired ==
    [own_output |-> {"time_range"}, order_output |-> {"time_range", "order_codes"},
     any_payroll |-> {"time_range"}]

\* A server, a second one with two models as equals after it, and a model to fall back on.
MCDocument ==
    {[alias |-> "fast", base |-> "e1", priority |-> 1, at |-> 1, family |-> "qwen"],
     [alias |-> "fast", base |-> "e2", priority |-> 2, at |-> 2, family |-> "glm"],
     [alias |-> "fast", base |-> "e2", priority |-> 2, at |-> 3, family |-> "qwen"],
     [alias |-> "big", base |-> "e2", priority |-> 1, at |-> 1, family |-> "glm"]}
MCFallbacks == [fast |-> <<"big">>, big |-> <<>>]

Plain == [type |-> "capability", cap |-> "own_output", sure |-> TRUE, clear |-> TRUE,
          range |-> None, words |-> None, codes |-> FALSE, beds |-> "none", leak |-> FALSE,
          content |-> FALSE, scope |-> "within", self |-> FALSE, dept |-> None, who |-> None]

\* What the parse may make of a question: every way of saying when, who and where.
Questions ==
    {[Plain EXCEPT !.range = r, !.words = w] :
        r \in {None, "may", "long", "bad"}, w \in {None, "this_month", "gibberish"}}
    \cup {[Plain EXCEPT !.cap = c, !.range = r, !.dept = d, !.who = e] :
            c \in {"any_payroll", "order_output"}, r \in {None, "may"},
            d \in {None, "d1", "d2", "unknown"},
            e \in {None, "other", "nobody", "namesakes"}}
    \cup {[Plain EXCEPT !.scope = v, !.words = "this_month"] : v \in {"beyond", "unknown"}}
    \cup {[Plain EXCEPT !.sure = FALSE], [Plain EXCEPT !.cap = "unheard_of"]}
    \cup {[Plain EXCEPT !.type = "chitchat", !.content = c] : c \in BOOLEAN}

Cards ==
    {[view |-> None, cap |-> "any_payroll", range |-> r, words |-> w, dept |-> d, who |-> e] :
        r \in {None, "may", "bad"}, w \in {None, "this_month"},
        d \in {None, "d1", "d2"}, e \in {None, "other", "nobody"}}

Deep == [Plain EXCEPT !.type = "l2", !.range = "may"]
Analyses ==
    {Deep, [Deep EXCEPT !.range = None], [Deep EXCEPT !.range = "long"], [Deep EXCEPT !.leak = TRUE],
     [Deep EXCEPT !.dept = "unknown"], [Deep EXCEPT !.who = "other"], [Deep EXCEPT !.who = "mate"],
     [Deep EXCEPT !.scope = "beyond"], [Plain EXCEPT !.range = "may", !.beds = "some"]}

MCScenarios == {"questions", "analysis", "failover"}
MCPayloads == [questions |-> Questions, analysis |-> Analyses,
               failover |-> {[Plain EXCEPT !.range = "may"]}]
MCDrills == [questions |-> Cards, analysis |-> {}, failover |-> {}]
MCLoads ==
    [questions |-> [turns |-> 2, flips |-> 0, changes |-> 1, reports |-> 0, budget |-> 2, probing |-> FALSE,
                    keys |-> {{"e1"}}, members |-> MCMembers],
     analysis |-> [turns |-> 1, flips |-> 0, changes |-> 1, reports |-> 1, budget |-> 1, probing |-> FALSE,
                   keys |-> {{"e1"}},
                   members |-> {Membership("leader", {"d1"})}],
     failover |-> [turns |-> 1, flips |-> 3, changes |-> 0, reports |-> 0, budget |-> 1, probing |-> TRUE,
                   keys |-> {{"e1", "e2"}, {"e2"}}, members |-> {Membership("owner", {"d1"})}]]

MCReturns == {{}, {[emp |-> "me", dept |-> "d1"]},
              {[emp |-> "me", dept |-> "d1"], [emp |-> "other", dept |-> "d2"]}}

MCBeds == {"b1", "b2"}
MCDays == 1..2
MCWindowDays == [may |-> <<1, 3>>, june |-> <<2, 3>>]
MCRequestBeds == {"b1"}
Query(f, t, b, c, n) == [from |-> f, to |-> t, beds |-> b, cols |-> c, limit |-> n]
MCQueries == {Query(None, None, None, {}, 4), Query(2, 3, {"b1"}, {"qty"}, 4),
              Query(2, 4, None, {}, 4), Query(1, 3, {"b2"}, {"qty"}, 4), Query(1, 3, {"b2"}, {}, 1),
              Query(1, 2, {"b9"}, {}, 4)}
MCBroken == {[day |-> 1, bed |-> "b2"]}

-----------------------------------------------------------------------------
(* The kernel.                                                             *)

Single(op) == [id |-> op, operation |-> op, from |-> None]
Bound(op, to) == [id |-> op, operation |-> op, from |-> to]

OrderList == [steps |-> <<Single(orders)>>, details |-> TRUE, card |-> TRUE, confirmed |-> TRUE]
Fanned == [steps |-> <<Single(orders), Bound(progress, orders)>>, details |-> FALSE,
           card |-> TRUE, confirmed |-> TRUE]
TwoSources == [steps |-> <<Single(orders), Single(stock)>>, details |-> FALSE, card |-> FALSE,
               confirmed |-> FALSE]
Late == [steps |-> <<Bound(progress, orders), Single(orders)>>, details |-> FALSE,
         card |-> FALSE, confirmed |-> TRUE]

MCRecipes == {OrderList, Fanned, TwoSources, Late}

Row(p, n) == [plan |-> p, value |-> n]
MCPlanOrder == <<A, B, C>>

\* Three orders; one is changed and another withdrawn; all are done.
MCWorld == << <<Row(B, 1), Row(A, 1), Row(C, 1)>>, <<Row(B, 2), Row(C, 1)>>, <<>> >>

-----------------------------------------------------------------------------
(* Both.                                                                   *)

\* The one that stays as it is starts in one way only. The concurrency matters to the recipe
\* that makes several requests at once.
SystemInit ==
    /\ part \in Parts
    /\ Init /\ KernelInit
    /\ part = "kernel" => /\ load.scenario = "analysis"
                          /\ member = Membership("leader", {"d1"})
    /\ part = "assistant" => recipe = OrderList
    /\ recipe # Fanned => concurrency = 1

SystemNext ==
    /\ UNCHANGED part
    /\ \/ part = "assistant" /\ Next /\ UNCHANGED kernelVars
       \/ part = "kernel" /\ KernelNext /\ UNCHANGED vars

SystemSpec == SystemInit /\ [][SystemNext]_<<part, vars, kernelVars>> /\ Fairness
=============================================================================
