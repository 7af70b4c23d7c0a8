------------------------------- MODULE Analysis -------------------------------
(***************************************************************************)
(* The analysis branch of a turn: a planner model decides one tool call    *)
(* at a time over datasets that the host loads, reuses and computes on     *)
(* (application/l2, execution/analysis.py, data_api/analysis_source.py).   *)
(* The planner's loop itself is the sageql_core library: at most one       *)
(* repair, and every tool call authorized before and approved after.       *)
(***************************************************************************)
EXTENDS Conversation

CONSTANTS
    Beds,               \* bed codes
    Days,               \* business dates, as numbers
    WindowDays,         \* [Windows -> the days of the window, as a pair from..to-1]
    RequestBeds,        \* the bed codes of a question about beds
    Queries,            \* what the planner may ask a dataset for
    Broken,             \* rows whose quantity is not a number the sandbox can store
    MaxSteps            \* tool_steps and model_rounds of a run

ASSUME AnalysisAssumption ==
    /\ Days \subseteq Nat /\ WindowDays \in [Windows -> Nat \X Nat]
    /\ RequestBeds \subseteq Beds /\ \A B \in SUBSET Beds : B # None
    /\ \A q \in Queries : /\ DOMAIN q = {"from", "to", "beds", "cols", "limit"}
                          /\ q.from = None \/ (q.from \in Nat /\ q.to \in Nat)

VARIABLES
    facts,      \* the reported rows of the MES: a set of [day, bed]
    host        \* AnalysisHost: datasets, ensured queries, results; and the run's counters

analysisVars == <<facts, host>>
vars == <<routingVars, conversationVars, analysisVars>>

Rows == [day : Days, bed : Beds]

NoHost == [datasets |-> {}, ensured |-> {}, results |-> {}, steps |-> 0, repairs |-> 0,
           action |-> None, scoped |-> FALSE]

-----------------------------------------------------------------------------
(* The pipeline's part (_run_analysis).                                    *)

\* Only the caller's own rows: an employee, a question about oneself, or one that says so.
SelfOnly(t) == t.auth.role = "employee" \/ t.input.self \/ t.input.cap \in PersonalCapabilities

\* A leader's named employee must be of the bound departments; an employee names nobody else.
NamedIsVisible(t, people) ==
    \/ people = None \/ t.auth.role = "owner"
    \/ t.auth.role = "employee" /\ people \subseteq {Me}
    \/ t.auth.role \notin {"employee", "owner"} /\ \A e \in people : DeptOf[e] \in t.auth.depts

RunAnalysis ==
    /\ turn.pc = "analysis"
    /\ LET found == Lookup(turn.input)
           filters == Narrow(DataScope(turn.auth), SelfOnly(turn), found.people, found.depts,
                             SelfOnly(turn))
       IN IF turn.intent.window = "long" THEN Finish(turn, "time_range_exceeds_limit")
          ELSE IF found.verdict # "found" THEN Ask(turn)
          ELSE IF ~NamedIsVisible(turn, found.people) \/ ~filters.ok
          THEN Finish(turn, "analysis_scope_forbidden")
          ELSE Goto([turn EXCEPT !.filters = filters], "plan")
    /\ host' = NoHost
    /\ UNCHANGED <<member, load, facts, routingVars>>

\* validate: the host is open and the caller's permissions are still those of the run.
Valid == IsCurrent(turn.auth)

\* A rejected action ends the run, unless it is invalid and no repair has been spent.
Rejected(reason) ==
    IF reason = "invalid_action" /\ host.repairs = 0
    THEN /\ host' = [host EXCEPT !.repairs = 1, !.action = None]
         /\ Goto(turn, "plan")
    ELSE host' = NoHost /\ Finish(turn, IF reason = "denied" THEN "analysis_scope_forbidden"
                                        ELSE "analysis_unavailable")

-----------------------------------------------------------------------------
(* The planner.                                                            *)

\* Mutant: the round is not counted.
PlanStarted_uncounted ==
    /\ turn.pc = "plan"
    /\ StartCall(Fast, FALSE, load.budget)
    /\ Goto(turn, "planning")
    /\ UNCHANGED <<member, load, facts, host>>

\* PlanningModel.decide: one call for one decision, within the run's rounds.
PlanStarted ==
    /\ turn.pc = "plan" /\ host.steps < MaxSteps
    /\ StartCall(Fast, FALSE, load.budget)
    /\ Goto(turn, "planning")
    /\ host' = [host EXCEPT !.steps = @ + 1]
    /\ UNCHANGED <<member, load, facts>>

\* The rounds are used up: RunStopped.
PlanExhausted ==
    /\ turn.pc = "plan" /\ host.steps >= MaxSteps
    /\ host' = NoHost /\ Finish(turn, "analysis_unavailable")
    /\ UNCHANGED <<member, load, facts, routingVars>>

Actions ==
    [tool : {"ensure"}, query : Queries] \cup [tool : {"analyze", "lookup"}]
        \cup [tool : {"finish"}, kind : {"result", "knowledge", "clarify", "unavailable"}]

Planned ==
    /\ CallOver("planning")
    /\ \/ /\ call.pc # "text" /\ host' = NoHost /\ Finish(turn, "analysis_unavailable")
       \/ call.pc = "text" /\ Rejected("invalid_action")
       \/ /\ call.pc = "text" /\ Goto(turn, "tool")
          /\ \E a \in Actions : host' = [host EXCEPT !.action = a]
    /\ UNCHANGED <<member, load, facts, healthVars>>

\* Every tool call is authorized first.
ToolDenied ==
    /\ turn.pc \in {"tool", "load"} /\ ~Valid
    /\ Rejected("denied")
    /\ UNCHANGED <<member, load, facts, routingVars>>

-----------------------------------------------------------------------------
(* Datasets (HostDatasetProvider).                                         *)

\* _validate_query: known columns, and filters on known, presentable fields.
ValidQuery(q) == q.cols \subseteq {"qty"} /\ (IF q.beds = None THEN TRUE ELSE q.beds \subseteq Beds)

\* _window: within the request's window, or the request's own.
WindowOf(q) == IF q.from = None THEN WindowDays[turn.intent.window]
               ELSE <<q.from, q.to>>

\* _canonical: the query with its window spelled out.
Canonical(q) == [q EXCEPT !.from = WindowOf(q)[1], !.to = WindowOf(q)[2]]

WindowRejection(q) ==
    IF turn.intent.window = None THEN "unavailable"
    ELSE LET w == WindowDays[turn.intent.window] IN
         IF q.from # None /\ (q.from < w[1] \/ q.to > w[2]) THEN "denied" ELSE "none"

\* _fact_filters: the request's beds and the query's, together.
BedsOf(q) ==
    LET base == IF turn.input.beds = "some" THEN RequestBeds ELSE None IN
    IF base = None THEN q.beds ELSE IF q.beds = None THEN base ELSE base \cap q.beds

\* _matches and the window's inclusive dates.
Matches(r, q) == /\ q.from <= r.day /\ r.day <= q.to - 1
                 /\ q.beds = None \/ r.bed \in q.beds

\* Mutant: a dataset of some beds is taken for one of all of them.
Covers_anyBeds(d, q) == q.cols \subseteq d.cols /\ d.query.from <= q.from /\ q.to <= d.query.to

\* _covers: the loaded rows contain every row of the query.
Covers(d, q) ==
    /\ q.cols \subseteq d.cols
    /\ d.query.from <= q.from /\ q.to <= d.query.to
    /\ IF d.query.beds = None THEN TRUE
       ELSE IF q.beds = None THEN FALSE ELSE q.beds \subseteq d.query.beds

\* _normalize: the quantity is a column where every row has a usable one; without rows, where
\* it was asked for.
Columns(q, rows) == IF rows = {} THEN q.cols ELSE IF rows \cap Broken = {} THEN {"qty"} ELSE {}

\* An observation with a dataset, or an incomplete one when the rows exceed the limit.
Observed(q, rows, cols, asof) ==
    LET kept == [query |-> q, rows |-> rows, cols |-> cols, asof |-> asof] IN
    host' = [host EXCEPT !.action = None,
                         !.datasets = IF Cardinality(rows) > q.limit THEN @ ELSE @ \cup {kept},
                         !.ensured = @ \cup {[query |-> q,
                                              got |-> IF Cardinality(rows) > q.limit THEN None
                                                      ELSE kept]}]

\* ensure: an exact earlier answer, a covering dataset (_reuse), or a load.
Ensure ==
    /\ turn.pc = "tool" /\ Valid /\ host.action.tool = "ensure"
    /\ LET asked == host.action.query
           rejection == IF ValidQuery(asked) THEN WindowRejection(asked) ELSE "invalid_action"
       IN IF rejection # "none" THEN Rejected(rejection)
          ELSE LET q == Canonical(asked) IN
               \/ /\ \E e \in host.ensured : e.query = q
                  /\ host' = [host EXCEPT !.action = None] /\ Goto(turn, "plan")
               \/ /\ ~\E e \in host.ensured : e.query = q
                  /\ \E d \in host.datasets :
                        /\ Covers(d, q)
                        /\ Observed(q, {r \in d.rows : Matches(r, q)}, d.cols, d.asof)
                  /\ Goto(turn, "plan")
               \/ /\ ~\E e \in host.ensured : e.query = q
                  /\ ~\E d \in host.datasets : Covers(d, q)
                  /\ BedsOf(q) # {}
                  /\ host' = [host EXCEPT !.action.query = q] /\ Goto(turn, "load")
               \/ /\ ~\E e \in host.ensured : e.query = q
                  /\ ~\E d \in host.datasets : Covers(d, q)
                  /\ BedsOf(q) = {}
                  /\ Rejected("denied")
    /\ UNCHANGED <<member, load, facts, routingVars>>

\* CachedFactSource.fetch refuses employees outside the local scope, the owner's excepted.
SourceRefuses(filters, auth) ==
    auth.role # "owner" /\ filters.emps # None /\ ~(filters.emps \subseteq {Me})

\* _required_fields_valid: a column that was asked for is usable in every row.
RequiredFieldsValid(q, rows) == "qty" \in q.cols => rows \cap Broken = {}

\* validate_fact_scope: the parse's verdict, or the dedicated guard's, which may deny.
FactScopeDenials == {"beyond", "unknown"}

\* CachedFactSource.fetch: the rows of the window and the beds.
FetchedRows(q) == {r \in facts : Matches(r, [q EXCEPT !.beds = BedsOf(q)])}

\* validate_fact_scope (once per dataset), then the fetch: refused, incomplete or complete.
LoadFacts ==
    /\ turn.pc = "load" /\ Valid
    /\ LET q == host.action.query
           rows == FetchedRows(q)
       IN \/ turn.input.scope \in FactScopeDenials /\ Rejected("denied")
          \/ /\ turn.input.scope # "beyond" /\ SourceRefuses(turn.filters, turn.auth)
             /\ host' = NoHost /\ Finish(turn, "analysis_failed")
          \/ /\ turn.input.scope # "beyond" /\ ~SourceRefuses(turn.filters, turn.auth)
             /\ turn' = [turn EXCEPT !.pc = "plan",
                                     !.fetch = [filters |-> turn.filters,
                                                window |-> turn.intent.window]]
             /\ session' = session
             /\ \/ host' = [host EXCEPT !.action = None,
                                        !.ensured = @ \cup {[query |-> q, got |-> None]}]
                \/ RequiredFieldsValid(q, rows) /\ Observed(q, rows, Columns(q, rows), facts)
    /\ UNCHANGED <<member, load, facts, routingVars>>

\* StructuredAnalysisCompiler.compile: the metric needs its column.
Compiles(d) == "qty" \in d.cols

\* HostAnalysisExecutor.analyze: a result computed from one loaded dataset, if it compiles.
Analyze ==
    /\ turn.pc = "tool" /\ Valid /\ host.action.tool = "analyze"
    /\ \/ /\ host.datasets = {} /\ Rejected("unknown_reference")
       \/ \E d \in host.datasets :
             \/ ~Compiles(d) /\ Rejected("unavailable")
             \/ /\ Compiles(d) /\ Goto(turn, "plan")
                /\ host' = [host EXCEPT !.action = None, !.results = @ \cup {d}]
    /\ UNCHANGED <<member, load, facts, routingVars>>

\* ReviewedKnowledgeProvider.lookup: knowledge is data, and changes nothing else.
LookupKnowledge ==
    /\ turn.pc = "tool" /\ Valid /\ host.action.tool = "lookup"
    /\ host' = [host EXCEPT !.action = None, !.scoped = TRUE]
    /\ Goto(turn, "plan")
    /\ UNCHANGED <<member, load, facts, routingVars>>

\* validate_submission: what is handed in was computed or looked up in this run.
ValidSubmission(kind) ==
    (kind = "result" => host.results # {}) /\ (kind = "knowledge" => host.scoped)

\* SageAnalysisRunner.analyze: the answer is built from the references, with the window.
Answer ==
    /\ turn' = [turn EXCEPT !.pc = "over", !.outcome = "answered"]
    /\ session' = [window |-> turn.intent.window]

\* The outcome of the run. Whatever is submitted, the host closes.
Submit ==
    /\ turn.pc = "tool" /\ Valid /\ host.action.tool = "finish"
    /\ LET kind == host.action.kind
       IN \/ ~ValidSubmission(kind) /\ Rejected("invalid_action")
          \/ /\ ValidSubmission(kind) /\ host' = NoHost
             /\ \/ kind = "clarify" /\ Ask(turn)
                \/ kind = "unavailable" /\ Finish(turn, "analysis_unavailable")
                \/ kind \in {"result", "knowledge"} /\ Answer
    /\ UNCHANGED <<member, load, facts, routingVars>>

\* The factory reports or corrects a row.
Report ==
    /\ load.reports > 0
    /\ \E r \in Rows : facts' = IF r \in facts THEN facts \ {r} ELSE facts \cup {r}
    /\ load' = [load EXCEPT !.reports = @ - 1]
    /\ UNCHANGED <<member, session, turn, host, routingVars>>

-----------------------------------------------------------------------------
(* The specification.                                                      *)

Init ==
    /\ \E s \in Scenarios :
          /\ load = [scenario |-> s, turns |-> Loads[s].turns, flips |-> Loads[s].flips,
                     changes |-> Loads[s].changes, reports |-> Loads[s].reports,
                     budget |-> Loads[s].budget, probing |-> Loads[s].probing]
          /\ \E keys \in Loads[s].keys : baseline = Resolve(keys)
          /\ member \in Loads[s].members
    /\ alive = [e \in Endpoints |-> TRUE]
    /\ RoutingInit
    /\ session = [window |-> None]
    /\ turn = NoTurn
    /\ facts = Rows
    /\ host = NoHost

AnalysisStep ==
    \/ RunAnalysis \/ PlanStarted \/ PlanExhausted \/ Planned \/ ToolDenied
    \/ Ensure \/ LoadFacts \/ Analyze \/ LookupKnowledge \/ Submit

\* The steps of a turn that is under way.
Step ==
    \/ (TurnStep \/ (CallStep /\ UNCHANGED conversationVars)) /\ UNCHANGED analysisVars
    \/ AnalysisStep

Next ==
    \/ (StartTurn \/ Reassign \/ ServerFlips) /\ UNCHANGED analysisVars
    \/ load.probing /\ Probe /\ UNCHANGED <<conversationVars, analysisVars>>
    \/ Step
    \/ Report

\* The executor's task runs until its turn ends, and probe_forever outlives any failure.
Fairness ==
    /\ WF_vars(Step)
    /\ WF_vars(load.probing /\ Probe /\ UNCHANGED <<conversationVars, analysisVars>>)

Spec == Init /\ [][Next]_vars /\ Fairness

-----------------------------------------------------------------------------
(* Properties.                                                             *)

\* No business call, of either branch, goes beyond the range the turn was authorized for:
\* departments are the caller's unless the owner's, an employee reaches only own rows, and
\* whom a card or an analysis names is of the bound departments (authorize, narrow,
\* _resolve_drill_filters, _run_analysis, CachedFactSource.fetch). Whom a question names is
\* left to the MES: see NamedEmployeeIsBound.
CallsStayInScope ==
    turn.fetch # None =>
        LET f == turn.fetch.filters IN
        /\ turn.auth.role = "owner" \/ f.depts \subseteq turn.auth.depts
        /\ turn.auth.role = "employee" => f.emps = {Me}
        /\ IsDrill \/ turn.intent.cap = "l2" => WithinDepartments(f.emps, turn.auth)

\* The rule the permission matrix states for FR-012: the target employee "must sit inside the
\* caller's bound department set - enforced server-side before any business call"
\* (permission_matrix.py). Violated: an employee named in words is only resolved in the
\* tenant's directory, and narrow takes the result as it is.
NamedEmployeeIsBound ==
    turn.fetch # None /\ turn.intent.cap = AnyEmployee =>
        WithinDepartments(turn.fetch.filters.emps, turn.auth)

\* The range an input states: a card's own, a question's where the model is asked for one.
Stated(t) == IF "view" \in DOMAIN t.input THEN t.input.range ELSE ModelRange(t.input)

\* What the turn's input says about time: the readings that may be answered.
Readings(t) == {Stated(t), RuleRange(t.input)} \cap Windows

\* The period answered is one the input names. Words nothing can read are never replaced by
\* another period; only an input without any time takes over the session's window, and a
\* drill without one the current month (_build_slots, _rescue_missing_time_range,
\* _drill_parse_outcome).
AnswersTheAskedPeriod ==
    [][turn'.fetch # None /\ turn.fetch = None =>
          LET w == turn'.fetch.window
              silent == Stated(turn) = None /\ turn.input.words = None
          IN IF silent THEN w \in {session.window} \cup (IF IsDrill THEN {ThisMonth} ELSE {})
             ELSE w \in Readings(turn) /\ (IsDrill /\ turn.input.range # None => w = turn.input.range)]_vars

\* A dataset that answers a query holds exactly the rows a fresh load of the same snapshot
\* would have given, with every column asked for usable in all of them, also when it was cut
\* from a wider one (_covers, _reuse, _matches, _normalize).
ReuseIsExact ==
    \A e \in host.ensured : e.got # None =>
        /\ e.got.rows = {r \in e.got.asof : Matches(r, [e.query EXCEPT !.beds = BedsOf(e.query)])}
        /\ RequiredFieldsValid(e.query, e.got.rows) /\ e.query.cols \subseteq e.got.cols

\* Every turn ends, whatever the model, the planner or the servers do.
TurnsEnd == (turn.pc # "idle") ~> (turn.pc = "over")

=============================================================================
