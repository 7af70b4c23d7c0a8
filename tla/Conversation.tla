----------------------------- MODULE Conversation -----------------------------
(***************************************************************************)
(* One session's turns, from the words to the business call: the intent    *)
(* parse (application/intent.py), the clarification, chit-chat and drill   *)
(* branches of the pipeline (application/session/pipeline.py), and the     *)
(* chain of denials before any business call: role matrix, scope guard,    *)
(* directory, narrowing and time range. Cancellation, deadlines and the    *)
(* event log of a turn are SessionService's.                               *)
(***************************************************************************)
EXTENDS LlmRouting

CONSTANTS
    Roles,              \* of which "employee" and "owner" are special
    Members,            \* the memberships a caller can have
    Depts, Employees, Me,
    DeptOf,             \* [Employees -> Depts], EmployeeQuery's roster
    Windows,            \* time ranges within every redline
    Vocabulary,         \* [time expressions -> Windows]
    TimeParseMode,      \* "llm_primary" or "rule_primary"
    ThisMonth,          \* what a drill without any time falls back on
    CapabilityRoles,    \* [capability -> roles], the permission matrix
    Required,           \* [capability -> required slots]
    PersonalCapabilities, AnyEmployee,
    Returns,            \* the sets of rows [emp, dept] the MES may return
    Fast,               \* the alias of the parse, guard and summary calls
    MaxRounds,          \* session_max_clarification_rounds
    Scenarios,          \* names of the scenarios of an instance
    Payloads, Drills,   \* [Scenarios -> what the model may answer, what a card may send]
    Loads               \* [Scenarios -> bounds]

ASSUME ConversationAssumption ==
    /\ {"employee", "owner"} \subseteq Roles
    /\ DeptOf \in [Employees -> Depts] /\ Me \in Employees
    /\ ThisMonth \in Windows /\ Fast \in Aliases /\ MaxRounds \in Nat \ {0}

\* The capabilities an employee holds are the personal ones (permission_matrix.py).
ASSUME MatrixAssumption ==
    /\ \A c \in DOMAIN CapabilityRoles :
          "employee" \in CapabilityRoles[c] => c \in PersonalCapabilities
    /\ "l2" \notin DOMAIN CapabilityRoles

\* A vocabulary entry passes the redlines, a model's pair may not; only a card has a view.
ASSUME TimeAssumption ==
    /\ Windows \cap {None, "long", "bad", "unreadable"} = {}
    /\ None \notin {"too_long", "implausible", "unreadable"}
    /\ \A words \in DOMAIN Vocabulary : Vocabulary[words] \in Windows
    /\ \A s \in Scenarios : \A p \in Payloads[s] :
          p.range \in Windows \cup {None, "long", "bad"} /\ "view" \notin DOMAIN p
    /\ \A s \in Scenarios : None \notin Drills[s] /\ \A d \in Drills[s] : "view" \in DOMAIN d

\* A card names an employee by id, so that no two of one name can be meant.
ASSUME CardAssumption ==
    \A s \in Scenarios : \A d \in Drills[s] : d.who \in Employees \cup {None, "nobody"}

Capabilities == DOMAIN CapabilityRoles

VARIABLES
    member,     \* what the MES says of the caller now: role and bound departments
    session,    \* the window of the newest result table
    turn,       \* the interaction being run
    load        \* what the scenario still allows

conversationVars == <<member, session, turn, load>>

\* A turn's authorization, its input, its intent, and the business call it made.
NoTurn == [pc |-> "idle", auth |-> None, input |-> None, intent |-> None, filters |-> None,
           fetch |-> None, finding |-> None, outcome |-> None]

-----------------------------------------------------------------------------
(* Authorization.                                                          *)

\* authorize: own record and current departments; the owner's wider range is the MES's.
DataScope(auth) == [emps |-> {Me}, depts |-> auth.depts, mesFiltered |-> auth.role = "owner"]

\* The rule of FR-012 for an employee filter: the caller, or people of the bound departments.
WithinDepartments(people, auth) ==
    auth.role # "owner" /\ people # None =>
        \A e \in people : e = Me \/ DeptOf[e] \in auth.depts

\* is_current: the bound snapshot is still what the MES says.
IsCurrent(auth) == member = auth

AuthorizeCapability(cap, auth) == auth.role \in CapabilityRoles[cap]

\* Mutant: the owner's rule for everybody.
Narrow_unbounded(scope, own, people, depts, restrict) ==
    [ok |-> TRUE, depts |-> IF depts = None THEN scope.depts ELSE depts,
     emps |-> IF own \/ (people = None /\ restrict) THEN scope.emps ELSE people]

\* FilterNarrower.narrow: never broader than the scope, except that the owner's departments
\* are left to the MES. None stands for no condition; not ok is a FilterRejectionError.
Narrow(scope, own, people, depts, restrict) ==
    LET emps == IF own THEN scope.emps
                ELSE IF people # None THEN people
                ELSE IF restrict THEN scope.emps ELSE None
        within == IF depts = None THEN scope.depts
                  ELSE IF scope.mesFiltered THEN depts ELSE depts \cap scope.depts
    IN [ok |-> ~(depts # None /\ within = {}), emps |-> emps, depts |-> within]

-----------------------------------------------------------------------------
(* The parse: what a payload of the model means (CapabilityIntentParser).  *)

\* resolve_time_expression: the reviewed vocabulary; anything else raises.
ResolveTimeExpression(words) == IF words \in DOMAIN Vocabulary THEN Vocabulary[words] ELSE "unreadable"

RuleRange(p) == IF p.words = None THEN None ELSE ResolveTimeExpression(p.words)

\* time_range_violation, on abstract ranges: "long" is beyond the ceiling, "bad" is empty or
\* in the future.
TimeRangeViolation(range) ==
    IF range = "long" THEN "too_long" ELSE IF range = "bad" THEN "implausible" ELSE None

\* _model_range: the model's ISO pair, where it is asked first.
ModelRange(p) == IF TimeParseMode = "llm_primary" THEN p.range ELSE None

\* _build_slots: a plausible pair, else the vocabulary's range, else a pair kept for the ceiling.
BuildWindow(p) ==
    IF ModelRange(p) # None /\ TimeRangeViolation(ModelRange(p)) = None THEN ModelRange(p)
    ELSE IF RuleRange(p) \in Windows THEN RuleRange(p)
    ELSE IF ModelRange(p) = "long" THEN "long" ELSE None

TimeUnclear(p) == BuildWindow(p) = None /\ (RuleRange(p) = "unreadable" \/ ModelRange(p) = "bad")

\* default_capability_catalog and selectable_by: the capabilities of the caller's role.
Catalog(auth) == {c \in Capabilities : AuthorizeCapability(c, auth)}

\* _resolve_capability: an id echoed from the history may be none of them.
Selectable(cap, auth) == cap \in Catalog(auth)

FilledNames(p) ==
    (IF BuildWindow(p) # None THEN {"time_range"} ELSE {})
        \cup (IF p.codes THEN {"order_codes"} ELSE {})

NoIntent == [cap |-> None, unclear |-> TRUE, missing |-> {}, window |-> None]

\* interpret.
Interpret(p, auth) ==
    LET low == ~p.clear \/ ~p.sure
        slots == TimeUnclear(p) \/ p.beds = "bad"
    IN CASE p.type = "l2" ->
              [cap |-> "l2", unclear |-> low \/ slots \/ p.leak, missing |-> {},
               window |-> BuildWindow(p)]
         [] p.type = "chitchat" ->
              [cap |-> "chitchat", unclear |-> low, missing |-> {}, window |-> None]
         [] OTHER ->
              IF Selectable(p.cap, auth)
              THEN [cap |-> p.cap, unclear |-> low \/ slots,
                    missing |-> Required[p.cap] \ FilledNames(p), window |-> BuildWindow(p)]
              ELSE NoIntent

\* A question about beds is an analysis, whatever capability was selected.
BedsToAnalysis(p, i) ==
    IF p.beds = "some" /\ p.type # "chitchat" /\ i.cap # None
    THEN [i EXCEPT !.cap = "l2", !.missing = {}] ELSE i

NeedsClarification(i) == i.cap = None \/ i.unclear \/ i.missing # {}

\* _session_time_range: the newest result table's window; a failed read is no window.
SessionWindow == {session.window, None}

\* _rescue_missing_time_range: only when the window is all that is missing.
Rescued(i, window) ==
    IF i.cap # None /\ ~i.unclear /\ i.missing = {"time_range"} /\ window # None
    THEN [i EXCEPT !.window = window, !.missing = {}] ELSE i

ValidOr(range) == IF range \in Windows THEN range ELSE "invalid"

\* Mutant: the label wins over the echoed window.
DrillWindow_label(d, inherited) ==
    IF d.words # None THEN ValidOr(RuleRange(d))
    ELSE IF d.range # None THEN ValidOr(d.range)
    ELSE IF inherited # None THEN inherited ELSE ThisMonth

\* _drill_parse_outcome: the echoed window, else the words, else the session's, else 当月.
DrillWindow(d, inherited) ==
    IF d.range # None THEN ValidOr(d.range)
    ELSE IF d.words # None THEN ValidOr(RuleRange(d))
    ELSE IF inherited # None THEN inherited ELSE ThisMonth

-----------------------------------------------------------------------------
(* How a turn ends.                                                        *)

\* _fail, _reject, _reject_message and the answers.
Finish(t, outcome) ==
    turn' = [t EXCEPT !.pc = "over", !.outcome = outcome] /\ session' = session

\* _clarify and _clarify_message: the turn completes with a question.
Ask(t) == Finish(t, "clarifying")

Goto(t, pc) == turn' = [t EXCEPT !.pc = pc] /\ session' = session

\* _validate_drill: a card's capability is a registered recipe, never an analysis.
ValidDrill(d) == d.cap \in Capabilities

\* The caller sends words or a card's drill; _run authorizes before anything else.
StartTurn ==
    /\ turn.pc \in {"idle", "over"} /\ load.turns > 0
    /\ \E d \in {x \in Drills[load.scenario] : ValidDrill(x)} \cup {None} :
          turn' = [NoTurn EXCEPT !.pc = IF d = None THEN "parse" ELSE "drill",
                                 !.auth = member, !.input = d]
    /\ load' = [load EXCEPT !.turns = @ - 1]
    /\ UNCHANGED <<member, session, routingVars>>

-----------------------------------------------------------------------------
(* From the words to the capability.                                       *)

\* A model call is made; the turn waits for it.
CallModel(pc, waiting, json) ==
    /\ turn.pc = pc
    /\ StartCall(Fast, json, load.budget)
    /\ Goto(turn, waiting)
    /\ UNCHANGED <<member, load>>

CallOver(waiting) == turn.pc = waiting /\ CallEnded /\ call' = NoCall

ParseStarted == CallModel("parse", "parsing", TRUE)

\* The rounds a new record starts with: StartRequest's default, which the API never sets.
ClarificationRounds == 0

\* _pipeline once the intent is known: clarify, chat, analyse or authorize.
Route(t, content) ==
    IF NeedsClarification(t.intent)
    THEN IF ClarificationRounds + 1 >= MaxRounds
         THEN Finish(t, "clarification_exhausted") ELSE Ask(t)
    ELSE CASE t.intent.cap = "chitchat" /\ content -> Finish(t, "chatted")
           [] t.intent.cap = "chitchat" /\ ~content -> Goto(t, "chat")
           [] t.intent.cap = "l2" -> Goto(t, "analysis")
           [] OTHER -> Goto(t, "authorize")

\* The parse call is over: an unusable reply fails the turn, a payload is interpreted.
Parsed ==
    /\ CallOver("parsing")
    /\ \/ call.pc # "object" /\ Finish(turn, "model_failed")
       \/ /\ call.pc = "object"
          /\ \E p \in Payloads[load.scenario], w \in SessionWindow :
                LET i == BedsToAnalysis(p, Interpret(p, turn.auth))
                    r == IF NeedsClarification(i) THEN Rescued(i, w) ELSE i
                IN Route([turn EXCEPT !.input = p, !.intent = r], p.content)
    /\ UNCHANGED <<member, load, healthVars>>

\* A drill's intent comes from its payload, not from a model.
DrillParsed ==
    /\ turn.pc = "drill"
    /\ \E inherited \in SessionWindow :
          LET w == DrillWindow(turn.input, inherited) IN
          IF w = "invalid" THEN Finish(turn, "drill_invalid_time")
          ELSE Route([turn EXCEPT !.intent = [cap |-> turn.input.cap, unclear |-> FALSE,
                                              missing |-> {}, window |-> w]], FALSE)
    /\ UNCHANGED <<member, load, routingVars>>

ChatStarted == CallModel("chat", "chatting", FALSE)

\* _chat: a failed call or an empty reply fails the turn.
Chatted ==
    /\ CallOver("chatting")
    /\ Finish(turn, IF call.pc = "text" THEN "chatted" ELSE "model_failed")
    /\ UNCHANGED <<member, load, healthVars>>

-----------------------------------------------------------------------------
(* The denials before any business call (_authorize_request).              *)

IsDrill == "view" \in DOMAIN turn.input

\* The role matrix, then the verdict the parse call carried; a drill carries "within".
Authorize ==
    /\ turn.pc = "authorize"
    /\ LET verdict == IF IsDrill THEN "within" ELSE turn.input.scope IN
       IF turn.intent.cap \notin Capabilities THEN Finish(turn, "capability_unregistered")
       ELSE IF ~AuthorizeCapability(turn.intent.cap, turn.auth) THEN Finish(turn, "forbidden")
       ELSE IF verdict = "beyond" THEN Finish(turn, "scope_forbidden")
       ELSE Goto(turn, IF verdict = "within" THEN "resolve" ELSE "guard")
    /\ UNCHANGED <<member, load, routingVars>>

GuardStarted == CallModel("guard", "guarding", TRUE)

\* The dedicated guard can only deny: a failed call or an unusable verdict leaves the turn be,
\* except that the run's own budget ends it (RunStopped).
Guarded ==
    /\ CallOver("guarding")
    /\ \/ call.pc = "over_budget" /\ Finish(turn, "stopped")
       \/ call.pc = "object" /\ Finish(turn, "scope_forbidden")
       \/ call.pc # "over_budget" /\ Goto(turn, "resolve")
    /\ UNCHANGED <<member, load, healthVars>>

\* resolve: names against the tenant's directory, which is the same for every role.
Lookup(p) ==
    [verdict |-> IF p.dept = "unknown" \/ p.who = "nobody" THEN "not_found"
                 ELSE IF p.dept = "homonyms" \/ p.who = "namesakes" THEN "ambiguous" ELSE "found",
     depts |-> IF p.dept = None THEN None ELSE {p.dept},
     people |-> IF p.who = None THEN None ELSE {p.who}]

\* _resolve_drill_filters: a drill's departments and employee must be the caller's to see.
DrillLookup(d, scope) ==
    LET hidden == \/ d.dept # None /\ d.dept \notin scope.depts
                  \/ d.who \in Employees /\ DeptOf[d.who] \notin scope.depts
    IN [Lookup(d) EXCEPT !.verdict = IF d.who = "nobody" THEN "not_found"
                                     ELSE IF hidden /\ ~scope.mesFiltered THEN "forbidden"
                                     ELSE "found"]

NarrowFor(cap, scope, found) ==
    Narrow(scope, cap \in PersonalCapabilities, found.people, found.depts, cap = AnyEmployee)

\* Directory, narrowing, window and ceiling; what is left is the plan.
ResolveRequest ==
    /\ turn.pc = "resolve"
    /\ \E inherited \in SessionWindow :
          LET scope == DataScope(turn.auth)
              found == IF IsDrill THEN DrillLookup(turn.input, scope) ELSE Lookup(turn.input)
              filters == NarrowFor(turn.intent.cap, scope, found)
              window == IF turn.intent.window # None THEN turn.intent.window ELSE inherited
          IN IF found.verdict = "ambiguous" THEN Ask(turn)
             ELSE IF found.verdict # "found" \/ ~filters.ok THEN Finish(turn, "filter_rejected")
             ELSE IF window = None THEN Finish(turn, "time_range_missing")
             ELSE IF window = "long" THEN Finish(turn, "time_range_exceeds_limit")
             ELSE Goto([turn EXCEPT !.filters = filters, !.intent.window = window], "execute")
    /\ UNCHANGED <<member, load, routingVars>>

\* The directory cannot be read: an exception only the last resort of _run catches.
DirectoryFails ==
    /\ turn.pc = "resolve"
    /\ Finish(turn, "executor_lost")
    /\ UNCHANGED <<member, load, routingVars>>

-----------------------------------------------------------------------------
(* The business call and the answer.                                       *)

\* _runner.run with the plan of the chain.
Execute ==
    /\ turn.pc = "execute"
    /\ turn' = [turn EXCEPT !.pc = "fetched",
                            !.fetch = [filters |-> turn.filters, window |-> turn.intent.window]]
    /\ UNCHANGED <<member, session, load, routingVars>>

\* It fails: refused by the executor, a detail view that is gone, or any other exception.
FetchFailed ==
    /\ turn.pc = "fetched"
    /\ \E reason \in {"forbidden", "order_view_refused", "execution_failed"} : Finish(turn, reason)
    /\ UNCHANGED <<member, load, routingVars>>

\* ExpectedRange.from_context, allows_employee and allows_dept.
ExpectedRange(auth) == [depts |-> auth.depts, whole |-> auth.role = "owner"]
AllowsEmployee(expected, e) == expected.whole \/ e = Me
AllowsDept(expected, d) == expected.whole \/ d \in expected.depts

\* _exact_finding: personal rows by employee, the other judged capabilities by department.
ExactFinding(cap, rows, expected) ==
    IF cap \in PersonalCapabilities
    THEN \E x \in rows : ~AllowsEmployee(expected, x.emp)
    ELSE cap # AnyEmployee /\ \E x \in rows : ~AllowsDept(expected, x.dept)

\* _heuristic_finding: several rows where one subject was asked about; not for the owner.
HeuristicFinding(cap, rows, expected) ==
    cap = AnyEmployee /\ Cardinality(rows) > 1 /\ ~expected.whole

\* validate: exact before heuristic.
Validate(cap, rows, expected) ==
    IF ExactFinding(cap, rows, expected) THEN "scope_violation_exact"
    ELSE IF HeuristicFinding(cap, rows, expected) THEN "scope_violation_heuristic" ELSE None

\* should_block: the verdict is advice.
ShouldBlock(finding) == FALSE

\* The rows are judged before anything is composed: a finding is recorded as far as the
\* stores allow (_record_scope_violation), and would end the turn if it blocked.
Judged ==
    /\ turn.pc = "fetched"
    /\ \E rows \in Returns :
          LET finding == Validate(turn.intent.cap, rows, ExpectedRange(turn.auth)) IN
          IF finding # None /\ ShouldBlock(finding) THEN Finish(turn, finding)
          ELSE \E kept \in {finding, None} : Goto([turn EXCEPT !.finding = kept], "compose")
    /\ UNCHANGED <<member, load, routingVars>>

ComposeStarted == CallModel("compose", "composing", FALSE)

\* _complete_result: a failed summary falls back on fixed words; the result table is saved
\* with its window (an analysis may have none).
Composed ==
    /\ CallOver("composing")
    /\ IF call.pc = "over_budget" THEN Finish(turn, "stopped")
       ELSE /\ turn' = [turn EXCEPT !.pc = "over", !.outcome = "answered"]
            /\ session' = [window |-> turn.intent.window]
    /\ UNCHANGED <<member, load, healthVars>>

\* The MES administrator moves the caller to another role or other departments.
Reassign ==
    /\ load.changes > 0
    /\ member' \in Members \ {member}
    /\ load' = [load EXCEPT !.changes = @ - 1]
    /\ UNCHANGED <<session, turn, routingVars>>

ServerFlips ==
    /\ load.flips > 0 /\ \E e \in Endpoints : Flip(e)
    /\ load' = [load EXCEPT !.flips = @ - 1]
    /\ UNCHANGED <<member, session, turn>>

TurnStep ==
    \/ ParseStarted \/ Parsed \/ DrillParsed \/ ChatStarted \/ Chatted \/ Authorize
    \/ GuardStarted \/ Guarded \/ ResolveRequest \/ DirectoryFails \/ Execute \/ FetchFailed \/ Judged
    \/ ComposeStarted \/ Composed
=============================================================================
