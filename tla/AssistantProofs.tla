--------------------------- MODULE AssistantProofs ---------------------------
(***************************************************************************)
(* Proofs about a turn of the assistant: the wire format of its model      *)
(* calls (LlmRouting), the scope and the period of its business calls      *)
(* (Conversation) and the datasets of an analysis (Analysis).              *)
(***************************************************************************)
EXTENDS Analysis, FiniteSetTheorems, WellFoundedInduction, TLAPS

-----------------------------------------------------------------------------
(* The order of the deployments *)

DeploymentFields == {"alias", "base", "priority", "at", "family"}

\* What a registry has to be for its order to name a first deployment of every alias.
Ordered(reg) ==
  /\ \A d \in reg : DOMAIN d = DeploymentFields /\ d.priority \in Nat /\ d.at \in Nat
  /\ \A d, e \in reg : d.alias = e.alias /\ d.at = e.at => d = e

\* No two deployments of an alias share a priority.
Untied(reg) == \A d, e \in reg : d.alias = e.alias /\ d.priority = e.priority => d = e

\* A set of numbers has a least one.
LEMMA LeastNumber ==
  ASSUME NEW T, T \subseteq Nat, T # {}
  PROVE  \E m \in T : \A n \in T : m <= n
<1>1. PICK m \in T : \A n \in T : ~(<<n, m>> \in OpToRel(<, Nat))
  BY NatLessThanWellFounded, WFMin
<1>2. \A n \in T : <<n, m>> \in Nat \X Nat
  OBVIOUS
<1>3. ASSUME NEW n \in T PROVE ~(n < m)
  BY <1>1, <1>2 DEF OpToRel
<1> QED BY <1>3

\* Some deployment comes first.
LEMMA FirstExists ==
  ASSUME NEW S, S # {}, \A d \in S : d.priority \in Nat
  PROVE  \E d \in S : \A e \in S : d.priority <= e.priority
<1> DEFINE T == {d.priority : d \in S}
<1>1. T \subseteq Nat /\ T # {}
  OBVIOUS
<1>2. PICK m \in T : \A n \in T : m <= n
  BY <1>1, LeastNumber
<1>3. PICK d \in S : d.priority = m
  OBVIOUS
<1>4. ASSUME NEW e \in S PROVE d.priority <= e.priority
  BY <1>2, <1>3
<1> QED BY <1>4

\* And one of them is listed first.
LEMMA ListedFirstExists ==
  ASSUME NEW S, S # {}, \A d \in S : d.at \in Nat
  PROVE  \E d \in S : \A e \in S : d.at <= e.at
<1> DEFINE T == {d.at : d \in S}
<1>1. T \subseteq Nat /\ T # {}
  OBVIOUS
<1>2. PICK m \in T : \A n \in T : m <= n
  BY <1>1, LeastNumber
<1>3. PICK d \in S : d.at = m
  OBVIOUS
<1>4. ASSUME NEW e \in S PROVE d.at <= e.at
  BY <1>2, <1>3
<1> QED BY <1>4

\* The loaded document is ordered, and so is every part of it.
LEMMA DocumentOrdered ==
  ASSUME NEW reg, reg \subseteq Document
  PROVE  Ordered(reg) /\ IsFiniteSet(reg)
<1>1. IsFiniteSet(reg)
  BY RoutingAssumption, FS_Subset
<1>2. ASSUME NEW d \in reg
      PROVE  DOMAIN d = DeploymentFields /\ d.priority \in Nat /\ d.at \in Nat
  <2>1. d \in [alias : Aliases, base : Endpoints, priority : Nat \ {0}, at : Nat, family : {d.family}]
    BY RoutingAssumption
  <2> QED BY <2>1 DEF DeploymentFields
<1>3. \A d, e \in reg : d.alias = e.alias /\ d.at = e.at => d = e
  BY RoutingAssumption
<1> QED BY <1>1, <1>2, <1>3 DEF Ordered

\* Demotion orders the deployments of an alias strictly.
LEMMA BeforeOrder ==
  ASSUME NEW reg, Ordered(reg), NEW dem, NEW d \in reg, NEW e \in reg, NEW f \in reg
  PROVE  /\ ~Before(d, d, dem)
         /\ Before(d, e, dem) /\ Before(e, f, dem) => Before(d, f, dem)
         /\ d.alias = e.alias /\ d # e => Before(d, e, dem) \/ Before(e, d, dem)
  BY DEF Before, Ordered

\* Renumbering by the demotions leaves every alias with one deployment per number; without a
\* demotion nothing is renumbered.
LEMMA WithDemotedOrdered ==
  ASSUME NEW reg, Ordered(reg), IsFiniteSet(reg), NEW dem
  PROVE  /\ Ordered(WithDemoted(reg, dem))
         /\ WithDemoted(reg, dem) = reg \/ Untied(WithDemoted(reg, dem))
<1> DEFINE Ahead(d) == {e \in reg : e.alias = d.alias /\ Before(e, d, dem)}
           moved(d) == [d EXCEPT !.priority = 1 + Cardinality(Ahead(d))]
<1>1. ASSUME NEW d \in reg PROVE IsFiniteSet(Ahead(d)) /\ Cardinality(Ahead(d)) \in Nat
  BY FS_Subset, FS_CardinalityType
<1>2. ASSUME NEW d \in reg, NEW e \in reg, d.alias = e.alias, Before(d, e, dem)
      PROVE  Cardinality(Ahead(d)) # Cardinality(Ahead(e))
  <2>1. Ahead(d) \subseteq Ahead(e)
    BY <1>2, BeforeOrder
  <2>2. d \in Ahead(e) /\ d \notin Ahead(d)
    BY <1>2, BeforeOrder
  <2>3. IsFiniteSet(Ahead(e))
    BY <1>1
  <2> HIDE DEF Ahead
  <2> QED BY <2>1, <2>2, <2>3, FS_Subset
<1> HIDE DEF Ahead
<1>3. ASSUME NEW d \in reg
      PROVE  /\ DOMAIN moved(d) = DeploymentFields
             /\ moved(d).alias = d.alias /\ moved(d).at = d.at /\ moved(d).at \in Nat
             /\ moved(d).priority = 1 + Cardinality(Ahead(d)) /\ moved(d).priority \in Nat
  BY <1>1 DEF Ordered, DeploymentFields
<1>4. ASSUME NEW d \in reg, NEW e \in reg, moved(d).alias = moved(e).alias,
             moved(d).priority = moved(e).priority
      PROVE  d = e
  <2>1. d.alias = e.alias /\ Cardinality(Ahead(d)) = Cardinality(Ahead(e))
    BY <1>1, <1>3, <1>4
  <2> QED BY <2>1, <1>2, BeforeOrder
<1>5. ASSUME NEW d \in reg, NEW e \in reg, moved(d).alias = moved(e).alias,
             moved(d).at = moved(e).at
      PROVE  d = e
  <2>1. d.alias = e.alias /\ d.at = e.at
    BY <1>3, <1>5
  <2> QED BY <2>1 DEF Ordered
<1> HIDE DEF moved
<1>6. Ordered({moved(d) : d \in reg})
  BY <1>3, <1>5 DEF Ordered
<1>7. Untied({moved(d) : d \in reg})
  BY <1>4 DEF Untied
<1>8. WithDemoted(reg, dem) = IF dem = {} THEN reg ELSE {moved(d) : d \in reg}
  BY DEF WithDemoted, moved, Ahead
<1> QED BY <1>6, <1>7, <1>8

\* The registry's primary is one of the deployments the router may try first.
LEMMA PrimaryIsFirst ==
  ASSUME NEW reg, Ordered(reg), NEW alias \in AliasesOf(reg)
  PROVE  Primary(reg, alias) \in Firsts(Through(alias, reg))
<1> DEFINE S == Through(alias, reg)
           F == Firsts(S)
<1>1. S # {} /\ \A d \in S : d.priority \in Nat /\ d.at \in Nat
  BY DEF Through, AliasesOf, Ordered
<1>2. PICK d \in S : \A e \in S : d.priority <= e.priority
  BY <1>1, FirstExists
<1>3. F # {} /\ F \subseteq S
  BY <1>2 DEF Firsts
<1> HIDE DEF S
<1> HIDE DEF F
<1>4. PICK e \in F : \A f \in F : e.at <= f.at
  BY <1>1, <1>3, ListedFirstExists
<1>5. (CHOOSE x \in F : \A f \in F : x.at <= f.at) \in F
  BY <1>4
<1> QED BY <1>5 DEF Primary, F, S

\* Without a tie it is the only one.
LEMMA UntiedFirst ==
  ASSUME NEW reg, Ordered(reg), Untied(reg), NEW alias,
         NEW d \in Firsts(Through(alias, reg)), NEW e \in Firsts(Through(alias, reg))
  PROVE  d = e
<1>1. /\ d \in reg /\ e \in reg /\ d.alias = e.alias
      /\ d.priority <= e.priority /\ e.priority <= d.priority
  BY DEF Firsts, Through
<1>2. d.priority = e.priority
  BY <1>1 DEF Ordered
<1> QED BY <1>1, <1>2 DEF Untied

-----------------------------------------------------------------------------
(* The wire format of a call *)

CallFields == {"pc", "alias", "body", "through", "left", "next", "json", "attempts", "budget"}

\* A call on the wire carries the format of the first deployment of the table it goes
\* through, which is the configured one or has no ties.
SentRight(c) ==
  /\ c.alias \in AliasesOf(c.through) /\ Ordered(c.through)
  /\ c.through = baseline \/ Untied(c.through)
  /\ c.body = Primary(c.through, c.alias).family

CallInv(c) == DOMAIN c = CallFields /\ (c.pc = "sent" => SentRight(c))

\* The table calls are described from is the one the router was built from, and both
\* follow the probe: the configured table, or one renumbered without ties.
TablesInv ==
  /\ baseline \subseteq Document /\ router = registry /\ Ordered(registry)
  /\ registry = baseline \/ Untied(registry)

RoutingInv == TablesInv /\ CallInv(call)

\* What a step may do to the gateway.
RoutingStep ==
  \/ UNCHANGED routingVars
  \/ UNCHANGED healthVars /\ call' = NoCall
  \/ \E json \in BOOLEAN : StartCall(Fast, json, load.budget)
  \/ CallStep
  \/ Probe
  \/ \E e \in Endpoints : Flip(e)

LEMMA CallEndsQuietly ==
  ASSUME NEW c, DOMAIN c = CallFields, NEW pc, pc # "sent"
  PROVE  CallInv([c EXCEPT !.pc = pc])
  BY DEF CallInv, CallFields

LEMMA NoCallQuiet ==
  CallInv(NoCall) /\ DOMAIN NoCall = CallFields
  BY DEF CallInv, CallFields, NoCall

LEMMA SendKeeps ==
  ASSUME TablesInv, NEW alias, NEW json, NEW attempts, NEW budget,
         Send(alias, json, attempts, budget)
  PROVE  CallInv(call')
<1>1. CASE alias \notin AliasesOf(registry)
  BY <1>1, NoCallQuiet, CallEndsQuietly DEF Send
<1>2. CASE alias \in AliasesOf(registry)
  <2>1. call' = [pc |-> "sent", alias |-> alias, body |-> Primary(registry, alias).family,
                 through |-> router, left |-> Through(alias, router),
                 next |-> ReachableFallbacks(router, alias), json |-> json,
                 attempts |-> attempts, budget |-> budget]
    BY <1>2 DEF Send
  <2>2. DOMAIN call' = CallFields
    BY <2>1 DEF CallFields
  <2>3. SentRight(call')
    BY <2>1, <1>2 DEF SentRight, TablesInv
  <2> QED BY <2>2, <2>3 DEF CallInv
<1> QED BY <1>1, <1>2

LEMMA StartCallKeeps ==
  ASSUME RoutingInv, NEW alias, NEW json, NEW budget, StartCall(alias, json, budget)
  PROVE  CallInv(call')
<1>1. CASE budget = 0
  BY <1>1, NoCallQuiet, CallEndsQuietly DEF StartCall
<1>2. CASE budget # 0
  BY <1>2, SendKeeps DEF StartCall, RoutingInv
<1> QED BY <1>1, <1>2

LEMMA CallAnsweredKeeps ==
  ASSUME RoutingInv, NEW reply, CallAnswered(reply)
  PROVE  CallInv(call')
<1>1. DOMAIN call = CallFields
  BY DEF RoutingInv, CallInv
<1>2. \E pc \in {"protocol", "text", "object", "invalid", "repair"} : call' = [call EXCEPT !.pc = pc]
  BY DEF CallAnswered
<1> QED BY <1>1, <1>2, CallEndsQuietly

LEMMA RepairKeeps ==
  ASSUME RoutingInv, Repair
  PROVE  CallInv(call')
<1>1. CASE call.budget = 0
  BY <1>1, NoCallQuiet, CallEndsQuietly DEF Repair
<1>2. CASE call.budget # 0
  BY <1>2, SendKeeps DEF Repair, RoutingInv
<1> QED BY <1>1, <1>2

LEMMA CallRefusedKeeps ==
  ASSUME RoutingInv, NEW exception, CallRefused(exception)
  PROVE  CallInv(call')
<1>1. DOMAIN call = CallFields /\ SentRight(call)
  BY DEF RoutingInv, CallInv, CallRefused
<1>2. PICK left, next, pc :
         call' \in {[call EXCEPT !.left = left], [call EXCEPT !.left = left, !.next = next],
                    [call EXCEPT !.left = left, !.pc = pc]}
  BY DEF CallRefused
<1>3. /\ DOMAIN call' = CallFields /\ call'.alias = call.alias
      /\ call'.through = call.through /\ call'.body = call.body
  BY <1>1, <1>2 DEF CallFields
<1> QED BY <1>1, <1>3 DEF CallInv, SentRight

LEMMA ProbeKeeps ==
  ASSUME RoutingInv, Probe
  PROVE  TablesInv' /\ call' = call
<1>1. CASE StartRefresh
  BY <1>1 DEF StartRefresh, RoutingInv, TablesInv
<1>2. CASE EndRefresh
  <2>1. /\ Ordered(WithDemoted(baseline, demoted))
        /\ WithDemoted(baseline, demoted) = baseline \/ Untied(WithDemoted(baseline, demoted))
    BY DocumentOrdered, WithDemotedOrdered DEF RoutingInv, TablesInv
  <2> QED BY <1>2, <2>1 DEF EndRefresh, UseRegistry, RoutingInv, TablesInv
<1>3. CASE \E e \in Endpoints : ProbeOne(e)
  BY <1>3 DEF ProbeOne, RoutingInv, TablesInv
<1> QED BY <1>1, <1>2, <1>3 DEF Probe

\* Nothing reconfigures the keys while the program runs.
LEMMA BaselineStays ==
  ASSUME RoutingStep
  PROVE  baseline' = baseline
  BY DEF RoutingStep, routingVars, healthVars, StartCall, CallStep, CallAnswered, Repair,
         CallRefused, Probe, StartRefresh, EndRefresh, ProbeOne, Flip

LEMMA RoutingStepKeeps ==
  ASSUME RoutingInv, RoutingStep
  PROVE  RoutingInv'
<1>1. ASSUME CallInv(call') PROVE CallInv(call)'
  BY <1>1, BaselineStays DEF CallInv, SentRight
<1>2. ASSUME UNCHANGED healthVars, CallInv(call') PROVE RoutingInv'
  BY <1>1, <1>2 DEF healthVars, RoutingInv, TablesInv
<1>3. CASE UNCHANGED routingVars
  BY <1>2, <1>3 DEF routingVars, RoutingInv
<1>4. CASE UNCHANGED healthVars /\ call' = NoCall
  BY <1>2, <1>4, NoCallQuiet
<1>5. CASE \E json \in BOOLEAN : StartCall(Fast, json, load.budget)
  BY <1>2, <1>5, StartCallKeeps DEF StartCall
<1>6. CASE CallStep
  <2>1. CallInv(call')
    BY <1>6, CallAnsweredKeeps, RepairKeeps, CallRefusedKeeps DEF CallStep
  <2>2. UNCHANGED healthVars
    BY <1>6 DEF CallStep, CallAnswered, Repair, CallRefused
  <2> QED BY <2>1, <2>2, <1>2
<1>7. CASE Probe
  <2>1. TablesInv' /\ CallInv(call')
    BY <1>7, ProbeKeeps DEF RoutingInv
  <2> QED BY <2>1, <1>1 DEF RoutingInv
<1>8. CASE \E e \in Endpoints : Flip(e)
  <2>1. UNCHANGED <<baseline, registry, router, call>>
    BY <1>8 DEF Flip
  <2>2. TablesInv'
    BY <2>1 DEF RoutingInv, TablesInv
  <2> QED BY <2>1, <2>2, <1>1 DEF RoutingInv
<1> QED BY <1>3, <1>4, <1>5, <1>6, <1>7, <1>8 DEF RoutingStep

\* Every step of the system is one of those, as far as the gateway sees it.
LEMMA EveryStepIsRouting ==
  ASSUME [Next]_vars
  PROVE  RoutingStep
<1>1. CASE UNCHANGED vars
  BY <1>1 DEF vars, RoutingStep
<1>2. CASE (StartTurn \/ Reassign \/ ServerFlips) /\ UNCHANGED analysisVars
  BY <1>2 DEF StartTurn, Reassign, ServerFlips, RoutingStep
<1>3. CASE load.probing /\ Probe /\ UNCHANGED <<conversationVars, analysisVars>>
  BY <1>3 DEF RoutingStep
<1>4. CASE TurnStep
  <2>1. CASE ParseStarted \/ ChatStarted \/ GuardStarted \/ ComposeStarted
    BY <2>1 DEF ParseStarted, ChatStarted, GuardStarted, ComposeStarted, CallModel, RoutingStep
  <2>2. CASE Parsed \/ Chatted \/ Guarded \/ Composed
    BY <2>2 DEF Parsed, Chatted, Guarded, Composed, CallOver, RoutingStep
  <2>3. CASE DrillParsed \/ Authorize \/ ResolveRequest \/ DirectoryFails \/ Execute \/ FetchFailed \/ Judged
    BY <2>3 DEF DrillParsed, Authorize, ResolveRequest, DirectoryFails, Execute, FetchFailed, Judged,
             RoutingStep
  <2> QED BY <1>4, <2>1, <2>2, <2>3 DEF TurnStep
<1>5. CASE CallStep
  BY <1>5 DEF RoutingStep
<1>6. CASE AnalysisStep
  <2>1. CASE PlanStarted
    BY <2>1 DEF PlanStarted, RoutingStep
  <2>2. CASE Planned
    BY <2>2 DEF Planned, CallOver, RoutingStep
  <2>3. CASE RunAnalysis \/ PlanExhausted \/ ToolDenied \/ Ensure \/ LoadFacts \/ Analyze
             \/ LookupKnowledge \/ Submit
    BY <2>3 DEF RunAnalysis, PlanExhausted, ToolDenied, Ensure, LoadFacts, Analyze, LookupKnowledge,
             Submit, RoutingStep
  <2> QED BY <1>6, <2>1, <2>2, <2>3 DEF AnalysisStep
<1>7. CASE Report
  BY <1>7 DEF Report, RoutingStep
<1> QED BY <1>1, <1>2, <1>3, <1>4, <1>5, <1>6, <1>7 DEF Next, Step

LEMMA RoutingStarts == Init => RoutingInv
<1> SUFFICES ASSUME Init PROVE RoutingInv
  OBVIOUS
<1>1. baseline \subseteq Document
  BY DEF Init, Resolve
<1>2. registry = baseline /\ router = baseline /\ call = NoCall
  BY DEF Init, RoutingInit
<1> QED BY <1>1, <1>2, DocumentOrdered, NoCallQuiet DEF RoutingInv, TablesInv

\* A call that still has all deployments of its alias before it has the format of one of
\* the first, and of the first where the probe has renumbered them.
LEMMA RoutingInvMatches == RoutingInv => WireFormatMatches
<1> SUFFICES ASSUME RoutingInv, call.pc = "sent", call.left = Through(call.alias, call.through)
             PROVE  /\ \E d \in Candidates : call.body = d.family
                    /\ call.through = baseline \/ \A d, e \in Candidates : d = e
  BY DEF WireFormatMatches
<1>1. SentRight(call)
  BY DEF RoutingInv, CallInv
<1>2. Candidates = Firsts(Through(call.alias, call.through))
  BY DEF Candidates
<1>3. \E d \in Candidates : call.body = d.family
  BY <1>1, <1>2, PrimaryIsFirst DEF SentRight
<1>4. ASSUME Untied(call.through), NEW d \in Candidates, NEW e \in Candidates PROVE d = e
  BY <1>1, <1>2, <1>4, UntiedFirst DEF SentRight
<1> QED BY <1>1, <1>3, <1>4 DEF SentRight

\* However the probe reorders the deployments around a call, the thinking fields it carries
\* are in the format of a deployment the router may try first, and of the only one once the
\* probe has renumbered the alias (`use_registry` with `with_demoted_endpoints`,
\* `_thinking_body`). Equal priorities of a document are allowed.
THEOREM CallsSpeakTheFirstFormat == Spec => []WireFormatMatches
<1>1. RoutingInv /\ [Next]_vars => RoutingInv'
  BY RoutingStepKeeps, EveryStepIsRouting
<1> QED BY <1>1, RoutingStarts, RoutingInvMatches, PTL DEF Spec

-----------------------------------------------------------------------------
(* The turn: its scope and its period *)

TurnFields == {"pc", "auth", "input", "intent", "filters", "fetch", "finding", "outcome"}
IntentFields == {"cap", "unclear", "missing", "window"}

\* Filters that reach no further than the authorization of the turn.
InScope(f, auth) ==
  /\ auth.role = "owner" \/ f.depts \subseteq auth.depts
  /\ auth.role = "employee" => f.emps = {Me}

\* Whom a card or an analysis names is of the bound departments.
NamedWithin(t, f) ==
  "view" \in DOMAIN t.input \/ t.intent.cap = "l2" => WithinDepartments(f.emps, t.auth)

\* The capability of the turn passed the role matrix.
Permitted(t) == t.intent.cap \in Capabilities /\ t.auth.role \in CapabilityRoles[t.intent.cap]

FromCard(t) == "view" \in DOMAIN t.input

\* A card names nobody, somebody, or an id the directory does not know.
ByIdOnly(t) == FromCard(t) => t.input.who \in Employees \cup {None, "nobody"}

\* The input says nothing about time.
Silent(t) == Stated(t) = None /\ t.input.words = None

\* The period w is one the input names, or what an input that names none may fall back on.
AskedFor(t, s, w) ==
  IF Silent(t) THEN w \in {s.window} \cup (IF FromCard(t) THEN {ThisMonth} ELSE {})
  ELSE w \in Readings(t) /\ (FromCard(t) /\ t.input.range # None => w = t.input.range)

\* The window of the intent is such a period; while it is open, the input named none.
Understood(t, s) ==
  /\ DOMAIN t.intent = IntentFields
  /\ t.intent.window \in Windows \cup {None, "long"}
  /\ t.intent.window \in Windows => AskedFor(t, s, t.intent.window)
  /\ t.intent.window = None => Silent(t)
  /\ ByIdOnly(t)

BeforeTheCall == {"analysis", "authorize", "guard", "guarding", "resolve"}
PlannerLoop == {"plan", "planning", "tool", "load"}

TurnInv(t, s) ==
  /\ DOMAIN t = TurnFields
  /\ s.window \in Windows \cup {None}
  /\ t.pc = "drill" => FromCard(t) /\ ByIdOnly(t)
  /\ t.pc \in {"parse", "parsing", "drill"} => t.fetch = None
  /\ t.pc \in BeforeTheCall => Understood(t, s)
  /\ t.pc \in {"guard", "guarding", "resolve"} => Permitted(t)
  /\ t.pc \in PlannerLoop \cup {"execute"} => InScope(t.filters, t.auth)
  /\ t.pc = "execute" => NamedWithin(t, t.filters)
  /\ t.fetch # None => InScope(t.fetch.filters, t.auth) /\ NamedWithin(t, t.fetch.filters)
  /\ t.pc \in {"execute", "fetched", "compose", "composing", "load"} => t.intent.window \in Windows
  /\ t.pc \in PlannerLoop => t.intent.window \in Windows \cup {None}
  /\ t.pc \in PlannerLoop \cup {"execute"} =>
       (t.intent.window \in Windows => AskedFor(t, s, t.intent.window))

\* What holds of a turn at every point of it.
Frame(t, s) ==
  /\ DOMAIN t = TurnFields /\ s.window \in Windows \cup {None}
  /\ t.fetch # None => InScope(t.fetch.filters, t.auth) /\ NamedWithin(t, t.fetch.filters)

LEMMA TurnInvFrame == ASSUME NEW t, NEW s, TurnInv(t, s) PROVE Frame(t, s)
  BY DEF TurnInv, Frame

\* A turn that ends promises nothing more.
LEMMA FinishKeeps ==
  ASSUME NEW t, NEW o, Frame(t, session), Finish(t, o)
  PROVE  TurnInv(turn', session') /\ turn'.pc = "over" /\ turn'.fetch = t.fetch
<1>1. session' = session /\ turn' = [t EXCEPT !.pc = "over", !.outcome = o]
  BY DEF Finish
<1>2. /\ DOMAIN turn' = TurnFields /\ turn'.pc = "over" /\ turn'.fetch = t.fetch
      /\ turn'.auth = t.auth /\ turn'.input = t.input /\ turn'.intent = t.intent
  BY <1>1 DEF Frame, TurnFields
<1> QED BY <1>1, <1>2 DEF TurnInv, Frame, NamedWithin, BeforeTheCall, PlannerLoop

\* The parts of a turn that a change of pc leaves alone.
LEMMA GotoFields ==
  ASSUME NEW t, NEW pc, DOMAIN t = TurnFields, Goto(t, pc)
  PROVE  /\ session' = session /\ DOMAIN turn' = TurnFields /\ turn'.pc = pc
         /\ turn'.auth = t.auth /\ turn'.input = t.input /\ turn'.intent = t.intent
         /\ turn'.filters = t.filters /\ turn'.fetch = t.fetch
  BY DEF Goto, TurnFields

\* What is known of a turn is known of it at its next point.
LEMMA SameFacts ==
  ASSUME NEW t, NEW u, NEW s, DOMAIN u = TurnFields, u.auth = t.auth, u.input = t.input,
         u.intent = t.intent, u.filters = t.filters, u.fetch = t.fetch
  PROVE  /\ Frame(t, s) => Frame(u, s)
         /\ Understood(t, s) => Understood(u, s)
         /\ Permitted(t) => Permitted(u)
         /\ FromCard(t) => FromCard(u)
         /\ \A f : NamedWithin(t, f) => NamedWithin(u, f)
         /\ \A w : AskedFor(t, s, w) => AskedFor(u, s, w)
<1>1. Silent(t) <=> Silent(u)
  BY DEF Silent, Stated
<1>2. (FromCard(t) <=> FromCard(u)) /\ Readings(u) = Readings(t)
  BY DEF FromCard, Readings, Stated
<1>3. \A w : AskedFor(t, s, w) => AskedFor(u, s, w)
  BY <1>1, <1>2 DEF AskedFor
<1>4. Understood(t, s) => Understood(u, s)
  BY <1>1, <1>2, <1>3 DEF Understood, ByIdOnly
<1>5. \A f : NamedWithin(t, f) => NamedWithin(u, f)
  BY DEF NamedWithin
<1> QED BY <1>2, <1>3, <1>4, <1>5 DEF Frame, Permitted

\* Points of a turn about which nothing is promised but its frame.
LEMMA QuietPoint ==
  ASSUME NEW t, NEW s, Frame(t, s),
         t.pc \in {"idle", "over", "parse", "parsing", "chat", "chatting"},
         t.pc \in {"parse", "parsing"} => t.fetch = None
  PROVE  TurnInv(t, s)
  BY DEF TurnInv, Frame, BeforeTheCall, PlannerLoop

\* Once the intent needs no question, the turn is chat, an analysis or a capability.
LEMMA RouteKeeps ==
  ASSUME NEW t, NEW content, Frame(t, session), Route(t, content),
         ~NeedsClarification(t.intent) => t.intent.cap = "chitchat" \/ Understood(t, session)
  PROVE  TurnInv(turn', session') /\ turn'.fetch = t.fetch
<1>1. CASE NeedsClarification(t.intent)
  BY <1>1, FinishKeeps DEF Route, Ask
<1>2. CASE ~NeedsClarification(t.intent)
  <2>1. CASE Finish(t, "chatted")
    BY <2>1, FinishKeeps
  <2>2. CASE Goto(t, "chat")
    BY <2>2, GotoFields, SameFacts, QuietPoint DEF Frame
  <2>3. ASSUME Goto(t, "analysis") \/ Goto(t, "authorize"), t.intent.cap # "chitchat"
        PROVE  TurnInv(turn', session') /\ turn'.fetch = t.fetch
    <3>1. PICK pc \in {"analysis", "authorize"} : Goto(t, pc)
      BY <2>3
    <3>2. Understood(turn', session') /\ Frame(turn', session') /\ turn'.pc = pc /\ turn'.fetch = t.fetch
      BY <3>1, <2>3, <1>2, GotoFields, SameFacts DEF Frame
    <3> QED BY <3>2 DEF TurnInv, Frame, BeforeTheCall, PlannerLoop
  <2>4. \/ Finish(t, "chatted") \/ Goto(t, "chat")
        \/ t.intent.cap # "chitchat" /\ (Goto(t, "analysis") \/ Goto(t, "authorize"))
    BY <1>2 DEF Route
  <2> QED BY <2>1, <2>2, <2>3, <2>4
<1> QED BY <1>1, <1>2

LEMMA StartTurnKeeps ==
  ASSUME TurnInv(turn, session), load.scenario \in Scenarios, StartTurn
  PROVE  TurnInv(turn', session') /\ turn'.fetch = None
<1>1. PICK d \in {x \in Drills[load.scenario] : ValidDrill(x)} \cup {None} :
         turn' = [NoTurn EXCEPT !.pc = IF d = None THEN "parse" ELSE "drill",
                                !.auth = member, !.input = d]
  BY DEF StartTurn
<1>2. /\ DOMAIN turn' = TurnFields /\ turn'.fetch = None /\ turn'.input = d
      /\ turn'.pc = IF d = None THEN "parse" ELSE "drill"
  BY <1>1 DEF NoTurn, TurnFields
<1>3. session' = session
  BY DEF StartTurn
<1>4. d # None => FromCard(turn') /\ ByIdOnly(turn')
  BY <1>2, TimeAssumption, CardAssumption DEF FromCard, ByIdOnly
<1> QED BY <1>2, <1>3, <1>4 DEF TurnInv, BeforeTheCall, PlannerLoop

\* The window of a payload: a reading of it, or none only where it names no time or is unclear.
LEMMA WindowRead ==
  ASSUME NEW p, p.range \in Windows \cup {None, "long", "bad"}
  PROVE  /\ BuildWindow(p) \in Windows \cup {None, "long"}
         /\ BuildWindow(p) \in Windows =>
              /\ BuildWindow(p) \in {ModelRange(p), RuleRange(p)}
              /\ ~(ModelRange(p) = None /\ p.words = None)
         /\ BuildWindow(p) = None /\ ~TimeUnclear(p) => ModelRange(p) = None /\ p.words = None
<1>1. ModelRange(p) \in Windows \cup {None, "long", "bad"}
  BY DEF ModelRange
<1>2. p.words = None => RuleRange(p) = None
  BY DEF RuleRange
<1>3. p.words # None => RuleRange(p) \in Windows \cup {"unreadable"}
  BY TimeAssumption DEF RuleRange, ResolveTimeExpression
<1>4. \A w \in Windows : TimeRangeViolation(w) = None
  BY TimeAssumption DEF TimeRangeViolation
<1>5. TimeRangeViolation("long") # None /\ TimeRangeViolation("bad") # None
  BY TimeAssumption DEF TimeRangeViolation
<1> QED BY <1>1, <1>2, <1>3, <1>4, <1>5, TimeAssumption DEF BuildWindow, TimeUnclear

\* An intent that is not chat carries the payload's window, and is clear only if that is.
Reads(i, p) ==
  /\ i.window = BuildWindow(p)
  /\ ~i.unclear => ~TimeUnclear(p)
  /\ i.missing = {"time_range"} => BuildWindow(p) = None

LEMMA InterpretReads ==
  ASSUME NEW p, NEW auth
  PROVE  /\ DOMAIN Interpret(p, auth) = IntentFields
         /\ p.type = "chitchat" => Interpret(p, auth).cap = "chitchat"
         /\ p.type # "chitchat" /\ Interpret(p, auth).cap # None => Reads(Interpret(p, auth), p)
<1> DEFINE low == ~p.clear \/ ~p.sure
           slots == TimeUnclear(p) \/ p.beds = "bad"
           i == Interpret(p, auth)
<1>1. CASE p.type = "l2"
  <2>1. PICK flag \in BOOLEAN : flag = (low \/ slots \/ p.leak)
    OBVIOUS
  <2>2. i = [cap |-> "l2", unclear |-> flag, missing |-> {}, window |-> BuildWindow(p)]
    BY <1>1, <2>1 DEF Interpret
  <2>3. ~flag => ~TimeUnclear(p)
    BY <2>1
  <2> HIDE DEF i
  <2>4. DOMAIN i = IntentFields /\ i.window = BuildWindow(p) /\ i.missing = {} /\ i.unclear = flag
    BY <2>2 DEF IntentFields
  <2>5. Reads(i, p)
    BY <2>3, <2>4 DEF Reads
  <2> QED BY <1>1, <2>4, <2>5 DEF i
<1>2. CASE p.type = "chitchat"
  BY <1>2 DEF Interpret, IntentFields
<1>3. CASE p.type \notin {"l2", "chitchat"} /\ Selectable(p.cap, auth)
  <2>1. PICK flag \in BOOLEAN : flag = (low \/ slots)
    OBVIOUS
  <2>2. i = [cap |-> p.cap, unclear |-> flag, missing |-> Required[p.cap] \ FilledNames(p),
             window |-> BuildWindow(p)]
    BY <1>3, <2>1 DEF Interpret
  <2>3. ~flag => ~TimeUnclear(p)
    BY <2>1
  <2> HIDE DEF i
  <2>4. /\ DOMAIN i = IntentFields /\ i.window = BuildWindow(p) /\ i.unclear = flag
        /\ i.missing = Required[p.cap] \ FilledNames(p)
    BY <2>2 DEF IntentFields
  <2>5. i.missing = {"time_range"} => BuildWindow(p) = None
    BY <2>4 DEF FilledNames
  <2>6. Reads(i, p)
    BY <2>3, <2>4, <2>5 DEF Reads
  <2> QED BY <1>3, <2>4, <2>6 DEF i
<1>4. CASE p.type \notin {"l2", "chitchat"} /\ ~Selectable(p.cap, auth)
  BY <1>4 DEF Interpret, NoIntent, IntentFields
<1> QED BY <1>1, <1>2, <1>3, <1>4

\* The intent of a payload, rescued by the session's window where that is all it lacks.
IntentOf(p, w, auth) ==
  LET i == BedsToAnalysis(p, Interpret(p, auth)) IN
  IF NeedsClarification(i) THEN Rescued(i, w) ELSE i

LEMMA ParsedIntent ==
  ASSUME TurnInv(turn, session), NEW p, p.range \in Windows \cup {None, "long", "bad"},
         "view" \notin DOMAIN p, NEW w \in SessionWindow, NEW t, turn.pc = "parsing",
         t = [turn EXCEPT !.input = p, !.intent = IntentOf(p, w, turn.auth)]
  PROVE  /\ Frame(t, session) /\ t.fetch = turn.fetch
         /\ ~NeedsClarification(t.intent) => t.intent.cap = "chitchat" \/ Understood(t, session)
<1> PICK i : i = BedsToAnalysis(p, Interpret(p, turn.auth))
  OBVIOUS
<1> PICK r : r = IF NeedsClarification(i) THEN Rescued(i, w) ELSE i
  OBVIOUS
<1> t = [turn EXCEPT !.input = p, !.intent = r]
  BY DEF IntentOf
<1>1. DOMAIN turn = TurnFields
  BY DEF TurnInv
<1>2. /\ DOMAIN t = TurnFields /\ t.fetch = turn.fetch /\ t.auth = turn.auth
      /\ t.input = p /\ t.intent = r
  BY <1>1 DEF TurnFields
<1>3. Frame(t, session)
  BY <1>2 DEF TurnInv, Frame
<1> DEFINE i0 == Interpret(p, turn.auth)
<1>4. DOMAIN i = IntentFields
  BY InterpretReads DEF BedsToAnalysis, IntentFields
<1>5. p.type = "chitchat" => i.cap = "chitchat"
  BY InterpretReads DEF BedsToAnalysis
<1>6. ASSUME p.type # "chitchat", i.cap # None PROVE Reads(i, p)
  <2>1. i0.cap # None => Reads(i0, p) /\ DOMAIN i0 = IntentFields
    BY <1>6, InterpretReads
  <2> HIDE DEF i0
  <2>2. CASE i = i0
    BY <2>1, <2>2, <1>6
  <2>3. CASE i = [i0 EXCEPT !.cap = "l2", !.missing = {}] /\ i0.cap # None
    BY <2>1, <2>3 DEF Reads, IntentFields
  <2> QED BY <2>2, <2>3 DEF BedsToAnalysis, i0
<1>7. /\ ModelRange(p) = Stated(t) /\ ~FromCard(t)
      /\ Readings(t) = {ModelRange(p), RuleRange(p)} \cap Windows
  BY <1>2 DEF Stated, FromCard, Readings
<1>8. ASSUME ~NeedsClarification(r), r.cap # "chitchat"
      PROVE  Understood(t, session)
  <2>1. CASE r = i
    <3>1. Reads(i, p) /\ ~TimeUnclear(p)
      BY <1>5, <1>6, <1>8, <2>1 DEF NeedsClarification, Reads
    <3>2. r.window = BuildWindow(p)
      BY <3>1, <2>1 DEF Reads
    <3>3. r.window \in Windows => AskedFor(t, session, r.window)
      BY <3>2, <1>7, <1>2, WindowRead DEF AskedFor, Silent
    <3>4. r.window = None => Silent(t)
      BY <3>1, <3>2, <1>7, <1>2, WindowRead DEF Silent
    <3> QED BY <3>2, <3>3, <3>4, <1>2, <1>4, <1>7, <2>1, WindowRead DEF Understood, ByIdOnly
  <2>2. CASE r = [i EXCEPT !.window = w, !.missing = {}] /\ i.cap # None /\ ~i.unclear
             /\ i.missing = {"time_range"} /\ w # None
    <3>1. DOMAIN r = IntentFields /\ r.window = w /\ r.cap = i.cap
      BY <2>2, <1>4 DEF IntentFields
    <3>2. BuildWindow(p) = None /\ ~TimeUnclear(p)
      BY <2>2, <3>1, <1>5, <1>6, <1>8 DEF Reads
    <3>3. Silent(t)
      BY <3>2, <1>7, <1>2, WindowRead DEF Silent
    <3>4. w = session.window /\ w \in Windows
      BY <2>2 DEF SessionWindow, TurnInv
    <3>5. AskedFor(t, session, w)
      BY <3>3, <3>4 DEF AskedFor
    <3> QED BY <3>1, <3>3, <3>4, <3>5, <1>2, <1>7 DEF Understood, ByIdOnly
  <2> QED BY <2>1, <2>2 DEF Rescued
<1> QED BY <1>2, <1>3, <1>8

LEMMA ParsedKeeps ==
  ASSUME TurnInv(turn, session), load.scenario \in Scenarios, Parsed
  PROVE  TurnInv(turn', session') /\ turn'.fetch = turn.fetch
<1>1. CASE Finish(turn, "model_failed")
  BY <1>1, FinishKeeps, TurnInvFrame
<1>2. CASE \E p \in Payloads[load.scenario], w \in SessionWindow :
             LET i == BedsToAnalysis(p, Interpret(p, turn.auth))
                 r == IF NeedsClarification(i) THEN Rescued(i, w) ELSE i
             IN Route([turn EXCEPT !.input = p, !.intent = r], p.content)
  <2>1. PICK p \in Payloads[load.scenario], w \in SessionWindow :
             LET i == BedsToAnalysis(p, Interpret(p, turn.auth))
                 r == IF NeedsClarification(i) THEN Rescued(i, w) ELSE i
             IN Route([turn EXCEPT !.input = p, !.intent = r], p.content)
    BY <1>2
  <2>4. PICK t : t = [turn EXCEPT !.input = p, !.intent = IntentOf(p, w, turn.auth)]
    OBVIOUS
  <2>5. Route(t, p.content)
    BY <2>1, <2>4 DEF IntentOf
  <2>6. p.range \in Windows \cup {None, "long", "bad"} /\ "view" \notin DOMAIN p
    BY TimeAssumption
  <2>7. /\ Frame(t, session) /\ t.fetch = turn.fetch
        /\ ~NeedsClarification(t.intent) => t.intent.cap = "chitchat" \/ Understood(t, session)
    BY <2>4, <2>6, ParsedIntent DEF Parsed, CallOver
  <2> QED BY <2>5, <2>7, RouteKeeps
<1> QED BY <1>1, <1>2 DEF Parsed

LEMMA DrillParsedKeeps ==
  ASSUME TurnInv(turn, session), DrillParsed
  PROVE  TurnInv(turn', session') /\ turn'.fetch = turn.fetch
<1>1. Frame(turn, session) /\ FromCard(turn) /\ ByIdOnly(turn) /\ turn.fetch = None
  BY TurnInvFrame DEF TurnInv, DrillParsed
<1>2. PICK inherited \in SessionWindow :
          LET w == DrillWindow(turn.input, inherited) IN
          IF w = "invalid" THEN Finish(turn, "drill_invalid_time")
          ELSE Route([turn EXCEPT !.intent = [cap |-> turn.input.cap, unclear |-> FALSE,
                                              missing |-> {}, window |-> w]], FALSE)
  BY DEF DrillParsed
<1>3. PICK w : w = DrillWindow(turn.input, inherited)
  OBVIOUS
<1>4. CASE w = "invalid"
  BY <1>1, <1>2, <1>3, <1>4, FinishKeeps
<1>5. CASE w # "invalid"
  <2>1. PICK i : i = [cap |-> turn.input.cap, unclear |-> FALSE, missing |-> {}, window |-> w]
    OBVIOUS
  <2>2. PICK t : t = [turn EXCEPT !.intent = i]
    OBVIOUS
  <2>3. Route(t, FALSE)
    BY <1>2, <1>3, <1>5, <2>1, <2>2
  <2>4. DOMAIN i = IntentFields /\ i.window = w
    BY <2>1 DEF IntentFields
  <2>5. /\ DOMAIN t = TurnFields /\ t.auth = turn.auth /\ t.input = turn.input
        /\ t.intent = i /\ t.fetch = turn.fetch
    BY <2>2, <1>1 DEF Frame, TurnFields
  <2>6. Frame(t, session)
    BY <2>5, <1>1 DEF Frame
  <2>7. Stated(t) = t.input.range /\ FromCard(t)
    BY <2>5, <1>1 DEF FromCard, Stated
  <2>8. w \in Windows /\ AskedFor(t, session, w)
    <3>1. CASE t.input.range # None
      BY <3>1, <2>5, <2>7, <1>3, <1>5 DEF DrillWindow, ValidOr, AskedFor, Silent, Readings
    <3>2. CASE t.input.range = None /\ t.input.words # None
      BY <3>2, <2>5, <2>7, <1>3, <1>5 DEF DrillWindow, ValidOr, AskedFor, Silent, Readings
    <3>3. CASE t.input.range = None /\ t.input.words = None
      <4>1. w \in {session.window, ThisMonth} /\ w \in Windows
        BY <3>3, <2>5, <1>3, ConversationAssumption DEF DrillWindow, SessionWindow, TurnInv
      <4> QED BY <3>3, <4>1, <2>7 DEF AskedFor, Silent
    <3> QED BY <3>1, <3>2, <3>3
  <2>9. Understood(t, session)
    BY <1>1, <2>4, <2>5, <2>8, TimeAssumption DEF Understood, ByIdOnly, FromCard
  <2> QED BY <2>3, <2>5, <2>6, <2>9, RouteKeeps
<1> QED BY <1>4, <1>5

LEMMA ScopeFacts ==
  ASSUME NEW auth, NEW scope, scope = DataScope(auth)
  PROVE  /\ scope.emps = {Me} /\ scope.depts = auth.depts
         /\ scope.mesFiltered => auth.role = "owner"
<1>1. scope.emps = {Me} /\ scope.depts = auth.depts
  BY DEF DataScope
<1>2. PICK flag \in BOOLEAN : flag = (auth.role = "owner")
  OBVIOUS
<1>3. scope = [emps |-> {Me}, depts |-> auth.depts, mesFiltered |-> flag]
  BY <1>2 DEF DataScope
<1>4. scope.mesFiltered = flag
  BY <1>3
<1> QED BY <1>1, <1>2, <1>4

\* Narrowing never leaves the scope of the authorization.
LEMMA NarrowForInScope ==
  ASSUME NEW auth, NEW cap, NEW found, auth.role = "employee" => cap \in PersonalCapabilities
  PROVE  InScope(NarrowFor(cap, DataScope(auth), found), auth)
<1> PICK scope : scope = DataScope(auth)
  OBVIOUS
<1> PICK f : f = NarrowFor(cap, scope, found)
  OBVIOUS
<1>1. f.depts = IF found.depts = None THEN scope.depts
                ELSE IF scope.mesFiltered THEN found.depts ELSE found.depts \cap scope.depts
  BY DEF Narrow, NarrowFor
<1>2. cap \in PersonalCapabilities => f.emps = scope.emps
  BY DEF Narrow, NarrowFor
<1> QED BY <1>1, <1>2, ScopeFacts DEF InScope

\* Whom a card names is looked up, and refused outside the bound departments.
LEMMA DrillNamesTheBound ==
  ASSUME NEW auth, NEW cap, NEW d, d.who \in Employees \cup {None, "nobody"},
         NEW found, found = DrillLookup(d, DataScope(auth)), found.verdict = "found"
  PROVE  WithinDepartments(NarrowFor(cap, DataScope(auth), found).emps, auth)
<1> PICK scope : scope = DataScope(auth)
  OBVIOUS
<1> PICK f : f = NarrowFor(cap, scope, found)
  OBVIOUS
<1>1. /\ found.people = IF d.who = None THEN None ELSE {d.who}
      /\ d.who # "nobody"
      /\ d.who \in Employees => DeptOf[d.who] \in scope.depts \/ scope.mesFiltered
  BY DEF DrillLookup, Lookup
<1>2. /\ f.emps \in {scope.emps, found.people, None}
      /\ f.emps = found.people => f.emps = None \/ f.emps = {d.who}
  BY <1>1 DEF Narrow, NarrowFor
<1>3. auth.role # "owner" /\ d.who \in Employees => DeptOf[d.who] \in auth.depts
  BY <1>1, ScopeFacts
<1>4. ASSUME auth.role # "owner", f.emps # None, NEW e \in f.emps
      PROVE  e = Me \/ DeptOf[e] \in auth.depts
  <2>1. CASE f.emps = scope.emps
    BY <1>4, <2>1, ScopeFacts
  <2>2. CASE f.emps = found.people
    <3>1. e = d.who /\ d.who # None
      BY <1>1, <1>2, <1>4, <2>2
    <3> QED BY <1>1, <1>3, <1>4, <3>1
  <2> QED BY <1>2, <1>4, <2>1, <2>2
<1>5. WithinDepartments(f.emps, auth)
  BY <1>4 DEF WithinDepartments
<1> QED BY <1>5

LEMMA NarrowSelfInScope ==
  ASSUME NEW t, NEW found
  PROVE  InScope(Narrow(DataScope(t.auth), SelfOnly(t), found.people, found.depts, SelfOnly(t)), t.auth)
<1> PICK scope : scope = DataScope(t.auth)
  OBVIOUS
<1> PICK f : f = Narrow(scope, SelfOnly(t), found.people, found.depts, SelfOnly(t))
  OBVIOUS
<1>1. f.depts = IF found.depts = None THEN scope.depts
                ELSE IF scope.mesFiltered THEN found.depts ELSE found.depts \cap scope.depts
  BY DEF Narrow
<1>2. t.auth.role = "employee" => f.emps = scope.emps
  BY DEF Narrow, SelfOnly
<1> QED BY <1>1, <1>2, ScopeFacts DEF InScope

\* A model call starts: the turn waits at the point after it.
LEMMA WaitKeeps ==
  ASSUME TurnInv(turn, session), NEW pc, NEW waiting, turn.pc = pc, Goto(turn, waiting),
         <<pc, waiting>> \in {<<"parse", "parsing">>, <<"chat", "chatting">>,
                              <<"guard", "guarding">>, <<"compose", "composing">>}
  PROVE  TurnInv(turn', session') /\ turn'.fetch = turn.fetch
<1>1. DOMAIN turn = TurnFields
  BY DEF TurnInv
<1>2. /\ session' = session /\ DOMAIN turn' = TurnFields /\ turn'.pc = waiting
      /\ turn'.auth = turn.auth /\ turn'.input = turn.input /\ turn'.intent = turn.intent
      /\ turn'.filters = turn.filters /\ turn'.fetch = turn.fetch
  BY <1>1, GotoFields
<1>3. Frame(turn', session)
  BY <1>2, SameFacts, TurnInvFrame
<1>4. CASE waiting = "guarding"
  <2>1. Understood(turn, session) /\ Permitted(turn)
    BY <1>4 DEF TurnInv, BeforeTheCall
  <2>2. Understood(turn', session) /\ Permitted(turn')
    BY <2>1, <1>2, SameFacts
  <2> QED BY <1>2, <1>3, <1>4, <2>2 DEF TurnInv, Frame, PlannerLoop
<1>5. CASE waiting = "composing"
  <2>1. turn'.intent.window \in Windows
    BY <1>2, <1>5 DEF TurnInv
  <2> QED BY <1>2, <1>3, <1>5, <2>1 DEF TurnInv, Frame, PlannerLoop, BeforeTheCall
<1>6. CASE waiting \in {"parsing", "chatting"}
  <2>1. waiting = "parsing" => turn'.fetch = None
    BY <1>2, <1>6 DEF TurnInv
  <2> QED BY <1>2, <1>3, <1>6, <2>1, QuietPoint
<1> QED BY <1>4, <1>5, <1>6

LEMMA AuthorizeKeeps ==
  ASSUME TurnInv(turn, session), Authorize
  PROVE  TurnInv(turn', session') /\ turn'.fetch = turn.fetch
<1>1. CASE \E o : Finish(turn, o)
  BY <1>1, FinishKeeps, TurnInvFrame
<1>2. ASSUME NEW pc \in {"resolve", "guard"}, Goto(turn, pc), Permitted(turn)
      PROVE  TurnInv(turn', session') /\ turn'.fetch = turn.fetch
  <2>1. Understood(turn, session) /\ DOMAIN turn = TurnFields
    BY DEF TurnInv, BeforeTheCall, Authorize
  <2>2. /\ session' = session /\ turn'.pc = pc /\ turn'.fetch = turn.fetch
        /\ Understood(turn', session) /\ Permitted(turn') /\ Frame(turn', session)
    BY <2>1, <1>2, GotoFields, SameFacts, TurnInvFrame
  <2> QED BY <2>2 DEF TurnInv, Frame, PlannerLoop
<1>3. (\E o : Finish(turn, o)) \/ (\E pc \in {"resolve", "guard"} : Goto(turn, pc) /\ Permitted(turn))
  BY DEF Authorize, Permitted, AuthorizeCapability
<1> QED BY <1>1, <1>2, <1>3

LEMMA GuardedKeeps ==
  ASSUME TurnInv(turn, session), Guarded
  PROVE  TurnInv(turn', session') /\ turn'.fetch = turn.fetch
<1>1. CASE \E o : Finish(turn, o)
  BY <1>1, FinishKeeps, TurnInvFrame
<1>2. CASE Goto(turn, "resolve")
  <2>1. Understood(turn, session) /\ DOMAIN turn = TurnFields /\ Permitted(turn)
    BY DEF TurnInv, BeforeTheCall, Guarded, CallOver
  <2>2. /\ session' = session /\ turn'.pc = "resolve" /\ turn'.fetch = turn.fetch
        /\ Understood(turn', session) /\ Permitted(turn') /\ Frame(turn', session)
    BY <2>1, <1>2, GotoFields, SameFacts, TurnInvFrame
  <2> QED BY <2>2 DEF TurnInv, Frame, PlannerLoop
<1> QED BY <1>1, <1>2 DEF Guarded

LEMMA ResolveRequestKeeps ==
  ASSUME TurnInv(turn, session), ResolveRequest
  PROVE  TurnInv(turn', session') /\ turn'.fetch = turn.fetch
<1>1. /\ DOMAIN turn = TurnFields /\ Understood(turn, session) /\ Permitted(turn)
      /\ Frame(turn, session)
  BY TurnInvFrame DEF TurnInv, BeforeTheCall, ResolveRequest
<1>2. CASE \E o : Finish(turn, o)
  BY <1>1, <1>2, FinishKeeps
<1>3. PICK inherited \in SessionWindow :
        LET scope == DataScope(turn.auth)
            found == IF IsDrill THEN DrillLookup(turn.input, scope) ELSE Lookup(turn.input)
            filters == NarrowFor(turn.intent.cap, scope, found)
            window == IF turn.intent.window # None THEN turn.intent.window ELSE inherited
        IN IF found.verdict = "ambiguous" THEN Ask(turn)
           ELSE IF found.verdict # "found" \/ ~filters.ok THEN Finish(turn, "filter_rejected")
           ELSE IF window = None THEN Finish(turn, "time_range_missing")
           ELSE IF window = "long" THEN Finish(turn, "time_range_exceeds_limit")
           ELSE Goto([turn EXCEPT !.filters = filters, !.intent.window = window], "execute")
  BY DEF ResolveRequest
<1>4. PICK found : found = IF IsDrill THEN DrillLookup(turn.input, DataScope(turn.auth))
                           ELSE Lookup(turn.input)
  OBVIOUS
<1>5. PICK filters : filters = NarrowFor(turn.intent.cap, DataScope(turn.auth), found)
  OBVIOUS
<1>6. PICK window : window = IF turn.intent.window # None THEN turn.intent.window ELSE inherited
  OBVIOUS
<1>7. PICK t : t = [turn EXCEPT !.filters = filters, !.intent.window = window]
  OBVIOUS
<1>8. \/ \E o : Finish(turn, o)
      \/ window # None /\ window # "long" /\ Goto(t, "execute")
  BY <1>3, <1>4, <1>5, <1>6, <1>7 DEF Ask
<1>9. CASE window # None /\ window # "long" /\ Goto(t, "execute")
  <2>1. InScope(filters, turn.auth)
    <3>1. turn.auth.role = "employee" => turn.intent.cap \in PersonalCapabilities
      BY <1>1, MatrixAssumption DEF Permitted, Capabilities
    <3> QED BY <3>1, <1>5, NarrowForInScope
  <2>10. NamedWithin(turn, filters)
    <3>1. turn.intent.cap # "l2"
      BY <1>1, MatrixAssumption DEF Permitted, Capabilities
    <3>2. found.verdict = "found" \/ \E o : Finish(turn, o)
      BY <1>3, <1>4 DEF Ask
    <3>3. turn.pc = "resolve" /\ turn'.pc = "execute"
      BY <1>1, <1>7, <1>9 DEF ResolveRequest, Goto, TurnFields
    <3>4. found.verdict = "found"
      BY <1>1, <3>2, <3>3, FinishKeeps
    <3>5. CASE FromCard(turn)
      <4>1. found = DrillLookup(turn.input, DataScope(turn.auth))
        BY <1>4, <3>5 DEF FromCard, IsDrill
      <4>2. turn.input.who \in Employees \cup {None, "nobody"}
        BY <1>1, <3>5 DEF Understood, ByIdOnly
      <4> QED BY <1>5, <3>4, <4>1, <4>2, DrillNamesTheBound DEF NamedWithin
    <3> QED BY <3>1, <3>5 DEF NamedWithin, FromCard
  <2>2. window \in Windows /\ AskedFor(turn, session, window)
    <3>1. CASE turn.intent.window # None
      BY <3>1, <1>1, <1>6, <1>9 DEF Understood
    <3>2. CASE turn.intent.window = None
      <4>1. window = session.window /\ window \in Windows
        BY <3>2, <1>6, <1>9 DEF SessionWindow, TurnInv
      <4>2. Silent(turn)
        BY <3>2, <1>1 DEF Understood
      <4> QED BY <4>1, <4>2 DEF AskedFor
    <3> QED BY <3>1, <3>2
  <2>3. /\ DOMAIN t = TurnFields /\ t.auth = turn.auth /\ t.input = turn.input
        /\ t.filters = filters /\ t.fetch = turn.fetch
        /\ t.intent = [turn.intent EXCEPT !.window = window]
    BY <1>1, <1>7 DEF TurnFields
  <2>4. t.intent.window = window
    BY <2>3, <1>1 DEF Understood, IntentFields
  <2>5. /\ session' = session /\ DOMAIN turn' = TurnFields /\ turn'.pc = "execute"
        /\ turn'.auth = turn.auth /\ turn'.input = turn.input /\ turn'.filters = filters
        /\ turn'.fetch = turn.fetch /\ turn'.intent.window = window
        /\ turn'.intent.cap = turn.intent.cap
    BY <1>1, <1>9, <2>3, <2>4, GotoFields DEF Understood, IntentFields
  <2>6. AskedFor(turn', session, window)
    <3>1. Stated(turn') = Stated(turn) /\ (FromCard(turn') <=> FromCard(turn))
      BY <2>5 DEF Stated, FromCard
    <3>2. Readings(turn') = Readings(turn) /\ (Silent(turn') <=> Silent(turn))
      BY <2>5, <3>1 DEF Readings, Silent
    <3> QED BY <2>2, <2>5, <3>1, <3>2 DEF AskedFor
  <2>7. \A f : NamedWithin(turn, f) => NamedWithin(turn', f)
    BY <2>5 DEF NamedWithin
  <2> QED BY <2>1, <2>10, <2>2, <2>5, <2>6, <2>7, <1>1 DEF TurnInv, Frame, PlannerLoop, BeforeTheCall
<1> QED BY <1>2, <1>8, <1>9

\* The business call of a capability: the filters and the window of the chain.
LEMMA ExecuteKeeps ==
  ASSUME TurnInv(turn, session), Execute
  PROVE  TurnInv(turn', session') /\ AskedFor(turn, session, turn'.fetch.window)
<1>1. /\ DOMAIN turn = TurnFields /\ InScope(turn.filters, turn.auth)
      /\ NamedWithin(turn, turn.filters)
      /\ turn.intent.window \in Windows /\ AskedFor(turn, session, turn.intent.window)
  BY DEF TurnInv, Execute
<1>2. PICK f : f = [filters |-> turn.filters, window |-> turn.intent.window]
  OBVIOUS
<1>3. turn' = [turn EXCEPT !.pc = "fetched", !.fetch = f] /\ session' = session
  BY <1>2 DEF Execute
<1>4. /\ DOMAIN turn' = TurnFields /\ turn'.pc = "fetched" /\ turn'.fetch = f
      /\ turn'.auth = turn.auth /\ turn'.intent = turn.intent /\ turn'.input = turn.input
  BY <1>1, <1>3 DEF TurnFields
<1>5. f.filters = turn.filters /\ f.window = turn.intent.window
  BY <1>2
<1>6. InScope(turn'.fetch.filters, turn'.auth) /\ NamedWithin(turn', turn'.fetch.filters)
  BY <1>1, <1>4, <1>5 DEF NamedWithin
<1> QED BY <1>1, <1>3, <1>4, <1>5, <1>6 DEF TurnInv, PlannerLoop, BeforeTheCall

LEMMA JudgedKeeps ==
  ASSUME TurnInv(turn, session), Judged
  PROVE  TurnInv(turn', session') /\ turn'.fetch = turn.fetch
<1>1. DOMAIN turn = TurnFields /\ turn.intent.window \in Windows /\ Frame(turn, session)
  BY TurnInvFrame DEF TurnInv, Judged
<1>2. CASE \E o : Finish(turn, o)
  BY <1>1, <1>2, FinishKeeps
<1>3. CASE \E kept : Goto([turn EXCEPT !.finding = kept], "compose")
  <2>1. PICK kept, t : t = [turn EXCEPT !.finding = kept] /\ Goto(t, "compose")
    BY <1>3
  <2>2. /\ DOMAIN t = TurnFields /\ t.auth = turn.auth /\ t.intent = turn.intent
        /\ t.fetch = turn.fetch /\ t.input = turn.input
    BY <1>1, <2>1 DEF TurnFields
  <2>3. /\ session' = session /\ DOMAIN turn' = TurnFields /\ turn'.pc = "compose"
        /\ turn'.auth = turn.auth /\ turn'.intent = turn.intent /\ turn'.fetch = turn.fetch
        /\ turn'.input = turn.input
    BY <2>1, <2>2, GotoFields
  <2> QED BY <1>1, <2>3 DEF TurnInv, Frame, NamedWithin, PlannerLoop, BeforeTheCall
<1>4. (\E o : Finish(turn, o)) \/ (\E kept : Goto([turn EXCEPT !.finding = kept], "compose"))
  BY DEF Judged
<1> QED BY <1>2, <1>3, <1>4

\* The answer: the turn is over and its window becomes the session's.
LEMMA AnswerKeeps ==
  ASSUME Frame(turn, session), turn.intent.window \in Windows \cup {None}, Answer
  PROVE  TurnInv(turn', session') /\ turn'.pc = "over" /\ turn'.fetch = turn.fetch
<1>1. session' = [window |-> turn.intent.window] /\ turn' = [turn EXCEPT !.pc = "over", !.outcome = "answered"]
  BY DEF Answer
<1>2. /\ DOMAIN turn' = TurnFields /\ turn'.pc = "over" /\ turn'.fetch = turn.fetch
      /\ turn'.auth = turn.auth /\ turn'.input = turn.input /\ turn'.intent = turn.intent
  BY <1>1 DEF Frame, TurnFields
<1>3. session'.window \in Windows \cup {None}
  BY <1>1
<1> QED BY <1>2, <1>3 DEF TurnInv, Frame, NamedWithin, BeforeTheCall, PlannerLoop

LEMMA ComposedKeeps ==
  ASSUME TurnInv(turn, session), Composed
  PROVE  TurnInv(turn', session') /\ turn'.fetch = turn.fetch
<1>1. Frame(turn, session) /\ turn.intent.window \in Windows
  BY TurnInvFrame DEF TurnInv, Composed, CallOver
<1> QED BY <1>1, FinishKeeps, AnswerKeeps DEF Composed, Answer

\* One turn step keeps the turn's promises, and a business call is for the asked period.
NewCallIsAsked ==
  turn'.fetch # turn.fetch => AskedFor(turn, session, turn'.fetch.window)

LEMMA TurnStepKeeps ==
  ASSUME TurnInv(turn, session), load.scenario \in Scenarios, TurnStep
  PROVE  TurnInv(turn', session') /\ NewCallIsAsked
<1>1. CASE ParseStarted \/ ChatStarted \/ GuardStarted \/ ComposeStarted
  BY <1>1, WaitKeeps
  DEF ParseStarted, ChatStarted, GuardStarted, ComposeStarted, CallModel, NewCallIsAsked
<1>2. CASE Chatted \/ DirectoryFails \/ FetchFailed
  <2>1. \E o : Finish(turn, o)
    BY <1>2 DEF Chatted, DirectoryFails, FetchFailed
  <2> QED BY <2>1, FinishKeeps, TurnInvFrame DEF NewCallIsAsked
<1>3. CASE Parsed
  BY <1>3, ParsedKeeps DEF NewCallIsAsked
<1>4. CASE DrillParsed
  BY <1>4, DrillParsedKeeps DEF NewCallIsAsked
<1>5. CASE Authorize
  BY <1>5, AuthorizeKeeps DEF NewCallIsAsked
<1>6. CASE Guarded
  BY <1>6, GuardedKeeps DEF NewCallIsAsked
<1>7. CASE ResolveRequest
  BY <1>7, ResolveRequestKeeps DEF NewCallIsAsked
<1>8. CASE Execute
  BY <1>8, ExecuteKeeps DEF NewCallIsAsked
<1>9. CASE Judged
  BY <1>9, JudgedKeeps DEF NewCallIsAsked
<1>10. CASE Composed
  BY <1>10, ComposedKeeps DEF NewCallIsAsked
<1> QED
  BY <1>1, <1>2, <1>3, <1>4, <1>5, <1>6, <1>7, <1>8, <1>9, <1>10 DEF TurnStep

\* The planner's loop goes on: nothing of the turn changes but its point. A load has a window.
LEMMA LoopKeeps ==
  ASSUME TurnInv(turn, session), turn.pc \in PlannerLoop, NEW pc \in PlannerLoop, Goto(turn, pc),
         pc = "load" => turn.intent.window # None
  PROVE  /\ TurnInv(turn', session') /\ turn'.fetch = turn.fetch
         /\ turn'.pc = pc /\ turn'.input = turn.input
<1>1. /\ DOMAIN turn = TurnFields /\ InScope(turn.filters, turn.auth)
      /\ turn.intent.window \in Windows \cup {None} /\ Frame(turn, session)
      /\ turn.intent.window \in Windows => AskedFor(turn, session, turn.intent.window)
  BY TurnInvFrame DEF TurnInv
<1>2. /\ session' = session /\ DOMAIN turn' = TurnFields /\ turn'.pc = pc
      /\ turn'.auth = turn.auth /\ turn'.input = turn.input /\ turn'.intent = turn.intent
      /\ turn'.filters = turn.filters /\ turn'.fetch = turn.fetch
  BY <1>1, GotoFields
<1>3. \A w : AskedFor(turn, session, w) => AskedFor(turn', session, w)
  BY <1>2, SameFacts
<1>4. Frame(turn', session)
  BY <1>1, <1>2, SameFacts
<1>5. turn.intent.window \in Windows => AskedFor(turn', session, turn.intent.window)
  BY <1>1, <1>3
<1> QED BY <1>1, <1>2, <1>4, <1>5 DEF TurnInv, Frame, PlannerLoop, BeforeTheCall

LEMMA RunAnalysisKeeps ==
  ASSUME TurnInv(turn, session), RunAnalysis
  PROVE  TurnInv(turn', session') /\ turn'.fetch = turn.fetch
<1>1. DOMAIN turn = TurnFields /\ Understood(turn, session) /\ Frame(turn, session)
  BY TurnInvFrame DEF TurnInv, BeforeTheCall, RunAnalysis
<1>2. CASE \E o : Finish(turn, o)
  BY <1>1, <1>2, FinishKeeps
<1>3. PICK found : found = Lookup(turn.input)
  OBVIOUS
<1>4. PICK filters : filters = Narrow(DataScope(turn.auth), SelfOnly(turn), found.people,
                                      found.depts, SelfOnly(turn))
  OBVIOUS
<1>5. PICK t : t = [turn EXCEPT !.filters = filters]
  OBVIOUS
<1>6. (\E o : Finish(turn, o)) \/ (turn.intent.window # "long" /\ Goto(t, "plan"))
  BY <1>3, <1>4, <1>5 DEF RunAnalysis, Ask
<1>7. CASE turn.intent.window # "long" /\ Goto(t, "plan")
  <2>1. InScope(filters, turn.auth)
    BY <1>4, NarrowSelfInScope
  <2>2. /\ DOMAIN t = TurnFields /\ t.auth = turn.auth /\ t.input = turn.input
        /\ t.intent = turn.intent /\ t.filters = filters /\ t.fetch = turn.fetch
    BY <1>1, <1>5 DEF TurnFields
  <2>3. /\ session' = session /\ DOMAIN turn' = TurnFields /\ turn'.pc = "plan"
        /\ turn'.auth = turn.auth /\ turn'.input = turn.input /\ turn'.intent = turn.intent
        /\ turn'.filters = filters /\ turn'.fetch = turn.fetch
    BY <1>7, <2>2, GotoFields
  <2>4. /\ turn.intent.window \in Windows \cup {None}
        /\ turn.intent.window \in Windows => AskedFor(turn, session, turn.intent.window)
    BY <1>1, <1>7 DEF Understood
  <2>5. turn.intent.window \in Windows => AskedFor(turn', session, turn.intent.window)
    <3>1. Stated(turn') = Stated(turn) /\ (FromCard(turn') <=> FromCard(turn))
      BY <2>3 DEF Stated, FromCard
    <3>2. Readings(turn') = Readings(turn) /\ (Silent(turn') <=> Silent(turn))
      BY <2>3, <3>1 DEF Readings, Silent
    <3> QED BY <2>3, <2>4, <3>1, <3>2 DEF AskedFor
  <2> QED BY <1>1, <2>1, <2>3, <2>4, <2>5 DEF TurnInv, Frame, NamedWithin, PlannerLoop, BeforeTheCall
<1> QED BY <1>2, <1>6, <1>7

-----------------------------------------------------------------------------
(* The datasets of an analysis *)

HostFields == {"datasets", "ensured", "results", "steps", "repairs", "action", "scoped"}

\* A query the host has accepted, with its window spelled out.
Accepted(q) ==
  /\ DOMAIN q = {"from", "to", "beds", "cols", "limit"}
  /\ q.from \in Nat /\ q.to \in Nat /\ q.cols \subseteq {"qty"}
  /\ q.beds = None \/ q.beds \subseteq Beds

\* A dataset holds the rows of its snapshot that its query and the request's beds select,
\* and has the quantity as a column only if every row has a usable one.
Exact(d) ==
  /\ Accepted(d.query) /\ d.asof \subseteq Rows /\ d.cols \subseteq {"qty"}
  /\ d.rows = {r \in d.asof : Matches(r, [d.query EXCEPT !.beds = BedsOf(d.query)])}
  /\ "qty" \in d.cols => d.rows \cap Broken = {}

HostInv ==
  /\ DOMAIN host = HostFields /\ facts \subseteq Rows
  /\ turn.pc \notin PlannerLoop => host.datasets = {} /\ host.ensured = {}
  /\ turn.pc = "tool" => host.action \in Actions
  /\ turn.pc = "load" => DOMAIN host.action = {"tool", "query"} /\ Accepted(host.action.query)
  /\ \A d \in host.datasets : Exact(d)
  /\ \A e \in host.ensured : e.got # None =>
       Exact(e.got) /\ e.got.query = e.query /\ e.query.cols \subseteq e.got.cols

\* A selection by a query, with other beds: the days are the query's.
LEMMA MatchesDays ==
  ASSUME NEW q, Accepted(q), NEW beds, NEW r
  PROVE  Matches(r, [q EXCEPT !.beds = beds]) <=>
           /\ q.from <= r.day /\ r.day <= q.to - 1
           /\ beds = None \/ r.bed \in beds
<1> PICK u : u = [q EXCEPT !.beds = beds]
  OBVIOUS
<1>1. u.from = q.from /\ u.to = q.to /\ u.beds = beds
  BY DEF Accepted
<1> QED BY <1>1 DEF Matches

\* The beds of a request and a query, together: none missing, none added.
LEMMA BedsSelect ==
  ASSUME NEW q, Accepted(q), NEW b
  PROVE  (BedsOf(q) = None \/ b \in BedsOf(q)) <=>
           /\ q.beds = None \/ b \in q.beds
           /\ turn.input.beds = "some" => b \in RequestBeds
<1>1. \A B : B \subseteq Beds => B # None
  BY AnalysisAssumption
<1>2. RequestBeds \subseteq Beds /\ RequestBeds # None
  BY <1>1, AnalysisAssumption
<1>3. q.beds = None \/ (q.beds \subseteq Beds /\ q.beds # None)
  BY <1>1 DEF Accepted
<1>4. CASE turn.input.beds # "some"
  BY <1>3, <1>4 DEF BedsOf
<1>5. CASE turn.input.beds = "some" /\ q.beds = None
  BY <1>2, <1>5 DEF BedsOf
<1>6. CASE turn.input.beds = "some" /\ q.beds # None
  <2>1. BedsOf(q) = RequestBeds \cap q.beds
    BY <1>2, <1>6 DEF BedsOf
  <2>2. RequestBeds \cap q.beds # None
    BY <1>1, <1>2
  <2> QED BY <2>1, <2>2, <1>6
<1> QED BY <1>4, <1>5, <1>6

\* What a covering dataset holds of a query is what the snapshot holds of it.
LEMMA ReuseExact ==
  ASSUME NEW d, Exact(d), NEW q, Accepted(q), Covers(d, q), NEW kept,
         kept = [query |-> q, rows |-> {r \in d.rows : Matches(r, q)}, cols |-> d.cols, asof |-> d.asof]
  PROVE  Exact(kept) /\ kept.query = q /\ q.cols \subseteq kept.cols
<1>1. /\ kept.query = q /\ kept.rows = {r \in d.rows : Matches(r, q)}
      /\ kept.cols = d.cols /\ kept.asof = d.asof
  OBVIOUS
<1>2. Accepted(d.query) /\ d.asof \subseteq Rows /\ d.cols \subseteq {"qty"}
  BY DEF Exact
<1>3. /\ q.from \in Nat /\ q.to \in Nat /\ d.query.from \in Nat /\ d.query.to \in Nat
      /\ d.query.from <= q.from /\ q.to <= d.query.to
  BY <1>2 DEF Accepted, Covers
<1>4. \A b : (q.beds = None \/ b \in q.beds) => (d.query.beds = None \/ b \in d.query.beds)
  BY DEF Covers
<1>5. ASSUME NEW r \in d.asof
      PROVE  (r \in d.rows /\ Matches(r, q)) <=> Matches(r, [q EXCEPT !.beds = BedsOf(q)])
  <2>1. r.day \in Nat
    BY <1>2, AnalysisAssumption DEF Rows
  <2>2. r \in d.rows <=> Matches(r, [d.query EXCEPT !.beds = BedsOf(d.query)])
    BY DEF Exact
  <2>3. r \in d.rows <=> /\ d.query.from <= r.day /\ r.day <= d.query.to - 1
                         /\ BedsOf(d.query) = None \/ r.bed \in BedsOf(d.query)
    BY <2>2, <1>2, MatchesDays
  <2>4. r \in d.rows <=> /\ d.query.from <= r.day /\ r.day <= d.query.to - 1
                         /\ d.query.beds = None \/ r.bed \in d.query.beds
                         /\ turn.input.beds = "some" => r.bed \in RequestBeds
    BY <2>3, <1>2, BedsSelect
  <2>5. Matches(r, [q EXCEPT !.beds = BedsOf(q)]) <=>
           /\ q.from <= r.day /\ r.day <= q.to - 1
           /\ q.beds = None \/ r.bed \in q.beds
           /\ turn.input.beds = "some" => r.bed \in RequestBeds
    BY MatchesDays, BedsSelect
  <2>6. Matches(r, q) <=> /\ q.from <= r.day /\ r.day <= q.to - 1
                          /\ q.beds = None \/ r.bed \in q.beds
    BY DEF Matches
  <2>7. (q.from <= r.day /\ r.day <= q.to - 1) => (d.query.from <= r.day /\ r.day <= d.query.to - 1)
    BY <2>1, <1>3
  <2> QED BY <2>4, <2>5, <2>6, <2>7, <1>4
<1>6. d.rows \subseteq d.asof
  BY DEF Exact
<1>7. kept.rows = {r \in kept.asof : Matches(r, [q EXCEPT !.beds = BedsOf(q)])}
  BY <1>1, <1>5, <1>6
<1>8. "qty" \in kept.cols => kept.rows \cap Broken = {}
  BY <1>1 DEF Exact
<1>9. q.cols \subseteq kept.cols
  BY <1>1 DEF Covers
<1> QED BY <1>1, <1>2, <1>7, <1>8, <1>9 DEF Exact

\* What a load brings is exact, and has the columns that were asked for.
LEMMA LoadExact ==
  ASSUME NEW q, Accepted(q), facts \subseteq Rows, RequiredFieldsValid(q, FetchedRows(q)), NEW kept,
         kept = [query |-> q, rows |-> FetchedRows(q), cols |-> Columns(q, FetchedRows(q)), asof |-> facts]
  PROVE  Exact(kept) /\ kept.query = q /\ q.cols \subseteq kept.cols
<1>1. /\ kept.query = q /\ kept.rows = FetchedRows(q)
      /\ kept.cols = Columns(q, FetchedRows(q)) /\ kept.asof = facts
  OBVIOUS
<1>2. q.cols \subseteq {"qty"}
  BY DEF Accepted
<1>3. q.cols \subseteq kept.cols
  BY <1>1, <1>2 DEF Columns, RequiredFieldsValid
<1>4. kept.cols \subseteq {"qty"} /\ ("qty" \in kept.cols => kept.rows \cap Broken = {})
  BY <1>1, <1>2 DEF Columns
<1>5. kept.rows = {r \in kept.asof : Matches(r, [kept.query EXCEPT !.beds = BedsOf(kept.query)])}
  BY <1>1 DEF FetchedRows
<1> QED BY <1>1, <1>3, <1>4, <1>5 DEF Exact

AssistantInv == TurnInv(turn, session) /\ HostInv

\* The input of the turn is what a dataset's beds depend on.
LEMMA ExactStays ==
  ASSUME turn'.input = turn.input
  PROVE  \A d : Exact(d) => Exact(d)'
<1>1. ASSUME NEW q PROVE BedsOf(q)' = BedsOf(q)
  BY DEF BedsOf
<1> SUFFICES ASSUME NEW d, Exact(d) PROVE Exact(d)'
  OBVIOUS
<1>2. BedsOf(d.query)' = BedsOf(d.query)
  BY <1>1
<1> QED BY <1>2 DEF Exact

\* An analysis that is over leaves no dataset behind.
LEMMA ClosedHost ==
  ASSUME HostInv, host' = NoHost, facts' = facts, turn'.pc \notin {"tool", "load"}
  PROVE  HostInv'
<1>1. DOMAIN NoHost = HostFields /\ NoHost.datasets = {} /\ NoHost.ensured = {}
  BY DEF NoHost, HostFields
<1> QED BY <1>1 DEF HostInv

\* A step that keeps the datasets and the answers.
LEMMA SameDatasets ==
  ASSUME HostInv, turn.pc \in PlannerLoop, turn'.pc \in PlannerLoop, turn'.input = turn.input,
         facts' = facts, DOMAIN host' = HostFields,
         host'.datasets = host.datasets, host'.ensured = host.ensured,
         turn'.pc = "tool" => host'.action \in Actions,
         turn'.pc = "load" => DOMAIN host'.action = {"tool", "query"} /\ Accepted(host'.action.query)
  PROVE  HostInv'
<1>1. \A d : Exact(d) => Exact(d)'
  BY ExactStays
<1>2. \A d \in host'.datasets : Exact(d)'
  BY <1>1 DEF HostInv
<1>3. \A e \in host'.ensured : e.got # None =>
        Exact(e.got)' /\ e.got.query = e.query /\ e.query.cols \subseteq e.got.cols
  BY <1>1 DEF HostInv
<1> QED BY <1>2, <1>3 DEF HostInv, Accepted, Actions

\* A new observation: its dataset is exact, or there is none.
LEMMA ObservedKeeps ==
  ASSUME HostInv, turn.pc \in PlannerLoop, turn'.pc = "plan", turn'.input = turn.input,
         facts' = facts, NEW q, NEW rows, NEW cols, NEW asof, Observed(q, rows, cols, asof),
         NEW kept, kept = [query |-> q, rows |-> rows, cols |-> cols, asof |-> asof],
         Exact(kept), kept.query = q, q.cols \subseteq kept.cols
  PROVE  HostInv'
<1>1. PICK got : got = IF Cardinality(rows) > q.limit THEN None ELSE kept
  OBVIOUS
<1>2. PICK sets, ensured :
         /\ host' = [host EXCEPT !.action = None, !.datasets = sets, !.ensured = ensured]
         /\ sets \subseteq host.datasets \cup {kept}
         /\ ensured = host.ensured \cup {[query |-> q, got |-> got]}
  BY <1>1 DEF Observed
<1>3. DOMAIN host' = HostFields /\ host'.datasets = sets /\ host'.ensured = ensured
  BY <1>2 DEF HostInv, HostFields
<1>4. \A d : Exact(d) => Exact(d)'
  BY ExactStays
<1>5. \A d \in sets : Exact(d)'
  BY <1>2, <1>4 DEF HostInv
<1>6. ASSUME NEW e \in ensured, e.got # None
      PROVE  Exact(e.got)' /\ e.got.query = e.query /\ e.query.cols \subseteq e.got.cols
  <2>1. CASE e \in host.ensured
    BY <1>4, <1>6, <2>1 DEF HostInv
  <2>2. CASE e = [query |-> q, got |-> got]
    <3>1. e.query = q /\ e.got = got /\ got = kept
      BY <2>2, <1>1, <1>6
    <3> QED BY <3>1, <1>4
  <2> QED BY <1>2, <2>1, <2>2
<1> QED BY <1>3, <1>5, <1>6 DEF HostInv, PlannerLoop

LEMMA RejectedKeeps ==
  ASSUME AssistantInv, turn.pc \in PlannerLoop, facts' = facts, NEW reason, Rejected(reason)
  PROVE  AssistantInv' /\ turn'.fetch = turn.fetch
<1>1. CASE host' = [host EXCEPT !.repairs = 1, !.action = None] /\ Goto(turn, "plan")
  <2>1. /\ DOMAIN host' = HostFields /\ host'.datasets = host.datasets
        /\ host'.ensured = host.ensured
    BY <1>1 DEF AssistantInv, HostInv, HostFields
  <2>2. /\ TurnInv(turn', session') /\ turn'.fetch = turn.fetch
        /\ turn'.pc = "plan" /\ turn'.input = turn.input
    BY <1>1, LoopKeeps DEF AssistantInv, PlannerLoop
  <2>3. HostInv'
    BY <2>1, <2>2, SameDatasets DEF AssistantInv, PlannerLoop
  <2> QED BY <2>2, <2>3 DEF AssistantInv
<1>2. CASE host' = NoHost /\ \E o : Finish(turn, o)
  <2>1. TurnInv(turn', session') /\ turn'.pc = "over" /\ turn'.fetch = turn.fetch
    BY <1>2, FinishKeeps, TurnInvFrame DEF AssistantInv
  <2>2. HostInv'
    BY <1>2, <2>1, ClosedHost DEF AssistantInv
  <2> QED BY <2>1, <2>2 DEF AssistantInv
<1> QED BY <1>1, <1>2 DEF Rejected

\* The turn ends and the host closes.
LEMMA EndKeeps ==
  ASSUME AssistantInv, facts' = facts, host' = NoHost, NEW o, Finish(turn, o)
  PROVE  AssistantInv' /\ turn'.fetch = turn.fetch
<1>1. TurnInv(turn', session') /\ turn'.pc = "over" /\ turn'.fetch = turn.fetch
  BY FinishKeeps, TurnInvFrame DEF AssistantInv
<1>2. HostInv'
  BY <1>1, ClosedHost DEF AssistantInv
<1> QED BY <1>1, <1>2 DEF AssistantInv

\* The loop goes on with the same datasets.
LEMMA ContinueKeeps ==
  ASSUME AssistantInv, turn.pc \in PlannerLoop, facts' = facts,
         NEW pc \in {"plan", "planning"}, Goto(turn, pc), DOMAIN host' = HostFields,
         host'.datasets = host.datasets, host'.ensured = host.ensured
  PROVE  AssistantInv' /\ turn'.fetch = turn.fetch
<1>1. /\ TurnInv(turn', session') /\ turn'.fetch = turn.fetch
      /\ turn'.pc = pc /\ turn'.input = turn.input
  BY LoopKeeps DEF AssistantInv, PlannerLoop
<1>2. HostInv'
  BY <1>1, SameDatasets DEF AssistantInv, PlannerLoop
<1> QED BY <1>1, <1>2 DEF AssistantInv

LEMMA PlanStartedKeeps ==
  ASSUME AssistantInv, PlanStarted
  PROVE  AssistantInv' /\ turn'.fetch = turn.fetch
<1>1. host' = [host EXCEPT !.steps = host.steps + 1]
  BY DEF PlanStarted
<1>2. /\ DOMAIN host' = HostFields /\ host'.datasets = host.datasets
      /\ host'.ensured = host.ensured
  BY <1>1 DEF AssistantInv, HostInv, HostFields
<1>3. turn.pc \in PlannerLoop /\ facts' = facts /\ Goto(turn, "planning")
  BY DEF PlanStarted, PlannerLoop
<1> QED BY <1>2, <1>3, ContinueKeeps

LEMMA PlannedKeeps ==
  ASSUME AssistantInv, Planned
  PROVE  AssistantInv' /\ turn'.fetch = turn.fetch
<1>1. turn.pc \in PlannerLoop /\ facts' = facts
  BY DEF Planned, CallOver, PlannerLoop
<1>2. CASE host' = NoHost /\ Finish(turn, "analysis_unavailable")
  BY <1>1, <1>2, EndKeeps
<1>3. CASE Rejected("invalid_action")
  BY <1>1, <1>3, RejectedKeeps
<1>4. CASE Goto(turn, "tool") /\ \E a \in Actions : host' = [host EXCEPT !.action = a]
  <2>1. PICK a \in Actions : host' = [host EXCEPT !.action = a]
    BY <1>4
  <2>2. /\ DOMAIN host' = HostFields /\ host'.datasets = host.datasets
        /\ host'.ensured = host.ensured /\ host'.action = a
    BY <2>1 DEF AssistantInv, HostInv, HostFields
  <2>3. /\ TurnInv(turn', session') /\ turn'.fetch = turn.fetch
        /\ turn'.pc = "tool" /\ turn'.input = turn.input
    BY <1>1, <1>4, LoopKeeps DEF AssistantInv, PlannerLoop
  <2>4. HostInv'
    BY <1>1, <2>2, <2>3, SameDatasets DEF AssistantInv, PlannerLoop
  <2> QED BY <2>3, <2>4 DEF AssistantInv
<1> QED BY <1>2, <1>3, <1>4 DEF Planned

\* The query of an accepted request, with the window of the request or its own.
LEMMA CanonicalAccepted ==
  ASSUME TurnInv(turn, session), turn.pc = "tool", NEW asked \in Queries, ValidQuery(asked),
         WindowRejection(asked) = "none"
  PROVE  Accepted(Canonical(asked)) /\ turn.intent.window # None
<1>1. turn.intent.window \in Windows
  BY DEF TurnInv, PlannerLoop, WindowRejection
<1>2. WindowDays[turn.intent.window] \in Nat \X Nat
  BY <1>1, AnalysisAssumption
<1>3. PICK w : w = WindowOf(asked)
  OBVIOUS
<1>4. w[1] \in Nat /\ w[2] \in Nat
  <2>1. CASE asked.from = None
    BY <1>2, <1>3, <2>1 DEF WindowOf
  <2>2. CASE asked.from # None
    BY <1>3, <2>2, AnalysisAssumption DEF WindowOf
  <2> QED BY <2>1, <2>2
<1>5. PICK q : q = [asked EXCEPT !.from = w[1], !.to = w[2]]
  OBVIOUS
<1>6. DOMAIN asked = {"from", "to", "beds", "cols", "limit"}
  BY AnalysisAssumption
<1>7. /\ DOMAIN q = {"from", "to", "beds", "cols", "limit"}
      /\ q.from = w[1] /\ q.to = w[2] /\ q.beds = asked.beds /\ q.cols = asked.cols
  BY <1>5, <1>6
<1>8. Accepted(q)
  BY <1>4, <1>7 DEF Accepted, ValidQuery
<1>9. None \notin Windows
  BY TimeAssumption
<1> QED BY <1>1, <1>3, <1>5, <1>8, <1>9 DEF Canonical

LEMMA EnsureKeeps ==
  ASSUME AssistantInv, Ensure
  PROVE  AssistantInv' /\ turn'.fetch = turn.fetch
<1>1. turn.pc = "tool" /\ turn.pc \in PlannerLoop /\ facts' = facts /\ host.action.tool = "ensure"
  BY DEF Ensure, PlannerLoop
<1>2. host.action \in [tool : {"ensure"}, query : Queries]
  <2>1. host.action \in Actions
    BY <1>1 DEF AssistantInv, HostInv
  <2> QED BY <1>1, <2>1 DEF Actions
<1>3. CASE \E reason : Rejected(reason)
  BY <1>1, <1>3, RejectedKeeps
<1>4. PICK asked \in Queries : asked = host.action.query
  BY <1>2
<1>5. PICK q : q = Canonical(asked)
  OBVIOUS
<1>6. \/ \E reason : Rejected(reason)
      \/ /\ ValidQuery(asked) /\ WindowRejection(asked) = "none"
         /\ \/ host' = [host EXCEPT !.action = None] /\ Goto(turn, "plan")
            \/ /\ \E d \in host.datasets :
                     /\ Covers(d, q)
                     /\ Observed(q, {r \in d.rows : Matches(r, q)}, d.cols, d.asof)
               /\ Goto(turn, "plan")
            \/ host' = [host EXCEPT !.action.query = q] /\ Goto(turn, "load")
  BY <1>4, <1>5 DEF Ensure
<1>7. CASE /\ ValidQuery(asked) /\ WindowRejection(asked) = "none"
           /\ \/ host' = [host EXCEPT !.action = None] /\ Goto(turn, "plan")
              \/ /\ \E d \in host.datasets :
                       /\ Covers(d, q)
                       /\ Observed(q, {r \in d.rows : Matches(r, q)}, d.cols, d.asof)
                 /\ Goto(turn, "plan")
              \/ host' = [host EXCEPT !.action.query = q] /\ Goto(turn, "load")
  <2>1. Accepted(q) /\ turn.intent.window # None
    BY <1>1, <1>5, <1>7, CanonicalAccepted DEF AssistantInv
  <2>2. CASE host' = [host EXCEPT !.action = None] /\ Goto(turn, "plan")
    <3>1. /\ DOMAIN host' = HostFields /\ host'.datasets = host.datasets
          /\ host'.ensured = host.ensured
      BY <2>2 DEF AssistantInv, HostInv, HostFields
    <3> QED BY <1>1, <2>2, <3>1, ContinueKeeps
  <2>3. CASE /\ \E d \in host.datasets :
                   /\ Covers(d, q)
                   /\ Observed(q, {r \in d.rows : Matches(r, q)}, d.cols, d.asof)
             /\ Goto(turn, "plan")
    <3>1. PICK d \in host.datasets :
             Covers(d, q) /\ Observed(q, {r \in d.rows : Matches(r, q)}, d.cols, d.asof)
      BY <2>3
    <3>2. PICK rows : rows = {r \in d.rows : Matches(r, q)}
      OBVIOUS
    <3>3. PICK kept : kept = [query |-> q, rows |-> rows, cols |-> d.cols, asof |-> d.asof]
      OBVIOUS
    <3>4. Exact(d)
      BY DEF AssistantInv, HostInv
    <3>5. Exact(kept) /\ kept.query = q /\ q.cols \subseteq kept.cols
      BY <2>1, <3>1, <3>2, <3>3, <3>4, ReuseExact
    <3>6. /\ TurnInv(turn', session') /\ turn'.fetch = turn.fetch
          /\ turn'.pc = "plan" /\ turn'.input = turn.input
      BY <1>1, <2>3, LoopKeeps DEF AssistantInv, PlannerLoop
    <3>7. Observed(q, rows, d.cols, d.asof)
      BY <3>1, <3>2
    <3>8. HostInv
      BY DEF AssistantInv
    <3>9. HostInv'
      BY <1>1, <3>3, <3>5, <3>6, <3>7, <3>8, ObservedKeeps
    <3> QED BY <3>6, <3>9 DEF AssistantInv
  <2>4. CASE host' = [host EXCEPT !.action.query = q] /\ Goto(turn, "load")
    <3>1. host' = [host EXCEPT !.action = [host.action EXCEPT !.query = q]]
      BY <2>4
    <3>2. PICK a : a = [host.action EXCEPT !.query = q]
      OBVIOUS
    <3>3. DOMAIN a = {"tool", "query"} /\ a.query = q
      BY <1>2, <3>2
    <3>4. /\ DOMAIN host' = HostFields /\ host'.datasets = host.datasets
          /\ host'.ensured = host.ensured /\ host'.action = a
      BY <3>1, <3>2 DEF AssistantInv, HostInv, HostFields
    <3>5. /\ TurnInv(turn', session') /\ turn'.fetch = turn.fetch
          /\ turn'.pc = "load" /\ turn'.input = turn.input
      BY <1>1, <2>1, <2>4, LoopKeeps DEF AssistantInv, PlannerLoop
    <3>6. HostInv'
      BY <1>1, <2>1, <3>3, <3>4, <3>5, SameDatasets DEF AssistantInv, PlannerLoop
    <3> QED BY <3>5, <3>6 DEF AssistantInv
  <2> QED BY <1>7, <2>2, <2>3, <2>4
<1> QED BY <1>3, <1>6, <1>7

\* The business call of an analysis: the filters of the run and the window of the intent.
LEMMA FetchKeeps ==
  ASSUME TurnInv(turn, session), turn.pc = "load", session' = session,
         ~SourceRefuses(turn.filters, turn.auth),
         turn' = [turn EXCEPT !.pc = "plan",
                              !.fetch = [filters |-> turn.filters, window |-> turn.intent.window]]
  PROVE  /\ TurnInv(turn', session') /\ AskedFor(turn, session, turn'.fetch.window)
         /\ turn'.pc = "plan" /\ turn'.input = turn.input
<1>1. /\ DOMAIN turn = TurnFields /\ InScope(turn.filters, turn.auth) /\ Frame(turn, session)
      /\ turn.intent.window \in Windows /\ AskedFor(turn, session, turn.intent.window)
  BY TurnInvFrame DEF TurnInv, PlannerLoop
<1>2. PICK f : f = [filters |-> turn.filters, window |-> turn.intent.window]
  OBVIOUS
<1>3. turn' = [turn EXCEPT !.pc = "plan", !.fetch = f]
  BY <1>2
<1>4. /\ DOMAIN turn' = TurnFields /\ turn'.pc = "plan" /\ turn'.fetch = f
      /\ turn'.auth = turn.auth /\ turn'.input = turn.input /\ turn'.intent = turn.intent
      /\ turn'.filters = turn.filters
  BY <1>1, <1>3 DEF TurnFields
<1>5. f.filters = turn.filters /\ f.window = turn.intent.window
  BY <1>2
<1>6. AskedFor(turn', session, turn.intent.window)
  <2>1. Stated(turn') = Stated(turn) /\ (FromCard(turn') <=> FromCard(turn))
    BY <1>4 DEF Stated, FromCard
  <2>2. Readings(turn') = Readings(turn) /\ (Silent(turn') <=> Silent(turn))
    BY <1>4, <2>1 DEF Readings, Silent
  <2> QED BY <1>1, <1>4, <2>1, <2>2 DEF AskedFor
<1>7. WithinDepartments(turn.filters.emps, turn.auth)
  BY DEF SourceRefuses, WithinDepartments
<1>8. NamedWithin(turn', turn'.fetch.filters)
  BY <1>4, <1>5, <1>7 DEF NamedWithin
<1> QED BY <1>1, <1>4, <1>5, <1>6, <1>8 DEF TurnInv, Frame, PlannerLoop, BeforeTheCall

LEMMA LoadFactsKeeps ==
  ASSUME AssistantInv, LoadFacts
  PROVE  AssistantInv' /\ NewCallIsAsked
<1>1. turn.pc = "load" /\ turn.pc \in PlannerLoop /\ facts' = facts
  BY DEF LoadFacts, PlannerLoop
<1>2. PICK q : q = host.action.query
  OBVIOUS
<1>3. Accepted(q) /\ HostInv /\ facts \subseteq Rows
  BY <1>1, <1>2 DEF AssistantInv, HostInv
<1>4. PICK rows : rows = FetchedRows(q)
  OBVIOUS
<1>5. \/ Rejected("denied")
      \/ host' = NoHost /\ Finish(turn, "analysis_failed")
      \/ /\ turn' = [turn EXCEPT !.pc = "plan",
                                 !.fetch = [filters |-> turn.filters, window |-> turn.intent.window]]
         /\ session' = session /\ ~SourceRefuses(turn.filters, turn.auth)
         /\ \/ host' = [host EXCEPT !.action = None,
                                    !.ensured = host.ensured \cup {[query |-> q, got |-> None]}]
            \/ RequiredFieldsValid(q, rows) /\ Observed(q, rows, Columns(q, rows), facts)
  BY <1>2, <1>4 DEF LoadFacts
<1>6. CASE Rejected("denied")
  BY <1>1, <1>6, RejectedKeeps DEF NewCallIsAsked
<1>7. CASE host' = NoHost /\ Finish(turn, "analysis_failed")
  BY <1>1, <1>7, EndKeeps DEF NewCallIsAsked
<1>8. CASE /\ turn' = [turn EXCEPT !.pc = "plan",
                                   !.fetch = [filters |-> turn.filters, window |-> turn.intent.window]]
           /\ session' = session /\ ~SourceRefuses(turn.filters, turn.auth)
           /\ \/ host' = [host EXCEPT !.action = None,
                                      !.ensured = host.ensured \cup {[query |-> q, got |-> None]}]
              \/ RequiredFieldsValid(q, rows) /\ Observed(q, rows, Columns(q, rows), facts)
  <2>1. /\ TurnInv(turn', session') /\ AskedFor(turn, session, turn'.fetch.window)
        /\ turn'.pc = "plan" /\ turn'.input = turn.input
    BY <1>1, <1>8, FetchKeeps DEF AssistantInv
  <2>2. CASE host' = [host EXCEPT !.action = None,
                                  !.ensured = host.ensured \cup {[query |-> q, got |-> None]}]
    <3>1. PICK ensured : ensured = host.ensured \cup {[query |-> q, got |-> None]}
      OBVIOUS
    <3>2. /\ DOMAIN host' = HostFields /\ host'.datasets = host.datasets
          /\ host'.ensured = ensured
      BY <1>3, <2>2, <3>1 DEF HostInv, HostFields
    <3>3. \A e \in ensured : e.got # None => e \in host.ensured
      BY <3>1
    <3>4. \A d : Exact(d) => Exact(d)'
      BY <2>1, ExactStays
    <3>5. \A d \in host'.datasets : Exact(d)'
      BY <1>3, <3>2, <3>4 DEF HostInv
    <3>6. \A e \in host'.ensured : e.got # None =>
            Exact(e.got)' /\ e.got.query = e.query /\ e.query.cols \subseteq e.got.cols
      BY <1>3, <3>2, <3>3, <3>4 DEF HostInv
    <3>7. HostInv'
      BY <1>1, <1>3, <2>1, <3>2, <3>5, <3>6 DEF HostInv, PlannerLoop
    <3> QED BY <2>1, <3>7 DEF AssistantInv, NewCallIsAsked
  <2>3. CASE RequiredFieldsValid(q, rows) /\ Observed(q, rows, Columns(q, rows), facts)
    <3>1. PICK kept : kept = [query |-> q, rows |-> rows, cols |-> Columns(q, rows), asof |-> facts]
      OBVIOUS
    <3>2. Exact(kept) /\ kept.query = q /\ q.cols \subseteq kept.cols
      BY <1>3, <1>4, <2>3, <3>1, LoadExact
    <3>3. PICK cols : cols = Columns(q, rows)
      OBVIOUS
    <3>4. Observed(q, rows, cols, facts) /\ kept = [query |-> q, rows |-> rows, cols |-> cols, asof |-> facts]
      BY <2>3, <3>1, <3>3
    <3>5. HostInv'
      BY <1>1, <1>3, <2>1, <3>2, <3>4, ObservedKeeps
    <3> QED BY <2>1, <3>5 DEF AssistantInv, NewCallIsAsked
  <2> QED BY <1>8, <2>2, <2>3
<1> QED BY <1>5, <1>6, <1>7, <1>8

LEMMA ToolKeeps ==
  ASSUME AssistantInv, Analyze \/ LookupKnowledge \/ ToolDenied
  PROVE  AssistantInv' /\ turn'.fetch = turn.fetch
<1>1. turn.pc \in PlannerLoop /\ facts' = facts
  BY DEF Analyze, LookupKnowledge, ToolDenied, PlannerLoop
<1>2. CASE \E reason : Rejected(reason)
  BY <1>1, <1>2, RejectedKeeps
<1>3. CASE Goto(turn, "plan")
             /\ \E results : host' = [host EXCEPT !.action = None, !.results = results]
  <2>1. /\ DOMAIN host' = HostFields /\ host'.datasets = host.datasets
        /\ host'.ensured = host.ensured
    BY <1>3 DEF AssistantInv, HostInv, HostFields
  <2> QED BY <1>1, <1>3, <2>1, ContinueKeeps
<1>4. CASE Analyze
  <2>1. \/ Rejected("unknown_reference") \/ Rejected("unavailable")
        \/ Goto(turn, "plan") /\ \E d \in host.datasets :
             host' = [host EXCEPT !.action = None, !.results = host.results \cup {d}]
    BY <1>4 DEF Analyze
  <2> QED BY <1>2, <1>3, <2>1
<1>5. CASE LookupKnowledge
  <2>1. /\ DOMAIN host' = HostFields /\ host'.datasets = host.datasets
        /\ host'.ensured = host.ensured
    BY <1>5 DEF LookupKnowledge, AssistantInv, HostInv, HostFields
  <2> QED BY <1>1, <1>5, <2>1, ContinueKeeps DEF LookupKnowledge
<1>6. CASE ToolDenied
  BY <1>2, <1>6 DEF ToolDenied
<1> QED BY <1>4, <1>5, <1>6

LEMMA SubmitKeeps ==
  ASSUME AssistantInv, Submit
  PROVE  AssistantInv' /\ turn'.fetch = turn.fetch
<1>1. turn.pc = "tool" /\ turn.pc \in PlannerLoop /\ facts' = facts
  BY DEF Submit, PlannerLoop
<1>2. CASE Rejected("invalid_action")
  BY <1>1, <1>2, RejectedKeeps
<1>3. CASE host' = NoHost /\ \E o : Finish(turn, o)
  BY <1>1, <1>3, EndKeeps
<1>4. CASE host' = NoHost /\ Answer
  <2>1. Frame(turn, session) /\ turn.intent.window \in Windows \cup {None}
    BY <1>1, TurnInvFrame DEF AssistantInv, TurnInv
  <2>2. TurnInv(turn', session') /\ turn'.pc = "over" /\ turn'.fetch = turn.fetch
    BY <1>4, <2>1, AnswerKeeps
  <2>3. HostInv'
    BY <1>1, <1>4, <2>2, ClosedHost DEF AssistantInv
  <2> QED BY <2>2, <2>3 DEF AssistantInv
<1> QED BY <1>2, <1>3, <1>4 DEF Submit, Ask

LEMMA AnalysisStepKeeps ==
  ASSUME AssistantInv, AnalysisStep
  PROVE  AssistantInv' /\ NewCallIsAsked
<1>1. CASE RunAnalysis
  <2>1. TurnInv(turn', session') /\ turn'.fetch = turn.fetch
    BY <1>1, RunAnalysisKeeps DEF AssistantInv
  <2>2. turn'.pc \notin {"tool", "load"}
    <3>1. DOMAIN turn = TurnFields
      BY DEF AssistantInv, TurnInv
    <3>2. \E o : turn' \in {[turn EXCEPT !.pc = "over", !.outcome = o], [turn EXCEPT !.filters = o, !.pc = "plan"],
                            [[turn EXCEPT !.filters = o] EXCEPT !.pc = "plan"]}
      BY <1>1 DEF RunAnalysis, Finish, Ask, Goto
    <3> QED BY <3>1, <3>2 DEF TurnFields
  <2>3. HostInv'
    BY <1>1, <2>2, ClosedHost DEF AssistantInv, RunAnalysis
  <2> QED BY <2>1, <2>3 DEF AssistantInv, NewCallIsAsked
<1>2. CASE PlanStarted
  BY <1>2, PlanStartedKeeps DEF NewCallIsAsked
<1>3. CASE PlanExhausted
  BY <1>3, EndKeeps DEF PlanExhausted, NewCallIsAsked
<1>4. CASE Planned
  BY <1>4, PlannedKeeps DEF NewCallIsAsked
<1>5. CASE ToolDenied \/ Analyze \/ LookupKnowledge
  BY <1>5, ToolKeeps DEF NewCallIsAsked
<1>6. CASE Ensure
  BY <1>6, EnsureKeeps DEF NewCallIsAsked
<1>7. CASE LoadFacts
  BY <1>7, LoadFactsKeeps
<1>8. CASE Submit
  BY <1>8, SubmitKeeps DEF NewCallIsAsked
<1> QED BY <1>1, <1>2, <1>3, <1>4, <1>5, <1>6, <1>7, <1>8 DEF AnalysisStep

-----------------------------------------------------------------------------
(* The specification *)

\* The scenario an instance was started with stays.
LoadInv == "scenario" \in DOMAIN load /\ load.scenario \in Scenarios

LEMMA LoadKeeps == ASSUME LoadInv, [Next]_vars PROVE LoadInv'
<1>1. \/ load' = load
      \/ \E n : load' \in {[load EXCEPT !.turns = n], [load EXCEPT !.changes = n],
                           [load EXCEPT !.flips = n], [load EXCEPT !.reports = n]}
  <2>1. CASE UNCHANGED vars
    BY <2>1 DEF vars, conversationVars
  <2>2. CASE StartTurn \/ Reassign \/ ServerFlips \/ Report
    BY <2>2 DEF StartTurn, Reassign, ServerFlips, Report
  <2>3. CASE TurnStep
    BY <2>3 DEF TurnStep, ParseStarted, ChatStarted, GuardStarted, ComposeStarted, CallModel, Parsed,
             DrillParsed, Chatted, Authorize, Guarded, ResolveRequest, DirectoryFails, Execute,
             FetchFailed, Judged, Composed
  <2>4. CASE AnalysisStep
    BY <2>4 DEF AnalysisStep, RunAnalysis, PlanStarted, PlanExhausted, Planned, ToolDenied, Ensure,
             LoadFacts, Analyze, LookupKnowledge, Submit
  <2>5. CASE load.probing /\ Probe /\ UNCHANGED <<conversationVars, analysisVars>>
    BY <2>5 DEF conversationVars
  <2>6. CASE CallStep /\ UNCHANGED conversationVars
    BY <2>6 DEF conversationVars
  <2> QED BY <2>1, <2>2, <2>3, <2>4, <2>5, <2>6 DEF Next, Step
<1> QED BY <1>1 DEF LoadInv

\* A step outside the planner's loop, on both sides of it, leaves the host empty.
LEMMA HostIdle ==
  ASSUME HostInv, turn.pc \notin PlannerLoop, turn'.pc \notin PlannerLoop,
         UNCHANGED analysisVars
  PROVE  HostInv'
  BY DEF HostInv, analysisVars, PlannerLoop

\* Nor does a step that does not concern the turn.
LEMMA TurnRests ==
  ASSUME AssistantInv, turn' = turn, session' = session, host' = host, facts' \subseteq Rows
  PROVE  AssistantInv' /\ NewCallIsAsked
<1>1. \A d : Exact(d) => Exact(d)'
  BY ExactStays
<1>2. \A d \in host'.datasets : Exact(d)'
  BY <1>1 DEF AssistantInv, HostInv
<1>3. \A e \in host'.ensured : e.got # None =>
        Exact(e.got)' /\ e.got.query = e.query /\ e.query.cols \subseteq e.got.cols
  BY <1>1 DEF AssistantInv, HostInv
<1>4. HostInv'
  BY <1>2, <1>3 DEF AssistantInv, HostInv, Accepted, Actions
<1> QED BY <1>4 DEF AssistantInv, NewCallIsAsked

\* The steps of a turn before, and beside, an analysis stay outside the planner's loop.
LEMMA TurnStepOutside ==
  ASSUME TurnInv(turn, session), TurnStep
  PROVE  turn.pc \notin PlannerLoop /\ turn'.pc \notin PlannerLoop
<1>1. DOMAIN turn = TurnFields
  BY DEF TurnInv
<1>2. ASSUME NEW t, DOMAIN t = TurnFields
      PROVE  /\ \A o : Finish(t, o) => turn'.pc \notin PlannerLoop
             /\ \A pc : Goto(t, pc) /\ pc \notin PlannerLoop => turn'.pc \notin PlannerLoop
             /\ \A content : Route(t, content) => turn'.pc \notin PlannerLoop
  <2>1. \A o : Finish(t, o) => turn'.pc = "over"
    BY <1>2 DEF Finish, TurnFields
  <2>2. \A pc : Goto(t, pc) => turn'.pc = pc
    BY <1>2 DEF Goto, TurnFields
  <2>3. \A content : Route(t, content) =>
          \/ \E o : Finish(t, o)
          \/ \E pc \in {"chat", "analysis", "authorize"} : Goto(t, pc)
    BY DEF Route, Ask
  <2> QED BY <2>1, <2>2, <2>3 DEF PlannerLoop
<1>3. CASE ParseStarted \/ ChatStarted \/ GuardStarted \/ ComposeStarted
  BY <1>1, <1>2, <1>3 DEF ParseStarted, ChatStarted, GuardStarted, ComposeStarted, CallModel, PlannerLoop
<1>4. CASE Parsed
  <2>1. turn.pc = "parsing"
    BY <1>4 DEF Parsed, CallOver
  <2>2. \/ Finish(turn, "model_failed")
        \/ \E p, r : Route([turn EXCEPT !.input = p, !.intent = r], p.content)
    BY <1>4 DEF Parsed
  <2>3. ASSUME NEW p, NEW r, Route([turn EXCEPT !.input = p, !.intent = r], p.content)
        PROVE  turn'.pc \notin PlannerLoop
    <3>1. PICK t : t = [turn EXCEPT !.input = p, !.intent = r]
      OBVIOUS
    <3>2. DOMAIN t = TurnFields /\ Route(t, p.content)
      BY <1>1, <2>3, <3>1
    <3> QED BY <1>2, <3>2
  <2> QED BY <1>1, <1>2, <2>1, <2>2, <2>3 DEF PlannerLoop
<1>5. CASE DrillParsed
  <2>1. turn.pc = "drill"
    BY <1>5 DEF DrillParsed
  <2>2. \/ Finish(turn, "drill_invalid_time")
        \/ \E r : Route([turn EXCEPT !.intent = r], FALSE)
    BY <1>5 DEF DrillParsed
  <2>3. ASSUME NEW r, Route([turn EXCEPT !.intent = r], FALSE)
        PROVE  turn'.pc \notin PlannerLoop
    <3>1. PICK t : t = [turn EXCEPT !.intent = r]
      OBVIOUS
    <3>2. DOMAIN t = TurnFields /\ Route(t, FALSE)
      BY <1>1, <2>3, <3>1
    <3> QED BY <1>2, <3>2
  <2> QED BY <1>1, <1>2, <2>1, <2>2, <2>3 DEF PlannerLoop
<1>6. CASE Chatted \/ DirectoryFails \/ FetchFailed
  BY <1>1, <1>2, <1>6 DEF Chatted, CallOver, DirectoryFails, FetchFailed, PlannerLoop
<1>7. CASE Authorize
  BY <1>1, <1>2, <1>7 DEF Authorize, PlannerLoop
<1>8. CASE Guarded
  BY <1>1, <1>2, <1>8 DEF Guarded, CallOver, PlannerLoop
<1>9. CASE ResolveRequest
  <2>1. turn.pc = "resolve"
    BY <1>9 DEF ResolveRequest
  <2>2. \/ \E o : Finish(turn, o)
        \/ \E f, w : Goto([turn EXCEPT !.filters = f, !.intent.window = w], "execute")
    BY <1>9 DEF ResolveRequest, Ask
  <2>3. ASSUME NEW f, NEW w, Goto([turn EXCEPT !.filters = f, !.intent.window = w], "execute")
        PROVE  turn'.pc \notin PlannerLoop
    <3>1. PICK t : t = [turn EXCEPT !.filters = f, !.intent.window = w]
      OBVIOUS
    <3>2. DOMAIN t = TurnFields /\ Goto(t, "execute")
      BY <1>1, <2>3, <3>1
    <3> QED BY <1>2, <3>2 DEF PlannerLoop
  <2> QED BY <1>1, <1>2, <2>1, <2>2, <2>3 DEF PlannerLoop
<1>10. CASE Execute
  BY <1>1, <1>10 DEF Execute, TurnFields, PlannerLoop
<1>11. CASE Judged
  <2>1. turn.pc = "fetched"
    BY <1>11 DEF Judged
  <2>2. \/ \E o : Finish(turn, o)
        \/ \E kept : Goto([turn EXCEPT !.finding = kept], "compose")
    BY <1>11 DEF Judged
  <2>3. ASSUME NEW kept, Goto([turn EXCEPT !.finding = kept], "compose")
        PROVE  turn'.pc \notin PlannerLoop
    <3>1. PICK t : t = [turn EXCEPT !.finding = kept]
      OBVIOUS
    <3>2. DOMAIN t = TurnFields /\ Goto(t, "compose")
      BY <1>1, <2>3, <3>1
    <3> QED BY <1>2, <3>2 DEF PlannerLoop
  <2> QED BY <1>1, <1>2, <2>1, <2>2, <2>3 DEF PlannerLoop
<1>12. CASE Composed
  BY <1>1, <1>2, <1>12 DEF Composed, CallOver, TurnFields, PlannerLoop
<1> QED
  BY <1>3, <1>4, <1>5, <1>6, <1>7, <1>8, <1>9, <1>10, <1>11, <1>12 DEF TurnStep

LEMMA AssistantStep ==
  ASSUME AssistantInv, LoadInv, [Next]_vars
  PROVE  AssistantInv' /\ (turn'.fetch # None => NewCallIsAsked)
<1>1. CASE StartTurn /\ UNCHANGED analysisVars
  <2>1. TurnInv(turn', session') /\ turn'.fetch = None
    BY <1>1, StartTurnKeeps DEF AssistantInv, LoadInv
  <2>2. turn.pc \notin PlannerLoop /\ turn'.pc \notin PlannerLoop
    BY <1>1 DEF StartTurn, NoTurn, PlannerLoop
  <2> QED BY <1>1, <2>1, <2>2, HostIdle DEF AssistantInv
<1>2. CASE (TurnStep \/ (CallStep /\ UNCHANGED conversationVars)) /\ UNCHANGED analysisVars
  <2>1. CASE TurnStep
    BY <1>2, <2>1, TurnStepKeeps, TurnStepOutside, HostIdle DEF AssistantInv, LoadInv
  <2>2. CASE CallStep /\ UNCHANGED conversationVars
    BY <1>2, <2>2, TurnRests DEF conversationVars, analysisVars, AssistantInv, HostInv
  <2> QED BY <1>2, <2>1, <2>2
<1>3. CASE AnalysisStep
  BY <1>3, AnalysisStepKeeps
<1>4. ASSUME turn' = turn, session' = session, host' = host, facts' = facts
      PROVE  AssistantInv' /\ (turn'.fetch # None => NewCallIsAsked)
  BY <1>4, TurnRests DEF AssistantInv, HostInv
<1>5. CASE UNCHANGED vars
  BY <1>4, <1>5 DEF vars, conversationVars, analysisVars
<1>6. CASE (Reassign \/ ServerFlips) /\ UNCHANGED analysisVars
  BY <1>4, <1>6 DEF Reassign, ServerFlips, analysisVars
<1>7. CASE load.probing /\ Probe /\ UNCHANGED <<conversationVars, analysisVars>>
  BY <1>4, <1>7 DEF conversationVars, analysisVars
<1>8. CASE Report
  <2>1. turn' = turn /\ session' = session /\ host' = host
    BY <1>8 DEF Report
  <2>2. facts' \subseteq Rows
    BY <1>8 DEF Report, AssistantInv, HostInv
  <2> QED BY <2>1, <2>2, TurnRests
<1> QED BY <1>1, <1>2, <1>3, <1>5, <1>6, <1>7, <1>8 DEF Next, Step

LEMMA AssistantStarts == Init => AssistantInv /\ LoadInv
<1> SUFFICES ASSUME Init PROVE AssistantInv /\ LoadInv
  OBVIOUS
<1>1. turn = NoTurn /\ session = [window |-> None] /\ host = NoHost /\ facts = Rows
  BY DEF Init
<1>2. DOMAIN NoTurn = TurnFields /\ NoTurn.pc = "idle" /\ NoTurn.fetch = None
  BY DEF NoTurn, TurnFields
<1>3. TurnInv(turn, session)
  BY <1>1, <1>2 DEF TurnInv, BeforeTheCall, PlannerLoop
<1>4. DOMAIN NoHost = HostFields /\ NoHost.datasets = {} /\ NoHost.ensured = {}
  BY DEF NoHost, HostFields
<1>5. HostInv
  BY <1>1, <1>2, <1>4 DEF HostInv
<1>6. LoadInv
  BY DEF Init, LoadInv
<1> QED BY <1>3, <1>5, <1>6 DEF AssistantInv

\* No business call goes beyond the range its turn was authorized for, whatever the model
\* reads into the words, whatever a card sends and whatever the planner asks for (`narrow`,
\* `_resolve_drill_filters`, `_run_analysis`). The employee a leader names in words is the
\* exception that NamedEmployeeIsBound is about.
THEOREM CallsStayAuthorized == Spec => []CallsStayInScope
<1>1. AssistantInv => CallsStayInScope
  BY DEF AssistantInv, TurnInv, InScope, NamedWithin, IsDrill, CallsStayInScope
<1> QED BY <1>1, AssistantStarts, AssistantStep, LoadKeeps, PTL DEF Spec

\* A dataset that answers a query, loaded or cut from a wider one, holds exactly the rows a
\* load of the same snapshot would have given, with every asked column usable (`_covers`,
\* `_reuse`, `_matches`, `_normalize`).
THEOREM ReusedDatasetsAreExact == Spec => []ReuseIsExact
<1>1. AssistantInv => ReuseIsExact
  <2> SUFFICES ASSUME AssistantInv, NEW e \in host.ensured, e.got # None
               PROVE  /\ e.got.rows = {r \in e.got.asof :
                                         Matches(r, [e.query EXCEPT !.beds = BedsOf(e.query)])}
                      /\ RequiredFieldsValid(e.query, e.got.rows)
                      /\ e.query.cols \subseteq e.got.cols
    BY DEF ReuseIsExact
  <2>1. Exact(e.got) /\ e.got.query = e.query /\ e.query.cols \subseteq e.got.cols
    BY DEF AssistantInv, HostInv
  <2> QED BY <2>1 DEF Exact, RequiredFieldsValid
<1> QED BY <1>1, AssistantStarts, AssistantStep, LoadKeeps, PTL DEF Spec

\* The period a business call is made for is one its input names, or the session's where the
\* input names none; a card's own window is never replaced (`_build_slots`,
\* `_rescue_missing_time_range`, `_drill_parse_outcome`).
THEOREM TheAskedPeriodIsAnswered == Spec => AnswersTheAskedPeriod
<1>1. ASSUME AssistantInv, LoadInv, [Next]_vars
      PROVE  [turn'.fetch # None /\ turn.fetch = None =>
                LET w == turn'.fetch.window
                    silent == Stated(turn) = None /\ turn.input.words = None
                IN IF silent THEN w \in {session.window} \cup (IF IsDrill THEN {ThisMonth} ELSE {})
                   ELSE w \in Readings(turn) /\ (IsDrill /\ turn.input.range # None => w = turn.input.range)]_vars
  <2>1. turn'.fetch # None /\ turn.fetch = None => AskedFor(turn, session, turn'.fetch.window)
    BY <1>1, AssistantStep DEF NewCallIsAsked
  <2> QED BY <2>1 DEF AskedFor, Silent, FromCard, IsDrill
<1> QED BY <1>1, AssistantStarts, AssistantStep, LoadKeeps, PTL DEF Spec, AnswersTheAskedPeriod
=============================================================================
