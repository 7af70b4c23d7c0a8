----------------------------- MODULE MCServices -----------------------------
(***************************************************************************)
(* The services around the assistant, checked side by side: each behaviour *)
(* is one service's, the others stay as they are.                          *)
(***************************************************************************)
EXTENDS Exports, TenantRegistry, Listings, Trace, Narration, Directories, OpsReports

CONSTANT Services   \* the services whose behaviours are checked

VARIABLE service

MCRoles == [u \in Downloaders |-> IF u = "u1" THEN "viewer" ELSE "analyst"]

MCWriterOf == [w \in Writers |-> Reader]

MCObservable ==
    {<<"mes", "leaf", 1>>, <<"llm", "leaf", 0>>, <<"cache", "leaf", -1>>, <<"cache", "parent", 0>>}

MCScript == <<
    [fact |-> <<0, 0>>],
    [over |-> "parse", lines |-> {<<0, 0>>, <<0, 0, 0>>}],
    [fact |-> <<0, 2026, 0>>],
    [over |-> "fetch", lines |-> {<<0, 2026, 0>>, <<0, 0, 0, 0>>}],
    [fact |-> <<0, 0, 0, 0, 0>>] >>

MCDigitsOf(n) == IF n < 10 THEN 1 ELSE IF n < 1000 THEN 3 ELSE 4

MCPageMarks == <<500, 1000>>

MCInquiries == {<<k>> : k \in DirKeys \ {DirKey("form", 2)}} \cup {<<DirKey("form", 1), DirKey("form", 2)>>}

\* Two turns of one factory, or of two.
MCBindings == {b \in [DirReaders -> Factories] : b["d1"] = "f1"}

Metered(id, plant, tab, event, status, key, error, who) ==
    [id |-> id, plant |-> plant, table |-> tab, at |-> 0, event |-> event, status |-> status,
     key |-> key, error |-> error, who |-> who]

\* Two users, two models, calls of a mapped and of an unknown operation, and a call
\* past the period.
MCUsageFacts ==
    {Metered(1, 1, "interaction", "started", None, None, None, 1),
     Metered(2, 2, "interaction", "started", None, None, None, 2),
     Metered(3, 2, "interaction", "routed", None, "report", None, 2),
     Metered(4, 2, "interaction", "completed", "failed", None, "timeout", 2),
     Metered(5, 1, "llm", "completed", "completed", "m1", None, None),
     Metered(6, 2, "llm", "completed", "failed", "m2", "timeout", None),
     Metered(7, 1, "mes", "completed", "completed", "YskQuery", None, None),
     Metered(8, 2, "mes", "completed", "completed", "New", None, None),
     Metered(9, 2, "mes", "completed", "failed", "YskQuery", "rejected", None),
     [Metered(10, 1, "mes", "completed", "completed", "New", None, None) EXCEPT !.at = 1],
     Metered(11, 2, "interaction", "started", None, None, None, 2)}

MCUsageBefore == {f \in MCUsageFacts : f.id \in {1, 2, 6, 8}}

Inquired(kind, scope, ref, dimension, name) ==
    [kind |-> kind, scope |-> scope, ref |-> ref, dimension |-> dimension, name |-> name,
     limit |-> IF kind = "by_tenant" THEN 2 ELSE None, start |-> 0, end |-> 1]

MCInquiry ==
    {Inquired(k, {}, None, None, FALSE) :
       k \in {"mes_categories", "mes_failures", "mes_operations", "models", "errors"}}
    \cup {Inquired("dimensions", {2}, None, d, FALSE) :
            d \in {"capability", "status", "error_category", "actual_model", "city"}}
    \cup {Inquired("users", {}, None, None, FALSE), Inquired("models", {}, 2, None, FALSE)}
    \cup {Inquired("by_tenant", {}, None, None, n) : n \in BOOLEAN}
    \cup {Inquired("by_tenant", {1}, 2, None, FALSE)}

MCCategoryRows == [o \in {"YskQuery"} |-> "output"]

MCDefaultCategories == [o \in {"YskQuery"} |-> "other"]

\* Only the registry, the listings and the directories differ in how they start.
Init ==
    /\ service \in Services
    /\ ExportsInit /\ RegistryInit /\ ListingsInit /\ TraceInit /\ NarrationInit /\ DirectoriesInit
    /\ ReportsInit
    /\ service = "registry" \/ \A o \in Operators : accounts[o] = None
    /\ service = "listings" \/ listing = "history"
    /\ service = "directories" \/ \A r \in DirReaders : factoryOf[r] = "f1"

Next ==
    /\ UNCHANGED service
    /\ \/ /\ service = "artifacts" /\ (ArtifactStep \/ ExportTick \/ Restart)
          /\ UNCHANGED <<tvars, lvars, trvars, nvars, dvars, ovars>>
       \/ /\ service = "reports" /\ (ReportStep \/ ExportTick \/ Restart)
          /\ UNCHANGED <<tvars, lvars, trvars, nvars, dvars, ovars>>
       \/ service = "registry" /\ RegistryNext /\ UNCHANGED <<xvars, lvars, trvars, nvars, dvars, ovars>>
       \/ service = "listings" /\ ListingsNext /\ UNCHANGED <<xvars, tvars, trvars, nvars, dvars, ovars>>
       \/ service = "trace" /\ TraceNext /\ UNCHANGED <<xvars, tvars, lvars, nvars, dvars, ovars>>
       \/ service = "narration" /\ NarrationNext /\ UNCHANGED <<xvars, tvars, lvars, trvars, dvars, ovars>>
       \/ service = "directories" /\ DirectoriesNext /\ UNCHANGED <<xvars, tvars, lvars, trvars, nvars, ovars>>
       \/ service = "usage" /\ ReportsNext /\ UNCHANGED <<xvars, tvars, lvars, trvars, nvars, dvars>>

Spec == Init /\ [][Next]_<<service, xvars, tvars, lvars, trvars, nvars, dvars, ovars>>
=============================================================================
