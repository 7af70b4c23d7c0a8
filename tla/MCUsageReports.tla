--------------------------- MODULE MCUsageReports ---------------------------
(***************************************************************************)
(* Small instances of UsageReports for TLC.  An hour is one tick, a day    *)
(* two, and the window is a day, as in the default configuration.          *)
(***************************************************************************)
EXTENDS UsageReports

CONSTANTS t1, t2

\* Two tenants, one of which only MES calls are metered for.
MCSources == {<<t1, "interaction">>, <<t2, "mes">>}

\* A platform-wide day, one tenant by its handle, and a handle outside the scope.
MCRequests ==
  {[kind |-> "day", scope |-> {}, ref |-> NoRef, start |-> 0, end |-> 2],
   [kind |-> "summary", scope |-> {t1}, ref |-> t1, start |-> 1, end |-> 3],
   [kind |-> "hour", scope |-> {t1}, ref |-> t2, start |-> 0, end |-> 2]}

=============================================================================
