---------------------------- MODULE SessionStates ----------------------------
(***************************************************************************)
(* The pure session state machine of domain/session.py: the states of one  *)
(* conversation turn, the transition table, and the lifecycle statuses of  *)
(* the persisted interaction row.                                          *)
(***************************************************************************)

SessionState == {"parsing", "clarifying", "authorizing", "executing", "composing",
                 "answered", "archived", "cancelled", "failed"}

TERMINAL_STATES == {"archived", "cancelled", "failed"}

ALLOWED_TRANSITIONS ==
  [parsing     |-> {"answered", "clarifying", "authorizing", "cancelled", "failed"},
   clarifying  |-> {"parsing", "authorizing", "cancelled", "failed"},
   authorizing |-> {"executing", "cancelled", "failed"},
   executing   |-> {"composing", "clarifying", "cancelled", "failed"},
   composing   |-> {"answered", "cancelled", "failed"},
   answered    |-> {"parsing", "archived", "cancelled", "failed"},
   archived    |-> {},
   cancelled   |-> {},
   failed      |-> {}]

\* FAILED is reachable from every non-terminal state, whatever the table says.
can_transition(source, target) ==
  IF target = "failed" THEN source \notin TERMINAL_STATES
                       ELSE target \in ALLOWED_TRANSITIONS[source]

InteractionStatus == {"pending", "running", "completed", "failed", "cancelled"}

TERMINAL_STATUSES == {"completed", "failed", "cancelled"}

\* Names of persisted events: every non-terminal name is abstracted to "info";
\* a terminal event is named after the status it announces.
TERMINAL_NAMES == TERMINAL_STATUSES
EventName == {"info"} \cup TERMINAL_NAMES

=============================================================================
