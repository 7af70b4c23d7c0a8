---------------------------- MODULE SessionService ----------------------------
(***************************************************************************)
(* One interaction (one question and its answer) of the session service,   *)
(* from the moment `start` has committed it as pending: the durable row,   *)
(* its event log and its messages in PostgreSQL; the SSE streams that      *)
(* replay, claim and follow it; the background executor that runs the      *)
(* pipeline; the cancel API; and the recovery sweeps.                      *)
(*                                                                         *)
(* Every await that reads or writes the database is a step of its own, so  *)
(* the actors interleave exactly where the code can be suspended.  An      *)
(* actor may live in any worker process: a crash is the death of an actor. *)
(***************************************************************************)
EXTENDS Naturals, FiniteSets, SessionStates

CONSTANTS
  Conns,            \* SSE connections (tabs, reconnecting clients)
  Cancels,          \* calls of the cancel endpoint
  Sweepers,         \* workers that run the periodic and startup sweeps
  Executor,         \* the executor in its role of last-resort reaper
  StaleAfter,       \* session_stale_running_seconds, in ticks
  AbandonAfter,     \* session_abandoned_pending_seconds, in ticks
  MaxSilence,       \* longest time a live run goes without a commit, in ticks
  MaxNarration,     \* narration events of one run
  MaxFollowTimeouts,  \* wire-only timeouts one client receives before it starts over
  MaxCrashes, MaxFaults, MaxHistoryFaults   \* failures the environment may inject

Reapers == Conns \cup Sweepers \cup {Executor}

\* config.py requires run_timeout < stale_running "so a live-but-slow run is failed
\* by its own budget before any follower can mistake it for an orphan".
ASSUME TimeAssumption == /\ StaleAfter \in Nat /\ AbandonAfter \in Nat /\ MaxSilence \in Nat
                         /\ MaxSilence <= StaleAfter
ASSUME BoundAssumption == /\ MaxNarration \in Nat /\ MaxFollowTimeouts \in Nat
                          /\ MaxCrashes \in Nat /\ MaxFaults \in Nat /\ MaxHistoryFaults \in Nat
ASSUME ActorAssumption == /\ Conns \cap Sweepers = {}
                          /\ Executor \notin Conns \cup Sweepers

VARIABLES
  row,        \* the agent_interaction row
  age,        \* now - row.updated_at
  events,     \* the agent_event rows
  msgs,       \* the sequences taken in agent_message
  metered,    \* interaction_completed usage events written
  run,        \* the claimed run: the executor's program counter and memory
  spawned,    \* executors ever started for this interaction
  stream,     \* each connection's position in `stream` and its replay cursor
  job,        \* each reaper's record between its compare-and-set and its commit
  creq,       \* each cancel call
  lost,       \* reaped records whose terminal event was never written
  crashes, faults, historyFaults

db   == <<row, age, events, msgs, metered>>
exec == <<run, spawned>>
env  == <<crashes, faults, historyFaults>>
vars == <<db, exec, stream, job, creq, lost, env>>

-----------------------------------------------------------------------------
Category == {"none", "abandoned", "executor_lost", "cancelled", "other"}
Row == [status : InteractionStatus, state : SessionState, seq : Nat, category : Category]
Event == [seq : Nat, name : EventName]

\* Where the executor is.  Everything between "entry" and "history" is the task
\* inside `_run`; "net" is the last resort of `_execute`.
StopPcs == {"pre", "gate", "fetched", "analyzed"}
NarratePcs == {"parse", "authorize", "facts", "plan", "fetch", "summarize"}
LivePcs == StopPcs \cup NarratePcs \cup
           {"entry", "start", "open", "analyze", "emit", "judge", "compose",
            "close", "save", "end", "history"}
Pcs == LivePcs \cup {"none", "net", "done"}

Goal == {"none", "stopped", "failed", "lost", "clarify", "chat", "answer"}
Run ==
  [pc : Pcs,
   state : SessionState, seq : Nat,      \* RunState.record.state, RunState.sequence
   transcript : {"none", "open", "produced", "closed"},
   goal : Goal,                          \* the outcome the run is concluding with
   rescue : BOOLEAN,                     \* inside an except clause of `_run`
   owed : Nat,                           \* completion usage events not yet written
   narrated : Nat,
   cancelled : BOOLEAN,                  \* InteractionRunExecutor._cancel_event
   overdue : BOOLEAN,                    \* the wall-clock deadline has passed
   silence : Nat]                        \* ticks since the claim or the last stage commit

NoRun == [pc |-> "none", state |-> "parsing", seq |-> 0, transcript |-> "none", goal |-> "none",
          rescue |-> FALSE, owed |-> 0, narrated |-> 0, cancelled |-> FALSE, overdue |-> FALSE,
          silence |-> 0]
\* The task is over and its memory with it.
DoneRun == [NoRun EXCEPT !.pc = "done"]

StreamPcs == {"idle", "replay", "check", "tail", "claim", "history", "follow", "heal",
              "healing", "ended", "cut"}
\* A connection: where it is in `stream`, the last event id its client received, and
\* which of the ids it received were wire-only, never in the log.
Stream == [pc : StreamPcs, cursor : Nat, phantoms : SUBSET Nat]
Job == [seq : Nat, msg : Nat, category : {"abandoned", "executor_lost"}]
NoJob == [seq |-> 0, msg |-> 0, category |-> "none"]
CancelPhase == {"idle", "refused", "read", "signal", "done"}

TypeOK ==
  /\ row \in Row /\ age \in Nat /\ events \subseteq Event /\ msgs \subseteq Nat
  /\ metered \in Nat
  /\ run \in Run /\ spawned \in Nat
  /\ stream \in [Conns -> Stream]
  /\ job \in [Reapers -> Job \cup {NoJob}]
  /\ creq \in [Cancels -> [phase : CancelPhase, seq : Nat]]
  /\ lost \in Nat /\ crashes \in Nat /\ faults \in Nat /\ historyFaults \in Nat

Live == run.pc \in LivePcs
\* A claimed run whose executor is not spawned yet: its stream is rebuilding history.
Claiming == \E c \in Conns : stream[c].pc = "history"

Terminal == row.status \in TERMINAL_STATUSES

-----------------------------------------------------------------------------
(* The store: one transaction each.  Events are upserted on                *)
(* (interaction_id, sequence); messages are inserted under a fresh id, so  *)
(* UNIQUE (interaction_id, sequence) aborts a transaction that reuses one. *)

Put(evs) == {e \in events : \A f \in evs : f.seq # e.seq} \cup evs
Ev(s, n) == [seq |-> s, name |-> n]
Free(ms) == ms \cap msgs = {}

\* commit(lifecycle=True): the whole row is overwritten, whatever it holds.
Upsert(rec, evs, ms, completions) ==
  /\ row' = rec /\ age' = 0
  /\ events' = Put(evs) /\ msgs' = msgs \cup ms /\ metered' = metered + completions

\* Mutants: a touch that forgets updated_at, or the sequence watermark.
TouchKeepsAge(s, a, evs, ms) ==
  /\ row' = [row EXCEPT !.seq = s] /\ UNCHANGED age
  /\ events' = Put(evs) /\ msgs' = msgs \cup ms /\ UNCHANGED metered
TouchKeepsSeq(s, a, evs, ms) ==
  /\ UNCHANGED row /\ age' = a
  /\ events' = Put(evs) /\ msgs' = msgs \cup ms /\ UNCHANGED metered

\* commit(lifecycle=False): only the sequence watermark and updated_at move.
Touch(s, a, evs, ms) ==
  /\ row' = [row EXCEPT !.seq = s] /\ age' = a
  /\ events' = Put(evs) /\ msgs' = msgs \cup ms /\ UNCHANGED metered

Failed(s, cat) == [status |-> "failed", state |-> "failed", seq |-> s, category |-> cat]
Running(m) == [status |-> "running", state |-> m.state, seq |-> m.seq, category |-> "none"]

-----------------------------------------------------------------------------
(* The executor.  A step that commits either succeeds, or the transaction  *)
(* aborts (a message sequence is taken, or the database fails) and the     *)
(* exception unwinds from the in-memory state m the step had built.        *)

CloseEntry(t) == IF t = "produced" THEN "close" ELSE "end"

\* Every terminal path closes the transcript first.
Conclude(m, g) == [m EXCEPT !.goal = g, !.pc = CloseEntry(m.transcript)]

\* `_run` turns an exception of the pipeline into `_terminate(FAILED)`; one that
\* escapes that handler, or precedes it, reaches `_execute`.
Raised(m) ==
  IF run.pc \in {"entry", "start"} \/ m.rescue \/ ~can_transition(m.state, "failed")
  THEN [m EXCEPT !.pc = "net"]
  ELSE Conclude([m EXCEPT !.rescue = TRUE], "lost")

Attempt(Write, ms, m, next) ==
  \/ /\ Free(ms)
     /\ Write
     /\ run' = next
     /\ UNCHANGED <<faults, spawned, stream, job, creq, lost, crashes, historyFaults>>
  \/ /\ ~Free(ms) \/ faults < MaxFaults
     /\ faults' = IF Free(ms) THEN faults + 1 ELSE faults
     /\ run' = Raised(m)
     /\ UNCHANGED <<db, spawned, stream, job, creq, lost, crashes, historyFaults>>

\* A stage event: allocate the next sequence and commit without the lifecycle.
StageEvent(m, pc) ==
  Attempt(Touch(m.seq, 0, {Ev(m.seq, "info")}, {}), {}, m,
          [m EXCEPT !.pc = pc, !.silence = 0])

\* The same, with the lifecycle columns of the in-memory record: stages that move the state.
PhaseCommit(m, evs, pc) ==
  Attempt(Upsert(Running(m), evs, {}, 0), {}, m, [m EXCEPT !.pc = pc, !.silence = 0])

Advanced(n) == [run EXCEPT !.seq = @ + n]

\* A step of the executor that touches nothing but its own memory.
Local(m) == run' = m /\ UNCHANGED <<db, spawned, stream, job, creq, lost, env>>

\* `interrupted`: the in-process event, then the budget, then the durable status.
StopReason == IF run.cancelled THEN "cancelled"
              ELSE IF run.overdue THEN "run_timeout"
              ELSE IF Terminal THEN "cancelled" ELSE "none"

\* `_stop_here`: a timeout fails the run, a cancel only finishes the transcript.
StopHere(m, reason) == Conclude(m, IF reason = "run_timeout" THEN "failed" ELSE "stopped")

ExecEntry ==
  /\ run.pc = "entry"
  /\ Local(IF StopReason = "none" THEN [run EXCEPT !.pc = "start"] ELSE DoneRun)

ExecStarted ==
  /\ run.pc = "start"
  /\ PhaseCommit(Advanced(1), {Ev(run.seq + 1, "info")}, "pre")

\* The cooperative stop points of `_pipeline` and `_run_analysis`.
AfterStop == [pre |-> "open", gate |-> "facts", fetched |-> "compose", analyzed |-> "judge"]
ExecStopPoint ==
  /\ run.pc \in StopPcs
  /\ Local(IF StopReason = "none" THEN [run EXCEPT !.pc = AfterStop[run.pc]]
                                  ELSE StopHere(run, StopReason))

ExecOpen ==
  /\ run.pc = "open"
  /\ StageEvent([Advanced(1) EXCEPT !.transcript = "open"], "parse")

\* Facts and wait sentences of the transcript, any number of them.
ExecNarrate ==
  /\ run.pc \in NarratePcs
  /\ run.narrated < MaxNarration
  /\ StageEvent([Advanced(1) EXCEPT !.transcript = "produced", !.narrated = run.narrated + 1], run.pc)

\* RunControl.check raises RunStopped inside a budgeted call; `_run` stops there.
ExecBudgetStop ==
  /\ run.pc \in {"parse", "authorize", "analyze", "summarize"}
  /\ \/ (run.cancelled \/ run.overdue)
        /\ Local(StopHere([run EXCEPT !.rescue = TRUE],
                          IF run.cancelled THEN "cancelled" ELSE "run_timeout"))
     \/ Local(Conclude([run EXCEPT !.rescue = TRUE], "failed"))   \* budget_exhausted

ExecParsed ==
  /\ run.pc = "parse"
  /\ \/ \E g \in {"failed", "clarify", "chat"} : Local(Conclude(run, g))
     \/ StageEvent(Advanced(1), "authorize")      \* L1: authorize_started
     \/ StageEvent(Advanced(1), "plan")           \* L2: analysis_started

ExecAuthorized ==
  /\ run.pc = "authorize"
  /\ \/ \E g \in {"failed", "clarify"} : Local(Conclude(run, g))
     \/ Local([run EXCEPT !.pc = "gate"])

\* AUTHORIZING and EXECUTING in a single lifecycle commit.
ExecPhases ==
  /\ run.pc \in {"facts", "plan"}
  /\ LET m == [Advanced(2) EXCEPT !.state = "executing"] IN
     PhaseCommit(m, {Ev(run.seq + 1, "info"), Ev(run.seq + 2, "info")},
                 IF run.pc = "facts" THEN "fetch" ELSE "analyze")

\* L1: any exception of the runner, RunStopped included, and a blocked scope
\* verdict fail the run; otherwise the next stop point.
ExecFetched ==
  /\ run.pc = "fetch"
  /\ \/ Local(Conclude(run, "failed"))
     \/ Local([run EXCEPT !.pc = "fetched"])

\* L2: `emit_analysis_phase` checks for a stop and then commits a progress event.
ExecAnalyze ==
  /\ run.pc = "analyze"
  /\ \/ StopReason = "none" /\ run.narrated < MaxNarration
        /\ Local([run EXCEPT !.pc = "emit", !.narrated = run.narrated + 1])
     \/ Local([run EXCEPT !.pc = "analyzed"])

ExecEmit == run.pc = "emit" /\ StageEvent(Advanced(1), "analyze")

ExecJudged ==
  /\ run.pc = "judge"
  /\ \/ \E g \in {"failed", "clarify"} : Local(Conclude(run, g))
     \/ Local([run EXCEPT !.pc = "compose"])

ExecCompose ==
  /\ run.pc = "compose"
  /\ PhaseCommit([Advanced(1) EXCEPT !.state = "composing"], {Ev(run.seq + 1, "info")},
                 "summarize")

ExecSummarized == run.pc = "summarize" /\ Local(Conclude(run, "answer"))

\* `_close_transcript`: the done frame, then the saved transcript at its sequence.
ExecClose ==
  /\ run.pc = "close"
  /\ StageEvent([Advanced(1) EXCEPT !.transcript = "closed"], "save")

ExecSave ==
  /\ run.pc = "save"
  /\ Attempt(Touch(run.seq, run.silence, {}, {run.seq}),
             {run.seq}, run, [run EXCEPT !.pc = "end"])

\* The terminal commit: an answer, a chat reply or a clarification is COMPLETED
\* with two events, everything else is one FAILED event.  The in-memory record
\* and the completion usage event exist before the commit and survive its abort.
Outcome(g) ==
  CASE g = "answer"  -> [status |-> "completed", state |-> "answered", events |-> 2, msgs |-> {1, 2}]
    [] g = "chat"    -> [status |-> "completed", state |-> "answered", events |-> 2, msgs |-> {2}]
    [] g = "clarify" -> [status |-> "completed", state |-> "clarifying", events |-> 2, msgs |-> {2}]
    [] OTHER         -> [status |-> "failed", state |-> "failed", events |-> 1, msgs |-> {1}]

ErrorCategory(g) == CASE g = "lost" -> "executor_lost" [] g = "failed" -> "other" [] OTHER -> "none"

ExecEnd ==
  /\ run.pc = "end" /\ run.goal \notin {"none", "stopped"}
  /\ LET o  == Outcome(run.goal)
         m  == [Advanced(o.events) EXCEPT !.state = o.state, !.owed = run.owed + 1]
         ms == {run.seq + i : i \in o.msgs}
         evs == {Ev(run.seq + i, IF i = o.events THEN o.status ELSE "info") : i \in 1..o.events}
     IN Attempt(Upsert([status |-> o.status, state |-> o.state, seq |-> m.seq,
                        category |-> ErrorCategory(run.goal)], evs, ms, m.owed),
                ms, m, IF run.rescue THEN DoneRun
                       ELSE [m EXCEPT !.pc = "history", !.owed = 0, !.silence = 0])

\* A cancelled run ends without a terminal of its own.
ExecStopped ==
  /\ run.pc = "end" /\ run.goal = "stopped"
  /\ Local(DoneRun)

\* `_record_history` after a terminal outcome; a failure re-enters `_terminate`.
ExecHistory ==
  /\ run.pc = "history"
  /\ \/ Local(DoneRun)
     \/ /\ historyFaults < MaxHistoryFaults
        /\ historyFaults' = historyFaults + 1
        /\ run' = Raised(run)
        /\ UNCHANGED <<db, spawned, stream, job, creq, lost,
                       crashes, faults>>

\* A database read or any other unexpected error outside a commit.
ExecException ==
  /\ run.pc \in StopPcs \cup {"entry", "parse", "authorize", "plan", "analyze", "summarize"}
  /\ faults < MaxFaults
  /\ faults' = faults + 1
  /\ run' = Raised(run)
  /\ UNCHANGED <<db, spawned, stream, job, creq, lost,
                 crashes, historyFaults>>

\* Process exit, or the shutdown drain cancels the task: nothing is written.
ExecDies ==
  /\ Live \/ run.pc = "net"
  /\ crashes < MaxCrashes
  /\ crashes' = crashes + 1
  /\ run' = DoneRun
  /\ job' = [job EXCEPT ![Executor] = NoJob]
  /\ lost' = IF job[Executor] = NoJob THEN lost ELSE lost + 1
  /\ UNCHANGED <<db, spawned, stream, creq, faults,
                 historyFaults>>

DeadlinePasses ==
  /\ Live /\ ~run.overdue
  /\ Local([run EXCEPT !.overdue = TRUE])

ExecStep ==
  \/ ExecEntry \/ ExecStarted \/ ExecStopPoint \/ ExecOpen \/ ExecNarrate \/ ExecBudgetStop
  \/ ExecParsed \/ ExecAuthorized \/ ExecPhases \/ ExecFetched \/ ExecAnalyze \/ ExecEmit
  \/ ExecJudged \/ ExecCompose \/ ExecSummarized \/ ExecClose \/ ExecSave \/ ExecEnd
  \/ ExecStopped \/ ExecHistory \/ ExecException

-----------------------------------------------------------------------------
(* The recovery sweeps, a following stream's self-heal, and the executor's *)
(* own last resort: a compare-and-set on the row reserves the terminal     *)
(* event's sequence, and a second transaction writes the event.            *)

Stale == row.status = "running" /\ age > StaleAfter
AbandonedOrRunning == row.status \in {"pending", "running"} /\ age > AbandonAfter   \* mutant
Abandoned == row.status = "pending" /\ age > AbandonAfter

\* Mutant: a compare-and-set that does not set the status.
ReserveKeepsStatus(r, cat, m) ==
  /\ row' = [row EXCEPT !.seq = @ + 1, !.category = cat] /\ age' = 0
  /\ job' = [job EXCEPT ![r] = [seq |-> row.seq + 1, msg |-> m, category |-> cat]]
  /\ UNCHANGED <<events, msgs, metered>>

Reserve(r, cat, m) ==
  /\ row' = Failed(row.seq + 1, cat) /\ age' = 0
  /\ job' = [job EXCEPT ![r] = [seq |-> row.seq + 1, msg |-> m, category |-> cat]]
  /\ UNCHANGED <<events, msgs, metered>>

SweepStale(s) ==
  /\ job[s] = NoJob /\ Stale
  /\ Reserve(s, "executor_lost", row.seq + 1)
  /\ UNCHANGED <<exec, stream, creq, lost, env>>

SweepAbandoned(s) ==
  /\ job[s] = NoJob /\ Abandoned
  /\ Reserve(s, "abandoned", row.seq + 2)
  /\ UNCHANGED <<exec, stream, creq, lost, env>>

\* Mutant: the terminal event is not written.
PersistNoEvent(r) ==
  /\ Free({job[r].msg})
  /\ Upsert(Failed(job[r].seq, job[r].category), {}, {job[r].msg}, 1)
  /\ job' = [job EXCEPT ![r] = NoJob]
  /\ UNCHANGED <<lost, faults>>

\* `_persist_reaped_terminal`: a commit like any other, so the record it was
\* handed overwrites the row.
PersistWrite(r) ==
  /\ Free({job[r].msg})
  /\ Upsert(Failed(job[r].seq, job[r].category), {Ev(job[r].seq, "failed")}, {job[r].msg}, 1)
  /\ job' = [job EXCEPT ![r] = NoJob]
  /\ UNCHANGED <<lost, faults>>

PersistFails(r) ==
  /\ ~Free({job[r].msg}) \/ faults < MaxFaults
  /\ faults' = IF Free({job[r].msg}) THEN faults + 1 ELSE faults
  /\ lost' = lost + 1
  /\ job' = [job EXCEPT ![r] = NoJob]
  /\ UNCHANGED db

SweepPersist(s) ==
  /\ job[s] # NoJob
  /\ PersistWrite(s) \/ PersistFails(s)
  /\ UNCHANGED <<exec, stream, creq, crashes, historyFaults>>

SweeperDies(s) ==
  /\ job[s] # NoJob /\ crashes < MaxCrashes
  /\ crashes' = crashes + 1 /\ lost' = lost + 1
  /\ job' = [job EXCEPT ![s] = NoJob]
  /\ UNCHANGED <<db, exec, stream, creq, faults, historyFaults>>

\* `_execute`'s except clause: the row of a run that just crashed is rarely stale.
NetReap ==
  /\ run.pc = "net" /\ job[Executor] = NoJob
  /\ \/ /\ Stale
        /\ Reserve(Executor, "executor_lost", row.seq + 1)
        /\ UNCHANGED run
     \/ /\ ~Stale
        /\ run' = DoneRun
        /\ UNCHANGED <<db, job>>
  /\ UNCHANGED <<spawned, stream, creq, lost, env>>

NetPersist ==
  /\ run.pc = "net" /\ job[Executor] # NoJob
  /\ PersistWrite(Executor) \/ PersistFails(Executor)
  /\ run' = DoneRun
  /\ UNCHANGED <<spawned, stream, creq, crashes, historyFaults>>

-----------------------------------------------------------------------------
(* The SSE stream.                                                         *)

After(c) == {e \in events : e.seq > stream[c].cursor}
TerminalAfter(c) == {e \in After(c) : e.name \in TERMINAL_NAMES}
SeqsOf(evs) == {e.seq : e \in evs}
LastOf(evs, cursor) ==
  CHOOSE s \in SeqsOf(evs) \cup {cursor} : \A t \in SeqsOf(evs) \cup {cursor} : t <= s
FirstOf(evs) == CHOOSE s \in SeqsOf(evs) : \A t \in SeqsOf(evs) : s <= t

Position(pc, cursor, phantoms) == [pc |-> pc, cursor |-> cursor, phantoms |-> phantoms]
Move(c, pc, cursor) == stream' = [stream EXCEPT ![c] = Position(pc, cursor, stream[c].phantoms)]
\* A step of the stream that only reads the database.
ReadOnly == UNCHANGED <<db, exec, job, creq, lost, env>>
Reads(c, pc, cursor) == Move(c, pc, cursor) /\ ReadOnly

\* A client subscribes from the start, or resumes after the last event it saw.
Connect(c) ==
  /\ stream[c].pc \in {"idle", "ended", "cut"}
  /\ \/ Move(c, "replay", stream[c].cursor)
     \/ stream' = [stream EXCEPT ![c] = Position("replay", 0, {})]
  /\ ReadOnly

Replay(c) ==
  /\ stream[c].pc = "replay"
  /\ Reads(c, IF TerminalAfter(c) = {} THEN "check" ELSE "ended",
              LastOf(After(c), stream[c].cursor))

CheckStatus(c) ==
  /\ stream[c].pc = "check"
  /\ Reads(c, IF Terminal THEN "tail" ELSE "claim", stream[c].cursor)

\* `_replay_tail`: what is in the log now, and the stream is over.
ReplayTail(c) ==
  /\ stream[c].pc = "tail"
  /\ Reads(c, IF TerminalAfter(c) = {} THEN "cut" ELSE "ended",
              LastOf(After(c), stream[c].cursor))

\* Mutant: an update without the compare.
ClaimRunBlind(c) ==
  /\ stream[c].pc = "claim"
  /\ row' = [row EXCEPT !.status = "running"] /\ age' = 0
  /\ run' = [NoRun EXCEPT !.state = row.state, !.seq = row.seq]
  /\ Move(c, "history", stream[c].cursor)
  /\ UNCHANGED <<events, msgs, metered, spawned, job, creq, lost, env>>

\* claim_run: PENDING to RUNNING, won by one connection.
ClaimRun(c) ==
  /\ stream[c].pc = "claim"
  /\ \/ /\ row.status = "pending"
        /\ row' = [row EXCEPT !.status = "running"] /\ age' = 0
        /\ run' = [NoRun EXCEPT !.state = row.state, !.seq = row.seq]
        /\ Move(c, "history", stream[c].cursor)
     \/ /\ row.status # "pending"
        /\ Move(c, "follow", stream[c].cursor)
        /\ UNCHANGED <<row, age, run>>
  /\ UNCHANGED <<events, msgs, metered, spawned, job, creq, lost, env>>

\* The claim winner rebuilds the history, then hands the run to an executor.
SpawnExecutor(c) ==
  /\ stream[c].pc = "history"
  /\ run' = [run EXCEPT !.pc = "entry"]
  /\ spawned' = spawned + 1
  /\ Move(c, "follow", stream[c].cursor)
  /\ UNCHANGED <<db, job, creq, lost, env>>

\* Mutant: the loop goes on after a terminal event.
FollowOn(c) ==
  /\ stream[c].pc = "follow"
  /\ Reads(c, "heal", LastOf(After(c), stream[c].cursor))

\* `_follow`: deliver up to the first terminal event, else try to heal.
Follow(c) ==
  /\ stream[c].pc = "follow"
  /\ IF TerminalAfter(c) = {}
     THEN Reads(c, "heal", LastOf(After(c), stream[c].cursor))
     ELSE Reads(c, "ended", FirstOf(TerminalAfter(c)))

Heal(c) ==
  /\ stream[c].pc = "heal"
  /\ \/ /\ Stale
        /\ Reserve(c, "executor_lost", row.seq + 1)
        /\ Move(c, "healing", stream[c].cursor)
     \/ /\ ~Stale
        /\ Move(c, "follow", stream[c].cursor)
        /\ UNCHANGED <<db, job>>
  /\ UNCHANGED <<exec, creq, lost, env>>

HealPersist(c) ==
  /\ stream[c].pc = "healing"
  /\ \/ PersistWrite(c) /\ Move(c, "ended", job[c].seq)
     \/ PersistFails(c) /\ Move(c, "idle", stream[c].cursor)
  /\ UNCHANGED <<exec, creq, crashes, historyFaults>>

\* The follow budget runs out: a wire-only failed event ends the stream.  It carries the
\* id after the last one, which the client records like any other.
FollowTimeout(c) ==
  /\ stream[c].pc = "follow"
  /\ Cardinality(stream[c].phantoms) < MaxFollowTimeouts
  /\ LET id == stream[c].cursor + 1 IN
     stream' = [stream EXCEPT ![c] = Position("ended", id, stream[c].phantoms \cup {id})]
  /\ ReadOnly

\* The client goes away; whatever the generator was awaiting is abandoned.
Disconnect(c) ==
  /\ stream[c].pc \notin {"idle", "ended", "cut"}
  /\ Move(c, "idle", stream[c].cursor)
  /\ job' = [job EXCEPT ![c] = NoJob]
  /\ lost' = IF job[c] = NoJob THEN lost ELSE lost + 1
  /\ UNCHANGED <<db, exec, creq, env>>

-----------------------------------------------------------------------------
(* The cancel endpoint: read, commit, then signal the executor if it runs  *)
(* in this process.                                                        *)

CancelRead(k) ==
  /\ creq[k].phase = "idle"
  /\ creq' = [creq EXCEPT ![k] =
        IF Terminal \/ ~can_transition(row.state, "cancelled")
        THEN [phase |-> "refused", seq |-> 0] ELSE [phase |-> "read", seq |-> row.seq]]
  /\ UNCHANGED <<db, exec, stream, job, lost, env>>

CancelCommit(k) ==
  /\ creq[k].phase = "read"
  /\ LET s == creq[k].seq + 1 IN
     \/ /\ Free({s + 1})
        /\ Upsert([status |-> "cancelled", state |-> "cancelled", seq |-> s,
                   category |-> "cancelled"], {Ev(s, "cancelled")}, {s + 1}, 1)
        /\ creq' = [creq EXCEPT ![k].phase = "signal"]
        /\ UNCHANGED faults
     \/ /\ ~Free({s + 1}) \/ faults < MaxFaults
        /\ faults' = IF Free({s + 1}) THEN faults + 1 ELSE faults
        /\ creq' = [creq EXCEPT ![k].phase = "done"]
        /\ UNCHANGED db
  /\ UNCHANGED <<exec, stream, job, lost, crashes, historyFaults>>

CancelSignal(k) ==
  /\ creq[k].phase = "signal"
  /\ creq' = [creq EXCEPT ![k].phase = "done"]
  /\ \/ Live /\ run' = [run EXCEPT !.cancelled = TRUE]
     \/ UNCHANGED run                                   \* not in this process
  /\ UNCHANGED <<db, spawned, stream, job, lost, env>>

-----------------------------------------------------------------------------
\* Time passes for an unfinished row; a live run never stays silent longer than MaxSilence.
AgeCap == (IF StaleAfter > AbandonAfter THEN StaleAfter ELSE AbandonAfter) + 1

Tick ==
  /\ Live \/ Claiming => run.silence < MaxSilence
  /\ age' = IF age < AgeCap /\ ~Terminal THEN age + 1 ELSE age
  /\ run' = IF Live \/ Claiming THEN [run EXCEPT !.silence = @ + 1] ELSE run
  /\ UNCHANGED <<row, events, msgs, metered, spawned, stream, job, creq, lost, env>>

\* `start` has committed the question: a pending row and its message at sequence 1.
Init ==
  /\ row = [status |-> "pending", state |-> "parsing", seq |-> 0, category |-> "none"]
  /\ age = 0 /\ events = {} /\ msgs = {1} /\ metered = 0
  /\ run = NoRun /\ spawned = 0
  /\ stream = [c \in Conns |-> Position("idle", 0, {})]
  /\ job = [r \in Reapers |-> NoJob]
  /\ creq = [k \in Cancels |-> [phase |-> "idle", seq |-> 0]]
  /\ lost = 0 /\ crashes = 0 /\ faults = 0 /\ historyFaults = 0

SweepAbandonedOnly(s) == SweepAbandoned(s) \/ SweepPersist(s)   \* mutant
SweepStep(s) == SweepStale(s) \/ SweepAbandoned(s) \/ SweepPersist(s)
StreamStep(c) ==
  \/ Replay(c) \/ CheckStatus(c) \/ ReplayTail(c) \/ ClaimRun(c) \/ SpawnExecutor(c)
  \/ Follow(c) \/ Heal(c) \/ HealPersist(c)
CancelStep(k) == CancelCommit(k) \/ CancelSignal(k)

Next ==
  \/ ExecStep \/ ExecDies \/ DeadlinePasses \/ NetReap \/ NetPersist
  \/ \E s \in Sweepers : SweepStep(s) \/ SweeperDies(s)
  \/ \E c \in Conns : StreamStep(c) \/ Connect(c) \/ FollowTimeout(c) \/ Disconnect(c)
  \/ \E k \in Cancels : CancelRead(k) \/ CancelStep(k)
  \/ Tick

\* The event loop runs every ready task; the sweeps are periodic; time passes.
\* Nothing obliges a client to connect, to stay, or to cancel.
Fairness ==
  /\ WF_vars(ExecStep) /\ WF_vars(NetReap) /\ WF_vars(NetPersist) /\ WF_vars(Tick)
  /\ \A s \in Sweepers : WF_vars(SweepStep(s))
  /\ \A c \in Conns : WF_vars(StreamStep(c))
  /\ \A k \in Cancels : WF_vars(CancelStep(k))

Spec == Init /\ [][Next]_vars /\ Fairness

-----------------------------------------------------------------------------
(* Properties                                                              *)

\* "Exactly one executor ever runs the pipeline" (service.py, `stream`): over every
\* reconnect, crash, cancel and sweep, at most one executor is spawned, and none is
\* about to be while one exists.
OneExecutorEver ==
  /\ spawned <= 1
  /\ \A c, d \in Conns : stream[c].pc = "history" =>
       /\ spawned = 0
       /\ stream[d].pc = "history" => c = d

\* `sweep_abandoned_runs` fails only questions that never ran: an abandoned row, or an
\* abandoned record on its way to the row, excludes a claim and an executor, then and later.
AbandonedNeverRan ==
  (row.category = "abandoned" \/ \E r \in Reapers : job[r].category = "abandoned")
    => run.pc = "none" /\ ~Claiming

\* The recovery sweeps never reap a live run: the row of a live or just claimed run is
\* not stale, because its claim and every commit of the run refresh updated_at.
LiveRunNotStale == Live \/ Claiming => ~Stale

\* No cancel call has found the interaction unfinished, and every history write succeeded.
NoCancel == \A k \in Cancels : creq[k].phase \in {"idle", "refused"}
Undisturbed == NoCancel /\ historyFaults = 0

\* "Terminal states can never restart": without a cancel in flight and with history
\* writes succeeding, no stream, sweep, crash or database failure changes the status of
\* a finished interaction.
FinishedStaysFinished ==
  [][Undisturbed /\ Undisturbed' /\ Terminal => row'.status = row.status]_vars

\* The event log replays identically to every client: the row's watermark covers the
\* log, so that a sweep's reserved sequence is really free and no persisted event is
\* overwritten.
WatermarkCoversLog == Undisturbed => \A e \in events : e.seq <= row.seq

\* At most one terminal event and at most one completion usage event per interaction,
\* as long as no transaction is aborted by the database.
OneOutcome ==
  Undisturbed =>
    /\ \A e, f \in events : e.name \in TERMINAL_NAMES /\ f.name \in TERMINAL_NAMES => e = f
    /\ faults = 0 => metered <= 1

\* Once nobody is working on it, a finished interaction has its terminal event in the
\* log, and one that is not finished has none, unless a reaped record was lost between
\* the sweep's two transactions.
Quiet == ~Live /\ run.pc # "net" /\ \A r \in Reapers : job[r] = NoJob
FinishedIsLogged ==
  Undisturbed /\ lost = 0 /\ Quiet =>
    (Terminal <=> \E e \in events : e.name \in TERMINAL_NAMES)

\* A stream never delivers past a terminal event: a client whose ids all came from the
\* log, and that has received the terminal one, is on a stream that has ended.
NoDeliveryPastTerminal ==
  Undisturbed => \A c \in Conns : \A e \in events :
    e.name \in TERMINAL_NAMES /\ stream[c].phantoms = {} /\ stream[c].cursor >= e.seq
      => stream[c].pc \notin {"follow", "heal", "healing", "claim", "history"}

\* Whatever is cancelled, crashes or fails, every interaction ends up finished for good:
\* a dead or stopped run is failed by a sweep, an unclaimed question is abandoned.
EventuallyFinished == <>[]Terminal

\* A client that keeps following is released by a terminal event, whoever died or failed
\* on the way, unless a reaped record was lost between a sweep's two transactions or
\* the client's own cursor ran ahead of the log by a wire-only timeout.
FollowerReleased ==
  \A c \in Conns : stream[c].pc = "follow" ~>
    \/ stream[c].pc \in {"ended", "idle", "cut"}
    \/ lost > 0 \/ stream[c].phantoms # {}

(* What the comments of the code say, and the code does not do.            *)

\* "Another process (or the cancel API) already wrote a terminal; this task must not
\* resurrect it" (executor.py, `interrupted`): a cancelled interaction stays cancelled.
CancelledStaysCancelled == [][row.status = "cancelled" => row'.status = "cancelled"]_vars

=============================================================================
