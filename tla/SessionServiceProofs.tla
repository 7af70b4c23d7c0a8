------------------------ MODULE SessionServiceProofs ------------------------
(***************************************************************************)
(* Proofs about SessionService, for any number of connections, cancel      *)
(* calls and sweepers, and any bound on crashes and failures.              *)
(***************************************************************************)
EXTENDS SessionService, WellFoundedInduction, TLAPS

-----------------------------------------------------------------------------
(* Extrema of sets of naturals.                                            *)

\* A non-empty set of naturals has a least element.
LEMMA NatMin == ASSUME NEW S \in SUBSET Nat, S # {} PROVE \E x \in S : \A y \in S : x <= y
<1> DEFINE R == OpToRel(<, Nat)
<1>0. IsWellFoundedOn(R, Nat) BY NatLessThanWellFounded
<1>a. \A x, y \in Nat : x < y => <<x, y>> \in R BY DEF OpToRel
<1> HIDE DEF R
<1>1. PICK x \in S : \A y \in S : ~(<<y, x>> \in R)
  BY <1>0, WFMin, Zenon
<1>2. \A y \in S : ~(y < x) BY <1>1, <1>a
<1> QED BY <1>2

\* A non-empty bounded set of naturals has a greatest element.
LEMMA NatMax == ASSUME NEW S \in SUBSET Nat, S # {}, NEW b \in Nat, \A x \in S : x <= b
                PROVE \E x \in S : \A y \in S : y <= x
<1> DEFINE U == {u \in Nat : \A x \in S : x <= u}
<1>1. PICK u \in U : \A v \in U : u <= v BY NatMin
<1>2. CASE u \in S BY <1>1, <1>2
<1>3. CASE u \notin S
  <2>1. \A x \in S : x <= u - 1 /\ u > 0 BY <1>1, <1>3
  <2>2. u \in Nat /\ u > 0 BY <1>1, <2>1
  <2>3. u - 1 \in U BY <2>1, <2>2
  <2> QED BY <1>1, <2>2, <2>3
<1> QED BY <1>2, <1>3

-----------------------------------------------------------------------------
(* Types of the operators the actions are built from.                      *)

\* Every way a run concludes leaves a well-formed run record.
LEMMA ConcludeType == ASSUME NEW m \in Run, NEW g \in Goal PROVE Conclude(m, g) \in Run
  BY DEF Conclude, CloseEntry, Run, Pcs, LivePcs

\* An exception leaves a well-formed run record.
LEMMA RaisedType == ASSUME NEW m \in Run PROVE Raised(m) \in Run
<1>1. [m EXCEPT !.rescue = TRUE] \in Run /\ [m EXCEPT !.pc = "net"] \in Run
  BY DEF Run, Pcs
<1>2. Conclude([m EXCEPT !.rescue = TRUE], "lost") \in Run
  BY <1>1, ConcludeType DEF Goal
<1> QED BY <1>1, <1>2 DEF Raised

\* Advancing the in-memory sequence keeps the run record well-formed.
LEMMA AdvancedType == ASSUME run \in Run, NEW n \in Nat PROVE Advanced(n) \in Run
  BY DEF Advanced, Run

\* Stopping at a cooperative stop point leaves a well-formed run record.
LEMMA StopHereType == ASSUME NEW m \in Run, NEW reason PROVE StopHere(m, reason) \in Run
  BY ConcludeType DEF StopHere, Goal

\* The run before its claim and the run that is over are well-formed.
LEMMA NoRunType == NoRun \in Run /\ DoneRun \in Run
  BY DEF NoRun, DoneRun, Run, Pcs, SessionState, Goal

\* Sets of events whose sequences are bounded: what LastOf needs to have a value.
EventSet == {evs \in SUBSET Event : \E b \in Nat : \A e \in evs : e.seq <= b}

\* A single event is a bounded set of events.
LEMMA OneEventSet == ASSUME NEW s \in Nat, NEW n \in EventName PROVE {Ev(s, n)} \in EventSet
  BY DEF Ev, Event, EventSet

\* Two events committed together are a bounded set of events.
LEMMA TwoEventSet ==
  ASSUME NEW s \in Nat, NEW t \in Nat, NEW n \in EventName, NEW o \in EventName
  PROVE  {Ev(s, n), Ev(t, o)} \in EventSet
<1> DEFINE b == s + t
<1>1. b \in Nat /\ \A e \in {Ev(s, n), Ev(t, o)} : e \in Event /\ e.seq <= b BY DEF Ev, Event
<1> HIDE DEF b
<1> QED BY <1>1 DEF EventSet

\* The event upsert of `commit` keeps the log a bounded set of events.
LEMMA PutType == ASSUME events \in EventSet, NEW evs \in EventSet PROVE Put(evs) \in EventSet
<1>1. PICK b \in Nat : \A e \in events : e.seq <= b BY DEF EventSet
<1>2. PICK d \in Nat : \A e \in evs : e.seq <= d BY DEF EventSet
<1>3. \A e \in Put(evs) : e \in Event /\ e.seq <= b + d BY <1>1, <1>2 DEF Put, EventSet, Event
<1>4. b + d \in Nat OBVIOUS
<1> QED BY <1>3, <1>4 DEF EventSet

\* The part of the state that a transaction writes, and the whole invariant.
DbOK == row \in Row /\ age \in Nat /\ events \in EventSet /\ msgs \subseteq Nat /\ metered \in Nat
TInv == TypeOK /\ events \in EventSet

\* commit(lifecycle=True) keeps the types of the store.
LEMMA UpsertType ==
  ASSUME DbOK, NEW rec \in Row, NEW evs \in EventSet, NEW ms \in SUBSET Nat, NEW n \in Nat,
         Upsert(rec, evs, ms, n)
  PROVE  DbOK'
  BY PutType DEF DbOK, Upsert

\* commit(lifecycle=False) keeps the types of the store.
LEMMA TouchType ==
  ASSUME DbOK, NEW s \in Nat, NEW a \in Nat, NEW evs \in EventSet, NEW ms \in SUBSET Nat,
         Touch(s, a, evs, ms)
  PROVE  DbOK'
  BY PutType DEF DbOK, Touch, Row

\* A commit that succeeds, or one that raises: both keep the types.
LEMMA CommitType ==
  ASSUME TInv, DbOK', run' \in Run,
         UNCHANGED <<faults, spawned, stream, job, creq, lost, crashes, historyFaults>>
  PROVE  TInv'
  BY DEF TInv, TypeOK, DbOK, EventSet

\* A transaction that aborts leaves the store alone and the run well-formed.
LEMMA AbortType ==
  ASSUME TInv, NEW m \in Run, run' = Raised(m), faults' \in Nat,
         UNCHANGED <<db, spawned, stream, job, creq, lost, crashes, historyFaults>>
  PROVE  TInv'
  BY RaisedType DEF TInv, TypeOK, db

\* `_stage_event`, committed or aborted, keeps the types.
LEMMA StageEventType ==
  ASSUME TInv, NEW m \in Run, NEW pc \in Pcs, StageEvent(m, pc)
  PROVE  TInv'
<1>1. DbOK /\ faults \in Nat BY DEF TInv, TypeOK, DbOK
<1>2. [m EXCEPT !.pc = pc, !.silence = 0] \in Run BY DEF Run
<1>3. m.seq \in Nat /\ {Ev(m.seq, "info")} \in EventSet BY OneEventSet DEF Run, EventName
<1>4. CASE Touch(m.seq, 0, {Ev(m.seq, "info")}, {}) /\ run' = [m EXCEPT !.pc = pc, !.silence = 0]
           /\ UNCHANGED <<faults, spawned, stream, job, creq, lost, crashes, historyFaults>>
  <2>1. DbOK' BY <1>1, <1>3, <1>4, TouchType
  <2> QED BY <2>1, <1>2, <1>4, CommitType
<1>5. CASE /\ faults' \in Nat /\ run' = Raised(m)
           /\ UNCHANGED <<db, spawned, stream, job, creq, lost, crashes, historyFaults>>
  BY <1>5, AbortType
<1> QED BY <1>1, <1>4, <1>5 DEF StageEvent, Attempt

\* A commit that moves the session state, committed or aborted, keeps the types.
LEMMA PhaseCommitType ==
  ASSUME TInv, NEW m \in Run, NEW evs \in EventSet, NEW pc \in Pcs, PhaseCommit(m, evs, pc)
  PROVE  TInv'
<1>1. DbOK /\ faults \in Nat BY DEF TInv, TypeOK, DbOK
<1>2. [m EXCEPT !.pc = pc, !.silence = 0] \in Run BY DEF Run
<1>3. Running(m) \in Row BY DEF Run, Running, Row, InteractionStatus, Category
<1>4. CASE Upsert(Running(m), evs, {}, 0) /\ run' = [m EXCEPT !.pc = pc, !.silence = 0]
           /\ UNCHANGED <<faults, spawned, stream, job, creq, lost, crashes, historyFaults>>
  <2>1. DbOK' BY <1>1, <1>3, <1>4, UpsertType
  <2> QED BY <2>1, <1>2, <1>4, CommitType
<1>5. CASE /\ faults' \in Nat /\ run' = Raised(m)
           /\ UNCHANGED <<db, spawned, stream, job, creq, lost, crashes, historyFaults>>
  BY <1>5, AbortType
<1> QED BY <1>1, <1>4, <1>5 DEF PhaseCommit, Attempt

\* A step of the executor's memory alone.
LEMMA LocalType == ASSUME TInv, NEW m \in Run, Local(m) PROVE TInv'
  BY DEF TInv, TypeOK, Local, db, env

-----------------------------------------------------------------------------
(* The actions, one lemma per actor.                                       *)

\* Every step of the executor keeps the types.
LEMMA ExecStepType == ASSUME TInv, BoundAssumption, ExecStep PROVE TInv'
<1> USE DEF TInv
<1>0. run \in Run /\ run.seq \in Nat /\ run.narrated + 1 \in Nat BY DEF TypeOK, Run
<1>1. ASSUME ExecEntry PROVE TInv'
  <2>1. [run EXCEPT !.pc = "start"] \in Run BY <1>0 DEF Run, Pcs, LivePcs
  <2> QED BY <1>1, <2>1, NoRunType, LocalType DEF ExecEntry
<1>2. ASSUME ExecStarted PROVE TInv'
  <2>1. Advanced(1) \in Run /\ {Ev(run.seq + 1, "info")} \in EventSet
    BY <1>0, AdvancedType, OneEventSet DEF EventName
  <2> QED BY <1>2, <2>1, PhaseCommitType DEF ExecStarted, Pcs, LivePcs, StopPcs
<1>3. ASSUME ExecStopPoint PROVE TInv'
  <2>1. [run EXCEPT !.pc = AfterStop[run.pc]] \in Run
    BY <1>0, <1>3 DEF ExecStopPoint, AfterStop, Run, Pcs, LivePcs, StopPcs, NarratePcs
  <2>2. StopHere(run, StopReason) \in Run BY <1>0, StopHereType
  <2> QED BY <1>3, <2>1, <2>2, LocalType DEF ExecStopPoint
<1>4. ASSUME ExecOpen PROVE TInv'
  <2>1. [Advanced(1) EXCEPT !.transcript = "open"] \in Run BY <1>0, AdvancedType DEF Run
  <2> QED BY <1>4, <2>1, StageEventType DEF ExecOpen, Pcs, LivePcs, NarratePcs
<1>5. ASSUME ExecNarrate PROVE TInv'
  <2>1. [Advanced(1) EXCEPT !.transcript = "produced", !.narrated = run.narrated + 1] \in Run
    <3>1. Advanced(1) \in Run BY <1>0, AdvancedType
    <3> QED BY <1>0, <3>1 DEF Run
  <2> QED BY <1>5, <2>1, StageEventType DEF ExecNarrate, Pcs, LivePcs
<1>6. ASSUME ExecBudgetStop PROVE TInv'
  <2> DEFINE m == [run EXCEPT !.rescue = TRUE]
  <2>1. m \in Run BY <1>0 DEF Run
  <2>2. Conclude(m, "failed") \in Run BY <2>1, ConcludeType DEF Goal
  <2>3. \A x : StopHere(m, x) \in Run BY <2>1, StopHereType
  <2> QED BY <1>6, <2>2, <2>3, LocalType DEF ExecBudgetStop
<1>c. \A g \in {"failed", "clarify", "chat", "answer"} : Conclude(run, g) \in Run
  BY <1>0, ConcludeType DEF Goal
<1>7. ASSUME ExecParsed PROVE TInv'
  <2>1. Advanced(1) \in Run BY <1>0, AdvancedType
  <2> QED BY <1>7, <1>c, <2>1, LocalType, StageEventType DEF ExecParsed, Pcs, LivePcs, NarratePcs
<1>8. ASSUME ExecAuthorized PROVE TInv'
  <2>1. [run EXCEPT !.pc = "gate"] \in Run BY <1>0 DEF Run, Pcs, LivePcs, StopPcs
  <2> QED BY <1>8, <1>c, <2>1, LocalType DEF ExecAuthorized
<1>9. ASSUME ExecPhases PROVE TInv'
  <2>1. [Advanced(2) EXCEPT !.state = "executing"] \in Run
    BY <1>0, AdvancedType DEF Run, SessionState
  <2>2. {Ev(run.seq + 1, "info"), Ev(run.seq + 2, "info")} \in EventSet
    BY <1>0, TwoEventSet DEF EventName
  <2> QED BY <1>9, <2>1, <2>2, PhaseCommitType DEF ExecPhases, Pcs, LivePcs, NarratePcs
<1>10. ASSUME ExecFetched PROVE TInv'
  <2>1. [run EXCEPT !.pc = "fetched"] \in Run BY <1>0 DEF Run, Pcs, LivePcs, StopPcs
  <2> QED BY <1>10, <1>c, <2>1, LocalType DEF ExecFetched
<1>11. ASSUME ExecAnalyze PROVE TInv'
  <2>1. [run EXCEPT !.pc = "emit", !.narrated = run.narrated + 1] \in Run BY <1>0 DEF Run, Pcs, LivePcs
  <2>2. [run EXCEPT !.pc = "analyzed"] \in Run BY <1>0 DEF Run, Pcs, LivePcs, StopPcs
  <2> QED BY <1>11, <2>1, <2>2, LocalType DEF ExecAnalyze
<1>12. ASSUME ExecEmit PROVE TInv'
  <2>1. Advanced(1) \in Run BY <1>0, AdvancedType
  <2> QED BY <1>12, <2>1, StageEventType DEF ExecEmit, Pcs, LivePcs
<1>13. ASSUME ExecJudged PROVE TInv'
  <2>1. [run EXCEPT !.pc = "compose"] \in Run BY <1>0 DEF Run, Pcs, LivePcs
  <2> QED BY <1>13, <1>c, <2>1, LocalType DEF ExecJudged
<1>14. ASSUME ExecCompose PROVE TInv'
  <2>1. [Advanced(1) EXCEPT !.state = "composing"] \in Run
    BY <1>0, AdvancedType DEF Run, SessionState
  <2>2. {Ev(run.seq + 1, "info")} \in EventSet BY <1>0, OneEventSet DEF EventName
  <2> QED BY <1>14, <2>1, <2>2, PhaseCommitType DEF ExecCompose, Pcs, LivePcs, NarratePcs
<1>15. ASSUME ExecSummarized PROVE TInv'
  BY <1>15, <1>c, LocalType DEF ExecSummarized
<1>16. ASSUME ExecClose PROVE TInv'
  <2>1. [Advanced(1) EXCEPT !.transcript = "closed"] \in Run BY <1>0, AdvancedType DEF Run
  <2> QED BY <1>16, <2>1, StageEventType DEF ExecClose, Pcs, LivePcs
<1>17. ASSUME ExecSave PROVE TInv'
  <2>1. [run EXCEPT !.pc = "end"] \in Run BY <1>0 DEF Run, Pcs, LivePcs
  <2>2. DbOK /\ faults \in Nat /\ run.silence \in Nat BY <1>0 DEF TypeOK, DbOK, Run
  <2>3. {} \in EventSet /\ {run.seq} \in SUBSET Nat BY <1>0 DEF EventSet
  <2>4. CASE /\ Touch(run.seq, run.silence, {}, {run.seq}) /\ run' = [run EXCEPT !.pc = "end"]
             /\ UNCHANGED <<faults, spawned, stream, job, creq, lost, crashes, historyFaults>>
    <3>1. DbOK' BY <1>0, <2>2, <2>3, <2>4, TouchType
    <3> QED BY <3>1, <2>1, <2>4, CommitType
  <2>5. CASE /\ faults' \in Nat /\ run' = Raised(run)
             /\ UNCHANGED <<db, spawned, stream, job, creq, lost, crashes, historyFaults>>
    BY <1>0, <2>5, AbortType
  <2> QED BY <1>17, <2>2, <2>4, <2>5 DEF ExecSave, Attempt
<1>18. ASSUME ExecEnd PROVE TInv'
  <2> DEFINE o  == Outcome(run.goal)
             m  == [Advanced(o.events) EXCEPT !.state = o.state, !.owed = run.owed + 1]
             ms == {run.seq + i : i \in o.msgs}
             evs == {Ev(run.seq + i, IF i = o.events THEN o.status ELSE "info") : i \in 1..o.events}
             rec == [status |-> o.status, state |-> o.state, seq |-> m.seq,
                     category |-> ErrorCategory(run.goal)]
             next == IF run.rescue THEN DoneRun
                     ELSE [m EXCEPT !.pc = "history", !.owed = 0, !.silence = 0]
  <2>0. run.owed + 1 \in Nat BY <1>0 DEF Run
  <2>1. /\ o.events \in {1, 2} /\ o.status \in {"completed", "failed"}
        /\ o.state \in SessionState /\ o.msgs \in SUBSET Nat
    BY DEF Outcome, SessionState
  <2> HIDE DEF o
  <2>a. Advanced(o.events) \in Run BY <1>0, <2>1, AdvancedType
  <2>b. o.status \in EventName /\ "info" \in EventName
    BY <2>1 DEF EventName, TERMINAL_NAMES, TERMINAL_STATUSES
  <2>2. m \in Run BY <2>0, <2>1, <2>a DEF Run
  <2>3. ms \in SUBSET Nat BY <1>0, <2>1
  <2>4. evs \in EventSet
    <3>1. CASE o.events = 1
      <4>1. 1..1 = {1} OBVIOUS
      <4>2. evs = {Ev(run.seq + 1, o.status)} BY <3>1, <4>1, Zenon
      <4>3. run.seq + 1 \in Nat /\ run.seq + 2 \in Nat BY <1>0
      <4> HIDE DEF evs
      <4> QED BY <4>2, <4>3, <2>b, OneEventSet
    <3>2. CASE o.events = 2
      <4>1. 1..2 = {1, 2} /\ 1 # 2 OBVIOUS
      <4>2. evs = {Ev(run.seq + 1, "info"), Ev(run.seq + 2, o.status)} BY <3>2, <4>1, Zenon
      <4>3. run.seq + 1 \in Nat /\ run.seq + 2 \in Nat BY <1>0
      <4> HIDE DEF evs
      <4> QED BY <4>2, <4>3, <2>b, TwoEventSet
    <3> QED BY <2>1, <3>1, <3>2
  <2>5. rec \in Row
    <3>1. ErrorCategory(run.goal) \in Category BY DEF ErrorCategory, Category
    <3>2. m.seq \in Nat BY <2>2 DEF Run
    <3> HIDE DEF m
    <3> QED BY <2>1, <3>1, <3>2 DEF Row, InteractionStatus
  <2>6. next \in Run
    <3> HIDE DEF m
    <3>1. [m EXCEPT !.pc = "history", !.owed = 0, !.silence = 0] \in Run
      BY <2>2 DEF Run, Pcs, LivePcs
    <3> QED BY <3>1, NoRunType
  <2>7. DbOK /\ faults \in Nat /\ m.owed \in Nat BY <2>2 DEF TypeOK, DbOK, Run
  <2>8. Attempt(Upsert(rec, evs, ms, m.owed), ms, m, next) BY <1>18 DEF ExecEnd, o
  <2> HIDE DEF m, ms, evs, rec, next
  <2>9. CASE /\ Upsert(rec, evs, ms, m.owed) /\ run' = next
             /\ UNCHANGED <<faults, spawned, stream, job, creq, lost, crashes, historyFaults>>
    <3>1. DbOK' BY <2>3, <2>4, <2>5, <2>7, <2>9, UpsertType
    <3> QED BY <3>1, <2>6, <2>9, CommitType
  <2>10. CASE /\ faults' \in Nat /\ run' = Raised(m)
              /\ UNCHANGED <<db, spawned, stream, job, creq, lost, crashes, historyFaults>>
    BY <2>2, <2>10, AbortType
  <2> QED BY <2>7, <2>8, <2>9, <2>10 DEF Attempt
<1>19. ASSUME ExecStopped PROVE TInv'
  BY <1>19, NoRunType, LocalType DEF ExecStopped
<1>20. ASSUME ExecHistory PROVE TInv'
  <2>1. CASE Local(DoneRun) BY <2>1, NoRunType, LocalType
  <2>2. CASE /\ historyFaults' = historyFaults + 1 /\ run' = Raised(run)
             /\ UNCHANGED <<db, spawned, stream, job, creq, lost, crashes, faults>>
    BY <1>0, <2>2, RaisedType DEF TypeOK, db
  <2> QED BY <1>20, <2>1, <2>2 DEF ExecHistory
<1>21. ASSUME ExecException PROVE TInv'
  BY <1>0, <1>21, RaisedType DEF ExecException, TypeOK, db
<1> QED
  BY <1>1, <1>2, <1>3, <1>4, <1>5, <1>6, <1>7, <1>8, <1>9, <1>10, <1>11, <1>12, <1>13, <1>14,
     <1>15, <1>16, <1>17, <1>18, <1>19, <1>20, <1>21 DEF ExecStep

\* Reserving a terminal event, and the two outcomes of writing it.
JobsOK == job \in [Reapers -> Job \cup {NoJob}]

\* A sweep's compare-and-set hands over a well-formed record.
LEMMA ReserveType ==
  ASSUME DbOK, JobsOK, NEW r \in Reapers, NEW cat \in {"abandoned", "executor_lost"}, NEW m \in Nat,
         Reserve(r, cat, m)
  PROVE  DbOK' /\ JobsOK'
<1>1. row.seq \in Nat BY DEF DbOK, Row
<1>2. row' \in Row BY <1>1 DEF Reserve, Failed, Row, InteractionStatus, SessionState, Category
<1>3. [seq |-> row.seq + 1, msg |-> m, category |-> cat] \in Job BY <1>1 DEF Job
<1> QED BY <1>2, <1>3 DEF Reserve, DbOK, JobsOK

\* `_persist_reaped_terminal`, committed or aborted, keeps the types.
LEMMA PersistType ==
  ASSUME DbOK, JobsOK, NEW r \in Reapers, job[r] # NoJob, faults \in Nat, lost \in Nat,
         PersistWrite(r) \/ PersistFails(r)
  PROVE  DbOK' /\ JobsOK' /\ faults' \in Nat /\ lost' \in Nat
<1>1. /\ job[r].seq \in Nat /\ job[r].msg \in Nat
      /\ job[r].category \in {"abandoned", "executor_lost"}
  BY DEF JobsOK, Job
<1>2. Failed(job[r].seq, job[r].category) \in Row
  BY <1>1 DEF Failed, Row, InteractionStatus, SessionState, Category
<1>3. {Ev(job[r].seq, "failed")} \in EventSet
  BY <1>1, OneEventSet DEF EventName, TERMINAL_NAMES, TERMINAL_STATUSES
<1>4. JobsOK' BY DEF PersistWrite, PersistFails, JobsOK
<1>5. CASE PersistWrite(r)
  <2>1. DbOK' BY <1>1, <1>2, <1>3, <1>5, UpsertType DEF PersistWrite
  <2> QED BY <1>4, <1>5, <2>1 DEF PersistWrite
<1>6. CASE PersistFails(r)
  BY <1>4, <1>6 DEF PersistFails, DbOK, db
<1> QED BY <1>5, <1>6

\* Crashes, the deadline, the sweeps and the executor's last resort keep the types.
LEMMA RecoveryType ==
  ASSUME TInv, ExecDies \/ DeadlinePasses \/ NetReap \/ NetPersist
               \/ \E s \in Sweepers : SweepStep(s) \/ SweeperDies(s)
  PROVE  TInv'
<1>0. DbOK /\ JobsOK /\ run \in Run /\ faults \in Nat /\ lost \in Nat /\ row.seq \in Nat
  BY DEF TInv, TypeOK, DbOK, JobsOK, Row
<1>1. ASSUME ExecDies PROVE TInv'
  <2>0. lost' = lost \/ lost' = lost + 1 BY <1>1 DEF ExecDies
  <2>a. JobsOK' BY <1>0, <1>1 DEF ExecDies, JobsOK
  <2>1. JobsOK' /\ lost' \in Nat BY <1>0, <2>0, <2>a
  <2>2. run' \in Run /\ crashes' \in Nat BY <1>1, NoRunType DEF ExecDies, TInv, TypeOK
  <2> QED BY <1>1, <2>1, <2>2 DEF ExecDies, TInv, TypeOK, JobsOK, db
<1>2. ASSUME DeadlinePasses PROVE TInv'
  <2>1. [run EXCEPT !.overdue = TRUE] \in Run BY <1>0 DEF Run
  <2> QED BY <1>2, <2>1, LocalType DEF DeadlinePasses
<1>3. ASSUME NetReap PROVE TInv'
  <2>1. DbOK' /\ JobsOK'
    <3>1. CASE Reserve(Executor, "executor_lost", row.seq + 1)
      BY <1>0, <3>1, ReserveType DEF Reapers
    <3>2. CASE UNCHANGED <<db, job>> BY <1>0, <3>2 DEF DbOK, JobsOK, db
    <3> QED BY <1>3, <3>1, <3>2 DEF NetReap
  <2>2. run' \in Run BY <1>0, <1>3, NoRunType DEF NetReap
  <2> QED BY <1>3, <2>1, <2>2 DEF NetReap, TInv, TypeOK, DbOK, JobsOK, env, EventSet
<1>4. ASSUME NetPersist PROVE TInv'
  <2>1. DbOK' /\ JobsOK' /\ faults' \in Nat /\ lost' \in Nat
    BY <1>0, <1>4, PersistType DEF NetPersist, Reapers
  <2> QED BY <1>4, <2>1, NoRunType DEF NetPersist, TInv, TypeOK, DbOK, JobsOK, EventSet
<1>5. ASSUME NEW s \in Sweepers, SweepStep(s) \/ SweeperDies(s) PROVE TInv'
  <2>0. s \in Reapers /\ row.seq + 1 \in Nat /\ row.seq + 2 \in Nat BY <1>0 DEF Reapers
  <2>1. ASSUME SweepStale(s) \/ SweepAbandoned(s) PROVE TInv'
    <3>1. DbOK' /\ JobsOK' BY <1>0, <2>0, <2>1, ReserveType DEF SweepStale, SweepAbandoned
    <3>2. UNCHANGED <<exec, stream, creq, lost, env>> BY <2>1 DEF SweepStale, SweepAbandoned
    <3> QED BY <3>1, <3>2 DEF TInv, TypeOK, DbOK, JobsOK, exec, env, EventSet
  <2>2. ASSUME SweepPersist(s) PROVE TInv'
    <3>1. DbOK' /\ JobsOK' /\ faults' \in Nat /\ lost' \in Nat
      BY <1>0, <2>0, <2>2, PersistType DEF SweepPersist
    <3> QED BY <2>2, <3>1 DEF SweepPersist, TInv, TypeOK, DbOK, JobsOK, exec, EventSet
  <2>3. ASSUME SweeperDies(s) PROVE TInv'
    BY <2>0, <2>3 DEF SweeperDies, TInv, TypeOK, db, exec
  <2> QED BY <1>5, <2>1, <2>2, <2>3 DEF SweepStep
<1> QED BY <1>1, <1>2, <1>3, <1>4, <1>5

\* What a stream delivers moves its cursor to a sequence that exists.
LEMMA LastOfType ==
  ASSUME TInv, NEW evs \in SUBSET events, NEW cursor \in Nat
  PROVE  LastOf(evs, cursor) \in Nat
<1> DEFINE S == SeqsOf(evs) \cup {cursor}
<1>1. PICK b \in Nat : \A e \in events : e.seq <= b BY DEF TInv, EventSet
<1>2. S \in SUBSET Nat /\ S # {} BY DEF SeqsOf, TInv, TypeOK, Event
<1>3. \A x \in S : x <= b + cursor BY <1>1 DEF SeqsOf, TInv, TypeOK, Event
<1>4. b + cursor \in Nat OBVIOUS
<1> HIDE DEF S
<1>5. \E x \in S : \A y \in S : y <= x BY <1>2, <1>3, <1>4, NatMax
<1>6. LastOf(evs, cursor) \in S BY <1>5 DEF LastOf, S
<1> QED BY <1>2, <1>6

\* The first terminal event of a non-empty delivery has a sequence.
LEMMA FirstOfType ==
  ASSUME TInv, NEW evs \in SUBSET events, evs # {}
  PROVE  FirstOf(evs) \in Nat
<1> DEFINE S == SeqsOf(evs)
<1>1. S \in SUBSET Nat /\ S # {} BY DEF SeqsOf, TInv, TypeOK, Event
<1> HIDE DEF S
<1>2. \E x \in S : \A y \in S : x <= y BY <1>1, NatMin
<1>3. FirstOf(evs) \in S BY <1>2 DEF FirstOf, S
<1> QED BY <1>1, <1>3

\* A stream that moves stays a well-formed stream.
LEMMA MoveType ==
  ASSUME TypeOK, NEW c \in Conns, NEW pc \in StreamPcs, NEW cursor \in Nat, Move(c, pc, cursor)
  PROVE  stream' \in [Conns -> Stream]
<1>1. Position(pc, cursor, stream[c].phantoms) \in Stream BY DEF TypeOK, Stream, Position
<1> QED BY <1>1 DEF TypeOK, Move

\* A read-only step of a stream keeps the types.
LEMMA ReadsType ==
  ASSUME TInv, NEW c \in Conns, NEW pc \in StreamPcs, NEW cursor \in Nat, Reads(c, pc, cursor)
  PROVE  TInv'
<1>1. stream' \in [Conns -> Stream] BY MoveType DEF Reads, TInv
<1> QED BY <1>1 DEF Reads, ReadOnly, TInv, TypeOK, db, exec, env

\* So does one that renumbers what the client has received.
LEMMA RenumberType ==
  ASSUME TInv, NEW c \in Conns, NEW s \in Stream, stream' = [stream EXCEPT ![c] = s], ReadOnly
  PROVE  TInv'
<1>1. stream' \in [Conns -> Stream] BY DEF TInv, TypeOK
<1> QED BY <1>1 DEF ReadOnly, TInv, TypeOK, db, exec, env

\* Every step of an SSE stream keeps the types.
LEMMA StreamType ==
  ASSUME TInv, NEW c \in Conns,
         stream[c].pc = "healing" => job[c] # NoJob,
         StreamStep(c) \/ Connect(c) \/ FollowTimeout(c) \/ Disconnect(c)
  PROVE  TInv'
<1>0. /\ DbOK /\ JobsOK /\ faults \in Nat /\ lost \in Nat /\ row.seq \in Nat /\ run \in Run
      /\ c \in Reapers /\ stream[c] \in Stream /\ stream[c].cursor \in Nat
  BY DEF TInv, TypeOK, DbOK, JobsOK, Row, Reapers, Stream
<1>a. LastOf(After(c), stream[c].cursor) \in Nat BY <1>0, LastOfType DEF After
<1>1. ASSUME Replay(c) PROVE TInv' BY <1>1, <1>a, ReadsType DEF Replay, StreamPcs
<1>2. ASSUME CheckStatus(c) PROVE TInv' BY <1>0, <1>2, ReadsType DEF CheckStatus, StreamPcs
<1>3. ASSUME ReplayTail(c) PROVE TInv' BY <1>3, <1>a, ReadsType DEF ReplayTail, StreamPcs
<1>4. ASSUME ClaimRun(c) PROVE TInv'
  <2>1. stream' \in [Conns -> Stream]
    BY <1>0, <1>4, MoveType DEF ClaimRun, StreamPcs, TInv
  <2>2. row' \in Row /\ age' \in Nat
    BY <1>0, <1>4 DEF ClaimRun, DbOK, Row, InteractionStatus
  <2>3. [NoRun EXCEPT !.state = row.state, !.seq = row.seq] \in Run
    BY <1>0, NoRunType DEF DbOK, Row, Run
  <2>4. run' \in Run BY <1>0, <1>4, <2>3 DEF ClaimRun
  <2> QED BY <1>4, <2>1, <2>2, <2>4 DEF ClaimRun, TInv, TypeOK, env
<1>5. ASSUME SpawnExecutor(c) PROVE TInv'
  <2>1. stream' \in [Conns -> Stream]
    BY <1>0, <1>5, MoveType DEF SpawnExecutor, StreamPcs, TInv
  <2>2. run' \in Run BY <1>0, <1>5 DEF SpawnExecutor, Run, Pcs, LivePcs
  <2> QED BY <1>5, <2>1, <2>2 DEF SpawnExecutor, TInv, TypeOK, db, env
<1>6. ASSUME Follow(c) PROVE TInv'
  <2>1. CASE TerminalAfter(c) = {} BY <1>6, <1>a, <2>1, ReadsType DEF Follow, StreamPcs
  <2>2. CASE TerminalAfter(c) # {}
    <3>1. FirstOf(TerminalAfter(c)) \in Nat BY <2>2, FirstOfType DEF TerminalAfter, After
    <3> QED BY <1>6, <2>2, <3>1, ReadsType DEF Follow, StreamPcs
  <2> QED BY <2>1, <2>2
<1>7. ASSUME Heal(c) PROVE TInv'
  <2>1. stream' \in [Conns -> Stream]
    BY <1>0, <1>7, MoveType DEF Heal, StreamPcs, TInv
  <2>2. DbOK' /\ JobsOK'
    <3>1. CASE Reserve(c, "executor_lost", row.seq + 1) BY <1>0, <3>1, ReserveType
    <3>2. CASE UNCHANGED <<db, job>> BY <1>0, <3>2 DEF DbOK, JobsOK, db
    <3> QED BY <1>7, <3>1, <3>2 DEF Heal
  <2> QED BY <1>7, <2>1, <2>2 DEF Heal, TInv, TypeOK, DbOK, JobsOK, exec, env, EventSet
<1>8. ASSUME HealPersist(c) PROVE TInv'
  <2>0. job[c].seq \in Nat BY <1>0, <1>8 DEF HealPersist, JobsOK, Job
  <2>1. stream' \in [Conns -> Stream]
    BY <1>0, <1>8, <2>0, MoveType DEF HealPersist, StreamPcs, TInv
  <2>2. DbOK' /\ JobsOK' /\ faults' \in Nat /\ lost' \in Nat
    BY <1>0, <1>8, PersistType DEF HealPersist
  <2> QED BY <1>8, <2>1, <2>2 DEF HealPersist, TInv, TypeOK, DbOK, JobsOK, exec, EventSet
<1>9. ASSUME Connect(c) PROVE TInv'
  <2>1. Position("replay", 0, {}) \in Stream BY DEF Position, Stream, StreamPcs
  <2>2. CASE Move(c, "replay", stream[c].cursor)
    BY <1>0, <1>9, <2>2, ReadsType DEF Connect, Reads, StreamPcs
  <2> QED BY <1>9, <2>1, <2>2, RenumberType DEF Connect
<1>10. ASSUME FollowTimeout(c) PROVE TInv'
  <2> DEFINE id == stream[c].cursor + 1
             s == Position("ended", id, stream[c].phantoms \cup {id})
  <2>1. s \in Stream BY <1>0 DEF Position, Stream, StreamPcs
  <2>2. stream' = [stream EXCEPT ![c] = s] /\ ReadOnly BY <1>10 DEF FollowTimeout
  <2> HIDE DEF s
  <2> QED BY <2>1, <2>2, RenumberType
<1>11. ASSUME Disconnect(c) PROVE TInv'
  <2>1. stream' \in [Conns -> Stream]
    BY <1>0, <1>11, MoveType DEF Disconnect, StreamPcs, TInv
  <2>2. JobsOK' /\ lost' \in Nat BY <1>0, <1>11 DEF Disconnect, JobsOK
  <2> QED BY <1>11, <2>1, <2>2 DEF Disconnect, TInv, TypeOK, JobsOK, db, exec, env
<1> QED BY <1>1, <1>2, <1>3, <1>4, <1>5, <1>6, <1>7, <1>8, <1>9, <1>10, <1>11 DEF StreamStep

\* Every step of a cancel call keeps the types.
LEMMA CancelType ==
  ASSUME TInv, NEW k \in Cancels, CancelRead(k) \/ CancelStep(k)
  PROVE  TInv'
<1>0. DbOK /\ faults \in Nat /\ run \in Run /\ row.seq \in Nat /\ creq[k].seq + 1 \in Nat
      /\ creq[k].seq + 1 + 1 \in Nat /\ creq \in [Cancels -> [phase : CancelPhase, seq : Nat]]
  BY DEF TInv, TypeOK, DbOK, Row
<1>1. ASSUME CancelRead(k) PROVE TInv'
  BY <1>0, <1>1 DEF CancelRead, CancelPhase, TInv, TypeOK, db, exec, env
<1>2. ASSUME CancelCommit(k) PROVE TInv'
  <2> DEFINE s == creq[k].seq + 1
             rec == [status |-> "cancelled", state |-> "cancelled", seq |-> s, category |-> "cancelled"]
  <2>1. rec \in Row BY <1>0 DEF Row, InteractionStatus, SessionState, Category
  <2>2. {Ev(s, "cancelled")} \in EventSet
    BY <1>0, OneEventSet DEF EventName, TERMINAL_NAMES, TERMINAL_STATUSES
  <2>3. {s + 1} \in SUBSET Nat BY <1>0
  <2>4. creq' \in [Cancels -> [phase : CancelPhase, seq : Nat]]
    BY <1>0, <1>2 DEF CancelCommit, CancelPhase
  <2>5. faults' \in Nat BY <1>0, <1>2 DEF CancelCommit
  <2>6. Upsert(rec, {Ev(s, "cancelled")}, {s + 1}, 1) \/ UNCHANGED db
    BY <1>2 DEF CancelCommit
  <2> HIDE DEF s, rec
  <2>7. DbOK' BY <1>0, <2>1, <2>2, <2>3, <2>6, UpsertType DEF DbOK, db
  <2> QED BY <1>2, <2>4, <2>5, <2>7 DEF CancelCommit, TInv, TypeOK, DbOK, exec, EventSet
<1>3. ASSUME CancelSignal(k) PROVE TInv'
  <2>1. run' \in Run BY <1>0, <1>3 DEF CancelSignal, Run
  <2> QED BY <1>0, <1>3, <2>1 DEF CancelSignal, CancelPhase, TInv, TypeOK, db, env
<1> QED BY <1>1, <1>2, <1>3 DEF CancelStep

\* The passing of time keeps the types.
LEMMA TickType == ASSUME TInv, Tick PROVE TInv'
<1>1. run \in Run /\ age \in Nat BY DEF TInv, TypeOK
<1>2. run' \in Run BY <1>1 DEF Tick, Run
<1> QED BY <1>1, <1>2 DEF Tick, TInv, TypeOK, env

\* A healing stream holds the record it reserved: no other actor takes it away.
HealingOK == \A c \in Conns : stream[c].pc = "healing" => job[c] # NoJob

\* Steps that leave the streams and their jobs alone.
StreamsAlone == stream' = stream /\ \A c \in Conns : job'[c] = job[c]

\* The executor touches neither a stream nor a reaper's record.
LEMMA ExecAlone == ASSUME ExecStep \/ DeadlinePasses PROVE stream' = stream /\ job' = job
  BY DEF ExecStep, DeadlinePasses, ExecEntry, ExecStarted, ExecStopPoint, ExecOpen, ExecNarrate,
         ExecBudgetStop, ExecParsed, ExecAuthorized, ExecPhases, ExecFetched, ExecAnalyze, ExecEmit,
         ExecJudged, ExecCompose, ExecSummarized, ExecClose, ExecSave, ExecEnd, ExecStopped,
         ExecHistory, ExecException, Local, StageEvent, PhaseCommit, Attempt

\* Sweeps, cancels and time move no stream and no record of a connection.
LEMMA OthersAlone ==
  ASSUME TypeOK, ActorAssumption,
         \/ ExecDies \/ NetReap \/ NetPersist \/ Tick
         \/ \E s \in Sweepers : SweepStep(s) \/ SweeperDies(s)
         \/ \E k \in Cancels : CancelRead(k) \/ CancelStep(k)
  PROVE  StreamsAlone
<1>0. job \in [Reapers -> Job \cup {NoJob}] BY DEF TypeOK
<1>1. ASSUME ExecDies \/ NetReap \/ NetPersist PROVE StreamsAlone
  BY <1>0, <1>1, ActorAssumption DEF StreamsAlone, ExecDies, NetReap, NetPersist, Reserve,
     PersistWrite, PersistFails, Reapers
<1>2. ASSUME NEW s \in Sweepers, SweepStep(s) \/ SweeperDies(s) PROVE StreamsAlone
  BY <1>0, <1>2, ActorAssumption DEF StreamsAlone, SweepStep, SweepStale, SweepAbandoned,
     SweepPersist, SweeperDies, Reserve, PersistWrite, PersistFails, Reapers
<1>3. ASSUME Tick \/ \E k \in Cancels : CancelRead(k) \/ CancelStep(k) PROVE StreamsAlone
  BY <1>3 DEF StreamsAlone, Tick, CancelRead, CancelStep, CancelCommit, CancelSignal
<1> QED BY <1>1, <1>2, <1>3

\* A stream is healing exactly while it holds a reaped record.
LEMMA StreamHealing ==
  ASSUME TypeOK, HealingOK, NEW c \in Conns,
         StreamStep(c) \/ Connect(c) \/ FollowTimeout(c) \/ Disconnect(c)
  PROVE  HealingOK'
<1>0. /\ stream \in [Conns -> Stream]
      /\ job \in [Reapers -> Job \cup {NoJob}] /\ c \in Reapers
      /\ Job \cap {NoJob} = {}
  BY DEF TypeOK, Reapers, Job, NoJob
<1>1. ASSUME Heal(c) PROVE HealingOK'
  <2>1. CASE Reserve(c, "executor_lost", row.seq + 1) /\ Move(c, "healing", stream[c].cursor)
    BY <1>0, <2>1 DEF HealingOK, Reserve, Move, Position, NoJob, Reapers
  <2>2. CASE Move(c, "follow", stream[c].cursor) /\ UNCHANGED job
    BY <1>0, <2>2 DEF HealingOK, Move, Position
  <2> QED BY <1>1, <2>1, <2>2 DEF Heal
<1>a. ASSUME NEW s, s.pc # "healing", stream' = [stream EXCEPT ![c] = s],
             job' = job \/ job' = [job EXCEPT ![c] = NoJob]
      PROVE  HealingOK'
  BY <1>0, <1>a DEF HealingOK, Reapers
<1>2. ASSUME NEW pc \in StreamPcs \ {"healing"}, NEW cursor, Move(c, pc, cursor),
             job' = job \/ job' = [job EXCEPT ![c] = NoJob]
      PROVE  HealingOK'
  BY <1>2, <1>a DEF Move, Position
<1>3. ASSUME HealPersist(c) PROVE HealingOK'
  BY <1>2, <1>3 DEF HealPersist, PersistWrite, PersistFails, StreamPcs
<1>4. ASSUME Disconnect(c) PROVE HealingOK' BY <1>2, <1>4 DEF Disconnect, StreamPcs
<1>5. ASSUME ClaimRun(c) \/ SpawnExecutor(c) PROVE HealingOK'
  BY <1>2, <1>5 DEF ClaimRun, SpawnExecutor, StreamPcs
<1>6. ASSUME Replay(c) \/ CheckStatus(c) \/ ReplayTail(c) \/ Follow(c) PROVE HealingOK'
  BY <1>2, <1>6 DEF Replay, CheckStatus, ReplayTail, Follow, Reads, ReadOnly, StreamPcs
<1>7. ASSUME Connect(c) \/ FollowTimeout(c) PROVE HealingOK'
  BY <1>a, <1>2, <1>7 DEF Connect, FollowTimeout, ReadOnly, Position, StreamPcs
<1> QED BY <1>1, <1>3, <1>4, <1>5, <1>6, <1>7 DEF StreamStep

TypeInv == TInv /\ HealingOK

\* The initial states satisfy the inductive type invariant.
LEMMA TypeInit == Init => TypeInv
<1> SUFFICES ASSUME Init PROVE TypeInv OBVIOUS
<1>1. row \in Row BY DEF Init, Row, InteractionStatus, SessionState, Category
<1>2. events \in EventSet BY DEF Init, EventSet
<1>3. stream \in [Conns -> Stream] BY DEF Init, Stream, StreamPcs, Position
<1>4. creq \in [Cancels -> [phase : CancelPhase, seq : Nat]] BY DEF Init, CancelPhase
<1>5. HealingOK BY DEF Init, HealingOK, Position
<1> QED BY <1>1, <1>2, <1>3, <1>4, <1>5, NoRunType DEF Init, TypeInv, TInv, TypeOK, EventSet

\* Every step preserves the inductive type invariant.
LEMMA TypeNext == TypeInv /\ [Next]_vars => TypeInv'
<1> SUFFICES ASSUME TypeInv, [Next]_vars PROVE TypeInv' OBVIOUS
<1> USE BoundAssumption, ActorAssumption DEF TypeInv
<1>1. TypeOK BY DEF TInv
<1>2. CASE ExecStep \/ DeadlinePasses
  BY <1>2, ExecStepType, RecoveryType, ExecAlone DEF HealingOK
<1>3. CASE \/ ExecDies \/ NetReap \/ NetPersist
           \/ \E s \in Sweepers : SweepStep(s) \/ SweeperDies(s)
  <2>1. TInv' BY <1>3, RecoveryType
  <2>2. StreamsAlone BY <1>1, <1>3, OthersAlone
  <2> QED BY <2>1, <2>2 DEF StreamsAlone, HealingOK
<1>4. ASSUME NEW k \in Cancels, CancelRead(k) \/ CancelStep(k) PROVE TypeInv'
  <2>1. TInv' BY <1>4, CancelType
  <2>2. StreamsAlone BY <1>1, <1>4, OthersAlone
  <2> QED BY <2>1, <2>2 DEF StreamsAlone, HealingOK
<1>5. CASE Tick
  <2>1. TInv' BY <1>5, TickType
  <2>2. StreamsAlone BY <1>1, <1>5, OthersAlone
  <2> QED BY <2>1, <2>2 DEF StreamsAlone, HealingOK
<1>6. ASSUME NEW c \in Conns, StreamStep(c) \/ Connect(c) \/ FollowTimeout(c) \/ Disconnect(c)
      PROVE  TypeInv'
  <2>1. TInv' BY <1>6, StreamType DEF HealingOK
  <2> QED BY <1>1, <1>6, <2>1, StreamHealing
<1>7. CASE UNCHANGED vars
  BY <1>7 DEF vars, db, exec, env, TInv, TypeOK, HealingOK
<1> QED BY <1>2, <1>3, <1>4, <1>5, <1>6, <1>7 DEF Next

\* Every variable keeps its type, for any number of actors and any bounds.
THEOREM TypeCorrect == Spec => []TypeOK
<1>1. TypeInv => TypeOK BY DEF TypeInv, TInv
<1> QED BY <1>1, TypeInit, TypeNext, PTL DEF Spec

=============================================================================
