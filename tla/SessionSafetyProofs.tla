------------------------- MODULE SessionSafetyProofs -------------------------
(***************************************************************************)
(* The safety theorems of SessionService.  They rest on one inductive      *)
(* invariant with three named parts: who may still start the run, how old  *)
(* the row of a live run can be, and what an undisturbed row says; those   *)
(* about the event log on a second one, further down.                      *)
(***************************************************************************)
EXTENDS SessionServiceProofs

AbandonedSomewhere ==
  row.category = "abandoned" \/ \E r \in Reapers : job[r].category = "abandoned"

\* A pending row has never been claimed; a claimed run that is not spawned yet has
\* one claimer and no executor; an abandoned question has neither, and is pending no more.
ClaimInv ==
  /\ row.status = "pending" => run.pc = "none" /\ spawned = 0 /\ ~Claiming
  /\ \A c \in Conns : stream[c].pc = "history" => spawned = 0 /\ run.pc = "none"
  /\ \A c, d \in Conns : stream[c].pc = "history" /\ stream[d].pc = "history" => c = d
  /\ spawned <= 1
  /\ AbandonedSomewhere => row.status # "pending" /\ run.pc = "none" /\ ~Claiming

\* The row of a live or just claimed run is no older than the run has been silent.
TimeInv ==
  Live \/ Claiming => /\ run.silence <= MaxSilence
                      /\ row.status = "running" => age <= run.silence

\* Without a cancel and a failed history write, the row of a live run says running
\* until its terminal commit, and a reaper's record says what the row says.
UndisturbedInv ==
  Undisturbed =>
    /\ Live /\ run.pc # "history" => row.status = "running"
    /\ run.pc = "history" => Terminal
    /\ Claiming => row.status = "running"
    /\ \A r \in Reapers : job[r] # NoJob => row.status = "failed"

SafetyInv == TypeInv /\ ClaimInv /\ TimeInv /\ UndisturbedInv

-----------------------------------------------------------------------------
(* What a step of the executor can do to the row and to its own clock.     *)

\* Concluding a run does not touch the time since its last commit.
LEMMA ConcludeKeeps ==
  ASSUME NEW m \in Run, NEW g
  PROVE  Conclude(m, g).silence = m.silence /\ Conclude(m, g).pc \in {"close", "end"}
  BY DEF Conclude, CloseEntry, Run

\* An exception does not touch the time since the last commit.
LEMMA RaisedKeeps ==
  ASSUME NEW m \in Run
  PROVE  Raised(m).silence = m.silence /\ Raised(m).pc \in {"net", "close", "end"}
<1> DEFINE n == [m EXCEPT !.rescue = TRUE]
<1>1. n \in Run /\ n.silence = m.silence BY DEF Run
<1>2. Conclude(n, "lost").silence = n.silence /\ Conclude(n, "lost").pc \in {"close", "end"}
  BY <1>1, ConcludeKeeps
<1>3. [m EXCEPT !.pc = "net"].silence = m.silence /\ [m EXCEPT !.pc = "net"].pc = "net" BY DEF Run
<1> QED BY <1>1, <1>2, <1>3 DEF Raised

\* The row after a step: untouched, refreshed, or overwritten by the run's record.
RowKept == row' = row /\ age' = age
RowTouched == row'.status = row.status /\ row'.category = row.category /\ age' <= run'.silence
RowWritten == row'.status = "running" /\ row'.category = "none" /\ age' <= run'.silence
RowFinished == row'.status \in {"completed", "failed"} /\ row'.category # "abandoned" /\ age' = 0

ExecEffect ==
  /\ Live /\ spawned' = spawned
  /\ \/ RowKept /\ run'.silence = run.silence /\ (run.pc = "history" => historyFaults' # historyFaults)
        /\ run'.pc \in Pcs \ {"none", "history"}
     \/ RowKept /\ run'.pc = "done"
     \/ /\ RowTouched \/ RowWritten
        /\ run'.silence <= run.silence /\ run.pc # "history" /\ run'.pc \in Pcs \ {"none", "history"}
     \/ /\ RowFinished /\ run'.silence = 0
        /\ run.pc # "history" /\ run'.pc \in {"done", "history"}

\* A step of the executor's memory alone is one of its permitted effects.
LEMMA LocalEffect ==
  ASSUME TypeOK, Live, run.pc # "history", NEW m, Local(m),
         m = DoneRun \/ (m.silence = run.silence /\ m.pc \in Pcs \ {"none", "history"})
  PROVE  ExecEffect
  BY DEF Local, ExecEffect, RowKept, db, DoneRun, NoRun

\* An aborted transaction of the executor is one of its permitted effects.
LEMMA AbortEffect ==
  ASSUME TypeOK, Live, run.pc # "history", NEW m \in Run, m.silence = run.silence,
         run' = Raised(m), UNCHANGED <<db, spawned>>
  PROVE  ExecEffect
<1>1. run'.silence = run.silence /\ run'.pc \in {"net", "close", "end"} BY RaisedKeeps
<1> QED BY <1>1 DEF ExecEffect, RowKept, db, Pcs, LivePcs

\* A stage event is one of the permitted effects of the executor.
LEMMA StageEventEffect ==
  ASSUME TypeOK, Live, run.pc # "history", NEW m \in Run, m.silence = run.silence,
         NEW pc \in Pcs \ {"none", "history"}, StageEvent(m, pc)
  PROVE  ExecEffect
<1> DEFINE n == [m EXCEPT !.pc = pc, !.silence = 0]
<1>0. row \in Row /\ run.silence \in Nat BY DEF TypeOK, Run
<1>1. n.pc = pc /\ n.silence = 0 BY DEF Run
<1> HIDE DEF n
<1>2. CASE Touch(m.seq, 0, {Ev(m.seq, "info")}, {}) /\ run' = n /\ UNCHANGED spawned
  BY <1>0, <1>1, <1>2 DEF Touch, ExecEffect, RowTouched, Row
<1>3. CASE run' = Raised(m) /\ UNCHANGED <<db, spawned>> BY <1>3, AbortEffect
<1> QED BY <1>2, <1>3 DEF StageEvent, Attempt, n

\* A commit that moves the session state is one of the permitted effects.
LEMMA PhaseCommitEffect ==
  ASSUME TypeOK, Live, run.pc # "history", NEW m \in Run, m.silence = run.silence, NEW evs,
         NEW pc \in Pcs \ {"none", "history"}, PhaseCommit(m, evs, pc)
  PROVE  ExecEffect
<1> DEFINE n == [m EXCEPT !.pc = pc, !.silence = 0]
<1>0. run.silence \in Nat BY DEF TypeOK, Run
<1>1. n.pc = pc /\ n.silence = 0 BY DEF Run
<1> HIDE DEF n
<1>2. CASE Upsert(Running(m), evs, {}, 0) /\ run' = n /\ UNCHANGED spawned
  BY <1>0, <1>1, <1>2 DEF Upsert, Running, ExecEffect, RowWritten
<1>3. CASE run' = Raised(m) /\ UNCHANGED <<db, spawned>> BY <1>3, AbortEffect
<1> QED BY <1>2, <1>3 DEF PhaseCommit, Attempt, n

\* Allocating sequences does not touch the time since the last commit.
LEMMA AdvancedKeeps ==
  ASSUME run \in Run, NEW n \in Nat
  PROVE  Advanced(n) \in Run /\ Advanced(n).silence = run.silence
  BY AdvancedType DEF Advanced, Run

\* Whatever the executor does is one of its permitted effects on row, age and run.
LEMMA ExecStepEffect == ASSUME TypeOK, ExecStep PROVE ExecEffect
<1>0. run \in Run /\ run.silence \in Nat BY DEF TypeOK, Run
<1>a. Advanced(1) \in Run /\ Advanced(1).silence = run.silence BY <1>0, AdvancedKeeps
<1>b. \A m \in Run : \A g : /\ Conclude(m, g).silence = m.silence
                             /\ Conclude(m, g).pc \in Pcs \ {"none", "history"}
  BY ConcludeKeeps DEF Pcs, LivePcs
<1>c. \A m \in Run : \A g : /\ StopHere(m, g).silence = m.silence
                             /\ StopHere(m, g).pc \in Pcs \ {"none", "history"}
  BY <1>b DEF StopHere
<1> USE <1>0
<1>1. ASSUME ExecEntry PROVE ExecEffect
  <2>1. [run EXCEPT !.pc = "start"].silence = run.silence
        /\ [run EXCEPT !.pc = "start"].pc = "start" BY DEF Run
  <2> QED BY <1>1, <2>1, LocalEffect DEF ExecEntry, Live, Pcs, LivePcs
<1>2. ASSUME ExecStarted PROVE ExecEffect
  BY <1>2, <1>a, PhaseCommitEffect DEF ExecStarted, Live, Pcs, LivePcs, StopPcs
<1>3. ASSUME ExecStopPoint PROVE ExecEffect
  <2> DEFINE m == [run EXCEPT !.pc = AfterStop[run.pc]]
  <2>1. m.silence = run.silence /\ m.pc \in {"open", "facts", "compose", "judge"}
    BY <1>3 DEF ExecStopPoint, StopPcs, AfterStop, Run
  <2> QED BY <1>3, <1>c, <2>1, LocalEffect DEF ExecStopPoint, Live, Pcs, LivePcs, StopPcs, NarratePcs
<1>4. ASSUME ExecOpen PROVE ExecEffect
  <2> DEFINE m == [Advanced(1) EXCEPT !.transcript = "open"]
  <2>1. m \in Run /\ m.silence = run.silence BY <1>a DEF Run
  <2> HIDE DEF m
  <2> QED BY <1>4, <2>1, StageEventEffect DEF ExecOpen, Live, Pcs, LivePcs, NarratePcs, m
<1>5. ASSUME ExecNarrate PROVE ExecEffect
  <2> DEFINE m == [Advanced(1) EXCEPT !.transcript = "produced", !.narrated = run.narrated + 1]
  <2>0. run.narrated + 1 \in Nat BY DEF Run
  <2>1. m \in Run /\ m.silence = run.silence BY <1>a, <2>0 DEF Run
  <2>2. StageEvent(m, run.pc) /\ run.pc \in NarratePcs BY <1>5 DEF ExecNarrate
  <2> HIDE DEF m
  <2> QED BY <2>1, <2>2, StageEventEffect DEF Live, Pcs, LivePcs, NarratePcs
<1>6. ASSUME ExecBudgetStop PROVE ExecEffect
  <2> DEFINE m == [run EXCEPT !.rescue = TRUE]
  <2>1. m \in Run /\ m.silence = run.silence BY DEF Run
  <2> HIDE DEF m
  <2>2. PICK n : Local(n) /\ n.silence = run.silence /\ n.pc \in Pcs \ {"none", "history"}
    BY <1>6, <1>b, <1>c, <2>1 DEF ExecBudgetStop, m
  <2> QED BY <1>6, <2>2, LocalEffect DEF ExecBudgetStop, Live, LivePcs, NarratePcs
<1>7. ASSUME ExecParsed PROVE ExecEffect
  <2>1. Live /\ run.pc # "history" BY <1>7 DEF ExecParsed, Live, LivePcs, NarratePcs
  <2>2. ASSUME NEW g, Local(Conclude(run, g)) PROVE ExecEffect BY <2>1, <2>2, <1>b, LocalEffect
  <2>3. ASSUME NEW pc \in {"authorize", "plan"}, StageEvent(Advanced(1), pc) PROVE ExecEffect
    BY <2>1, <2>3, <1>a, StageEventEffect DEF Pcs, LivePcs, NarratePcs
  <2> QED BY <1>7, <2>2, <2>3 DEF ExecParsed
<1>d. ASSUME NEW p \in {"gate", "fetched", "compose", "analyzed", "end"}
      PROVE  /\ [run EXCEPT !.pc = p].silence = run.silence
             /\ [run EXCEPT !.pc = p].pc \in Pcs \ {"none", "history"}
  BY DEF Run, Pcs, LivePcs, StopPcs
<1>8. ASSUME ExecAuthorized PROVE ExecEffect
  <2>1. Live /\ run.pc # "history" BY <1>8 DEF ExecAuthorized, Live, LivePcs, NarratePcs
  <2>2. ASSUME NEW g, Local(Conclude(run, g)) PROVE ExecEffect BY <2>1, <2>2, <1>b, LocalEffect
  <2> QED BY <1>8, <1>d, <2>1, <2>2, LocalEffect DEF ExecAuthorized
<1>9. ASSUME ExecPhases PROVE ExecEffect
  <2> DEFINE m == [Advanced(2) EXCEPT !.state = "executing"]
  <2>0. Advanced(2) \in Run /\ Advanced(2).silence = run.silence BY AdvancedKeeps
  <2>1. m \in Run /\ m.silence = run.silence BY <2>0 DEF Run, SessionState
  <2>2. Live /\ run.pc # "history" BY <1>9 DEF ExecPhases, Live, LivePcs, NarratePcs
  <2>3. PICK pc \in {"fetch", "analyze"} :
          PhaseCommit(m, {Ev(run.seq + 1, "info"), Ev(run.seq + 2, "info")}, pc)
    BY <1>9 DEF ExecPhases
  <2> HIDE DEF m
  <2> QED BY <2>1, <2>2, <2>3, PhaseCommitEffect DEF Pcs, LivePcs, NarratePcs
<1>10. ASSUME ExecFetched PROVE ExecEffect
  <2>1. Live /\ run.pc # "history" BY <1>10 DEF ExecFetched, Live, LivePcs, NarratePcs
  <2>2. ASSUME NEW g, Local(Conclude(run, g)) PROVE ExecEffect BY <2>1, <2>2, <1>b, LocalEffect
  <2> QED BY <1>10, <1>d, <2>1, <2>2, LocalEffect DEF ExecFetched
<1>11. ASSUME ExecAnalyze PROVE ExecEffect
  <2> DEFINE m == [run EXCEPT !.pc = "emit", !.narrated = run.narrated + 1]
  <2>1. m.silence = run.silence /\ m.pc = "emit" BY DEF Run
  <2>2. Live /\ run.pc # "history" BY <1>11 DEF ExecAnalyze, Live, LivePcs
  <2> HIDE DEF m
  <2>3. CASE Local(m) BY <2>1, <2>2, <2>3, LocalEffect DEF Pcs, LivePcs
  <2>4. CASE Local([run EXCEPT !.pc = "analyzed"]) BY <1>d, <2>2, <2>4, LocalEffect
  <2> QED BY <1>11, <2>3, <2>4 DEF ExecAnalyze, m
<1>12. ASSUME ExecEmit PROVE ExecEffect
  BY <1>12, <1>a, StageEventEffect DEF ExecEmit, Live, Pcs, LivePcs
<1>13. ASSUME ExecJudged PROVE ExecEffect
  <2>1. Live /\ run.pc # "history" BY <1>13 DEF ExecJudged, Live, LivePcs
  <2>2. ASSUME NEW g, Local(Conclude(run, g)) PROVE ExecEffect BY <2>1, <2>2, <1>b, LocalEffect
  <2> QED BY <1>13, <1>d, <2>1, <2>2, LocalEffect DEF ExecJudged
<1>14. ASSUME ExecCompose PROVE ExecEffect
  <2> DEFINE m == [Advanced(1) EXCEPT !.state = "composing"]
  <2>1. m \in Run /\ m.silence = run.silence BY <1>a DEF Run, SessionState
  <2> HIDE DEF m
  <2>2. Live /\ run.pc # "history" BY <1>14 DEF ExecCompose, Live, LivePcs
  <2>3. PhaseCommit(m, {Ev(run.seq + 1, "info")}, "summarize") BY <1>14 DEF ExecCompose, m
  <2> QED BY <2>1, <2>2, <2>3, PhaseCommitEffect DEF Pcs, LivePcs, NarratePcs
<1>15. ASSUME ExecSummarized PROVE ExecEffect
  BY <1>15, <1>b, LocalEffect DEF ExecSummarized, Live, LivePcs, NarratePcs
<1>16. ASSUME ExecClose PROVE ExecEffect
  <2> DEFINE m == [Advanced(1) EXCEPT !.transcript = "closed"]
  <2>1. m \in Run /\ m.silence = run.silence BY <1>a DEF Run
  <2> HIDE DEF m
  <2> QED BY <1>16, <2>1, StageEventEffect DEF ExecClose, Live, Pcs, LivePcs, m
<1>17. ASSUME ExecSave PROVE ExecEffect
  <2>1. Live /\ run.pc # "history" BY <1>17 DEF ExecSave, Live, LivePcs
  <2>2. CASE /\ Touch(run.seq, run.silence, {}, {run.seq}) /\ run' = [run EXCEPT !.pc = "end"]
             /\ UNCHANGED spawned
    BY <1>d, <2>1, <2>2 DEF Touch, ExecEffect, RowTouched, TypeOK, Row
  <2>3. CASE run' = Raised(run) /\ UNCHANGED <<db, spawned>> BY <2>1, <2>3, AbortEffect
  <2> QED BY <1>17, <2>2, <2>3 DEF ExecSave, Attempt
<1>18. ASSUME ExecEnd PROVE ExecEffect
  <2> DEFINE o  == Outcome(run.goal)
             m  == [Advanced(o.events) EXCEPT !.state = o.state, !.owed = run.owed + 1]
             ms == {run.seq + i : i \in o.msgs}
             evs == {Ev(run.seq + i, IF i = o.events THEN o.status ELSE "info") : i \in 1..o.events}
             rec == [status |-> o.status, state |-> o.state, seq |-> m.seq,
                     category |-> ErrorCategory(run.goal)]
             done == [m EXCEPT !.pc = "history", !.owed = 0, !.silence = 0]
             next == IF run.rescue THEN DoneRun ELSE done
  <2>1. Attempt(Upsert(rec, evs, ms, m.owed), ms, m, next) BY <1>18 DEF ExecEnd
  <2>2. /\ o.events \in Nat /\ o.status \in {"completed", "failed"} /\ o.state \in SessionState
    BY DEF Outcome, SessionState
  <2> HIDE DEF o
  <2>3. Advanced(o.events) \in Run /\ Advanced(o.events).silence = run.silence /\ run.owed + 1 \in Nat
    <3>1. run.owed + 1 \in Nat BY DEF Run
    <3> QED BY <2>2, <3>1, AdvancedKeeps
  <2>4. m \in Run /\ m.silence = run.silence BY <2>2, <2>3 DEF Run
  <2> HIDE DEF m
  <2>5. done.pc = "history" /\ done.silence = 0 BY <2>4 DEF Run
  <2> HIDE DEF done
  <2>6. next.pc \in {"done", "history"} /\ next.silence = 0 BY <2>5 DEF DoneRun, NoRun
  <2>7. ErrorCategory(run.goal) # "abandoned" BY DEF ErrorCategory
  <2>8. rec.status \in {"completed", "failed"} /\ rec.category # "abandoned" BY <2>2, <2>7
  <2> HIDE DEF rec, next, ms, evs
  <2>9. Live /\ run.pc # "history" BY <1>18 DEF ExecEnd, Live, LivePcs
  <2>10. CASE Upsert(rec, evs, ms, m.owed) /\ run' = next /\ UNCHANGED spawned
    BY <2>6, <2>8, <2>9, <2>10 DEF Upsert, ExecEffect, RowFinished
  <2>11. CASE run' = Raised(m) /\ UNCHANGED <<db, spawned>> BY <2>4, <2>9, <2>11, AbortEffect
  <2> QED BY <2>1, <2>10, <2>11 DEF Attempt
<1>19. ASSUME ExecStopped PROVE ExecEffect
  BY <1>19, LocalEffect DEF ExecStopped, Live, LivePcs
<1>20. ASSUME ExecHistory PROVE ExecEffect
  <2>1. Live BY <1>20 DEF ExecHistory, Live, LivePcs
  <2>2. CASE Local(DoneRun)
    BY <2>1, <2>2 DEF Local, ExecEffect, RowKept, db, DoneRun, NoRun
  <2>3. CASE /\ historyFaults' = historyFaults + 1 /\ run' = Raised(run) /\ UNCHANGED <<db, spawned>>
    <3>1. run'.silence = run.silence /\ run'.pc \in {"net", "close", "end"} BY <2>3, RaisedKeeps
    <3>2. historyFaults' # historyFaults BY <2>3 DEF TypeOK
    <3> QED BY <2>1, <2>3, <3>1, <3>2 DEF ExecEffect, RowKept, db, Pcs, LivePcs
  <2> QED BY <1>20, <2>2, <2>3 DEF ExecHistory
<1>21. ASSUME ExecException PROVE ExecEffect
  BY <1>21, AbortEffect DEF ExecException, Live, LivePcs, StopPcs, NarratePcs
<1> QED
  BY <1>1, <1>2, <1>3, <1>4, <1>5, <1>6, <1>7, <1>8, <1>9, <1>10, <1>11, <1>12, <1>13, <1>14,
     <1>15, <1>16, <1>17, <1>18, <1>19, <1>20, <1>21 DEF ExecStep

-----------------------------------------------------------------------------
(* The inductive step, one lemma per group of actions.                     *)

\* An executor's step issues no cancel, and only counts failed history writes up.
LEMMA ExecEnv ==
  ASSUME ExecStep
  PROVE  creq' = creq /\ (historyFaults' = historyFaults \/ historyFaults' = historyFaults + 1)
  BY DEF ExecStep, ExecEntry, ExecStarted, ExecStopPoint, ExecOpen, ExecNarrate, ExecBudgetStop,
         ExecParsed, ExecAuthorized, ExecPhases, ExecFetched, ExecAnalyze, ExecEmit, ExecJudged,
         ExecCompose, ExecSummarized, ExecClose, ExecSave, ExecEnd, ExecStopped, ExecHistory,
         ExecException, Local, StageEvent, PhaseCommit, Attempt, env

\* The executor's steps preserve the three safety invariants.
LEMMA ExecPreserves ==
  ASSUME SafetyInv, TypeInv', ExecStep, TimeAssumption
  PROVE  ClaimInv' /\ TimeInv' /\ UndisturbedInv'
<1> USE DEF SafetyInv, TypeInv, TInv
<1>1. ExecEffect /\ stream' = stream /\ job' = job BY ExecStepEffect, ExecAlone
<1>2. run.silence \in Nat /\ run'.silence \in Nat /\ age \in Nat /\ age' \in Nat BY DEF TypeOK, Run
<1>3. run.pc # "none" BY <1>1 DEF ExecEffect, Live, LivePcs, StopPcs, NarratePcs
<1>4. run'.pc # "none" /\ spawned' = spawned BY <1>1 DEF ExecEffect
<1>5. row.status # "pending" /\ ~Claiming /\ ~AbandonedSomewhere BY <1>3 DEF ClaimInv, Claiming
<1>6. ~Claiming' BY <1>1, <1>5 DEF Claiming
<1>7. row'.status # "pending" /\ row'.category # "abandoned"
  BY <1>1, <1>5 DEF ExecEffect, RowKept, RowTouched, RowWritten, RowFinished, AbandonedSomewhere
<1>8. ~AbandonedSomewhere' BY <1>1, <1>5, <1>7 DEF AbandonedSomewhere
<1>9. ClaimInv' BY <1>1, <1>4, <1>6, <1>7, <1>8 DEF ClaimInv, Claiming
<1>10. TimeInv'
  <2>1. run.silence <= MaxSilence /\ (row.status = "running" => age <= run.silence)
    BY <1>1 DEF TimeInv, ExecEffect
  <2> SUFFICES ASSUME Live' PROVE run'.silence <= MaxSilence
                                  /\ (row'.status = "running" => age' <= run'.silence)
    BY <1>6 DEF TimeInv
  <2>2. run'.pc # "done" BY DEF Live, LivePcs, StopPcs, NarratePcs
  <2> QED BY <1>1, <1>2, <2>1, <2>2, TimeAssumption
          DEF ExecEffect, RowKept, RowTouched, RowWritten, RowFinished
<1>11. UndisturbedInv'
  <2> SUFFICES ASSUME Undisturbed'
               PROVE  /\ Live' /\ run'.pc # "history" => row'.status = "running"
                      /\ run'.pc = "history" => Terminal'
                      /\ \A r \in Reapers : job'[r] # NoJob => row'.status = "failed"
    BY <1>6 DEF UndisturbedInv
  <2>1. Undisturbed /\ historyFaults' = historyFaults
    BY ExecEnv DEF Undisturbed, NoCancel, TypeOK
  <2>2. CASE run.pc = "history"
    <3>1. RowKept /\ run'.pc = "done" BY <1>1, <2>1, <2>2 DEF ExecEffect
    <3> QED BY <1>1, <2>1, <3>1 DEF UndisturbedInv, RowKept, Live, LivePcs, StopPcs, NarratePcs
  <2>3. CASE run.pc # "history"
    <3>1. row.status = "running" BY <1>1, <2>1, <2>3 DEF UndisturbedInv, ExecEffect
    <3>2. \A r \in Reapers : job'[r] = NoJob BY <1>1, <2>1, <3>1 DEF UndisturbedInv
    <3>3. run'.pc # "history" /\ Live' => row'.status = "running"
      BY <1>1, <3>1 DEF ExecEffect, RowKept, RowTouched, RowWritten, Live, LivePcs, StopPcs, NarratePcs
    <3>4. run'.pc = "history" => Terminal'
      BY <1>1 DEF ExecEffect, RowFinished, Terminal, TERMINAL_STATUSES, Pcs
    <3> QED BY <3>2, <3>3, <3>4
  <2> QED BY <2>2, <2>3
<1> QED BY <1>9, <1>10, <1>11

\* What most steps of the other actors leave alone: the run goes on or is over, no
\* stream gains a claim, and no reaper gains a record.
RunQuiet == \/ run'.pc = run.pc /\ run'.silence = run.silence
            \/ run.pc # "none" /\ run'.pc = "done"
StreamQuiet == \A c \in Conns : stream'[c].pc = "history" => stream[c].pc = "history"
JobQuiet == \A r \in Reapers : job'[r] = job[r] \/ job'[r] = NoJob

\* A step that starts no run and moves no stream into a claim creates no live run.
LEMMA QuietFacts ==
  ASSUME RunQuiet, StreamQuiet
  PROVE  /\ run.pc = "none" => run'.pc = "none"
         /\ Claiming' => Claiming
         /\ Live' => Live /\ run'.pc = run.pc /\ run'.silence = run.silence
         /\ run'.pc = "history" => run.pc = "history"
  BY DEF RunQuiet, StreamQuiet, Claiming, Live, LivePcs, StopPcs, NarratePcs

\* A step that leaves the row, starts nothing and reaps nothing preserves the invariants.
LEMMA QuietPreserves ==
  ASSUME SafetyInv, row' = row, age' = age, spawned' = spawned,
         RunQuiet, StreamQuiet, JobQuiet, Undisturbed' => Undisturbed,
         run.pc = "none" => run'.silence = run.silence
  PROVE  ClaimInv' /\ TimeInv' /\ UndisturbedInv'
<1> USE DEF SafetyInv
<1>1. /\ run.pc = "none" => run'.pc = "none"
      /\ Claiming' => Claiming
      /\ Live' => Live /\ run'.pc = run.pc /\ run'.silence = run.silence
      /\ run'.pc = "history" => run.pc = "history"
  BY QuietFacts
<1>2. AbandonedSomewhere' => AbandonedSomewhere
  BY DEF AbandonedSomewhere, JobQuiet, NoJob
<1>3. ClaimInv'
  <2>1. /\ row'.status = "pending" => run'.pc = "none" /\ spawned' = 0 /\ ~Claiming'
        /\ spawned' <= 1
        /\ AbandonedSomewhere' => row'.status # "pending" /\ run'.pc = "none" /\ ~Claiming'
    BY <1>1, <1>2 DEF ClaimInv
  <2>2. /\ \A c \in Conns : stream'[c].pc = "history" => spawned' = 0 /\ run'.pc = "none"
        /\ \A c, d \in Conns : stream'[c].pc = "history" /\ stream'[d].pc = "history" => c = d
    BY <1>1 DEF ClaimInv, StreamQuiet
  <2> QED BY <2>1, <2>2 DEF ClaimInv
<1>4. TimeInv'
  <2>1. Claiming => run.pc = "none" BY DEF ClaimInv, Claiming
  <2> QED BY <1>1, <2>1 DEF TimeInv
<1>5. UndisturbedInv'
  <2> SUFFICES ASSUME Undisturbed'
               PROVE  /\ Live' /\ run'.pc # "history" => row'.status = "running"
                      /\ run'.pc = "history" => Terminal'
                      /\ Claiming' => row'.status = "running"
                      /\ \A r \in Reapers : job'[r] # NoJob => row'.status = "failed"
    BY DEF UndisturbedInv
  <2> QED BY <1>1 DEF UndisturbedInv, Terminal, JobQuiet
<1> QED BY <1>3, <1>4, <1>5

\* A stale row belongs to no live run: the executor would have refreshed it.
LEMMA StaleIsDead ==
  ASSUME TypeOK, TimeInv, TimeAssumption, Stale PROVE ~Live /\ ~Claiming
<1>1. age \in Nat /\ run.silence \in Nat BY DEF TypeOK, Run
<1> QED BY <1>1, TimeAssumption DEF TimeInv, Stale

\* The compare-and-set of a sweep, of a healing stream or of the last resort.
LEMMA ReservePreserves ==
  ASSUME SafetyInv, TimeAssumption, NEW r \in Reapers, NEW cat, NEW m, Reserve(r, cat, m),
         (cat = "executor_lost" /\ Stale) \/ (cat = "abandoned" /\ Abandoned),
         UNCHANGED run, UNCHANGED spawned, StreamQuiet
  PROVE  ClaimInv' /\ TimeInv' /\ UndisturbedInv'
<1> USE DEF SafetyInv, TypeInv, TInv
<1>1. ~Live /\ ~Claiming
  <2>1. CASE Stale BY <2>1, StaleIsDead
  <2>2. CASE Abandoned
    BY <2>2 DEF Abandoned, ClaimInv, Live, LivePcs, StopPcs, NarratePcs
  <2> QED BY <2>1, <2>2
<1>2. row'.status = "failed" /\ row'.category = cat BY DEF Reserve, Failed
<1>3. /\ job' = [job EXCEPT ![r] = [seq |-> row.seq + 1, msg |-> m, category |-> cat]]
      /\ job \in [Reapers -> Job \cup {NoJob}]
  BY DEF Reserve, TypeOK
<1>4. ~Live' /\ run'.pc # "history" /\ ~Claiming'
  BY <1>1 DEF Live, Claiming, LivePcs, StreamQuiet
<1>5. cat = "abandoned" => run.pc = "none" BY DEF Abandoned, ClaimInv
<1>6. AbandonedSomewhere' => AbandonedSomewhere \/ cat = "abandoned"
  BY <1>2, <1>3 DEF AbandonedSomewhere
<1>7. ClaimInv'
  <2>1. \A c \in Conns : stream'[c].pc # "history" BY <1>4 DEF Claiming
  <2>2. spawned' <= 1 BY DEF ClaimInv
  <2>3. AbandonedSomewhere' => run'.pc = "none" BY <1>5, <1>6 DEF ClaimInv
  <2> QED BY <1>2, <1>4, <2>1, <2>2, <2>3 DEF ClaimInv
<1>8. TimeInv' BY <1>4 DEF TimeInv
<1>9. UndisturbedInv' BY <1>2, <1>4 DEF UndisturbedInv
<1> QED BY <1>7, <1>8, <1>9

\* The transaction that writes the reserved terminal event.
LEMMA PersistWritePreserves ==
  ASSUME SafetyInv, NEW r \in Reapers, job[r] # NoJob, PersistWrite(r), UNCHANGED spawned,
         RunQuiet, StreamQuiet, Undisturbed' => Undisturbed,
         run.pc = "none" => run'.silence = run.silence
  PROVE  ClaimInv' /\ TimeInv' /\ UndisturbedInv'
<1> USE DEF SafetyInv, TypeInv, TInv
<1>0. /\ run.pc = "none" => run'.pc = "none"
      /\ Claiming' => Claiming
      /\ Live' => Live /\ run'.pc = run.pc /\ run'.silence = run.silence
      /\ run'.pc = "history" => run.pc = "history"
  BY QuietFacts
<1>1. row'.status = "failed" /\ row'.category = job[r].category
  BY DEF PersistWrite, Upsert, Failed
<1>2. JobQuiet BY DEF PersistWrite, JobQuiet, TypeOK
<1>3. AbandonedSomewhere' => AbandonedSomewhere
  BY <1>1, <1>2 DEF AbandonedSomewhere, JobQuiet, NoJob
<1>4. ClaimInv'
  <2>1. \A c, d \in Conns : stream'[c].pc = "history" /\ stream'[d].pc = "history" => c = d
    BY DEF ClaimInv, StreamQuiet
  <2>2. \A c \in Conns : stream'[c].pc = "history" => spawned' = 0 /\ run'.pc = "none"
    BY <1>0 DEF ClaimInv, StreamQuiet
  <2>3. spawned' <= 1 BY DEF ClaimInv
  <2>4. AbandonedSomewhere' => run'.pc = "none" /\ ~Claiming' BY <1>0, <1>3 DEF ClaimInv
  <2> QED BY <1>1, <2>1, <2>2, <2>3, <2>4 DEF ClaimInv
<1>5. TimeInv'
  <2>1. Claiming => run.pc = "none" BY DEF ClaimInv, Claiming
  <2> QED BY <1>0, <1>1, <2>1 DEF TimeInv
<1>6. UndisturbedInv'
  <2> SUFFICES ASSUME Undisturbed' PROVE UndisturbedInv' BY DEF UndisturbedInv
  <2>1. row.status = "failed" BY DEF UndisturbedInv
  <2>2. ~Claiming' /\ (Live' => run'.pc = "history") BY <1>0, <2>1 DEF UndisturbedInv
  <2>3. Terminal' BY <1>1 DEF Terminal, TERMINAL_STATUSES
  <2> QED BY <1>1, <2>2, <2>3 DEF UndisturbedInv
<1> QED BY <1>4, <1>5, <1>6

\* Crashes, the deadline, the sweeps and the executor's last resort preserve the invariants.
LEMMA RecoveryPreserves ==
  ASSUME SafetyInv, TimeAssumption,
         ExecDies \/ DeadlinePasses \/ NetReap \/ NetPersist
         \/ \E s \in Sweepers : SweepStep(s) \/ SweeperDies(s)
  PROVE  ClaimInv' /\ TimeInv' /\ UndisturbedInv'
<1> USE DEF SafetyInv, TypeInv, TInv
<1>0. job \in [Reapers -> Job \cup {NoJob}] /\ run \in Run /\ Executor \in Reapers
  BY DEF TypeOK, Reapers
<1>a. ASSUME UNCHANGED <<creq, historyFaults>> PROVE Undisturbed' => Undisturbed
  BY <1>a DEF Undisturbed, NoCancel
<1>b. ASSUME UNCHANGED stream PROVE StreamQuiet BY <1>b DEF StreamQuiet
<1>c. ASSUME run' = DoneRun, run.pc # "none" PROVE RunQuiet BY <1>c DEF RunQuiet, DoneRun, NoRun
<1>d. ASSUME UNCHANGED run PROVE RunQuiet BY <1>d DEF RunQuiet
<1>e. ASSUME NEW r \in Reapers, job' = [job EXCEPT ![r] = NoJob] PROVE JobQuiet
  BY <1>0, <1>e DEF JobQuiet
<1>1. ASSUME ExecDies PROVE ClaimInv' /\ TimeInv' /\ UndisturbedInv'
  <2>1. run.pc # "none" BY <1>1 DEF ExecDies, Live, LivePcs, StopPcs, NarratePcs
  <2>2. /\ RunQuiet /\ StreamQuiet /\ JobQuiet /\ (Undisturbed' => Undisturbed)
        /\ row' = row /\ age' = age /\ spawned' = spawned
    BY <1>0, <1>1, <1>a, <1>b, <1>c, <1>e, <2>1 DEF ExecDies, db
  <2> QED BY <2>1, <2>2, QuietPreserves
<1>2. ASSUME DeadlinePasses PROVE ClaimInv' /\ TimeInv' /\ UndisturbedInv'
  <2>1. run'.pc = run.pc /\ run'.silence = run.silence BY <1>0, <1>2 DEF DeadlinePasses, Local, Run
  <2>2. /\ RunQuiet /\ StreamQuiet /\ JobQuiet /\ (Undisturbed' => Undisturbed)
        /\ row' = row /\ age' = age /\ spawned' = spawned
    BY <1>2, <1>a, <1>b, <2>1 DEF DeadlinePasses, Local, db, env, RunQuiet, JobQuiet
  <2> QED BY <2>1, <2>2, QuietPreserves
<1>3. ASSUME NetReap PROVE ClaimInv' /\ TimeInv' /\ UndisturbedInv'
  <2>1. CASE Stale /\ Reserve(Executor, "executor_lost", row.seq + 1) /\ UNCHANGED run
    BY <1>0, <1>3, <1>b, <2>1, ReservePreserves DEF NetReap
  <2>2. CASE run' = DoneRun /\ UNCHANGED <<db, job>>
    <3>1. run.pc # "none" BY <1>3 DEF NetReap
    <3>2. /\ RunQuiet /\ StreamQuiet /\ JobQuiet /\ (Undisturbed' => Undisturbed)
          /\ row' = row /\ age' = age /\ spawned' = spawned
      BY <1>3, <1>a, <1>b, <1>c, <2>2, <3>1 DEF NetReap, db, env, JobQuiet
    <3> QED BY <3>1, <3>2, QuietPreserves
  <2> QED BY <1>3, <2>1, <2>2 DEF NetReap
<1>4. ASSUME NetPersist PROVE ClaimInv' /\ TimeInv' /\ UndisturbedInv'
  <2>1. run.pc # "none" /\ job[Executor] # NoJob BY <1>4 DEF NetPersist
  <2>2. RunQuiet /\ StreamQuiet /\ (Undisturbed' => Undisturbed) /\ spawned' = spawned
    BY <1>4, <1>a, <1>b, <1>c, <2>1 DEF NetPersist
  <2>3. CASE PersistWrite(Executor) BY <1>0, <2>1, <2>2, <2>3, PersistWritePreserves
  <2>4. CASE PersistFails(Executor)
    <3>1. JobQuiet /\ row' = row /\ age' = age BY <1>0, <1>e, <2>4 DEF PersistFails, db
    <3> QED BY <2>1, <2>2, <3>1, QuietPreserves
  <2> QED BY <1>4, <2>3, <2>4 DEF NetPersist
<1>5. ASSUME NEW s \in Sweepers, SweepStep(s) \/ SweeperDies(s)
      PROVE  ClaimInv' /\ TimeInv' /\ UndisturbedInv'
  <2>0. s \in Reapers /\ UNCHANGED <<run, spawned, stream, creq, historyFaults>>
    BY <1>5 DEF Reapers, SweepStep, SweepStale, SweepAbandoned, SweepPersist, SweeperDies, exec, env
  <2>1. RunQuiet /\ StreamQuiet /\ (Undisturbed' => Undisturbed)
    BY <1>a, <1>b, <1>d, <2>0
  <2>2. CASE SweepStale(s) BY <2>0, <2>1, <2>2, ReservePreserves DEF SweepStale
  <2>3. CASE SweepAbandoned(s) BY <2>0, <2>1, <2>3, ReservePreserves DEF SweepAbandoned
  <2>4. CASE SweepPersist(s)
    <3>1. CASE PersistWrite(s) BY <2>0, <2>1, <2>4, <3>1, PersistWritePreserves DEF SweepPersist
    <3>2. CASE PersistFails(s)
      <4>1. JobQuiet /\ row' = row /\ age' = age BY <1>e, <2>0, <3>2 DEF PersistFails, db
      <4> QED BY <2>0, <2>1, <4>1, QuietPreserves
    <3> QED BY <2>4, <3>1, <3>2 DEF SweepPersist
  <2>5. CASE SweeperDies(s)
    <3>1. JobQuiet /\ row' = row /\ age' = age BY <1>e, <2>0, <2>5 DEF SweeperDies, db
    <3> QED BY <2>0, <2>1, <3>1, QuietPreserves
  <2> QED BY <1>5, <2>2, <2>3, <2>4, <2>5 DEF SweepStep
<1> QED BY <1>1, <1>2, <1>3, <1>4, <1>5

\* The winning compare-and-set of `claim_run` preserves the invariants.
LEMMA ClaimPreserves ==
  ASSUME SafetyInv, NEW c \in Conns, stream[c].pc = "claim", row.status = "pending",
         row' = [row EXCEPT !.status = "running"], age' = 0,
         run' = [NoRun EXCEPT !.state = row.state, !.seq = row.seq],
         Move(c, "history", stream[c].cursor), TimeAssumption,
         UNCHANGED <<spawned, job, creq, historyFaults>>
  PROVE  ClaimInv' /\ TimeInv' /\ UndisturbedInv'
<1> USE DEF SafetyInv, TypeInv, TInv
<1>1. run'.pc = "none" /\ run'.silence = 0 BY DEF NoRun
<1>2. row \in Row /\ stream \in [Conns -> Stream]
  BY DEF TypeOK
<1>3. row'.status = "running" /\ row'.category = row.category BY <1>2 DEF Row
<1>4. run.pc = "none" /\ spawned = 0 /\ ~Claiming /\ ~AbandonedSomewhere BY DEF ClaimInv
<1>5. ~AbandonedSomewhere' BY <1>3, <1>4 DEF AbandonedSomewhere
<1>6. \A d \in Conns : stream'[d].pc = "history" => d = c
  BY <1>2, <1>4 DEF Move, Position, Claiming
<1>7. ClaimInv' BY <1>1, <1>3, <1>4, <1>5, <1>6 DEF ClaimInv
<1>8. TimeInv' BY <1>1, TimeAssumption DEF TimeInv
<1>9. \A r \in Reapers : Undisturbed => job[r] = NoJob BY DEF UndisturbedInv
<1>10. UndisturbedInv'
  <2>1. ~Live' /\ run'.pc # "history" BY <1>1 DEF Live, LivePcs, StopPcs, NarratePcs
  <2>2. Undisturbed' => Undisturbed BY DEF Undisturbed, NoCancel
  <2> QED BY <1>3, <1>9, <2>1, <2>2 DEF UndisturbedInv
<1> QED BY <1>7, <1>8, <1>10

\* Handing the claimed run to its executor preserves the invariants.
LEMMA SpawnPreserves ==
  ASSUME SafetyInv, NEW c \in Conns, SpawnExecutor(c)
  PROVE  ClaimInv' /\ TimeInv' /\ UndisturbedInv'
<1> USE DEF SafetyInv, TypeInv, TInv
<1>1. run \in Run /\ stream \in [Conns -> Stream] /\ stream[c].pc = "history"
  BY DEF TypeOK, SpawnExecutor
<1>2. run'.pc = "entry" /\ run'.silence = run.silence BY <1>1 DEF SpawnExecutor, Run
<1>3. spawned = 0 /\ spawned' = 1 /\ Claiming BY <1>1 DEF ClaimInv, SpawnExecutor, Claiming
<1>4. row' = row /\ age' = age /\ job' = job /\ creq' = creq /\ historyFaults' = historyFaults
  BY DEF SpawnExecutor, db, env
<1>5. \A d \in Conns : stream'[d].pc # "history"
  BY <1>1 DEF SpawnExecutor, Move, Position, ClaimInv
<1>6. row.status # "pending" /\ ~AbandonedSomewhere BY <1>3 DEF ClaimInv
<1>7. ~AbandonedSomewhere' BY <1>4, <1>6 DEF AbandonedSomewhere
<1>8. ClaimInv' BY <1>3, <1>4, <1>5, <1>6, <1>7 DEF ClaimInv
<1>9. TimeInv' BY <1>2, <1>3, <1>4 DEF TimeInv
<1>10. UndisturbedInv'
  <2>1. ~Claiming' BY <1>5 DEF Claiming
  <2>2. Undisturbed' => Undisturbed BY <1>4 DEF Undisturbed, NoCancel
  <2> QED BY <1>2, <1>3, <1>4, <2>1, <2>2 DEF UndisturbedInv
<1> QED BY <1>8, <1>9, <1>10

\* Every step of an SSE stream preserves the invariants.
LEMMA StreamPreserves ==
  ASSUME SafetyInv, TimeAssumption, NEW c \in Conns,
         StreamStep(c) \/ Connect(c) \/ FollowTimeout(c) \/ Disconnect(c)
  PROVE  ClaimInv' /\ TimeInv' /\ UndisturbedInv'
<1> USE DEF SafetyInv, TypeInv, TInv
<1>0. /\ stream \in [Conns -> Stream]
      /\ job \in [Reapers -> Job \cup {NoJob}] /\ c \in Reapers
  BY DEF TypeOK, Reapers
<1>a. ASSUME UNCHANGED <<creq, historyFaults>> PROVE Undisturbed' => Undisturbed
  BY <1>a DEF Undisturbed, NoCancel
<1>e. ASSUME NEW s, s.pc # "history", stream' = [stream EXCEPT ![c] = s] PROVE StreamQuiet
  BY <1>0, <1>e DEF StreamQuiet
<1>b. ASSUME NEW pc, pc # "history", NEW cursor, Move(c, pc, cursor) PROVE StreamQuiet
  BY <1>b, <1>e DEF Move, Position
<1>c. ASSUME UNCHANGED run PROVE RunQuiet BY <1>c DEF RunQuiet
<1>d. ASSUME job' = [job EXCEPT ![c] = NoJob] \/ job' = job PROVE JobQuiet
  BY <1>0, <1>d DEF JobQuiet
<1>1. ASSUME NEW pc, pc # "history", NEW cursor, Move(c, pc, cursor),
             UNCHANGED <<row, age, run, spawned, creq, historyFaults>>,
             job' = [job EXCEPT ![c] = NoJob] \/ job' = job
      PROVE  ClaimInv' /\ TimeInv' /\ UndisturbedInv'
  <2>1. RunQuiet /\ StreamQuiet /\ JobQuiet /\ (Undisturbed' => Undisturbed)
    BY <1>1, <1>a, <1>b, <1>c, <1>d
  <2> QED BY <1>1, <2>1, QuietPreserves
<1>2. ASSUME Replay(c) \/ CheckStatus(c) \/ ReplayTail(c) \/ Follow(c)
      PROVE  ClaimInv' /\ TimeInv' /\ UndisturbedInv'
  BY <1>1, <1>2 DEF Replay, CheckStatus, ReplayTail, Follow, Reads, ReadOnly, db, exec, env
<1>f. ASSUME Connect(c) \/ FollowTimeout(c) PROVE ClaimInv' /\ TimeInv' /\ UndisturbedInv'
  <2>1. PICK s : s.pc # "history" /\ stream' = [stream EXCEPT ![c] = s]
    BY <1>f DEF Connect, FollowTimeout, Move, Position
  <2>2. ReadOnly BY <1>f DEF Connect, FollowTimeout
  <2>3. StreamQuiet BY <1>e, <2>1
  <2>4. RunQuiet /\ JobQuiet /\ (Undisturbed' => Undisturbed)
    BY <1>a, <1>c, <1>d, <2>2 DEF ReadOnly, exec, env
  <2> QED BY <2>2, <2>3, <2>4, QuietPreserves DEF ReadOnly, db, exec
<1>3. ASSUME Disconnect(c) PROVE ClaimInv' /\ TimeInv' /\ UndisturbedInv'
  BY <1>1, <1>3 DEF Disconnect, db, exec, env
<1>4. ASSUME ClaimRun(c) PROVE ClaimInv' /\ TimeInv' /\ UndisturbedInv'
  <2>1. CASE row.status = "pending" BY <1>4, <2>1, ClaimPreserves DEF ClaimRun, env
  <2>2. CASE row.status # "pending" BY <1>1, <1>4, <2>2 DEF ClaimRun, env
  <2> QED BY <2>1, <2>2
<1>5. ASSUME SpawnExecutor(c) PROVE ClaimInv' /\ TimeInv' /\ UndisturbedInv'
  BY <1>5, SpawnPreserves
<1>6. ASSUME Heal(c) PROVE ClaimInv' /\ TimeInv' /\ UndisturbedInv'
  <2>1. CASE Stale /\ Reserve(c, "executor_lost", row.seq + 1) /\ Move(c, "healing", stream[c].cursor)
    BY <1>0, <1>6, <1>b, <2>1, ReservePreserves DEF Heal, exec
  <2>2. CASE Move(c, "follow", stream[c].cursor) /\ UNCHANGED <<db, job>>
    BY <1>1, <1>6, <2>2 DEF Heal, db, exec, env
  <2> QED BY <1>6, <2>1, <2>2 DEF Heal
<1>7. ASSUME HealPersist(c) PROVE ClaimInv' /\ TimeInv' /\ UndisturbedInv'
  <2>0. job[c] # NoJob /\ UNCHANGED <<run, spawned, creq, historyFaults>>
    BY <1>7 DEF HealPersist, HealingOK, exec
  <2>1. CASE PersistWrite(c) /\ Move(c, "ended", job[c].seq)
    BY <1>0, <1>a, <1>b, <1>c, <2>0, <2>1, PersistWritePreserves
  <2>2. CASE PersistFails(c) /\ Move(c, "idle", stream[c].cursor)
    BY <1>1, <2>0, <2>2 DEF PersistFails, db
  <2> QED BY <1>7, <2>1, <2>2 DEF HealPersist
<1> QED BY <1>2, <1>3, <1>4, <1>5, <1>6, <1>7, <1>f DEF StreamStep

\* Every step of a cancel call preserves the invariants.
LEMMA CancelPreserves ==
  ASSUME SafetyInv, NEW k \in Cancels, CancelRead(k) \/ CancelStep(k)
  PROVE  ClaimInv' /\ TimeInv' /\ UndisturbedInv'
<1> USE DEF SafetyInv, TypeInv, TInv
<1>0. /\ creq \in [Cancels -> [phase : CancelPhase, seq : Nat]] /\ run \in Run
      /\ UNCHANGED <<stream, job, spawned, historyFaults>>
  BY DEF TypeOK, CancelRead, CancelStep, CancelCommit, CancelSignal, exec, env
<1>1. StreamQuiet /\ JobQuiet BY <1>0 DEF StreamQuiet, JobQuiet
<1>2. Undisturbed' => Undisturbed
  BY <1>0 DEF Undisturbed, NoCancel, CancelRead, CancelStep, CancelCommit, CancelSignal
<1>3. CASE CancelRead(k)
  <2>1. row' = row /\ age' = age /\ run' = run BY <1>3 DEF CancelRead, db, exec
  <2>2. RunQuiet BY <2>1 DEF RunQuiet
  <2> QED BY <1>0, <1>1, <1>2, <2>1, <2>2, QuietPreserves
<1>4. CASE CancelSignal(k)
  <2>1. run'.pc = run.pc /\ run'.silence = run.silence BY <1>0, <1>4 DEF CancelSignal, Run
  <2>2. row' = row /\ age' = age BY <1>4 DEF CancelSignal, db
  <2>3. RunQuiet BY <2>1 DEF RunQuiet
  <2> QED BY <1>0, <1>1, <1>2, <2>1, <2>2, <2>3, QuietPreserves
<1>5. CASE CancelCommit(k)
  <2>0. run' = run BY <1>5 DEF CancelCommit, exec
  <2>1. CASE UNCHANGED db
    <3>1. RunQuiet /\ row' = row /\ age' = age BY <2>0, <2>1 DEF RunQuiet, db
    <3> QED BY <1>0, <1>1, <1>2, <2>0, <3>1, QuietPreserves
  <2>2. CASE row'.status = "cancelled" /\ row'.category = "cancelled" /\ creq'[k].phase = "signal"
    <3>1. AbandonedSomewhere' => AbandonedSomewhere BY <1>0, <2>2 DEF AbandonedSomewhere
    <3>2. (Claiming' <=> Claiming) /\ (Live' <=> Live) BY <1>0, <2>0 DEF Claiming, Live
    <3>3. ClaimInv' BY <1>0, <2>0, <2>2, <3>1, <3>2 DEF ClaimInv
    <3>4. TimeInv' BY <2>0, <2>2, <3>2 DEF TimeInv
    <3>5. ~Undisturbed' BY <2>2 DEF Undisturbed, NoCancel
    <3> QED BY <3>3, <3>4, <3>5 DEF UndisturbedInv
  <2> QED BY <1>0, <1>5, <2>1, <2>2 DEF CancelCommit, Upsert
<1> QED BY <1>3, <1>4, <1>5 DEF CancelStep

\* The passing of time preserves the invariants.
LEMMA TickPreserves ==
  ASSUME SafetyInv, TypeInv', Tick, TimeAssumption
  PROVE  ClaimInv' /\ TimeInv' /\ UndisturbedInv'
<1> USE DEF SafetyInv, TypeInv, TInv
<1>0. run \in Run /\ age \in Nat /\ run.silence \in Nat BY DEF TypeOK, Run
<1>1. /\ row' = row /\ stream' = stream /\ job' = job /\ spawned' = spawned /\ creq' = creq
      /\ historyFaults' = historyFaults
  BY DEF Tick, env
<1>2. run'.pc = run.pc BY <1>0 DEF Tick, Run
<1>3. (Claiming' <=> Claiming) /\ (Live' <=> Live) /\ (AbandonedSomewhere' <=> AbandonedSomewhere)
      /\ (Undisturbed' <=> Undisturbed) /\ (Terminal' <=> Terminal)
  BY <1>1, <1>2 DEF Claiming, Live, AbandonedSomewhere, Undisturbed, NoCancel, Terminal
<1>4. ClaimInv' BY <1>1, <1>2, <1>3 DEF ClaimInv
<1>5. UndisturbedInv' BY <1>1, <1>2, <1>3 DEF UndisturbedInv
<1>6. TimeInv'
  <2> SUFFICES ASSUME Live \/ Claiming
               PROVE  run'.silence <= MaxSilence /\ (row'.status = "running" => age' <= run'.silence)
    BY <1>3 DEF TimeInv
  <2>1. run.silence < MaxSilence /\ run' = [run EXCEPT !.silence = @ + 1] BY DEF Tick
  <2>2. run'.silence = run.silence + 1 BY <1>0, <2>1 DEF Run
  <2>3. age' <= age + 1 BY <1>0 DEF Tick
  <2>4. row.status = "running" => age <= run.silence BY DEF TimeInv
  <2>5. age' \in Nat BY DEF TypeOK
  <2> QED BY <1>0, <1>1, <2>1, <2>2, <2>3, <2>4, <2>5, TimeAssumption
<1> QED BY <1>4, <1>5, <1>6

-----------------------------------------------------------------------------
(* The invariant, and the theorems.                                        *)

\* The initial states satisfy the safety invariant.
LEMMA SafetyInit == Init => SafetyInv
<1> SUFFICES ASSUME Init PROVE SafetyInv OBVIOUS
<1>1. TypeInv BY TypeInit
<1>2. /\ row.status = "pending" /\ row.category = "none" /\ run.pc = "none" /\ spawned = 0
      /\ \A c \in Conns : stream[c].pc = "idle"
      /\ \A r \in Reapers : job[r] = NoJob
  BY DEF Init, NoRun, Position
<1>3. ~Claiming /\ ~Live /\ ~AbandonedSomewhere
  BY <1>2 DEF Claiming, Live, AbandonedSomewhere, LivePcs, StopPcs, NarratePcs, NoJob
<1>4. ClaimInv BY <1>2, <1>3 DEF ClaimInv
<1>5. TimeInv BY <1>3 DEF TimeInv
<1>6. UndisturbedInv BY <1>2, <1>3 DEF UndisturbedInv
<1> QED BY <1>1, <1>4, <1>5, <1>6 DEF SafetyInv

\* Every step preserves the safety invariant.
LEMMA SafetyNext == SafetyInv /\ [Next]_vars => SafetyInv'
<1> SUFFICES ASSUME SafetyInv, [Next]_vars PROVE SafetyInv' OBVIOUS
<1> USE TimeAssumption
<1>0. TypeInv' BY TypeNext DEF SafetyInv
<1>1. CASE ExecStep BY <1>0, <1>1, ExecPreserves DEF SafetyInv
<1>2. CASE \/ ExecDies \/ DeadlinePasses \/ NetReap \/ NetPersist
           \/ \E s \in Sweepers : SweepStep(s) \/ SweeperDies(s)
  BY <1>0, <1>2, RecoveryPreserves DEF SafetyInv
<1>3. ASSUME NEW c \in Conns, StreamStep(c) \/ Connect(c) \/ FollowTimeout(c) \/ Disconnect(c)
      PROVE  SafetyInv'
  BY <1>0, <1>3, StreamPreserves DEF SafetyInv
<1>4. ASSUME NEW k \in Cancels, CancelRead(k) \/ CancelStep(k) PROVE SafetyInv'
  BY <1>0, <1>4, CancelPreserves DEF SafetyInv
<1>5. CASE Tick BY <1>0, <1>5, TickPreserves DEF SafetyInv
<1>6. CASE UNCHANGED vars
  <2>1. RunQuiet /\ StreamQuiet /\ JobQuiet /\ (Undisturbed' => Undisturbed)
        /\ UNCHANGED <<row, age, spawned, run>>
    BY <1>6 DEF vars, db, exec, env, RunQuiet, StreamQuiet, JobQuiet, Undisturbed, NoCancel
  <2> QED BY <1>0, <2>1, QuietPreserves DEF SafetyInv
<1> QED BY <1>1, <1>2, <1>3, <1>4, <1>5, <1>6 DEF Next

\* The safety invariant holds in every reachable state.
LEMMA SafetyHolds == Spec => []SafetyInv
  BY SafetyInit, SafetyNext, PTL DEF Spec

\* However many clients connect, reconnect and disappear, the interaction's pipeline is
\* started at most once.
THEOREM OneExecutor == Spec => []OneExecutorEver
<1>1. SafetyInv => OneExecutorEver BY DEF SafetyInv, ClaimInv, OneExecutorEver
<1> QED BY <1>1, SafetyHolds, PTL

\* The abandoned-question sweep and the claim exclude each other for good.
THEOREM AbandonedIsUnclaimed == Spec => []AbandonedNeverRan
<1>1. SafetyInv => AbandonedNeverRan
  BY DEF SafetyInv, ClaimInv, AbandonedSomewhere, AbandonedNeverRan
<1> QED BY <1>1, SafetyHolds, PTL

\* No sweep can take a live run for an orphan, given that a run commits within the
\* stale window.
THEOREM LiveRunSafe == Spec => []LiveRunNotStale
<1>1. SafetyInv => LiveRunNotStale
  <2> SUFFICES ASSUME SafetyInv, Stale PROVE ~Live /\ ~Claiming BY DEF LiveRunNotStale
  <2> QED BY StaleIsDead, TimeAssumption DEF SafetyInv, TypeInv, TInv
<1> QED BY <1>1, SafetyHolds, PTL

\* A finished interaction that nobody cancels and whose history is written keeps its
\* outcome through every crash, database failure, reconnect and sweep.
THEOREM FinishedForGood == Spec => FinishedStaysFinished
<1> DEFINE Kept == Undisturbed /\ Undisturbed' /\ Terminal => row'.status = row.status
<1>1. SafetyInv /\ [Next]_vars => [Kept]_vars
  <2> SUFFICES ASSUME SafetyInv, Next, Undisturbed, Undisturbed', Terminal
               PROVE  row'.status = row.status
    OBVIOUS
  <2> USE DEF SafetyInv, TypeInv, TInv
  <2>1. row.status \notin {"pending", "running"} /\ ~Stale /\ ~Abandoned
    BY DEF Terminal, TERMINAL_STATUSES, Stale, Abandoned
  <2>2. ASSUME NEW r \in Reapers, job[r] # NoJob, PersistWrite(r) \/ PersistFails(r)
        PROVE  row'.status = row.status
    BY <2>2 DEF PersistWrite, PersistFails, Upsert, Failed, db, UndisturbedInv
  <2>3. CASE ExecStep
    <3>1. ExecEffect BY <2>3, ExecStepEffect
    <3>2. run.pc = "history" BY <2>1, <3>1 DEF ExecEffect, UndisturbedInv
    <3> QED BY <3>1, <3>2 DEF ExecEffect, RowKept
  <2>4. CASE ExecDies \/ DeadlinePasses \/ Tick
    BY <2>4 DEF ExecDies, DeadlinePasses, Tick, Local, db
  <2>5. CASE NetReap BY <2>1, <2>5 DEF NetReap, db
  <2>6. CASE NetPersist BY <2>2, <2>6 DEF NetPersist, Reapers
  <2>7. ASSUME NEW s \in Sweepers, SweepStep(s) \/ SweeperDies(s) PROVE row'.status = row.status
    BY <2>1, <2>2, <2>7
       DEF SweepStep, SweepStale, SweepAbandoned, SweepPersist, SweeperDies, Reapers, db
  <2>8. ASSUME NEW c \in Conns, StreamStep(c) \/ Connect(c) \/ FollowTimeout(c) \/ Disconnect(c)
        PROVE  row'.status = row.status
    <3>1. CASE HealPersist(c) BY <2>2, <3>1 DEF HealPersist, HealingOK, Reapers
    <3>2. CASE Heal(c) \/ ClaimRun(c) \/ SpawnExecutor(c) \/ Disconnect(c)
      BY <2>1, <3>2 DEF Heal, ClaimRun, SpawnExecutor, Disconnect, db
    <3>3. CASE Replay(c) \/ CheckStatus(c) \/ ReplayTail(c) \/ Follow(c) \/ Connect(c) \/ FollowTimeout(c)
      BY <3>3 DEF Replay, CheckStatus, ReplayTail, Follow, Connect, FollowTimeout, Reads,
                    ReadOnly, db
    <3> QED BY <2>8, <3>1, <3>2, <3>3 DEF StreamStep
  <2>9. ASSUME NEW k \in Cancels, CancelRead(k) \/ CancelStep(k) PROVE row'.status = row.status
    <3>1. creq[k].phase \in {"idle", "refused"} BY DEF Undisturbed, NoCancel
    <3> QED BY <2>9, <3>1 DEF CancelRead, CancelStep, CancelCommit, CancelSignal, db
  <2> QED BY <2>3, <2>4, <2>5, <2>6, <2>7, <2>8, <2>9 DEF Next
<1> QED BY <1>1, SafetyHolds, PTL DEF Spec, FinishedStaysFinished

-----------------------------------------------------------------------------
(* What an undisturbed interaction leaves behind: its event log, its usage *)
(* events and what its streams deliver.  The inductive invariant relates   *)
(* the row's watermark to the log, to the executor's in-memory sequence,   *)
(* to a reaper's reserved sequence and to every client's cursor.           *)


IsTerminal(e) == e.name \in TERMINAL_NAMES
Logged == \E e \in events : IsTerminal(e)
Held == \E r \in Reapers : job[r] # NoJob
Delivering == {"follow", "heal", "healing", "claim", "history"}

\* The executor allocates its next sequence from one that is not behind the row's, and
\* past its first commit that sequence is not the question's.
SeqInv ==
  /\ Live \/ Claiming => row.seq <= run.seq
  /\ Live /\ run.pc \notin {"entry", "start"} => run.seq >= 1

\* The log stays below the watermark and holds at most one terminal event, exactly when
\* the row is terminal or the event is still owed by a reaper or lost with it.
LogInv ==
  /\ \A e \in events : e.seq <= row.seq
  /\ \A e, f \in events : IsTerminal(e) /\ IsTerminal(f) => e = f
  /\ Logged => Terminal
  /\ Terminal => Logged \/ Held \/ lost > 0

\* A reaped record is the only one, its sequence is the row's, and that sequence and
\* the outcome it announces are not in the log yet.
JobInv ==
  \A r \in Reapers : job[r] # NoJob =>
    /\ job[r].seq = row.seq /\ row.seq >= 1
    /\ run.pc # "history"
    /\ \A e \in events : e.seq < row.seq /\ ~IsTerminal(e)
    /\ \A q \in Reapers : job[q] # NoJob => q = r

\* Nothing is metered before the outcome is written, and the messages of an unfinished
\* interaction leave the sequences of the terminal commit free.
MeterInv ==
  /\ ~Terminal => \A m \in msgs : m = 1 \/ m <= row.seq
  /\ faults = 0 => /\ metered <= 1
                   /\ ~Terminal \/ Held => metered = 0
                   /\ ~Terminal => run.owed = 0

\* A client that received only logged events is not past the watermark, is behind a
\* sequence that is reserved and unwritten, and once it has the terminal event its
\* stream delivers nothing more.
CursorOK(c) ==
  stream[c].phantoms = {} =>
    /\ stream[c].cursor <= row.seq
    /\ Held => stream[c].cursor < row.seq
    /\ stream[c].pc \in Delivering => \A e \in events : IsTerminal(e) => stream[c].cursor < e.seq
CursorInv == \A c \in Conns : CursorOK(c)

StoreInv == SeqInv /\ LogInv /\ JobInv /\ MeterInv
OutcomeInv == Undisturbed => StoreInv /\ CursorInv

-----------------------------------------------------------------------------
(* What a step of the executor does to the log and to its own sequence.    *)

\* Concluding a run allocates no sequence and owes nothing new.
LEMMA ConcludeSeq ==
  ASSUME NEW m \in Run, NEW g
  PROVE  /\ Conclude(m, g).seq = m.seq /\ Conclude(m, g).owed = m.owed
         /\ Conclude(m, g).pc \in {"close", "end"}
  BY DEF Conclude, CloseEntry, Run

\* An exception keeps the sequences and the usage the step had built in memory.
LEMMA RaisedSeq ==
  ASSUME NEW m \in Run
  PROVE  /\ Raised(m).seq = m.seq /\ Raised(m).owed = m.owed
         /\ Raised(m).pc \in {"net", "close", "end"}
         /\ run.pc \in {"entry", "start"} => Raised(m).pc = "net"
<1> DEFINE n == [m EXCEPT !.rescue = TRUE]
<1>1. n \in Run /\ n.seq = m.seq /\ n.owed = m.owed BY DEF Run
<1>2. /\ Conclude(n, "lost").seq = m.seq /\ Conclude(n, "lost").owed = m.owed
      /\ Conclude(n, "lost").pc \in {"close", "end"}
  BY <1>1, ConcludeSeq
<1>3. LET x == [m EXCEPT !.pc = "net"] IN x.seq = m.seq /\ x.owed = m.owed /\ x.pc = "net"
  BY DEF Run
<1> QED BY <1>2, <1>3 DEF Raised

\* The store is untouched; the run is over, or goes on with what it had allocated.
ExecIdle ==
  /\ UNCHANGED <<row, events, msgs, metered>>
  /\ run'.pc \notin {"none", "entry", "history"}
  /\ \/ run'.pc = "done" /\ run'.owed = 0
     \/ /\ run.seq <= run'.seq
        /\ run.pc \in {"entry", "start"} => run'.pc \in {"start", "net"}
        /\ faults' = 0 => run'.owed = run.owed

\* Progress is logged past everything allocated so far, or the transcript is saved.
Appends(evs, ms) ==
  /\ events' = Put(evs) /\ \A e \in evs : e.name = "info" /\ run.seq < e.seq /\ e.seq <= row'.seq
  /\ msgs' = msgs \cup ms /\ ms \subseteq {row'.seq} /\ metered' = metered
  /\ row'.status \in {row.status, "running"} /\ row'.seq = run'.seq
  /\ run.seq <= run'.seq /\ 1 <= run'.seq /\ run'.owed = run.owed
  /\ run'.pc \notin {"none", "entry", "start", "history"}

\* The terminal commit logs one terminal event past everything allocated so far.
Finishes(evs, t) ==
  /\ events' = Put(evs) /\ t \in evs /\ \A e \in evs : IsTerminal(e) <=> e = t
  /\ \A e \in evs : run.seq < e.seq /\ e.seq <= row'.seq
  /\ row'.status \in {"completed", "failed"} /\ run.seq < row'.seq
  /\ metered' = metered + run.owed + 1
  /\ run'.pc = "done" \/ (run'.pc = "history" /\ run'.seq = row'.seq)

ExecLog == ExecIdle \/ (\E evs, ms : Appends(evs, ms)) \/ (\E evs, t : Finishes(evs, t))

\* A step of the executor's memory alone writes nothing.
LEMMA LocalLog ==
  ASSUME NEW m, Local(m), m.pc \notin {"none", "entry", "history"},
         m = DoneRun \/ /\ m.seq = run.seq /\ m.owed = run.owed
                        /\ run.pc \notin {"entry", "start"} \/ m.pc = "start",
         run.seq \in Nat
  PROVE  ExecLog
  BY DEF Local, ExecLog, ExecIdle, db, DoneRun, NoRun

\* An aborted transaction of the executor writes nothing.
LEMMA AbortLog ==
  ASSUME NEW m \in Run, run.seq \in Nat, run.seq <= m.seq, faults' = 0 => m.owed = run.owed,
         run' = Raised(m), UNCHANGED db
  PROVE  ExecLog
  BY RaisedSeq DEF ExecLog, ExecIdle, db

\* A stage event is logged at the sequence just allocated.
LEMMA StageEventLog ==
  ASSUME run \in Run, row \in Row, NEW m \in Run, m.seq = run.seq + 1, m.owed = run.owed,
         NEW pc, pc \notin {"none", "entry", "start", "history"}, StageEvent(m, pc)
  PROVE  ExecLog
<1> DEFINE n == [m EXCEPT !.pc = pc, !.silence = 0]
<1>0. run.seq \in Nat /\ m.seq \in Nat BY DEF Run
<1>1. n.pc = pc /\ n.seq = m.seq /\ n.owed = run.owed BY DEF Run
<1> HIDE DEF n
<1>2. CASE Touch(m.seq, 0, {Ev(m.seq, "info")}, {}) /\ run' = n
  <2>1. row'.seq = m.seq /\ row'.status = row.status BY <1>2 DEF Touch, Row
  <2>2. Appends({Ev(m.seq, "info")}, {})
    BY <1>0, <1>1, <1>2, <2>1 DEF Touch, Appends, Ev
  <2> QED BY <2>2 DEF ExecLog
<1>3. CASE run' = Raised(m) /\ UNCHANGED db BY <1>0, <1>3, AbortLog
<1> QED BY <1>2, <1>3 DEF StageEvent, Attempt, n

\* So are the events of a commit that moves the session state.
LEMMA PhaseCommitLog ==
  ASSUME run \in Run, metered \in Nat, NEW m \in Run, run.seq < m.seq, m.owed = run.owed, NEW evs,
         \A e \in evs : e.name = "info" /\ run.seq < e.seq /\ e.seq <= m.seq,
         NEW pc, pc \notin {"none", "entry", "start", "history"}, PhaseCommit(m, evs, pc)
  PROVE  ExecLog
<1> DEFINE n == [m EXCEPT !.pc = pc, !.silence = 0]
<1>0. run.seq \in Nat /\ m.seq \in Nat BY DEF Run
<1>1. n.pc = pc /\ n.seq = m.seq /\ n.owed = run.owed BY DEF Run
<1> HIDE DEF n
<1>2. CASE Upsert(Running(m), evs, {}, 0) /\ run' = n
  <2>1. row'.seq = m.seq /\ row'.status = "running" BY <1>2 DEF Upsert, Running
  <2>2. Appends(evs, {}) BY <1>0, <1>1, <1>2, <2>1 DEF Upsert, Appends
  <2> QED BY <2>2 DEF ExecLog
<1>3. CASE run' = Raised(m) /\ UNCHANGED db BY <1>0, <1>3, AbortLog
<1> QED BY <1>2, <1>3 DEF PhaseCommit, Attempt, n


\* Allocating sequences moves nothing but the sequence.
LEMMA AdvancedSeq ==
  ASSUME run \in Run, NEW n \in Nat
  PROVE  Advanced(n) \in Run /\ Advanced(n).seq = run.seq + n /\ Advanced(n).owed = run.owed
  BY AdvancedType DEF Advanced, Run

\* The terminal commit logs exactly one terminal event, past everything allocated, and
\* meters what the run owes and this outcome; it aborts without a fault only when the
\* sequence of one of its messages is taken.
LEMMA EndLog ==
  ASSUME TypeOK, ExecEnd, \A i \in {1, 2} : run.seq + i \notin msgs PROVE ExecLog
<1> DEFINE o  == Outcome(run.goal)
           m  == [Advanced(o.events) EXCEPT !.state = o.state, !.owed = run.owed + 1]
           ms == {run.seq + i : i \in o.msgs}
           evs == {Ev(run.seq + i, IF i = o.events THEN o.status ELSE "info") : i \in 1..o.events}
           t == Ev(run.seq + o.events, o.status)
           rec == [status |-> o.status, state |-> o.state, seq |-> m.seq,
                   category |-> ErrorCategory(run.goal)]
           done == [m EXCEPT !.pc = "history", !.owed = 0, !.silence = 0]
           next == IF run.rescue THEN DoneRun ELSE done
<1>0. run \in Run /\ run.seq \in Nat /\ run.owed \in Nat /\ metered \in Nat /\ faults \in Nat
  BY DEF TypeOK, Run
<1>1. Attempt(Upsert(rec, evs, ms, m.owed), ms, m, next) BY DEF ExecEnd
<1>2. /\ o.events \in {1, 2} /\ o.status \in {"completed", "failed"} /\ o.state \in SessionState
      /\ o.msgs \subseteq {1, 2}
  BY DEF Outcome, SessionState
<1> HIDE DEF o
<1>3. /\ Advanced(o.events) \in Run /\ Advanced(o.events).seq = run.seq + o.events
      /\ run.owed + 1 \in Nat
  BY <1>0, <1>2, AdvancedSeq
<1>4. m \in Run /\ m.seq = run.seq + o.events /\ m.owed = run.owed + 1
  BY <1>2, <1>3 DEF Run
<1> HIDE DEF m
<1>5. done.pc = "history" /\ done.seq = m.seq BY <1>4 DEF Run
<1> HIDE DEF done
<1>6. next.pc = "done" \/ (next.pc = "history" /\ next.seq = m.seq)
  BY <1>5 DEF DoneRun, NoRun
<1>7. rec.status \in {"completed", "failed"} /\ rec.seq = m.seq BY <1>2
<1>8. /\ t \in evs
      /\ \A e \in evs : /\ IsTerminal(e) <=> e = t
                        /\ run.seq < e.seq /\ e.seq <= m.seq
  <2>1. o.events \in 1..o.events BY <1>2
  <2>2. t \in evs BY <2>1
  <2>3. ASSUME NEW i \in 1..o.events
        PROVE  LET e == Ev(run.seq + i, IF i = o.events THEN o.status ELSE "info") IN
               /\ IsTerminal(e) <=> e = t
               /\ run.seq < e.seq /\ e.seq <= m.seq
    <3>1. CASE i = o.events
      BY <1>0, <1>2, <1>4, <3>1 DEF Ev, IsTerminal, TERMINAL_NAMES, TERMINAL_STATUSES
    <3>2. CASE i # o.events
      BY <1>0, <1>2, <1>4, <3>2 DEF Ev, IsTerminal, TERMINAL_NAMES, TERMINAL_STATUSES
    <3> QED BY <3>1, <3>2
  <2> QED BY <2>2, <2>3
<1>9. Free(ms) BY <1>2 DEF Free
<1> HIDE DEF rec, next, ms, evs, t
<1>10. CASE Upsert(rec, evs, ms, m.owed) /\ run' = next
  <2>1. Finishes(evs, t)
    BY <1>0, <1>2, <1>4, <1>6, <1>7, <1>8, <1>10 DEF Upsert, Finishes
  <2> QED BY <2>1 DEF ExecLog
<1>11. CASE faults' = faults + 1 /\ run' = Raised(m) /\ UNCHANGED db
  BY <1>0, <1>2, <1>4, <1>11, AbortLog
<1> QED BY <1>1, <1>9, <1>10, <1>11 DEF Attempt

\* Whatever the executor does undisturbed, it writes nothing, appends to its log, or
\* finishes the interaction.
LEMMA ExecStepLog ==
  ASSUME TypeOK, SeqInv, Undisturbed, Undisturbed', ExecStep,
         run.pc = "end" => \A i \in {1, 2} : run.seq + i \notin msgs
  PROVE  ExecLog
<1>0. run \in Run /\ run.seq \in Nat /\ row \in Row /\ metered \in Nat BY DEF TypeOK, Run
<1>a. Advanced(1) \in Run /\ Advanced(1).seq = run.seq + 1 /\ Advanced(1).owed = run.owed
  BY <1>0, AdvancedSeq
<1>b. \A m \in Run : \A g : /\ Conclude(m, g).seq = m.seq /\ Conclude(m, g).owed = m.owed
                            /\ Conclude(m, g).pc \notin {"none", "entry", "history"}
  BY ConcludeSeq
<1>c. \A m \in Run : \A g : /\ StopHere(m, g).seq = m.seq /\ StopHere(m, g).owed = m.owed
                            /\ StopHere(m, g).pc \notin {"none", "entry", "history"}
  BY <1>b DEF StopHere
<1>d. ASSUME NEW m, m.seq = run.seq, m.owed = run.owed, Local(m), run.pc \notin {"entry", "start"},
             m.pc \notin {"none", "entry", "history"}
      PROVE  ExecLog
  BY <1>0, <1>d, LocalLog
<1>e. ASSUME NEW g, Local(Conclude(run, g)), run.pc \notin {"entry", "start"} PROVE ExecLog
  BY <1>0, <1>b, <1>d, <1>e
<1>f. ASSUME NEW p \in {"gate", "fetched", "compose", "analyzed", "end", "open", "facts", "judge"},
             Local([run EXCEPT !.pc = p]), run.pc \notin {"entry", "start"}
      PROVE  ExecLog
  <2>1. LET m == [run EXCEPT !.pc = p] IN m.seq = run.seq /\ m.owed = run.owed /\ m.pc = p
    BY <1>0 DEF Run
  <2> QED BY <1>d, <1>f, <2>1
<1>g. ASSUME Local(DoneRun) PROVE ExecLog BY <1>0, <1>g, LocalLog DEF DoneRun, NoRun
<1>h. ASSUME NEW m \in Run, m.seq = run.seq + 1, m.owed = run.owed,
             NEW pc \in NarratePcs \cup {"save", "analyze"}, StageEvent(m, pc)
      PROVE  ExecLog
  BY <1>0, <1>h, StageEventLog DEF NarratePcs
<1>i. ASSUME run' = Raised(run), UNCHANGED db PROVE ExecLog BY <1>0, <1>i, AbortLog
<1>1. ASSUME ExecEntry PROVE ExecLog
  <2> DEFINE m == [run EXCEPT !.pc = "start"]
  <2>1. m.pc = "start" /\ m.seq = run.seq /\ m.owed = run.owed BY <1>0 DEF Run
  <2> HIDE DEF m
  <2>2. CASE Local(m) BY <1>0, <2>1, <2>2, LocalLog
  <2> QED BY <1>1, <1>g, <2>2 DEF ExecEntry, m
<1>2. ASSUME ExecStarted PROVE ExecLog
  <2>1. \A e \in {Ev(run.seq + 1, "info")} : e.name = "info" /\ run.seq < e.seq /\ e.seq <= run.seq + 1
    BY <1>0 DEF Ev
  <2> QED BY <1>0, <1>2, <1>a, <2>1, PhaseCommitLog DEF ExecStarted
<1>3. ASSUME ExecStopPoint PROVE ExecLog
  <2>1. run.pc \in StopPcs /\ run.pc \notin {"entry", "start"} BY <1>3 DEF ExecStopPoint, StopPcs
  <2>2. AfterStop[run.pc] \in {"open", "facts", "compose", "judge"} BY <2>1 DEF AfterStop, StopPcs
  <2>3. CASE Local(StopHere(run, StopReason)) BY <1>0, <1>c, <1>d, <2>1, <2>3
  <2> QED BY <1>3, <1>f, <2>1, <2>2, <2>3 DEF ExecStopPoint
<1>4. ASSUME ExecOpen PROVE ExecLog
  <2> DEFINE m == [Advanced(1) EXCEPT !.transcript = "open"]
  <2>1. m \in Run /\ m.seq = run.seq + 1 /\ m.owed = run.owed BY <1>a DEF Run
  <2> HIDE DEF m
  <2> QED BY <1>4, <1>h, <2>1 DEF ExecOpen, NarratePcs, m
<1>5. ASSUME ExecNarrate PROVE ExecLog
  <2> DEFINE m == [Advanced(1) EXCEPT !.transcript = "produced", !.narrated = run.narrated + 1]
  <2>0. run.narrated + 1 \in Nat BY <1>0 DEF Run
  <2>1. m \in Run /\ m.seq = run.seq + 1 /\ m.owed = run.owed BY <1>a, <2>0 DEF Run
  <2>2. StageEvent(m, run.pc) /\ run.pc \in NarratePcs BY <1>5 DEF ExecNarrate
  <2> HIDE DEF m
  <2> QED BY <1>h, <2>1, <2>2
<1>6. ASSUME ExecBudgetStop PROVE ExecLog
  <2> DEFINE m == [run EXCEPT !.rescue = TRUE]
  <2>1. m \in Run /\ m.seq = run.seq /\ m.owed = run.owed BY <1>0 DEF Run
  <2> HIDE DEF m
  <2>2. PICK n : Local(n) /\ n.seq = run.seq /\ n.owed = run.owed
                 /\ n.pc \notin {"none", "entry", "history"}
    BY <1>6, <1>b, <1>c, <2>1 DEF ExecBudgetStop, m
  <2>3. run.pc \notin {"entry", "start"} BY <1>6 DEF ExecBudgetStop
  <2> QED BY <1>d, <2>2, <2>3
<1>7. ASSUME ExecParsed PROVE ExecLog BY <1>7, <1>a, <1>e, <1>h DEF ExecParsed, NarratePcs
<1>8. ASSUME ExecAuthorized PROVE ExecLog BY <1>8, <1>e, <1>f DEF ExecAuthorized
<1>9. ASSUME ExecPhases PROVE ExecLog
  <2> DEFINE m == [Advanced(2) EXCEPT !.state = "executing"]
             evs == {Ev(run.seq + 1, "info"), Ev(run.seq + 2, "info")}
  <2>0. Advanced(2) \in Run /\ Advanced(2).seq = run.seq + 2 /\ Advanced(2).owed = run.owed
    BY <1>0, AdvancedSeq
  <2>1. m \in Run /\ m.seq = run.seq + 2 /\ m.owed = run.owed BY <2>0 DEF Run, SessionState
  <2>2. \A e \in evs : e.name = "info" /\ run.seq < e.seq /\ e.seq <= run.seq + 2 BY <1>0 DEF Ev
  <2>3. PICK pc \in {"fetch", "analyze"} : PhaseCommit(m, evs, pc) BY <1>9 DEF ExecPhases
  <2> HIDE DEF m, evs
  <2> QED BY <1>0, <2>1, <2>2, <2>3, PhaseCommitLog
<1>10. ASSUME ExecFetched PROVE ExecLog BY <1>10, <1>e, <1>f DEF ExecFetched
<1>11. ASSUME ExecAnalyze PROVE ExecLog
  <2> DEFINE m == [run EXCEPT !.pc = "emit", !.narrated = run.narrated + 1]
  <2>1. m.seq = run.seq /\ m.owed = run.owed /\ m.pc = "emit" BY <1>0 DEF Run
  <2>2. run.pc = "analyze" BY <1>11 DEF ExecAnalyze
  <2> HIDE DEF m
  <2>3. CASE Local(m) BY <1>d, <2>1, <2>2, <2>3
  <2>4. CASE Local([run EXCEPT !.pc = "analyzed"]) BY <1>f, <2>2, <2>4
  <2> QED BY <1>11, <2>3, <2>4 DEF ExecAnalyze, m
<1>12. ASSUME ExecEmit PROVE ExecLog BY <1>12, <1>a, <1>h DEF ExecEmit
<1>13. ASSUME ExecJudged PROVE ExecLog BY <1>13, <1>e, <1>f DEF ExecJudged
<1>14. ASSUME ExecCompose PROVE ExecLog
  <2> DEFINE m == [Advanced(1) EXCEPT !.state = "composing"]
             evs == {Ev(run.seq + 1, "info")}
  <2>1. m \in Run /\ m.seq = run.seq + 1 /\ m.owed = run.owed BY <1>a DEF Run, SessionState
  <2>2. \A e \in evs : e.name = "info" /\ run.seq < e.seq /\ e.seq <= run.seq + 1 BY <1>0 DEF Ev
  <2>3. PhaseCommit(m, evs, "summarize") BY <1>14 DEF ExecCompose
  <2> HIDE DEF m, evs
  <2> QED BY <1>0, <2>1, <2>2, <2>3, PhaseCommitLog
<1>15. ASSUME ExecSummarized PROVE ExecLog BY <1>15, <1>e DEF ExecSummarized
<1>16. ASSUME ExecClose PROVE ExecLog
  <2> DEFINE m == [Advanced(1) EXCEPT !.transcript = "closed"]
  <2>1. m \in Run /\ m.seq = run.seq + 1 /\ m.owed = run.owed BY <1>a DEF Run
  <2> HIDE DEF m
  <2> QED BY <1>16, <1>h, <2>1 DEF ExecClose, m
<1>17. ASSUME ExecSave PROVE ExecLog
  <2> DEFINE m == [run EXCEPT !.pc = "end"]
  <2>1. m.seq = run.seq /\ m.owed = run.owed /\ m.pc = "end" BY <1>0 DEF Run
  <2>2. run.seq >= 1 BY <1>17 DEF ExecSave, SeqInv, Live, LivePcs
  <2> HIDE DEF m
  <2>3. CASE Touch(run.seq, run.silence, {}, {run.seq}) /\ run' = m
    <3>1. row'.seq = run.seq /\ row'.status = row.status BY <1>0, <2>3 DEF Touch, Row
    <3>2. Appends({}, {run.seq}) BY <1>0, <2>1, <2>2, <2>3, <3>1 DEF Touch, Appends
    <3> QED BY <3>2 DEF ExecLog
  <2> QED BY <1>17, <1>i, <2>3 DEF ExecSave, Attempt, m
<1>18. ASSUME ExecEnd PROVE ExecLog BY <1>18, EndLog DEF ExecEnd
<1>19. ASSUME ExecStopped PROVE ExecLog BY <1>19, <1>g DEF ExecStopped
<1>20. ASSUME ExecHistory PROVE ExecLog
  BY <1>20, <1>g DEF ExecHistory, Undisturbed, TypeOK
<1>21. ASSUME ExecException PROVE ExecLog BY <1>21, <1>i DEF ExecException
<1> QED
  BY <1>1, <1>2, <1>3, <1>4, <1>5, <1>6, <1>7, <1>8, <1>9, <1>10, <1>11, <1>12, <1>13, <1>14,
     <1>15, <1>16, <1>17, <1>18, <1>19, <1>20, <1>21 DEF ExecStep

-----------------------------------------------------------------------------
(* The inductive step.  Every lemma is about a step between two undisturbed *)
(* states, since a disturbed one is never undisturbed again.                *)

\* The executor loses no record of a reaper, and never forgets a fault.
LEMMA ExecCounts == ASSUME TypeOK, ExecStep PROVE lost' = lost /\ (faults' = 0 => faults = 0)
<1>1. faults \in Nat BY DEF TypeOK
<1> QED
  BY <1>1 DEF ExecStep, ExecEntry, ExecStarted, ExecStopPoint, ExecOpen, ExecNarrate,
         ExecBudgetStop, ExecParsed, ExecAuthorized, ExecPhases, ExecFetched, ExecAnalyze, ExecEmit,
         ExecJudged, ExecCompose, ExecSummarized, ExecClose, ExecSave, ExecEnd, ExecStopped,
         ExecHistory, ExecException, Local, StageEvent, PhaseCommit, Attempt, env

\* The types the arithmetic below rests on.
LEMMA LogTypes ==
  ASSUME TypeOK
  PROVE  /\ row \in Row /\ row.seq \in Nat /\ run \in Run /\ run.seq \in Nat /\ run.owed \in Nat
         /\ events \subseteq Event /\ \A e \in events : e.seq \in Nat
         /\ msgs \subseteq Nat /\ metered \in Nat /\ faults \in Nat /\ lost \in Nat
         /\ job \in [Reapers -> Job \cup {NoJob}] /\ stream \in [Conns -> Stream]
         /\ \A c \in Conns : stream[c].cursor \in Nat
  BY DEF TypeOK, Row, Run, Event, Stream

\* A step of the executor that leaves the store alone.
LEMMA IdlePreserves ==
  ASSUME TypeOK, TypeOK', StoreInv, CursorInv, ExecIdle, Live, ~Claiming,
         UNCHANGED <<stream, job, lost>>, faults' = 0 => faults = 0
  PROVE  StoreInv' /\ CursorInv'
<1> USE LogTypes DEF StoreInv
<1>1. ~Claiming' BY DEF Claiming
<1>2. /\ (Terminal' <=> Terminal) /\ (Held' <=> Held) /\ (Logged' <=> Logged)
      /\ row' = row /\ events' = events /\ msgs' = msgs /\ metered' = metered
  BY DEF Terminal, Held, Logged, ExecIdle
<1>3. run'.seq \in Nat BY DEF TypeOK, Run
<1>4. SeqInv'
  <2> SUFFICES ASSUME Live'
               PROVE  /\ row.seq <= run'.seq
                      /\ run'.pc \notin {"entry", "start"} => run'.seq >= 1
    BY <1>1, <1>2 DEF SeqInv
  <2>1. run'.pc \notin {"done", "net"} BY DEF Live, LivePcs, StopPcs, NarratePcs
  <2> QED BY <1>2, <1>3, <2>1 DEF ExecIdle, SeqInv
<1>5. LogInv' BY <1>2 DEF LogInv
<1>6. JobInv' BY <1>2 DEF JobInv, ExecIdle
<1>7. MeterInv' BY <1>2 DEF MeterInv, ExecIdle
<1>8. CursorInv' BY <1>2 DEF CursorInv, CursorOK
<1> QED BY <1>4, <1>5, <1>6, <1>7, <1>8

\* Events past the watermark replace nothing.
LEMMA PutAppends ==
  ASSUME TypeOK, NEW evs, NEW b \in Nat, \A e \in events : e.seq <= b,
         \A e \in evs : e.seq \in Nat /\ b < e.seq
  PROVE  Put(evs) = events \cup evs
<1>1. \A e \in events : e.seq \in Nat BY LogTypes
<1>2. \A e \in events : \A f \in evs : f.seq # e.seq BY <1>1
<1> QED BY <1>2 DEF Put

\* A step of the executor that logs progress.
LEMMA AppendPreserves ==
  ASSUME TypeOK, TypeOK', StoreInv, CursorInv, NEW evs, NEW ms, Appends(evs, ms),
         row.status = "running", Live, ~Held, ~Claiming,
         UNCHANGED <<stream, job, lost>>, faults' = 0 => faults = 0
  PROVE  StoreInv' /\ CursorInv'
<1> USE LogTypes DEF StoreInv
<1>0. /\ row'.seq \in Nat /\ run'.seq \in Nat /\ \A e \in events' : e.seq \in Nat
      /\ row.seq <= run.seq /\ ~Claiming'
  BY DEF TypeOK, Row, Run, Event, SeqInv, Claiming
<1>1. row'.status = "running" /\ ~Terminal /\ ~Terminal' /\ ~Held'
  BY DEF Appends, Terminal, TERMINAL_STATUSES, Held
<1>a. evs \subseteq events' BY DEF Appends, Put
<1>2. events' = events \cup evs
  <2>1. \A e \in events : e.seq <= run.seq BY <1>0 DEF LogInv
  <2>2. \A e \in evs : e.seq \in Nat /\ run.seq < e.seq BY <1>0, <1>a DEF Appends
  <2>3. Put(evs) = events \cup evs BY <2>1, <2>2, PutAppends
  <2> QED BY <2>3 DEF Appends
<1>3. ~Logged /\ ~Logged'
  BY <1>1, <1>2 DEF LogInv, Logged, IsTerminal, Appends, TERMINAL_NAMES, TERMINAL_STATUSES
<1>4. row.seq <= row'.seq /\ row'.seq = run'.seq /\ row'.seq >= 1 BY <1>0 DEF Appends
<1>5. SeqInv' BY <1>0, <1>4 DEF SeqInv
<1>6. LogInv'
  <2>1. \A e \in events' : e.seq <= row'.seq BY <1>0, <1>2, <1>4 DEF LogInv, Appends
  <2> QED BY <1>1, <1>3, <2>1 DEF LogInv, Logged
<1>7. JobInv' BY <1>1 DEF JobInv, Held
<1>8. MeterInv'
  <2>1. \A m \in msgs' : m = 1 \/ m <= row'.seq BY <1>0, <1>1, <1>4 DEF MeterInv, Appends
  <2> QED BY <1>1, <2>1 DEF MeterInv, Appends
<1>9. CursorInv'
  <2>1. \A c \in Conns : stream[c].phantoms = {} => stream[c].cursor <= row'.seq
    BY <1>0, <1>4 DEF CursorInv, CursorOK
  <2> QED BY <1>1, <1>3, <2>1 DEF CursorInv, CursorOK, Logged
<1> QED BY <1>5, <1>6, <1>7, <1>8, <1>9

\* The terminal commit.
LEMMA FinishPreserves ==
  ASSUME TypeOK, TypeOK', StoreInv, CursorInv, NEW evs, NEW t, Finishes(evs, t),
         row.status = "running", Live, ~Held, ~Claiming,
         UNCHANGED <<stream, job, lost>>, faults' = 0 => faults = 0
  PROVE  StoreInv' /\ CursorInv'
<1> USE LogTypes DEF StoreInv
<1>0. /\ row'.seq \in Nat /\ run'.seq \in Nat /\ \A e \in events' : e.seq \in Nat
      /\ row.seq <= run.seq /\ ~Claiming'
  BY DEF TypeOK, Row, Run, Event, SeqInv, Claiming
<1>1. ~Terminal /\ Terminal' /\ ~Held'
  BY DEF Finishes, Terminal, TERMINAL_STATUSES, Held
<1>a. evs \subseteq events' BY DEF Finishes, Put
<1>2. events' = events \cup evs
  <2>1. \A e \in events : e.seq <= run.seq BY <1>0 DEF LogInv
  <2>2. \A e \in evs : e.seq \in Nat /\ run.seq < e.seq BY <1>0, <1>a DEF Finishes
  <2>3. Put(evs) = events \cup evs BY <2>1, <2>2, PutAppends
  <2> QED BY <2>3 DEF Finishes
<1>3. ~Logged BY <1>1 DEF LogInv
<1>4. t \in events' /\ IsTerminal(t) /\ \A e \in events' : IsTerminal(e) => e = t
  BY <1>2, <1>3 DEF Finishes, Logged
<1>5. row.seq < row'.seq /\ run.seq < t.seq BY <1>0 DEF Finishes
<1>6. SeqInv'
  <2>1. Live' => run'.pc = "history" BY DEF Finishes, Live, LivePcs, StopPcs, NarratePcs
  <2> QED BY <1>0, <1>5, <2>1 DEF SeqInv, Finishes
<1>7. LogInv'
  <2>1. \A e \in events' : e.seq <= row'.seq BY <1>0, <1>2, <1>5 DEF LogInv, Finishes
  <2> QED BY <1>1, <1>4, <2>1 DEF LogInv, Logged
<1>8. JobInv' BY <1>1 DEF JobInv, Held
<1>9. MeterInv' BY <1>1 DEF MeterInv, Finishes
<1>10. CursorInv'
  <2>1. \A c \in Conns : stream[c].phantoms = {} =>
          stream[c].cursor <= row'.seq /\ stream[c].cursor < t.seq
    <3>1. t.seq \in Nat BY <1>0, <1>4
    <3> QED BY <1>0, <1>5, <3>1 DEF CursorInv, CursorOK
  <2> QED BY <1>1, <1>4, <2>1 DEF CursorInv, CursorOK
<1> QED BY <1>6, <1>7, <1>8, <1>9, <1>10

\* Every step of the executor between undisturbed states preserves the invariant.
LEMMA ExecOutcome ==
  ASSUME SafetyInv, TypeOK', Undisturbed, Undisturbed', StoreInv, CursorInv, ExecStep
  PROVE  StoreInv' /\ CursorInv'
<1> USE DEF SafetyInv, TypeInv, TInv
<1>0. ExecEffect /\ stream' = stream /\ job' = job BY ExecStepEffect, ExecAlone
<1>1. Live /\ run.pc # "none" BY <1>0 DEF ExecEffect, Live, LivePcs, StopPcs, NarratePcs
<1>2. ~Claiming BY <1>1 DEF ClaimInv, Claiming
<1>3. lost' = lost /\ (faults' = 0 => faults = 0) BY ExecCounts
<1>4. run.pc # "history" => row.status = "running" /\ ~Held
  BY <1>1 DEF UndisturbedInv, Held
<1>5. run.pc = "end" => \A i \in {1, 2} : run.seq + i \notin msgs
  <2> SUFFICES ASSUME run.pc = "end" PROVE \A i \in {1, 2} : run.seq + i \notin msgs OBVIOUS
  <2>1. ~Terminal BY <1>4 DEF Terminal, TERMINAL_STATUSES
  <2>2. run.seq >= 1 /\ row.seq <= run.seq BY <1>1 DEF StoreInv, SeqInv
  <2>3. \A m \in msgs : m = 1 \/ m <= row.seq BY <2>1 DEF StoreInv, MeterInv
  <2> QED BY <2>2, <2>3, LogTypes
<1>6. ExecLog BY <1>5, ExecStepLog DEF StoreInv
<1>7. CASE ExecIdle BY <1>0, <1>1, <1>2, <1>3, <1>7, IdlePreserves
<1>8. CASE ~ExecIdle
  <2>1. run.pc # "history"
    <3>1. SUFFICES ASSUME run.pc = "history" PROVE ExecIdle BY <1>8
    <3>2. ExecHistory
      BY <3>1 DEF ExecStep, ExecEntry, ExecStarted, ExecStopPoint, ExecOpen, ExecNarrate,
         ExecBudgetStop, ExecParsed, ExecAuthorized, ExecPhases, ExecFetched, ExecAnalyze, ExecEmit,
         ExecJudged, ExecCompose, ExecSummarized, ExecClose, ExecSave, ExecEnd, ExecStopped,
         ExecException, StopPcs, NarratePcs
    <3>3. Local(DoneRun) BY <3>2 DEF ExecHistory, Undisturbed, TypeOK
    <3> QED BY <3>3 DEF Local, ExecIdle, db, DoneRun, NoRun
  <2>2. ASSUME NEW evs, NEW ms, Appends(evs, ms) PROVE StoreInv' /\ CursorInv'
    BY <1>0, <1>1, <1>2, <1>3, <1>4, <2>1, <2>2, AppendPreserves
  <2>3. ASSUME NEW evs, NEW t, Finishes(evs, t) PROVE StoreInv' /\ CursorInv'
    BY <1>0, <1>1, <1>2, <1>3, <1>4, <2>1, <2>3, FinishPreserves
  <2> QED BY <1>6, <1>8, <2>2, <2>3 DEF ExecLog
<1> QED BY <1>7, <1>8

\* What the other actors' quiet steps do to the run and to the reapers' records: the run
\* goes on unmoved or is over, and a record is dropped only by being lost.
RunCalm == run' = DoneRun \/ (run'.pc = run.pc /\ run'.seq = run.seq /\ run'.owed = run.owed)
JobCalm == \A r \in Reapers : job'[r] = job[r] \/ (job'[r] = NoJob /\ lost' > 0)

\* A run that is over is not live.
LEMMA CalmRun ==
  ASSUME RunCalm PROVE /\ Live' => Live /\ run'.pc = run.pc /\ run'.seq = run.seq
                       /\ run'.pc = "history" => run.pc = "history"
                       /\ run'.owed = run.owed \/ run'.owed = 0
  BY DEF RunCalm, Live, LivePcs, StopPcs, NarratePcs, DoneRun, NoRun

\* A step that writes nothing, claims nothing and reaps nothing.
LEMMA CalmPreserves ==
  ASSUME TypeOK, StoreInv, CursorInv, UNCHANGED <<row, events, msgs, metered>>,
         RunCalm, JobCalm, Claiming' => Claiming /\ run' = run,
         lost' >= lost, lost' \in Nat, faults' = 0 => faults = 0
  PROVE  /\ StoreInv'
         /\ \A c \in Conns : stream'[c] = stream[c] => CursorOK(c)'
<1> USE LogTypes DEF StoreInv
<1>1. /\ Live' => Live /\ run'.pc = run.pc /\ run'.seq = run.seq
      /\ run'.pc = "history" => run.pc = "history"
      /\ run'.owed = run.owed \/ run'.owed = 0
  BY CalmRun
<1>2. (Terminal' <=> Terminal) /\ (Logged' <=> Logged) /\ (Held' => Held)
  BY DEF Terminal, Logged, Held, JobCalm
<1>3. Held => Held' \/ lost' > 0 BY DEF Held, JobCalm
<1>4. SeqInv' BY <1>1 DEF SeqInv
<1>5. LogInv'
  <2>1. lost > 0 => lost' > 0 OBVIOUS
  <2> QED BY <1>2, <1>3, <2>1 DEF LogInv
<1>6. JobInv'
  <2>1. \A r \in Reapers : job'[r] # NoJob => job'[r] = job[r] BY DEF JobCalm
  <2> QED BY <1>1, <2>1 DEF JobInv
<1>7. MeterInv' BY <1>1, <1>2 DEF MeterInv
<1>8. \A c \in Conns : stream'[c] = stream[c] => CursorOK(c)'
  BY <1>2 DEF CursorInv, CursorOK
<1> QED BY <1>4, <1>5, <1>6, <1>7, <1>8

\* The compare-and-set of a reaper takes the next sequence, which nobody has seen.
LEMMA ReserveOutcome ==
  ASSUME SafetyInv, Undisturbed, StoreInv, CursorInv, NEW r \in Reapers, NEW cat, NEW m,
         Reserve(r, cat, m), Stale \/ Abandoned, UNCHANGED <<run, lost, faults>>, StreamQuiet
  PROVE  /\ StoreInv'
         /\ \A c \in Conns : (/\ stream'[c].cursor = stream[c].cursor
                              /\ stream'[c].phantoms = stream[c].phantoms) => CursorOK(c)'
<1> USE LogTypes, TimeAssumption DEF SafetyInv, TypeInv, TInv, StoreInv
<1>1. ~Live /\ ~Claiming
  <2>1. CASE Stale BY <2>1, StaleIsDead
  <2>2. CASE Abandoned BY <2>2 DEF Abandoned, ClaimInv, Live, LivePcs, StopPcs, NarratePcs
  <2> QED BY <2>1, <2>2
<1>2. ~Live' /\ ~Claiming' /\ run'.pc # "history" BY <1>1 DEF Live, Claiming, LivePcs, StreamQuiet
<1>3. row.status \in {"pending", "running"} /\ ~Terminal
  BY DEF Stale, Abandoned, Terminal, TERMINAL_STATUSES
<1>4. ~Held /\ ~Logged BY <1>3 DEF UndisturbedInv, Held, LogInv
<1>5. /\ row'.seq = row.seq + 1 /\ row'.status = "failed" /\ events' = events /\ metered' = metered
      /\ job' = [job EXCEPT ![r] = [seq |-> row.seq + 1, msg |-> m, category |-> cat]]
  BY DEF Reserve, Failed
<1>6. job'[r].seq = row.seq + 1 /\ job'[r] # NoJob BY <1>5 DEF NoJob
<1>7. \A q \in Reapers : job'[q] # NoJob => q = r BY <1>4, <1>5 DEF Held
<1>8. Terminal' /\ ~Logged' /\ Held'
  BY <1>4, <1>5, <1>6 DEF Terminal, TERMINAL_STATUSES, Logged, Held
<1>9. SeqInv' BY <1>2 DEF SeqInv
<1>10. \A e \in events' : e.seq < row'.seq BY <1>5 DEF LogInv
<1>11. LogInv'
  <2>1. \A e \in events' : e.seq <= row'.seq BY <1>5 DEF LogInv
  <2> QED BY <1>8, <2>1 DEF LogInv, Logged
<1>12. JobInv' BY <1>2, <1>5, <1>6, <1>7, <1>8, <1>10 DEF JobInv, Logged
<1>13. MeterInv' BY <1>3, <1>5, <1>8 DEF MeterInv
<1>14. ASSUME NEW c \in Conns, stream'[c].cursor = stream[c].cursor,
              stream'[c].phantoms = stream[c].phantoms
       PROVE  CursorOK(c)'
  <2>1. stream[c].phantoms = {} => stream[c].cursor <= row.seq BY DEF CursorInv, CursorOK
  <2>2. stream[c].phantoms = {} => stream[c].cursor < row'.seq BY <1>5, <2>1
  <2>3. \A e \in events' : ~IsTerminal(e) BY <1>8 DEF Logged
  <2>4. row'.seq \in Nat BY <1>5
  <2> QED BY <1>14, <2>2, <2>3, <2>4 DEF CursorOK
<1> QED BY <1>9, <1>11, <1>12, <1>13, <1>14

\* The reaper's second transaction writes the one terminal event, at its reserved
\* sequence, which no client has passed.
LEMMA PersistOutcome ==
  ASSUME SafetyInv, Undisturbed, StoreInv, CursorInv, NEW r \in Reapers, job[r] # NoJob,
         PersistWrite(r), RunCalm, StreamQuiet
  PROVE  /\ StoreInv' /\ job[r].seq = row'.seq
         /\ \A c \in Conns : stream'[c] = stream[c] => CursorOK(c)'
<1> USE LogTypes DEF SafetyInv, TypeInv, TInv, StoreInv
<1> DEFINE t == Ev(row.seq, "failed")
<1>1. /\ job[r].seq = row.seq /\ run.pc # "history" /\ Held
      /\ \A e \in events : e.seq < row.seq /\ ~IsTerminal(e)
      /\ \A q \in Reapers : job[q] # NoJob => q = r
  BY DEF JobInv, Held
<1>2. ~Live /\ ~Claiming BY <1>1 DEF UndisturbedInv
<1>3. ~Live' /\ ~Claiming' BY <1>2, CalmRun DEF Claiming, StreamQuiet
<1>4. row'.seq = row.seq /\ Terminal' /\ metered' = metered + 1 /\ faults' = faults
  BY <1>1 DEF PersistWrite, Upsert, Failed, Terminal, TERMINAL_STATUSES
<1>5. events' = events \cup {t}
  BY <1>1 DEF PersistWrite, Upsert, Put, Ev
<1>6. IsTerminal(t) /\ t.seq = row.seq /\ t \in events' /\ \A e \in events' : IsTerminal(e) => e = t
  BY <1>1, <1>5 DEF IsTerminal, Ev, TERMINAL_NAMES, TERMINAL_STATUSES
<1> HIDE DEF t
<1>7. \A q \in Reapers : job'[q] = NoJob BY <1>1 DEF PersistWrite
<1>8. ~Held' BY <1>7 DEF Held
<1>9. SeqInv' BY <1>3 DEF SeqInv
<1>10. LogInv'
  <2>1. \A e \in events' : e.seq <= row'.seq BY <1>1, <1>4, <1>5, <1>6
  <2> QED BY <1>4, <1>6, <2>1 DEF LogInv, Logged
<1>11. JobInv' BY <1>7 DEF JobInv
<1>12. MeterInv' BY <1>1, <1>4, <1>8 DEF MeterInv
<1>13. ASSUME NEW c \in Conns, stream'[c] = stream[c] PROVE CursorOK(c)'
  BY <1>1, <1>4, <1>6, <1>8, <1>13 DEF CursorInv, CursorOK
<1> QED BY <1>1, <1>4, <1>9, <1>10, <1>11, <1>12, <1>13

\* The reaper's second transaction aborts: the record is lost.
LEMMA PersistFailsCalm ==
  ASSUME TypeOK, NEW r \in Reapers, PersistFails(r)
  PROVE  /\ UNCHANGED <<row, events, msgs, metered>> /\ JobCalm
         /\ lost' >= lost /\ lost' \in Nat /\ lost' > 0 /\ (faults' = 0 => faults = 0)
  BY LogTypes DEF PersistFails, db, JobCalm

\* A record that its holder drops is counted as lost.
LEMMA DropCalm ==
  ASSUME TypeOK, NEW r \in Reapers, job' = [job EXCEPT ![r] = NoJob],
         lost' = IF job[r] = NoJob THEN lost ELSE lost + 1
  PROVE  JobCalm /\ lost' >= lost /\ lost' \in Nat
  BY LogTypes DEF JobCalm

\* Crashes, the deadline, the sweeps and the executor's last resort.
LEMMA RecoveryOutcome ==
  ASSUME SafetyInv, Undisturbed, StoreInv, CursorInv,
         ExecDies \/ DeadlinePasses \/ NetReap \/ NetPersist
         \/ \E s \in Sweepers : SweepStep(s) \/ SweeperDies(s)
  PROVE  StoreInv' /\ CursorInv'
<1> USE DEF SafetyInv, TypeInv, TInv
<1>0. Executor \in Reapers /\ run \in Run /\ lost \in Nat /\ faults \in Nat
  BY LogTypes DEF Reapers
<1>a. stream' = stream
  BY DEF ExecDies, DeadlinePasses, NetReap, NetPersist, SweepStep, SweepStale, SweepAbandoned,
         SweepPersist, SweeperDies, Local
<1>b. StreamQuiet /\ (Claiming' <=> Claiming) BY <1>a DEF StreamQuiet, Claiming
<1>c. Claiming => run.pc = "none" BY DEF ClaimInv, Claiming
<1>d. ASSUME \A c \in Conns : stream'[c] = stream[c] => CursorOK(c)' PROVE CursorInv'
  BY <1>a, <1>d DEF CursorInv
<1>1. ASSUME ExecDies PROVE StoreInv' /\ CursorInv'
  <2>1. run.pc # "none" BY <1>1 DEF ExecDies, Live, LivePcs, StopPcs, NarratePcs
  <2>2. JobCalm /\ lost' >= lost /\ lost' \in Nat BY <1>0, <1>1, DropCalm DEF ExecDies
  <2>3. RunCalm /\ UNCHANGED <<row, events, msgs, metered>> /\ faults' = faults
    BY <1>1 DEF ExecDies, RunCalm, db
  <2> QED BY <1>b, <1>c, <1>d, <2>1, <2>2, <2>3, CalmPreserves
<1>2. ASSUME DeadlinePasses PROVE StoreInv' /\ CursorInv'
  <2>1. RunCalm /\ run.pc # "none"
    BY <1>0, <1>2 DEF DeadlinePasses, Local, RunCalm, Run, Live, LivePcs, StopPcs, NarratePcs
  <2>2. JobCalm /\ lost' = lost /\ UNCHANGED <<row, events, msgs, metered>> /\ faults' = faults
    BY <1>2 DEF DeadlinePasses, Local, JobCalm, db, env
  <2> QED BY <1>0, <1>b, <1>c, <1>d, <2>1, <2>2, CalmPreserves
<1>3. ASSUME NetReap PROVE StoreInv' /\ CursorInv'
  <2>1. CASE Stale /\ Reserve(Executor, "executor_lost", row.seq + 1) /\ UNCHANGED run
    <3>1. UNCHANGED <<run, lost, faults>> BY <1>3, <2>1 DEF NetReap, env
    <3>2. StoreInv' /\ \A c \in Conns : CursorOK(c)'
      BY <1>0, <1>a, <1>b, <2>1, <3>1, ReserveOutcome
    <3> QED BY <3>2 DEF CursorInv
  <2>2. CASE run' = DoneRun /\ UNCHANGED <<db, job>>
    <3>1. RunCalm /\ JobCalm /\ run.pc # "none" /\ lost' = lost /\ faults' = faults
          /\ UNCHANGED <<row, events, msgs, metered>>
      BY <1>3, <2>2 DEF NetReap, RunCalm, JobCalm, env, db
    <3> QED BY <1>0, <1>b, <1>c, <1>d, <3>1, CalmPreserves
  <2> QED BY <1>3, <2>1, <2>2 DEF NetReap
<1>4. ASSUME NetPersist PROVE StoreInv' /\ CursorInv'
  <2>1. run.pc # "none" /\ job[Executor] # NoJob /\ RunCalm BY <1>4 DEF NetPersist, RunCalm
  <2>2. CASE PersistWrite(Executor) BY <1>0, <1>b, <1>d, <2>1, <2>2, PersistOutcome
  <2>3. CASE PersistFails(Executor)
    BY <1>0, <1>b, <1>c, <1>d, <2>1, <2>3, PersistFailsCalm, CalmPreserves
  <2> QED BY <1>4, <2>2, <2>3 DEF NetPersist
<1>5. ASSUME NEW s \in Sweepers, SweepStep(s) \/ SweeperDies(s) PROVE StoreInv' /\ CursorInv'
  <2>0. s \in Reapers /\ run' = run /\ RunCalm
    BY <1>5 DEF Reapers, SweepStep, SweepStale, SweepAbandoned, SweepPersist, SweeperDies, exec,
                RunCalm
  <2>1. CASE SweepStale(s) \/ SweepAbandoned(s)
    <3>1. UNCHANGED <<run, lost, faults>> BY <2>1 DEF SweepStale, SweepAbandoned, exec, env
    <3>2. PICK cat, m : Reserve(s, cat, m) /\ (Stale \/ Abandoned)
      BY <2>1 DEF SweepStale, SweepAbandoned
    <3>3. StoreInv' /\ \A c \in Conns : CursorOK(c)'
      BY <1>a, <1>b, <2>0, <3>1, <3>2, ReserveOutcome
    <3> QED BY <3>3 DEF CursorInv
  <2>2. CASE SweepPersist(s)
    <3>1. CASE PersistWrite(s)
      BY <1>b, <1>d, <2>0, <2>2, <3>1, PersistOutcome DEF SweepPersist
    <3>2. CASE PersistFails(s) BY <1>b, <1>d, <2>0, <3>2, PersistFailsCalm, CalmPreserves
    <3> QED BY <2>2, <3>1, <3>2 DEF SweepPersist
  <2>3. CASE SweeperDies(s)
    <3>1. JobCalm /\ lost' >= lost /\ lost' \in Nat /\ faults' = faults
          /\ UNCHANGED <<row, events, msgs, metered>>
      BY <1>0, <2>0, <2>3, DropCalm DEF SweeperDies, db
    <3> QED BY <1>b, <1>d, <2>0, <3>1, CalmPreserves
  <2> QED BY <1>5, <2>1, <2>2, <2>3 DEF SweepStep
<1> QED BY <1>1, <1>2, <1>3, <1>4, <1>5

\* The cursor after a delivery is the old one or the sequence of a delivered event.
LEMMA LastOfIn ==
  ASSUME TInv, NEW evs \in SUBSET events, NEW cursor \in Nat
  PROVE  LastOf(evs, cursor) \in SeqsOf(evs) \cup {cursor}
<1> DEFINE S == SeqsOf(evs) \cup {cursor}
<1>1. PICK b \in Nat : \A e \in events : e.seq <= b BY DEF TInv, EventSet
<1>2. S \in SUBSET Nat /\ S # {} BY DEF SeqsOf, TInv, TypeOK, Event
<1>3. \A x \in S : x <= b + cursor BY <1>1 DEF SeqsOf, TInv, TypeOK, Event
<1>4. b + cursor \in Nat OBVIOUS
<1> HIDE DEF S
<1>5. \E x \in S : \A y \in S : y <= x BY <1>2, <1>3, <1>4, NatMax
<1> QED BY <1>5 DEF LastOf, S

\* The first of a non-empty delivery is the sequence of one of its events.
LEMMA FirstOfIn ==
  ASSUME TInv, NEW evs \in SUBSET events, evs # {}
  PROVE  FirstOf(evs) \in SeqsOf(evs)
<1> DEFINE S == SeqsOf(evs)
<1>1. S \in SUBSET Nat /\ S # {} BY DEF SeqsOf, TInv, TypeOK, Event
<1> HIDE DEF S
<1>2. \E x \in S : \A y \in S : x <= y BY <1>1, NatMin
<1> QED BY <1>2 DEF FirstOf, S

\* Delivering logged events takes a cursor to the watermark at most, and not to a
\* sequence that is reserved and unwritten.
LEMMA DeliveredOK ==
  ASSUME TypeOK, StoreInv, CursorInv, NEW c \in Conns, stream[c].phantoms = {},
         NEW s \in {e.seq : e \in events} \cup {stream[c].cursor}
  PROVE  s <= row.seq /\ (Held => s < row.seq)
<1>1. CASE s = stream[c].cursor BY <1>1 DEF CursorInv, CursorOK
<1>2. CASE s \in {e.seq : e \in events} BY <1>2 DEF StoreInv, LogInv, JobInv, Held
<1> QED BY <1>1, <1>2

\* A stream that only reads.  It keeps delivering only from a cursor before every
\* terminal event.
LEMMA ReadOutcome ==
  ASSUME SafetyInv, Undisturbed, StoreInv, CursorInv, NEW c \in Conns,
         Replay(c) \/ CheckStatus(c) \/ ReplayTail(c) \/ Follow(c) \/ Connect(c) \/ FollowTimeout(c)
  PROVE  CursorOK(c)'
<1> USE DEF SafetyInv, TypeInv, TInv
<1>0. /\ stream \in [Conns -> Stream] /\ stream[c].cursor \in Nat /\ row.seq \in Nat
      /\ After(c) \in SUBSET events /\ TerminalAfter(c) \in SUBSET events
  BY LogTypes DEF After, TerminalAfter
<1>1. UNCHANGED <<row, events, job>>
  BY DEF Replay, CheckStatus, ReplayTail, Follow, Connect, FollowTimeout, Reads, ReadOnly, db
<1>2. (Held' <=> Held) /\ (Terminal' <=> Terminal) BY <1>1 DEF Held, Terminal
<1>3. LastOf(After(c), stream[c].cursor) \in {e.seq : e \in events} \cup {stream[c].cursor}
  BY <1>0, LastOfIn DEF SeqsOf
<1>4. ASSUME NEW pc, NEW s \in {e.seq : e \in events} \cup {stream[c].cursor}, Move(c, pc, s),
             pc \in Delivering /\ stream[c].phantoms = {} =>
               \A e \in events : IsTerminal(e) => s < e.seq
      PROVE  CursorOK(c)'
  <2>1. /\ stream'[c].pc = pc /\ stream'[c].cursor = s
        /\ stream'[c].phantoms = stream[c].phantoms
    BY <1>0, <1>4 DEF Move, Position
  <2>2. stream[c].phantoms = {} => s <= row.seq /\ (Held => s < row.seq)
    BY <1>4, DeliveredOK
  <2> QED BY <1>1, <1>2, <1>4, <2>1, <2>2 DEF CursorOK
<1>5. CASE Replay(c) \/ ReplayTail(c)
  <2>1. PICK pc \in {"check", "ended", "cut"} : Move(c, pc, LastOf(After(c), stream[c].cursor))
    BY <1>5 DEF Replay, ReplayTail, Reads
  <2> QED BY <1>3, <1>4, <2>1 DEF Delivering
<1>6. CASE CheckStatus(c)
  <2>1. CASE Terminal BY <1>4, <1>6, <2>1 DEF CheckStatus, Reads, Delivering
  <2>2. CASE ~Terminal
    <3>1. \A e \in events : ~IsTerminal(e) BY <2>2 DEF StoreInv, LogInv, Logged
    <3> QED BY <1>4, <1>6, <2>2, <3>1 DEF CheckStatus, Reads
  <2> QED BY <2>1, <2>2
<1>7. CASE Follow(c)
  <2>1. CASE TerminalAfter(c) = {}
    <3>1. stream[c].phantoms = {} => \A e \in events : ~IsTerminal(e)
      <4>1. stream[c].phantoms = {} =>
              \A e \in events : IsTerminal(e) => stream[c].cursor < e.seq
        BY <1>7 DEF Follow, CursorInv, CursorOK, Delivering
      <4>2. \A e \in events : IsTerminal(e) => ~(stream[c].cursor < e.seq)
        BY <2>1 DEF TerminalAfter, After, IsTerminal
      <4> QED BY <4>1, <4>2
    <3>2. Move(c, "heal", LastOf(After(c), stream[c].cursor)) BY <1>7, <2>1 DEF Follow, Reads
    <3> QED BY <1>3, <1>4, <3>1, <3>2
  <2>2. CASE TerminalAfter(c) # {}
    <3>1. FirstOf(TerminalAfter(c)) \in {e.seq : e \in events} BY <1>0, <2>2, FirstOfIn DEF SeqsOf
    <3>2. Move(c, "ended", FirstOf(TerminalAfter(c))) BY <1>7, <2>2 DEF Follow, Reads
    <3> QED BY <1>4, <3>1, <3>2 DEF Delivering
  <2> QED BY <2>1, <2>2
<1>8. CASE Connect(c)
  <2>1. CASE Move(c, "replay", stream[c].cursor) BY <1>4, <2>1 DEF Delivering
  <2>2. CASE stream' = [stream EXCEPT ![c] = Position("replay", 0, {})]
    <3>1. stream'[c].pc = "replay" /\ stream'[c].cursor = 0 BY <1>0, <2>2 DEF Position
    <3>2. Held => row.seq >= 1 BY DEF StoreInv, JobInv, Held
    <3> QED BY <1>0, <1>1, <1>2, <3>1, <3>2 DEF CursorOK, Delivering
  <2> QED BY <1>8, <2>1, <2>2 DEF Connect
<1>9. CASE FollowTimeout(c)
  <2>1. stream'[c].phantoms # {} BY <1>0, <1>9 DEF FollowTimeout, Position
  <2> QED BY <2>1 DEF CursorOK
<1> QED BY <1>5, <1>6, <1>7, <1>8, <1>9

\* Every step of an SSE stream.
LEMMA StreamOutcome ==
  ASSUME SafetyInv, Undisturbed, StoreInv, CursorInv, NEW c \in Conns,
         StreamStep(c) \/ Connect(c) \/ FollowTimeout(c) \/ Disconnect(c)
  PROVE  StoreInv' /\ CursorInv'
<1> USE DEF SafetyInv, TypeInv, TInv
<1>0. /\ stream \in [Conns -> Stream] /\ c \in Reapers /\ lost \in Nat /\ faults \in Nat
      /\ row \in Row /\ row.seq \in Nat /\ run \in Run /\ run.seq \in Nat /\ stream[c].cursor \in Nat
  BY LogTypes DEF Reapers
<1>1. \A d \in Conns : d # c => stream'[d] = stream[d]
  BY <1>0 DEF StreamStep, Replay, CheckStatus, ReplayTail, ClaimRun, SpawnExecutor, Follow, Heal,
              HealPersist, Connect, FollowTimeout, Disconnect, Reads, Move
<1>2. ASSUME \A d \in Conns : stream'[d] = stream[d] => CursorOK(d)', CursorOK(c)'
      PROVE  CursorInv'
  BY <1>1, <1>2 DEF CursorInv
<1>3. ASSUME NEW pc, NEW s, Move(c, pc, s)
      PROVE  /\ stream'[c].pc = pc /\ stream'[c].cursor = s
             /\ stream'[c].phantoms = stream[c].phantoms
             /\ pc # "history" => StreamQuiet /\ (Claiming' => Claiming)
  BY <1>0, <1>3 DEF Move, Position, StreamQuiet, Claiming
\* A stream that writes nothing and moves without delivering.
<1>4. ASSUME NEW pc, pc # "history", Move(c, pc, stream[c].cursor), run' = run, JobCalm,
             UNCHANGED <<row, events, msgs, metered>>, lost' >= lost, lost' \in Nat,
             faults' = 0 => faults = 0, pc \in Delivering => stream[c].pc \in Delivering
      PROVE  StoreInv' /\ CursorInv'
  <2>1. RunCalm BY <1>4 DEF RunCalm
  <2>2. StoreInv' /\ \A d \in Conns : stream'[d] = stream[d] => CursorOK(d)'
    BY <1>3, <1>4, <2>1, CalmPreserves
  <2>3. Held' => Held BY <1>4 DEF Held, JobCalm
  <2>4. CursorOK(c)' BY <1>3, <1>4, <2>3 DEF CursorInv, CursorOK
  <2> QED BY <1>2, <2>2, <2>4
<1>5. CASE Replay(c) \/ CheckStatus(c) \/ ReplayTail(c) \/ Follow(c) \/ Connect(c) \/ FollowTimeout(c)
  <2>1. ReadOnly
    BY <1>5 DEF Replay, CheckStatus, ReplayTail, Follow, Connect, FollowTimeout, Reads
  <2>2. Claiming' => Claiming
    BY <1>0, <1>3, <1>5 DEF Replay, CheckStatus, ReplayTail, Follow, Connect, FollowTimeout, Reads,
       Position, Claiming
  <2>3. RunCalm /\ JobCalm /\ run' = run /\ lost' = lost /\ faults' = faults
        /\ UNCHANGED <<row, events, msgs, metered>>
    BY <2>1 DEF ReadOnly, RunCalm, JobCalm, db, exec, env
  <2>4. StoreInv' /\ \A d \in Conns : stream'[d] = stream[d] => CursorOK(d)'
    BY <1>0, <2>2, <2>3, CalmPreserves
  <2>5. CursorOK(c)' BY <1>5, ReadOutcome
  <2> QED BY <1>2, <2>4, <2>5
<1>6. CASE Disconnect(c)
  <2>1. JobCalm /\ lost' >= lost /\ lost' \in Nat BY <1>0, <1>6, DropCalm DEF Disconnect
  <2> QED BY <1>0, <1>4, <1>6, <2>1 DEF Disconnect, db, exec, env, Delivering
<1>7. CASE ClaimRun(c)
  <2>0. stream[c].pc \in Delivering BY <1>7 DEF ClaimRun, Delivering
  <2>1. CASE row.status # "pending"
    <3>1. JobCalm BY <1>7 DEF ClaimRun, JobCalm
    <3> QED BY <1>0, <1>4, <1>7, <2>0, <2>1, <3>1 DEF ClaimRun, env
  <2>2. CASE row.status = "pending"
    <3>1. /\ row'.status = "running" /\ row'.seq = row.seq
          /\ run'.pc = "none" /\ run'.seq = row.seq /\ run'.owed = 0
          /\ UNCHANGED <<events, msgs, metered, job, lost, faults>>
          /\ Move(c, "history", stream[c].cursor)
      BY <1>0, <1>7, <2>2 DEF ClaimRun, Row, NoRun, env
    <3>2. ~Terminal /\ ~Terminal' /\ (Held' <=> Held) /\ (Logged' <=> Logged) /\ ~Live'
      BY <2>2, <3>1 DEF Terminal, TERMINAL_STATUSES, Held, Logged, Live, LivePcs, StopPcs, NarratePcs
    <3>3. ~Logged BY <3>2 DEF StoreInv, LogInv
    <3>4. SeqInv' BY <1>0, <3>1, <3>2 DEF SeqInv
    <3>5. LogInv' BY <3>1, <3>2 DEF StoreInv, LogInv
    <3>6. JobInv' BY <3>1 DEF StoreInv, JobInv
    <3>7. MeterInv' BY <3>1, <3>2 DEF StoreInv, MeterInv
    <3>8. stream'[c].cursor = stream[c].cursor /\ stream'[c].phantoms = stream[c].phantoms
      BY <1>3, <3>1
    <3>9. CursorInv' BY <1>1, <3>1, <3>2, <3>3, <3>8 DEF CursorInv, CursorOK, Logged
    <3> QED BY <3>4, <3>5, <3>6, <3>7, <3>9 DEF StoreInv
  <2> QED BY <2>1, <2>2
<1>8. CASE SpawnExecutor(c)
  <2>1. /\ run'.pc = "entry" /\ run'.seq = run.seq /\ run'.owed = run.owed
        /\ UNCHANGED <<row, events, msgs, metered, job, lost, faults>>
        /\ Move(c, "follow", stream[c].cursor) /\ stream[c].pc \in Delivering /\ Claiming
    BY <1>0, <1>8 DEF SpawnExecutor, Run, db, env, Delivering, Claiming
  <2>2. (Held' <=> Held) /\ (Logged' <=> Logged) /\ (Terminal' <=> Terminal)
    BY <2>1 DEF Held, Logged, Terminal
  <2>3. SeqInv' BY <2>1 DEF StoreInv, SeqInv
  <2>4. LogInv' BY <2>1, <2>2 DEF StoreInv, LogInv
  <2>5. JobInv' BY <2>1 DEF StoreInv, JobInv
  <2>6. MeterInv' BY <2>1, <2>2 DEF StoreInv, MeterInv
  <2>7. stream'[c].cursor = stream[c].cursor /\ stream'[c].phantoms = stream[c].phantoms
    BY <1>3, <2>1
  <2>8. CursorInv' BY <1>1, <2>1, <2>2, <2>7 DEF CursorInv, CursorOK
  <2> QED BY <2>3, <2>4, <2>5, <2>6, <2>8 DEF StoreInv
<1>9. CASE Heal(c)
  <2>0. stream[c].pc \in Delivering BY <1>9 DEF Heal, Delivering
  <2>1. CASE ~Stale
    <3>1. JobCalm /\ run' = run /\ lost' = lost /\ faults' = faults
          /\ UNCHANGED <<row, events, msgs, metered>> /\ Move(c, "follow", stream[c].cursor)
      BY <1>9, <2>1 DEF Heal, JobCalm, db, exec, env
    <3> QED BY <1>0, <1>4, <2>0, <3>1
  <2>2. CASE Stale
    <3>1. /\ Reserve(c, "executor_lost", row.seq + 1) /\ Move(c, "healing", stream[c].cursor)
          /\ UNCHANGED <<run, lost, faults>>
      BY <1>9, <2>2 DEF Heal, exec, env
    <3>2. /\ StreamQuiet /\ stream'[c].cursor = stream[c].cursor
          /\ stream'[c].phantoms = stream[c].phantoms
      BY <1>3, <3>1
    <3>3. StoreInv' /\ CursorOK(c)' /\ \A d \in Conns : stream'[d] = stream[d] => CursorOK(d)'
      BY <1>0, <2>2, <3>1, <3>2, ReserveOutcome
    <3> QED BY <1>2, <3>3
  <2> QED BY <2>1, <2>2
<1>10. CASE HealPersist(c)
  <2>0. job[c] # NoJob /\ run' = run BY <1>10 DEF HealPersist, HealingOK, exec
  <2>1. CASE PersistWrite(c) /\ Move(c, "ended", job[c].seq)
    <3>1. StreamQuiet /\ RunCalm BY <1>3, <2>0, <2>1 DEF RunCalm
    <3>2. /\ StoreInv' /\ job[c].seq = row'.seq
          /\ \A d \in Conns : stream'[d] = stream[d] => CursorOK(d)'
      BY <1>0, <2>0, <2>1, <3>1, PersistOutcome
    <3>3. ~Held'
      BY <1>0, <2>0, <2>1, LogTypes DEF PersistWrite, Held, StoreInv, JobInv
    <3>4. job[c].seq \in Nat BY <2>0, <1>0 DEF StoreInv, JobInv
    <3>5. CursorOK(c)' BY <1>3, <2>1, <3>2, <3>3, <3>4 DEF CursorOK, Delivering
    <3> QED BY <1>2, <3>2, <3>5
  <2>2. CASE PersistFails(c) /\ Move(c, "idle", stream[c].cursor)
    BY <1>0, <1>4, <2>0, <2>2, PersistFailsCalm DEF Delivering
  <2> QED BY <1>10, <2>1, <2>2 DEF HealPersist
<1> QED BY <1>5, <1>6, <1>7, <1>8, <1>9, <1>10 DEF StreamStep

\* A refused cancel call and the passing of time write nothing.
LEMMA CalmOutcome ==
  ASSUME SafetyInv, Undisturbed, Undisturbed', StoreInv, CursorInv,
         Tick \/ UNCHANGED vars \/ \E k \in Cancels : CancelRead(k) \/ CancelStep(k)
  PROVE  StoreInv' /\ CursorInv'
<1> USE DEF SafetyInv, TypeInv, TInv
<1>0. run \in Run /\ lost \in Nat BY LogTypes
<1>1. /\ UNCHANGED <<row, events, msgs, metered, stream, job, lost, faults>>
      /\ run'.pc = run.pc /\ run'.seq = run.seq /\ run'.owed = run.owed
      /\ run' = run \/ Tick
  <2>1. CASE Tick BY <1>0, <2>1 DEF Tick, Run, env
  <2>2. CASE UNCHANGED vars BY <2>2 DEF vars, db, exec, env
  <2>3. ASSUME NEW k \in Cancels, CancelRead(k) \/ CancelStep(k)
        PROVE  UNCHANGED <<row, events, msgs, metered, stream, job, lost, faults, run>>
    <3>1. creq[k].phase \in {"idle", "refused"} BY DEF Undisturbed, NoCancel
    <3>2. CancelRead(k) BY <2>3, <3>1 DEF CancelStep, CancelCommit, CancelSignal
    <3> QED BY <3>2 DEF CancelRead, db, exec, env
  <2> QED BY <2>1, <2>2, <2>3
<1>2. (Live' <=> Live) /\ (Claiming' <=> Claiming) /\ (Terminal' <=> Terminal)
      /\ (Held' <=> Held) /\ (Logged' <=> Logged)
  BY <1>1 DEF Live, Claiming, Terminal, Held, Logged
<1>3. SeqInv' BY <1>1, <1>2 DEF StoreInv, SeqInv
<1>4. LogInv' BY <1>1, <1>2 DEF StoreInv, LogInv
<1>5. JobInv' BY <1>1, <1>2 DEF StoreInv, JobInv
<1>6. MeterInv' BY <1>1, <1>2 DEF StoreInv, MeterInv
<1>7. CursorInv' BY <1>1, <1>2 DEF CursorInv, CursorOK
<1> QED BY <1>3, <1>4, <1>5, <1>6, <1>7 DEF StoreInv

\* A disturbed interaction is never undisturbed again.
LEMMA DisturbedForGood == ASSUME TypeOK, [Next]_vars, Undisturbed' PROVE Undisturbed
<1>0. creq \in [Cancels -> [phase : CancelPhase, seq : Nat]] /\ historyFaults \in Nat
  BY DEF TypeOK
<1>a. ASSUME UNCHANGED <<creq, historyFaults>> PROVE Undisturbed
  BY <1>a DEF Undisturbed, NoCancel
<1>1. CASE ExecStep BY <1>0, <1>1, ExecEnv DEF Undisturbed, NoCancel
<1>2. CASE ExecDies \/ DeadlinePasses \/ NetReap \/ NetPersist \/ Tick \/ UNCHANGED vars
  BY <1>2, <1>a DEF ExecDies, DeadlinePasses, NetReap, NetPersist, Tick, Local, env, vars
<1>3. ASSUME NEW s \in Sweepers, SweepStep(s) \/ SweeperDies(s) PROVE Undisturbed
  BY <1>3, <1>a DEF SweepStep, SweepStale, SweepAbandoned, SweepPersist, SweeperDies, env
<1>4. ASSUME NEW c \in Conns, StreamStep(c) \/ Connect(c) \/ FollowTimeout(c) \/ Disconnect(c)
      PROVE  Undisturbed
  BY <1>4, <1>a DEF StreamStep, Replay, CheckStatus, ReplayTail, ClaimRun, SpawnExecutor, Follow,
     Heal, HealPersist, Connect, FollowTimeout, Disconnect, Reads, ReadOnly, env
<1>5. ASSUME NEW k \in Cancels, CancelRead(k) \/ CancelStep(k) PROVE Undisturbed
  BY <1>0, <1>5 DEF Undisturbed, NoCancel, CancelRead, CancelStep, CancelCommit, CancelSignal, env
<1> QED BY <1>1, <1>2, <1>3, <1>4, <1>5 DEF Next

-----------------------------------------------------------------------------
(* The invariant, and the theorems.                                        *)

\* The initial states satisfy the invariant: an empty log under a zero watermark.
LEMMA OutcomeInit == Init => OutcomeInv
<1> SUFFICES ASSUME Init PROVE OutcomeInv OBVIOUS
<1>1. /\ row.seq = 0 /\ ~Terminal /\ ~Live /\ ~Claiming /\ ~Held /\ ~Logged
      /\ run.owed = 0 /\ events = {} /\ msgs = {1} /\ metered = 0
      /\ \A c \in Conns : stream[c].cursor = 0
  BY DEF Init, Terminal, TERMINAL_STATUSES, Live, LivePcs, StopPcs, NarratePcs, Claiming, Held,
         Logged, NoRun, Position
<1>2. SeqInv /\ LogInv /\ MeterInv BY <1>1 DEF SeqInv, LogInv, MeterInv
<1>3. JobInv BY <1>1 DEF JobInv, Held
<1>4. CursorInv BY <1>1 DEF CursorInv, CursorOK
<1> QED BY <1>2, <1>3, <1>4 DEF OutcomeInv, StoreInv

\* Every step preserves it.
LEMMA OutcomeNext == SafetyInv /\ OutcomeInv /\ [Next]_vars => OutcomeInv'
<1> SUFFICES ASSUME SafetyInv, OutcomeInv, [Next]_vars, Undisturbed' PROVE StoreInv' /\ CursorInv'
  BY DEF OutcomeInv
<1>0. TypeOK BY DEF SafetyInv, TypeInv, TInv
<1>1. Undisturbed /\ StoreInv /\ CursorInv BY <1>0, DisturbedForGood DEF OutcomeInv
<1>2. TypeOK' BY TypeNext DEF SafetyInv, TypeInv, TInv
<1>3. CASE ExecStep BY <1>1, <1>2, <1>3, ExecOutcome
<1>4. CASE \/ ExecDies \/ DeadlinePasses \/ NetReap \/ NetPersist
           \/ \E s \in Sweepers : SweepStep(s) \/ SweeperDies(s)
  BY <1>1, <1>4, RecoveryOutcome
<1>5. ASSUME NEW c \in Conns, StreamStep(c) \/ Connect(c) \/ FollowTimeout(c) \/ Disconnect(c)
      PROVE  StoreInv' /\ CursorInv'
  BY <1>1, <1>5, StreamOutcome
<1>6. CASE Tick \/ UNCHANGED vars \/ \E k \in Cancels : CancelRead(k) \/ CancelStep(k)
  BY <1>1, <1>6, CalmOutcome
<1> QED BY <1>3, <1>4, <1>5, <1>6 DEF Next

\* The invariant holds in every reachable state.
LEMMA OutcomeHolds == Spec => [](SafetyInv /\ OutcomeInv)
  BY SafetyInit, SafetyNext, OutcomeInit, OutcomeNext, PTL DEF Spec

\* The sequence a sweep or a heal reserves is free: `sequence_watermark` in the row never
\* falls behind the log the executor writes, through every crash and aborted commit.
THEOREM WatermarkHolds == Spec => []WatermarkCoversLog
<1>1. OutcomeInv => WatermarkCoversLog BY DEF OutcomeInv, StoreInv, LogInv, WatermarkCoversLog
<1> QED BY <1>1, OutcomeHolds, PTL

\* The executor's terminal commit, the sweeps and the self-healing streams never log two
\* outcomes of one interaction, nor meter it twice while no transaction is aborted.
THEOREM OutcomeIsUnique == Spec => []OneOutcome
<1>1. OutcomeInv => OneOutcome
  BY DEF OutcomeInv, StoreInv, LogInv, MeterInv, IsTerminal, OneOutcome
<1> QED BY <1>1, OutcomeHolds, PTL

\* Once nobody works on it, a terminal row and a terminal event in the log imply each
\* other, unless a reaped record was lost between the sweep's two transactions.
THEOREM FinishedMeansLogged == Spec => []FinishedIsLogged
<1>1. OutcomeInv => FinishedIsLogged
  <2> SUFFICES ASSUME OutcomeInv, Undisturbed, lost = 0, Quiet PROVE Terminal <=> Logged
    BY DEF FinishedIsLogged, Logged, IsTerminal
  <2>1. ~Held /\ ~(lost > 0) BY DEF Quiet, Held
  <2> QED BY <2>1 DEF OutcomeInv, StoreInv, LogInv
<1> QED BY <1>1, OutcomeHolds, PTL

\* No client that received the terminal event is on a stream that goes on delivering.
THEOREM TerminalEndsDelivery == Spec => []NoDeliveryPastTerminal
<1>1. SafetyInv /\ OutcomeInv => NoDeliveryPastTerminal
  <2> SUFFICES ASSUME SafetyInv, OutcomeInv, Undisturbed, NEW c \in Conns, NEW e \in events,
                      IsTerminal(e), stream[c].phantoms = {}, stream[c].cursor >= e.seq
               PROVE  stream[c].pc \notin Delivering
    BY DEF NoDeliveryPastTerminal, IsTerminal, Delivering
  <2>1. stream[c].cursor \in Nat /\ e.seq \in Nat BY LogTypes DEF SafetyInv, TypeInv, TInv
  <2>2. stream[c].pc \in Delivering => stream[c].cursor < e.seq
    BY DEF OutcomeInv, CursorInv, CursorOK
  <2> QED BY <2>1, <2>2
<1> QED BY <1>1, OutcomeHolds, PTL

=============================================================================
