------------------------ MODULE ScheduledPipelineProofs ------------------------
(***************************************************************************)
(* TLAPS proofs about ScheduledPipeline, for every number of logical runs, *)
(* workers, parts, attempts and task retries, and whether or not anything  *)
(* but the task keeps a logical run from being run twice at once.          *)
(*                                                                         *)
(* The argument.  A call is made for a task that is not running and makes  *)
(* it running until the call ends, so the task itself is what keeps a call *)
(* alone with its logical run, and all that is known of such callers       *)
(* (PipelineRunnerProofs, SerialInv) holds here.  A call of run_pipeline   *)
(* gets past its first statement only for a run without a row; the row it  *)
(* commits before its end is RUNNING.  A new day begins when no call for   *)
(* the run is left.                                                        *)
(***************************************************************************)
EXTENDS ScheduledPipeline, PipelineRunnerProofs

TaskRow == [state : {"none", "running", "up_for_retry", "success", "failed"}, tries : 0..TaskAttempts]

\* An attempt is left where Airflow starts one.
TaskLimit(l) ==
    /\ task[l].state = "none" => task[l].tries = 0
    /\ task[l].state = "up_for_retry" => task[l].tries < TaskAttempts
    /\ task[l].state = "success" => db[l].run.status # "ABSENT"

\* A call belongs to a running task; past its first statement no other has
\* ended the run.
TaskOfCall(s) ==
    at[s].pc # "out" =>
        /\ task[Run(s)].state = "running"
        /\ at[s].pc \notin {"lookup", "reopen"}
        /\ at[s].pc # "insert" => db[Run(s)].run.status \in {"ABSENT", "RUNNING"}

ScheduleInv ==
    /\ SerialInv
    /\ task \in [Runs -> TaskRow]
    /\ \A l \in Runs : TaskLimit(l)
    /\ \A s \in Sessions : TaskOfCall(s)

-----------------------------------------------------------------------------
(* A step of the schedule is a step of the runner.                         *)

LEMMA BusyCalls ==
    ASSUME IInv, NEW s \in Sessions
    PROVE  /\ Busy(s) <=> at[s].pc # "out"
           /\ Busy(s) => Run(s) \in Runs
  BY RunnerAssumption DEF IInv, ControlInv, Busy, Run, Outside

LEMMA ScheduleIsRunner ==
    ASSUME NEW s \in Sessions, ScheduleStep(s)
    PROVE  SessionNext(s)
<1>1. CASE \E l \in Runs : Launch(s, l)
  BY <1>1 DEF Launch, SessionNext
<1>2. CASE Continue(s)
  BY <1>2 DEF Continue, SessionNext
<1>3. CASE Report(s) \/ ReportSkipped(s)
  BY <1>3 DEF Report, ReportSkipped, SessionNext, Step
<1>4. CASE LoseWorker(s)
  BY <1>4 DEF LoseWorker, SessionNext, Step, Fault
<1>. QED  BY <1>1, <1>2, <1>3, <1>4 DEF ScheduleStep

LEMMA SessionIsNext ==
    ASSUME NEW s \in Sessions, SessionNext(s)
    PROVE  Next
  BY DEF SessionNext, Next

\* What a step of the schedule does to the calls and their tasks.
Starts(s, l) ==
    /\ task[l].state \in {"none", "up_for_retry"}
    /\ at[s].pc = "out" /\ at'[s].pc = "insert" /\ Run(s)' = l
    /\ db' = db
    /\ task' = [task EXCEPT ![l] = [state |-> "running", tries |-> @.tries + 1]]

Proceeds(s) == GoesOn(s) /\ (Step(s) \/ Fault(s)) /\ task' = task

Finishes(s) ==
    /\ at[s].pc # "out" /\ at'[s] = Outside
    /\ \E state \in {"success", "up_for_retry", "failed"} :
          /\ task' = [task EXCEPT ![Run(s)].state = state]
          /\ state = "up_for_retry" => task[Run(s)].tries < TaskAttempts
          /\ state = "success" => Report(s) \/ ReportSkipped(s)
          /\ state = "success" => (at[s].pc = "exit" => at[s].result # "FAILED")

LEMMA StartProceedFinish ==
    ASSUME ScheduleInv, NEW s \in Sessions, ScheduleStep(s)
    PROVE  (\E l \in Runs : Starts(s, l)) \/ Proceeds(s) \/ Finishes(s)
<1>0. IInv /\ TypeOK /\ ControlInv(s) /\ at \in [Sessions -> AtRow] /\ task \in [Runs -> TaskRow]
  BY DEF ScheduleInv, SerialInv, IInv, TypeOK
<1>1. ASSUME NEW l \in Runs, Launch(s, l)
      PROVE  Starts(s, l)
  <2>1. /\ at[s].pc = "out" /\ db' = db
        /\ at' = [at EXCEPT ![s] = [Outside EXCEPT !.pc = "insert", !.run = l, !.call = last[l] + 1]]
    BY <1>1 DEF Launch, Enter
  <2>2. at'[s] = [Outside EXCEPT !.pc = "insert", !.run = l, !.call = last[l] + 1]
    BY <1>0, <2>1
  <2>3. at'[s].pc = "insert" /\ at'[s].run = l
    BY <2>2 DEF Outside
  <2>. QED  BY <1>1, <2>1, <2>3 DEF Launch, Starts, Run
<1>2. CASE Continue(s)
  <2>1. at[s].pc # "out" /\ at'[s].pc # "out"
    BY <1>0, <1>2, BusyCalls DEF Continue
  <2>2. SessionNext(s)
    BY ScheduleIsRunner
  <2>3. GoesOn(s)
    <3>1. Begins(s) \/ Leaves(s) \/ GoesOn(s)
      BY <1>0, <2>2, BeginEndOrGoOn
    <3>2. ~Begins(s)
      BY <2>1 DEF Begins
    <3>3. ~Leaves(s)
      BY <2>1 DEF Leaves, Outside
    <3>. QED  BY <3>1, <3>2, <3>3
  <2>. QED  BY <1>2, <2>3 DEF Continue, Proceeds
<1>3. CASE Report(s) \/ ReportSkipped(s) \/ LoseWorker(s)
  <2>1. at[s].pc # "out" /\ at'[s] = Outside
    <3>1. CASE Exit(s) \/ Crash(s)
      BY <1>0, <3>1 DEF Exit, Crash, Drop
    <3>2. CASE StartRun(s) /\ at'[s].pc = "out"
      <4>1. at[s].pc = "insert" /\ SessionNext(s)
        BY <3>2 DEF StartRun, SessionNext, Step
      <4>. QED  BY <1>0, <3>2, <4>1, BeginEndOrGoOn DEF Begins, Leaves, GoesOn
    <3>. QED  BY <1>3, <3>1, <3>2 DEF Report, ReportSkipped, LoseWorker
  <2>2. CASE EndsBadly(Run(s))
    BY <2>1, <2>2 DEF EndsBadly, Ends, Finishes
  <2>3. CASE /\ Ends(Run(s), "success") /\ (Report(s) \/ ReportSkipped(s))
             /\ (at[s].pc = "exit" => at[s].result # "FAILED")
    BY <2>1, <2>3 DEF Ends, Finishes
  <2>4. ReportSkipped(s) => at[s].pc # "exit"
    BY DEF ReportSkipped, StartRun
  <2>. QED  BY <1>3, <2>2, <2>3, <2>4 DEF Report, ReportSkipped, LoseWorker
<1>. QED  BY <1>1, <1>2, <1>3 DEF ScheduleStep

-----------------------------------------------------------------------------
(* The steps preserve the invariant.                                       *)

\* The task keeps the call alone with its run.
LEMMA TasksKeepAlone ==
    ASSUME ScheduleInv, NEW s \in Sessions, ScheduleStep(s), NEW t \in Sessions
    PROVE  Alone(t)'
<1>0. /\ IInv /\ TypeOK /\ SessionNext(s)
      /\ \A u \in Sessions : ControlInv(u) /\ Alone(u) /\ TaskOfCall(u)
  BY ScheduleIsRunner DEF ScheduleInv, SerialInv, IInv
<1>1. \A v \in Sessions \ {s} : Run(v)' = Run(v)
  BY <1>0, OthersStay DEF Run
<1>2. CASE \E l \in Runs : Starts(s, l)
  <2>1. PICK l \in Runs : Starts(s, l)
    BY <1>2
  <2>2. ASSUME NEW v \in Sessions
        PROVE  Run(v) # l
    <3>1. CASE at[v].pc = "out"
      BY <1>0, <3>1, RunnerAssumption DEF ControlInv, Run, Outside
    <3>2. CASE at[v].pc # "out"
      BY <1>0, <2>1, <3>2 DEF TaskOfCall, Starts
    <3>. QED  BY <3>1, <3>2
  <2>3. Run(s)' = l
    BY <2>1 DEF Starts
  <2>. QED  BY <1>0, <1>1, <2>2, <2>3 DEF Alone
<1>3. CASE Proceeds(s)
  <2>1. Run(s)' = Run(s)
    BY <1>3 DEF Proceeds, GoesOn, Run
  <2>. QED  BY <1>0, <1>1, <2>1 DEF Alone
<1>4. CASE Finishes(s)
  <2>1. Run(s)' = NoRun
    BY <1>4 DEF Finishes, Run, Outside
  <2>. QED  BY <1>0, <1>1, <2>1 DEF Alone
<1>. QED  BY <1>2, <1>3, <1>4, StartProceedFinish

\* What is stored of the runs of tasks that have ended stays.
LEMMA EndedRunsStay ==
    ASSUME ScheduleInv, NEW s \in Sessions, ScheduleStep(s), NEW l \in Runs, task[l].state = "success"
    PROVE  db'[l] = db[l]
<1>1. IInv /\ SessionNext(s) /\ TaskOfCall(s) /\ ControlInv(s)
  BY ScheduleIsRunner DEF ScheduleInv, SerialInv, IInv
<1>2. l # Run(s)
  <2>1. CASE at[s].pc = "out"
    BY <1>1, <2>1, RunnerAssumption DEF ControlInv, Run, Outside
  <2>2. CASE at[s].pc # "out"
    BY <1>1, <2>2 DEF TaskOfCall
  <2>. QED  BY <2>1, <2>2
<1>. QED  BY <1>1, <1>2, OtherRunsStay

\* A call that goes on is a call of run_pipeline, alone with a run that has not
\* ended: what it commits on its way is RUNNING.
LEMMA ProceedingCall ==
    ASSUME ScheduleInv, NEW s \in Sessions, ScheduleStep(s), Proceeds(s)
    PROVE  TaskOfCall(s)'
<1>0. /\ IInv /\ SessionNext(s) /\ TaskOfCall(s) /\ ControlInv(s) /\ SerialRunInv(s)
      /\ TypeOK /\ at \in [Sessions -> AtRow]
  BY ScheduleIsRunner DEF ScheduleInv, SerialInv, IInv, TypeOK
<1>1. /\ at[s].pc # "out" /\ at'[s].pc # "out" /\ Run(s)' = Run(s) /\ task' = task
      /\ Run(s) \in Runs
  BY <1>0 DEF Proceeds, GoesOn, Run, ControlInv
<1>. DEFINE Going == db'[Run(s)].run.status \in {"ABSENT", "RUNNING"}
<1>2. CASE at[s].pc = "insert"
  <2>1. StartRun(s)
    BY <1>0, <1>1, <1>2
    DEF SessionNext, Step, Fault, Enter, StartRun, LookupRun, ReopenRun, StartStage, CompleteStage,
        RecordStage, FailStage, ClaimBatch, LoadPart, HeartbeatBatch, CompleteBatch, Rollback,
        FailBatch, Build, CompleteRun, FailRun, Exit, RaiseInStage, FailIngestion, Crash, Drop,
        Outside
  <2>2. /\ SeenRun(s).status = "ABSENT" /\ db' = db
        /\ at' = [at EXCEPT ![s].pc = "begin", ![s].id = at[s].call]
    BY <1>0, <1>1, <2>1 DEF StartRun, Drop, Outside
  <2>3. pend[s].run = NoWrite
    BY <1>0, <1>2 DEF ControlInv, Entering, NoWrites
  <2>4. Going
    BY <2>2, <2>3 DEF SeenRun, Seen
  <2>5. at'[s].pc = "begin"
    BY <1>0, <2>2 DEF AtRow
  <2>. QED  BY <1>0, <1>1, <2>4, <2>5 DEF TaskOfCall
<1>3. CASE at[s].pc # "insert"
  <2>1. at'[s].pc \notin {"lookup", "reopen"}
    <3>0. at[s].pc \notin {"out", "insert", "lookup", "reopen"}
      BY <1>0, <1>1, <1>3 DEF TaskOfCall
    <3>1. ASSUME NEW label, label \notin {"lookup", "reopen"}, Goto(s, label)
          PROVE  at'[s].pc \notin {"lookup", "reopen"}
      BY <1>0, <3>1 DEF Goto
    <3>2. CASE StartStage(s)
      BY <1>0, <3>2 DEF StartStage, AtRow
    <3>3. CASE RecordStage(s)
      BY <1>0, <3>1, <3>3 DEF RecordStage, AtRow
    <3>4. CASE FailBatch(s)
      BY <1>0, <3>1, <3>4 DEF FailBatch, AtRow
    <3>5. CASE CompleteRun(s) \/ FailRun(s) \/ Exit(s)
      BY <1>0, <3>5 DEF CompleteRun, FailRun, Exit, AtRow, Outside
    <3>6. CASE Fault(s)
      BY <1>0, <3>1, <3>6 DEF Fault, RaiseInStage, Crash, Drop, FailIngestion, AtRow, Outside
    <3>7. CASE \/ CompleteStage(s) \/ FailStage(s) \/ ClaimBatch(s) \/ LoadPart(s)
               \/ HeartbeatBatch(s) \/ CompleteBatch(s) \/ Rollback(s) \/ Build(s)
      BY <3>1, <3>7
      DEF CompleteStage, FailStage, ClaimBatch, LoadPart, HeartbeatBatch, CompleteBatch, Rollback, Build
    <3>. QED
      BY <1>0, <3>0, <3>2, <3>3, <3>4, <3>5, <3>6, <3>7
      DEF SessionNext, Step, Enter, StartRun, LookupRun, ReopenRun
  <2>2. Going
    <3>1. CASE db' = db
      BY <1>0, <1>1, <1>3, <3>1 DEF TaskOfCall
    <3>2. CASE Commits(s)
      <4>1. at[s].pc # "exit"
        <5>1. at[s].pc = "exit" => Exit(s) \/ Crash(s)
          BY <1>0
          DEF SessionNext, Step, Fault, Enter, StartRun, LookupRun, ReopenRun, StartStage,
              CompleteStage, RecordStage, FailStage, ClaimBatch, LoadPart, HeartbeatBatch,
              CompleteBatch, Rollback, FailBatch, Build, CompleteRun, FailRun, RaiseInStage,
              FailIngestion
        <5>2. Exit(s) \/ Crash(s) => at'[s] = Outside
          BY <1>0 DEF Exit, Crash, Drop
        <5>3. Outside.pc = "out"
          BY DEF Outside
        <5>. QED  BY <1>1, <5>1, <5>2, <5>3
      <4>2. at[s].pc \in {"record", "load"}
        BY <3>2, <4>1 DEF Commits
      <4>3. SeenRun(s).status = "RUNNING"
        BY <1>0, <4>2 DEF SerialRunInv, Executing, Holds
      <4>4. db'[Run(s)].run = SeenRun(s)
        BY <1>0, <1>1, <3>2, InCall, CommitFacts DEF Commits
      <4>. QED  BY <4>3, <4>4
    <3>3. CASE FailsBatch(s)
      <4>1. db'[Run(s)].run = db[Run(s)].run
        BY <1>0, <1>1, <3>3, FailFacts
      <4>. QED  BY <1>0, <1>1, <1>3, <4>1 DEF TaskOfCall
    <3>. QED  BY <1>0, <3>1, <3>2, <3>3, StoreStep
  <2>. QED  BY <1>0, <1>1, <2>1, <2>2 DEF TaskOfCall
<1>. QED  BY <1>2, <1>3

\* A task turns green on a run that others can see.
LEMMA GreenRunIsStored ==
    ASSUME ScheduleInv, NEW s \in Sessions, ScheduleStep(s), Report(s) \/ ReportSkipped(s),
           at[s].pc = "exit" => at[s].result # "FAILED", at[s].pc # "out"
    PROVE  db'[Run(s)].run.status # "ABSENT"
<1>0. IInv /\ SessionNext(s) /\ ControlInv(s) /\ SerialRunInv(s) /\ TypeOK /\ Run(s) \in Runs
  BY ScheduleIsRunner DEF ScheduleInv, SerialInv, IInv, ControlInv
<1>1. CASE Report(s)
  <2>1. at[s].pc = "exit" /\ CommitWith(s, db[Run(s)].parts)
    BY <1>1 DEF Report, Exit
  <2>2. SeenRun(s).status = "SUCCESS"
    BY <1>0, <2>1 DEF SerialRunInv
  <2>3. db'[Run(s)].run = SeenRun(s)
    BY <1>0, <2>1, InCall, CommitFacts
  <2>. QED  BY <2>2, <2>3
<1>2. CASE ReportSkipped(s)
  <2>1. at[s].pc = "insert" /\ StartRun(s) /\ at'[s].pc = "out" /\ db' = db
    BY <1>2 DEF ReportSkipped, StartRun, Drop
  <2>2. SeenRun(s).status # "ABSENT"
    BY <1>0, <2>1 DEF StartRun, TypeOK, AtRow
  <2>3. pend[s].run = NoWrite
    BY <1>0, <2>1 DEF ControlInv, Entering, NoWrites
  <2>. QED  BY <2>1, <2>2, <2>3 DEF SeenRun, Seen
<1>. QED  BY <1>1, <1>2

LEMMA TasksStep ==
    ASSUME ScheduleInv, NEW s \in Sessions, ScheduleStep(s)
    PROVE  /\ task' \in [Runs -> TaskRow]
           /\ \A l \in Runs : TaskLimit(l)'
           /\ \A t \in Sessions : TaskOfCall(t)'
<1>0. /\ IInv /\ TypeOK /\ SessionNext(s) /\ task \in [Runs -> TaskRow]
      /\ \A u \in Sessions : ControlInv(u) /\ Alone(u) /\ TaskOfCall(u)
      /\ \A l \in Runs : TaskLimit(l)
  BY ScheduleIsRunner DEF ScheduleInv, SerialInv, IInv
<1>1. \A t \in Sessions \ {s} : at'[t] = at[t] /\ Run(t)' = Run(t)
  BY <1>0, OthersStay DEF Run
\* Another call is about another run, whose rows and task stay.
<1>2. ASSUME NEW t \in Sessions \ {s}, at[t].pc # "out" => task'[Run(t)] = task[Run(t)] /\ Run(t) # Run(s)
      PROVE  TaskOfCall(t)'
  <2>1. CASE at[t].pc = "out"
    BY <1>1, <2>1 DEF TaskOfCall
  <2>2. CASE at[t].pc # "out"
    <3>1. db'[Run(t)] = db[Run(t)]
      BY <1>0, <1>2, <2>2, OtherRunsStay DEF ControlInv
    <3>. QED  BY <1>0, <1>1, <1>2, <2>2, <3>1 DEF TaskOfCall
  <2>. QED  BY <2>1, <2>2
<1>3. ASSUME NEW l \in Runs, task[l].state = "success"
      PROVE  db'[l].run.status # "ABSENT"
  BY <1>0, <1>3, EndedRunsStay DEF TaskLimit
<1>4. ASSUME NEW l \in Runs, Starts(s, l)
      PROVE  /\ task' \in [Runs -> TaskRow]
             /\ \A m \in Runs : TaskLimit(m)'
             /\ \A t \in Sessions : TaskOfCall(t)'
  <2>1. task' = [task EXCEPT ![l] = [state |-> "running", tries |-> task[l].tries + 1]]
    BY <1>4 DEF Starts
  <2>2. task[l].tries + 1 \in 0..TaskAttempts
    <3>1. task[l].tries \in 0..TaskAttempts /\ task[l].tries < TaskAttempts
      BY <1>0, <1>4, TaskAssumption, RunnerAssumption DEF TaskRow, TaskLimit, Starts
    <3>. QED  BY <3>1, TaskAssumption, RunnerAssumption
  <2>3. [state |-> "running", tries |-> task[l].tries + 1] \in TaskRow
    BY <2>2 DEF TaskRow
  <2>4. /\ task' \in [Runs -> TaskRow] /\ task'[l].state = "running"
        /\ \A m \in Runs \ {l} : task'[m] = task[m]
    BY <1>0, <2>1, <2>3
  <2>5. ASSUME NEW m \in Runs
        PROVE  TaskLimit(m)'
    BY <1>0, <1>3, <2>4 DEF TaskLimit
  <2>6. TaskOfCall(s)'
    BY <1>4, <2>4 DEF Starts, TaskOfCall
  <2>7. ASSUME NEW t \in Sessions \ {s}, at[t].pc # "out"
        PROVE  task'[Run(t)] = task[Run(t)] /\ Run(t) # Run(s)
    <3>1. Run(t) # l /\ Run(t) \in Runs
      BY <1>0, <1>4, <2>7 DEF TaskOfCall, ControlInv, Starts
    <3>2. Run(t) # Run(s)
      BY <1>0, <1>4, <3>1, RunnerAssumption DEF ControlInv, Starts, Run, Outside
    <3>. QED  BY <2>4, <3>1, <3>2
  <2>. QED  BY <1>2, <2>4, <2>5, <2>6, <2>7
\* Alone with its run, and so the others' runs are other runs.
<1>5. ASSUME at[s].pc # "out", NEW t \in Sessions \ {s}, at[t].pc # "out"
      PROVE  Run(t) # Run(s) /\ Run(t) \in Runs /\ Run(s) \in Runs
  BY <1>0, <1>5, RunnerAssumption DEF Alone, ControlInv
<1>6. CASE Proceeds(s)
  <2>1. task' = task /\ at[s].pc # "out"
    BY <1>6 DEF Proceeds, GoesOn
  <2>2. ASSUME NEW m \in Runs
        PROVE  TaskLimit(m)'
    BY <1>0, <1>3, <2>1 DEF TaskLimit
  <2>. QED  BY <1>0, <1>2, <1>5, <1>6, <2>1, <2>2, ProceedingCall
<1>7. CASE Finishes(s)
  <2>1. at[s].pc # "out" /\ at'[s] = Outside
    BY <1>7 DEF Finishes
  <2>2. PICK l \in Runs : l = Run(s)
    BY <1>0, <2>1 DEF ControlInv
  <2>3. PICK state \in {"success", "up_for_retry", "failed"} :
            /\ task' = [task EXCEPT ![l].state = state]
            /\ state = "up_for_retry" => task[l].tries < TaskAttempts
            /\ state = "success" => Report(s) \/ ReportSkipped(s)
            /\ state = "success" => (at[s].pc = "exit" => at[s].result # "FAILED")
    BY <1>7, <2>2 DEF Finishes
  <2>4. /\ task' \in [Runs -> TaskRow]
        /\ task'[l].state = state /\ task'[l].tries = task[l].tries
        /\ \A m \in Runs \ {l} : task'[m] = task[m]
    BY <1>0, <2>3 DEF TaskRow
  <2>5. TaskLimit(l)'
    <3>1. state = "success" => db'[l].run.status # "ABSENT"
      BY <2>1, <2>2, <2>3, GreenRunIsStored
    <3>. QED  BY <2>3, <2>4, <3>1 DEF TaskLimit
  <2>6. ASSUME NEW m \in Runs \ {l}
        PROVE  TaskLimit(m)'
    BY <1>0, <1>3, <2>4, <2>6 DEF TaskLimit
  <2>7. TaskOfCall(s)'
    BY <2>1 DEF TaskOfCall, Outside
  <2>8. ASSUME NEW t \in Sessions \ {s}
        PROVE  TaskOfCall(t)'
    BY <1>2, <1>5, <2>1, <2>2, <2>4
  <2>. QED  BY <2>4, <2>5, <2>6, <2>7, <2>8
<1>. QED  BY <1>4, <1>6, <1>7, StartProceedFinish

\* A new day's task finds no call of the day before.
LEMMA NextDayStep ==
    ASSUME ScheduleInv, NEW l \in Runs, NextDay(l)
    PROVE  /\ UNCHANGED vars
           /\ task' \in [Runs -> TaskRow]
           /\ \A m \in Runs : TaskLimit(m)'
           /\ \A t \in Sessions : TaskOfCall(t)'
<1>1. UNCHANGED vars /\ db' = db /\ at' = at
  BY DEF NextDay, vars
<1>2. /\ task' \in [Runs -> TaskRow]
      /\ task'[l].state = "none" /\ task'[l].tries = 0
      /\ \A m \in Runs \ {l} : task'[m] = task[m]
  <2>1. [state |-> "none", tries |-> 0] \in TaskRow
    BY TaskAssumption DEF TaskRow
  <2>. QED  BY <2>1 DEF NextDay, ScheduleInv
<1>3. ASSUME NEW m \in Runs
      PROVE  TaskLimit(m)'
  BY <1>1, <1>2 DEF ScheduleInv, TaskLimit
<1>4. ASSUME NEW t \in Sessions, at[t].pc # "out"
      PROVE  Run(t) \in Runs \ {l}
  BY <1>4 DEF NextDay, ScheduleInv, SerialInv, IInv, ControlInv, TaskOfCall
<1>5. ASSUME NEW t \in Sessions
      PROVE  TaskOfCall(t)'
  BY <1>1, <1>2, <1>4 DEF ScheduleInv, TaskOfCall, Run
<1>. QED  BY <1>1, <1>2, <1>3, <1>5

LEMMA ScheduleInvStep == ScheduleInv /\ [ScheduleNext]_scheduleVars => ScheduleInv'
<1>0. ASSUME ScheduleInv, UNCHANGED vars
      PROVE  SerialInv'
  <2>1. \A t \in Sessions : Alone(t)'
    BY <1>0 DEF ScheduleInv, SerialInv, Alone, Run, vars
  <2>. QED  BY <1>0, <2>1, SerialStepAlone DEF ScheduleInv
<1>1. ASSUME ScheduleInv, UNCHANGED scheduleVars
      PROVE  ScheduleInv'
  <2>1. UNCHANGED vars /\ task' = task /\ db' = db /\ at' = at
    BY <1>1 DEF scheduleVars, vars
  <2>. QED  BY <1>0, <1>1, <2>1 DEF ScheduleInv, TaskLimit, TaskOfCall, Run
<1>2. ASSUME ScheduleInv, NEW s \in Sessions, ScheduleStep(s)
      PROVE  ScheduleInv'
  <2>1. Next
    BY <1>2, ScheduleIsRunner, SessionIsNext
  <2>2. SerialInv'
    BY <1>2, <2>1, TasksKeepAlone, SerialStepAlone DEF ScheduleInv
  <2>. QED  BY <1>2, <2>2, TasksStep DEF ScheduleInv
<1>3. ASSUME ScheduleInv, NEW l \in Runs, NextDay(l)
      PROVE  ScheduleInv'
  BY <1>0, <1>3, NextDayStep DEF ScheduleInv
<1>. QED  BY <1>1, <1>2, <1>3 DEF ScheduleNext

LEMMA ScheduleInvInit == ScheduleInit => ScheduleInv
<1>. SUFFICES ASSUME ScheduleInit PROVE ScheduleInv
  OBVIOUS
<1>1. /\ SerialInv /\ \A s \in Sessions : at[s].pc = "out"
      /\ task = [l \in Runs |-> [state |-> "none", tries |-> 0]]
  BY SerialInit DEF ScheduleInit, Init, Outside
<1>2. [state |-> "none", tries |-> 0] \in TaskRow
  BY TaskAssumption DEF TaskRow
<1>. QED  BY <1>1, <1>2 DEF ScheduleInv, TaskLimit, TaskOfCall

LEMMA ScheduleInductive == ScheduleSpec => []ScheduleInv
  BY ScheduleInvInit, ScheduleInvStep, PTL DEF ScheduleSpec

-----------------------------------------------------------------------------
(* Theorems                                                                *)

\* A task is in one of Airflow's states and is never tried more often than its
\* retries allow.
THEOREM TaskTypes == ScheduleSpec => []TaskTypeOK
<1>1. ScheduleInv => TaskTypeOK
  BY DEF ScheduleInv, SerialInv, IInv, TaskTypeOK, TaskRow
<1>. QED  BY <1>1, ScheduleInductive, PTL

\* A green task has left a pipeline_runs row that others can see: the result
\* SKIPPED is only returned for a row that is committed.
THEOREM GreenTasksHaveRuns == ScheduleSpec => []GreenHasARun
<1>1. ScheduleInv => GreenHasARun
  BY DEF ScheduleInv, TaskLimit, GreenHasARun
<1>. QED  BY <1>1, ScheduleInductive, PTL

\* A retry or a later day's task of a run that is stored as FAILED changes nothing
\* of it: the INSERT finds the row, and nobody calls resume_pipeline.
THEOREM RetriesLeaveStoredRunsAlone == ScheduleSpec => StoredRunIsLeftAlone
<1>1. ASSUME ScheduleInv, [ScheduleNext]_scheduleVars
      PROVE  [\A l \in Runs : db[l].run.status = "FAILED" => db'[l] = db[l]]_scheduleVars
  <2>. SUFFICES ASSUME ScheduleNext, NEW l \in Runs, db[l].run.status = "FAILED"
                PROVE  db'[l] = db[l]
    BY <1>1
  <2>1. CASE \E m \in Runs : NextDay(m)
    BY <2>1 DEF NextDay, vars
  <2>2. ASSUME NEW s \in Sessions, ScheduleStep(s)
        PROVE  db'[l] = db[l]
    <3>1. IInv /\ SessionNext(s) /\ TaskOfCall(s) /\ ControlInv(s)
      BY <1>1, <2>2, ScheduleIsRunner DEF ScheduleInv, SerialInv, IInv
    <3>2. CASE l # Run(s)
      BY <3>1, <3>2, OtherRunsStay
    <3>3. CASE l = Run(s)
      <4>1. at[s].pc # "out"
        BY <3>1, <3>3, RunnerAssumption DEF ControlInv, Run, Outside
      <4>2. at[s].pc = "insert"
        BY <3>1, <3>3, <4>1 DEF TaskOfCall
      <4>. QED  BY <3>1, <4>2, StoreStep DEF Commits, FailsBatch
    <3>. QED  BY <3>2, <3>3
  <2>. QED  BY <2>1, <2>2 DEF ScheduleNext
<1>. QED  BY <1>1, ScheduleInductive, PTL DEF ScheduleSpec, StoredRunIsLeftAlone

\* The tasks' runs follow the lifecycle, although nothing but the task keeps
\* two workers from the same run.
THEOREM ScheduledRunsFollowTheLifecycle == ScheduleSpec => RunsFollowLifecycle
<1>1. ScheduleInit => Lifecycle!Init
  BY LifecycleBegins DEF ScheduleInit
<1>2. ASSUME ScheduleInv, [ScheduleNext]_scheduleVars
      PROVE  [Lifecycle!Next]_Lifecycle!lifecycleVars
  <2>1. [Next]_vars
    BY <1>2, ScheduleIsRunner, SessionIsNext DEF ScheduleNext, scheduleVars, NextDay
  <2>. QED  BY <1>2, <2>1, LifecycleGoesOn DEF ScheduleInv
<1>. QED  BY <1>1, <1>2, ScheduleInductive, PTL DEF ScheduleSpec, RunsFollowLifecycle, Lifecycle!Spec
=============================================================================
