-------------------------- MODULE ScheduledPipeline --------------------------
(***************************************************************************)
(* The Airflow task of airflow/dags/retailpulse_pipeline.py as a caller of *)
(* run_pipeline(): an attempt of the task is one call in a process of its  *)
(* own, and an attempt that fails is repeated while the task has attempts  *)
(* left.  Nobody calls resume_pipeline().  The DAG runs daily, one run at  *)
(* a time; Airflow does not render "{{ ds }}" in the body of the task, so  *)
(* the tasks of all days name the same logical run.                        *)
(***************************************************************************)
EXTENDS PipelineRunner

CONSTANT TaskAttempts   \* 1 + retries of the DAG's default_args

ASSUME TaskAssumption == TaskAttempts \in 1..MaxCalls

VARIABLE task   \* what Airflow shows of each logical run's task of the day

scheduleVars == <<vars, task>>

ScheduleInit ==
    /\ Init
    /\ task = [l \in Runs |-> [state |-> "none", tries |-> 0]]

\* Airflow starts an attempt, and the task calls run_pipeline.
Launch(s, l) ==
    /\ task[l].state \in {"none", "up_for_retry"}
    /\ Enter(s, l, "insert")
    /\ task' = [task EXCEPT ![l] = [state |-> "running", tries |-> @.tries + 1]]

\* The next day's DAG run, for max_active_runs = 1 after this one.  Bound: a day
\* begins with calls enough for its attempts.
NextDay(l) ==
    /\ task[l].state \in {"success", "failed"}
    /\ last[l] + TaskAttempts <= MaxCalls
    /\ task' = [task EXCEPT ![l] = [state |-> "none", tries |-> 0]]
    /\ UNCHANGED vars

Ends(l, state) == task' = [task EXCEPT ![l].state = state]

\* Slip: the number of retries is not limited.
EndsBadlyForEver(l) == Ends(l, "up_for_retry")

EndsBadly(l) == Ends(l, IF task[l].tries < TaskAttempts THEN "up_for_retry" ELSE "failed")

Busy(s) == Run(s) # NoRun

\* The call goes on.
Continue(s) ==
    /\ Busy(s)
    /\ Step(s) \/ Fault(s)
    /\ at'[s].pc # "out"
    /\ UNCHANGED task

\* Slip: the task does not look at result.status.
ReportWhatever(s) == Exit(s) /\ Ends(Run(s), "success")

\* run_pipeline has returned and its connection is committed: the task raises
\* AirflowException if the result is FAILED.
Report(s) ==
    /\ Exit(s)
    /\ IF at[s].result = "FAILED" THEN EndsBadly(Run(s)) ELSE Ends(Run(s), "success")

\* The result is SKIPPED, which is not FAILED.
ReportSkipped(s) ==
    /\ StartRun(s)
    /\ at'[s].pc = "out"
    /\ Ends(Run(s), "success")

\* Slip: nobody notices that a worker is lost.
LoseWorkerUnnoticed(s) ==
    /\ Crash(s) \/ Exit(s)
    /\ UNCHANGED task

\* An exception leaves get_connection(), or the worker dies before or after the
\* last commit.
LoseWorker(s) ==
    /\ Crash(s) \/ Exit(s)
    /\ EndsBadly(Run(s))

ScheduleStep(s) ==
    \/ \E l \in Runs : Launch(s, l)
    \/ Continue(s) \/ Report(s) \/ ReportSkipped(s) \/ LoseWorker(s)

ScheduleNext ==
    \/ \E s \in Sessions : ScheduleStep(s)
    \/ \E l \in Runs : NextDay(l)

ScheduleSpec == ScheduleInit /\ [][ScheduleNext]_scheduleVars

Scheduled(s) == ScheduleStep(s) /\ (Busy(s) => Step(s))

\* Airflow starts due tasks; a running call is scheduled and its lock waits end.
FairScheduleSpec ==
    ScheduleSpec /\ \A s \in Sessions : SF_scheduleVars(Scheduled(s))

-----------------------------------------------------------------------------
\* The task's state matches its attempts.
TaskTypeOK ==
    /\ TypeOK
    /\ task \in [Runs -> [state : {"none", "running", "up_for_retry", "success", "failed"},
                          tries : 0..TaskAttempts]]

\* A task that is green has left a run that others can see, although a run can
\* fail and lose its row.
GreenHasARun ==
    \A l \in Runs : task[l].state = "success" => db[l].run.status # "ABSENT"

\* A run that has once been stored is never executed again from the start: the
\* retry of the task, and the tasks of later days, leave its row and its batch
\* alone.
StoredRunIsLeftAlone ==
    [][\A l \in Runs : db[l].run.status = "FAILED" => db'[l] = db[l]]_scheduleVars

\* Every task that was started becomes green or red.
TasksEnd ==
    \A l \in Runs : task[l].state # "none" ~> task[l].state \in {"success", "failed"}

\* "raises AirflowException on PipelineStatus.FAILED", so that the outer layer
\* can repeat the run: a green task has a run that is SUCCESS.
GreenMeansSuccess ==
    \A l \in Runs : task[l].state = "success" => db[l].run.status = "SUCCESS"
=============================================================================
