--------------------------- MODULE PipelineRunner ---------------------------
(***************************************************************************)
(* run_pipeline() and resume_pipeline() with the stage runner and its      *)
(* retries: one pipeline_runs row per logical run, one pipeline_stage_runs *)
(* row per attempt of a stage, both written on the connection that the     *)
(* stages themselves use.                                                  *)
(*                                                                         *)
(* The runner never commits its own writes.  They become durable when      *)
(* ingestion commits a part, when a finished stage's record count is       *)
(* stored, or when get_connection() ends; and ingestion's rollback discards *)
(* them.  Ingestion is what module TransactionIngestion says it is, seen   *)
(* from the outside: it claims the batch, commits part after part, and     *)
(* returns, raises, or rolls back and raises.                              *)
(***************************************************************************)
EXTENDS Integers, Postgres

CONSTANTS
    Runs,           \* logical runs (logical_run_id); each has one batch
    Sessions,       \* processes, one connection each
    NoRun,
    NumParts,       \* physical parts of a batch
    StageAttempts,  \* DEFAULT_RETRY_CONFIG.max_attempts
    BatchAttempts,  \* ingestion_batches.max_attempts
    MaxCalls,       \* bound: calls of run_pipeline or resume_pipeline per logical run
    OneAtATime      \* does the caller never run a logical run twice at once?

ASSUME RunnerAssumption ==
    /\ NumParts \in Nat \ {0}
    /\ StageAttempts \in Nat \ {0}
    /\ BatchAttempts \in Nat \ {0}
    /\ MaxCalls \in Nat
    /\ OneAtATime \in BOOLEAN
    /\ NoRun \notin Runs

Stages == {"transaction_ingestion", "analytics_build"}
Slots == Stages \X (1..StageAttempts)   \* (stage, attempt) of one execution

\* id stands for pipeline_run_id: the number of the call that inserted the row.
RunRow == [status : {"ABSENT", "RUNNING", "FAILED", "SUCCESS"},
           id : 0..MaxCalls, ingested : BOOLEAN]
BatchRow == [status : {"ABSENT", "STARTED", "FAILED", "COMPLETED"},
             attempts : 0..BatchAttempts]
StageStatus == {"ABSENT", "RUNNING", "FAILED", "SUCCESS"}

ASSUME NoRowAssumption ==
    NoWrite \notin RunRow /\ NoWrite \notin BatchRow /\ NoWrite \notin StageStatus

VARIABLES
    db,     \* committed rows of each logical run: its run, batch, parts, stages
    pend,   \* each session's uncommitted writes
    at,     \* each session's program counter and local variables
    last    \* calls for each logical run so far: a supply of fresh ids

vars == <<db, pend, at, last>>

Labels == {"out", "insert", "lookup", "reopen", "begin", "claim", "load",
           "heartbeat", "rollback", "failBatch", "build", "stageDone", "record",
           "stageFailed", "complete", "fail", "exit"}

NoWrites == [run |-> NoWrite, batch |-> NoWrite, stages |-> [w \in Slots |-> NoWrite]]

Outside == [pc |-> "out", run |-> NoRun, call |-> 0, id |-> 0,
            stage |-> "transaction_ingestion", attempt |-> 0,
            quality |-> FALSE, masked |-> FALSE, ingested |-> FALSE, result |-> "none"]

Init ==
    /\ db = [l \in Runs |->
               [run |-> [status |-> "ABSENT", id |-> 0, ingested |-> FALSE],
                batch |-> [status |-> "ABSENT", attempts |-> 0],
                parts |-> 0,
                stages |-> [e \in 1..MaxCalls |-> [w \in Slots |-> "ABSENT"]]]]
    /\ pend = [s \in Sessions |-> NoWrites]
    /\ at = [s \in Sessions |-> Outside]
    /\ last = [l \in Runs |-> 0]

-----------------------------------------------------------------------------
(* What a session sees, waits for, and commits.                            *)

Run(s) == at[s].run
SeenRun(s) == Seen(pend[s].run, db[Run(s)].run)
SeenBatch(s) == Seen(pend[s].batch, db[Run(s)].batch)
Slot(s) == <<at[s].stage, at[s].attempt>>
SeenStage(s) == Seen(pend[s].stages[Slot(s)], db[Run(s)].stages[at[s].call][Slot(s)])

RunLocked(s) == \E t \in Sessions \ {s} : Run(t) = Run(s) /\ pend[t].run # NoWrite
BatchLocked(s) == \E t \in Sessions \ {s} : Run(t) = Run(s) /\ pend[t].batch # NoWrite

Goto(s, label) == at' = [at EXCEPT ![s].pc = label]

SeenStages(s) == [db[Run(s)].stages EXCEPT ![at[s].call] = Merged(pend[s].stages, @)]

\* COMMIT: the connection's writes become durable together.
CommitWith(s, parts) ==
    /\ db' = [db EXCEPT ![Run(s)] =
                [run |-> SeenRun(s), batch |-> SeenBatch(s), parts |-> parts,
                 stages |-> SeenStages(s)]]
    /\ pend' = [pend EXCEPT ![s] = NoWrites]

\* An exception leaves get_connection(), or the process dies.
Drop(s) ==
    /\ pend' = [pend EXCEPT ![s] = NoWrites]
    /\ at' = [at EXCEPT ![s] = Outside]
    /\ UNCHANGED <<db, last>>

-----------------------------------------------------------------------------
(* Starting and resuming a logical run.                                    *)

MayEnter(l) == OneAtATime => \A t \in Sessions : Run(t) # l

Enter(s, l, label) ==
    /\ at[s].pc = "out"
    /\ MayEnter(l)
    /\ last[l] < MaxCalls
    /\ last' = [last EXCEPT ![l] = @ + 1]
    /\ at' = [at EXCEPT ![s] = [Outside EXCEPT !.pc = label, !.run = l, !.call = last[l] + 1]]
    /\ UNCHANGED <<db, pend>>

\* Slip: INSERT ... ON CONFLICT DO UPDATE takes an existing run over.
StartRunAnyway(s) ==
    /\ at[s].pc = "insert"
    /\ ~RunLocked(s)
    /\ pend' = [pend EXCEPT ![s].run =
                  [status |-> "RUNNING", id |-> at[s].call, ingested |-> FALSE]]
    /\ at' = [at EXCEPT ![s].pc = "begin", ![s].id = at[s].call]
    /\ UNCHANGED <<db, last>>

\* start_pipeline_run: INSERT ... ON CONFLICT (logical_run_id) DO NOTHING; a
\* duplicate is reported as SKIPPED.
StartRun(s) ==
    /\ at[s].pc = "insert"
    /\ ~RunLocked(s)
    /\ \/ /\ SeenRun(s).status = "ABSENT"
          /\ pend' = [pend EXCEPT ![s].run =
                        [status |-> "RUNNING", id |-> at[s].call, ingested |-> FALSE]]
          /\ at' = [at EXCEPT ![s].pc = "begin", ![s].id = at[s].call]
          /\ UNCHANGED <<db, last>>
       \/ /\ SeenRun(s).status # "ABSENT"
          /\ Drop(s)

\* resume_pipeline's get_pipeline_run: only a FAILED run goes on; the row read
\* here is what decides later whether ingestion is skipped.
LookupRun(s) ==
    /\ at[s].pc = "lookup"
    /\ \/ /\ SeenRun(s).status = "FAILED"
          /\ at' = [at EXCEPT ![s].pc = "reopen", ![s].id = SeenRun(s).id,
                              ![s].ingested = SeenRun(s).ingested]
          /\ UNCHANGED <<db, pend, last>>
       \/ /\ SeenRun(s).status # "FAILED"
          /\ Drop(s)

\* WHERE pipeline_run_id = ... AND status = 'FAILED'
MayReopen(row, id) == row.id = id /\ row.status = "FAILED"

\* Slip: ingestion is skipped on every resume.
AnalyticsStage(s) == "analytics_build"

FirstStage(s) == IF at[s].ingested THEN "analytics_build" ELSE "transaction_ingestion"

\* reopen_failed_pipeline_run
ReopenRun(s) ==
    /\ at[s].pc = "reopen"
    /\ ~RunLocked(s)
    /\ \/ /\ MayReopen(SeenRun(s), at[s].id)
          /\ pend' = [pend EXCEPT ![s].run = [SeenRun(s) EXCEPT !.status = "RUNNING"]]
          /\ at' = [at EXCEPT ![s].pc = "begin", ![s].stage = FirstStage(s)]
          /\ UNCHANGED <<db, last>>
       \/ /\ ~MayReopen(SeenRun(s), at[s].id)
          /\ Drop(s)

-----------------------------------------------------------------------------
(* One attempt of a stage.                                                 *)

WriteStage(s, slot, status) == pend' = [pend EXCEPT ![s].stages[slot] = status]

\* start_stage_run: every attempt inserts a row of its own.
StartStage(s) ==
    /\ at[s].pc = "begin"
    /\ WriteStage(s, <<at[s].stage, at[s].attempt + 1>>, "RUNNING")
    /\ at' = [at EXCEPT ![s].attempt = @ + 1, ![s].quality = FALSE, ![s].masked = FALSE,
                        ![s].pc = IF at[s].stage = "transaction_ingestion" THEN "claim" ELSE "build"]
    /\ UNCHANGED <<db, last>>

\* complete_stage_run: the row is there, since only a rollback loses it.
CompleteStage(s) ==
    /\ at[s].pc = "stageDone"
    /\ WriteStage(s, Slot(s), "SUCCESS")
    /\ Goto(s, "record")
    /\ UNCHANGED <<db, last>>

\* Slip: the record count is stored without connection.commit().
RecordStageUncommitted(s) ==
    /\ at[s].pc = "record"
    /\ \/ /\ at[s].stage = "transaction_ingestion"
          /\ at' = [at EXCEPT ![s].pc = "begin", ![s].stage = "analytics_build",
                              ![s].attempt = 0, ![s].ingested = TRUE]
       \/ /\ at[s].stage = "analytics_build"
          /\ Goto(s, "complete")
    /\ UNCHANGED <<db, pend, last>>

\* update_stage_records_processed, which commits.
RecordStage(s) ==
    /\ at[s].pc = "record"
    /\ CommitWith(s, db[Run(s)].parts)
    /\ \/ /\ at[s].stage = "transaction_ingestion"
          /\ at' = [at EXCEPT ![s].pc = "begin", ![s].stage = "analytics_build",
                              ![s].attempt = 0, ![s].ingested = TRUE]
       \/ /\ at[s].stage = "analytics_build"
          /\ Goto(s, "complete")
    /\ UNCHANGED last

\* Slip: every exception is retried.
RetriedWhateverFails(s) == at[s].attempt < StageAttempts

\* run_with_retry: a data-quality failure is never retried, unless the error
\* of a fail_batch that found nothing to fail has taken its place.
Retried(s) == at[s].attempt < StageAttempts /\ (at[s].quality => at[s].masked)

\* Slip: a stage row that is gone is not an error.
FailStageTolerantly(s) ==
    /\ at[s].pc = "stageFailed"
    /\ IF SeenStage(s) = "ABSENT" THEN UNCHANGED pend ELSE WriteStage(s, Slot(s), "FAILED")
    /\ Goto(s, IF Retried(s) THEN "begin" ELSE "fail")
    /\ UNCHANGED <<db, last>>

\* fail_stage_run; if the row was rolled back its error ends the retries.
FailStage(s) ==
    /\ at[s].pc = "stageFailed"
    /\ \/ /\ SeenStage(s) # "ABSENT"
          /\ WriteStage(s, Slot(s), "FAILED")
          /\ Goto(s, IF Retried(s) THEN "begin" ELSE "fail")
       \/ /\ SeenStage(s) = "ABSENT"
          /\ Goto(s, "fail")
          /\ UNCHANGED pend
    /\ UNCHANGED <<db, last>>

-----------------------------------------------------------------------------
(* Transaction ingestion, from the outside.                                *)

\* Slips: the retry limit is not looked at; a batch somebody started counts as done.
MayClaimUnlimited(row) == row.status \in {"ABSENT", "FAILED"}
SkippedUnlessFailed(row) == row.status \in {"STARTED", "COMPLETED"}

\* start_batch and retry_failed_batch
MayClaim(row) ==
    row.status = "ABSENT" \/ (row.status = "FAILED" /\ row.attempts < BatchAttempts)

\* get_batch: a completed batch is skipped
Skipped(row) == row.status = "COMPLETED"

\* A batch that may neither be claimed nor skipped raises, and the transaction
\* stays as it is.
ClaimBatch(s) ==
    /\ at[s].pc = "claim"
    /\ ~BatchLocked(s)
    /\ \/ /\ MayClaim(SeenBatch(s))
          /\ pend' = [pend EXCEPT ![s].batch =
                        [status |-> "STARTED", attempts |-> SeenBatch(s).attempts + 1]]
          /\ Goto(s, "load")
       \/ /\ Skipped(SeenBatch(s))
          /\ Goto(s, "stageDone")
          /\ UNCHANGED pend
       \/ /\ ~MayClaim(SeenBatch(s)) /\ ~Skipped(SeenBatch(s))
          /\ Goto(s, "stageFailed")
          /\ UNCHANGED pend
    /\ UNCHANGED <<db, last>>

\* Slip: the part's checkpoint is not written.
LoadPartUnchecked(s) ==
    /\ at[s].pc = "load"
    /\ db[Run(s)].parts < NumParts
    /\ CommitWith(s, db[Run(s)].parts)
    /\ Goto(s, "heartbeat")
    /\ UNCHANGED last

\* process_transaction_batch, which commits the part and all that is pending.
LoadPart(s) ==
    /\ at[s].pc = "load"
    /\ db[Run(s)].parts < NumParts
    /\ CommitWith(s, db[Run(s)].parts + 1)
    /\ Goto(s, "heartbeat")
    /\ UNCHANGED last

\* heartbeat_batch, after every part
HeartbeatBatch(s) ==
    /\ at[s].pc = "heartbeat"
    /\ ~BatchLocked(s)
    /\ Goto(s, IF SeenBatch(s).status = "STARTED" THEN "load" ELSE "rollback")
    /\ UNCHANGED <<db, pend, last>>

\* Every part is loaded and checked: complete_batch, still uncommitted.
CompleteBatch(s) ==
    /\ at[s].pc = "load"
    /\ db[Run(s)].parts = NumParts
    /\ ~BatchLocked(s)
    /\ \/ /\ SeenBatch(s).status = "STARTED"
          /\ pend' = [pend EXCEPT ![s].batch = [SeenBatch(s) EXCEPT !.status = "COMPLETED"]]
          /\ Goto(s, "stageDone")
       \/ /\ SeenBatch(s).status # "STARTED"
          /\ Goto(s, "rollback")
          /\ UNCHANGED pend
    /\ UNCHANGED <<db, last>>

\* A part fails, or reconciliation, the quality checks or complete_batch do.
FailIngestion(s, quality) ==
    /\ at[s].pc = "load"
    /\ quality => db[Run(s)].parts = NumParts
    /\ at' = [at EXCEPT ![s].pc = "rollback", ![s].quality = quality]
    /\ UNCHANGED <<db, pend, last>>

\* connection.rollback(): the runner's own pending rows go as well.
Rollback(s) ==
    /\ at[s].pc = "rollback"
    /\ pend' = [pend EXCEPT ![s] = NoWrites]
    /\ Goto(s, "failBatch")
    /\ UNCHANGED <<db, last>>

\* fail_batch on the idle connection, durable at once.  If the batch is not
\* STARTED its own exception takes the place of the first one.
FailBatch(s) ==
    /\ at[s].pc = "failBatch"
    /\ ~BatchLocked(s)
    /\ \/ /\ db[Run(s)].batch.status = "STARTED"
          /\ db' = [db EXCEPT ![Run(s)].batch.status = "FAILED"]
          /\ Goto(s, "stageFailed")
       \/ /\ db[Run(s)].batch.status # "STARTED"
          /\ at' = [at EXCEPT ![s].pc = "stageFailed", ![s].masked = TRUE]
          /\ UNCHANGED db
    /\ UNCHANGED <<pend, last>>

-----------------------------------------------------------------------------
(* The analytics build, from the outside: it only writes in savepoints.    *)

Build(s) ==
    /\ at[s].pc = "build"
    /\ Goto(s, "stageDone")
    /\ UNCHANGED <<db, pend, last>>

\* Before the batch is claimed, or in the build, an exception leaves the
\* transaction usable.
RaiseInStage(s) ==
    /\ at[s].pc \in {"claim", "build"}
    /\ Goto(s, "stageFailed")
    /\ UNCHANGED <<db, pend, last>>

-----------------------------------------------------------------------------
(* The end of the run.                                                     *)

WriteRun(s, status) ==
    IF SeenRun(s).id = at[s].id
    THEN pend' = [pend EXCEPT ![s].run = [SeenRun(s) EXCEPT !.status = status,
                                                            !.ingested = at[s].ingested]]
    ELSE UNCHANGED pend

\* complete_pipeline_run: WHERE pipeline_run_id = ... and no more.
CompleteRun(s) ==
    /\ at[s].pc = "complete"
    /\ ~RunLocked(s)
    /\ WriteRun(s, "SUCCESS")
    /\ at' = [at EXCEPT ![s].pc = "exit", ![s].result = "SUCCESS"]
    /\ UNCHANGED <<db, last>>

\* fail_pipeline_run: no guard on the status, no look at the row count.
FailRun(s) ==
    /\ at[s].pc = "fail"
    /\ ~RunLocked(s)
    /\ WriteRun(s, "FAILED")
    /\ at' = [at EXCEPT ![s].pc = "exit", ![s].result = "FAILED"]
    /\ UNCHANGED <<db, last>>

\* The caller leaves get_connection(), which commits.
Exit(s) ==
    /\ at[s].pc = "exit"
    /\ CommitWith(s, db[Run(s)].parts)
    /\ at' = [at EXCEPT ![s] = Outside]
    /\ UNCHANGED last

\* The process or its connection dies; or a statement fails outside every
\* savepoint, after which each statement up to the end of get_connection()
\* fails too and everything pending is rolled back.
Crash(s) ==
    /\ at[s].pc # "out"
    /\ Drop(s)

-----------------------------------------------------------------------------
Step(s) ==
    \/ StartRun(s) \/ LookupRun(s) \/ ReopenRun(s)
    \/ StartStage(s) \/ CompleteStage(s) \/ RecordStage(s) \/ FailStage(s)
    \/ ClaimBatch(s) \/ LoadPart(s) \/ HeartbeatBatch(s) \/ CompleteBatch(s) \/ Rollback(s) \/ FailBatch(s)
    \/ Build(s) \/ CompleteRun(s) \/ FailRun(s) \/ Exit(s)

Fault(s) == RaiseInStage(s) \/ Crash(s) \/ \E quality \in BOOLEAN : FailIngestion(s, quality)

Next ==
    \E s \in Sessions :
        \/ \E l \in Runs : Enter(s, l, "insert") \/ Enter(s, l, "lookup")
        \/ Step(s)
        \/ Fault(s)

Spec == Init /\ [][Next]_vars

\* A scheduled session makes progress and a lock wait ends; a part that is
\* always retried in vain is excluded by the attempt limits.
FairSpec == Spec /\ \A s \in Sessions : SF_vars(Step(s))

-----------------------------------------------------------------------------
(* Properties                                                              *)

AtRow == [pc : Labels, run : Runs \cup {NoRun}, call : 0..MaxCalls,
          id : 0..MaxCalls, stage : Stages, attempt : 0..StageAttempts,
          quality : BOOLEAN, masked : BOOLEAN, ingested : BOOLEAN,
          result : {"none", "SUCCESS", "FAILED"}]
DbRow == [run : RunRow, batch : BatchRow, parts : 0..NumParts,
          stages : [1..MaxCalls -> [Slots -> StageStatus]]]
PendRow == [run : RunRow \cup {NoWrite}, batch : BatchRow \cup {NoWrite},
            stages : [Slots -> StageStatus \cup {NoWrite}]]

TypeOK ==
    /\ db \in [Runs -> DbRow]
    /\ pend \in [Sessions -> PendRow]
    /\ at \in [Sessions -> AtRow]
    /\ last \in [Runs -> 0..MaxCalls]

Succeeded(l, stage) ==
    \E e \in 1..MaxCalls, k \in 1..StageAttempts : db[l].stages[e][<<stage, k>>] = "SUCCESS"

\* A run that is stored as SUCCESS has a COMPLETED batch with all its parts and
\* a successful attempt of each stage, in whichever executions they ran.
SuccessIsBacked ==
    \A l \in Runs : db[l].run.status = "SUCCESS" =>
        /\ db[l].batch.status = "COMPLETED"
        /\ db[l].parts = NumParts
        /\ \A stage \in Stages : Succeeded(l, stage)

\* resume_pipeline skips ingestion only for a run whose batch is COMPLETED,
\* and no analytics attempt is ever stored for another.
SkippedIngestionIsDone ==
    \A l \in Runs :
        \/ db[l].run.ingested
        \/ \E e \in 1..MaxCalls, k \in 1..StageAttempts :
                db[l].stages[e][<<"analytics_build", k>>] # "ABSENT"
        => db[l].batch.status = "COMPLETED"

\* A stored attempt k + 1 means that attempt k of the same execution is stored
\* as FAILED, although rollbacks lose rows: there are no gaps and an attempt
\* is never repeated after a success.
AttemptsInOrder ==
    \A l \in Runs, e \in 1..MaxCalls, stage \in Stages, k \in 1..(StageAttempts - 1) :
        db[l].stages[e][<<stage, k + 1>>] # "ABSENT" =>
            db[l].stages[e][<<stage, k>>] = "FAILED"

\* A batch whose quality check failed is not ingested again by the same
\* execution, also when fail_batch's own error hides the quality error.
QualityFailureNotRetried ==
    [][\A s \in Sessions :
          at[s].pc = "stageFailed" /\ at[s].quality => at'[s].pc # "begin"]_vars

\* Every call of run_pipeline or resume_pipeline ends.
CallsEnd == \A s \in Sessions : at[s].pc # "out" ~> at[s].pc = "out"

\* A run that is SUCCESS stays SUCCESS and its batch COMPLETED.
SuccessIsFinal ==
    [][\A l \in Runs : db[l].run.status = "SUCCESS" =>
          db'[l].run = db[l].run /\ db'[l].batch = db[l].batch]_vars

\* What the rest of the system may rely on, see module RunLifecycle.
Lifecycle == INSTANCE RunLifecycle WITH
    status <- [l \in Runs |-> db[l].run.status],
    ingested <- [l \in Runs |-> db[l].batch.status = "COMPLETED"],
    analysed <- [l \in Runs |-> Succeeded(l, "analytics_build")]

\* Logical runs that are not run twice at once follow the lifecycle: every
\* commit moves a run one step, and a SUCCESS run has done both stages.
RunsFollowLifecycle == Lifecycle!Spec

-----------------------------------------------------------------------------
(* What the code's comments say and it does not do.                        *)

Working == {"claim", "load", "heartbeat", "build", "stageDone", "record", "complete"}

\* "If two callers try to resume the same run concurrently, only one UPDATE
\* affects a row": no two sessions execute stages of one logical run.
OneExecutor ==
    \A s, t \in Sessions : s # t /\ Run(s) = Run(t) =>
        ~(at[s].pc \in Working /\ at[t].pc \in Working)

\* "persist the pipeline as FAILED, and build the FAILED PipelineResult": when
\* a call returns FAILED or SUCCESS, that is what the run's row says.
ResultIsPersisted ==
    [][\A s \in Sessions : Exit(s) => db'[Run(s)].run.status = at[s].result]_vars

\* "Every retry attempt is persisted separately": a run that has ended has no
\* attempt that is still RUNNING.
AttemptsArePersisted ==
    \A l \in Runs : db[l].run.status \in {"FAILED", "SUCCESS"} =>
        \A e \in 1..MaxCalls, w \in Slots : db[l].stages[e][w] # "RUNNING"
=============================================================================
