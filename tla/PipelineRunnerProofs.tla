------------------------ MODULE PipelineRunnerProofs ------------------------
(***************************************************************************)
(* TLAPS proofs about PipelineRunner, for every number of logical runs,    *)
(* processes, parts, attempts and calls.                                   *)
(*                                                                         *)
(* The argument.  A call has its own rows of pipeline_stage_runs, and the  *)
(* batch row has one writer at a time.  What a session has pending can be  *)
(* lost, in ingestion's rollback, only together; so the rows it sees of    *)
(* its own attempts are in order before and after, and whoever goes on to  *)
(* the analytics build has seen the end of the ingestion committed.  The   *)
(* first part of the proofs holds for processes that run one logical run   *)
(* at the same time; the lifecycle needs callers that do not.              *)
(***************************************************************************)
EXTENDS PipelineRunner, TLAPS

-----------------------------------------------------------------------------
(* The inductive invariant.                                                *)

Ingest == "transaction_ingestion"
Analyse == "analytics_build"

Entering == {"insert", "lookup", "reopen"}
Ingesting == {"claim", "load", "heartbeat", "rollback", "failBatch"}
OnSlot == Ingesting \cup {"build", "stageDone", "record", "stageFailed"}

\* The row of its own call that a session sees of a slot.
Row(s, w) == Seen(pend[s].stages[w], db[Run(s)].stages[at[s].call][w])

\* A session outside has nothing; one that enters has written nothing yet; one
\* inside has a call of its own and a stage to work on.
ControlInv(s) ==
    /\ at[s].pc = "out" => at[s] = Outside
    /\ at[s].pc # "out" => Run(s) \in Runs /\ at[s].call \in 1..last[Run(s)]
    /\ at[s].pc \in Entering \cup {"out"} =>
          pend[s] = NoWrites /\ at[s].stage = Ingest /\ at[s].attempt = 0
    /\ at[s].pc = "begin" => at[s].attempt < StageAttempts
    /\ at[s].pc \in OnSlot => at[s].attempt \in 1..StageAttempts
    /\ at[s].pc \in Ingesting => at[s].stage = Ingest
    /\ at[s].pc \in {"build", "complete"} => at[s].stage = Analyse
    /\ at[s].result # "none" => at[s].pc = "exit"
    /\ \A t \in Sessions \ {s} :
          at[s].pc # "out" /\ Run(t) = Run(s) => at[t].call # at[s].call

\* The rows a session sees of its call are in order, and the current attempt is
\* where the program counter says, unless ingestion's rollback has lost it.
RowsInv(s) ==
    at[s].pc # "out" =>
        /\ \A w \in Slots :
              /\ pend[s].stages[w] # "ABSENT"
              /\ pend[s].stages[w] = "SUCCESS" => at[s].pc = "record"
              /\ db[Run(s)].stages[at[s].call][w] \in {"FAILED", "SUCCESS"} => pend[s].stages[w] = NoWrite
              /\ Row(s, w) # "ABSENT" =>
                    \/ w[1] = at[s].stage /\ w[2] <= at[s].attempt
                    \/ w[1] = Ingest /\ at[s].stage = Analyse
        /\ \A stage \in Stages, k \in 1..(StageAttempts - 1) :
              Row(s, <<stage, k + 1>>) # "ABSENT" => Row(s, <<stage, k>>) = "FAILED"
        /\ at[s].pc = "begin" /\ at[s].attempt # 0 => Row(s, Slot(s)) = "FAILED"
        /\ at[s].pc \in {"claim", "load", "heartbeat", "rollback", "build", "stageDone"} =>
              Row(s, Slot(s)) = "RUNNING"
        /\ at[s].pc \in {"failBatch", "stageFailed"} => Row(s, Slot(s)) \in {"RUNNING", "ABSENT"}
        /\ at[s].pc = "record" => Row(s, Slot(s)) = "SUCCESS"

\* Only one session has a batch row pending, and that of a batch that is not
\* completed.
PendingBatchInv(s) ==
    /\ pend[s].batch # NoWrite =>
          /\ at[s].pc \in {"load", "rollback", "stageDone", "record"}
          /\ at[s].stage = Ingest
          /\ db[Run(s)].batch.status # "COMPLETED"
          /\ \/ pend[s].batch.status = "STARTED" /\ at[s].pc \in {"load", "rollback"}
             \/ /\ pend[s].batch.status = "COMPLETED" /\ at[s].pc \in {"stageDone", "record"}
                /\ db[Run(s)].parts = NumParts
          /\ \A t \in Sessions \ {s} : Run(t) = Run(s) => pend[t].batch = NoWrite
    /\ at[s].pc \in {"stageDone", "record"} /\ at[s].stage = Ingest =>
          SeenBatch(s).status = "COMPLETED"

Ingested(l) ==
    /\ db[l].batch.status = "COMPLETED"
    /\ db[l].parts = NumParts
    /\ Succeeded(l, Ingest)

\* Whoever is past the ingestion, or skips it, finds it done; whoever ends the
\* run with SUCCESS finds both stages done.
DoneInv(s) ==
    /\ at[s].ingested \/ at[s].stage = Analyse => Ingested(Run(s))
    /\ at[s].pc = "complete" \/ at[s].result = "SUCCESS" =>
          Ingested(Run(s)) /\ Succeeded(Run(s), Analyse)
    /\ pend[s].run # NoWrite =>
          /\ pend[s].run.ingested => Ingested(Run(s))
          /\ pend[s].run.status = "SUCCESS" => Ingested(Run(s)) /\ Succeeded(Run(s), Analyse)

\* The same of what is committed.
StoredInv(l) ==
    /\ db[l].batch.status = "ABSENT" => db[l].batch.attempts = 0
    /\ db[l].batch.status = "COMPLETED" => db[l].parts = NumParts
    /\ db[l].run.ingested => Ingested(l)
    /\ db[l].run.status = "SUCCESS" => Ingested(l) /\ Succeeded(l, Analyse)
    /\ \A e \in 1..MaxCalls :
          /\ \A k \in 1..StageAttempts : db[l].stages[e][<<Analyse, k>>] # "ABSENT" => Ingested(l)
          /\ \A stage \in Stages, k \in 1..(StageAttempts - 1) :
                db[l].stages[e][<<stage, k + 1>>] # "ABSENT" =>
                    db[l].stages[e][<<stage, k>>] = "FAILED"
          /\ e > last[l] => \A w \in Slots : db[l].stages[e][w] = "ABSENT"

IInv ==
    /\ TypeOK
    /\ \A s \in Sessions : ControlInv(s) /\ RowsInv(s) /\ PendingBatchInv(s) /\ DoneInv(s)
    /\ \A l \in Runs : StoredInv(l)

-----------------------------------------------------------------------------
(* For callers that do not run a logical run twice at once.                *)

Executing == {"begin", "claim", "load", "heartbeat", "rollback", "build", "stageDone", "record",
              "complete"}

Alone(s) == \A t \in Sessions \ {s} : Run(t) = Run(s) => Run(s) = NoRun

\* The session's run is stored or pending as RUNNING, under the id it works for.
Holds(s) == SeenRun(s).status = "RUNNING" /\ SeenRun(s).id = at[s].id

\* The session has the run's row to itself: it stays RUNNING while stages are
\* executed, unless a rollback takes everything of the call back.
SerialRunInv(s) ==
    /\ at[s].pc \notin Entering \cup {"out"} => db[Run(s)].run.status # "SUCCESS"
    /\ at[s].pc \in Executing => Holds(s)
    /\ at[s].pc \in {"failBatch", "stageFailed"} /\ Row(s, Slot(s)) # "ABSENT" => Holds(s)
    /\ at[s].pc \in {"failBatch", "stageFailed", "fail"} =>
          pend[s].run = NoWrite \/ SeenRun(s).id = at[s].id
    /\ pend[s].run # NoWrite /\ at[s].pc # "exit" =>
          \A w \in Slots : db[Run(s)].stages[at[s].call][w] = "ABSENT"
    /\ at[s].pc = "complete" \/ at[s].result = "SUCCESS" => db[Run(s)].run.status = "RUNNING"
    /\ at[s].pc = "exit" =>
          \/ at[s].result = "SUCCESS" /\ SeenRun(s).status = "SUCCESS"
          \/ at[s].result = "FAILED" /\ (pend[s].run = NoWrite \/ SeenRun(s).status = "FAILED")

\* The attempt's row is committed together with the batch it has claimed.
SerialBatchInv(s) ==
    /\ at[s].pc \in {"claim", "build"} =>
          db[Run(s)].stages[at[s].call][Slot(s)] = "ABSENT"
    /\ at[s].pc \in {"load", "heartbeat", "rollback"} =>
          IF pend[s].batch = NoWrite THEN db[Run(s)].batch.status = "STARTED"
          ELSE db[Run(s)].stages[at[s].call][Slot(s)] = "ABSENT"
    /\ at[s].pc = "failBatch" => db[Run(s)].batch.status = "STARTED" \/ Row(s, Slot(s)) = "ABSENT"
    /\ at[s].masked => at[s].pc \notin (Executing \cup {"failBatch"}) \ {"begin"}
    /\ at[s].pc = "stageFailed" /\ at[s].masked => Row(s, Slot(s)) = "ABSENT"

SerialInv ==
    /\ IInv
    /\ \A s \in Sessions : Alone(s) /\ SerialRunInv(s) /\ SerialBatchInv(s)

-----------------------------------------------------------------------------
(* One session moves at a time, and what its steps do.                     *)

SessionNext(s) ==
    \/ \E l \in Runs : Enter(s, l, "insert") \/ Enter(s, l, "lookup")
    \/ Step(s)
    \/ Fault(s)

LEMMA NextIsSessionNext == Next => \E s \in Sessions : SessionNext(s)
  BY DEF Next, SessionNext

\* A step commits, fails the batch in a statement of its own, or leaves the
\* tables alone.
Commits(s) ==
    /\ at[s].pc \in {"record", "load", "exit"}
    /\ \E parts \in {db[Run(s)].parts, db[Run(s)].parts + 1} :
          /\ at[s].pc # "load" => parts = db[Run(s)].parts
          /\ at[s].pc = "load" => parts = db[Run(s)].parts + 1 /\ db[Run(s)].parts < NumParts
          /\ CommitWith(s, parts)
    /\ last' = last

FailsBatch(s) ==
    /\ at[s].pc = "failBatch" /\ ~BatchLocked(s)
    /\ db[Run(s)].batch.status = "STARTED"
    /\ db' = [db EXCEPT ![Run(s)].batch.status = "FAILED"]
    /\ UNCHANGED <<pend, last>>

LEMMA StoreStep ==
    ASSUME NEW s \in Sessions, SessionNext(s)
    PROVE  db' = db \/ Commits(s) \/ FailsBatch(s)
<1>1. CASE \E l \in Runs : Enter(s, l, "insert") \/ Enter(s, l, "lookup")
  BY <1>1 DEF Enter
<1>2. CASE StartRun(s) \/ LookupRun(s) \/ ReopenRun(s)
  BY <1>2 DEF StartRun, LookupRun, ReopenRun, Drop
<1>3. CASE StartStage(s) \/ CompleteStage(s) \/ FailStage(s)
  BY <1>3 DEF StartStage, CompleteStage, FailStage
<1>4. CASE RecordStage(s)
  BY <1>4 DEF RecordStage, Commits
<1>5. CASE ClaimBatch(s) \/ HeartbeatBatch(s) \/ CompleteBatch(s) \/ Rollback(s)
  BY <1>5 DEF ClaimBatch, HeartbeatBatch, CompleteBatch, Rollback
<1>6. CASE LoadPart(s)
  BY <1>6 DEF LoadPart, Commits
<1>7. CASE FailBatch(s)
  BY <1>7 DEF FailBatch, FailsBatch
<1>8. CASE Build(s) \/ CompleteRun(s) \/ FailRun(s)
  BY <1>8 DEF Build, CompleteRun, FailRun
<1>9. CASE Exit(s)
  BY <1>9 DEF Exit, Commits
<1>10. CASE Fault(s)
  BY <1>10 DEF Fault, RaiseInStage, Crash, Drop, FailIngestion
<1>. QED
  BY <1>1, <1>2, <1>3, <1>4, <1>5, <1>6, <1>7, <1>8, <1>9, <1>10 DEF SessionNext, Step

\* The other sessions stay where they are, with what they have pending.
LEMMA OthersStay ==
    ASSUME TypeOK, NEW s \in Sessions, SessionNext(s), NEW t \in Sessions \ {s}
    PROVE  at'[t] = at[t] /\ pend'[t] = pend[t]
<1>. USE DEF TypeOK, Goto, Drop
<1>1. CASE \E l \in Runs : Enter(s, l, "insert") \/ Enter(s, l, "lookup")
  BY <1>1 DEF Enter
<1>2. CASE StartRun(s) \/ LookupRun(s) \/ ReopenRun(s)
  BY <1>2 DEF StartRun, LookupRun, ReopenRun
<1>3. CASE StartStage(s) \/ CompleteStage(s) \/ FailStage(s)
  BY <1>3 DEF StartStage, CompleteStage, FailStage, WriteStage
<1>4. CASE RecordStage(s) \/ LoadPart(s) \/ Exit(s)
  BY <1>4 DEF RecordStage, LoadPart, Exit, CommitWith
<1>5. CASE ClaimBatch(s) \/ HeartbeatBatch(s) \/ CompleteBatch(s) \/ Rollback(s) \/ FailBatch(s)
  BY <1>5 DEF ClaimBatch, HeartbeatBatch, CompleteBatch, Rollback, FailBatch
<1>6. CASE Build(s) \/ CompleteRun(s) \/ FailRun(s)
  BY <1>6 DEF Build, CompleteRun, FailRun, WriteRun
<1>7. CASE Fault(s)
  BY <1>7 DEF Fault, RaiseInStage, Crash, FailIngestion
<1>. QED
  BY <1>1, <1>2, <1>3, <1>4, <1>5, <1>6, <1>7 DEF SessionNext, Step

\* Commit and failure of the batch, field by field.
LEMMA CommitFacts ==
    ASSUME TypeOK, NEW s \in Sessions, Run(s) \in Runs, at[s].call \in 1..MaxCalls,
           NEW parts, CommitWith(s, parts)
    PROVE  /\ pend'[s] = NoWrites
           /\ \A l \in Runs \ {Run(s)} : db'[l] = db[l]
           /\ db'[Run(s)].run = SeenRun(s)
           /\ db'[Run(s)].batch = SeenBatch(s)
           /\ db'[Run(s)].parts = parts
           /\ \A e \in 1..MaxCalls, w \in Slots :
                 db'[Run(s)].stages[e][w] =
                     IF e = at[s].call THEN Row(s, w) ELSE db[Run(s)].stages[e][w]
<1>1. PICK l \in Runs : l = Run(s)
  OBVIOUS
<1>2. PICK c \in 1..MaxCalls : c = at[s].call
  OBVIOUS
<1>3. db \in [Runs -> DbRow] /\ pend \in [Sessions -> PendRow]
  BY DEF TypeOK
<1>4. db[l].stages \in [1..MaxCalls -> [Slots -> StageStatus]]
  BY <1>3 DEF DbRow
<1>. DEFINE merged == Merged(pend[s].stages, db[l].stages[c])
            new == [run |-> SeenRun(s), batch |-> SeenBatch(s), parts |-> parts,
                    stages |-> [db[l].stages EXCEPT ![c] = merged]]
<1>5. db' = [db EXCEPT ![l] = new] /\ pend' = [pend EXCEPT ![s] = NoWrites]
  <2>1. db' = [db EXCEPT ![Run(s)] =
                 [run |-> SeenRun(s), batch |-> SeenBatch(s), parts |-> parts,
                  stages |-> SeenStages(s)]]
    BY DEF CommitWith
  <2>2. pend' = [pend EXCEPT ![s] = NoWrites]
    BY DEF CommitWith
  <2>3. SeenStages(s) = [db[l].stages EXCEPT ![c] = merged]
    BY <1>1, <1>2 DEF SeenStages
  <2>. QED  BY <1>1, <2>1, <2>2, <2>3
<1>6. db'[l] = new /\ pend'[s] = NoWrites /\ \A m \in Runs \ {l} : db'[m] = db[m]
  <2>. HIDE DEF new
  <2>. QED  BY <1>3, <1>5
<1>7. \A w \in Slots : merged[w] = Row(s, w)
  BY <1>1, <1>2, <1>4 DEF Merged, Row
<1>8. /\ db'[l].run = SeenRun(s) /\ db'[l].batch = SeenBatch(s) /\ db'[l].parts = parts
      /\ db'[l].stages = [db[l].stages EXCEPT ![c] = merged]
  BY <1>6
<1>9. ASSUME NEW e \in 1..MaxCalls, NEW w \in Slots
      PROVE  db'[l].stages[e][w] = IF e = c THEN Row(s, w) ELSE db[l].stages[e][w]
  <2>. HIDE DEF merged
  <2>. QED  BY <1>4, <1>7, <1>8
<1>. QED  BY <1>1, <1>2, <1>6, <1>8, <1>9

LEMMA FailFacts ==
    ASSUME TypeOK, NEW s \in Sessions, Run(s) \in Runs, FailsBatch(s)
    PROVE  /\ pend'[s] = pend[s]
           /\ \A l \in Runs \ {Run(s)} : db'[l] = db[l]
           /\ db'[Run(s)].run = db[Run(s)].run
           /\ db'[Run(s)].batch.status = "FAILED"
           /\ db'[Run(s)].batch.attempts = db[Run(s)].batch.attempts
           /\ db'[Run(s)].parts = db[Run(s)].parts
           /\ db'[Run(s)].stages = db[Run(s)].stages
<1>1. PICK l \in Runs : l = Run(s)
  OBVIOUS
<1>2. db' = [db EXCEPT ![l].batch.status = "FAILED"]
  BY <1>1 DEF FailsBatch
<1>3. db \in [Runs -> DbRow] /\ db[l] \in DbRow /\ db[l].batch \in BatchRow
  BY DEF TypeOK, DbRow
<1>4. db'[l] = [db[l] EXCEPT !.batch.status = "FAILED"] /\ \A m \in Runs \ {l} : db'[m] = db[m]
  BY <1>2, <1>3
<1>5. /\ db'[l].batch = [db[l].batch EXCEPT !.status = "FAILED"]
      /\ db'[l].run = db[l].run /\ db'[l].parts = db[l].parts /\ db'[l].stages = db[l].stages
  BY <1>3, <1>4 DEF DbRow
<1>6. db'[l].batch.status = "FAILED" /\ db'[l].batch.attempts = db[l].batch.attempts
  BY <1>3, <1>5 DEF BatchRow
<1>. QED  BY <1>1, <1>4, <1>5, <1>6 DEF FailsBatch

-----------------------------------------------------------------------------
(* Type correctness.                                                       *)

LEMMA SeenTypes ==
    ASSUME TypeOK, NEW s \in Sessions, Run(s) \in Runs
    PROVE  /\ SeenRun(s) \in RunRow
           /\ SeenBatch(s) \in BatchRow
           /\ db[Run(s)].run \in RunRow /\ db[Run(s)].batch \in BatchRow
           /\ db[Run(s)].parts \in 0..NumParts
           /\ at[s].call \in 1..MaxCalls => SeenStages(s) \in [1..MaxCalls -> [Slots -> StageStatus]]
<1>1. db[Run(s)] \in DbRow /\ pend[s] \in PendRow
  BY DEF TypeOK
<1>2. SeenRun(s) \in RunRow /\ SeenBatch(s) \in BatchRow
  BY <1>1 DEF SeenRun, SeenBatch, Seen, DbRow, PendRow
<1>3. ASSUME at[s].call \in 1..MaxCalls
      PROVE  SeenStages(s) \in [1..MaxCalls -> [Slots -> StageStatus]]
  <2>1. PICK c \in 1..MaxCalls : c = at[s].call
    BY <1>3
  <2>2. db[Run(s)].stages \in [1..MaxCalls -> [Slots -> StageStatus]]
    BY <1>1 DEF DbRow
  <2>3. pend[s].stages \in [Slots -> StageStatus \cup {NoWrite}]
    BY <1>1 DEF PendRow
  <2>4. Merged(pend[s].stages, db[Run(s)].stages[c]) \in [Slots -> StageStatus]
    BY <2>2, <2>3 DEF Merged, Seen
  <2>. QED  BY <2>1, <2>2, <2>4 DEF SeenStages
<1>. QED  BY <1>1, <1>2, <1>3 DEF DbRow

LEMMA OutsideTyped == Outside \in AtRow /\ NoWrites \in PendRow
<1>1. Outside \in AtRow
  BY RunnerAssumption DEF Outside, AtRow, Labels, Stages
<1>2. NoWrites \in PendRow
  BY DEF NoWrites, PendRow
<1>. QED  BY <1>1, <1>2

LEMMA CommitTyped ==
    ASSUME TypeOK, NEW s \in Sessions, Run(s) \in Runs, at[s].call \in 1..MaxCalls,
           NEW parts \in 0..NumParts, CommitWith(s, parts)
    PROVE  db' \in [Runs -> DbRow] /\ pend' \in [Sessions -> PendRow]
<1>1. [run |-> SeenRun(s), batch |-> SeenBatch(s), parts |-> parts,
       stages |-> SeenStages(s)] \in DbRow
  BY SeenTypes DEF DbRow
<1>. QED  BY <1>1, OutsideTyped DEF TypeOK, CommitWith

\* Claiming a batch counts an attempt, within the batch's limit.
LEMMA ClaimedRowIsTyped ==
    ASSUME IInv, NEW s \in Sessions, at[s].pc = "claim", MayClaim(SeenBatch(s))
    PROVE  [status |-> "STARTED", attempts |-> SeenBatch(s).attempts + 1] \in BatchRow
<1>1. TypeOK /\ ControlInv(s) /\ PendingBatchInv(s) /\ Run(s) \in Runs
  BY DEF IInv, ControlInv
<1>2. SeenBatch(s) \in BatchRow
  BY <1>1, SeenTypes
<1>3. SeenBatch(s) = db[Run(s)].batch
  BY <1>1 DEF PendingBatchInv, SeenBatch, Seen
<1>4. CASE SeenBatch(s).status = "ABSENT"
  <2>1. SeenBatch(s).attempts = 0
    BY <1>1, <1>3, <1>4 DEF IInv, StoredInv
  <2>. QED  BY <2>1, RunnerAssumption DEF BatchRow
<1>5. CASE SeenBatch(s).attempts < BatchAttempts
  BY <1>2, <1>5, RunnerAssumption DEF BatchRow
<1>. QED  BY <1>4, <1>5 DEF MayClaim

LEMMA TypeStep ==
    ASSUME IInv, NEW s \in Sessions, SessionNext(s)
    PROVE  TypeOK'
<1>. USE RunnerAssumption
<1>0. TypeOK /\ ControlInv(s) /\ PendingBatchInv(s)
  BY DEF IInv
<1>1. at \in [Sessions -> AtRow] /\ pend \in [Sessions -> PendRow] /\ db \in [Runs -> DbRow]
      /\ last \in [Runs -> 0..MaxCalls] /\ at[s] \in AtRow /\ pend[s] \in PendRow
  BY <1>0 DEF TypeOK
<1>2. at[s].pc # "out" => Run(s) \in Runs /\ at[s].call \in 1..MaxCalls
  BY <1>0, <1>1 DEF ControlInv
<1>3. ASSUME NEW status \in {"RUNNING", "FAILED", "SUCCESS"}, NEW id \in 0..MaxCalls, NEW i \in BOOLEAN
      PROVE  [status |-> status, id |-> id, ingested |-> i] \in RunRow
  BY DEF RunRow
<1>4. ASSUME NEW r \in AtRow, NEW label \in Labels
      PROVE  [r EXCEPT !.pc = label] \in AtRow
  BY DEF AtRow
<1>5. ASSUME NEW label \in Labels, Goto(s, label)
      PROVE  at' \in [Sessions -> AtRow]
  BY <1>1, <1>4, <1>5 DEF Goto
<1>6. ASSUME Drop(s)
      PROVE  TypeOK'
  BY <1>1, <1>6, OutsideTyped DEF Drop, TypeOK
<1>7. ASSUME NEW w \in Slots, NEW status \in StageStatus, WriteStage(s, w, status)
      PROVE  pend' \in [Sessions -> PendRow]
  BY <1>1, <1>7 DEF WriteStage, PendRow
<1>8. ASSUME NEW row \in BatchRow, pend' = [pend EXCEPT ![s].batch = row]
      PROVE  pend' \in [Sessions -> PendRow]
  BY <1>1, <1>8 DEF PendRow
<1>9. ASSUME NEW row \in RunRow, pend' = [pend EXCEPT ![s].run = row]
      PROVE  pend' \in [Sessions -> PendRow]
  BY <1>1, <1>9 DEF PendRow
<1>10. ASSUME NEW l \in Runs, Enter(s, l, "insert") \/ Enter(s, l, "lookup")
       PROVE  TypeOK'
  <2>1. last' \in [Runs -> 0..MaxCalls] /\ last[l] + 1 \in 0..MaxCalls
    BY <1>1, <1>10 DEF Enter
  <2>2. ASSUME NEW label \in {"insert", "lookup"}
        PROVE  [Outside EXCEPT !.pc = label, !.run = l, !.call = last[l] + 1] \in AtRow
    BY <2>1, OutsideTyped DEF AtRow, Labels
  <2>. QED  BY <1>1, <1>10, <2>1, <2>2 DEF Enter, TypeOK
<1>11. CASE StartRun(s)
  <2>1. CASE Drop(s)
    BY <1>6, <2>1
  <2>2. CASE /\ pend' = [pend EXCEPT ![s].run =
                          [status |-> "RUNNING", id |-> at[s].call, ingested |-> FALSE]]
             /\ at' = [at EXCEPT ![s].pc = "begin", ![s].id = at[s].call]
             /\ UNCHANGED <<db, last>>
    <3>1. at' \in [Sessions -> AtRow] /\ at[s].call \in 0..MaxCalls
      BY <1>1, <2>2 DEF AtRow, Labels
    <3>2. pend' \in [Sessions -> PendRow]
      BY <1>3, <1>9, <2>2, <3>1
    <3>. QED  BY <1>1, <2>2, <3>1, <3>2 DEF TypeOK
  <2>. QED  BY <1>11, <2>1, <2>2 DEF StartRun
<1>12. CASE LookupRun(s)
  <2>1. CASE Drop(s)
    BY <1>6, <2>1
  <2>2. CASE /\ at' = [at EXCEPT ![s].pc = "reopen", ![s].id = SeenRun(s).id,
                                 ![s].ingested = SeenRun(s).ingested]
             /\ UNCHANGED <<db, pend, last>>
    <3>1. SeenRun(s).id \in 0..MaxCalls /\ SeenRun(s).ingested \in BOOLEAN
      BY <1>2, <1>12, <1>0, SeenTypes DEF RunRow, LookupRun
    <3>2. at' \in [Sessions -> AtRow]
      BY <1>1, <2>2, <3>1 DEF AtRow, Labels
    <3>. QED  BY <1>1, <2>2, <3>2 DEF TypeOK
  <2>. QED  BY <1>12, <2>1, <2>2 DEF LookupRun
<1>13. CASE ReopenRun(s)
  <2>1. CASE Drop(s)
    BY <1>6, <2>1
  <2>2. CASE /\ pend' = [pend EXCEPT ![s].run = [SeenRun(s) EXCEPT !.status = "RUNNING"]]
             /\ at' = [at EXCEPT ![s].pc = "begin", ![s].stage = FirstStage(s)]
             /\ UNCHANGED <<db, last>>
    <3>1. [SeenRun(s) EXCEPT !.status = "RUNNING"] \in RunRow
      BY <1>2, <1>13, <1>0, SeenTypes DEF RunRow, ReopenRun
    <3>2. at' \in [Sessions -> AtRow]
      BY <1>1, <2>2 DEF AtRow, Labels, FirstStage, Stages
    <3>. QED  BY <1>1, <1>9, <2>2, <3>1, <3>2 DEF TypeOK
  <2>. QED  BY <1>13, <2>1, <2>2 DEF ReopenRun
<1>14. CASE StartStage(s)
  <2>1. at[s].attempt + 1 \in 1..StageAttempts /\ at[s].stage \in Stages
    BY <1>0, <1>1, <1>14 DEF ControlInv, StartStage, AtRow
  <2>2. at' \in [Sessions -> AtRow]
    BY <1>1, <1>14, <2>1 DEF StartStage, AtRow, Labels
  <2>3. pend' \in [Sessions -> PendRow]
    BY <1>7, <1>14, <2>1 DEF StartStage, Slots, StageStatus
  <2>. QED  BY <1>1, <1>14, <2>2, <2>3 DEF StartStage, TypeOK
<1>15. Slot(s) \in Slots \/ at[s].pc \notin OnSlot
  BY <1>0, <1>1 DEF ControlInv, AtRow, Slot, Slots
<1>16. CASE CompleteStage(s)
  BY <1>1, <1>5, <1>7, <1>15, <1>16 DEF CompleteStage, StageStatus, Labels, OnSlot, TypeOK
<1>17. CASE FailStage(s)
  <2>1. at' \in [Sessions -> AtRow]
    BY <1>5, <1>17 DEF FailStage, Labels
  <2>2. pend' \in [Sessions -> PendRow]
    BY <1>1, <1>7, <1>15, <1>17 DEF FailStage, StageStatus, OnSlot
  <2>. QED  BY <1>1, <1>17, <2>1, <2>2 DEF FailStage, TypeOK
<1>18. CASE RecordStage(s)
  <2>1. db' \in [Runs -> DbRow] /\ pend' \in [Sessions -> PendRow]
    BY <1>2, <1>18, <1>0, SeenTypes, CommitTyped DEF RecordStage
  <2>2. at' \in [Sessions -> AtRow]
    BY <1>1, <1>5, <1>18 DEF RecordStage, AtRow, Labels, Stages
  <2>. QED  BY <1>1, <1>18, <2>1, <2>2 DEF RecordStage, TypeOK
<1>19. CASE ClaimBatch(s)
  <2>1. at' \in [Sessions -> AtRow]
    BY <1>5, <1>19 DEF ClaimBatch, Labels
  <2>2. MayClaim(SeenBatch(s)) =>
            [status |-> "STARTED", attempts |-> SeenBatch(s).attempts + 1] \in BatchRow
    BY <1>19, ClaimedRowIsTyped DEF ClaimBatch
  <2>3. pend' \in [Sessions -> PendRow]
    BY <1>1, <1>8, <1>19, <2>2 DEF ClaimBatch
  <2>. QED  BY <1>1, <1>19, <2>1, <2>3 DEF ClaimBatch, TypeOK
<1>20. CASE LoadPart(s)
  <2>1. db[Run(s)].parts + 1 \in 0..NumParts
    BY <1>0, <1>2, <1>20, SeenTypes DEF LoadPart
  <2>2. db' \in [Runs -> DbRow] /\ pend' \in [Sessions -> PendRow]
    BY <1>0, <1>2, <1>20, <2>1, CommitTyped DEF LoadPart
  <2>. QED  BY <1>1, <1>5, <1>20, <2>2 DEF LoadPart, Labels, TypeOK
<1>21. CASE HeartbeatBatch(s) \/ Build(s) \/ RaiseInStage(s)
  <2>1. at' \in [Sessions -> AtRow]
    BY <1>5, <1>21 DEF HeartbeatBatch, Build, RaiseInStage, Labels
  <2>. QED  BY <1>1, <1>21, <2>1 DEF HeartbeatBatch, Build, RaiseInStage, TypeOK
<1>22. CASE CompleteBatch(s)
  <2>1. at' \in [Sessions -> AtRow]
    BY <1>5, <1>22 DEF CompleteBatch, Labels
  <2>2. [SeenBatch(s) EXCEPT !.status = "COMPLETED"] \in BatchRow
    BY <1>0, <1>2, <1>22, SeenTypes DEF CompleteBatch, BatchRow
  <2>3. pend' \in [Sessions -> PendRow]
    BY <1>1, <1>8, <1>22, <2>2 DEF CompleteBatch
  <2>. QED  BY <1>1, <1>22, <2>1, <2>3 DEF CompleteBatch, TypeOK
<1>23. ASSUME NEW quality \in BOOLEAN, FailIngestion(s, quality)
       PROVE  TypeOK'
  <2>1. at' \in [Sessions -> AtRow]
    BY <1>1, <1>23 DEF FailIngestion, AtRow, Labels
  <2>. QED  BY <1>1, <1>23, <2>1 DEF FailIngestion, TypeOK
<1>24. CASE Rollback(s)
  BY <1>1, <1>5, <1>24, OutsideTyped DEF Rollback, Labels, TypeOK
<1>25. CASE FailBatch(s)
  <2>1. at' \in [Sessions -> AtRow]
    <3>1. CASE Goto(s, "stageFailed")
      BY <1>5, <3>1 DEF Labels
    <3>2. CASE at' = [at EXCEPT ![s].pc = "stageFailed", ![s].masked = TRUE]
      BY <1>1, <3>2 DEF AtRow, Labels
    <3>. QED  BY <1>25, <3>1, <3>2 DEF FailBatch
  <2>2. db' \in [Runs -> DbRow]
    <3>1. CASE db' = [db EXCEPT ![Run(s)].batch.status = "FAILED"]
      BY <1>1, <3>1 DEF DbRow, BatchRow
    <3>. QED  BY <1>1, <1>25, <3>1 DEF FailBatch
  <2>. QED  BY <1>1, <1>25, <2>1, <2>2 DEF FailBatch, TypeOK
<1>26. ASSUME NEW status \in {"FAILED", "SUCCESS"}, WriteRun(s, status), at[s].pc # "out"
       PROVE  pend' \in [Sessions -> PendRow]
  <2>1. [SeenRun(s) EXCEPT !.status = status, !.ingested = at[s].ingested] \in RunRow
    BY <1>0, <1>1, <1>2, <1>26, SeenTypes DEF RunRow, AtRow
  <2>. QED  BY <1>1, <1>9, <1>26, <2>1 DEF WriteRun
<1>27. CASE CompleteRun(s)
  <2>1. at' \in [Sessions -> AtRow]
    BY <1>1, <1>27 DEF CompleteRun, AtRow, Labels
  <2>. QED  BY <1>1, <1>26, <1>27, <2>1 DEF CompleteRun, TypeOK
<1>28. CASE FailRun(s)
  <2>1. at' \in [Sessions -> AtRow]
    BY <1>1, <1>28 DEF FailRun, AtRow, Labels
  <2>. QED  BY <1>1, <1>26, <1>28, <2>1 DEF FailRun, TypeOK
<1>29. CASE Exit(s)
  <2>1. db' \in [Runs -> DbRow] /\ pend' \in [Sessions -> PendRow]
    BY <1>0, <1>2, <1>29, SeenTypes, CommitTyped DEF Exit
  <2>. QED  BY <1>1, <1>29, <2>1, OutsideTyped DEF Exit, TypeOK
<1>30. CASE Crash(s)
  BY <1>6, <1>30 DEF Crash
<1>. QED
  BY <1>10, <1>11, <1>12, <1>13, <1>14, <1>16, <1>17, <1>18, <1>19, <1>20, <1>21, <1>22, <1>23,
     <1>24, <1>25, <1>27, <1>28, <1>29, <1>30 DEF SessionNext, Step, Fault

-----------------------------------------------------------------------------
(* What a step does to the identity of a session and to the batch.         *)

\* A call begins, ends, or goes on with its number and its run.
Begins(s) ==
    \E l \in Runs :
        /\ at[s].pc = "out" /\ MayEnter(l)
        /\ last[l] < MaxCalls
        /\ last' = [last EXCEPT ![l] = @ + 1]
        /\ \E label \in {"insert", "lookup"} :
              at'[s] = [Outside EXCEPT !.pc = label, !.run = l, !.call = last[l] + 1]
        /\ pend' = pend /\ db' = db

Leaves(s) == at[s].pc # "out" /\ at'[s] = Outside /\ pend'[s] = NoWrites /\ last' = last

GoesOn(s) ==
    /\ at[s].pc # "out" /\ at'[s].pc # "out"
    /\ at'[s].run = at[s].run /\ at'[s].call = at[s].call
    /\ last' = last

LEMMA BeginEndOrGoOn ==
    ASSUME TypeOK, NEW s \in Sessions, SessionNext(s)
    PROVE  Begins(s) \/ Leaves(s) \/ GoesOn(s)
<1>1. at \in [Sessions -> AtRow] /\ pend \in [Sessions -> PendRow] /\ at[s] \in AtRow
  BY DEF TypeOK
<1>2. ASSUME NEW label, label # "out", at[s].pc # "out", Goto(s, label), last' = last
      PROVE  GoesOn(s)
  BY <1>1, <1>2 DEF Goto, GoesOn, AtRow
<1>3. ASSUME at[s].pc # "out", Drop(s)
      PROVE  Leaves(s)
  BY <1>1, <1>3 DEF Drop, Leaves
<1>4. ASSUME NEW l \in Runs, Enter(s, l, "insert") \/ Enter(s, l, "lookup")
      PROVE  Begins(s)
  BY <1>1, <1>4 DEF Enter, Begins
<1>5. CASE StartRun(s)
  <2>1. CASE at' = [at EXCEPT ![s].pc = "begin", ![s].id = at[s].call] /\ last' = last
    BY <1>1, <1>5, <2>1 DEF StartRun, GoesOn, AtRow
  <2>. QED  BY <1>3, <1>5, <2>1 DEF StartRun
<1>6. CASE LookupRun(s)
  <2>1. CASE /\ at' = [at EXCEPT ![s].pc = "reopen", ![s].id = SeenRun(s).id,
                                 ![s].ingested = SeenRun(s).ingested]
             /\ last' = last
    BY <1>1, <1>6, <2>1 DEF LookupRun, GoesOn, AtRow
  <2>. QED  BY <1>3, <1>6, <2>1 DEF LookupRun
<1>7. CASE ReopenRun(s)
  <2>1. CASE at' = [at EXCEPT ![s].pc = "begin", ![s].stage = FirstStage(s)] /\ last' = last
    BY <1>1, <1>7, <2>1 DEF ReopenRun, GoesOn, AtRow
  <2>. QED  BY <1>3, <1>7, <2>1 DEF ReopenRun
<1>8. CASE StartStage(s)
  BY <1>1, <1>8 DEF StartStage, GoesOn, AtRow
<1>9. CASE CompleteStage(s) \/ FailStage(s)
  BY <1>2, <1>9 DEF CompleteStage, FailStage
<1>10. CASE RecordStage(s)
  BY <1>1, <1>2, <1>10 DEF RecordStage, GoesOn, AtRow
<1>11. CASE ClaimBatch(s) \/ LoadPart(s) \/ HeartbeatBatch(s) \/ CompleteBatch(s) \/ Rollback(s)
  BY <1>2, <1>11 DEF ClaimBatch, LoadPart, HeartbeatBatch, CompleteBatch, Rollback
<1>12. CASE FailBatch(s)
  BY <1>1, <1>2, <1>12 DEF FailBatch, GoesOn, AtRow
<1>13. CASE Build(s) \/ RaiseInStage(s)
  BY <1>2, <1>13 DEF Build, RaiseInStage
<1>14. CASE CompleteRun(s) \/ FailRun(s)
  BY <1>1, <1>14 DEF CompleteRun, FailRun, GoesOn, AtRow
<1>15. ASSUME NEW quality \in BOOLEAN, FailIngestion(s, quality)
       PROVE  GoesOn(s)
  BY <1>1, <1>15 DEF FailIngestion, GoesOn, AtRow
<1>16. CASE Exit(s)
  BY <1>1, <1>16 DEF Exit, CommitWith, Leaves
<1>17. CASE Crash(s)
  BY <1>3, <1>17 DEF Crash
<1>. QED
  BY <1>4, <1>5, <1>6, <1>7, <1>8, <1>9, <1>10, <1>11, <1>12, <1>13, <1>14, <1>15, <1>16, <1>17
  DEF SessionNext, Step, Fault

\* A session writes the batch row only when no other has it pending.
LEMMA BatchWriteIsExclusive ==
    ASSUME TypeOK, NEW s \in Sessions, SessionNext(s)
    PROVE  pend'[s].batch \in {pend[s].batch, NoWrite} \/ ~BatchLocked(s)
<1>1. pend \in [Sessions -> PendRow] /\ pend[s] \in PendRow /\ NoWrites.batch = NoWrite
  BY DEF TypeOK, NoWrites
<1>2. ASSUME Drop(s)
      PROVE  pend'[s].batch = NoWrite
  BY <1>1, <1>2 DEF Drop
<1>3. CASE \E l \in Runs : Enter(s, l, "insert") \/ Enter(s, l, "lookup")
  BY <1>3 DEF Enter
<1>4. CASE StartRun(s) \/ LookupRun(s) \/ ReopenRun(s)
  BY <1>1, <1>2, <1>4 DEF StartRun, LookupRun, ReopenRun, PendRow
<1>5. CASE StartStage(s) \/ CompleteStage(s) \/ FailStage(s)
  BY <1>1, <1>5 DEF StartStage, CompleteStage, FailStage, WriteStage, PendRow
<1>6. CASE RecordStage(s) \/ LoadPart(s) \/ Exit(s)
  BY <1>1, <1>6 DEF RecordStage, LoadPart, Exit, CommitWith
<1>7. CASE ClaimBatch(s) \/ HeartbeatBatch(s) \/ CompleteBatch(s) \/ FailBatch(s)
  BY <1>7 DEF ClaimBatch, HeartbeatBatch, CompleteBatch, FailBatch
<1>8. CASE Rollback(s)
  BY <1>1, <1>8 DEF Rollback
<1>9. CASE Build(s) \/ CompleteRun(s) \/ FailRun(s)
  BY <1>1, <1>9 DEF Build, CompleteRun, FailRun, WriteRun, PendRow
<1>10. CASE Fault(s)
  BY <1>2, <1>10 DEF Fault, RaiseInStage, Crash, FailIngestion
<1>. QED
  BY <1>3, <1>4, <1>5, <1>6, <1>7, <1>8, <1>9, <1>10 DEF SessionNext, Step

-----------------------------------------------------------------------------
(* What is done stays done, whoever does the next step.                    *)

LEMMA InCall ==
    ASSUME TypeOK, NEW s \in Sessions, ControlInv(s), at[s].pc # "out"
    PROVE  Run(s) \in Runs /\ at[s].call \in 1..MaxCalls
<1>1. Run(s) \in Runs /\ at[s].call \in 1..last[Run(s)]
  BY DEF ControlInv
<1>2. last[Run(s)] \in 0..MaxCalls
  BY <1>1 DEF TypeOK
<1>. QED  BY <1>1, <1>2, RunnerAssumption

LEMMA StoreGrows ==
    ASSUME IInv, NEW s \in Sessions, SessionNext(s), NEW l \in Runs
    PROVE  /\ db[l].batch.status = "COMPLETED" =>
                  db'[l].batch.status = "COMPLETED"
           /\ db[l].parts = NumParts => db'[l].parts = NumParts
           /\ \A e \in 1..MaxCalls, w \in Slots :
                 db[l].stages[e][w] = "SUCCESS" => db'[l].stages[e][w] = "SUCCESS"
<1>0. TypeOK /\ ControlInv(s) /\ PendingBatchInv(s) /\ RowsInv(s)
  BY DEF IInv
<1>1. CASE db' = db
  BY <1>1
<1>2. CASE Commits(s)
  <2>1. at[s].pc # "out" /\ Run(s) \in Runs /\ at[s].call \in 1..MaxCalls
    BY <1>0, <1>2, InCall DEF Commits
  <2>2. PICK parts : /\ at[s].pc # "load" => parts = db[Run(s)].parts
                     /\ at[s].pc = "load" => db[Run(s)].parts < NumParts
                     /\ CommitWith(s, parts)
    BY <1>2 DEF Commits
  <2>3. CASE l # Run(s)
    BY <1>0, <2>1, <2>2, <2>3, CommitFacts
  <2>4. CASE l = Run(s)
    <3>1. /\ db'[l].batch = SeenBatch(s) /\ db'[l].parts = parts
          /\ \A e \in 1..MaxCalls, w \in Slots :
                db'[l].stages[e][w] = IF e = at[s].call THEN Row(s, w) ELSE db[l].stages[e][w]
      BY <1>0, <2>1, <2>2, <2>4, CommitFacts
    <3>2. db[l].batch.status = "COMPLETED" => pend[s].batch = NoWrite
      BY <1>0, <2>4 DEF PendingBatchInv
    <3>3. db[l].batch.status = "COMPLETED" => db'[l].batch.status = "COMPLETED"
      BY <3>1, <3>2, <2>4 DEF SeenBatch, Seen
    <3>4. db[l].parts = NumParts => db'[l].parts = NumParts
      <4>1. db[l].parts \in Nat /\ NumParts \in Nat
        BY <1>0, RunnerAssumption, SeenTypes, <2>1, <2>4
      <4>. QED  BY <2>2, <2>4, <3>1, <4>1
    <3>5. ASSUME NEW w \in Slots, db[l].stages[at[s].call][w] = "SUCCESS"
          PROVE  Row(s, w) = "SUCCESS"
      BY <1>0, <2>1, <2>4, <3>5 DEF RowsInv, Row, Seen
    <3>. QED  BY <3>1, <3>3, <3>4, <3>5
  <2>. QED  BY <2>3, <2>4
<1>3. CASE FailsBatch(s)
  <2>1. at[s].pc # "out" /\ Run(s) \in Runs
    BY <1>0, <1>3 DEF FailsBatch, ControlInv
  <2>2. db[Run(s)].batch.status # "COMPLETED"
    BY <1>3 DEF FailsBatch
  <2>. QED  BY <1>0, <1>3, <2>1, <2>2, FailFacts
<1>. QED  BY <1>1, <1>2, <1>3, StoreStep

LEMMA IngestedStays ==
    ASSUME IInv, NEW s \in Sessions, SessionNext(s), NEW l \in Runs
    PROVE  /\ \A stage \in Stages : Succeeded(l, stage) => Succeeded(l, stage)'
           /\ Ingested(l) => Ingested(l)'
<1>1. ASSUME NEW stage \in Stages, Succeeded(l, stage)
      PROVE  Succeeded(l, stage)'
  <2>1. PICK e \in 1..MaxCalls, k \in 1..StageAttempts : db[l].stages[e][<<stage, k>>] = "SUCCESS"
    BY <1>1 DEF Succeeded
  <2>2. <<stage, k>> \in Slots
    BY DEF Slots
  <2>3. db'[l].stages[e][<<stage, k>>] = "SUCCESS"
    BY <2>1, <2>2, StoreGrows
  <2>. QED  BY <2>3 DEF Succeeded
<1>. QED  BY <1>1, StoreGrows DEF Ingested, Stages, Ingest

\* Everything another session sees of its own rows is as before.
LEMMA RowsOfOthers ==
    ASSUME IInv, NEW s \in Sessions, SessionNext(s), NEW t \in Sessions \ {s}, at[t].pc # "out"
    PROVE  \A w \in Slots :
              /\ pend'[t].stages[w] = pend[t].stages[w]
              /\ db'[Run(t)].stages[at[t].call][w] = db[Run(t)].stages[at[t].call][w]
              /\ Row(t, w)' = Row(t, w)
<1>0. TypeOK /\ ControlInv(s) /\ ControlInv(t)
  BY DEF IInv
<1>1. at'[t] = at[t] /\ pend'[t] = pend[t]
  BY <1>0, OthersStay
<1>2. Run(t) \in Runs /\ at[t].call \in 1..MaxCalls
  BY <1>0, InCall
<1>3. ASSUME NEW w \in Slots
      PROVE  db'[Run(t)].stages[at[t].call][w] = db[Run(t)].stages[at[t].call][w]
  <2>1. CASE db' = db
    BY <2>1
  <2>2. CASE Commits(s)
    <3>1. at[s].pc # "out" /\ Run(s) \in Runs /\ at[s].call \in 1..MaxCalls
      BY <1>0, <2>2, InCall DEF Commits
    <3>2. PICK parts : CommitWith(s, parts)
      BY <2>2 DEF Commits
    <3>3. Run(t) = Run(s) => at[t].call # at[s].call
      BY <1>0, <3>1 DEF ControlInv
    <3>4. CASE Run(t) # Run(s)
      BY <1>0, <1>2, <3>1, <3>2, <3>4, CommitFacts
    <3>5. CASE Run(t) = Run(s)
      <4>1. \A e \in 1..MaxCalls, v \in Slots :
               db'[Run(s)].stages[e][v] =
                   IF e = at[s].call THEN Row(s, v) ELSE db[Run(s)].stages[e][v]
        BY <1>0, <3>1, <3>2, CommitFacts
      <4>. QED  BY <1>2, <3>3, <3>5, <4>1
    <3>. QED  BY <3>4, <3>5
  <2>3. CASE FailsBatch(s)
    <3>1. Run(s) \in Runs
      BY <1>0, <2>3 DEF FailsBatch, ControlInv
    <3>. QED  BY <1>0, <1>2, <2>3, <3>1, FailFacts
  <2>. QED  BY <2>1, <2>2, <2>3, StoreStep
<1>. QED  BY <1>1, <1>3 DEF Row, Run

LEMMA OthersKeepControl ==
    ASSUME IInv, NEW s \in Sessions, SessionNext(s), NEW t \in Sessions \ {s}
    PROVE  ControlInv(t)'
<1>0. TypeOK /\ ControlInv(s) /\ ControlInv(t)
  BY DEF IInv
<1>1. at'[t] = at[t] /\ pend'[t] = pend[t] /\ Run(t)' = Run(t)
  BY <1>0, OthersStay DEF Run
<1>2. CASE at[t].pc = "out"
  BY <1>0, <1>1, <1>2 DEF ControlInv, Run, OnSlot, Ingesting, Entering
<1>3. CASE at[t].pc # "out"
  <2>1. Run(t) \in Runs /\ at[t].call \in 1..last[Run(t)] /\ last \in [Runs -> 0..MaxCalls]
    BY <1>0, <1>3 DEF ControlInv, TypeOK
  <2>2. at[t].call \in 1..last'[Run(t)]
    <3>1. CASE last' = last
      BY <2>1, <3>1
    <3>2. CASE Begins(s)
      BY <2>1, <3>2, RunnerAssumption DEF Begins
    <3>. QED  BY <1>0, <3>1, <3>2, BeginEndOrGoOn DEF Leaves, GoesOn
  <2>3. ASSUME NEW u \in Sessions \ {t}, Run(u)' = Run(t)'
        PROVE  at'[u].call # at[t].call
    <3>1. CASE u # s
      <4>1. at'[u] = at[u] /\ Run(u)' = Run(u)
        BY <1>0, <3>1, OthersStay DEF Run
      <4>. QED  BY <1>0, <1>1, <1>3, <2>3, <4>1 DEF ControlInv
    <3>2. CASE u = s
      <4>1. CASE Begins(s)
        <5>1. at'[s].run \in Runs /\ at'[s].call = last[at'[s].run] + 1
          BY <4>1 DEF Begins, Outside
        <5>2. at'[s].run = Run(t)
          BY <1>1, <2>3, <3>2 DEF Run
        <5>. QED  BY <2>1, <3>2, <5>1, <5>2, RunnerAssumption
      <4>2. CASE Leaves(s)
        <5>1. Run(s)' = NoRun
          BY <4>2 DEF Leaves, Run, Outside
        <5>. QED  BY <1>1, <2>1, <2>3, <3>2, <5>1, RunnerAssumption
      <4>3. CASE GoesOn(s)
        <5>1. Run(s)' = Run(s) /\ at'[s].call = at[s].call
          BY <4>3 DEF GoesOn, Run
        <5>. QED  BY <1>0, <1>1, <1>3, <2>3, <3>2, <5>1 DEF ControlInv
      <4>. QED  BY <1>0, <4>1, <4>2, <4>3, BeginEndOrGoOn
    <3>. QED  BY <3>1, <3>2
  <2>4. at'[t].pc # "out" /\ Run(t)' \in Runs /\ at'[t].call \in 1..last'[Run(t)']
    BY <1>1, <1>3, <2>1, <2>2
  <2>5. \A u \in Sessions \ {t} : Run(u)' = Run(t)' => at'[u].call # at'[t].call
    BY <1>1, <2>3
  <2>. QED  BY <1>0, <1>1, <2>4, <2>5 DEF ControlInv, Run
<1>. QED  BY <1>2, <1>3

LEMMA OthersKeepRows ==
    ASSUME IInv, NEW s \in Sessions, SessionNext(s), NEW t \in Sessions \ {s}
    PROVE  RowsInv(t)'
<1>0. TypeOK /\ RowsInv(t)
  BY DEF IInv
<1>1. at'[t] = at[t] /\ Run(t)' = Run(t) /\ Slot(t)' = Slot(t)
  BY <1>0, OthersStay DEF Run, Slot
<1>2. CASE at[t].pc = "out"
  BY <1>1, <1>2 DEF RowsInv
<1>3. CASE at[t].pc # "out"
  <2>1. \A w \in Slots :
           /\ pend'[t].stages[w] = pend[t].stages[w]
           /\ db'[Run(t)].stages[at[t].call][w] = db[Run(t)].stages[at[t].call][w]
           /\ Row(t, w)' = Row(t, w)
    BY <1>3, RowsOfOthers
  <2>2. \A w \in Slots :
           /\ pend'[t].stages[w] # "ABSENT"
           /\ pend'[t].stages[w] = "SUCCESS" => at[t].pc = "record"
           /\ db'[Run(t)].stages[at[t].call][w] \in {"FAILED", "SUCCESS"} => pend'[t].stages[w] = NoWrite
           /\ Row(t, w)' # "ABSENT" =>
                 \/ w[1] = at[t].stage /\ w[2] <= at[t].attempt
                 \/ w[1] = Ingest /\ at[t].stage = Analyse
    BY <1>0, <1>3, <2>1 DEF RowsInv
  <2>3. ASSUME NEW stage \in Stages, NEW k \in 1..(StageAttempts - 1)
        PROVE  Row(t, <<stage, k + 1>>)' # "ABSENT" => Row(t, <<stage, k>>)' = "FAILED"
    <3>1. <<stage, k + 1>> \in Slots /\ <<stage, k>> \in Slots
      BY RunnerAssumption DEF Slots
    <3>. QED  BY <1>0, <1>3, <2>1, <3>1 DEF RowsInv
  <2>4. at[t].pc \in OnSlot \/ (at[t].pc = "begin" /\ at[t].attempt # 0) => Slot(t) \in Slots
    <3>1. ControlInv(t) /\ at[t] \in AtRow
      BY <1>0 DEF IInv, TypeOK
    <3>. QED  BY <3>1, RunnerAssumption DEF ControlInv, AtRow, Slot, Slots
  <2>5. at[t].pc \in OnSlot \/ (at[t].pc = "begin" /\ at[t].attempt # 0) =>
            Row(t, Slot(t))' = Row(t, Slot(t))
    BY <2>1, <2>4, <1>1 DEF Row, Slot
  <2>6. /\ at[t].pc = "begin" /\ at[t].attempt # 0 => Row(t, Slot(t))' = "FAILED"
        /\ at[t].pc \in {"claim", "load", "heartbeat", "rollback", "build", "stageDone"} =>
              Row(t, Slot(t))' = "RUNNING"
        /\ at[t].pc \in {"failBatch", "stageFailed"} => Row(t, Slot(t))' \in {"RUNNING", "ABSENT"}
        /\ at[t].pc = "record" => Row(t, Slot(t))' = "SUCCESS"
    BY <1>0, <1>3, <2>5 DEF RowsInv, OnSlot, Ingesting
  <2>. QED  BY <1>1, <2>2, <2>3, <2>6 DEF RowsInv
<1>. QED  BY <1>2, <1>3

LEMMA OthersKeepBatch ==
    ASSUME IInv, NEW s \in Sessions, SessionNext(s), NEW t \in Sessions \ {s}
    PROVE  PendingBatchInv(t)'
<1>0. TypeOK /\ ControlInv(s) /\ ControlInv(t) /\ PendingBatchInv(s) /\ PendingBatchInv(t)
  BY DEF IInv
<1>1. at'[t] = at[t] /\ pend'[t] = pend[t] /\ Run(t)' = Run(t)
  BY <1>0, OthersStay DEF Run
<1>2. ASSUME pend[t].batch # NoWrite
      PROVE  /\ db'[Run(t)].batch = db[Run(t)].batch
             /\ Run(s)' = Run(t) => pend'[s].batch = NoWrite
             /\ db[Run(t)].parts = NumParts => db'[Run(t)].parts = NumParts
    <2>1. at[t].pc # "out" /\ Run(t) \in Runs
      BY <1>0, <1>2 DEF PendingBatchInv, ControlInv
    <2>2. Run(s) = Run(t) => pend[s].batch = NoWrite /\ BatchLocked(s)
      BY <1>0, <1>2 DEF PendingBatchInv, BatchLocked
    <2>3. db'[Run(t)].batch = db[Run(t)].batch
      <3>1. CASE Commits(s)
        <4>1. Run(s) \in Runs /\ at[s].call \in 1..MaxCalls
          BY <1>0, <3>1, InCall DEF Commits
        <4>2. PICK parts : CommitWith(s, parts)
          BY <3>1 DEF Commits
        <4>3. CASE Run(t) # Run(s)
          BY <1>0, <2>1, <4>1, <4>2, <4>3, CommitFacts
        <4>4. CASE Run(t) = Run(s)
          <5>1. db'[Run(s)].batch = SeenBatch(s)
            BY <1>0, <4>1, <4>2, CommitFacts
          <5>. QED  BY <2>2, <4>4, <5>1 DEF SeenBatch, Seen
        <4>. QED  BY <4>3, <4>4
      <3>2. CASE FailsBatch(s)
        <4>1. Run(s) \in Runs /\ Run(s) # Run(t)
          BY <1>0, <2>2, <3>2 DEF FailsBatch, ControlInv
        <4>. QED  BY <1>0, <2>1, <3>2, <4>1, FailFacts
      <3>. QED  BY <3>1, <3>2, StoreStep
    <2>4. Run(s)' = Run(t) => pend'[s].batch = NoWrite
      <3>1. CASE Begins(s)
        BY <1>0, <3>1 DEF Begins, ControlInv, NoWrites
      <3>2. CASE Leaves(s)
        BY <3>2 DEF Leaves, NoWrites
      <3>3. CASE GoesOn(s)
        <4>1. Run(s)' = Run(s)
          BY <3>3 DEF GoesOn, Run
        <4>. QED  BY <1>0, <2>2, <4>1, BatchWriteIsExclusive
      <3>. QED  BY <1>0, <3>1, <3>2, <3>3, BeginEndOrGoOn
    <2>5. db[Run(t)].parts = NumParts => db'[Run(t)].parts = NumParts
      BY <2>1, StoreGrows
    <2>. QED  BY <2>3, <2>4, <2>5
<1>3. ASSUME pend'[t].batch # NoWrite
      PROVE  /\ at'[t].pc \in {"load", "rollback", "stageDone", "record"}
             /\ at'[t].stage = Ingest
             /\ db'[Run(t)'].batch.status # "COMPLETED"
             /\ \/ pend'[t].batch.status = "STARTED" /\ at'[t].pc \in {"load", "rollback"}
                \/ /\ pend'[t].batch.status = "COMPLETED" /\ at'[t].pc \in {"stageDone", "record"}
                   /\ db'[Run(t)'].parts = NumParts
             /\ \A u \in Sessions \ {t} : Run(u)' = Run(t)' => pend'[u].batch = NoWrite
  <2>1. pend[t].batch # NoWrite
    BY <1>1, <1>3
  <2>2. ASSUME NEW u \in Sessions \ {t}, Run(u)' = Run(t)'
        PROVE  pend'[u].batch = NoWrite
    <3>1. CASE u = s
      BY <1>1, <1>2, <2>1, <2>2, <3>1
    <3>2. CASE u # s
      <4>1. pend'[u] = pend[u] /\ Run(u)' = Run(u)
        BY <1>0, <3>2, OthersStay DEF Run
      <4>. QED  BY <1>0, <1>1, <2>1, <2>2, <4>1 DEF PendingBatchInv
    <3>. QED  BY <3>1, <3>2
  <2>. QED  BY <1>0, <1>1, <1>2, <2>1, <2>2 DEF PendingBatchInv
<1>4. ASSUME at'[t].pc \in {"stageDone", "record"}, at'[t].stage = Ingest
      PROVE  SeenBatch(t)'.status = "COMPLETED"
  <2>1. SeenBatch(t).status = "COMPLETED" /\ Run(t) \in Runs
    BY <1>0, <1>1, <1>4 DEF PendingBatchInv, ControlInv
  <2>2. CASE pend[t].batch # NoWrite
    BY <1>1, <2>1, <2>2 DEF SeenBatch, Seen
  <2>3. CASE pend[t].batch = NoWrite
    <3>1. db[Run(t)].batch.status = "COMPLETED"
      BY <2>1, <2>3 DEF SeenBatch, Seen
    <3>2. db'[Run(t)].batch.status = "COMPLETED"
      BY <2>1, <3>1, StoreGrows
    <3>. QED  BY <1>1, <2>3, <3>2 DEF SeenBatch, Seen
  <2>. QED  BY <2>2, <2>3
<1>. QED  BY <1>3, <1>4 DEF PendingBatchInv

LEMMA OthersKeepDone ==
    ASSUME IInv, NEW s \in Sessions, SessionNext(s), NEW t \in Sessions \ {s}
    PROVE  DoneInv(t)'
<1>0. TypeOK /\ ControlInv(t) /\ DoneInv(t)
  BY DEF IInv
<1>1. at'[t] = at[t] /\ pend'[t] = pend[t] /\ Run(t)' = Run(t)
  BY <1>0, OthersStay DEF Run
<1>2. CASE at[t].pc = "out"
  BY <1>0, <1>1, <1>2 DEF ControlInv, DoneInv, Outside, NoWrites, Ingest, Analyse
<1>3. CASE at[t].pc # "out"
  <2>1. PICK l \in Runs : l = Run(t)
    BY <1>0, <1>3 DEF ControlInv
  <2>2. /\ Ingested(l) => Ingested(l)'
        /\ Succeeded(l, Analyse) => Succeeded(l, Analyse)'
    BY IngestedStays DEF Analyse, Stages
  <2>3. /\ Ingested(Run(t))' <=> Ingested(l)'
        /\ Succeeded(Run(t), Analyse)' <=> Succeeded(l, Analyse)'
    BY <1>1, <2>1 DEF Ingested, Succeeded
  <2>4. /\ at[t].ingested \/ at[t].stage = Analyse => Ingested(l)
        /\ at[t].pc = "complete" \/ at[t].result = "SUCCESS" => Ingested(l) /\ Succeeded(l, Analyse)
        /\ pend[t].run # NoWrite =>
              /\ pend[t].run.ingested => Ingested(l)
              /\ pend[t].run.status = "SUCCESS" => Ingested(l) /\ Succeeded(l, Analyse)
    BY <1>0, <2>1 DEF DoneInv
  <2>. QED  BY <1>1, <2>2, <2>3, <2>4 DEF DoneInv
<1>. QED  BY <1>2, <1>3

-----------------------------------------------------------------------------
(* What is stored.                                                         *)

LEMMA CommitKeepsStored ==
    ASSUME IInv, NEW s \in Sessions, SessionNext(s), Commits(s), NEW l \in Runs, l = Run(s)
    PROVE  StoredInv(l)'
<1>0. TypeOK /\ ControlInv(s) /\ RowsInv(s) /\ PendingBatchInv(s) /\ DoneInv(s)
  BY DEF IInv
<1>1. at[s].pc # "out" /\ Run(s) \in Runs /\ at[s].call \in 1..MaxCalls /\ last' = last
  BY <1>0, InCall DEF Commits
<1>2. l = Run(s)
  OBVIOUS
<1>3. StoredInv(l)
  BY DEF IInv
<1>4. /\ db'[l].run = SeenRun(s) /\ db'[l].batch = SeenBatch(s)
      /\ \A e \in 1..MaxCalls, w \in Slots :
            db'[l].stages[e][w] = IF e = at[s].call THEN Row(s, w) ELSE db[l].stages[e][w]
  BY <1>0, <1>1, <1>2, CommitFacts DEF Commits
<1>5. /\ Ingested(l) => Ingested(l)'
      /\ Succeeded(l, Analyse) => Succeeded(l, Analyse)'
      /\ db[l].parts = NumParts => db'[l].parts = NumParts
  BY IngestedStays, StoreGrows DEF Analyse, Stages
<1>6. SeenBatch(s) = IF pend[s].batch = NoWrite THEN db[l].batch ELSE pend[s].batch
  BY <1>2 DEF SeenBatch, Seen
<1>7. db'[l].batch.status = "ABSENT" => db'[l].batch.attempts = 0
  <2>1. CASE pend[s].batch = NoWrite
    BY <1>3, <1>4, <1>6, <2>1 DEF StoredInv
  <2>2. CASE pend[s].batch # NoWrite
    BY <1>0, <1>4, <1>6, <2>2 DEF PendingBatchInv
  <2>. QED  BY <2>1, <2>2
<1>8. db'[l].batch.status = "COMPLETED" => db'[l].parts = NumParts
  <2>1. CASE pend[s].batch = NoWrite
    BY <1>3, <1>4, <1>5, <1>6, <2>1 DEF StoredInv
  <2>2. CASE pend[s].batch # NoWrite
    BY <1>0, <1>2, <1>4, <1>5, <1>6, <2>2 DEF PendingBatchInv
  <2>. QED  BY <2>1, <2>2
<1>9. /\ db'[l].run.ingested => Ingested(l)'
      /\ db'[l].run.status = "SUCCESS" => Ingested(l)' /\ Succeeded(l, Analyse)'
  <2>1. SeenRun(s) = IF pend[s].run = NoWrite THEN db[l].run ELSE pend[s].run
    BY <1>2 DEF SeenRun, Seen
  <2>2. CASE pend[s].run = NoWrite
    BY <1>3, <1>4, <1>5, <2>1, <2>2 DEF StoredInv
  <2>3. CASE pend[s].run # NoWrite
    BY <1>0, <1>2, <1>4, <1>5, <2>1, <2>3 DEF DoneInv
  <2>. QED  BY <2>2, <2>3
<1>10. ASSUME NEW e \in 1..MaxCalls
       PROVE  /\ \A k \in 1..StageAttempts :
                    db'[l].stages[e][<<Analyse, k>>] # "ABSENT" => Ingested(l)'
              /\ \A stage \in Stages, k \in 1..(StageAttempts - 1) :
                    db'[l].stages[e][<<stage, k + 1>>] # "ABSENT" =>
                        db'[l].stages[e][<<stage, k>>] = "FAILED"
              /\ e > last'[l] => \A w \in Slots : db'[l].stages[e][w] = "ABSENT"
  <2>1. ASSUME NEW stage \in Stages, NEW k \in 1..(StageAttempts - 1)
        PROVE  <<stage, k + 1>> \in Slots /\ <<stage, k>> \in Slots
    BY RunnerAssumption DEF Slots
  <2>2. ASSUME NEW k \in 1..StageAttempts
        PROVE  <<Analyse, k>> \in Slots
    BY DEF Slots, Stages, Analyse
  <2>3. CASE e = at[s].call
    <3>1. \A w \in Slots : db'[l].stages[e][w] = Row(s, w)
      BY <1>4, <2>3
    <3>2. ASSUME NEW k \in 1..StageAttempts, Row(s, <<Analyse, k>>) # "ABSENT"
          PROVE  Ingested(l)'
      <4>1. <<Analyse, k>>[1] = at[s].stage
        BY <1>0, <1>1, <2>2, <3>2 DEF RowsInv, Analyse, Ingest
      <4>. QED  BY <1>0, <1>2, <1>5, <4>1 DEF DoneInv
    <3>3. ASSUME NEW stage \in Stages, NEW k \in 1..(StageAttempts - 1)
          PROVE  Row(s, <<stage, k + 1>>) # "ABSENT" => Row(s, <<stage, k>>) = "FAILED"
      BY <1>0, <1>1 DEF RowsInv
    <3>4. ~(e > last'[l])
      <4>1. last[l] \in Nat /\ at[s].call <= last[l] /\ last[l] = last'[l]
        BY <1>0, <1>1, <1>2, RunnerAssumption DEF ControlInv, TypeOK
      <4>. QED  BY <2>3, <4>1
    <3>. QED  BY <2>1, <2>2, <3>1, <3>2, <3>3, <3>4
  <2>4. CASE e # at[s].call
    <3>1. \A w \in Slots : db'[l].stages[e][w] = db[l].stages[e][w]
      BY <1>4, <2>4
    <3>. QED  BY <1>1, <1>3, <1>5, <2>1, <2>2, <3>1 DEF StoredInv
  <2>. QED  BY <2>3, <2>4
<1>. QED  BY <1>7, <1>8, <1>9, <1>10 DEF StoredInv

LEMMA StoredStep ==
    ASSUME IInv, NEW s \in Sessions, SessionNext(s), NEW l \in Runs
    PROVE  StoredInv(l)'
<1>0. TypeOK /\ ControlInv(s) /\ StoredInv(l)
  BY DEF IInv
<1>1. \A e \in 1..MaxCalls : e > last'[l] => e > last[l]
  <2>1. last[l] \in Nat
    BY <1>0, RunnerAssumption DEF TypeOK
  <2>2. CASE last' = last
    BY <2>2
  <2>3. CASE Begins(s)
    <3>1. last'[l] \in {last[l], last[l] + 1}
      BY <1>0, <2>3 DEF Begins, TypeOK
    <3>. QED  BY <2>1, <3>1
  <2>. QED  BY <1>0, <2>2, <2>3, BeginEndOrGoOn DEF Leaves, GoesOn
<1>2. CASE db'[l] = db[l]
  BY <1>0, <1>1, <1>2 DEF StoredInv, Ingested, Succeeded
<1>3. CASE Commits(s)
  <2>1. CASE l = Run(s)
    BY <1>3, <2>1, CommitKeepsStored
  <2>2. CASE l # Run(s)
    <3>1. db'[l] = db[l]
      BY <1>0, <1>3, <2>2, InCall, CommitFacts DEF Commits
    <3>. QED  BY <1>2, <3>1
  <2>. QED  BY <2>1, <2>2
<1>4. CASE FailsBatch(s)
  <2>1. Run(s) \in Runs
    BY <1>0, <1>4 DEF FailsBatch, ControlInv
  <2>2. CASE l # Run(s)
    <3>1. db'[l] = db[l]
      BY <1>0, <1>4, <2>1, <2>2, FailFacts
    <3>. QED  BY <1>2, <3>1
  <2>3. CASE l = Run(s)
    <3>1. /\ db'[l].run = db[l].run /\ db'[l].stages = db[l].stages
          /\ db'[l].batch.status = "FAILED" /\ db[l].batch.status # "COMPLETED"
      BY <1>0, <1>4, <2>1, <2>3, FailFacts DEF FailsBatch
    <3>2. ~Ingested(l)
      BY <3>1 DEF Ingested
    <3>. QED  BY <1>0, <1>1, <3>1, <3>2 DEF StoredInv
  <2>. QED  BY <2>2, <2>3
<1>5. CASE db' = db
  BY <1>2, <1>5
<1>. QED  BY <1>3, <1>4, <1>5, StoreStep

-----------------------------------------------------------------------------
(* The session that moves.                                                 *)

SessionInv(s) == ControlInv(s) /\ RowsInv(s) /\ PendingBatchInv(s) /\ DoneInv(s)

LEMMA EndingIsSafe ==
    ASSUME NEW s \in Sessions, Leaves(s)
    PROVE  SessionInv(s)'
<1>1. at'[s] = Outside /\ pend'[s] = NoWrites
  BY DEF Leaves
<1>2. ControlInv(s)'
  BY <1>1 DEF ControlInv, Outside, Entering, OnSlot, Ingesting, Ingest
<1>3. RowsInv(s)'
  BY <1>1 DEF RowsInv, Outside
<1>4. PendingBatchInv(s)'
  BY <1>1 DEF PendingBatchInv, Outside, NoWrites
<1>5. DoneInv(s)'
  BY <1>1 DEF DoneInv, Outside, NoWrites, Ingest, Analyse
<1>. QED  BY <1>2, <1>3, <1>4, <1>5 DEF SessionInv

\* A call that begins has a number no other call of the run has, and no rows.
LEMMA BeginningIsSafe ==
    ASSUME IInv, NEW s \in Sessions, SessionNext(s), Begins(s)
    PROVE  SessionInv(s)'
<1>0. TypeOK /\ ControlInv(s)
  BY DEF IInv
<1>1. PICK l \in Runs, label \in {"insert", "lookup"} :
          /\ last[l] < MaxCalls
          /\ last' = [last EXCEPT ![l] = @ + 1]
          /\ at'[s] = [Outside EXCEPT !.pc = label, !.run = l, !.call = last[l] + 1]
          /\ pend' = pend /\ db' = db
  BY DEF Begins
<1>2. /\ at'[s].pc = label /\ at'[s].run = l /\ at'[s].call = last[l] + 1
      /\ at'[s].stage = Ingest /\ at'[s].attempt = 0 /\ at'[s].ingested = FALSE
      /\ at'[s].result = "none"
  BY <1>1 DEF Outside, Ingest
<1>3. pend'[s] = NoWrites
  BY <1>0, <1>1 DEF Begins, ControlInv
<1>4. last[l] \in Nat /\ last'[l] = last[l] + 1 /\ last[l] + 1 \in 1..MaxCalls
  BY <1>0, <1>1, RunnerAssumption DEF TypeOK
<1>5. ControlInv(s)'
  <2>1. ASSUME NEW t \in Sessions \ {s}, Run(t)' = l
        PROVE  at'[t].call # at'[s].call
    <3>1. at'[t] = at[t] /\ Run(t) = l
      BY <1>0, <2>1, OthersStay DEF Run
    <3>2. at[t].pc # "out"
      BY <3>1, RunnerAssumption DEF IInv, ControlInv, Outside, Run
    <3>3. at[t].call <= last[l]
      BY <3>1, <3>2, <1>4 DEF IInv, ControlInv
    <3>4. at[t].call \in Nat
      BY <1>0, RunnerAssumption DEF TypeOK, AtRow
    <3>. QED  BY <1>2, <1>4, <3>1, <3>3, <3>4
  <2>2. Run(s)' = l /\ at'[s].call \in 1..last'[l]
    BY <1>2, <1>4 DEF Run
  <2>. QED  BY <1>2, <1>3, <2>1, <2>2 DEF ControlInv, Entering, OnSlot, Ingesting
<1>6. RowsInv(s)'
  <2>1. \A w \in Slots : db[l].stages[last[l] + 1][w] = "ABSENT"
    BY <1>4 DEF IInv, StoredInv
  <2>2. \A w \in Slots : pend'[s].stages[w] = NoWrite
    BY <1>3 DEF NoWrites
  <2>3. \A w \in Slots : db'[Run(s)'].stages[at'[s].call][w] = "ABSENT" /\ Row(s, w)' = "ABSENT"
    BY <1>1, <1>2, <2>1, <2>2 DEF Run, Row, Seen
  <2>4. NoWrite # "ABSENT" /\ NoWrite # "SUCCESS"
    BY NoRowAssumption DEF StageStatus
  <2>5. \A stage \in Stages, k \in 1..(StageAttempts - 1) : <<stage, k + 1>> \in Slots
    BY RunnerAssumption DEF Slots
  <2>. QED  BY <1>2, <2>2, <2>3, <2>4, <2>5 DEF RowsInv
<1>7. PendingBatchInv(s)'
  BY <1>2, <1>3 DEF PendingBatchInv, NoWrites
<1>8. DoneInv(s)'
  BY <1>2, <1>3 DEF DoneInv, NoWrites, Ingest, Analyse
<1>. QED  BY <1>5, <1>6, <1>7, <1>8 DEF SessionInv

\* A step inside a call keeps its number apart from the others'.
LEMMA GoingOnKeepsCall ==
    ASSUME IInv, NEW s \in Sessions, SessionNext(s), GoesOn(s),
           at'[s].pc \in Entering => pend'[s] = NoWrites /\ at'[s].stage = Ingest /\ at'[s].attempt = 0,
           at'[s].pc = "begin" => at'[s].attempt < StageAttempts,
           at'[s].pc \in OnSlot => at'[s].attempt \in 1..StageAttempts,
           at'[s].pc \in Ingesting => at'[s].stage = Ingest,
           at'[s].pc \in {"build", "complete"} => at'[s].stage = Analyse,
           at'[s].result # "none" => at'[s].pc = "exit"
    PROVE  ControlInv(s)'
<1>0. TypeOK /\ ControlInv(s)
  BY DEF IInv
<1>1. at[s].pc # "out" /\ at'[s].pc # "out" /\ Run(s)' = Run(s) /\ at'[s].call = at[s].call /\ last' = last
  BY DEF GoesOn, Run
<1>2. \A t \in Sessions \ {s} : at'[t] = at[t] /\ Run(t)' = Run(t)
  BY <1>0, OthersStay DEF Run
<1>3. \A t \in Sessions \ {s} : Run(t)' = Run(s)' => at'[t].call # at'[s].call
  BY <1>0, <1>1, <1>2 DEF ControlInv
<1>4. Run(s)' \in Runs /\ at'[s].call \in 1..last'[Run(s)']
  BY <1>0, <1>1 DEF ControlInv
<1>. QED  BY <1>1, <1>3, <1>4 DEF ControlInv, Run

\* The rows of s are neither written nor lost: they stay where they are, or are
\* committed.
RowsStay(s) ==
    \/ Commits(s)
    \/ pend'[s].stages = pend[s].stages /\ db' = db
    \/ pend'[s].stages = pend[s].stages /\ FailsBatch(s)

LEMMA RowsStayFacts ==
    ASSUME IInv, NEW s \in Sessions, SessionNext(s), GoesOn(s), RowsStay(s)
    PROVE  \A w \in Slots :
              /\ Row(s, w)' = Row(s, w)
              /\ pend'[s].stages[w] \in {pend[s].stages[w], NoWrite}
              /\ db'[Run(s)'].stages[at'[s].call][w] \in {"FAILED", "SUCCESS"} => pend'[s].stages[w] = NoWrite
<1>0. TypeOK /\ ControlInv(s) /\ RowsInv(s)
  BY DEF IInv
<1>1. at[s].pc # "out" /\ Run(s)' = Run(s) /\ at'[s].call = at[s].call
  BY DEF GoesOn, Run
<1>2. Run(s) \in Runs /\ at[s].call \in 1..MaxCalls
  BY <1>0, <1>1, InCall
<1>3. CASE Commits(s)
  <2>1. \A w \in Slots : db'[Run(s)].stages[at[s].call][w] = Row(s, w)
    BY <1>0, <1>2, <1>3, CommitFacts DEF Commits
  <2>2. \A w \in Slots : pend'[s].stages[w] = NoWrite
    BY <1>0, <1>2, <1>3, CommitFacts DEF Commits, NoWrites
  <2>. QED  BY <1>1, <2>1, <2>2 DEF Row, Seen
<1>4. CASE pend'[s].stages = pend[s].stages /\ db' = db
  BY <1>0, <1>1, <1>4 DEF Row, RowsInv
<1>5. CASE pend'[s].stages = pend[s].stages /\ FailsBatch(s)
  <2>1. db'[Run(s)].stages = db[Run(s)].stages
    BY <1>0, <1>2, <1>5, FailFacts
  <2>. QED  BY <1>0, <1>1, <1>5, <2>1 DEF Row, RowsInv
<1>. QED  BY <1>3, <1>4, <1>5 DEF RowsStay

OnRunningSlot == {"claim", "load", "heartbeat", "rollback", "build", "stageDone"}

LEMMA RowsStayInOrder ==
    ASSUME IInv, NEW s \in Sessions, SessionNext(s), GoesOn(s), RowsStay(s),
           at'[s].stage = at[s].stage, at'[s].attempt = at[s].attempt,
           at[s].pc # "record" \/ Commits(s), at'[s].pc # "record",
           at'[s].pc = "begin" => at[s].attempt = 0,
           at'[s].pc \in OnRunningSlot => at[s].pc \in OnRunningSlot,
           at'[s].pc \in {"failBatch", "stageFailed"} =>
               at[s].pc \in OnRunningSlot \cup {"failBatch", "stageFailed"}
    PROVE  RowsInv(s)'
<1>0. TypeOK /\ ControlInv(s) /\ RowsInv(s)
  BY DEF IInv
<1>1. at[s].pc # "out" /\ Run(s)' = Run(s) /\ at'[s].call = at[s].call
  BY DEF GoesOn, Run
<1>2. \A w \in Slots :
         /\ Row(s, w)' = Row(s, w)
         /\ pend'[s].stages[w] \in {pend[s].stages[w], NoWrite}
         /\ db'[Run(s)'].stages[at'[s].call][w] \in {"FAILED", "SUCCESS"} => pend'[s].stages[w] = NoWrite
  BY RowsStayFacts
<1>3. NoWrite # "ABSENT" /\ NoWrite # "SUCCESS"
  BY NoRowAssumption DEF StageStatus
<1>4. ASSUME NEW w \in Slots
      PROVE  /\ pend'[s].stages[w] # "ABSENT"
             /\ pend'[s].stages[w] = "SUCCESS" => at'[s].pc = "record"
             /\ Row(s, w)' # "ABSENT" =>
                   \/ w[1] = at'[s].stage /\ w[2] <= at'[s].attempt
                   \/ w[1] = Ingest /\ at'[s].stage = Analyse
  <2>1. pend'[s].stages[w] # "SUCCESS"
    <3>1. CASE Commits(s)
      <4>1. pend'[s] = NoWrites
        BY <1>0, <1>1, <3>1, InCall, CommitFacts DEF Commits
      <4>. QED  BY <1>3, <4>1 DEF NoWrites
    <3>2. CASE at[s].pc # "record"
      BY <1>0, <1>1, <1>2, <1>3, <3>2 DEF RowsInv
    <3>. QED  BY <3>1, <3>2
  <2>. QED  BY <1>0, <1>1, <1>2, <1>3, <2>1 DEF RowsInv
<1>5. ASSUME NEW stage \in Stages, NEW k \in 1..(StageAttempts - 1)
      PROVE  Row(s, <<stage, k + 1>>)' # "ABSENT" => Row(s, <<stage, k>>)' = "FAILED"
  <2>1. <<stage, k + 1>> \in Slots /\ <<stage, k>> \in Slots
    BY RunnerAssumption DEF Slots
  <2>. QED  BY <1>0, <1>1, <1>2, <2>1 DEF RowsInv
<1>6. at[s].pc \in OnSlot => Slot(s) \in Slots /\ Row(s, Slot(s))' = Row(s, Slot(s))
  <2>1. at[s] \in AtRow /\ at[s].pc \in OnSlot => at[s].attempt \in 1..StageAttempts
    BY <1>0 DEF TypeOK, ControlInv
  <2>2. at[s].pc \in OnSlot => Slot(s) \in Slots
    BY <1>0, <2>1 DEF TypeOK, AtRow, Slot, Slots
  <2>3. Slot(s)' = Slot(s)
    BY DEF Slot
  <2>. QED  BY <1>2, <2>2, <2>3
<1>7. /\ at'[s].pc \in OnRunningSlot => Row(s, Slot(s))' = "RUNNING"
      /\ at'[s].pc \in {"failBatch", "stageFailed"} => Row(s, Slot(s))' \in {"RUNNING", "ABSENT"}
  BY <1>0, <1>1, <1>6 DEF RowsInv, OnRunningSlot, OnSlot, Ingesting
<1>. QED
  BY <1>2, <1>4, <1>5, <1>7 DEF RowsInv, OnRunningSlot

\* A session that leaves the batch alone, or has no write of it pending any more.
LEMMA BatchLeftAlone ==
    ASSUME IInv, NEW s \in Sessions, SessionNext(s), GoesOn(s), ~Commits(s) \/ pend'[s].batch = NoWrite,
           pend'[s].batch \in {pend[s].batch, NoWrite},
           pend'[s].batch # NoWrite =>
               /\ at'[s].pc \in {"load", "rollback", "stageDone", "record"} /\ at'[s].stage = at[s].stage
               /\ at[s].pc \in {"load", "rollback"} <=> at'[s].pc \in {"load", "rollback"},
           at'[s].pc \in {"stageDone", "record"} /\ at'[s].stage = Ingest =>
               /\ at[s].pc \in {"stageDone", "record"} /\ at[s].stage = Ingest
               /\ db' = db /\ pend'[s].batch = pend[s].batch
    PROVE  PendingBatchInv(s)'
<1>0. TypeOK /\ ControlInv(s) /\ PendingBatchInv(s)
  BY DEF IInv
<1>1. at[s].pc # "out" /\ Run(s)' = Run(s)
  BY DEF GoesOn, Run
<1>2. Run(s) \in Runs
  BY <1>0, <1>1 DEF ControlInv
<1>3. ASSUME pend'[s].batch # NoWrite
      PROVE  /\ at'[s].pc \in {"load", "rollback", "stageDone", "record"}
             /\ at'[s].stage = Ingest
             /\ db'[Run(s)].batch.status # "COMPLETED"
             /\ \/ pend'[s].batch.status = "STARTED" /\ at'[s].pc \in {"load", "rollback"}
                \/ /\ pend'[s].batch.status = "COMPLETED" /\ at'[s].pc \in {"stageDone", "record"}
                   /\ db'[Run(s)].parts = NumParts
             /\ \A t \in Sessions \ {s} : Run(t)' = Run(s)' => pend'[t].batch = NoWrite
  <2>1. pend'[s].batch = pend[s].batch /\ pend[s].batch # NoWrite
    BY <1>3
  <2>2. at[s].pc # "failBatch"
    BY <1>0, <2>1 DEF PendingBatchInv
  <2>3. db' = db
    BY <1>3, <2>2, StoreStep DEF FailsBatch
  <2>4. \A t \in Sessions \ {s} : Run(t)' = Run(t) /\ pend'[t] = pend[t]
    BY <1>0, OthersStay DEF Run
  <2>. QED  BY <1>0, <1>1, <1>3, <2>1, <2>3, <2>4 DEF PendingBatchInv
<1>4. ASSUME at'[s].pc \in {"stageDone", "record"}, at'[s].stage = Ingest
      PROVE  SeenBatch(s)'.status = "COMPLETED"
  <2>1. SeenBatch(s)' = SeenBatch(s)
    BY <1>1, <1>4 DEF SeenBatch
  <2>. QED  BY <1>0, <1>4, <2>1 DEF PendingBatchInv
<1>. QED  BY <1>1, <1>3, <1>4 DEF PendingBatchInv

\* What s counts on is still done after its step.
LEMMA DoneStays ==
    ASSUME IInv, NEW s \in Sessions, SessionNext(s), GoesOn(s),
           at'[s].ingested \/ at'[s].stage = Analyse => Ingested(Run(s)),
           at'[s].pc = "complete" \/ at'[s].result = "SUCCESS" =>
               Ingested(Run(s)) /\ Succeeded(Run(s), Analyse),
           pend'[s].run # NoWrite /\ pend'[s].run # pend[s].run =>
               /\ pend'[s].run.ingested => Ingested(Run(s))
               /\ pend'[s].run.status = "SUCCESS" => Ingested(Run(s)) /\ Succeeded(Run(s), Analyse)
    PROVE  DoneInv(s)'
<1>0. TypeOK /\ ControlInv(s) /\ DoneInv(s)
  BY DEF IInv
<1>1. at[s].pc # "out" /\ Run(s)' = Run(s)
  BY DEF GoesOn, Run
<1>2. PICK l \in Runs : l = Run(s)
  BY <1>0, <1>1 DEF ControlInv
<1>3. /\ Ingested(l) => Ingested(l)'
      /\ Succeeded(l, Analyse) => Succeeded(l, Analyse)'
  BY IngestedStays DEF Analyse, Stages
<1>4. /\ Ingested(Run(s))' <=> Ingested(l)'
      /\ Succeeded(Run(s), Analyse)' <=> Succeeded(l, Analyse)'
  BY <1>1, <1>2 DEF Ingested, Succeeded
<1>5. pend'[s].run # NoWrite =>
          /\ pend'[s].run.ingested => Ingested(l)
          /\ pend'[s].run.status = "SUCCESS" => Ingested(l) /\ Succeeded(l, Analyse)
  BY <1>0, <1>2 DEF DoneInv
<1>. QED  BY <1>2, <1>3, <1>4, <1>5 DEF DoneInv

\* All fields but the program counter are left alone.
FieldsStay(s) ==
    /\ at'[s].run = at[s].run /\ at'[s].call = at[s].call /\ at'[s].id = at[s].id
    /\ at'[s].stage = at[s].stage /\ at'[s].attempt = at[s].attempt
    /\ at'[s].ingested = at[s].ingested /\ at'[s].result = at[s].result

LEMMA GotoFacts ==
    ASSUME TypeOK, NEW s \in Sessions, NEW label, Goto(s, label)
    PROVE  at'[s].pc = label /\ FieldsStay(s)
  BY DEF TypeOK, AtRow, Goto, FieldsStay

\* Steps that only move the program counter, or note why ingestion failed.
LEMMA PlainStepsAreSafe ==
    ASSUME IInv, NEW s \in Sessions,
           \/ HeartbeatBatch(s) \/ Build(s) \/ RaiseInStage(s)
           \/ \E quality \in BOOLEAN : FailIngestion(s, quality)
    PROVE  SessionInv(s)'
<1>0. /\ SessionNext(s)
      /\ TypeOK /\ ControlInv(s) /\ RowsInv(s) /\ PendingBatchInv(s) /\ DoneInv(s)
  BY DEF IInv, SessionNext, Step, Fault
<1>1. pend' = pend /\ db' = db /\ last' = last /\ at[s].pc \in {"heartbeat", "build", "claim", "load"}
  BY DEF HeartbeatBatch, Build, RaiseInStage, FailIngestion
<1>2. /\ FieldsStay(s)
      /\ at[s].pc = "heartbeat" => at'[s].pc \in {"load", "rollback"}
      /\ at[s].pc = "load" => at'[s].pc = "rollback"
      /\ at[s].pc = "claim" => at'[s].pc = "stageFailed"
      /\ at[s].pc = "build" => at'[s].pc \in {"stageDone", "stageFailed"}
  <2>1. CASE \E quality \in BOOLEAN : FailIngestion(s, quality)
    <3>1. PICK quality \in BOOLEAN : FailIngestion(s, quality)
      BY <2>1
    <3>2. at[s].pc = "load" /\ at'[s] = [at[s] EXCEPT !.pc = "rollback", !.quality = quality]
      BY <1>0, <3>1 DEF FailIngestion, TypeOK
    <3>. QED  BY <1>0, <3>2 DEF TypeOK, AtRow, FieldsStay
  <2>2. CASE HeartbeatBatch(s)
    BY <1>0, <2>2, GotoFacts DEF HeartbeatBatch
  <2>3. CASE Build(s) \/ RaiseInStage(s)
    BY <1>0, <2>3, GotoFacts DEF Build, RaiseInStage
  <2>. QED  BY <2>1, <2>2, <2>3
<1>3. at'[s].pc \in {"load", "rollback", "stageFailed", "stageDone"}
  BY <1>1, <1>2
<1>5. GoesOn(s) /\ RowsStay(s)
  BY <1>1, <1>2, <1>3 DEF GoesOn, RowsStay, FieldsStay
<1>6. ControlInv(s)'
  BY <1>0, <1>1, <1>2, <1>3, <1>5, GoingOnKeepsCall
  DEF ControlInv, FieldsStay, Entering, OnSlot, Ingesting
<1>7. RowsInv(s)'
  BY <1>0, <1>1, <1>2, <1>3, <1>5, RowsStayInOrder DEF FieldsStay, OnRunningSlot
<1>8. PendingBatchInv(s)'
  <2>1. pend[s].batch # NoWrite => at[s].pc = "load"
    BY <1>0, <1>1 DEF PendingBatchInv
  <2>2. at[s].pc = "build" => at[s].stage # Ingest
    BY <1>0 DEF ControlInv, Ingest, Analyse
  <2>3. ~Commits(s) \/ pend'[s].batch = NoWrite
    BY <1>0, <1>1, <1>2, <1>3, <2>1, InCall, CommitFacts DEF Commits, NoWrites
  <2>. QED  BY <1>0, <1>1, <1>2, <1>3, <1>5, <2>1, <2>2, <2>3, BatchLeftAlone DEF FieldsStay
<1>9. DoneInv(s)'
  BY <1>0, <1>1, <1>2, <1>3, <1>5, DoneStays DEF DoneInv, FieldsStay
<1>. QED  BY <1>6, <1>7, <1>8, <1>9 DEF SessionInv

\* LookupRun, StartRun and ReopenRun: nothing has been executed yet.
LEMMA EnteringIsSafe ==
    ASSUME IInv, NEW s \in Sessions, StartRun(s) \/ LookupRun(s) \/ ReopenRun(s)
    PROVE  SessionInv(s)'
<1>0. /\ SessionNext(s)
      /\ TypeOK /\ ControlInv(s) /\ RowsInv(s) /\ PendingBatchInv(s) /\ DoneInv(s)
  BY DEF IInv, SessionNext, Step
<1>1. at[s].pc \in Entering /\ at[s] \in AtRow /\ pend[s] \in PendRow
  BY <1>0 DEF StartRun, LookupRun, ReopenRun, Entering, TypeOK
<1>2. /\ pend[s] = NoWrites /\ at[s].stage = Ingest /\ at[s].attempt = 0 /\ at[s].pc # "out"
      /\ at[s].result = "none"
  BY <1>0, <1>1 DEF ControlInv, Entering
<1>3. pend[s].run = NoWrite /\ pend[s].batch = NoWrite
  BY <1>2 DEF NoWrites
<1>4. PICK l \in Runs : l = Run(s)
  BY <1>0, <1>2 DEF ControlInv
<1>5. db[l].run.ingested => Ingested(l)
  BY DEF IInv, StoredInv
<1>6. SeenRun(s) = db[l].run
  BY <1>3, <1>4 DEF SeenRun, Seen
<1>7. CASE Drop(s)
  <2>1. Leaves(s)
    BY <1>0, <1>2, <1>7 DEF Drop, Leaves, TypeOK
  <2>. QED  BY <2>1, EndingIsSafe
<1>8. CASE LookupRun(s) /\ ~Drop(s)
  <2>1. /\ at' = [at EXCEPT ![s].pc = "reopen", ![s].id = SeenRun(s).id, ![s].ingested = SeenRun(s).ingested]
        /\ pend' = pend /\ db' = db /\ last' = last
    BY <1>8 DEF LookupRun
  <2>2. /\ at'[s].pc = "reopen" /\ at'[s].run = at[s].run /\ at'[s].call = at[s].call
        /\ at'[s].stage = Ingest /\ at'[s].attempt = 0 /\ at'[s].result = "none"
        /\ at'[s].ingested = db[l].run.ingested
    BY <1>0, <1>1, <1>2, <1>6, <2>1 DEF TypeOK, AtRow
  <2>3. GoesOn(s) /\ RowsStay(s)
    BY <1>2, <2>1, <2>2 DEF GoesOn, RowsStay
  <2>4. ControlInv(s)'
    BY <1>0, <1>2, <2>1, <2>2, <2>3, GoingOnKeepsCall DEF OnSlot, Ingesting
  <2>5. RowsInv(s)'
    BY <1>0, <1>1, <1>2, <2>2, <2>3, RowsStayInOrder DEF OnRunningSlot, Entering
  <2>6. PendingBatchInv(s)'
    BY <1>0, <1>3, <2>1, <2>2, <2>3, BatchLeftAlone
  <2>7. DoneInv(s)'
    BY <1>0, <1>4, <1>5, <2>1, <2>2, <2>3, DoneStays DEF Ingest, Analyse
  <2>. QED  BY <2>4, <2>5, <2>6, <2>7 DEF SessionInv
<1>9. CASE StartRun(s) /\ ~Drop(s)
  <2>1. /\ at' = [at EXCEPT ![s].pc = "begin", ![s].id = at[s].call]
        /\ pend' = [pend EXCEPT ![s].run = [status |-> "RUNNING", id |-> at[s].call, ingested |-> FALSE]]
        /\ db' = db /\ last' = last
    BY <1>9 DEF StartRun
  <2>2. /\ at'[s].pc = "begin" /\ at'[s].run = at[s].run /\ at'[s].call = at[s].call
        /\ at'[s].stage = Ingest /\ at'[s].attempt = 0 /\ at'[s].result = "none"
        /\ at'[s].ingested = at[s].ingested
    BY <1>0, <1>1, <1>2, <2>1 DEF TypeOK, AtRow
  <2>3. /\ pend'[s].run = [status |-> "RUNNING", id |-> at[s].call, ingested |-> FALSE]
        /\ pend'[s].batch = pend[s].batch /\ pend'[s].stages = pend[s].stages
    BY <1>0, <1>1, <2>1 DEF TypeOK, PendRow
  <2>4. GoesOn(s) /\ RowsStay(s)
    BY <1>2, <2>1, <2>2, <2>3 DEF GoesOn, RowsStay
  <2>5. ControlInv(s)'
    BY <1>0, <1>2, <2>2, <2>4, GoingOnKeepsCall, RunnerAssumption DEF OnSlot, Ingesting, Entering
  <2>6. RowsInv(s)'
    BY <1>0, <1>1, <1>2, <2>2, <2>4, RowsStayInOrder DEF OnRunningSlot, Entering
  <2>7. PendingBatchInv(s)'
    BY <1>0, <1>3, <2>2, <2>3, <2>4, BatchLeftAlone
  <2>8. DoneInv(s)'
    BY <1>0, <2>2, <2>3, <2>4, DoneStays DEF DoneInv, Ingest, Analyse
  <2>. QED  BY <2>5, <2>6, <2>7, <2>8 DEF SessionInv
<1>10. CASE ReopenRun(s) /\ ~Drop(s)
  <2>1. /\ at' = [at EXCEPT ![s].pc = "begin", ![s].stage = FirstStage(s)]
        /\ pend' = [pend EXCEPT ![s].run = [SeenRun(s) EXCEPT !.status = "RUNNING"]]
        /\ db' = db /\ last' = last
    BY <1>10 DEF ReopenRun
  <2>2. /\ at'[s].pc = "begin" /\ at'[s].run = at[s].run /\ at'[s].call = at[s].call
        /\ at'[s].stage = FirstStage(s) /\ at'[s].attempt = 0 /\ at'[s].result = "none"
        /\ at'[s].ingested = at[s].ingested
    BY <1>0, <1>1, <1>2, <2>1 DEF TypeOK, AtRow
  <2>3. /\ pend'[s].run = [db[l].run EXCEPT !.status = "RUNNING"]
        /\ pend'[s].batch = NoWrite /\ pend'[s].stages = pend[s].stages
    BY <1>0, <1>1, <1>3, <1>6, <2>1 DEF TypeOK, PendRow
  <2>4. GoesOn(s) /\ RowsStay(s)
    BY <1>2, <2>1, <2>2, <2>3 DEF GoesOn, RowsStay
  <2>5. ControlInv(s)'
    BY <1>0, <1>2, <2>2, <2>4, GoingOnKeepsCall, RunnerAssumption DEF OnSlot, Ingesting, Entering
  <2>6. RowsInv(s)'
    <3>1. \A w \in Slots : Row(s, w) = "ABSENT"
      <4>1. \A w \in Slots : w[2] \in 1..StageAttempts
        BY DEF Slots
      <4>. QED  BY <1>0, <1>2, <4>1, RunnerAssumption DEF RowsInv, Ingest, Analyse
    <3>2. \A w \in Slots : Row(s, w)' = "ABSENT" /\ pend'[s].stages[w] = NoWrite
      BY <1>2, <2>3, <2>4, <3>1, <1>0, RowsStayFacts DEF NoWrites
    <3>3. NoWrite # "ABSENT" /\ NoWrite # "SUCCESS"
      BY NoRowAssumption DEF StageStatus
    <3>4. \A stage \in Stages, k \in 1..(StageAttempts - 1) : <<stage, k + 1>> \in Slots
      BY RunnerAssumption DEF Slots
    <3>. QED  BY <2>2, <3>2, <3>3, <3>4 DEF RowsInv
  <2>7. PendingBatchInv(s)'
    BY <1>0, <1>3, <2>2, <2>3, <2>4, BatchLeftAlone
  <2>8. DoneInv(s)'
    <3>1. pend'[s].run.status = "RUNNING" /\ pend'[s].run.ingested = db[l].run.ingested
      <4>1. db[l].run \in RunRow
        BY <1>0, <1>4, SeenTypes
      <4>. QED  BY <2>3, <4>1 DEF RunRow
    <3>2. at[s].ingested => Ingested(l)
      BY <1>0, <1>4 DEF DoneInv
    <3>. QED  BY <1>0, <1>4, <1>5, <2>2, <2>4, <3>1, <3>2, DoneStays DEF FirstStage, Ingest, Analyse
  <2>. QED  BY <2>5, <2>6, <2>7, <2>8 DEF SessionInv
<1>. QED  BY <1>7, <1>8, <1>9, <1>10

LEMMA WriteStageFacts ==
    ASSUME TypeOK, NEW s \in Sessions, NEW w \in Slots, NEW status, status # NoWrite,
           WriteStage(s, w, status), db' = db, at'[s].run = at[s].run, at'[s].call = at[s].call
    PROVE  /\ pend'[s].run = pend[s].run /\ pend'[s].batch = pend[s].batch
           /\ \A v \in Slots :
                 /\ pend'[s].stages[v] = IF v = w THEN status ELSE pend[s].stages[v]
                 /\ Row(s, v)' = IF v = w THEN status ELSE Row(s, v)
<1>1. pend \in [Sessions -> PendRow] /\ pend[s] \in PendRow
  BY DEF TypeOK
<1>2. pend'[s] = [pend[s] EXCEPT !.stages[w] = status]
  BY <1>1 DEF WriteStage
<1>3. /\ pend'[s].run = pend[s].run /\ pend'[s].batch = pend[s].batch
      /\ pend'[s].stages = [pend[s].stages EXCEPT ![w] = status]
  BY <1>1, <1>2 DEF PendRow
<1>4. pend[s].stages \in [Slots -> StageStatus \cup {NoWrite}]
  BY <1>1 DEF PendRow
<1>5. \A v \in Slots : pend'[s].stages[v] = IF v = w THEN status ELSE pend[s].stages[v]
  BY <1>3, <1>4
<1>. QED  BY <1>3, <1>5 DEF Row, Seen, Run

\* start_stage_run: the row of the next attempt.
LEMMA StartStageIsSafe ==
    ASSUME IInv, NEW s \in Sessions, StartStage(s)
    PROVE  SessionInv(s)'
<1>0. /\ SessionNext(s)
      /\ TypeOK /\ ControlInv(s) /\ RowsInv(s) /\ PendingBatchInv(s) /\ DoneInv(s)
  BY DEF IInv, SessionNext, Step
<1>1. /\ at[s].pc = "begin" /\ at[s] \in AtRow /\ at[s].stage \in Stages
      /\ at[s].attempt < StageAttempts /\ at[s].attempt \in Nat
      /\ db' = db /\ last' = last
  BY <1>0, RunnerAssumption DEF StartStage, TypeOK, AtRow, ControlInv
<1>2. /\ at'[s].pc = IF at[s].stage = Ingest THEN "claim" ELSE "build"
      /\ at'[s].attempt = at[s].attempt + 1
      /\ at'[s].run = at[s].run /\ at'[s].call = at[s].call /\ at'[s].stage = at[s].stage
      /\ at'[s].ingested = at[s].ingested /\ at'[s].result = at[s].result
  BY <1>0, <1>1 DEF StartStage, TypeOK, AtRow, Ingest
<1>. DEFINE w == <<at[s].stage, at[s].attempt + 1>>
<1>3. w \in Slots /\ Slot(s)' = w
  BY <1>1, <1>2, RunnerAssumption DEF Slots, Slot
<1>4. "RUNNING" # NoWrite
  BY NoRowAssumption DEF StageStatus
<1>5. WriteStage(s, w, "RUNNING")
  BY DEF StartStage
<1>6. PICK c \in Slots : c = w
  BY <1>3
<1>. HIDE DEF w
<1>7. /\ pend'[s].run = pend[s].run /\ pend'[s].batch = pend[s].batch
      /\ \A v \in Slots :
            /\ pend'[s].stages[v] = IF v = c THEN "RUNNING" ELSE pend[s].stages[v]
            /\ Row(s, v)' = IF v = c THEN "RUNNING" ELSE Row(s, v)
  BY <1>0, <1>1, <1>2, <1>4, <1>5, <1>6, WriteStageFacts
<1>8. c[1] = at[s].stage /\ c[2] = at[s].attempt + 1 /\ c = <<at[s].stage, at[s].attempt + 1>>
  BY <1>6 DEF w
<1>9. GoesOn(s) /\ ~Commits(s)
  BY <1>1, <1>2 DEF GoesOn, Commits
<1>10. ControlInv(s)'
  <2>1. at'[s].attempt \in 1..StageAttempts
    BY <1>1, <1>2, RunnerAssumption
  <2>2. at[s].stage \in {Ingest, Analyse}
    BY <1>1 DEF Stages, Ingest, Analyse
  <2>. QED  BY <1>0, <1>1, <1>2, <1>9, <2>1, <2>2, GoingOnKeepsCall DEF ControlInv, Entering, Ingesting
<1>11. RowsInv(s)'
  <2>1. /\ at[s].pc # "out" /\ Run(s)' = Run(s) /\ at'[s].pc \in {"claim", "build"}
        /\ at'[s].call = at[s].call
    BY <1>1, <1>2 DEF Run
  <2>2. NoWrite # "ABSENT" /\ NoWrite # "SUCCESS"
    BY NoRowAssumption DEF StageStatus
  <2>3. Row(s, c) = "ABSENT"
    BY <1>0, <1>1, <1>8, <2>1 DEF RowsInv, Ingest, Analyse
  <2>4. ASSUME NEW v \in Slots
        PROVE  /\ pend'[s].stages[v] # "ABSENT"
               /\ pend'[s].stages[v] # "SUCCESS"
               /\ db'[Run(s)'].stages[at'[s].call][v] \in {"FAILED", "SUCCESS"} => pend'[s].stages[v] = NoWrite
               /\ Row(s, v)' # "ABSENT" =>
                     \/ v[1] = at'[s].stage /\ v[2] <= at'[s].attempt
                     \/ v[1] = Ingest /\ at'[s].stage = Analyse
    <3>1. CASE v = c
      <4>1. db[Run(s)].stages[at[s].call][c] \notin {"FAILED", "SUCCESS"}
        <5>1. CASE pend[s].stages[c] = NoWrite
          BY <2>3, <5>1 DEF Row, Seen
        <5>2. CASE pend[s].stages[c] # NoWrite
          BY <1>0, <2>1, <5>2 DEF RowsInv
        <5>. QED  BY <5>1, <5>2
      <4>. QED  BY <1>1, <1>2, <1>7, <1>8, <2>1, <3>1, <4>1
    <3>2. CASE v # c
      <4>1. v[2] \in Nat
        BY DEF Slots
      <4>. QED  BY <1>0, <1>1, <1>2, <1>7, <2>1, <3>2, <4>1 DEF RowsInv
    <3>. QED  BY <3>1, <3>2
  <2>5. ASSUME NEW stage \in Stages, NEW k \in 1..(StageAttempts - 1), Row(s, <<stage, k + 1>>)' # "ABSENT"
        PROVE  Row(s, <<stage, k>>)' = "FAILED"
    <3>1. <<stage, k + 1>> \in Slots /\ <<stage, k>> \in Slots /\ k \in Nat /\ k # 0
      BY RunnerAssumption DEF Slots
    <3>2. CASE <<stage, k + 1>> = c
      <4>1. stage = at[s].stage /\ k = at[s].attempt
        BY <1>1, <1>8, <3>1, <3>2
      <4>2. Row(s, <<stage, k>>) = "FAILED"
        BY <1>0, <1>1, <3>1, <4>1 DEF RowsInv, Slot
      <4>. QED  BY <1>7, <2>3, <3>1, <4>2
    <3>3. CASE <<stage, k + 1>> # c
      <4>1. Row(s, <<stage, k + 1>>) # "ABSENT"
        BY <1>7, <2>5, <3>1, <3>3
      <4>2. Row(s, <<stage, k>>) = "FAILED"
        BY <1>0, <2>1, <4>1 DEF RowsInv
      <4>. QED  BY <1>7, <2>3, <3>1, <4>2
    <3>. QED  BY <3>2, <3>3
  <2>6. Row(s, Slot(s))' = "RUNNING"
    <3>1. Slot(s)' = c
      BY <1>3, <1>6
    <3>2. Row(s, c)' = "RUNNING"
      BY <1>7
    <3>. QED  BY <3>1, <3>2 DEF Row
  <2>. QED  BY <2>1, <2>4, <2>5, <2>6 DEF RowsInv
<1>12. PendingBatchInv(s)'
  BY <1>0, <1>1, <1>2, <1>7, <1>9, BatchLeftAlone DEF PendingBatchInv
<1>13. DoneInv(s)'
  BY <1>0, <1>1, <1>2, <1>7, <1>9, DoneStays DEF DoneInv
<1>. QED  BY <1>10, <1>11, <1>12, <1>13 DEF SessionInv

\* complete_stage_run and fail_stage_run: the end of the current attempt's row.
LEMMA EndOfAttempt ==
    ASSUME IInv, NEW s \in Sessions, SessionNext(s), GoesOn(s),
           at[s].pc \in {"stageDone", "stageFailed"}, NEW status \in {"SUCCESS", "FAILED"},
           WriteStage(s, Slot(s), status), db' = db, FieldsStay(s), Row(s, Slot(s)) = "RUNNING",
           status = "SUCCESS" => at'[s].pc = "record",
           status = "FAILED" => at'[s].pc \in {"begin", "fail"}
    PROVE  /\ RowsInv(s)'
           /\ pend'[s].run = pend[s].run /\ pend'[s].batch = pend[s].batch
<1>0. TypeOK /\ ControlInv(s) /\ RowsInv(s)
  BY DEF IInv
<1>1. /\ at[s].pc # "out" /\ Run(s)' = Run(s) /\ at'[s].call = at[s].call /\ Slot(s)' = Slot(s)
      /\ at'[s].stage = at[s].stage /\ at'[s].attempt = at[s].attempt
  BY DEF GoesOn, Run, FieldsStay, Slot
<1>2. Slot(s) \in Slots
  BY <1>0 DEF ControlInv, OnSlot, TypeOK, AtRow, Slot, Slots
<1>3. PICK c \in Slots : c = Slot(s)
  BY <1>2
<1>4. status # NoWrite /\ NoWrite # "ABSENT" /\ NoWrite # "SUCCESS"
  BY NoRowAssumption DEF StageStatus
<1>5. /\ pend'[s].run = pend[s].run /\ pend'[s].batch = pend[s].batch
      /\ \A v \in Slots :
            /\ pend'[s].stages[v] = IF v = c THEN status ELSE pend[s].stages[v]
            /\ Row(s, v)' = IF v = c THEN status ELSE Row(s, v)
  BY <1>0, <1>3, <1>4, WriteStageFacts DEF FieldsStay
<1>6. ASSUME NEW v \in Slots
      PROVE  /\ pend'[s].stages[v] # "ABSENT"
             /\ pend'[s].stages[v] = "SUCCESS" => at'[s].pc = "record"
             /\ db'[Run(s)'].stages[at'[s].call][v] \in {"FAILED", "SUCCESS"} => pend'[s].stages[v] = NoWrite
             /\ Row(s, v)' # "ABSENT" =>
                   \/ v[1] = at'[s].stage /\ v[2] <= at'[s].attempt
                   \/ v[1] = Ingest /\ at'[s].stage = Analyse
  <2>1. CASE v = c
    <3>1. Row(s, c) = "RUNNING"
      BY <1>3
    <3>2. db[Run(s)].stages[at[s].call][c] \notin {"FAILED", "SUCCESS"}
      <4>1. CASE pend[s].stages[c] = NoWrite
        BY <3>1, <4>1 DEF Row, Seen
      <4>2. CASE pend[s].stages[c] # NoWrite
        BY <1>0, <1>1, <4>2 DEF RowsInv
      <4>. QED  BY <4>1, <4>2
    <3>3. \/ c[1] = at[s].stage /\ c[2] <= at[s].attempt
          \/ c[1] = Ingest /\ at[s].stage = Analyse
      BY <1>0, <1>1, <3>1 DEF RowsInv
    <3>. QED  BY <1>1, <1>5, <2>1, <3>2, <3>3
  <2>2. CASE v # c
    <3>1. pend[s].stages[v] # "SUCCESS"
      BY <1>0, <1>1 DEF RowsInv
    <3>. QED  BY <1>0, <1>1, <1>5, <2>2, <3>1 DEF RowsInv
  <2>. QED  BY <2>1, <2>2
<1>7. ASSUME NEW stage \in Stages, NEW k \in 1..(StageAttempts - 1), Row(s, <<stage, k + 1>>)' # "ABSENT"
      PROVE  Row(s, <<stage, k>>)' = "FAILED"
  <2>1. <<stage, k + 1>> \in Slots /\ <<stage, k>> \in Slots
    BY RunnerAssumption DEF Slots
  <2>2. Row(s, <<stage, k + 1>>) # "ABSENT"
    BY <1>3, <1>5, <1>7, <2>1
  <2>3. Row(s, <<stage, k>>) = "FAILED"
    BY <1>0, <1>1, <2>2 DEF RowsInv
  <2>4. <<stage, k>> # c
    BY <1>3, <2>3
  <2>. QED  BY <1>5, <2>1, <2>3, <2>4
<1>8. Row(s, Slot(s))' = status
  <2>1. Slot(s)' = c
    BY <1>1, <1>3
  <2>. QED  BY <1>5, <2>1 DEF Row
<1>9. RowsInv(s)'
  BY <1>1, <1>6, <1>7, <1>8 DEF RowsInv
<1>. QED  BY <1>5, <1>9

LEMMA CompleteStageIsSafe ==
    ASSUME IInv, NEW s \in Sessions, CompleteStage(s)
    PROVE  SessionInv(s)'
<1>0. /\ SessionNext(s)
      /\ TypeOK /\ ControlInv(s) /\ RowsInv(s) /\ PendingBatchInv(s) /\ DoneInv(s)
  BY DEF IInv, SessionNext, Step
<1>1. /\ at[s].pc = "stageDone" /\ db' = db /\ last' = last
      /\ at'[s].pc = "record" /\ FieldsStay(s) /\ WriteStage(s, Slot(s), "SUCCESS")
  BY <1>0, GotoFacts DEF CompleteStage
<1>2. GoesOn(s) /\ ~Commits(s)
  BY <1>1 DEF GoesOn, Commits, FieldsStay
<1>3. Row(s, Slot(s)) = "RUNNING"
  BY <1>0, <1>1 DEF RowsInv
<1>4. RowsInv(s)' /\ pend'[s].run = pend[s].run /\ pend'[s].batch = pend[s].batch
  BY <1>0, <1>1, <1>2, <1>3, EndOfAttempt
<1>5. ControlInv(s)'
  BY <1>0, <1>1, <1>2, GoingOnKeepsCall DEF ControlInv, FieldsStay, Entering, OnSlot, Ingesting
<1>6. PendingBatchInv(s)'
  BY <1>0, <1>1, <1>2, <1>4, BatchLeftAlone DEF FieldsStay, PendingBatchInv
<1>7. DoneInv(s)'
  BY <1>0, <1>1, <1>2, <1>4, DoneStays DEF DoneInv, FieldsStay
<1>. QED  BY <1>4, <1>5, <1>6, <1>7 DEF SessionInv

LEMMA FailStageIsSafe ==
    ASSUME IInv, NEW s \in Sessions, FailStage(s)
    PROVE  SessionInv(s)'
<1>0. /\ SessionNext(s)
      /\ TypeOK /\ ControlInv(s) /\ RowsInv(s) /\ PendingBatchInv(s) /\ DoneInv(s)
  BY DEF IInv, SessionNext, Step
<1>1. /\ at[s].pc = "stageFailed" /\ db' = db /\ last' = last
      /\ FieldsStay(s) /\ at'[s].pc \in {"begin", "fail"}
      /\ at'[s].pc = "begin" => at[s].attempt < StageAttempts
  BY <1>0, GotoFacts DEF FailStage, Retried
<1>2. GoesOn(s) /\ ~Commits(s)
  BY <1>1 DEF GoesOn, Commits, FieldsStay
<1>3. SeenStage(s) = Row(s, Slot(s))
  BY DEF SeenStage, Row
<1>4. Row(s, Slot(s)) \in {"RUNNING", "ABSENT"}
  BY <1>0, <1>1 DEF RowsInv
<1>5. RowsInv(s)' /\ pend'[s].run = pend[s].run /\ pend'[s].batch = pend[s].batch
  <2>1. CASE WriteStage(s, Slot(s), "FAILED") /\ SeenStage(s) # "ABSENT"
    BY <1>0, <1>1, <1>2, <1>3, <1>4, <2>1, EndOfAttempt
  <2>2. CASE Goto(s, "fail") /\ pend' = pend
    <3>1. RowsStay(s) /\ at'[s].pc = "fail"
      BY <1>0, <1>1, <2>2, GotoFacts DEF RowsStay
    <3>2. RowsInv(s)'
      BY <1>0, <1>1, <1>2, <3>1, RowsStayInOrder DEF FieldsStay, OnRunningSlot
    <3>. QED  BY <2>2, <3>2
  <2>. QED  BY <2>1, <2>2 DEF FailStage
<1>6. ControlInv(s)'
  BY <1>0, <1>1, <1>2, GoingOnKeepsCall DEF ControlInv, FieldsStay, Entering, OnSlot, Ingesting
<1>7. PendingBatchInv(s)'
  BY <1>0, <1>1, <1>2, <1>5, BatchLeftAlone DEF FieldsStay, PendingBatchInv
<1>8. DoneInv(s)'
  BY <1>0, <1>1, <1>2, <1>5, DoneStays DEF DoneInv, FieldsStay
<1>. QED  BY <1>5, <1>6, <1>7, <1>8 DEF SessionInv

\* A part is committed, with everything else that is pending.
LEMMA LoadPartIsSafe ==
    ASSUME IInv, NEW s \in Sessions, LoadPart(s)
    PROVE  SessionInv(s)'
<1>0. /\ SessionNext(s)
      /\ TypeOK /\ ControlInv(s) /\ RowsInv(s) /\ PendingBatchInv(s) /\ DoneInv(s)
  BY DEF IInv, SessionNext, Step
<1>1. /\ at[s].pc = "load" /\ last' = last /\ at'[s].pc = "heartbeat" /\ FieldsStay(s)
      /\ CommitWith(s, db[Run(s)].parts + 1) /\ db[Run(s)].parts < NumParts
  BY <1>0, GotoFacts DEF LoadPart
<1>2. GoesOn(s) /\ Commits(s)
  BY <1>1 DEF GoesOn, Commits, FieldsStay
<1>3. RowsStay(s)
  BY <1>2 DEF RowsStay
<1>4. pend'[s] = NoWrites
  BY <1>0, <1>1, InCall, CommitFacts
<1>5. ControlInv(s)'
  BY <1>0, <1>1, <1>2, GoingOnKeepsCall DEF ControlInv, FieldsStay, Entering, OnSlot, Ingesting
<1>6. RowsInv(s)'
  BY <1>0, <1>1, <1>2, <1>3, RowsStayInOrder DEF FieldsStay, OnRunningSlot
<1>7. PendingBatchInv(s)'
  BY <1>0, <1>1, <1>2, <1>4, BatchLeftAlone DEF NoWrites
<1>8. DoneInv(s)'
  BY <1>0, <1>1, <1>2, <1>4, DoneStays DEF DoneInv, FieldsStay, NoWrites
<1>. QED  BY <1>5, <1>6, <1>7, <1>8 DEF SessionInv

\* update_stage_records_processed: the stage is committed as a success, and the
\* batch with it.
LEMMA RecordStageIsSafe ==
    ASSUME IInv, NEW s \in Sessions, RecordStage(s)
    PROVE  SessionInv(s)'
<1>0. /\ SessionNext(s)
      /\ TypeOK /\ ControlInv(s) /\ RowsInv(s) /\ PendingBatchInv(s) /\ DoneInv(s)
  BY DEF IInv, SessionNext, Step
<1>1. /\ at[s].pc = "record" /\ last' = last /\ CommitWith(s, db[Run(s)].parts)
      /\ at'[s].run = at[s].run /\ at'[s].call = at[s].call /\ at'[s].result = at[s].result
      /\ \/ /\ at[s].stage = Ingest /\ at'[s].pc = "begin" /\ at'[s].stage = Analyse
            /\ at'[s].attempt = 0 /\ at'[s].ingested = TRUE
         \/ /\ at[s].stage = Analyse /\ at'[s].pc = "complete" /\ FieldsStay(s)
  <2>1. CASE at[s].stage = Ingest
    <3>1. at' = [at EXCEPT ![s].pc = "begin", ![s].stage = "analytics_build",
                           ![s].attempt = 0, ![s].ingested = TRUE]
      BY <2>1 DEF RecordStage, Ingest, Analyse
    <3>2. /\ at'[s].pc = "begin" /\ at'[s].stage = Analyse /\ at'[s].attempt = 0
          /\ at'[s].ingested = TRUE
          /\ at'[s].run = at[s].run /\ at'[s].call = at[s].call /\ at'[s].result = at[s].result
      BY <1>0, <3>1 DEF TypeOK, AtRow, Analyse
    <3>. QED  BY <2>1, <3>2 DEF RecordStage
  <2>2. CASE at[s].stage = Analyse
    <3>1. Goto(s, "complete")
      BY <2>2 DEF RecordStage, Ingest, Analyse
    <3>. QED  BY <1>0, <2>2, <3>1, GotoFacts DEF RecordStage, FieldsStay
  <2>. QED  BY <2>1, <2>2 DEF RecordStage, Ingest, Analyse
<1>2. GoesOn(s) /\ Commits(s)
  BY <1>1 DEF GoesOn, Commits, FieldsStay
<1>3. RowsStay(s)
  BY <1>2 DEF RowsStay
<1>4. Run(s) \in Runs /\ at[s].call \in 1..MaxCalls /\ pend'[s] = NoWrites
  BY <1>0, <1>1, InCall, CommitFacts
<1>5. PICK l \in Runs : l = Run(s)
  BY <1>4
<1>6. /\ db'[l].batch = SeenBatch(s) /\ db'[l].parts = db[l].parts
      /\ \A w \in Slots : db'[l].stages[at[s].call][w] = Row(s, w)
  BY <1>0, <1>1, <1>4, <1>5, CommitFacts
<1>7. ASSUME NEW g \in Stages, g = at[s].stage
      PROVE  Succeeded(l, g)'
  <2>1. Slot(s) \in Slots /\ Row(s, Slot(s)) = "SUCCESS" /\ at[s].attempt \in 1..StageAttempts
    BY <1>0, <1>1 DEF RowsInv, ControlInv, OnSlot, TypeOK, AtRow, Slot, Slots
  <2>2. db'[l].stages[at[s].call][<<g, at[s].attempt>>] = "SUCCESS"
    BY <1>6, <1>7, <2>1 DEF Slot
  <2>. QED  BY <1>4, <2>1, <2>2 DEF Succeeded
<1>8. Ingested(l)'
  <2>1. CASE at[s].stage = Ingest
    <3>1. SeenBatch(s).status = "COMPLETED"
      BY <1>0, <1>1, <2>1 DEF PendingBatchInv
    <3>2. db[l].parts = NumParts
      <4>1. CASE pend[s].batch = NoWrite
        BY <1>5, <3>1, <4>1 DEF IInv, StoredInv, SeenBatch, Seen
      <4>2. CASE pend[s].batch # NoWrite
        BY <1>0, <1>1, <1>5, <4>2 DEF PendingBatchInv
      <4>. QED  BY <4>1, <4>2
    <3>3. Succeeded(l, Ingest)'
      BY <1>7, <2>1 DEF Ingest, Stages
    <3>. QED  BY <1>6, <3>1, <3>2, <3>3 DEF Ingested
  <2>2. CASE at[s].stage = Analyse
    <3>1. Ingested(l)
      BY <1>0, <1>5, <2>2 DEF DoneInv
    <3>. QED  BY <1>0, <3>1, IngestedStays
  <2>. QED  BY <1>1, <2>1, <2>2
<1>9. Run(s)' = l
  BY <1>1, <1>5 DEF Run
<1>10. ControlInv(s)'
  <2>1. at'[s].pc \in {"begin", "complete"} /\ at[s].result = "none"
    BY <1>0, <1>1 DEF ControlInv
  <2>. QED
    BY <1>0, <1>1, <1>2, <2>1, GoingOnKeepsCall, RunnerAssumption
    DEF FieldsStay, Entering, OnSlot, Ingesting
<1>11. RowsInv(s)'
  <2>1. CASE at[s].stage = Analyse
    BY <1>0, <1>1, <1>2, <1>3, <2>1, RowsStayInOrder DEF FieldsStay, OnRunningSlot, Ingest, Analyse
  <2>2. CASE at[s].stage = Ingest
    <3>1. /\ at'[s].pc = "begin" /\ at'[s].stage = Analyse /\ at'[s].attempt = 0
      BY <1>1, <2>2 DEF Ingest, Analyse
    <3>2. \A w \in Slots :
             /\ Row(s, w)' = Row(s, w)
             /\ pend'[s].stages[w] = NoWrite
      BY <1>0, <1>2, <1>3, <1>4, RowsStayFacts DEF NoWrites
    <3>3. \A w \in Slots : Row(s, w)' # "ABSENT" => w[1] = Ingest
      BY <1>0, <1>1, <2>2, <3>2 DEF RowsInv
    <3>4. ASSUME NEW stage \in Stages, NEW k \in 1..(StageAttempts - 1)
          PROVE  Row(s, <<stage, k + 1>>)' # "ABSENT" => Row(s, <<stage, k>>)' = "FAILED"
      <4>1. <<stage, k + 1>> \in Slots /\ <<stage, k>> \in Slots
        BY RunnerAssumption DEF Slots
      <4>. QED  BY <1>0, <1>1, <3>2, <4>1 DEF RowsInv
    <3>5. NoWrite # "ABSENT" /\ NoWrite # "SUCCESS"
      BY NoRowAssumption DEF StageStatus
    <3>. QED  BY <3>1, <3>2, <3>3, <3>4, <3>5 DEF RowsInv
  <2>. QED  BY <1>1, <2>1, <2>2
<1>12. PendingBatchInv(s)'
  BY <1>0, <1>1, <1>2, <1>4, BatchLeftAlone DEF NoWrites
<1>13. DoneInv(s)'
  <2>1. Ingested(Run(s))' <=> Ingested(l)'
    BY <1>9 DEF Ingested, Succeeded
  <2>2. Succeeded(Run(s), Analyse)' <=> Succeeded(l, Analyse)'
    BY <1>9 DEF Succeeded
  <2>3. at'[s].pc = "complete" => Succeeded(l, Analyse)'
    BY <1>1, <1>7 DEF Analyse, Stages
  <2>4. at'[s].result # "SUCCESS"
    BY <1>0, <1>1 DEF ControlInv
  <2>5. pend'[s].run = NoWrite
    BY <1>4 DEF NoWrites
  <2>. QED  BY <1>8, <2>1, <2>2, <2>3, <2>4, <2>5 DEF DoneInv
<1>. QED  BY <1>10, <1>11, <1>12, <1>13 DEF SessionInv

\* A pending batch row belongs to the session that could write it.
LEMMA BatchWritten ==
    ASSUME IInv, NEW s \in Sessions, SessionNext(s), GoesOn(s), db' = db, ~BatchLocked(s),
           at'[s].stage = Ingest, pend'[s].batch # NoWrite, db[Run(s)].batch.status # "COMPLETED",
           \/ pend'[s].batch.status = "STARTED" /\ at'[s].pc \in {"load", "rollback"}
           \/ /\ pend'[s].batch.status = "COMPLETED" /\ at'[s].pc \in {"stageDone", "record"}
              /\ db[Run(s)].parts = NumParts
    PROVE  PendingBatchInv(s)'
<1>0. TypeOK
  BY DEF IInv
<1>1. Run(s)' = Run(s)
  BY DEF GoesOn, Run
<1>2. \A t \in Sessions \ {s} : Run(t)' = Run(s)' => pend'[t].batch = NoWrite
  <2>1. \A t \in Sessions \ {s} : Run(t)' = Run(t) /\ pend'[t] = pend[t]
    BY <1>0, OthersStay DEF Run
  <2>. QED  BY <1>1, <2>1 DEF BatchLocked
<1>3. SeenBatch(s)' = pend'[s].batch
  BY DEF SeenBatch, Seen
<1>. QED  BY <1>1, <1>2, <1>3 DEF PendingBatchInv

LEMMA ClaimBatchIsSafe ==
    ASSUME IInv, NEW s \in Sessions, ClaimBatch(s)
    PROVE  SessionInv(s)'
<1>0. /\ SessionNext(s)
      /\ TypeOK /\ ControlInv(s) /\ RowsInv(s) /\ PendingBatchInv(s) /\ DoneInv(s)
  BY DEF IInv, SessionNext, Step
<1>1. /\ at[s].pc = "claim" /\ db' = db /\ last' = last /\ ~BatchLocked(s) /\ pend[s] \in PendRow
      /\ FieldsStay(s) /\ at'[s].pc \in {"load", "stageDone", "stageFailed"}
  BY <1>0, GotoFacts DEF ClaimBatch, TypeOK
<1>2. GoesOn(s) /\ ~Commits(s)
  BY <1>1 DEF GoesOn, Commits, FieldsStay
<1>3. pend[s].batch = NoWrite /\ at[s].stage = Ingest /\ SeenBatch(s) = db[Run(s)].batch
  BY <1>0, <1>1 DEF PendingBatchInv, ControlInv, Ingesting, SeenBatch, Seen
<1>4. /\ pend'[s].stages = pend[s].stages /\ pend'[s].run = pend[s].run
      /\ at'[s].pc = "load" => /\ MayClaim(SeenBatch(s))
                               /\ pend'[s].batch = [status |-> "STARTED",
                                                    attempts |-> SeenBatch(s).attempts + 1]
      /\ at'[s].pc = "stageDone" => Skipped(SeenBatch(s)) /\ pend'[s].batch = NoWrite
      /\ at'[s].pc = "stageFailed" => pend'[s].batch = NoWrite
  <2>1. CASE /\ MayClaim(SeenBatch(s))
             /\ pend' = [pend EXCEPT ![s].batch =
                           [status |-> "STARTED", attempts |-> SeenBatch(s).attempts + 1]]
             /\ Goto(s, "load")
    <3>1. at'[s].pc = "load"
      BY <1>0, <2>1, GotoFacts
    <3>2. pend'[s] = [pend[s] EXCEPT !.batch =
                        [status |-> "STARTED", attempts |-> SeenBatch(s).attempts + 1]]
      BY <1>0, <2>1 DEF TypeOK
    <3>. QED  BY <1>1, <2>1, <3>1, <3>2 DEF PendRow
  <2>2. CASE Skipped(SeenBatch(s)) /\ Goto(s, "stageDone") /\ pend' = pend
    BY <1>0, <1>3, <2>2, GotoFacts
  <2>3. CASE Goto(s, "stageFailed") /\ pend' = pend
    BY <1>0, <1>3, <2>3, GotoFacts
  <2>. QED  BY <2>1, <2>2, <2>3 DEF ClaimBatch
<1>5. RowsStay(s)
  BY <1>1, <1>4 DEF RowsStay
<1>6. ControlInv(s)'
  BY <1>0, <1>1, <1>2, GoingOnKeepsCall DEF ControlInv, FieldsStay, Entering, OnSlot, Ingesting
<1>7. RowsInv(s)'
  BY <1>0, <1>1, <1>2, <1>5, RowsStayInOrder DEF FieldsStay, OnRunningSlot
<1>8. PendingBatchInv(s)'
  <2>1. CASE at'[s].pc = "load"
    <3>1. pend'[s].batch # NoWrite /\ pend'[s].batch.status = "STARTED"
      <4>1. pend'[s].batch = [status |-> "STARTED", attempts |-> SeenBatch(s).attempts + 1]
        BY <1>4, <2>1
      <4>2. [status |-> "STARTED", attempts |-> SeenBatch(s).attempts + 1] \in BatchRow
        BY <1>1, <1>4, <2>1, ClaimedRowIsTyped
      <4>. QED  BY <4>1, <4>2, NoRowAssumption
    <3>2. db[Run(s)].batch.status # "COMPLETED"
      BY <1>3, <1>4, <2>1 DEF MayClaim
    <3>. QED  BY <1>0, <1>1, <1>2, <1>3, <2>1, <3>1, <3>2, BatchWritten DEF FieldsStay
  <2>2. CASE at'[s].pc # "load"
    <3>1. pend'[s].batch = NoWrite
      BY <1>1, <1>4, <2>2
    <3>2. at'[s].pc = "stageDone" => SeenBatch(s)'.status = "COMPLETED"
      <4>1. Run(s)' = Run(s)
        BY <1>1 DEF FieldsStay, Run
      <4>2. SeenBatch(s)' = db[Run(s)].batch
        BY <1>1, <3>1, <4>1 DEF SeenBatch, Seen
      <4>. QED  BY <1>3, <1>4, <4>2 DEF Skipped
    <3>. QED  BY <1>1, <2>2, <3>1, <3>2 DEF PendingBatchInv
  <2>. QED  BY <2>1, <2>2
<1>9. DoneInv(s)'
  BY <1>0, <1>1, <1>2, <1>4, DoneStays DEF DoneInv, FieldsStay
<1>. QED  BY <1>6, <1>7, <1>8, <1>9 DEF SessionInv

LEMMA CompleteBatchIsSafe ==
    ASSUME IInv, NEW s \in Sessions, CompleteBatch(s)
    PROVE  SessionInv(s)'
<1>0. /\ SessionNext(s)
      /\ TypeOK /\ ControlInv(s) /\ RowsInv(s) /\ PendingBatchInv(s) /\ DoneInv(s)
  BY DEF IInv, SessionNext, Step
<1>1. /\ at[s].pc = "load" /\ db' = db /\ last' = last /\ ~BatchLocked(s) /\ pend[s] \in PendRow
      /\ FieldsStay(s) /\ at'[s].pc \in {"stageDone", "rollback"}
      /\ db[Run(s)].parts = NumParts
  BY <1>0, GotoFacts DEF CompleteBatch, TypeOK
<1>3. Run(s) \in Runs /\ at[s].stage = Ingest /\ SeenBatch(s) \in BatchRow
  BY <1>0, <1>1, InCall, SeenTypes DEF ControlInv, Ingesting
<1>4. /\ pend'[s].stages = pend[s].stages /\ pend'[s].run = pend[s].run
      /\ at'[s].pc = "stageDone" => /\ SeenBatch(s).status = "STARTED"
                                    /\ pend'[s].batch \in BatchRow
                                    /\ pend'[s].batch.status = "COMPLETED"
      /\ at'[s].pc = "rollback" => pend'[s] = pend[s]
  <2>1. CASE /\ SeenBatch(s).status = "STARTED"
             /\ pend' = [pend EXCEPT ![s].batch = [SeenBatch(s) EXCEPT !.status = "COMPLETED"]]
             /\ Goto(s, "stageDone")
    <3>1. at'[s].pc = "stageDone"
      BY <1>0, <2>1, GotoFacts
    <3>2. pend'[s] = [pend[s] EXCEPT !.batch = [SeenBatch(s) EXCEPT !.status = "COMPLETED"]]
      BY <1>0, <2>1 DEF TypeOK
    <3>3. /\ pend'[s].batch = [SeenBatch(s) EXCEPT !.status = "COMPLETED"]
          /\ pend'[s].stages = pend[s].stages /\ pend'[s].run = pend[s].run
      BY <1>1, <3>2 DEF PendRow
    <3>4. [SeenBatch(s) EXCEPT !.status = "COMPLETED"].status = "COMPLETED"
          /\ [SeenBatch(s) EXCEPT !.status = "COMPLETED"] \in BatchRow
      BY <1>3 DEF BatchRow
    <3>. QED  BY <2>1, <3>1, <3>3, <3>4
  <2>2. CASE Goto(s, "rollback") /\ pend' = pend
    BY <1>0, <2>2, GotoFacts
  <2>. QED  BY <2>1, <2>2 DEF CompleteBatch
<1>5. GoesOn(s) /\ RowsStay(s)
  BY <1>1, <1>4 DEF RowsStay, GoesOn, FieldsStay
<1>6. ControlInv(s)'
  BY <1>0, <1>1, <1>5, GoingOnKeepsCall DEF ControlInv, FieldsStay, Entering, OnSlot, Ingesting
<1>7. RowsInv(s)'
  BY <1>0, <1>1, <1>5, RowsStayInOrder DEF FieldsStay, OnRunningSlot
<1>8. PendingBatchInv(s)'
  <2>1. CASE at'[s].pc = "stageDone"
    <3>1. pend'[s].batch # NoWrite
      BY <1>4, <2>1, NoRowAssumption
    <3>2. db[Run(s)].batch.status # "COMPLETED"
      <4>1. CASE pend[s].batch = NoWrite
        BY <1>4, <2>1, <4>1 DEF SeenBatch, Seen
      <4>2. CASE pend[s].batch # NoWrite
        BY <1>0, <4>2 DEF PendingBatchInv
      <4>. QED  BY <4>1, <4>2
    <3>. QED  BY <1>0, <1>1, <1>3, <1>4, <1>5, <2>1, <3>1, <3>2, BatchWritten DEF FieldsStay
  <2>2. CASE at'[s].pc = "rollback"
    <3>1. pend'[s] = pend[s]
      BY <1>4, <2>2
    <3>2. ~Commits(s) \/ pend'[s].batch = NoWrite
      <4>1. ASSUME Commits(s)
            PROVE  pend'[s] = NoWrites
        BY <1>0, <1>1, <4>1, InCall, CommitFacts DEF Commits
      <4>. QED  BY <4>1 DEF NoWrites
    <3>. QED  BY <1>0, <1>1, <1>5, <2>2, <3>1, <3>2, BatchLeftAlone DEF FieldsStay
  <2>. QED  BY <1>1, <2>1, <2>2
<1>9. DoneInv(s)'
  BY <1>0, <1>1, <1>4, <1>5, DoneStays DEF DoneInv, FieldsStay
<1>. QED  BY <1>6, <1>7, <1>8, <1>9 DEF SessionInv

\* connection.rollback(): the attempt's row was pending, or is already stored.
LEMMA RollbackIsSafe ==
    ASSUME IInv, NEW s \in Sessions, Rollback(s)
    PROVE  SessionInv(s)'
<1>0. /\ SessionNext(s)
      /\ TypeOK /\ ControlInv(s) /\ RowsInv(s) /\ PendingBatchInv(s) /\ DoneInv(s)
  BY DEF IInv, SessionNext, Step
<1>1. /\ at[s].pc = "rollback" /\ db' = db /\ last' = last /\ at'[s].pc = "failBatch"
      /\ FieldsStay(s) /\ pend'[s] = NoWrites
  BY <1>0, GotoFacts DEF Rollback, TypeOK
<1>2. GoesOn(s) /\ ~Commits(s)
  BY <1>1 DEF GoesOn, Commits, FieldsStay
<1>3. ControlInv(s)'
  BY <1>0, <1>1, <1>2, GoingOnKeepsCall DEF ControlInv, FieldsStay, Entering, OnSlot, Ingesting
<1>4. RowsInv(s)'
  <2>1. /\ at[s].pc # "out" /\ Run(s)' = Run(s) /\ at'[s].call = at[s].call
        /\ at'[s].stage = at[s].stage /\ at'[s].attempt = at[s].attempt /\ Slot(s)' = Slot(s)
    BY <1>1 DEF FieldsStay, Run, Slot
  <2>2. \A w \in Slots :
           /\ pend'[s].stages[w] = NoWrite
           /\ Row(s, w)' = db[Run(s)].stages[at[s].call][w]
    BY <1>1, <2>1 DEF NoWrites, Row, Seen
  <2>3. NoWrite # "ABSENT" /\ NoWrite # "SUCCESS"
    BY NoRowAssumption DEF StageStatus
  \* What is stored of the call is not ABSENT only where the session sees a row.
  <2>4. ASSUME NEW w \in Slots, Row(s, w)' # "ABSENT"
        PROVE  Row(s, w) # "ABSENT"
    <3>1. CASE pend[s].stages[w] = NoWrite
      BY <2>2, <2>4, <3>1 DEF Row, Seen
    <3>2. CASE pend[s].stages[w] # NoWrite
      BY <1>0, <2>1, <3>2 DEF RowsInv, Row, Seen
    <3>. QED  BY <3>1, <3>2
  <2>5. \A w \in Slots : Row(s, w)' # "ABSENT" =>
            \/ w[1] = at'[s].stage /\ w[2] <= at'[s].attempt
            \/ w[1] = Ingest /\ at'[s].stage = Analyse
    BY <1>0, <2>1, <2>4 DEF RowsInv
  <2>6. ASSUME NEW stage \in Stages, NEW k \in 1..(StageAttempts - 1), Row(s, <<stage, k + 1>>)' # "ABSENT"
        PROVE  Row(s, <<stage, k>>)' = "FAILED"
    <3>1. <<stage, k + 1>> \in Slots /\ <<stage, k>> \in Slots
      BY RunnerAssumption DEF Slots
    <3>2. PICK l \in Runs, c \in 1..MaxCalls : l = Run(s) /\ c = at[s].call
      BY <1>0, <2>1, InCall
    <3>3. db[l].stages[c][<<stage, k + 1>>] # "ABSENT"
      BY <2>2, <2>6, <3>1, <3>2
    <3>4. db[l].stages[c][<<stage, k>>] = "FAILED"
      BY <3>3 DEF IInv, StoredInv
    <3>. QED  BY <2>2, <3>1, <3>2, <3>4
  <2>7. Row(s, Slot(s))' \in {"RUNNING", "ABSENT"}
    <3>1. Slot(s) \in Slots /\ Row(s, Slot(s)) = "RUNNING"
      BY <1>0, <1>1 DEF RowsInv, ControlInv, OnSlot, Ingesting, TypeOK, AtRow, Slot, Slots
    <3>2. PICK c \in Slots : c = Slot(s)
      BY <3>1
    <3>3. db[Run(s)].stages[at[s].call][c] \in {"RUNNING", "ABSENT"}
      <4>1. CASE pend[s].stages[c] = NoWrite
        BY <3>1, <3>2, <4>1 DEF Row, Seen
      <4>2. CASE pend[s].stages[c] # NoWrite
        <5>1. db[Run(s)].stages[at[s].call][c] \in StageStatus
          <6>1. PICK l \in Runs, e \in 1..MaxCalls : l = Run(s) /\ e = at[s].call
            BY <1>0, <2>1, InCall
          <6>2. db[l].stages \in [1..MaxCalls -> [Slots -> StageStatus]]
            BY <1>0 DEF TypeOK, DbRow
          <6>. QED  BY <6>1, <6>2
        <5>2. db[Run(s)].stages[at[s].call][c] \notin {"FAILED", "SUCCESS"}
          BY <1>0, <2>1, <4>2 DEF RowsInv
        <5>. QED  BY <5>1, <5>2 DEF StageStatus
      <4>. QED  BY <4>1, <4>2
    <3>4. Row(s, c)' = db[Run(s)].stages[at[s].call][c]
      BY <2>2
    <3>5. Slot(s)' = c
      BY <2>1, <3>2
    <3>. QED  BY <3>3, <3>4, <3>5 DEF Row
  <2>. QED  BY <1>1, <2>1, <2>2, <2>3, <2>5, <2>6, <2>7 DEF RowsInv
<1>5. PendingBatchInv(s)'
  BY <1>0, <1>1, <1>2, BatchLeftAlone DEF NoWrites
<1>6. DoneInv(s)'
  BY <1>0, <1>1, <1>2, DoneStays DEF DoneInv, FieldsStay, NoWrites
<1>. QED  BY <1>3, <1>4, <1>5, <1>6 DEF SessionInv

\* fail_batch, in a transaction of its own.
LEMMA FailBatchIsSafe ==
    ASSUME IInv, NEW s \in Sessions, FailBatch(s)
    PROVE  SessionInv(s)'
<1>0. /\ SessionNext(s)
      /\ TypeOK /\ ControlInv(s) /\ RowsInv(s) /\ PendingBatchInv(s) /\ DoneInv(s)
  BY DEF IInv, SessionNext, Step
<1>1. /\ at[s].pc = "failBatch" /\ pend' = pend /\ last' = last
      /\ FieldsStay(s) /\ at'[s].pc = "stageFailed"
  <2>1. CASE Goto(s, "stageFailed")
    BY <1>0, <2>1, GotoFacts DEF FailBatch
  <2>2. CASE at' = [at EXCEPT ![s].pc = "stageFailed", ![s].masked = TRUE]
    <3>1. at'[s] = [at[s] EXCEPT !.pc = "stageFailed", !.masked = TRUE]
      BY <1>0, <2>2 DEF TypeOK
    <3>. QED  BY <1>0, <3>1 DEF FailBatch, TypeOK, AtRow, FieldsStay
  <2>. QED  BY <2>1, <2>2 DEF FailBatch
<1>2. GoesOn(s) /\ ~Commits(s)
  BY <1>1 DEF GoesOn, Commits, FieldsStay
<1>3. RowsStay(s)
  BY <1>0, <1>1, <1>2, StoreStep DEF RowsStay
<1>4. ControlInv(s)'
  BY <1>0, <1>1, <1>2, GoingOnKeepsCall DEF ControlInv, FieldsStay, Entering, OnSlot, Ingesting
<1>5. RowsInv(s)'
  BY <1>0, <1>1, <1>2, <1>3, RowsStayInOrder DEF FieldsStay, OnRunningSlot
<1>6. PendingBatchInv(s)'
  BY <1>0, <1>1, <1>2, BatchLeftAlone DEF PendingBatchInv
<1>7. DoneInv(s)'
  BY <1>0, <1>1, <1>2, DoneStays DEF DoneInv, FieldsStay
<1>. QED  BY <1>4, <1>5, <1>6, <1>7 DEF SessionInv

\* complete_pipeline_run and fail_pipeline_run.
LEMMA EndOfRunIsSafe ==
    ASSUME IInv, NEW s \in Sessions, CompleteRun(s) \/ FailRun(s)
    PROVE  SessionInv(s)'
<1>0. /\ SessionNext(s)
      /\ TypeOK /\ ControlInv(s) /\ RowsInv(s) /\ PendingBatchInv(s) /\ DoneInv(s)
  BY DEF IInv, SessionNext, Step
<1>1. PICK status \in {"SUCCESS", "FAILED"} :
          /\ at[s].pc = IF status = "SUCCESS" THEN "complete" ELSE "fail"
          /\ WriteRun(s, status)
          /\ at' = [at EXCEPT ![s].pc = "exit", ![s].result = status]
          /\ db' = db /\ last' = last
  <2>1. CASE CompleteRun(s)
    BY <2>1 DEF CompleteRun
  <2>2. CASE FailRun(s)
    BY <2>2 DEF FailRun
  <2>. QED  BY <2>1, <2>2
<1>2. /\ at'[s].pc = "exit" /\ at'[s].result = status
      /\ at'[s].run = at[s].run /\ at'[s].call = at[s].call
      /\ at'[s].stage = at[s].stage /\ at'[s].attempt = at[s].attempt
      /\ at'[s].ingested = at[s].ingested
  <2>1. at'[s] = [at[s] EXCEPT !.pc = "exit", !.result = status]
    BY <1>0, <1>1 DEF TypeOK
  <2>. QED  BY <1>0, <2>1 DEF TypeOK, AtRow
<1>3. /\ pend'[s].stages = pend[s].stages /\ pend'[s].batch = pend[s].batch
      /\ \/ pend'[s].run = pend[s].run
         \/ pend'[s].run.status = status /\ pend'[s].run.ingested = at[s].ingested
  <2>1. SeenRun(s) \in RunRow
    BY <1>0, <1>1, InCall, SeenTypes
  <2>2. CASE pend' = pend
    BY <2>2
  <2>3. CASE pend' = [pend EXCEPT ![s].run = [SeenRun(s) EXCEPT !.status = status,
                                                               !.ingested = at[s].ingested]]
    <3>1. pend'[s] = [pend[s] EXCEPT !.run = [SeenRun(s) EXCEPT !.status = status,
                                                                !.ingested = at[s].ingested]]
      BY <1>0, <2>3 DEF TypeOK
    <3>2. /\ pend'[s].run = [SeenRun(s) EXCEPT !.status = status, !.ingested = at[s].ingested]
          /\ pend'[s].stages = pend[s].stages /\ pend'[s].batch = pend[s].batch
      BY <1>0, <3>1 DEF TypeOK, PendRow
    <3>. QED  BY <2>1, <3>2 DEF RunRow
  <2>. QED  BY <1>1, <2>2, <2>3 DEF WriteRun
<1>4. GoesOn(s) /\ ~Commits(s) /\ RowsStay(s)
  BY <1>1, <1>2, <1>3 DEF GoesOn, Commits, RowsStay
<1>5. ControlInv(s)'
  BY <1>0, <1>2, <1>4, GoingOnKeepsCall DEF Entering, OnSlot, Ingesting
<1>6. RowsInv(s)'
  BY <1>0, <1>1, <1>2, <1>4, RowsStayInOrder DEF OnRunningSlot
<1>7. PendingBatchInv(s)'
  BY <1>0, <1>1, <1>2, <1>3, <1>4, BatchLeftAlone DEF PendingBatchInv
<1>8. DoneInv(s)'
  <2>1. at[s].ingested \/ at[s].stage = Analyse => Ingested(Run(s))
    BY <1>0 DEF DoneInv
  <2>2. status = "SUCCESS" => Ingested(Run(s)) /\ Succeeded(Run(s), Analyse)
    BY <1>0, <1>1 DEF DoneInv
  <2>. QED  BY <1>0, <1>2, <1>3, <1>4, <2>1, <2>2, DoneStays
<1>. QED  BY <1>5, <1>6, <1>7, <1>8 DEF SessionInv

LEMMA MoverIsSafe ==
    ASSUME IInv, NEW s \in Sessions, SessionNext(s)
    PROVE  SessionInv(s)'
<1>0. TypeOK
  BY DEF IInv
<1>1. CASE \E l \in Runs : Enter(s, l, "insert") \/ Enter(s, l, "lookup")
  <2>1. at[s].pc = "out" /\ at'[s].pc # "out"
    BY <1>0, <1>1 DEF Enter, TypeOK, Outside
  <2>. QED  BY <1>0, <2>1, BeginEndOrGoOn, BeginningIsSafe DEF Leaves, GoesOn
<1>2. CASE Exit(s) \/ Crash(s)
  <2>1. Leaves(s)
    BY <1>0, <1>2 DEF Exit, Crash, Drop, CommitWith, Leaves, TypeOK
  <2>. QED  BY <2>1, EndingIsSafe
<1>. QED
  BY <1>1, <1>2, PlainStepsAreSafe, EnteringIsSafe, StartStageIsSafe, CompleteStageIsSafe,
     FailStageIsSafe, LoadPartIsSafe, RecordStageIsSafe, ClaimBatchIsSafe, CompleteBatchIsSafe,
     RollbackIsSafe, FailBatchIsSafe, EndOfRunIsSafe
  DEF SessionNext, Step, Fault

LEMMA IInvInit == Init => IInv
<1>. SUFFICES ASSUME Init PROVE IInv
  OBVIOUS
<1>0. /\ \A l \in Runs : db[l] = [run |-> [status |-> "ABSENT", id |-> 0, ingested |-> FALSE],
                                  batch |-> [status |-> "ABSENT", attempts |-> 0],
                                  parts |-> 0,
                                  stages |-> [e \in 1..MaxCalls |-> [w \in Slots |-> "ABSENT"]]]
      /\ \A s \in Sessions : pend[s] = NoWrites /\ at[s] = Outside
  BY DEF Init
<1>1. TypeOK
  <2>1. db \in [Runs -> DbRow]
    BY RunnerAssumption DEF Init, DbRow, RunRow, BatchRow, StageStatus
  <2>2. at \in [Sessions -> AtRow] /\ pend \in [Sessions -> PendRow]
    BY OutsideTyped DEF Init
  <2>3. last \in [Runs -> 0..MaxCalls]
    BY RunnerAssumption DEF Init
  <2>. QED  BY <2>1, <2>2, <2>3 DEF TypeOK
<1>2. ASSUME NEW s \in Sessions
      PROVE  ControlInv(s) /\ RowsInv(s) /\ PendingBatchInv(s) /\ DoneInv(s)
  <2>1. at[s] = Outside /\ pend[s] = NoWrites
    BY <1>0
  <2>2. ControlInv(s)
    BY <2>1 DEF ControlInv, Outside, Entering, OnSlot, Ingesting, Ingest
  <2>3. RowsInv(s)
    BY <2>1 DEF RowsInv, Outside
  <2>4. PendingBatchInv(s)
    BY <2>1 DEF PendingBatchInv, Outside, NoWrites
  <2>5. DoneInv(s)
    BY <2>1 DEF DoneInv, Outside, NoWrites, Ingest, Analyse
  <2>. QED  BY <2>2, <2>3, <2>4, <2>5
<1>3. ASSUME NEW l \in Runs
      PROVE  StoredInv(l)
  <2>1. \A e \in 1..MaxCalls, w \in Slots : db[l].stages[e][w] = "ABSENT"
    <3>. DEFINE none == [e \in 1..MaxCalls |-> [w \in Slots |-> "ABSENT"]]
    <3>1. db[l] = [run |-> [status |-> "ABSENT", id |-> 0, ingested |-> FALSE],
                   batch |-> [status |-> "ABSENT", attempts |-> 0], parts |-> 0, stages |-> none]
      BY <1>0
    <3>2. \A e \in 1..MaxCalls, w \in Slots : none[e][w] = "ABSENT"
      OBVIOUS
    <3>. HIDE DEF none
    <3>3. db[l].stages = none
      BY <3>1
    <3>. QED  BY <3>2, <3>3
  <2>2. \A stage \in Stages, k \in 1..(StageAttempts - 1) : <<stage, k + 1>> \in Slots
    BY RunnerAssumption DEF Slots
  <2>3. \A k \in 1..StageAttempts : <<Analyse, k>> \in Slots
    BY DEF Slots, Stages, Analyse
  <2>. QED  BY <1>0, <2>1, <2>2, <2>3 DEF StoredInv
<1>. QED  BY <1>1, <1>2, <1>3 DEF IInv

LEMMA IInvStep == IInv /\ [Next]_vars => IInv'
<1>. SUFFICES ASSUME IInv, [Next]_vars PROVE IInv'
  OBVIOUS
<1>1. CASE UNCHANGED vars
  <2>1. db' = db /\ pend' = pend /\ at' = at /\ last' = last
    BY <1>1 DEF vars
  <2>2. TypeOK'
    BY <2>1 DEF IInv, TypeOK
  <2>3. ASSUME NEW s \in Sessions
        PROVE  ControlInv(s)' /\ RowsInv(s)' /\ PendingBatchInv(s)' /\ DoneInv(s)'
    <3>1. ControlInv(s) /\ RowsInv(s) /\ PendingBatchInv(s) /\ DoneInv(s)
      BY DEF IInv
    <3>2. ControlInv(s)'
      BY <2>1, <3>1 DEF ControlInv, Run
    <3>3. RowsInv(s)'
      BY <2>1, <3>1 DEF RowsInv, Row, Run, Slot
    <3>4. PendingBatchInv(s)'
      BY <2>1, <3>1 DEF PendingBatchInv, SeenBatch, Run
    <3>5. DoneInv(s)'
      BY <2>1, <3>1 DEF DoneInv, Ingested, Succeeded, Run
    <3>. QED  BY <3>2, <3>3, <3>4, <3>5
  <2>4. ASSUME NEW l \in Runs
        PROVE  StoredInv(l)'
    BY <2>1 DEF IInv, StoredInv, Ingested, Succeeded
  <2>. QED  BY <2>2, <2>3, <2>4 DEF IInv
<1>2. CASE Next
  <2>1. PICK s \in Sessions : SessionNext(s)
    BY <1>2, NextIsSessionNext
  <2>2. ASSUME NEW t \in Sessions
        PROVE  ControlInv(t)' /\ RowsInv(t)' /\ PendingBatchInv(t)' /\ DoneInv(t)'
    <3>1. CASE t = s
      BY <2>1, <3>1, MoverIsSafe DEF SessionInv
    <3>2. CASE t # s
      BY <2>1, <3>2, OthersKeepControl, OthersKeepRows, OthersKeepBatch, OthersKeepDone
    <3>. QED  BY <3>1, <3>2
  <2>. QED  BY <2>1, <2>2, TypeStep, StoredStep DEF IInv
<1>. QED  BY <1>1, <1>2

-----------------------------------------------------------------------------
(* The theorems that hold however many processes run a logical run.        *)

LEMMA Inductive == Spec => []IInv
  BY IInvInit, IInvStep, PTL DEF Spec

\* Every variable keeps its type: attempts of a stage and of a batch stay
\* within their limits, and every row written is a row of its table.
THEOREM RunnerTypes == Spec => []TypeOK
<1>1. IInv => TypeOK
  BY DEF IInv
<1>. QED  BY <1>1, Inductive, PTL

\* A run that is stored as SUCCESS has a COMPLETED batch with all its parts and
\* a successful attempt of both stages.
THEOREM SuccessIsBackedByRows == Spec => []SuccessIsBacked
<1>1. IInv => SuccessIsBacked
  <2>. SUFFICES ASSUME IInv, NEW l \in Runs, db[l].run.status = "SUCCESS"
                PROVE  /\ db[l].batch.status = "COMPLETED"
                       /\ db[l].parts = NumParts
                       /\ \A stage \in Stages : Succeeded(l, stage)
    BY DEF SuccessIsBacked
  <2>1. Ingested(l) /\ Succeeded(l, Analyse)
    BY DEF IInv, StoredInv
  <2>. QED  BY <2>1 DEF Ingested, Stages, Ingest, Analyse
<1>. QED  BY <1>1, Inductive, PTL

\* Ingestion is skipped, and analytics attempts are stored, only for a run
\* whose batch is COMPLETED.
THEOREM IngestionSkippedOnlyWhenDone == Spec => []SkippedIngestionIsDone
<1>1. IInv => SkippedIngestionIsDone
  <2>. SUFFICES ASSUME IInv, NEW l \in Runs,
                       \/ db[l].run.ingested
                       \/ \E e \in 1..MaxCalls, k \in 1..StageAttempts :
                              db[l].stages[e][<<"analytics_build", k>>] # "ABSENT"
                PROVE  db[l].batch.status = "COMPLETED"
    BY DEF SkippedIngestionIsDone
  <2>1. Ingested(l)
    BY DEF IInv, StoredInv, Analyse
  <2>. QED  BY <2>1 DEF Ingested
<1>. QED  BY <1>1, Inductive, PTL

\* The stored attempts of a stage have no gaps, and only a FAILED attempt is
\* followed by another.
THEOREM AttemptsAreInOrder == Spec => []AttemptsInOrder
<1>1. IInv => AttemptsInOrder
  <2>. SUFFICES ASSUME IInv, NEW l \in Runs, NEW e \in 1..MaxCalls, NEW stage \in Stages,
                       NEW k \in 1..(StageAttempts - 1), db[l].stages[e][<<stage, k + 1>>] # "ABSENT"
                PROVE  db[l].stages[e][<<stage, k>>] = "FAILED"
    BY DEF AttemptsInOrder
  <2>. QED  BY DEF IInv, StoredInv
<1>. QED  BY <1>1, Inductive, PTL

-----------------------------------------------------------------------------
(* Callers that do not run a logical run twice at once.                    *)

LEMMA AloneStays ==
    ASSUME OneAtATime = TRUE, SerialInv, NEW s \in Sessions, SessionNext(s), NEW t \in Sessions
    PROVE  Alone(t)'
<1>0. TypeOK /\ \A u \in Sessions : ControlInv(u) /\ Alone(u)
  BY DEF SerialInv, IInv
<1>. SUFFICES ASSUME NEW u \in Sessions \ {t}, Run(u)' = Run(t)'
              PROVE  Run(t)' = NoRun
  BY DEF Alone
<1>1. \A v \in Sessions \ {s} : Run(v)' = Run(v)
  BY <1>0, OthersStay DEF Run
<1>2. CASE Begins(s)
  <2>1. PICK l \in Runs : MayEnter(l) /\ Run(s)' = l
    BY <1>2 DEF Begins, Run, Outside
  <2>2. \A v \in Sessions : Run(v) # l
    BY <2>1 DEF MayEnter
  <2>. QED  BY <1>0, <1>1, <2>1, <2>2 DEF Alone
<1>3. CASE Leaves(s)
  <2>1. Run(s)' = NoRun
    BY <1>3 DEF Leaves, Run, Outside
  <2>. QED  BY <1>0, <1>1, <2>1 DEF Alone
<1>4. CASE GoesOn(s)
  <2>1. Run(s)' = Run(s)
    BY <1>4 DEF GoesOn, Run
  <2>. QED  BY <1>0, <1>1, <2>1 DEF Alone
<1>. QED  BY <1>0, <1>2, <1>3, <1>4, BeginEndOrGoOn

\* Nobody else writes the rows of a session's run.
LEMMA OtherRunsStay ==
    ASSUME IInv, NEW s \in Sessions, SessionNext(s), NEW l \in Runs, l # Run(s)
    PROVE  db'[l] = db[l]
<1>0. TypeOK /\ ControlInv(s)
  BY DEF IInv
<1>1. CASE Commits(s)
  BY <1>0, <1>1, InCall, CommitFacts DEF Commits
<1>2. CASE FailsBatch(s)
  BY <1>0, <1>2, InCall, FailFacts DEF FailsBatch
<1>. QED  BY <1>1, <1>2, StoreStep

LEMMA OthersStaySerial ==
    ASSUME SerialInv, NEW s \in Sessions, SessionNext(s), NEW t \in Sessions \ {s}
    PROVE  SerialRunInv(t)' /\ SerialBatchInv(t)'
<1>0. /\ IInv /\ TypeOK /\ ControlInv(t) /\ Alone(t)
      /\ SerialRunInv(t) /\ SerialBatchInv(t)
  BY DEF SerialInv, IInv
<1>1. at'[t] = at[t] /\ pend'[t] = pend[t] /\ Run(t)' = Run(t) /\ Slot(t)' = Slot(t)
  BY <1>0, OthersStay DEF Run, Slot
<1>2. CASE at[t].pc = "out"
  <2>1. at'[t] = Outside /\ pend'[t].run = NoWrite
    BY <1>0, <1>1, <1>2 DEF ControlInv, NoWrites
  <2>. QED  BY <2>1 DEF SerialRunInv, SerialBatchInv, Outside, Executing, Entering
<1>3. CASE at[t].pc # "out"
  <2>1. Run(t) \in Runs /\ Run(t) # Run(s)
    BY <1>0, <1>3, RunnerAssumption DEF ControlInv, Alone
  <2>2. db'[Run(t)] = db[Run(t)]
    BY <1>0, <2>1, OtherRunsStay
  <2>3. SeenRun(t)' = SeenRun(t) /\ Row(t, Slot(t))' = Row(t, Slot(t)) /\ (Holds(t)' <=> Holds(t))
    BY <1>1, <2>2 DEF SeenRun, Row, Holds
  <2>4. SerialRunInv(t)'
    BY <1>0, <1>1, <2>2, <2>3 DEF SerialRunInv
  <2>5. SerialBatchInv(t)'
    BY <1>0, <1>1, <2>2, <2>3 DEF SerialBatchInv
  <2>. QED  BY <2>4, <2>5
<1>. QED  BY <1>2, <1>3

SerialSession(s) == SerialRunInv(s) /\ SerialBatchInv(s)

LEMMA SerialOutsideRun ==
    ASSUME SerialInv, NEW s \in Sessions, SessionNext(s), ~GoesOn(s)
    PROVE  SerialSession(s)'
<1>0. TypeOK /\ ControlInv(s)
  BY DEF SerialInv, IInv
<1>1. CASE Begins(s)
  <2>1. /\ at'[s].pc \in {"insert", "lookup"} /\ at'[s].masked = FALSE /\ at'[s].result = "none"
    BY <1>1 DEF Begins, Outside
  <2>2. pend'[s].run = NoWrite
    BY <1>0, <1>1 DEF Begins, ControlInv, NoWrites
  <2>. QED
    BY <2>1, <2>2 DEF SerialSession, SerialRunInv, SerialBatchInv, Executing, Entering
<1>2. CASE Leaves(s)
  <2>1. at'[s] = Outside /\ pend'[s].run = NoWrite
    BY <1>2 DEF Leaves, NoWrites
  <2>. QED
    BY <2>1 DEF SerialSession, SerialRunInv, SerialBatchInv, Outside, Executing, Entering
<1>. QED  BY <1>0, <1>1, <1>2, BeginEndOrGoOn

LEMMA SerialEntering ==
    ASSUME SerialInv, NEW s \in Sessions, GoesOn(s), StartRun(s) \/ LookupRun(s) \/ ReopenRun(s)
    PROVE  SerialSession(s)'
<1>0. IInv /\ TypeOK /\ ControlInv(s) /\ RowsInv(s) /\ SerialBatchInv(s) /\ at[s] \in AtRow /\ pend[s] \in PendRow
  BY DEF SerialInv, IInv, TypeOK
<1>1. at[s].pc \in Entering /\ ~Drop(s) /\ Run(s)' = Run(s) /\ at'[s].call = at[s].call /\ at[s].pc # "out"
  <2>1. ~Drop(s)
    BY <1>0 DEF GoesOn, Drop, Outside, TypeOK
  <2>. QED  BY <2>1 DEF StartRun, LookupRun, ReopenRun, Entering, GoesOn, Run
<1>2. /\ pend[s] = NoWrites /\ pend[s].run = NoWrite /\ at[s].stage = Ingest /\ at[s].attempt = 0
      /\ at[s].result = "none" /\ SeenRun(s) = db[Run(s)].run
  BY <1>0, <1>1 DEF ControlInv, Entering, NoWrites, SeenRun, Seen
<1>3. \A w \in Slots : db[Run(s)].stages[at[s].call][w] = "ABSENT"
  <2>1. \A w \in Slots : Row(s, w) = "ABSENT"
    <3>1. \A w \in Slots : w[2] \in 1..StageAttempts
      BY DEF Slots
    <3>. QED  BY <1>0, <1>1, <1>2, <3>1, RunnerAssumption DEF RowsInv, Ingest, Analyse
  <2>2. \A w \in Slots : Row(s, w) = db[Run(s)].stages[at[s].call][w]
    BY <1>2 DEF NoWrites, Row, Seen
  <2>. QED  BY <2>1, <2>2
<1>4. CASE LookupRun(s)
  <2>1. pend' = pend /\ db' = db
        /\ at' = [at EXCEPT ![s].pc = "reopen", ![s].id = SeenRun(s).id, ![s].ingested = SeenRun(s).ingested]
    BY <1>1, <1>4 DEF LookupRun
  <2>2. at'[s].pc = "reopen" /\ at'[s].result = "none"
    BY <1>0, <1>2, <2>1 DEF TypeOK, AtRow
  <2>3. at'[s].masked => at'[s].pc = "reopen"
    BY <2>2
  <2>. QED
    BY <1>2, <2>1, <2>2 DEF SerialSession, SerialRunInv, SerialBatchInv, Executing, Entering
<1>5. CASE StartRun(s) \/ ReopenRun(s)
  <2>1. /\ db' = db /\ at'[s].pc = "begin" /\ at'[s].result = "none"
        /\ pend'[s].run \in RunRow /\ pend'[s].run.status = "RUNNING" /\ pend'[s].run.id = at'[s].id
        /\ db[Run(s)].run.status # "SUCCESS"
    <3>1. CASE StartRun(s)
      <4>1. /\ at' = [at EXCEPT ![s].pc = "begin", ![s].id = at[s].call]
            /\ pend' = [pend EXCEPT ![s].run = [status |-> "RUNNING", id |-> at[s].call, ingested |-> FALSE]]
            /\ db' = db /\ SeenRun(s).status = "ABSENT"
        BY <1>1, <3>1 DEF StartRun
      <4>2. at'[s].pc = "begin" /\ at'[s].result = "none" /\ at'[s].id = at[s].call
        BY <1>0, <1>2, <4>1 DEF TypeOK, AtRow
      <4>3. pend'[s].run = [status |-> "RUNNING", id |-> at[s].call, ingested |-> FALSE]
        BY <1>0, <4>1 DEF TypeOK, PendRow
      <4>4. at[s].call \in 0..MaxCalls
        BY <1>0 DEF AtRow
      <4>5. pend'[s].run \in RunRow /\ pend'[s].run.status = "RUNNING" /\ pend'[s].run.id = at[s].call
        BY <4>3, <4>4 DEF RunRow
      <4>. QED  BY <1>2, <4>1, <4>2, <4>5
    <3>2. CASE ReopenRun(s)
      <4>1. /\ at' = [at EXCEPT ![s].pc = "begin", ![s].stage = FirstStage(s)]
            /\ pend' = [pend EXCEPT ![s].run = [SeenRun(s) EXCEPT !.status = "RUNNING"]]
            /\ db' = db /\ MayReopen(SeenRun(s), at[s].id)
        BY <1>1, <3>2 DEF ReopenRun
      <4>2. at'[s].pc = "begin" /\ at'[s].result = "none" /\ at'[s].id = at[s].id
        BY <1>0, <1>2, <4>1 DEF TypeOK, AtRow
      <4>3. pend'[s].run = [SeenRun(s) EXCEPT !.status = "RUNNING"]
        BY <1>0, <4>1 DEF TypeOK, PendRow
      <4>4. SeenRun(s) \in RunRow
        BY <1>0, <1>1, InCall, SeenTypes
      <4>5. /\ pend'[s].run \in RunRow /\ pend'[s].run.status = "RUNNING"
            /\ pend'[s].run.id = SeenRun(s).id
        BY <4>3, <4>4 DEF RunRow
      <4>. QED  BY <1>2, <4>1, <4>2, <4>5 DEF MayReopen
    <3>. QED  BY <1>5, <3>1, <3>2
  <2>2. Holds(s)'
    <3>1. SeenRun(s)' = pend'[s].run
      BY <2>1, NoRowAssumption DEF SeenRun, Seen
    <3>. QED  BY <2>1, <3>1 DEF Holds
  <2>3. SerialRunInv(s)'
    BY <1>1, <1>3, <2>1, <2>2 DEF SerialRunInv
  <2>4. SerialBatchInv(s)'
    BY <2>1 DEF SerialBatchInv
  <2>. QED  BY <2>3, <2>4 DEF SerialSession
<1>. QED  BY <1>4, <1>5

\* A step that leaves the run's row and the tables alone.
LEMMA SerialRunStays ==
    ASSUME SerialInv, NEW s \in Sessions, SessionNext(s), GoesOn(s), db' = db,
           pend'[s].run \in {pend[s].run, NoWrite}, at'[s].id = at[s].id,
           at'[s].pc \in Executing => at[s].pc \in Executing /\ pend'[s].run = pend[s].run,
           at'[s].pc \in {"failBatch", "stageFailed"} /\ Row(s, Slot(s))' # "ABSENT" =>
               Holds(s) /\ pend'[s].run = pend[s].run,
           at'[s].pc \in {"failBatch", "stageFailed", "fail"} =>
               at[s].pc \in Executing \cup {"failBatch", "stageFailed", "fail"},
           at[s].pc \notin Entering \cup {"out", "exit"}, at'[s].pc \notin {"complete", "exit"},
           at'[s].result = "none"
    PROVE  SerialRunInv(s)'
<1>0. SerialRunInv(s) /\ Run(s)' = Run(s) /\ at'[s].call = at[s].call
  BY DEF SerialInv, GoesOn, Run
<1>1. pend'[s].run = pend[s].run => SeenRun(s)' = SeenRun(s)
  BY <1>0 DEF SeenRun
<1>2. pend'[s].run = pend[s].run => (Holds(s)' <=> Holds(s))
  BY <1>1 DEF Holds
<1>3. at'[s].pc \in Executing => Holds(s)'
  BY <1>0, <1>2 DEF SerialRunInv
<1>4. at'[s].pc \in {"failBatch", "stageFailed"} /\ Row(s, Slot(s))' # "ABSENT" => Holds(s)'
  BY <1>2
<1>5. at'[s].pc \in {"failBatch", "stageFailed", "fail"} =>
          pend'[s].run = NoWrite \/ SeenRun(s)'.id = at'[s].id
  BY <1>0, <1>1 DEF SerialRunInv, Holds
<1>6. db'[Run(s)'].run.status # "SUCCESS"
  BY <1>0 DEF SerialRunInv
<1>7. pend'[s].run # NoWrite => \A w \in Slots : db'[Run(s)'].stages[at'[s].call][w] = "ABSENT"
  BY <1>0 DEF SerialRunInv
<1>. QED  BY <1>3, <1>4, <1>5, <1>6, <1>7 DEF SerialRunInv

LEMMA GotoKeepsMasked ==
    ASSUME TypeOK, NEW s \in Sessions, NEW label, Goto(s, label)
    PROVE  at'[s].masked = at[s].masked /\ at'[s].quality = at[s].quality
  BY DEF TypeOK, AtRow, Goto

LEMMA SlotIsTyped ==
    ASSUME TypeOK, NEW s \in Sessions, ControlInv(s), at[s].pc \in OnSlot
    PROVE  Slot(s) \in Slots
  BY DEF ControlInv, TypeOK, AtRow, Slot, Slots

LEMMA SerialStartStage ==
    ASSUME SerialInv, NEW s \in Sessions, StartStage(s)
    PROVE  SerialSession(s)'
<1>0. /\ IInv /\ SessionNext(s) /\ TypeOK /\ ControlInv(s) /\ RowsInv(s) /\ SerialRunInv(s)
      /\ at[s] \in AtRow
  BY DEF SerialInv, IInv, SessionNext, Step, TypeOK
<1>1. /\ at[s].pc = "begin" /\ db' = db /\ last' = last /\ at[s].attempt \in Nat /\ at[s].attempt < StageAttempts
      /\ at[s].stage \in Stages
  BY <1>0, RunnerAssumption DEF StartStage, AtRow, ControlInv
<1>2. /\ at'[s].pc \in {"claim", "build"} /\ at'[s].attempt = at[s].attempt + 1
      /\ at'[s].run = at[s].run /\ at'[s].call = at[s].call /\ at'[s].stage = at[s].stage
      /\ at'[s].id = at[s].id /\ at'[s].result = at[s].result /\ at'[s].masked = FALSE
  BY <1>0, <1>1 DEF StartStage, TypeOK, AtRow
<1>3. GoesOn(s)
  BY <1>1, <1>2 DEF GoesOn
<1>4. PICK c \in Slots : c = <<at[s].stage, at[s].attempt + 1>>
  <2>1. at[s].attempt + 1 \in 1..StageAttempts
    BY <1>1, RunnerAssumption
  <2>2. <<at[s].stage, at[s].attempt + 1>> \in Slots
    BY <1>1, <2>1 DEF Slots
  <2>. QED  BY <2>2
<1>5. pend'[s].run = pend[s].run
  BY <1>0, <1>1, <1>2, <1>4, WriteStageFacts, NoRowAssumption DEF StartStage, StageStatus
<1>6. SerialRunInv(s)'
  <2>1. at[s].result = "none"
    BY <1>0, <1>1 DEF ControlInv
  <2>. QED
    BY <1>0, <1>1, <1>2, <1>3, <1>5, <2>1, SerialRunStays DEF Executing, Entering
<1>7. SerialBatchInv(s)'
  <2>1. Row(s, c) = "ABSENT"
    BY <1>0, <1>1, <1>4 DEF RowsInv, Ingest, Analyse
  <2>2. db[Run(s)].stages[at[s].call][c] = "ABSENT"
    <3>1. pend[s].stages[c] = NoWrite
      BY <1>0, <1>1, <2>1 DEF RowsInv, Row, Seen
    <3>. QED  BY <2>1, <3>1 DEF Row, Seen
  <2>3. Slot(s)' = c /\ Run(s)' = Run(s)
    BY <1>2, <1>4 DEF Slot, Run
  <2>. QED  BY <1>1, <1>2, <2>2, <2>3 DEF SerialBatchInv
<1>. QED  BY <1>6, <1>7 DEF SerialSession

LEMMA SerialEndStage ==
    ASSUME SerialInv, NEW s \in Sessions, CompleteStage(s) \/ FailStage(s)
    PROVE  SerialSession(s)'
<1>0. /\ IInv /\ SessionNext(s) /\ TypeOK /\ ControlInv(s) /\ RowsInv(s)
      /\ SerialRunInv(s) /\ SerialBatchInv(s)
  BY DEF SerialInv, IInv, SessionNext, Step
<1>1. /\ at[s].pc \in {"stageDone", "stageFailed"} /\ db' = db /\ last' = last /\ FieldsStay(s)
      /\ at[s].pc = "stageDone" => at'[s].pc = "record"
      /\ at[s].pc = "stageFailed" => at'[s].pc \in {"begin", "fail"}
      /\ at'[s].masked = at[s].masked
  BY <1>0, GotoFacts, GotoKeepsMasked DEF CompleteStage, FailStage
<1>2. GoesOn(s)
  BY <1>1 DEF GoesOn, FieldsStay
<1>3. PICK c \in Slots : c = Slot(s)
  BY <1>0, <1>1, SlotIsTyped DEF OnSlot
<1>4. pend'[s].run = pend[s].run
  <2>1. "FAILED" # NoWrite /\ "SUCCESS" # NoWrite
    BY NoRowAssumption DEF StageStatus
  <2>. QED
    BY <1>0, <1>1, <1>3, <2>1, WriteStageFacts DEF CompleteStage, FailStage, FieldsStay
<1>5. at'[s].pc = "begin" => Row(s, Slot(s)) # "ABSENT"
  <2>1. SeenStage(s) = Row(s, Slot(s))
    BY DEF SeenStage, Row
  <2>2. CASE SeenStage(s) = "ABSENT" /\ FailStage(s)
    BY <1>0, <2>2, GotoFacts DEF FailStage
  <2>. QED  BY <1>1, <2>1, <2>2 DEF CompleteStage
<1>6. SerialRunInv(s)'
  <2>1. at'[s].pc \in Executing => Holds(s)
    BY <1>0, <1>1, <1>5 DEF SerialRunInv, Executing
  <2>2. Run(s)' = Run(s) /\ SeenRun(s)' = SeenRun(s) /\ (Holds(s)' <=> Holds(s))
    BY <1>1, <1>4 DEF FieldsStay, Run, SeenRun, Holds
  <2>3. at'[s].result = "none"
    BY <1>0, <1>1 DEF ControlInv, FieldsStay
  <2>4. db[Run(s)].run.status # "SUCCESS"
    BY <1>0, <1>1 DEF SerialRunInv, Entering
  <2>5. pend[s].run # NoWrite => \A w \in Slots : db[Run(s)].stages[at[s].call][w] = "ABSENT"
    BY <1>0, <1>1 DEF SerialRunInv
  <2>6. at'[s].pc = "fail" => pend[s].run = NoWrite \/ SeenRun(s).id = at[s].id
    BY <1>0, <1>1 DEF SerialRunInv
  <2>7. at'[s].pc \in {"record", "begin", "fail"} /\ at'[s].id = at[s].id /\ at'[s].call = at[s].call
    BY <1>1 DEF FieldsStay
  <2>. QED  BY <1>1, <1>4, <2>1, <2>2, <2>3, <2>4, <2>5, <2>6, <2>7 DEF SerialRunInv
<1>7. SerialBatchInv(s)'
  <2>1. at[s].pc = "stageDone" => ~at[s].masked
    BY <1>0 DEF SerialBatchInv, Executing
  <2>. QED  BY <1>1, <2>1 DEF SerialBatchInv, Executing
<1>. QED  BY <1>6, <1>7 DEF SerialSession

\* Steps of a running attempt that write no table and not the run's row.
LEMMA SerialRunning ==
    ASSUME SerialInv, NEW s \in Sessions, SessionNext(s), at[s].pc \in OnRunningSlot,
           at'[s].pc \in OnRunningSlot \cup {"stageFailed"}, at[s].pc # at'[s].pc, FieldsStay(s),
           at'[s].masked = at[s].masked, db' = db, pend'[s].run = pend[s].run, last' = last,
           at'[s].pc \notin {"claim", "build"},
           at'[s].pc \in {"load", "heartbeat", "rollback"} =>
               \/ at[s].pc \in {"load", "heartbeat", "rollback"} /\ pend'[s].batch = pend[s].batch
               \/ at[s].pc = "claim" /\ pend'[s].batch # NoWrite
    PROVE  SerialSession(s)'
<1>0. /\ IInv /\ TypeOK /\ ControlInv(s) /\ SerialRunInv(s) /\ SerialBatchInv(s)
  BY DEF SerialInv, IInv
<1>1. GoesOn(s) /\ Holds(s) /\ Run(s)' = Run(s) /\ Slot(s)' = Slot(s) /\ at'[s].call = at[s].call
      /\ at'[s].result = "none" /\ at'[s].id = at[s].id
  BY <1>0 DEF OnRunningSlot, GoesOn, FieldsStay, ControlInv, SerialRunInv, Executing, Run, Slot
<1>2. SerialRunInv(s)'
  BY <1>0, <1>1, SerialRunStays DEF OnRunningSlot, Executing, Entering
<1>3. ~at'[s].masked
  BY <1>0 DEF SerialBatchInv, OnRunningSlot, Executing
<1>4. SerialBatchInv(s)'
  BY <1>0, <1>1, <1>3 DEF SerialBatchInv, OnRunningSlot
<1>. QED  BY <1>2, <1>4 DEF SerialSession

LEMMA SerialIngestion ==
    ASSUME SerialInv, NEW s \in Sessions,
           \/ ClaimBatch(s) \/ HeartbeatBatch(s) \/ CompleteBatch(s) \/ Build(s) \/ RaiseInStage(s)
           \/ \E quality \in BOOLEAN : FailIngestion(s, quality)
    PROVE  SerialSession(s)'
<1>0. IInv /\ SessionNext(s) /\ TypeOK /\ PendingBatchInv(s) /\ pend[s] \in PendRow
  BY DEF SerialInv, IInv, SessionNext, Step, Fault, TypeOK
<1>1. CASE ClaimBatch(s)
  <2>1. /\ at[s].pc = "claim" /\ db' = db /\ last' = last /\ FieldsStay(s)
        /\ at'[s].masked = at[s].masked /\ at'[s].pc \in {"load", "stageDone", "stageFailed"}
    BY <1>0, <1>1, GotoFacts, GotoKeepsMasked DEF ClaimBatch
  <2>2. pend'[s].run = pend[s].run
    BY <1>0, <1>1 DEF ClaimBatch, TypeOK, PendRow
  <2>3. at'[s].pc = "load" => pend'[s].batch # NoWrite
    <3>2. CASE Goto(s, "stageDone") \/ Goto(s, "stageFailed")
      BY <1>0, <3>2, GotoFacts
    <3>3. CASE /\ MayClaim(SeenBatch(s))
               /\ pend' = [pend EXCEPT ![s].batch =
                             [status |-> "STARTED", attempts |-> SeenBatch(s).attempts + 1]]
      <4>1. pend'[s].batch = [status |-> "STARTED", attempts |-> SeenBatch(s).attempts + 1]
        BY <1>0, <3>3 DEF TypeOK, PendRow
      <4>2. [status |-> "STARTED", attempts |-> SeenBatch(s).attempts + 1] \in BatchRow
        BY <1>0, <2>1, <3>3, ClaimedRowIsTyped
      <4>. QED  BY <4>1, <4>2, NoRowAssumption
    <3>. QED  BY <1>1, <3>2, <3>3 DEF ClaimBatch
  <2>. QED  BY <1>0, <2>1, <2>2, <2>3, SerialRunning DEF OnRunningSlot
<1>2. CASE HeartbeatBatch(s) \/ Build(s) \/ RaiseInStage(s)
  <2>1. /\ at[s].pc \in {"heartbeat", "build", "claim"} /\ db' = db /\ last' = last /\ pend' = pend
        /\ FieldsStay(s) /\ at'[s].masked = at[s].masked
        /\ at[s].pc = "heartbeat" => at'[s].pc \in {"load", "rollback"}
        /\ at[s].pc = "build" => at'[s].pc \in {"stageDone", "stageFailed"}
        /\ at[s].pc = "claim" => at'[s].pc = "stageFailed"
    BY <1>0, <1>2, GotoFacts, GotoKeepsMasked DEF HeartbeatBatch, Build, RaiseInStage
  <2>. QED  BY <1>0, <2>1, SerialRunning DEF OnRunningSlot
<1>3. CASE CompleteBatch(s)
  <2>1. /\ at[s].pc = "load" /\ db' = db /\ last' = last /\ FieldsStay(s)
        /\ at'[s].masked = at[s].masked /\ at'[s].pc \in {"stageDone", "rollback"}
    BY <1>0, <1>3, GotoFacts, GotoKeepsMasked DEF CompleteBatch
  <2>2. pend'[s].run = pend[s].run
    BY <1>0, <1>3 DEF CompleteBatch, TypeOK, PendRow
  <2>3. at'[s].pc = "rollback" => pend'[s].batch = pend[s].batch
    BY <1>0, <1>3, GotoFacts DEF CompleteBatch
  <2>. QED  BY <1>0, <2>1, <2>2, <2>3, SerialRunning DEF OnRunningSlot
<1>4. ASSUME NEW quality \in BOOLEAN, FailIngestion(s, quality)
      PROVE  SerialSession(s)'
  <2>1. at'[s] = [at[s] EXCEPT !.pc = "rollback", !.quality = quality] /\ at[s] \in AtRow
    BY <1>0, <1>4 DEF FailIngestion, TypeOK
  <2>2. at'[s].pc = "rollback" /\ FieldsStay(s) /\ at'[s].masked = at[s].masked
    BY <2>1 DEF AtRow, FieldsStay
  <2>3. at[s].pc = "load" /\ db' = db /\ last' = last /\ pend' = pend
    BY <1>4 DEF FailIngestion
  <2>. QED  BY <1>0, <2>2, <2>3, SerialRunning DEF OnRunningSlot
<1>. QED  BY <1>1, <1>2, <1>3, <1>4

LEMMA SerialRollback ==
    ASSUME SerialInv, NEW s \in Sessions, Rollback(s)
    PROVE  SerialSession(s)'
<1>0. /\ IInv /\ SessionNext(s) /\ TypeOK /\ ControlInv(s) /\ PendingBatchInv(s)
      /\ SerialRunInv(s) /\ SerialBatchInv(s)
  BY DEF SerialInv, IInv, SessionNext, Step
<1>1. /\ at[s].pc = "rollback" /\ db' = db /\ last' = last /\ at'[s].pc = "failBatch"
      /\ FieldsStay(s) /\ pend'[s] = NoWrites /\ at'[s].masked = at[s].masked
  BY <1>0, GotoFacts, GotoKeepsMasked DEF Rollback, TypeOK
<1>2. GoesOn(s) /\ Run(s)' = Run(s) /\ Slot(s)' = Slot(s) /\ at'[s].call = at[s].call
      /\ at'[s].result = "none" /\ at'[s].id = at[s].id /\ Holds(s) /\ ~at'[s].masked
      /\ pend'[s].run = NoWrite
  BY <1>0, <1>1
  DEF GoesOn, FieldsStay, ControlInv, SerialRunInv, SerialBatchInv, Executing, Run, Slot, NoWrites
<1>3. PICK c \in Slots : c = Slot(s)
  BY <1>0, <1>1, SlotIsTyped DEF OnSlot, Ingesting
<1>4. Row(s, Slot(s))' = db[Run(s)].stages[at[s].call][c]
  <2>1. pend'[s].stages[c] = NoWrite
    BY <1>1 DEF NoWrites
  <2>2. Slot(s)' = c
    BY <1>2, <1>3
  <2>. QED  BY <1>1, <1>2, <2>1, <2>2 DEF Row, Seen
<1>5. SerialRunInv(s)'
  <2>1. Row(s, Slot(s))' # "ABSENT" => pend[s].run = NoWrite
    BY <1>0, <1>1, <1>4 DEF SerialRunInv
  <2>. QED  BY <1>0, <1>1, <1>2, <2>1, SerialRunStays DEF Executing, Entering
<1>6. SerialBatchInv(s)'
  <2>1. db[Run(s)].batch.status = "STARTED" \/ Row(s, Slot(s))' = "ABSENT"
    BY <1>0, <1>1, <1>3, <1>4 DEF SerialBatchInv
  <2>. QED  BY <1>1, <1>2, <2>1 DEF SerialBatchInv
<1>. QED  BY <1>5, <1>6 DEF SerialSession

LEMMA SerialFailBatch ==
    ASSUME SerialInv, NEW s \in Sessions, FailBatch(s)
    PROVE  SerialSession(s)'
<1>0. /\ IInv /\ SessionNext(s) /\ TypeOK /\ ControlInv(s)
      /\ SerialRunInv(s) /\ SerialBatchInv(s)
  BY DEF SerialInv, IInv, SessionNext, Step
<1>1. /\ at[s].pc = "failBatch" /\ pend' = pend /\ last' = last /\ Run(s) \in Runs
      /\ FieldsStay(s) /\ at'[s].pc = "stageFailed"
      /\ at'[s].masked => db[Run(s)].batch.status # "STARTED" \/ at[s].masked
  <2>1. Run(s) \in Runs
    BY <1>0 DEF FailBatch, ControlInv
  <2>2. CASE Goto(s, "stageFailed")
    BY <1>0, <2>1, <2>2, GotoFacts, GotoKeepsMasked DEF FailBatch
  <2>3. CASE /\ db[Run(s)].batch.status # "STARTED"
             /\ at' = [at EXCEPT ![s].pc = "stageFailed", ![s].masked = TRUE]
    <3>1. at'[s] = [at[s] EXCEPT !.pc = "stageFailed", !.masked = TRUE]
      BY <1>0, <2>3 DEF TypeOK
    <3>. QED  BY <1>0, <2>1, <2>3, <3>1 DEF FailBatch, TypeOK, AtRow, FieldsStay
  <2>. QED  BY <2>2, <2>3 DEF FailBatch
<1>2. db'[Run(s)].run = db[Run(s)].run /\ db'[Run(s)].stages = db[Run(s)].stages
  <2>1. CASE FailsBatch(s)
    BY <1>0, <1>1, <2>1, FailFacts
  <2>2. CASE db' = db
    BY <2>2
  <2>. QED  BY <1>0, <1>1, <2>1, <2>2, StoreStep DEF Commits
<1>3. Run(s)' = Run(s) /\ Slot(s)' = Slot(s) /\ at'[s].call = at[s].call /\ at'[s].id = at[s].id
      /\ at'[s].result = "none"
  BY <1>0, <1>1 DEF FieldsStay, Run, Slot, ControlInv
<1>4. SeenRun(s)' = SeenRun(s) /\ (Holds(s)' <=> Holds(s)) /\ Row(s, Slot(s))' = Row(s, Slot(s))
  BY <1>1, <1>2, <1>3 DEF SeenRun, Holds, Row
<1>5. SerialRunInv(s)'
  BY <1>0, <1>1, <1>2, <1>3, <1>4 DEF SerialRunInv, Executing, Entering
<1>6. SerialBatchInv(s)'
  <2>1. ~at[s].masked
    BY <1>0, <1>1 DEF SerialBatchInv
  <2>2. db[Run(s)].batch.status # "STARTED" => Row(s, Slot(s)) = "ABSENT"
    BY <1>0, <1>1 DEF SerialBatchInv
  <2>3. at'[s].masked => Row(s, Slot(s))' = "ABSENT"
    BY <1>1, <1>4, <2>1, <2>2
  <2>. QED  BY <1>1, <2>3 DEF SerialBatchInv, Executing
<1>. QED  BY <1>5, <1>6 DEF SerialSession

\* A commit inside a call stores the run as RUNNING.
LEMMA SerialCommit ==
    ASSUME SerialInv, NEW s \in Sessions, LoadPart(s) \/ RecordStage(s)
    PROVE  SerialSession(s)' /\ db'[Run(s)].run = SeenRun(s)
<1>0. /\ IInv /\ SessionNext(s) /\ TypeOK /\ ControlInv(s) /\ PendingBatchInv(s)
      /\ SerialRunInv(s) /\ SerialBatchInv(s) /\ at[s] \in AtRow
  BY DEF SerialInv, IInv, SessionNext, Step, TypeOK
<1>1. /\ at[s].pc \in {"load", "record"} /\ last' = last
      /\ at'[s].run = at[s].run /\ at'[s].call = at[s].call /\ at'[s].id = at[s].id
      /\ at'[s].result = at[s].result /\ at'[s].masked = at[s].masked
      /\ at[s].pc = "load" => at'[s].pc = "heartbeat"
      /\ at[s].pc = "record" => at'[s].pc \in {"begin", "complete"}
  <2>1. CASE LoadPart(s)
    BY <1>0, <2>1, GotoFacts, GotoKeepsMasked DEF LoadPart, FieldsStay
  <2>2. CASE RecordStage(s) /\ Goto(s, "complete")
    BY <1>0, <2>2, GotoFacts, GotoKeepsMasked DEF RecordStage, FieldsStay
  <2>3. CASE RecordStage(s) /\ ~Goto(s, "complete")
    <3>1. at' = [at EXCEPT ![s].pc = "begin", ![s].stage = "analytics_build",
                           ![s].attempt = 0, ![s].ingested = TRUE]
          /\ at[s].pc = "record" /\ last' = last
      BY <2>3 DEF RecordStage
    <3>. QED  BY <1>0, <3>1 DEF TypeOK, AtRow
  <2>. QED  BY <2>1, <2>2, <2>3
<1>2. PICK parts : CommitWith(s, parts)
  BY DEF LoadPart, RecordStage
<1>3. Run(s) \in Runs /\ at[s].call \in 1..MaxCalls /\ Run(s)' = Run(s)
  BY <1>0, <1>1, InCall DEF Run
<1>4. pend'[s] = NoWrites /\ db'[Run(s)].run = SeenRun(s) /\ db'[Run(s)].batch = SeenBatch(s)
  BY <1>0, <1>2, <1>3, CommitFacts
<1>5. pend'[s].run = NoWrite /\ pend'[s].batch = NoWrite
  BY <1>4 DEF NoWrites
<1>6. Holds(s) /\ ~at[s].masked /\ at[s].result = "none"
  BY <1>0, <1>1 DEF SerialRunInv, SerialBatchInv, ControlInv, Executing
<1>7. SeenRun(s)' = SeenRun(s)
  BY <1>3, <1>4, <1>5 DEF SeenRun, Seen
<1>8. Holds(s)'
  BY <1>1, <1>6, <1>7 DEF Holds
<1>9. SerialRunInv(s)'
  BY <1>1, <1>3, <1>4, <1>5, <1>6, <1>8 DEF SerialRunInv, Holds
<1>10. SerialBatchInv(s)'
  <2>1. at[s].pc = "load" => SeenBatch(s).status = "STARTED"
    BY <1>0 DEF SerialBatchInv, PendingBatchInv, SeenBatch, Seen
  <2>. QED  BY <1>1, <1>3, <1>4, <1>5, <1>6, <2>1 DEF SerialBatchInv
<1>. QED  BY <1>4, <1>9, <1>10 DEF SerialSession

LEMMA SerialEndOfRun ==
    ASSUME SerialInv, NEW s \in Sessions, CompleteRun(s) \/ FailRun(s)
    PROVE  SerialSession(s)'
<1>0. /\ IInv /\ SessionNext(s) /\ TypeOK /\ ControlInv(s) /\ SerialRunInv(s) /\ SerialBatchInv(s)
      /\ at[s] \in AtRow
  BY DEF SerialInv, IInv, SessionNext, Step, TypeOK
<1>1. PICK status \in {"SUCCESS", "FAILED"} :
          /\ at[s].pc = IF status = "SUCCESS" THEN "complete" ELSE "fail"
          /\ WriteRun(s, status)
          /\ at' = [at EXCEPT ![s].pc = "exit", ![s].result = status]
          /\ db' = db /\ last' = last
  <2>1. CASE CompleteRun(s)
    BY <2>1 DEF CompleteRun
  <2>2. CASE FailRun(s)
    BY <2>2 DEF FailRun
  <2>. QED  BY <2>1, <2>2
<1>2. /\ at'[s].pc = "exit" /\ at'[s].result = status /\ Run(s)' = Run(s)
      /\ at'[s].masked = at[s].masked
  <2>1. at'[s] = [at[s] EXCEPT !.pc = "exit", !.result = status]
    BY <1>0, <1>1 DEF TypeOK
  <2>. QED  BY <1>0, <2>1 DEF AtRow, Run
<1>3. \/ pend'[s].run = NoWrite /\ status = "FAILED"
      \/ SeenRun(s)'.status = status
  <2>1. CASE SeenRun(s).id = at[s].id
    <3>1. SeenRun(s) \in RunRow /\ pend[s] \in PendRow
      BY <1>0, <1>1, InCall, SeenTypes DEF TypeOK
    <3>2. pend'[s] = [pend[s] EXCEPT !.run = [SeenRun(s) EXCEPT !.status = status,
                                                                !.ingested = at[s].ingested]]
      BY <1>0, <1>1, <2>1 DEF WriteRun, TypeOK
    <3>3. pend'[s].run = [SeenRun(s) EXCEPT !.status = status, !.ingested = at[s].ingested]
      BY <3>1, <3>2 DEF PendRow
    <3>4. pend'[s].run.status = status /\ pend'[s].run \in RunRow
      BY <1>0, <3>1, <3>3 DEF RunRow, AtRow
    <3>5. SeenRun(s)' = pend'[s].run
      BY <3>4, NoRowAssumption DEF SeenRun, Seen
    <3>. QED  BY <3>4, <3>5
  <2>2. CASE SeenRun(s).id # at[s].id
    <3>1. pend'[s] = pend[s]
      BY <1>1, <2>2 DEF WriteRun
    <3>2. status # "SUCCESS"
      BY <1>0, <1>1, <2>2 DEF SerialRunInv, Executing, Holds
    <3>3. pend[s].run = NoWrite
      BY <1>0, <1>1, <2>2, <3>2 DEF SerialRunInv
    <3>. QED  BY <3>1, <3>2, <3>3
  <2>. QED  BY <2>1, <2>2
<1>4. db[Run(s)].run.status # "SUCCESS" /\ (status = "SUCCESS" => db[Run(s)].run.status = "RUNNING")
  BY <1>0, <1>1 DEF SerialRunInv, Entering
<1>5. SerialRunInv(s)'
  BY <1>1, <1>2, <1>3, <1>4 DEF SerialRunInv, Executing
<1>6. SerialBatchInv(s)'
  BY <1>2 DEF SerialBatchInv, Executing
<1>. QED  BY <1>5, <1>6 DEF SerialSession

\* Whatever it is that keeps a session alone with its run.
LEMMA SerialStepAlone ==
    ASSUME SerialInv, [Next]_vars, \A s \in Sessions : Alone(s)'
    PROVE  SerialInv'
<1>0. IInv'
  BY IInvStep DEF SerialInv
<1>1. CASE UNCHANGED vars
  <2>. SUFFICES ASSUME NEW s \in Sessions
                PROVE  Alone(s)' /\ SerialRunInv(s)' /\ SerialBatchInv(s)'
    BY <1>0 DEF SerialInv
  <2>1. db' = db /\ pend' = pend /\ at' = at /\ Alone(s) /\ SerialRunInv(s) /\ SerialBatchInv(s)
    BY <1>1 DEF vars, SerialInv
  <2>2. Alone(s)'
    BY <2>1 DEF Alone, Run
  <2>3. SerialRunInv(s)'
    BY <2>1 DEF SerialRunInv, Holds, SeenRun, Row, Run, Slot
  <2>4. SerialBatchInv(s)'
    BY <2>1 DEF SerialBatchInv, Row, Run, Slot
  <2>. QED  BY <2>2, <2>3, <2>4
<1>2. CASE Next
  <2>1. PICK s \in Sessions : SessionNext(s)
    BY <1>2, NextIsSessionNext
  <2>2. SerialSession(s)'
    <3>1. CASE Exit(s) \/ Crash(s) \/ \E l \in Runs : Enter(s, l, "insert") \/ Enter(s, l, "lookup")
      <4>1. ~GoesOn(s)
        <5>1. at \in [Sessions -> AtRow]
          BY DEF SerialInv, IInv, TypeOK
        <5>2. CASE Exit(s) \/ Crash(s)
          BY <5>1, <5>2 DEF Exit, Crash, Drop, GoesOn, Outside
        <5>3. CASE \E l \in Runs : Enter(s, l, "insert") \/ Enter(s, l, "lookup")
          BY <5>3 DEF Enter, GoesOn
        <5>. QED  BY <3>1, <5>2, <5>3
      <4>. QED  BY <2>1, <4>1, SerialOutsideRun
    <3>2. CASE StartRun(s) \/ LookupRun(s) \/ ReopenRun(s)
      BY <2>1, <3>2, SerialOutsideRun, SerialEntering
    <3>. QED
      BY <2>1, <3>1, <3>2, SerialStartStage, SerialEndStage, SerialIngestion, SerialRollback,
         SerialFailBatch, SerialCommit, SerialEndOfRun DEF SessionNext, Step, Fault
  <2>3. ASSUME NEW t \in Sessions
        PROVE  Alone(t)' /\ SerialRunInv(t)' /\ SerialBatchInv(t)'
    <3>1. Alone(t)'
      OBVIOUS
    <3>2. SerialRunInv(t)' /\ SerialBatchInv(t)'
      BY <2>1, <2>2, OthersStaySerial DEF SerialSession
    <3>. QED  BY <3>1, <3>2
  <2>. QED  BY <1>0, <2>3 DEF SerialInv
<1>. QED  BY <1>1, <1>2

LEMMA SerialStep ==
    ASSUME OneAtATime = TRUE, SerialInv, [Next]_vars
    PROVE  SerialInv'
<1>1. ASSUME NEW t \in Sessions
      PROVE  Alone(t)'
  <2>1. CASE UNCHANGED vars
    BY <2>1 DEF SerialInv, Alone, Run, vars
  <2>2. CASE Next
    BY <2>2, NextIsSessionNext, AloneStays
  <2>. QED  BY <2>1, <2>2
<1>. QED  BY <1>1, SerialStepAlone

LEMMA SerialInit == Init => SerialInv
<1>. SUFFICES ASSUME Init PROVE SerialInv
  OBVIOUS
<1>1. ASSUME NEW s \in Sessions
      PROVE  Alone(s) /\ SerialRunInv(s) /\ SerialBatchInv(s)
  <2>1. /\ \A t \in Sessions : at[t] = Outside
        /\ pend[s].run = NoWrite
    BY DEF Init, NoWrites
  <2>2. Alone(s)
    BY <2>1 DEF Alone, Run, Outside
  <2>3. SerialRunInv(s) /\ SerialBatchInv(s)
    BY <2>1 DEF SerialRunInv, SerialBatchInv, Outside, Executing, Entering
  <2>. QED  BY <2>2, <2>3
<1>. QED  BY <1>1, IInvInit DEF SerialInv

LEMMA SerialInductive ==
    ASSUME OneAtATime = TRUE
    PROVE  Spec => []SerialInv
<1>1. SerialInv /\ [Next]_vars => SerialInv'
  BY SerialStep
<1>. QED  BY <1>1, SerialInit, PTL DEF Spec

-----------------------------------------------------------------------------
(* The theorems about callers that do not run a logical run twice at once. *)

\* An execution whose quality checks failed does not start another attempt,
\* also when fail_batch's own error has hidden the quality error: the rollback
\* has then lost the attempt's row as well, and fail_stage_run ends the retries.
THEOREM QualityFailureEndsTheRetries ==
    ASSUME OneAtATime = TRUE
    PROVE  Spec => QualityFailureNotRetried
<1>1. ASSUME SerialInv, [Next]_vars
      PROVE  [\A s \in Sessions :
                 at[s].pc = "stageFailed" /\ at[s].quality => at'[s].pc # "begin"]_vars
  <2>. SUFFICES ASSUME Next, NEW t \in Sessions, at[t].pc = "stageFailed", at[t].quality
                PROVE  at'[t].pc # "begin"
    BY <1>1
  <2>0. TypeOK /\ SerialBatchInv(t) /\ at[t] \in AtRow
    BY <1>1 DEF SerialInv, IInv, TypeOK
  <2>1. PICK s \in Sessions : SessionNext(s)
    BY NextIsSessionNext
  <2>2. CASE s # t
    BY <2>0, <2>1, <2>2, OthersStay
  <2>3. CASE s = t
    <3>1. FailStage(t) \/ Crash(t)
      BY <2>1, <2>3
      DEF SessionNext, Step, Fault, Enter, StartRun, LookupRun, ReopenRun, StartStage, CompleteStage,
          RecordStage, ClaimBatch, LoadPart, HeartbeatBatch, CompleteBatch, Rollback, FailBatch,
          Build, CompleteRun, FailRun, Exit, RaiseInStage, FailIngestion
    <3>2. CASE Crash(t)
      BY <2>0, <3>2 DEF Crash, Drop, TypeOK, Outside
    <3>3. CASE FailStage(t)
      <4>1. SeenStage(t) # "ABSENT" => ~Retried(t)
        <5>1. SeenStage(t) = Row(t, Slot(t))
          BY DEF SeenStage, Row
        <5>. QED  BY <2>0, <5>1 DEF SerialBatchInv, Retried
      <4>2. Goto(t, "fail")
        BY <3>3, <4>1 DEF FailStage
      <4>. QED  BY <2>0, <4>2, GotoFacts
    <3>. QED  BY <3>1, <3>2, <3>3
  <2>. QED  BY <2>2, <2>3
<1>. QED  BY <1>1, SerialInductive, PTL DEF Spec, QualityFailureNotRetried

-----------------------------------------------------------------------------
(* The lifecycle: every commit moves the run one step.                     *)

\* The lifecycle's variables, of one run.
Status(l) == db[l].run.status
IngestedBatch(l) == db[l].batch.status = "COMPLETED"
Analysed(l) == Succeeded(l, "analytics_build")

\* What a lifecycle step does to run l; the others stay.
LifecycleStep(l) ==
    \/ /\ Status(l)' = Status(l) /\ (IngestedBatch(l)' <=> IngestedBatch(l))
       /\ Analysed(l)' <=> Analysed(l)
    \/ /\ Status(l) # "SUCCESS" /\ Status(l)' = "RUNNING"
       /\ IngestedBatch(l) => IngestedBatch(l)'
       /\ Analysed(l)' <=> Analysed(l)
    \/ /\ Status(l) # "SUCCESS" /\ IngestedBatch(l) /\ Status(l)' = "RUNNING"
       /\ IngestedBatch(l)' /\ Analysed(l)'
    \/ /\ Status(l) # "SUCCESS" /\ Status(l)' = "FAILED"
       /\ (IngestedBatch(l)' <=> IngestedBatch(l)) /\ (Analysed(l)' <=> Analysed(l))
    \/ /\ Status(l) = "RUNNING" /\ Analysed(l) /\ Status(l)' = "SUCCESS"
       /\ (IngestedBatch(l)' <=> IngestedBatch(l)) /\ (Analysed(l)' <=> Analysed(l))

\* A commit that stores no success of the analytics stage leaves it as it was.
LEMMA AnalysedStays ==
    ASSUME IInv, NEW s \in Sessions, SessionNext(s), Commits(s), NEW l \in Runs, l = Run(s),
           \A k \in 1..StageAttempts :
               pend[s].stages[<<Analyse, k>>] # "SUCCESS"
    PROVE  Analysed(l)' <=> Analysed(l)
<1>0. TypeOK /\ ControlInv(s)
  BY DEF IInv
<1>1. Run(s) \in Runs /\ at[s].call \in 1..MaxCalls
  BY <1>0, InCall DEF Commits
<1>2. \A e \in 1..MaxCalls, w \in Slots :
          db'[l].stages[e][w] = IF e = at[s].call THEN Row(s, w) ELSE db[l].stages[e][w]
  BY <1>0, <1>1, CommitFacts DEF Commits
<1>3. Analysed(l) => Analysed(l)'
  BY IngestedStays DEF Analysed, Stages
<1>4. ASSUME NEW e \in 1..MaxCalls, NEW k \in 1..StageAttempts,
             db'[l].stages[e][<<"analytics_build", k>>] = "SUCCESS"
      PROVE  db[l].stages[e][<<"analytics_build", k>>] = "SUCCESS"
  <2>1. <<"analytics_build", k>> \in Slots
    BY DEF Slots, Stages
  <2>2. pend[s].stages[<<"analytics_build", k>>] # "SUCCESS"
    BY DEF Analyse
  <2>. QED  BY <1>2, <1>4, <2>1, <2>2 DEF Row, Seen
<1>5. Analysed(l)' => Analysed(l)
  BY <1>4 DEF Analysed, Succeeded
<1>. QED  BY <1>3, <1>5

LEMMA LoadPartMovesOn ==
    ASSUME SerialInv, NEW s \in Sessions, LoadPart(s), NEW l \in Runs, l = Run(s)
    PROVE  LifecycleStep(l)
<1>0. /\ IInv /\ SessionNext(s) /\ TypeOK /\ RowsInv(s) /\ PendingBatchInv(s)
      /\ SerialRunInv(s) /\ SerialBatchInv(s)
  BY DEF SerialInv, IInv, SessionNext, Step
<1>1. at[s].pc = "load" /\ Commits(s)
  <2>1. /\ at[s].pc = "load" /\ db[Run(s)].parts < NumParts /\ last' = last
        /\ CommitWith(s, db[Run(s)].parts + 1)
    BY DEF LoadPart
  <2>. QED  BY <2>1 DEF Commits
<1>2. db'[l].run = SeenRun(s) /\ Holds(s) /\ Status(l) # "SUCCESS"
  BY <1>0, <1>1, SerialCommit DEF SerialRunInv, Executing, Entering, Status
<1>3. Analysed(l)' <=> Analysed(l)
  <2>1. \A k \in 1..StageAttempts : <<Analyse, k>> \in Slots
    BY DEF Slots, Stages, Analyse
  <2>2. \A k \in 1..StageAttempts : pend[s].stages[<<Analyse, k>>] # "SUCCESS"
    BY <1>0, <1>1, <2>1 DEF RowsInv
  <2>. QED  BY <1>0, <1>1, <2>2, AnalysedStays
<1>4. IngestedBatch(l) => IngestedBatch(l)'
  BY <1>0, StoreGrows DEF IngestedBatch
<1>. QED  BY <1>2, <1>3, <1>4 DEF LifecycleStep, Holds, Status

LEMMA RecordStageMovesOn ==
    ASSUME SerialInv, NEW s \in Sessions, RecordStage(s), NEW l \in Runs, l = Run(s)
    PROVE  LifecycleStep(l)
<1>0. /\ IInv /\ SessionNext(s) /\ TypeOK /\ ControlInv(s) /\ RowsInv(s) /\ PendingBatchInv(s)
      /\ DoneInv(s) /\ SerialRunInv(s) /\ SerialBatchInv(s) /\ at[s] \in AtRow
  BY DEF SerialInv, IInv, SessionNext, Step, TypeOK
<1>1. at[s].pc = "record" /\ Commits(s)
  <2>1. at[s].pc = "record" /\ last' = last /\ CommitWith(s, db[Run(s)].parts)
    BY DEF RecordStage
  <2>. QED  BY <2>1 DEF Commits
<1>2. db'[l].run = SeenRun(s) /\ Holds(s) /\ Status(l) # "SUCCESS"
  BY <1>0, <1>1, SerialCommit DEF SerialRunInv, Executing, Entering, Status
<1>3. Status(l)' = "RUNNING"
  BY <1>2 DEF Holds, Status
<1>4. CASE at[s].stage = Ingest
  <2>1. ASSUME NEW k \in 1..StageAttempts
        PROVE  pend[s].stages[<<Analyse, k>>] # "SUCCESS"
    <3>1. <<Analyse, k>> \in Slots /\ <<Analyse, k>>[1] = Analyse
      BY DEF Slots, Stages, Analyse
    <3>2. Row(s, <<Analyse, k>>) = "ABSENT"
      BY <1>0, <1>1, <1>4, <3>1 DEF RowsInv, Ingest, Analyse
    <3>. QED  BY <3>2, NoRowAssumption DEF Row, Seen, StageStatus
  <2>2. Analysed(l)' <=> Analysed(l)
    BY <1>0, <1>1, <2>1, AnalysedStays
  <2>3. IngestedBatch(l) => IngestedBatch(l)'
    BY <1>0, StoreGrows DEF IngestedBatch
  <2>. QED  BY <1>2, <1>3, <2>2, <2>3 DEF LifecycleStep
<1>5. CASE at[s].stage = Analyse
  <2>1. Ingested(l)
    BY <1>0, <1>5 DEF DoneInv
  <2>2. IngestedBatch(l) /\ IngestedBatch(l)'
    BY <1>0, <2>1, StoreGrows DEF Ingested, IngestedBatch
  <2>3. Analysed(l)'
    <3>1. DoneInv(s)' /\ Run(s)' = Run(s) /\ at'[s].pc = "complete"
      <4>1. Goto(s, "complete")
        BY <1>5 DEF RecordStage, Analyse
      <4>. QED  BY <1>0, <4>1, RecordStageIsSafe, GotoFacts DEF SessionInv, FieldsStay, Run
    <3>2. Succeeded(Run(s), Analyse)'
      BY <3>1 DEF DoneInv
    <3>. QED  BY <3>1, <3>2 DEF Succeeded, Analysed, Analyse
  <2>. QED  BY <1>2, <1>3, <2>2, <2>3 DEF LifecycleStep
<1>. QED  BY <1>0, <1>4, <1>5 DEF AtRow, Stages, Ingest, Analyse

LEMMA ExitMovesOn ==
    ASSUME SerialInv, NEW s \in Sessions, Exit(s), NEW l \in Runs, l = Run(s)
    PROVE  LifecycleStep(l)
<1>0. /\ IInv /\ SessionNext(s) /\ TypeOK /\ ControlInv(s) /\ RowsInv(s) /\ PendingBatchInv(s)
      /\ DoneInv(s) /\ SerialRunInv(s)
  BY DEF SerialInv, IInv, SessionNext, Step
<1>1. at[s].pc = "exit" /\ Commits(s) /\ CommitWith(s, db[Run(s)].parts)
  BY DEF Exit, Commits
<1>2. db'[l].run = SeenRun(s) /\ db'[l].batch = SeenBatch(s)
  BY <1>0, <1>1, InCall, CommitFacts
<1>3. IngestedBatch(l)' <=> IngestedBatch(l)
  <2>1. pend[s].batch = NoWrite
    BY <1>0, <1>1 DEF PendingBatchInv
  <2>. QED  BY <1>2, <2>1 DEF SeenBatch, Seen, IngestedBatch
<1>4. Analysed(l)' <=> Analysed(l)
  <2>1. \A k \in 1..StageAttempts : <<Analyse, k>> \in Slots
    BY DEF Slots, Stages, Analyse
  <2>2. \A k \in 1..StageAttempts : pend[s].stages[<<Analyse, k>>] # "SUCCESS"
    BY <1>0, <1>1, <2>1 DEF RowsInv
  <2>. QED  BY <1>0, <1>1, <2>2, AnalysedStays
<1>5. Status(l) # "SUCCESS"
  BY <1>0, <1>1 DEF SerialRunInv, Entering, Status
<1>6. CASE at[s].result = "SUCCESS" /\ SeenRun(s).status = "SUCCESS"
  <2>1. Status(l) = "RUNNING" /\ Analysed(l)
    BY <1>0, <1>6 DEF SerialRunInv, DoneInv, Status, Analysed, Analyse
  <2>. QED  BY <1>2, <1>3, <1>4, <1>6, <2>1 DEF LifecycleStep, Status
<1>7. CASE pend[s].run = NoWrite
  <2>1. SeenRun(s) = db[l].run
    BY <1>7 DEF SeenRun, Seen
  <2>. QED  BY <1>2, <1>3, <1>4, <2>1 DEF LifecycleStep, Status
<1>8. CASE SeenRun(s).status = "FAILED"
  BY <1>2, <1>3, <1>4, <1>5, <1>8 DEF LifecycleStep, Status
<1>. QED  BY <1>0, <1>1, <1>6, <1>7, <1>8 DEF SerialRunInv

LEMMA EveryStepMovesOn ==
    ASSUME SerialInv, NEW s \in Sessions, SessionNext(s), NEW l \in Runs
    PROVE  LifecycleStep(l)
<1>0. IInv /\ TypeOK /\ ControlInv(s)
  BY DEF SerialInv, IInv
<1>1. CASE db'[l] = db[l]
  <2>1. (IngestedBatch(l)' <=> IngestedBatch(l)) /\ (Analysed(l)' <=> Analysed(l)) /\ Status(l)' = Status(l)
    BY <1>1 DEF IngestedBatch, Analysed, Succeeded, Status
  <2>. QED  BY <2>1 DEF LifecycleStep
<1>2. CASE l = Run(s) /\ FailsBatch(s)
  <2>1. /\ db'[l].run = db[l].run /\ db'[l].stages = db[l].stages
        /\ db'[l].batch.status = "FAILED" /\ db[l].batch.status = "STARTED"
    BY <1>0, <1>2, FailFacts DEF FailsBatch
  <2>2. (IngestedBatch(l)' <=> IngestedBatch(l)) /\ (Analysed(l)' <=> Analysed(l)) /\ Status(l)' = Status(l)
    BY <2>1 DEF IngestedBatch, Analysed, Succeeded, Status
  <2>. QED  BY <2>2 DEF LifecycleStep
<1>3. CASE l = Run(s) /\ Commits(s)
  <2>1. CASE RecordStage(s) \/ LoadPart(s) \/ Exit(s)
    BY <1>3, <2>1, LoadPartMovesOn, RecordStageMovesOn, ExitMovesOn
  <2>2. CASE ~(RecordStage(s) \/ LoadPart(s) \/ Exit(s))
    <3>1. db' = db
      BY <1>3, <2>2
      DEF Commits, SessionNext, Step, Fault, Enter, StartRun, LookupRun, ReopenRun, StartStage,
          CompleteStage, FailStage, ClaimBatch, HeartbeatBatch, CompleteBatch, Rollback, FailBatch,
          Build, CompleteRun, FailRun, RaiseInStage, FailIngestion, Crash, Drop
    <3>. QED  BY <1>1, <3>1
  <2>. QED  BY <2>1, <2>2
<1>. QED  BY <1>0, <1>1, <1>2, <1>3, StoreStep, OtherRunsStay

\* The lifecycle's variables, of all runs.
statuses == [l \in Runs |-> Status(l)]
ingestedRuns == [l \in Runs |-> IngestedBatch(l)]
analysedRuns == [l \in Runs |-> Analysed(l)]

LEMMA AsLifecycle ==
    /\ statuses = [l \in Runs |-> db[l].run.status]
    /\ ingestedRuns = [l \in Runs |-> db[l].batch.status = "COMPLETED"]
    /\ analysedRuns = [l \in Runs |-> Succeeded(l, "analytics_build")]
    /\ statuses' = [l \in Runs |-> db[l].run.status]'
    /\ ingestedRuns' = [l \in Runs |-> db[l].batch.status = "COMPLETED"]'
    /\ analysedRuns' = [l \in Runs |-> Succeeded(l, "analytics_build")]'
BY Zenon DEF statuses, ingestedRuns, analysedRuns, Status, IngestedBatch, Analysed

LEMMA OneRunMoves ==
    ASSUME NEW l \in Runs, LifecycleStep(l),
           \A m \in Runs : m # l => /\ Status(m)' = Status(m)
                                   /\ IngestedBatch(m)' = IngestedBatch(m)
                                   /\ Analysed(m)' = Analysed(m)
    PROVE  [Lifecycle!Next]_Lifecycle!lifecycleVars
<1>0. /\ statuses[l] = Status(l) /\ ingestedRuns[l] = IngestedBatch(l) /\ analysedRuns[l] = Analysed(l)
  BY Zenon DEF statuses, ingestedRuns, analysedRuns
<1>1. statuses' = [statuses EXCEPT ![l] = Status(l)']
  BY DEF statuses
<1>2. ingestedRuns' = [ingestedRuns EXCEPT ![l] = IngestedBatch(l)']
  BY DEF ingestedRuns
<1>3. analysedRuns' = [analysedRuns EXCEPT ![l] = Analysed(l)']
  BY DEF analysedRuns
<1>4. IngestedBatch(l)' = IngestedBatch(l) => ingestedRuns' = ingestedRuns
  <2>. SUFFICES ASSUME IngestedBatch(l)' = IngestedBatch(l) PROVE ingestedRuns' = ingestedRuns
    OBVIOUS
  <2>1. \A m \in Runs : IngestedBatch(m)' = IngestedBatch(m)
    OBVIOUS
  <2>. QED  BY <2>1, Zenon DEF ingestedRuns
<1>5. Analysed(l)' = Analysed(l) => analysedRuns' = analysedRuns
  <2>. SUFFICES ASSUME Analysed(l)' = Analysed(l) PROVE analysedRuns' = analysedRuns
    OBVIOUS
  <2>1. \A m \in Runs : Analysed(m)' = Analysed(m)
    OBVIOUS
  <2>. QED  BY <2>1, Zenon DEF analysedRuns
<1>6. Status(l)' = Status(l) => statuses' = statuses
  BY DEF statuses
<1>7. /\ (IngestedBatch(l)' <=> IngestedBatch(l)) => IngestedBatch(l)' = IngestedBatch(l)
      /\ (Analysed(l)' <=> Analysed(l)) => Analysed(l)' = Analysed(l)
      /\ IngestedBatch(l)' => IngestedBatch(l)' = TRUE
      /\ Analysed(l)' => Analysed(l)' = TRUE
      /\ (IngestedBatch(l) => IngestedBatch(l)') =>
             IngestedBatch(l)' = IngestedBatch(l) \/ IngestedBatch(l)' = TRUE
  BY DEF IngestedBatch, Analysed, Succeeded
<1>8. CASE /\ Status(l)' = Status(l) /\ (IngestedBatch(l)' <=> IngestedBatch(l))
           /\ Analysed(l)' <=> Analysed(l)
  BY <1>4, <1>5, <1>6, <1>7, <1>8, AsLifecycle DEF Lifecycle!lifecycleVars
<1>9. CASE /\ Status(l) # "SUCCESS" /\ Status(l)' = "RUNNING"
           /\ IngestedBatch(l) => IngestedBatch(l)'
           /\ Analysed(l)' <=> Analysed(l)
  <2>1. analysedRuns' = analysedRuns
    BY <1>5, <1>7, <1>9
  <2>2. \E done \in {ingestedRuns[l], TRUE} : ingestedRuns' = [ingestedRuns EXCEPT ![l] = done]
    BY <1>0, <1>2, <1>7, <1>9
  <2>3. Lifecycle!Progress(l)
    BY <1>0, <1>1, <1>9, <2>1, <2>2, AsLifecycle DEF Lifecycle!Progress, Lifecycle!Ended, Lifecycle!Becomes
  <2>. QED  BY <2>3 DEF Lifecycle!Next
<1>10. CASE /\ Status(l) # "SUCCESS" /\ IngestedBatch(l) /\ Status(l)' = "RUNNING"
            /\ IngestedBatch(l)' /\ Analysed(l)'
  <2>1. ingestedRuns' = ingestedRuns
    BY <1>4, <1>7, <1>10
  <2>2. analysedRuns' = [analysedRuns EXCEPT ![l] = TRUE]
    BY <1>3, <1>7, <1>10
  <2>3. Lifecycle!Analyse(l)
    BY <1>0, <1>1, <1>10, <2>1, <2>2, AsLifecycle DEF Lifecycle!Analyse, Lifecycle!Ended, Lifecycle!Becomes
  <2>. QED  BY <2>3 DEF Lifecycle!Next
<1>11. CASE /\ Status(l) # "SUCCESS" /\ Status(l)' = "FAILED"
            /\ (IngestedBatch(l)' <=> IngestedBatch(l)) /\ (Analysed(l)' <=> Analysed(l))
  <2>1. Lifecycle!Fail(l)
    BY <1>0, <1>1, <1>4, <1>5, <1>7, <1>11, AsLifecycle DEF Lifecycle!Fail, Lifecycle!Ended, Lifecycle!Becomes
  <2>. QED  BY <2>1 DEF Lifecycle!Next
<1>12. CASE /\ Status(l) = "RUNNING" /\ Analysed(l) /\ Status(l)' = "SUCCESS"
            /\ (IngestedBatch(l)' <=> IngestedBatch(l)) /\ (Analysed(l)' <=> Analysed(l))
  <2>1. Lifecycle!Succeed(l)
    BY <1>0, <1>1, <1>4, <1>5, <1>7, <1>12, AsLifecycle DEF Lifecycle!Succeed, Lifecycle!Becomes
  <2>. QED  BY <2>1 DEF Lifecycle!Next
<1>. QED  BY <1>8, <1>9, <1>10, <1>11, <1>12 DEF LifecycleStep

LEMMA LifecycleBegins == Init => Lifecycle!Init
<1>. SUFFICES ASSUME Init PROVE Lifecycle!Init
  OBVIOUS
<1>1. ASSUME NEW l \in Runs
      PROVE  /\ db[l].run.status = "ABSENT"
             /\ (db[l].batch.status = "COMPLETED") = FALSE
             /\ Succeeded(l, "analytics_build") = FALSE
  <2>1. db[l].run.status = "ABSENT" /\ db[l].batch.status = "ABSENT"
    BY DEF Init
  <2>2. ASSUME Succeeded(l, "analytics_build")
        PROVE  FALSE
    <3>1. PICK e \in 1..MaxCalls, k \in 1..StageAttempts :
              db[l].stages[e][<<Analyse, k>>] = "SUCCESS"
      BY <2>2 DEF Succeeded, Analyse
    <3>2. IInv
      BY IInvInit
    <3>3. Ingested(l)
      BY <3>1, <3>2 DEF IInv, StoredInv
    <3>. QED  BY <2>1, <3>3 DEF Ingested
  <2>3. Succeeded(l, "analytics_build") = FALSE
    BY <2>2 DEF Succeeded
  <2>. QED  BY <2>1, <2>3
<1>2. [l \in Runs |-> db[l].run.status] = [l \in Runs |-> "ABSENT"]
  BY <1>1
<1>3. [l \in Runs |-> db[l].batch.status = "COMPLETED"] = [l \in Runs |-> FALSE]
  BY <1>1
<1>4. [l \in Runs |-> Succeeded(l, "analytics_build")] = [l \in Runs |-> FALSE]
  BY <1>1, Zenon
<1>. QED  BY <1>2, <1>3, <1>4 DEF Lifecycle!Init

LEMMA LifecycleGoesOn ==
    ASSUME SerialInv, [Next]_vars
    PROVE  [Lifecycle!Next]_Lifecycle!lifecycleVars
<1>1. CASE UNCHANGED vars
  <2>1. db' = db
    BY <1>1 DEF vars
  <2>. QED  BY <2>1 DEF Succeeded, Lifecycle!lifecycleVars
<1>2. CASE Next
  <2>1. PICK s \in Sessions : SessionNext(s)
    BY <1>2, NextIsSessionNext
  <2>2. IInv /\ TypeOK /\ \A m \in Runs : m # Run(s) => db'[m] = db[m]
    BY <2>1, OtherRunsStay DEF SerialInv, IInv
  <2>3. ASSUME NEW m \in Runs, m # Run(s)
        PROVE  Status(m)' = Status(m) /\ IngestedBatch(m)' = IngestedBatch(m) /\ Analysed(m)' = Analysed(m)
    <3>1. db'[m] = db[m]
      BY <2>2, <2>3
    <3>. QED  BY <3>1 DEF Status, IngestedBatch, Analysed, Succeeded
  <2>4. CASE Run(s) \notin Runs
    <3>1. \A m \in Runs : Status(m)' = Status(m) /\ IngestedBatch(m)' = IngestedBatch(m) /\ Analysed(m)' = Analysed(m)
      BY <2>3, <2>4
    <3>2. statuses' = statuses
      BY <3>1 DEF statuses
    <3>3. ingestedRuns' = ingestedRuns
      BY <3>1, Zenon DEF ingestedRuns
    <3>4. analysedRuns' = analysedRuns
      BY <3>1, Zenon DEF analysedRuns
    <3>. QED  BY <3>2, <3>3, <3>4, AsLifecycle DEF Lifecycle!lifecycleVars
  <2>5. CASE Run(s) \in Runs
    <3>1. PICK l \in Runs : l = Run(s)
      BY <2>5
    <3>2. LifecycleStep(l)
      BY <2>1, EveryStepMovesOn
    <3>3. \A m \in Runs : m # l => /\ Status(m)' = Status(m) /\ IngestedBatch(m)' = IngestedBatch(m)
                                   /\ Analysed(m)' = Analysed(m)
      BY <2>3, <3>1
    <3>. QED  BY <3>2, <3>3, OneRunMoves
  <2>. QED  BY <2>4, <2>5
<1>. QED  BY <1>1, <1>2

\* A logical run that is not run twice at once follows the lifecycle: it is
\* stored as RUNNING by the stages' commits, is analysed after it is ingested,
\* ends FAILED or SUCCESS, and SUCCESS is final.
THEOREM RunsFollowTheLifecycle ==
    ASSUME OneAtATime = TRUE
    PROVE  Spec => RunsFollowLifecycle
<1>1. SerialInv /\ [Next]_vars => [Lifecycle!Next]_Lifecycle!lifecycleVars
  BY LifecycleGoesOn
<1>. QED  BY <1>1, LifecycleBegins, SerialInductive, PTL DEF Spec, RunsFollowLifecycle, Lifecycle!Spec

\* Such a run, once stored as SUCCESS, keeps its row and its batch row, the
\* counts and the flag of its ingestion included: complete_pipeline_run and
\* fail_pipeline_run have no guard against it, the caller is the guard.
THEOREM SuccessIsFinalAlone ==
    ASSUME OneAtATime = TRUE
    PROVE  Spec => SuccessIsFinal
<1>1. ASSUME SerialInv, [Next]_vars
      PROVE  [\A l \in Runs : db[l].run.status = "SUCCESS" =>
                 db'[l].run = db[l].run /\ db'[l].batch = db[l].batch]_vars
  <2>. SUFFICES ASSUME Next, NEW l \in Runs, db[l].run.status = "SUCCESS"
                PROVE  db'[l] = db[l]
    BY <1>1
  <2>1. PICK s \in Sessions : SessionNext(s)
    BY NextIsSessionNext
  <2>2. IInv /\ ControlInv(s) /\ SerialRunInv(s)
    BY <1>1 DEF SerialInv, IInv
  <2>3. CASE l = Run(s)
    <3>1. at[s].pc \in Entering \cup {"out"}
      BY <2>2, <2>3 DEF SerialRunInv
    <3>. QED  BY <2>1, <3>1, StoreStep DEF Entering, Commits, FailsBatch
  <2>. QED  BY <2>1, <2>2, <2>3, OtherRunsStay
<1>. QED  BY <1>1, SerialInductive, PTL DEF Spec, SuccessIsFinal
=============================================================================
