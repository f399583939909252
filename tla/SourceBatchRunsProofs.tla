----------------------- MODULE SourceBatchRunsProofs -----------------------
(***************************************************************************)
(* Proofs about SourceBatchRuns, for every number of sources, previews and *)
(* batches and every value of the limits.                                  *)
(***************************************************************************)
EXTENDS SourceBatchRuns, FiniteSetTheorems, TLAPS

-----------------------------------------------------------------------------
(* The inductive invariant, part by part.                                  *)

(* The locals of a worker agree with where it stands.                      *)
WorkerInv ==
  \A b \in BatchId, s \in Source :
    /\ worker[b][s] \notin InSlot => attempt[b][s] = 0 /\ runs[b][s] = 0
    /\ worker[b][s] \in InSlot => attempt[b][s] >= 1 /\ runs[b][s] <= attempt[b][s]
    /\ worker[b][s] \in {"begin", "check", "unavailable", "ingest"} =>
         runs[b][s] < attempt[b][s]
    /\ worker[b][s] = "succeeded" => runs[b][s] >= 1
    /\ worker[b][s] = "sleep" => attempt[b][s] < MaxAttempts

(* The result a source shows agrees with where its worker stands.          *)
ResultInv ==
  \A b \in BatchId, s \in Source :
    /\ results[b][s].status = "none" => worker[b][s] \in {"none", "done"}
    /\ results[b][s].status = "none" <=> s \notin eligible[b]
    /\ results[b][s].status = "pending" => worker[b][s] \in {"none", "queued", "begin"}
    /\ results[b][s].status = "running" => worker[b][s] \in InSlot
    /\ results[b][s].status \in Settled => worker[b][s] \in {"none", "done"}
    /\ worker[b][s] = "done" => results[b][s].status \in Settled \/ batch[b] = "gone"
    /\ worker[b][s] = "none" /\ batch[b] \in Active =>
         results[b][s].status \in {"none", "pending"}

(* The status of a batch agrees with where its executor stands, and        *)
(* workers exist only while the executor is in the pool.                   *)
ExecInv ==
  \A b \in BatchId :
    /\ exec[b] = "none" => batch[b] \in {"unborn", "completed", "gone"}
    /\ exec[b] \in {"scheduled", "fetched"} => batch[b] = "starting"
    /\ exec[b] \in {"submitting", "waiting", "raised"} => batch[b] = "running"
    /\ exec[b] = "ended" => batch[b] \in Terminal \cup {"gone"}
    /\ \A s \in Source :
         /\ exec[b] \in {"none", "scheduled", "fetched", "submitting"} =>
              worker[b][s] = "none"
         /\ worker[b][s] \in {"queued"} \cup InSlot => exec[b] \in {"waiting", "raised"}
         /\ exec[b] = "waiting" /\ s \in eligible[b] => worker[b][s] # "none"

(* Only a batch that ended has an expiry; one that is not in the registry  *)
(* holds nothing.                                                          *)
LifeInv ==
  \A b \in BatchId :
    /\ batch[b] \in Active => batchLeft[b] = Never
    /\ batch[b] \in {"unborn", "gone"} => eligible[b] = {}

(* The start handler between its steps.                                    *)
LoopInv ==
  /\ loopAt \in {"check_active", "consume"} => loopPreview \in PreviewId
  /\ loopAt \in {"consume", "add_batch"} => ~HasActiveBatch

IInv == /\ TypeOK
        /\ WorkerInv
        /\ ResultInv
        /\ ExecInv
        /\ LifeInv
        /\ LoopInv
        /\ OneActiveBatch
        /\ FinalStatusIsRight
        /\ AttemptsAccounted

USE DEF Row, Runnable, PreviewStatus, Active, Terminal, Stored, BatchStatus,
        Never, ResultStatus, Settled, LoopAt, ExecAt, InSlot, WorkerAt,
        NoResult, Pending, HasActiveBatch, registryVars, loopVars, threadVars

-----------------------------------------------------------------------------
(* The invariant holds at the start.                                       *)
LEMMA InitIInv == Init => IInv
  BY BatchAssumption DEF Init, IInv, TypeOK, WorkerInv, ResultInv, ExecInv,
     LifeInv, LoopInv, OneActiveBatch, FinalStatusIsRight, AttemptsAccounted

(* A step of the handler on the event loop.                                *)
LEMMA LoopStepKeeps ==
  ASSUME IInv, LoopStep
  PROVE  IInv'
<1> USE IInv DEF IInv
<1>1. ASSUME NEW p \in PreviewId, AddPreview(p)
      PROVE  IInv'
  <2> USE <1>1
  <2>1. TypeOK'
    BY BatchAssumption DEF TypeOK, WorkerInv, LoopInv, AddPreview
  <2>2. LoopInv'
    BY BatchAssumption DEF TypeOK, LoopInv, ExecInv, LifeInv, AddPreview
  <2>3. (WorkerInv /\ ResultInv /\ ExecInv /\ LifeInv /\ OneActiveBatch /\
    FinalStatusIsRight /\ AttemptsAccounted)'
    BY DEF WorkerInv, ResultInv, ExecInv, LifeInv, OneActiveBatch,
      FinalStatusIsRight, AttemptsAccounted, AddPreview
  <2> QED BY <2>1, <2>2, <2>3
<1>2. ASSUME CheckActive
      PROVE  IInv'
  <2> USE <1>2
  <2>1. TypeOK'
    BY BatchAssumption DEF TypeOK, WorkerInv, LoopInv, CheckActive
  <2>2. LoopInv'
    BY BatchAssumption DEF TypeOK, LoopInv, ExecInv, LifeInv, CheckActive
  <2>3. (WorkerInv /\ ResultInv /\ ExecInv /\ LifeInv /\ OneActiveBatch /\
    FinalStatusIsRight /\ AttemptsAccounted)'
    BY DEF WorkerInv, ResultInv, ExecInv, LifeInv, OneActiveBatch,
      FinalStatusIsRight, AttemptsAccounted, CheckActive
  <2> QED BY <2>1, <2>2, <2>3
<1>3. ASSUME StartNotFound
      PROVE  IInv'
  <2> USE <1>3
  <2>1. TypeOK'
    BY BatchAssumption DEF TypeOK, WorkerInv, LoopInv, StartNotFound
  <2>2. LoopInv'
    BY BatchAssumption DEF TypeOK, LoopInv, ExecInv, LifeInv, StartNotFound
  <2>3. (WorkerInv /\ ResultInv /\ ExecInv /\ LifeInv /\ OneActiveBatch /\
    FinalStatusIsRight /\ AttemptsAccounted)'
    BY DEF WorkerInv, ResultInv, ExecInv, LifeInv, OneActiveBatch,
      FinalStatusIsRight, AttemptsAccounted, StartNotFound
  <2> QED BY <2>1, <2>2, <2>3
<1>4. ASSUME StartExpired
      PROVE  IInv'
  <2> USE <1>4
  <2>1. TypeOK'
    BY BatchAssumption DEF TypeOK, WorkerInv, LoopInv, StartExpired,
      DropPreviews
  <2>2. LoopInv'
    BY BatchAssumption DEF TypeOK, LoopInv, ExecInv, LifeInv, StartExpired,
      DropPreviews
  <2>3. (WorkerInv /\ ResultInv /\ ExecInv /\ LifeInv /\ OneActiveBatch /\
    FinalStatusIsRight /\ AttemptsAccounted)'
    BY DEF WorkerInv, ResultInv, ExecInv, LifeInv, OneActiveBatch,
      FinalStatusIsRight, AttemptsAccounted, StartExpired, DropPreviews
  <2> QED BY <2>1, <2>2, <2>3
<1>5. ASSUME ConsumePreview
      PROVE  IInv'
  <2> USE <1>5
  <2>1. TypeOK'
    BY BatchAssumption DEF TypeOK, WorkerInv, LoopInv, ConsumePreview,
      DropPreviews
  <2>2. LoopInv'
    BY BatchAssumption DEF TypeOK, LoopInv, ExecInv, LifeInv, ConsumePreview,
      DropPreviews
  <2>3. (WorkerInv /\ ResultInv /\ ExecInv /\ LifeInv /\ OneActiveBatch /\
    FinalStatusIsRight /\ AttemptsAccounted)'
    BY DEF WorkerInv, ResultInv, ExecInv, LifeInv, OneActiveBatch,
      FinalStatusIsRight, AttemptsAccounted, ConsumePreview, DropPreviews
  <2> QED BY <2>1, <2>2, <2>3
<1>6. ASSUME NEW b \in BatchId, AddBatch(b)
      PROVE  IInv'
  <2> USE <1>6
  <2>1. TypeOK'
    BY BatchAssumption DEF TypeOK, WorkerInv, LoopInv, AddBatch
  <2>2. ResultInv'
    BY BatchAssumption DEF TypeOK, ResultInv, ExecInv, WorkerInv, LifeInv,
      AddBatch
  <2>3. ExecInv'
    BY BatchAssumption DEF TypeOK, ExecInv, LifeInv, ResultInv, AddBatch
  <2>4. LifeInv'
    BY BatchAssumption DEF TypeOK, LifeInv, ExecInv, AddBatch
  <2>5. LoopInv'
    BY BatchAssumption DEF TypeOK, LoopInv, ExecInv, LifeInv, AddBatch
  <2>6. OneActiveBatch'
    BY BatchAssumption DEF TypeOK, OneActiveBatch, ExecInv, LoopInv, AddBatch
  <2>7. FinalStatusIsRight'
    BY BatchAssumption DEF TypeOK, FinalStatusIsRight, ResultInv, ExecInv,
      AddBatch
  <2>8. AttemptsAccounted'
    BY BatchAssumption DEF TypeOK, AttemptsAccounted, WorkerInv, ResultInv,
      AddBatch
  <2>9. (WorkerInv)'
    BY DEF WorkerInv, AddBatch
  <2> QED BY <2>1, <2>2, <2>3, <2>4, <2>5, <2>6, <2>7, <2>8, <2>9
<1> QED
  BY <1>1, <1>2, <1>3, <1>4, <1>5, <1>6 DEF LoopStep

(* A request that arrives.                                                 *)
LEMMA RequestKeeps ==
  ASSUME IInv, Request
  PROVE  IInv'
<1> USE IInv DEF IInv
<1>1. ASSUME NEW selection \in SUBSET Source, RequestPreview(selection)
      PROVE  IInv'
  <2> USE <1>1
  <2>1. TypeOK'
    BY BatchAssumption DEF TypeOK, WorkerInv, LoopInv, RequestPreview,
      EligibleOf, Cleanup, DropPreviews, DropBatches
  <2>2. ResultInv'
    BY BatchAssumption DEF TypeOK, ResultInv, ExecInv, WorkerInv, LifeInv,
      RequestPreview, EligibleOf, Cleanup, DropPreviews, DropBatches
  <2>3. ExecInv'
    BY BatchAssumption DEF TypeOK, ExecInv, LifeInv, ResultInv,
      RequestPreview, EligibleOf, Cleanup, DropPreviews, DropBatches
  <2>4. LifeInv'
    BY BatchAssumption DEF TypeOK, LifeInv, ExecInv, RequestPreview,
      EligibleOf, Cleanup, DropPreviews, DropBatches
  <2>5. LoopInv'
    BY BatchAssumption DEF TypeOK, LoopInv, ExecInv, LifeInv, RequestPreview,
      EligibleOf, Cleanup, DropPreviews, DropBatches
  <2>6. OneActiveBatch'
    BY BatchAssumption DEF TypeOK, OneActiveBatch, ExecInv, LoopInv,
      RequestPreview, EligibleOf, Cleanup, DropPreviews, DropBatches
  <2>7. FinalStatusIsRight'
    BY BatchAssumption DEF TypeOK, FinalStatusIsRight, ResultInv, ExecInv,
      RequestPreview, EligibleOf, Cleanup, DropPreviews, DropBatches
  <2>8. AttemptsAccounted'
    BY BatchAssumption DEF TypeOK, AttemptsAccounted, WorkerInv, ResultInv,
      RequestPreview, EligibleOf, Cleanup, DropPreviews, DropBatches
  <2>9. (WorkerInv)'
    BY DEF WorkerInv, RequestPreview, EligibleOf, Cleanup, DropPreviews,
      DropBatches
  <2> QED BY <2>1, <2>2, <2>3, <2>4, <2>5, <2>6, <2>7, <2>8, <2>9
<1>2. ASSUME NEW p \in PreviewId, RequestStart(p)
      PROVE  IInv'
  <2> USE <1>2
  <2>1. TypeOK'
    BY BatchAssumption DEF TypeOK, WorkerInv, LoopInv, RequestStart, Cleanup,
      DropPreviews, DropBatches
  <2>2. ResultInv'
    BY BatchAssumption DEF TypeOK, ResultInv, ExecInv, WorkerInv, LifeInv,
      RequestStart, Cleanup, DropPreviews, DropBatches
  <2>3. ExecInv'
    BY BatchAssumption DEF TypeOK, ExecInv, LifeInv, ResultInv, RequestStart,
      Cleanup, DropPreviews, DropBatches
  <2>4. LifeInv'
    BY BatchAssumption DEF TypeOK, LifeInv, ExecInv, RequestStart, Cleanup,
      DropPreviews, DropBatches
  <2>5. LoopInv'
    BY BatchAssumption DEF TypeOK, LoopInv, ExecInv, LifeInv, RequestStart,
      Cleanup, DropPreviews, DropBatches
  <2>6. OneActiveBatch'
    BY BatchAssumption DEF TypeOK, OneActiveBatch, ExecInv, LoopInv,
      RequestStart, Cleanup, DropPreviews, DropBatches
  <2>7. FinalStatusIsRight'
    BY BatchAssumption DEF TypeOK, FinalStatusIsRight, ResultInv, ExecInv,
      RequestStart, Cleanup, DropPreviews, DropBatches
  <2>8. AttemptsAccounted'
    BY BatchAssumption DEF TypeOK, AttemptsAccounted, WorkerInv, ResultInv,
      RequestStart, Cleanup, DropPreviews, DropBatches
  <2>9. (WorkerInv)'
    BY DEF WorkerInv, RequestStart, Cleanup, DropPreviews, DropBatches
  <2> QED BY <2>1, <2>2, <2>3, <2>4, <2>5, <2>6, <2>7, <2>8, <2>9
<1>3. ASSUME PollStatus
      PROVE  IInv'
  <2> USE <1>3
  <2>1. TypeOK'
    BY BatchAssumption DEF TypeOK, WorkerInv, LoopInv, PollStatus, Cleanup,
      DropPreviews, DropBatches
  <2>2. ResultInv'
    BY BatchAssumption DEF TypeOK, ResultInv, ExecInv, WorkerInv, LifeInv,
      PollStatus, Cleanup, DropPreviews, DropBatches
  <2>3. ExecInv'
    BY BatchAssumption DEF TypeOK, ExecInv, LifeInv, ResultInv, PollStatus,
      Cleanup, DropPreviews, DropBatches
  <2>4. LifeInv'
    BY BatchAssumption DEF TypeOK, LifeInv, ExecInv, PollStatus, Cleanup,
      DropPreviews, DropBatches
  <2>5. LoopInv'
    BY BatchAssumption DEF TypeOK, LoopInv, ExecInv, LifeInv, PollStatus,
      Cleanup, DropPreviews, DropBatches
  <2>6. OneActiveBatch'
    BY BatchAssumption DEF TypeOK, OneActiveBatch, ExecInv, LoopInv,
      PollStatus, Cleanup, DropPreviews, DropBatches
  <2>7. FinalStatusIsRight'
    BY BatchAssumption DEF TypeOK, FinalStatusIsRight, ResultInv, ExecInv,
      PollStatus, Cleanup, DropPreviews, DropBatches
  <2>8. AttemptsAccounted'
    BY BatchAssumption DEF TypeOK, AttemptsAccounted, WorkerInv, ResultInv,
      PollStatus, Cleanup, DropPreviews, DropBatches
  <2>9. (WorkerInv)'
    BY DEF WorkerInv, PollStatus, Cleanup, DropPreviews, DropBatches
  <2> QED BY <2>1, <2>2, <2>3, <2>4, <2>5, <2>6, <2>7, <2>8, <2>9
<1> QED
  BY <1>1, <1>2, <1>3 DEF Request

(* A step of the executor of a batch.                                      *)
LEMMA ExecStepKeeps ==
  ASSUME IInv, NEW b \in BatchId, ExecStep(b)
  PROVE  IInv'
<1> USE IInv DEF IInv
<1>1. ASSUME FetchBatch(b)
      PROVE  IInv'
  <2> USE <1>1
  <2>1. TypeOK'
    BY BatchAssumption DEF TypeOK, WorkerInv, LoopInv, FetchBatch
  <2>2. ExecInv'
    BY BatchAssumption DEF TypeOK, ExecInv, LifeInv, ResultInv, FetchBatch
  <2>3. (WorkerInv /\ ResultInv /\ LifeInv /\ LoopInv /\ OneActiveBatch /\
    FinalStatusIsRight /\ AttemptsAccounted)'
    BY DEF WorkerInv, ResultInv, LifeInv, LoopInv, OneActiveBatch,
      FinalStatusIsRight, AttemptsAccounted, FetchBatch
  <2> QED BY <2>1, <2>2, <2>3
<1>2. ASSUME MarkRunning(b)
      PROVE  IInv'
  <2> USE <1>2
  <2>1. TypeOK'
    BY BatchAssumption DEF TypeOK, WorkerInv, LoopInv, MarkRunning
  <2>2. ResultInv'
    BY BatchAssumption DEF TypeOK, ResultInv, ExecInv, WorkerInv, LifeInv,
      MarkRunning
  <2>3. ExecInv'
    BY BatchAssumption DEF TypeOK, ExecInv, LifeInv, ResultInv, MarkRunning
  <2>4. LifeInv'
    BY BatchAssumption DEF TypeOK, LifeInv, ExecInv, MarkRunning
  <2>5. LoopInv'
    BY BatchAssumption DEF TypeOK, LoopInv, ExecInv, LifeInv, MarkRunning
  <2>6. OneActiveBatch'
    BY BatchAssumption DEF TypeOK, OneActiveBatch, ExecInv, LoopInv,
      MarkRunning
  <2>7. FinalStatusIsRight'
    BY BatchAssumption DEF TypeOK, FinalStatusIsRight, ResultInv, ExecInv,
      MarkRunning
  <2>8. (WorkerInv /\ AttemptsAccounted)'
    BY DEF WorkerInv, AttemptsAccounted, MarkRunning
  <2> QED BY <2>1, <2>2, <2>3, <2>4, <2>5, <2>6, <2>7, <2>8
<1>3. ASSUME SubmitAll(b)
      PROVE  IInv'
  <2> USE <1>3
  <2>1. TypeOK'
    BY BatchAssumption DEF TypeOK, WorkerInv, LoopInv, SubmitAll, Enqueue
  <2>2. WorkerInv'
    BY BatchAssumption DEF TypeOK, WorkerInv, ExecInv, SubmitAll, Enqueue
  <2>3. ResultInv'
    BY BatchAssumption DEF TypeOK, ResultInv, ExecInv, WorkerInv, LifeInv,
      SubmitAll, Enqueue
  <2>4. ExecInv'
    BY BatchAssumption DEF TypeOK, ExecInv, LifeInv, ResultInv, SubmitAll,
      Enqueue
  <2>5. (LifeInv /\ LoopInv /\ OneActiveBatch /\ FinalStatusIsRight /\
    AttemptsAccounted)'
    BY DEF LifeInv, LoopInv, OneActiveBatch, FinalStatusIsRight,
      AttemptsAccounted, SubmitAll, Enqueue
  <2> QED BY <2>1, <2>2, <2>3, <2>4, <2>5
<1>4. ASSUME SubmitRaises(b)
      PROVE  IInv'
  <2> USE <1>4
  <2>1. TypeOK'
    BY BatchAssumption DEF TypeOK, WorkerInv, LoopInv, SubmitRaises, Enqueue
  <2>2. WorkerInv'
    BY BatchAssumption DEF TypeOK, WorkerInv, ExecInv, SubmitRaises, Enqueue
  <2>3. ResultInv'
    BY BatchAssumption DEF TypeOK, ResultInv, ExecInv, WorkerInv, LifeInv,
      SubmitRaises, Enqueue
  <2>4. ExecInv'
    BY BatchAssumption DEF TypeOK, ExecInv, LifeInv, ResultInv, SubmitRaises,
      Enqueue
  <2>5. (LifeInv /\ LoopInv /\ OneActiveBatch /\ FinalStatusIsRight /\
    AttemptsAccounted)'
    BY DEF LifeInv, LoopInv, OneActiveBatch, FinalStatusIsRight,
      AttemptsAccounted, SubmitRaises, Enqueue
  <2> QED BY <2>1, <2>2, <2>3, <2>4, <2>5
<1>5. ASSUME MarkCompleted(b)
      PROVE  IInv'
  <2> USE <1>5
  <2>1. TypeOK'
    BY BatchAssumption DEF TypeOK, WorkerInv, LoopInv, MarkCompleted,
      Conclude, PoolDrained
  <2>2. ResultInv'
    BY BatchAssumption DEF TypeOK, ResultInv, ExecInv, WorkerInv, LifeInv,
      MarkCompleted, Conclude, PoolDrained
  <2>3. ExecInv'
    BY BatchAssumption DEF TypeOK, ExecInv, LifeInv, ResultInv,
      MarkCompleted, Conclude, PoolDrained
  <2>4. LifeInv'
    BY BatchAssumption DEF TypeOK, LifeInv, ExecInv, MarkCompleted, Conclude,
      PoolDrained
  <2>5. LoopInv'
    BY BatchAssumption DEF TypeOK, LoopInv, ExecInv, LifeInv, MarkCompleted,
      Conclude, PoolDrained
  <2>6. OneActiveBatch'
    BY BatchAssumption DEF TypeOK, OneActiveBatch, ExecInv, LoopInv,
      MarkCompleted, Conclude, PoolDrained
  <2>7. FinalStatusIsRight'
    BY BatchAssumption DEF TypeOK, FinalStatusIsRight, ResultInv, ExecInv,
      MarkCompleted, Conclude, PoolDrained
  <2>8. (WorkerInv /\ AttemptsAccounted)'
    BY DEF WorkerInv, AttemptsAccounted, MarkCompleted, Conclude, PoolDrained
  <2> QED BY <2>1, <2>2, <2>3, <2>4, <2>5, <2>6, <2>7, <2>8
<1>6. ASSUME MarkFailed(b)
      PROVE  IInv'
  <2> USE <1>6
  <2>1. TypeOK'
    BY BatchAssumption DEF TypeOK, WorkerInv, LoopInv, MarkFailed, Conclude,
      PoolDrained
  <2>2. ResultInv'
    BY BatchAssumption DEF TypeOK, ResultInv, ExecInv, WorkerInv, LifeInv,
      MarkFailed, Conclude, PoolDrained
  <2>3. ExecInv'
    BY BatchAssumption DEF TypeOK, ExecInv, LifeInv, ResultInv, MarkFailed,
      Conclude, PoolDrained
  <2>4. LifeInv'
    BY BatchAssumption DEF TypeOK, LifeInv, ExecInv, MarkFailed, Conclude,
      PoolDrained
  <2>5. LoopInv'
    BY BatchAssumption DEF TypeOK, LoopInv, ExecInv, LifeInv, MarkFailed,
      Conclude, PoolDrained
  <2>6. OneActiveBatch'
    BY BatchAssumption DEF TypeOK, OneActiveBatch, ExecInv, LoopInv,
      MarkFailed, Conclude, PoolDrained
  <2>7. FinalStatusIsRight'
    <3>1. \A s \in Source : results[b][s].status # "running"
      BY DEF ResultInv, MarkFailed, PoolDrained
    <3>2. /\ results' = results /\ eligible' = eligible
          /\ batch'[b] = "failed"
          /\ \A c \in BatchId : c # b => batch'[c] = batch[c]
      BY DEF TypeOK, MarkFailed, Conclude
    <3> QED BY <3>1, <3>2 DEF FinalStatusIsRight
  <2>8. (WorkerInv /\ AttemptsAccounted)'
    BY DEF WorkerInv, AttemptsAccounted, MarkFailed, Conclude, PoolDrained
  <2> QED BY <2>1, <2>2, <2>3, <2>4, <2>5, <2>6, <2>7, <2>8
<1> QED
  BY <1>1, <1>2, <1>3, <1>4, <1>5, <1>6 DEF ExecStep

(* A step of the worker of one source.                                     *)
LEMMA WorkerStepKeeps ==
  ASSUME IInv, NEW b \in BatchId, NEW s \in Source,
         WorkerStep(b, s)
  PROVE  IInv'
<1> USE IInv DEF IInv
<1>1. ASSUME TakeSource(b, s)
      PROVE  IInv'
  <2> USE <1>1
  <2>1. TypeOK'
    BY BatchAssumption DEF TypeOK, WorkerInv, LoopInv, TakeSource, Step
  <2>2. WorkerInv'
    BY BatchAssumption DEF TypeOK, WorkerInv, ExecInv, TakeSource, Step
  <2>3. ResultInv'
    BY BatchAssumption DEF TypeOK, ResultInv, ExecInv, WorkerInv, LifeInv,
      TakeSource, Step
  <2>4. ExecInv'
    BY BatchAssumption DEF TypeOK, ExecInv, LifeInv, ResultInv, TakeSource,
      Step
  <2>5. (LifeInv /\ LoopInv /\ OneActiveBatch /\ FinalStatusIsRight /\
    AttemptsAccounted)'
    BY DEF LifeInv, LoopInv, OneActiveBatch, FinalStatusIsRight,
      AttemptsAccounted, TakeSource, Step
  <2> QED BY <2>1, <2>2, <2>3, <2>4, <2>5
<1>2. ASSUME BeginAttempt(b, s)
      PROVE  IInv'
  <2> USE <1>2
  <2>1. TypeOK'
    BY BatchAssumption DEF TypeOK, WorkerInv, LoopInv, BeginAttempt, Step,
      UpdateResult
  <2>2. WorkerInv'
    BY BatchAssumption DEF TypeOK, WorkerInv, ExecInv, BeginAttempt, Step,
      UpdateResult
  <2>3. ResultInv'
    BY BatchAssumption DEF TypeOK, ResultInv, ExecInv, WorkerInv, LifeInv,
      BeginAttempt, Step, UpdateResult
  <2>4. ExecInv'
    BY BatchAssumption DEF TypeOK, ExecInv, LifeInv, ResultInv, BeginAttempt,
      Step, UpdateResult
  <2>5. FinalStatusIsRight'
    <3>1. batch[b] = "running"
      BY BatchAssumption DEF TypeOK, ExecInv, BeginAttempt, Step, UpdateResult
    <3>2. /\ batch' = batch /\ eligible' = eligible
          /\ \A c \in BatchId : c # b => results'[c] = results[c]
      BY BatchAssumption DEF TypeOK, BeginAttempt, Step, UpdateResult
    <3> QED BY <3>1, <3>2 DEF FinalStatusIsRight
  <2>6. AttemptsAccounted'
    BY BatchAssumption DEF TypeOK, AttemptsAccounted, WorkerInv, ResultInv,
      BeginAttempt, Step, UpdateResult
  <2>7. (LifeInv /\ LoopInv /\ OneActiveBatch)'
    BY DEF LifeInv, LoopInv, OneActiveBatch, BeginAttempt, Step, UpdateResult
  <2> QED BY <2>1, <2>2, <2>3, <2>4, <2>5, <2>6, <2>7
<1>3. ASSUME CheckSource(b, s)
      PROVE  IInv'
  <2> USE <1>3
  <2>1. TypeOK'
    BY BatchAssumption DEF TypeOK, WorkerInv, LoopInv, CheckSource, Step
  <2>2. WorkerInv'
    BY BatchAssumption DEF TypeOK, WorkerInv, ExecInv, CheckSource, Step
  <2>3. ResultInv'
    BY BatchAssumption DEF TypeOK, ResultInv, ExecInv, WorkerInv, LifeInv,
      CheckSource, Step
  <2>4. ExecInv'
    BY BatchAssumption DEF TypeOK, ExecInv, LifeInv, ResultInv, CheckSource,
      Step
  <2>5. (LifeInv /\ LoopInv /\ OneActiveBatch /\ FinalStatusIsRight /\
    AttemptsAccounted)'
    BY DEF LifeInv, LoopInv, OneActiveBatch, FinalStatusIsRight,
      AttemptsAccounted, CheckSource, Step
  <2> QED BY <2>1, <2>2, <2>3, <2>4, <2>5
<1>4. ASSUME ReportUnavailable(b, s)
      PROVE  IInv'
  <2> USE <1>4
  <2>1. TypeOK'
    BY BatchAssumption DEF TypeOK, WorkerInv, LoopInv, ReportUnavailable,
      Step, Return, UpdateResult
  <2>2. WorkerInv'
    BY BatchAssumption DEF TypeOK, WorkerInv, ExecInv, ReportUnavailable,
      Step, Return, UpdateResult
  <2>3. ResultInv'
    BY BatchAssumption DEF TypeOK, ResultInv, ExecInv, WorkerInv, LifeInv,
      ReportUnavailable, Step, Return, UpdateResult
  <2>4. ExecInv'
    BY BatchAssumption DEF TypeOK, ExecInv, LifeInv, ResultInv,
      ReportUnavailable, Step, Return, UpdateResult
  <2>5. FinalStatusIsRight'
    <3>1. batch[b] = "running"
      BY BatchAssumption DEF TypeOK, ExecInv, ReportUnavailable, Step, Return, UpdateResult
    <3>2. /\ batch' = batch /\ eligible' = eligible
          /\ \A c \in BatchId : c # b => results'[c] = results[c]
      BY BatchAssumption DEF TypeOK, ReportUnavailable, Step, Return, UpdateResult
    <3> QED BY <3>1, <3>2 DEF FinalStatusIsRight
  <2>6. AttemptsAccounted'
    BY BatchAssumption DEF TypeOK, AttemptsAccounted, WorkerInv, ResultInv,
      ReportUnavailable, Step, Return, UpdateResult
  <2>7. (LifeInv /\ LoopInv /\ OneActiveBatch)'
    BY DEF LifeInv, LoopInv, OneActiveBatch, ReportUnavailable, Step, Return,
      UpdateResult
  <2> QED BY <2>1, <2>2, <2>3, <2>4, <2>5, <2>6, <2>7
<1>5. ASSUME RunSucceeds(b, s)
      PROVE  IInv'
  <2> USE <1>5
  <2>1. TypeOK'
    BY BatchAssumption DEF TypeOK, WorkerInv, LoopInv, RunSucceeds, Step,
      SetHealth
  <2>2. WorkerInv'
    BY BatchAssumption DEF TypeOK, WorkerInv, ExecInv, RunSucceeds, Step,
      SetHealth
  <2>3. ResultInv'
    BY BatchAssumption DEF TypeOK, ResultInv, ExecInv, WorkerInv, LifeInv,
      RunSucceeds, Step, SetHealth
  <2>4. ExecInv'
    BY BatchAssumption DEF TypeOK, ExecInv, LifeInv, ResultInv, RunSucceeds,
      Step, SetHealth
  <2>5. (LifeInv /\ LoopInv /\ OneActiveBatch /\ FinalStatusIsRight /\
    AttemptsAccounted)'
    BY DEF LifeInv, LoopInv, OneActiveBatch, FinalStatusIsRight,
      AttemptsAccounted, RunSucceeds, Step, SetHealth
  <2> QED BY <2>1, <2>2, <2>3, <2>4, <2>5
<1>6. ASSUME RunFails(b, s)
      PROVE  IInv'
  <2> USE <1>6
  <2>1. TypeOK'
    BY BatchAssumption DEF TypeOK, WorkerInv, LoopInv, RunFails, Step,
      SetHealth, AfterFailure
  <2>2. WorkerInv'
    BY BatchAssumption DEF TypeOK, WorkerInv, ExecInv, RunFails, Step,
      SetHealth, AfterFailure
  <2>3. ResultInv'
    BY BatchAssumption DEF TypeOK, ResultInv, ExecInv, WorkerInv, LifeInv,
      RunFails, Step, SetHealth, AfterFailure
  <2>4. ExecInv'
    BY BatchAssumption DEF TypeOK, ExecInv, LifeInv, ResultInv, RunFails,
      Step, SetHealth, AfterFailure
  <2>5. (LifeInv /\ LoopInv /\ OneActiveBatch /\ FinalStatusIsRight /\
    AttemptsAccounted)'
    BY DEF LifeInv, LoopInv, OneActiveBatch, FinalStatusIsRight,
      AttemptsAccounted, RunFails, Step, SetHealth, AfterFailure
  <2> QED BY <2>1, <2>2, <2>3, <2>4, <2>5
<1>7. ASSUME RunRaises(b, s)
      PROVE  IInv'
  <2> USE <1>7
  <2> PICK at \in {"check", "ingest"} : Step(b, s, at, AfterFailure(b, s))
    BY DEF RunRaises
  <2> /\ AfterFailure(b, s) \in {"sleep", "exhausted"}
      /\ AfterFailure(b, s) = "sleep" => attempt[b][s] < MaxAttempts
    BY DEF AfterFailure
  <2> UNCHANGED <<row, registryVars, loopVars, exec, attempt, runs>>
    BY DEF RunRaises
  <2>1. TypeOK'
    BY BatchAssumption DEF TypeOK, WorkerInv, LoopInv, Step
  <2>2. WorkerInv'
    BY BatchAssumption DEF TypeOK, WorkerInv, ExecInv, Step
  <2>3. ResultInv'
    BY BatchAssumption DEF TypeOK, ResultInv, ExecInv, WorkerInv, LifeInv,
      Step
  <2>4. ExecInv'
    BY BatchAssumption DEF TypeOK, ExecInv, LifeInv, ResultInv, Step
  <2>5. (LifeInv /\ LoopInv /\ OneActiveBatch /\ FinalStatusIsRight /\
    AttemptsAccounted)'
    BY DEF LifeInv, LoopInv, OneActiveBatch, FinalStatusIsRight,
      AttemptsAccounted, Step
  <2> QED BY <2>1, <2>2, <2>3, <2>4, <2>5
<1>8. ASSUME NextAttempt(b, s)
      PROVE  IInv'
  <2> USE <1>8
  <2>1. TypeOK'
    BY BatchAssumption DEF TypeOK, WorkerInv, LoopInv, NextAttempt, Step
  <2>2. WorkerInv'
    BY BatchAssumption DEF TypeOK, WorkerInv, ExecInv, NextAttempt, Step
  <2>3. ResultInv'
    BY BatchAssumption DEF TypeOK, ResultInv, ExecInv, WorkerInv, LifeInv,
      NextAttempt, Step
  <2>4. ExecInv'
    BY BatchAssumption DEF TypeOK, ExecInv, LifeInv, ResultInv, NextAttempt,
      Step
  <2>5. (LifeInv /\ LoopInv /\ OneActiveBatch /\ FinalStatusIsRight /\
    AttemptsAccounted)'
    BY DEF LifeInv, LoopInv, OneActiveBatch, FinalStatusIsRight,
      AttemptsAccounted, NextAttempt, Step
  <2> QED BY <2>1, <2>2, <2>3, <2>4, <2>5
<1>9. ASSUME ReportSuccess(b, s)
      PROVE  IInv'
  <2> USE <1>9
  <2>1. TypeOK'
    BY BatchAssumption DEF TypeOK, WorkerInv, LoopInv, ReportSuccess, Step,
      Return, UpdateResult
  <2>2. WorkerInv'
    BY BatchAssumption DEF TypeOK, WorkerInv, ExecInv, ReportSuccess, Step,
      Return, UpdateResult
  <2>3. ResultInv'
    BY BatchAssumption DEF TypeOK, ResultInv, ExecInv, WorkerInv, LifeInv,
      ReportSuccess, Step, Return, UpdateResult
  <2>4. ExecInv'
    BY BatchAssumption DEF TypeOK, ExecInv, LifeInv, ResultInv,
      ReportSuccess, Step, Return, UpdateResult
  <2>5. FinalStatusIsRight'
    <3>1. batch[b] = "running"
      BY BatchAssumption DEF TypeOK, ExecInv, ReportSuccess, Step, Return, UpdateResult
    <3>2. /\ batch' = batch /\ eligible' = eligible
          /\ \A c \in BatchId : c # b => results'[c] = results[c]
      BY BatchAssumption DEF TypeOK, ReportSuccess, Step, Return, UpdateResult
    <3> QED BY <3>1, <3>2 DEF FinalStatusIsRight
  <2>6. AttemptsAccounted'
    BY BatchAssumption DEF TypeOK, AttemptsAccounted, WorkerInv, ResultInv,
      ReportSuccess, Step, Return, UpdateResult
  <2>7. (LifeInv /\ LoopInv /\ OneActiveBatch)'
    BY DEF LifeInv, LoopInv, OneActiveBatch, ReportSuccess, Step, Return,
      UpdateResult
  <2> QED BY <2>1, <2>2, <2>3, <2>4, <2>5, <2>6, <2>7
<1>10. ASSUME ReportExhausted(b, s)
      PROVE  IInv'
  <2> USE <1>10
  <2>1. TypeOK'
    BY BatchAssumption DEF TypeOK, WorkerInv, LoopInv, ReportExhausted, Step,
      Return, UpdateResult
  <2>2. WorkerInv'
    BY BatchAssumption DEF TypeOK, WorkerInv, ExecInv, ReportExhausted, Step,
      Return, UpdateResult
  <2>3. ResultInv'
    BY BatchAssumption DEF TypeOK, ResultInv, ExecInv, WorkerInv, LifeInv,
      ReportExhausted, Step, Return, UpdateResult
  <2>4. ExecInv'
    BY BatchAssumption DEF TypeOK, ExecInv, LifeInv, ResultInv,
      ReportExhausted, Step, Return, UpdateResult
  <2>5. FinalStatusIsRight'
    <3>1. batch[b] = "running"
      BY BatchAssumption DEF TypeOK, ExecInv, ReportExhausted, Step, Return, UpdateResult
    <3>2. /\ batch' = batch /\ eligible' = eligible
          /\ \A c \in BatchId : c # b => results'[c] = results[c]
      BY BatchAssumption DEF TypeOK, ReportExhausted, Step, Return, UpdateResult
    <3> QED BY <3>1, <3>2 DEF FinalStatusIsRight
  <2>6. AttemptsAccounted'
    BY BatchAssumption DEF TypeOK, AttemptsAccounted, WorkerInv, ResultInv,
      ReportExhausted, Step, Return, UpdateResult
  <2>7. (LifeInv /\ LoopInv /\ OneActiveBatch)'
    BY DEF LifeInv, LoopInv, OneActiveBatch, ReportExhausted, Step, Return,
      UpdateResult
  <2> QED BY <2>1, <2>2, <2>3, <2>4, <2>5, <2>6, <2>7
<1> QED
  BY <1>1, <1>2, <1>3, <1>4, <1>5, <1>6, <1>7, <1>8, <1>9, <1>10 DEF
    WorkerStep

(* The clock, a restart, other users of the sources table.                 *)
LEMMA EnvironmentKeeps ==
  ASSUME IInv, Environment
  PROVE  IInv'
<1> USE IInv DEF IInv
<1>1. ASSUME Tick
      PROVE  IInv'
  <2> USE <1>1
  <2>1. TypeOK'
    BY BatchAssumption DEF TypeOK, WorkerInv, LoopInv, Tick
  <2>2. LifeInv'
    BY BatchAssumption DEF TypeOK, LifeInv, ExecInv, Tick
  <2>3. (WorkerInv /\ ResultInv /\ ExecInv /\ LoopInv /\ OneActiveBatch /\
    FinalStatusIsRight /\ AttemptsAccounted)'
    BY DEF WorkerInv, ResultInv, ExecInv, LoopInv, OneActiveBatch,
      FinalStatusIsRight, AttemptsAccounted, Tick
  <2> QED BY <2>1, <2>2, <2>3
<1>2. ASSUME Restart
      PROVE  IInv'
  <2> USE <1>2
  <2>1. TypeOK'
    BY BatchAssumption DEF TypeOK, WorkerInv, LoopInv, Restart, DropPreviews,
      DropBatches
  <2>2. WorkerInv'
    BY BatchAssumption DEF TypeOK, WorkerInv, ExecInv, Restart, DropPreviews,
      DropBatches
  <2>3. ResultInv'
    BY BatchAssumption DEF TypeOK, ResultInv, ExecInv, WorkerInv, LifeInv,
      Restart, DropPreviews, DropBatches
  <2>4. ExecInv'
    BY BatchAssumption DEF TypeOK, ExecInv, LifeInv, ResultInv, Restart,
      DropPreviews, DropBatches
  <2>5. LifeInv'
    BY BatchAssumption DEF TypeOK, LifeInv, ExecInv, Restart, DropPreviews,
      DropBatches
  <2>6. LoopInv'
    BY BatchAssumption DEF TypeOK, LoopInv, ExecInv, LifeInv, Restart,
      DropPreviews, DropBatches
  <2>7. OneActiveBatch'
    BY BatchAssumption DEF TypeOK, OneActiveBatch, ExecInv, LoopInv, Restart,
      DropPreviews, DropBatches
  <2>8. FinalStatusIsRight'
    BY BatchAssumption DEF TypeOK, FinalStatusIsRight, ResultInv, ExecInv,
      Restart, DropPreviews, DropBatches
  <2>9. AttemptsAccounted'
    BY BatchAssumption DEF TypeOK, AttemptsAccounted, WorkerInv, ResultInv,
      Restart, DropPreviews, DropBatches
  <2> QED BY <2>1, <2>2, <2>3, <2>4, <2>5, <2>6, <2>7, <2>8, <2>9
<1>3. ASSUME NEW s \in Edited, SourceChanges(s)
      PROVE  IInv'
  <2> USE <1>3
  <2>1. TypeOK'
    BY BatchAssumption DEF TypeOK, WorkerInv, LoopInv, SourceChanges
  <2>2. (WorkerInv /\ ResultInv /\ ExecInv /\ LifeInv /\ LoopInv /\
    OneActiveBatch /\ FinalStatusIsRight /\ AttemptsAccounted)'
    BY DEF WorkerInv, ResultInv, ExecInv, LifeInv, LoopInv, OneActiveBatch,
      FinalStatusIsRight, AttemptsAccounted, SourceChanges
  <2> QED BY <2>1, <2>2
<1> QED
  BY <1>1, <1>2, <1>3 DEF Environment

(* The invariant is inductive.                                             *)
LEMMA NextIInv == IInv /\ [Next]_vars => IInv'
<1> SUFFICES ASSUME IInv, [Next]_vars PROVE IInv'
  OBVIOUS
<1>1. CASE LoopStep
  BY <1>1, LoopStepKeeps
<1>2. CASE Request
  BY <1>2, RequestKeeps
<1>3. ASSUME NEW b \in BatchId, ExecStep(b)
      PROVE  IInv'
  BY <1>3, ExecStepKeeps
<1>4. ASSUME NEW b \in BatchId, NEW s \in Source, WorkerStep(b, s)
      PROVE  IInv'
  BY <1>4, WorkerStepKeeps
<1>5. CASE Environment
  BY <1>5, EnvironmentKeeps
<1>6. CASE UNCHANGED vars
  BY <1>6 DEF vars, IInv, TypeOK, WorkerInv, ResultInv, ExecInv, LifeInv,
     LoopInv, OneActiveBatch, FinalStatusIsRight, AttemptsAccounted
<1> QED
  BY <1>1, <1>2, <1>3, <1>4, <1>5, <1>6 DEF Next

(* Every state the subsystem can be in satisfies the invariant.            *)
THEOREM Invariance == Spec => []IInv
  BY InitIInv, NextIInv, PTL DEF Spec

-----------------------------------------------------------------------------
(* Every variable always has its type; in particular attempt, runs and     *)
(* the counts in a result never exceed MaxAttempts (the retry loop).       *)
THEOREM TypeCorrect == Spec => []TypeOK
  BY Invariance, PTL DEF IInv

(* At most one batch is active, though start_batch takes the lock three    *)
(* times.                                                                  *)
THEOREM AtMostOneActive == Spec => []OneActiveBatch
  BY Invariance, PTL DEF IInv

(* No thread ever works for a batch that the registry has dropped or       *)
(* concluded (cleanup and mark_batch_* against executor and workers).      *)
THEOREM BatchOutlivesItsThreads == Spec => []WorkHasItsBatch
<1>1. IInv => WorkHasItsBatch
  BY DEF IInv, TypeOK, ExecInv, WorkHasItsBatch
<1> QED
  BY <1>1, Invariance, PTL

(* The final status of a batch agrees with the results it shows.           *)
THEOREM FinalStatusCorrect == Spec => []FinalStatusIsRight
  BY Invariance, PTL DEF IInv

(* The attempts a result shows agree with the runs that were committed.    *)
THEOREM AttemptsCorrect == Spec => []AttemptsAccounted
  BY Invariance, PTL DEF IInv

(* A confirmation is spent only on a batch that is added next.             *)
LEMMA NextSpends ==
  ASSUME IInv, [Next]_vars, NEW p \in PreviewId,
         preview[p] = "live", preview'[p] # "live"
  PROVE  \/ preview'[p] = "used" /\ loopAt' = "add_batch" /\ ~HasActiveBatch
         \/ preview'[p] = "expired" /\ previewLeft[p] = 0
         \/ preview'[p] = "lost"
<1> USE IInv DEF IInv
<1>1. CASE LoopStep
  <2>1. ASSUME NEW q \in PreviewId, AddPreview(q)
        PROVE  preview'[p] = "live"
    BY <2>1 DEF TypeOK, AddPreview
  <2>2. CASE CheckActive
    BY <2>2 DEF CheckActive
  <2>3. CASE StartNotFound
    BY <2>3 DEF StartNotFound
  <2>4. CASE StartExpired
    BY <2>4 DEF TypeOK, LoopInv, StartExpired, DropPreviews
  <2>5. CASE ConsumePreview
    BY <2>5 DEF TypeOK, LoopInv, ConsumePreview, DropPreviews
  <2>6. ASSUME NEW b \in BatchId, AddBatch(b)
        PROVE  preview' = preview
    BY <2>6 DEF AddBatch
  <2> QED
    BY <1>1, <2>1, <2>2, <2>3, <2>4, <2>5, <2>6 DEF LoopStep
<1>2. CASE Request
  <2>1. Cleanup
    BY <1>2 DEF Request, RequestPreview, RequestStart, PollStatus
  <2> QED
    BY <2>1 DEF TypeOK, Cleanup, DropPreviews
<1>3. ASSUME NEW b \in BatchId, ExecStep(b)
      PROVE  preview' = preview
  BY <1>3 DEF ExecStep, FetchBatch, MarkRunning, SubmitAll, SubmitRaises,
     MarkCompleted, MarkFailed
<1>4. ASSUME NEW b \in BatchId, NEW s \in Source, WorkerStep(b, s)
      PROVE  preview' = preview
  BY <1>4 DEF WorkerStep, TakeSource, BeginAttempt, CheckSource,
     ReportUnavailable, RunSucceeds, RunFails, RunRaises, NextAttempt,
     ReportSuccess, ReportExhausted, Return
<1>5. CASE Environment
  BY <1>5 DEF TypeOK, Environment, Tick, Restart, DropPreviews, SourceChanges
<1>6. CASE UNCHANGED vars
  BY <1>6 DEF vars
<1> QED
  BY <1>1, <1>2, <1>3, <1>4, <1>5, <1>6 DEF Next

(* A refused start leaves the preview to be used later.                    *)
THEOREM ConfirmationNotWasted == Spec => SpentOnABatch
<1>1. IInv /\ [Next]_vars =>
        [\A p \in PreviewId :
           preview[p] = "live" /\ preview'[p] # "live" =>
             \/ preview'[p] = "used" /\ loopAt' = "add_batch" /\ ~HasActiveBatch
             \/ preview'[p] = "expired" /\ previewLeft[p] = 0
             \/ preview'[p] = "lost"]_vars
  BY NextSpends
<1> QED
  BY <1>1, Invariance, PTL DEF Spec, SpentOnABatch

-----------------------------------------------------------------------------
(* The limit of the pool.  Each batch has a pool of its own, so the limit  *)
(* holds for the process because two batches never work at once.           *)
PoolInv == \A b \in BatchId : Cardinality(Busy(b)) <= MaxConcurrency

(* The sources a pool works on are some of the sources.                    *)
LEMMA BusyFinite ==
  ASSUME NEW b \in BatchId
  PROVE  /\ IsFiniteSet(Busy(b))
         /\ Cardinality(Busy(b)) \in Nat
<1>1. Busy(b) \in SUBSET Source
  BY DEF Busy
<1> QED
  BY <1>1, FS_Subset, FS_CardinalityType, BatchAssumption

(* Workers that only leave their threads keep within the limit.            *)
LEMMA FewerBusy ==
  ASSUME PoolInv, \A b \in BatchId : Busy(b)' \subseteq Busy(b)
  PROVE  PoolInv'
<1> SUFFICES ASSUME NEW b \in BatchId
             PROVE  Cardinality(Busy(b)') <= MaxConcurrency
  BY DEF PoolInv
<1>1. Cardinality(Busy(b)') <= Cardinality(Busy(b)) /\ IsFiniteSet(Busy(b)')
  BY BusyFinite, FS_Subset
<1>2. Cardinality(Busy(b)') \in Nat
  BY <1>1, FS_CardinalityType
<1> QED
  BY <1>1, <1>2, BusyFinite, BatchAssumption DEF PoolInv

(* No step makes a pool exceed the limit: TakeSource checks it.            *)
LEMMA NextPoolInv == IInv /\ PoolInv /\ [Next]_vars => PoolInv'
<1> SUFFICES ASSUME IInv, PoolInv, [Next]_vars
             PROVE  PoolInv'
  OBVIOUS
<1> USE IInv DEF IInv
<1>1. ASSUME NEW b \in BatchId, NEW s \in Source, TakeSource(b, s)
      PROVE  PoolInv'
  <2>1. /\ Busy(b)' = Busy(b) \cup {s}
        /\ \A c \in BatchId : c # b => Busy(c)' = Busy(c)
    BY <1>1 DEF TypeOK, TakeSource, Step, Busy
  <2>2. Cardinality(Busy(b)) < MaxConcurrency
    BY <1>1 DEF TakeSource
  <2>3. Cardinality(Busy(b)') <= MaxConcurrency
    <3>1. \/ Cardinality(Busy(b) \cup {s}) = Cardinality(Busy(b))
          \/ Cardinality(Busy(b) \cup {s}) = Cardinality(Busy(b)) + 1
      BY BusyFinite, FS_AddElement
    <3> QED
      BY <3>1, <2>1, <2>2, BusyFinite, BatchAssumption
  <2> QED
    BY <2>1, <2>3 DEF PoolInv
<1>2. ASSUME NEW b \in BatchId, NEW s \in Source, WorkerStep(b, s), ~TakeSource(b, s)
      PROVE  PoolInv'
  <2>1. /\ worker[b][s] \in InSlot
        /\ \A c \in BatchId, t \in Source :
             c # b \/ t # s => worker'[c][t] = worker[c][t]
    BY <1>2 DEF TypeOK, WorkerStep, Step, BeginAttempt, CheckSource,
       ReportUnavailable, RunSucceeds, RunFails, RunRaises, NextAttempt,
       ReportSuccess, ReportExhausted, Return
  <2>2. \A c \in BatchId : Busy(c)' \subseteq Busy(c)
    BY <2>1 DEF Busy
  <2> QED
    BY <2>2, FewerBusy
<1>3. ASSUME NEW b \in BatchId, ExecStep(b)
      PROVE  PoolInv'
  <2>1. \A c \in BatchId, t \in Source :
          worker'[c][t] \in InSlot => worker[c][t] \in InSlot
    <3>1. CASE UNCHANGED worker
      BY <3>1
    <3>2. ASSUME NEW Q \in SUBSET eligible[b], Enqueue(b, Q)
          PROVE  \A c \in BatchId, t \in Source :
                   worker'[c][t] \in InSlot => worker[c][t] \in InSlot
      BY <3>2 DEF TypeOK, Enqueue
    <3>3. SubmitAll(b) => Enqueue(b, eligible[b])
      BY DEF SubmitAll
    <3>4. SubmitRaises(b) => \E Q \in SUBSET eligible[b] : Enqueue(b, Q)
      BY DEF SubmitRaises
    <3>5. eligible[b] \in SUBSET eligible[b]
      OBVIOUS
    <3>6. UNCHANGED worker \/ SubmitAll(b) \/ SubmitRaises(b)
      BY <1>3 DEF ExecStep, FetchBatch, MarkRunning, MarkCompleted, MarkFailed
    <3> QED
      BY <3>1, <3>2, <3>3, <3>4, <3>5, <3>6
  <2> QED
    BY <2>1, FewerBusy DEF Busy
<1>4. CASE UNCHANGED worker
  BY <1>4, FewerBusy DEF Busy
<1>5. CASE Restart
  <2>1. \A c \in BatchId : Busy(c)' = {}
    BY <1>5 DEF Restart, Busy
  <2> QED
    BY <2>1, FewerBusy
<1>6. LoopStep \/ Request \/ Tick \/ (\E s \in Edited : SourceChanges(s)) =>
        UNCHANGED worker
  BY DEF LoopStep, AddPreview, CheckActive, StartNotFound, StartExpired,
     ConsumePreview, AddBatch, Request, RequestPreview, RequestStart,
     PollStatus, Tick, SourceChanges
<1>7. UNCHANGED vars => UNCHANGED worker
  BY DEF vars
<1> QED
  BY <1>1, <1>2, <1>3, <1>4, <1>5, <1>6, <1>7 DEF Next, Environment

(* The process never runs more sources at a time than MAX_CONCURRENCY.     *)
THEOREM PoolLimit == Spec => []PoolWithinLimit
<1>1. Init => PoolInv
  <2> SUFFICES ASSUME Init, NEW b \in BatchId
               PROVE  Cardinality(Busy(b)) <= MaxConcurrency
    BY DEF PoolInv
  <2>1. Busy(b) = {}
    BY DEF Init, Busy
  <2> QED
    BY <2>1, FS_EmptySet, BatchAssumption
<1>2. IInv /\ PoolInv => PoolWithinLimit
  <2> SUFFICES ASSUME IInv, PoolInv
               PROVE  PoolWithinLimit
    OBVIOUS
  <2> DEFINE W == {w \in BatchId \X Source : worker[w[1]][w[2]] \in InSlot}
  <2>1. CASE W = {}
    BY <2>1, FS_EmptySet, BatchAssumption DEF PoolWithinLimit
  <2>2. ASSUME NEW b \in BatchId, Busy(b) # {}
        PROVE  PoolWithinLimit
    <3>1. \A c \in BatchId : Busy(c) # {} => batch[c] = "running"
      BY DEF IInv, ExecInv, Busy
    <3>2. \A c \in BatchId : c # b => Busy(c) = {}
      BY <2>2, <3>1 DEF IInv, OneActiveBatch
    <3>3. W = {b} \X Busy(b)
      BY <3>2 DEF Busy
    <3>4. Cardinality(W) = Cardinality({b}) * Cardinality(Busy(b))
      BY <3>3, BusyFinite, FS_Singleton, FS_Product
    <3>5. Cardinality({b}) = 1
      BY FS_Singleton
    <3> QED
      BY <3>4, <3>5, BusyFinite DEF PoolInv, PoolWithinLimit
  <2>3. W # {} => \E b \in BatchId : Busy(b) # {}
    BY DEF Busy
  <2> QED
    BY <2>1, <2>2, <2>3
<1> QED
  BY <1>1, <1>2, NextPoolInv, Invariance, PTL DEF Spec

-----------------------------------------------------------------------------
(* Confirmations and batches are counted against each other; the batch     *)
(* that start_batch is about to add counts already.                        *)
Born == {b \in BatchId : batch[b] # "unborn"}
Used == {p \in PreviewId : preview[p] = "used"}
Due  == IF loopAt = "add_batch" THEN 1 ELSE 0

ConfirmInv == /\ IsFiniteSet(Born)
              /\ IsFiniteSet(Used)
              /\ Cardinality(Born) + Due <= Cardinality(Used)

(* A step that starts nothing, confirms nothing and leaves start_batch no  *)
(* closer to adding a batch keeps the count.                               *)
LEMMA SameCount ==
  ASSUME ConfirmInv, Born' = Born, Used' = Used, Due' <= Due
  PROVE  ConfirmInv'
<1>1. Cardinality(Born) \in Nat /\ Cardinality(Used) \in Nat
  BY FS_CardinalityType DEF ConfirmInv
<1> QED
  BY <1>1 DEF ConfirmInv, Due

(* consume_preview comes before add_batch, and each happens once.          *)
LEMMA NextConfirmInv == IInv /\ ConfirmInv /\ [Next]_vars => ConfirmInv'
<1> SUFFICES ASSUME IInv, ConfirmInv, [Next]_vars
             PROVE  ConfirmInv'
  OBVIOUS
<1> USE IInv DEF IInv
<1>0. Cardinality(Born) \in Nat /\ Cardinality(Used) \in Nat
  BY FS_CardinalityType DEF ConfirmInv
<1>1. CASE ConsumePreview
  <2>1. /\ loopPreview \notin Used
        /\ Used' = Used \cup {loopPreview}
        /\ Born' = Born
        /\ Due = 0 /\ Due' = 1
    BY <1>1 DEF TypeOK, LoopInv, ConsumePreview, DropPreviews, Used, Born, Due
  <2>2. /\ IsFiniteSet(Used')
        /\ Cardinality(Used') = Cardinality(Used) + 1
    BY <2>1, FS_AddElement DEF ConfirmInv
  <2> QED
    BY <1>0, <2>1, <2>2 DEF ConfirmInv
<1>2. ASSUME NEW b \in BatchId, AddBatch(b)
      PROVE  ConfirmInv'
  <2>1. /\ b \notin Born
        /\ Born' = Born \cup {b}
        /\ Used' = Used
        /\ Due = 1 /\ Due' = 0
    BY <1>2 DEF TypeOK, AddBatch, Used, Born, Due
  <2>2. /\ IsFiniteSet(Born')
        /\ Cardinality(Born') = Cardinality(Born) + 1
    BY <2>1, FS_AddElement DEF ConfirmInv
  <2> QED
    BY <1>0, <2>1, <2>2 DEF ConfirmInv
<1>3. ASSUME NEW p \in PreviewId, AddPreview(p)
      PROVE  Born' = Born /\ Used' = Used /\ Due' <= Due
  BY <1>3 DEF TypeOK, AddPreview, Born, Used, Due
<1>4. CASE CheckActive \/ StartNotFound \/ StartExpired
  <2>1. Born' = Born /\ Used' = Used /\ Due' <= Due
    BY <1>4 DEF TypeOK, LoopInv, CheckActive, StartNotFound, StartExpired,
       DropPreviews, Born, Used, Due
  <2> QED
    BY <2>1, SameCount
<1>5. CASE Request
  <2>1. Cleanup /\ Due' <= Due
    BY <1>5 DEF Request, RequestPreview, RequestStart, PollStatus, Due
  <2>2. Born' = Born /\ Used' = Used
    BY <2>1 DEF TypeOK, Cleanup, DropPreviews, DropBatches, Born, Used
  <2> QED
    BY <2>1, <2>2, SameCount
<1>6. ASSUME NEW b \in BatchId, ExecStep(b)
      PROVE  Born' = Born /\ Used' = Used /\ Due' <= Due
  BY <1>6 DEF TypeOK, ExecInv, ExecStep, FetchBatch, MarkRunning, SubmitAll,
     SubmitRaises, MarkCompleted, MarkFailed, Conclude, Born, Used, Due
<1>7. ASSUME NEW b \in BatchId, NEW s \in Source, WorkerStep(b, s)
      PROVE  UNCHANGED <<batch, preview, loopAt>>
  BY <1>7 DEF WorkerStep, TakeSource, BeginAttempt, CheckSource,
     ReportUnavailable, RunSucceeds, RunFails, RunRaises, NextAttempt,
     ReportSuccess, ReportExhausted, Return
<1>8. CASE Environment
  <2>1. CASE Restart
    <3>1. Born' = Born
      BY <2>1 DEF TypeOK, Restart, DropBatches, Born
    <3>2. Used' = Used
      BY <2>1 DEF TypeOK, Restart, DropPreviews, Used
    <3>3. Due' <= Due
      BY <2>1 DEF Restart, Due
    <3> QED
      BY <3>1, <3>2, <3>3, SameCount
  <2>2. Tick \/ (\E s \in Edited : SourceChanges(s)) =>
          UNCHANGED <<batch, preview, loopAt>>
    BY DEF Tick, SourceChanges
  <2> QED
    BY <1>8, <2>1, <2>2, SameCount DEF Environment, Born, Used, Due
<1>9. UNCHANGED vars => UNCHANGED <<batch, preview, loopAt>>
  BY DEF vars
<1>10. CASE UNCHANGED <<batch, preview, loopAt>>
  BY <1>10, SameCount DEF Born, Used, Due
<1> QED
  BY <1>1, <1>2, <1>3, <1>4, <1>5, <1>6, <1>7, <1>8, <1>9, <1>10, SameCount
     DEF Next, LoopStep

(* A confirmation starts at most one batch.                                *)
THEOREM ConfirmationCountsOnce == Spec => []ConfirmedOnce
<1>1. Init => ConfirmInv
  <2> SUFFICES ASSUME Init
               PROVE  ConfirmInv
    OBVIOUS
  <2>1. Born = {} /\ Used = {} /\ Due = 0
    BY DEF Init, Born, Used, Due
  <2> QED
    BY <2>1, FS_EmptySet DEF ConfirmInv
<1>2. ConfirmInv => ConfirmedOnce
  <2> SUFFICES ASSUME ConfirmInv
               PROVE  Cardinality(Born) <= Cardinality(Used)
    BY DEF ConfirmedOnce, Born, Used
  <2> QED
    BY FS_CardinalityType DEF ConfirmInv, Due
<1> QED
  BY <1>1, <1>2, NextConfirmInv, Invariance, PTL DEF Spec
-----------------------------------------------------------------------------
(* What EveryBatchFinishes rests on: there is a step, and each one counts. *)

THEOREM NoBatchStuck == Spec => []BatchCanMove
<1>1. IInv => BatchCanMove
  <2> SUFFICES ASSUME IInv, NEW b \in BatchId, batch[b] \in Active,
                      ~ExecReady(b), \A s \in Source : ~WorkerReady(b, s)
               PROVE  FALSE
    BY DEF BatchCanMove
  <2>1. exec[b] \in {"waiting", "raised"} /\ ~PoolDrained(b)
    BY DEF IInv, TypeOK, ExecInv, ExecReady
  <2>2. PICK s \in Source : worker[b][s] \notin {"none", "done"}
    BY <2>1 DEF PoolDrained
  <2>3. worker[b][s] = "queued"
    BY <2>2 DEF IInv, TypeOK, WorkerReady
  <2>4. Busy(b) = {}
    BY DEF Busy, WorkerReady
  <2>5. Cardinality(Busy(b)) = 0
    BY <2>4, FS_EmptySet
  <2> QED
    BY <2>3, <2>5, BatchAssumption DEF WorkerReady
<1> QED
  BY <1>1, Invariance, PTL

(* A source that waits or is being run has no more left than one that is   *)
(* not yet in the pool, and none that is done.                             *)
LEMMA WorkLeftType ==
  ASSUME IInv, NEW b \in BatchId, NEW s \in Source
  PROVE  /\ WorkLeft(b, s) \in 0 .. 6 * MaxAttempts + 1
         /\ ExecLeft(b) \in 0 .. 4
         /\ worker[b][s] \in InSlot =>
               WorkLeft(b, s) = 6 * (MaxAttempts - attempt[b][s]) + StepsLeft[worker[b][s]]
  BY BatchAssumption DEF IInv, TypeOK, WorkerInv, WorkLeft, ExecLeft, StepsLeft

LEMMA WorkLeftTypeNext ==
  ASSUME IInv', NEW b \in BatchId, NEW s \in Source
  PROVE  /\ WorkLeft(b, s)' \in 0 .. 6 * MaxAttempts + 1
         /\ ExecLeft(b)' \in 0 .. 4
  BY BatchAssumption DEF IInv, TypeOK, WorkerInv, WorkLeft, ExecLeft, StepsLeft

(* Other threads than those of the batch leave it as it is.                *)
LEMMA SameThreads ==
  ASSUME IInv, NEW b \in BatchId, UNCHANGED <<exec[b], worker[b], attempt[b]>>
  PROVE  /\ ExecLeft(b)' = ExecLeft(b)
         /\ \A s \in Source : WorkLeft(b, s)' = WorkLeft(b, s)
  BY DEF ExecLeft, WorkLeft

(* The executor goes on, and with it at most the sources it submits.       *)
LEMMA ExecAdvances ==
  ASSUME IInv, IInv', NEW b \in BatchId, ExecStep(b)
  PROVE  /\ ExecLeft(b)' < ExecLeft(b)
         /\ \A s \in Source : /\ WorkLeft(b, s)' <= WorkLeft(b, s)
                              /\ worker'[b][s] # worker[b][s] => WorkLeft(b, s)' < WorkLeft(b, s)
<1>1. ExecLeft(b)' < ExecLeft(b)
  BY DEF IInv, TypeOK, ExecLeft, ExecStep, FetchBatch, MarkRunning, SubmitAll, SubmitRaises,
     MarkCompleted, MarkFailed
<1>2. ASSUME NEW s \in Source
      PROVE  /\ WorkLeft(b, s) \in Int
             /\ WorkLeft(b, s)' \in Int
             /\ WorkLeft(b, s)' >= 0
             /\ 6 * MaxAttempts \in Int
  BY WorkLeftType, WorkLeftTypeNext, BatchAssumption
<1>3. CASE SubmitAll(b) \/ SubmitRaises(b)
  <2>1. PICK Q \in SUBSET Source : Enqueue(b, Q)
    BY <1>3 DEF SubmitAll, SubmitRaises, IInv, TypeOK
  <2>2. /\ exec[b] = "submitting" /\ exec'[b] \in {"waiting", "raised"}
        /\ \A s \in Source : worker[b][s] = "none" /\ worker'[b][s] \in {"queued", "none"}
    BY <1>3, <2>1 DEF SubmitAll, SubmitRaises, Enqueue, IInv, TypeOK, ExecInv
  <2>3. ASSUME NEW s \in Source
        PROVE  WorkLeft(b, s)' < WorkLeft(b, s)
    BY <2>2, BatchAssumption DEF WorkLeft, ExecLeft, InSlot
  <2> QED
    BY <1>1, <1>2, <2>3
<1>4. CASE FetchBatch(b) \/ MarkRunning(b) \/ MarkCompleted(b) \/ MarkFailed(b)
  <2>1. UNCHANGED <<worker, attempt>>
    BY <1>4 DEF FetchBatch, MarkRunning, MarkCompleted, MarkFailed
  <2>2. ExecLeft(b)' > 1 => ExecLeft(b) > 1
    BY <1>1, WorkLeftType, WorkLeftTypeNext DEF ExecLeft
  <2>3. ASSUME NEW s \in Source
        PROVE  WorkLeft(b, s)' \in {WorkLeft(b, s), 0}
    BY <2>1, <2>2 DEF WorkLeft
  <2>4. ASSUME NEW s \in Source
        PROVE  WorkLeft(b, s)' <= WorkLeft(b, s)
    BY <1>2, <2>3, WorkLeftType
  <2> QED
    BY <1>1, <2>1, <2>4
<1> QED
  BY <1>3, <1>4 DEF ExecStep

(* A worker goes on, or begins the next of its attempts.                   *)
LEMMA WorkerAdvances ==
  ASSUME IInv, NEW b \in BatchId, NEW s \in Source, WorkerStep(b, s)
  PROVE  WorkLeft(b, s)' < WorkLeft(b, s)
<1> USE BatchAssumption DEF WorkLeft, StepsLeft, Step
<1>0. /\ attempt[b][s] \in 0 .. MaxAttempts
      /\ worker[b][s] \in InSlot => attempt[b][s] >= 1
      /\ worker[b][s] = "sleep" => attempt[b][s] < MaxAttempts
  BY DEF IInv, TypeOK, WorkerInv
<1>1. CASE TakeSource(b, s)
  <2>1. worker[b][s] = "queued" /\ worker'[b][s] = "begin" /\ attempt'[b][s] = 1
    BY <1>1 DEF TakeSource, IInv, TypeOK
  <2> QED
    BY <2>1
<1>2. CASE NextAttempt(b, s)
  <2>1. worker[b][s] = "sleep" /\ worker'[b][s] = "begin" /\ attempt'[b][s] = attempt[b][s] + 1
    BY <1>2 DEF NextAttempt, IInv, TypeOK
  <2> QED
    BY <1>0, <2>1
<1>3. CASE BeginAttempt(b, s) \/ CheckSource(b, s) \/ RunSucceeds(b, s) \/ RunFails(b, s)
           \/ RunRaises(b, s)
  <2>1. attempt' = attempt
    BY <1>3 DEF BeginAttempt, CheckSource, RunSucceeds, RunFails, RunRaises
  <2>2. \/ worker[b][s] = "begin" /\ worker'[b][s] = "check"
        \/ worker[b][s] = "check" /\ worker'[b][s] \in {"ingest", "unavailable", "sleep", "exhausted"}
        \/ worker[b][s] = "ingest" /\ worker'[b][s] \in {"succeeded", "sleep", "exhausted"}
    BY <1>3 DEF BeginAttempt, CheckSource, RunSucceeds, RunFails, RunRaises, AfterFailure,
       IInv, TypeOK
  <2> QED
    BY <1>0, <2>1, <2>2
<1>4. CASE ReportUnavailable(b, s) \/ ReportSuccess(b, s) \/ ReportExhausted(b, s)
  <2>1. worker[b][s] \in {"unavailable", "succeeded", "exhausted"} /\ worker'[b][s] = "done"
    BY <1>4 DEF ReportUnavailable, ReportSuccess, ReportExhausted, Return, IInv, TypeOK
  <2> QED
    BY <1>0, <2>1
<1> QED
  BY <1>1, <1>2, <1>3, <1>4 DEF WorkerStep

(* Only a batch's own threads move on its way, and never back.             *)
THEOREM BatchesAdvance == Spec => BatchOnlyAdvances
<1> DEFINE Advances(b) ==
      /\ ExecLeft(b)' <= ExecLeft(b)
      /\ exec'[b] # exec[b] => ExecLeft(b)' < ExecLeft(b)
      /\ \A s \in Source :
           /\ WorkLeft(b, s)' <= WorkLeft(b, s)
           /\ worker'[b][s] # worker[b][s] => WorkLeft(b, s)' < WorkLeft(b, s)
<1>1. ASSUME IInv, IInv', Next, NEW b \in BatchId, batch[b] \in Active, batch'[b] \in Active
      PROVE  Advances(b)
  <2>0. /\ ExecLeft(b) \in Int
        /\ \A s \in Source : WorkLeft(b, s) \in Int
    BY <1>1, WorkLeftType, WorkLeftTypeNext DEF ExecLeft
  <2>1. ASSUME UNCHANGED <<exec[b], worker[b], attempt[b]>>
        PROVE  Advances(b)
    BY <1>1, <2>0, <2>1, SameThreads
  <2>2. CASE LoopStep
    <3>1. ASSUME NEW c \in BatchId, AddBatch(c)
          PROVE  UNCHANGED <<exec[b], worker[b], attempt[b]>>
      BY <1>1, <3>1 DEF AddBatch, IInv, TypeOK, Active
    <3>2. ASSUME \/ \E p \in PreviewId : AddPreview(p)
                 \/ CheckActive \/ StartNotFound \/ StartExpired \/ ConsumePreview
          PROVE  UNCHANGED <<exec[b], worker[b], attempt[b]>>
      BY <3>2 DEF AddPreview, CheckActive, StartNotFound, StartExpired, ConsumePreview,
         threadVars
    <3> QED
      BY <2>1, <2>2, <3>1, <3>2 DEF LoopStep
  <2>3. CASE Request
    BY <2>1, <2>3 DEF Request, RequestPreview, RequestStart, PollStatus, threadVars
  <2>4. ASSUME NEW c \in BatchId, ExecStep(c)
        PROVE  Advances(b)
    <3>1. CASE c # b
      <4>1. exec'[b] = exec[b] /\ worker'[b] = worker[b] /\ attempt'[b] = attempt[b]
        BY <1>1, <2>4, <3>1 DEF ExecStep, FetchBatch, MarkRunning, SubmitAll, SubmitRaises,
           Enqueue, MarkCompleted, MarkFailed, IInv, TypeOK
      <4> QED
        BY <2>1, <4>1
    <3>2. CASE c = b
      <4>1. ExecLeft(b)' \in Int
        BY <1>1, WorkLeftTypeNext DEF ExecLeft
      <4> QED
        BY <1>1, <2>0, <2>4, <3>2, <4>1, ExecAdvances
    <3> QED
      BY <3>1, <3>2
  <2>5. ASSUME NEW c \in BatchId, NEW s \in Source, WorkerStep(c, s)
        PROVE  Advances(b)
    <3>1. exec' = exec
      BY <2>5 DEF WorkerStep, TakeSource, BeginAttempt, CheckSource, RunSucceeds, RunFails,
         RunRaises, NextAttempt, ReportUnavailable, ReportSuccess, ReportExhausted, Return
    <3>2. \E to : worker' = [worker EXCEPT ![c][s] = to]
      BY <2>5 DEF WorkerStep, TakeSource, BeginAttempt, CheckSource, RunSucceeds, RunFails,
         RunRaises, NextAttempt, ReportUnavailable, ReportSuccess, ReportExhausted, Return, Step
    <3>3. \E k : attempt' = attempt \/ attempt' = [attempt EXCEPT ![c][s] = k]
      BY <2>5 DEF WorkerStep, TakeSource, BeginAttempt, CheckSource, RunSucceeds, RunFails,
         RunRaises, NextAttempt, ReportUnavailable, ReportSuccess, ReportExhausted, Return
    <3>4. ASSUME NEW q \in Source, <<c, s>> # <<b, q>>
          PROVE  worker'[b][q] = worker[b][q] /\ attempt'[b][q] = attempt[b][q]
      BY <1>1, <3>2, <3>3, <3>4 DEF IInv, TypeOK
    <3>5. ExecLeft(b)' = ExecLeft(b)
      BY <3>1 DEF ExecLeft
    <3>6. ASSUME NEW q \in Source, <<c, s>> # <<b, q>>
          PROVE  WorkLeft(b, q)' = WorkLeft(b, q)
      BY <3>4, <3>5, <3>6 DEF WorkLeft
    <3>7. ASSUME c = b
          PROVE  WorkLeft(b, s)' < WorkLeft(b, s) /\ WorkLeft(b, s)' \in Int
      BY <1>1, <2>5, <3>7, WorkerAdvances, WorkLeftTypeNext, BatchAssumption
    <3>8. ASSUME NEW q \in Source
          PROVE  /\ WorkLeft(b, q)' <= WorkLeft(b, q)
                 /\ worker'[b][q] # worker[b][q] => WorkLeft(b, q)' < WorkLeft(b, q)
      BY <2>0, <3>4, <3>6, <3>7
    <3> QED
      BY <2>0, <3>1, <3>5, <3>8
  <2>6. CASE Environment
    <3>1. CASE Tick \/ \E s \in Edited : SourceChanges(s)
      BY <2>1, <3>1 DEF Tick, SourceChanges, threadVars
    <3>2. CASE Restart
      BY <1>1, <3>2 DEF Restart, DropBatches, IInv, TypeOK, Active, Stored
    <3> QED
      BY <2>6, <3>1, <3>2 DEF Environment
  <2> QED
    BY <1>1, <2>2, <2>3, <2>4, <2>5, <2>6 DEF Next
<1>2. IInv /\ IInv' /\ [Next]_vars =>
        [\A b \in BatchId : batch[b] \in Active /\ batch'[b] \in Active => Advances(b)]_vars
  BY <1>1
<1> QED
  BY <1>2, Invariance, PTL DEF Spec, BatchOnlyAdvances
=============================================================================
