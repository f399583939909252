--------------------- MODULE SourceBatchRunsRefinement ---------------------
(***************************************************************************)
(* SourceBatchRuns implements BatchLifecycle, for every value of the       *)
(* constants.                                                              *)
(***************************************************************************)
EXTENDS SourceBatchRunsProofs

USE DEF Row, Runnable, PreviewStatus, Active, Terminal, Stored, BatchStatus,
        Never, ResultStatus, Settled, LoopAt, ExecAt, InSlot, WorkerAt,
        NoResult, Pending, HasActiveBatch, registryVars, loopVars, threadVars

-----------------------------------------------------------------------------
(* One step of the abstract specification, or none.                        *)
AbstractStep == Lifecycle!ANext \/ UNCHANGED Lifecycle!avars

(* No batch there, no batch promised.                                      *)
LEMMA AbstractInit == Init => Lifecycle!AInit
  BY DEF Init, Lifecycle!AInit, PhaseOf, VerdictOf

(* What the abstract specification sees of a batch is a function of its    *)
(* status and of its results.                                              *)
LEMMA SameBatches ==
  ASSUME UNCHANGED <<batch, results>>
  PROVE  AbstractStep
  BY DEF AbstractStep, Lifecycle!avars, PhaseOf, VerdictOf

(* What cleanup removes are batches that ended.                            *)
LEMMA CleanupForgets ==
  ASSUME IInv, Cleanup
  PROVE  AbstractStep
<1> DEFINE B == {b \in BatchId : batch[b] \in Stored /\ batchLeft[b] = 0}
<1>1. \A b \in B : PhaseOf(b) \in Lifecycle!Finished
  BY DEF IInv, TypeOK, LifeInv, PhaseOf, Lifecycle!Finished
<1>2. \A b \in BatchId :
        /\ batch'[b] = IF b \in B THEN "gone" ELSE batch[b]
        /\ results'[b] = IF b \in B THEN [s \in Source |-> NoResult] ELSE results[b]
  BY DEF Cleanup, DropBatches
<1>3. \A b \in BatchId : PhaseOf(b)' = IF b \in B THEN "forgotten" ELSE PhaseOf(b)
  BY <1>2 DEF IInv, TypeOK, PhaseOf
<1>4. \A b \in BatchId, s \in Source :
        VerdictOf(b, s)' = IF b \in B THEN "no_part" ELSE VerdictOf(b, s)
  BY <1>2 DEF IInv, TypeOK, VerdictOf
<1>5. Lifecycle!Forget(B)
  BY <1>1, <1>3, <1>4 DEF Lifecycle!Forget, Lifecycle!Drop
<1> QED
  BY <1>5 DEF AbstractStep, Lifecycle!ANext

(* A batch is added only while no other is active.                         *)
LEMMA AddBatchStarts ==
  ASSUME IInv, NEW b \in BatchId, AddBatch(b)
  PROVE  AbstractStep
<1>1. \A c \in BatchId : PhaseOf(c) # "active"
  BY DEF IInv, TypeOK, LoopInv, AddBatch, PhaseOf
<1>2. PhaseOf(b) = "absent" /\ loopRefs \in SUBSET Source
  BY DEF IInv, TypeOK, AddBatch, PhaseOf
<1>3. \A c \in BatchId :
        PhaseOf(c)' = IF c = b THEN IF loopRefs = {} THEN "completed" ELSE "active"
                               ELSE PhaseOf(c)
  BY DEF IInv, TypeOK, AddBatch, PhaseOf
<1>4. \A c \in BatchId, s \in Source :
        VerdictOf(c, s)' = IF c = b THEN IF s \in loopRefs THEN "open" ELSE "no_part"
                                    ELSE VerdictOf(c, s)
  BY DEF IInv, TypeOK, AddBatch, VerdictOf
<1>5. Lifecycle!Start(b, loopRefs)
  BY <1>1, <1>2, <1>3, <1>4 DEF Lifecycle!Start
<1> QED
  BY <1>2, <1>5 DEF AbstractStep, Lifecycle!ANext

(* The result of a source whose worker is at work is still open.           *)
LEMMA OpenInSlot ==
  ASSUME IInv, NEW b \in BatchId, NEW s \in Source, worker[b][s] \in InSlot
  PROVE  results[b][s].status \in {"pending", "running"}
<1>1. results[b][s].status \in ResultStatus
  BY DEF IInv, TypeOK
<1> QED
  BY <1>1 DEF IInv, ResultInv

(* A worker returns with a verdict on its source, the first one.           *)
LEMMA ReturnDecides ==
  ASSUME IInv, NEW b \in BatchId, NEW s \in Source, NEW from \in InSlot,
         NEW status \in Settled, NEW attempts, Return(b, s, from, status, attempts)
  PROVE  AbstractStep
<1>1. batch[b] = "running" /\ batch' = batch
  BY DEF IInv, TypeOK, ExecInv, Return, Step
<1>2. PhaseOf(b) = "active" /\ \A c \in BatchId : PhaseOf(c)' = PhaseOf(c)
  BY <1>1 DEF PhaseOf
<1>3. VerdictOf(b, s) = "open"
  <2>1. results[b][s].status \in {"pending", "running"}
    BY OpenInSlot DEF Return, Step
  <2> QED
    BY <2>1 DEF VerdictOf
<1>4. /\ results'[b][s].status = status
      /\ \A c \in BatchId, t \in Source :
           c # b \/ t # s => results'[c][t] = results[c][t]
  BY DEF IInv, TypeOK, Return, UpdateResult
<1>5. \A c \in BatchId, t \in Source :
        VerdictOf(c, t)' = IF c = b /\ t = s THEN status ELSE VerdictOf(c, t)
  BY <1>4 DEF IInv, TypeOK, VerdictOf
<1>6. Lifecycle!Decide(b, s, status)
  BY <1>2, <1>3, <1>5 DEF Lifecycle!Decide
<1> QED
  BY <1>6 DEF AbstractStep, Lifecycle!ANext

(* "pending" and "running" are both an open verdict.                       *)
LEMMA BeginIsInvisible ==
  ASSUME IInv, NEW b \in BatchId, NEW s \in Source, BeginAttempt(b, s)
  PROVE  AbstractStep
<1>1. batch' = batch
  BY DEF BeginAttempt
<1>2. results[b][s].status \in {"pending", "running"}
  BY OpenInSlot DEF BeginAttempt, Step
<1>3. /\ results'[b][s].status = "running"
      /\ \A c \in BatchId, t \in Source :
           c # b \/ t # s => results'[c][t] = results[c][t]
  BY DEF IInv, TypeOK, BeginAttempt, UpdateResult
<1>4. \A c \in BatchId, t \in Source : VerdictOf(c, t)' = VerdictOf(c, t)
  BY <1>2, <1>3 DEF VerdictOf
<1> QED
  BY <1>1, <1>4 DEF AbstractStep, Lifecycle!avars, PhaseOf

(* The executor completes a batch once every source has its verdict.       *)
LEMMA MarkCompletedCompletes ==
  ASSUME IInv, NEW b \in BatchId, MarkCompleted(b)
  PROVE  AbstractStep
<1>1. batch[b] = "running" /\ results' = results
  BY DEF IInv, ExecInv, MarkCompleted
<1>2. \A s \in Source : VerdictOf(b, s) # "open"
  BY DEF IInv, TypeOK, ExecInv, ResultInv, MarkCompleted, PoolDrained, VerdictOf
<1>3. \A s \in Source : results[b][s].status = "failed" <=> VerdictOf(b, s) = "failed"
  BY DEF IInv, TypeOK, VerdictOf
<1>4. \A c \in BatchId :
        batch'[c] = IF c # b THEN batch[c]
                    ELSE IF \E s \in Source : results[b][s].status = "failed"
                         THEN "completed_with_failures"
                         ELSE "completed"
  BY DEF IInv, TypeOK, MarkCompleted, Conclude
<1>5. \A c \in BatchId :
        PhaseOf(c)' = IF c # b THEN PhaseOf(c)
                      ELSE IF \E s \in Source : VerdictOf(b, s) = "failed"
                           THEN "completed_with_failures"
                           ELSE "completed"
  BY <1>3, <1>4 DEF IInv, TypeOK, PhaseOf
<1>6. \A c \in BatchId, s \in Source : VerdictOf(c, s)' = VerdictOf(c, s)
  BY <1>1 DEF VerdictOf
<1>7. PhaseOf(b) = "active"
  BY <1>1 DEF PhaseOf
<1>8. Lifecycle!Complete(b)
  BY <1>2, <1>5, <1>6, <1>7 DEF Lifecycle!Complete
<1> QED
  BY <1>8 DEF AbstractStep, Lifecycle!ANext

(* An executor that raised gives up its own batch and no other.            *)
LEMMA MarkFailedAborts ==
  ASSUME IInv, NEW b \in BatchId, MarkFailed(b)
  PROVE  AbstractStep
<1>1. batch[b] = "running" /\ results' = results
  BY DEF IInv, ExecInv, MarkFailed
<1>2. \A c \in BatchId : batch'[c] = IF c = b THEN "failed" ELSE batch[c]
  BY DEF IInv, TypeOK, MarkFailed, Conclude
<1>3. \A c \in BatchId : PhaseOf(c)' = IF c = b THEN "failed" ELSE PhaseOf(c)
  BY <1>2 DEF IInv, TypeOK, PhaseOf
<1>4. \A c \in BatchId, s \in Source : VerdictOf(c, s)' = VerdictOf(c, s)
  BY <1>1 DEF VerdictOf
<1>5. PhaseOf(b) = "active"
  BY <1>1 DEF PhaseOf
<1>6. Lifecycle!Abort(b)
  BY <1>3, <1>4, <1>5 DEF Lifecycle!Abort
<1> QED
  BY <1>6 DEF AbstractStep, Lifecycle!ANext

(* "starting" and "running" are both an active batch.                      *)
LEMMA MarkRunningIsInvisible ==
  ASSUME IInv, NEW b \in BatchId, MarkRunning(b)
  PROVE  AbstractStep
<1>1. batch[b] = "starting" /\ results' = results
  BY DEF IInv, ExecInv, MarkRunning
<1>2. \A c \in BatchId : batch'[c] = IF c = b THEN "running" ELSE batch[c]
  BY DEF IInv, TypeOK, MarkRunning
<1>3. \A c \in BatchId : PhaseOf(c)' = PhaseOf(c)
  BY <1>1, <1>2 DEF PhaseOf
<1> QED
  BY <1>1, <1>3 DEF AbstractStep, Lifecycle!avars, VerdictOf

(* A restart forgets all batches that are there.                           *)
LEMMA RestartCrashes ==
  ASSUME IInv, Restart
  PROVE  AbstractStep
<1>1. \A b \in BatchId :
        /\ batch[b] \in Stored => /\ batch'[b] = "gone"
                                  /\ results'[b] = [s \in Source |-> NoResult]
        /\ batch[b] \notin Stored => batch'[b] = batch[b] /\ results'[b] = results[b]
  BY DEF Restart, DropBatches
<1>2. \A b \in BatchId :
        PhaseOf(b)' = IF PhaseOf(b) # "absent" THEN "forgotten" ELSE PhaseOf(b)
  BY <1>1 DEF IInv, TypeOK, PhaseOf
<1>3. \A b \in BatchId, s \in Source :
        batch[b] = "gone" => results[b][s].status = "none"
  BY DEF IInv, TypeOK, LifeInv, ResultInv
<1>4. \A b \in BatchId, s \in Source :
        VerdictOf(b, s)' = IF PhaseOf(b) # "absent" THEN "no_part" ELSE VerdictOf(b, s)
  BY <1>1, <1>3 DEF IInv, TypeOK, PhaseOf, VerdictOf
<1>5. Lifecycle!Crash
  BY <1>2, <1>4 DEF Lifecycle!Crash, Lifecycle!Drop
<1> QED
  BY <1>5 DEF AbstractStep, Lifecycle!ANext

(* Every step maps to an abstract step or to none.                         *)
LEMMA NextRefines == IInv /\ [Next]_vars => AbstractStep
<1> SUFFICES ASSUME IInv, [Next]_vars
             PROVE  AbstractStep
  OBVIOUS
<1>1. CASE LoopStep
  <2>1. (\E b \in BatchId : AddBatch(b)) \/ UNCHANGED <<batch, results>>
    BY <1>1 DEF LoopStep, AddPreview, CheckActive, StartNotFound, StartExpired,
       ConsumePreview
  <2> QED
    BY <2>1, AddBatchStarts, SameBatches
<1>2. CASE Request
  <2>1. Cleanup
    BY <1>2 DEF Request, RequestPreview, RequestStart, PollStatus
  <2> QED
    BY <2>1, CleanupForgets
<1>3. ASSUME NEW b \in BatchId, ExecStep(b)
      PROVE  AbstractStep
  <2>1. \/ MarkRunning(b) \/ MarkCompleted(b) \/ MarkFailed(b)
        \/ UNCHANGED <<batch, results>>
    BY <1>3 DEF ExecStep, FetchBatch, SubmitAll, SubmitRaises
  <2> QED
    BY <2>1, MarkRunningIsInvisible, MarkCompletedCompletes, MarkFailedAborts,
       SameBatches
<1>4. ASSUME NEW b \in BatchId, NEW s \in Source, WorkerStep(b, s)
      PROVE  AbstractStep
  <2>1. CASE ReportUnavailable(b, s)
    BY <2>1, ReturnDecides DEF ReportUnavailable
  <2>2. CASE ReportSuccess(b, s)
    BY <2>2, ReturnDecides DEF ReportSuccess
  <2>3. CASE ReportExhausted(b, s)
    BY <2>3, ReturnDecides DEF ReportExhausted
  <2>4. CASE BeginAttempt(b, s)
    BY <2>4, BeginIsInvisible
  <2>5. \/ ReportUnavailable(b, s) \/ ReportSuccess(b, s) \/ ReportExhausted(b, s)
        \/ BeginAttempt(b, s) \/ UNCHANGED <<batch, results>>
    BY <1>4 DEF WorkerStep, TakeSource, CheckSource, RunSucceeds, RunFails,
       RunRaises, NextAttempt
  <2> QED
    BY <2>1, <2>2, <2>3, <2>4, <2>5, SameBatches
<1>5. CASE Environment
  <2>1. Restart \/ UNCHANGED <<batch, results>>
    BY <1>5 DEF Environment, Tick, SourceChanges
  <2> QED
    BY <2>1, RestartCrashes, SameBatches
<1>6. CASE UNCHANGED vars
  BY <1>6, SameBatches DEF vars
<1> QED
  BY <1>1, <1>2, <1>3, <1>4, <1>5, <1>6 DEF Next

(* The batch subsystem, with its threads, locks, clock and restarts, does  *)
(* only what the abstract batches may do (the run of ImplementsLifecycle   *)
(* shows it on an instance).                                               *)
THEOREM Refinement == Spec => ImplementsLifecycle
<1>1. IInv /\ [Next]_vars => [Lifecycle!ANext]_(Lifecycle!avars)
  BY NextRefines DEF AbstractStep
<1> QED
  BY <1>1, AbstractInit, Invariance, PTL
     DEF Spec, ImplementsLifecycle, Lifecycle!ASpec
=============================================================================
