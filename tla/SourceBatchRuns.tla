-------------------------- MODULE SourceBatchRuns --------------------------
(***************************************************************************)
(* Batch runs of job sources (app/domain/source_batch_runs.py and its      *)
(* three routes).  A client previews a batch, which freezes the sources    *)
(* that may run; it starts the batch with the id of the preview; a         *)
(* background task runs every source in a pool of threads, with retries;   *)
(* clients poll.  Previews and batches live in one in-memory registry and  *)
(* expire.                                                                 *)
(*                                                                         *)
(* Three kinds of thread meet in the registry.                             *)
(*  - The event loop runs the preview and start handlers.  They are        *)
(*    "async def" and await nothing, so at most one is in progress: loopAt *)
(*    says where it stands.                                                *)
(*  - Thread-pool threads run the status handler: one call of cleanup and  *)
(*    a read.                                                              *)
(*  - Each started batch has an executor thread and worker threads.        *)
(* Each action is one critical section of the registry's lock, or one      *)
(* database access, with the local computation around it.                  *)
(*                                                                         *)
(* Time: what an expires_at is compared with is kept as the number of      *)
(* ticks that are left, so "expires_at <= now" is "0 left".                *)
(***************************************************************************)
EXTENDS Integers, FiniteSets

CONSTANTS Source,          (* identifiers of rows of the sources table      *)
          Edited,          (* the sources that others change meanwhile      *)
          PreviewId,       (* uuids handed to previews                      *)
          BatchId,         (* uuids handed to batches                       *)
          MaxConcurrency,  (* MAX_CONCURRENCY, 5                            *)
          MaxAttempts,     (* MAX_ATTEMPTS, 3                               *)
          PreviewTTL,      (* PREVIEW_TTL in ticks, 10 minutes              *)
          BatchTTL,        (* BATCH_TTL in ticks, 30 minutes                *)
          NoPreview        (* no request has named a preview                *)

ASSUME BatchAssumption ==
  /\ IsFiniteSet(Source)
  /\ Edited \subseteq Source
  /\ MaxConcurrency \in Nat \ {0}
  /\ MaxAttempts \in Nat \ {0}
  /\ PreviewTTL \in Nat \ {0}
  /\ BatchTTL \in Nat \ {0}
  /\ NoPreview \notin PreviewId

VARIABLES
  row,          (* row[s]: what the sources table says of s                 *)
  preview,      (* preview[p]: where preview p is in its life               *)
  previewLeft,  (* previewLeft[p]: ticks until p expires                    *)
  previewRefs,  (* previewRefs[p]: the eligible sources p froze             *)
  batch,        (* batch[b]: status of batch b in the registry              *)
  batchLeft,    (* batchLeft[b]: ticks until b expires, or Never            *)
  eligible,     (* eligible[b]: the sources b was started for               *)
  results,      (* results[b][s]: source_results of b                       *)
  loopAt,       (* where the handler on the event loop stands               *)
  loopPreview,  (* the preview_id a start request came with                 *)
  loopRefs,     (* the eligible sources that handler holds                  *)
  exec,         (* exec[b]: where SourceBatchExecutor.execute(b) stands     *)
  worker,       (* worker[b][s]: where _run_source_with_retries stands      *)
  attempt,      (* attempt[b][s]: its loop variable                         *)
  runs          (* runs[b][s]: the length of its run_ids                    *)

registryVars == <<preview, previewLeft, previewRefs,
                  batch, batchLeft, eligible, results>>
loopVars     == <<loopAt, loopPreview, loopRefs>>
threadVars   == <<exec, worker, attempt, runs>>
vars         == <<row, registryVars, loopVars, threadVars>>

-----------------------------------------------------------------------------
(* A row that is missing was never created; a deleted one stays deleted;   *)
(* of an inactive one the health does not matter here.                     *)
Row           == {"missing", "deleted", "inactive", "unhealthy", "healthy"}
Runnable      == {"unhealthy", "healthy"}

PreviewStatus == {"unborn", "live", "used", "expired", "lost"}

Active        == {"starting", "running"}
Terminal      == {"completed", "completed_with_failures", "failed"}
Stored        == Active \cup Terminal
BatchStatus   == Stored \cup {"unborn", "gone"}
Never         == -1

ResultStatus  == {"none", "pending", "running", "success", "failed"}
Settled       == {"success", "failed"}
NoResult      == [status |-> "none", attempts |-> 0, runs |-> 0]
Pending       == [status |-> "pending", attempts |-> 0, runs |-> 0]

LoopAt        == {"idle", "add_preview", "check_active", "consume", "add_batch"}
ExecAt        == {"none", "scheduled", "fetched", "submitting",
                  "waiting", "raised", "ended"}

(* Where a worker that holds one of the threads of the pool can be.        *)
InSlot        == {"begin", "check", "unavailable", "ingest", "succeeded",
                  "sleep", "exhausted"}
WorkerAt      == {"none", "queued", "done"} \cup InSlot

TypeOK ==
  /\ row \in [Source -> Row]
  /\ preview \in [PreviewId -> PreviewStatus]
  /\ previewLeft \in [PreviewId -> 0..PreviewTTL]
  /\ previewRefs \in [PreviewId -> SUBSET Source]
  /\ batch \in [BatchId -> BatchStatus]
  /\ batchLeft \in [BatchId -> Never..BatchTTL]
  /\ eligible \in [BatchId -> SUBSET Source]
  /\ results \in [BatchId -> [Source -> [status   : ResultStatus,
                                         attempts : 0..MaxAttempts,
                                         runs     : 0..MaxAttempts]]]
  /\ loopAt \in LoopAt
  /\ loopPreview \in PreviewId \cup {NoPreview}
  /\ loopRefs \in SUBSET Source
  /\ exec \in [BatchId -> ExecAt]
  /\ worker \in [BatchId -> [Source -> WorkerAt]]
  /\ attempt \in [BatchId -> [Source -> 0..MaxAttempts]]
  /\ runs \in [BatchId -> [Source -> 0..MaxAttempts]]

Init ==
  /\ row \in [Source -> Row]
  /\ preview = [p \in PreviewId |-> "unborn"]
  /\ previewLeft = [p \in PreviewId |-> 0]
  /\ previewRefs = [p \in PreviewId |-> {}]
  /\ batch = [b \in BatchId |-> "unborn"]
  /\ batchLeft = [b \in BatchId |-> Never]
  /\ eligible = [b \in BatchId |-> {}]
  /\ results = [b \in BatchId |-> [s \in Source |-> NoResult]]
  /\ loopAt = "idle"
  /\ loopPreview = NoPreview
  /\ loopRefs = {}
  /\ exec = [b \in BatchId |-> "none"]
  /\ worker = [b \in BatchId |-> [s \in Source |-> "none"]]
  /\ attempt = [b \in BatchId |-> [s \in Source |-> 0]]
  /\ runs = [b \in BatchId |-> [s \in Source |-> 0]]

-----------------------------------------------------------------------------
(* The registry.                                                           *)

(* Take the previews in P out of the registry; why is where they went.     *)
DropPreviews(P, why) ==
  /\ preview' = [p \in PreviewId |-> IF p \in P THEN why ELSE preview[p]]
  /\ previewLeft' = [p \in PreviewId |-> IF p \in P THEN 0 ELSE previewLeft[p]]
  /\ previewRefs' = [p \in PreviewId |-> IF p \in P THEN {} ELSE previewRefs[p]]

DropBatches(B) ==
  /\ batch' = [b \in BatchId |-> IF b \in B THEN "gone" ELSE batch[b]]
  /\ batchLeft' = [b \in BatchId |-> IF b \in B THEN Never ELSE batchLeft[b]]
  /\ eligible' = [b \in BatchId |-> IF b \in B THEN {} ELSE eligible[b]]
  /\ results' = [b \in BatchId |->
                   IF b \in B THEN [s \in Source |-> NoResult] ELSE results[b]]

(* SourceBatchRunRegistry.cleanup.                                         *)
Cleanup ==
  /\ DropPreviews({p \in PreviewId : preview[p] = "live" /\ previewLeft[p] = 0},
                  "expired")
  /\ DropBatches({b \in BatchId : batch[b] \in Stored /\ batchLeft[b] = 0})

HasActiveBatch == \E b \in BatchId : batch[b] \in Active

(* update_source_result: replace the result of s in b.                     *)
UpdateResult(b, s, status, attempts) ==
  results' = [results EXCEPT ![b][s] = [status   |-> status,
                                        attempts |-> attempts,
                                        runs     |-> runs[b][s]]]

(* mark_batch_completed and mark_batch_failed, once the workers stopped.   *)
Conclude(b, status) ==
  /\ batch' = [batch EXCEPT ![b] = status]
  /\ batchLeft' = [batchLeft EXCEPT ![b] = BatchTTL]

-----------------------------------------------------------------------------
(* The event loop: POST /sources/batch-runs/preview.                       *)

(* Eligible are the sources of the selection (all of them in mode "all")   *)
(* that are present, not deleted, active and healthy.                      *)
EligibleOf(selection) == {s \in selection : row[s] = "healthy"}

RequestPreview(selection) ==
  /\ loopAt = "idle"
  /\ \E p \in PreviewId : preview[p] = "unborn"      \* bound: uuids left
  /\ Cleanup
  /\ loopAt' = "add_preview"
  /\ loopRefs' = EligibleOf(selection)
  /\ UNCHANGED <<row, loopPreview, threadVars>>

AddPreview(p) ==
  /\ loopAt = "add_preview"
  /\ preview[p] = "unborn"
  /\ preview' = [preview EXCEPT ![p] = "live"]
  /\ previewLeft' = [previewLeft EXCEPT ![p] = PreviewTTL]
  /\ previewRefs' = [previewRefs EXCEPT ![p] = loopRefs]
  /\ loopAt' = "idle"
  /\ loopRefs' = {}
  /\ UNCHANGED <<row, batch, batchLeft, eligible, results,
                 loopPreview, threadVars>>

(* The event loop: POST /sources/batch-runs.  A client has the id of a     *)
(* preview from the response that created it.                              *)
RequestStart(p) ==
  /\ loopAt = "idle"
  /\ preview[p] # "unborn"
  /\ \E b \in BatchId : batch[b] = "unborn"          \* bound: uuids left
  /\ Cleanup
  /\ loopAt' = "check_active"
  /\ loopPreview' = p
  /\ UNCHANGED <<row, loopRefs, threadVars>>

(* Seeded fault: the preview is popped before the conflict is noticed.     *)
PopThenCheckActive ==
  /\ loopAt = "check_active"
  /\ IF HasActiveBatch
     THEN /\ DropPreviews({loopPreview} \cap {p \in PreviewId : preview[p] = "live"},
                          "used")
          /\ loopAt' = "idle" /\ loopPreview' = NoPreview
     ELSE /\ loopAt' = "consume"
          /\ UNCHANGED <<loopPreview, preview, previewLeft, previewRefs>>
  /\ UNCHANGED <<row, batch, batchLeft, eligible, results, loopRefs, threadVars>>

CheckActive ==
  /\ loopAt = "check_active"
  /\ IF HasActiveBatch
     THEN loopAt' = "idle" /\ loopPreview' = NoPreview        \* 409
     ELSE loopAt' = "consume" /\ UNCHANGED loopPreview
  /\ UNCHANGED <<row, registryVars, loopRefs, threadVars>>

(* consume_preview, which pops an expired preview as well.                 *)
StartNotFound ==                                              \* 404
  /\ loopAt = "consume"
  /\ preview[loopPreview] # "live"
  /\ loopAt' = "idle"
  /\ loopPreview' = NoPreview
  /\ UNCHANGED <<row, registryVars, loopRefs, threadVars>>

StartExpired ==                                               \* 410
  /\ loopAt = "consume"
  /\ preview[loopPreview] = "live"
  /\ previewLeft[loopPreview] = 0
  /\ DropPreviews({loopPreview}, "expired")
  /\ loopAt' = "idle"
  /\ loopPreview' = NoPreview
  /\ UNCHANGED <<row, batch, batchLeft, eligible, results, loopRefs, threadVars>>

(* Seeded fault: the preview is read and stays.                            *)
PeekPreview ==
  /\ loopAt = "consume"
  /\ preview[loopPreview] = "live"
  /\ previewLeft[loopPreview] > 0
  /\ loopRefs' = previewRefs[loopPreview]
  /\ loopAt' = "add_batch"
  /\ loopPreview' = NoPreview
  /\ UNCHANGED <<row, registryVars, threadVars>>

ConsumePreview ==
  /\ loopAt = "consume"
  /\ preview[loopPreview] = "live"
  /\ previewLeft[loopPreview] > 0
  /\ loopRefs' = previewRefs[loopPreview]
  /\ DropPreviews({loopPreview}, "used")
  /\ loopAt' = "add_batch"
  /\ loopPreview' = NoPreview
  /\ UNCHANGED <<row, batch, batchLeft, eligible, results, threadVars>>

(* Seeded fault: the route forgets the background task.                    *)
AddBatchOnly(b) ==
  /\ loopAt = "add_batch"
  /\ batch[b] = "unborn"
  /\ batch' = [batch EXCEPT ![b] = IF loopRefs = {} THEN "completed"
                                                    ELSE "starting"]
  /\ eligible' = [eligible EXCEPT ![b] = loopRefs]
  /\ loopAt' = "idle"
  /\ loopRefs' = {}
  /\ UNCHANGED <<row, preview, previewLeft, previewRefs, batchLeft, results,
                 loopPreview, threadVars>>

(* add_batch; the route then hands execute to the background tasks, unless *)
(* there is nothing to run.                                                *)
AddBatch(b) ==
  /\ loopAt = "add_batch"
  /\ batch[b] = "unborn"
  /\ batch' = [batch EXCEPT ![b] = IF loopRefs = {} THEN "completed"
                                                    ELSE "starting"]
  /\ batchLeft' = [batchLeft EXCEPT ![b] = IF loopRefs = {} THEN BatchTTL
                                                            ELSE Never]
  /\ eligible' = [eligible EXCEPT ![b] = loopRefs]
  /\ results' = [results EXCEPT ![b] =
                   [s \in Source |-> IF s \in loopRefs THEN Pending ELSE NoResult]]
  /\ exec' = [exec EXCEPT ![b] = IF loopRefs = {} THEN "none" ELSE "scheduled"]
  /\ loopAt' = "idle"
  /\ loopRefs' = {}
  /\ UNCHANGED <<row, preview, previewLeft, previewRefs, loopPreview,
                 worker, attempt, runs>>

(* A status request on a thread of its own: cleanup, and a read.           *)
PollStatus ==
  /\ Cleanup
  /\ UNCHANGED <<row, loopVars, threadVars>>

-----------------------------------------------------------------------------
(* The background task: SourceBatchExecutor.execute.                       *)

FetchBatch(b) ==
  /\ exec[b] = "scheduled"
  /\ exec' = [exec EXCEPT ![b] = IF batch[b] \in Stored THEN "fetched" ELSE "ended"]
  /\ UNCHANGED <<row, registryVars, loopVars, worker, attempt, runs>>

MarkRunning(b) ==
  /\ exec[b] = "fetched"
  /\ batch' = [batch EXCEPT ![b] = "running"]
  /\ exec' = [exec EXCEPT ![b] = "submitting"]
  /\ UNCHANGED <<row, preview, previewLeft, previewRefs, batchLeft, eligible,
                 results, loopVars, worker, attempt, runs>>

(* The sources in Q are in the queue of the pool.                          *)
Enqueue(b, Q) ==
  worker' = [worker EXCEPT ![b] = [s \in Source |-> IF s \in Q THEN "queued"
                                                              ELSE "none"]]

SubmitAll(b) ==
  /\ exec[b] = "submitting"
  /\ Enqueue(b, eligible[b])
  /\ exec' = [exec EXCEPT ![b] = "waiting"]
  /\ UNCHANGED <<row, registryVars, loopVars, attempt, runs>>

(* submit raises when the system cannot start a thread.  What was queued   *)
(* for threads that did start still runs: leaving the with statement waits *)
(* for it.                                                                 *)
SubmitRaises(b) ==
  /\ exec[b] = "submitting"
  /\ \E Q \in SUBSET eligible[b] : Enqueue(b, Q)
  /\ exec' = [exec EXCEPT ![b] = "raised"]
  /\ UNCHANGED <<row, registryVars, loopVars, attempt, runs>>

PoolDrained(b) == \A s \in Source : worker[b][s] \in {"none", "done"}

(* Seeded fault: the pool is not waited for.                               *)
MarkCompletedEarly(b) ==
  /\ exec[b] = "waiting"
  /\ Conclude(b, "completed")
  /\ exec' = [exec EXCEPT ![b] = "ended"]
  /\ UNCHANGED <<row, preview, previewLeft, previewRefs, eligible, results,
                 loopVars, worker, attempt, runs>>

(* Seeded fault: a source that became unavailable is not counted.          *)
MarkCompletedByAttempts(b) ==
  /\ exec[b] = "waiting"
  /\ PoolDrained(b)
  /\ Conclude(b, IF \E s \in Source : /\ results[b][s].status = "failed"
                                      /\ results[b][s].attempts = MaxAttempts
                 THEN "completed_with_failures"
                 ELSE "completed")
  /\ exec' = [exec EXCEPT ![b] = "ended"]
  /\ UNCHANGED <<row, preview, previewLeft, previewRefs, eligible, results,
                 loopVars, worker, attempt, runs>>

MarkCompleted(b) ==
  /\ exec[b] = "waiting"
  /\ PoolDrained(b)
  /\ Conclude(b, IF \E s \in Source : results[b][s].status = "failed"
                 THEN "completed_with_failures"
                 ELSE "completed")
  /\ exec' = [exec EXCEPT ![b] = "ended"]
  /\ UNCHANGED <<row, preview, previewLeft, previewRefs, eligible, results,
                 loopVars, worker, attempt, runs>>

(* Seeded fault: the pool is left without waiting for its threads.         *)
MarkFailedAtOnce(b) ==
  /\ exec[b] = "raised"
  /\ Conclude(b, "failed")
  /\ exec' = [exec EXCEPT ![b] = "ended"]
  /\ UNCHANGED <<row, preview, previewLeft, previewRefs, eligible, results,
                 loopVars, worker, attempt, runs>>

MarkFailed(b) ==
  /\ exec[b] = "raised"
  /\ PoolDrained(b)
  /\ Conclude(b, "failed")
  /\ exec' = [exec EXCEPT ![b] = "ended"]
  /\ UNCHANGED <<row, preview, previewLeft, previewRefs, eligible, results,
                 loopVars, worker, attempt, runs>>

-----------------------------------------------------------------------------
(* A worker: SourceBatchExecutor._run_source_with_retries.                 *)

Step(b, s, from, to) ==
  /\ worker[b][s] = from
  /\ worker' = [worker EXCEPT ![b][s] = to]

Busy(b) == {s \in Source : worker[b][s] \in InSlot}

(* A thread of the pool takes s from the queue and starts the first turn   *)
(* of the loop.  Any queued source may be next.                            *)
TakeSource(b, s) ==
  /\ Cardinality(Busy(b)) < MaxConcurrency
  /\ Step(b, s, "queued", "begin")
  /\ attempt' = [attempt EXCEPT ![b][s] = 1]
  /\ UNCHANGED <<row, registryVars, loopVars, exec, runs>>

BeginAttempt(b, s) ==
  /\ Step(b, s, "begin", "check")
  /\ UpdateResult(b, s, "running", attempt[b][s])
  /\ UNCHANGED <<row, preview, previewLeft, previewRefs, batch, batchLeft,
                 eligible, loopVars, exec, attempt, runs>>

(* Only presence, deletion and is_active are looked at again, not health.  *)
CheckSource(b, s) ==
  /\ Step(b, s, "check", IF row[s] \in Runnable THEN "ingest" ELSE "unavailable")
  /\ UNCHANGED <<row, registryVars, loopVars, exec, attempt, runs>>

(* The worker returns: its locals are gone.                                *)
Return(b, s, from, status, attempts) ==
  /\ Step(b, s, from, "done")
  /\ UpdateResult(b, s, status, attempts)
  /\ attempt' = [attempt EXCEPT ![b][s] = 0]
  /\ runs' = [runs EXCEPT ![b][s] = 0]
  /\ UNCHANGED <<row, preview, previewLeft, previewRefs, batch, batchLeft,
                 eligible, loopVars, exec>>

(* Seeded fault: the attempts that were made are forgotten.                *)
ReportNeverTried(b, s) == Return(b, s, "unavailable", "failed", 0)

ReportUnavailable(b, s) ==
  Return(b, s, "unavailable", "failed", attempt[b][s] - 1)

(* Seeded fault: the loop goes on after a success.                         *)
ReportSuccessAndGoOn(b, s) ==
  /\ Step(b, s, "succeeded", IF attempt[b][s] < MaxAttempts THEN "sleep" ELSE "done")
  /\ UpdateResult(b, s, "success", attempt[b][s])
  /\ UNCHANGED <<row, preview, previewLeft, previewRefs, batch, batchLeft,
                 eligible, loopVars, exec, attempt, runs>>

ReportSuccess(b, s) == Return(b, s, "succeeded", "success", attempt[b][s])

ReportExhausted(b, s) == Return(b, s, "exhausted", "failed", MaxAttempts)

AfterFailure(b, s) == IF attempt[b][s] < MaxAttempts THEN "sleep" ELSE "exhausted"

(* run_source committed a run and the health it derives from it.  A run    *)
(* that fetched nothing succeeds and leaves the source unhealthy.          *)
SetHealth(s, health) ==
  row' = [row EXCEPT ![s] = IF row[s] \in Runnable THEN health ELSE row[s]]

RunSucceeds(b, s) ==
  /\ Step(b, s, "ingest", "succeeded")
  /\ \E health \in Runnable : SetHealth(s, health)
  /\ runs' = [runs EXCEPT ![b][s] = runs[b][s] + 1]
  /\ UNCHANGED <<registryVars, loopVars, exec, attempt>>

RunFails(b, s) ==
  /\ Step(b, s, "ingest", AfterFailure(b, s))
  /\ SetHealth(s, "unhealthy")
  /\ runs' = [runs EXCEPT ![b][s] = runs[b][s] + 1]
  /\ UNCHANGED <<registryVars, loopVars, exec, attempt>>

(* Seeded fault: an attempt that raised does not count and is made again.  *)
RunRaisesAgain(b, s) ==
  /\ Step(b, s, "ingest", "begin")
  /\ UNCHANGED <<row, registryVars, loopVars, exec, attempt, runs>>

(* Opening the session, reading the source or run_source itself raises:    *)
(* nothing of the run is kept.                                             *)
RunRaises(b, s) ==
  /\ \/ Step(b, s, "check", AfterFailure(b, s))
     \/ Step(b, s, "ingest", AfterFailure(b, s))
  /\ UNCHANGED <<row, registryVars, loopVars, exec, attempt, runs>>

(* The backoff is slept in the worker's thread, which it keeps.            *)
NextAttempt(b, s) ==
  /\ Step(b, s, "sleep", "begin")
  /\ attempt' = [attempt EXCEPT ![b][s] = attempt[b][s] + 1]
  /\ UNCHANGED <<row, registryVars, loopVars, exec, runs>>

-----------------------------------------------------------------------------
(* Around it: the clock, other users of the sources table, the process.    *)

Tick ==
  /\ previewLeft' = [p \in PreviewId |-> IF previewLeft[p] > 0
                                         THEN previewLeft[p] - 1
                                         ELSE previewLeft[p]]
  /\ batchLeft' = [b \in BatchId |-> IF batchLeft[b] > 0 THEN batchLeft[b] - 1
                                                         ELSE batchLeft[b]]
  /\ UNCHANGED <<row, preview, previewRefs, batch, eligible, results,
                 loopVars, threadVars>>

(* Created, deactivated, activated, deleted, or run on its own with some   *)
(* outcome, by a handler that is not modelled here.                        *)
SourceChanges(s) ==
  /\ \E r \in Row \ {"missing"} :
       /\ r = "deleted" => row[s] # "missing"
       /\ row' = [row EXCEPT ![s] = r]
  /\ row[s] # "deleted"
  /\ UNCHANGED <<registryVars, loopVars, threadVars>>

(* The process dies and is started again: registry and threads are lost,   *)
(* uncommitted work as well; the database is not.                          *)
Restart ==
  /\ DropPreviews({p \in PreviewId : preview[p] = "live"}, "lost")
  /\ DropBatches({b \in BatchId : batch[b] \in Stored})
  /\ loopAt' = "idle"
  /\ loopPreview' = NoPreview
  /\ loopRefs' = {}
  /\ exec' = [b \in BatchId |-> IF exec[b] = "none" THEN "none" ELSE "ended"]
  /\ worker' = [b \in BatchId |-> [s \in Source |-> "none"]]
  /\ attempt' = [b \in BatchId |-> [s \in Source |-> 0]]
  /\ runs' = [b \in BatchId |-> [s \in Source |-> 0]]
  /\ UNCHANGED row

-----------------------------------------------------------------------------
LoopStep == \/ \E p \in PreviewId : AddPreview(p)
            \/ CheckActive
            \/ StartNotFound
            \/ StartExpired
            \/ ConsumePreview
            \/ \E b \in BatchId : AddBatch(b)

Request == \/ \E selection \in SUBSET Source : RequestPreview(selection)
           \/ \E p \in PreviewId : RequestStart(p)
           \/ PollStatus

ExecStep(b) == \/ FetchBatch(b)
               \/ MarkRunning(b)
               \/ SubmitAll(b)
               \/ SubmitRaises(b)
               \/ MarkCompleted(b)
               \/ MarkFailed(b)

WorkerStep(b, s) == \/ TakeSource(b, s)
                    \/ BeginAttempt(b, s)
                    \/ CheckSource(b, s)
                    \/ ReportUnavailable(b, s)
                    \/ RunSucceeds(b, s)
                    \/ RunFails(b, s)
                    \/ RunRaises(b, s)
                    \/ NextAttempt(b, s)
                    \/ ReportSuccess(b, s)
                    \/ ReportExhausted(b, s)

Environment == Tick \/ Restart \/ \E s \in Edited : SourceChanges(s)

Next == \/ LoopStep
        \/ Request
        \/ \E b \in BatchId : ExecStep(b)
        \/ \E b \in BatchId, s \in Source : WorkerStep(b, s)
        \/ Environment

Spec == Init /\ [][Next]_vars

(* A handler on the event loop, a background task and a pool thread run    *)
(* on: they block on nothing but HTTP calls with a timeout, database       *)
(* calls and a sleep of seconds.  Nobody has to ask, poll or edit.         *)
Fairness == /\ WF_vars(LoopStep)
            /\ \A b \in BatchId : WF_vars(ExecStep(b))
            /\ \A b \in BatchId, s \in Source : WF_vars(WorkerStep(b, s))

FairSpec == Spec /\ Fairness
-----------------------------------------------------------------------------
(* The properties.                                                         *)

(* There is never more than one batch that is starting or running, though  *)
(* has_active_batch, consume_preview and add_batch take the lock one by    *)
(* one (start_batch).                                                      *)
OneActiveBatch ==
  \A b, c \in BatchId : batch[b] \in Active /\ batch[c] \in Active => b = c

(* No more batches were started than previews were confirmed: the same     *)
(* confirmation never starts two (consume_preview pops).                   *)
ConfirmedOnce ==
  Cardinality({b \in BatchId : batch[b] # "unborn"})
    <= Cardinality({p \in PreviewId : preview[p] = "used"})

(* Threads that work for a batch find it in the registry, so the lookups   *)
(* self._batches[batch_id] of mark_batch_* and update_source_result cannot *)
(* raise: no clean-up and no early conclusion removes it under them.       *)
WorkHasItsBatch ==
  \A b \in BatchId :
    /\ exec[b] \in {"scheduled", "fetched"} => batch[b] = "starting"
    /\ exec[b] \in {"submitting", "waiting", "raised"} => batch[b] = "running"
    /\ \A s \in Source : worker[b][s] \notin {"none", "done"} => batch[b] = "running"

(* The whole process never runs more than MaxConcurrency sources for       *)
(* batches, whichever batch they belong to.                                *)
PoolWithinLimit ==
  Cardinality({w \in BatchId \X Source : worker[w[1]][w[2]] \in InSlot})
    <= MaxConcurrency

(* A batch that says it completed has a verdict for each of its sources,   *)
(* and says "with failures" exactly if one failed.  One that failed shows  *)
(* nothing as still running.                                               *)
FinalStatusIsRight ==
  \A b \in BatchId :
    /\ batch[b] \in {"completed", "completed_with_failures"} =>
         \A s \in eligible[b] : results[b][s].status \in Settled
    /\ batch[b] = "completed" =>
         \A s \in Source : results[b][s].status # "failed"
    /\ batch[b] = "completed_with_failures" =>
         \E s \in Source : results[b][s].status = "failed"
    /\ batch[b] = "failed" =>
         \A s \in Source : results[b][s].status # "running"

(* What a result shows of its attempts agrees with the runs on record:     *)
(* there are no more runs than attempts used, the attempt being made has   *)
(* none yet, and a success has at least one.                               *)
AttemptsAccounted ==
  \A b \in BatchId, s \in Source :
    LET r == results[b][s] IN
      /\ r.status \in {"none", "pending"} => r.attempts = 0 /\ r.runs = 0
      /\ r.status = "running" => r.runs < r.attempts
      /\ r.status = "success" => r.runs \in 1..r.attempts
      /\ r.status = "failed"  => r.runs <= r.attempts

(* A preview is spent on a batch that is added next, and otherwise only by *)
(* its expiry or a restart: a start refused because another batch is       *)
(* active leaves it to be used later.                                      *)
SpentOnABatch ==
  [][\A p \in PreviewId :
       preview[p] = "live" /\ preview'[p] # "live" =>
         \/ preview'[p] = "used" /\ loopAt' = "add_batch" /\ ~HasActiveBatch
         \/ preview'[p] = "expired" /\ previewLeft[p] = 0
         \/ preview'[p] = "lost"]_vars

(* Every started batch comes to an end, so that another can be started.    *)
EveryBatchFinishes ==
  \A b \in BatchId : batch[b] \in Active ~> batch[b] \notin Active

(* Where the threads of a batch stand on their way: what the executor has  *)
(* before it, and what a source has, counted in steps of its worker.       *)
ExecLeft(b) ==
  CASE exec[b] = "scheduled"              -> 4
    [] exec[b] = "fetched"                -> 3
    [] exec[b] = "submitting"             -> 2
    [] exec[b] \in {"waiting", "raised"} -> 1
    [] OTHER                              -> 0

StepsLeft == [begin       |-> 5, check     |-> 4, ingest    |-> 3, sleep |-> 2,
              unavailable |-> 1, succeeded |-> 1, exhausted |-> 1]

WorkLeft(b, s) ==
  CASE worker[b][s] \in InSlot -> 6 * (MaxAttempts - attempt[b][s]) + StepsLeft[worker[b][s]]
    [] worker[b][s] = "queued" -> 6 * MaxAttempts
    [] worker[b][s] = "none" /\ ExecLeft(b) > 1 -> 6 * MaxAttempts + 1
    [] OTHER -> 0

(* The threads of a batch only come nearer to its end: no step of them, or *)
(* of anybody else, makes more for them to do, so retries run out.         *)
BatchOnlyAdvances ==
  [][\A b \in BatchId : batch[b] \in Active /\ batch'[b] \in Active =>
       /\ ExecLeft(b)' <= ExecLeft(b)
       /\ exec'[b] # exec[b] => ExecLeft(b)' < ExecLeft(b)
       /\ \A s \in Source :
            /\ WorkLeft(b, s)' <= WorkLeft(b, s)
            /\ worker'[b][s] # worker[b][s] => WorkLeft(b, s)' < WorkLeft(b, s)]_vars

ExecReady(b) == \/ exec[b] \in {"scheduled", "fetched", "submitting"}
                \/ exec[b] \in {"waiting", "raised"} /\ PoolDrained(b)

WorkerReady(b, s) == \/ worker[b][s] \in InSlot
                     \/ worker[b][s] = "queued" /\ Cardinality(Busy(b)) < MaxConcurrency

(* And while a batch is active one of its threads can take a step: nobody  *)
(* waits for a pool that waits for him.                                    *)
BatchCanMove ==
  \A b \in BatchId : batch[b] \in Active =>
    ExecReady(b) \/ \E s \in Source : WorkerReady(b, s)

(* A start that names a preview which has expired is told so (410) and not *)
(* that there never was one (404).                                         *)
ExpiredIsToldApart ==
  loopAt = "consume" => preview[loopPreview] # "expired"

(* The abstract specification, and how its state reads here.               *)
PhaseOf(b) == CASE batch[b] = "unborn"   -> "absent"
                [] batch[b] \in Active   -> "active"
                [] batch[b] \in Terminal -> batch[b]
                [] batch[b] = "gone"     -> "forgotten"

VerdictOf(b, s) == CASE results[b][s].status = "none" -> "no_part"
                     [] results[b][s].status \in {"pending", "running"} -> "open"
                     [] results[b][s].status \in Settled -> results[b][s].status

Lifecycle == INSTANCE BatchLifecycle WITH
               phase   <- [b \in BatchId |-> PhaseOf(b)],
               verdict <- [b \in BatchId |-> [s \in Source |-> VerdictOf(b, s)]]

(* The batch subsystem, threads, locks and clock included, behaves as the  *)
(* abstract batches do.                                                    *)
ImplementsLifecycle == Lifecycle!ASpec
=============================================================================
