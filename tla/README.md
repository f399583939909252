# Formal models of the job intelligence platform

TLA+ models of the job intelligence platform (a FastAPI application in
`src/app`), the TLC configurations that check them and TLAPS proofs about them.

## The system

| part | state | operations | hard behaviour |
| --- | --- | --- | --- |
| source batch runs (`domain/source_batch_runs.py`) | previews, batches (in memory), executor and worker threads | preview, start, poll, execute, run with retries, clean up | check-then-act over three lock sections, expiry against running threads, retries, a source deleted between attempts |
| ingestion (`domain/ingestion.py`) | source runs, tracked jobs, links, health of sources | run a source | overlaps with tracking, deletion and other runs; partial failure |
| transient results (`domain/transient_ingestion.py`) | untracked results per source and per run (in memory) | replace, list, get, consume | two indexes kept in step; replaced while a user tracks |
| tracking (`domain/tracking.py`) | tracking status and events of jobs | keep, set status, track a transient result | duplicates of a posting, commit before consume |
| sources (`domain/sources.py`, `source_health_cleanup.py`, `source_seed.py`) | sources, two unique keys, health | create, update, delete, import, clean up, seed | check-then-insert, sessions that write only what changed since they read it |
| source delete cleanup (`domain/source_cleanup.py`, `job_visibility.py`) | jobs and everything that hangs on them | clean up after a delete, decide what is visible | not durable; READ COMMITTED statements interleave with classification and ingestion |
| classification, preferences (`domain/classification.py`, `job_preferences.py`) | decisions, the latest in the row of its job | validate, classify, reclassify | two transactions that classify one job; scores at the boundary of buckets |
| notifications (`domain/notifications.py`) | digests, reminders | generate, dismiss | windows that have to join, generations that overlap |
| batch page (`static/js/app.js`) | selection, pending preview, polling | preview, confirm, poll | answers out of order |

Handlers declared `async def` run on the event loop and are atomic between
awaits; the others, and background tasks that are plain functions, run on pool
threads. The in-memory registries are shared by all of them under locks; the
database is shared under READ COMMITTED.

That is PostgreSQL, to which `.env.example` and `docker-compose.yml` point the
application, and the models take its semantics: row locks held to the end of a
transaction, statements that see what is committed when they run, an UPDATE or
DELETE that waits and looks again, foreign keys that refuse. Without a
`DATABASE_URL` the settings fall back to SQLite (`app/config/settings.py:11`), as the
tests do (`tests/conftest.py:29`). There one transaction writes at a time, so
interleavings of statements of two writers are fewer, and nothing sets
`PRAGMA foreign_keys`, so rows can be left whose job is gone; the results here
that rest on waits and refusals are not about that database.

## Modules

* `BatchLifecycle` is the abstract specification of batch runs: one batch at a
  time, at most one verdict for each source, a final status that agrees with
  the verdicts, finished batches forgotten some time, all of them by a crash.
* `SourceBatchRuns` is the code: each action is one critical section of the
  registry's lock, or one database access, with the local computation around
  it. `row` is the sources table, `preview*` and `batch*`, `eligible`,
  `results` are the two dictionaries of the registry, `loop*` the handler on
  the event loop, `exec` the program counter of `SourceBatchExecutor.execute`,
  `worker`, `attempt`, `runs` the counter and locals of
  `_run_source_with_retries`. Previews that are gone are remembered as
  "used", "expired" or "lost", which the code does not do; no guard reads the
  difference.
* `MCSourceBatchRuns` adds the symmetry of preview and batch identifiers.
* `SourceBatchRunsProofs`, `SourceBatchRunsRefinement` hold the theorems.
* `SourceDeleteCleanup` is the deletion of a source and its background cleanup,
  one action per statement of `cleanup_source`. `rows` is what is committed of
  the seven tables about jobs, `gone[c]` what cleanup `c` has deleted and still
  holds locked; a DELETE waits for rows that another cleanup holds and is
  refused when a foreign key forbids it. Every other transaction (ingestion,
  tracking, reclassification, handlers that add events, reminders or digest
  items) is one step where it commits; one that made a DELETE wait commits
  directly after it (`Free`), because a waiting DELETE does not see what the
  other inserted. `quiet[c]` is history: nobody but other cleanups wrote to the
  jobs of `c` since it listed them. A new row of a posting deleted before has a
  new id, so it is another member of `Job`. `current_state` is never anything
  but "active" (no code writes another value), so the model leaves it out.
* `MCSourceDeleteCleanup` adds symmetry, `SourceDeleteCleanupProofs` the
  theorems.

* `TransientTracking` is what a run finds and nobody tracks: `run_source`, the
  registry of temporary results and `track_transient_job`. `byId`,
  `idsBySource`, `idsByRun` are the dictionaries of the registry; `shown` the
  rows of `job_postings` by `canonical_key`, each with the posting it shows at
  present, `links` the rows of `job_source_links`. A run has its place (`at`),
  candidates (`todo`), `transient_jobs` (`found`) and what it has flushed
  (`over`, `added`, `dropped`), which it sees itself, keeps locked and loses if
  it is rolled back. `loop` is the event loop: a run by the route and a
  tracking have it from beginning to end, a batch worker does not need it. Each
  candidate is a step to match and one to write; a tracking is read, match,
  write with commit, consume. `lister`, `saved`, `known` are history. A
  temporary result is named by its run and posting instead of a uuid. Every
  row is tracked: migration 0005 deleted the others, the application does not
  start before it (`schema_guard.py`), and nothing sets a status to NULL; so
  the branches for untracked rows (`RuntimeError`, answered 409) are not
  reached and left out. `Abort` lets the database refuse any statement of a run;
  `Refused` is when it must: a row that is gone, or a circle of waits.
* `TransientListing` is the abstract specification of that: a run publishes what
  it found once, all of it, in place of what its source listed, and nothing that
  was tracked when it began; a listed result is chosen and saved, which makes at
  most one job and takes it off the list in the same step. Registry, rows,
  locks, matching, transactions are all below it. A result counts as listed
  while it is in the registry, but not between the commit that saves it and its
  `consume` (`Unsaved`).
* `MCTransientTracking` has the postings, `TransientTrackingProofs` the
  theorems.

* `SourceCatalog` is the table of sources. `row` has the columns that decide
  something, with both keys and the health. Migrations 0003 and 0004
  (`CleanUpSourceHealth`, `AddSeed`) run first, on any table older versions can
  have left; then requests create, import, edit, delete and run sources. A
  SQLAlchemy session keeps the row as it has read it (`seen`) and writes the
  columns that were set to something else (`Flush`), so each request is a load, a
  check and a write with anything in between that the event loop allows
  (`loop`): the form of an edit and the body of a run are awaited after the
  load, deletions and batch workers are on threads. The unique indexes are left
  out of the actions, since `StoredKeysUnique` says they never refuse anything.
  `torn`, `overlapped`, `truth` are history.
* `SourceDirectory` is the abstract specification of that: every source holds keys
  that no other holds, is entered once, exchanges its keys for free ones in one
  step, and leaves for good. Columns, sessions, checks, requests are all below
  it; of a row that is deleted nothing is left in it. An old table, whose
  entries may collide, is opened by removing some and changing none.
* `MCSourceCatalog` has the texts and old tables, `SourceCatalogProofs` the
  theorems.

* `Classification` has the validation of preferences and the rules of
  `preview_job` as operators. A posting is the set of keywords it contains and
  whether its description is short: no rule looks at anything else. The numbers
  are those of the code.
* `JobDecisions` extends it with the transactions that classify tracked jobs. A
  run or the tracking of a result matches a job, updates it, then runs
  `persist_snapshot`; a reclassification loads all jobs and runs it for each.
  Each statement is a step; the UPDATE of the decisions is two, what it finds and
  the wait for other transactions (`FindDecisions`, `ClearCurrent`), as READ
  COMMITTED has it. `row` and `decision` are the tables, where a decision is `by`
  its transaction until that commits; `copy` and `locked` what a transaction has
  written to jobs, `seen` what its session remembers. `stale` and `torn` are
  history: who has loaded a job that another has updated since. `Loop` is all
  handlers on the event loop, one at a time, `Worker` the threads of a batch.
  Jobs are not deleted here (`SourceDeleteCleanup` has that).
* `DecisionLedger` is the abstract specification of that: decisions enter a ledger,
  those of one transaction in one step and after all that their jobs had; none is
  changed or removed, and one that is current stops being so only when its job
  gets a later one. It lets the earlier one stay current, as the code does when a
  session was stale.
* `MCJobDecisions` has keywords, preferences and postings, `JobDecisionsProofs`
  the theorems.

* `Digests` is `generate_digest` on several threads. Time is discrete, a day has
  `DayLength` units, a generation takes `Longest` at most. `made` and `items` are
  the tables; decisions are inserted with the time of the insert and seen from
  their commit on (`flying`, `current`). `alone`, `shared`, `late`, `found` are
  history. `MCDigests` adds symmetry, `DigestsProofs` the theorems.

* `Reminders` has updates of a tracking status on the event loop, generations of
  reminders on threads, and dismissals. An update is three steps: load the job,
  await the body and set the status, commit. A generation is a SELECT of the jobs
  and two more for each, `seen` what its session has loaded. `events` is the table;
  `Latest` is its last row for a job. `overtaken`, `torn`, `everTorn`, `crowded`,
  `gone` are history. `MCReminders` adds symmetry, `RemindersProofs` the theorems.

Operators commented "Seeded fault" are not part of the specification. Each is a
plausible mistake in the definition that follows it, kept to show that the
property named for it in `PROJECT.json` would notice.

## Runs

| run | instance | question |
| --- | --- | --- |
| `batch_registry` | 2 sources, 2 previews, 2 batches, 1 thread, 2 attempts, every initial table | do starts, polls, expiry, restarts and executors keep one batch at a time, spend confirmations properly, keep batches under their threads, keep the limit, implement `BatchLifecycle`? |
| `batch_pool` | 3 sources, 1 batch, 2 threads, 2 attempts, one source edited, fair | do final status and attempt counts agree with what ran, can a batch always go on, does every step count, and does every batch end? |
| `cleanup_three` | 1 source, 1 job, 3 cleanups, 3 decisions | do cleanups of one source disturb each other or wait in a circle; does any interleaving delete a matched job, does an undisturbed cleanup take rows of a job that stays? |
| `cleanup_progress` | 2 sources, 1 job, 2 cleanups, fair | does every cleanup of one source or of two with shared jobs end, and what is left associated? |
| `cleanup_retained` | 1 source, 1 job, 1 cleanup | do retained jobs keep their rows? No: see below |
| `transient_lists` | 1 source, 2 runs of up to 2 of 3 postings, fair | do overlapping runs, trackings, cleanups and restarts keep the list right, implement `TransientListing`, keep one job of a key, and does the event loop get free, with somebody it waits for able to go on at any time? |
| `transient_ac10` | 1 source, 2 runs of up to 1 of 3 postings | can a listed result be saved? No: see below |
| `source_catalog` | up to 2 old sources and a third row, 3 requests, 2 rows to import | are the unique indexes ever needed, do keys and health agree with what was written, is the cleanup idempotent, does the whole implement `SourceDirectory`? |
| `catalog_duplicates` | at most 2 sources, 3 requests | does every edit leave an identity of its own? No: see below |
| `job_decisions` | 1 job, 3 decisions, event loop and 1 worker, 4 payloads, 2 postings | do decisions enter `DecisionLedger` in their order, is the latest of a job the only current one, does the row show what it says, do buckets follow preferences? |
| `digests` | 1 job, 2 decisions, 2 threads, days 0 to 2 of 2 units | is every decision in a digest, once? |
| `reminders` | 1 job, 3 statuses, 2 updates, 2 threads, 2 generations | do statuses follow their events, do overdue jobs have one reminder, of the right status? |

No run checks a type invariant: each module has one, it is a part of the inductive
invariant, and `TypeCorrect` (or `IInv` itself) is a theorem of its proof module.

Two batches are the fewest that can compete; a third would need one of them
finished and forgotten, which is how the first two follow each other already.
Three sources on two threads make one wait for a thread. Two
attempts have a first, a retry and an exhausted end; the code's third is
another retry (the proofs are for any number). TTLs of one tick let
everything expire at every moment it can. `BatchId`, `PreviewId` bound the number
of requests (uuids); no other counter needs a bound.

In the runs of the cleanup, `MaxDecision` bounds how often a job is classified: a
second decision is what a cleanup can miss, a third lets a job be classified
before one cleanup and again during the next. `Attaching` bounds the kinds of
row handlers add, each to a job once (`Fresh`); "event" and "digest" are the
kinds of the first and the last such DELETE. Three cleanups are the fewest that
wait in a circle: the first takes the decisions of a job that became matched and
spares the job; a second one is past the decisions when the job is classified
again, a third one finds the new decision and waits for an event the second has
deleted, while the second waits, at the job, for that decision. With two sources `MaxDecision` is one, which
is all that the liveness run can afford. The initial databases are all those
in which a tracked job has a decision with a rule, an event and a link to its
primary source, and any further links. These runs do not check deadlock: once the
requests are spent and the bounds reached nothing has to happen.

In the runs of `TransientTracking`, `Run` bounds the runs there are, `MaxFetch` the
candidates of one. Two runs can overlap, each hold a row the other wants, and
replace each other's results while one of these is being tracked; with two
candidates a run has flushed one when the other fails, and can list one twice.
`Changing` has a posting with two texts (two keys, one address and identifier)
and one without identifier.
The initial tables are all those of such postings with one link each. Every
tracking adds to `saved`, which with `Run \X Posting` bounds them.

In the runs of `SourceCatalog` a request is used once, so `Request` bounds what
happens: three can be an edit that waits, another that overtakes it and a new
source that meets the mixture, or two runs and an edit between them. `MaxSource`
leaves one row to create after the seed. The texts have one company in three
spellings, one whose name is another's company, and an address with and without
a slash. Ranks of equal health are ordered by recency in every way (`Recency`).

In the runs of `JobDecisions`, `MaxDecision` bounds the decisions: the first and
one each of two transactions that overlap. The proofs, and simulations with two
jobs and two workers before them, cover the rest. The payloads have blanks,
spellings that differ in case, one that widens another and one with sponsorship;
the postings are on both sides of the threshold of 25, the first with 26 points
by its remote mention and 22 by its place, the second with 18 for one family and
42 for two and its place.

In the run of `Digests` a day of two units has a digest at its beginning or end,
three days let one be left out, and two decisions of one job can replace each
other between two digests or be current together. `Longest` is one, so that a
generation that begins at the end of a day can end on the next.

In the runs of `Reminders` the periods differ (two and three units), a commit takes
up to one, and four units and three events let a job be followed, reminded of,
followed again and reminded of again. Two updates can overtake each other, two
generations overlap. Jobs do not meet in this module but in the list of a
generation; that it gets past each of them is proved for any jobs.

Safety runs of these four do not check deadlock: requests, decisions, events and
time are bounded.

Fairness: the handler on the event loop, each executor and each worker continue
(weak fairness). They wait for nothing but HTTP calls with a timeout of 20
seconds, database calls and sleeps of one and two seconds. No request, poll,
tick, edit or restart is assumed to happen. The background task is assumed to be
run once the response was made, as Starlette does when it could be sent. The
same holds for the tasks of the cleanup, which wait for nothing but locks of
other cleanups and transactions; failures are not fair, so that
`EveryCleanupEnds` also says that cleanups do not wait for each other unless the
database breaks the circle (`Refuse`), and `QuietNeverStuck` that undisturbed
ones need not even that.
In `TransientTracking` each run and the tracking handler continue, and the database
refuses one of a circle of waits; that a run or tracking fails otherwise is not
fair. `LoopReturns` thus says that a handler that waits for a worker's locks on
the event loop is waiting for somebody who ends without the loop.

### Disagreements with the documents

`cleanup_retained`: a retained job should keep its rows. A job that becomes
matched after the partition is spared by the last DELETE only: its links, events,
reminders, digest items and decisions are gone, and `latest_decision_id` may name
a decision that is, in which case `get_job` raises.

`transient_ac10`: tracking a visible result should save it. The results are listed
before their run is committed; until then, and after a run that is not committed
at all, the link refers to a run the database does not know, and the request
fails with a foreign key violation.

`catalog_duplicates`: an edit that would make a source a duplicate should be rejected.
The form of an edit is awaited after the source is loaded, and only columns that
differ from that old row are written. Two edits that overlap can so leave a row
with the company of one and the type of the other, which nobody validated, and
keys that belong to neither or to one; its identity may be another source's.
`KeysFollowColumns` is what holds: without such an overlap the keys are right.

The modules define more promises of the documents that do not hold; TLC finds each
violated on the smallest instance:

* `ExpiredIsToldApart` (`SourceBatchRuns`): the documents promise `410` for an
  expired preview and `404` for an unknown one
  (`docs/backend/sources_batch_run_controls_backend.md:15`); `start_batch` calls
  `cleanup()` first, which removes expired previews.
* `OnlyMatchedRemain` (`SourceDeleteCleanup`): after a cleanup only matched jobs
  should be associated with the deleted source (AC-08). One that is reclassified
  or linked after the jobs were listed stays, hidden, and nothing cleans it up
  later.
* `TrackedStaysItself` (`TransientTracking`): a tracked job should stay (AC-12). A
  candidate whose identifier has no link matches by address, and
  `normalize_url` drops the query, so another posting of a board with
  addresses like `?gh_jid=1` overwrites it (`SamePage` in `MCTransientTracking`).
* `TrackedIsNotListed` (`TransientTracking`): a tracked posting should not be listed
  as untracked (AC-06). One that is tracked after a run has looked at it, and
  before the run replaces the list, is. `KnownIsNotListed` is what does hold.
* `OneCurrentPerJob` (`JobDecisions`): one decision of a job should be current
  (`docs/backend/job_intelligence_platform_backend_implementation_plan.md:377`). A
  reclassification that waits, at the UPDATE that clears `is_current`, for a batch
  worker that classifies the same job does not see that worker's decision and
  leaves it current beside its own. `OneCurrent` is what holds: the last
  transaction must have loaded the job before another one updated it for this to
  happen. Until the job is classified again a digest would contain it twice,
  which the unique constraint refuses (`RefusedOnlyIfRaced` has this case).
* `ProjectionAgrees` (`JobDecisions`) fails in the same runs: `latest_bucket` is
  not written if the stale session thinks it unchanged, while
  `latest_decision_id` always is.
* `NoDecisionTwice` (`Digests`): jobs that generate notifications should be idempotent
  (line 409 of the same plan). Within a day they are, as a job has one item in a
  digest. But a digest that is generated again takes in what was decided since,
  and keeps its `generated_at`, with which the next day's window begins: that
  digest reports those decisions a second time. So it does with a decision made
  in the very instant of `generated_at`, as windows include both ends.
* `OnlyNewJobs` (`Digests`): a digest should include only new jobs
  (`docs/product/job_intelligence_platform_mvp_product_spec.md:241`). What makes a job
  new for a digest is the time of its current decision, and every
  reclassification makes one: a job that was reported is reported again after it.
  `ReportedOnce` is what holds of decisions, on days generated once and alone.
* `NoDuplicateReminder` (`Reminders`): generation should avoid duplicate pending
  reminders (line 474 of the same plan). No constraint stands behind the look for
  a pending one, so two generations that overlap add one each. `OnePending` is
  what holds.
* `PendingIsOverdue` (`Reminders`): generation should create or refresh reminders,
  which say what is overdue (lines 429 and 441). It never changes one: a
  `saved_follow_up` stays pending when the job was applied for, until it is
  dismissed by hand, and hides the `applied_follow_up` on the job's card. What
  holds is that nothing is missing (`AllReminded`) and that every reminder was
  right once (`DueOfAnEvent`).
* `AnswerIsChoice` (`Reminders`): an update should answer with the status it was
  asked for (`tests/integration/test_api_flow.py:82`). It loads the job before it
  awaits its body; if another update is committed meanwhile and this one sets the
  status that was loaded, the session writes only the event. `StatusIsLatest` is
  what holds: without such an overlap the status is that of the latest event.

## Proofs

`SourceBatchRunsProofs` proves, for any sources, previews, batches and limits,
that `IInv` is inductive. The properties are not inductive by themselves:
that at most one batch is active (`OneActiveBatch`, which has no run since
`BatchLifecycle` says it too) needs that nobody has become active since `has_active_batch`
answered (`LoopInv`), and that only a batch whose executor has just fetched it
becomes "running" (`ExecInv`); the final status needs that a source without
verdict has a worker (`ResultInv`), and the attempt counts that the locals of a
worker agree with its place (`WorkerInv`). From `IInv` follow `TypeCorrect`,
`AtMostOneActive`, `BatchOutlivesItsThreads`, `FinalStatusCorrect`,
`AttemptsCorrect` and the action property `ConfirmationNotWasted`. `PoolLimit`
adds that each pool is within its limit and that pools of two batches are never
busy together; `ConfirmationCountsOnce` counts confirmations against batches.
Of `EveryBatchFinishes` two thirds are proved. `NoBatchStuck`: while a batch is
active one of its threads can go on, since the executor waits only for sources,
a queued source only for a slot, and who has a slot for nobody. `BatchesAdvance`:
what the executor has before it (`ExecLeft`) and what each source has
(`WorkLeft`: six for each attempt left, and its place in the current one) are
naturals that no step of anybody raises, and that every step of the thread
concerned lowers. What is missing is the fairness that makes the step happen.
`SourceBatchRunsRefinement` proves that the specification implements
`BatchLifecycle`. The only assumptions are `BatchAssumption`: a finite set of
sources and positive limits.

`SourceDeleteCleanupProofs` proves, for any sources, jobs, cleanups and bounds,
the invariant `IInv` of the cleanup. Its parts: decisions are numbered below the
next one (`RowInv`, so that a new decision is not among the deleted); the rows a
cleanup has deleted belong to jobs it chose, are there and are nobody else's
(`GoneInv`); a job whose row it deleted is not matched (`BucketInv`, by the lock
on that row); parents of rows are there, also after what a cleanup deleted is
taken away (`ParentInv`); and an undisturbed cleanup sees all the associated
jobs, all the decisions, and has left no row of a kind it is done with
(`QuietInv`). From it follow `MatchedSurvives`,
`QuietLeavesMatched` and `QuietKeepsRetained`: what the
documents promise of a cleanup does hold if no other transaction writes to its
jobs, and of what they promise without condition only `MatchedSurvives` does.
`RefusedDisturbed` and `QuietGoOn` are about waiting. A cleanup holds only rows of
kinds it is done with (`HeldInv`), so an undisturbed one waits for one that is
further in the order of the statements (`WaitsUp`); whoever is in a circle of
waits would be further than itself (`CircleDisturbed`), and a chain of waits
climbs at most seven steps.
`QuietInv` needs that a write to a job already chosen counts as a disturbance
even if another cleanup has removed the link by which it was chosen: with three
decisions TLC found the run in which it mattered. The assumptions are that
`NoSource` is no source and what the bounds are.

`TransientTrackingProofs` proves, for any sources, runs and postings, that the
listing properties are inductive together with: links, also those not yet
committed, belong to rows that are there, and a row a run holds is not deleted
under it (`LinkInv`, by the locks); a run writes only to a job that is there
(`TargetInv`); what the handler consumes has been saved (`HandlerInv`); what is
listed, saved or being tracked comes from a run that reached its replacement,
and what is saved from a committed one (`StageInv`, by the foreign key); and no
run has found one of the jobs known since it began (`KnownInv`, by
`RunsView`: neither its own writes nor others' make a row disappear from its
sight except a cleanup, which ends its being known). From it follow
`IndexesCorrect`, `ListingCorrect`, `SavedOffList`, `FailedListsNothing`,
`KnownNotListed` and `NoSecondJob` (a tracking that found no job inserts one whose
key is still free, `InsertIsNew`: no run that commits after the look shows a row
that was not there). `Refinement` proves that the
specification implements `TransientListing`. It needs from `IInv` that the two
indexes agree, so that a replacement takes away exactly what its source listed
(`IndexesAgree`); that only what is about to be consumed is both saved and
registered, so that a commit is the step that takes a result off the list
(`UnsavedOpen`); that a run has found nothing known (`KnownInv`); that its
commit shows no row that was not there and hides none (`RunsView`); and that who
is about to write has a result not saved before and a job that is there
(`ChosenInv`). The assumptions are that a run has a source and that names are
distinct. `SavedOffList`, `KnownNotListed` and `FailedListsNothing` have no run:
the first two are what the refinement says of the list, the last is proved
only. Of `LoopReturns` all is proved that is not fairness. `LoopNotStuck`: whoever
has the event loop can go on, or waits for runs of which one can. It needs that
only a run that goes on holds rows or the loop (`WaitInv`); of runs that wait only
for each other each is in a circle, and the database refuses one
(`OneOfThemGoesOn`). `RunsComeOn`: what a run has left (`Work`: two for each
candidate, and its place) falls with its own steps and rises with nobody's;
`RunsAdvance` has no run.

`SourceCatalogProofs` proves, for any texts, payloads, requests and tables, that the
properties of the catalog are inductive together with: before the cleanup the
keys of migration 0002 are right and nobody is served (`BackfillInv`); rows
beyond the count are not live (`CountInv`); who is between check and write has
the loop, so that nobody else adds a live key (`RequestInv`); what a session
loaded was live, and had the keys of its columns unless the row is torn by now
(`SessionInv`); and a run that nobody overlaps has read the health that is still
there (`RunInv`). From it follow `KeysUnique`, `ChecksHold`, `KeysAgree`, `HealthCorrect` and
`DeletedForEver`; `KeepersLeft` adds that ranks are distinct, so that each group
has a greatest member. `Refinement` proves that the specification implements
`SourceDirectory`: a step is the cleanup, a new row, or one row written by who
had read it live (`TableSteps`); a flush does not set what its session had not
changed, so a row that was deleted meanwhile stays so (`FlushLive`), and what a
source holds afterwards is nobody else's, since no two live rows share a key in
the next state (`KeysApart`). `DeletedForEver` has no run, as the refinement
includes it.

`JobDecisionsProofs` proves, for any jobs, workers, keywords and limits, what the rows
of jobs say of their decisions. The argument: the UPDATE of a transaction covers
all committed decisions of its job, the first of which never goes, so
transactions take turns at a job (`LockInv`, `ClearInv`); what a transaction has
inserted is newer than everything committed (`OwnInv`); and a session that is not
stale has seen the job as it is and has cleared all that is committed
(`FreshInv`). `Refinement` proves that the specification implements `DecisionLedger`:
nothing is seen of a transaction before it commits (`Unseen`), and a commit
changes the jobs it has decided on, which are those whose rows it has locked, and
no other (`CommitJobs`), so that its decisions come after theirs. The bound of the
run has one job; that a commit enters the decisions of several at once is what
the theorem adds. `LatestStays` has no run, as the refinement includes it.
`WiderStays`, `SponsorshipFilters` and `KeptStayValid` are facts about
the rules and the validation, proved for all keywords and carried to the
decisions there are.

`DigestsProofs` proves, for any jobs, threads, bounds on time and lengths of a day,
what digests report. The assumption is that a generation takes no longer than a
day. The argument: a digest has the day of its time, and while a generation is
alone nobody else changes one (`DigestInv`, `OwnInv`, `AloneInv`), so windows begin
with the last digest before and no later digest has items that are older
(`BatchInv`, `ItemInv`); what is older than some digest is settled, that is late,
reported, or more than a day older than every digest (`SettledInv`), and
generations carry that from the decisions they select to the digest they store
(`StoreInv`, `FoundInv`). Windows join since overlapping generations begin no more
than a day apart.

`RemindersProofs` proves, for any jobs, statuses, requests, threads and bounds, what
statuses and reminders say. The assumption is that a commit takes less than
`saved_reminder_days` and `applied_reminder_days`. The argument: a job has one
latest event (`EventInv`), and an update that nobody overtook has loaded what is
still there, so that the row gets what its event says (`UpdateInv`); generations
have numbers of their own and those that are there together are `crowded`
(`RunInv`, `OnceInv`). A generation that finds a job due has seen the status of its
latest event: if an update came between the two SELECTs the event is younger
than the generation less a commit, and a period after it is yet to come
(`FreshInv`, `SeenOverdue`). So reminders are of an event (`DueInv`), and no overdue
job is passed over (`ReachInv`).

Only model-checked: `EveryBatchFinishes`, `EveryCleanupEnds` and `LoopReturns`,
since liveness is out of the reach of the prover. Of the first, `NoBatchStuck` and
`BatchesAdvance` prove what is not fairness, of the third `LoopNotStuck` and
`RunsComeOn`; of the second, `QuietGoOn` that undisturbed cleanups do not wait in a
circle. Nor is it proved that `ExecReady`, `WorkerReady`, `RunReady` and `TrackReady`
are ENABLED of their steps; TLC found them the same on the instances of
`batch_pool` and `transient_lists`.

## Plan

1. `SourceBatchRuns`, `BatchLifecycle`: done.
2. `TransientTracking`, `TransientListing`: done. Its consistency with module 1 is by hand: `BeginWorker`
   is what `_run_source_with_retries` calls.
3. `SourceCatalog`, `SourceDirectory`: done.
4. `SourceDeleteCleanup`: done.
5. `Digests`: done.
6. `Classification`, `JobDecisions`, `DecisionLedger`: done.
7. `Reminders`: done.

The refinements of the four abstract specifications are proved, not only checked.

Left: the batch page and the adapters, whose models would be mostly environment.

Not modelled: provider adapters (HTTP and JSON; what they return is a
nondeterministic choice); the batch page (`static/js/app.js`), a script whose
requests are among those of `SourceBatchRuns`; migrations other than 0003 and
0004, which run once before anything else; `manual_keep`, which is shown and
read by nothing; templates, sorting and page assembly, which keep no state;
configuration and schemas, which are declarations.
