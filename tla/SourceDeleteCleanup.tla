------------------------- MODULE SourceDeleteCleanup -------------------------
(***************************************************************************)
(* Deleting a source and the background cleanup of its jobs                *)
(* (src/app/domain/source_cleanup.py) beside the transactions of the rest  *)
(* of the application: ingestion runs, tracking, reclassification and the  *)
(* handlers that add tracking events, reminders and digest items.          *)
(*                                                                         *)
(* A database row is a tuple <<kind, job, n>>: n numbers a job's decisions *)
(* and the rules of each, is the source of a link, and is 0 or 1           *)
(* otherwise.  "rows" is what is committed; "gone[c]" is what cleanup c    *)
(* has deleted and not yet committed, rows it holds locked.  A statement   *)
(* reads what is committed when it starts (READ COMMITTED), waits for rows *)
(* that another cleanup has deleted, and is refused when a row it leaves   *)
(* behind refers to one it deletes (the foreign keys of migration 0001).   *)
(*                                                                         *)
(* Every other transaction is one step, placed where it commits.  One that *)
(* updated rows before a DELETE of the same rows makes that DELETE wait,   *)
(* so it commits next, and the DELETE does not see what it inserted: it is *)
(* the step that directly follows the DELETE.  That is the only way in     *)
(* which it can follow it (Free).                                          *)
(*                                                                         *)
(* current_state is "active" on every row the program writes, so "matched  *)
(* and active" is bucket "matched"; "other" stands for review, rejected    *)
(* and no bucket at all.                                                   *)
(***************************************************************************)
EXTENDS Integers, FiniteSets

CONSTANTS Source,        \* sources
          NoSource,      \* the source of a request that has loaded none
          Job,           \* rows of job_postings that may ever exist
          Cleanup,       \* delete requests, each with its background task
          Attaching,     \* bound: the kinds of row that handlers add to a job
          MaxDecision    \* bound: decisions a job may be given

ASSUME NoSourceAssumption == NoSource \notin Source

ASSUME AttachingKinds == Attaching \subseteq {"event", "reminder", "digest"}

ASSUME DecisionBound == MaxDecision \in Nat \ {0}

VARIABLES
    deleted,   \* sources whose deleted_at is set
    rows,      \* committed rows of the seven tables
    primary,   \* job_postings.primary_source_id
    bucket,    \* job_postings.latest_bucket
    latest,    \* job_postings.latest_decision_id, 0 before the row exists
    at,        \* the step each delete request and its task has reached
    source,    \* the source it deletes
    doomed,    \* associated_ids, then delete_ids
    ids,       \* decision_ids
    gone,      \* rows deleted and not committed
    quiet,     \* history: nobody else wrote to its jobs since List
    flying,    \* sources with an ingestion run in progress
    listed,    \* sources whose last run left temporary results in memory
    opened     \* jobs a handler has loaded and is about to write to

db   == <<deleted, rows, primary, bucket, latest>>
task == <<at, source, doomed, ids, gone, quiet>>
env  == <<flying, listed, opened>>
vars == <<db, task, env>>

Bucket    == {"matched", "other"}
Number    == 0 .. MaxDecision

Row == {"rule", "decision", "event", "reminder", "digest", "job"} \X Job \X Number
         \cup {"link"} \X Job \X Source

\* The DELETE statements of _delete_jobs in their order, and what follows each.
Statement == {"rule", "decision", "event", "reminder", "digest", "link", "job"}
After == [rule     |-> "decision", decision |-> "event",  event |-> "reminder",
          reminder |-> "digest",   digest   |-> "link",   link  |-> "job",
          job      |-> "commit"]

Running == {"queued", "list", "partition", "ids", "commit"} \cup Statement
Ended   == {"success", "refused", "failed", "lost"}

TypeOK ==
    /\ deleted \subseteq Source
    /\ rows \subseteq Row
    /\ primary \in [Job -> Source]
    /\ bucket \in [Job -> Bucket]
    /\ latest \in [Job -> Number]
    /\ at \in [Cleanup -> {"none", "loaded"} \cup Running \cup Ended]
    /\ source \in [Cleanup -> Source \cup {NoSource}]
    /\ doomed \in [Cleanup -> SUBSET Job]
    /\ ids \in [Cleanup -> SUBSET Row]
    /\ gone \in [Cleanup -> SUBSET Row]
    /\ quiet \in [Cleanup -> BOOLEAN]
    /\ flying \subseteq Source
    /\ listed \subseteq Source
    /\ opened \subseteq Job
-----------------------------------------------------------------------------
JobRow(j)     == <<"job", j, 0>>
Present(j)    == JobRow(j) \in rows
RowsOf(j)     == {r \in rows : r[2] = j}
Linked(R, j, s) == <<"link", j, s>> \in R

\* _associated_job_ids: the jobs whose primary source it is, or linked to it.
Associated(s) == {j \in Job : Present(j) /\ (primary[j] = s \/ Linked(rows, j, s))}

\* visible_job_predicate
Visible(j) == bucket[j] = "matched" \/ \A s \in deleted : j \notin Associated(s)

\* The foreign keys: a row and one that refers to it.
RefersTo(child, parent) ==
    \/ parent[1] = "job" /\ child[1] \notin {"job", "rule"} /\ child[2] = parent[2]
    \/ parent[1] = "decision" /\ child = <<"rule", parent[2], parent[3]>>

\* persist_snapshot: a new decision with its rules; the old decisions stay.
Decision(S) == {<<k, j, latest[j] + 1>> : k \in {"rule", "decision"}, j \in S}

\* The jobs of S, and no row of the kinds in K, are locked by a cleanup whose
\* DELETE of them is not the statement the writing transaction delayed.
Free(S, K) ==
    \A c \in Cleanup : \A r \in gone[c] :
        r[2] \in S => /\ r[1] # "job"
                      /\ r[1] \in K => at[c] = After[r[1]]

\* A second row of a kind a job already has; the bound is one, deleted or not.
Fresh(k, j) == \A c \in Cleanup : <<k, j, 1>> \notin gone[c]

\* The history of a write to the jobs of S: it disturbs the cleanups that listed
\* one of them, or whose source one of them now belongs to, R being the rows left.
Disturb(S, R) ==
    quiet' = [c \in Cleanup |-> quiet[c] /\ \A j \in S :
        /\ j \notin doomed[c]
        /\ primary'[j] # source[c] /\ ~Linked(R, j, source[c])]
-----------------------------------------------------------------------------
Init ==
    /\ deleted = {}
    /\ primary \in [Job -> Source]
    /\ bucket \in [Job -> Bucket]
    /\ latest \in [Job -> {0, 1}]
    /\ \E linked \in [Job -> SUBSET Source] : rows = UNION {
          IF latest[j] = 0 THEN {} ELSE
            {JobRow(j), <<"event", j, 0>>, <<"rule", j, 1>>, <<"decision", j, 1>>}
              \cup {<<"link", j, s>> : s \in linked[j] \cup {primary[j]}} : j \in Job}
    /\ at = [c \in Cleanup |-> "none"]
    /\ source = [c \in Cleanup |-> NoSource]
    /\ doomed = [c \in Cleanup |-> {}]
    /\ ids = [c \in Cleanup |-> {}]
    /\ gone = [c \in Cleanup |-> {}]
    /\ quiet = [c \in Cleanup |-> FALSE]
    /\ flying = {}
    /\ listed = {}
    /\ opened = {}
-----------------------------------------------------------------------------
(* The delete request. *)

\* get_source: a deleted source is not found.
LoadSource(c, s) ==
    /\ at[c] = "none"
    /\ s \notin deleted
    /\ at' = [at EXCEPT ![c] = "loaded"]
    /\ source' = [source EXCEPT ![c] = s]
    /\ UNCHANGED <<db, doomed, ids, gone, quiet, env>>

\* deleted_at is set and committed whoever else has done so since the load, and
\* the route queues the cleanup.
SoftDelete(c) ==
    /\ at[c] = "loaded"
    /\ deleted' = deleted \cup {source[c]}
    /\ at' = [at EXCEPT ![c] = "queued"]
    /\ UNCHANGED <<rows, primary, bucket, latest, source, doomed, ids, gone, quiet, env>>
-----------------------------------------------------------------------------
(* The background task: cleanup_source, one action per statement. *)

\* The guards on the source hold, and the run's row is committed as "running".
BeginCleanup(c) ==
    /\ at[c] = "queued"
    /\ source[c] \in deleted
    /\ at' = [at EXCEPT ![c] = "list"]
    /\ UNCHANGED <<db, source, doomed, ids, gone, quiet, env>>

\* Seeded fault: the links are not looked at.
ListByPrimary(c) ==
    /\ at[c] = "list"
    /\ doomed' = [doomed EXCEPT ![c] = {j \in Associated(source[c]) : primary[j] = source[c]}]
    /\ quiet' = [quiet EXCEPT ![c] = TRUE]
    /\ at' = [at EXCEPT ![c] = "partition"]
    /\ UNCHANGED <<db, source, ids, gone, env>>

List(c) ==
    /\ at[c] = "list"
    /\ doomed' = [doomed EXCEPT ![c] = Associated(source[c])]
    /\ quiet' = [quiet EXCEPT ![c] = TRUE]
    /\ at' = [at EXCEPT ![c] = "partition"]
    /\ UNCHANGED <<db, source, ids, gone, env>>

\* Seeded fault: the associated jobs are passed on instead of delete_ids.
PartitionNothing(c) ==
    /\ at[c] = "partition"
    /\ at' = [at EXCEPT ![c] = IF doomed[c] = {} THEN "commit" ELSE "ids"]
    /\ UNCHANGED <<db, source, doomed, ids, gone, quiet, env>>

\* _retained_job_ids, and the return of _delete_jobs when nothing is left.
Partition(c) ==
    /\ at[c] = "partition"
    /\ LET retained == {j \in doomed[c] : Present(j) /\ bucket[j] = "matched"}
           rest == doomed[c] \ retained
       IN /\ doomed' = [doomed EXCEPT ![c] = rest]
          /\ at' = [at EXCEPT ![c] = IF rest = {} THEN "commit" ELSE "ids"]
    /\ UNCHANGED <<db, source, ids, gone, quiet, env>>

\* Seeded fault: only the rules of the current decision are deleted.
ReadCurrentDecisions(c) ==
    /\ at[c] = "ids"
    /\ LET found == {r \in rows : r[1] = "decision" /\ r[2] \in doomed[c] /\ r[3] = latest[r[2]]}
       IN /\ ids' = [ids EXCEPT ![c] = found]
          /\ at' = [at EXCEPT ![c] = IF found = {} THEN "decision" ELSE "rule"]
    /\ UNCHANGED <<db, source, doomed, gone, quiet, env>>

ReadDecisions(c) ==
    /\ at[c] = "ids"
    /\ LET found == {r \in rows : r[1] = "decision" /\ r[2] \in doomed[c]}
       IN /\ ids' = [ids EXCEPT ![c] = found]
          /\ at' = [at EXCEPT ![c] = IF found = {} THEN "decision" ELSE "rule"]
    /\ UNCHANGED <<db, source, doomed, gone, quiet, env>>

\* Seeded fault: the last DELETE trusts the partition.
SelectedOnce(c, k) ==
    {r \in rows \ gone[c] :
        /\ r[1] = k
        /\ r[2] \in doomed[c]
        /\ k = "rule" => <<"decision", r[2], r[3]>> \in ids[c]}

\* The rows a DELETE of this kind selects.  The last one looks at the bucket again.
Selected(c, k) ==
    {r \in rows \ gone[c] :
        /\ r[1] = k
        /\ r[2] \in doomed[c]
        /\ k = "rule" => <<"decision", r[2], r[3]>> \in ids[c]
        /\ k = "job" => bucket[r[2]] # "matched"}

\* The rows left behind that refer to those rows.
Dependent(c, k) ==
    {r \in rows \ gone[c] :
        r \notin Selected(c, k) /\ \E p \in Selected(c, k) : RefersTo(r, p)}

\* Another cleanup holds a row that the statement deletes or whose reference it checks.
WaitsFor(c, d) ==
    /\ d # c
    /\ at[c] \in Statement
    /\ (Selected(c, at[c]) \cup Dependent(c, at[c])) \cap gone[d] # {}

\* The cleanups it waits for, directly or because those wait for others.
Behind(c) ==
    {d \in Cleanup : \A S \in SUBSET Cleanup :
        (\A e \in S \cup {c}, f \in Cleanup : WaitsFor(e, f) => f \in S) => d \in S}

DeleteRows(c, k) ==
    /\ at[c] = k
    /\ \A d \in Cleanup : ~WaitsFor(c, d)
    /\ Dependent(c, k) = {}
    /\ gone' = [gone EXCEPT ![c] = @ \cup Selected(c, k)]
    /\ at' = [at EXCEPT ![c] = After[k]]
    /\ UNCHANGED <<db, source, doomed, ids, quiet, env>>

\* Seeded fault: the exception handler forgets the rollback, and keeps its locks.
FailWithoutRollback(c, outcome) ==
    /\ at' = [at EXCEPT ![c] = outcome]
    /\ UNCHANGED <<db, source, doomed, ids, gone, quiet, env>>

\* The exception handler: roll back, and record the run as failed.
Rollback(c, outcome) ==
    /\ gone' = [gone EXCEPT ![c] = {}]
    /\ at' = [at EXCEPT ![c] = outcome]
    /\ doomed' = [doomed EXCEPT ![c] = {}]
    /\ ids' = [ids EXCEPT ![c] = {}]
    /\ UNCHANGED <<db, source, quiet, env>>

\* The database refuses a DELETE that would leave a reference to nothing, and one
\* of those that wait in a circle.
Refuse(c) ==
    /\ at[c] \in Statement
    /\ IF \E d \in Cleanup : WaitsFor(c, d) THEN c \in Behind(c) ELSE Dependent(c, at[c]) # {}
    /\ Rollback(c, "refused")

\* Any other error: the connection, a timeout, a circle with another transaction.
Fail(c) ==
    /\ at[c] \in Running \ {"queued"}
    /\ Rollback(c, "failed")

Commit(c) ==
    /\ at[c] = "commit"
    /\ rows' = rows \ gone[c]
    /\ gone' = [gone EXCEPT ![c] = {}]
    /\ doomed' = [doomed EXCEPT ![c] = {}]
    /\ ids' = [ids EXCEPT ![c] = {}]
    /\ at' = [at EXCEPT ![c] = "success"]
    /\ quiet' = [quiet EXCEPT ![c] = FALSE]
    /\ UNCHANGED <<deleted, primary, bucket, latest, source, env>>
-----------------------------------------------------------------------------
(* The other transactions. *)

\* Classify the jobs of S with result f, each with what it inserts beside.
Classify(S, f, inserted) ==
    /\ \A j \in S : latest[j] < MaxDecision
    /\ rows' = rows \cup Decision(S) \cup inserted
    /\ bucket' = [j \in Job |-> IF j \in S THEN f[j] ELSE bucket[j]]
    /\ latest' = [j \in Job |-> IF j \in S THEN latest[j] + 1 ELSE latest[j]]
    /\ Disturb(S, rows')

\* The two reclassify routes: every job, on the event loop, in one transaction.
Reclassify ==
    /\ {j \in Job : Present(j)} # {}
    /\ Free({j \in Job : Present(j)}, {"decision"})
    /\ primary' = primary
    /\ \E f \in [Job -> Bucket] : Classify({j \in Job : Present(j)}, f, {})
    /\ UNCHANGED <<deleted, at, source, doomed, ids, gone, env>>

\* get_runnable_source, then the fetch; the source is not looked at again.
BeginRun(s) ==
    /\ s \notin deleted \cup flying
    /\ flying' = flying \cup {s}
    /\ UNCHANGED <<db, task, listed, opened>>

\* run_source commits: tracked jobs it found again are linked and classified,
\* and what else it found has become the source's temporary results.
CommitRun(s) ==
    /\ s \in flying
    /\ flying' = flying \ {s}
    /\ listed' = listed \cup {s}
    /\ \E S \in SUBSET {j \in Job : Present(j)} :
          /\ Free(S, {"decision"})
          /\ \A j \in S : Free({j}, IF Linked(rows, j, s) THEN {"link"} ELSE {})
          /\ primary' = primary
          /\ \E f \in [S -> Bucket] : Classify(S, f, {<<"link", j, s>> : j \in S})
    /\ UNCHANGED <<deleted, at, source, doomed, ids, gone, opened>>

\* track_transient_job of a temporary result, which outlives its source's deletion.
TrackTransient(j, s) ==
    /\ s \in listed
    /\ Present(j) \/ latest[j] = 0
    /\ Fresh("event", j)
    /\ Free({j}, {"decision"})
    /\ Free({j}, IF Linked(rows, j, s) THEN {"link"} ELSE {})
    /\ primary' = IF Present(j) THEN primary ELSE [primary EXCEPT ![j] = s]
    /\ \E f \in [{j} -> Bucket] :
          Classify({j}, f, {JobRow(j), <<"link", j, s>>, <<"event", j, 1>>})
    /\ UNCHANGED <<deleted, at, source, doomed, ids, gone, env>>

\* A handler loads a visible job, and later writes to it.
Open(j) ==
    /\ Attaching # {}                                  \* bound: nothing to write
    /\ Present(j) /\ Visible(j) /\ j \notin opened
    /\ opened' = opened \cup {j}
    /\ UNCHANGED <<db, task, flying, listed>>

\* The tracking, reminder and digest writes; nothing if the job is gone by then.
Attach(j, k) ==
    /\ j \in opened
    /\ Fresh(k, j)
    /\ Free({j}, {})
    /\ opened' = opened \ {j}
    /\ primary' = primary
    /\ IF Present(j)
         THEN rows' = rows \cup {<<k, j, 1>>} /\ Disturb({j}, rows')
         ELSE UNCHANGED <<rows, quiet>>
    /\ UNCHANGED <<deleted, bucket, latest, at, source, doomed, ids, gone, flying, listed>>

\* A restart: background tasks, runs and requests are gone, uncommitted deletes undone.
Restart ==
    /\ at' = [c \in Cleanup |-> IF at[c] \in Running THEN "lost"
                                ELSE IF at[c] = "loaded" THEN "none" ELSE at[c]]
    /\ source' = [c \in Cleanup |-> IF at'[c] = "none" THEN NoSource ELSE source[c]]
    /\ doomed' = [c \in Cleanup |-> {}]
    /\ ids' = [c \in Cleanup |-> {}]
    /\ gone' = [c \in Cleanup |-> {}]
    /\ flying' = {} /\ listed' = {} /\ opened' = {}
    /\ UNCHANGED <<db, quiet>>
-----------------------------------------------------------------------------
TaskStep(c) ==
    \/ BeginCleanup(c) \/ List(c) \/ Partition(c) \/ ReadDecisions(c)
    \/ \E k \in Statement : DeleteRows(c, k)
    \/ Refuse(c) \/ Commit(c)

Request(c) == SoftDelete(c) \/ \E s \in Source : LoadSource(c, s)

Write ==
    \/ Reclassify
    \/ \E s \in Source : BeginRun(s) \/ CommitRun(s)
    \/ \E j \in Job, s \in Source : TrackTransient(j, s)
    \/ \E j \in Job : Open(j) \/ \E k \in Attaching : Attach(j, k)

Next == \/ \E c \in Cleanup : Request(c) \/ TaskStep(c) \/ Fail(c)
        \/ Write
        \/ Restart

Fairness == \A c \in Cleanup : WF_vars(TaskStep(c))

Spec == Init /\ [][Next]_vars /\ Fairness
-----------------------------------------------------------------------------
(* Safety. *)

\* A job row disappears only while it is not matched, however its bucket moved
\* between the partition and the last DELETE (cleanup_source's second check).
RetainedNotDeleted ==
    [][\A j \in Job : Present(j) /\ ~Present(j)' => bucket[j] # "matched"]_vars

\* The statements follow the foreign keys: the database refuses a cleanup only
\* if another transaction wrote to a job of the source after it was listed, or to
\* one of a cleanup that it waits for.  A second cleanup of the same jobs at any
\* point is not such a transaction.
RefusedOnlyIfDisturbed ==
    [][\A c \in Cleanup : at[c] # "refused" /\ at'[c] = "refused" =>
          \E d \in Behind(c) \cup {c} : ~quiet[d]]_vars

\* A cleanup that nobody disturbed does what deleting a source promises: when it
\* commits, only matched jobs are associated with the source.
CommitLeavesMatched ==
    [][\A c \in Cleanup : at[c] = "commit" /\ at'[c] = "success" /\ quiet[c] =>
          \A j \in Associated(source[c])' : bucket'[j] = "matched"]_vars

\* And it takes no row of a job that is still there.
CommitKeepsRetained ==
    [][\A c \in Cleanup : at[c] = "commit" /\ at'[c] = "success" /\ quiet[c] =>
          \A j \in Job : Present(j)' => RowsOf(j)' = RowsOf(j)]_vars

\* Cleanups take their locks in one order, that of the statements: while those that
\* wait have not been disturbed, one of those that are there can go on, and no
\* circle has to be broken.
QuietNeverStuck ==
    (\A c, d \in Cleanup : WaitsFor(c, d) => quiet[c]) =>
        \A c \in Cleanup : at[c] \in Running =>
            \E d \in Behind(c) \cup {c} : at[d] \in Running /\ \A e \in Cleanup : ~WaitsFor(d, e)

\* Every queued cleanup ends.  Fail is not fair, so nothing else breaks a wait than
\* the end of the cleanup it is for, or the database if there is a circle.
EveryCleanupEnds ==
    \A c \in Cleanup : at[c] = "queued" ~> at[c] \in Ended
-----------------------------------------------------------------------------
(* What the documents say, and the code does not keep. *)

\* docs/product/source_delete_job_cleanup_product_spec.md:80: after cleanup, only
\* matched active jobs remain associated with the deleted source.
OnlyMatchedRemain ==
    [][\A c \in Cleanup : at[c] = "commit" /\ at'[c] = "success" =>
          \A j \in Associated(source[c])' : bucket'[j] = "matched"]_vars

\* docs/architecture/source_delete_job_cleanup_technical_design.md:398: retained
\* jobs keep their rows.
RetainedKeepRows ==
    [][\A c \in Cleanup : at[c] = "commit" /\ at'[c] = "success" =>
          \A j \in Job : Present(j)' => RowsOf(j)' = RowsOf(j)]_vars
=============================================================================
