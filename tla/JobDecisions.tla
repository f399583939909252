---------------------------- MODULE JobDecisions ----------------------------
(***************************************************************************)
(* The decisions of tracked jobs: persist_snapshot in the transactions     *)
(* that call it, reclassification of all jobs (job_preferences.py and its  *)
(* two routes), ingestion runs and the tracking of a temporary result.     *)
(*                                                                         *)
(* A transaction reads what is committed when a statement starts, waits    *)
(* for rows that another has updated, and keeps its own until it ends.     *)
(* The session remembers the columns of a job as it loaded them and        *)
(* writes only those that were set to something else.  "Loop" stands for   *)
(* all handlers that run on the event loop: they run one at a time.        *)
(* Each job has its first decision from when it was tracked.               *)
(***************************************************************************)
EXTENDS Classification

CONSTANTS MaxJob,        \* tracked jobs
          Loop,          \* the transactions of handlers on the event loop, one at a time
          Worker,        \* threads of a batch that run a source
          Payload,       \* preferences that clients send
          FirstPayload,  \* what the first decisions were made with
          Text,          \* postings
          MaxDecision    \* bound: decisions

ASSUME TransactionAssumption == Loop \notin Worker /\ "db" \notin Worker \cup {Loop}

ASSUME InstanceAssumption ==
    /\ Text \subseteq Posting /\ FirstPayload \in Payload /\ Valid(FirstPayload)
    /\ \A p \in Payload : IsPayload(p)
    /\ {MaxJob, MaxDecision} \subseteq Nat \ {0} /\ MaxJob <= MaxDecision

VARIABLES
    row,       \* job_postings: text, latest_bucket and latest_decision_id
    decision,  \* job_decisions, with the preferences and text each was made from
    \* of each transaction
    op,        \* what it is
    at,        \* the statement it is about to run
    prefs,     \* the preferences of its request
    todo,      \* jobs a reclassification has still to classify
    job,       \* the job it is at
    text,      \* the text it classifies
    seen,      \* the columns its session has of the jobs it loaded
    loaded,    \* those jobs
    copy,      \* the rows of the jobs it has updated
    locked,    \* those jobs
    found,     \* decisions its UPDATE has found
    cleared,   \* decisions it has updated
    \* history
    stale,     \* of each transaction: loaded jobs that another has updated since
    torn       \* jobs whose last update came from a transaction stale at them

db      == <<row, decision>>
request == <<op, prefs>>
session == <<todo, job, text, seen, loaded>>
locks   == <<copy, locked, found, cleared>>
history == <<stale, torn>>
vars    == <<db, at, request, session, locks, history>>

Job    == 1 .. MaxJob
Number == 1 .. MaxDecision
Tx     == Worker \cup {Loop}

Preferences == {Normalized(p) : p \in Payload}

Row == [text : Text, bucket : Bucket, latest : Number]

\* An unused number; a decision is by its transaction until that commits.
Unused == [by |-> "nobody"]

\* Seeded fault: a job is classified before it is updated.
FaultyDecided(by, j, x, q) ==
    [by |-> by, job |-> j, bucket |-> BucketOf(row[j].text, q), current |-> TRUE, text |-> x, prefs |-> q]

Decided(by, j, x, q) ==
    [by |-> by, job |-> j, bucket |-> BucketOf(x, q), current |-> TRUE, text |-> x, prefs |-> q]

Decisions == {n \in Number : decision[n] # Unused}
Committed(j) == {n \in Decisions : decision[n].by = "db" /\ decision[n].job = j}
Own(t) == {n \in Decisions : decision[n].by = t}

TypeOK ==
    /\ row \in [Job -> Row]
    /\ decision \in [Number -> {Unused} \cup
          [by : Tx \cup {"db"}, job : Job, bucket : Bucket, current : BOOLEAN,
           text : Text, prefs : Preferences]]
    /\ op \in [Tx -> {"none", "run", "reclassify"}]
    /\ at \in [Tx -> {"idle", "ready", "upsert", "find", "clear", "insert", "project"}]
    /\ prefs \in [Tx -> Preferences]
    /\ todo \in [Tx -> SUBSET Job]
    /\ job \in [Tx -> Job]
    /\ text \in [Tx -> Text]
    /\ seen \in [Tx -> [Job -> Row]]
    /\ loaded \in [Tx -> SUBSET Job]
    /\ copy \in [Tx -> [Job -> Row]]
    /\ locked \in [Tx -> SUBSET Job]
    /\ found \in [Tx -> SUBSET Number]
    /\ cleared \in [Tx -> SUBSET Number]
    /\ stale \in [Tx -> SUBSET Job]
    /\ torn \subseteq Job
-----------------------------------------------------------------------------
FirstPrefs == Normalized(FirstPayload)

NoRow == [text |-> CHOOSE x \in Text : TRUE, bucket |-> "rejected", latest |-> 1]

Init ==
    /\ \E x \in [Job -> Text] :
          /\ row = [j \in Job |-> [text |-> x[j], bucket |-> BucketOf(x[j], FirstPrefs), latest |-> j]]
          /\ decision = [n \in Number |->
                IF n \in Job THEN Decided("db", n, x[n], FirstPrefs) ELSE Unused]
    /\ op = [t \in Tx |-> "none"]
    /\ at = [t \in Tx |-> "idle"]
    /\ prefs = [t \in Tx |-> FirstPrefs]
    /\ todo = [t \in Tx |-> {}]
    /\ job = [t \in Tx |-> 1]
    /\ text = [t \in Tx |-> NoRow.text]
    /\ seen = [t \in Tx |-> [j \in Job |-> NoRow]]
    /\ loaded = [t \in Tx |-> {}]
    /\ copy = seen
    /\ locked = loaded
    /\ found = [t \in Tx |-> {}]
    /\ cleared = found
    /\ stale = loaded
    /\ torn = {}

\* What a statement of t reads.
View(t, j) == IF j \in locked[t] THEN copy[t][j] ELSE row[j]

\* Seeded fault: the UPDATE does not see what its own transaction inserted.
FaultyVisible(t, j) == Committed(j)

Visible(t, j) == Committed(j) \cup {n \in Own(t) : decision[n].job = j}

LockedElsewhere(t, j) == \E u \in Tx \ {t} : j \in locked[u]

Update(t, j, r) ==
    /\ ~LockedElsewhere(t, j)
    /\ locked' = [locked EXCEPT ![t] = @ \cup {j}]
    /\ copy' = [copy EXCEPT ![t][j] = r]

\* Run_source, and track_transient_job, which knows its one candidate.
BeginRun(t, p) ==
    /\ at[t] = "idle" /\ Valid(p)
    /\ op' = [op EXCEPT ![t] = "run"]
    /\ prefs' = [prefs EXCEPT ![t] = Normalized(p)]
    /\ at' = [at EXCEPT ![t] = "ready"]
    /\ UNCHANGED <<db, session, locks, history>>

\* reclassify_active_jobs loads all jobs first.
BeginReclassify(p) ==
    /\ at[Loop] = "idle" /\ Valid(p)
    /\ op' = [op EXCEPT ![Loop] = "reclassify"]
    /\ prefs' = [prefs EXCEPT ![Loop] = Normalized(p)]
    /\ at' = [at EXCEPT ![Loop] = "ready"]
    /\ todo' = [todo EXCEPT ![Loop] = Job]
    /\ seen' = [seen EXCEPT ![Loop] = row]
    /\ loaded' = [loaded EXCEPT ![Loop] = Job]
    /\ UNCHANGED <<db, job, text, locks, history>>

NextJob(t, j) ==
    /\ at[t] = "ready" /\ op[t] = "reclassify" /\ j \in todo[t]
    /\ todo' = [todo EXCEPT ![t] = @ \ {j}]
    /\ job' = [job EXCEPT ![t] = j]
    /\ text' = [text EXCEPT ![t] = seen[t][j].text]
    /\ at' = [at EXCEPT ![t] = "find"]
    /\ UNCHANGED <<db, request, seen, loaded, locks, history>>

\* _resolve_persisted_tracked_match
Match(t, j, x) ==
    /\ at[t] = "ready" /\ op[t] = "run"
    /\ job' = [job EXCEPT ![t] = j]
    /\ text' = [text EXCEPT ![t] = x]
    /\ seen' = [seen EXCEPT ![t][j] = View(t, j)]
    /\ loaded' = [loaded EXCEPT ![t] = @ \cup {j}]
    /\ at' = [at EXCEPT ![t] = "upsert"]
    /\ UNCHANGED <<db, request, todo, locks, history>>

\* _upsert_tracked_job
Upsert(t) ==
    /\ at[t] = "upsert"
    /\ LET j == job[t]
       IN  /\ Update(t, j, IF text[t] = seen[t][j].text THEN View(t, j)
                           ELSE [View(t, j) EXCEPT !.text = text[t]])
           /\ seen' = [seen EXCEPT ![t][j].text = text[t]]
    /\ at' = [at EXCEPT ![t] = "find"]
    /\ UNCHANGED <<db, request, todo, job, text, loaded, found, cleared, history>>

\* persist_snapshot, first statement: what the UPDATE finds, and the update
\* itself, which waits for transactions that have updated any of it.
FindDecisions(t) ==
    /\ at[t] = "find"
    /\ found' = [found EXCEPT ![t] = Visible(t, job[t])]
    /\ at' = [at EXCEPT ![t] = "clear"]
    /\ UNCHANGED <<db, request, session, copy, locked, cleared, history>>

ClearCurrent(t) ==
    /\ at[t] = "clear"
    /\ \A u \in Tx \ {t} : cleared[u] \cap found[t] = {}
    /\ cleared' = [cleared EXCEPT ![t] = @ \cup found[t]]
    /\ at' = [at EXCEPT ![t] = "insert"]
    /\ UNCHANGED <<db, request, session, copy, locked, found, history>>

\* Numbers are given in order.
Fresh(n) == n - 1 \in Decisions /\ \A m \in Number : m >= n => m \notin Decisions

InsertDecision(t, n) ==
    /\ at[t] = "insert" /\ Fresh(n)
    /\ decision' = [decision EXCEPT ![n] = Decided(t, job[t], text[t], prefs[t])]
    /\ at' = [at EXCEPT ![t] = "project"]
    /\ UNCHANGED <<row, request, session, locks, history>>

\* Seeded fault: the number is written with the bucket or not at all.
FaultyProjected(r, s, n) ==
    IF decision[n].bucket = s.bucket THEN r
    ELSE [r EXCEPT !.bucket = decision[n].bucket, !.latest = n]

\* latest_bucket is written if it is not the one the session has.
Projected(r, s, n) ==
    [r EXCEPT !.bucket = IF decision[n].bucket = s.bucket THEN @ ELSE decision[n].bucket,
              !.latest = n]

Project(t, n) ==
    /\ at[t] = "project" /\ n \in Own(t) /\ \A m \in Own(t) : m <= n
    /\ Update(t, job[t], Projected(View(t, job[t]), seen[t][job[t]], n))
    /\ seen' = [seen EXCEPT ![t][job[t]].bucket = decision[n].bucket]
    /\ at' = [at EXCEPT ![t] = "ready"]
    /\ UNCHANGED <<db, request, todo, job, text, loaded, found, cleared, history>>

End(t) ==
    /\ op' = [op EXCEPT ![t] = "none"]
    /\ prefs' = [prefs EXCEPT ![t] = FirstPrefs]
    /\ at' = [at EXCEPT ![t] = "idle"]
    /\ todo' = [todo EXCEPT ![t] = {}]
    /\ job' = [job EXCEPT ![t] = 1]
    /\ text' = [text EXCEPT ![t] = NoRow.text]
    /\ seen' = [seen EXCEPT ![t] = [j \in Job |-> NoRow]]
    /\ loaded' = [loaded EXCEPT ![t] = {}]
    /\ copy' = [copy EXCEPT ![t] = [j \in Job |-> NoRow]]
    /\ locked' = [locked EXCEPT ![t] = {}]
    /\ found' = [found EXCEPT ![t] = {}]
    /\ cleared' = [cleared EXCEPT ![t] = {}]

Commit(t) ==
    /\ at[t] = "ready" /\ todo[t] = {}
    /\ row' = [j \in Job |-> View(t, j)]
    /\ decision' = [n \in Number |->
          IF n \in Own(t) THEN [decision[n] EXCEPT !.by = "db", !.current = n \notin cleared[t]]
          ELSE IF n \in cleared[t] THEN [decision[n] EXCEPT !.current = FALSE] ELSE decision[n]]
    /\ End(t)
    /\ stale' = [u \in Tx |-> IF u = t THEN {} ELSE stale[u] \cup (loaded[u] \cap locked[t])]
    /\ torn' = (torn \ locked[t]) \cup (locked[t] \cap stale[t])

\* An exception, also the one that breaks a deadlock.
Abort(t) ==
    /\ at[t] # "idle"
    /\ decision' = [n \in Number |-> IF n \in Own(t) THEN Unused ELSE decision[n]]
    /\ End(t)
    /\ stale' = [stale EXCEPT ![t] = {}]
    /\ UNCHANGED <<row, torn>>

Persist(t) ==
    FindDecisions(t) \/ ClearCurrent(t) \/ \E n \in Number : InsertDecision(t, n) \/ Project(t, n)

Next ==
    \/ \E p \in Payload : BeginReclassify(p) \/ \E t \in Tx : BeginRun(t, p)
    \/ \E t \in Tx : \/ Upsert(t) \/ Persist(t) \/ Commit(t) \/ Abort(t)
                     \/ \E j \in Job : NextJob(t, j) \/ \E x \in Text : Match(t, j, x)

Spec == Init /\ [][Next]_vars
-----------------------------------------------------------------------------
\* The row of a job names its newest committed decision, one that is current,
\* in whatever order transactions wait for the job and its decisions
\* (persist_snapshot 170-200 updates the decisions first, _upsert the job).
LatestIsNewest ==
    \A j \in Job : /\ row[j].latest \in Committed(j)
                   /\ decision[row[j].latest].current
                   /\ \A n \in Committed(j) : n <= row[j].latest

\* The ledger that others see: committed decisions, which of them are current
\* and which is the latest of each job.
Verdict == [bucket : Bucket, text : Text, prefs : Preferences]

EntryOf(n) ==
    [number |-> n, job |-> decision[n].job,
     says |-> [bucket |-> decision[n].bucket, text |-> decision[n].text, prefs |-> decision[n].prefs]]

Entered == {n \in Decisions : decision[n].by = "db"}

Ledger == INSTANCE DecisionLedger WITH
              past    <- {EntryOf(n) : n \in Entered},
              current <- {n \in Entered : decision[n].current},
              latest  <- [j \in Job |-> row[j].latest]

\* However the statements of transactions mix, each enters its decisions at
\* once, after all that their jobs had: they are newer than those, unchanged
\* later, and only a job with a newer decision loses a current one
\* (persist_snapshot 170-200 in transactions that lock rows and decisions in
\* different orders).
ImplementsLedger == Ledger!ASpec

\* One decision of a job is current, unless the last transaction that updated
\* it had loaded it before another one did.
OneCurrent ==
    \A j \in Job \ torn : \A n \in Committed(j) : decision[n].current => n = row[j].latest

\* Bucket and text of a job are those of its latest decision, with the same
\* exception: columns that look unchanged to a session are not written.
ProjectionExact ==
    \A j \in Job \ torn :
        LET d == decision[row[j].latest]
        IN  row[j].bucket = BucketOf(row[j].text, d.prefs) /\ row[j].text = d.text

\* Who asks for more never gets less: with more role, remote or location
\* keywords no posting falls to a lower bucket (the thresholds and the order
\* of the cascade, preview_job 60-158).
WiderIsNeverWorse ==
    \A m, n \in Decisions :
        decision[m].text = decision[n].text /\ Widens(decision[n].prefs, decision[m].prefs) =>
            Rank(decision[m].bucket) <= Rank(decision[n].bucket)

\* Sponsorship keywords are a filter: with them a posting that promises it gets
\* no lower bucket than without, and any other no higher one
\* (configurable_job_preferences_product_spec.md 330 and 336).
SponsorshipIsAFilter ==
    \A m, n \in Decisions :
        LET d == decision[m]
            e == decision[n]
        IN  /\ d.text = e.text /\ d.prefs.roles = e.prefs.roles
            /\ \A l \in List \ Sponsorship : d.prefs.lists[l] = e.prefs.lists[l]
            /\ ~Sponsored(d.prefs)
            => IF SponsorshipState(e.text, e.prefs) = "supported"
               THEN Rank(d.bucket) <= Rank(e.bucket) ELSE Rank(e.bucket) <= Rank(d.bucket)

\* The browser keeps what validate returned and sends it with every later run:
\* whatever the order of its lists, it is accepted and means the same
\* (validate 120-171 checks for a signal after it has dropped blanks).
Listed(q) ==
    [roles |-> [f \in DOMAIN q.roles |-> SetToSeq(q.roles[f])],
     lists |-> [l \in List |-> SetToSeq(q.lists[l])]]

KeptPreferencesAreValid ==
    \A t \in Tx : Valid(Listed(prefs[t])) /\ Normalized(Listed(prefs[t])) = prefs[t]

\* "Only one decision is marked is_current per job"
\* (job_intelligence_platform_backend_implementation_plan.md 377).  The code
\* does not keep this.
OneCurrentPerJob ==
    \A j \in Job : Cardinality({n \in Committed(j) : decision[n].current}) = 1

\* "job_postings.latest_bucket, latest_score, and latest_decision_id are
\* projections" (the same, 378).  The code does not keep this.
ProjectionAgrees == \A j \in Job : row[j].bucket = decision[row[j].latest].bucket
=============================================================================
