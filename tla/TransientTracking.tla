-------------------------- MODULE TransientTracking --------------------------
(***************************************************************************)
(* What an ingestion run finds and nobody tracks, from the run             *)
(* (src/app/domain/ingestion.py) through the registry in memory            *)
(* (transient_ingestion.py) to the user who tracks it (tracking.py).       *)
(*                                                                         *)
(* A run is a batch worker's, on a thread, or the run route's, which holds *)
(* the event loop to its end; so does the tracking handler.  The registry  *)
(* is shared under its lock, the database under READ COMMITTED: a run has  *)
(* flushed "over", "added" and "dropped", sees them itself, and holds the  *)
(* rows of those jobs locked until it commits.                             *)
(*                                                                         *)
(* A posting is what a provider returns: ext, the identifier it gives or   *)
(* NoExt; url, its address and the query of it; key, the fingerprint of    *)
(* company, title, location and text.  normalize_url drops the query.  A   *)
(* job row is named by its canonical_key, which is unique and never        *)
(* updated; shown[k] is the posting it shows.  Every row is tracked        *)
(* (migration 0005 deleted the others, and the application refuses to      *)
(* start before it), so untracked is having no row.  A temporary result is *)
(* named by its run and its posting instead of a uuid.                     *)
(***************************************************************************)
EXTENDS Integers, Sequences, FiniteSets

CONSTANTS Source,      \* sources
          Run,         \* bound: the ingestion runs there are
          NoRun,       \* no run
          SourceOf,    \* the source of each run
          Posting,     \* what providers may return
          NoPosting,   \* no posting
          NoExt,       \* a provider's missing identifier
          MaxFetch     \* bound: postings a fetch returns

ASSUME RunAssumption == /\ SourceOf \in [Run -> Source]
                        /\ NoRun \notin Run
                        /\ Run \cap {"idle", "track"} = {}

ASSUME PostingAssumption == NoPosting \notin Posting

ASSUME FetchBound == MaxFetch \in Nat

VARIABLES
    byId, idsBySource, idsByRun,   \* the registry
    shown, links,                  \* committed: job_postings, job_source_links
    at,        \* the step each run has reached
    todo,      \* result.jobs it has not come to
    found,     \* transient_jobs
    target,    \* the job that matched the candidate
    over,      \* postings it has written to jobs
    added,     \* links it has written
    dropped,   \* links it has overwritten
    loop,      \* what the event loop is busy with
    step, trk, \* the tracking handler: its place, its temporary result
    match,     \* the job it found, as a set
    saved,     \* history: results whose tracking was committed
    known,     \* history: jobs there ever since the run began
    lister     \* history: the run that last replaced a source's results

registry == <<byId, idsBySource, idsByRun, lister>>
db       == <<shown, links, saved>>
run      == <<at, todo, found, target, over, added, dropped, known>>
handler  == <<loop, step, trk, match>>
vars     == <<registry, db, run, handler>>

Key     == {p.key : p \in Posting}
Results == UNION {[1 .. n -> Posting] : n \in 0 .. MaxFetch}
Id      == Run \X Posting
Link    == [job : Key, source : Source,
            url : {p.url : p \in Posting}, ext : {p.ext : p \in Posting}]
Row     == Posting \cup {NoPosting}

Active == {"match", "upsert", "stale", "commit"}

TypeOK ==
    /\ byId \subseteq Id
    /\ idsBySource \in [Source -> SUBSET Id]
    /\ idsByRun \in [Run -> SUBSET Id]
    /\ lister \in [Source -> Run \cup {NoRun}]
    /\ shown \in [Key -> Row]
    /\ links \subseteq Link
    /\ saved \subseteq Id
    /\ at \in [Run -> Active \cup {"none", "success", "failed", "lost"}]
    /\ todo \in [Run -> Seq(Posting)]
    /\ found \in [Run -> Seq(Posting)]
    /\ target \in [Run -> SUBSET Key]
    /\ over \in [Run -> [Key -> Row]]
    /\ added \in [Run -> SUBSET Link]
    /\ dropped \in [Run -> SUBSET Link]
    /\ known \in [Run -> SUBSET Key]
    /\ loop \in {"idle", "track"} \cup Run
    /\ step \in {"none", "match", "write", "stale", "consume"}
    /\ trk \in Id \cup {<<NoRun, NoPosting>>}
    /\ match \in SUBSET Key
-----------------------------------------------------------------------------
\* normalize_url
Page(p) == p.url[1]

\* The registry's key of a candidate: the identifier, else the normalized URL.
\* Adapters give every posting a URL, so there is always one of the two.
DedupeKey(p) == IF p.ext # NoExt THEN <<"external", p.ext>> ELSE <<"url", Page(p)>>

\* The last posting of each key.
Deduped(f) ==
    {f[i] : i \in {i \in DOMAIN f :
        \A j \in DOMAIN f : j > i => DedupeKey(f[j]) # DedupeKey(f[i])}}

\* Seeded fault: only identifiers are matched, a posting without one never is.
ExistingByLink(rows, L, s, p) ==
    IF p.ext = NoExt THEN {} ELSE {l.job : l \in {l \in L : l.source = s /\ l.ext = p.ext}}

\* The rows that match a posting of source s: those linked to its identifier, or
\* else those with its URL or its key.  The query takes any one of them.
Existing(rows, L, s, p) ==
    LET linked == {l.job : l \in {l \in L : l.source = s /\ l.ext = p.ext}}
    IN  IF p.ext # NoExt /\ linked # {} THEN linked
        ELSE {k \in Key : /\ rows[k] # NoPosting
                          /\ Page(rows[k]) = Page(p) \/ k = p.key}

\* The database as run r sees it.
RowsFor(r)  == [k \in Key |-> IF over[r][k] # NoPosting THEN over[r][k] ELSE shown[k]]
LinksFor(r) == (links \ dropped[r]) \cup added[r]

\* Whoever writes to a row waits for the others who have.
Unlocked(k, R) == \A q \in R : over[q][k] = NoPosting
Blocks(q, r)   == q # r /\ at[r] = "upsert" /\ \E k \in target[r] : over[q][k] # NoPosting

LinkOf(k, s, p) == [job |-> k, source |-> s, url |-> p.url, ext |-> p.ext]

\* The link that is overwritten, whatever its identifier: one with the same job,
\* source and address, if there is any.
Overwritten(L, k, s, p) ==
    LET same == {l \in L : l.job = k /\ l.source = s /\ l.url = p.url}
    IN  IF same = {} THEN {{}} ELSE {{l} : l \in same}
-----------------------------------------------------------------------------
(* The registry, each operation under its lock. *)

\* _remove_locked
Remove(ids) ==
    /\ byId' = byId \ ids
    /\ idsBySource' = [s \in Source |-> idsBySource[s] \ ids]
    /\ idsByRun' = [r \in Run |-> idsByRun[r] \ ids]

\* Seeded fault: the source's previous results stay.
AddResults(r, ids) ==
    /\ byId' = byId \cup ids
    /\ idsBySource' = [idsBySource EXCEPT ![SourceOf[r]] = @ \cup ids]
    /\ idsByRun' = [idsByRun EXCEPT ![r] = ids]

\* replace_source_results
ReplaceResults(r, ids) ==
    LET old == idsBySource[SourceOf[r]]
    IN  /\ byId' = (byId \ old) \cup ids
        /\ idsBySource' = [s \in Source |-> IF s = SourceOf[r] THEN ids ELSE idsBySource[s] \ old]
        /\ idsByRun' = [q \in Run |-> IF q = r THEN (idsByRun[q] \ old) \cup ids
                                      ELSE idsByRun[q] \ old]
-----------------------------------------------------------------------------
\* A process just started, on a database in which rows were tracked before.
Init ==
    /\ byId = {}
    /\ idsBySource = [s \in Source |-> {}]
    /\ idsByRun = [r \in Run |-> {}]
    /\ lister = [s \in Source |-> NoRun]
    /\ \E f \in [Key -> Row], s \in [Key -> Source] :
        LET there == {k \in Key : f[k] # NoPosting}
        IN  /\ \A k \in there : f[k].key = k
            /\ \A j, k \in there : j # k => /\ Page(f[j]) # Page(f[k])
                                          /\ (f[j].ext = f[k].ext => f[j].ext = NoExt)
            /\ shown = f
            /\ links = {LinkOf(k, s[k], f[k]) : k \in there}
    /\ saved = {}
    /\ at = [r \in Run |-> "none"]
    /\ todo = [r \in Run |-> <<>>]
    /\ found = [r \in Run |-> <<>>]
    /\ target = [r \in Run |-> {}]
    /\ over = [r \in Run |-> [k \in Key |-> NoPosting]]
    /\ added = [r \in Run |-> {}]
    /\ dropped = [r \in Run |-> {}]
    /\ known = [r \in Run |-> {}]
    /\ loop = "idle"
    /\ step = "none"
    /\ trk = <<NoRun, NoPosting>>
    /\ match = {}
-----------------------------------------------------------------------------
(* run_source *)

\* The run starts, and its fetch will return f.
Begin(r, f) ==
    /\ at[r] = "none"
    /\ at' = [at EXCEPT ![r] = "match"]
    /\ todo' = [todo EXCEPT ![r] = f]
    /\ known' = [known EXCEPT ![r] = {k \in Key : shown[k] # NoPosting}]
    /\ UNCHANGED <<registry, db, found, target, over, added, dropped, step, trk, match>>

\* The run route: to its end without a pause, on the event loop.
BeginOnLoop(r, f) ==
    /\ loop = "idle"
    /\ loop' = r
    /\ Begin(r, f)

\* A batch worker: a batch runs a source on one thread at a time.
BeginWorker(r, f) ==
    /\ \A q \in Run : SourceOf[q] = SourceOf[r] /\ at[q] \in Active => loop = q
    /\ UNCHANGED loop
    /\ Begin(r, f)

Matches(r) == Existing(RowsFor(r), LinksFor(r), SourceOf[r], Head(todo[r]))

\* A candidate without a tracked match.
KeepTransient(r) ==
    /\ at[r] = "match" /\ todo[r] # <<>>
    /\ Matches(r) = {}
    /\ found' = [found EXCEPT ![r] = Append(@, Head(todo[r]))]
    /\ todo' = [todo EXCEPT ![r] = Tail(@)]
    /\ UNCHANGED <<registry, db, at, target, over, added, dropped, known, handler>>

MatchTracked(r) ==
    /\ at[r] = "match" /\ todo[r] # <<>>
    /\ \E k \in Matches(r) : target' = [target EXCEPT ![r] = {k}]
    /\ at' = [at EXCEPT ![r] = "upsert"]
    /\ UNCHANGED <<registry, db, todo, found, over, added, dropped, known, handler>>

\* _upsert_tracked_job, flushed once no other transaction has the row.
Upsert(r) ==
    /\ at[r] = "upsert"
    /\ \E k \in target[r] :
        LET p == Head(todo[r])
        IN  /\ Unlocked(k, Run \ {r})
            /\ over' = [over EXCEPT ![r][k] = p]
            /\ \E old \in Overwritten(LinksFor(r), k, SourceOf[r], p) :
                  /\ added' = [added EXCEPT ![r] = (@ \ old) \cup {LinkOf(k, SourceOf[r], p)}]
                  /\ dropped' = [dropped EXCEPT ![r] = @ \cup (old \cap links)]
    /\ at' = [at EXCEPT ![r] = "match"]
    /\ todo' = [todo EXCEPT ![r] = Tail(@)]
    /\ target' = [target EXCEPT ![r] = {}]
    /\ UNCHANGED <<registry, db, found, known, handler>>

\* The registry gets the results before the run is committed.
Replace(r) ==
    /\ at[r] = "match" /\ todo[r] = <<>>
    /\ ReplaceResults(r, {r} \X Deduped(found[r]))
    /\ lister' = [lister EXCEPT ![SourceOf[r]] = r]
    /\ at' = [at EXCEPT ![r] = "commit"]
    /\ UNCHANGED <<db, todo, found, target, over, added, dropped, known, handler>>

\* Seeded fault: the run is over, and its transaction is left open.
EndInTransaction(r, outcome) ==
    /\ at' = [at EXCEPT ![r] = outcome]
    /\ todo' = [todo EXCEPT ![r] = <<>>]
    /\ target' = [target EXCEPT ![r] = {}]
    /\ loop' = IF loop = r THEN "idle" ELSE loop
    /\ UNCHANGED <<registry, saved, found, over, added, dropped, known, step, trk, match>>

\* A run is over, and its transaction with it.
End(r, outcome) ==
    /\ at' = [at EXCEPT ![r] = outcome]
    /\ todo' = [todo EXCEPT ![r] = <<>>]
    /\ target' = [target EXCEPT ![r] = {}]
    /\ over' = [over EXCEPT ![r] = [k \in Key |-> NoPosting]]
    /\ added' = [added EXCEPT ![r] = {}]
    /\ dropped' = [dropped EXCEPT ![r] = {}]
    /\ loop' = IF loop = r THEN "idle" ELSE loop
    /\ UNCHANGED <<registry, saved, found, known, step, trk, match>>

Store(r) ==
    /\ shown' = RowsFor(r)
    /\ links' = LinksFor(r)

Commit(r) ==
    /\ at[r] = "commit"
    /\ Store(r)
    /\ End(r, "success")

\* The fetch or a candidate raises: the run is committed as failed, with what
\* was flushed before.
Fail(r) ==
    /\ at[r] = "match"
    /\ Store(r)
    /\ End(r, "failed")

\* The database refuses a statement: the exception handler's own flush is refused
\* too, and nothing of the run remains.
Abort(r) ==
    /\ at[r] \in Active
    /\ End(r, "lost")
    /\ UNCHANGED <<shown, links>>

\* What it must refuse: writing to a row that is gone, and one of a circle of waits.
Refused(r) ==
    \/ at[r] = "stale"
    \/ \E C \in SUBSET Run : r \in C /\ \A q \in C : \E o \in C : Blocks(o, q)
-----------------------------------------------------------------------------
(* track_transient_job *)

Get(id) ==
    /\ loop = "idle" /\ id \in byId
    /\ loop' = "track"
    /\ step' = "match"
    /\ trk' = id
    /\ UNCHANGED <<registry, db, run, match>>

\* _find_existing_match
FindMatch ==
    /\ step = "match"
    /\ step' = "write"
    /\ LET ks == Existing(shown, links, SourceOf[trk[1]], trk[2])
       IN  \/ ks = {} /\ match' = {}
           \/ \E k \in ks : match' = {k}
    /\ UNCHANGED <<registry, db, run, loop, trk>>

\* The database's answer: the run a link refers to is stored, a new key is new.
Accepted ==
    /\ at[trk[1]] \in {"success", "failed"}
    /\ match = {} => shown[trk[2].key] = NoPosting

\* The flush and the commit.  No other transaction can come between them.
TrackCommit ==
    /\ step = "write"
    /\ Accepted
    /\ \E k \in IF match = {} THEN {trk[2].key} ELSE match :
        LET s == SourceOf[trk[1]]
        IN  /\ Unlocked(k, Run)
            /\ shown' = [shown EXCEPT ![k] = trk[2]]
            /\ \E old \in Overwritten(links, k, s, trk[2]) :
                  links' = (links \ old) \cup {LinkOf(k, s, trk[2])}
    /\ saved' = saved \cup {trk}
    /\ step' = "consume"
    /\ match' = {}
    /\ UNCHANGED <<registry, run, loop, trk>>

Return ==
    /\ loop' = "idle"
    /\ step' = "none"
    /\ trk' = <<NoRun, NoPosting>>
    /\ match' = {}

\* Seeded fault: the result is consumed before the commit is known.
RollbackConsumed ==
    /\ step \in {"match", "write", "stale"}
    /\ Remove({trk})
    /\ Return
    /\ UNCHANGED <<lister, db, run>>

\* The exception handler rolls back; the result stays in the registry.
Rollback ==
    /\ step \in {"match", "write", "stale"}
    /\ Return
    /\ UNCHANGED <<registry, db, run>>

TrackRefused ==
    /\ step = "stale" \/ (step = "write" /\ ~Accepted)
    /\ Rollback

\* consume; there is nothing to remove if a run has replaced the results.
Consume ==
    /\ step = "consume"
    /\ Remove({trk})
    /\ Return
    /\ UNCHANGED <<lister, db, run>>
-----------------------------------------------------------------------------
\* A source's cleanup deletes a job.  Those who found it will write to no row.
RemoveJob(k) ==
    /\ shown[k] # NoPosting
    /\ Unlocked(k, Run)
    /\ shown' = [shown EXCEPT ![k] = NoPosting]
    /\ links' = {l \in links : l.job # k}
    /\ at' = [r \in Run |-> IF k \in target[r] THEN "stale" ELSE at[r]]
    /\ known' = [r \in Run |-> known[r] \ {k}]
    /\ step' = IF k \in match THEN "stale" ELSE step
    /\ UNCHANGED <<registry, saved, todo, found, target, over, added, dropped, loop, trk, match>>

Restart ==
    /\ byId' = {}
    /\ idsBySource' = [s \in Source |-> {}]
    /\ idsByRun' = [r \in Run |-> {}]
    /\ lister' = [s \in Source |-> NoRun]
    /\ at' = [r \in Run |-> IF at[r] \in Active THEN "lost" ELSE at[r]]
    /\ todo' = [r \in Run |-> <<>>]
    /\ target' = [r \in Run |-> {}]
    /\ over' = [r \in Run |-> [k \in Key |-> NoPosting]]
    /\ added' = [r \in Run |-> {}]
    /\ dropped' = [r \in Run |-> {}]
    /\ Return
    /\ UNCHANGED <<db, found, known>>
-----------------------------------------------------------------------------
RunStep(r) ==
    \/ KeepTransient(r) \/ MatchTracked(r) \/ Upsert(r) \/ Replace(r) \/ Commit(r)
    \/ Refused(r) /\ Abort(r)

TrackStep ==
    \/ FindMatch \/ TrackCommit \/ Consume
    \/ TrackRefused

Next ==
    \/ \E r \in Run : \/ \E f \in Results : BeginOnLoop(r, f) \/ BeginWorker(r, f)
                      \/ RunStep(r) \/ Fail(r) \/ Abort(r)
    \/ \E id \in byId : Get(id)
    \/ TrackStep \/ Rollback
    \/ \E k \in Key : RemoveJob(k)
    \/ Restart

Fairness == WF_vars(TrackStep) /\ \A r \in Run : WF_vars(RunStep(r))

Spec == Init /\ [][Next]_vars /\ Fairness
-----------------------------------------------------------------------------
(* Safety. *)

\* The two indexes of the registry name exactly the results it has, under every
\* interleaving of replacements by overlapping runs and of consumption.
IndexesAgree ==
    /\ idsBySource = [s \in Source |-> {id \in byId : SourceOf[id[1]] = s}]
    /\ idsByRun = [r \in Run |-> {id \in byId : id[1] = r}]

\* AC-03 and AC-04: what a source lists comes from the run that replaced it last,
\* and all that run found is listed until it has been saved: a tracking that is
\* rolled back, or a run that fails, takes nothing away.
ListingIsTheLastRuns ==
    \A s \in Source :
        LET all == IF lister[s] = NoRun THEN {} ELSE {lister[s]} \X Deduped(found[lister[s]])
            ids == {id \in byId : SourceOf[id[1]] = s}
        IN  ids \subseteq all /\ all \ ids \subseteq saved

\* A result that has been saved is off the list as soon as its handler returns,
\* and no run puts it there again.
SavedIsTakenOff == \A id \in byId \cap saved : step = "consume" /\ trk = id

\* A run that is recorded as failed has replaced nothing.
NothingFromFailedRuns == \A id \in byId : at[id[1]] # "failed"

\* AC-06 for jobs tracked before the run: their postings are not listed as
\* untracked, whatever other runs and cleanups do to the jobs meanwhile.
KnownIsNotListed == \A id \in byId : id[2].key \notin known[id[1]]

\* Two results of one posting, or one that a worker's run has matched meanwhile,
\* never become two jobs with one canonical_key: a key that was free when
\* _find_existing_match looked is still free when the job is inserted, so the
\* unique constraint behind it has nothing to refuse (tracking.py 54-76).
InsertIsNew == step = "write" /\ match = {} => shown[trk[2].key] = NoPosting

\* AC-06 as it is stated: when a run completes, no tracked posting is among the
\* results it lists.
TrackedIsNotListed ==
    [][\A r \in Run : at[r] = "commit" /\ at'[r] = "success" =>
          \A id \in byId : id[1] = r => shown[id[2].key] = NoPosting]_vars

\* AC-10: a result the user sees can be saved; in particular the database knows
\* the run to which the job's link will refer.
ListedCanBeSaved == step = "write" => at[trk[1]] = "success"

\* AC-12: a tracked job stays available: its row does not turn into that of
\* another posting, with an identifier of its own.
TrackedStaysItself ==
    [][\A k \in Key : shown[k] # NoPosting /\ shown[k]' # NoPosting =>
          shown[k]'.ext = shown[k].ext]_vars

(* The abstract specification, and how its state reads here. *)

Tracked == {k \in Key : shown[k] # NoPosting}

PhaseOf(r) == CASE at[r] = "none" -> "new"
                [] at[r] \in Active \ {"commit"} -> "running"
                [] OTHER -> "over"

\* What source s lists, less the result that is committed and not yet consumed.
Unsaved(s) == {id \in byId : SourceOf[id[1]] = s /\ ~(step = "consume" /\ trk = id)}

Chosen == IF step \in {"match", "write", "stale"} THEN {trk} ELSE {}

Listing == INSTANCE TransientListing WITH
    jobs   <- Tracked,
    phase  <- [r \in Run |-> PhaseOf(r)],
    listed <- [s \in Source |-> Unsaved(s)],
    chosen <- Chosen

\* Registry, locks, matching and transactions, each run's and the handler's, with
\* all that fails between them, behave as the abstract listing does.
ImplementsListing == Listing!ASpec

(* Progress. *)

\* The event loop, on which both a run and a tracking wait for rows that workers
\* have locked, always gets free again.
LoopReturns == loop # "idle" ~> loop = "idle"

\* What is not fairness in that: first, whoever has the loop can go on, or waits,
\* directly or through others, for a run that can.
RunReady(r) ==
    \/ at[r] \in {"match", "commit"} \/ Refused(r)
    \/ at[r] = "upsert" /\ \E k \in target[r] : Unlocked(k, Run \ {r})

TrackKeys == IF match = {} THEN {trk[2].key} ELSE match

TrackReady ==
    step = "write" /\ Accepted => \E k \in TrackKeys : Unlocked(k, Run)

Awaited(r) ==
    loop = r \/ (loop = "track" /\ \E k \in TrackKeys : over[r][k] # NoPosting)

\* C has the runs that whoever has the loop waits for, and those they wait for.
LoopGoesOn ==
    \A C \in SUBSET {r \in Run : at[r] \in Active} :
        /\ loop # "idle"
        /\ \A r \in Run :
              at[r] \in Active /\ (Awaited(r) \/ \E q \in C : Blocks(r, q)) => r \in C
        => (loop = "track" /\ TrackReady) \/ \E r \in C : RunReady(r)

\* Second, each step of a run leaves it less to do, and nobody else more.
Work(r) ==
    CASE at[r] = "match"  -> 2 * Len(todo[r]) + 2
      [] at[r] = "upsert" -> 2 * Len(todo[r]) + 1
      [] at[r] \in {"stale", "commit"} -> 1
      [] OTHER -> 0

RunsAdvance ==
    [][\A r \in Run : at[r] \in Active =>
          Work(r)' <= Work(r) /\ (RunStep(r) => Work(r)' < Work(r))]_vars
=============================================================================
