---------------------------- MODULE SourceCatalog ----------------------------
(***************************************************************************)
(* The table of sources: identity keys, duplicates, creation, import, edit *)
(* and deletion (src/app/domain/sources.py and its routes), the health a   *)
(* run leaves behind (ingestion.py) and the migrations that clean the      *)
(* table up and seed it (source_health_cleanup.py, source_seed.py).        *)
(*                                                                         *)
(* A session reads a row once and keeps it: what a handler sets is written *)
(* only where it differs from what was read (Flush).  Handlers declared    *)
(* "async def" have the event loop between two awaits ("loop"); deletions  *)
(* and the runs of a batch are on threads and need nothing.  The unique    *)
(* indexes are not part of the actions: StoredKeysUnique says that they    *)
(* never have to refuse a write.                                           *)
(*                                                                         *)
(* Texts are as clean_text leaves them, NoText is NULL or blank.           *)
(* config_json, notes and timestamps decide nothing and are left out.      *)
(***************************************************************************)
EXTENDS Integers, FiniteSets

CONSTANTS MaxSource,     \* bound: rows of the table
          Text,          \* texts of the columns
          Canonical,     \* slugify, and normalize_url of addresses
          Payload,       \* what forms and files contain
          Patchable,     \* the sets of columns a PATCH mentions
          FirstRows,     \* tables the migrations find
          RemovedBoard,  \* removed types and identifiers, in any spelling
          Seeds,         \* VALIDATED_SOURCE_ADDITIONS
          Request,       \* handlers and runs, each once
          MaxFile,       \* bound: rows of an imported file
          NoRequest      \* nobody has the event loop

Field  == {"name", "kind", "adapter", "company", "url", "ident"}
Source == 1 .. MaxSource
NoText == ""

ASSUME TextAssumption ==
    /\ {NoText, "greenhouse", "lever"} \subseteq Text
    /\ Canonical \in [Text -> Text]
    /\ Payload \subseteq [Field -> Text]
    /\ Seeds \subseteq Payload /\ Seeds # {}
    /\ Patchable \subseteq SUBSET Field

ASSUME BoundAssumption ==
    /\ MaxSource \in Nat \ {0} /\ MaxFile \in Nat \ {0}
    /\ NoRequest \notin Request

\* build_source_dedupe_key and build_source_company_provider_key; the types
\* with an adapter in the second key have no adapter yet, so no source.
DedupeKey(p) == <<p["kind"], Canonical[p["adapter"]], Canonical[p["url"]], Canonical[p["ident"]]>>

CompanyProviderKey(p) ==
    <<IF Canonical[p["company"]] # NoText THEN Canonical[p["company"]] ELSE Canonical[p["name"]], p["kind"]>>

NoKey == <<NoText, NoText>>

Row == [cols : [Field -> Text], dedupe : Text \X Text \X Text \X Text, owner : Text \X Text,
        live : BOOLEAN, active : BOOLEAN,
        state : {"healthy", "warning", "error"},
        status : {"none", "success", "partial_success", "failed"}, empties : Nat]

\* Source(...): a new row, with the defaults of its columns.
NewRow(p, isActive) ==
    [cols |-> p, dedupe |-> DedupeKey(p), owner |-> CompanyProviderKey(p), live |-> TRUE,
     active |-> isActive, state |-> "healthy", status |-> "none", empties |-> 0]

\* The tables before migration 0003: no company_provider_key yet, the dedupe
\* keys unique by the index of migration 0002.
ASSUME FirstRowsAssumption ==
    FirstRows \subseteq {rows \in [Source -> Row] :
        \A s \in Source : /\ rows[s].owner = NoKey
                          /\ rows[s].dedupe = DedupeKey(rows[s].cols)
                          /\ rows[s].active => rows[s].live
                          /\ \A t \in Source \ {s} : rows[s].live /\ rows[t].live
                                                       => rows[s].dedupe # rows[t].dedupe}

VARIABLES
    stage,       \* where the migrations are
    planted,     \* seeds add_validated_source_additions is done with
    count,       \* rows inserted; their ids are 1 .. count
    row,         \* the table sources
    loop,        \* the handler on the event loop
    at,          \* where each handler or run is
    op,          \* what it does
    target,      \* the row it has loaded
    seen,        \* that row as its session has read it
    form,        \* the payload it has validated
    wish,        \* is_active of that payload
    left,        \* rows of the file still to come
    torn,        \* history: rows updated by a handler that had read them before another update
    overlapped,  \* history: rows two runs of which overlapped
    truth        \* history: the health the runs would leave one after the other

table    == <<stage, planted, count, row>>
handlers == <<loop, at, op, target, seen, form, wish, left>>
history  == <<torn, overlapped, truth>>
vars     == <<table, handlers, history>>

HealthOf(x) == [state |-> x.state, status |-> x.status, empties |-> x.empties]

Health == [state : {"healthy", "warning", "error"},
           status : {"none", "success", "partial_success", "failed"}, empties : Nat]

TypeOK ==
    /\ stage \in {"backfill", "seed", "serving"}
    /\ planted \subseteq Seeds
    /\ count \in 0 .. MaxSource
    /\ row \in [Source -> Row]
    /\ loop \in Request \cup {NoRequest}
    /\ at \in [Request -> {"new", "row", "opened", "checked", "done"}]
    /\ op \in [Request -> {"none", "insert", "edit", "delete", "route run", "batch run"}]
    /\ target \in [Request -> Source]
    /\ seen \in [Request -> Row]
    /\ form \in [Request -> [Field -> Text]]
    /\ wish \in [Request -> BOOLEAN]
    /\ left \in [Request -> 0 .. MaxFile]
    /\ torn \subseteq Source
    /\ overlapped \subseteq Source
    /\ truth \in [Source -> Health]
-----------------------------------------------------------------------------
Live == {s \in Source : row[s].live}

Blank(p) == NoText \in {p["name"], p["url"], p["ident"]} \/ p["kind"] \notin {"greenhouse", "lever"}

\* Seeded fault: only the dedupe key is looked up.
FaultyDuplicatesOf(p) == {s \in Live : row[s].dedupe = DedupeKey(p)}

\* The live sources that validate takes for the same as p.
DuplicatesOf(p) ==
    {s \in Live : row[s].owner = CompanyProviderKey(p) \/ row[s].dedupe = DedupeKey(p)}

\* validate(payload, exclude_source_id)
Accepts(p, exclude) == ~Blank(p) /\ DuplicatesOf(p) \subseteq exclude

\* The UPDATE of a flush: the columns that differ from what the session read.
Written(now, read, set) == IF set # read THEN set ELSE now

\* Seeded fault: every column is written, changed or not.
FaultyFlush(now, read, set) == set

Flush(now, read, set) ==
    [cols    |-> [f \in Field |-> Written(now.cols[f], read.cols[f], set.cols[f])],
     dedupe  |-> Written(now.dedupe, read.dedupe, set.dedupe),
     owner   |-> Written(now.owner, read.owner, set.owner),
     live    |-> Written(now.live, read.live, set.live),
     active  |-> Written(now.active, read.active, set.active),
     state   |-> Written(now.state, read.state, set.state),
     status  |-> Written(now.status, read.status, set.status),
     empties |-> Written(now.empties, read.empties, set.empties)]

\* _update_source_health, on anything with the three columns.
AfterRun(h, status, fetched) ==
    [h EXCEPT !.status = status,
              !.state = IF status = "failed" THEN "error" ELSE IF fetched THEN "healthy" ELSE "warning",
              !.empties = IF status = "failed" THEN @ ELSE IF fetched THEN 0 ELSE @ + 1]

BlankRow == [NewRow([f \in Field |-> NoText], FALSE) EXCEPT !.live = FALSE]

\* A handler that returns gives up its session and, if it had it, the loop.
End(r) ==
    /\ at' = [at EXCEPT ![r] = "done"]
    /\ op' = [op EXCEPT ![r] = "none"]
    /\ target' = [target EXCEPT ![r] = 1]
    /\ seen' = [seen EXCEPT ![r] = BlankRow]
    /\ form' = [form EXCEPT ![r] = BlankRow.cols]
    /\ wish' = [wish EXCEPT ![r] = FALSE]
    /\ left' = [left EXCEPT ![r] = 0]
    /\ loop' = IF loop = r THEN NoRequest ELSE loop
-----------------------------------------------------------------------------
Init ==
    /\ stage = "backfill"
    /\ planted = {}
    /\ row \in FirstRows
    /\ count \in {n \in 0 .. MaxSource : \A s \in Source : row[s].live <=> s <= n}
    /\ loop = NoRequest
    /\ at = [r \in Request |-> "new"]
    /\ op = [r \in Request |-> "none"]
    /\ target = [r \in Request |-> 1]
    /\ seen = [r \in Request |-> BlankRow]
    /\ form = [r \in Request |-> BlankRow.cols]
    /\ wish = [r \in Request |-> FALSE]
    /\ left = [r \in Request |-> 0]
    /\ torn = {}
    /\ overlapped = {}
    /\ truth = [s \in Source |-> HealthOf(row[s])]

\* cleanup_source_health_sources: keys, removed sources, then duplicates.
Removed == {s \in Live : <<row[s].cols["kind"], row[s].cols["ident"]>> \in RemovedBoard}

\* Seeded fault: a source on the lists of removed ones can be the keeper.
FaultySameCompany(s) ==
    {t \in Live : CompanyProviderKey(row[t].cols) = CompanyProviderKey(row[s].cols)}

SameCompany(s) ==
    {t \in Live \ Removed : CompanyProviderKey(row[t].cols) = CompanyProviderKey(row[s].cols)}

\* _source_keeper_sort_key: health, last status, recency, id, in this order.
KeeperRank(s, recency) ==
    LET one(b) == IF b THEN 1 ELSE 0
    IN  ((2 * one(row[s].state = "healthy") + one(row[s].status = "success")) * 2 + recency[s])
          * (MaxSource + 1) + s

Keeper(s, recency) ==
    CHOOSE t \in SameCompany(s) :
        \A u \in SameCompany(s) : KeeperRank(u, recency) <= KeeperRank(t, recency)

\* The same cleanup of all rows: keys are filled in, one source of each key is kept.
Cleaned(recency) ==
    LET spared == {s \in Live \ Removed : Keeper(s, recency) = s}
    IN  [s \in Source |-> IF s \notin Live THEN row[s] ELSE
            [row[s] EXCEPT !.owner = CompanyProviderKey(row[s].cols), !.live = s \in spared,
                           !.active = @ /\ s \in spared]]

\* Last runs, updates and creations may have happened in any order.
Recency == [Source -> 0 .. 1]

\* Migration 0003: the cleanup, then the unique index on the keys it filled in.
CleanUpSourceHealth ==
    /\ stage = "backfill"
    /\ stage' = "seed"
    /\ \E recency \in Recency : row' = Cleaned(recency)
    /\ UNCHANGED <<planted, count, handlers, history>>

Insert(p, isActive) ==
    /\ count < MaxSource
    /\ count' = count + 1
    /\ row' = [row EXCEPT ![count'] = NewRow(p, isActive)]
    /\ truth' = [truth EXCEPT ![count'] = HealthOf(NewRow(p, isActive))]

\* Migration 0004: add_validated_source_additions, one definition.
AddSeed(p) ==
    /\ stage = "seed" /\ p \in Seeds \ planted
    /\ planted' = planted \cup {p}
    /\ stage' = IF planted' = Seeds THEN "serving" ELSE stage
    /\ \/ /\ DuplicatesOf(p) # {}
          /\ UNCHANGED <<count, row, truth>>
       \/ /\ DuplicatesOf(p) = {}
          /\ Insert(p, TRUE)
    /\ UNCHANGED <<handlers, torn, overlapped>>
-----------------------------------------------------------------------------
\* Seeded fault: the handlers are on threads.
FaultyLoopFree(r) == TRUE

\* A handler begins when the migrations are done; on the loop if it is free.
LoopFree(r) == loop = NoRequest

Begin(r, doing) ==
    /\ stage = "serving" /\ at[r] = "new"
    /\ op' = [op EXCEPT ![r] = doing]

Load(r, s) ==
    /\ s \in Live
    /\ target' = [target EXCEPT ![r] = s]
    /\ seen' = [seen EXCEPT ![r] = row[s]]

\* create_source (one row) and import_csv, which keeps the loop for its file.
StartInsert(r) ==
    /\ Begin(r, "insert") /\ LoopFree(r)
    /\ loop' = r
    /\ at' = [at EXCEPT ![r] = "row"]
    /\ \E n \in 1 .. MaxFile : left' = [left EXCEPT ![r] = n]
    /\ UNCHANGED <<table, target, seen, form, wish, history>>

NextRow(r) ==
    \/ left[r] = 1 /\ End(r)
    \/ /\ left[r] > 1
       /\ left' = [left EXCEPT ![r] = @ - 1]
       /\ at' = [at EXCEPT ![r] = "row"]
       /\ UNCHANGED <<loop, op, target, seen, form, wish>>

RejectRow(r, p) ==
    /\ at[r] = "row" /\ ~Accepts(p, {})
    /\ NextRow(r)
    /\ UNCHANGED <<table, history>>

CheckRow(r, p, isActive) ==
    /\ at[r] = "row" /\ Accepts(p, {})
    /\ at' = [at EXCEPT ![r] = "checked"]
    /\ form' = [form EXCEPT ![r] = p]
    /\ wish' = [wish EXCEPT ![r] = isActive]
    /\ UNCHANGED <<table, loop, op, target, seen, left, history>>

InsertRow(r) ==
    /\ at[r] = "checked" /\ op[r] = "insert"
    /\ Insert(form[r], wish[r])
    /\ NextRow(r)
    /\ UNCHANGED <<stage, planted, torn, overlapped>>

\* update_source as PATCH calls it: loaded, merged and validated in one go.
CheckPatch(r, s, p, fields, isActive) ==
    /\ Begin(r, "edit") /\ LoopFree(r) /\ Load(r, s)
    /\ LET merged == [f \in Field |-> IF f \in fields THEN p[f] ELSE row[s].cols[f]]
       IN  Accepts(merged, {s}) /\ form' = [form EXCEPT ![r] = merged]
    /\ wish' = [wish EXCEPT ![r] = isActive]
    /\ at' = [at EXCEPT ![r] = "checked"]
    /\ loop' = r
    /\ UNCHANGED <<table, left, history>>

\* edit_source_submit: the row is loaded before the form is awaited.
OpenEdit(r, s) ==
    /\ Begin(r, "edit") /\ LoopFree(r) /\ Load(r, s)
    /\ at' = [at EXCEPT ![r] = "opened"]
    /\ UNCHANGED <<table, loop, form, wish, left, history>>

SubmitEdit(r, p, isActive) ==
    /\ at[r] = "opened" /\ op[r] = "edit" /\ LoopFree(r)
    /\ Accepts(p, {target[r]})
    /\ at' = [at EXCEPT ![r] = "checked"]
    /\ form' = [form EXCEPT ![r] = p]
    /\ wish' = [wish EXCEPT ![r] = isActive]
    /\ loop' = r
    /\ UNCHANGED <<table, op, target, seen, left, history>>

RejectEdit(r, p) ==
    /\ at[r] = "opened" /\ op[r] = "edit" /\ LoopFree(r)
    /\ ~Accepts(p, {target[r]})
    /\ End(r)
    /\ UNCHANGED <<table, history>>

\* Seeded fault: the company and provider key is not computed again.
FaultyEdited(r) ==
    [seen[r] EXCEPT !.cols = form[r], !.dedupe = DedupeKey(form[r]), !.active = wish[r]]

Edited(r) ==
    [seen[r] EXCEPT !.cols = form[r], !.dedupe = DedupeKey(form[r]),
                    !.owner = CompanyProviderKey(form[r]), !.active = wish[r]]

WriteUpdate(r) ==
    /\ at[r] = "checked" /\ op[r] = "edit"
    /\ row' = [row EXCEPT ![target[r]] = Flush(@, seen[r], Edited(r))]
    /\ torn' = IF row[target[r]].cols = seen[r].cols THEN torn ELSE torn \cup {target[r]}
    /\ End(r)
    /\ UNCHANGED <<stage, planted, count, overlapped, truth>>

\* delete_source, on a thread.
OpenDelete(r, s) ==
    /\ Begin(r, "delete") /\ Load(r, s)
    /\ at' = [at EXCEPT ![r] = "opened"]
    /\ UNCHANGED <<table, loop, form, wish, left, history>>

CommitDelete(r) ==
    /\ at[r] = "opened" /\ op[r] = "delete"
    /\ row' = [row EXCEPT ![target[r]] =
                  Flush(@, seen[r], [seen[r] EXCEPT !.live = FALSE, !.active = FALSE])]
    /\ End(r)
    /\ UNCHANGED <<stage, planted, count, history>>

\* Runs: the route, which loads the source before it awaits the body and runs
\* on the loop, and the worker of a batch.
Runs(s) == {r \in Request : at[r] = "opened" /\ op[r] \in {"route run", "batch run"} /\ target[r] = s}

LoadRun(r, s, doing) ==
    /\ Begin(r, doing) /\ Load(r, s)
    /\ doing = "route run" => LoopFree(r)
    /\ row[s].active
    /\ at' = [at EXCEPT ![r] = "opened"]
    /\ overlapped' = IF Runs(s) = {} THEN overlapped ELSE overlapped \cup {s}
    /\ UNCHANGED <<table, loop, form, wish, left, torn, truth>>

FinishRun(r, status, fetched) ==
    /\ r \in Runs(target[r])
    /\ op[r] = "route run" => LoopFree(r)
    /\ row' = [row EXCEPT ![target[r]] = Flush(@, seen[r], AfterRun(seen[r], status, fetched))]
    /\ truth' = [truth EXCEPT ![target[r]] = AfterRun(@, status, fetched)]
    /\ End(r)
    /\ UNCHANGED <<stage, planted, count, torn, overlapped>>

\* The commit of a run is refused; nothing of it remains.
AbortRun(r) ==
    /\ r \in Runs(target[r])
    /\ End(r)
    /\ UNCHANGED <<table, history>>
-----------------------------------------------------------------------------
Inserting(r) ==
    \/ StartInsert(r) \/ InsertRow(r)
    \/ \E p \in Payload : RejectRow(r, p) \/ \E b \in BOOLEAN : CheckRow(r, p, b)

Editing(r) ==
    \/ \E s \in Source : OpenEdit(r, s)
    \/ \E s \in Source, p \in Payload, F \in Patchable, b \in BOOLEAN : CheckPatch(r, s, p, F, b)
    \/ \E p \in Payload : RejectEdit(r, p) \/ \E b \in BOOLEAN : SubmitEdit(r, p, b)
    \/ WriteUpdate(r)

Deleting(r) == CommitDelete(r) \/ \E s \in Source : OpenDelete(r, s)

Running(r) ==
    \/ \E s \in Source, doing \in {"route run", "batch run"} : LoadRun(r, s, doing)
    \/ FinishRun(r, "failed", FALSE) \/ AbortRun(r)
    \/ \E status \in {"success", "partial_success"}, fetched \in BOOLEAN : FinishRun(r, status, fetched)

Next ==
    \/ CleanUpSourceHealth
    \/ \E p \in Seeds : AddSeed(p)
    \/ \E r \in Request : Inserting(r) \/ Editing(r) \/ Deleting(r) \/ Running(r)

Spec == Init /\ [][Next]_vars
-----------------------------------------------------------------------------
\* No two live sources have a key in common: the unique indexes, the one that
\* migration 0003 creates included, never refuse a write (models.py 19-34).
StoredKeysUnique ==
    stage # "backfill" =>
        \A s, t \in Live : s # t => row[s].owner # row[t].owner /\ row[s].dedupe # row[t].dedupe

\* What validate accepted is acceptable when it is written: check and write of
\* create_source and update_source are two steps, but the loop is held.
CheckStillHolds ==
    \A r \in Request : at[r] = "checked" =>
        DuplicatesOf(form[r]) \subseteq IF op[r] = "edit" THEN {target[r]} ELSE {}

\* The stored keys are those of the columns, unless two handlers that edit one
\* source overlapped (update_source 144-159 writes what changed since it read).
KeysFollowColumns ==
    stage # "backfill" =>
        \A s \in Live \ torn : /\ row[s].owner = CompanyProviderKey(row[s].cols)
                               /\ row[s].dedupe = DedupeKey(row[s].cols)

\* The health of a source is what its runs leave one after the other, whatever
\* edits and deletions overlap them, unless two runs of it did
\* (_update_source_health adds one to what the session read long before).
HealthExact == \A s \in 1 .. count : s \notin overlapped => HealthOf(row[s]) = truth[s]

\* cleanup_source_health_sources leaves each company and provider that has a
\* source not on the lists exactly one, a healthy one if there is any; and a
\* second cleanup, whenever sources ran last, would change nothing ("The
\* operation is idempotent", source_health_cleanup.py 36).
OneKeeper ==
    [][stage = "backfill" /\ stage' # stage =>
         /\ \A s \in Live \ Removed : \E k \in SameCompany(s) :
               /\ Live' \cap SameCompany(s) = {k}
               /\ row[s].state = "healthy" => row[k].state = "healthy"
         /\ \A recency \in Recency : Cleaned(recency)' = row']_vars

\* A deleted source stays deleted, also if a handler or run that had loaded it
\* before writes to it afterwards (delete_source 187-196).
DeletedStaysDeleted == [][\A s \in 1 .. count : ~row[s].live => ~row'[s].live]_vars

\* The abstract specification, and how its state reads here.  Before the cleanup
\* fills it in, the key of a source's company is that of its columns.
LifeOf(s) == IF s > count THEN "unborn" ELSE IF row[s].live THEN "live" ELSE "deleted"

KeysOf(s) ==
    IF s \notin Live THEN {} ELSE
        {<<"source", row[s].dedupe>>,
         <<"company", IF stage = "backfill" THEN CompanyProviderKey(row[s].cols) ELSE row[s].owner>>}

Keys == ({"source"} \X (Text \X Text \X Text \X Text)) \cup ({"company"} \X (Text \X Text))

Directory == INSTANCE SourceDirectory WITH
    Key   <- Keys,
    open  <- stage # "backfill",
    life  <- [s \in Source |-> LifeOf(s)],
    holds <- [s \in Source |-> KeysOf(s)]

\* Migrations, forms, imports, runs and deletions, with sessions that write what
\* they read long before, do to the keys of sources only what one step of one
\* source at a time may do.
ImplementsDirectory == Directory!ASpec

\* An edit that makes a source the same as another live one is rejected
\* (source_edit_delete_product_spec.md 77): no two live sources have the same
\* identity.  The code does not keep this.
NoDuplicateIdentity ==
    \A s, t \in Live : s # t /\ stage # "backfill" =>
        /\ DedupeKey(row[s].cols) # DedupeKey(row[t].cols)
        /\ CompanyProviderKey(row[s].cols) # CompanyProviderKey(row[t].cols)
=============================================================================
