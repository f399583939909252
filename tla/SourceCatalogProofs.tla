------------------------ MODULE SourceCatalogProofs ------------------------
(***************************************************************************)
(* Proofs about SourceCatalog, for all texts, payloads, first tables and   *)
(* numbers of handlers and rows.                                           *)
(***************************************************************************)
EXTENDS SourceCatalog, WellFoundedInduction, TLAPS

-----------------------------------------------------------------------------
(* The inductive invariant, part by part.                                  *)

(* While the cleanup has not run, the keys of migration 0002 are right and *)
(* unique, and nobody is served until all migrations are done.             *)
BackfillInv ==
  /\ stage = "backfill" =>
       \A s \in Source : /\ row[s].dedupe = DedupeKey(row[s].cols)
                         /\ \A t \in Source \ {s} : row[s].live /\ row[t].live
                                                      => row[s].dedupe # row[t].dedupe
  /\ stage # "serving" => \A r \in Request : at[r] = "new"

(* Rows that are not inserted yet are not live.                            *)
CountInv == \A s \in Source : row[s].live => s <= count

(* A handler between check and write has the event loop.                   *)
RequestInv ==
  \A r \in Request : /\ at[r] \in {"row", "checked"} => loop = r
                     /\ at[r] = "row" => op[r] = "insert"
                     /\ at[r] = "checked" => op[r] \in {"insert", "edit"}

Loaded(r) == at[r] = "opened" \/ (at[r] = "checked" /\ op[r] = "edit")

(* What a session has read was live, and had keys that follow its columns  *)
(* unless the row is torn by now.                                          *)
SessionInv ==
  \A r \in Request : Loaded(r) =>
     /\ target[r] <= count
     /\ seen[r].live
     /\ op[r] = "edit" /\ target[r] \notin torn =>
          /\ seen[r].owner = CompanyProviderKey(seen[r].cols)
          /\ seen[r].dedupe = DedupeKey(seen[r].cols)

(* A run that no other overlaps has read the health the row still has.     *)
RunInv ==
  \A s \in Source \ overlapped : \A r \in Runs(s) :
     /\ HealthOf(seen[r]) = truth[s]
     /\ \A q \in Runs(s) : q = r

IInv == /\ TypeOK
        /\ StoredKeysUnique
        /\ CheckStillHolds
        /\ KeysFollowColumns
        /\ HealthExact
        /\ BackfillInv
        /\ CountInv
        /\ RequestInv
        /\ SessionInv
        /\ RunInv

-----------------------------------------------------------------------------
(* Lemmas.                                                                 *)

USE TextAssumption, BoundAssumption DEF table, handlers, history, Source

(* There is room for the rows inserted.                                    *)
LEMMA CountType ==
  ASSUME TypeOK
  PROVE  /\ count \in Nat /\ count <= MaxSource
         /\ \A s : s \in 1 .. count => s \in Source
         /\ \A s \in Source : s <= count => s \in 1 .. count
         /\ \A r \in Request : target[r] \in Source /\ target[r] \in Nat
<1>1. count \in 0 .. MaxSource /\ target \in [Request -> Source]
  BY DEF TypeOK
<1> QED
  BY <1>1

(* Keys are made of texts.                                                 *)
LEMMA KeyType ==
  ASSUME NEW p \in [Field -> Text]
  PROVE  /\ DedupeKey(p) \in Text \X Text \X Text \X Text
         /\ CompanyProviderKey(p) \in Text \X Text
BY DEF DedupeKey, CompanyProviderKey, Field

(* A new row is a row, and has the keys of its columns.                    *)
LEMMA NewRowType ==
  ASSUME NEW p \in [Field -> Text], NEW b \in BOOLEAN
  PROVE  /\ NewRow(p, b) \in Row
         /\ NewRow(p, b).cols = p /\ NewRow(p, b).live
         /\ NewRow(p, b).owner = CompanyProviderKey(p)
         /\ NewRow(p, b).dedupe = DedupeKey(p)
BY KeyType DEF NewRow, Row

(* The blank row is a row.                                                 *)
LEMMA BlankRowType == BlankRow \in Row /\ BlankRow.cols \in [Field -> Text]
<1>1. [f \in Field |-> NoText] \in [Field -> Text]
  OBVIOUS
<1>2. NewRow([f \in Field |-> NoText], FALSE) \in Row
  BY <1>1, NewRowType
<1> QED
  BY <1>2 DEF BlankRow, Row

(* The health of a row is one.                                             *)
LEMMA HealthType ==
  ASSUME NEW x \in Row
  PROVE  HealthOf(x) \in Health
BY DEF HealthOf, Health, Row

(* A run leaves the columns of a source alone, but for its health.         *)
LEMMA AfterRunType ==
  ASSUME NEW x \in Row, NEW status \in {"success", "partial_success", "failed"},
         NEW fetched \in BOOLEAN
  PROVE  /\ AfterRun(x, status, fetched) \in Row
         /\ AfterRun(x, status, fetched).cols = x.cols
         /\ AfterRun(x, status, fetched).owner = x.owner
         /\ AfterRun(x, status, fetched).dedupe = x.dedupe
         /\ AfterRun(x, status, fetched).live = x.live
         /\ AfterRun(x, status, fetched).active = x.active
         /\ HealthOf(AfterRun(x, status, fetched)) = AfterRun(HealthOf(x), status, fetched)
         /\ AfterRun(HealthOf(x), status, fetched) \in Health
<1> DEFINE y == AfterRun(x, status, fetched)
           empties == IF status = "failed" THEN x.empties ELSE IF fetched THEN 0 ELSE x.empties + 1
           state == IF status = "failed" THEN "error" ELSE IF fetched THEN "healthy" ELSE "warning"
<1>1. empties \in Nat /\ state \in {"healthy", "warning", "error"}
  BY DEF Row
<1>2. y = [x EXCEPT !.status = status, !.state = state, !.empties = empties]
  BY DEF AfterRun
<1>3. AfterRun(HealthOf(x), status, fetched)
        = [state |-> state, status |-> status, empties |-> empties]
  <2> DEFINE h == [state |-> x.state, status |-> x.status, empties |-> x.empties]
  <2>1. AfterRun(h, status, fetched)
          = [h EXCEPT !.status = status, !.state = state, !.empties = empties]
    BY DEF AfterRun
  <2>2. HealthOf(x) = h
    BY DEF HealthOf
  <2> HIDE DEF empties, state
  <2> QED
    BY <2>1, <2>2
<1> HIDE DEF empties, state, y
<1>4. y \in Row
  BY <1>1, <1>2 DEF Row
<1>5. HealthOf(y) = AfterRun(HealthOf(x), status, fetched)
  BY <1>2, <1>3 DEF Row, HealthOf
<1>6. AfterRun(HealthOf(x), status, fetched) \in Health
  BY <1>1, <1>3 DEF Health
<1>7. /\ y.cols = x.cols /\ y.owner = x.owner /\ y.dedupe = x.dedupe
      /\ y.live = x.live /\ y.active = x.active
  BY <1>2 DEF Row
<1> QED
  BY <1>4, <1>5, <1>6, <1>7 DEF y

LEMMA AfterHealthType ==
  ASSUME NEW h \in Health, NEW status \in {"success", "partial_success", "failed"},
         NEW fetched \in BOOLEAN
  PROVE  AfterRun(h, status, fetched) \in Health
<1> DEFINE empties == IF status = "failed" THEN h.empties ELSE IF fetched THEN 0 ELSE h.empties + 1
           state == IF status = "failed" THEN "error" ELSE IF fetched THEN "healthy" ELSE "warning"
<1>1. empties \in Nat /\ state \in {"healthy", "warning", "error"}
  BY DEF Health
<1>2. AfterRun(h, status, fetched) = [h EXCEPT !.status = status, !.state = state, !.empties = empties]
  BY DEF AfterRun
<1> HIDE DEF empties, state
<1> QED
  BY <1>1, <1>2 DEF Health

(* A flush leaves what its session did not set.                            *)
LEMMA FlushKeeps ==
  ASSUME NEW now \in Row, NEW read \in Row, NEW set \in Row
  PROVE  /\ Flush(now, read, set) \in Row
         /\ set.owner = read.owner => Flush(now, read, set).owner = now.owner
         /\ set.dedupe = read.dedupe => Flush(now, read, set).dedupe = now.dedupe
         /\ set.live = read.live => Flush(now, read, set).live = now.live
         /\ set.cols = read.cols => Flush(now, read, set).cols = now.cols
         /\ HealthOf(set) = HealthOf(read) => HealthOf(Flush(now, read, set)) = HealthOf(now)
<1>1. Flush(now, read, set) \in Row
  BY DEF Flush, Row, Written
<1>2. set.cols = read.cols => Flush(now, read, set).cols = now.cols
  BY DEF Flush, Row, Written
<1> QED
  BY <1>1, <1>2 DEF Flush, Row, Written, HealthOf

(* A flush writes what its session did set, where nobody else did.         *)
LEMMA FlushWrites ==
  ASSUME NEW now \in Row, NEW read \in Row, NEW set \in Row
  PROVE  /\ set.owner # read.owner => Flush(now, read, set).owner = set.owner
         /\ set.dedupe # read.dedupe => Flush(now, read, set).dedupe = set.dedupe
         /\ set.live # read.live => Flush(now, read, set).live = set.live
         /\ now.cols = read.cols => Flush(now, read, set).cols = set.cols
         /\ HealthOf(now) = HealthOf(read) => HealthOf(Flush(now, read, set)) = HealthOf(set)
<1>1. ASSUME now.cols = read.cols
      PROVE  Flush(now, read, set).cols = set.cols
  <2>1. Flush(now, read, set).cols
          = [f \in Field |-> IF set.cols[f] # read.cols[f] THEN set.cols[f] ELSE read.cols[f]]
    BY <1>1 DEF Flush, Written
  <2>2. set.cols \in [Field -> Text]
    BY DEF Row
  <2> QED
    BY <2>1, <2>2
<1> QED
  BY <1>1 DEF Flush, Row, Written, HealthOf

-----------------------------------------------------------------------------
(* Each action keeps the invariant.                                        *)

LEMMA InitKeeps ==
  ASSUME Init
  PROVE  IInv
<1>1. row \in [Source -> Row]
      /\ \A s \in Source : /\ row[s].owner = NoKey
                           /\ row[s].dedupe = DedupeKey(row[s].cols)
                           /\ \A t \in Source \ {s} : row[s].live /\ row[t].live
                                                        => row[s].dedupe # row[t].dedupe
  BY FirstRowsAssumption DEF Init
<1>2. TypeOK
  <2>1. truth \in [Source -> Health]
    BY <1>1, HealthType DEF Init
  <2> QED
    BY <1>1, <2>1, BlankRowType DEF Init, TypeOK
<1> QED
  BY <1>1, <1>2 DEF Init, IInv, StoredKeysUnique, CheckStillHolds, KeysFollowColumns,
       HealthExact, BackfillInv, CountInv, RequestInv, SessionInv, RunInv, Loaded, Runs

(* The cleanup.                                                            *)
LEMMA CleanedType ==
  ASSUME TypeOK, NEW recency, NEW s \in Source
  PROVE  /\ Cleaned(recency) \in [Source -> Row]
         /\ Cleaned(recency)[s].cols = row[s].cols
         /\ Cleaned(recency)[s].dedupe = row[s].dedupe
         /\ HealthOf(Cleaned(recency)[s]) = HealthOf(row[s])
         /\ Cleaned(recency)[s].live <=> s \in Live \ Removed /\ Keeper(s, recency) = s
         /\ s \in Live => Cleaned(recency)[s].owner = CompanyProviderKey(row[s].cols)
         /\ s \notin Live => Cleaned(recency)[s] = row[s]
<1>1. ASSUME NEW t \in Source
      PROVE  row[t] \in Row /\ CompanyProviderKey(row[t].cols) \in Text \X Text
  BY KeyType DEF TypeOK, Row
<1> DEFINE spared == {t \in Live \ Removed : Keeper(t, recency) = t}
           new(t) == [row[t] EXCEPT !.owner = CompanyProviderKey(row[t].cols), !.live = t \in spared,
                           !.active = @ /\ t \in spared]
<1>2. Cleaned(recency) = [t \in Source |-> IF t \notin Live THEN row[t] ELSE new(t)]
  BY DEF Cleaned
<1>3. ASSUME NEW t \in Source
      PROVE  /\ new(t) \in Row
             /\ new(t).cols = row[t].cols /\ new(t).dedupe = row[t].dedupe
             /\ new(t).live <=> t \in spared
             /\ new(t).owner = CompanyProviderKey(row[t].cols)
             /\ HealthOf(new(t)) = HealthOf(row[t])
  <2> DEFINE k == CompanyProviderKey(row[t].cols)
             b == t \in spared
  <2>1. row[t] \in Row /\ k \in Text \X Text /\ b \in BOOLEAN
    BY <1>1
  <2> HIDE DEF k, b
  <2>2. (row[t].active /\ b) \in BOOLEAN
    OBVIOUS
  <2> QED
    BY <2>1, <2>2 DEF Row, HealthOf, k, b
<1> HIDE DEF new
<1>4. Cleaned(recency) \in [Source -> Row]
  BY <1>1, <1>2, <1>3
<1>5. Cleaned(recency)[s] = IF s \notin Live THEN row[s] ELSE new(s)
  BY <1>2
<1> QED
  BY <1>3, <1>4, <1>5 DEF Live

(* Sources of one company have one keeper.                                 *)
LEMMA OneKeeperEach ==
  ASSUME NEW recency, NEW s, NEW t,
         CompanyProviderKey(row[s].cols) = CompanyProviderKey(row[t].cols)
  PROVE  Keeper(s, recency) = Keeper(t, recency)
<1>1. SameCompany(s) = SameCompany(t)
  BY DEF SameCompany
<1> QED
  BY <1>1, Zenon DEF Keeper

LEMMA CleanUpKeeps ==
  ASSUME IInv, CleanUpSourceHealth
  PROVE  IInv'
<1> PICK recency \in Recency : row' = Cleaned(recency)
  BY DEF CleanUpSourceHealth
<1>1. stage = "backfill" /\ stage' = "seed"
  BY DEF CleanUpSourceHealth
<1>2. ASSUME NEW s \in Source
      PROVE  /\ row' \in [Source -> Row]
             /\ row'[s].cols = row[s].cols
             /\ row'[s].dedupe = row[s].dedupe
             /\ HealthOf(row'[s]) = HealthOf(row[s])
             /\ row'[s].live => s \in Live /\ Keeper(s, recency) = s
                                /\ row'[s].owner = CompanyProviderKey(row[s].cols)
  BY CleanedType DEF IInv
<1>3. row' \in [Source -> Row]
  BY CleanedType, 1 \in Source DEF IInv
<1>4. StoredKeysUnique'
  <2> SUFFICES ASSUME NEW s \in Live', NEW t \in Live', s # t
               PROVE  row'[s].owner # row'[t].owner /\ row'[s].dedupe # row'[t].dedupe
    BY DEF StoredKeysUnique
  <2>1. /\ s \in Source /\ t \in Source
        /\ row'[s].live /\ row'[t].live
    BY DEF Live
  <2>2. row'[s].owner # row'[t].owner
    BY <2>1, <1>2, OneKeeperEach
  <2>3. row'[s].dedupe # row'[t].dedupe
    BY <2>1, <1>1, <1>2 DEF IInv, BackfillInv, Live
  <2> QED
    BY <2>2, <2>3
<1>5. KeysFollowColumns'
  BY <1>1, <1>2 DEF KeysFollowColumns, IInv, BackfillInv, Live
<1>6. \A r \in Request : at[r] = "new" /\ at'[r] = "new"
  BY <1>1 DEF CleanUpSourceHealth, IInv, BackfillInv
<1>7. HealthExact'
  <2> SUFFICES ASSUME NEW s \in 1 .. count, s \notin overlapped
               PROVE  HealthOf(row'[s]) = truth[s]
    BY DEF HealthExact, CleanUpSourceHealth
  <2>1. s \in Source
    BY CountType DEF IInv
  <2>2. HealthOf(row[s]) = truth[s]
    BY DEF IInv, HealthExact
  <2> QED
    BY <2>1, <2>2, <1>2
<1>8. CountInv'
  BY <1>2 DEF CleanUpSourceHealth, CountInv, IInv, Live
<1>9. TypeOK'
  BY <1>1, <1>3 DEF CleanUpSourceHealth, IInv, TypeOK
<1> QED
  BY <1>1, <1>4, <1>5, <1>6, <1>7, <1>8, <1>9 DEF CleanUpSourceHealth, IInv, CheckStillHolds,
       BackfillInv, RequestInv, SessionInv, RunInv, Loaded, Runs

(* What a step that leaves the table alone cannot disturb.                 *)
LEMMA TableKept ==
  ASSUME IInv, UNCHANGED <<table, torn, truth>>, stage = "serving", overlapped \subseteq overlapped'
  PROVE  StoredKeysUnique' /\ KeysFollowColumns' /\ HealthExact' /\ BackfillInv' /\ CountInv'
<1>1. StoredKeysUnique' /\ KeysFollowColumns'
  BY DEF IInv, StoredKeysUnique, KeysFollowColumns, Live
<1>2. HealthExact'
  BY DEF IInv, HealthExact
<1> QED
  BY <1>1, <1>2 DEF IInv, BackfillInv, CountInv

(* A handler that ends leaves nothing that concerns it.                    *)
LEMMA EndType ==
  ASSUME TypeOK, NEW r \in Request, End(r)
  PROVE  /\ loop' \in Request \cup {NoRequest}
         /\ at' \in [Request -> {"new", "row", "opened", "checked", "done"}]
         /\ op' \in [Request -> {"none", "insert", "edit", "delete", "route run", "batch run"}]
         /\ target' \in [Request -> Source]
         /\ seen' \in [Request -> Row]
         /\ form' \in [Request -> [Field -> Text]]
         /\ wish' \in [Request -> BOOLEAN]
         /\ left' \in [Request -> 0 .. MaxFile]
         /\ at'[r] = "done"
         /\ \A q \in Request \ {r} : /\ at'[q] = at[q] /\ op'[q] = op[q] /\ target'[q] = target[q]
                                     /\ seen'[q] = seen[q] /\ form'[q] = form[q]
                                     /\ loop = q => loop' = q
<1>1. 1 \in Source /\ 0 \in 0 .. MaxFile
  OBVIOUS
<1>2. /\ loop' \in Request \cup {NoRequest}
      /\ at' \in [Request -> {"new", "row", "opened", "checked", "done"}]
      /\ op' \in [Request -> {"none", "insert", "edit", "delete", "route run", "batch run"}]
  BY DEF End, TypeOK
<1>3. target' \in [Request -> Source] /\ seen' \in [Request -> Row]
  BY <1>1, BlankRowType DEF End, TypeOK
<1>4. /\ form' \in [Request -> [Field -> Text]]
      /\ wish' \in [Request -> BOOLEAN]
      /\ left' \in [Request -> 0 .. MaxFile]
  BY <1>1, BlankRowType DEF End, TypeOK
<1>5. at'[r] = "done"
  BY DEF End, TypeOK
<1>6. ASSUME NEW q \in Request \ {r}
      PROVE  /\ at'[q] = at[q] /\ op'[q] = op[q] /\ target'[q] = target[q]
             /\ seen'[q] = seen[q] /\ form'[q] = form[q]
             /\ loop = q => loop' = q
  BY DEF End, TypeOK
<1> QED
  BY <1>2, <1>3, <1>4, <1>5, <1>6

LEMMA EndKeeps ==
  ASSUME IInv, NEW r \in Request, End(r), torn \subseteq torn', count' \in Nat, count' >= count
  PROVE  RequestInv' /\ SessionInv'
<1>1. count \in Nat /\ count' \in Nat /\ \A q \in Request : target[q] \in Nat
  BY CountType DEF IInv
<1>2. RequestInv'
  BY EndType DEF IInv, RequestInv
<1>3. SessionInv'
  <2> SUFFICES ASSUME NEW q \in Request, Loaded(q)'
               PROVE  /\ target'[q] <= count'
                      /\ seen'[q].live
                      /\ op'[q] = "edit" /\ target'[q] \notin torn' =>
                           /\ seen'[q].owner = CompanyProviderKey(seen'[q].cols)
                           /\ seen'[q].dedupe = DedupeKey(seen'[q].cols)
    BY DEF SessionInv
  <2>1. q # r /\ Loaded(q) /\ op'[q] = op[q] /\ target'[q] = target[q] /\ seen'[q] = seen[q]
    BY EndType DEF Loaded, IInv
  <2> QED
    BY <1>1, <2>1 DEF IInv, SessionInv
<1> QED
  BY <1>2, <1>3

(* Runs that go on are as they were.                                       *)
LEMMA EndRunsKeep ==
  ASSUME IInv, NEW r \in Request, End(r), UNCHANGED <<truth, overlapped>>
  PROVE  RunInv'
<1> SUFFICES ASSUME NEW s \in Source \ overlapped, NEW q \in Runs(s)'
             PROVE  HealthOf(seen'[q]) = truth[s] /\ \A u \in Runs(s)' : u = q
  BY DEF RunInv
<1>1. \A u \in Runs(s)' : u \in Runs(s) /\ seen'[u] = seen[u]
  BY EndType DEF IInv, Runs
<1> QED
  BY <1>1 DEF IInv, RunInv

(* Who ends without a write leaves checks and runs of the others alone.    *)
LEMMA EndAloneKeeps ==
  ASSUME IInv, NEW r \in Request, End(r), UNCHANGED <<table, history>>, stage = "serving"
  PROVE  IInv'
<1>1. TypeOK'
  BY EndType DEF IInv, TypeOK
<1>2. CheckStillHolds'
  <2> SUFFICES ASSUME NEW q \in Request, at'[q] = "checked"
               PROVE  DuplicatesOf(form[q])' \subseteq IF op'[q] = "edit" THEN {target'[q]} ELSE {}
    BY DEF CheckStillHolds
  <2>1. q # r /\ at[q] = "checked" /\ op'[q] = op[q] /\ target'[q] = target[q] /\ form'[q] = form[q]
    BY EndType DEF IInv
  <2> QED
    BY <2>1 DEF IInv, CheckStillHolds, DuplicatesOf, Live
<1>3. RunInv'
  BY EndRunsKeep DEF IInv
<1>4. RequestInv' /\ SessionInv'
  BY EndKeeps, CountType DEF IInv
<1> QED
  BY <1>1, <1>2, <1>3, <1>4, TableKept DEF IInv

LEMMA RejectKeeps ==
  ASSUME IInv, NEW r \in Request, AbortRun(r) \/ \E p \in Payload : RejectEdit(r, p)
  PROVE  IInv'
<1>1. at[r] = "opened" /\ End(r) /\ UNCHANGED <<table, history>>
  BY DEF AbortRun, RejectEdit, Runs
<1>2. stage = "serving"
  BY <1>1 DEF IInv, BackfillInv
<1> QED
  BY <1>1, <1>2, EndAloneKeeps

LEMMA StartInsertKeeps ==
  ASSUME IInv, NEW r \in Request, StartInsert(r)
  PROVE  IInv'
<1>1. /\ stage = "serving" /\ at[r] = "new" /\ loop = NoRequest
      /\ loop' = r /\ at' = [at EXCEPT ![r] = "row"] /\ op' = [op EXCEPT ![r] = "insert"]
      /\ UNCHANGED <<table, target, seen, form, wish, history>>
  BY DEF StartInsert, Begin, LoopFree
<1>2. left' \in [Request -> 0 .. MaxFile]
  <2>1. \A n \in 1 .. MaxFile : n \in 0 .. MaxFile
    OBVIOUS
  <2>2. left \in [Request -> 0 .. MaxFile]
    BY DEF IInv, TypeOK
  <2> QED
    BY <2>1, <2>2 DEF StartInsert
<1>3. TypeOK'
  BY <1>1, <1>2 DEF IInv, TypeOK
<1>4. CheckStillHolds'
  BY <1>1 DEF IInv, TypeOK, CheckStillHolds, DuplicatesOf, Live
<1>5. RequestInv'
  BY <1>1 DEF IInv, TypeOK, RequestInv
<1>6. SessionInv'
  BY <1>1 DEF IInv, TypeOK, SessionInv, Loaded
<1>7. RunInv'
  <2>1. \A s : Runs(s)' = Runs(s)
    BY <1>1 DEF IInv, TypeOK, Runs
  <2> QED
    BY <1>1, <2>1 DEF IInv, RunInv
<1> QED
  BY <1>1, <1>3, <1>4, <1>5, <1>6, <1>7, TableKept DEF IInv

LEMMA CheckRowKeeps ==
  ASSUME IInv, NEW r \in Request, NEW p \in Payload, NEW b \in BOOLEAN, CheckRow(r, p, b)
  PROVE  IInv'
<1>1. /\ at[r] = "row" /\ op[r] = "insert" /\ loop = r /\ stage = "serving"
      /\ DuplicatesOf(p) \subseteq {}
      /\ p \in [Field -> Text]
  BY DEF CheckRow, Accepts, IInv, RequestInv, BackfillInv
<1>2. /\ at' = [at EXCEPT ![r] = "checked"] /\ form' = [form EXCEPT ![r] = p]
      /\ wish' = [wish EXCEPT ![r] = b]
      /\ UNCHANGED <<table, loop, op, target, seen, left, history>>
  BY DEF CheckRow
<1>3. TypeOK'
  BY <1>1, <1>2 DEF IInv, TypeOK
<1>4. CheckStillHolds'
  <2> SUFFICES ASSUME NEW q \in Request, at'[q] = "checked"
               PROVE  DuplicatesOf(form[q])' \subseteq IF op'[q] = "edit" THEN {target'[q]} ELSE {}
    BY DEF CheckStillHolds
  <2>1. q = r
    BY <1>1, <1>2 DEF IInv, TypeOK, RequestInv
  <2>2. form'[q] = p /\ op'[q] = "insert"
    BY <1>1, <1>2, <2>1 DEF IInv, TypeOK
  <2> QED
    BY <1>1, <1>2, <2>2 DEF DuplicatesOf, Live
<1>5. RequestInv'
  BY <1>1, <1>2 DEF IInv, TypeOK, RequestInv
<1>6. SessionInv'
  BY <1>1, <1>2 DEF IInv, TypeOK, SessionInv, Loaded
<1>7. RunInv'
  <2>1. \A s : Runs(s)' = Runs(s)
    BY <1>1, <1>2 DEF IInv, TypeOK, Runs
  <2> QED
    BY <1>2, <2>1 DEF IInv, RunInv
<1> QED
  BY <1>1, <1>2, <1>3, <1>4, <1>5, <1>6, <1>7, TableKept DEF IInv

(* The next row of a file, or the end.                                     *)
LEMMA NextRowType ==
  ASSUME IInv, NEW r \in Request, NextRow(r), at[r] \in {"row", "checked"}, op[r] = "insert"
  PROVE  /\ loop' \in Request \cup {NoRequest}
         /\ at' \in [Request -> {"new", "row", "opened", "checked", "done"}]
         /\ op' \in [Request -> {"none", "insert", "edit", "delete", "route run", "batch run"}]
         /\ target' \in [Request -> Source]
         /\ seen' \in [Request -> Row]
         /\ form' \in [Request -> [Field -> Text]]
         /\ wish' \in [Request -> BOOLEAN]
         /\ left' \in [Request -> 0 .. MaxFile]
         /\ at'[r] \in {"row", "done"}
         /\ at'[r] = "row" => op'[r] = "insert" /\ loop' = loop
         /\ \A q \in Request \ {r} : /\ at'[q] = at[q] /\ op'[q] = op[q] /\ target'[q] = target[q]
                                     /\ seen'[q] = seen[q] /\ form'[q] = form[q]
                                     /\ at[q] \notin {"row", "checked"}
<1>1. CASE End(r)
  BY <1>1, EndType DEF IInv, RequestInv
<1>2. CASE /\ left[r] > 1
           /\ left' = [left EXCEPT ![r] = @ - 1]
           /\ at' = [at EXCEPT ![r] = "row"]
           /\ UNCHANGED <<loop, op, target, seen, form, wish>>
  <2>1. left \in [Request -> 0 .. MaxFile]
    BY DEF IInv, TypeOK
  <2>2. left[r] - 1 \in 0 .. MaxFile
    BY <1>2, <2>1
  <2> QED
    BY <1>2, <2>1, <2>2 DEF IInv, TypeOK, RequestInv
<1> QED
  BY <1>1, <1>2 DEF NextRow

LEMMA NextRowKeeps ==
  ASSUME IInv, NEW r \in Request, NextRow(r), at[r] \in {"row", "checked"}, op[r] = "insert",
         UNCHANGED <<torn, overlapped>>, count' \in Nat, count' >= count,
         \A s \in 1 .. count : truth'[s] = truth[s]
  PROVE  RequestInv' /\ CheckStillHolds' /\ SessionInv' /\ RunInv'
<1>1. RequestInv'
  BY NextRowType DEF IInv, RequestInv
<1>2. CheckStillHolds'
  BY NextRowType DEF CheckStillHolds
<1>3. SessionInv'
  <2> SUFFICES ASSUME NEW q \in Request, Loaded(q)'
               PROVE  /\ target'[q] <= count'
                      /\ seen'[q].live
                      /\ op'[q] = "edit" /\ target'[q] \notin torn' =>
                           /\ seen'[q].owner = CompanyProviderKey(seen'[q].cols)
                           /\ seen'[q].dedupe = DedupeKey(seen'[q].cols)
    BY DEF SessionInv
  <2>1. q # r /\ Loaded(q) /\ op'[q] = op[q] /\ target'[q] = target[q] /\ seen'[q] = seen[q]
    BY NextRowType DEF Loaded
  <2>2. count \in Nat /\ target[q] \in Nat
    BY CountType DEF IInv
  <2> QED
    BY <2>1, <2>2 DEF IInv, SessionInv
<1>4. RunInv'
  <2> SUFFICES ASSUME NEW s \in Source \ overlapped, NEW q \in Runs(s)'
               PROVE  HealthOf(seen'[q]) = truth'[s] /\ \A u \in Runs(s)' : u = q
    BY DEF RunInv
  <2>1. \A u \in Runs(s)' : u \in Runs(s) /\ seen'[u] = seen[u]
    BY NextRowType DEF Runs
  <2>2. s \in 1 .. count
    <3>1. q \in Runs(s)
      BY <2>1
    <3>2. q \in Request /\ target[q] = s /\ at[q] = "opened"
      BY <3>1 DEF Runs
    <3>3. Loaded(q)
      BY <3>2 DEF Loaded
    <3>4. target[q] <= count
      BY <3>2, <3>3 DEF IInv, SessionInv
    <3> QED
      BY <3>2, <3>4, CountType DEF IInv
  <2> QED
    BY <2>1, <2>2 DEF IInv, RunInv
<1> QED
  BY <1>1, <1>2, <1>3, <1>4

LEMMA RejectRowKeeps ==
  ASSUME IInv, NEW r \in Request, NEW p \in Payload, RejectRow(r, p)
  PROVE  IInv'
<1>1. /\ at[r] = "row" /\ op[r] = "insert" /\ stage = "serving" /\ NextRow(r)
      /\ UNCHANGED <<table, history>>
  BY DEF RejectRow, IInv, RequestInv, BackfillInv
<1>2. TypeOK'
  BY <1>1, NextRowType DEF IInv, TypeOK
<1> QED
  BY <1>1, <1>2, NextRowKeeps, CountType, TableKept DEF IInv

(* A new row that duplicates nothing keeps what is said about the table.   *)
LEMMA InsertKeeps ==
  ASSUME IInv, stage # "backfill", stage' # "backfill",
         NEW p \in [Field -> Text], NEW b \in BOOLEAN, Insert(p, b),
         DuplicatesOf(p) = {}, UNCHANGED <<torn, overlapped>>
  PROVE  /\ count' \in 0 .. MaxSource /\ count' \in Nat /\ count' >= count
         /\ row' \in [Source -> Row] /\ truth' \in [Source -> Health]
         /\ \A s \in 1 .. count : truth'[s] = truth[s]
         /\ StoredKeysUnique' /\ KeysFollowColumns' /\ HealthExact' /\ CountInv'
<1> DEFINE x == NewRow(p, b)
           n == count + 1
<1>1. /\ x \in Row /\ x.cols = p /\ x.owner = CompanyProviderKey(p) /\ x.dedupe = DedupeKey(p)
      /\ HealthOf(x) \in Health
  BY NewRowType, HealthType
<1>2. /\ count' = n /\ row' = [row EXCEPT ![n] = x] /\ truth' = [truth EXCEPT ![n] = HealthOf(x)]
      /\ count < MaxSource
  BY DEF Insert
<1>3. count \in Nat /\ n \in Source /\ n \in 0 .. MaxSource
  BY <1>2, CountType DEF IInv
<1> HIDE DEF x
<1>4. row \in [Source -> Row] /\ truth \in [Source -> Health]
  BY DEF IInv, TypeOK
<1>5. /\ row' \in [Source -> Row] /\ truth' \in [Source -> Health]
      /\ \A s \in Source : row'[s] = IF s = n THEN x ELSE row[s]
      /\ \A s \in Source : truth'[s] = IF s = n THEN HealthOf(x) ELSE truth[s]
  BY <1>1, <1>2, <1>3, <1>4
<1>6. \A s \in Live' : s = n \/ s \in Live
  BY <1>5 DEF Live
<1>7. \A s \in Live : row[s].owner # x.owner /\ row[s].dedupe # x.dedupe
  BY <1>1 DEF DuplicatesOf
<1>8. \A s \in Live : s \in Source /\ s # n
  BY <1>3 DEF Live, IInv, CountInv
<1>9. StoredKeysUnique'
  <2> SUFFICES ASSUME NEW s \in Live', NEW t \in Live', s # t
               PROVE  row'[s].owner # row'[t].owner /\ row'[s].dedupe # row'[t].dedupe
    BY DEF StoredKeysUnique
  <2>1. s \in Source /\ t \in Source
    BY DEF Live
  <2> QED
    BY <1>5, <1>6, <1>7, <1>8, <2>1 DEF IInv, StoredKeysUnique
<1>10. KeysFollowColumns'
  <2> SUFFICES ASSUME NEW s \in Live', s \notin torn
               PROVE  /\ row'[s].owner = CompanyProviderKey(row'[s].cols)
                      /\ row'[s].dedupe = DedupeKey(row'[s].cols)
    BY DEF KeysFollowColumns
  <2>1. s \in Source
    BY DEF Live
  <2> QED
    BY <1>1, <1>5, <1>6, <1>8, <2>1 DEF IInv, KeysFollowColumns
<1>11. HealthExact'
  <2> SUFFICES ASSUME NEW s \in 1 .. n, s \notin overlapped
               PROVE  HealthOf(row'[s]) = truth'[s]
    BY <1>2 DEF HealthExact
  <2>1. s \in Source /\ (s = n \/ s \in 1 .. count)
    BY <1>3
  <2> QED
    BY <1>3, <1>5, <2>1 DEF IInv, HealthExact
<1>12. CountInv'
  <2> SUFFICES ASSUME NEW s \in Source, row'[s].live
               PROVE  s <= n
    BY <1>2 DEF CountInv
  <2> QED
    BY <1>3, <1>5 DEF IInv, CountInv
<1>13. \A s \in 1 .. count : truth'[s] = truth[s]
  BY <1>3, <1>5
<1> QED
  BY <1>2, <1>3, <1>5, <1>9, <1>10, <1>11, <1>12, <1>13

LEMMA InsertRowKeeps ==
  ASSUME IInv, NEW r \in Request, InsertRow(r)
  PROVE  IInv'
<1>1. /\ at[r] = "checked" /\ op[r] = "insert" /\ stage = "serving" /\ stage' = "serving"
      /\ Insert(form[r], wish[r]) /\ NextRow(r) /\ UNCHANGED <<planted, torn, overlapped>>
  BY DEF InsertRow, IInv, BackfillInv
<1>2. form[r] \in [Field -> Text] /\ wish[r] \in BOOLEAN
  BY DEF IInv, TypeOK
<1>3. DuplicatesOf(form[r]) = {}
  BY <1>1 DEF IInv, CheckStillHolds
<1>4. /\ count' \in 0 .. MaxSource /\ count' \in Nat /\ count' >= count
      /\ row' \in [Source -> Row] /\ truth' \in [Source -> Health]
      /\ \A s \in 1 .. count : truth'[s] = truth[s]
      /\ StoredKeysUnique' /\ KeysFollowColumns' /\ HealthExact' /\ CountInv'
  BY <1>1, <1>2, <1>3, InsertKeeps
<1>5. RequestInv' /\ CheckStillHolds' /\ SessionInv' /\ RunInv'
  BY <1>1, <1>4, NextRowKeeps
<1>6. TypeOK'
  BY <1>1, <1>4, NextRowType DEF IInv, TypeOK
<1> QED
  BY <1>1, <1>4, <1>5, <1>6 DEF IInv, BackfillInv

LEMMA AddSeedKeeps ==
  ASSUME IInv, NEW p \in Seeds, AddSeed(p)
  PROVE  IInv'
<1>1. /\ stage = "seed" /\ stage' \in {"seed", "serving"} /\ planted' = planted \cup {p}
      /\ UNCHANGED <<handlers, torn, overlapped>>
      /\ \A r \in Request : at[r] = "new" /\ at'[r] = "new"
  BY DEF AddSeed, IInv, BackfillInv
<1>2. p \in [Field -> Text]
  OBVIOUS
<1>3. /\ count' \in 0 .. MaxSource
      /\ row' \in [Source -> Row] /\ truth' \in [Source -> Health]
      /\ StoredKeysUnique' /\ KeysFollowColumns' /\ HealthExact' /\ CountInv'
  <2>1. CASE UNCHANGED <<count, row, truth>>
    BY <1>1, <2>1 DEF IInv, TypeOK, StoredKeysUnique, KeysFollowColumns, HealthExact,
       CountInv, Live
  <2>2. CASE DuplicatesOf(p) = {} /\ Insert(p, TRUE)
    BY <1>1, <1>2, <2>2, InsertKeeps
  <2> QED
    BY <2>1, <2>2 DEF AddSeed
<1>4. TypeOK'
  BY <1>1, <1>3 DEF IInv, TypeOK
<1>5. CheckStillHolds' /\ BackfillInv' /\ RequestInv' /\ SessionInv' /\ RunInv'
  BY <1>1 DEF CheckStillHolds, BackfillInv, RequestInv, SessionInv, RunInv, Loaded, Runs
<1> QED
  BY <1>3, <1>4, <1>5 DEF IInv

(* Who loads a source has read a live row, with keys that follow its       *)
(* columns unless it is torn.                                              *)
LEMMA LoadReads ==
  ASSUME IInv, NEW r \in Request, NEW s \in Source, Load(r, s), stage = "serving"
  PROVE  /\ s \in Live /\ s <= count /\ row[s].live /\ row[s] \in Row
         /\ target' = [target EXCEPT ![r] = s] /\ seen' = [seen EXCEPT ![r] = row[s]]
         /\ target' \in [Request -> Source] /\ seen' \in [Request -> Row]
         /\ s \notin torn => /\ row[s].owner = CompanyProviderKey(row[s].cols)
                             /\ row[s].dedupe = DedupeKey(row[s].cols)
<1>1. s \in Live /\ target' = [target EXCEPT ![r] = s] /\ seen' = [seen EXCEPT ![r] = row[s]]
  BY DEF Load
<1>2. row[s].live /\ s <= count /\ row[s] \in Row
  BY <1>1 DEF Live, IInv, CountInv, TypeOK
<1>3. target' \in [Request -> Source] /\ seen' \in [Request -> Row]
  BY <1>1, <1>2 DEF IInv, TypeOK
<1> QED
  BY <1>1, <1>2, <1>3 DEF IInv, KeysFollowColumns

LEMMA LoadSession ==
  ASSUME IInv, NEW r \in Request, NEW s \in Source, Load(r, s), stage = "serving",
         UNCHANGED <<count, torn>>, \A q \in Request \ {r} : at'[q] = at[q] /\ op'[q] = op[q]
  PROVE  SessionInv'
<1> SUFFICES ASSUME NEW q \in Request, Loaded(q)'
             PROVE  /\ target'[q] <= count
                    /\ seen'[q].live
                    /\ op'[q] = "edit" /\ target'[q] \notin torn =>
                         /\ seen'[q].owner = CompanyProviderKey(seen'[q].cols)
                         /\ seen'[q].dedupe = DedupeKey(seen'[q].cols)
  BY DEF SessionInv
<1>1. CASE q = r
  <2>1. target'[q] = s /\ seen'[q] = row[s]
    BY <1>1 DEF IInv, TypeOK, Load
  <2> QED
    BY <2>1, LoadReads
<1>2. CASE q # r
  <2>1. target'[q] = target[q] /\ seen'[q] = seen[q] /\ op'[q] = op[q] /\ Loaded(q)
    BY <1>2 DEF IInv, TypeOK, Load, Loaded
  <2> QED
    BY <2>1 DEF IInv, SessionInv
<1> QED
  BY <1>1, <1>2

(* Opening a row, by whatever handler or run.                              *)
LEMMA OpenKeeps ==
  ASSUME IInv, NEW r \in Request, NEW s \in Source, NEW doing \in {"edit", "delete"},
         Begin(r, doing), Load(r, s), at' = [at EXCEPT ![r] = "opened"],
         UNCHANGED <<table, loop, form, wish, left, history>>
  PROVE  IInv'
<1>1. stage = "serving" /\ at[r] = "new" /\ op' = [op EXCEPT ![r] = doing]
  BY DEF Begin
<1>2. TypeOK'
  BY <1>1, LoadReads DEF IInv, TypeOK
<1>3. ASSUME NEW q \in Request, at'[q] \in {"row", "checked"}
      PROVE  /\ q # r /\ at[q] = at'[q] /\ op'[q] = op[q] /\ form'[q] = form[q]
             /\ target'[q] = target[q] /\ loop = loop'
  BY <1>1, <1>3 DEF IInv, TypeOK, Load
<1>4. CheckStillHolds'
  BY <1>3 DEF IInv, CheckStillHolds, DuplicatesOf, Live
<1>5. RequestInv'
  BY <1>3 DEF IInv, RequestInv
<1>6. SessionInv'
  BY <1>1, LoadSession DEF IInv, TypeOK
<1>7. RunInv'
  <2>1. ASSUME NEW t \in Source, NEW q \in Runs(t)'
        PROVE  q \in Runs(t) /\ seen'[q] = seen[q]
    <3>1. q # r
      BY <1>1, <2>1 DEF Runs, IInv, TypeOK
    <3> QED
      BY <1>1, <2>1, <3>1 DEF Runs, IInv, TypeOK, Load
  <2> QED
    BY <2>1 DEF IInv, RunInv
<1> QED
  BY <1>1, <1>2, <1>4, <1>5, <1>6, <1>7, TableKept DEF IInv

LEMMA LoadRunKeeps ==
  ASSUME IInv, NEW r \in Request, NEW s \in Source, NEW doing \in {"route run", "batch run"},
         LoadRun(r, s, doing)
  PROVE  IInv'
<1>1. /\ stage = "serving" /\ at[r] = "new" /\ op' = [op EXCEPT ![r] = doing] /\ Load(r, s)
      /\ at' = [at EXCEPT ![r] = "opened"]
      /\ overlapped' = IF Runs(s) = {} THEN overlapped ELSE overlapped \cup {s}
      /\ UNCHANGED <<table, loop, form, wish, left, torn, truth>>
  BY DEF LoadRun, Begin
<1>2. TypeOK'
  BY <1>1, LoadReads DEF IInv, TypeOK
<1>3. ASSUME NEW q \in Request, at'[q] \in {"row", "checked"}
      PROVE  /\ q # r /\ at[q] = at'[q] /\ op'[q] = op[q] /\ form'[q] = form[q]
             /\ target'[q] = target[q] /\ loop = loop'
  BY <1>1, <1>3 DEF IInv, TypeOK, Load
<1>4. CheckStillHolds'
  <2> SUFFICES ASSUME NEW q \in Request, at'[q] = "checked"
               PROVE  DuplicatesOf(form[q])' \subseteq IF op'[q] = "edit" THEN {target'[q]} ELSE {}
    BY DEF CheckStillHolds
  <2>1. /\ at[q] = "checked" /\ op'[q] = op[q] /\ target'[q] = target[q]
        /\ form'[q] = form[q] /\ row' = row
    BY <1>1, <1>3
  <2> QED
    BY <2>1 DEF IInv, CheckStillHolds, DuplicatesOf, Live
<1>5. RequestInv'
  BY <1>3 DEF IInv, RequestInv
<1>6. SessionInv'
  BY <1>1, LoadSession DEF IInv, TypeOK
<1>7. RunInv'
  <2> SUFFICES ASSUME NEW t \in Source, t \notin overlapped', NEW q \in Runs(t)'
               PROVE  HealthOf(seen'[q]) = truth[t] /\ \A u \in Runs(t)' : u = q
    BY <1>1 DEF RunInv
  <2>1. t \notin overlapped
    BY <1>1
  <2>2. \A u \in Runs(t)' : \/ u = r /\ t = s /\ seen'[u] = row[s]
                            \/ u \in Runs(t) /\ u # r /\ seen'[u] = seen[u]
    BY <1>1 DEF Runs, IInv, TypeOK, Load
  <2>3. CASE t = s
    <3>1. Runs(s) = {}
      BY <1>1, <2>3
    <3>2. HealthOf(row[s]) = truth[s]
      <4>1. s \in 1 .. count
        BY <1>1, LoadReads, CountType DEF IInv
      <4> QED
        BY <2>1, <2>3, <4>1 DEF IInv, HealthExact
    <3> QED
      BY <2>2, <2>3, <3>1, <3>2
  <2>4. CASE t # s
    BY <2>1, <2>2, <2>4 DEF IInv, RunInv
  <2> QED
    BY <2>3, <2>4
<1> QED
  BY <1>1, <1>2, <1>4, <1>5, <1>6, <1>7, TableKept DEF IInv

(* An edit that is checked has the loop, and its check holds as it is made. *)
LEMMA CheckedKeeps ==
  ASSUME IInv, NEW r \in Request, at[r] \in {"new", "opened"}, loop = NoRequest, loop' = r,
         at' = [at EXCEPT ![r] = "checked"], op'[r] = "edit",
         \A q \in Request \ {r} : op'[q] = op[q],
         row' = row, DuplicatesOf(form'[r]) \subseteq {target'[r]}
  PROVE  CheckStillHolds' /\ RequestInv'
<1>1. \A q \in Request : at'[q] \in {"row", "checked"} => q = r /\ at'[q] = "checked"
  BY DEF IInv, TypeOK, RequestInv
<1>2. DuplicatesOf(form[r])' = DuplicatesOf(form'[r])
  BY DEF DuplicatesOf, Live
<1> QED
  BY <1>1, <1>2 DEF CheckStillHolds, RequestInv

LEMMA OpenEditKeeps ==
  ASSUME IInv, NEW r \in Request, NEW s \in Source, OpenEdit(r, s) \/ OpenDelete(r, s)
  PROVE  IInv'
BY OpenKeeps DEF OpenEdit, OpenDelete

LEMMA CheckPatchKeeps ==
  ASSUME IInv, NEW r \in Request, NEW s \in Source, NEW p \in Payload,
         NEW F \in Patchable, NEW b \in BOOLEAN, CheckPatch(r, s, p, F, b)
  PROVE  IInv'
<1> DEFINE merged == [f \in Field |-> IF f \in F THEN p[f] ELSE row[s].cols[f]]
<1>1. /\ stage = "serving" /\ at[r] = "new" /\ op' = [op EXCEPT ![r] = "edit"]
      /\ loop = NoRequest /\ loop' = r /\ Load(r, s) /\ at' = [at EXCEPT ![r] = "checked"]
      /\ form' = [form EXCEPT ![r] = merged] /\ DuplicatesOf(merged) \subseteq {s}
      /\ wish' = [wish EXCEPT ![r] = b] /\ UNCHANGED <<table, left, history>>
  BY DEF CheckPatch, Begin, LoopFree, Accepts
<1>2. merged \in [Field -> Text]
  <2>1. p \in [Field -> Text] /\ row[s].cols \in [Field -> Text]
    BY DEF IInv, TypeOK, Row
  <2> QED
    BY <2>1
<1> HIDE DEF merged
<1>3. TypeOK'
  BY <1>1, <1>2, LoadReads DEF IInv, TypeOK
<1>4. op'[r] = "edit" /\ form'[r] = merged /\ target'[r] = s
  BY <1>1 DEF IInv, TypeOK, Load
<1>5. \A q \in Request \ {r} : at'[q] = at[q] /\ op'[q] = op[q]
  BY <1>1 DEF IInv, TypeOK
<1>6. CheckStillHolds' /\ RequestInv'
  BY <1>1, <1>4, <1>5, CheckedKeeps
<1>7. SessionInv'
  BY <1>1, <1>5, LoadSession
<1>8. RunInv'
  <2>1. ASSUME NEW t \in Source, NEW q \in Runs(t)'
        PROVE  q \in Runs(t) /\ seen'[q] = seen[q]
    <3>1. q # r
      BY <1>1, <2>1 DEF Runs, IInv, TypeOK
    <3> QED
      BY <1>1, <2>1, <3>1 DEF Runs, IInv, TypeOK, Load
  <2> QED
    BY <1>1, <2>1 DEF IInv, RunInv
<1> QED
  BY <1>1, <1>3, <1>6, <1>7, <1>8, TableKept DEF IInv

LEMMA SubmitEditKeeps ==
  ASSUME IInv, NEW r \in Request, NEW p \in Payload, NEW b \in BOOLEAN, SubmitEdit(r, p, b)
  PROVE  IInv'
<1>1. /\ at[r] = "opened" /\ op[r] = "edit" /\ loop = NoRequest /\ loop' = r
      /\ at' = [at EXCEPT ![r] = "checked"] /\ form' = [form EXCEPT ![r] = p]
      /\ DuplicatesOf(p) \subseteq {target[r]} /\ wish' = [wish EXCEPT ![r] = b]
      /\ UNCHANGED <<table, op, target, seen, left, history>>
  BY DEF SubmitEdit, LoopFree, Accepts
<1>2. stage = "serving" /\ p \in [Field -> Text]
  BY <1>1 DEF IInv, BackfillInv
<1>3. TypeOK'
  BY <1>1, <1>2 DEF IInv, TypeOK
<1>4. form'[r] = p
  BY <1>1 DEF IInv, TypeOK
<1>5. CheckStillHolds' /\ RequestInv'
  BY <1>1, <1>4, CheckedKeeps
<1>6. SessionInv'
  <2>1. \A q \in Request : Loaded(q)' => Loaded(q)
    BY <1>1 DEF IInv, TypeOK, Loaded
  <2> QED
    BY <1>1, <2>1 DEF IInv, SessionInv
<1>7. RunInv'
  <2>1. \A t : \A q \in Runs(t)' : q \in Runs(t)
    BY <1>1 DEF IInv, TypeOK, Runs
  <2> QED
    BY <1>1, <2>1 DEF IInv, RunInv
<1> QED
  BY <1>1, <1>2, <1>3, <1>5, <1>6, <1>7, TableKept DEF IInv

(* What a request ends with that leaves keys and columns alone.            *)
LEMMA LessKeeps ==
  ASSUME IInv, NEW r \in Request, NEW t \in Source, NEW y \in Row, End(r), stage = "serving",
         row' = [row EXCEPT ![t] = y], UNCHANGED <<stage, planted, count, torn, overlapped>>,
         y.owner = row[t].owner, y.dedupe = row[t].dedupe, y.cols = row[t].cols,
         y.live => row[t].live
  PROVE  /\ row' \in [Source -> Row]
         /\ \A s \in Source : row'[s] = IF s = t THEN y ELSE row[s]
         /\ StoredKeysUnique' /\ KeysFollowColumns' /\ BackfillInv' /\ CountInv'
         /\ CheckStillHolds' /\ RequestInv' /\ SessionInv'
<1>1. /\ row' \in [Source -> Row]
      /\ \A s \in Source : row'[s] = IF s = t THEN y ELSE row[s]
  BY DEF IInv, TypeOK
<1>2. \A s \in Source : /\ row'[s].owner = row[s].owner /\ row'[s].dedupe = row[s].dedupe
                        /\ row'[s].cols = row[s].cols /\ (row'[s].live => row[s].live)
  BY <1>1
<1>3. \A s \in Live' : s \in Live /\ s \in Source
  BY <1>2 DEF Live
<1>4. StoredKeysUnique' /\ KeysFollowColumns'
  BY <1>2, <1>3 DEF IInv, StoredKeysUnique, KeysFollowColumns
<1>5. BackfillInv' /\ CountInv'
  BY <1>2 DEF IInv, BackfillInv, CountInv
<1>6. CheckStillHolds'
  <2> SUFFICES ASSUME NEW q \in Request, at'[q] = "checked", NEW s \in DuplicatesOf(form[q])'
               PROVE  s \in IF op'[q] = "edit" THEN {target'[q]} ELSE {}
    BY DEF CheckStillHolds
  <2>1. /\ at[q] = "checked" /\ op'[q] = op[q] /\ target'[q] = target[q] /\ form'[q] = form[q]
    BY EndType DEF IInv
  <2>2. s \in DuplicatesOf(form[q])
    BY <1>2, <1>3, <2>1 DEF DuplicatesOf
  <2> QED
    BY <2>1, <2>2 DEF IInv, CheckStillHolds
<1>7. RequestInv' /\ SessionInv'
  <2>1. count \in Nat /\ count' \in Nat /\ count' >= count
    BY CountType DEF IInv
  <2> QED
    BY <2>1, EndKeeps
<1> QED
  BY <1>1, <1>4, <1>5, <1>6, <1>7

LEMMA CommitDeleteKeeps ==
  ASSUME IInv, NEW r \in Request, CommitDelete(r)
  PROVE  IInv'
<1> DEFINE t == target[r]
           set == [seen[r] EXCEPT !.live = FALSE, !.active = FALSE]
           y == Flush(row[t], seen[r], set)
<1>1. /\ at[r] = "opened" /\ op[r] = "delete" /\ row' = [row EXCEPT ![t] = y] /\ End(r)
      /\ UNCHANGED <<stage, planted, count, history>>
  BY DEF CommitDelete
<1>2. stage = "serving" /\ t \in Source /\ row[t] \in Row /\ seen[r] \in Row
  BY <1>1 DEF IInv, BackfillInv, TypeOK
<1>3. /\ set \in Row /\ set.owner = seen[r].owner /\ set.dedupe = seen[r].dedupe
      /\ set.cols = seen[r].cols /\ HealthOf(set) = HealthOf(seen[r]) /\ ~set.live
  BY <1>2 DEF Row, HealthOf
<1>4. seen[r].live
  BY <1>1 DEF IInv, SessionInv, Loaded
<1> HIDE DEF set
<1>5. /\ y \in Row /\ y.owner = row[t].owner /\ y.dedupe = row[t].dedupe /\ y.cols = row[t].cols
      /\ HealthOf(y) = HealthOf(row[t]) /\ ~y.live
  <2>1. y.live = set.live
    BY <1>2, <1>3, <1>4, FlushWrites
  <2> QED
    BY <1>2, <1>3, <2>1, FlushKeeps
<1> HIDE DEF y, t
<1>6. /\ row' \in [Source -> Row]
      /\ \A s \in Source : row'[s] = IF s = t THEN y ELSE row[s]
      /\ StoredKeysUnique' /\ KeysFollowColumns' /\ BackfillInv' /\ CountInv'
      /\ CheckStillHolds' /\ RequestInv' /\ SessionInv'
  BY <1>1, <1>2, <1>5, LessKeeps
<1>7. TypeOK'
  BY <1>1, <1>6, EndType DEF IInv, TypeOK
<1>8. HealthExact'
  BY <1>1, <1>5, <1>6, CountType DEF IInv, HealthExact
<1>9. RunInv'
  BY <1>1, EndRunsKeep
<1> QED
  BY <1>6, <1>7, <1>8, <1>9 DEF IInv

LEMMA FinishRunKeeps ==
  ASSUME IInv, NEW r \in Request, NEW status \in {"success", "partial_success", "failed"},
         NEW fetched \in BOOLEAN, FinishRun(r, status, fetched)
  PROVE  IInv'
<1> DEFINE t == target[r]
           set == AfterRun(seen[r], status, fetched)
           y == Flush(row[t], seen[r], set)
<1>1. /\ r \in Runs(t) /\ at[r] = "opened" /\ row' = [row EXCEPT ![t] = y] /\ End(r)
      /\ truth' = [truth EXCEPT ![t] = AfterRun(truth[t], status, fetched)]
      /\ UNCHANGED <<stage, planted, count, torn, overlapped>>
  BY DEF FinishRun, Runs
<1>2. stage = "serving" /\ t \in Source /\ row[t] \in Row /\ seen[r] \in Row
  BY <1>1 DEF IInv, BackfillInv, TypeOK
<1>3. t <= count /\ t \in 1 .. count
  BY <1>1, CountType DEF IInv, SessionInv, Loaded
<1>4. /\ set \in Row /\ set.owner = seen[r].owner /\ set.dedupe = seen[r].dedupe
      /\ set.cols = seen[r].cols /\ set.live = seen[r].live
      /\ HealthOf(set) = AfterRun(HealthOf(seen[r]), status, fetched)
  BY <1>2, AfterRunType
<1> HIDE DEF set
<1>5. /\ y \in Row /\ y.owner = row[t].owner /\ y.dedupe = row[t].dedupe /\ y.cols = row[t].cols
      /\ y.live = row[t].live
      /\ HealthOf(row[t]) = HealthOf(seen[r]) => HealthOf(y) = HealthOf(set)
  <2>1. /\ y \in Row /\ y.owner = row[t].owner /\ y.dedupe = row[t].dedupe
        /\ y.cols = row[t].cols /\ y.live = row[t].live
    BY <1>2, <1>4, FlushKeeps
  <2>2. HealthOf(row[t]) = HealthOf(seen[r]) => HealthOf(y) = HealthOf(set)
    BY <1>2, <1>4, FlushWrites
  <2> QED
    BY <2>1, <2>2
<1> HIDE DEF y, t
<1>6. /\ row' \in [Source -> Row]
      /\ \A s \in Source : row'[s] = IF s = t THEN y ELSE row[s]
      /\ StoredKeysUnique' /\ KeysFollowColumns' /\ BackfillInv' /\ CountInv'
      /\ CheckStillHolds' /\ RequestInv' /\ SessionInv'
  BY <1>1, <1>2, <1>5, LessKeeps
<1>7. /\ truth' \in [Source -> Health]
      /\ \A s \in Source : truth'[s] = IF s = t THEN AfterRun(truth[t], status, fetched) ELSE truth[s]
  <2>1. truth \in [Source -> Health]
    BY DEF IInv, TypeOK
  <2>2. AfterRun(truth[t], status, fetched) \in Health
    BY <1>2, <2>1, AfterHealthType
  <2> QED
    BY <1>1, <1>2, <2>1, <2>2
<1>8. TypeOK'
  BY <1>1, <1>6, <1>7, EndType DEF IInv, TypeOK
<1>9. t \notin overlapped =>
        /\ HealthOf(seen[r]) = truth[t] /\ HealthOf(row[t]) = truth[t]
        /\ \A q \in Runs(t) : q = r
  BY <1>1, <1>2, <1>3 DEF IInv, RunInv, HealthExact
<1>10. HealthExact'
  <2> SUFFICES ASSUME NEW s \in 1 .. count, s \notin overlapped
               PROVE  HealthOf(row'[s]) = truth'[s]
    BY <1>1 DEF HealthExact
  <2>1. s \in Source
    BY CountType DEF IInv
  <2>2. CASE s = t
    BY <1>4, <1>5, <1>6, <1>7, <1>9, <2>1, <2>2
  <2>3. CASE s # t
    BY <1>6, <1>7, <2>1, <2>3 DEF IInv, HealthExact
  <2> QED
    BY <2>2, <2>3
<1>11. RunInv'
  <2> SUFFICES ASSUME NEW s \in Source, s \notin overlapped, NEW q \in Runs(s)'
               PROVE  HealthOf(seen'[q]) = truth'[s] /\ \A u \in Runs(s)' : u = q
    BY <1>1 DEF RunInv
  <2>1. \A u \in Runs(s)' : u \in Runs(s) /\ u # r /\ seen'[u] = seen[u]
    BY <1>1, EndType DEF IInv, Runs
  <2>2. s # t
    BY <1>9, <2>1
  <2> QED
    BY <1>7, <2>1, <2>2 DEF IInv, RunInv
<1> QED
  BY <1>6, <1>8, <1>10, <1>11 DEF IInv

LEMMA WriteUpdateKeeps ==
  ASSUME IInv, NEW r \in Request, WriteUpdate(r)
  PROVE  IInv'
<1> DEFINE t == target[r]
           p == form[r]
           set == Edited(r)
           y == Flush(row[t], seen[r], set)
<1>1. /\ at[r] = "checked" /\ op[r] = "edit" /\ row' = [row EXCEPT ![t] = y] /\ End(r)
      /\ torn' = IF row[t].cols = seen[r].cols THEN torn ELSE torn \cup {t}
      /\ UNCHANGED <<stage, planted, count, overlapped, truth>>
  BY DEF WriteUpdate
<1>2. /\ stage = "serving" /\ t \in Source /\ row[t] \in Row /\ seen[r] \in Row /\ loop = r
      /\ p \in [Field -> Text] /\ wish[r] \in BOOLEAN
  BY <1>1 DEF IInv, BackfillInv, TypeOK, RequestInv
<1>3. DuplicatesOf(p) \subseteq {t}
  BY <1>1 DEF IInv, CheckStillHolds
<1>4. t \notin torn => /\ seen[r].owner = CompanyProviderKey(seen[r].cols)
                       /\ seen[r].dedupe = DedupeKey(seen[r].cols)
  BY <1>1 DEF IInv, SessionInv, Loaded
<1>5. /\ set \in Row /\ set.cols = p /\ set.owner = CompanyProviderKey(p)
      /\ set.dedupe = DedupeKey(p) /\ set.live = seen[r].live
      /\ HealthOf(set) = HealthOf(seen[r])
  BY <1>2, KeyType DEF Edited, Row, HealthOf
<1> HIDE DEF set, p
<1>6. /\ y \in Row /\ y.live = row[t].live /\ HealthOf(y) = HealthOf(row[t])
      /\ y.owner = IF set.owner = seen[r].owner THEN row[t].owner ELSE set.owner
      /\ y.dedupe = IF set.dedupe = seen[r].dedupe THEN row[t].dedupe ELSE set.dedupe
      /\ row[t].cols = seen[r].cols => y.cols = p
  <2>1. /\ y \in Row /\ y.live = row[t].live /\ HealthOf(y) = HealthOf(row[t])
        /\ set.owner = seen[r].owner => y.owner = row[t].owner
        /\ set.dedupe = seen[r].dedupe => y.dedupe = row[t].dedupe
    BY <1>2, <1>5, FlushKeeps
  <2>2. /\ set.owner # seen[r].owner => y.owner = set.owner
        /\ set.dedupe # seen[r].dedupe => y.dedupe = set.dedupe
        /\ row[t].cols = seen[r].cols => y.cols = set.cols
    BY <1>2, <1>5, FlushWrites
  <2> HIDE DEF y
  <2> QED
    BY <1>5, <2>1, <2>2
<1> HIDE DEF y, t
<1>7. /\ row' \in [Source -> Row]
      /\ \A s \in Source : row'[s] = IF s = t THEN y ELSE row[s]
  BY <1>1, <1>2, <1>6 DEF IInv, TypeOK
<1>8. Live' = Live
  BY <1>6, <1>7 DEF Live
<1>9. StoredKeysUnique'
  <2>1. ASSUME NEW s \in Live, s # t, t \in Live
        PROVE  row[s].owner # y.owner /\ row[s].dedupe # y.dedupe
    <3>1. row[s].owner # set.owner /\ row[s].dedupe # set.dedupe
      BY <1>3, <1>5, <2>1 DEF DuplicatesOf
    <3>2. row[s].owner # row[t].owner /\ row[s].dedupe # row[t].dedupe
      BY <1>2, <2>1 DEF IInv, StoredKeysUnique
    <3> QED
      BY <1>6, <3>1, <3>2
  <2> SUFFICES ASSUME NEW s \in Live, NEW u \in Live, s # u
               PROVE  row'[s].owner # row'[u].owner /\ row'[s].dedupe # row'[u].dedupe
    BY <1>8 DEF StoredKeysUnique
  <2>2. s \in Source /\ u \in Source
    BY DEF Live
  <2> QED
    BY <1>2, <1>7, <2>1, <2>2 DEF IInv, StoredKeysUnique
<1>10. KeysFollowColumns'
  <2> SUFFICES ASSUME NEW s \in Live, s \notin torn'
               PROVE  /\ row'[s].owner = CompanyProviderKey(row'[s].cols)
                      /\ row'[s].dedupe = DedupeKey(row'[s].cols)
    BY <1>8 DEF KeysFollowColumns
  <2>1. s \in Source /\ s \notin torn
    BY <1>1 DEF Live
  <2>2. /\ row[s].owner = CompanyProviderKey(row[s].cols)
        /\ row[s].dedupe = DedupeKey(row[s].cols)
    BY <1>2, <2>1 DEF IInv, KeysFollowColumns
  <2>3. CASE s = t
    <3>1. row[t].cols = seen[r].cols
      BY <1>1, <2>3
    <3>2. y.cols = p
      BY <1>6, <3>1
    <3>3. y.owner = CompanyProviderKey(p) /\ y.dedupe = DedupeKey(p)
      BY <1>4, <1>5, <1>6, <2>1, <2>2, <2>3, <3>1
    <3> QED
      BY <1>7, <2>1, <2>3, <3>2, <3>3
  <2>4. CASE s # t
    BY <1>7, <2>1, <2>2, <2>4
  <2> QED
    BY <2>3, <2>4
<1>11. CheckStillHolds'
  <2>1. ASSUME NEW q \in Request, at'[q] = "checked"
        PROVE  FALSE
    <3>1. at'[r] = "done" /\ (q # r => at'[q] = at[q])
      BY <1>1, EndType DEF IInv
    <3>2. q # r /\ at[q] = "checked"
      BY <2>1, <3>1
    <3> QED
      BY <1>2, <3>2 DEF IInv, RequestInv
  <2> QED
    BY <2>1 DEF CheckStillHolds
<1>12. HealthExact'
  BY <1>1, <1>6, <1>7, CountType DEF IInv, HealthExact
<1>13. BackfillInv' /\ CountInv'
  BY <1>1, <1>2, <1>6, <1>7 DEF IInv, BackfillInv, CountInv
<1>14. RequestInv' /\ SessionInv'
  <2>1. count \in Nat /\ count' \in Nat /\ count' >= count /\ torn \subseteq torn'
    BY <1>1, CountType DEF IInv
  <2> QED
    BY <1>1, <2>1, EndKeeps
<1>15. RunInv'
  BY <1>1, EndRunsKeep
<1>16. TypeOK'
  BY <1>1, <1>2, <1>7, EndType DEF IInv, TypeOK
<1> QED
  BY <1>9, <1>10, <1>11, <1>12, <1>13, <1>14, <1>15, <1>16 DEF IInv

-----------------------------------------------------------------------------
(* The invariant holds in every state the system reaches.                  *)
THEOREM Invariance == Spec => []IInv
<1>1. Init => IInv
  BY InitKeeps
<1>2. IInv /\ [Next]_vars => IInv'
  <2> SUFFICES ASSUME IInv, [Next]_vars
               PROVE  IInv'
    OBVIOUS
  <2>1. CASE CleanUpSourceHealth
    BY <2>1, CleanUpKeeps
  <2>2. CASE \E p \in Seeds : AddSeed(p)
    BY <2>2, AddSeedKeeps
  <2>3. ASSUME NEW r \in Request, Inserting(r)
        PROVE  IInv'
    BY <2>3, StartInsertKeeps, RejectRowKeeps, CheckRowKeeps, InsertRowKeeps DEF Inserting
  <2>4. ASSUME NEW r \in Request, Editing(r)
        PROVE  IInv'
    BY <2>4, OpenEditKeeps, CheckPatchKeeps, RejectKeeps, SubmitEditKeeps, WriteUpdateKeeps
       DEF Editing
  <2>5. ASSUME NEW r \in Request, Deleting(r)
        PROVE  IInv'
    BY <2>5, OpenEditKeeps, CommitDeleteKeeps DEF Deleting
  <2>6. ASSUME NEW r \in Request, Running(r)
        PROVE  IInv'
    BY <2>6, LoadRunKeeps, FinishRunKeeps, RejectKeeps DEF Running
  <2>7. CASE UNCHANGED vars
    <3> USE <2>7 DEF vars
    <3>1. TypeOK' /\ BackfillInv' /\ CountInv' /\ RequestInv'
      BY DEF IInv, TypeOK, BackfillInv, CountInv, RequestInv
    <3>2. StoredKeysUnique' /\ KeysFollowColumns' /\ HealthExact'
      BY DEF IInv, StoredKeysUnique, KeysFollowColumns, HealthExact, Live
    <3>3. CheckStillHolds'
      BY DEF IInv, CheckStillHolds, DuplicatesOf, Live
    <3>4. SessionInv'
      BY DEF IInv, SessionInv, Loaded
    <3>5. RunInv'
      <4>1. \A s : Runs(s)' = Runs(s)
        BY DEF Runs
      <4> QED
        BY <4>1 DEF IInv, RunInv
    <3> QED
      BY <3>1, <3>2, <3>3, <3>4, <3>5 DEF IInv
  <2> QED
    BY <2>1, <2>2, <2>3, <2>4, <2>5, <2>6, <2>7 DEF Next
<1> QED
  BY <1>1, <1>2, PTL DEF Spec

(* Every variable has its type.                                            *)
THEOREM TypeCorrect == Spec => []TypeOK
<1>1. IInv => TypeOK
  BY DEF IInv
<1> QED
  BY <1>1, Invariance, PTL

(* No unique index ever refuses a write: live sources never share a key.   *)
THEOREM KeysUnique == Spec => []StoredKeysUnique
<1>1. IInv => StoredKeysUnique
  BY DEF IInv
<1> QED
  BY <1>1, Invariance, PTL

(* No handler comes between the check for duplicates and the write.        *)
THEOREM ChecksHold == Spec => []CheckStillHolds
<1>1. IInv => CheckStillHolds
  BY DEF IInv
<1> QED
  BY <1>1, Invariance, PTL

(* Stored keys follow the columns of sources no stale edit has torn.       *)
THEOREM KeysAgree == Spec => []KeysFollowColumns
<1>1. IInv => KeysFollowColumns
  BY DEF IInv
<1> QED
  BY <1>1, Invariance, PTL

(* Edits and deletions lose no health; only overlapping runs do.           *)
THEOREM HealthCorrect == Spec => []HealthExact
<1>1. IInv => HealthExact
  BY DEF IInv
<1> QED
  BY <1>1, Invariance, PTL

-----------------------------------------------------------------------------
(* The action properties.                                                  *)

(* Who has read a live row does not bring it back.                         *)
LEMMA FlushLive ==
  ASSUME NEW now \in Row, NEW read \in Row, NEW set \in Row, read.live
  PROVE  Flush(now, read, set).live => now.live
<1>1. read.live \in BOOLEAN /\ set.live \in BOOLEAN
  BY DEF Row
<1> QED
  BY <1>1 DEF Flush, Written

(* Once a request is served, migration 0003 is done.                       *)
LEMMA Served ==
  ASSUME IInv, NEW r \in Request, at[r] # "new" \/ stage = "serving"
  PROVE  stage = "serving"
BY DEF IInv, BackfillInv

(* What a step does to the table: the cleanup, a new row, one row written  *)
(* by who had read it live, or nothing.                                    *)
Inserts == \E p \in [Field -> Text], b \in BOOLEAN : Insert(p, b)
Writes(t, y) == /\ count' = count
                /\ row' = [row EXCEPT ![t] = y]
                /\ y.live => row[t].live

LEMMA SessionWrites ==
  ASSUME IInv, NEW r \in Request, NEW set \in Row, Loaded(r), count' = count,
         row' = [row EXCEPT ![target[r]] = Flush(row[target[r]], seen[r], set)]
  PROVE  \E t \in 1 .. count, y \in Row : Writes(t, y)
<1> DEFINE y == Flush(row[target[r]], seen[r], set)
<1>1. /\ row[target[r]] \in Row /\ seen[r] \in Row /\ seen[r].live
      /\ target[r] \in 1 .. count
  BY CountType DEF IInv, TypeOK, SessionInv
<1>2. y \in Row /\ (y.live => row[target[r]].live)
  BY <1>1, FlushLive, FlushKeeps
<1> HIDE DEF y
<1>3. Writes(target[r], y)
  BY <1>2 DEF Writes, y
<1> QED
  BY <1>1, <1>2, <1>3

LEMMA TableSteps ==
  ASSUME IInv, Next
  PROVE  \/ CleanUpSourceHealth
         \/ /\ stage # "backfill" /\ stage' # "backfill"
            /\ \/ UNCHANGED <<row, count>>
               \/ Inserts
               \/ \E t \in 1 .. count, y \in Row : Writes(t, y)
<1>1. ASSUME NEW p \in Seeds, AddSeed(p)
      PROVE  /\ stage # "backfill" /\ stage' # "backfill"
             /\ UNCHANGED <<row, count>> \/ Inserts
  BY <1>1 DEF AddSeed, Inserts, Field
<1>2. ASSUME NEW r \in Request, Inserting(r)
      PROVE  /\ stage = "serving" /\ stage' = stage
             /\ UNCHANGED <<row, count>> \/ Inserts
  <2>1. stage = "serving" /\ stage' = stage
    BY <1>2, Served DEF Inserting, StartInsert, Begin, InsertRow, RejectRow, CheckRow
  <2>2. UNCHANGED <<row, count>> \/ Insert(form[r], wish[r])
    BY <1>2 DEF Inserting, StartInsert, InsertRow, RejectRow, CheckRow
  <2>3. form[r] \in [Field -> Text] /\ wish[r] \in BOOLEAN
    BY DEF IInv, TypeOK
  <2> QED
    BY <2>1, <2>2, <2>3 DEF Inserts
<1>3. ASSUME NEW r \in Request, Editing(r) \/ Deleting(r) \/ Running(r)
      PROVE  stage = "serving" /\ stage' = stage
  BY <1>3, Served DEF Editing, OpenEdit, CheckPatch, RejectEdit, SubmitEdit, WriteUpdate, Deleting,
     OpenDelete, CommitDelete, Running, LoadRun, FinishRun, AbortRun, Begin, Runs
<1>4. ASSUME NEW r \in Request, WriteUpdate(r)
      PROVE  \E t \in 1 .. count, y \in Row : Writes(t, y)
  <2>1. seen[r] \in Row /\ form[r] \in [Field -> Text] /\ wish[r] \in BOOLEAN
    BY DEF IInv, TypeOK
  <2>2. Edited(r) \in Row
    BY <2>1, KeyType DEF Edited, Row
  <2> QED
    BY <1>4, <2>2, SessionWrites DEF WriteUpdate, Loaded
<1>5. ASSUME NEW r \in Request, CommitDelete(r)
      PROVE  \E t \in 1 .. count, y \in Row : Writes(t, y)
  <2> DEFINE set == [seen[r] EXCEPT !.live = FALSE, !.active = FALSE]
  <2>1. seen[r] \in Row
    BY DEF IInv, TypeOK
  <2>2. set \in Row
    BY <2>1 DEF Row
  <2>3. /\ Loaded(r) /\ count' = count
        /\ row' = [row EXCEPT ![target[r]] = Flush(row[target[r]], seen[r], set)]
    BY <1>5 DEF CommitDelete, Loaded
  <2> HIDE DEF set
  <2> QED
    BY <2>2, <2>3, SessionWrites
<1>6. ASSUME NEW r \in Request, NEW status \in {"success", "partial_success", "failed"},
             NEW fetched \in BOOLEAN, FinishRun(r, status, fetched)
      PROVE  \E t \in 1 .. count, y \in Row : Writes(t, y)
  <2>1. seen[r] \in Row
    BY DEF IInv, TypeOK
  <2>2. AfterRun(seen[r], status, fetched) \in Row
    BY <2>1, AfterRunType
  <2> QED
    BY <1>6, <2>2, SessionWrites DEF FinishRun, Loaded, Runs
<1>7. ASSUME NEW r \in Request, Editing(r) \/ Deleting(r) \/ Running(r)
      PROVE  UNCHANGED <<row, count>> \/ \E t \in 1 .. count, y \in Row : Writes(t, y)
  BY <1>4, <1>5, <1>6, <1>7 DEF Editing, OpenEdit, CheckPatch, RejectEdit, SubmitEdit, Deleting,
     OpenDelete, Running, LoadRun, AbortRun
<1> QED
  BY <1>1, <1>2, <1>3, <1>7 DEF Next

LEMMA NoRevival ==
  ASSUME IInv, Next, NEW s \in 1 .. count, row'[s].live
  PROVE  row[s].live
<1>1. s \in Source /\ count \in Nat /\ row \in [Source -> Row] /\ s # count + 1
  <2>1. s \in Source /\ count \in Nat
    BY CountType DEF IInv
  <2>2. row \in [Source -> Row]
    BY DEF IInv, TypeOK
  <2> QED
    BY <2>1, <2>2
<1>2. CASE CleanUpSourceHealth
  <2>1. PICK recency \in Recency : row' = Cleaned(recency)
    BY <1>2 DEF CleanUpSourceHealth
  <2> QED
    BY <1>1, <2>1, CleanedType DEF IInv, Live
<1>3. CASE Inserts
  BY <1>1, <1>3 DEF Inserts, Insert
<1>4. CASE \E t \in 1 .. count, y \in Row : Writes(t, y)
  BY <1>1, <1>4 DEF Writes
<1> QED
  BY <1>2, <1>3, <1>4, TableSteps

(* A deleted source stays deleted, whoever had loaded it before.           *)
THEOREM DeletedForEver == Spec => DeletedStaysDeleted
<1>1. IInv /\ [Next]_vars => [\A s \in 1 .. count : ~row[s].live => ~row'[s].live]_vars
  BY NoRevival DEF vars
<1> QED
  BY <1>1, Invariance, PTL DEF Spec, DeletedStaysDeleted

-----------------------------------------------------------------------------
(* The cleanup of the health of sources.                                   *)

(* A healthy source outranks every other.                                  *)
LEMMA RankBounds ==
  ASSUME TypeOK, NEW recency \in Recency, NEW s \in Source
  PROVE  /\ KeeperRank(s, recency) \in 0 .. 8 * (MaxSource + 1)
         /\ row[s].state = "healthy" => KeeperRank(s, recency) >= 4 * (MaxSource + 1)
         /\ row[s].state # "healthy" => KeeperRank(s, recency) < 4 * (MaxSource + 1)
<1> DEFINE a == IF row[s].state = "healthy" THEN 1 ELSE 0
           b == IF row[s].status = "success" THEN 1 ELSE 0
           c == recency[s]
           M == MaxSource + 1
           k == (2 * a + b) * 2 + c
<1>1. a \in 0 .. 1 /\ b \in 0 .. 1 /\ c \in 0 .. 1 /\ s \in 1 .. MaxSource /\ M \in Nat
  BY DEF Recency
<1>2. KeeperRank(s, recency) = k * M + s
  BY DEF KeeperRank
<1>3. (row[s].state = "healthy" <=> a = 1)
  OBVIOUS
<1> HIDE DEF a, b, c
<1>4. k \in {0, 1, 2, 3, 4, 5, 6, 7} /\ (a = 1 <=> k \in {4, 5, 6, 7})
  BY <1>1
<1> HIDE DEF k
<1>5. ASSUME NEW n \in {0, 1, 2, 3, 4, 5, 6, 7}, k = n
      PROVE  /\ k * M + s \in 0 .. 8 * M
             /\ k \in {4, 5, 6, 7} => k * M + s >= 4 * M
             /\ k \notin {4, 5, 6, 7} => k * M + s < 4 * M
  BY <1>1, <1>5
<1> QED
  BY <1>2, <1>3, <1>4, <1>5

(* There is a source of each company that outranks the others.             *)
LEMMA KeeperExists ==
  ASSUME TypeOK, NEW recency \in Recency, NEW s \in Live \ Removed
  PROVE  /\ Keeper(s, recency) \in SameCompany(s)
         /\ \A u \in SameCompany(s) : KeeperRank(u, recency) <= KeeperRank(Keeper(s, recency), recency)
<1> DEFINE B == 8 * (MaxSource + 1)
           R == OpToRel(<, Nat)
           T == {B - KeeperRank(u, recency) : u \in SameCompany(s)}
<1>1. s \in SameCompany(s) /\ \A u \in SameCompany(s) : u \in Source
  BY DEF SameCompany, Live
<1>2. \A u \in SameCompany(s) : KeeperRank(u, recency) \in 0 .. B
  BY <1>1, RankBounds
<1>3. B \in Nat
  OBVIOUS
<1> HIDE DEF B
<1>4. T \subseteq Nat /\ T # {}
  BY <1>1, <1>2, <1>3
<1>5. \E x \in T : \A y \in T : ~(<<y, x>> \in R)
  <2> HIDE DEF R, T
  <2>1. IsWellFoundedOn(R, Nat)
    BY NatLessThanWellFounded DEF R
  <2> QED
    BY <1>4, <2>1, WFMin
<1>6. PICK x \in T : \A y \in T : ~(<<y, x>> \in R)
  BY <1>5
<1>7. \A y \in T : x <= y
  <2>1. \A m, n \in Nat : m < n => <<m, n>> \in R
    BY DEF OpToRel
  <2> HIDE DEF R, T
  <2> SUFFICES ASSUME NEW y \in T
               PROVE  x <= y
    OBVIOUS
  <2>2. x \in Nat /\ y \in Nat
    BY <1>4, <1>6
  <2>3. ~(y < x)
    BY <1>6, <2>1, <2>2
  <2> QED
    BY <2>2, <2>3
<1>8. PICK t \in SameCompany(s) : x = B - KeeperRank(t, recency)
  OBVIOUS
<1>9. \A u \in SameCompany(s) : KeeperRank(u, recency) <= KeeperRank(t, recency)
  <2> SUFFICES ASSUME NEW u \in SameCompany(s)
               PROVE  KeeperRank(u, recency) <= KeeperRank(t, recency)
    OBVIOUS
  <2>1. B - KeeperRank(t, recency) <= B - KeeperRank(u, recency)
    BY <1>7, <1>8
  <2> QED
    BY <1>2, <1>3, <2>1
<1> QED
  BY <1>9 DEF Keeper

(* What a cleanup leaves: the keepers, with their keys filled in.          *)
LEMMA CleanedLive ==
  ASSUME IInv, NEW recency \in Recency, row' = Cleaned(recency)
  PROVE  /\ Live' = {s \in Live \ Removed : Keeper(s, recency) = s}
         /\ \A s \in Live' : /\ row'[s].cols = row[s].cols
                             /\ row'[s].state = row[s].state
                             /\ row'[s].owner = CompanyProviderKey(row[s].cols)
<1>1. \A s \in Source : /\ row'[s].live <=> s \in Live \ Removed /\ Keeper(s, recency) = s
                        /\ row'[s].cols = row[s].cols
                        /\ HealthOf(row'[s]) = HealthOf(row[s])
                        /\ s \in Live => row'[s].owner = CompanyProviderKey(row[s].cols)
  BY CleanedType DEF IInv
<1>2. \A s \in Source : row'[s].state = row[s].state
  BY <1>1 DEF HealthOf
<1> QED
  BY <1>1, <1>2 DEF Live

LEMMA KeeperLeft ==
  ASSUME IInv, NEW recency \in Recency, row' = Cleaned(recency), NEW s \in Live \ Removed
  PROVE  \E k \in SameCompany(s) : /\ Live' \cap SameCompany(s) = {k}
                                   /\ row[s].state = "healthy" => row[k].state = "healthy"
<1> DEFINE k == Keeper(s, recency)
<1>1. k \in SameCompany(s) /\ k \in Live \ Removed /\ k \in Source /\ s \in Source
  BY KeeperExists DEF IInv, SameCompany, Live
<1>2. \A u \in SameCompany(s) : Keeper(u, recency) = k
  BY OneKeeperEach DEF SameCompany
<1> HIDE DEF k
<1>3. Live' \cap SameCompany(s) = {k}
  BY <1>1, <1>2, CleanedLive
<1>4. row[s].state = "healthy" => row[k].state = "healthy"
  <2>1. KeeperRank(s, recency) <= KeeperRank(k, recency)
    BY KeeperExists DEF IInv, k, SameCompany
  <2>2. /\ row[s].state = "healthy" => KeeperRank(s, recency) >= 4 * (MaxSource + 1)
        /\ row[k].state # "healthy" => KeeperRank(k, recency) < 4 * (MaxSource + 1)
        /\ KeeperRank(s, recency) \in Int /\ KeeperRank(k, recency) \in Int
    BY <1>1, RankBounds DEF IInv
  <2> QED
    BY <2>1, <2>2
<1> QED
  BY <1>1, <1>3, <1>4

(* After a cleanup each live source is alone with its company, so another  *)
(* cleanup changes nothing.                                                *)
LEMMA CleanedOnce ==
  ASSUME IInv', NEW recency \in Recency, stage' # "backfill",
         \A s \in Live' : SameCompany(s)' = {s} /\ s \notin Removed',
         \A s \in Live' : row'[s].owner = CompanyProviderKey(row'[s].cols)
  PROVE  Cleaned(recency)' = row'
<1>1. /\ row' \in [Source -> Row]
      /\ \A s \in Live' : s \in Source /\ row'[s].live
      /\ \A s \in Source \ Live' : ~row'[s].live
  BY DEF IInv, TypeOK, Live
<1>2. ASSUME NEW s \in Live'
      PROVE  Keeper(s, recency)' = s
  <2>1. KeeperRank(s, recency)' \in Int
    <3> DEFINE a == IF row'[s].state = "healthy" THEN 1 ELSE 0
               b == IF row'[s].status = "success" THEN 1 ELSE 0
    <3>1. a \in Int /\ b \in Int /\ s \in Int /\ recency[s] \in Int /\ MaxSource + 1 \in Int
      BY <1>1 DEF Recency
    <3>2. KeeperRank(s, recency)' = ((2 * a + b) * 2 + recency[s]) * (MaxSource + 1) + s
      BY DEF KeeperRank
    <3> HIDE DEF a, b
    <3> QED
      BY <3>1, <3>2
  <2>2. \A u \in SameCompany(s)' : KeeperRank(u, recency)' <= KeeperRank(s, recency)'
    BY <2>1
  <2>3. Keeper(s, recency)' \in SameCompany(s)'
    BY <2>2 DEF Keeper
  <2> QED
    BY <2>3
<1>3. ASSUME NEW s \in Source
      PROVE  Cleaned(recency)'[s] = row'[s]
  <2>1. CASE s \notin Live'
    BY <2>1 DEF Cleaned
  <2>2. CASE s \in Live'
    <3>1. /\ row'[s] \in Row /\ row'[s].live
          /\ row'[s].owner = CompanyProviderKey(row'[s].cols)
      BY <1>1, <2>2
    <3>2. s \in {t \in Live' \ Removed' : Keeper(t, recency)' = t}
      BY <1>2, <2>2
    <3>3. Cleaned(recency)'[s]
            = [row'[s] EXCEPT !.owner = CompanyProviderKey(row'[s].cols), !.live = TRUE,
                              !.active = row'[s].active /\ TRUE]
      BY <2>2, <3>2 DEF Cleaned
    <3> DEFINE x == row'[s]
    <3>4. x.active \in BOOLEAN /\ x.live = TRUE
      BY <3>1 DEF Row
    <3>5. (x.active /\ TRUE) = x.active
      BY <3>4
    <3> HIDE DEF x
    <3>6. Cleaned(recency)'[s] = [x EXCEPT !.owner = x.owner, !.live = x.live, !.active = x.active]
      BY <3>1, <3>3, <3>4, <3>5 DEF x
    <3> QED
      BY <3>1, <3>6 DEF Row, x
  <2> QED
    BY <2>1, <2>2
<1> QED
  BY <1>1, <1>3 DEF Cleaned

LEMMA CleanUpLeaves ==
  ASSUME IInv, IInv', NEW recency \in Recency, row' = Cleaned(recency), stage' = "seed"
  PROVE  /\ \A s \in Live \ Removed : \E k \in SameCompany(s) :
               /\ Live' \cap SameCompany(s) = {k}
               /\ row[s].state = "healthy" => row[k].state = "healthy"
         /\ \A again \in Recency : Cleaned(again)' = row'
<1>1. \A s \in Live' : /\ s \in Live \ Removed /\ Keeper(s, recency) = s
                       /\ row'[s].cols = row[s].cols
                       /\ row'[s].owner = CompanyProviderKey(row[s].cols)
  BY CleanedLive
<1>2. \A s \in Live' : s \notin Removed'
  BY <1>1 DEF Removed
<1>3. ASSUME NEW s \in Live'
      PROVE  SameCompany(s)' = {s}
  <2>1. \A t \in SameCompany(s)' :
           /\ t \in Live'
           /\ CompanyProviderKey(row[t].cols) = CompanyProviderKey(row[s].cols)
    BY <1>1, <1>3 DEF SameCompany
  <2>2. \A t \in SameCompany(s)' : t = s
    BY <1>1, <1>3, <2>1, OneKeeperEach
  <2>3. s \in SameCompany(s)'
    BY <1>2, <1>3 DEF SameCompany
  <2> QED
    BY <2>2, <2>3
<1>4. \A again \in Recency : Cleaned(again)' = row'
  BY <1>1, <1>2, <1>3, CleanedOnce
<1> QED
  BY <1>4, KeeperLeft

(* The cleanup leaves one keeper of each company, a healthy one if there   *)
(* is any, and a second one would change nothing.                          *)
THEOREM KeepersLeft == Spec => OneKeeper
<1> DEFINE A == stage = "backfill" /\ stage' # stage =>
         /\ \A s \in Live \ Removed : \E k \in SameCompany(s) :
               /\ Live' \cap SameCompany(s) = {k}
               /\ row[s].state = "healthy" => row[k].state = "healthy"
         /\ \A recency \in Recency : Cleaned(recency)' = row'
<1>1. IInv /\ IInv' /\ [Next]_vars => [A]_vars
  <2> SUFFICES ASSUME IInv, IInv', Next, stage = "backfill", stage' # stage
               PROVE  A
    OBVIOUS
  <2>1. CleanUpSourceHealth
    BY DEF Next, AddSeed, Inserting, Editing, Deleting, Running, StartInsert, InsertRow,
       RejectRow, CheckRow, OpenEdit, CheckPatch, RejectEdit, SubmitEdit, WriteUpdate,
       CommitDelete, OpenDelete, LoadRun, FinishRun, AbortRun
  <2>2. PICK recency \in Recency : row' = Cleaned(recency)
    BY <2>1 DEF CleanUpSourceHealth
  <2> QED
    BY <2>1, <2>2, CleanUpLeaves DEF CleanUpSourceHealth
<1>2. Spec => [][A]_vars
  BY <1>1, Invariance, PTL DEF Spec
<1> QED
  BY <1>2 DEF OneKeeper

-----------------------------------------------------------------------------
(* The refinement.                                                         *)

AbstractStep == Directory!ANext \/ UNCHANGED Directory!avars

LEMMA KeysType ==
  ASSUME IInv', NEW s \in Source
  PROVE  KeysOf(s)' \subseteq Keys
<1>1. row'[s] \in Row
  BY DEF IInv, TypeOK
<1>2. row'[s].dedupe \in Text \X Text \X Text \X Text /\ row'[s].owner \in Text \X Text
      /\ row'[s].cols \in [Field -> Text]
  BY <1>1 DEF Row
<1>3. CompanyProviderKey(row'[s].cols) \in Text \X Text
  BY <1>2, KeyType
<1> QED
  BY <1>2, <1>3 DEF KeysOf, Keys

(* In use, no two sources hold one key.                                    *)
LEMMA KeysApart ==
  ASSUME IInv', stage' # "backfill", NEW s \in Source, NEW t \in Source, s # t
  PROVE  (KeysOf(s) \cap KeysOf(t))' = {}
<1>1. CASE s \notin Live' \/ t \notin Live'
  BY <1>1 DEF KeysOf
<1>2. CASE s \in Live' /\ t \in Live'
  <2>1. row'[s].owner # row'[t].owner /\ row'[s].dedupe # row'[t].dedupe
    BY <1>2 DEF IInv, StoredKeysUnique
  <2> QED
    BY <2>1 DEF KeysOf
<1> QED
  BY <1>1, <1>2

(* The cleanup opens the directory with the sources it keeps.              *)
LEMMA CleanUpOpens ==
  ASSUME IInv, IInv', CleanUpSourceHealth
  PROVE  AbstractStep
<1>1. PICK recency \in Recency : row' = Cleaned(recency)
  BY DEF CleanUpSourceHealth
<1>2. stage = "backfill" /\ stage' = "seed" /\ count' = count
  BY DEF CleanUpSourceHealth
<1>3. ASSUME NEW s \in Source
      PROVE  /\ row'[s].cols = row[s].cols
             /\ row'[s].dedupe = row[s].dedupe
             /\ row'[s].live => row[s].live /\ row'[s].owner = CompanyProviderKey(row[s].cols)
             /\ row[s].live => s <= count
  BY <1>1, CleanedType DEF IInv, CountInv, Live
<1>4. ASSUME NEW s \in Source
      PROVE  /\ KeysOf(s)' = IF s \in Live' THEN KeysOf(s) ELSE {}
             /\ LifeOf(s)' = IF LifeOf(s) = "live" /\ s \notin Live' THEN "deleted" ELSE LifeOf(s)
             /\ s \in Live' => LifeOf(s) = "live"
  <2>1. LifeOf(s)' = IF LifeOf(s) = "live" /\ s \notin Live' THEN "deleted" ELSE LifeOf(s)
    BY <1>2, <1>3, <1>4 DEF LifeOf, Live
  <2>2. s \in Live' => s \in Live /\ LifeOf(s) = "live"
    BY <1>3, <1>4, CountType DEF LifeOf, Live, IInv
  <2>3. KeysOf(s)' = IF s \in Live' THEN KeysOf(s) ELSE {}
    <3>1. CASE s \notin Live'
      BY <3>1 DEF KeysOf
    <3>2. CASE s \in Live'
      <4>1. /\ KeysOf(s)' = {<<"source", row'[s].dedupe>>, <<"company", row'[s].owner>>}
            /\ KeysOf(s) = {<<"source", row[s].dedupe>>,
                            <<"company", CompanyProviderKey(row[s].cols)>>}
        BY <1>2, <2>2, <3>2 DEF KeysOf
      <4>2. row'[s].dedupe = row[s].dedupe /\ row'[s].owner = CompanyProviderKey(row[s].cols)
        BY <1>3, <1>4, <3>2 DEF Live
      <4> QED
        BY <3>2, <4>1, <4>2
    <3> QED
      BY <3>1, <3>2
  <2> QED
    BY <2>1, <2>2, <2>3
<1>5. \A s \in Live' : \A t \in Live' \ {s} : KeysOf(s) \cap KeysOf(t) = {}
  BY <1>2, <1>4, KeysApart DEF Live
<1>6. Live' \in SUBSET Source
  BY DEF Live
<1>7. Directory!Open(Live')
  BY <1>2, <1>4, <1>5, <1>6 DEF Directory!Open, Directory!Apart
<1> QED
  BY <1>6, <1>7 DEF AbstractStep, Directory!ANext

(* A source whose row alone is written claims its keys.                    *)
LEMMA RowClaims ==
  ASSUME IInv, IInv', stage # "backfill", stage' # "backfill", NEW s \in Source, NEW y,
         row' = [row EXCEPT ![s] = y]
  PROVE  /\ Directory!Claim(s)
         /\ \A t \in Source \ {s} : row'[t] = row[t] /\ KeysOf(t)' = KeysOf(t)
<1>1. \A t \in Source \ {s} : row'[t] = row[t]
  BY DEF IInv, TypeOK
<1>2. \A t \in Source \ {s} : KeysOf(t)' = KeysOf(t)
  BY <1>1 DEF KeysOf, Live
<1>3. \A t \in Source \ {s} : (KeysOf(s) \cap KeysOf(t))' = {}
  BY KeysApart
<1>4. KeysOf(s)' \subseteq Keys
  BY KeysType
<1> QED
  BY <1>1, <1>2, <1>3, <1>4 DEF Directory!Claim, Directory!Apart, Keys

(* A new row enters.                                                       *)
LEMMA InsertEnters ==
  ASSUME IInv, IInv', stage # "backfill", stage' # "backfill", Inserts
  PROVE  AbstractStep
<1>1. PICK p \in [Field -> Text], b \in BOOLEAN : Insert(p, b)
  BY DEF Inserts
<1> DEFINE s == count + 1
<1>2. count < MaxSource /\ count' = s /\ row' = [row EXCEPT ![s] = NewRow(p, b)]
  BY <1>1 DEF Insert
<1>3. s \in Source /\ count \in Nat
  BY <1>2, CountType DEF IInv
<1>4. row'[s].live /\ s = count'
  BY <1>2, <1>3, NewRowType DEF IInv, TypeOK
<1>5. Directory!Claim(s) /\ \A t \in Source \ {s} : row'[t] = row[t]
  BY <1>2, <1>3, RowClaims
<1>6. \A t \in Source : LifeOf(t)' = IF t = s THEN "live" ELSE LifeOf(t)
  BY <1>2, <1>3, <1>4, <1>5 DEF LifeOf
<1>7. LifeOf(s) = "unborn"
  BY <1>3 DEF LifeOf
<1>8. Directory!Enter(s)
  BY <1>3, <1>5, <1>6, <1>7 DEF Directory!Enter
<1> QED
  BY <1>3, <1>8 DEF AbstractStep, Directory!ANext

(* A write exchanges the keys of a live source, or ends it.                *)
LEMMA WriteRefines ==
  ASSUME IInv, IInv', stage # "backfill", stage' # "backfill",
         NEW s \in 1 .. count, NEW y \in Row, Writes(s, y)
  PROVE  AbstractStep
<1>1. s \in Source /\ s <= count /\ count \in Nat /\ count' = count
  BY CountType DEF IInv, Writes
<1>2. row'[s] = y /\ (y.live => row[s].live)
  BY <1>1 DEF Writes, IInv, TypeOK
<1>3. /\ Directory!Claim(s)
      /\ \A t \in Source \ {s} : row'[t] = row[t] /\ KeysOf(t)' = KeysOf(t)
  BY <1>1, RowClaims DEF Writes
<1>4. \A t \in Source \ {s} : LifeOf(t)' = LifeOf(t)
  BY <1>1, <1>3 DEF LifeOf
<1>5. CASE ~row[s].live
  <2>1. LifeOf(s)' = LifeOf(s) /\ KeysOf(s)' = KeysOf(s)
    BY <1>1, <1>2, <1>5 DEF LifeOf, KeysOf, Live
  <2> QED
    BY <1>3, <1>4, <2>1 DEF AbstractStep, Directory!avars
<1>6. CASE row[s].live /\ y.live
  <2>1. LifeOf(s) = "live" /\ LifeOf(s)' = "live"
    BY <1>1, <1>2, <1>6 DEF LifeOf
  <2>2. UNCHANGED [t \in Source |-> LifeOf(t)]
    BY <1>4, <2>1
  <2>3. Directory!Exchange(s)
    BY <1>1, <1>3, <2>1, <2>2 DEF Directory!Exchange
  <2> QED
    BY <1>1, <2>3 DEF AbstractStep, Directory!ANext
<1>7. CASE row[s].live /\ ~y.live
  <2>1. LifeOf(s) = "live" /\ LifeOf(s)' = "deleted" /\ KeysOf(s)' = {}
    BY <1>1, <1>2, <1>7 DEF LifeOf, KeysOf, Live
  <2>2. [t \in Source |-> LifeOf(t)]' = [[t \in Source |-> LifeOf(t)] EXCEPT ![s] = "deleted"]
    BY <1>1, <1>4, <2>1
  <2>3. [t \in Source |-> KeysOf(t)]' = [[t \in Source |-> KeysOf(t)] EXCEPT ![s] = {}]
    BY <1>1, <1>3, <2>1
  <2>4. Directory!Leave(s)
    BY <1>1, <2>1, <2>2, <2>3 DEF Directory!Leave
  <2> QED
    BY <1>1, <2>4 DEF AbstractStep, Directory!ANext
<1> QED
  BY <1>5, <1>6, <1>7

(* Every step maps to an abstract step or to none.                         *)
LEMMA NextRefines == IInv /\ IInv' /\ [Next]_vars => AbstractStep
<1> SUFFICES ASSUME IInv, IInv', [Next]_vars
             PROVE  AbstractStep
  OBVIOUS
<1>1. ASSUME UNCHANGED <<row, count>>, (stage' = "backfill") = (stage = "backfill")
      PROVE  AbstractStep
  <2>1. \A s \in Source : LifeOf(s)' = LifeOf(s) /\ KeysOf(s)' = KeysOf(s)
    BY <1>1 DEF LifeOf, KeysOf, Live
  <2> QED
    BY <1>1, <2>1 DEF AbstractStep, Directory!avars
<1>2. CASE UNCHANGED vars
  BY <1>1, <1>2 DEF vars
<1>3. CASE Next
  BY <1>1, <1>3, TableSteps, CleanUpOpens, InsertEnters, WriteRefines
<1> QED
  BY <1>2, <1>3

(* Sources have their keys as if nothing ever overlapped.                  *)
THEOREM Refinement == Spec => ImplementsDirectory
<1>1. Init => Directory!AInit
  <2> SUFFICES ASSUME Init
               PROVE  Directory!AInit
    OBVIOUS
  <2>1. IInv
    BY InitKeeps
  <2>2. \A s \in Source : row[s] \in Row /\ (row[s].live <=> s <= count) /\ stage = "backfill"
    BY <2>1 DEF Init, IInv, TypeOK
  <2>3. ASSUME NEW s \in Source
        PROVE  KeysOf(s) \subseteq Keys
    <3>1. CompanyProviderKey(row[s].cols) \in Text \X Text
      BY <2>2, KeyType DEF Row
    <3> QED
      BY <2>2, <3>1 DEF KeysOf, Keys, Row
  <2>4. \A s \in Source : /\ LifeOf(s) \in {"unborn", "live"}
                          /\ LifeOf(s) = "unborn" => KeysOf(s) = {}
    BY <2>2, CountType, <2>1 DEF LifeOf, KeysOf, Live, IInv
  <2> QED
    BY <2>2, <2>3, <2>4 DEF Directory!AInit, Keys, Init
<1>2. IInv /\ IInv' /\ [Next]_vars => [Directory!ANext]_(Directory!avars)
  BY NextRefines DEF AbstractStep
<1> QED
  BY <1>1, <1>2, Invariance, PTL DEF Spec, ImplementsDirectory, Directory!ASpec
=============================================================================
