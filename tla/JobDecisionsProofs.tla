------------------------- MODULE JobDecisionsProofs -------------------------
(***************************************************************************)
(* Proofs about JobDecisions, for all preferences, postings and numbers of *)
(* jobs, workers and decisions.                                            *)
(*                                                                         *)
(* The UPDATE of persist_snapshot covers all decisions of a job, and the   *)
(* first of them is committed for ever: so transactions take turns at a    *)
(* job from that statement on, whether they have locked its row or not.    *)
(* What they insert after it is newer than all that is committed.          *)
(***************************************************************************)
EXTENDS JobDecisions, FiniteSetTheorems, TLAPS

USE DEF db, request, session, locks, history, vars
-----------------------------------------------------------------------------
(* The inductive invariant, part by part.                                  *)

\* Decisions follow the rules, and the first of each job stays for ever.
DecisionInv ==
  /\ \A n \in Decisions : decision[n].bucket = BucketOf(decision[n].text, decision[n].prefs)
  /\ \A j \in Job : j \in Committed(j)

\* Rows and decisions are updated by one transaction at a time.
LockInv ==
  \A t, u \in Tx : t # u => locked[t] \cap locked[u] = {} /\ cleared[t] \cap cleared[u] = {}

\* t is deciding on j.
Busy(t, j)      == job[t] = j /\ at[t] \in {"find", "clear", "insert", "project"}
Inserting(t, j) == job[t] = j /\ at[t] = "insert"

\* n is the last decision t has made on its job.
IsLast(t, n) == n \in Own(t) /\ \A m \in Own(t) : decision[m].job = decision[n].job => m <= n

Decides(t, j) == \E n \in Number : IsLast(t, n) /\ decision[n].job = j

\* Where a transaction is.
StepInv(t) ==
  /\ at[t] = "idle" => loaded[t] = {} /\ locked[t] = {} /\ cleared[t] = {} /\ Own(t) = {}
  /\ at[t] \notin {"idle", "ready"} => job[t] \in loaded[t]
  /\ todo[t] \subseteq loaded[t]
  /\ at[t] = "clear" => job[t] \in found[t]
  /\ at[t] \in {"insert", "project"} => job[t] \in cleared[t]
  /\ at[t] = "project" => \E n \in Own(t) : /\ \A m \in Own(t) : m <= n
                                            /\ decision[n].job = job[t]
                                            /\ decision[n].text = text[t]
  /\ \A j \in locked[t] : j \in loaded[t] /\ (Decides(t, j) \/ Busy(t, j))

\* What it has found or updated: its own and committed decisions, of jobs it
\* decides on.
ClearInv(t) ==
  /\ \A n \in cleared[t] : n \in Decisions /\ decision[n].by \in {"db", t}
  /\ \A n \in cleared[t], j \in Job : decision[n].job = j => Decides(t, j) \/ Inserting(t, j)
  /\ at[t] = "clear" =>
       /\ \A n \in found[t] : /\ n \in Decisions /\ decision[n].by \in {"db", t}
                              /\ decision[n].job = job[t]
       /\ \A n \in Own(t) : decision[n].job = job[t] => n \in found[t]

\* Its decisions are newer than the committed ones, its row shows the last of
\* them, and only that is current.
OwnInv(t) ==
  \A n \in Own(t), j \in Job : decision[n].job = j =>
    /\ j \in cleared[t] /\ j \in loaded[t]
    /\ \A m \in Committed(j) : m < n
    /\ n \notin cleared[t] => IsLast(t, n)
    /\ IsLast(t, n) => (n \in cleared[t] <=> Inserting(t, j))
    /\ \/ at[t] = "project" /\ job[t] = j
       \/ j \in locked[t] /\ (IsLast(t, n) => copy[t][j].latest = n)

\* A session that is not stale at a job sees it as it is, and has updated all
\* its committed decisions.
FreshInv(t) ==
  \A j \in loaded[t] \ stale[t] :
    /\ seen[t][j].text = View(t, j).text /\ seen[t][j].bucket = View(t, j).bucket
    /\ Decides(t, j) \/ Inserting(t, j) => Committed(j) \subseteq cleared[t]
    /\ at[t] = "clear" /\ job[t] = j => Committed(j) \subseteq found[t]
    /\ Busy(t, j) => View(t, j).text = text[t]
    /\ \A n \in Own(t) : decision[n].job = j /\ IsLast(t, n) /\ ~Busy(t, j) =>
         View(t, j).text = decision[n].text /\ View(t, j).bucket = decision[n].bucket

TxInv(t) == StepInv(t) /\ ClearInv(t) /\ OwnInv(t) /\ FreshInv(t)

DataInv == LatestIsNewest /\ OneCurrent /\ ProjectionExact /\ DecisionInv

IInv == TypeOK /\ DataInv /\ LockInv /\ \A t \in Tx : TxInv(t)
-----------------------------------------------------------------------------
(* Types.                                                                  *)

\* preview_job always returns one of the three buckets.
LEMMA BucketType == \A x, q : BucketOf(x, q) \in Bucket
  BY DEF BucketOf, Bucket

LEMMA FirstPrefsType == FirstPrefs \in Preferences
  BY InstanceAssumption DEF FirstPrefs, Preferences

LEMMA NumberType == Job \subseteq Number /\ 1 \in Job /\ Number \subseteq Nat
  BY InstanceAssumption DEF Job, Number

LEMMA NoRowType == ASSUME Text # {} PROVE NoRow \in Row
  BY NumberType DEF NoRow, Row, Bucket

LEMMA TextNonempty == ASSUME TypeOK PROVE Text # {}
  BY DEF TypeOK, Tx

\* A record of a decision.
Record == [by : Tx \cup {"db"}, job : Job, bucket : Bucket, current : BOOLEAN,
           text : Text, prefs : Preferences]

LEMMA RecordUsed == Unused \notin Record
  BY DEF Unused, Record

LEMMA DecidedType ==
  ASSUME NEW t \in Tx \cup {"db"}, NEW j \in Job, NEW x \in Text, NEW q \in Preferences
  PROVE  /\ Decided(t, j, x, q) \in Record
         /\ Decided(t, j, x, q) # Unused
         /\ Decided(t, j, x, q).by = t /\ Decided(t, j, x, q).job = j
         /\ Decided(t, j, x, q).text = x /\ Decided(t, j, x, q).prefs = q
         /\ Decided(t, j, x, q).bucket = BucketOf(x, q) /\ Decided(t, j, x, q).current
<1>1. Decided(t, j, x, q) \in Record
  BY BucketType DEF Decided, Record
<1> QED
  BY <1>1, RecordUsed DEF Decided

LEMMA DecisionType ==
  ASSUME TypeOK, NEW n \in Decisions
  PROVE  n \in Number /\ n \in Nat /\ decision[n] \in Record
  BY NumberType DEF TypeOK, Decisions, Record

LEMMA ViewType ==
  ASSUME TypeOK, NEW t \in Tx, NEW j \in Job
  PROVE  View(t, j) \in Row
  BY DEF TypeOK, View

\* A transaction that has ended has nothing left.
LEMMA EndType ==
  ASSUME TypeOK, NEW t \in Tx, End(t)
  PROVE  /\ op' \in [Tx -> {"none", "run", "reclassify"}]
         /\ at' \in [Tx -> {"idle", "ready", "upsert", "find", "clear", "insert", "project"}]
         /\ prefs' \in [Tx -> Preferences]
         /\ todo' \in [Tx -> SUBSET Job]
         /\ job' \in [Tx -> Job]
         /\ text' \in [Tx -> Text]
         /\ seen' \in [Tx -> [Job -> Row]]
         /\ loaded' \in [Tx -> SUBSET Job]
         /\ copy' \in [Tx -> [Job -> Row]]
         /\ locked' \in [Tx -> SUBSET Job]
         /\ found' \in [Tx -> SUBSET Number]
         /\ cleared' \in [Tx -> SUBSET Number]
<1>1. NoRow \in Row /\ NoRow.text \in Text
  BY TextNonempty, NoRowType DEF Row
<1>2. [j \in Job |-> NoRow] \in [Job -> Row]
  BY <1>1
<1> QED
  BY <1>1, <1>2, FirstPrefsType, NumberType DEF End, TypeOK

LEMMA RowUpdate ==
  ASSUME NEW r \in Row, NEW x \in Text, NEW b \in Bucket
  PROVE  [r EXCEPT !.text = x] \in Row /\ [r EXCEPT !.bucket = b] \in Row
  BY DEF Row

\* A session that sets a column of a job it has loaded.
LEMMA SeenUpdate ==
  ASSUME TypeOK, NEW t \in Tx, NEW x \in Text, NEW b \in Bucket
  PROVE  /\ [seen EXCEPT ![t][job[t]].text = x] \in [Tx -> [Job -> Row]]
         /\ [seen EXCEPT ![t][job[t]].bucket = b] \in [Tx -> [Job -> Row]]
<1> DEFINE r == seen[t][job[t]]
<1>1. seen \in [Tx -> [Job -> Row]] /\ job[t] \in Job /\ r \in Row
  BY DEF TypeOK
<1>2. [seen[t] EXCEPT ![job[t]] = [r EXCEPT !.text = x]] \in [Job -> Row]
  BY <1>1, RowUpdate
<1>3. [seen[t] EXCEPT ![job[t]] = [r EXCEPT !.bucket = b]] \in [Job -> Row]
  BY <1>1, RowUpdate
<1>4. [seen EXCEPT ![t] = [seen[t] EXCEPT ![job[t]] = [r EXCEPT !.text = x]]] \in [Tx -> [Job -> Row]]
  BY <1>1, <1>2
<1>5. [seen EXCEPT ![t] = [seen[t] EXCEPT ![job[t]] = [r EXCEPT !.bucket = b]]] \in [Tx -> [Job -> Row]]
  BY <1>1, <1>3
<1> QED
  BY <1>4, <1>5, Zenon

LEMMA InitType == Init => TypeOK
<1> SUFFICES ASSUME Init PROVE TypeOK
  OBVIOUS
<1>1. PICK x \in [Job -> Text] :
        /\ row = [j \in Job |-> [text |-> x[j], bucket |-> BucketOf(x[j], FirstPrefs), latest |-> j]]
        /\ decision = [n \in Number |->
              IF n \in Job THEN Decided("db", n, x[n], FirstPrefs) ELSE Unused]
  BY DEF Init
<1>2. NoRow \in Row /\ NoRow.text \in Text
  BY NoRowType, NumberType DEF Row
<1>3. row \in [Job -> Row]
  BY <1>1, BucketType, NumberType DEF Row
<1>4. \A n \in Number : decision[n] \in {Unused} \cup Record
  BY <1>1, DecidedType, FirstPrefsType
<1>5. decision \in [Number -> {Unused} \cup Record]
  BY <1>1, <1>4
<1>6. [j \in Job |-> NoRow] \in [Job -> Row]
  BY <1>2
<1> QED
  BY <1>2, <1>3, <1>5, <1>6, NumberType, FirstPrefsType DEF Init, TypeOK, Record

LEMMA TypeStep == TypeOK /\ [Next]_vars => TypeOK'
<1> SUFFICES ASSUME TypeOK, [Next]_vars PROVE TypeOK'
  OBVIOUS
<1>1. ASSUME NEW p \in Payload, BeginReclassify(p) PROVE TypeOK'
  BY <1>1 DEF BeginReclassify, TypeOK, Preferences, Tx
<1>2. ASSUME NEW p \in Payload, NEW t \in Tx, BeginRun(t, p) PROVE TypeOK'
  BY <1>2 DEF BeginRun, TypeOK, Preferences
<1>3. ASSUME NEW t \in Tx, Upsert(t) PROVE TypeOK'
  <2>1. View(t, job[t]) \in Row /\ [View(t, job[t]) EXCEPT !.text = text[t]] \in Row
    <3>1. job[t] \in Job /\ text[t] \in Text /\ "review" \in Bucket
      BY DEF TypeOK, Bucket
    <3>2. View(t, job[t]) \in Row
      BY <3>1, ViewType
    <3> QED
      BY <3>1, <3>2, RowUpdate
  <2>2. copy' \in [Tx -> [Job -> Row]] /\ locked' \in [Tx -> SUBSET Job]
    BY <1>3, <2>1 DEF Upsert, Update, TypeOK
  <2>3. seen' \in [Tx -> [Job -> Row]]
    <3>1. text[t] \in Text /\ seen' = [seen EXCEPT ![t][job[t]].text = text[t]]
      BY <1>3 DEF Upsert, TypeOK
    <3> QED
      BY <3>1, SeenUpdate, BucketType
  <2> QED
    BY <1>3, <2>2, <2>3 DEF Upsert, TypeOK
<1>4. ASSUME NEW t \in Tx, FindDecisions(t) PROVE TypeOK'
  <2>1. Visible(t, job[t]) \subseteq Number
    BY DEF Visible, Committed, Own, Decisions
  <2> QED
    BY <1>4, <2>1 DEF FindDecisions, TypeOK
<1>5. ASSUME NEW t \in Tx, ClearCurrent(t) PROVE TypeOK'
  BY <1>5 DEF ClearCurrent, TypeOK
<1>6. ASSUME NEW t \in Tx, NEW n \in Number, InsertDecision(t, n) PROVE TypeOK'
  <2>1. Decided(t, job[t], text[t], prefs[t]) \in Record
    BY DecidedType DEF TypeOK
  <2>2. decision' \in [Number -> {Unused} \cup Record]
    BY <1>6, <2>1 DEF InsertDecision, TypeOK, Record
  <2> QED
    BY <1>6, <2>2 DEF InsertDecision, TypeOK, Record
<1>7. ASSUME NEW t \in Tx, NEW n \in Number, Project(t, n) PROVE TypeOK'
  <2>1. n \in Decisions /\ decision[n].bucket \in Bucket
    BY <1>7, DecisionType DEF Project, Own, Record
  <2>2. \A r, s \in Row : Projected(r, s, n) \in Row
    BY <2>1 DEF Projected, Row
  <2>3. Projected(View(t, job[t]), seen[t][job[t]], n) \in Row
    BY <2>2, ViewType DEF TypeOK
  <2>4. copy' \in [Tx -> [Job -> Row]] /\ locked' \in [Tx -> SUBSET Job]
    BY <1>7, <2>3 DEF Project, Update, TypeOK
  <2>5. seen' \in [Tx -> [Job -> Row]]
    <3>1. seen' = [seen EXCEPT ![t][job[t]].bucket = decision[n].bucket]
      BY <1>7 DEF Project
    <3> QED
      BY <3>1, <2>1, SeenUpdate, TextNonempty
  <2> QED
    BY <1>7, <2>4, <2>5 DEF Project, TypeOK
<1>8. ASSUME NEW t \in Tx, Commit(t) PROVE TypeOK'
  <2>1. row' \in [Job -> Row]
    BY <1>8, ViewType DEF Commit
  <2>2. ASSUME NEW n \in Number PROVE decision'[n] \in {Unused} \cup Record
    <3>1. decision[n] # Unused =>
            /\ decision[n] \in Record
            /\ [decision[n] EXCEPT !.by = "db", !.current = n \notin cleared[t]] \in Record
            /\ [decision[n] EXCEPT !.current = FALSE] \in Record
      BY DecisionType DEF Decisions, Record
    <3>2. n \in cleared[t] => n \in Decisions \/ [decision[n] EXCEPT !.current = FALSE] = decision[n]
      BY DEF Decisions, Unused
    <3> QED
      BY <1>8, <3>1, <3>2 DEF Commit, Own, Decisions
  <2>3. decision' \in [Number -> {Unused} \cup Record]
    BY <1>8, <2>2 DEF Commit
  <2>4. stale' \in [Tx -> SUBSET Job] /\ torn' \subseteq Job
    BY <1>8 DEF Commit, TypeOK
  <2>5. End(t)
    BY <1>8 DEF Commit
  <2> QED
    BY <2>1, <2>3, <2>4, <2>5, EndType DEF TypeOK, Record
<1>9. ASSUME NEW t \in Tx, Abort(t) PROVE TypeOK'
  <2>1. decision' \in [Number -> {Unused} \cup Record]
    BY <1>9 DEF Abort, TypeOK, Record
  <2>2. stale' \in [Tx -> SUBSET Job] /\ torn' \subseteq Job /\ row' \in [Job -> Row] /\ End(t)
    BY <1>9 DEF Abort, TypeOK
  <2> QED
    BY <2>1, <2>2, EndType DEF TypeOK, Record
<1>10. ASSUME NEW t \in Tx, NEW j \in Job, NextJob(t, j) PROVE TypeOK'
  BY <1>10 DEF NextJob, TypeOK, Row
<1>11. ASSUME NEW t \in Tx, NEW j \in Job, NEW x \in Text, Match(t, j, x) PROVE TypeOK'
  BY <1>11, ViewType DEF Match, TypeOK
<1>12. CASE UNCHANGED vars
  BY <1>12 DEF TypeOK
<1> QED
  BY <1>1, <1>2, <1>3, <1>4, <1>5, <1>6, <1>7, <1>8, <1>9, <1>10, <1>11, <1>12 DEF Next, Persist
-----------------------------------------------------------------------------
(* What a step of one transaction means to another.                        *)

\* The step is not one of u.
Same(u) ==
  /\ at'[u] = at[u] /\ todo'[u] = todo[u] /\ job'[u] = job[u] /\ text'[u] = text[u]
  /\ seen'[u] = seen[u] /\ loaded'[u] = loaded[u] /\ copy'[u] = copy[u]
  /\ locked'[u] = locked[u] /\ found'[u] = found[u] /\ cleared'[u] = cleared[u]

\* It leaves what u has made and found, and the jobs at which u is not stale.
LEMMA Frame ==
  ASSUME TypeOK, NEW u \in Tx, TxInv(u), Same(u), stale[u] \subseteq stale'[u],
         Own(u)' = Own(u),
         \A n \in Own(u) : decision'[n] = decision[n],
         \A n \in Decisions : decision[n].by \in {"db", u} =>
            /\ n \in Decisions'
            /\ decision'[n].by = decision[n].by /\ decision'[n].job = decision[n].job,
         \A n \in Own(u), j \in Job : decision[n].job = j => Committed(j)' = Committed(j),
         \A j \in loaded[u] \ stale'[u] : row'[j] = row[j] /\ Committed(j)' = Committed(j)
  PROVE  TxInv(u)'
<1>1. \A n \in Number : IsLast(u, n)' <=> IsLast(u, n)
  BY DEF IsLast
<1>2. \A n \in Number : IsLast(u, n) => n \in Own(u)
  BY DEF IsLast
<1>3. \A j \in Job : Decides(u, j)' <=> Decides(u, j)
  BY <1>1, <1>2 DEF Decides
<1>4. \A j \in Job : (Busy(u, j)' <=> Busy(u, j)) /\ (Inserting(u, j)' <=> Inserting(u, j))
  BY DEF Busy, Inserting, Same
<1>5. Own(u) \subseteq Decisions /\ Decisions \subseteq Number /\ \A n \in Own(u) : decision[n].by = u
  BY DEF Own, Decisions
<1>6. \A n \in Decisions : decision[n].job \in Job
  BY DecisionType DEF Record
<1>7. StepInv(u)'
  BY <1>3, <1>4 DEF StepInv, TxInv, Same, TypeOK
<1>8. ClearInv(u)'
  <2>1. \A n \in cleared[u] : n \in Decisions' /\ decision'[n].by \in {"db", u}
                              /\ decision'[n].job = decision[n].job
    BY DEF ClearInv, TxInv
  <2>2. \A n \in cleared'[u], j \in Job : decision'[n].job = j => Decides(u, j)' \/ Inserting(u, j)'
    BY <2>1, <1>3, <1>4 DEF ClearInv, TxInv, Same
  <2>3. at'[u] = "clear" =>
          /\ \A n \in found'[u] : /\ n \in Decisions' /\ decision'[n].by \in {"db", u}
                                  /\ decision'[n].job = job'[u]
          /\ \A n \in Own(u)' : decision'[n].job = job'[u] => n \in found'[u]
    BY DEF ClearInv, TxInv, Same
  <2> QED
    BY <2>1, <2>2, <2>3 DEF ClearInv, Same
<1>9. OwnInv(u)'
  BY <1>1, <1>4, <1>5 DEF OwnInv, TxInv, Same
<1>10. FreshInv(u)'
  <2> SUFFICES ASSUME NEW j \in loaded[u] \ stale'[u]
               PROVE  /\ seen'[u][j].text = View(u, j)'.text /\ seen'[u][j].bucket = View(u, j)'.bucket
                      /\ Decides(u, j)' \/ Inserting(u, j)' => Committed(j)' \subseteq cleared'[u]
                      /\ at'[u] = "clear" /\ job'[u] = j => Committed(j)' \subseteq found'[u]
                      /\ Busy(u, j)' => View(u, j)'.text = text'[u]
                      /\ \A n \in Own(u)' : decision'[n].job = j /\ IsLast(u, n)' /\ ~Busy(u, j)' =>
                           View(u, j)'.text = decision'[n].text /\ View(u, j)'.bucket = decision'[n].bucket
    BY DEF FreshInv, Same
  <2>1. View(u, j)' = View(u, j)
    BY DEF View, Same
  <2>2. j \in Job /\ j \in loaded[u] \ stale[u]
    BY DEF TypeOK
  <2> QED
    BY <2>1, <2>2, <1>1, <1>3, <1>4, <1>5 DEF FreshInv, TxInv, Same
<1> QED
  BY <1>7, <1>8, <1>9, <1>10 DEF TxInv

\* Most steps touch neither table nor any other transaction.
Quiet(t) == UNCHANGED <<row, decision, stale, torn>> /\ \A u \in Tx \ {t} : Same(u)

LEMMA QuietStep ==
  ASSUME IInv, NEW t \in Tx, Quiet(t)
  PROVE  DataInv' /\ \A u \in Tx \ {t} : TxInv(u)'
<1>1. Decisions' = Decisions /\ \A j : Committed(j)' = Committed(j)
  BY DEF Quiet, Decisions, Committed
<1>2. \A u : Own(u)' = Own(u)
  BY DEF Quiet, Decisions, Own
<1>3. DataInv'
  BY <1>1 DEF IInv, DataInv, Quiet, LatestIsNewest, OneCurrent, ProjectionExact, DecisionInv
<1>4. ASSUME NEW u \in Tx \ {t} PROVE TxInv(u)'
  BY <1>1, <1>2, Frame DEF Quiet, IInv
<1> QED
  BY <1>3, <1>4
-----------------------------------------------------------------------------
(* The steps, one by one.                                                  *)

\* What a transaction has decided is the same if the decisions are.
LEMMA SameOwn ==
  ASSUME UNCHANGED decision
  PROVE  /\ Decisions' = Decisions
         /\ \A t : Own(t)' = Own(t)
         /\ \A j : Committed(j)' = Committed(j)
         /\ \A t, n : IsLast(t, n)' <=> IsLast(t, n)
         /\ \A t, j : Decides(t, j)' <=> Decides(t, j)
<1>1. Decisions' = Decisions /\ (\A t : Own(t)' = Own(t)) /\ (\A j : Committed(j)' = Committed(j))
  BY DEF Decisions, Own, Committed
<1>2. \A t, n : IsLast(t, n)' <=> IsLast(t, n)
  BY <1>1 DEF IsLast
<1> QED
  BY <1>1, <1>2 DEF Decides

\* An own decision is of a job that has been loaded.
LEMMA OwnType ==
  ASSUME TypeOK
  PROVE  /\ \A n \in Decisions : n \in Number /\ decision[n].job \in Job
         /\ \A t, n : n \in Own(t) <=> n \in Decisions /\ decision[n].by = t
         /\ \A t, n : IsLast(t, n) => n \in Own(t)
         /\ \A j, n : n \in Committed(j) <=>
              n \in Decisions /\ decision[n].by = "db" /\ decision[n].job = j
  BY DecisionType DEF Own, IsLast, Committed, Record

LEMMA BeginRunKeeps ==
  ASSUME IInv, NEW t \in Tx, NEW p \in Payload, BeginRun(t, p)
  PROVE  DataInv' /\ LockInv' /\ \A u \in Tx : TxInv(u)'
<1>1. Quiet(t)
  BY DEF BeginRun, Quiet, Same, IInv, TypeOK
<1>2. LockInv'
  BY DEF BeginRun, IInv, LockInv
<1>3. TxInv(t)'
  <2>1. at[t] = "idle" /\ at'[t] = "ready"
    BY DEF BeginRun, IInv, TypeOK
  <2>2. \A j : ~Busy(t, j) /\ ~Busy(t, j)' /\ ~Inserting(t, j) /\ ~Inserting(t, j)'
    BY <2>1 DEF Busy, Inserting
  <2>3. \A j : View(t, j)' = View(t, j)
    BY DEF View, BeginRun
  <2>4. TxInv(t) /\ UNCHANGED <<decision, session, locks, stale>>
    BY DEF IInv, BeginRun
  <2>5. StepInv(t)' /\ ClearInv(t)' /\ OwnInv(t)' /\ FreshInv(t)'
    BY <2>1, <2>2, <2>3, <2>4, SameOwn DEF TxInv, StepInv, ClearInv, OwnInv, FreshInv
  <2> QED
    BY <2>5 DEF TxInv
<1> QED
  BY <1>1, <1>2, <1>3, QuietStep

LEMMA BeginReclassifyKeeps ==
  ASSUME IInv, NEW p \in Payload, BeginReclassify(p)
  PROVE  DataInv' /\ LockInv' /\ \A u \in Tx : TxInv(u)'
<1> DEFINE t == Loop
<1>0. t \in Tx
  BY DEF Tx
<1>1. Quiet(t)
  BY DEF BeginReclassify, Quiet, Same, IInv, TypeOK
<1>2. LockInv'
  BY DEF BeginReclassify, IInv, LockInv
<1>3. TxInv(t)'
  <2>1. /\ at[t] = "idle" /\ at'[t] = "ready"
        /\ todo'[t] = Job /\ loaded'[t] = Job /\ seen'[t] = row
        /\ UNCHANGED <<row, decision, locks, stale, job>>
    BY <1>0 DEF BeginReclassify, IInv, TypeOK
  <2>2. locked[t] = {} /\ cleared[t] = {} /\ Own(t)' = {}
    BY <1>0, <2>1, SameOwn DEF IInv, TxInv, StepInv
  <2>3. \A j : ~Busy(t, j)' /\ ~Inserting(t, j)' /\ ~Decides(t, j)'
    BY <2>1, <2>2, SameOwn DEF Busy, Inserting, Decides, IsLast
  <2>4. \A j : View(t, j)' = row[j]
    BY <2>1, <2>2 DEF View
  <2>5. StepInv(t)' /\ ClearInv(t)' /\ OwnInv(t)'
    BY <2>1, <2>2, <2>3 DEF StepInv, ClearInv, OwnInv
  <2>6. FreshInv(t)'
    BY <2>1, <2>2, <2>3, <2>4 DEF FreshInv
  <2> QED
    BY <2>5, <2>6 DEF TxInv
<1> QED
  BY <1>0, <1>1, <1>2, <1>3, QuietStep

LEMMA NextJobKeeps ==
  ASSUME IInv, NEW t \in Tx, NEW j \in Job, NextJob(t, j)
  PROVE  DataInv' /\ LockInv' /\ \A u \in Tx : TxInv(u)'
<1>1. Quiet(t)
  BY DEF NextJob, Quiet, Same, IInv, TypeOK
<1>2. LockInv'
  BY DEF NextJob, IInv, LockInv
<1>3. TxInv(t)'
  <2>1. /\ at[t] = "ready" /\ at'[t] = "find" /\ job'[t] = j
        /\ text'[t] = seen[t][j].text /\ j \in todo[t] /\ todo'[t] = todo[t] \ {j}
        /\ UNCHANGED <<row, decision, seen, loaded, locks, stale>>
    BY DEF NextJob, IInv, TypeOK
  <2>2. \A k : /\ ~Busy(t, k) /\ ~Inserting(t, k) /\ ~Inserting(t, k)'
               /\ Busy(t, k)' <=> k = j
               /\ View(t, k)' = View(t, k)
    BY <2>1 DEF Busy, Inserting, View
  <2>3. TxInv(t)
    BY DEF IInv
  <2>4. StepInv(t)'
    BY <2>1, <2>2, <2>3, SameOwn DEF StepInv, TxInv
  <2>5. ClearInv(t)' /\ OwnInv(t)'
    BY <2>1, <2>2, <2>3, SameOwn DEF ClearInv, OwnInv, TxInv
  <2>6. FreshInv(t)'
    BY <2>1, <2>2, <2>3, SameOwn DEF FreshInv, TxInv
  <2> QED
    BY <2>4, <2>5, <2>6 DEF TxInv
<1> QED
  BY <1>1, <1>2, <1>3, QuietStep

LEMMA MatchKeeps ==
  ASSUME IInv, NEW t \in Tx, NEW j \in Job, NEW x \in Text, Match(t, j, x)
  PROVE  DataInv' /\ LockInv' /\ \A u \in Tx : TxInv(u)'
<1>1. Quiet(t)
  BY DEF Match, Quiet, Same, IInv, TypeOK
<1>2. LockInv'
  BY DEF Match, IInv, LockInv
<1>3. TxInv(t)'
  <2>1. /\ at[t] = "ready" /\ at'[t] = "upsert" /\ job'[t] = j
        /\ loaded'[t] = loaded[t] \cup {j}
        /\ seen'[t] = [seen[t] EXCEPT ![j] = View(t, j)]
        /\ UNCHANGED <<row, decision, todo, locks, stale>>
    BY DEF Match, IInv, TypeOK
  <2>2. \A k : /\ ~Busy(t, k) /\ ~Inserting(t, k) /\ ~Inserting(t, k)' /\ ~Busy(t, k)'
               /\ View(t, k)' = View(t, k)
    BY <2>1 DEF Busy, Inserting, View
  <2>3. TxInv(t) /\ TypeOK
    BY DEF IInv
  <2>4. StepInv(t)'
    BY <2>1, <2>2, <2>3, SameOwn DEF StepInv, TxInv
  <2>5. ClearInv(t)' /\ OwnInv(t)'
    BY <2>1, <2>2, <2>3, SameOwn DEF ClearInv, OwnInv, TxInv
  <2>6. ASSUME NEW k \in loaded'[t] \ stale'[t]
        PROVE  /\ seen'[t][k].text = View(t, k).text /\ seen'[t][k].bucket = View(t, k).bucket
               /\ Decides(t, k) => Committed(k) \subseteq cleared[t]
               /\ \A n \in Own(t) : decision[n].job = k /\ IsLast(t, n) =>
                    View(t, k).text = decision[n].text /\ View(t, k).bucket = decision[n].bucket
    <3>1. CASE k \in loaded[t]
      BY <3>1, <2>1, <2>2, <2>3 DEF FreshInv, TxInv, TypeOK
    <3>2. CASE k \notin loaded[t]
      <4>1. k = j /\ seen'[t][k] = View(t, k)
        BY <3>2, <2>1, <2>3 DEF TypeOK
      <4>2. \A n \in Own(t) : decision[n].job # k
        BY <4>1, <3>2, <2>3 DEF OwnInv, TxInv
      <4> QED
        BY <4>1, <4>2 DEF Decides, IsLast
    <3> QED
      BY <3>1, <3>2
  <2>7. FreshInv(t)'
    BY <2>1, <2>2, <2>6, SameOwn DEF FreshInv
  <2> QED
    BY <2>4, <2>5, <2>7 DEF TxInv
<1> QED
  BY <1>1, <1>2, <1>3, QuietStep

LEMMA FindDecisionsKeeps ==
  ASSUME IInv, NEW t \in Tx, FindDecisions(t)
  PROVE  DataInv' /\ LockInv' /\ \A u \in Tx : TxInv(u)'
<1>1. Quiet(t)
  BY DEF FindDecisions, Quiet, Same, IInv, TypeOK
<1>2. LockInv'
  BY DEF FindDecisions, IInv, LockInv
<1>3. TxInv(t)'
  <2>1. /\ at[t] = "find" /\ at'[t] = "clear" /\ found'[t] = Visible(t, job[t])
        /\ UNCHANGED <<row, decision, session, copy, locked, cleared, stale>>
    BY DEF FindDecisions, IInv, TypeOK
  <2>2. \A k : /\ ~Inserting(t, k) /\ ~Inserting(t, k)' /\ (Busy(t, k)' <=> Busy(t, k))
               /\ View(t, k)' = View(t, k)
    BY <2>1 DEF Busy, Inserting, View
  <2>3. TxInv(t) /\ TypeOK /\ job[t] \in Job /\ job[t] \in Committed(job[t])
    BY DEF IInv, TypeOK, DataInv, DecisionInv
  <2>4. StepInv(t)'
    BY <2>1, <2>2, <2>3, SameOwn DEF StepInv, TxInv, Visible
  <2>5. OwnInv(t)'
    BY <2>1, <2>2, <2>3, SameOwn DEF OwnInv, TxInv
  <2>6. ClearInv(t)'
    BY <2>1, <2>2, <2>3, SameOwn, OwnType DEF ClearInv, TxInv, Visible
  <2>7. FreshInv(t)'
    BY <2>1, <2>2, <2>3, SameOwn DEF FreshInv, TxInv, Visible
  <2> QED
    BY <2>4, <2>5, <2>6, <2>7 DEF TxInv
<1> QED
  BY <1>1, <1>2, <1>3, QuietStep

LEMMA ClearCurrentKeeps ==
  ASSUME IInv, NEW t \in Tx, ClearCurrent(t)
  PROVE  DataInv' /\ LockInv' /\ \A u \in Tx : TxInv(u)'
<1>1. Quiet(t)
  BY DEF ClearCurrent, Quiet, Same, IInv, TypeOK
<1>2. LockInv'
  <2>1. \A u \in Tx : cleared'[u] = IF u = t THEN cleared[t] \cup found[t] ELSE cleared[u]
    BY DEF ClearCurrent, IInv, TypeOK
  <2> QED
    BY <2>1 DEF ClearCurrent, IInv, LockInv
<1>3. TxInv(t)'
  <2>1. /\ at[t] = "clear" /\ at'[t] = "insert" /\ cleared'[t] = cleared[t] \cup found[t]
        /\ UNCHANGED <<row, decision, session, copy, locked, found, stale>>
    BY DEF ClearCurrent, IInv, TypeOK
  <2>2. \A k : /\ ~Inserting(t, k) /\ (Inserting(t, k)' <=> job[t] = k) /\ (Busy(t, k)' <=> Busy(t, k))
               /\ View(t, k)' = View(t, k)
    BY <2>1 DEF Busy, Inserting, View
  <2>3. TxInv(t) /\ TypeOK
    BY DEF IInv
  <2>4. StepInv(t)'
    BY <2>1, <2>2, <2>3, SameOwn DEF StepInv, TxInv
  <2>5. ClearInv(t)'
    BY <2>1, <2>2, <2>3, SameOwn DEF ClearInv, TxInv
  <2>6. /\ \A n \in Own(t) : decision[n].job = job[t] => n \in found[t]
        /\ \A n \in found[t] : decision[n].job = job[t]
    BY <2>1, <2>3 DEF ClearInv, TxInv
  <2>7. OwnInv(t)'
    BY <2>1, <2>2, <2>3, <2>6, SameOwn DEF OwnInv, TxInv
  <2>8. FreshInv(t)'
    BY <2>1, <2>2, <2>3, SameOwn DEF FreshInv, TxInv
  <2> QED
    BY <2>4, <2>5, <2>7, <2>8 DEF TxInv
<1> QED
  BY <1>1, <1>2, <1>3, QuietStep

\* A row that another transaction has updated is waited for.
LEMMA UpdateLocks ==
  ASSUME IInv, NEW t \in Tx, NEW j \in Job, NEW r, Update(t, j, r), UNCHANGED cleared
  PROVE  /\ LockInv'
         /\ locked'[t] = locked[t] \cup {j} /\ copy'[t] = [copy[t] EXCEPT ![j] = r]
         /\ \A k \in Job : View(t, k)' = IF k = j THEN r ELSE (IF k \in locked[t] THEN copy[t][k] ELSE row'[k])
         /\ \A u \in Tx \ {t} : locked'[u] = locked[u] /\ copy'[u] = copy[u]
<1>1. \A u \in Tx : locked'[u] = IF u = t THEN locked[t] \cup {j} ELSE locked[u]
  BY DEF Update, IInv, TypeOK
<1>2. \A u \in Tx : copy'[u] = IF u = t THEN [copy[t] EXCEPT ![j] = r] ELSE copy[u]
  BY DEF Update, IInv, TypeOK
<1>3. LockInv'
  BY <1>1 DEF Update, LockedElsewhere, IInv, LockInv
<1> QED
  BY <1>1, <1>2, <1>3 DEF View, IInv, TypeOK

LEMMA UpsertKeeps ==
  ASSUME IInv, NEW t \in Tx, Upsert(t)
  PROVE  DataInv' /\ LockInv' /\ \A u \in Tx : TxInv(u)'
<1> DEFINE j == job[t]
           r == IF text[t] = seen[t][j].text THEN View(t, j) ELSE [View(t, j) EXCEPT !.text = text[t]]
<1>0. j \in Job /\ seen[t][j] \in Row /\ View(t, j) \in Row /\ text[t] \in Text /\ TypeOK
  BY ViewType DEF IInv, TypeOK
<1>1. Update(t, j, r) /\ UNCHANGED cleared
  BY DEF Upsert
<1>5. /\ r.latest = View(t, j).latest /\ r.bucket = View(t, j).bucket
      /\ View(t, j).text = seen[t][j].text => r.text = text[t]
  BY <1>0 DEF Row
<1> HIDE DEF r
<1>6. /\ LockInv'
      /\ locked'[t] = locked[t] \cup {j} /\ copy'[t] = [copy[t] EXCEPT ![j] = r]
      /\ \A k \in Job : View(t, k)' = IF k = j THEN r ELSE (IF k \in locked[t] THEN copy[t][k] ELSE row'[k])
      /\ \A u \in Tx \ {t} : locked'[u] = locked[u] /\ copy'[u] = copy[u]
  <2> HIDE DEF j
  <2> QED
    BY <1>0, <1>1, UpdateLocks
<1>2. Quiet(t)
  BY <1>0, <1>6 DEF Upsert, Quiet, Same, TypeOK
<1>3. LockInv'
  BY <1>6
<1>4. TxInv(t)'
  <2>1. /\ at[t] = "upsert" /\ at'[t] = "find" /\ locked'[t] = locked[t] \cup {j}
        /\ copy'[t] = [copy[t] EXCEPT ![j] = r]
        /\ UNCHANGED <<row, decision, todo, job, text, loaded, found, cleared, stale>>
    BY <1>0, <1>6 DEF Upsert, TypeOK
  <2>2. \A k : ~Inserting(t, k) /\ ~Inserting(t, k)' /\ ~Busy(t, k) /\ (Busy(t, k)' <=> k = j)
    BY <2>1 DEF Busy, Inserting
  <2>3. TxInv(t)
    BY DEF IInv
  <2>4. StepInv(t)'
    BY <2>1, <2>2, <2>3, SameOwn DEF StepInv, TxInv
  <2>5. ClearInv(t)'
    BY <2>1, <2>2, <2>3, SameOwn DEF ClearInv, TxInv
  <2>7. \A n \in Own(t), k \in Job : decision[n].job = k =>
          k \in locked[t] /\ (IsLast(t, n) => copy'[t][k].latest = n)
    BY <1>0, <1>5, <2>1, <2>3 DEF OwnInv, TxInv, View, TypeOK
  <2>8. OwnInv(t)'
    BY <2>1, <2>2, <2>3, <2>7, SameOwn DEF OwnInv, TxInv
  <2>9. FreshInv(t)'
    <3>1. \A k \in Job : seen'[t][k] = IF k = j THEN [seen[t][j] EXCEPT !.text = text[t]] ELSE seen[t][k]
      BY <1>0 DEF Upsert, TypeOK
    <3>2. \A k \in Job \ {j} : View(t, k)' = View(t, k) /\ seen'[t][k] = seen[t][k]
      BY <1>0, <1>6, <2>1, <3>1 DEF View
    <3>3. \A k \in Job : k = j => View(t, k)' = r
      BY <1>0, <1>6
    <3>4. seen'[t][j].text = text[t] /\ seen'[t][j].bucket = seen[t][j].bucket
      BY <1>0, <3>1 DEF Row
    <3>5. j \notin stale[t] => r.text = text[t] /\ r.bucket = seen[t][j].bucket
      <4>1. j \in loaded[t]
        BY <2>1, <2>3 DEF StepInv, TxInv
      <4> QED
        BY <4>1, <2>3, <1>5, <1>0 DEF FreshInv, TxInv
    <3>6. loaded[t] \subseteq Job
      BY <1>0 DEF TypeOK
    <3> QED
      BY <3>2, <3>3, <3>4, <3>5, <3>6, <2>1, <2>2, <2>3, SameOwn DEF FreshInv, TxInv
  <2> QED
    BY <2>4, <2>5, <2>8, <2>9 DEF TxInv
<1> QED
  BY <1>2, <1>3, <1>4, QuietStep

LEMMA ProjectKeeps ==
  ASSUME IInv, NEW t \in Tx, NEW n \in Number, Project(t, n)
  PROVE  DataInv' /\ LockInv' /\ \A u \in Tx : TxInv(u)'
<1> DEFINE j == job[t]
           r == Projected(View(t, j), seen[t][j], n)
<1>0. j \in Job /\ seen[t][j] \in Row /\ View(t, j) \in Row /\ TypeOK /\ n \in Own(t)
  BY ViewType DEF IInv, TypeOK, Project
<1>1. Update(t, j, r) /\ UNCHANGED cleared
  BY DEF Project
<1>2. /\ r.latest = n /\ r.text = View(t, j).text
      /\ View(t, j).bucket = seen[t][j].bucket => r.bucket = decision[n].bucket
  BY <1>0 DEF Row, Projected
<1> HIDE DEF r
<1>3. /\ LockInv'
      /\ locked'[t] = locked[t] \cup {j} /\ copy'[t] = [copy[t] EXCEPT ![j] = r]
      /\ \A k \in Job : View(t, k)' = IF k = j THEN r ELSE (IF k \in locked[t] THEN copy[t][k] ELSE row'[k])
      /\ \A u \in Tx \ {t} : locked'[u] = locked[u] /\ copy'[u] = copy[u]
  <2> HIDE DEF j
  <2> QED
    BY <1>0, <1>1, UpdateLocks
<1>4. Quiet(t)
  BY <1>0, <1>3 DEF Project, Quiet, Same, TypeOK
<1>5. TxInv(t)'
  <2>1. /\ at[t] = "project" /\ at'[t] = "ready" /\ locked'[t] = locked[t] \cup {j}
        /\ copy'[t] = [copy[t] EXCEPT ![j] = r]
        /\ \A m \in Own(t) : m <= n
        /\ UNCHANGED <<row, decision, todo, job, text, loaded, found, cleared, stale>>
    BY <1>0, <1>3 DEF Project, TypeOK
  <2>2. \A k : /\ ~Inserting(t, k) /\ ~Inserting(t, k)' /\ (Busy(t, k) <=> k = j) /\ ~Busy(t, k)'
    BY <2>1 DEF Busy, Inserting
  <2>3. TxInv(t)
    BY DEF IInv
  <2>4. decision[n].job = j /\ decision[n].text = text[t]
    <3>1. PICK m \in Own(t) : /\ \A o \in Own(t) : o <= m
                              /\ decision[m].job = job[t] /\ decision[m].text = text[t]
      BY <2>1, <2>3 DEF StepInv, TxInv
    <3>2. m <= n /\ n <= m /\ m \in Nat /\ n \in Nat
      BY <1>0, <2>1, <3>1, OwnType, NumberType
    <3> QED
      BY <3>1, <3>2
  <2>5. IsLast(t, n) /\ Decides(t, j) /\ \A m \in Own(t) : IsLast(t, m) /\ decision[m].job = j => m = n
    BY <1>0, <2>1, <2>4, OwnType, NumberType DEF IsLast, Decides
  <2>6. j \in cleared[t] /\ j \in loaded[t]
    BY <2>1, <2>3 DEF StepInv, TxInv
  <2>7. StepInv(t)'
    BY <2>1, <2>2, <2>3, <2>5, <2>6, SameOwn DEF StepInv, TxInv
  <2>8. ClearInv(t)'
    BY <2>1, <2>2, <2>3, SameOwn DEF ClearInv, TxInv
  <2>9. \A m \in Own(t), k \in Job : decision[m].job = k =>
          k \in locked'[t] /\ (IsLast(t, m) => copy'[t][k].latest = m)
    <3> SUFFICES ASSUME NEW m \in Own(t), NEW k \in Job, decision[m].job = k
                 PROVE  k \in locked'[t] /\ (IsLast(t, m) => copy'[t][k].latest = m)
      OBVIOUS
    <3>1. CASE k = j
      BY <3>1, <1>0, <1>2, <2>1, <2>5 DEF TypeOK
    <3>2. CASE k # j
      BY <3>2, <1>0, <2>1, <2>3 DEF OwnInv, TxInv, TypeOK
    <3> QED
      BY <3>1, <3>2
  <2>10. OwnInv(t)'
    BY <2>1, <2>2, <2>3, <2>9, SameOwn DEF OwnInv, TxInv
  <2>11. FreshInv(t)'
    <3>1. \A k \in Job : seen'[t][k] = IF k = j THEN [seen[t][j] EXCEPT !.bucket = decision[n].bucket] ELSE seen[t][k]
      BY <1>0 DEF Project, TypeOK
    <3>2. \A k \in Job \ {j} : View(t, k)' = View(t, k) /\ seen'[t][k] = seen[t][k]
      BY <1>0, <1>3, <2>1, <3>1 DEF View
    <3>3. \A k \in Job : k = j => View(t, k)' = r
      BY <1>0, <1>3
    <3>4. seen'[t][j].text = seen[t][j].text /\ seen'[t][j].bucket = decision[n].bucket
      BY <1>0, <3>1 DEF Row
    <3>5. j \notin stale[t] => r.text = seen[t][j].text /\ r.bucket = decision[n].bucket /\ r.text = decision[n].text
      BY <1>2, <2>2, <2>3, <2>4, <2>6 DEF FreshInv, TxInv
    <3>6. loaded[t] \subseteq Job
      BY <1>0 DEF TypeOK
    <3> QED
      BY <3>2, <3>3, <3>4, <3>5, <3>6, <2>1, <2>2, <2>3, <2>5, SameOwn DEF FreshInv, TxInv
  <2> QED
    BY <2>7, <2>8, <2>10, <2>11 DEF TxInv
<1> QED
  BY <1>3, <1>4, <1>5, QuietStep

\* Steps that leave the rows and the committed decisions.
LEMMA DataFrame ==
  ASSUME IInv, UNCHANGED <<row, torn>>,
         \A j \in Job : Committed(j)' = Committed(j),
         \A j \in Job : \A n \in Committed(j) : decision'[n] = decision[n],
         \A n \in Decisions' : decision'[n].bucket = BucketOf(decision'[n].text, decision'[n].prefs)
  PROVE  DataInv'
<1>1. LatestIsNewest'
  BY DEF IInv, DataInv, LatestIsNewest
<1>2. OneCurrent'
  BY DEF IInv, DataInv, OneCurrent
<1>3. ProjectionExact'
  BY DEF IInv, DataInv, ProjectionExact, LatestIsNewest
<1>4. DecisionInv'
  BY DEF IInv, DataInv, DecisionInv
<1> QED
  BY <1>1, <1>2, <1>3, <1>4 DEF DataInv

LEMMA InsertDecisionKeeps ==
  ASSUME IInv, NEW t \in Tx, NEW n \in Number, InsertDecision(t, n)
  PROVE  DataInv' /\ LockInv' /\ \A u \in Tx : TxInv(u)'
<1> DEFINE j == job[t]
<1>1. /\ at[t] = "insert" /\ at'[t] = "project" /\ TypeOK /\ TxInv(t) /\ j \in Job
      /\ UNCHANGED <<row, session, locks, history>>
      /\ t # "db"
  BY TransactionAssumption DEF InsertDecision, IInv, TypeOK, Tx
<1>2. /\ decision'[n].by = t /\ decision'[n].job = j /\ decision'[n].text = text[t]
      /\ decision'[n].bucket = BucketOf(decision'[n].text, decision'[n].prefs)
      /\ decision'[n] # Unused
  <2>1. decision'[n] = Decided(t, job[t], text[t], prefs[t])
    BY <1>1 DEF InsertDecision, TypeOK
  <2>2. text[t] \in Text /\ prefs[t] \in Preferences
    BY <1>1 DEF TypeOK
  <2> QED
    BY <1>1, <2>1, <2>2, DecidedType
<1>3. \A m \in Number \ {n} : decision'[m] = decision[m]
  BY <1>1 DEF InsertDecision, TypeOK
<1>4. Decisions' = Decisions \cup {n}
  BY <1>2, <1>3 DEF Decisions
<1>5. n \notin Decisions /\ \A m \in Decisions : m < n /\ ~(n <= m)
  <2>1. \A m \in Number : m >= n => m \notin Decisions
    BY DEF InsertDecision, Fresh
  <2>2. n \in Nat /\ \A m \in Decisions : m \in Number /\ m \in Nat
    BY <1>1, OwnType, NumberType
  <2> QED
    BY <2>1, <2>2
<1>6. Own(t)' = Own(t) \cup {n}
  BY <1>2, <1>3, <1>4, <1>5 DEF Own, Decisions
<1>7. \A u \in Tx \ {t} : Own(u)' = Own(u)
  BY <1>2, <1>3, <1>4, <1>5 DEF Own, Decisions
<1>8. \A k \in Job : Committed(k)' = Committed(k)
  BY <1>1, <1>2, <1>3, <1>4, <1>5 DEF Committed, Decisions
<1>9. \A m \in Decisions : decision'[m] = decision[m]
  BY <1>3, <1>5 DEF Decisions
<1>10. DataInv'
  <2>1. \A k \in Job : \A m \in Committed(k) : decision'[m] = decision[m]
    BY <1>9, OwnType, <1>1
  <2>2. \A m \in Decisions' : decision'[m].bucket = BucketOf(decision'[m].text, decision'[m].prefs)
    BY <1>2, <1>4, <1>9 DEF IInv, DataInv, DecisionInv
  <2> QED
    BY <2>1, <2>2, <1>1, <1>8, DataFrame
<1>11. LockInv'
  BY <1>1 DEF IInv, LockInv
<1>12. ASSUME NEW u \in Tx \ {t} PROVE TxInv(u)'
  <2>1. Same(u) /\ UNCHANGED stale
    BY <1>1 DEF InsertDecision, Same, TypeOK
  <2>2. \A m \in Own(u) : decision'[m] = decision[m]
    BY <1>1, <1>9, OwnType
  <2>3. TxInv(u)
    BY DEF IInv
  <2> QED
    <3>1. \A m \in Decisions : /\ m \in Decisions'
                               /\ decision'[m].by = decision[m].by /\ decision'[m].job = decision[m].job
      BY <1>4, <1>9
    <3>2. \A k \in loaded[u] \ stale'[u] : row'[k] = row[k] /\ Committed(k)' = Committed(k)
      BY <1>1, <1>8 DEF TypeOK
    <3>3. Own(u)' = Own(u)
      BY <1>7
    <3> QED
      BY <1>1, <2>1, <2>2, <2>3, <3>1, <3>2, <3>3, <1>8, Frame
<1>13. TxInv(t)'
  <2>1. /\ \A m \in Own(t) : m \in Decisions /\ m < n /\ ~(n <= m) /\ decision'[m] = decision[m] /\ decision[m].job \in Job
    BY <1>1, <1>5, <1>9, OwnType
  <2>2. IsLast(t, n)'
    <3>0. n \in Nat /\ \A m \in Decisions : m \in Nat
      BY <1>1, OwnType, NumberType
    <3>1. n \in Nat /\ \A m \in Own(t) : m \in Nat /\ m <= n
      BY <2>1, <3>0
    <3> QED
      BY <1>6, <3>1 DEF IsLast
  <2>3. \A m \in Own(t) : IsLast(t, m)' <=> IsLast(t, m) /\ decision[m].job # j
    BY <1>2, <1>6, <2>1 DEF IsLast
  <2>4. \A k \in Job : Decides(t, k)' <=> k = j \/ Decides(t, k)
    BY <1>2, <1>6, <2>1, <2>2, <2>3, OwnType, <1>1 DEF Decides, IsLast
  <2>5. \A k : (Inserting(t, k) <=> k = j) /\ ~Inserting(t, k)' /\ (Busy(t, k)' <=> Busy(t, k))
    BY <1>1 DEF Inserting, Busy
  <2>6. StepInv(t)'
    <3>1. \A m \in Own(t)' : m <= n
      BY <1>1, <1>6, <2>1, OwnType, NumberType
    <3>2. \E m \in Own(t)' : /\ \A o \in Own(t)' : o <= m
                             /\ decision'[m].job = job'[t] /\ decision'[m].text = text'[t]
      BY <1>1, <1>2, <1>6, <3>1
    <3>3. locked[t] \subseteq Job
      BY <1>1 DEF TypeOK
    <3> QED
      BY <1>1, <2>4, <2>5, <3>2, <3>3 DEF StepInv, TxInv
  <2>7. ClearInv(t)'
    BY <1>1, <1>4, <1>9, <2>4, <2>5 DEF ClearInv, TxInv
  <2>8. n \notin cleared[t] /\ j \in cleared[t] /\ j \in loaded[t]
    BY <1>1, <1>5 DEF ClearInv, StepInv, TxInv
  <2>9. ASSUME NEW m \in Own(t)', NEW k \in Job, decision'[m].job = k
        PROVE  /\ k \in cleared[t] /\ k \in loaded[t]
               /\ \A o \in Committed(k) : o < m
               /\ m \notin cleared[t] => IsLast(t, m)'
               /\ IsLast(t, m)' => m \notin cleared[t]
               /\ \/ job[t] = k
                  \/ k \in locked[t] /\ (IsLast(t, m)' => copy[t][k].latest = m)
    <3>1. CASE m = n
      BY <3>1, <2>9, <2>2, <2>8, <1>2, <1>5, OwnType, <1>1
    <3>2. CASE m \in Own(t) /\ k = j
      <4>1. k = decision[m].job /\ Inserting(t, k) /\ ~IsLast(t, m)'
        BY <3>2, <2>1, <2>3, <2>5, <2>9
      <4>2. m \in cleared[t]
        BY <3>2, <4>1, <1>1 DEF OwnInv, TxInv
      <4> QED
        BY <3>2, <4>1, <4>2, <1>1 DEF OwnInv, TxInv
    <3>3. CASE m \in Own(t) /\ k # j
      <4>1. k = decision[m].job /\ ~Inserting(t, k) /\ (IsLast(t, m)' <=> IsLast(t, m))
        BY <3>3, <2>1, <2>3, <2>5, <2>9
      <4> QED
        BY <3>3, <4>1, <1>1 DEF OwnInv, TxInv
    <3> QED
      BY <3>1, <3>2, <3>3, <1>6, <2>9
  <2>10. OwnInv(t)'
    BY <2>9, <2>5, <1>1, <1>8 DEF OwnInv
  <2>11. FreshInv(t)'
    <3>1. ASSUME NEW k \in loaded[t] \ stale[t]
          PROVE  /\ k \in Job /\ View(t, k)' = View(t, k)
                 /\ seen[t][k].text = View(t, k).text /\ seen[t][k].bucket = View(t, k).bucket
                 /\ Decides(t, k)' => Committed(k) \subseteq cleared[t]
                 /\ Busy(t, k) => View(t, k).text = text[t]
      BY <1>1, <2>4, <2>5 DEF FreshInv, TxInv, TypeOK, View
    <3>2. ASSUME NEW k \in loaded[t] \ stale[t], NEW m \in Own(t)',
                 decision'[m].job = k, IsLast(t, m)', ~Busy(t, k)
          PROVE  View(t, k).text = decision'[m].text /\ View(t, k).bucket = decision'[m].bucket
      <4>1. k # j
        BY <3>2, <1>1 DEF Busy
      <4>2. m \in Own(t) /\ IsLast(t, m) /\ decision'[m] = decision[m]
        BY <3>2, <4>1, <1>2, <1>6, <2>1, <2>3
      <4> QED
        BY <3>2, <4>2, <1>1 DEF FreshInv, TxInv
    <3> QED
      BY <3>1, <3>2, <2>5, <1>1, <1>8 DEF FreshInv
  <2> QED
    BY <2>6, <2>7, <2>10, <2>11 DEF TxInv
<1> QED
  BY <1>10, <1>11, <1>12, <1>13

LEMMA EndKeeps ==
  ASSUME IInv, NEW t \in Tx, End(t), Own(t)' = {}
  PROVE  TxInv(t)' /\ LockInv' /\ \A u \in Tx \ {t} : Same(u)
<1>1. \A u \in Tx \ {t} : Same(u)
  BY DEF End, Same, IInv, TypeOK
<1>2. /\ at'[t] = "idle" /\ todo'[t] = {} /\ loaded'[t] = {} /\ locked'[t] = {} /\ cleared'[t] = {}
  BY DEF End, IInv, TypeOK
<1>3. LockInv'
  BY <1>1, <1>2 DEF Same, IInv, LockInv
<1>4. TxInv(t)'
  BY <1>2 DEF TxInv, StepInv, ClearInv, OwnInv, FreshInv
<1> QED
  BY <1>1, <1>3, <1>4

LEMMA AbortKeeps ==
  ASSUME IInv, NEW t \in Tx, Abort(t)
  PROVE  DataInv' /\ LockInv' /\ \A u \in Tx : TxInv(u)'
<1>1. TypeOK /\ t # "db" /\ UNCHANGED <<row, torn>> /\ End(t)
  BY TransactionAssumption DEF Abort, IInv, Tx
<1>2. \A n \in Number : decision'[n] = IF n \in Own(t) THEN Unused ELSE decision[n]
  BY DEF Abort
<1>3. Decisions' = Decisions \ Own(t)
  BY <1>2 DEF Decisions
<1>4. Own(t)' = {}
  BY <1>2, <1>3 DEF Own, Decisions
<1>5. \A n \in Decisions' : n \in Decisions /\ decision'[n] = decision[n] /\ decision[n].by # t
  BY <1>2, <1>3 DEF Decisions, Own
<1>6. \A n \in Decisions : decision[n].by # t => n \in Decisions' /\ decision'[n] = decision[n]
  BY <1>3, <1>5 DEF Own
<1>7. \A u \in Tx \ {t} : Own(u)' = Own(u)
  BY <1>5, <1>6 DEF Own
<1>8. \A k \in Job : Committed(k)' = Committed(k)
  BY <1>1, <1>5, <1>6 DEF Committed
<1>9. DataInv'
  <2>1. \A k \in Job : \A n \in Committed(k) : decision'[n] = decision[n]
    BY <1>1, <1>6 DEF Committed
  <2>2. \A n \in Decisions' : decision'[n].bucket = BucketOf(decision'[n].text, decision'[n].prefs)
    BY <1>5 DEF IInv, DataInv, DecisionInv
  <2> QED
    BY <2>1, <2>2, <1>1, <1>8, DataFrame
<1>10. TxInv(t)' /\ LockInv' /\ \A u \in Tx \ {t} : Same(u)
  BY <1>1, <1>4, EndKeeps
<1>11. ASSUME NEW u \in Tx \ {t} PROVE TxInv(u)'
  <2>1. Same(u) /\ TxInv(u) /\ stale'[u] = stale[u] /\ u # "db"
    BY <1>10, TransactionAssumption DEF Abort, IInv, TypeOK, Tx
  <2>2. \A n \in Own(u) : decision'[n] = decision[n]
    BY <1>6 DEF Own
  <2>3. \A n \in Decisions : decision[n].by \in {"db", u} =>
          /\ n \in Decisions'
          /\ decision'[n].by = decision[n].by /\ decision'[n].job = decision[n].job
    BY <1>1, <1>6
  <2>4. \A k \in loaded[u] \ stale'[u] : row'[k] = row[k] /\ Committed(k)' = Committed(k)
    BY <1>1, <1>8 DEF TypeOK
  <2>5. Own(u)' = Own(u)
    BY <1>7
  <2> QED
    BY <1>1, <2>1, <2>2, <2>3, <2>4, <2>5, <1>8, Frame
<1> QED
  BY <1>9, <1>10, <1>11

\* What a commit makes of the decisions.
LEMMA CommitDecisions ==
  ASSUME IInv, NEW t \in Tx, Commit(t)
  PROVE  /\ Decisions' = Decisions /\ Own(t)' = {}
         /\ \A n \in Decisions :
              /\ decision'[n].job = decision[n].job /\ decision'[n].text = decision[n].text
              /\ decision'[n].prefs = decision[n].prefs /\ decision'[n].bucket = decision[n].bucket
              /\ decision'[n].by = IF n \in Own(t) THEN "db" ELSE decision[n].by
              /\ n \in cleared[t] => decision'[n].current = FALSE
              /\ n \in Own(t) \ cleared[t] => decision'[n].current = TRUE
              /\ n \notin Own(t) \cup cleared[t] => decision'[n] = decision[n]
<1>1. TypeOK /\ TxInv(t) /\ t # "db"
  BY TransactionAssumption DEF IInv, Tx
<1>2. cleared[t] \subseteq Decisions /\ Own(t) \subseteq Decisions
  BY <1>1 DEF TxInv, ClearInv, Own
<1>3. \A n \in Number : decision'[n] =
        IF n \in Own(t) THEN [decision[n] EXCEPT !.by = "db", !.current = n \notin cleared[t]]
        ELSE IF n \in cleared[t] THEN [decision[n] EXCEPT !.current = FALSE] ELSE decision[n]
  BY DEF Commit
<1>4. ASSUME NEW n \in Decisions
      PROVE  /\ decision'[n] # Unused
             /\ decision'[n].job = decision[n].job /\ decision'[n].text = decision[n].text
             /\ decision'[n].prefs = decision[n].prefs /\ decision'[n].bucket = decision[n].bucket
             /\ decision'[n].by = IF n \in Own(t) THEN "db" ELSE decision[n].by
             /\ n \in cleared[t] => decision'[n].current = FALSE
             /\ n \in Own(t) \ cleared[t] => decision'[n].current = TRUE
             /\ n \notin Own(t) \cup cleared[t] => decision'[n] = decision[n]
  <2>1. n \in Number /\ decision[n] \in Record
    BY <1>1, DecisionType
  <2> DEFINE d == decision[n]
             e == [d EXCEPT !.by = "db", !.current = n \notin cleared[t]]
             f == [d EXCEPT !.current = FALSE]
  <2>2. /\ e.job = d.job /\ e.text = d.text /\ e.prefs = d.prefs /\ e.bucket = d.bucket
        /\ e.by = "db" /\ e.current = (n \notin cleared[t]) /\ e \in Record
    BY <2>1 DEF Record
  <2>3. /\ f.job = d.job /\ f.text = d.text /\ f.prefs = d.prefs /\ f.bucket = d.bucket
        /\ f.by = d.by /\ f.current = FALSE /\ f \in Record
    BY <2>1 DEF Record
  <2>4. decision'[n] = IF n \in Own(t) THEN e ELSE IF n \in cleared[t] THEN f ELSE d
    BY <1>3, <2>1
  <2> HIDE DEF e, f
  <2>5. decision'[n] \in Record
    BY <2>1, <2>2, <2>3, <2>4
  <2>6. decision'[n] # Unused
    BY <2>5, RecordUsed
  <2>7. CASE n \in Own(t)
    BY <2>7, <2>2, <2>4, <2>6
  <2>8. CASE n \notin Own(t) /\ n \in cleared[t]
    BY <2>8, <2>3, <2>4, <2>6
  <2>9. CASE n \notin Own(t) /\ n \notin cleared[t]
    BY <2>9, <2>4, <2>6
  <2> QED
    BY <2>7, <2>8, <2>9
<1>5. Decisions' = Decisions
  <2>1. \A n \in Number : n \notin Decisions => decision'[n] = Unused
    BY <1>2, <1>3 DEF Decisions
  <2> QED
    BY <1>4, <2>1 DEF Decisions
<1>6. Own(t)' = {}
  BY <1>1, <1>4, <1>5 DEF Own
<1> QED
  BY <1>4, <1>5, <1>6

\* What a commit makes of jobs: those it has decided on are those whose rows it
\* has locked, and only they change.
LEMMA CommitJobs ==
  ASSUME IInv, NEW t \in Tx, Commit(t)
  PROVE  /\ \A j \in Job : \A n : n \in Committed(j)' <=>
              n \in Committed(j) \/ (n \in Own(t) /\ decision[n].job = j)
         /\ \A j \in Job \ locked[t] :
              /\ \A n \in Own(t) : decision[n].job # j
              /\ \A n \in cleared[t] : decision[n].job # j
              /\ row'[j] = row[j] /\ Committed(j)' = Committed(j)
              /\ \A n \in Committed(j) : decision'[n] = decision[n]
         /\ \A j \in locked[t] : \E l \in Own(t) :
              /\ IsLast(t, l) /\ decision[l].job = j /\ l \notin cleared[t]
              /\ row'[j].latest = l
              /\ \A n \in Committed(j)' : n <= l
              /\ j \in loaded[t]
              /\ \A n \in Own(t) : decision[n].job = j /\ n # l => n \in cleared[t]
<1>1. /\ TypeOK /\ TxInv(t) /\ t # "db" /\ at[t] = "ready" /\ End(t)
      /\ \A j \in Job : row'[j] = View(t, j)
  BY TransactionAssumption DEF IInv, Tx, Commit
<1>2. \A j : ~Busy(t, j) /\ ~Inserting(t, j)
  BY <1>1 DEF Busy, Inserting
<1>3. Decisions' = Decisions /\ Own(t)' = {}
  BY CommitDecisions
<1>4. /\ \A n \in Decisions : decision'[n].job = decision[n].job
      /\ \A n \in Decisions : decision'[n].text = decision[n].text
      /\ \A n \in Decisions : decision'[n].prefs = decision[n].prefs
      /\ \A n \in Decisions : decision'[n].bucket = decision[n].bucket
      /\ \A n \in Decisions : decision'[n].by = IF n \in Own(t) THEN "db" ELSE decision[n].by
  BY CommitDecisions
<1>5. /\ \A n \in Decisions : n \in cleared[t] => decision'[n].current = FALSE
      /\ \A n \in Own(t) : n \notin cleared[t] => decision'[n].current = TRUE
      /\ \A n \in Decisions : n \notin Own(t) /\ n \notin cleared[t] => decision'[n] = decision[n]
  BY CommitDecisions, <1>1, OwnType
<1>6. \A j \in Job : \A n : n \in Committed(j)' <=>
        n \in Committed(j) \/ (n \in Own(t) /\ decision[n].job = j)
  BY <1>1, <1>3, <1>4 DEF Committed, Own
<1>7. ASSUME NEW j \in Job \ locked[t]
      PROVE  /\ \A n \in Own(t) : decision[n].job # j
             /\ \A n \in cleared[t] : decision[n].job # j
             /\ row'[j] = row[j] /\ Committed(j)' = Committed(j)
             /\ \A n \in Committed(j) : decision'[n] = decision[n]
  <2>1. \A n \in Own(t) : decision[n].job # j
    BY <1>1 DEF OwnInv, TxInv
  <2>2. ~Decides(t, j)
    BY <2>1 DEF Decides, IsLast
  <2>3. \A n \in cleared[t] : decision[n].job # j
    BY <1>1, <1>2, <2>2 DEF ClearInv, TxInv
  <2>4. row'[j] = row[j] /\ Committed(j)' = Committed(j)
    BY <1>1, <1>6, <2>1 DEF View
  <2>5. \A n \in Committed(j) : n \in Decisions /\ n \notin Own(t) /\ n \notin cleared[t]
    BY <1>1, <2>3, OwnType
  <2> QED
    BY <1>5, <2>1, <2>3, <2>4, <2>5
<1>8. ASSUME NEW j \in locked[t]
      PROVE  \E l \in Own(t) :
                /\ IsLast(t, l) /\ decision[l].job = j /\ l \notin cleared[t]
                /\ row'[j].latest = l
                /\ \A n \in Committed(j)' : n <= l
                /\ j \in loaded[t]
                /\ \A n \in Own(t) : decision[n].job = j /\ n # l => n \in cleared[t]
  <2>1. j \in Job /\ j \in loaded[t] /\ Decides(t, j)
    BY <1>1, <1>2 DEF TypeOK, StepInv, TxInv
  <2>2. PICK l \in Number : IsLast(t, l) /\ decision[l].job = j
    BY <2>1 DEF Decides
  <2>3. l \in Own(t) /\ l \notin cleared[t] /\ copy[t][j].latest = l /\ \A m \in Committed(j) : m < l
    BY <1>1, <1>2, <2>1, <2>2, OwnType DEF OwnInv, TxInv
  <2>4. row'[j].latest = l
    BY <1>1, <2>1, <2>3 DEF View
  <2>5. \A n \in Own(t) : decision[n].job = j => n <= l /\ n \in Nat
    BY <1>1, <2>2, OwnType, NumberType DEF IsLast
  <2>6. \A n \in Committed(j) : n \in Nat /\ n < l
    BY <1>1, <2>3, OwnType, NumberType
  <2>7. \A n \in Committed(j)' : n <= l
    BY <1>6, <2>1, <2>2, <2>5, <2>6, NumberType
  <2>8. ASSUME NEW n \in Own(t), decision[n].job = j, n # l PROVE n \in cleared[t]
    <3>1. l \in Nat /\ n \in Nat /\ n <= l
      BY <2>2, <2>5, <2>8, NumberType
    <3>2. ~IsLast(t, n)
      BY <2>2, <2>3, <2>8, <3>1 DEF IsLast
    <3> QED
      BY <1>1, <2>1, <2>8, <3>2 DEF OwnInv, TxInv
  <2> QED
    BY <2>1, <2>2, <2>3, <2>4, <2>7, <2>8
<1> QED
  BY <1>6, <1>7, <1>8

LEMMA CommitKeeps ==
  ASSUME IInv, NEW t \in Tx, Commit(t)
  PROVE  DataInv' /\ LockInv' /\ \A u \in Tx : TxInv(u)'
<1>1. /\ TypeOK /\ TxInv(t) /\ t # "db" /\ at[t] = "ready" /\ End(t)
      /\ \A j \in Job : row'[j] = View(t, j)
      /\ torn' = (torn \ locked[t]) \cup (locked[t] \cap stale[t])
      /\ \A u \in Tx : stale'[u] = IF u = t THEN {} ELSE stale[u] \cup (loaded[u] \cap locked[t])
  BY TransactionAssumption DEF IInv, Tx, Commit
<1>2. \A j : ~Busy(t, j) /\ ~Inserting(t, j)
  BY <1>1 DEF Busy, Inserting
<1>3. Decisions' = Decisions /\ Own(t)' = {}
  BY CommitDecisions
<1>4. /\ \A n \in Decisions : decision'[n].job = decision[n].job
      /\ \A n \in Decisions : decision'[n].text = decision[n].text
      /\ \A n \in Decisions : decision'[n].prefs = decision[n].prefs
      /\ \A n \in Decisions : decision'[n].bucket = decision[n].bucket
      /\ \A n \in Decisions : decision'[n].by = IF n \in Own(t) THEN "db" ELSE decision[n].by
  BY CommitDecisions
<1>5. /\ \A n \in Decisions : n \in cleared[t] => decision'[n].current = FALSE
      /\ \A n \in Own(t) : n \notin cleared[t] => decision'[n].current = TRUE
      /\ \A n \in Decisions : n \notin Own(t) /\ n \notin cleared[t] => decision'[n] = decision[n]
  BY CommitDecisions, <1>1, OwnType
<1>6. \A j \in Job : \A n : n \in Committed(j)' <=>
        n \in Committed(j) \/ (n \in Own(t) /\ decision[n].job = j)
  BY CommitJobs
<1>7. ASSUME NEW j \in Job \ locked[t]
      PROVE  /\ \A n \in Own(t) : decision[n].job # j
             /\ row'[j] = row[j] /\ Committed(j)' = Committed(j)
             /\ \A n \in Committed(j) : decision'[n] = decision[n]
  BY CommitJobs
<1>8. ASSUME NEW j \in locked[t]
      PROVE  \E l \in Own(t) :
                /\ IsLast(t, l) /\ decision[l].job = j /\ l \notin cleared[t]
                /\ row'[j].latest = l
                /\ \A n \in Committed(j)' : n <= l
                /\ j \in loaded[t]
                /\ \A n \in Own(t) : decision[n].job = j /\ n # l => n \in cleared[t]
  BY CommitJobs
<1>9. LatestIsNewest'
  <2> SUFFICES ASSUME NEW j \in Job
               PROVE  /\ row'[j].latest \in Committed(j)'
                      /\ decision'[row'[j].latest].current
                      /\ \A n \in Committed(j)' : n <= row'[j].latest
    BY DEF LatestIsNewest
  <2>1. CASE j \in locked[t]
    BY <2>1, <1>5, <1>6, <1>8
  <2>2. CASE j \notin locked[t]
    BY <2>2, <1>7 DEF IInv, DataInv, LatestIsNewest
  <2> QED
    BY <2>1, <2>2
<1>10. OneCurrent'
  <2> SUFFICES ASSUME NEW j \in Job \ torn', NEW n \in Committed(j)', decision'[n].current
               PROVE  n = row'[j].latest
    BY DEF OneCurrent
  <2>1. CASE j \in locked[t]
    <3>1. j \in loaded[t] \ stale[t] /\ Decides(t, j)
      BY <2>1, <1>1, <1>2 DEF StepInv, TxInv
    <3>2. \A m \in Committed(j) : m \in Decisions /\ m \in cleared[t]
      BY <1>1, <3>1, OwnType DEF FreshInv, TxInv
    <3>3. n \in Own(t) /\ decision[n].job = j /\ n \notin cleared[t]
      BY <3>2, <1>1, <1>5, <1>6, OwnType
    <3> QED
      BY <2>1, <1>8, <3>3
  <2>2. CASE j \notin locked[t]
    <3>1. j \in Job \ torn
      BY <2>2, <1>1
    <3> QED
      BY <2>2, <3>1, <1>7 DEF IInv, DataInv, OneCurrent
  <2> QED
    BY <2>1, <2>2
<1>11. ProjectionExact'
  <2> SUFFICES ASSUME NEW j \in Job \ torn'
               PROVE  /\ row'[j].bucket = BucketOf(row'[j].text, decision'[row'[j].latest].prefs)
                      /\ row'[j].text = decision'[row'[j].latest].text
    BY DEF ProjectionExact
  <2>1. CASE j \in locked[t]
    <3>1. PICK l \in Own(t) : IsLast(t, l) /\ decision[l].job = j /\ row'[j].latest = l /\ j \in loaded[t]
      BY <2>1, <1>8
    <3>2. j \notin stale[t] /\ l \in Decisions /\ row'[j] = View(t, j)
      BY <2>1, <3>1, <1>1, OwnType
    <3>3. row'[j].text = decision[l].text /\ row'[j].bucket = decision[l].bucket
      BY <1>1, <1>2, <3>1, <3>2 DEF FreshInv, TxInv
    <3>4. decision[l].bucket = BucketOf(decision[l].text, decision[l].prefs)
      BY <3>2 DEF IInv, DataInv, DecisionInv
    <3>5. decision'[l].text = decision[l].text /\ decision'[l].prefs = decision[l].prefs
      BY <3>2, <1>4
    <3> QED
      BY <3>1, <3>3, <3>4, <3>5
  <2>2. CASE j \notin locked[t]
    <3>1. j \in Job \ torn /\ row[j].latest \in Committed(j)
      BY <2>2, <1>1 DEF IInv, DataInv, LatestIsNewest
    <3>2. row'[j] = row[j] /\ decision'[row[j].latest] = decision[row[j].latest]
      BY <2>2, <3>1, <1>7
    <3> QED
      BY <3>1, <3>2 DEF IInv, DataInv, ProjectionExact
  <2> QED
    BY <2>1, <2>2
<1>12. DecisionInv'
  <2>1. \A n \in Decisions : decision'[n].bucket = BucketOf(decision'[n].text, decision'[n].prefs)
    BY <1>4 DEF IInv, DataInv, DecisionInv
  <2>2. \A j \in Job : j \in Committed(j)'
    BY <1>6 DEF IInv, DataInv, DecisionInv
  <2> QED
    BY <1>3, <2>1, <2>2 DEF DecisionInv
<1>13. TxInv(t)' /\ LockInv' /\ \A u \in Tx \ {t} : Same(u)
  BY <1>1, <1>3, EndKeeps
<1>14. ASSUME NEW u \in Tx \ {t} PROVE TxInv(u)'
  <2>1. /\ Same(u) /\ TxInv(u) /\ u # "db"
        /\ stale'[u] = stale[u] \cup (loaded[u] \cap locked[t])
    BY <1>1, <1>13, TransactionAssumption DEF IInv, Tx
  <2>2. \A n \in Own(u) : n \in Decisions /\ n \notin Own(t) /\ n \notin cleared[t]
    BY <1>1, <2>1, OwnType DEF ClearInv, TxInv
  <2>3. \A n \in Own(u) : decision'[n] = decision[n]
    BY <1>5, <2>2
  <2>4. \A n \in Decisions : decision[n].by \in {"db", u} =>
          /\ n \in Decisions'
          /\ decision'[n].by = decision[n].by /\ decision'[n].job = decision[n].job
    BY <1>1, <1>3, <1>4, OwnType
  <2>5. Own(u)' = Own(u)
    BY <1>1, <1>3, <1>4, <2>1 DEF Own
  <2>6. \A k \in loaded[u] \ stale'[u] : row'[k] = row[k] /\ Committed(k)' = Committed(k)
    BY <1>1, <1>7, <2>1 DEF TypeOK
  <2>7. ASSUME NEW n \in Own(u), NEW j \in Job, decision[n].job = j
        PROVE  Committed(j)' = Committed(j)
    <3>1. j \in cleared[u] /\ j \notin cleared[t]
      BY <2>1, <2>7 DEF OwnInv, TxInv, IInv, LockInv
    <3>2. \A m \in Own(t) : decision[m].job # j
      BY <1>1, <3>1 DEF OwnInv, TxInv
    <3> QED
      BY <1>6, <3>2
  <2>8. stale[u] \subseteq stale'[u]
    BY <2>1
  <2> QED
    BY <1>1, <2>1, <2>3, <2>4, <2>5, <2>6, <2>7, <2>8, Frame
<1> QED
  BY <1>9, <1>10, <1>11, <1>12, <1>13, <1>14 DEF DataInv
-----------------------------------------------------------------------------
LEMMA Initial == Init => IInv
<1> SUFFICES ASSUME Init PROVE IInv
  OBVIOUS
<1>1. PICK x \in [Job -> Text] :
        /\ row = [j \in Job |-> [text |-> x[j], bucket |-> BucketOf(x[j], FirstPrefs), latest |-> j]]
        /\ decision = [n \in Number |->
              IF n \in Job THEN Decided("db", n, x[n], FirstPrefs) ELSE Unused]
  BY DEF Init
<1>2. TypeOK
  BY InitType
<1>3. ASSUME NEW n \in Job
      PROVE  /\ decision[n] # Unused /\ decision[n].by = "db" /\ decision[n].job = n
             /\ decision[n].text = x[n] /\ decision[n].prefs = FirstPrefs /\ decision[n].current
             /\ decision[n].bucket = BucketOf(x[n], FirstPrefs)
             /\ row[n].text = x[n] /\ row[n].latest = n
             /\ row[n].bucket = BucketOf(x[n], FirstPrefs)
  <2>1. decision[n] = Decided("db", n, x[n], FirstPrefs) /\ "db" \in Tx \cup {"db"} /\ x[n] \in Text
    BY <1>1, NumberType
  <2>2. /\ row[n].text = x[n] /\ row[n].latest = n
        /\ row[n].bucket = BucketOf(x[n], FirstPrefs)
    BY <1>1
  <2>3. /\ Decided("db", n, x[n], FirstPrefs) # Unused
        /\ Decided("db", n, x[n], FirstPrefs).by = "db" /\ Decided("db", n, x[n], FirstPrefs).job = n
        /\ Decided("db", n, x[n], FirstPrefs).text = x[n]
        /\ Decided("db", n, x[n], FirstPrefs).prefs = FirstPrefs
        /\ Decided("db", n, x[n], FirstPrefs).bucket = BucketOf(x[n], FirstPrefs)
        /\ Decided("db", n, x[n], FirstPrefs).current
    BY <2>1, FirstPrefsType DEF Decided, Unused
  <2> QED
    BY <2>1, <2>2, <2>3
<1>4. Decisions = Job
  BY <1>1, <1>3, NumberType DEF Decisions
<1>5. \A j \in Job : Committed(j) = {j}
  BY <1>3, <1>4 DEF Committed
<1>6. \A t \in Tx : Own(t) = {}
  BY <1>3, <1>4, TransactionAssumption DEF Own, Tx
<1>7. DataInv
  <2>1. LatestIsNewest
    BY <1>3, <1>5, NumberType DEF LatestIsNewest
  <2>2. OneCurrent /\ ProjectionExact /\ DecisionInv
    BY <1>3, <1>4, <1>5 DEF OneCurrent, ProjectionExact, DecisionInv
  <2> QED
    BY <2>1, <2>2 DEF DataInv
<1>8. /\ \A t \in Tx : at[t] = "idle" /\ loaded[t] = {} /\ todo[t] = {} /\ locked[t] = {} /\ cleared[t] = {}
  BY DEF Init
<1>9. LockInv
  BY <1>8 DEF LockInv
<1>10. \A t \in Tx : TxInv(t)
  BY <1>6, <1>8 DEF TxInv, StepInv, ClearInv, OwnInv, FreshInv
<1> QED
  BY <1>2, <1>7, <1>9, <1>10 DEF IInv

LEMMA Step == IInv /\ [Next]_vars => IInv'
<1> SUFFICES ASSUME IInv, [Next]_vars PROVE IInv'
  OBVIOUS
<1>1. TypeOK'
  BY TypeStep DEF IInv
<1>2. CASE UNCHANGED vars
  <2>1. Loop \in Tx /\ Quiet(Loop)
    BY <1>2 DEF Tx, Quiet, Same
  <2>2. DataInv' /\ \A u \in Tx \ {Loop} : TxInv(u)'
    BY <2>1, QuietStep
  <2>3. \A u \in Tx : TxInv(u)'
    <3> SUFFICES ASSUME NEW u \in Tx PROVE TxInv(u)'
      OBVIOUS
    <3>1. Same(u) /\ UNCHANGED <<stale, row, decision>>
      BY <1>2 DEF Same
    <3>2. TypeOK /\ TxInv(u)
      BY DEF IInv
    <3> QED
      BY <3>1, <3>2, SameOwn, Frame
  <2>4. LockInv'
    BY <1>2 DEF IInv, LockInv
  <2> QED
    BY <1>1, <2>2, <2>3, <2>4 DEF IInv
<1>3. CASE Next
  <2>1. DataInv' /\ LockInv' /\ \A u \in Tx : TxInv(u)'
    BY <1>3, BeginReclassifyKeeps, BeginRunKeeps, UpsertKeeps, FindDecisionsKeeps, ClearCurrentKeeps,
       InsertDecisionKeeps, ProjectKeeps, CommitKeeps, AbortKeeps, NextJobKeeps, MatchKeeps
       DEF Next, Persist
  <2> QED
    BY <1>1, <2>1 DEF IInv
<1> QED
  BY <1>2, <1>3

(* The inductive invariant.                                                *)
THEOREM Invariance == Spec => []IInv
<1>1. Init => IInv
  BY Initial
<1>2. IInv /\ [Next]_vars => IInv'
  BY Step
<1> QED
  BY <1>1, <1>2, PTL DEF Spec

(* Every value of the tables and sessions is one the code can hold.        *)
THEOREM TypeCorrect == Spec => []TypeOK
<1>1. IInv => TypeOK
  BY DEF IInv
<1> QED
  BY <1>1, Invariance, PTL

(* However transactions wait for each other, a job names its newest        *)
(* decision, and that one is current (persist_snapshot 170-200).           *)
THEOREM LatestStays == Spec => []LatestIsNewest
<1>1. IInv => LatestIsNewest
  BY DEF IInv, DataInv
<1> QED
  BY <1>1, Invariance, PTL

(* A job has one current decision unless its last update came from a       *)
(* transaction that had loaded it before another update.                   *)
THEOREM CurrentStaysOne == Spec => []OneCurrent
<1>1. IInv => OneCurrent
  BY DEF IInv, DataInv
<1> QED
  BY <1>1, Invariance, PTL

(* With the same exception the columns of a job are what its latest        *)
(* decision was made from and led to.                                      *)
THEOREM ProjectionStays == Spec => []ProjectionExact
<1>1. IInv => ProjectionExact
  BY DEF IInv, DataInv
<1> QED
  BY <1>1, Invariance, PTL
-----------------------------------------------------------------------------
(* The refinement.                                                         *)

LedgerStep == Ledger!Decide \/ UNCHANGED Ledger!avars

Past == {EntryOf(n) : n \in Entered}

LEMMA EntryFields ==
  \A n : EntryOf(n).number = n /\ EntryOf(n).job = decision[n].job
  BY DEF EntryOf

LEMMA EntryType ==
  ASSUME TypeOK, NEW n \in Decisions
  PROVE  EntryOf(n) \in Ledger!Entry
<1>1. n \in Number /\ decision[n] \in Record
  BY DecisionType
<1>2. /\ decision[n].job \in Job
      /\ [bucket |-> decision[n].bucket, text |-> decision[n].text, prefs |-> decision[n].prefs]
           \in Verdict
  BY <1>1 DEF Record, Verdict
<1> QED
  BY <1>1, <1>2 DEF EntryOf, Ledger!Entry

LEMMA EnteredType ==
  ASSUME TypeOK
  PROVE  /\ Entered \subseteq Decisions
         /\ \A n \in Entered : n \in Nat /\ decision[n].job \in Job /\ n \in Committed(decision[n].job)
         /\ \A j \in Job : Committed(j) \subseteq Entered
         /\ \A t \in Tx : Own(t) \cap Entered = {} /\ Own(t) \subseteq Decisions
<1>1. \A t \in Tx : t # "db"
  BY TransactionAssumption DEF Tx
<1> QED
  BY <1>1, OwnType, DecisionType DEF Entered, Committed

\* Before it commits nobody sees what a transaction does.
LEMMA Unseen ==
  ASSUME row' = row, Entered' = Entered, \A n \in Entered : decision'[n] = decision[n]
  PROVE  LedgerStep
<1>1. \A n \in Entered : EntryOf(n)' = EntryOf(n)
  BY DEF EntryOf
<1>2. {EntryOf(n) : n \in Entered}' = {EntryOf(n) : n \in Entered}
  BY <1>1
<1>3. {n \in Entered : decision[n].current}' = {n \in Entered : decision[n].current}
  OBVIOUS
<1>4. [j \in Job |-> row[j].latest]' = [j \in Job |-> row[j].latest]
  OBVIOUS
<1> QED
  BY <1>2, <1>3, <1>4 DEF LedgerStep, Ledger!avars

LEMMA UnseenInsert ==
  ASSUME IInv, NEW t \in Tx, NEW n \in Number, InsertDecision(t, n)
  PROVE  LedgerStep
<1>1. TypeOK /\ n \notin Decisions /\ row' = row
  BY NumberType DEF InsertDecision, Fresh, IInv
<1>2. \A m \in Number \ {n} : decision'[m] = decision[m]
  BY <1>1 DEF InsertDecision, TypeOK
<1>3. decision'[n] = Decided(t, job[t], text[t], prefs[t])
  BY <1>1 DEF InsertDecision, TypeOK
<1>4. decision'[n].by # "db"
  BY <1>3, TransactionAssumption DEF Decided, Tx
<1>5. Entered' = Entered /\ \A m \in Entered : decision'[m] = decision[m]
  BY <1>1, <1>2, <1>4 DEF Entered, Decisions
<1> QED
  BY <1>1, <1>5, Unseen

LEMMA UnseenAbort ==
  ASSUME IInv, NEW t \in Tx, Abort(t)
  PROVE  LedgerStep
<1>1. TypeOK /\ row' = row
  BY DEF Abort, IInv
<1>2. \A n \in Number : decision'[n] = IF n \in Own(t) THEN Unused ELSE decision[n]
  BY DEF Abort
<1>3. Entered \subseteq Number \ Own(t)
  BY <1>1, EnteredType DEF Decisions
<1>4. Entered' = Entered /\ \A n \in Entered : decision'[n] = decision[n]
  BY <1>2, <1>3 DEF Entered, Decisions
<1> QED
  BY <1>1, <1>4, Unseen

\* What a commit enters.
LEMMA CommitEnters ==
  ASSUME IInv, NEW t \in Tx, Commit(t)
  PROVE  /\ \A n \in Decisions : EntryOf(n)' = EntryOf(n)
         /\ Entered' = Entered \cup Own(t)
         /\ Past' = Past \cup {EntryOf(n) : n \in Own(t)}
         /\ Past' \ Past = {EntryOf(n) : n \in Own(t)}
<1>1. TypeOK
  BY DEF IInv
<1>2. Decisions' = Decisions
  BY CommitDecisions
<1>3. \A n \in Decisions :
        /\ decision'[n].job = decision[n].job /\ decision'[n].text = decision[n].text
        /\ decision'[n].prefs = decision[n].prefs /\ decision'[n].bucket = decision[n].bucket
        /\ decision'[n].by = IF n \in Own(t) THEN "db" ELSE decision[n].by
  BY CommitDecisions
<1>4. \A n \in Decisions : EntryOf(n)' = EntryOf(n)
  BY <1>3 DEF EntryOf
<1>5. Entered' = Entered \cup Own(t)
  BY <1>1, <1>2, <1>3, EnteredType DEF Entered
<1>6. Past' = Past \cup {EntryOf(n) : n \in Own(t)}
  <2>1. \A n \in Entered \cup Own(t) : EntryOf(n)' = EntryOf(n)
    BY <1>1, <1>4, EnteredType
  <2> QED
    BY <1>5, <2>1 DEF Past
<1>7. \A n \in Own(t) : EntryOf(n) \notin Past
  BY <1>1, EnteredType, EntryFields DEF Past
<1> QED
  BY <1>4, <1>5, <1>6, <1>7

\* A transaction that commits enters its decisions, if it has made any.
LEMMA CommitRefines ==
  ASSUME IInv, IInv', NEW t \in Tx, Commit(t)
  PROVE  LedgerStep
<1> DEFINE new     == Past' \ Past
           decided == {j \in Job : Ledger!Of(new, j) # {}}
<1>1. TypeOK /\ TypeOK' /\ TxInv(t) /\ LatestIsNewest /\ locked[t] \subseteq Job
  BY DEF IInv, DataInv, TypeOK
<1>2. new = {EntryOf(n) : n \in Own(t)} /\ Past \subseteq Past'
  BY CommitEnters
<1>3. Own(t) \subseteq Decisions /\ \A n \in Own(t) : n \in Nat /\ decision[n].job \in Job
  BY <1>1, EnteredType, OwnType, NumberType
<1>4. \A j \in Job : \A e : e \in Ledger!Of(new, j) <=>
        \E n \in Own(t) : e = EntryOf(n) /\ decision[n].job = j
  BY <1>2, EntryFields DEF Ledger!Of
<1>5. decided = locked[t]
  <2>1. \A j \in locked[t] : \E n \in Own(t) : decision[n].job = j
    BY CommitJobs
  <2>2. \A j \in Job \ locked[t] : \A n \in Own(t) : decision[n].job # j
    BY CommitJobs
  <2>3. \A j \in Job : Ledger!Of(new, j) # {} <=> \E n \in Own(t) : decision[n].job = j
    BY <1>4
  <2> HIDE DEF new
  <2> QED
    BY <1>1, <2>1, <2>2, <2>3
<1>6. ASSUME NEW j \in locked[t]
      PROVE  /\ Ledger!IsNewest(new, j, row'[j].latest)
             /\ row'[j].latest \in Entered' /\ decision'[row'[j].latest].current
  <2>1. PICK l \in Own(t) :
          IsLast(t, l) /\ decision[l].job = j /\ l \notin cleared[t] /\ row'[j].latest = l
    BY CommitJobs
  <2>2. \A n \in Own(t) : decision[n].job = j => n <= l
    BY <2>1 DEF IsLast
  <2>3. EntryOf(l) \in Ledger!Of(new, j) /\ EntryOf(l).number = l
    BY <1>1, <1>4, <2>1, EntryFields
  <2>4. \A e \in Ledger!Of(new, j) : e.number <= l
    BY <1>1, <1>4, <2>2, EntryFields
  <2>5. Ledger!IsNewest(new, j, l)
    BY <2>3, <2>4 DEF Ledger!IsNewest
  <2>6. l \in Entered' /\ decision'[l].current
    <3>1. Entered' = Entered \cup Own(t)
      BY CommitEnters
    <3>2. \A n \in Decisions : n \in Own(t) \ cleared[t] => decision'[n].current = TRUE
      BY CommitDecisions
    <3> QED
      BY <1>3, <2>1, <3>1, <3>2
  <2> QED
    BY <2>1, <2>5, <2>6
<1>7. \A j \in Job \ locked[t] : row'[j] = row[j]
  BY CommitJobs
<1>8. ASSUME NEW e \in new
      PROVE  /\ e \in Ledger!Entry
             /\ e.number > row[e.job].latest /\ e.job \in Job
             /\ \A f \in Past' \ {e} : f.number # e.number
  <2>1. PICK n \in Own(t) : e = EntryOf(n)
    BY <1>2
  <2>2. e \in Ledger!Entry /\ e.number = n /\ e.job = decision[n].job /\ e.job \in Job /\ n \in Nat
    BY <1>1, <1>3, <2>1, EntryType, EntryFields
  <2>3. row[e.job].latest \in Committed(e.job) /\ \A m \in Committed(e.job) : m < n
    BY <1>1, <2>2 DEF OwnInv, TxInv, LatestIsNewest
  <2>4. row[e.job].latest \in Nat
    BY <1>1, <2>2, NumberType DEF TypeOK, Row
  <2>5. \A f \in Past' : \E m : f = EntryOf(m)
    BY CommitEnters DEF Past
  <2> QED
    BY <2>1, <2>2, <2>3, <2>4, <2>5, EntryFields
<1>9. ASSUME NEW n \in Entered
      PROVE  /\ decision'[n].current => decision[n].current
             /\ decision[n].current /\ ~decision'[n].current => decision[n].job \in locked[t]
  <2>1. n \in Decisions /\ n \notin Own(t) /\ decision[n].job \in Job
    BY <1>1, EnteredType
  <2>2. CASE n \in cleared[t]
    <3>1. decision[n].job \in locked[t]
      BY <2>1, <2>2, CommitJobs
    <3>2. decision'[n].current = FALSE
      BY <2>1, <2>2, CommitDecisions
    <3> QED
      BY <3>1, <3>2
  <2>3. CASE n \notin cleared[t]
    <3>1. decision'[n] = decision[n]
      BY <2>1, <2>3, CommitDecisions
    <3> QED
      BY <3>1
  <2> QED
    BY <2>2, <2>3
\* Of its own decisions only the latest of each job is current.
<1>10. ASSUME NEW n \in Own(t), decision'[n].current
       PROVE  \E j \in locked[t] : n = row'[j].latest
  <2>1. n \in Decisions /\ n \notin cleared[t] /\ decision[n].job \in Job
    BY <1>3, <1>10, CommitDecisions
  <2>2. decision[n].job \in locked[t]
    BY <2>1, CommitJobs
  <2>3. PICK l \in Own(t) :
          /\ row'[decision[n].job].latest = l
          /\ \A m \in Own(t) : decision[m].job = decision[n].job /\ m # l => m \in cleared[t]
    BY <2>2, CommitJobs
  <2> QED
    BY <2>1, <2>2, <2>3
<1>11. CASE locked[t] = {}
  <2>1. Own(t) = {}
    BY <1>3, <1>11, CommitJobs
  <2>2. \A j \in Job : row'[j] = row[j]
    BY <1>7, <1>11
  <2>3. \A n \in cleared[t] : n \notin Entered
    BY <1>1, <1>11, CommitJobs, EnteredType
  <2>4. \A n \in Entered : decision'[n] = decision[n]
    BY <1>1, <2>1, <2>3, CommitDecisions, EnteredType
  <2>5. row' = row
    BY <1>1, <2>2 DEF TypeOK
  <2>6. Entered' = Entered
    BY <2>1, CommitEnters
  <2> QED
    BY <2>4, <2>5, <2>6, Unseen
<1>12. CASE locked[t] # {}
  <2> DEFINE latest   == [j \in Job |-> row[j].latest]
             current  == {n \in Entered : decision[n].current}
  <2>1. latest' \in [Job -> Number] /\ \A j \in Job : latest[j] = row[j].latest /\ latest'[j] = row'[j].latest
    BY <1>1 DEF TypeOK, Row
  <2>2. {latest'[j] : j \in locked[t]} \subseteq current'
    BY <1>1, <1>6, <2>1
  <2>3. current' \subseteq current \cup {latest'[j] : j \in locked[t]}
    BY <1>1, <1>9, <1>10, <2>1, CommitEnters
  <2>4. \A e \in Past : e.number \in current \ current' => e.job \in locked[t]
    <3> SUFFICES ASSUME NEW n \in Entered, n \in current, n \notin current'
                 PROVE  decision[n].job \in locked[t]
      BY EntryFields DEF Past
    <3> QED
      BY <1>9, CommitEnters
  <2>5. \A e \in new : e.number > latest[e.job] /\ \A f \in Past' \ {e} : f.number # e.number
    BY <1>8, <2>1
  <2>6. new \subseteq Ledger!Entry
    BY <1>8
  <2>7. /\ \A j \in decided : Ledger!IsNewest(new, j, latest'[j])
        /\ \A j \in Job \ decided : latest'[j] = latest[j]
    BY <1>1, <1>5, <1>6, <1>7, <2>1
  <2>8. decided # {}
    BY <1>5, <1>12
  <2> HIDE DEF new, latest, current
  <2>9. Ledger!Decide
    BY <1>2, <1>5, <2>1, <2>2, <2>3, <2>4, <2>5, <2>6, <2>7, <2>8
       DEF Ledger!Decide, new, latest, current, Past
  <2> QED
    BY <2>9 DEF LedgerStep
<1> QED
  BY <1>11, <1>12

LEMMA NextRefines == IInv /\ IInv' /\ [Next]_vars => LedgerStep
<1> SUFFICES ASSUME IInv, IInv', [Next]_vars
             PROVE  LedgerStep
  OBVIOUS
<1>1. ASSUME UNCHANGED db
      PROVE  LedgerStep
  BY <1>1, SameOwn, Unseen DEF Entered
<1>2. CASE UNCHANGED vars
  BY <1>1, <1>2
<1>3. ASSUME NEW p \in Payload, BeginReclassify(p) \/ \E t \in Tx : BeginRun(t, p)
      PROVE  LedgerStep
  BY <1>1, <1>3 DEF BeginReclassify, BeginRun
<1>4. ASSUME NEW t \in Tx, \/ Upsert(t) \/ FindDecisions(t) \/ ClearCurrent(t)
                           \/ \E n \in Number : Project(t, n)
                           \/ \E j \in Job : NextJob(t, j) \/ \E x \in Text : Match(t, j, x)
      PROVE  LedgerStep
  BY <1>1, <1>4 DEF Upsert, FindDecisions, ClearCurrent, Project, NextJob, Match
<1>5. CASE Next
  BY <1>3, <1>4, <1>5, UnseenInsert, UnseenAbort, CommitRefines DEF Next, Persist
<1> QED
  BY <1>2, <1>5

(* Decisions enter the ledger as if transactions ran one after another.    *)
THEOREM Refinement == Spec => ImplementsLedger
<1>1. Init => Ledger!AInit
  <2> SUFFICES ASSUME Init PROVE Ledger!AInit
    OBVIOUS
  <2>1. IInv
    BY Initial
  <2>2. TypeOK /\ LatestIsNewest
    BY <2>1 DEF IInv, DataInv
  <2>3. Decisions = Job /\ \A n \in Job : /\ decision[n].by = "db" /\ decision[n].job = n
                                          /\ decision[n].current /\ row[n].latest = n
    <3>1. \A n \in Number : decision[n] # Unused => n \in Job
      BY DEF Init
    <3>2. \A n \in Job : row[n].latest = n
      BY DEF Init
    <3>3. \A n \in Job : n \in Decisions /\ decision[n].by = "db" /\ decision[n].job = n
                         /\ decision[n].current
      BY <2>2, <3>2 DEF LatestIsNewest, Committed
    <3> QED
      BY <3>1, <3>2, <3>3 DEF Decisions
  <2>4. Entered = Job /\ {n \in Entered : decision[n].current} = Job
    BY <2>3 DEF Entered
  <2> DEFINE latest == [j \in Job |-> row[j].latest]
  <2>5. latest \in [Job -> Number] /\ {latest[j] : j \in Job} = Job /\ \A j \in Job : latest[j] = j
    BY <2>3, NumberType
  <2>6. {EntryOf(n) : n \in Entered} \subseteq Ledger!Entry
    BY <2>2, <2>3, <2>4, EntryType
  <2>7. ASSUME NEW j \in Job
        PROVE  Ledger!IsNewest({EntryOf(n) : n \in Entered}, j, latest[j])
    <3> DEFINE entries == {EntryOf(n) : n \in Entered}
    <3>1. \A e \in Ledger!Of(entries, j) : e.number = j
      BY <2>3, <2>4, EntryFields DEF Ledger!Of
    <3>2. EntryOf(j) \in Ledger!Of(entries, j) /\ EntryOf(j).number = j
      BY <2>3, <2>4, EntryFields DEF Ledger!Of
    <3>3. latest[j] = j /\ j \in Nat
      BY <2>5, NumberType
    <3> HIDE DEF entries, latest
    <3>4. Ledger!IsNewest(entries, j, latest[j])
      BY <3>1, <3>2, <3>3 DEF Ledger!IsNewest
    <3> QED
      BY <3>4 DEF entries
  <2> QED
    BY <2>4, <2>5, <2>6, <2>7 DEF Ledger!AInit
<1>2. IInv /\ IInv' /\ [Next]_vars => [Ledger!Decide]_(Ledger!avars)
  BY NextRefines DEF LedgerStep
<1> QED
  BY <1>1, <1>2, Invariance, PTL DEF Spec, ImplementsLedger, Ledger!ASpec
-----------------------------------------------------------------------------
(* The rules of preview_job.                                               *)

\* Role families of kept preferences can be counted.
LEMMA PreferencesType ==
  ASSUME NEW q \in Preferences, NEW x
  PROVE  IsFiniteSet(Aligned(x, q)) /\ Cardinality(Aligned(x, q)) \in Nat
<1>1. PICK p \in Payload : q = Normalized(p)
  BY DEF Preferences
<1>2. IsFiniteSet(DOMAIN q.roles)
  BY <1>1, InstanceAssumption DEF Normalized, IsPayload
<1>3. Aligned(x, q) \subseteq DOMAIN q.roles
  BY DEF Aligned
<1> QED
  BY <1>2, <1>3, FS_Subset, FS_CardinalityType

\* The points of a posting but for those of role families, place and sponsorship.
Rest(x, q) == (IF RoleNegative(x, q) THEN 25 ELSE 0) + (IF LocationNegative(x, q) THEN 12 ELSE 0)
              + (IF x.short THEN 2 ELSE 0)

LEMMA ScoreParts ==
  ASSUME NEW q \in Preferences, NEW x
  PROVE  /\ Rest(x, q) \in Int /\ LocationScore(x, q) \in Int
         /\ SponsorshipScore(SponsorshipState(x, q)) \in Int /\ Score(x, q) \in Int
         /\ Score(x, q) = 18 * Cardinality(Aligned(x, q)) + LocationScore(x, q)
                          + SponsorshipScore(SponsorshipState(x, q)) - Rest(x, q)
<1>1. LocationScore(x, q) \in Int
  BY DEF LocationScore
<1>2. SponsorshipScore(SponsorshipState(x, q)) \in Int
  BY DEF SponsorshipScore
<1>3. Rest(x, q) \in Int
  BY DEF Rest
<1> QED
  BY <1>1, <1>2, <1>3, PreferencesType DEF Score, Rest

\* More keywords that count for a posting never lower its bucket.
LEMMA WiderRanks ==
  ASSUME NEW q \in Preferences, NEW r \in Preferences, NEW x, Widens(r, q)
  PROVE  Rank(BucketOf(x, q)) <= Rank(BucketOf(x, r))
<1>1. /\ \A l \in List \ {"remote_positives", "location_positives"} : q.lists[l] = r.lists[l]
      /\ q.lists["remote_positives"] \subseteq r.lists["remote_positives"]
      /\ q.lists["location_positives"] \subseteq r.lists["location_positives"]
  BY DEF Widens, List
<1>2. RoleNegative(x, q) = RoleNegative(x, r) /\ LocationNegative(x, q) = LocationNegative(x, r)
  BY <1>1 DEF RoleNegative, LocationNegative, List
<1>3. \A l \in Sponsorship : q.lists[l] = r.lists[l]
  BY <1>1 DEF Sponsorship, List
<1>4. SponsorshipState(x, q) = SponsorshipState(x, r)
  BY <1>3 DEF SponsorshipState, Sponsored, Sponsorship
<1>5. LocationScore(x, q) <= LocationScore(x, r)
  <2>1. \A l : q.lists[l] \subseteq r.lists[l] /\ MentionsLower(x, q.lists[l]) => MentionsLower(x, r.lists[l])
    BY DEF MentionsLower
  <2> QED
    BY <1>1, <2>1 DEF LocationScore
<1>6. Aligned(x, q) \subseteq Aligned(x, r)
  BY DEF Aligned, Mentions, Widens
<1>7. Cardinality(Aligned(x, q)) <= Cardinality(Aligned(x, r))
  BY <1>6, PreferencesType, FS_Subset
<1>8. Rest(x, q) = Rest(x, r)
  BY <1>2 DEF Rest
<1>9. Score(x, q) <= Score(x, r) /\ Score(x, q) \in Int /\ Score(x, r) \in Int
  BY <1>4, <1>5, <1>7, <1>8, PreferencesType, ScoreParts
<1> QED
  BY <1>2, <1>4, <1>6, <1>9 DEF BucketOf, Rank

\* What sponsorship keywords change.
LEMMA SponsorshipRanks ==
  ASSUME NEW q \in Preferences, NEW r \in Preferences, NEW x,
         q.roles = r.roles, \A l \in List \ Sponsorship : q.lists[l] = r.lists[l], ~Sponsored(q)
  PROVE  IF SponsorshipState(x, r) = "supported"
         THEN Rank(BucketOf(x, q)) <= Rank(BucketOf(x, r))
         ELSE Rank(BucketOf(x, r)) <= Rank(BucketOf(x, q))
<1>1. RoleNegative(x, q) = RoleNegative(x, r) /\ LocationNegative(x, q) = LocationNegative(x, r)
  BY DEF RoleNegative, LocationNegative, List, Sponsorship
<1>2. LocationScore(x, q) = LocationScore(x, r)
  BY DEF LocationScore, List, Sponsorship
<1>3. Aligned(x, q) = Aligned(x, r)
  BY DEF Aligned
<1>4. Rest(x, q) = Rest(x, r)
  BY <1>1 DEF Rest
<1>5. SponsorshipState(x, q) = "neutral" /\ SponsorshipScore("neutral") = 0
  BY DEF SponsorshipState, SponsorshipScore
<1>6. Score(x, r) = Score(x, q) + SponsorshipScore(SponsorshipState(x, r)) /\ Score(x, q) \in Int
  BY <1>2, <1>3, <1>4, <1>5, PreferencesType, ScoreParts
<1>7. CASE SponsorshipState(x, r) = "supported"
  <2>1. Score(x, r) = Score(x, q) + 6
    BY <1>6, <1>7 DEF SponsorshipScore
  <2> QED
    BY <1>1, <1>3, <1>5, <1>6, <1>7, <2>1 DEF BucketOf, Rank
<1>8. CASE SponsorshipState(x, r) = "unsupported"
  BY <1>1, <1>3, <1>5, <1>8 DEF BucketOf, Rank
<1>9. CASE SponsorshipState(x, r) \in {"ambiguous", "missing", "neutral"}
  <2>1. Score(x, r) = Score(x, q)
    BY <1>6, <1>9 DEF SponsorshipScore
  <2> QED
    BY <1>1, <1>3, <1>5, <1>6, <1>9, <2>1 DEF BucketOf, Rank
<1>10. SponsorshipState(x, r) \in {"supported", "unsupported", "ambiguous", "missing", "neutral"}
  BY DEF SponsorshipState
<1> QED
  BY <1>7, <1>8, <1>9, <1>10

(* Who asks for more never gets less (the cascade of preview_job 60-158).  *)
THEOREM WiderStays == Spec => []WiderIsNeverWorse
<1>1. IInv => WiderIsNeverWorse
  BY WiderRanks, DecisionType DEF IInv, DataInv, DecisionInv, WiderIsNeverWorse, Record
<1> QED
  BY <1>1, Invariance, PTL

(* Sponsorship keywords raise only the postings that promise it.           *)
THEOREM SponsorshipFilters == Spec => []SponsorshipIsAFilter
<1>1. IInv => SponsorshipIsAFilter
  BY SponsorshipRanks, DecisionType DEF IInv, DataInv, DecisionInv, SponsorshipIsAFilter, Record
<1> QED
  BY <1>1, Invariance, PTL
-----------------------------------------------------------------------------
(* Preferences that were validated are accepted again.                     *)

\* Any order of a finite set is a list of its members, each once.
LEMMA SetToSeqLists ==
  ASSUME NEW S, IsFiniteSet(S)
  PROVE  /\ SetToSeq(S) \in [1 .. Cardinality(S) -> S]
         /\ SetToSeq(S) \in Seq(S) /\ Len(SetToSeq(S)) = Cardinality(S)
         /\ \A i, j \in 1 .. Cardinality(S) : SetToSeq(S)[i] = SetToSeq(S)[j] => i = j
         /\ \A k \in S : \E i \in 1 .. Cardinality(S) : SetToSeq(S)[i] = k
<1> DEFINE n == Cardinality(S)
           s == SetToSeq(S)
<1>1. n \in Nat /\ ExistsBijection(1 .. n, S)
  BY FS_CardinalityType
<1>2. \E f \in [1 .. n -> S] : IsInjective(f)
  BY <1>1 DEF ExistsBijection, Bijection, Injection, IsInjective
<1>3. s \in [1 .. n -> S] /\ IsInjective(s)
  BY <1>2 DEF SetToSeq
<1>4. s \in Injection(1 .. n, S)
  BY <1>3 DEF Injection
<1>5. Cardinality(1 .. n) = n
  BY <1>1, FS_Interval
<1> HIDE DEF s
<1>6. s \in Surjection(1 .. n, S)
  BY <1>4, <1>5, FS_Injection
<1>7. \A k \in S : \E i \in 1 .. n : s[i] = k
  BY <1>6 DEF Surjection
<1>8. s \in Seq(S) /\ Len(s) = n
  BY <1>1, <1>3
<1> QED
  BY <1>3, <1>7, <1>8 DEF IsInjective, s

\* A list that was kept: no blank, no spelling twice, nothing that was not sent.
Clean(K, s) ==
  /\ K \subseteq Keyword \ {Blank} /\ IsFiniteSet(K) /\ Cardinality(K) <= Len(s)
  /\ \A k \in K : \E i \in DOMAIN s : s[i] = k
  /\ \A k, l \in K : Lower[k] = Lower[l] => k = l

LEMMA KeptIsClean ==
  ASSUME NEW s \in Seq(Keyword)
  PROVE  Clean(Kept(s), s)
<1> DEFINE D == {i \in DOMAIN s : s[i] # Blank /\ \A j \in 1 .. i - 1 : Lower[s[j]] # Lower[s[i]]}
           f == [i \in D |-> s[i]]
<1>1. Len(s) \in Nat /\ DOMAIN s = 1 .. Len(s) /\ s \in [1 .. Len(s) -> Keyword]
  OBVIOUS
<1>2. Kept(s) = {s[i] : i \in D} /\ D \subseteq 1 .. Len(s)
  BY <1>1 DEF Kept
<1>3. IsFiniteSet(1 .. Len(s)) /\ Cardinality(1 .. Len(s)) = Len(s)
  BY <1>1, FS_Interval
<1>4. IsFiniteSet(D) /\ Cardinality(D) <= Len(s) /\ Cardinality(D) \in Nat
  BY <1>2, <1>3, FS_Subset, FS_CardinalityType
<1>5. f \in Surjection(D, Kept(s))
  BY <1>2 DEF Surjection
<1>6. IsFiniteSet(Kept(s)) /\ Cardinality(Kept(s)) <= Cardinality(D)
  BY <1>4, <1>5, FS_Surjection
<1>7. Cardinality(Kept(s)) <= Len(s)
  BY <1>1, <1>4, <1>6, FS_CardinalityType
<1>8. ASSUME NEW k \in Kept(s), NEW l \in Kept(s), Lower[k] = Lower[l] PROVE k = l
  <2>1. PICK i \in D, j \in D : k = s[i] /\ l = s[j]
    BY <1>2
  <2>2. i \in 1 .. Len(s) /\ j \in 1 .. Len(s) /\ ~(i \in 1 .. j - 1) /\ ~(j \in 1 .. i - 1)
    BY <1>2, <1>8, <2>1
  <2>3. i = j
    BY <1>1, <2>2
  <2> QED
    BY <2>1, <2>3
<1>9. /\ Kept(s) \subseteq Keyword \ {Blank}
      /\ \A k \in Kept(s) : \E i \in DOMAIN s : s[i] = k
  BY <1>1, <1>2
<1> QED
  BY <1>6, <1>7, <1>8, <1>9 DEF Clean

\* Such a list is kept whole.
LEMMA CleanIsKept ==
  ASSUME NEW s \in Seq(Keyword), NEW max \in Nat, ListFits(s, max), NEW K, Clean(K, s)
  PROVE  Kept(SetToSeq(K)) = K /\ ListFits(SetToSeq(K), max) /\ SetToSeq(K) \in Seq(Keyword)
<1> DEFINE n == Cardinality(K)
           t == SetToSeq(K)
<1>1. /\ t \in [1 .. n -> K] /\ t \in Seq(K) /\ Len(t) = n
      /\ \A i, j \in 1 .. n : t[i] = t[j] => i = j
      /\ \A k \in K : \E i \in 1 .. n : t[i] = k
  BY SetToSeqLists DEF Clean
<1>2. n \in Nat /\ n <= Len(s) /\ Len(s) \in Nat /\ Len(s) <= max
  BY FS_CardinalityType DEF Clean, ListFits
<1> HIDE DEF t, n
<1>3. DOMAIN t = 1 .. n
  BY <1>1
<1>4. ASSUME NEW i \in 1 .. n PROVE t[i] # Blank /\ \A j \in 1 .. i - 1 : Lower[t[j]] # Lower[t[i]]
  <2>1. t[i] \in K
    BY <1>1
  <2>2. ASSUME NEW j \in 1 .. i - 1 PROVE Lower[t[j]] # Lower[t[i]]
    <3>1. j \in 1 .. n /\ j # i
      BY <1>2
    <3>2. t[j] \in K /\ t[j] # t[i]
      BY <1>1, <3>1
    <3> QED
      BY <2>1, <3>2 DEF Clean
  <2> QED
    BY <2>1, <2>2 DEF Clean
<1>5. Kept(t) = {t[i] : i \in 1 .. n}
  BY <1>3, <1>4 DEF Kept
<1>6. Kept(t) = K
  BY <1>1, <1>5
<1>7. ListFits(t, max)
  <2>1. \A i \in 1 .. n : t[i] \notin TooLong
    BY <1>1 DEF Clean, ListFits
  <2> QED
    BY <1>1, <1>2, <1>3, <2>1 DEF ListFits
<1>8. t \in Seq(Keyword)
  BY <1>1 DEF Clean
<1> QED
  BY <1>6, <1>7, <1>8 DEF t

LEMMA KeptAgain ==
  ASSUME NEW s \in Seq(Keyword), NEW max \in Nat, ListFits(s, max)
  PROVE  /\ Kept(SetToSeq(Kept(s))) = Kept(s)
         /\ ListFits(SetToSeq(Kept(s)), max)
  BY KeptIsClean, CleanIsKept

LEMMA ListedAgain ==
  ASSUME NEW p \in Payload, Valid(p)
  PROVE  Valid(Listed(Normalized(p))) /\ Normalized(Listed(Normalized(p))) = Normalized(p)
<1> DEFINE q == Normalized(p)
           r == Listed(q)
<1>1. /\ MaxFamilies \in Nat /\ MaxPerFamily \in Nat /\ MaxEntries \in Nat
      /\ p.roles \in [DOMAIN p.roles -> Seq(Keyword)] /\ p.lists \in [List -> Seq(Keyword)]
      /\ DOMAIN p.roles \subseteq Keyword
  BY LimitAssumption, InstanceAssumption DEF IsPayload
<1>2. /\ DOMAIN q.roles = DOMAIN p.roles /\ DOMAIN r.roles = DOMAIN p.roles
      /\ \A f \in DOMAIN p.roles : q.roles[f] = Kept(p.roles[f])
      /\ \A f \in DOMAIN p.roles : r.roles[f] = SetToSeq(Kept(p.roles[f]))
      /\ \A l \in List : q.lists[l] = Kept(p.lists[l])
      /\ \A l \in List : r.lists[l] = SetToSeq(Kept(p.lists[l]))
  BY DEF Normalized, Listed
<1>3. \A f \in DOMAIN p.roles : /\ Kept(r.roles[f]) = Kept(p.roles[f])
                                /\ ListFits(r.roles[f], MaxPerFamily)
  BY <1>1, <1>2, KeptAgain DEF Valid, Fits
<1>4. \A l \in List : Kept(r.lists[l]) = Kept(p.lists[l]) /\ ListFits(r.lists[l], MaxEntries)
  BY <1>1, <1>2, KeptAgain DEF Valid, Fits
<1> HIDE DEF r
<1>5. Fits(r)
  BY <1>2, <1>3, <1>4 DEF Valid, Fits
<1>6. HasPositiveSignal(r)
  BY <1>2, <1>3, <1>4 DEF Valid, HasPositiveSignal, List
<1>7. Normalized(r) = q
  BY <1>2, <1>3, <1>4 DEF Normalized
<1> QED
  BY <1>5, <1>6, <1>7 DEF Valid, r

\* All transactions work with preferences that were validated.
PrefsInv == \A t \in Tx : \E p \in Payload : Valid(p) /\ prefs[t] = Normalized(p)

(* What the browser keeps is accepted with every later run and means the   *)
(* same (validate_job_filter_preferences 120-171).                         *)
THEOREM KeptStayValid == Spec => []KeptPreferencesAreValid
<1>1. Init => PrefsInv
  BY InstanceAssumption DEF Init, PrefsInv, FirstPrefs
<1>2. TypeOK /\ PrefsInv /\ [Next]_vars => PrefsInv'
  <2> SUFFICES ASSUME TypeOK, PrefsInv, [Next]_vars, NEW u \in Tx
               PROVE  \E p \in Payload : Valid(p) /\ prefs'[u] = Normalized(p)
    BY DEF PrefsInv
  <2>1. \E p \in Payload : Valid(p) /\ prefs[u] = Normalized(p)
    BY DEF PrefsInv
  <2>2. ASSUME NEW p \in Payload, BeginReclassify(p) PROVE prefs'[u] = prefs[u] \/ (Valid(p) /\ prefs'[u] = Normalized(p))
    BY <2>2 DEF BeginReclassify, TypeOK
  <2>3. ASSUME NEW p \in Payload, NEW t \in Tx, BeginRun(t, p)
        PROVE  prefs'[u] = prefs[u] \/ (Valid(p) /\ prefs'[u] = Normalized(p))
    BY <2>3 DEF BeginRun, TypeOK
  <2>4. ASSUME NEW t \in Tx, End(t) PROVE prefs'[u] = prefs[u] \/ prefs'[u] = Normalized(FirstPayload)
    BY <2>4 DEF End, FirstPrefs, TypeOK
  <2>5. ASSUME NEW t \in Tx, Upsert(t) \/ Persist(t) \/ \E j \in Job : NextJob(t, j) \/ \E x \in Text : Match(t, j, x)
        PROVE  prefs' = prefs
    BY <2>5 DEF Upsert, Persist, FindDecisions, ClearCurrent, InsertDecision, Project, NextJob, Match
  <2> QED
    BY <2>1, <2>2, <2>3, <2>4, <2>5, InstanceAssumption DEF Next, Commit, Abort
<1>3. PrefsInv => KeptPreferencesAreValid
  BY ListedAgain DEF PrefsInv, KeptPreferencesAreValid
<1> QED
  BY <1>1, <1>2, <1>3, TypeCorrect, PTL DEF Spec
=============================================================================
