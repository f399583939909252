---------------------- MODULE SourceDeleteCleanupProofs ----------------------
(***************************************************************************)
(* Proofs about SourceDeleteCleanup, for every number of sources, jobs and *)
(* cleanups.                                                               *)
(***************************************************************************)
EXTENDS SourceDeleteCleanup, TLAPS

-----------------------------------------------------------------------------
(* The inductive invariant, part by part.                                  *)

(* The row that a row other than a job's refers to.                        *)
Parent(r) == IF r[1] = "rule" THEN <<"decision", r[2], r[3]>> ELSE JobRow(r[2])

(* A decision has a number already given out, a job row is JobRow.         *)
RowInv ==
  \A r \in rows : /\ r[1] \in {"rule", "decision"} => r[3] <= latest[r[2]]
                  /\ r[1] = "job" => r = JobRow(r[2])

(* A cleanup deletes rows that are there, of the jobs it chose, and that   *)
(* no other cleanup deletes; outside of its statements it holds none.      *)
GoneInv ==
  /\ \A c \in Cleanup : gone[c] \subseteq rows
  /\ \A c \in Cleanup, d \in Cleanup : c # d => gone[c] \cap gone[d] = {}
  /\ \A c \in Cleanup : \A r \in gone[c] : r[2] \in doomed[c]
  /\ \A c \in Cleanup : at[c] \notin Statement \cup {"commit"} => gone[c] = {}

(* A job whose row is deleted is not matched, and cannot become so.        *)
BucketInv ==
  \A c \in Cleanup : \A r \in gone[c] : r[1] = "job" => bucket[r[2]] # "matched"

(* What a row refers to is there, and stays if the row does.               *)
ParentInv ==
  /\ \A r \in rows : r[1] # "job" => Parent(r) \in rows
  /\ \A c \in Cleanup : \A r \in rows \ gone[c] : r[1] # "job" => Parent(r) \notin gone[c]

(* The kinds of row a cleanup is done with.                                *)
Passed == [rule     |-> {},
           decision |-> {"rule"},
           event    |-> {"rule", "decision"},
           reminder |-> {"rule", "decision", "event"},
           digest   |-> {"rule", "decision", "event", "reminder"},
           link     |-> {"rule", "decision", "event", "reminder", "digest"},
           job      |-> Statement \ {"job"},
           commit   |-> Statement]

(* What an undisturbed cleanup has read is still so, and of the jobs it    *)
(* chose no row is left of the kinds it is done with.                      *)
Listing(c) ==
  at[c] = "partition" => Associated(source[c]) \subseteq doomed[c]

Choice(c) ==
  at[c] \in Statement \cup {"ids", "commit"} =>
    /\ \A j \in Associated(source[c]) : j \in doomed[c] \/ bucket[j] = "matched"
    /\ \A j \in doomed[c] : Present(j) => bucket[j] # "matched"

DecisionsRead(c) ==
  at[c] = "rule" => \A r \in rows : r[1] = "decision" /\ r[2] \in doomed[c] => r \in ids[c]

NoneLeft(c) ==
  at[c] \in Statement \cup {"commit"} =>
    \A r \in rows \ gone[c] : r[2] \in doomed[c] => r[1] \notin Passed[at[c]]

QuietInv ==
  \A c \in Cleanup : quiet[c] => Listing(c) /\ Choice(c) /\ DecisionsRead(c) /\ NoneLeft(c)

(* A request past its load has a source.                                   *)
SourceInv == \A c \in Cleanup : at[c] # "none" => source[c] \in Source

IInv == /\ TypeOK
        /\ RowInv
        /\ GoneInv
        /\ BucketInv
        /\ ParentInv
        /\ QuietInv
        /\ SourceInv

-----------------------------------------------------------------------------
(* Lemmas about rows.                                                      *)

USE NoSourceAssumption, AttachingKinds, DecisionBound DEF Number

(* A row is a triple of a kind, a job and a number or a source.            *)
LEMMA RowShape ==
  ASSUME NEW r \in Row
  PROVE  /\ r = <<r[1], r[2], r[3]>>
         /\ r[1] \in Statement
         /\ r[2] \in Job
  BY DEF Row, Statement

(* A row refers to its parent.                                             *)
LEMMA RefersToParent ==
  ASSUME NEW r \in Row, r[1] # "job"
  PROVE  RefersTo(r, Parent(r))
  BY RowShape DEF RefersTo, Parent, JobRow

(* A row of a kind is done with once its statement is.                     *)
LEMMA PassedNext ==
  ASSUME NEW k \in Statement
  PROVE  /\ After[k] \in Statement \cup {"commit"}
         /\ Passed[After[k]] = Passed[k] \cup {k}
         /\ After[k] # "rule"
         /\ After[k] # "partition"
  BY DEF Statement, After, Passed

(* A write leaves the rows of the jobs of S only new companions: it adds   *)
(* rows of these jobs whose parents nobody deletes, and reclassifies only  *)
(* these jobs, no row of which in job_postings is being deleted.           *)
WriteTo(S) ==
  /\ rows \subseteq rows'
  /\ \A r \in rows' \ rows :
       /\ r[2] \in S
       /\ r[1] # "job" => Parent(r) \in rows' /\ \A c \in Cleanup : Parent(r) \notin gone[c]
  /\ \A j \in Job \ S : bucket'[j] = bucket[j] /\ primary'[j] = primary[j]
  /\ \A c \in Cleanup : \A r \in gone[c] : r[2] \in S => r[1] # "job"
  /\ Disturb(S, rows')
  /\ UNCHANGED <<at, source, doomed, ids, gone>>

(* Such a write keeps every part of the invariant that it does not type.   *)
LEMMA WriteKeeps ==
  ASSUME IInv, TypeOK', RowInv', NEW S \in SUBSET Job, WriteTo(S)
  PROVE  IInv'
<1> USE DEF WriteTo
<1>1. GoneInv'
  BY DEF IInv, GoneInv
<1>2. BucketInv'
  <2> SUFFICES ASSUME NEW c \in Cleanup, NEW r \in gone[c], r[1] = "job"
               PROVE  bucket'[r[2]] # "matched"
    BY DEF BucketInv
  <2>1. r \in Row
    BY DEF IInv, GoneInv, TypeOK
  <2>2. r[2] \in Job \ S
    BY <2>1, RowShape
  <2> QED
    BY <2>2 DEF IInv, BucketInv
<1>3. ParentInv'
  <2>1. ASSUME NEW r \in rows', r[1] # "job"
        PROVE  Parent(r) \in rows'
    BY <2>1 DEF IInv, ParentInv
  <2>2. ASSUME NEW c \in Cleanup, NEW r \in rows' \ gone'[c], r[1] # "job"
        PROVE  Parent(r) \notin gone'[c]
    BY <2>2 DEF IInv, ParentInv
  <2> QED
    BY <2>1, <2>2 DEF ParentInv, Parent, JobRow
<1>4. QuietInv'
  <2> SUFFICES ASSUME NEW c \in Cleanup, quiet'[c]
               PROVE  (Listing(c) /\ Choice(c) /\ DecisionsRead(c) /\ NoneLeft(c))'
    BY DEF QuietInv
  <2>1. /\ quiet[c]
        /\ \A j \in S : j \notin doomed[c]
        /\ \A j \in S : primary'[j] # source[c] /\ ~Linked(rows', j, source[c])
    BY DEF Disturb
  <2>2. Listing(c) /\ Choice(c) /\ DecisionsRead(c) /\ NoneLeft(c)
    BY <2>1 DEF IInv, QuietInv
  <2>3. ASSUME NEW j \in Job \ S
        PROVE  Present(j)' <=> Present(j)
    BY DEF Present, JobRow
  <2>4. Associated(source[c])' \subseteq Associated(source[c])
    <3> SUFFICES ASSUME NEW j \in Associated(source[c])'
                 PROVE  j \in Associated(source[c])
      OBVIOUS
    <3>1. j \in Job \ S
      BY <2>1 DEF Associated
    <3>2. Linked(rows', j, source[c]) => Linked(rows, j, source[c])
      BY <3>1 DEF Linked
    <3> QED
      BY <3>1, <3>2, <2>3 DEF Associated
  <2>5. doomed[c] \subseteq Job \ S
    BY <2>1 DEF IInv, TypeOK
  <2>6. Listing(c)'
    BY <2>2, <2>4 DEF Listing
  <2>7. Choice(c)'
    <3>1. \A j \in Associated(source[c])' : j \in Job \ S
      BY <2>1 DEF Associated
    <3> QED
      BY <3>1, <2>2, <2>3, <2>4, <2>5 DEF Choice
  <2>8. DecisionsRead(c)'
    BY <2>1, <2>2 DEF DecisionsRead
  <2>9. NoneLeft(c)'
    BY <2>1, <2>2 DEF NoneLeft
  <2> QED
    BY <2>6, <2>7, <2>8, <2>9
<1>5. SourceInv'
  BY DEF IInv, SourceInv
<1> QED
  BY <1>1, <1>2, <1>3, <1>4, <1>5 DEF IInv

(* Classifying the jobs of S, with the rows inserted beside, is such a     *)
(* write.                                                                  *)
LEMMA ClassifyKeeps ==
  ASSUME IInv,
         NEW S \in SUBSET Job, NEW f, \A j \in S : f[j] \in Bucket,
         NEW inserted \in SUBSET Row,
         \A r \in inserted : /\ r[2] \in S
                             /\ r[1] \notin {"rule", "decision"}
                             /\ r[1] = "job" => r = JobRow(r[2]),
         \A j \in S : JobRow(j) \in rows \cup inserted,
         NEW K, Free(S, K),
         primary' \in [Job -> Source],
         \A j \in Job \ S : primary'[j] = primary[j],
         flying' \subseteq Source, listed' \subseteq Source, opened' \subseteq Job,
         Classify(S, f, inserted),
         UNCHANGED <<deleted, at, source, doomed, ids, gone>>
  PROVE  IInv'
<1>1. \A j \in S : latest[j] + 1 \in Number
  BY DEF IInv, TypeOK, Classify
<1>2. TypeOK'
  <2>1. Decision(S) \subseteq Row
    BY <1>1 DEF Decision, Row
  <2>2. rows' \subseteq Row
    BY <2>1 DEF IInv, TypeOK, Classify
  <2>3. bucket' \in [Job -> Bucket]
    BY DEF IInv, TypeOK, Classify
  <2>4. latest' \in [Job -> Number]
    BY <1>1 DEF IInv, TypeOK, Classify
  <2>5. quiet' \in [Cleanup -> BOOLEAN]
    BY DEF IInv, TypeOK, Classify, Disturb
  <2> QED
    BY <2>2, <2>3, <2>4, <2>5 DEF IInv, TypeOK
<1>3. \A j \in Job : latest'[j] \in Nat /\ latest[j] \in Nat /\ latest'[j] >= latest[j]
  BY DEF IInv, TypeOK, Classify
<1>4. ASSUME NEW r \in Decision(S)
      PROVE  /\ r[1] \in {"rule", "decision"}
             /\ r[2] \in S
             /\ r = <<r[1], r[2], latest[r[2]] + 1>>
             /\ r[3] = latest[r[2]] + 1
  BY DEF Decision
<1>5. RowInv'
  <2> SUFFICES ASSUME NEW r \in rows'
               PROVE  /\ r[1] \in {"rule", "decision"} => r[3] <= latest'[r[2]]
                      /\ r[1] = "job" => r = JobRow(r[2])
    BY DEF RowInv, JobRow
  <2>1. CASE r \in rows
    <3>1. r \in Row
      BY <2>1 DEF IInv, TypeOK
    <3>2. r[2] \in Job
      BY <3>1, RowShape
    <3>3. r[1] \in {"rule", "decision"} => r[3] \in Number
      BY <3>1 DEF Row
    <3> QED
      BY <2>1, <3>2, <3>3, <1>3 DEF IInv, RowInv
  <2>2. CASE r \in Decision(S)
    <3>1. latest'[r[2]] = latest[r[2]] + 1
      BY <1>4, <2>2 DEF Classify
    <3> QED
      BY <1>3, <1>4, <2>2, <3>1
  <2>3. CASE r \in inserted
    BY <2>3
  <2> QED
    BY <2>1, <2>2, <2>3 DEF Classify
<1>6. ASSUME NEW j \in S, NEW c \in Cleanup
      PROVE  JobRow(j) \notin gone[c]
  BY DEF Free, JobRow
<1>7. ASSUME NEW j \in S, NEW c \in Cleanup
      PROVE  <<"decision", j, latest[j] + 1>> \notin gone[c]
  <2> SUFFICES ASSUME <<"decision", j, latest[j] + 1>> \in rows
               PROVE  FALSE
    BY DEF IInv, GoneInv
  <2>1. latest[j] + 1 <= latest[j]
    BY DEF IInv, RowInv
  <2> QED
    BY <2>1, <1>3
<1>8. ASSUME NEW r \in rows' \ rows
      PROVE  /\ r[2] \in S
             /\ r[1] # "job" =>
                  Parent(r) \in rows' /\ \A c \in Cleanup : Parent(r) \notin gone[c]
  <2>1. CASE r \in Decision(S) /\ r[1] = "rule"
    <3>1. Parent(r) = <<"decision", r[2], latest[r[2]] + 1>>
      BY <2>1, <1>4 DEF Parent
    <3>2. Parent(r) \in Decision(S)
      BY <2>1, <1>4, <3>1 DEF Decision
    <3> QED
      BY <2>1, <1>4, <1>7, <3>1, <3>2 DEF Classify
  <2>2. CASE r \in Decision(S) /\ r[1] = "decision"
    BY <2>2, <1>4, <1>6 DEF Parent, Classify
  <2>3. CASE r \in inserted
    BY <2>3, <1>6 DEF Parent, Classify
  <2> QED
    BY <2>1, <2>2, <2>3, <1>4 DEF Classify
<1>9. WriteTo(S)
  <2>1. \A c \in Cleanup : \A r \in gone[c] : r[2] \in S => r[1] # "job"
    BY DEF Free
  <2>2. \A j \in Job \ S : bucket'[j] = bucket[j]
    BY DEF Classify
  <2> QED
    BY <1>8, <2>1, <2>2 DEF WriteTo, Classify
<1> QED
  BY <1>2, <1>5, <1>9, WriteKeeps

-----------------------------------------------------------------------------
(* The other transactions.                                                 *)

(* Reclassification, runs, tracking and the handlers keep the invariant.   *)
LEMMA WriteStepKeeps ==
  ASSUME IInv, Write
  PROVE  IInv'
<1>1. CASE Reclassify
  <2> DEFINE S == {j \in Job : Present(j)}
  <2>1. PICK f \in [Job -> Bucket] : Classify(S, f, {})
    BY <1>1 DEF Reclassify
  <2>2. \A j \in S : f[j] \in Bucket /\ JobRow(j) \in rows
    BY DEF Present
  <2>3. /\ Free(S, {"decision"})
        /\ primary' = primary
        /\ UNCHANGED <<deleted, at, source, doomed, ids, gone, flying, listed, opened>>
    BY <1>1 DEF Reclassify, env
  <2> QED
    BY <2>1, <2>2, <2>3, ClassifyKeeps DEF IInv, TypeOK
<1>2. ASSUME NEW s \in Source, BeginRun(s)
      PROVE  IInv'
  BY <1>2 DEF BeginRun, db, task, IInv, TypeOK, RowInv, GoneInv, BucketInv, ParentInv, QuietInv,
     Listing, Choice, DecisionsRead, NoneLeft, SourceInv, Associated, Present, Linked, Parent
<1>3. ASSUME NEW s \in Source, CommitRun(s)
      PROVE  IInv'
  <2>1. PICK S \in SUBSET {j \in Job : Present(j)} :
           /\ Free(S, {"decision"})
           /\ primary' = primary
           /\ \E f \in [S -> Bucket] : Classify(S, f, {<<"link", j, s>> : j \in S})
    BY <1>3 DEF CommitRun
  <2>2. PICK f \in [S -> Bucket] : Classify(S, f, {<<"link", j, s>> : j \in S})
    BY <2>1
  <2> DEFINE inserted == {<<"link", j, s>> : j \in S}
  <2>3. /\ inserted \in SUBSET Row
        /\ \A r \in inserted : /\ r[2] \in S
                               /\ r[1] \notin {"rule", "decision"}
                               /\ r[1] = "job" => r = JobRow(r[2])
    BY DEF Row
  <2>4. \A j \in S : f[j] \in Bucket /\ JobRow(j) \in rows
    BY DEF Present
  <2>5. /\ flying' \subseteq Source /\ listed' \subseteq Source /\ opened' \subseteq Job
        /\ UNCHANGED <<deleted, at, source, doomed, ids, gone>>
    BY <1>3 DEF CommitRun, IInv, TypeOK
  <2>6. primary' \in [Job -> Source]
    BY <2>1 DEF IInv, TypeOK
  <2> HIDE DEF inserted
  <2> QED
    BY <2>1, <2>2, <2>3, <2>4, <2>5, <2>6, ClassifyKeeps DEF inserted
<1>4. ASSUME NEW j \in Job, NEW s \in Source, TrackTransient(j, s)
      PROVE  IInv'
  <2> DEFINE inserted == {JobRow(j), <<"link", j, s>>, <<"event", j, 1>>}
  <2>1. PICK f \in [{j} -> Bucket] : Classify({j}, f, inserted)
    BY <1>4 DEF TrackTransient
  <2>2. /\ inserted \in SUBSET Row
        /\ \A r \in inserted : /\ r[2] \in {j}
                               /\ r[1] \notin {"rule", "decision"}
                               /\ r[1] = "job" => r = JobRow(r[2])
        /\ \A i \in {j} : JobRow(i) \in rows \cup inserted
    BY DEF Row, JobRow
  <2>3. /\ Free({j}, {"decision"})
        /\ UNCHANGED <<deleted, at, source, doomed, ids, gone, flying, listed, opened>>
    BY <1>4 DEF TrackTransient, env
  <2>4. primary' \in [Job -> Source] /\ \A i \in Job \ {j} : primary'[i] = primary[i]
    BY <1>4 DEF TrackTransient, IInv, TypeOK
  <2>5. \A i \in {j} : f[i] \in Bucket
    OBVIOUS
  <2>6. flying' \subseteq Source /\ listed' \subseteq Source /\ opened' \subseteq Job
    BY <2>3 DEF IInv, TypeOK
  <2> HIDE DEF inserted
  <2> QED
    BY <2>1, <2>2, <2>3, <2>4, <2>5, <2>6, ClassifyKeeps
<1>5. ASSUME NEW j \in Job, Open(j)
      PROVE  IInv'
  BY <1>5 DEF Open, db, task, IInv, TypeOK, RowInv, GoneInv, BucketInv, ParentInv, QuietInv,
     Listing, Choice, DecisionsRead, NoneLeft, SourceInv, Associated, Present, Linked, Parent
<1>6. ASSUME NEW j \in Job, NEW k \in Attaching, Attach(j, k)
      PROVE  IInv'
  <2>1. CASE Present(j)
    <3>1. rows' = rows \cup {<<k, j, 1>>} /\ Disturb({j}, rows')
      BY <1>6, <2>1 DEF Attach
    <3>2. TypeOK'
      <4>1. <<k, j, 1>> \in Row
        BY DEF Row
      <4>2. quiet' \in [Cleanup -> BOOLEAN]
        BY <3>1 DEF Disturb, IInv, TypeOK
      <4> QED
        BY <1>6, <3>1, <4>1, <4>2 DEF Attach, IInv, TypeOK
    <3>3. RowInv'
      <4>1. k \notin {"rule", "decision", "job"}
        OBVIOUS
      <4> QED
        BY <1>6, <3>1, <4>1 DEF Attach, IInv, RowInv, JobRow
    <3>4. WriteTo({j})
      <4>1. \A c \in Cleanup : \A r \in gone[c] : r[2] \in {j} => r[1] # "job"
        BY <1>6 DEF Attach, Free
      <4>2. \A c \in Cleanup : JobRow(j) \notin gone[c]
        BY <4>1 DEF JobRow
      <4>3. Parent(<<k, j, 1>>) = JobRow(j)
        BY DEF Parent
      <4> QED
        BY <1>6, <2>1, <3>1, <4>1, <4>2, <4>3 DEF Attach, WriteTo, Present
    <3> QED
      BY <3>2, <3>3, <3>4, WriteKeeps
  <2>2. CASE ~Present(j)
    <3>1. /\ UNCHANGED <<db, task, flying, listed>>
          /\ opened' \subseteq opened
      BY <1>6, <2>2 DEF Attach, db, task
    <3> QED
      BY <3>1 DEF db, task, IInv, TypeOK, RowInv, GoneInv, BucketInv, ParentInv, QuietInv,
         Listing, Choice, DecisionsRead, NoneLeft, SourceInv, Associated, Present, Linked, Parent
  <2> QED
    BY <2>1, <2>2
<1> QED
  BY <1>1, <1>2, <1>3, <1>4, <1>5, <1>6 DEF Write

-----------------------------------------------------------------------------
(* Initial states.                                                         *)

(* Every initial database, with no request begun, satisfies it.            *)
LEMMA InitIInv == Init => IInv
<1> SUFFICES ASSUME Init
             PROVE  IInv
  OBVIOUS
<1>1. PICK linked \in [Job -> SUBSET Source] : rows = UNION {
          IF latest[j] = 0 THEN {} ELSE
            {JobRow(j), <<"event", j, 0>>, <<"rule", j, 1>>, <<"decision", j, 1>>}
              \cup {<<"link", j, s>> : s \in linked[j] \cup {primary[j]}} : j \in Job}
  BY DEF Init
<1>2. ASSUME NEW r \in rows
      PROVE  \E j \in Job :
               /\ latest[j] = 1
               /\ r = JobRow(j) \/ r = <<"event", j, 0>> \/ r = <<"rule", j, 1>>
                  \/ r = <<"decision", j, 1>> \/ \E s \in Source : r = <<"link", j, s>>
  <2>1. PICK j \in Job : r \in IF latest[j] = 0 THEN {} ELSE
            {JobRow(j), <<"event", j, 0>>, <<"rule", j, 1>>, <<"decision", j, 1>>}
              \cup {<<"link", j, s>> : s \in linked[j] \cup {primary[j]}}
    BY <1>1
  <2>2. latest[j] = 1 /\ primary[j] \in Source
    BY <2>1 DEF Init
  <2> QED
    BY <2>1, <2>2
<1>3. ASSUME NEW j \in Job, latest[j] = 1
      PROVE  JobRow(j) \in rows /\ <<"decision", j, 1>> \in rows
  BY <1>1, <1>3
<1>4. TypeOK
  <2>1. rows \subseteq Row
    BY <1>2 DEF Row, JobRow
  <2> QED
    BY <2>1 DEF Init, TypeOK, Running, Ended
<1>5. RowInv
  BY <1>2 DEF RowInv, JobRow
<1>6. GoneInv /\ BucketInv /\ QuietInv /\ SourceInv
  BY DEF Init, GoneInv, BucketInv, QuietInv, SourceInv
<1>7. ParentInv
  <2>1. ASSUME NEW r \in rows, r[1] # "job"
        PROVE  Parent(r) \in rows
    <3>1. PICK j \in Job :
               /\ latest[j] = 1
               /\ r = JobRow(j) \/ r = <<"event", j, 0>> \/ r = <<"rule", j, 1>>
                  \/ r = <<"decision", j, 1>> \/ \E s \in Source : r = <<"link", j, s>>
      BY <1>2
    <3>2. CASE r = <<"rule", j, 1>>
      BY <1>3, <3>1, <3>2 DEF Parent
    <3>3. CASE r # <<"rule", j, 1>>
      <4>1. r[1] # "rule" /\ r[2] = j
        BY <3>1, <3>3 DEF JobRow
      <4> QED
        BY <1>3, <3>1, <4>1 DEF Parent
    <3> QED
      BY <3>2, <3>3
  <2> QED
    BY <2>1 DEF ParentInv, Init
<1> QED
  BY <1>4, <1>5, <1>6, <1>7 DEF IInv

-----------------------------------------------------------------------------
(* The request and the background task.                                    *)

(* A step of c that deletes and reads nothing keeps what concerns the      *)
(* others: they do not see where c stands.                                 *)
LEMMA OthersKeep ==
  ASSUME IInv, NEW c \in Cleanup, NEW d \in Cleanup, c # d, quiet[d],
         UNCHANGED <<rows, primary, bucket>>,
         at'[d] = at[d], source'[d] = source[d], doomed'[d] = doomed[d], ids'[d] = ids[d],
         gone'[d] = gone[d]
  PROVE  (Listing(d) /\ Choice(d) /\ DecisionsRead(d) /\ NoneLeft(d))'
BY DEF IInv, QuietInv, Listing, Choice, DecisionsRead, NoneLeft, Associated, Present, Linked

(* The delete request keeps the invariant.                                 *)
LEMMA RequestKeeps ==
  ASSUME IInv, NEW c \in Cleanup, Request(c)
  PROVE  IInv'
<1>1. ASSUME NEW s \in Source, LoadSource(c, s)
      PROVE  IInv'
  <2>1. TypeOK' /\ RowInv' /\ GoneInv' /\ BucketInv' /\ ParentInv' /\ SourceInv'
    BY <1>1 DEF LoadSource, db, env, IInv, TypeOK, RowInv, GoneInv, BucketInv, ParentInv,
       SourceInv, Parent, Statement
  <2>2. ASSUME NEW d \in Cleanup, quiet'[d]
        PROVE  (Listing(d) /\ Choice(d) /\ DecisionsRead(d) /\ NoneLeft(d))'
    <3>1. CASE d = c
      BY <1>1, <3>1 DEF LoadSource, IInv, TypeOK, Listing, Choice, DecisionsRead, NoneLeft, Statement
    <3>2. CASE d # c
      BY <1>1, <2>2, <3>2, OthersKeep DEF LoadSource, db, IInv, TypeOK
    <3> QED
      BY <3>1, <3>2
  <2> QED
    BY <2>1, <2>2 DEF IInv, QuietInv
<1>2. CASE SoftDelete(c)
  <2>1. TypeOK' /\ RowInv' /\ GoneInv' /\ BucketInv' /\ ParentInv' /\ SourceInv'
    BY <1>2 DEF SoftDelete, env, IInv, TypeOK, RowInv, GoneInv, BucketInv, ParentInv,
       SourceInv, Parent, Statement, Running
  <2>2. ASSUME NEW d \in Cleanup, quiet'[d]
        PROVE  (Listing(d) /\ Choice(d) /\ DecisionsRead(d) /\ NoneLeft(d))'
    <3>1. CASE d = c
      BY <1>2, <3>1 DEF SoftDelete, IInv, TypeOK, Listing, Choice, DecisionsRead, NoneLeft, Statement
    <3>2. CASE d # c
      BY <1>2, <2>2, <3>2, OthersKeep DEF SoftDelete, IInv, TypeOK
    <3> QED
      BY <3>1, <3>2
  <2> QED
    BY <2>1, <2>2 DEF IInv, QuietInv
<1> QED
  BY <1>1, <1>2 DEF Request

(* What the steps of a task that delete nothing share.                     *)
LEMMA ReadKeeps ==
  ASSUME IInv, NEW c \in Cleanup, TypeOK',
         at[c] \in {"queued", "list", "partition", "ids"},
         UNCHANGED <<db, source, gone>>,
         \A d \in Cleanup \ {c} : /\ at'[d] = at[d] /\ doomed'[d] = doomed[d]
                                  /\ ids'[d] = ids[d] /\ quiet'[d] = quiet[d],
         quiet'[c] => (Listing(c) /\ Choice(c) /\ DecisionsRead(c) /\ NoneLeft(c))'
  PROVE  IInv'
<1>1. gone[c] = {}
  BY DEF IInv, GoneInv, Statement
<1>2. RowInv' /\ BucketInv' /\ ParentInv'
  BY DEF db, IInv, RowInv, BucketInv, ParentInv, Parent
<1>3. GoneInv'
  BY <1>1 DEF db, IInv, GoneInv
<1>4. SourceInv'
  BY DEF IInv, SourceInv
<1>5. QuietInv'
  <2>1. ASSUME NEW d \in Cleanup \ {c}, quiet'[d]
        PROVE  (Listing(d) /\ Choice(d) /\ DecisionsRead(d) /\ NoneLeft(d))'
    BY <2>1, OthersKeep DEF db
  <2> QED
    BY <2>1 DEF QuietInv
<1> QED
  BY <1>2, <1>3, <1>4, <1>5 DEF IInv

(* A DELETE takes rows that nobody else holds and whose dependents it has  *)
(* taken before.                                                           *)
LEMMA DeleteRowsKeeps ==
  ASSUME IInv, NEW c \in Cleanup, NEW k \in Statement, DeleteRows(c, k)
  PROVE  IInv'
<1>1. /\ at[c] = k
      /\ \A d \in Cleanup : ~WaitsFor(c, d)
      /\ Dependent(c, k) = {}
      /\ gone' = [gone EXCEPT ![c] = gone[c] \cup Selected(c, k)]
      /\ at' = [at EXCEPT ![c] = After[k]]
      /\ UNCHANGED <<db, source, doomed, ids, quiet, env>>
  BY DEF DeleteRows
<1>2. /\ gone'[c] = gone[c] \cup Selected(c, k)
      /\ at'[c] = After[k]
      /\ \A d \in Cleanup \ {c} : gone'[d] = gone[d] /\ at'[d] = at[d]
  BY <1>1 DEF IInv, TypeOK
<1>3. Selected(c, k) \subseteq rows /\ rows \subseteq Row
  BY DEF Selected, IInv, TypeOK
<1>4. TypeOK'
  <2>1. gone' \in [Cleanup -> SUBSET Row]
    BY <1>1, <1>3 DEF IInv, TypeOK
  <2>2. at' \in [Cleanup -> {"none", "loaded"} \cup Running \cup Ended]
    BY <1>1, PassedNext DEF IInv, TypeOK, Running
  <2> QED
    BY <1>1, <2>1, <2>2 DEF IInv, TypeOK, db, env
<1>5. RowInv' /\ SourceInv'
  <2>1. \A d \in Cleanup : at'[d] # "none" => at[d] # "none"
    BY <1>1, <1>2 DEF Statement
  <2> QED
    BY <1>1, <2>1 DEF IInv, RowInv, SourceInv, db
<1>6. GoneInv'
  <2>1. ASSUME NEW d \in Cleanup, d # c
        PROVE  Selected(c, k) \cap gone[d] = {}
    BY <1>1, <2>1 DEF WaitsFor
  <2>2. \A r \in Selected(c, k) : r[2] \in doomed[c]
    BY DEF Selected
  <2>3. \A d \in Cleanup : gone'[d] \subseteq rows'
    BY <1>1, <1>2, <1>3 DEF IInv, GoneInv, db
  <2>4. ASSUME NEW d \in Cleanup, NEW e \in Cleanup, d # e
        PROVE  gone'[d] \cap gone'[e] = {}
    BY <1>2, <2>1, <2>4 DEF IInv, GoneInv
  <2>5. \A d \in Cleanup : \A r \in gone'[d] : r[2] \in doomed'[d]
    BY <1>1, <1>2, <2>2 DEF IInv, GoneInv
  <2>6. \A d \in Cleanup : at'[d] \notin Statement \cup {"commit"} => gone'[d] = {}
    BY <1>2, PassedNext DEF IInv, GoneInv
  <2> QED
    BY <2>3, <2>4, <2>5, <2>6 DEF GoneInv
<1>7. BucketInv'
  <2>1. \A r \in Selected(c, k) : r[1] = "job" => bucket[r[2]] # "matched"
    BY DEF Selected
  <2> QED
    BY <1>1, <1>2, <2>1 DEF IInv, BucketInv, db
<1>8. ParentInv'
  <2>1. ASSUME NEW r \in rows \ gone'[c], r[1] # "job"
        PROVE  Parent(r) \notin gone'[c]
    <3>1. r \in rows \ gone[c] /\ r \notin Selected(c, k)
      BY <1>2, <2>1
    <3>2. Parent(r) \notin gone[c]
      BY <3>1, <2>1 DEF IInv, ParentInv
    <3>3. ASSUME Parent(r) \in Selected(c, k)
          PROVE  FALSE
      <4>1. RefersTo(r, Parent(r))
        BY <1>3, <2>1, RefersToParent
      <4>2. r \in Dependent(c, k)
        BY <3>1, <3>3, <4>1 DEF Dependent
      <4> QED
        BY <1>1, <4>2
    <3> QED
      BY <1>2, <3>2, <3>3
  <2>2. ASSUME NEW d \in Cleanup, d # c, NEW r \in rows \ gone'[d], r[1] # "job"
        PROVE  Parent(r) \notin gone'[d]
    BY <1>2, <2>2 DEF IInv, ParentInv
  <2>3. \A d \in Cleanup : \A r \in rows \ gone'[d] : r[1] # "job" => Parent(r) \notin gone'[d]
    BY <2>1, <2>2
  <2> QED
    BY <1>1, <2>3 DEF IInv, ParentInv, db, Parent, JobRow
<1>9. QuietInv'
  <2>1. ASSUME quiet[c]
        PROVE  (Listing(c) /\ Choice(c) /\ DecisionsRead(c) /\ NoneLeft(c))'
    <3>1. Listing(c)' /\ DecisionsRead(c)'
      BY <1>2, PassedNext DEF Listing, DecisionsRead
    <3>2. Choice(c)
      BY <2>1 DEF IInv, QuietInv
    <3>3. Choice(c)'
      BY <1>1, <1>2, <3>2 DEF Choice, db, Associated, Present, Linked
    <3>4. ASSUME NEW r \in rows \ gone'[c], r[2] \in doomed[c]
          PROVE  r[1] \notin Passed[k] \cup {k}
      <4>1. r \in rows \ gone[c] /\ r \notin Selected(c, k)
        BY <1>2, <3>4
      <4>2. r[1] \notin Passed[k]
        BY <1>1, <2>1, <3>4, <4>1 DEF IInv, QuietInv, NoneLeft
      <4>3. ASSUME r[1] = k
            PROVE  FALSE
        <5>1. \/ k = "rule" /\ <<"decision", r[2], r[3]>> \notin ids[c]
              \/ k = "job" /\ bucket[r[2]] = "matched"
          BY <3>4, <4>1, <4>3 DEF Selected
        <5>2. CASE k = "rule" /\ <<"decision", r[2], r[3]>> \notin ids[c]
          <6>1. Parent(r) = <<"decision", r[2], r[3]>> /\ Parent(r) \in rows
            BY <4>1, <4>3, <5>2 DEF IInv, ParentInv, Parent
          <6>2. Parent(r)[1] = "decision" /\ Parent(r)[2] \in doomed[c]
            BY <3>4, <6>1
          <6>3. DecisionsRead(c) /\ at[c] = "rule"
            BY <1>1, <2>1, <5>2 DEF IInv, QuietInv
          <6> QED
            BY <5>2, <6>1, <6>2, <6>3 DEF DecisionsRead
        <5>3. CASE k = "job" /\ bucket[r[2]] = "matched"
          <6>1. Present(r[2])
            BY <4>1, <4>3, <5>3 DEF IInv, RowInv, Present
          <6> QED
            BY <1>1, <3>2, <3>4, <5>3, <6>1 DEF Choice
        <5> QED
          BY <5>1, <5>2, <5>3
      <4> QED
        BY <4>2, <4>3
    <3>5. NoneLeft(c)'
      BY <1>1, <1>2, <3>4, PassedNext DEF NoneLeft, db
    <3> QED
      BY <3>1, <3>3, <3>5
  <2>2. ASSUME NEW d \in Cleanup \ {c}, quiet[d]
        PROVE  (Listing(d) /\ Choice(d) /\ DecisionsRead(d) /\ NoneLeft(d))'
    BY <1>1, <1>2, <2>2, OthersKeep DEF db
  <2> QED
    BY <1>1, <2>1, <2>2 DEF QuietInv
<1> QED
  BY <1>4, <1>5, <1>6, <1>7, <1>8, <1>9 DEF IInv

(* A rollback gives up what a cleanup deleted, and ends it.                *)
LEMMA RollbackKeeps ==
  ASSUME IInv, NEW c \in Cleanup, at[c] # "none",
         NEW outcome \in {"refused", "failed"}, Rollback(c, outcome)
  PROVE  IInv'
<1>1. /\ gone' = [gone EXCEPT ![c] = {}]
      /\ at' = [at EXCEPT ![c] = outcome]
      /\ doomed' = [doomed EXCEPT ![c] = {}]
      /\ ids' = [ids EXCEPT ![c] = {}]
      /\ UNCHANGED <<db, source, quiet, env>>
  BY DEF Rollback
<1>2. /\ gone'[c] = {} /\ at'[c] = outcome
      /\ \A d \in Cleanup \ {c} : /\ gone'[d] = gone[d] /\ at'[d] = at[d]
                                  /\ doomed'[d] = doomed[d] /\ ids'[d] = ids[d]
  BY <1>1 DEF IInv, TypeOK
<1>3. TypeOK'
  BY <1>1 DEF db, env, IInv, TypeOK, Ended
<1>4. RowInv' /\ BucketInv' /\ SourceInv'
  BY <1>1, <1>2 DEF db, IInv, RowInv, BucketInv, SourceInv
<1>5. GoneInv'
  BY <1>1, <1>2 DEF db, IInv, GoneInv
<1>6. ParentInv'
  BY <1>1, <1>2 DEF db, IInv, ParentInv, Parent, JobRow
<1>7. QuietInv'
  <2>1. (Listing(c) /\ Choice(c) /\ DecisionsRead(c) /\ NoneLeft(c))'
    BY <1>2 DEF Listing, Choice, DecisionsRead, NoneLeft, Statement
  <2>2. ASSUME NEW d \in Cleanup \ {c}, quiet[d]
        PROVE  (Listing(d) /\ Choice(d) /\ DecisionsRead(d) /\ NoneLeft(d))'
    BY <1>1, <1>2, <2>2, OthersKeep DEF db
  <2> QED
    BY <1>1, <2>1, <2>2 DEF QuietInv
<1> QED
  BY <1>3, <1>4, <1>5, <1>6, <1>7 DEF IInv

(* A commit removes rows, and what is left of a row's family is complete.  *)
LEMMA CommitKeeps ==
  ASSUME IInv, NEW c \in Cleanup, Commit(c)
  PROVE  IInv'
<1>1. /\ at[c] = "commit"
      /\ rows' = rows \ gone[c]
      /\ gone' = [gone EXCEPT ![c] = {}]
      /\ at' = [at EXCEPT ![c] = "success"]
      /\ doomed' = [doomed EXCEPT ![c] = {}]
      /\ ids' = [ids EXCEPT ![c] = {}]
      /\ quiet' = [quiet EXCEPT ![c] = FALSE]
      /\ UNCHANGED <<deleted, primary, bucket, latest, source, env>>
  BY DEF Commit
<1>2. /\ gone'[c] = {} /\ at'[c] = "success" /\ quiet'[c] = FALSE
      /\ \A d \in Cleanup \ {c} :
           /\ gone'[d] = gone[d] /\ at'[d] = at[d] /\ doomed'[d] = doomed[d]
           /\ ids'[d] = ids[d] /\ quiet'[d] = quiet[d]
  BY <1>1 DEF IInv, TypeOK
<1>3. TypeOK'
  BY <1>1 DEF env, IInv, TypeOK, Ended
<1>4. RowInv' /\ BucketInv' /\ SourceInv'
  BY <1>1, <1>2 DEF IInv, RowInv, BucketInv, SourceInv, JobRow
<1>5. GoneInv'
  <2>1. \A d \in Cleanup : gone'[d] \subseteq rows'
    BY <1>1, <1>2 DEF IInv, GoneInv
  <2> QED
    BY <1>1, <1>2, <2>1 DEF IInv, GoneInv
<1>6. ParentInv'
  <2>1. ASSUME NEW r \in rows', r[1] # "job"
        PROVE  Parent(r) \in rows' /\ \A d \in Cleanup : r \notin gone'[d] => Parent(r) \notin gone'[d]
    BY <1>1, <1>2, <2>1 DEF IInv, ParentInv
  <2> QED
    BY <2>1 DEF ParentInv, Parent, JobRow
<1>7. QuietInv'
  <2> SUFFICES ASSUME NEW d \in Cleanup, quiet'[d]
               PROVE  (Listing(d) /\ Choice(d) /\ DecisionsRead(d) /\ NoneLeft(d))'
    BY DEF QuietInv
  <2>1. d # c
    BY <1>2
  <2>2. Listing(d) /\ Choice(d) /\ DecisionsRead(d) /\ NoneLeft(d)
    BY <1>2, <2>1 DEF IInv, QuietInv
  <2>3. Associated(source[d])' \subseteq Associated(source[d])
    BY <1>1 DEF Associated, Present, Linked
  <2>4. \A j \in Job : Present(j)' => Present(j)
    BY <1>1 DEF Present, JobRow
  <2>5. doomed[d] \subseteq Job
    BY DEF IInv, TypeOK
  <2>6. Choice(d)'
    BY <1>1, <1>2, <2>1, <2>2, <2>3, <2>4, <2>5 DEF Choice
  <2>7. Listing(d)'
    BY <1>1, <1>2, <2>1, <2>2, <2>3 DEF Listing
  <2>8. DecisionsRead(d)' /\ NoneLeft(d)'
    BY <1>1, <1>2, <2>1, <2>2 DEF DecisionsRead, NoneLeft
  <2> QED
    BY <2>6, <2>7, <2>8
<1> QED
  BY <1>3, <1>4, <1>5, <1>6, <1>7 DEF IInv

(* Every statement of the background task keeps the invariant.             *)
LEMMA TaskStepKeeps ==
  ASSUME IInv, NEW c \in Cleanup, TaskStep(c)
  PROVE  IInv'
<1>1. CASE BeginCleanup(c)
  <2>1. TypeOK'
    BY <1>1 DEF BeginCleanup, db, env, IInv, TypeOK, Running
  <2>2. at'[c] = "list"
    BY <1>1 DEF BeginCleanup, IInv, TypeOK
  <2>3. (Listing(c) /\ Choice(c) /\ DecisionsRead(c) /\ NoneLeft(c))'
    BY <2>2 DEF Listing, Choice, DecisionsRead, NoneLeft, Statement
  <2>4. at[c] = "queued" /\ UNCHANGED <<db, source, gone, doomed, ids, quiet>>
    BY <1>1 DEF BeginCleanup
  <2>5. \A d \in Cleanup \ {c} : at'[d] = at[d]
    BY <1>1 DEF BeginCleanup, IInv, TypeOK
  <2> QED
    BY <2>1, <2>3, <2>4, <2>5, ReadKeeps
<1>2. CASE List(c)
  <2>1. TypeOK'
    BY <1>2 DEF List, db, env, IInv, TypeOK, Running, Associated
  <2>2. at'[c] = "partition" /\ doomed'[c] = Associated(source[c])
    BY <1>2 DEF List, IInv, TypeOK
  <2>3. Associated(source[c])' = Associated(source[c])
    BY <1>2 DEF List, db, Associated, Present, Linked
  <2>4. (Listing(c) /\ Choice(c) /\ DecisionsRead(c) /\ NoneLeft(c))'
    BY <2>2, <2>3 DEF Listing, Choice, DecisionsRead, NoneLeft, Statement
  <2>5. at[c] = "list" /\ UNCHANGED <<db, source, gone, ids>>
    BY <1>2 DEF List
  <2>6. \A d \in Cleanup \ {c} :
          at'[d] = at[d] /\ doomed'[d] = doomed[d] /\ quiet'[d] = quiet[d]
    BY <1>2 DEF List, IInv, TypeOK
  <2> QED
    BY <2>1, <2>4, <2>5, <2>6, ReadKeeps
<1>3. CASE Partition(c)
  <2> DEFINE rest == doomed[c] \ {j \in doomed[c] : Present(j) /\ bucket[j] = "matched"}
  <2>1. /\ at[c] = "partition"
        /\ UNCHANGED <<db, source, ids, gone, quiet, env>>
        /\ doomed' = [doomed EXCEPT ![c] = rest]
        /\ at' = [at EXCEPT ![c] = IF rest = {} THEN "commit" ELSE "ids"]
    BY <1>3 DEF Partition
  <2>2. TypeOK'
    BY <2>1 DEF db, env, IInv, TypeOK, Running
  <2>3. doomed'[c] = rest /\ at'[c] = (IF rest = {} THEN "commit" ELSE "ids")
    BY <2>1 DEF IInv, TypeOK
  <2>4. ASSUME quiet[c]
        PROVE  (Listing(c) /\ Choice(c) /\ DecisionsRead(c) /\ NoneLeft(c))'
    <3>1. Associated(source[c]) \subseteq doomed[c]
      BY <2>1, <2>4 DEF IInv, QuietInv, Listing
    <3>2. Associated(source[c])' = Associated(source[c])
      BY <2>1 DEF db, Associated, Present, Linked
    <3>3. \A j \in Associated(source[c]) : Present(j)
      BY DEF Associated
    <3>4. Choice(c)'
      BY <2>1, <2>3, <3>1, <3>2, <3>3 DEF Choice, db, Present
    <3>5. Listing(c)' /\ DecisionsRead(c)'
      BY <2>3 DEF Listing, DecisionsRead
    <3>6. NoneLeft(c)'
      BY <2>3 DEF NoneLeft, Statement
    <3> QED
      BY <3>4, <3>5, <3>6
  <2>5. \A d \in Cleanup \ {c} : at'[d] = at[d] /\ doomed'[d] = doomed[d]
    BY <2>1 DEF IInv, TypeOK
  <2> QED
    BY <2>1, <2>2, <2>4, <2>5, ReadKeeps
<1>4. CASE ReadDecisions(c)
  <2> DEFINE found == {r \in rows : r[1] = "decision" /\ r[2] \in doomed[c]}
  <2>1. /\ at[c] = "ids"
        /\ UNCHANGED <<db, source, doomed, gone, quiet, env>>
        /\ ids' = [ids EXCEPT ![c] = found]
        /\ at' = [at EXCEPT ![c] = IF found = {} THEN "decision" ELSE "rule"]
    BY <1>4 DEF ReadDecisions
  <2>2. TypeOK'
    BY <2>1 DEF db, env, IInv, TypeOK, Running, Statement
  <2>3. ids'[c] = found /\ at'[c] = (IF found = {} THEN "decision" ELSE "rule")
    BY <2>1 DEF IInv, TypeOK
  <2>4. ASSUME quiet[c]
        PROVE  (Listing(c) /\ Choice(c) /\ DecisionsRead(c) /\ NoneLeft(c))'
    <3>1. Choice(c)'
      BY <2>1, <2>3, <2>4 DEF IInv, QuietInv, Choice, db, Associated, Present, Linked, Statement
    <3>2. Listing(c)' /\ DecisionsRead(c)'
      BY <2>1, <2>3 DEF Listing, DecisionsRead, db
    <3>3. NoneLeft(c)'
      <4>1. CASE found = {}
        <5>1. ASSUME NEW r \in rows, r[2] \in doomed[c], r[1] = "rule"
              PROVE  FALSE
          <6>1. Parent(r) \in rows /\ Parent(r) = <<"decision", r[2], r[3]>>
            BY <5>1 DEF IInv, ParentInv, Parent
          <6> QED
            BY <4>1, <5>1, <6>1
        <5> QED
          BY <2>1, <2>3, <4>1, <5>1 DEF NoneLeft, Passed, db
      <4>2. CASE found # {}
        BY <2>3, <4>2 DEF NoneLeft, Passed
      <4> QED
        BY <4>1, <4>2
    <3> QED
      BY <3>1, <3>2, <3>3
  <2>5. \A d \in Cleanup \ {c} : at'[d] = at[d] /\ ids'[d] = ids[d]
    BY <2>1 DEF IInv, TypeOK
  <2> QED
    BY <2>1, <2>2, <2>4, <2>5, ReadKeeps
<1>5. ASSUME NEW k \in Statement, DeleteRows(c, k)
      PROVE  IInv'
  BY <1>5, DeleteRowsKeeps
<1>6. CASE Refuse(c)
  BY <1>6, RollbackKeeps DEF Refuse, Statement
<1>7. CASE Commit(c)
  BY <1>7, CommitKeeps
<1> QED
  BY <1>1, <1>2, <1>3, <1>4, <1>5, <1>6, <1>7 DEF TaskStep

(* A restart keeps it: what was not committed is back.                     *)
LEMMA RestartKeeps ==
  ASSUME IInv, Restart
  PROVE  IInv'
<1>1. /\ \A c \in Cleanup : at'[c] \in {"none", "lost"} \cup Ended /\ gone'[c] = {}
      /\ \A c \in Cleanup : at'[c] # "none" => at[c] # "none" /\ source'[c] = source[c]
      /\ UNCHANGED <<db, quiet>>
  <2>1. ASSUME NEW c \in Cleanup
        PROVE  at'[c] \in {"none", "lost"} \cup Ended /\ gone'[c] = {}
    BY DEF Restart, IInv, TypeOK, Ended
  <2>2. ASSUME NEW c \in Cleanup, at'[c] # "none"
        PROVE  at[c] # "none" /\ source'[c] = source[c]
    BY <2>2 DEF Restart, Running, Statement
  <2> QED
    BY <2>1, <2>2 DEF Restart
<1>2. TypeOK'
  <2>1. at' \in [Cleanup -> {"none", "loaded"} \cup Running \cup Ended]
    BY DEF Restart, IInv, TypeOK, Ended
  <2>2. source' \in [Cleanup -> Source \cup {NoSource}]
    BY DEF Restart, IInv, TypeOK
  <2> QED
    BY <2>1, <2>2 DEF Restart, db, IInv, TypeOK
<1>3. GoneInv' /\ BucketInv' /\ RowInv' /\ ParentInv' /\ SourceInv'
  BY <1>1 DEF db, IInv, GoneInv, BucketInv, RowInv, ParentInv, SourceInv, Parent, JobRow
<1>4. QuietInv'
  BY <1>1 DEF QuietInv, Listing, Choice, DecisionsRead, NoneLeft, Statement, Ended
<1> QED
  BY <1>2, <1>3, <1>4 DEF IInv

-----------------------------------------------------------------------------
(* The invariant and what follows from it.                                 *)

(* Every step keeps it.                                                    *)
LEMMA NextIInv == IInv /\ [Next]_vars => IInv'
<1> SUFFICES ASSUME IInv, [Next]_vars
             PROVE  IInv'
  OBVIOUS
<1>1. ASSUME NEW c \in Cleanup, Request(c)
      PROVE  IInv'
  BY <1>1, RequestKeeps
<1>2. ASSUME NEW c \in Cleanup, TaskStep(c)
      PROVE  IInv'
  BY <1>2, TaskStepKeeps
<1>3. ASSUME NEW c \in Cleanup, Fail(c)
      PROVE  IInv'
  BY <1>3, RollbackKeeps DEF Fail, Running, Statement
<1>4. CASE Write
  BY <1>4, WriteStepKeeps
<1>5. CASE Restart
  BY <1>5, RestartKeeps
<1>6. CASE UNCHANGED vars
  BY <1>6 DEF vars, db, task, env, IInv, TypeOK, RowInv, GoneInv, BucketInv, ParentInv, QuietInv,
     Listing, Choice, DecisionsRead, NoneLeft, SourceInv, Associated, Present, Linked, Parent,
     JobRow
<1> QED
  BY <1>1, <1>2, <1>3, <1>4, <1>5, <1>6 DEF Next

(* In every reachable state the inductive invariant holds: what a cleanup  *)
(* deletes is its own, complete under the foreign keys and, as long as     *)
(* nobody disturbed it, all there is.                                      *)
THEOREM Invariance == Spec => []IInv
BY InitIInv, NextIInv, PTL DEF Spec

(* Every variable of the cleanup keeps its type.                           *)
THEOREM TypeCorrect == Spec => []TypeOK
<1>1. IInv => TypeOK
  BY DEF IInv
<1> QED
  BY <1>1, Invariance, PTL

-----------------------------------------------------------------------------
(* What a step may do to rows.                                             *)

(* Only a commit removes rows, and only those it has deleted.              *)
LEMMA OnlyCommitDeletes ==
  ASSUME Next, NEW r \in rows, r \notin rows'
  PROVE  \E c \in Cleanup : Commit(c) /\ r \in gone[c]
<1>1. ASSUME NEW c \in Cleanup, Request(c) \/ TaskStep(c) \/ Fail(c)
      PROVE  Commit(c)
  BY <1>1 DEF Request, TaskStep, Fail, LoadSource, SoftDelete, BeginCleanup, List, Partition,
     ReadDecisions, DeleteRows, Refuse, Rollback, db
<1>2. ~Write
  BY DEF Write, Reclassify, BeginRun, CommitRun, TrackTransient, Open, Attach, Classify, db
<1>3. ~Restart
  BY DEF Restart, db
<1>4. PICK c \in Cleanup : Commit(c)
  BY <1>1, <1>2, <1>3 DEF Next
<1> QED
  BY <1>4 DEF Commit

(* Only a commit ends a cleanup in success.                                *)
LEMMA OnlyCommitSucceeds ==
  ASSUME TypeOK, Next, NEW c \in Cleanup, at[c] = "commit", at'[c] = "success"
  PROVE  Commit(c)
<1>1. ~Write /\ ~Restart
  BY DEF Write, Reclassify, BeginRun, CommitRun, TrackTransient, Open, Attach, Restart, task,
     Running
<1>2. ASSUME NEW d \in Cleanup, d # c
      PROVE  ~(Request(d) \/ TaskStep(d) \/ Fail(d))
  BY <1>2 DEF TypeOK, Request, TaskStep, Fail, LoadSource, SoftDelete, BeginCleanup, List,
     Partition, ReadDecisions, DeleteRows, Refuse, Rollback, Commit
<1>3. ~Request(c) /\ ~Fail(c)
  BY DEF TypeOK, Request, Fail, LoadSource, SoftDelete, Rollback
<1>4. TaskStep(c)
  BY <1>1, <1>2, <1>3 DEF Next
<1> QED
  BY <1>4 DEF TypeOK, TaskStep, BeginCleanup, List, Partition, ReadDecisions, DeleteRows, Refuse,
     Rollback, Statement

(* An undisturbed cleanup leaves no row behind that its statement would     *)
(* orphan: it would be of a kind that it is done with.                     *)
LEMMA QuietLeavesNone ==
  ASSUME IInv, NEW c \in Cleanup, quiet[c], at[c] \in Statement
  PROVE  Dependent(c, at[c]) = {}
<1> SUFFICES ASSUME Dependent(c, at[c]) # {}
             PROVE  FALSE
  OBVIOUS
<1>2. PICK r \in rows \ gone[c], p \in Selected(c, at[c]) : RefersTo(r, p)
  BY DEF Dependent
<1>3. p \in Row /\ p[1] = at[c] /\ p[2] \in doomed[c]
  BY DEF Selected, IInv, TypeOK
<1>4. r \in Row
  BY DEF IInv, TypeOK
<1>5. NoneLeft(c)
  BY DEF IInv, QuietInv
<1>6. CASE p[1] = "job" /\ r[1] \notin {"job", "rule"} /\ r[2] = p[2]
  <2>1. r[1] \in Passed["job"]
    BY <1>4, <1>6, RowShape DEF Passed, Statement
  <2> QED
    BY <1>3, <1>5, <1>6, <2>1 DEF NoneLeft
<1>7. CASE p[1] = "decision" /\ r = <<"rule", p[2], p[3]>>
  <2>1. r[1] \in Passed["decision"] /\ r[2] \in doomed[c]
    BY <1>3, <1>7 DEF Passed
  <2> QED
    BY <1>3, <1>5, <1>7, <2>1 DEF NoneLeft
<1> QED
  BY <1>2, <1>6, <1>7 DEF RefersTo

(* Only the database refuses a cleanup.                                    *)
LEMMA OnlyRefuseRefuses ==
  ASSUME TypeOK, Next, NEW c \in Cleanup, at[c] # "refused", at'[c] = "refused"
  PROVE  Refuse(c)
<1>1. ~Write /\ ~Restart
  BY DEF Write, Reclassify, BeginRun, CommitRun, TrackTransient, Open, Attach, Restart, task,
     TypeOK
<1>2. ASSUME NEW d \in Cleanup, d # c
      PROVE  ~(Request(d) \/ TaskStep(d) \/ Fail(d))
  BY <1>2 DEF TypeOK, Request, TaskStep, Fail, LoadSource, SoftDelete, BeginCleanup, List,
     Partition, ReadDecisions, DeleteRows, Refuse, Rollback, Commit
<1>3. ~Request(c) /\ ~Fail(c)
  BY DEF TypeOK, Request, Fail, LoadSource, SoftDelete, Rollback
<1>4. TaskStep(c)
  BY <1>1, <1>2, <1>3 DEF Next
<1>5. ASSUME NEW k \in Statement
      PROVE  ~DeleteRows(c, k)
  BY PassedNext DEF DeleteRows, TypeOK, Statement
<1> QED
  BY <1>4, <1>5 DEF TypeOK, TaskStep, BeginCleanup, List, Partition, ReadDecisions, Refuse,
     Rollback, Commit

-----------------------------------------------------------------------------
(* Waiting.                                                                *)

(* A cleanup holds rows of the kinds that it is done with.                 *)
HeldInv ==
  \A c \in Cleanup : at[c] \in Statement \cup {"commit"} =>
    \A r \in gone[c] : r[1] \in Passed[at[c]]

LEMMA HeldStep == IInv /\ HeldInv /\ [Next]_vars => HeldInv'
<1> SUFFICES ASSUME IInv, HeldInv, [Next]_vars
             PROVE  HeldInv'
  OBVIOUS
<1>1. CASE UNCHANGED vars
  BY <1>1 DEF vars, task, HeldInv
<1>2. CASE Write
  BY <1>2 DEF Write, Reclassify, BeginRun, CommitRun, TrackTransient, Open, Attach, task, HeldInv
<1>3. CASE Restart
  BY <1>3 DEF Restart, HeldInv
<1>4. ASSUME NEW c \in Cleanup, Request(c) \/ TaskStep(c) \/ Fail(c)
      PROVE  HeldInv'
  <2>1. ASSUME NEW d \in Cleanup, d # c
        PROVE  at'[d] = at[d] /\ gone'[d] = gone[d]
    BY <1>4, <2>1 DEF IInv, TypeOK, Request, TaskStep, Fail, LoadSource, SoftDelete, BeginCleanup,
       List, Partition, ReadDecisions, DeleteRows, Refuse, Rollback, Commit
  <2>2. CASE \E k \in Statement : DeleteRows(c, k)
    <3>1. PICK k \in Statement : DeleteRows(c, k)
      BY <2>2
    <3>2. at[c] = k /\ at'[c] = After[k] /\ gone'[c] = gone[c] \cup Selected(c, k)
      BY <3>1 DEF DeleteRows, IInv, TypeOK
    <3>3. \A r \in gone'[c] : r[1] \in Passed[After[k]]
      BY <3>2, PassedNext DEF HeldInv, Selected
    <3>4. \A d \in Cleanup : d # c /\ at'[d] \in Statement \cup {"commit"} =>
            \A r \in gone'[d] : r[1] \in Passed[at'[d]]
      BY <2>1 DEF HeldInv
    <3> QED
      BY <3>2, <3>3, <3>4 DEF HeldInv
  <2>3. CASE BeginCleanup(c) \/ List(c) \/ Partition(c) \/ ReadDecisions(c) \/ Request(c)
    <3>1. gone[c] = {} /\ gone' = gone
      BY <2>3 DEF IInv, GoneInv, Statement, BeginCleanup, List, Partition, ReadDecisions,
         Request, LoadSource, SoftDelete
    <3> QED
      BY <2>1, <3>1 DEF HeldInv
  <2>4. CASE Refuse(c) \/ Fail(c) \/ Commit(c)
    <3>1. gone'[c] = {}
      BY <2>4 DEF IInv, TypeOK, Refuse, Fail, Rollback, Commit
    <3> QED
      BY <2>1, <3>1 DEF HeldInv
  <2> QED
    BY <1>4, <2>2, <2>3, <2>4 DEF TaskStep
<1> QED
  BY <1>1, <1>2, <1>3, <1>4 DEF Next

LEMMA Held == Spec => []HeldInv
<1>1. Init => HeldInv
  BY DEF Init, HeldInv
<1> QED
  BY <1>1, HeldStep, Invariance, PTL DEF Spec

(* The order in which cleanups take locks.                                 *)
Place == [rule     |-> 1, decision |-> 2, event |-> 3, reminder |-> 4,
          digest   |-> 5, link     |-> 6, job   |-> 7, commit   |-> 8]

LEMMA PlaceType == \A k \in Statement \cup {"commit"} : Place[k] \in 1 .. 8
BY DEF Statement, Place

LEMMA PassedIsBefore ==
  ASSUME NEW k \in Statement, NEW l \in Statement \cup {"commit"}, k \in Passed[l]
  PROVE  Place[k] < Place[l]
BY DEF Statement, Passed, Place

(* An undisturbed cleanup waits for one that is further.                   *)
LEMMA WaitsUp ==
  ASSUME IInv, HeldInv, NEW c \in Cleanup, NEW d \in Cleanup, WaitsFor(c, d)
  PROVE  /\ at[d] \in Statement \cup {"commit"}
         /\ quiet[c] => Place[at[c]] < Place[at[d]]
<1>1. at[c] \in Statement
  BY DEF WaitsFor
<1>2. at[d] \in Statement \cup {"commit"}
  BY DEF WaitsFor, IInv, GoneInv
<1>3. ASSUME quiet[c]
      PROVE  Place[at[c]] < Place[at[d]]
  <2>1. PICK r \in Selected(c, at[c]) : r \in gone[d]
    BY <1>1, <1>3, QuietLeavesNone DEF WaitsFor
  <2>2. r[1] = at[c] /\ r[1] \in Passed[at[d]]
    BY <1>2, <2>1 DEF Selected, HeldInv
  <2> QED
    BY <1>1, <1>2, <2>2, PassedIsBefore
<1> QED
  BY <1>2, <1>3

(* What a cleanup waits for is behind it, and so is what that waits for.   *)
LEMMA BehindClosed ==
  ASSUME NEW c \in Cleanup, NEW e \in Behind(c) \cup {c}, NEW f \in Cleanup, WaitsFor(e, f)
  PROVE  f \in Behind(c)
BY DEF Behind

LEMMA BehindLeast ==
  ASSUME NEW c \in Cleanup, NEW S \in SUBSET Cleanup, NEW d \in Behind(c),
         \A e \in S \cup {c}, f \in Cleanup : WaitsFor(e, f) => f \in S
  PROVE  d \in S
BY DEF Behind

(* In a circle of waits somebody has been disturbed.                       *)
LEMMA CircleDisturbed ==
  ASSUME IInv, HeldInv, NEW c \in Cleanup, c \in Behind(c)
  PROVE  \E d \in Behind(c) : ~quiet[d]
<1> SUFFICES ASSUME \A d \in Behind(c) : quiet[d]
             PROVE  FALSE
  OBVIOUS
<1> DEFINE S == {d \in Behind(c) : /\ at[d] \in Statement \cup {"commit"}
                                   /\ Place[at[c]] < Place[at[d]]}
<1>0. at[c] \in Statement \cup {"commit"}
  <2> DEFINE T == {e \in Cleanup : at[e] \in Statement \cup {"commit"}}
  <2>1. \A e \in T \cup {c}, f \in Cleanup : WaitsFor(e, f) => f \in T
    BY WaitsUp
  <2> QED
    BY <2>1, BehindLeast
<1>1. ASSUME NEW e \in S \cup {c}, NEW f \in Cleanup, WaitsFor(e, f)
      PROVE  f \in S
  <2>1. e \in Behind(c) /\ e \in Cleanup
    BY DEF Behind
  <2>2. f \in Behind(c)
    BY <1>1, <2>1, BehindClosed
  <2>3. at[e] \in Statement /\ at[f] \in Statement \cup {"commit"} /\ Place[at[e]] < Place[at[f]]
    BY <1>1, <2>1, WaitsUp DEF WaitsFor
  <2>4. e = c \/ Place[at[c]] < Place[at[e]]
    BY <1>1
  <2> QED
    BY <1>0, <2>2, <2>3, <2>4, PlaceType
<1>2. c \in S
  BY <1>1, BehindLeast DEF Behind
<1> QED
  BY <1>0, <1>2, PlaceType

(* No interleaving deletes the row of a job that is matched when it goes.  *)
THEOREM MatchedSurvives == Spec => RetainedNotDeleted
<1>1. ASSUME IInv, [Next]_vars
      PROVE  [\A j \in Job : Present(j) /\ ~Present(j)' => bucket[j] # "matched"]_vars
  <2> SUFFICES ASSUME Next, NEW j \in Job, Present(j), ~Present(j)'
               PROVE  bucket[j] # "matched"
    BY <1>1
  <2>1. PICK c \in Cleanup : Commit(c) /\ JobRow(j) \in gone[c]
    BY OnlyCommitDeletes DEF Present, JobRow
  <2> QED
    BY <1>1, <2>1 DEF IInv, BucketInv, JobRow
<1> QED
  BY <1>1, Invariance, PTL DEF Spec, RetainedNotDeleted

(* The order of the DELETE statements is the right one: the database has a *)
(* reason to refuse a cleanup only after another transaction wrote to its  *)
(* jobs, or to those of a cleanup it waits for, whatever other cleanups    *)
(* did.                                                                    *)
THEOREM RefusedDisturbed == Spec => RefusedOnlyIfDisturbed
<1>1. ASSUME IInv, HeldInv, [Next]_vars
      PROVE  [\A c \in Cleanup : at[c] # "refused" /\ at'[c] = "refused" =>
                \E d \in Behind(c) \cup {c} : ~quiet[d]]_vars
  <2> SUFFICES ASSUME Next, NEW c \in Cleanup, at[c] # "refused", at'[c] = "refused"
               PROVE  \E d \in Behind(c) \cup {c} : ~quiet[d]
    BY <1>1
  <2>1. Refuse(c)
    BY <1>1, OnlyRefuseRefuses DEF IInv
  <2>2. CASE c \in Behind(c)
    BY <1>1, <2>2, CircleDisturbed
  <2>3. CASE at[c] \in Statement /\ Dependent(c, at[c]) # {}
    BY <1>1, <2>3, QuietLeavesNone
  <2> QED
    BY <2>1, <2>2, <2>3 DEF Refuse
<1> QED
  BY <1>1, Held, Invariance, PTL DEF Spec, RefusedOnlyIfDisturbed

(* Nor is there ever a need to: behind a cleanup that waits there is one   *)
(* that goes on, if those that wait have not been disturbed.               *)
THEOREM QuietGoOn == Spec => []QuietNeverStuck
<1>1. IInv /\ HeldInv => QuietNeverStuck
  <2> SUFFICES ASSUME IInv, HeldInv, \A c, d \in Cleanup : WaitsFor(c, d) => quiet[c],
                      NEW c \in Cleanup, at[c] \in Running,
                      \A d \in Behind(c) \cup {c} :
                        at[d] \in Running => \E e \in Cleanup : WaitsFor(d, e)
               PROVE  FALSE
    BY DEF QuietNeverStuck
  <2>1. ASSUME NEW d \in Behind(c)
        PROVE  d \in Cleanup /\ at[d] \in Running
    <3> DEFINE S == {e \in Cleanup : at[e] \in Running}
    <3>1. \A e \in S \cup {c}, f \in Cleanup : WaitsFor(e, f) => f \in S
      BY WaitsUp DEF Running
    <3> QED
      BY <3>1, BehindLeast
  <2>2. ASSUME NEW d \in Behind(c) \cup {c}
        PROVE  \E e \in Behind(c) : /\ Place[at[d]] \in 1 .. 8 /\ Place[at[e]] \in 1 .. 8
                                    /\ Place[at[d]] < Place[at[e]]
    <3>1. d \in Cleanup /\ at[d] \in Running
      BY <2>1
    <3>2. PICK e \in Cleanup : WaitsFor(d, e)
      BY <3>1
    <3>3. e \in Behind(c)
      BY <3>2, BehindClosed
    <3>4. at[d] \in Statement
      BY <3>2 DEF WaitsFor
    <3> QED
      BY <3>1, <3>2, <3>3, <3>4, WaitsUp, PlaceType
  <2> DEFINE Beyond(n) == \E d \in Behind(c) : Place[at[d]] \in 1 .. 8 /\ Place[at[d]] > n
  <2>3. Beyond(0)
    BY <2>2
  <2>4. ASSUME NEW n \in 0 .. 8, Beyond(n)
        PROVE  Beyond(n + 1)
    BY <2>2, <2>4
  <2>5. Beyond(1) /\ Beyond(2) /\ Beyond(3) /\ Beyond(4)
    BY <2>3, <2>4
  <2>6. Beyond(5) /\ Beyond(6) /\ Beyond(7) /\ Beyond(8)
    BY <2>4, <2>5
  <2> QED
    BY <2>6
<1> QED
  BY <1>1, Held, Invariance, PTL

(* A cleanup that nobody disturbed leaves only matched jobs to its source. *)
THEOREM QuietLeavesMatched == Spec => CommitLeavesMatched
<1>1. ASSUME IInv, [Next]_vars
      PROVE  [\A c \in Cleanup : at[c] = "commit" /\ at'[c] = "success" /\ quiet[c] =>
                \A j \in Associated(source[c])' : bucket'[j] = "matched"]_vars
  <2> SUFFICES ASSUME Next, NEW c \in Cleanup, at[c] = "commit", at'[c] = "success", quiet[c],
                      NEW j \in Associated(source[c])'
               PROVE  bucket'[j] = "matched"
    BY <1>1
  <2>1. Commit(c)
    BY <1>1, OnlyCommitSucceeds DEF IInv
  <2>2. rows' = rows \ gone[c] /\ UNCHANGED <<primary, bucket, source>>
    BY <2>1 DEF Commit
  <2>3. j \in Associated(source[c]) /\ JobRow(j) \in rows \ gone[c]
    BY <2>2 DEF Associated, Present, Linked
  <2>4. Choice(c) /\ NoneLeft(c)
    BY <1>1 DEF IInv, QuietInv
  <2>5. j \notin doomed[c]
    BY <2>3, <2>4 DEF NoneLeft, Passed, JobRow, Statement
  <2> QED
    BY <2>2, <2>3, <2>4, <2>5 DEF Choice
<1> QED
  BY <1>1, Invariance, PTL DEF Spec, CommitLeavesMatched

(* And it takes no row of a job that stays.                                *)
THEOREM QuietKeepsRetained == Spec => CommitKeepsRetained
<1>1. ASSUME IInv, [Next]_vars
      PROVE  [\A c \in Cleanup : at[c] = "commit" /\ at'[c] = "success" /\ quiet[c] =>
                \A j \in Job : Present(j)' => RowsOf(j)' = RowsOf(j)]_vars
  <2> SUFFICES ASSUME Next, NEW c \in Cleanup, at[c] = "commit", at'[c] = "success", quiet[c],
                      NEW j \in Job, Present(j)'
               PROVE  RowsOf(j)' = RowsOf(j)
    BY <1>1
  <2>1. Commit(c)
    BY <1>1, OnlyCommitSucceeds DEF IInv
  <2>2. rows' = rows \ gone[c]
    BY <2>1 DEF Commit
  <2>3. JobRow(j) \in rows \ gone[c]
    BY <2>2 DEF Present, JobRow
  <2>4. NoneLeft(c)
    BY <1>1 DEF IInv, QuietInv
  <2>5. j \notin doomed[c]
    BY <2>3, <2>4 DEF NoneLeft, Passed, JobRow, Statement
  <2>6. \A r \in gone[c] : r[2] # j
    BY <1>1, <2>5 DEF IInv, GoneInv
  <2> QED
    BY <2>2, <2>6 DEF RowsOf
<1> QED
  BY <1>1, Invariance, PTL DEF Spec, CommitKeepsRetained
=============================================================================
