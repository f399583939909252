----------------------- MODULE TransientTrackingProofs -----------------------
(***************************************************************************)
(* Proofs about TransientTracking, for every number of sources, runs and   *)
(* postings.                                                               *)
(***************************************************************************)
EXTENDS TransientTracking, TLAPS

-----------------------------------------------------------------------------
(* The inductive invariant, part by part.                                  *)

There(k) == shown[k] # NoPosting

(* Links belong to rows that are there, also those a run has not committed *)
(* yet; and a row a run has written to stays while the run holds it.       *)
LinkInv ==
  /\ \A l \in links : There(l.job)
  /\ \A r \in Run : \A l \in added[r] : over[r][l.job] # NoPosting
  /\ \A r \in Run : \A k \in Key : over[r][k] # NoPosting => There(k)

(* A run has a target only where it is about to write, and finds it there; *)
(* the candidate it matched is still the first.                            *)
TargetInv ==
  \A r \in Run : /\ target[r] # {} => at[r] \in {"upsert", "stale"}
                 /\ at[r] = "upsert" => todo[r] # <<>> /\ \A k \in target[r] : There(k)

(* The tracking handler: it has the event loop and a result, and what it   *)
(* consumes has been saved.                                                *)
HandlerInv ==
  /\ step # "none" <=> loop = "track"
  /\ step # "none" => trk \in Id
  /\ step = "consume" => trk \in saved
  /\ step # "write" /\ step # "stale" => match = {}

(* What has been saved, what is listed, and what is being tracked, comes   *)
(* from a run that got so far.                                             *)
StageInv ==
  /\ \A id \in saved : at[id[1]] = "success"
  /\ \A s \in Source : lister[s] # NoRun =>
        SourceOf[lister[s]] = s /\ at[lister[s]] \in {"commit", "success", "lost"}
  /\ step # "none" => at[trk[1]] \in {"commit", "success", "lost"}

(* The jobs known since a run began are there, and it has found none of    *)
(* them untracked.                                                         *)
KnownInv ==
  \A r \in Run : /\ \A k \in known[r] : There(k)
                 /\ \A i \in DOMAIN found[r] : found[r][i].key \notin known[r]
                 /\ at[r] = "none" => found[r] = <<>>

IInv == /\ TypeOK
        /\ IndexesAgree
        /\ ListingIsTheLastRuns
        /\ SavedIsTakenOff
        /\ InsertIsNew
        /\ LinkInv
        /\ TargetInv
        /\ HandlerInv
        /\ StageInv
        /\ KnownInv

-----------------------------------------------------------------------------
(* Lemmas.                                                                 *)

USE RunAssumption, PostingAssumption, FetchBound DEF registry, db, run, handler, Active, There

(* What is kept of a list are members of the list.                         *)
LEMMA DedupedMembers ==
  ASSUME NEW f \in Seq(Posting), NEW p \in Deduped(f)
  PROVE  p \in Posting /\ \E i \in DOMAIN f : p = f[i]
  BY DEF Deduped

(* What a fetch returns is a list.                                         *)
LEMMA ResultsAreLists ==
  ASSUME NEW f \in Results
  PROVE  f \in Seq(Posting)
  BY DEF Results

(* A posting that matches nothing has no row.                              *)
LEMMA NoMatch ==
  ASSUME NEW rows, NEW L, NEW s, NEW p \in Posting, Existing(rows, L, s, p) = {}
  PROVE  rows[p.key] = NoPosting
  BY DEF Existing, Key

(* What matches is a row that is there.                                    *)
LEMMA MatchIsThere ==
  ASSUME NEW rows, NEW L \in SUBSET Link, NEW s, NEW p,
         \A l \in L : rows[l.job] # NoPosting,
         NEW k \in Existing(rows, L, s, p)
  PROVE  k \in Key /\ rows[k] # NoPosting
  BY DEF Existing, Link

(* What the stages speak of are runs.                                      *)
LEMMA StageRuns ==
  ASSUME IInv
  PROVE  /\ \A id \in saved : id[1] \in Run
         /\ \A s \in Source : lister[s] # NoRun => lister[s] \in Run
         /\ step # "none" => trk[1] \in Run
  BY DEF IInv, TypeOK, HandlerInv, Id

(* The stages stay as they are while a run that is not that far moves on.  *)
LEMMA StageKept ==
  ASSUME IInv, NEW r \in Run, NEW a, at' = [at EXCEPT ![r] = a],
         at[r] \notin {"commit", "success", "lost"},
         saved' = saved, lister' = lister, step' = step, trk' = trk
  PROVE  StageInv'
<1>1. \A q \in Run : at[q] \in {"commit", "success", "lost"} => at'[q] = at[q]
  BY DEF IInv, TypeOK
<1> QED
  BY <1>1, StageRuns DEF IInv, StageInv

(* What a run sees is well typed, and its links belong to rows it sees.    *)
LEMMA RunsView ==
  ASSUME IInv, NEW r \in Run
  PROVE  /\ RowsFor(r) \in [Key -> Row]
         /\ LinksFor(r) \in SUBSET Link
         /\ \A l \in LinksFor(r) : RowsFor(r)[l.job] # NoPosting
         /\ \A k \in Key : RowsFor(r)[k] # NoPosting <=> There(k)
<1>1. RowsFor(r) \in [Key -> Row] /\ LinksFor(r) \in SUBSET Link
  BY DEF IInv, TypeOK, RowsFor, LinksFor
<1>2. \A k \in Key : RowsFor(r)[k] # NoPosting <=> There(k)
  BY DEF IInv, TypeOK, LinkInv, RowsFor, Row
<1>3. ASSUME NEW l \in LinksFor(r)
      PROVE  RowsFor(r)[l.job] # NoPosting
  <2>1. l.job \in Key
    BY <1>1 DEF Link
  <2>2. There(l.job)
    BY <2>1 DEF IInv, LinkInv, LinksFor
  <2> QED
    BY <1>2, <2>1, <2>2
<1> QED
  BY <1>1, <1>2, <1>3

(* The properties that follow from the invariant.                          *)
LEMMA ListedResults ==
  ASSUME IInv
  PROVE  \A id \in byId : /\ at[id[1]] \in {"commit", "success", "lost"}
                         /\ id[2].key \notin known[id[1]]
<1> SUFFICES ASSUME NEW id \in byId
             PROVE  /\ at[id[1]] \in {"commit", "success", "lost"}
                    /\ id[2].key \notin known[id[1]]
  OBVIOUS
<1> DEFINE s == SourceOf[id[1]]
<1>1. id \in Id /\ id[1] \in Run /\ s \in Source
  BY DEF IInv, TypeOK, Id
<1>2. lister[s] # NoRun /\ id \in {lister[s]} \X Deduped(found[lister[s]])
  BY <1>1 DEF IInv, ListingIsTheLastRuns
<1>3. id[1] = lister[s] /\ id[2] \in Deduped(found[id[1]])
  BY <1>2
<1>4. found[id[1]] \in Seq(Posting)
  BY <1>1 DEF IInv, TypeOK
<1>5. PICK i \in DOMAIN found[id[1]] : id[2] = found[id[1]][i]
  BY <1>3, <1>4, DedupedMembers
<1> QED
  BY <1>1, <1>2, <1>3, <1>5 DEF IInv, StageInv, KnownInv

-----------------------------------------------------------------------------
(* Every step keeps the invariant.                                         *)

(* A run begins.                                                           *)
LEMMA BeginKeeps ==
  ASSUME IInv, NEW r \in Run, NEW f \in Results, BeginOnLoop(r, f) \/ BeginWorker(r, f)
  PROVE  IInv'
<1> USE DEF BeginOnLoop, BeginWorker, Begin
<1>c. /\ at[r] = "none" /\ at' = [at EXCEPT ![r] = "match"]
      /\ known' = [known EXCEPT ![r] = {k \in Key : shown[k] # NoPosting}]
  OBVIOUS
<1>1. TypeOK'
  <2>1. todo' \in [Run -> Seq(Posting)]
    BY ResultsAreLists DEF IInv, TypeOK
  <2>2. at' \in [Run -> Active \cup {"none", "success", "failed", "lost"}]
    BY DEF IInv, TypeOK
  <2>3. known' \in [Run -> SUBSET Key]
    BY <1>c DEF IInv, TypeOK
  <2>4. loop' \in {"idle", "track"} \cup Run
    BY DEF IInv, TypeOK
  <2> QED
    BY <2>1, <2>2, <2>3, <2>4 DEF IInv, TypeOK
<1>2. IndexesAgree'
  BY DEF IInv, TypeOK, IndexesAgree
<1>3. ListingIsTheLastRuns'
  BY DEF IInv, TypeOK, ListingIsTheLastRuns
<1>4. SavedIsTakenOff'
  BY DEF IInv, TypeOK, SavedIsTakenOff, HandlerInv
<1>5. InsertIsNew'
  BY DEF IInv, TypeOK, InsertIsNew
<1>6. LinkInv'
  BY DEF IInv, TypeOK, LinkInv
<1>7. TargetInv'
  BY DEF IInv, TypeOK, TargetInv
<1>8. HandlerInv'
  BY DEF IInv, TypeOK, HandlerInv
<1>9. StageInv'
  BY <1>c, StageKept
<1>10. KnownInv'
  BY DEF IInv, TypeOK, KnownInv
<1> QED
  BY <1>1, <1>2, <1>3, <1>4, <1>5, <1>6, <1>7, <1>8, <1>9, <1>10 DEF IInv

(* An unmatched candidate is kept.                                         *)
LEMMA KeepTransientKeeps ==
  ASSUME IInv, NEW r \in Run, KeepTransient(r)
  PROVE  IInv'
<1> USE DEF KeepTransient
<1>c. /\ todo[r] \in Seq(Posting) /\ Head(todo[r]) \in Posting /\ Tail(todo[r]) \in Seq(Posting)
      /\ found[r] \in Seq(Posting) /\ Append(found[r], Head(todo[r])) \in Seq(Posting)
  BY DEF IInv, TypeOK
<1>1. TypeOK'
  BY <1>c DEF IInv, TypeOK
<1>2. IndexesAgree'
  BY DEF IInv, TypeOK, IndexesAgree
<1>3. ListingIsTheLastRuns'
  <2>1. ASSUME NEW s \in Source, lister[s] # NoRun
        PROVE  found'[lister[s]] = found[lister[s]]
    <3>1. at[lister[s]] # "match"
      BY <2>1 DEF IInv, StageInv
    <3>2. found' = [found EXCEPT ![r] = Append(@, Head(todo[r]))] /\ at[r] = "match"
      OBVIOUS
    <3>3. found \in [Run -> Seq(Posting)] /\ lister[s] \in Run
      BY <2>1 DEF IInv, TypeOK
    <3> QED
      BY <3>1, <3>2, <3>3
  <2> QED
    BY <2>1 DEF IInv, TypeOK, ListingIsTheLastRuns
<1>4. SavedIsTakenOff'
  BY DEF IInv, TypeOK, SavedIsTakenOff, HandlerInv
<1>5. InsertIsNew'
  BY DEF IInv, TypeOK, InsertIsNew
<1>6. LinkInv'
  BY DEF IInv, TypeOK, LinkInv
<1>7. TargetInv'
  BY DEF IInv, TypeOK, TargetInv
<1>8. HandlerInv'
  BY DEF IInv, TypeOK, HandlerInv
<1>9. StageInv'
  BY DEF IInv, TypeOK, StageInv, Id
<1>10. KnownInv'
  <2>1. ~There(Head(todo[r]).key)
    <3>1. Existing(RowsFor(r), LinksFor(r), SourceOf[r], Head(todo[r])) = {}
      BY DEF Matches
    <3>2. RowsFor(r)[Head(todo[r]).key] = NoPosting
      BY <1>c, <3>1, NoMatch
    <3>3. Head(todo[r]).key \in Key
      BY <1>c DEF Key
    <3> QED
      BY <3>2, <3>3, RunsView
  <2>2. Head(todo[r]).key \notin known[r]
    BY <2>1 DEF IInv, KnownInv
  <2>3. \A i \in DOMAIN found'[r] : found'[r][i].key \notin known[r]
    BY <1>c, <2>2 DEF IInv, TypeOK, KnownInv
  <2> QED
    BY <2>3 DEF IInv, TypeOK, KnownInv
<1> QED
  BY <1>1, <1>2, <1>3, <1>4, <1>5, <1>6, <1>7, <1>8, <1>9, <1>10 DEF IInv

(* A candidate is matched.                                                 *)
LEMMA MatchTrackedKeeps ==
  ASSUME IInv, NEW r \in Run, MatchTracked(r)
  PROVE  IInv'
<1> USE DEF MatchTracked
<1>b. PICK k \in Matches(r) : target' = [target EXCEPT ![r] = {k}]
  OBVIOUS
<1>c. k \in Key /\ There(k) /\ target' = [target EXCEPT ![r] = {k}]
  <2>1. k \in Existing(RowsFor(r), LinksFor(r), SourceOf[r], Head(todo[r]))
    BY <1>b DEF Matches
  <2>2. k \in Key /\ RowsFor(r)[k] # NoPosting
    BY <2>1, MatchIsThere, RunsView
  <2> QED
    BY <1>b, <2>2, RunsView
<1>1. TypeOK'
  BY <1>c DEF IInv, TypeOK
<1>2. IndexesAgree'
  BY DEF IInv, TypeOK, IndexesAgree
<1>3. ListingIsTheLastRuns'
  BY DEF IInv, TypeOK, ListingIsTheLastRuns
<1>4. SavedIsTakenOff'
  BY DEF IInv, TypeOK, SavedIsTakenOff, HandlerInv
<1>5. InsertIsNew'
  BY DEF IInv, TypeOK, InsertIsNew
<1>6. LinkInv'
  BY DEF IInv, TypeOK, LinkInv
<1>7. TargetInv'
  BY <1>c DEF IInv, TypeOK, TargetInv
<1>8. HandlerInv'
  BY DEF IInv, TypeOK, HandlerInv
<1>9. StageInv'
  BY DEF IInv, TypeOK, StageInv, Id
<1>10. KnownInv'
  BY DEF IInv, TypeOK, KnownInv
<1> QED
  BY <1>1, <1>2, <1>3, <1>4, <1>5, <1>6, <1>7, <1>8, <1>9, <1>10 DEF IInv

(* A tracked job is written to.                                            *)
LEMMA UpsertKeeps ==
  ASSUME IInv, NEW r \in Run, Upsert(r)
  PROVE  IInv'
<1> USE DEF Upsert
<1> DEFINE p == Head(todo[r])
<1>c. /\ todo[r] \in Seq(Posting) /\ at[r] = "upsert" /\ target[r] \subseteq Key
      /\ p \in Posting /\ Tail(todo[r]) \in Seq(Posting)
  BY DEF IInv, TypeOK, TargetInv
<1>d. PICK k \in target[r] :
        /\ over' = [over EXCEPT ![r][k] = p]
        /\ \E old \in Overwritten(LinksFor(r), k, SourceOf[r], p) :
              /\ added' = [added EXCEPT ![r] = (@ \ old) \cup {LinkOf(k, SourceOf[r], p)}]
              /\ dropped' = [dropped EXCEPT ![r] = @ \cup (old \cap links)]
  OBVIOUS
<1>e. PICK old \in Overwritten(LinksFor(r), k, SourceOf[r], p) :
        /\ added' = [added EXCEPT ![r] = (@ \ old) \cup {LinkOf(k, SourceOf[r], p)}]
        /\ dropped' = [dropped EXCEPT ![r] = @ \cup (old \cap links)]
  BY <1>d
<1>f. k \in Key /\ LinkOf(k, SourceOf[r], p) \in Link
  BY <1>c, <1>d DEF LinkOf, Link
<1>1. TypeOK'
  <2>1. over' \in [Run -> [Key -> Row]]
    BY <1>c, <1>d DEF IInv, TypeOK, Row
  <2>2. todo' \in [Run -> Seq(Posting)]
    BY <1>c DEF IInv, TypeOK
  <2>3. added' \in [Run -> SUBSET Link] /\ dropped' \in [Run -> SUBSET Link]
    BY <1>e, <1>f DEF IInv, TypeOK
  <2>4. at' \in [Run -> Active \cup {"none", "success", "failed", "lost"}]
    BY DEF IInv, TypeOK
  <2>5. target' \in [Run -> SUBSET Key]
    BY DEF IInv, TypeOK
  <2> QED
    BY <2>1, <2>2, <2>3, <2>4, <2>5 DEF IInv, TypeOK
<1>2. IndexesAgree'
  BY DEF IInv, TypeOK, IndexesAgree
<1>3. ListingIsTheLastRuns'
  BY DEF IInv, TypeOK, ListingIsTheLastRuns
<1>4. SavedIsTakenOff'
  BY DEF IInv, TypeOK, SavedIsTakenOff, HandlerInv
<1>5. InsertIsNew'
  BY DEF IInv, TypeOK, InsertIsNew
<1>6. LinkInv'
  <2>1. There(k)
    BY <1>d DEF IInv, TargetInv
  <2>2. ASSUME NEW q \in Run, NEW l \in added'[q]
        PROVE  over'[q][l.job] # NoPosting
    <3>1. CASE q = r /\ l = LinkOf(k, SourceOf[r], p)
      <4>1. l.job = k /\ over'[q][k] = p
        BY <1>d, <1>f, <3>1 DEF IInv, TypeOK, LinkOf
      <4> QED
        BY <1>c, <4>1
    <3>2. CASE l \in added[q]
      <4>1. l.job \in Key /\ over[q][l.job] # NoPosting
        BY <3>2 DEF IInv, TypeOK, LinkInv, Link
      <4>2. over'[q][l.job] \in {over[q][l.job], p}
        BY <1>d, <1>f, <4>1 DEF IInv, TypeOK
      <4> QED
        BY <1>c, <4>1, <4>2
    <3> QED
      BY <1>e, <3>1, <3>2 DEF IInv, TypeOK
  <2>3. \A q \in Run, j \in Key : over'[q][j] # NoPosting => There(j)
    BY <1>d, <2>1 DEF IInv, TypeOK, LinkInv
  <2> QED
    BY <2>2, <2>3 DEF IInv, LinkInv
<1>7. TargetInv'
  BY DEF IInv, TypeOK, TargetInv
<1>8. HandlerInv'
  BY DEF IInv, TypeOK, HandlerInv
<1>9. StageInv'
  BY DEF IInv, TypeOK, StageInv, Id
<1>10. KnownInv'
  BY DEF IInv, TypeOK, KnownInv
<1> QED
  BY <1>1, <1>2, <1>3, <1>4, <1>5, <1>6, <1>7, <1>8, <1>9, <1>10 DEF IInv

(* The results of a source are replaced.                                   *)
LEMMA ReplaceKeeps ==
  ASSUME IInv, NEW r \in Run, Replace(r)
  PROVE  IInv'
<1> USE DEF Replace, ReplaceResults
<1>c. {r} \X Deduped(found[r]) \subseteq Id /\ SourceOf[r] \in Source
  <2>1. found[r] \in Seq(Posting)
    BY DEF IInv, TypeOK
  <2> QED
    BY <2>1, DedupedMembers DEF Id
<1>d. LET old == idsBySource[SourceOf[r]]
          ids == {r} \X Deduped(found[r])
      IN  /\ byId' = (byId \ old) \cup ids
          /\ idsBySource' = [s \in Source |-> IF s = SourceOf[r] THEN ids ELSE idsBySource[s] \ old]
          /\ idsByRun' = [q \in Run |-> IF q = r THEN (idsByRun[q] \ old) \cup ids
                                        ELSE idsByRun[q] \ old]
  OBVIOUS
<1>1. TypeOK'
  <2>1. byId' \subseteq Id
    BY <1>c DEF IInv, TypeOK
  <2>2. idsBySource' \in [Source -> SUBSET Id]
    BY <1>c DEF IInv, TypeOK
  <2>3. idsByRun' \in [Run -> SUBSET Id]
    BY <1>c DEF IInv, TypeOK
  <2>4. lister' \in [Source -> Run \cup {NoRun}]
    BY DEF IInv, TypeOK
  <2>5. at' \in [Run -> Active \cup {"none", "success", "failed", "lost"}]
    BY DEF IInv, TypeOK
  <2> QED
    BY <2>1, <2>2, <2>3, <2>4, <2>5 DEF IInv, TypeOK
<1>2. IndexesAgree'
  <2>1. \A id \in {r} \X Deduped(found[r]) : id[1] = r
    OBVIOUS
  <2>2. \A s \in Source : idsBySource[s] = {id \in byId : SourceOf[id[1]] = s}
    BY DEF IInv, IndexesAgree
  <2>3. \A q \in Run : idsByRun[q] = {id \in byId : id[1] = q}
    BY DEF IInv, IndexesAgree
  <2>4. ASSUME NEW s \in Source
        PROVE  idsBySource'[s] = {id \in byId' : SourceOf[id[1]] = s}
    BY <1>d, <2>1, <2>2
  <2>5. ASSUME NEW q \in Run
        PROVE  idsByRun'[q] = {id \in byId' : id[1] = q}
    BY <1>d, <2>1, <2>3
  <2> QED
    BY <2>4, <2>5 DEF IndexesAgree
<1>3. ListingIsTheLastRuns'
  <2>0. \A q \in Source : lister'[q] = IF q = SourceOf[r] THEN r ELSE lister[q]
    BY DEF IInv, TypeOK
  <2> SUFFICES ASSUME NEW s \in Source
               PROVE  LET all == IF lister'[s] = NoRun THEN {} ELSE {lister'[s]} \X Deduped(found[lister'[s]])
                          ids == {id \in byId' : SourceOf[id[1]] = s}
                      IN  ids \subseteq all /\ all \ ids \subseteq saved
    BY DEF ListingIsTheLastRuns
  <2>1. byId' = (byId \ {id \in byId : SourceOf[id[1]] = SourceOf[r]}) \cup ({r} \X Deduped(found[r]))
    BY <1>d DEF IInv, IndexesAgree
  <2>2. CASE s = SourceOf[r]
    <3>1. {id \in byId' : SourceOf[id[1]] = s} = {r} \X Deduped(found[r])
      BY <2>1, <2>2
    <3> QED
      BY <2>0, <2>2, <3>1
  <2>3. CASE s # SourceOf[r]
    <3>1. {id \in byId' : SourceOf[id[1]] = s} = {id \in byId : SourceOf[id[1]] = s}
      BY <2>1, <2>3
    <3> QED
      BY <2>0, <2>3, <3>1 DEF IInv, ListingIsTheLastRuns
  <2> QED
    BY <2>2, <2>3
<1>4. SavedIsTakenOff'
  <2>1. \A id \in saved : id[1] # r
    BY DEF IInv, StageInv
  <2>2. \A id \in byId' : id \in byId \/ id[1] = r
    BY <1>d
  <2> QED
    BY <2>1, <2>2 DEF IInv, SavedIsTakenOff
<1>5. InsertIsNew'
  BY DEF IInv, TypeOK, InsertIsNew
<1>6. LinkInv'
  BY DEF IInv, TypeOK, LinkInv
<1>7. TargetInv'
  BY DEF IInv, TypeOK, TargetInv
<1>8. HandlerInv'
  BY DEF IInv, TypeOK, HandlerInv
<1>9. StageInv'
  <2>1. ASSUME NEW id \in saved
        PROVE  at'[id[1]] = "success"
    <3>1. id[1] \in Run /\ id[1] # r
      BY DEF IInv, TypeOK, StageInv, Id
    <3> QED
      BY <3>1 DEF IInv, TypeOK, StageInv
  <2>2. ASSUME NEW s \in Source, lister'[s] # NoRun
        PROVE  SourceOf[lister'[s]] = s /\ at'[lister'[s]] \in {"commit", "success", "lost"}
    <3>1. CASE s = SourceOf[r]
      BY <3>1 DEF IInv, TypeOK
    <3>2. CASE s # SourceOf[r]
      <4>1. lister'[s] = lister[s] /\ lister[s] \in Run
        BY <2>2, <3>2 DEF IInv, TypeOK
      <4> QED
        BY <2>2, <4>1 DEF IInv, TypeOK, StageInv
    <3> QED
      BY <3>1, <3>2
  <2>3. step # "none" => at'[trk[1]] \in {"commit", "success", "lost"}
    BY StageRuns DEF IInv, TypeOK, StageInv
  <2> QED
    BY <2>1, <2>2, <2>3 DEF StageInv
<1>10. KnownInv'
  BY DEF IInv, TypeOK, KnownInv
<1> QED
  BY <1>1, <1>2, <1>3, <1>4, <1>5, <1>6, <1>7, <1>8, <1>9, <1>10 DEF IInv

(* A run ends and is committed, as a success or as failed.                 *)
LEMMA StoreKeeps ==
  ASSUME IInv, NEW r \in Run, Commit(r) \/ Fail(r)
  PROVE  IInv'
<1> USE DEF Store, End
<1> PICK o \in {"success", "failed"} : Store(r) /\ End(r, o)
  BY DEF Commit, Fail
<1>c. \A k \in Key : shown'[k] # NoPosting <=> There(k)
  BY RunsView
<1>1. TypeOK'
  <2>1. at' \in [Run -> Active \cup {"none", "success", "failed", "lost"}]
    BY DEF IInv, TypeOK
  <2>2. todo' \in [Run -> Seq(Posting)] /\ target' \in [Run -> SUBSET Key]
    BY DEF IInv, TypeOK
  <2>3. over' \in [Run -> [Key -> Row]]
    BY DEF IInv, TypeOK, Row
  <2>4. added' \in [Run -> SUBSET Link] /\ dropped' \in [Run -> SUBSET Link]
    BY DEF IInv, TypeOK
  <2>5. loop' \in {"idle", "track"} \cup Run
    BY DEF IInv, TypeOK
  <2>6. shown' \in [Key -> Row] /\ links' \in SUBSET Link
    BY RunsView
  <2> QED
    BY <2>1, <2>2, <2>3, <2>4, <2>5, <2>6 DEF IInv, TypeOK
<1>2. IndexesAgree'
  BY DEF IInv, TypeOK, IndexesAgree
<1>3. ListingIsTheLastRuns'
  BY DEF IInv, TypeOK, ListingIsTheLastRuns
<1>4. SavedIsTakenOff'
  BY DEF IInv, TypeOK, SavedIsTakenOff, HandlerInv
<1>5. InsertIsNew'
  <2>1. step' = "write" /\ match' = {} => trk[2].key \in Key
    BY DEF IInv, HandlerInv, Id, Key
  <2> QED
    BY <1>c, <2>1 DEF IInv, InsertIsNew
<1>6. LinkInv'
  <2>1. \A l \in links' : shown'[l.job] # NoPosting
    BY RunsView
  <2>2. \A q \in Run : over'[q] = IF q = r THEN [k \in Key |-> NoPosting] ELSE over[q]
    BY DEF IInv, TypeOK
  <2>3. \A q \in Run : added'[q] = IF q = r THEN {} ELSE added[q]
    BY DEF IInv, TypeOK
  <2> QED
    BY <1>c, <2>1, <2>2, <2>3 DEF IInv, LinkInv
<1>7. TargetInv'
  <2>1. \A q \in Run \ {r} : at'[q] = at[q] /\ todo'[q] = todo[q] /\ target'[q] = target[q]
    BY DEF IInv, TypeOK
  <2>2. at'[r] \in {"success", "failed"} /\ target'[r] = {}
    BY DEF IInv, TypeOK
  <2>3. \A q \in Run : target[q] \subseteq Key
    BY DEF IInv, TypeOK
  <2> QED
    BY <1>c, <2>1, <2>2, <2>3 DEF IInv, TargetInv
<1>8. HandlerInv'
  BY DEF IInv, TypeOK, HandlerInv
<1>9. StageInv'
  <2>1. CASE Fail(r)
    BY <2>1, StageKept DEF Fail
  <2>2. CASE Commit(r)
    <3>1. \A q \in Run : at'[q] = IF q = r THEN "success" ELSE at[q]
      BY <2>2 DEF Commit, IInv, TypeOK
    <3> QED
      BY <3>1, StageRuns DEF IInv, StageInv
  <2> QED
    BY <2>1, <2>2
<1>10. KnownInv'
  <2>1. \A q \in Run : known[q] \subseteq Key
    BY DEF IInv, TypeOK
  <2>2. \A q \in Run : at'[q] = "none" => at[q] = "none"
    BY DEF IInv, TypeOK
  <2> QED
    BY <1>c, <2>1, <2>2 DEF IInv, KnownInv
<1> QED
  BY <1>1, <1>2, <1>3, <1>4, <1>5, <1>6, <1>7, <1>8, <1>9, <1>10 DEF IInv

(* A run is rolled back.                                                   *)
LEMMA AbortKeeps ==
  ASSUME IInv, NEW r \in Run, Abort(r)
  PROVE  IInv'
<1> USE DEF Abort, End
<1>1. TypeOK'
  <2>1. at' \in [Run -> Active \cup {"none", "success", "failed", "lost"}]
    BY SMTT(60) DEF IInv, TypeOK
  <2>2. todo' \in [Run -> Seq(Posting)] /\ target' \in [Run -> SUBSET Key]
    BY SMTT(60) DEF IInv, TypeOK
  <2>3. over' \in [Run -> [Key -> Row]]
    BY DEF IInv, TypeOK, Row
  <2>4. added' \in [Run -> SUBSET Link] /\ dropped' \in [Run -> SUBSET Link]
    BY DEF IInv, TypeOK
  <2>5. loop' \in {"idle", "track"} \cup Run
    BY DEF IInv, TypeOK
  <2> QED
    BY <2>1, <2>2, <2>3, <2>4, <2>5 DEF IInv, TypeOK
<1>2. IndexesAgree'
  BY DEF IInv, TypeOK, IndexesAgree
<1>3. ListingIsTheLastRuns'
  BY DEF IInv, TypeOK, ListingIsTheLastRuns
<1>4. SavedIsTakenOff'
  BY DEF IInv, TypeOK, SavedIsTakenOff, HandlerInv
<1>5. InsertIsNew'
  BY DEF IInv, TypeOK, InsertIsNew
<1>6. LinkInv'
  BY DEF IInv, TypeOK, LinkInv
<1>7. TargetInv'
  BY DEF IInv, TypeOK, TargetInv
<1>8. HandlerInv'
  BY DEF IInv, TypeOK, HandlerInv
<1>9. StageInv'
  <2>1. \A q \in Run : at'[q] = IF q = r THEN "lost" ELSE at[q]
    BY DEF IInv, TypeOK
  <2> QED
    BY <2>1, StageRuns DEF IInv, StageInv
<1>10. KnownInv'
  BY DEF IInv, TypeOK, KnownInv
<1> QED
  BY <1>1, <1>2, <1>3, <1>4, <1>5, <1>6, <1>7, <1>8, <1>9, <1>10 DEF IInv

(* A tracking begins.                                                      *)
LEMMA GetKeeps ==
  ASSUME IInv, NEW id \in byId, Get(id)
  PROVE  IInv'
<1> USE DEF Get
<1>1. TypeOK'
  BY DEF IInv, TypeOK
<1>2. IndexesAgree'
  BY DEF IInv, TypeOK, IndexesAgree
<1>3. ListingIsTheLastRuns'
  BY DEF IInv, TypeOK, ListingIsTheLastRuns
<1>4. SavedIsTakenOff'
  BY DEF IInv, TypeOK, SavedIsTakenOff, HandlerInv
<1>5. InsertIsNew'
  BY DEF IInv, TypeOK, InsertIsNew
<1>6. LinkInv'
  BY DEF IInv, TypeOK, LinkInv
<1>7. TargetInv'
  BY DEF IInv, TypeOK, TargetInv
<1>8. HandlerInv'
  BY DEF IInv, TypeOK, HandlerInv
<1>9. StageInv'
  BY ListedResults DEF IInv, StageInv
<1>10. KnownInv'
  BY DEF IInv, TypeOK, KnownInv
<1> QED
  BY <1>1, <1>2, <1>3, <1>4, <1>5, <1>6, <1>7, <1>8, <1>9, <1>10 DEF IInv

(* The tracking looks for a row.                                           *)
LEMMA FindMatchKeeps ==
  ASSUME IInv, FindMatch
  PROVE  IInv'
<1> USE DEF FindMatch
<1>c. trk[2] \in Posting /\ links \in SUBSET Link
  BY DEF IInv, TypeOK, HandlerInv, Id
<1>d. /\ match' \in SUBSET Key
      /\ match' = {} => Existing(shown, links, SourceOf[trk[1]], trk[2]) = {}
  <2> DEFINE ks == Existing(shown, links, SourceOf[trk[1]], trk[2])
  <2>1. ks \subseteq Key
    BY <1>c DEF Existing, Link
  <2>2. (ks = {} /\ match' = {}) \/ \E k \in ks : match' = {k}
    OBVIOUS
  <2> HIDE DEF ks
  <2>3. match' \in SUBSET Key /\ (match' = {} => ks = {})
    BY <2>1, <2>2
  <2> QED
    BY <2>3 DEF ks
<1>1. TypeOK'
  BY <1>d DEF IInv, TypeOK
<1>2. IndexesAgree'
  BY DEF IInv, TypeOK, IndexesAgree
<1>3. ListingIsTheLastRuns'
  BY DEF IInv, TypeOK, ListingIsTheLastRuns
<1>4. SavedIsTakenOff'
  BY DEF IInv, TypeOK, SavedIsTakenOff, HandlerInv
<1>5. InsertIsNew'
  BY <1>c, <1>d, NoMatch DEF InsertIsNew
<1>6. LinkInv'
  BY DEF IInv, TypeOK, LinkInv
<1>7. TargetInv'
  BY DEF IInv, TypeOK, TargetInv
<1>8. HandlerInv'
  BY DEF IInv, TypeOK, HandlerInv
<1>9. StageInv'
  BY DEF IInv, TypeOK, StageInv, Id
<1>10. KnownInv'
  BY DEF IInv, TypeOK, KnownInv
<1> QED
  BY <1>1, <1>2, <1>3, <1>4, <1>5, <1>6, <1>7, <1>8, <1>9, <1>10 DEF IInv

(* The tracking is committed.                                              *)
LEMMA TrackCommitKeeps ==
  ASSUME IInv, TrackCommit
  PROVE  IInv'
<1> USE DEF TrackCommit
<1> DEFINE s == SourceOf[trk[1]]
<1>c. trk \in Id /\ trk[1] \in Run /\ trk[2] \in Posting /\ trk[2].key \in Key /\ s \in Source
  BY DEF IInv, HandlerInv, Id, Key
<1>d. PICK k \in IF match = {} THEN {trk[2].key} ELSE match :
        /\ shown' = [shown EXCEPT ![k] = trk[2]]
        /\ \E old \in Overwritten(links, k, s, trk[2]) :
              links' = (links \ old) \cup {LinkOf(k, s, trk[2])}
  OBVIOUS
<1>e. links' \subseteq links \cup {LinkOf(k, s, trk[2])} /\ k \in Key /\ LinkOf(k, s, trk[2]) \in Link
  <2>1. k \in Key
    BY <1>c DEF IInv, TypeOK
  <2>2. LinkOf(k, s, trk[2]) \in Link
    BY <1>c, <2>1 DEF LinkOf, Link
  <2> QED
    BY <1>d, <2>1, <2>2
<1>f. \A j \in Key : (There(j) => shown'[j] # NoPosting) /\ (j = k => shown'[j] # NoPosting)
  BY <1>c, <1>d, <1>e DEF IInv, TypeOK
<1>1. TypeOK'
  <2>1. shown' \in [Key -> Row]
    BY <1>c, <1>d DEF IInv, TypeOK, Row
  <2>2. links' \subseteq Link
    BY <1>e DEF IInv, TypeOK
  <2>3. saved' \subseteq Id
    BY <1>c DEF IInv, TypeOK
  <2> QED
    BY <2>1, <2>2, <2>3 DEF IInv, TypeOK
<1>2. IndexesAgree'
  BY DEF IInv, TypeOK, IndexesAgree
<1>3. ListingIsTheLastRuns'
  BY DEF IInv, TypeOK, ListingIsTheLastRuns
<1>4. SavedIsTakenOff'
  BY DEF IInv, TypeOK, SavedIsTakenOff, HandlerInv
<1>5. InsertIsNew'
  BY DEF IInv, TypeOK, InsertIsNew
<1>6. LinkInv'
  <2>1. ASSUME NEW l \in links'
        PROVE  shown'[l.job] # NoPosting
    <3>1. CASE l = LinkOf(k, s, trk[2])
      <4>1. l.job = k
        BY <3>1 DEF LinkOf
      <4> QED
        BY <1>e, <1>f, <4>1
    <3>2. CASE l \in links
      <4>1. l.job \in Key
        BY <3>2 DEF IInv, TypeOK, Link
      <4> QED
        BY <1>f, <3>2, <4>1 DEF IInv, LinkInv
    <3> QED
      BY <1>e, <3>1, <3>2
  <2> QED
    BY <1>f, <2>1 DEF IInv, LinkInv
<1>7. TargetInv'
  <2>1. \A q \in Run : target[q] \subseteq Key
    BY DEF IInv, TypeOK
  <2> QED
    BY <1>f, <2>1 DEF IInv, TargetInv
<1>8. HandlerInv'
  BY DEF IInv, TypeOK, HandlerInv
<1>9. StageInv'
  <2>1. at[trk[1]] = "success"
    BY DEF IInv, StageInv, Accepted
  <2> QED
    BY <2>1 DEF IInv, StageInv
<1>10. KnownInv'
  <2>1. \A q \in Run : known[q] \subseteq Key
    BY DEF IInv, TypeOK
  <2> QED
    BY <1>f, <2>1 DEF IInv, KnownInv
<1> QED
  BY <1>1, <1>2, <1>3, <1>4, <1>5, <1>6, <1>7, <1>8, <1>9, <1>10 DEF IInv

(* The tracking is rolled back.                                            *)
LEMMA RollbackKeeps ==
  ASSUME IInv, Rollback
  PROVE  IInv'
<1> USE DEF Rollback, Return
<1>1. TypeOK'
  BY DEF IInv, TypeOK
<1>2. IndexesAgree'
  BY DEF IInv, TypeOK, IndexesAgree
<1>3. ListingIsTheLastRuns'
  BY DEF IInv, TypeOK, ListingIsTheLastRuns
<1>4. SavedIsTakenOff'
  BY DEF IInv, TypeOK, SavedIsTakenOff, HandlerInv
<1>5. InsertIsNew'
  BY DEF IInv, TypeOK, InsertIsNew
<1>6. LinkInv'
  BY DEF IInv, TypeOK, LinkInv
<1>7. TargetInv'
  BY DEF IInv, TypeOK, TargetInv
<1>8. HandlerInv'
  BY DEF IInv, TypeOK, HandlerInv
<1>9. StageInv'
  BY DEF IInv, TypeOK, StageInv, Id
<1>10. KnownInv'
  BY DEF IInv, TypeOK, KnownInv
<1> QED
  BY <1>1, <1>2, <1>3, <1>4, <1>5, <1>6, <1>7, <1>8, <1>9, <1>10 DEF IInv

(* The result is consumed.                                                 *)
LEMMA ConsumeKeeps ==
  ASSUME IInv, Consume
  PROVE  IInv'
<1> USE DEF Consume, Return, Remove
<1>1. TypeOK'
  BY DEF IInv, TypeOK
<1>2. IndexesAgree'
  BY DEF IInv, TypeOK, IndexesAgree
<1>3. ListingIsTheLastRuns'
  <2>1. trk \in saved /\ byId' = byId \ {trk}
    BY DEF IInv, HandlerInv
  <2> QED
    BY <2>1 DEF IInv, ListingIsTheLastRuns
<1>4. SavedIsTakenOff'
  BY DEF IInv, TypeOK, SavedIsTakenOff, HandlerInv
<1>5. InsertIsNew'
  BY DEF IInv, TypeOK, InsertIsNew
<1>6. LinkInv'
  BY DEF IInv, TypeOK, LinkInv
<1>7. TargetInv'
  BY DEF IInv, TypeOK, TargetInv
<1>8. HandlerInv'
  BY DEF IInv, TypeOK, HandlerInv
<1>9. StageInv'
  BY DEF IInv, TypeOK, StageInv, Id
<1>10. KnownInv'
  BY DEF IInv, TypeOK, KnownInv
<1> QED
  BY <1>1, <1>2, <1>3, <1>4, <1>5, <1>6, <1>7, <1>8, <1>9, <1>10 DEF IInv

(* A job is deleted.                                                       *)
LEMMA RemoveJobKeeps ==
  ASSUME IInv, NEW j \in Key, RemoveJob(j)
  PROVE  IInv'
<1> USE DEF RemoveJob, Unlocked
<1>1. TypeOK'
  <2>1. shown' \in [Key -> Row]
    BY DEF IInv, TypeOK, Row
  <2>2. links' \subseteq Link
    BY DEF IInv, TypeOK
  <2>3. at' \in [Run -> Active \cup {"none", "success", "failed", "lost"}]
    BY DEF IInv, TypeOK
  <2>4. known' \in [Run -> SUBSET Key]
    BY DEF IInv, TypeOK
  <2> QED
    BY <2>1, <2>2, <2>3, <2>4 DEF IInv, TypeOK
<1>2. IndexesAgree'
  BY DEF IInv, TypeOK, IndexesAgree
<1>3. ListingIsTheLastRuns'
  BY DEF IInv, TypeOK, ListingIsTheLastRuns
<1>4. SavedIsTakenOff'
  <2>1. step = "consume" => step' = "consume"
    BY DEF IInv, HandlerInv
  <2> QED
    BY <2>1 DEF IInv, SavedIsTakenOff
<1>5. InsertIsNew'
  BY DEF IInv, TypeOK, InsertIsNew
<1>6. LinkInv'
  BY DEF IInv, TypeOK, LinkInv
<1>7. TargetInv'
  BY DEF IInv, TypeOK, TargetInv
<1>8. HandlerInv'
  BY DEF IInv, TypeOK, HandlerInv
<1>9. StageInv'
  <2>1. \A q \in Run : at[q] \in {"commit", "success", "lost"} => at'[q] = at[q]
    BY DEF IInv, TargetInv
  <2>2. step' # "none" => step # "none"
    BY DEF IInv, HandlerInv
  <2> QED
    BY <2>1, <2>2, StageRuns DEF IInv, StageInv
<1>10. KnownInv'
  BY DEF IInv, TypeOK, KnownInv
<1> QED
  BY <1>1, <1>2, <1>3, <1>4, <1>5, <1>6, <1>7, <1>8, <1>9, <1>10 DEF IInv

(* The process is restarted.                                               *)
LEMMA RestartKeeps ==
  ASSUME IInv, Restart
  PROVE  IInv'
<1> USE DEF Restart, Return
<1>1. TypeOK'
  <2>1. at' \in [Run -> Active \cup {"none", "success", "failed", "lost"}]
    BY DEF IInv, TypeOK
  <2>2. todo' \in [Run -> Seq(Posting)] /\ target' \in [Run -> SUBSET Key]
    BY DEF IInv, TypeOK
  <2>3. over' \in [Run -> [Key -> Row]]
    BY DEF Row
  <2> QED
    BY <2>1, <2>2, <2>3 DEF IInv, TypeOK
<1>2. IndexesAgree'
  BY DEF IInv, TypeOK, IndexesAgree
<1>3. ListingIsTheLastRuns'
  BY DEF IInv, TypeOK, ListingIsTheLastRuns
<1>4. SavedIsTakenOff'
  BY DEF IInv, TypeOK, SavedIsTakenOff, HandlerInv
<1>5. InsertIsNew'
  BY DEF IInv, TypeOK, InsertIsNew
<1>6. LinkInv'
  BY DEF IInv, TypeOK, LinkInv
<1>7. TargetInv'
  BY DEF IInv, TypeOK, TargetInv
<1>8. HandlerInv'
  BY DEF IInv, TypeOK, HandlerInv
<1>9. StageInv'
  <2> QED
    BY StageRuns DEF IInv, StageInv
<1>10. KnownInv'
  BY DEF IInv, TypeOK, KnownInv
<1> QED
  BY <1>1, <1>2, <1>3, <1>4, <1>5, <1>6, <1>7, <1>8, <1>9, <1>10 DEF IInv

-----------------------------------------------------------------------------
(* The theorems.                                                           *)

(* Before the first step: the rows there are have their links.             *)
LEMMA InitKeeps ==
  ASSUME Init
  PROVE  IInv
<1> PICK f \in [Key -> Row], s \in [Key -> Source] :
      LET there == {k \in Key : f[k] # NoPosting}
      IN  shown = f /\ links = {LinkOf(k, s[k], f[k]) : k \in there}
  BY DEF Init
<1>1. links \subseteq Link /\ \A l \in links : There(l.job)
  <2>1. ASSUME NEW k \in Key, There(k)
        PROVE  LinkOf(k, s[k], f[k]) \in Link
    BY <2>1 DEF LinkOf, Link, Row
  <2> QED
    BY <2>1 DEF LinkOf
<1>2. over = [r \in Run |-> [k \in Key |-> NoPosting]]
  BY DEF Init
<1>3. TypeOK
  BY <1>1, <1>2 DEF Init, TypeOK, Row
<1>4. LinkInv
  BY <1>1, <1>2 DEF Init, LinkInv
<1> QED
  BY <1>3, <1>4 DEF Init, IInv, IndexesAgree, ListingIsTheLastRuns, SavedIsTakenOff,
       InsertIsNew, TargetInv, HandlerInv, StageInv, KnownInv

(* The invariant holds in every state the system reaches.                  *)
THEOREM Invariance == Spec => []IInv
<1>1. Init => IInv
  BY InitKeeps
<1>2. IInv /\ [Next]_vars => IInv'
  <2> SUFFICES ASSUME IInv, [Next]_vars
               PROVE  IInv'
    OBVIOUS
  <2>1. ASSUME NEW r \in Run, NEW f \in Results, BeginOnLoop(r, f) \/ BeginWorker(r, f)
        PROVE  IInv'
    BY <2>1, BeginKeeps
  <2>2. ASSUME NEW r \in Run, RunStep(r) \/ Fail(r) \/ Abort(r)
        PROVE  IInv'
    BY <2>2, KeepTransientKeeps, MatchTrackedKeeps, UpsertKeeps, ReplaceKeeps,
       StoreKeeps, AbortKeeps DEF RunStep
  <2>3. ASSUME NEW id \in byId, Get(id)
        PROVE  IInv'
    BY <2>3, GetKeeps
  <2>4. CASE TrackStep \/ Rollback
    BY <2>4, FindMatchKeeps, TrackCommitKeeps, ConsumeKeeps, RollbackKeeps
       DEF TrackStep, TrackRefused
  <2>5. ASSUME NEW k \in Key, RemoveJob(k)
        PROVE  IInv'
    BY <2>5, RemoveJobKeeps
  <2>6. CASE Restart
    BY <2>6, RestartKeeps
  <2>7. CASE UNCHANGED vars
    BY <2>7 DEF vars, IInv, TypeOK, IndexesAgree, ListingIsTheLastRuns, SavedIsTakenOff,
       InsertIsNew, LinkInv, TargetInv, HandlerInv, StageInv, KnownInv
  <2> QED
    BY <2>1, <2>2, <2>3, <2>4, <2>5, <2>6, <2>7 DEF Next
<1> QED
  BY <1>1, <1>2, PTL DEF Spec

(* Every variable has its type.                                            *)
THEOREM TypeCorrect == Spec => []TypeOK
<1>1. IInv => TypeOK
  BY DEF IInv
<1> QED
  BY <1>1, Invariance, PTL

(* The two indexes of the registry name exactly the results it has.        *)
THEOREM IndexesCorrect == Spec => []IndexesAgree
<1>1. IInv => IndexesAgree
  BY DEF IInv
<1> QED
  BY <1>1, Invariance, PTL

(* What a source lists is what its last replacing run found, less what has *)
(* been saved.                                                             *)
THEOREM ListingCorrect == Spec => []ListingIsTheLastRuns
<1>1. IInv => ListingIsTheLastRuns
  BY DEF IInv
<1> QED
  BY <1>1, Invariance, PTL

(* A saved result is off the list once its handler returns, for ever.      *)
THEOREM SavedOffList == Spec => []SavedIsTakenOff
<1>1. IInv => SavedIsTakenOff
  BY DEF IInv
<1> QED
  BY <1>1, Invariance, PTL

(* No result of a run that is recorded as failed is listed.                *)
THEOREM FailedListsNothing == Spec => []NothingFromFailedRuns
<1>1. IInv => NothingFromFailedRuns
  BY ListedResults DEF NothingFromFailedRuns
<1> QED
  BY <1>1, Invariance, PTL

(* No job there ever since a run began is listed by it as untracked.       *)
THEOREM KnownNotListed == Spec => []KnownIsNotListed
<1>1. IInv => KnownIsNotListed
  BY ListedResults DEF KnownIsNotListed
<1> QED
  BY <1>1, Invariance, PTL

(* Tracking never makes a second job of a posting that has one.            *)
THEOREM NoSecondJob == Spec => []InsertIsNew
<1>1. IInv => InsertIsNew
  BY DEF IInv
<1> QED
  BY <1>1, Invariance, PTL

-----------------------------------------------------------------------------
(* Progress.                                                               *)

(* Only a run that is going on holds rows or the event loop, and a run     *)
(* that is about to write has a job to write to.                           *)
WaitInv ==
  \A r \in Run : /\ at[r] = "upsert" => target[r] # {}
                 /\ \A k \in Key : over[r][k] # NoPosting => at[r] \in Active
                 /\ loop = r => at[r] \in Active

LEMMA WaitStep == IInv /\ WaitInv /\ [Next]_vars => WaitInv'
<1> SUFFICES ASSUME IInv, WaitInv, [Next]_vars
             PROVE  WaitInv'
  OBVIOUS
<1>0. TypeOK
  BY DEF IInv
<1>1. ASSUME NEW r \in Run, NEW f \in Results, BeginOnLoop(r, f) \/ BeginWorker(r, f)
      PROVE  WaitInv'
  <2>1. UNCHANGED <<target, over>> /\ at' = [at EXCEPT ![r] = "match"] /\ loop' \in {loop, r}
    BY <1>1 DEF BeginOnLoop, BeginWorker, Begin
  <2> QED
    BY <1>0, <2>1 DEF WaitInv, TypeOK
<1>2. ASSUME NEW r \in Run, KeepTransient(r) \/ Replace(r)
      PROVE  WaitInv'
  <2>1. /\ UNCHANGED <<target, over, loop>> /\ target[r] = {}
        /\ at[r] = "match" /\ \E a \in {"match", "commit"} : at' = [at EXCEPT ![r] = a]
    BY <1>0, <1>2 DEF KeepTransient, Replace, TypeOK, IInv, TargetInv
  <2> QED
    BY <1>0, <2>1 DEF WaitInv, TypeOK
<1>3. ASSUME NEW r \in Run, MatchTracked(r)
      PROVE  WaitInv'
  <2>1. at' = [at EXCEPT ![r] = "upsert"] /\ target'[r] # {} /\ UNCHANGED <<over, loop>>
        /\ \A q \in Run \ {r} : target'[q] = target[q]
    BY <1>0, <1>3 DEF MatchTracked, TypeOK
  <2> QED
    BY <1>0, <2>1 DEF WaitInv, TypeOK
<1>4. ASSUME NEW r \in Run, Upsert(r)
      PROVE  WaitInv'
  <2>1. /\ at'[r] = "match" /\ loop' = loop
        /\ \A q \in Run \ {r} : at'[q] = at[q] /\ target'[q] = target[q] /\ over'[q] = over[q]
    BY <1>0, <1>4 DEF Upsert, TypeOK
  <2> QED
    BY <2>1 DEF WaitInv
<1>5. ASSUME NEW r \in Run, NEW outcome \in {"success", "failed", "lost"}, End(r, outcome)
      PROVE  WaitInv'
  <2>1. /\ target'[r] = {} /\ \A k \in Key : over'[r][k] = NoPosting
        /\ loop' # r /\ at'[r] # "upsert"
        /\ \A q \in Run \ {r} : /\ at'[q] = at[q] /\ target'[q] = target[q] /\ over'[q] = over[q]
                                /\ loop' = q => loop = q
    BY <1>0, <1>5 DEF End, TypeOK
  <2> QED
    BY <2>1 DEF WaitInv
<1>6. CASE TrackStep \/ Rollback \/ \E id \in byId : Get(id)
  <2>1. UNCHANGED <<at, target, over>> /\ loop' \notin Run \ {loop}
    BY <1>6 DEF TrackStep, FindMatch, TrackCommit, Consume, TrackRefused, Rollback, Return, Get
  <2> QED
    BY <2>1 DEF WaitInv
<1>7. ASSUME NEW k \in Key, RemoveJob(k)
      PROVE  WaitInv'
  <2>1. UNCHANGED <<target, over, loop>>
        /\ \A q \in Run : at'[q] = IF k \in target[q] THEN "stale" ELSE at[q]
    BY <1>7 DEF RemoveJob
  <2> QED
    BY <2>1 DEF WaitInv
<1>8. CASE Restart
  <2>1. loop' = "idle" /\ \A q \in Run : at'[q] # "upsert" /\ \A k \in Key : over'[q][k] = NoPosting
    BY <1>8 DEF Restart, Return
  <2> QED
    BY <2>1 DEF WaitInv
<1>9. CASE UNCHANGED vars
  BY <1>9 DEF vars, WaitInv
<1> QED
  BY <1>1, <1>2, <1>3, <1>4, <1>5, <1>6, <1>7, <1>8, <1>9
     DEF Next, RunStep, Commit, Fail, Abort

LEMMA WaitAlways == Spec => []WaitInv
<1>1. Init => WaitInv
  BY DEF Init, WaitInv
<1> QED
  BY <1>1, WaitStep, Invariance, PTL DEF Spec

(* Who waits is waited out: of the runs that somebody waits for, together  *)
(* with those they wait for, one can go on, since runs that all wait for   *)
(* one another are refused.                                                *)
LEMMA OneOfThemGoesOn ==
  ASSUME IInv, WaitInv, NEW C \in SUBSET Run, C # {}, \A q \in C : at[q] \in Active,
         \A r \in Run : at[r] \in Active /\ (\E q \in C : Blocks(r, q)) => r \in C
  PROVE  \E r \in C : RunReady(r)
<1> SUFFICES ASSUME \A r \in C : ~RunReady(r) PROVE FALSE
  OBVIOUS
<1>1. ASSUME NEW q \in C
      PROVE  \E o \in C : Blocks(o, q)
  <2>1. at[q] = "upsert" /\ target[q] # {} /\ target[q] \subseteq Key
    BY DEF RunReady, Refused, WaitInv, IInv, TypeOK
  <2>2. PICK k \in target[q] : ~Unlocked(k, Run \ {q})
    BY <2>1 DEF RunReady
  <2>3. PICK o \in Run \ {q} : over[o][k] # NoPosting
    BY <2>2 DEF Unlocked
  <2>4. Blocks(o, q) /\ at[o] \in Active
    BY <2>1, <2>3 DEF Blocks, WaitInv
  <2> QED
    BY <2>3, <2>4
<1>2. \A q \in C : Refused(q)
  BY <1>1 DEF Refused
<1> QED
  BY <1>2 DEF RunReady

(* Whoever has the event loop is not stuck, whatever locks there are.      *)
THEOREM LoopNotStuck == Spec => []LoopGoesOn
<1>1. IInv /\ WaitInv => LoopGoesOn
  <2> SUFFICES ASSUME IInv, WaitInv,
                      NEW C \in SUBSET {r \in Run : at[r] \in Active},
                      loop # "idle",
                      \A r \in Run : at[r] \in Active /\ (Awaited(r) \/ \E q \in C : Blocks(r, q)) => r \in C,
                      ~(loop = "track" /\ TrackReady)
               PROVE  \E r \in C : RunReady(r)
    BY DEF LoopGoesOn
  <2>1. CASE loop \in Run
    <3>1. loop \in C
      BY <2>1 DEF Awaited, WaitInv
    <3> QED
      BY <3>1, OneOfThemGoesOn
  <2>2. CASE loop = "track"
    <3>1. step = "write" /\ \A k \in TrackKeys : ~Unlocked(k, Run)
      BY <2>2 DEF TrackReady
    <3>2. trk \in Id /\ match \in SUBSET Key
      BY <3>1 DEF IInv, HandlerInv, TypeOK
    <3>3. PICK k \in TrackKeys : k \in Key
      BY <3>2 DEF TrackKeys, Id, Key
    <3>4. PICK r \in Run : over[r][k] # NoPosting
      BY <3>1 DEF Unlocked
    <3>5. r \in C
      BY <2>2, <3>3, <3>4 DEF Awaited, WaitInv
    <3> QED
      BY <3>5, OneOfThemGoesOn
  <2> QED
    BY <2>1, <2>2 DEF IInv, TypeOK
<1> QED
  BY <1>1, Invariance, WaitAlways, PTL

(* What a run has left to do, at each of its places.                       *)
WorkAt(r) ==
  /\ Len(todo[r]) \in Nat
  /\ at[r] = "match"  => Work(r) = 2 * Len(todo[r]) + 2
  /\ at[r] = "upsert" => Work(r) = 2 * Len(todo[r]) + 1
  /\ at[r] \in {"stale", "commit"} => Work(r) = 1
  /\ at[r] \notin Active => Work(r) = 0
  /\ at[r] \in Active => Work(r) >= 1

LEMMA WorkLeft ==
  ASSUME IInv, IInv', NEW r \in Run
  PROVE  WorkAt(r) /\ WorkAt(r)'
<1>1. WorkAt(r)
  BY DEF IInv, TypeOK, Work, WorkAt
<1>2. WorkAt(r)'
  BY DEF IInv, TypeOK, Work, WorkAt
<1> QED
  BY <1>1, <1>2

LEMMA FewerLeft ==
  ASSUME NEW q \in Seq(Posting), q # <<>>
  PROVE  Len(Tail(q)) = Len(q) - 1
  OBVIOUS

(* A run whose place and list stay has as much left.                       *)
LEMMA WorkKept ==
  ASSUME NEW r \in Run, at'[r] = at[r], todo'[r] = todo[r]
  PROVE  Work(r)' = Work(r)
  BY DEF Work

(* A step of a run leaves it less to do, and the others as much.           *)
LEMMA RunStepAdvances ==
  ASSUME IInv, IInv', NEW r \in Run, RunStep(r)
  PROVE  /\ Work(r)' < Work(r)
         /\ \A q \in Run \ {r} : Work(q)' = Work(q)
<1>1. TypeOK /\ todo[r] \in Seq(Posting) /\ WorkAt(r) /\ WorkAt(r)'
  BY WorkLeft DEF IInv, TypeOK
<1>2. \A q \in Run \ {r} : at'[q] = at[q] /\ todo'[q] = todo[q]
  BY <1>1 DEF RunStep, KeepTransient, MatchTracked, Upsert, Replace, Commit, Abort, End, TypeOK
<1>3. \A q \in Run \ {r} : Work(q)' = Work(q)
  BY <1>2, WorkKept
<1>4. ASSUME KeepTransient(r)
      PROVE  Work(r)' < Work(r)
  <2>1. at[r] = "match" /\ at'[r] = "match" /\ Len(todo'[r]) = Len(todo[r]) - 1
    BY <1>1, <1>4, FewerLeft DEF KeepTransient, TypeOK
  <2> QED
    BY <1>1, <2>1 DEF WorkAt
<1>5. ASSUME MatchTracked(r)
      PROVE  Work(r)' < Work(r)
  <2>1. at[r] = "match" /\ at'[r] = "upsert" /\ todo' = todo
    BY <1>1, <1>5 DEF MatchTracked, TypeOK
  <2> QED
    BY <1>1, <2>1 DEF WorkAt
<1>6. ASSUME Upsert(r)
      PROVE  Work(r)' < Work(r)
  <2>1. todo[r] # <<>>
    BY <1>6 DEF Upsert, IInv, TargetInv
  <2>2. at[r] = "upsert" /\ at'[r] = "match" /\ Len(todo'[r]) = Len(todo[r]) - 1
    BY <1>1, <1>6, <2>1, FewerLeft DEF Upsert, TypeOK
  <2> QED
    BY <1>1, <2>2 DEF WorkAt
<1>7. ASSUME Replace(r)
      PROVE  Work(r)' < Work(r)
  <2>1. at[r] = "match" /\ at'[r] = "commit"
    BY <1>1, <1>7 DEF Replace, TypeOK
  <2> QED
    BY <1>1, <2>1 DEF WorkAt
<1>8. ASSUME Commit(r) \/ Abort(r)
      PROVE  Work(r)' < Work(r)
  <2>1. at[r] \in Active /\ at'[r] \notin Active
    BY <1>1, <1>8 DEF Commit, Abort, End, TypeOK
  <2> QED
    BY <1>1, <2>1 DEF WorkAt
<1> QED
  BY <1>3, <1>4, <1>5, <1>6, <1>7, <1>8 DEF RunStep

(* No step gives a run that goes on more to do.                            *)
LEMMA NoMoreWork ==
  ASSUME IInv, IInv', [Next]_vars, NEW r \in Run, at[r] \in Active
  PROVE  Work(r)' <= Work(r)
<1>1. TypeOK /\ WorkAt(r) /\ WorkAt(r)'
  BY WorkLeft DEF IInv
<1>2. Work(r) \in Nat /\ Work(r)' \in Nat
  BY <1>1 DEF WorkAt, IInv, TypeOK
<1>3. CASE Work(r)' = Work(r) \/ at'[r] \notin Active
  BY <1>1, <1>2, <1>3 DEF WorkAt
<1>4. ASSUME NEW q \in Run, RunStep(q)
      PROVE  Work(r)' <= Work(r)
  BY <1>2, <1>4, RunStepAdvances
<1>5. ASSUME NEW q \in Run, Fail(q) \/ Abort(q)
      PROVE  Work(r)' = Work(r) \/ at'[r] \notin Active
  <2>1. q # r => at'[r] = at[r] /\ todo'[r] = todo[r]
    BY <1>1, <1>5 DEF Fail, Abort, End, TypeOK
  <2>2. q = r => at'[r] \notin Active
    BY <1>1, <1>5 DEF Fail, Abort, End, TypeOK
  <2> QED
    BY <2>1, <2>2, WorkKept
<1>6. ASSUME NEW q \in Run, NEW f \in Results, BeginOnLoop(q, f) \/ BeginWorker(q, f)
      PROVE  Work(r)' = Work(r)
  <2>1. at'[r] = at[r] /\ todo'[r] = todo[r]
    BY <1>1, <1>6 DEF BeginOnLoop, BeginWorker, Begin, TypeOK
  <2> QED
    BY <2>1, WorkKept
<1>7. CASE TrackStep \/ Rollback \/ (\E id \in byId : Get(id)) \/ UNCHANGED vars
  <2>1. UNCHANGED <<at, todo>>
    BY <1>7 DEF TrackStep, FindMatch, TrackCommit, Consume, TrackRefused, Rollback, Get, vars
  <2> QED
    BY <1>3, <2>1, WorkKept
<1>8. ASSUME NEW k \in Key, RemoveJob(k)
      PROVE  Work(r)' <= Work(r)
  <2>1. todo' = todo /\ at'[r] = IF k \in target[r] THEN "stale" ELSE at[r]
    BY <1>8 DEF RemoveJob
  <2>2. CASE k \in target[r]
    BY <1>1, <1>2, <2>1, <2>2 DEF WorkAt
  <2>3. CASE k \notin target[r]
    BY <1>3, <2>1, <2>3, WorkKept
  <2> QED
    BY <2>2, <2>3
<1>9. CASE Restart
  <2>1. at'[r] \notin Active
    BY <1>9 DEF Restart
  <2> QED
    BY <1>3, <2>1
<1> QED
  BY <1>3, <1>4, <1>5, <1>6, <1>7, <1>8, <1>9 DEF Next

(* Runs that go on come to an end, if each of them is given its steps.     *)
THEOREM RunsComeOn == Spec => RunsAdvance
<1> DEFINE Advance == \A r \in Run : at[r] \in Active =>
                         Work(r)' <= Work(r) /\ (RunStep(r) => Work(r)' < Work(r))
<1>1. IInv /\ IInv' /\ [Next]_vars => Advance
  BY RunStepAdvances, NoMoreWork
<1>2. IInv /\ IInv' /\ [Next]_vars => [Advance]_vars
  BY <1>1
<1> QED
  BY <1>2, Invariance, PTL DEF Spec, RunsAdvance
-----------------------------------------------------------------------------
(* The refinement of TransientListing.                                     *)

(* What a handler is about to save nobody has saved, and the job it found  *)
(* is there.                                                               *)
ChosenInv ==
  /\ step \in {"match", "write", "stale"} => trk \notin saved
  /\ step = "write" => \A k \in match : There(k)

LEMMA ChosenStep == IInv /\ ChosenInv /\ [Next]_vars => ChosenInv'
<1> SUFFICES ASSUME IInv, ChosenInv, [Next]_vars
             PROVE  ChosenInv'
  OBVIOUS
<1>0. match \in SUBSET Key
  BY DEF IInv, TypeOK
<1>1. CASE UNCHANGED <<shown, saved, step, trk, match>>
  BY <1>1 DEF ChosenInv
<1>2. ASSUME NEW r \in Run, Commit(r) \/ Fail(r)
      PROVE  ChosenInv'
  <2>1. \A k \in Key : shown'[k] # NoPosting <=> There(k)
    BY <1>2, RunsView DEF Commit, Fail, Store
  <2> QED
    BY <1>0, <1>2, <2>1 DEF ChosenInv, Commit, Fail, End
<1>3. ASSUME NEW id \in byId, Get(id)
      PROVE  ChosenInv'
  BY <1>3 DEF Get, ChosenInv, IInv, SavedIsTakenOff, HandlerInv
<1>4. CASE FindMatch
  <2> DEFINE ks == Existing(shown, links, SourceOf[trk[1]], trk[2])
  <2>1. ASSUME NEW k \in ks
        PROVE  There(k)
    <3>1. links \in SUBSET Link /\ \A l \in links : There(l.job)
      BY DEF IInv, TypeOK, LinkInv
    <3> QED
      BY <3>1, MatchIsThere
  <2>2. \A k \in match' : There(k)
    BY <1>4, <2>1 DEF FindMatch
  <2> QED
    BY <1>4, <2>2 DEF FindMatch, ChosenInv
<1>5. CASE TrackCommit \/ Consume \/ Rollback
  BY <1>5 DEF TrackCommit, Consume, Rollback, Return, ChosenInv
<1>6. ASSUME NEW k \in Key, RemoveJob(k)
      PROVE  ChosenInv'
  BY <1>0, <1>6 DEF RemoveJob, ChosenInv, IInv, TypeOK, HandlerInv
<1>7. CASE Restart
  BY <1>7 DEF Restart, Return, ChosenInv
<1>8. ASSUME NEW r \in Run, NEW f \in Results, BeginOnLoop(r, f) \/ BeginWorker(r, f)
      PROVE  UNCHANGED <<shown, saved, step, trk, match>>
  BY <1>8 DEF BeginOnLoop, BeginWorker, Begin
<1>9. ASSUME NEW r \in Run, RunStep(r) \/ Fail(r) \/ Abort(r)
      PROVE  Commit(r) \/ Fail(r) \/ UNCHANGED <<shown, saved, step, trk, match>>
  BY <1>9 DEF RunStep, KeepTransient, MatchTracked, Upsert, Replace, Abort, End
<1>10. CASE UNCHANGED vars
  BY <1>1, <1>10 DEF vars
<1> QED
  BY <1>1, <1>2, <1>3, <1>4, <1>5, <1>6, <1>7, <1>8, <1>9, <1>10
     DEF Next, TrackStep, TrackRefused

LEMMA ChosenAlways == Spec => []ChosenInv
<1>1. Init => ChosenInv
  BY DEF Init, ChosenInv
<1> QED
  BY <1>1, ChosenStep, Invariance, PTL DEF Spec

(* One step of the abstract specification, or none.                        *)
AbstractStep == Listing!ANext \/ UNCHANGED Listing!avars

(* What is saved and still in the registry is what the handler consumes    *)
(* next, so that the list less it is the list less all that is saved.      *)
Open(s) == {id \in byId \ saved : SourceOf[id[1]] = s}

LEMMA UnsavedOpen ==
  ASSUME IInv, IInv'
  PROVE  /\ [s \in Source |-> Unsaved(s)] = [s \in Source |-> Open(s)]
         /\ [s \in Source |-> Unsaved(s)]' = [s \in Source |-> Open(s)]'
         /\ \A s \in Source : Unsaved(s) = Open(s)
<1>1. \A s \in Source : Unsaved(s) = Open(s)
  BY DEF IInv, SavedIsTakenOff, HandlerInv, Unsaved, Open
<1>2. \A s \in Source : (Unsaved(s) = Open(s))'
  BY DEF IInv, SavedIsTakenOff, HandlerInv, Unsaved, Open
<1> QED
  BY <1>1, <1>2

(* A step that changes nothing the user sees.                              *)
LEMMA Invisible ==
  ASSUME IInv, IInv', Tracked' = Tracked, \A r \in Run : PhaseOf(r)' = PhaseOf(r), known' = known,
         UNCHANGED <<byId, saved>>, Chosen' = Chosen
  PROVE  AbstractStep
<1>1. UNCHANGED [s \in Source |-> Open(s)]
  BY DEF Open
<1> QED
  BY <1>1, UnsavedOpen DEF AbstractStep, Listing!avars

(* A run begins.                                                           *)
LEMMA BeginBegins ==
  ASSUME IInv, IInv', NEW r \in Run, NEW f \in Results, BeginOnLoop(r, f) \/ BeginWorker(r, f)
  PROVE  AbstractStep
<1>1. /\ at[r] = "none" /\ at' = [at EXCEPT ![r] = "match"]
      /\ known' = [known EXCEPT ![r] = Tracked]
      /\ UNCHANGED <<shown, byId, saved, step, trk>>
  BY DEF BeginOnLoop, BeginWorker, Begin, Tracked
<1>2. [q \in Run |-> PhaseOf(q)]' = [[q \in Run |-> PhaseOf(q)] EXCEPT ![r] = "running"]
  BY <1>1 DEF IInv, TypeOK, PhaseOf
<1>3. UNCHANGED <<Tracked, [s \in Source |-> Open(s)], Chosen>>
  BY <1>1 DEF Tracked, Open, Chosen
<1>4. PhaseOf(r) = "new"
  BY <1>1 DEF PhaseOf
<1>5. Listing!BeginRun(r)
  BY UnsavedOpen, <1>1, <1>2, <1>3, <1>4 DEF Listing!BeginRun
<1> QED
  BY <1>5 DEF AbstractStep, Listing!ANext

(* The replacement publishes what the run found.                           *)
LEMMA ReplacePublishes ==
  ASSUME IInv, IInv', NEW r \in Run, Replace(r)
  PROVE  AbstractStep
<1> DEFINE new == Deduped(found[r])
<1>1. /\ at[r] = "match" /\ at' = [at EXCEPT ![r] = "commit"]
      /\ byId' = (byId \ idsBySource[SourceOf[r]]) \cup ({r} \X new)
      /\ UNCHANGED <<shown, saved, known, step, trk>>
  BY DEF Replace, ReplaceResults
<1>2. found[r] \in Seq(Posting) /\ SourceOf[r] \in Source
  BY DEF IInv, TypeOK
<1>3. new \in SUBSET Posting /\ \A p \in new : p.key \notin known[r]
  BY <1>2, DedupedMembers DEF IInv, KnownInv
<1>4. [q \in Run |-> PhaseOf(q)]' = [[q \in Run |-> PhaseOf(q)] EXCEPT ![r] = "over"]
  BY <1>1 DEF IInv, TypeOK, PhaseOf
<1>5. UNCHANGED <<Tracked, known, Chosen, saved>>
  BY <1>1 DEF Tracked, Chosen
<1>6. PhaseOf(r) = "running"
  BY <1>1 DEF PhaseOf
<1>7. \A id \in saved : id[1] # r
  BY <1>1 DEF IInv, StageInv
<1>8. \A s \in Source : Open(s)' = IF s = SourceOf[r] THEN {r} \X new ELSE Open(s)
  <2>1. byId' = (byId \ {id \in byId : SourceOf[id[1]] = SourceOf[r]}) \cup ({r} \X new)
    BY <1>1, <1>2 DEF IInv, IndexesAgree
  <2>2. ASSUME NEW s \in Source
        PROVE  Open(s)' = IF s = SourceOf[r] THEN {r} \X new ELSE Open(s)
    BY <1>1, <1>7, <2>1 DEF Open
  <2> QED
    BY <2>2
<1>9. [s \in Source |-> Open(s)]' = [[s \in Source |-> Open(s)] EXCEPT ![SourceOf[r]] = {r} \X new]
  BY <1>8
<1>10. Listing!Publish(r, new)
  BY UnsavedOpen, <1>3, <1>4, <1>5, <1>6, <1>9 DEF Listing!Publish
<1> QED
  BY <1>3, <1>10 DEF AbstractStep, Listing!ANext

(* A run that ends otherwise publishes nothing; its commit keeps the       *)
(* tracked jobs.                                                           *)
LEMMA EndsUnseen ==
  ASSUME IInv, IInv', NEW r \in Run, Commit(r) \/ Fail(r) \/ Abort(r)
  PROVE  AbstractStep
<1>1. PICK o \in {"success", "failed", "lost"} : at' = [at EXCEPT ![r] = o]
  BY DEF Commit, Fail, Abort, End
<1>2. UNCHANGED <<byId, saved, known, step, trk>>
  BY DEF Commit, Fail, Abort, End
<1>3. Tracked' = Tracked
  BY RunsView DEF Commit, Fail, Abort, Store, Tracked
<1>4. UNCHANGED <<[s \in Source |-> Open(s)], Chosen>>
  BY <1>2 DEF Open, Chosen
<1>5. CASE at[r] = "commit"
  <2>1. \A q \in Run : PhaseOf(q)' = PhaseOf(q)
    BY <1>1, <1>5 DEF IInv, TypeOK, PhaseOf
  <2> QED
    BY <1>2, <1>3, <1>4, <2>1, Invisible
<1>6. CASE at[r] # "commit"
  <2>1. PhaseOf(r) = "running"
    BY <1>6 DEF Commit, Fail, Abort, PhaseOf
  <2>2. [q \in Run |-> PhaseOf(q)]' = [[q \in Run |-> PhaseOf(q)] EXCEPT ![r] = "over"]
    BY <1>1 DEF IInv, TypeOK, PhaseOf
  <2>3. Listing!Quit(r)
    BY UnsavedOpen, <1>2, <1>3, <1>4, <2>1, <2>2 DEF Listing!Quit
  <2> QED
    BY <2>3 DEF AbstractStep, Listing!ANext
<1> QED
  BY <1>5, <1>6

(* The tracking handler takes a result that nobody has saved.              *)
LEMMA GetChooses ==
  ASSUME IInv, IInv', NEW id \in byId, Get(id)
  PROVE  AbstractStep
<1>1. /\ step = "none" /\ step' = "match" /\ trk' = id
      /\ UNCHANGED <<shown, byId, saved, at, known>>
  BY DEF Get, IInv, HandlerInv
<1>2. id \in Id /\ id \notin saved
  BY <1>1 DEF IInv, TypeOK, SavedIsTakenOff
<1>3. SourceOf[id[1]] \in Source
  BY <1>2 DEF Id
<1>4. id \in Open(SourceOf[id[1]])
  BY <1>2 DEF Open
<1>5. Chosen' = Chosen \cup {id}
  BY <1>1 DEF Chosen
<1>6. UNCHANGED <<Tracked, [r \in Run |-> PhaseOf(r)], [s \in Source |-> Open(s)]>>
  BY <1>1 DEF Tracked, PhaseOf, Open
<1>7. Listing!Choose(id)
  BY UnsavedOpen, <1>1, <1>3, <1>4, <1>5, <1>6 DEF Listing!Choose
<1> QED
  BY <1>2, <1>7 DEF AbstractStep, Listing!ANext, Id

(* The commit of the tracking saves it: one job, and off the list.         *)
LEMMA TrackCommitSaves ==
  ASSUME IInv, IInv', ChosenInv, TrackCommit
  PROVE  AbstractStep
<1>1. trk \in Id /\ trk \notin saved /\ step = "write"
  BY DEF TrackCommit, IInv, HandlerInv, ChosenInv
<1>2. PICK k \in IF match = {} THEN {trk[2].key} ELSE match :
        shown' = [shown EXCEPT ![k] = trk[2]]
  BY DEF TrackCommit
<1>3. /\ saved' = saved \cup {trk} /\ step' = "consume"
      /\ UNCHANGED <<byId, at, known>>
  BY DEF TrackCommit
<1>4. k \in Key /\ trk[2] \in Posting
  BY <1>1 DEF IInv, TypeOK, Id, Key
<1>5. Tracked' = Tracked \cup {k}
  BY <1>2, <1>4 DEF IInv, TypeOK, Tracked
<1>6. k \in Tracked \cup {trk[2].key}
  BY <1>1, <1>2, <1>4 DEF ChosenInv, Tracked
<1>7. Chosen = {trk} /\ Chosen' = {}
  BY <1>1, <1>3 DEF Chosen
<1>8. [s \in Source |-> Open(s)]' = [s \in Source |-> [q \in Source |-> Open(q)][s] \ {trk}]
  BY <1>3 DEF Open
<1>9. UNCHANGED [r \in Run |-> PhaseOf(r)]
  BY <1>3 DEF PhaseOf
<1>10. Listing!Save(trk)
  BY UnsavedOpen, <1>1, <1>3, <1>5, <1>6, <1>7, <1>8, <1>9 DEF Listing!Save
<1> QED
  BY <1>1, <1>10 DEF AbstractStep, Listing!ANext, Id

(* A rollback gives the result up.                                         *)
LEMMA RollbackGivesUp ==
  ASSUME IInv, IInv', Rollback
  PROVE  AbstractStep
<1>1. trk \in Id
  BY DEF Rollback, IInv, HandlerInv
<1>2. Chosen = {trk} /\ Chosen' = {}
  BY DEF Rollback, Return, Chosen
<1>3. UNCHANGED <<Tracked, [r \in Run |-> PhaseOf(r)], known, [s \in Source |-> Open(s)], saved>>
  BY DEF Rollback, Tracked, PhaseOf, Open
<1>4. Listing!GiveUp(trk)
  BY UnsavedOpen, <1>2, <1>3 DEF Listing!GiveUp
<1> QED
  BY <1>1, <1>4 DEF AbstractStep, Listing!ANext, Id

(* The result that is consumed was off the list since it was saved.        *)
LEMMA ConsumeIsUnseen ==
  ASSUME IInv, IInv', Consume
  PROVE  AbstractStep
<1>1. trk \in saved /\ byId' = byId \ {trk}
  BY DEF Consume, Remove, IInv, HandlerInv
<1>2. UNCHANGED <<Tracked, [r \in Run |-> PhaseOf(r)], known, saved, Chosen>>
  BY DEF Consume, Return, Tracked, PhaseOf, Chosen
<1>3. UNCHANGED [s \in Source |-> Open(s)]
  BY <1>1, <1>2 DEF Open
<1> QED
  BY UnsavedOpen, <1>2, <1>3 DEF AbstractStep, Listing!avars

(* A cleanup deletes a job.                                                *)
LEMMA RemoveJobRemoves ==
  ASSUME IInv, IInv', NEW k \in Key, RemoveJob(k)
  PROVE  AbstractStep
<1>1. Tracked' = Tracked \ {k}
  BY DEF RemoveJob, IInv, TypeOK, Tracked
<1>2. \A r \in Run : PhaseOf(r)' = PhaseOf(r)
  BY DEF RemoveJob, IInv, TypeOK, TargetInv, PhaseOf
<1>3. Chosen' = Chosen
  BY DEF RemoveJob, IInv, HandlerInv, Chosen
<1>4. UNCHANGED <<[s \in Source |-> Open(s)], saved>>
  BY DEF RemoveJob, Open
<1>5. Listing!Remove(k)
  BY UnsavedOpen, <1>1, <1>2, <1>3, <1>4 DEF Listing!Remove, RemoveJob
<1>6. k \in Listing!AKey
  BY DEF Listing!AKey, Key
<1> QED
  BY <1>5, <1>6 DEF AbstractStep, Listing!ANext

(* A restart forgets what was not saved.                                   *)
LEMMA RestartForgets ==
  ASSUME IInv, IInv', Restart
  PROVE  AbstractStep
<1>1. [r \in Run |-> PhaseOf(r)]' = [r \in Run |-> IF [q \in Run |-> PhaseOf(q)][r] = "running"
                                                  THEN "over" ELSE [q \in Run |-> PhaseOf(q)][r]]
  BY DEF Restart, IInv, TypeOK, PhaseOf
<1>2. [s \in Source |-> Open(s)]' = [s \in Source |-> {}]
  BY DEF Restart, Open
<1>3. Chosen' = {} /\ UNCHANGED <<Tracked, known, saved>>
  BY DEF Restart, Return, Chosen, Tracked
<1>4. Listing!Crash
  BY UnsavedOpen, <1>1, <1>2, <1>3 DEF Listing!Crash
<1> QED
  BY <1>4 DEF AbstractStep, Listing!ANext

(* Every step maps to an abstract step or to none.                         *)
LEMMA NextRefines == IInv /\ IInv' /\ ChosenInv /\ [Next]_vars => AbstractStep
<1> SUFFICES ASSUME IInv, IInv', ChosenInv, [Next]_vars
             PROVE  AbstractStep
  OBVIOUS
<1>1. ASSUME NEW r \in Run, KeepTransient(r) \/ MatchTracked(r) \/ Upsert(r)
      PROVE  AbstractStep
  <2>1. UNCHANGED <<shown, known, byId, saved, step, trk>>
    BY <1>1 DEF KeepTransient, MatchTracked, Upsert
  <2>2. \A q \in Run : PhaseOf(q)' = PhaseOf(q)
    BY <1>1 DEF KeepTransient, MatchTracked, Upsert, IInv, TypeOK, PhaseOf
  <2>3. Tracked' = Tracked /\ Chosen' = Chosen
    BY <2>1 DEF Tracked, Chosen
  <2> QED
    BY <2>1, <2>2, <2>3, Invisible
<1>2. CASE FindMatch \/ UNCHANGED vars
  <2>1. UNCHANGED <<shown, known, byId, saved, at, trk>> /\ Chosen' = Chosen
    BY <1>2 DEF FindMatch, vars, Chosen
  <2>2. Tracked' = Tracked /\ \A r \in Run : PhaseOf(r)' = PhaseOf(r)
    BY <2>1 DEF Tracked, PhaseOf
  <2> QED
    BY <2>1, <2>2, Invisible
<1> QED
  BY <1>1, <1>2, BeginBegins, ReplacePublishes, EndsUnseen, GetChooses, TrackCommitSaves,
     RollbackGivesUp, ConsumeIsUnseen, RemoveJobRemoves, RestartForgets
     DEF Next, RunStep, TrackStep, TrackRefused

(* The registry, the runs and the handler, with all that fails between     *)
(* them, do only what the abstract listing may do.                         *)
THEOREM Refinement == Spec => ImplementsListing
<1>1. Init => Listing!AInit
  BY DEF Init, Listing!AInit, Listing!AKey, Tracked, PhaseOf, Unsaved, Chosen, Key
<1>2. IInv /\ IInv' /\ ChosenInv /\ [Next]_vars => [Listing!ANext]_(Listing!avars)
  BY NextRefines DEF AbstractStep
<1> QED
  BY <1>1, <1>2, Invariance, ChosenAlways, PTL DEF Spec, ImplementsListing, Listing!ASpec
=============================================================================
