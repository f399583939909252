------------------------------ MODULE Digests ------------------------------
(***************************************************************************)
(* The daily digest (NotificationService.generate_digest) beside the       *)
(* transactions that decide on jobs.                                       *)
(*                                                                         *)
(* A decision gets its created_at when it is inserted and is seen by       *)
(* others from its commit on.  The handler runs on threads, so generations *)
(* overlap; the unique constraints of migration 0001 (one digest a day,    *)
(* one item of a job in it) refuse what a check before the insert missed.  *)
(*                                                                         *)
(* A decision is <<job, time, n>>; only those that are current and matched *)
(* or review count.  A job has one at most, unless two transactions        *)
(* decided on it at once (JobDecisions, OneCurrentPerJob): the other has   *)
(* another n.                                                              *)
(*                                                                         *)
(* The SELECTs after the insert of a digest are one step: what another     *)
(* generation stores between them concerns only generations that overlap,  *)
(* and about those ReportedOnce and NothingMissed promise nothing.         *)
(***************************************************************************)
EXTENDS Integers, FiniteSets

CONSTANTS Job,        \* visible jobs
          Request,    \* threads that generate digests
          DayLength,  \* the units of time of a day
          Longest,    \* the most a generation takes
          MaxTime,    \* bound: the clock
          MaxDecision \* bound: decisions

ASSUME TimeAssumption ==
    {DayLength, Longest, MaxTime, MaxDecision} \subseteq Nat \ {0} /\ Longest <= DayLength

VARIABLES
    now,       \* the clock
    current,   \* current, matched or review decisions that are committed
    count,     \* decisions so far
    flying,    \* of each job the time of a decision inserted and not committed
    made,      \* generated_at of the digest of each day
    items,     \* its items, each with the decision it was made for
    \* of each request
    at,        \* the statement it is about to run
    start,     \* its "now"
    own,       \* it has inserted the digest
    batch,     \* the decisions it adds to the digest
    \* history
    found,     \* of each request: current decisions that it left out
    alone,     \* of each request: no other generation since it began
    late,      \* jobs and times of decisions not committed when a digest selected
    shared     \* days whose digest more than one generation worked on

decisions == <<current, count, flying>>
digests   == <<made, items>>
request   == <<at, start, own, batch, found, alone>>
history   == <<late, shared>>
vars      == <<now, decisions, digests, request, history>>

Time     == 0 .. MaxTime
NoTime   == -1
DayOf(t) == t \div DayLength
Day      == 0 .. DayOf(MaxTime)
Decision == Job \X Time \X {1, 2}

TypeOK ==
    /\ now \in Time
    /\ current \subseteq Decision
    /\ count \in 0 .. MaxDecision
    /\ flying \in [Job -> Time \cup {NoTime}]
    /\ made \in [Day -> Time \cup {NoTime}]
    /\ items \in [Day -> SUBSET Decision]
    /\ at \in [Request -> {"idle", "insert", "select", "store"}]
    /\ start \in [Request -> Time]
    /\ own \in [Request -> BOOLEAN]
    /\ batch \in [Request -> SUBSET Decision]
    /\ found \in [Request -> SUBSET Decision]
    /\ alone \in [Request -> BOOLEAN]
    /\ late \subseteq Job \X Time
    /\ shared \subseteq Day
-----------------------------------------------------------------------------
Init ==
    /\ now = 0
    /\ current = {}
    /\ count = 0
    /\ flying = [j \in Job |-> NoTime]
    /\ made = [d \in Day |-> NoTime]
    /\ items = [d \in Day |-> {}]
    /\ at = [r \in Request |-> "idle"]
    /\ start = [r \in Request |-> 0]
    /\ own = [r \in Request |-> FALSE]
    /\ batch = [r \in Request |-> {}]
    /\ found = [r \in Request |-> {}]
    /\ alone = [r \in Request |-> TRUE]
    /\ late = {}
    /\ shared = {}

Tick ==
    /\ now < MaxTime
    /\ \A r \in Request : at[r] # "idle" => now < start[r] + Longest
    /\ now' = now + 1
    /\ UNCHANGED <<decisions, digests, request, history>>

\* persist_snapshot in the transactions that call it: the INSERT, and the
\* commit, after which the older decisions are not current.
Decide(j) ==
    /\ flying[j] = NoTime /\ count < MaxDecision
    /\ count' = count + 1
    /\ flying' = [flying EXCEPT ![j] = now]
    /\ UNCHANGED <<now, current, digests, request, history>>

Of(j, D) == {d \in D : d[1] = j}

CommitDecision(j, new) ==
    /\ flying[j] # NoTime
    /\ \/ current' = (current \ Of(j, current)) \cup new
       \/ /\ Cardinality(Of(j, current)) = 1 /\ new \cap current = {}
          /\ current' = current \cup new
    /\ flying' = [flying EXCEPT ![j] = NoTime]
    /\ UNCHANGED <<now, count, digests, request, history>>
-----------------------------------------------------------------------------
DayFor(r) == DayOf(start[r])

\* generated_at of the digest r works on.
MadeFor(r) == IF own[r] THEN start[r] ELSE made[DayFor(r)]

\* The SELECT of the digest of the day.
Generate(r) ==
    /\ at[r] = "idle"
    /\ start' = [start EXCEPT ![r] = now]
    /\ at' = [at EXCEPT ![r] = IF made[DayOf(now)] = NoTime THEN "insert" ELSE "select"]
    /\ alone' = [u \in Request |->
          IF u = r THEN \A v \in Request : at[v] = "idle" ELSE at[u] = "idle"]
    /\ UNCHANGED <<now, decisions, digests, own, batch, found, history>>

Return(r) ==
    /\ at' = [at EXCEPT ![r] = "idle"]
    /\ start' = [start EXCEPT ![r] = 0]
    /\ own' = [own EXCEPT ![r] = FALSE]
    /\ batch' = [batch EXCEPT ![r] = {}]
    /\ found' = [found EXCEPT ![r] = {}]
    /\ alone' = [alone EXCEPT ![r] = TRUE]
    /\ UNCHANGED <<now, decisions>>

\* The INSERT waits for another of the same day, and is refused after it.
InsertDigest(r) ==
    /\ at[r] = "insert" /\ made[DayFor(r)] = NoTime
    /\ \A u \in Request : own[u] => DayFor(u) # DayFor(r)
    /\ own' = [own EXCEPT ![r] = TRUE]
    /\ at' = [at EXCEPT ![r] = "select"]
    /\ UNCHANGED <<now, decisions, digests, start, batch, found, alone, history>>

RefuseDigest(r) ==
    /\ at[r] = "insert" /\ made[DayFor(r)] # NoTime
    /\ Return(r)
    /\ UNCHANGED <<digests, history>>

Before(r) == {made[d] : d \in {d \in Day : made[d] # NoTime /\ made[d] < MadeFor(r)}}

\* Seeded fault: digests are ordered the other way round.
FaultyWindowStart(r) ==
    IF Before(r) = {} THEN start[r] - DayLength
    ELSE CHOOSE t \in Before(r) : \A u \in Before(r) : t <= u

\* The window begins with the digest before, or a day ago.
WindowStart(r) ==
    IF Before(r) = {} THEN start[r] - DayLength
    ELSE CHOOSE t \in Before(r) : \A u \in Before(r) : u <= t

HasItem(day, j) == Of(j, items[day]) # {}

\* Seeded fault: no look for the items there are.
FaultyWithoutItem(r, D) == D

WithoutItem(r, D) == {d \in D : ~HasItem(DayFor(r), d[1])}

SelectDecisions(r) ==
    /\ at[r] = "select"
    /\ LET due == {d \in current : WindowStart(r) <= d[2] /\ d[2] <= start[r]}
           new == WithoutItem(r, due)
       IN  /\ batch' = [batch EXCEPT ![r] = new]
           /\ found' = [found EXCEPT ![r] = {d \in current \ new : d[2] <= start[r]}]
    /\ late' = late \cup {<<j, flying[j]>> : j \in {j \in Job : flying[j] \in 0 .. MadeFor(r) - 1}}
    /\ at' = [at EXCEPT ![r] = "store"]
    /\ UNCHANGED <<now, decisions, digests, start, own, alone, shared>>

\* A job has one item in a digest.
Storable(r) ==
    \A d \in batch[r] : ~HasItem(DayFor(r), d[1]) /\ Of(d[1], batch[r]) = {d}

\* Seeded fault: generated_at is when the digest is stored.
FaultyStoreDigest(r) ==
    /\ at[r] = "store" /\ Storable(r)
    /\ made' = [made EXCEPT ![DayFor(r)] = IF own[r] THEN now ELSE MadeFor(r)]
    /\ items' = [items EXCEPT ![DayFor(r)] = @ \cup batch[r]]
    /\ shared' = IF own[r] /\ alone[r] THEN shared ELSE shared \cup {DayFor(r)}
    /\ Return(r)
    /\ UNCHANGED late

StoreDigest(r) ==
    /\ at[r] = "store" /\ Storable(r)
    /\ made' = [made EXCEPT ![DayFor(r)] = MadeFor(r)]
    /\ items' = [items EXCEPT ![DayFor(r)] = @ \cup batch[r]]
    /\ shared' = IF own[r] /\ alone[r] THEN shared ELSE shared \cup {DayFor(r)}
    /\ Return(r)
    /\ UNCHANGED late

RefuseItems(r) ==
    /\ at[r] = "store" /\ ~Storable(r)
    /\ Return(r)
    /\ UNCHANGED <<digests, history>>

Refuse(r) == RefuseDigest(r) \/ RefuseItems(r)

Next ==
    \/ Tick
    \/ \E j \in Job : Decide(j) \/ \E new \in {{}} \cup {{<<j, flying[j], n>>} : n \in {1, 2}} : CommitDecision(j, new)
    \/ \E r \in Request : \/ Generate(r) \/ InsertDigest(r) \/ SelectDecisions(r)
                          \/ StoreDigest(r) \/ Refuse(r)

Spec == Init /\ [][Next]_vars
-----------------------------------------------------------------------------
\* A digest that is generated alone leaves nothing out: what was current when
\* it selected has its job in the digest of the decision's day or a later one,
\* unless the decision was not committed yet when an earlier digest selected,
\* or is more than a day older than the first digest (the windows of
\* generate_digest 34-50 join).
NothingMissed ==
    [][\A r \in Request : StoreDigest(r) /\ alone[r] =>
         \A d \in found[r] :
             \/ <<d[1], d[2]>> \in late
             \/ \A day \in Day : made'[day] # NoTime => d[2] < made'[day] - DayLength
             \/ \E day \in DayOf(d[2]) .. DayOf(MaxTime) : HasItem(day, d[1])']_vars

\* A decision is reported on one day, unless the digest was generated again or
\* beside another generation, or in the instant of the decision (the window of
\* a second generation reaches past the generated_at that the next one begins
\* with, generate_digest 21-37).
ReportedOnce ==
    \A c, e \in Day : \A d \in items[c] \cap items[e] :
        c < e => c \in shared \/ d[2] = made[c]

\* "The daily digest includes only new jobs" (product spec 241): no job is in the
\* digests of two days.
OnlyNewJobs ==
    \A c, e \in Day : \A d \in items[c], f \in items[e] : c # e => d[1] # f[1]

\* "Notification jobs must be idempotent" (backend plan 409): generating again
\* leads to no report that was made already.
NoDecisionTwice == \A c, e \in Day : c # e => items[c] \cap items[e] = {}

\* A generation is refused only if another one overlaps it, or a job has two
\* current decisions (the unique constraints of migration 0001, lines 160, 170).
RefusedOnlyIfRaced ==
    [][\A r \in Request : Refuse(r) =>
         ~alone[r] \/ \E d, e \in batch[r] : d # e /\ d[1] = e[1]]_vars
=============================================================================
