--------------------------- MODULE DigestsProofs ---------------------------
(***************************************************************************)
(* Proofs about Digests, for any jobs, threads, bounds and length of a     *)
(* day.                                                                    *)
(***************************************************************************)
EXTENDS Digests, WellFoundedInduction, TLAPS

USE DEF decisions, digests, request, history, vars
-----------------------------------------------------------------------------
(* Time and days.                                                          *)

LEMMA DivMod ==
  ASSUME NEW a \in Nat, NEW L \in Nat \ {0}
  PROVE  a \div L \in Nat /\ (a \div L) * L <= a /\ a < (a \div L) * L + L
  BY Z3

LEMMA MulMono ==
  ASSUME NEW p \in Nat, NEW q \in Nat, NEW L \in Nat \ {0}, p < q
  PROVE  p * L + L <= q * L
  BY Z3

LEMMA TimeType == Time \subseteq Nat /\ NoTime \notin Time /\ 0 \in Time /\ DayLength \in Nat /\ Longest \in Nat
  BY TimeAssumption DEF Time, NoTime

\* Days follow each other as their times do.
LEMMA DayMono ==
  ASSUME NEW a \in Time, NEW b \in Time, a <= b
  PROVE  DayOf(a) <= DayOf(b)
  BY DivMod, MulMono, TimeType, TimeAssumption DEF DayOf

\* Two times of one day are less than a day apart.
LEMMA DayNear ==
  ASSUME NEW a \in Time, NEW b \in Time, DayOf(a) = DayOf(b)
  PROVE  a < b + DayLength
<1>1. a \in Nat /\ b \in Nat /\ DayLength \in Nat \ {0}
  BY TimeType, TimeAssumption
<1>2. a < (a \div DayLength) * DayLength + DayLength /\ (b \div DayLength) * DayLength <= b
  BY <1>1, DivMod
<1> QED
  BY <1>1, <1>2 DEF DayOf

LEMMA DayType == \A a \in Time : DayOf(a) \in Day /\ DayOf(a) \in Nat
<1> SUFFICES ASSUME NEW a \in Time
             PROVE  DayOf(a) \in Day /\ DayOf(a) \in Nat
  OBVIOUS
<1>1. MaxTime \in Time /\ a <= MaxTime
  BY TimeAssumption DEF Time
<1>2. DayOf(a) <= DayOf(MaxTime)
  BY <1>1, DayMono
<1>3. DayOf(a) \in Nat /\ DayOf(MaxTime) \in Nat
  BY <1>1, TimeType, TimeAssumption, DivMod DEF DayOf
<1> QED
  BY <1>2, <1>3 DEF Day

\* A bounded set of numbers has a greatest one.
LEMMA Greatest ==
  ASSUME NEW N \in Nat, NEW S, S \subseteq 0 .. N, S # {}
  PROVE  \E t \in S : \A u \in S : u <= t
<1>0. \A u \in S : u \in Int
  OBVIOUS
<1> DEFINE T == {N - t : t \in S}
           R == OpToRel(<, Nat)
<1>1. T \subseteq Nat /\ T # {}
  <2>1. \A t \in S : N - t \in Nat
    BY SMT
  <2> QED
    BY <2>1
<1>2. \E x \in T : \A y \in T : ~(<<y, x>> \in R)
  <2>1. IsWellFoundedOn(R, Nat)
    BY NatLessThanWellFounded DEF R
  <2> QED
    BY <1>1, <2>1, WFMin
<1>3. PICK x \in T : \A y \in T : ~(<<y, x>> \in R)
  BY <1>2
<1>4. \A m, n \in Nat : m < n => <<m, n>> \in R
  BY DEF OpToRel
<1>5. PICK t \in S : x = N - t
  OBVIOUS
<1>6. \A y \in T : ~(y < x)
  <2> HIDE DEF R, T
  <2> QED
    BY <1>1, <1>3, <1>4
<1>7. \A u \in S : u <= t
  <2> SUFFICES ASSUME NEW u \in S PROVE u <= t
    OBVIOUS
  <2>1. ~(N - u < N - t)
    BY <1>5, <1>6
  <2>2. u \in Int /\ t \in Int
    BY <1>0
  <2> QED
    BY <2>1, <2>2
<1> QED
  BY <1>7
-----------------------------------------------------------------------------
(* The inductive invariant, part by part.                                  *)

\* Nothing carries a time to come, and a generation takes no longer than it may.
ClockInv ==
  /\ \A d \in Day : made[d] <= now
  /\ \A j \in Job : flying[j] <= now
  /\ \A r \in Request : start[r] <= now /\ (at[r] # "idle" => now <= start[r] + Longest)

\* A digest is of its day; only digests have items.
DigestInv ==
  \A d \in Day : IF made[d] = NoTime THEN items[d] = {} ELSE DayOf(made[d]) = d

\* The digest a generation has inserted is the only one of its day, and any
\* other generation past that point works on one that is there.
OwnInv ==
  \A r \in Request :
    /\ own[r] => /\ at[r] \in {"select", "store"} /\ made[DayFor(r)] = NoTime
                 /\ \A u \in Request \ {r} : own[u] => DayFor(u) # DayFor(r)
    /\ at[r] \in {"select", "store"} /\ ~own[r] => made[DayFor(r)] # NoTime

\* While a generation is alone nobody else changes a digest.
AloneInv ==
  \A r \in Request : alone[r] /\ at[r] # "idle" =>
    /\ \A u \in Request \ {r} : at[u] = "idle"
    /\ \A d \in Day : made[d] <= start[r]
    /\ at[r] = "insert" => made[DayFor(r)] = NoTime
    /\ at[r] = "store" => \A d \in batch[r] : ~HasItem(DayFor(r), d[1])

\* What a digest reports, or is about to, is not older than a digest before it
\* that was generated alone, and in such a digest not younger than it.
BatchInv ==
  \A r \in Request : at[r] = "store" => \A d \in batch[r] :
    /\ d[2] <= start[r]
    /\ \A c \in Day \ shared : made[c] # NoTime /\ c < DayFor(r) => made[c] <= d[2]

ItemInv ==
  \A c \in Day \ shared : made[c] # NoTime =>
    /\ \A d \in items[c] : d[2] <= made[c]
    /\ \A e \in Day : c < e => \A d \in items[e] : made[c] <= d[2]

\* A decision that needs no further digest.
Reported(d) == \E day \in DayOf(d[2]) .. DayOf(MaxTime) : HasItem(day, d[1])

TooOld(d) == \A day \in Day : made[day] # NoTime => d[2] < made[day] - DayLength

Late(d) == <<d[1], d[2]>> \in late

Settled(d) == Late(d) \/ Reported(d) \/ TooOld(d)

\* What was decided before some digest was made is settled, or late if it is
\* not committed even now.
SettledInv ==
  \A c \in Day : made[c] # NoTime =>
    /\ \A d \in current : d[2] < made[c] => Settled(d)
    /\ \A j \in Job : flying[j] # NoTime /\ flying[j] < made[c] => <<j, flying[j]>> \in late

\* And the same of a digest that is about to be stored: what it does not
\* report is left to an older digest or, if there is none, too old.
LeftToOthers(r, d) ==
  \/ \E c \in Day : made[c] # NoTime /\ made[c] < start[r] /\ d[2] < made[c]
  \/ d[2] < start[r] - DayLength /\ \A c \in Day : made[c] # NoTime => start[r] - DayLength <= made[c]

StoreInv ==
  \A r \in Request : at[r] = "store" /\ own[r] =>
    /\ \A d \in current : d[2] < start[r] =>
          Late(d) \/ d \in batch[r] \/ Reported(d) \/ LeftToOthers(r, d)
    /\ \A j \in Job : flying[j] # NoTime /\ flying[j] < start[r] => <<j, flying[j]>> \in late

FoundInv ==
  \A r \in Request : at[r] = "store" /\ alone[r] => \A d \in found[r] :
    Late(d) \/ Reported(d) \/ (TooOld(d) /\ (own[r] => d[2] < start[r] - DayLength))

IInv ==
  /\ TypeOK /\ ClockInv /\ DigestInv /\ OwnInv /\ AloneInv
  /\ BatchInv /\ ItemInv /\ SettledInv /\ StoreInv /\ FoundInv
-----------------------------------------------------------------------------
\* The window of a generation begins with the last digest before its own.
LEMMA Window ==
  ASSUME TypeOK, NEW r \in Request
  PROVE  IF Before(r) = {} THEN WindowStart(r) = start[r] - DayLength
         ELSE /\ WindowStart(r) \in Before(r)
              /\ \A u \in Before(r) : u <= WindowStart(r)
<1>1. CASE Before(r) = {}
  BY <1>1 DEF WindowStart
<1>2. CASE Before(r) # {}
  <2>1. Before(r) \subseteq 0 .. MaxTime
    BY DEF Before, TypeOK, Time
  <2>2. \E t \in Before(r) : \A u \in Before(r) : u <= t
    BY <1>2, <2>1, Greatest, TimeAssumption
  <2> QED
    BY <1>2, <2>2 DEF WindowStart
<1> QED
  BY <1>1, <1>2

LEMMA InitInv == Init => IInv
<1> SUFFICES ASSUME Init PROVE IInv
  OBVIOUS
<1> USE TimeType, TimeAssumption DEF Init
<1>1. TypeOK
  BY DEF TypeOK, Time
<1>2. ClockInv /\ DigestInv /\ OwnInv /\ AloneInv /\ BatchInv /\ ItemInv
  BY DEF ClockInv, DigestInv, OwnInv, AloneInv, BatchInv, ItemInv, NoTime
<1>3. SettledInv /\ StoreInv /\ FoundInv
  BY DEF SettledInv, StoreInv, FoundInv
<1> QED
  BY <1>1, <1>2, <1>3 DEF IInv

LEMMA StepType == TypeOK /\ [Next]_vars => TypeOK'
<1> SUFFICES ASSUME TypeOK, [Next]_vars PROVE TypeOK'
  OBVIOUS
<1> USE TimeType, TimeAssumption
<1>1. CASE Tick
  BY <1>1 DEF Tick, TypeOK, Time
<1>2. ASSUME NEW j \in Job, Decide(j) PROVE TypeOK'
  BY <1>2 DEF Decide, TypeOK, Time
<1>3. ASSUME NEW j \in Job, NEW new \in {{}} \cup {{<<j, flying[j], n>>} : n \in {1, 2}}, CommitDecision(j, new)
      PROVE  TypeOK'
  <2>1. flying[j] \in Time
    BY <1>3 DEF CommitDecision, TypeOK
  <2>2. new \subseteq Decision
    BY <2>1 DEF Decision
  <2>3. current' \subseteq Decision
    BY <1>3, <2>2 DEF CommitDecision, TypeOK, Of
  <2> QED
    BY <1>3, <2>3 DEF CommitDecision, TypeOK
<1>4. ASSUME NEW r \in Request, Generate(r) PROVE TypeOK'
  BY <1>4 DEF Generate, TypeOK
<1>5. ASSUME NEW r \in Request, InsertDigest(r) PROVE TypeOK'
  BY <1>5 DEF InsertDigest, TypeOK
<1>6. ASSUME NEW r \in Request, Return(r), UNCHANGED <<digests, history>> PROVE TypeOK'
  BY <1>6 DEF Return, TypeOK
<1>7. ASSUME NEW r \in Request, SelectDecisions(r) PROVE TypeOK'
  <2>1. batch'[r] \subseteq current /\ found'[r] \subseteq current
    BY <1>7 DEF SelectDecisions, WithoutItem, TypeOK
  <2>2. \A j \in Job : flying[j] \in 0 .. MadeFor(r) - 1 => flying[j] \in Time
    BY DEF TypeOK, NoTime
  <2>3. late' \subseteq Job \X Time
    BY <1>7, <2>2 DEF SelectDecisions, TypeOK
  <2>4. batch' \in [Request -> SUBSET Decision] /\ found' \in [Request -> SUBSET Decision]
    BY <1>7, <2>1 DEF SelectDecisions, TypeOK
  <2> QED
    BY <1>7, <2>3, <2>4 DEF SelectDecisions, TypeOK
<1>8. ASSUME NEW r \in Request, StoreDigest(r) PROVE TypeOK'
  <2>1. DayFor(r) \in Day
    BY DayType DEF DayFor, TypeOK
  <2>2. MadeFor(r) \in Time \cup {NoTime}
    BY <2>1 DEF MadeFor, TypeOK
  <2>3. made' \in [Day -> Time \cup {NoTime}] /\ items' \in [Day -> SUBSET Decision] /\ shared' \subseteq Day
    BY <1>8, <2>1, <2>2 DEF StoreDigest, TypeOK
  <2> QED
    BY <1>8, <2>3 DEF StoreDigest, Return, TypeOK
<1>9. CASE UNCHANGED vars
  BY <1>9 DEF TypeOK
<1> QED
  BY <1>1, <1>2, <1>3, <1>4, <1>5, <1>6, <1>7, <1>8, <1>9 DEF Next, Refuse, RefuseDigest, RefuseItems
-----------------------------------------------------------------------------
\* Steps that change no digest and no decision of one.
LEMMA SameItems ==
  ASSUME UNCHANGED digests
  PROVE  /\ \A day, j : HasItem(day, j)' <=> HasItem(day, j)
         /\ \A d : (Reported(d)' <=> Reported(d)) /\ (TooOld(d)' <=> TooOld(d))
  BY DEF HasItem, Of, Reported, TooOld

LEMMA TickInv == IInv /\ Tick => IInv'
<1> SUFFICES ASSUME IInv, Tick PROVE IInv'
  OBVIOUS
<1> USE TimeType DEF IInv
<1>1. TypeOK'
  BY StepType DEF Next
<1>2. ClockInv'
  BY DEF ClockInv, Tick, TypeOK, Time, NoTime
<1>3. DigestInv' /\ OwnInv' /\ AloneInv' /\ BatchInv' /\ ItemInv'
  BY SameItems DEF DigestInv, OwnInv, AloneInv, BatchInv, ItemInv, Tick, DayFor
<1>4. SettledInv' /\ StoreInv' /\ FoundInv'
  BY SameItems DEF SettledInv, StoreInv, FoundInv, Settled, Late, LeftToOthers, Tick
<1> QED
  BY <1>1, <1>2, <1>3, <1>4

\* A decision is inserted with the present time, so no digest could have
\* selected it yet.
LEMMA DecideInv == ASSUME IInv, NEW j \in Job, Decide(j) PROVE IInv'
<1> USE TimeType DEF IInv
<1>1. TypeOK'
  BY StepType DEF Next
<1>2. ClockInv'
  BY DEF ClockInv, Decide, TypeOK, Time, NoTime
<1>3. DigestInv' /\ OwnInv' /\ AloneInv' /\ BatchInv' /\ ItemInv' /\ FoundInv'
  BY SameItems DEF DigestInv, OwnInv, AloneInv, BatchInv, ItemInv, FoundInv, Late, Decide, DayFor
<1>4. \A i \in Job : flying'[i] = flying[i] \/ flying'[i] = now
  BY DEF Decide, TypeOK
<1>5. now \in Int /\ (\A c \in Day : made[c] \in Int /\ made[c] <= now)
      /\ \A r \in Request : start[r] \in Int /\ start[r] <= now
  BY DEF TypeOK, Time, NoTime, ClockInv
<1>6. SettledInv'
  BY <1>4, <1>5, SameItems DEF SettledInv, Settled, Late, Decide
<1>7. StoreInv'
  BY <1>4, <1>5, SameItems DEF StoreInv, Late, LeftToOthers, Decide
<1> QED
  BY <1>1, <1>2, <1>3, <1>6, <1>7

\* What is committed late has been noticed by the digests that missed it.
LEMMA CommitInv ==
  ASSUME IInv, NEW j \in Job, NEW new \in {{}} \cup {{<<j, flying[j], n>>} : n \in {1, 2}},
         CommitDecision(j, new)
  PROVE  IInv'
<1> USE TimeType DEF IInv
<1>1. TypeOK'
  BY StepType DEF Next
<1>2. ClockInv'
  BY DEF ClockInv, CommitDecision, TypeOK, Time, NoTime
<1>3. DigestInv' /\ OwnInv' /\ AloneInv' /\ BatchInv' /\ ItemInv' /\ FoundInv'
  BY SameItems DEF DigestInv, OwnInv, AloneInv, BatchInv, ItemInv, FoundInv, Late, CommitDecision, DayFor
<1>4. \A d \in current' : d \in current \/ (d[1] = j /\ d[2] = flying[j] /\ flying[j] # NoTime)
  BY DEF CommitDecision, Of
<1>5. \A i \in Job : flying'[i] = flying[i] \/ flying'[i] = NoTime
  BY DEF CommitDecision, TypeOK
<1>6. SettledInv'
  BY <1>4, <1>5, SameItems DEF SettledInv, Settled, Late, CommitDecision
<1>7. StoreInv'
  BY <1>4, <1>5, SameItems DEF StoreInv, Late, LeftToOthers, CommitDecision
<1> QED
  BY <1>1, <1>2, <1>3, <1>6, <1>7

LEMMA GenerateInv == ASSUME IInv, NEW r \in Request, Generate(r) PROVE IInv'
<1> USE TimeType DEF IInv
<1>1. TypeOK'
  BY StepType DEF Next
<1>2. ClockInv'
  BY DEF ClockInv, Generate, TypeOK, Time
<1>3. ~own[r] /\ at'[r] \in {"insert", "select"} /\ at[r] = "idle"
      /\ start'[r] = now /\ (at'[r] = "insert" <=> made[DayOf(now)] = NoTime)
  BY DEF Generate, TypeOK, OwnInv
<1>4. \A u \in Request \ {r} : at'[u] = at[u] /\ start'[u] = start[u] /\ (alone'[u] <=> at[u] = "idle")
  BY DEF Generate, TypeOK
<1>5. DigestInv' /\ ItemInv'
  BY DEF DigestInv, ItemInv, Generate, HasItem
<1>6. OwnInv'
  BY <1>3, <1>4 DEF OwnInv, Generate, DayFor
<1>7. AloneInv'
  BY <1>3, <1>4 DEF AloneInv, Generate, DayFor, ClockInv, TypeOK
<1>8. BatchInv' /\ StoreInv' /\ FoundInv'
  BY <1>3, <1>4, SameItems DEF BatchInv, StoreInv, FoundInv, Late, LeftToOthers, Generate, DayFor
<1>9. SettledInv'
  BY SameItems DEF SettledInv, Settled, Late, Generate
<1> QED
  BY <1>1, <1>2, <1>5, <1>6, <1>7, <1>8, <1>9

LEMMA InsertInv == ASSUME IInv, NEW r \in Request, InsertDigest(r) PROVE IInv'
<1> USE TimeType DEF IInv
<1>1. TypeOK'
  BY StepType DEF Next
<1>2. ClockInv' /\ DigestInv' /\ ItemInv'
  BY DEF ClockInv, DigestInv, ItemInv, InsertDigest, TypeOK
<1>3. at[r] = "insert" /\ at'[r] = "select" /\ own'[r] /\ ~own[r]
  BY DEF InsertDigest, TypeOK, OwnInv
<1>4. \A u \in Request \ {r} : at'[u] = at[u] /\ own'[u] = own[u]
  BY DEF InsertDigest, TypeOK
<1>5. OwnInv'
  BY <1>3, <1>4 DEF OwnInv, InsertDigest, DayFor
<1>6. AloneInv'
  BY <1>3, <1>4 DEF AloneInv, InsertDigest, DayFor, HasItem, Of
<1>7. BatchInv' /\ StoreInv' /\ FoundInv'
  BY <1>3, <1>4, SameItems DEF BatchInv, StoreInv, FoundInv, Late, LeftToOthers, InsertDigest, DayFor
<1>8. SettledInv'
  BY SameItems DEF SettledInv, Settled, Late, InsertDigest
<1> QED
  BY <1>1, <1>2, <1>5, <1>6, <1>7, <1>8

\* A refused generation leaves nothing behind.
LEMMA RefuseInv ==
  ASSUME IInv, NEW r \in Request, Return(r), UNCHANGED <<digests, history>>, TypeOK'
  PROVE  IInv'
<1> USE TimeType DEF IInv
<1>1. at'[r] = "idle" /\ ~own'[r] /\ start'[r] = 0
  BY DEF Return, TypeOK
<1>2. \A u \in Request \ {r} : /\ at'[u] = at[u] /\ own'[u] = own[u] /\ start'[u] = start[u]
                               /\ batch'[u] = batch[u] /\ found'[u] = found[u] /\ alone'[u] = alone[u]
  BY DEF Return, TypeOK
<1>3. ClockInv' /\ DigestInv' /\ ItemInv'
  BY <1>1, <1>2 DEF ClockInv, DigestInv, ItemInv, Return, TypeOK, Time
<1>4. OwnInv'
  BY <1>1, <1>2 DEF OwnInv, DayFor
<1>5. AloneInv'
  BY <1>1, <1>2, SameItems DEF AloneInv, DayFor
<1>6. BatchInv'
  BY <1>1, <1>2 DEF BatchInv, DayFor
<1>7. StoreInv' /\ FoundInv' /\ SettledInv'
  BY <1>1, <1>2, SameItems DEF StoreInv, FoundInv, SettledInv, Settled, Late, LeftToOthers, Return
<1> QED
  BY <1>3, <1>4, <1>5, <1>6, <1>7

\* generated_at of the digest a generation works on is of its day.
LEMMA MadeForType ==
  ASSUME IInv, NEW r \in Request, at[r] \in {"select", "store"}
  PROVE  /\ DayFor(r) \in Day /\ MadeFor(r) \in Time /\ DayOf(MadeFor(r)) = DayFor(r)
         /\ own[r] => MadeFor(r) = start[r]
         /\ ~own[r] => MadeFor(r) = made[DayFor(r)]
<1>1. DayFor(r) \in Day /\ start[r] \in Time
  BY DayType DEF DayFor, IInv, TypeOK
<1> QED
  BY <1>1 DEF MadeFor, IInv, TypeOK, OwnInv, DigestInv, DayFor

\* A selection has all that no digest before it had, and nothing older than
\* those.
LEMMA SelectInv == ASSUME IInv, NEW r \in Request, SelectDecisions(r) PROVE IInv'
<1> USE TimeType, TimeAssumption DEF IInv, Time, NoTime
<1>1. TypeOK'
  BY StepType DEF Next
<1>2. ClockInv' /\ DigestInv' /\ ItemInv'
  BY DEF ClockInv, DigestInv, ItemInv, SelectDecisions, TypeOK
<1>3. at[r] = "select" /\ at'[r] = "store" /\ UNCHANGED <<now, decisions, digests, start, own, alone, shared>>
  BY DEF SelectDecisions, TypeOK
<1>4. \A u \in Request \ {r} : at'[u] = at[u] /\ batch'[u] = batch[u] /\ found'[u] = found[u]
  BY DEF SelectDecisions, TypeOK
<1>5. /\ \A d \in batch'[r] : d \in current /\ WindowStart(r) <= d[2] /\ d[2] <= start[r] /\ ~HasItem(DayFor(r), d[1])
      /\ \A d \in current : WindowStart(r) <= d[2] /\ d[2] <= start[r] => d \in batch'[r] \/ HasItem(DayFor(r), d[1])
      /\ \A d \in found'[r] : d \in current /\ d \notin batch'[r] /\ d[2] <= start[r]
  BY DEF SelectDecisions, WithoutItem, TypeOK
<1>6. late \subseteq late' /\ \A j \in Job : flying[j] \in 0 .. MadeFor(r) - 1 => <<j, flying[j]>> \in late'
  BY DEF SelectDecisions
<1>7. \A d \in current : d[2] \in Time /\ d[1] \in Job
  BY DEF TypeOK, Decision
<1>8. \A d \in current : d[2] <= start[r] => DayFor(r) \in DayOf(d[2]) .. DayOf(MaxTime)
  <2> SUFFICES ASSUME NEW d \in current, d[2] <= start[r]
               PROVE  DayFor(r) \in DayOf(d[2]) .. DayOf(MaxTime)
    OBVIOUS
  <2>1. start[r] \in Time /\ MaxTime \in Time /\ start[r] <= MaxTime
    BY TimeAssumption DEF TypeOK, Time
  <2>2. DayOf(d[2]) <= DayFor(r) /\ DayFor(r) <= DayOf(MaxTime)
    BY <2>1, <1>7, DayMono DEF DayFor
  <2> QED
    BY <2>1, <2>2, <1>7, DayType DEF DayFor
<1>9. \A c \in Day : made[c] # NoTime /\ made[c] < MadeFor(r) => Before(r) # {} /\ made[c] <= WindowStart(r)
  BY Window DEF Before
<1>10. \A c \in Day : made[c] # NoTime /\ c < DayFor(r) => made[c] < MadeFor(r)
  <2> SUFFICES ASSUME NEW c \in Day, made[c] # NoTime, c < DayFor(r), ~(made[c] < MadeFor(r))
               PROVE  FALSE
    BY <1>3, MadeForType
  <2>1. made[c] \in Time /\ DayOf(made[c]) = c
    BY DEF TypeOK, DigestInv
  <2>2. MadeFor(r) \in Time /\ DayOf(MadeFor(r)) = DayFor(r) /\ MadeFor(r) <= made[c]
    BY <1>3, <2>1, MadeForType
  <2>3. DayFor(r) <= c
    BY <2>1, <2>2, DayMono
  <2> QED
    BY <2>1, <2>2, <2>3, DayType
<1>11. OwnInv'
  BY <1>3, <1>4 DEF OwnInv, DayFor
<1>12. AloneInv'
  BY <1>3, <1>4, <1>5, SameItems DEF AloneInv, DayFor
<1>13. BatchInv'
  <2>1. \A d \in batch'[r], c \in Day \ shared : made[c] # NoTime /\ c < DayFor(r) => made[c] <= d[2]
    <3> SUFFICES ASSUME NEW d \in batch'[r], NEW c \in Day \ shared, made[c] # NoTime, c < DayFor(r)
                 PROVE  made[c] <= d[2]
      OBVIOUS
    <3>1. made[c] <= WindowStart(r) /\ WindowStart(r) \in Time
      BY <1>9, <1>10, Window DEF Before, TypeOK
    <3>2. made[c] \in Time /\ d[2] \in Time /\ WindowStart(r) <= d[2]
      BY <1>5, <1>7 DEF TypeOK
    <3> QED
      BY <3>1, <3>2
  <2> QED
    BY <1>3, <1>4, <1>5, <2>1 DEF BatchInv, DayFor
<1>14. \A d \in current : Settled(d) => Settled(d)'
  BY <1>3, <1>6, SameItems DEF Settled, Late
<1>15. SettledInv'
  BY <1>3, <1>6, <1>14 DEF SettledInv
<1>16. \A d \in current : d[2] <= start[r] => d \in batch'[r] \/ Reported(d) \/ d[2] < WindowStart(r)
  <2> SUFFICES ASSUME NEW d \in current, d[2] <= start[r], ~(d[2] < WindowStart(r))
               PROVE  d \in batch'[r] \/ Reported(d)
    OBVIOUS
  <2>1. WindowStart(r) \in Int
    <3>1. start[r] - DayLength \in Int /\ \A c \in Day : made[c] \in Int
      BY DEF TypeOK
    <3> QED
      BY <3>1, Window DEF Before
  <2>2. d \in batch'[r] \/ HasItem(DayFor(r), d[1])
    BY <2>1, <1>5, <1>7
  <2> QED
    BY <2>2, <1>8 DEF Reported
<1>17. own[r] => \A d \in current : d[2] < WindowStart(r) => LeftToOthers(r, d)
  <2> SUFFICES ASSUME own[r], NEW d \in current, d[2] < WindowStart(r)
               PROVE  LeftToOthers(r, d)
    OBVIOUS
  <2>1. MadeFor(r) = start[r] /\ start[r] \in Time
    BY <1>3, MadeForType
  <2>2. CASE Before(r) = {}
    <3>1. \A c \in Day : made[c] # NoTime => ~(made[c] < start[r])
      BY <2>1, <2>2 DEF Before
    <3>2. \A c \in Day : made[c] \in Int
      BY DEF TypeOK, Time, NoTime
    <3>3. d[2] < start[r] - DayLength
      BY <2>2, Window
    <3> QED
      BY <2>1, <3>1, <3>2, <3>3 DEF LeftToOthers
  <2>3. CASE Before(r) # {}
    <3>1. PICK c \in Day : made[c] # NoTime /\ made[c] < start[r] /\ WindowStart(r) = made[c]
      BY <2>1, <2>3, Window DEF Before
    <3> QED
      BY <3>1 DEF LeftToOthers
  <2> QED
    BY <2>2, <2>3
<1>18. StoreInv'
  <2> SUFFICES ASSUME NEW u \in Request, at'[u] = "store", own'[u]
               PROVE  /\ \A d \in current' : d[2] < start'[u] =>
                            Late(d)' \/ d \in batch'[u] \/ Reported(d)' \/ LeftToOthers(u, d)'
                      /\ \A j \in Job : flying'[j] # NoTime /\ flying'[j] < start'[u] => <<j, flying'[j]>> \in late'
    BY DEF StoreInv
  <2>1. \A d : LeftToOthers(u, d)' <=> LeftToOthers(u, d)
    BY <1>3 DEF LeftToOthers
  <2>2. CASE u = r
    <3>1. start[r] \in Time /\ MadeFor(r) = start[r]
      BY <2>2, <1>3, MadeForType
    <3>2. \A d \in current : d[2] < start[r] => d \in batch'[r] \/ Reported(d) \/ LeftToOthers(r, d)
      BY <3>1, <2>2, <1>3, <1>7, <1>16, <1>17
    <3>3. \A j \in Job : flying[j] # NoTime /\ flying[j] < start[r] => flying[j] \in 0 .. MadeFor(r) - 1
      BY <3>1 DEF TypeOK, Time
    <3> QED
      BY <2>1, <2>2, <1>3, <1>6, <3>2, <3>3, SameItems
  <2>3. CASE u # r
    BY <2>1, <2>3, <1>3, <1>4, <1>6, SameItems DEF StoreInv, Late
  <2> QED
    BY <2>2, <2>3
<1>19. \A d \in found'[r] : Settled(d) /\ (TooOld(d) /\ own[r] /\ ~Late(d) /\ ~Reported(d) => d[2] < start[r] - DayLength)
  <2> SUFFICES ASSUME NEW d \in found'[r], ~Late(d), ~Reported(d)
               PROVE  TooOld(d) /\ (own[r] => d[2] < start[r] - DayLength)
    BY DEF Settled
  <2>1. d \in current /\ d[2] \in Time /\ start[r] \in Time /\ MadeFor(r) \in Time
    <3>1. start[r] \in Time
      BY DEF TypeOK
    <3> QED
      BY <3>1, <1>3, <1>5, <1>7, MadeForType
  <2>2. d[2] < WindowStart(r)
    BY <2>1, <1>5, <1>16
  <2>3. \A c \in Day : made[c] # NoTime /\ d[2] < made[c] => TooOld(d)
    BY <2>1 DEF SettledInv, Settled
  <2>4. \A c \in Day : made[c] \in Int
    BY DEF TypeOK, Time, NoTime
  <2>5. CASE Before(r) # {}
    <3>1. PICK c \in Day : made[c] # NoTime /\ made[c] < MadeFor(r) /\ WindowStart(r) = made[c]
      BY <2>5, Window DEF Before
    <3>2. TooOld(d) /\ d[2] < made[c] - DayLength
      BY <3>1, <2>2, <2>3 DEF TooOld
    <3> QED
      BY <3>1, <3>2, <2>1, <2>4, <1>3, MadeForType
  <2>6. CASE Before(r) = {}
    <3>1. d[2] < start[r] - DayLength
      BY <2>2, <2>6, Window
    <3>2. \A c \in Day : made[c] # NoTime => ~(made[c] < MadeFor(r))
      BY <2>6 DEF Before
    <3>3. CASE own[r]
      <4>1. MadeFor(r) = start[r]
        BY <3>3, <1>3, MadeForType
      <4> QED
        BY <3>1, <3>2, <4>1, <2>1, <2>4 DEF TooOld
    <3>4. CASE ~own[r]
      <4>1. DayFor(r) \in Day /\ MadeFor(r) = made[DayFor(r)] /\ DayOf(MadeFor(r)) = DayOf(start[r])
        BY <3>4, <1>3, MadeForType DEF DayFor
      <4>2. start[r] < MadeFor(r) + DayLength
        BY <4>1, <2>1, DayNear
      <4>3. d[2] < made[DayFor(r)] /\ made[DayFor(r)] # NoTime
        BY <3>1, <4>1, <4>2, <2>1
      <4> QED
        BY <3>4, <4>1, <4>3, <2>3
    <3> QED
      BY <3>3, <3>4
  <2> QED
    BY <2>5, <2>6
<1>20. FoundInv'
  <2>1. \A d : (Late(d) => Late(d)') /\ (Reported(d)' <=> Reported(d)) /\ (TooOld(d)' <=> TooOld(d))
    BY <1>3, <1>6, SameItems DEF Late
  <2> QED
    BY <2>1, <1>3, <1>4, <1>19 DEF FoundInv, Settled
<1> QED
  BY <1>1, <1>2, <1>11, <1>12, <1>13, <1>15, <1>18, <1>20

\* Storing a digest is the only step that adds one or its items.
LEMMA StoreDigestInv == ASSUME IInv, NEW r \in Request, StoreDigest(r) PROVE IInv'
<1> USE TimeType, TimeAssumption DEF IInv, Time, NoTime
<1> DEFINE c == DayFor(r)
<1>1. TypeOK'
  BY StepType DEF Next
<1>2. /\ at[r] = "store" /\ at'[r] = "idle" /\ ~own'[r] /\ start'[r] = 0
      /\ UNCHANGED <<now, decisions, late>>
  BY DEF StoreDigest, Return, TypeOK
<1>3. \A u \in Request \ {r} : /\ at'[u] = at[u] /\ own'[u] = own[u] /\ start'[u] = start[u]
                               /\ batch'[u] = batch[u] /\ found'[u] = found[u] /\ alone'[u] = alone[u]
  BY DEF StoreDigest, Return, TypeOK
<1>4. c \in Day /\ start[r] \in Time /\ DayOf(start[r]) = c
  BY DayType DEF DayFor, TypeOK
<1>5. /\ made'[c] = IF own[r] THEN start[r] ELSE made[c]
      /\ items'[c] = items[c] \cup batch[r]
      /\ \A e \in Day \ {c} : made'[e] = made[e] /\ items'[e] = items[e]
  BY <1>4 DEF StoreDigest, MadeFor, TypeOK
<1>6. /\ own[r] => made[c] = NoTime
      /\ ~own[r] => made[c] # NoTime
  BY <1>2 DEF OwnInv
<1>7. \A e \in Day : (made[e] # NoTime => made'[e] = made[e]) /\ items[e] \subseteq items'[e]
                     /\ made[e] \in Int /\ made'[e] \in Int
  BY <1>1, <1>5, <1>6 DEF TypeOK
<1>8. shared' = IF own[r] /\ alone[r] THEN shared ELSE shared \cup {c}
  BY DEF StoreDigest
<1>9. \A d \in batch[r] : d[2] \in Time /\ d[1] \in Job
  BY DEF TypeOK, Decision
<1>10. \A d \in current : d[2] \in Time /\ d[1] \in Job
  BY DEF TypeOK, Decision
<1>11. ClockInv'
  BY <1>2, <1>3, <1>4, <1>5 DEF ClockInv, TypeOK
<1>12. DigestInv'
  BY <1>4, <1>5, <1>6 DEF DigestInv, TypeOK
<1>13. OwnInv'
  <2>1. \A u \in Request \ {r} : own[u] => DayFor(u) # c
    BY <1>2, <1>6 DEF OwnInv
  <2>2. \A u \in Request : DayFor(u) \in Day
    BY DayType DEF DayFor, TypeOK
  <2>3. \A u \in Request \ {r} : DayFor(u)' = DayFor(u)
    BY <1>3 DEF DayFor
  <2>4. \A u \in Request \ {r} : own[u] => made'[DayFor(u)] = made[DayFor(u)]
    BY <2>1, <2>2, <1>5
  <2> HIDE DEF c
  <2>5. ASSUME NEW u \in Request \ {r}
        PROVE  /\ own'[u] => /\ at'[u] \in {"select", "store"} /\ made'[DayFor(u)'] = NoTime
                             /\ \A v \in Request \ {u} : own'[v] => DayFor(v)' # DayFor(u)'
               /\ at'[u] \in {"select", "store"} /\ ~own'[u] => made'[DayFor(u)'] # NoTime
    BY <2>2, <2>3, <2>4, <1>2, <1>3, <1>7 DEF OwnInv
  <2> QED
    BY <2>5, <1>2 DEF OwnInv
<1>14. AloneInv'
  <2>1. \A u \in Request \ {r} : ~(alone[u] /\ at[u] # "idle")
    BY <1>2 DEF AloneInv
  <2> QED
    BY <2>1, <1>2, <1>3 DEF AloneInv
<1>15. own[r] /\ alone[r] => \A u \in Request : at'[u] = "idle"
  BY <1>2, <1>3 DEF AloneInv
<1>16. BatchInv'
  <2> SUFFICES ASSUME NEW u \in Request \ {r}, at[u] = "store", NEW d \in batch[u]
               PROVE  /\ d[2] <= start[u]
                      /\ \A e \in Day \ shared' : made'[e] # NoTime /\ e < DayFor(u) => made'[e] <= d[2]
    BY <1>2, <1>3 DEF BatchInv, DayFor
  <2>1. ~(own[r] /\ alone[r])
    BY <1>3, <1>15
  <2>2. \A e \in Day \ shared' : e # c /\ e \notin shared
    BY <2>1, <1>8
  <2> QED
    BY <2>2, <1>5 DEF BatchInv
<1>17. own[r] /\ alone[r] => \A e \in Day : c < e => made[e] = NoTime /\ items[e] = {}
  <2> SUFFICES ASSUME own[r], alone[r], NEW e \in Day, c < e, made[e] # NoTime
               PROVE  FALSE
    BY DEF DigestInv
  <2>1. made[e] \in Time /\ DayOf(made[e]) = e /\ made[e] <= start[r]
    BY <1>2 DEF AloneInv, DigestInv, TypeOK
  <2>2. e <= c
    BY <2>1, <1>4, DayMono
  <2> HIDE DEF c
  <2> QED
    BY <2>2, <1>4 DEF Day
<1>18. ItemInv'
  <2> HIDE DEF c
  <2> SUFFICES ASSUME NEW b \in Day \ shared', made'[b] # NoTime
               PROVE  /\ \A d \in items'[b] : d[2] <= made'[b]
                      /\ \A e \in Day : b < e => \A d \in items'[e] : made'[b] <= d[2]
    BY DEF ItemInv
  <2>1. b \notin shared
    BY <1>8
  <2>2. CASE b = c
    <3>1. own[r] /\ alone[r]
      BY <2>2, <1>8
    <3>2. items'[c] = batch[r] /\ made'[c] = start[r]
      BY <3>1, <1>4, <1>5, <1>6 DEF DigestInv
    <3>3. \A e \in Day : c < e => items'[e] = {}
      <4>1. \A e \in Day : c < e => e # c
        BY <1>4 DEF Day
      <4> QED
        BY <4>1, <3>1, <1>5, <1>17
    <3> QED
      BY <2>2, <3>2, <3>3, <1>2 DEF BatchInv
  <2>3. CASE b # c
    <3>1. made'[b] = made[b] /\ items'[b] = items[b]
      BY <2>3, <1>5
    <3>2. b < c => \A d \in batch[r] : made[b] <= d[2]
      BY <2>1, <3>1, <1>2 DEF BatchInv, c
    <3>3. \A e \in Day : b < e => \A d \in items'[e] : made[b] <= d[2]
      BY <2>1, <3>1, <3>2, <1>4, <1>5 DEF ItemInv
    <3> QED
      BY <2>1, <3>1, <3>3 DEF ItemInv
  <2> QED
    BY <2>2, <2>3
<1>19. \A d \in Decision : Reported(d) => Reported(d)'
  <2>1. \A day \in Day : \A j : HasItem(day, j) => HasItem(day, j)'
    BY <1>7 DEF HasItem, Of
  <2> SUFFICES ASSUME NEW d \in Decision, NEW day \in DayOf(d[2]) .. DayOf(MaxTime), HasItem(day, d[1])
               PROVE  HasItem(day, d[1])'
    BY DEF Reported
  <2>2. DayOf(d[2]) \in Nat /\ DayOf(MaxTime) \in Nat
    BY DayType DEF Decision
  <2> QED
    BY <2>1, <2>2 DEF Day
<1>20. \A d \in batch[r] : Reported(d)'
  <2> SUFFICES ASSUME NEW d \in batch[r], NEW k \in Day, k = c
               PROVE  \E day \in DayOf(d[2]) .. DayOf(MaxTime) : HasItem(day, d[1])'
    BY <1>4 DEF Reported
  <2>1. d[2] \in Time /\ d[2] <= start[r]
    BY <1>2, <1>9 DEF BatchInv
  <2>2. DayOf(d[2]) <= k /\ DayOf(d[2]) \in Nat /\ k \in 0 .. DayOf(MaxTime)
    BY <2>1, <1>4, DayMono, DayType DEF Day
  <2>3. d \in items'[k]
    BY <1>5
  <2>4. HasItem(k, d[1])'
    BY <2>3 DEF HasItem, Of
  <2>5. DayOf(MaxTime) \in Nat
    BY TimeAssumption, DayType
  <2>6. k \in DayOf(d[2]) .. DayOf(MaxTime)
    BY <2>2, <2>5
  <2> QED
    BY <2>4, <2>6
<1>21. \A d \in current : LeftToOthers(r, d) => Late(d) \/ Reported(d) \/ (TooOld(d) /\ d[2] < start[r] - DayLength)
  <2> SUFFICES ASSUME NEW d \in current, LeftToOthers(r, d), ~Late(d), ~Reported(d)
               PROVE  TooOld(d) /\ d[2] < start[r] - DayLength
    OBVIOUS
  <2>1. d[2] \in Int /\ start[r] \in Int /\ \A e \in Day : made[e] \in Int
    BY <1>4, <1>7, <1>10
  <2>2. \A e \in Day : made[e] # NoTime /\ d[2] < made[e] => TooOld(d)
    BY DEF SettledInv, Settled
  <2>3. ASSUME NEW e \in Day, made[e] # NoTime, made[e] < start[r], d[2] < made[e]
        PROVE  TooOld(d) /\ d[2] < start[r] - DayLength
    <3>1. TooOld(d)
      BY <2>2, <2>3
    <3> QED
      BY <3>1, <2>1, <2>3 DEF TooOld
  <2>4. ASSUME d[2] < start[r] - DayLength, \A e \in Day : made[e] # NoTime => start[r] - DayLength <= made[e]
        PROVE  TooOld(d) /\ d[2] < start[r] - DayLength
    <3>1. ASSUME NEW e \in Day, made[e] # NoTime PROVE TooOld(d)
      BY <3>1, <2>1, <2>2, <2>4
    <3> QED
      BY <3>1, <2>4 DEF TooOld
  <2> QED
    BY <2>3, <2>4 DEF LeftToOthers
<1>22. \A d \in Decision : TooOld(d) /\ (own[r] => d[2] < start[r] - DayLength) => TooOld(d)'
  <2> SUFFICES ASSUME NEW d \in Decision, TooOld(d), own[r] => d[2] < start[r] - DayLength,
                      NEW e \in Day, made'[e] # NoTime
               PROVE  d[2] < made'[e] - DayLength
    BY DEF TooOld
  <2>1. CASE own[r] /\ e = c
    BY <2>1, <1>5
  <2>2. CASE ~(own[r] /\ e = c)
    <3>1. made'[e] = made[e]
      BY <2>2, <1>5
    <3> QED
      BY <3>1 DEF TooOld
  <2> QED
    BY <2>1, <2>2
<1>23. current \subseteq Decision /\ current' = current /\ flying' = flying /\ late' = late
  BY <1>2 DEF TypeOK
<1>24. own[r] => \A d \in current : d[2] < start[r] => Settled(d)'
  <2> SUFFICES ASSUME own[r], NEW d \in current, d[2] < start[r]
               PROVE  Settled(d)'
    OBVIOUS
  <2>1. Late(d) \/ d \in batch[r] \/ Reported(d) \/ LeftToOthers(r, d)
    BY <1>2 DEF StoreInv
  <2>2. Late(d) \/ Reported(d)' \/ (TooOld(d) /\ d[2] < start[r] - DayLength)
    BY <2>1, <1>19, <1>20, <1>21, <1>23
  <2>3. Late(d)' \/ Reported(d)' \/ TooOld(d)'
    BY <2>2, <1>22, <1>23 DEF Late
  <2> QED
    BY <2>3 DEF Settled
<1>25. SettledInv'
  <2> SUFFICES ASSUME NEW e \in Day, made'[e] # NoTime
               PROVE  /\ \A d \in current : d[2] < made'[e] => Settled(d)'
                      /\ \A j \in Job : flying[j] # NoTime /\ flying[j] < made'[e] => <<j, flying[j]>> \in late
    BY <1>23 DEF SettledInv
  <2>1. CASE own[r] /\ e = c
    <3>1. made'[e] = start[r]
      BY <2>1, <1>5
    <3> QED
      BY <2>1, <3>1, <1>2, <1>24 DEF StoreInv
  <2>2. CASE ~(own[r] /\ e = c)
    <3>1. made'[e] = made[e] /\ made[e] # NoTime
      BY <2>2, <1>5
    <3>2. ASSUME NEW d \in current, d[2] < made[e] PROVE Settled(d)'
      <4>1. Late(d) \/ Reported(d) \/ TooOld(d)
        BY <3>1, <3>2 DEF SettledInv, Settled
      <4>2. TooOld(d) /\ own[r] => d[2] < start[r]
        <5>1. TooOld(d) => d[2] < made[e] - DayLength
          BY <3>1 DEF TooOld
        <5>2. made[e] <= now /\ now <= start[r] + Longest /\ Longest <= DayLength
          BY <1>2 DEF ClockInv
        <5>3. now \in Int /\ start[r] \in Int /\ made[e] \in Int /\ d[2] \in Int
          BY <1>4, <1>7, <1>10 DEF TypeOK
        <5> QED
          BY <5>1, <5>2, <5>3
      <4>3. CASE own[r] /\ d[2] < start[r]
        BY <4>3, <1>24
      <4>4. CASE ~(own[r] /\ d[2] < start[r])
        <5>1. Late(d)' \/ Reported(d)' \/ TooOld(d)'
          BY <4>1, <4>2, <4>4, <1>19, <1>22, <1>23 DEF Late
        <5> QED
          BY <5>1 DEF Settled
      <4> QED
        BY <4>3, <4>4
    <3> QED
      BY <3>1, <3>2 DEF SettledInv
  <2> QED
    BY <2>1, <2>2
<1>26. StoreInv'
  <2> SUFFICES ASSUME NEW u \in Request \ {r}, at[u] = "store", own[u]
               PROVE  /\ \A d \in current : d[2] < start[u] =>
                            Late(d)' \/ d \in batch[u] \/ Reported(d)' \/ LeftToOthers(u, d)'
                      /\ \A j \in Job : flying[j] # NoTime /\ flying[j] < start[u] => <<j, flying[j]>> \in late
    BY <1>2, <1>3, <1>23 DEF StoreInv
  <2>1. start[u] - DayLength <= start[r]
    <3>1. start[u] <= now /\ now <= start[r] + Longest /\ Longest <= DayLength
      BY <1>2 DEF ClockInv
    <3>2. now \in Int /\ start[r] \in Int /\ start[u] \in Int
      BY DEF TypeOK
    <3> QED
      BY <3>1, <3>2
  <2>2. ASSUME NEW d, LeftToOthers(u, d) PROVE LeftToOthers(u, d)'
    <3>1. start'[u] = start[u]
      BY <1>3
    <3>2. \A e \in Day : made'[e] = made[e] \/ made'[e] = start[r]
      BY <1>5
    <3>3. CASE \E e \in Day : made[e] # NoTime /\ made[e] < start[u] /\ d[2] < made[e]
      BY <3>1, <3>3, <1>7 DEF LeftToOthers
    <3>4. CASE d[2] < start[u] - DayLength /\ \A e \in Day : made[e] # NoTime => start[u] - DayLength <= made[e]
      BY <3>1, <3>2, <3>4, <2>1 DEF LeftToOthers
    <3> QED
      BY <2>2, <3>3, <3>4 DEF LeftToOthers
  <2> QED
    BY <2>2, <1>19, <1>23 DEF StoreInv, Late
<1>27. FoundInv'
  <2>1. \A u \in Request \ {r} : ~(alone[u] /\ at[u] # "idle")
    BY <1>2 DEF AloneInv
  <2> QED
    BY <2>1, <1>2, <1>3 DEF FoundInv
<1> QED
  BY <1>1, <1>11, <1>12, <1>13, <1>14, <1>16, <1>18, <1>25, <1>26, <1>27
-----------------------------------------------------------------------------
(* The theorems.                                                           *)

LEMMA NextInv == IInv /\ [Next]_vars => IInv'
<1> SUFFICES ASSUME IInv, [Next]_vars PROVE IInv'
  OBVIOUS
<1>1. CASE Tick
  BY <1>1, TickInv
<1>2. ASSUME NEW r \in Request, Refuse(r) PROVE IInv'
  <2>1. TypeOK' /\ Return(r) /\ UNCHANGED <<digests, history>>
    BY <1>2, StepType DEF IInv, Refuse, RefuseDigest, RefuseItems
  <2> QED
    BY <2>1, RefuseInv
<1>3. CASE UNCHANGED vars
  <2>1. TypeOK'
    BY <1>3, StepType DEF IInv
  <2>2. ClockInv' /\ DigestInv' /\ OwnInv' /\ ItemInv'
    BY <1>3 DEF IInv, ClockInv, DigestInv, OwnInv, ItemInv, DayFor
  <2>3. AloneInv' /\ BatchInv' /\ SettledInv' /\ StoreInv' /\ FoundInv'
    BY <1>3, SameItems DEF IInv, AloneInv, BatchInv, SettledInv, StoreInv, FoundInv, Settled, Late, LeftToOthers, DayFor
  <2> QED
    BY <2>1, <2>2, <2>3 DEF IInv
<1> QED
  BY <1>1, <1>2, <1>3, DecideInv, CommitInv, GenerateInv, InsertInv, SelectInv, StoreDigestInv DEF Next

\* The inductive invariant holds in every reachable state.
THEOREM Invariance == Spec => []IInv
<1>1. Init => IInv
  BY InitInv
<1>2. IInv /\ [Next]_vars => IInv'
  BY NextInv
<1> QED
  BY <1>1, <1>2, PTL DEF Spec

\* A decision is reported on one day, unless the digest was generated again or
\* beside another generation, or in the instant of the decision: the window of
\* every later digest begins with a digest that was generated alone, or later.
THEOREM OnceReported == Spec => []ReportedOnce
<1>1. IInv => ReportedOnce
  <2> SUFFICES ASSUME IInv, NEW c \in Day, NEW e \in Day, NEW d \in items[c] \cap items[e],
                      c < e, c \notin shared
               PROVE  d[2] = made[c]
    BY DEF ReportedOnce
  <2>1. made[c] # NoTime
    BY DEF IInv, DigestInv
  <2>2. d[2] <= made[c] /\ made[c] <= d[2]
    BY <2>1 DEF IInv, ItemInv
  <2>3. d[2] \in Int /\ made[c] \in Int
    BY TimeAssumption DEF IInv, TypeOK, Decision, Time, NoTime
  <2> QED
    BY <2>2, <2>3
<1> QED
  BY <1>1, Invariance, PTL

\* A generation is refused only if another one overlaps it, or a job has two
\* current decisions.
THEOREM RefusalsRaced == Spec => RefusedOnlyIfRaced
<1>1. IInv /\ [Next]_vars => [\A r \in Request : Refuse(r) =>
         ~alone[r] \/ \E d, e \in batch[r] : d # e /\ d[1] = e[1]]_vars
  <2> SUFFICES ASSUME IInv, NEW r \in Request, Refuse(r), alone[r]
               PROVE  \E d, e \in batch[r] : d # e /\ d[1] = e[1]
    OBVIOUS
  <2>1. ~RefuseDigest(r)
    BY DEF RefuseDigest, IInv, AloneInv
  <2>2. at[r] = "store" /\ ~Storable(r)
    BY <2>1 DEF Refuse, RefuseItems
  <2>3. \A d \in batch[r] : ~HasItem(DayFor(r), d[1])
    BY <2>2 DEF IInv, AloneInv
  <2>4. PICK d \in batch[r] : Of(d[1], batch[r]) # {d}
    BY <2>2, <2>3 DEF Storable
  <2> QED
    BY <2>4 DEF Of
<1> QED
  BY <1>1, Invariance, PTL DEF Spec, RefusedOnlyIfRaced

\* A digest that is generated alone leaves out nothing but late decisions and
\* such as are older than a day when the first digest is made: the windows
\* join, also where digests of several days were generated at once.
THEOREM NoneMissed == Spec => NothingMissed
<1>1. IInv /\ [Next]_vars => [\A r \in Request : StoreDigest(r) /\ alone[r] =>
         \A d \in found[r] :
             \/ <<d[1], d[2]>> \in late
             \/ \A day \in Day : made'[day] # NoTime => d[2] < made'[day] - DayLength
             \/ \E day \in DayOf(d[2]) .. DayOf(MaxTime) : HasItem(day, d[1])']_vars
  <2> SUFFICES ASSUME IInv, NEW r \in Request, StoreDigest(r), alone[r], NEW d \in found[r],
                      ~Late(d), ~Reported(d)'
               PROVE  TooOld(d)'
    BY DEF Late, Reported, TooOld
  <2>1. at[r] = "store" /\ d \in Decision /\ DayFor(r) \in Day
    BY DayType DEF StoreDigest, DayFor, IInv, TypeOK
  <2>2. \A day \in Day : items[day] \subseteq items'[day]
    BY <2>1 DEF StoreDigest, IInv, TypeOK
  <2>3. Reported(d) => Reported(d)'
    <3>1. DayOf(d[2]) \in Nat /\ DayOf(MaxTime) \in Nat
      <4>1. d[2] \in Time
        BY <2>1 DEF Decision
      <4>2. MaxTime \in Time
        BY TimeAssumption DEF Time
      <4> QED
        BY <4>1, <4>2, DayType
    <3>2. \A day \in DayOf(d[2]) .. DayOf(MaxTime) : day \in Day
      BY <3>1, <2>1 DEF Day, Decision
    <3> QED
      BY <3>2, <2>2 DEF Reported, HasItem, Of
  <2>4. TooOld(d) /\ (own[r] => d[2] < start[r] - DayLength)
    BY <2>1, <2>3 DEF IInv, FoundInv
  <2> SUFFICES ASSUME NEW day \in Day, made'[day] # NoTime
               PROVE  d[2] < made'[day] - DayLength
    BY DEF TooOld
  <2>5. made'[day] = IF own[r] /\ day = DayFor(r) THEN start[r] ELSE made[day]
    BY <2>1 DEF StoreDigest, MadeFor, IInv, TypeOK
  <2> QED
    BY <2>4, <2>5 DEF TooOld
<1> QED
  BY <1>1, Invariance, PTL DEF Spec, NothingMissed
=============================================================================
