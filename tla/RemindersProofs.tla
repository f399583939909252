-------------------------- MODULE RemindersProofs --------------------------
(***************************************************************************)
(* Proofs about Reminders, for any jobs, statuses, requests, threads,      *)
(* periods and bounds.                                                     *)
(***************************************************************************)
EXTENDS Reminders, TLAPS

USE DEF tracking, reminders, update, request, vars
-----------------------------------------------------------------------------
(* The inductive invariant, part by part.                                  *)

\* A job has events, one at an instant; one of them is the latest.
EventInv ==
  \A j \in Job :
    /\ \E e \in events[j] : \A f \in events[j] : f[2] <= e[2]
    /\ \A e, f \in events[j] : e[2] = f[2] => e = f

\* Nothing carries a time to come, and a commit takes no longer than it may.
ClockInv ==
  /\ \A r \in Request : start[r] <= now
  /\ \A u \in Update : step[u] = "commit" =>
        /\ stamp[u] <= now /\ now <= stamp[u] + Longest
        /\ \A e \in events[target[u]] : e[2] < stamp[u]

\* One update has the loop; an update that is not overtaken has loaded the
\* status that is still there.
UpdateInv ==
  /\ \A u, v \in Update : step[u] = "commit" /\ step[v] = "commit" => u = v
  /\ \A u \in Update \ overtaken : step[u] # "idle" => loaded[u] = status[target[u]]
  /\ torn \subseteq everTorn
  /\ StatusIsLatest

\* Generations have numbers of their own, and add one reminder of a job.
RunInv ==
  /\ \A p \in pending \cup dismissed : p.run <= runs
  /\ \A r \in Request :
       /\ at[r] = "idle" => new[r] = {}
       /\ at[r] # "idle" =>
            /\ run[r] \in 1 .. runs
            /\ \A p \in pending \cup dismissed : p.run # run[r]
            /\ \A q \in Request \ {r} : at[q] # "idle" => run[r] # run[q] /\ {run[r], run[q]} \subseteq crowded
       /\ at[r] = "check" => job[r] \notin todo[r]
       /\ \A p \in new[r] :
            /\ p.run = run[r] /\ p.job \notin todo[r] /\ (at[r] = "check" => p.job # job[r])
            /\ \A q \in new[r] : p.job = q.job => p = q

\* What a generation adds beside a reminder that is pending by now comes from
\* an overlap, as in OnePending.
OnceInv ==
  /\ OnePending
  /\ \A r \in Request : \A p \in pending, q \in new[r] :
       p.job = q.job /\ p.type = q.type => {p.run, q.run} \subseteq crowded

\* What a generation looks at it has seen as followed.
SeenInv ==
  \A r \in Request :
    /\ \A j \in todo[r] : seen[r][j] \in Followed
    /\ at[r] = "check" => seen[r][job[r]] \in Followed

\* Unless a job was torn, the status a generation has seen is that of the
\* latest event, or this is newer than the generation.
FreshInv ==
  \A r \in Request : at[r] # "idle" => \A j \in Job \ everTorn :
    seen[r][j] = Latest(j)[1] \/ start[r] <= Latest(j)[2] + Longest

OfAnEvent(j, s, t) == j \in everTorn \/ <<s, t - Period(s)>> \in events[j]

DueInv ==
  /\ DueOfAnEvent
  /\ \A r \in Request :
       /\ \A p \in new[r] : OfAnEvent(p.job, p.type, p.due)
       /\ at[r] = "check" => OfAnEvent(job[r], seen[r][job[r]], due[r])

\* A job that was due when a generation began is still to be looked at, or has
\* a reminder.
Overdue(r, j) ==
  /\ Latest(j)[1] \in Followed
  /\ Latest(j)[2] + Period(Latest(j)[1]) <= start[r]

ReachInv ==
  \A r \in Request : at[r] # "idle" => \A j \in Job \ everTorn : Overdue(r, j) =>
    \/ j \in todo[r]
    \/ at[r] = "check" /\ job[r] = j
    \/ \E p \in pending \cup new[r] \cup gone[r] : p.job = j /\ p.type = Latest(j)[1]

IInv ==
  /\ TypeOK /\ EventInv /\ ClockInv /\ UpdateInv
  /\ RunInv /\ OnceInv /\ SeenInv
  /\ FreshInv /\ DueInv /\ ReachInv
-----------------------------------------------------------------------------
(* Events.                                                                 *)

LEMMA SomeJobType == SomeJob \in Job
  BY ReminderAssumption DEF SomeJob

\* Latest is the latest event.
LEMMA LatestType ==
  ASSUME TypeOK, EventInv, NEW j \in Job
  PROVE  /\ Latest(j) \in events[j] /\ Latest(j) \in Status \X Time
         /\ Latest(j)[1] \in Status /\ Latest(j)[2] \in Time
         /\ \A f \in events[j] : f[2] <= Latest(j)[2]
<1>1. \E e \in events[j] : \A f \in events[j] : f[2] <= e[2]
  BY DEF EventInv
<1>2. Latest(j) \in events[j] /\ \A f \in events[j] : f[2] <= Latest(j)[2]
  BY <1>1 DEF Latest
<1> QED
  BY <1>2 DEF TypeOK

LEMMA SameLatest == ASSUME UNCHANGED events PROVE \A j : Latest(j)' = Latest(j)
  BY DEF Latest

\* A commit makes its event the latest.
LEMMA CommitLatest ==
  ASSUME IInv, NEW u \in Update, CommitUpdate(u)
  PROVE  /\ target[u] \in Job /\ stamp[u] \in Time /\ choice[u] \in Status
         /\ events'[target[u]] = events[target[u]] \cup {Event(u)}
         /\ \A j \in Job \ {target[u]} : events'[j] = events[j]
         /\ \A j \in Job : Latest(j)' = IF j = target[u] THEN Event(u) ELSE Latest(j)
<1>1. target[u] \in Job /\ stamp[u] \in Time /\ choice[u] \in Status
  BY DEF IInv, TypeOK
<1>2. /\ events'[target[u]] = events[target[u]] \cup {Event(u)}
      /\ \A j \in Job \ {target[u]} : events'[j] = events[j]
  BY <1>1 DEF CommitUpdate, IInv, TypeOK
<1>3. \A f \in events[target[u]] : f[2] < stamp[u] /\ f[2] \in Time
  BY <1>1 DEF IInv, ClockInv, CommitUpdate, TypeOK
<1>4. Event(u)[2] = stamp[u]
  BY DEF Event
<1>5. \A f \in events'[target[u]] : f[2] <= Event(u)[2]
  BY <1>1, <1>2, <1>3, <1>4 DEF Time
<1>6. \A e \in events'[target[u]] : (\A f \in events'[target[u]] : f[2] <= e[2]) => e = Event(u)
  BY <1>1, <1>2, <1>3, <1>4 DEF Time
<1>7. \A j : Latest(j)' = CHOOSE e \in events'[j] : \A f \in events'[j] : f[2] <= e[2]
  BY DEF Latest
<1>8. \A j : j = target[u] => Latest(j)' = Event(u)
  <2> SUFFICES ASSUME NEW j, j = target[u]
               PROVE  (CHOOSE e \in events'[j] : \A f \in events'[j] : f[2] <= e[2]) = Event(u)
    BY <1>7
  <2>1. Event(u) \in events'[j]
    BY <1>2
  <2> QED
    BY <2>1, <1>5, <1>6
<1>9. \A j \in Job \ {target[u]} : Latest(j)' = Latest(j)
  BY <1>2, <1>7 DEF Latest
<1> QED
  BY <1>1, <1>2, <1>8, <1>9
-----------------------------------------------------------------------------
(* Types.                                                                  *)

LEMMA PeriodType == \A s : Period(s) \in Nat /\ Longest < Period(s)
  BY ReminderAssumption DEF Period

LEMMA StepType == ASSUME IInv, Next PROVE TypeOK'
<1> USE SomeJobType, ReminderAssumption DEF IInv, TypeOK, Followed
<1>1. ASSUME Tick PROVE TypeOK'
  BY <1>1 DEF Tick, Time
<1>2. ASSUME NEW u \in Update, NEW j \in Job, LoadJob(u, j) PROVE TypeOK'
  BY <1>2 DEF LoadJob
<1>3. ASSUME NEW u \in Update, NEW s \in Status, SetStatus(u, s) PROVE TypeOK'
  BY <1>3 DEF SetStatus
<1>4. ASSUME NEW u \in Update, Answer(u)
      PROVE  /\ step' \in [Update -> {"idle", "body", "commit"}]
             /\ target' \in [Update -> Job]
             /\ loaded' \in [Update -> Status] /\ choice' \in [Update -> Status]
             /\ stamp' \in [Update -> Time]
  BY <1>4 DEF Answer, Time
<1>5. ASSUME NEW u \in Update, CommitUpdate(u) PROVE TypeOK'
  <2>1. target[u] \in Job /\ Written(u) \in Status /\ Event(u) \in Status \X Time
    BY DEF Written, Event
  <2>2. status' \in [Job -> Status] /\ events' \in [Job -> SUBSET (Status \X Time)]
    BY <1>5, <2>1 DEF CommitUpdate
  <2>3. overtaken' \subseteq Update /\ torn' \subseteq Job /\ everTorn' \subseteq Job
    BY <1>5, <2>1 DEF CommitUpdate
  <2> QED
    BY <1>4, <1>5, <2>2, <2>3 DEF CommitUpdate, Answer
<1>6. ASSUME NEW u \in Update, FailUpdate(u) PROVE TypeOK'
  BY <1>4, <1>6 DEF FailUpdate, Answer
<1>7. ASSUME NEW r \in Request, Generate(r) PROVE TypeOK'
  <2>1. runs + 1 \in 1 .. MaxRun /\ runs + 1 \in 0 .. MaxRun
    BY <1>7 DEF Generate
  <2>2. crowded' \subseteq 1 .. MaxRun
    <3>1. \A q \in Request : at[q] # "idle" => run[q] \in 1 .. MaxRun
      BY DEF RunInv
    <3> QED
      BY <1>7, <2>1, <3>1 DEF Generate
  <2> QED
    BY <1>7, <2>1, <2>2 DEF Generate
<1>8. ASSUME NEW r \in Request, NEW j \in Job, SkipJob(r, j) PROVE TypeOK'
  <2>1. todo' \in [Request -> SUBSET Job]
    BY <1>8 DEF SkipJob
  <2> QED
    BY <1>8, <2>1 DEF SkipJob
<1>9. ASSUME NEW r \in Request, NEW j \in Job, FindDue(r, j) PROVE TypeOK'
  <2>1. DueAt(r, j) \in Nat
    BY LatestType, PeriodType DEF DueAt, Time
  <2>2. todo' \in [Request -> SUBSET Job] /\ due' \in [Request -> Nat]
    BY <1>9, <2>1 DEF FindDue
  <2> QED
    BY <1>9, <2>2 DEF FindDue
<1>10. ASSUME NEW r \in Request, CheckPending(r) PROVE TypeOK'
  <2>1. [job |-> job[r], type |-> seen[r][job[r]], due |-> due[r], run |-> run[r]] \in Reminder
    BY <1>10 DEF CheckPending, Reminder, SeenInv, RunInv
  <2>2. new' \in [Request -> SUBSET Reminder]
    BY <1>10, <2>1 DEF CheckPending
  <2> QED
    BY <1>10, <2>2 DEF CheckPending
<1>11. ASSUME NEW r \in Request, Return(r), pending' \subseteq Reminder PROVE TypeOK'
  BY <1>11 DEF Return, Time
<1>12. ASSUME NEW r \in Request, Store(r) PROVE TypeOK'
  BY <1>11, <1>12 DEF Store
<1>13. ASSUME NEW r \in Request, FailGeneration(r) PROVE TypeOK'
  BY <1>11, <1>13 DEF FailGeneration
<1>14. ASSUME NEW p \in pending, DismissReminder(p) PROVE TypeOK'
  BY <1>14 DEF DismissReminder
<1> QED
  BY <1>1, <1>2, <1>3, <1>5, <1>6, <1>7, <1>8, <1>9, <1>10, <1>12, <1>13, <1>14 DEF Next
-----------------------------------------------------------------------------
(* Updates.                                                                *)

\* A commit that is not overtaken leaves its status in the row.
LEMMA CommitWrites ==
  ASSUME IInv, NEW u \in Update, CommitUpdate(u)
  PROVE  /\ \A j \in Job : status'[j] = IF j = target[u] THEN Written(u) ELSE status[j]
         /\ u \notin overtaken => Written(u) = choice[u]
<1>1. \A j \in Job : status'[j] = IF j = target[u] THEN Written(u) ELSE status[j]
  BY DEF CommitUpdate, IInv, TypeOK
<1>2. u \notin overtaken => loaded[u] = status[target[u]]
  BY DEF CommitUpdate, IInv, UpdateInv
<1> QED
  BY <1>1, <1>2 DEF Written

TrackInv == EventInv /\ ClockInv /\ UpdateInv

LEMMA LeaveInv ==
  ASSUME IInv, NEW u \in Update, Answer(u), UNCHANGED tracking, overtaken' = overtaken \ {u}
  PROVE  TrackInv'
<1> USE DEF IInv
<1>1. /\ step'[u] = "idle"
      /\ \A v \in Update \ {u} : step'[v] = step[v] /\ target'[v] = target[v] /\ loaded'[v] = loaded[v]
                                 /\ stamp'[v] = stamp[v]
  BY DEF Answer, TypeOK
<1>2. EventInv'
  BY DEF EventInv
<1>3. ClockInv'
  BY <1>1 DEF ClockInv, Answer
<1>4. UpdateInv'
  BY <1>1, SameLatest DEF UpdateInv, StatusIsLatest
<1> QED
  BY <1>2, <1>3, <1>4 DEF TrackInv

LEMMA CommitTrackInv == ASSUME IInv, NEW u \in Update, CommitUpdate(u) PROVE TrackInv'
<1> USE DEF IInv
<1>1. /\ step[u] = "commit" /\ step'[u] = "idle" /\ u \notin overtaken'
      /\ \A v \in Update \ {u} : step'[v] = step[v] /\ target'[v] = target[v] /\ loaded'[v] = loaded[v]
                                 /\ stamp'[v] = stamp[v] /\ step[v] # "commit"
      /\ now' = now /\ start' = start
  BY DEF CommitUpdate, Answer, TypeOK, UpdateInv
<1>2. EventInv'
  <2> SUFFICES ASSUME NEW j \in Job
               PROVE  /\ \E e \in events'[j] : \A f \in events'[j] : f[2] <= e[2]
                      /\ \A e, f \in events'[j] : e[2] = f[2] => e = f
    BY DEF EventInv
  <2>1. CASE j # target[u]
    BY <2>1, CommitLatest DEF EventInv
  <2>2. CASE j = target[u]
    <3>1. Event(u)[2] = stamp[u] /\ stamp[u] \in Time
      BY CommitLatest DEF Event
    <3>2. \A f \in events[j] : f[2] < stamp[u] /\ f[2] \in Time
      BY <1>1, <2>2 DEF ClockInv, TypeOK
    <3>3. events'[j] = events[j] \cup {Event(u)}
      BY <2>2, CommitLatest
    <3>4. \A f \in events'[j] : f[2] <= Event(u)[2]
      BY <3>1, <3>2, <3>3 DEF Time
    <3>5. \A e, f \in events'[j] : e[2] = f[2] => e = f
      BY <3>1, <3>2, <3>3 DEF EventInv, Time
    <3> QED
      BY <3>3, <3>4, <3>5
  <2> QED
    BY <2>1, <2>2
<1>3. ClockInv'
  BY <1>1 DEF ClockInv
<1>4. UpdateInv'
  <2>1. \A v \in Update \ overtaken' : step'[v] # "idle" => loaded'[v] = status'[target'[v]]
    <3> SUFFICES ASSUME NEW v \in Update \ overtaken', step'[v] # "idle"
                 PROVE  loaded'[v] = status'[target'[v]]
      OBVIOUS
    <3>1. v # u /\ step[v] = "body" /\ target'[v] = target[v] /\ loaded'[v] = loaded[v]
      BY <1>1 DEF TypeOK
    <3>2. target[v] # target[u] /\ v \notin overtaken
      BY <3>1 DEF CommitUpdate
    <3>3. loaded[v] = status[target[v]] /\ target[v] \in Job
      BY <3>1, <3>2 DEF UpdateInv, TypeOK
    <3> QED
      BY <3>1, <3>2, <3>3, CommitWrites
  <2>2. torn' \subseteq everTorn'
    BY DEF CommitUpdate, UpdateInv
  <2>3. StatusIsLatest'
    <3> SUFFICES ASSUME NEW j \in Job \ torn'
                 PROVE  status'[j] = (Latest(j)')[1]
      BY DEF StatusIsLatest
    <3>1. CASE j = target[u]
      <4>1. u \notin overtaken
        BY <3>1 DEF CommitUpdate
      <4> QED
        BY <3>1, <4>1, CommitWrites, CommitLatest DEF Event
    <3>2. CASE j # target[u]
      <4>1. j \notin torn
        BY <3>2 DEF CommitUpdate
      <4> QED
        BY <3>2, <4>1, CommitWrites, CommitLatest DEF UpdateInv, StatusIsLatest
    <3> QED
      BY <3>1, <3>2
  <2> QED
    BY <1>1, <2>1, <2>2, <2>3 DEF UpdateInv
<1> QED
  BY <1>2, <1>3, <1>4 DEF TrackInv

LEMMA TrackNext == ASSUME IInv, Next PROVE TrackInv'
<1> USE DEF IInv
<1>1. ASSUME UNCHANGED <<now, tracking, update>>, \A r \in Request : start'[r] <= now PROVE TrackInv'
  BY <1>1, SameLatest DEF TrackInv, EventInv, ClockInv, UpdateInv, StatusIsLatest
<1>2. ASSUME Tick PROVE TrackInv'
  <2>1. ClockInv'
    BY <1>2, ReminderAssumption DEF Tick, ClockInv, TypeOK, Time
  <2> QED
    BY <1>2, <2>1, SameLatest DEF Tick, TrackInv, EventInv, UpdateInv, StatusIsLatest
<1>3. ASSUME NEW u \in Update, NEW j \in Job, LoadJob(u, j) PROVE TrackInv'
  <2>1. /\ step'[u] = "body" /\ target'[u] = j /\ loaded'[u] = status[j]
        /\ \A v \in Update \ {u} : step'[v] = step[v] /\ target'[v] = target[v] /\ loaded'[v] = loaded[v]
        /\ UNCHANGED <<now, tracking, stamp, overtaken, start>>
    BY <1>3 DEF LoadJob, TypeOK
  <2>2. ClockInv'
    BY <2>1 DEF ClockInv
  <2>3. UpdateInv'
    BY <2>1, SameLatest DEF UpdateInv, StatusIsLatest
  <2> QED
    BY <2>1, <2>2, <2>3 DEF TrackInv, EventInv
<1>4. ASSUME NEW u \in Update, NEW s \in Status, SetStatus(u, s) PROVE TrackInv'
  <2>1. /\ step[u] = "body" /\ step'[u] = "commit" /\ stamp'[u] = now
        /\ \A e \in events[target[u]] : e[2] < now
        /\ \A v \in Update \ {u} : step'[v] = step[v] /\ stamp'[v] = stamp[v] /\ step[v] # "commit"
        /\ UNCHANGED <<now, tracking, target, loaded, overtaken, start>>
    BY <1>4 DEF SetStatus, LoopIsFree, TypeOK
  <2>2. ClockInv'
    BY <2>1, ReminderAssumption DEF ClockInv, TypeOK, Time
  <2>3. UpdateInv'
    BY <2>1, SameLatest DEF UpdateInv, StatusIsLatest
  <2> QED
    BY <2>1, <2>2, <2>3 DEF TrackInv, EventInv
<1>5. ASSUME NEW u \in Update, FailUpdate(u) PROVE TrackInv'
  BY <1>5, LeaveInv DEF FailUpdate
<1>6. ASSUME NEW r \in Request, Generate(r) PROVE TrackInv'
  <2>1. \A q \in Request : start'[q] = IF q = r THEN now ELSE start[q]
    BY <1>6 DEF Generate, TypeOK
  <2> QED
    BY <1>1, <1>6, <2>1 DEF Generate, ClockInv, TypeOK, Time
<1>7. ASSUME NEW r \in Request, NEW j \in Job, SkipJob(r, j) \/ FindDue(r, j) PROVE TrackInv'
  BY <1>1, <1>7 DEF SkipJob, FindDue, ClockInv
<1>8. ASSUME NEW r \in Request, CheckPending(r) PROVE TrackInv'
  BY <1>1, <1>8 DEF CheckPending, ClockInv
<1>9. ASSUME NEW r \in Request, Store(r) \/ FailGeneration(r) PROVE TrackInv'
  <2>1. \A q \in Request : start'[q] = IF q = r THEN 0 ELSE start[q]
    BY <1>9 DEF Store, FailGeneration, Return, TypeOK
  <2> QED
    BY <1>1, <1>9, <2>1 DEF Store, FailGeneration, Return, ClockInv, TypeOK, Time
<1>10. ASSUME NEW p \in pending, DismissReminder(p) PROVE TrackInv'
  BY <1>1, <1>10 DEF DismissReminder, ClockInv
<1> QED
  BY <1>2, <1>3, <1>4, <1>5, <1>6, <1>7, <1>8, <1>9, <1>10, CommitTrackInv DEF Next
-----------------------------------------------------------------------------
(* Generations.                                                            *)

GenInv == RunInv /\ OnceInv /\ SeenInv

\* What a generation remembers, all but the reminders that were dismissed.
memory == <<at, start, run, seen, todo, job, due, new>>

LEMMA SameGen == ASSUME IInv, UNCHANGED <<reminders, memory, runs, crowded>> PROVE GenInv'
  BY DEF IInv, GenInv, RunInv, OnceInv, SeenInv, OnePending, memory

\* A step of r leaves the other generations as they are.
Others(r) ==
  \A q \in Request \ {r} :
    /\ at'[q] = at[q] /\ start'[q] = start[q] /\ run'[q] = run[q] /\ seen'[q] = seen[q]
    /\ todo'[q] = todo[q] /\ job'[q] = job[q] /\ due'[q] = due[q] /\ new'[q] = new[q]

LEMMA GenerateGen == ASSUME IInv, NEW r \in Request, Generate(r) PROVE GenInv'
<1> USE DEF IInv
<1>1. /\ at[r] = "idle" /\ at'[r] = "next" /\ run'[r] = runs + 1 /\ runs' = runs + 1
      /\ new'[r] = {} /\ UNCHANGED <<reminders, new>>
      /\ \A j \in todo'[r] : seen'[r][j] \in Followed
      /\ Others(r)
  BY DEF Generate, Others, TypeOK, RunInv
<1>2. /\ crowded \subseteq crowded'
      /\ \A q \in Request \ {r} : at[q] # "idle" => {run[q], runs + 1} \subseteq crowded'
  BY DEF Generate
<1>3. runs \in Nat /\ \A p \in pending \cup dismissed : p.run \in Nat
  BY DEF TypeOK, Reminder
<1>4. RunInv'
  <2>1. \A p \in pending' \cup dismissed' : p.run <= runs' /\ p.run # run'[r]
    BY <1>1, <1>3 DEF RunInv
  <2>2. \A q \in Request \ {r} : at'[q] # "idle" => run'[q] \in 1 .. runs' /\ run'[q] # run'[r]
    BY <1>1, <1>3 DEF RunInv, Others
  <2>3. run'[r] \in 1 .. runs'
    BY <1>1, <1>3
  <2>4. \A q, s \in Request : q # s /\ at'[q] # "idle" /\ at'[s] # "idle" =>
           run'[q] # run'[s] /\ {run'[q], run'[s]} \subseteq crowded'
    BY <1>1, <1>2, <2>2 DEF RunInv, Others
  <2>5. \A q \in Request \ {r} : at'[q] # "idle" => \A p \in pending' \cup dismissed' : p.run # run'[q]
    BY <1>1 DEF RunInv, Others
  <2>6. \A q \in Request \ {r} :
          /\ at'[q] = "idle" => new'[q] = {}
          /\ at'[q] = "check" => job'[q] \notin todo'[q]
          /\ \A p \in new'[q] :
               /\ p.run = run'[q] /\ p.job \notin todo'[q] /\ (at'[q] = "check" => p.job # job'[q])
               /\ \A o \in new'[q] : p.job = o.job => p = o
    BY <1>1 DEF RunInv, Others
  <2> QED
    BY <1>1, <2>1, <2>2, <2>3, <2>4, <2>5, <2>6 DEF RunInv
<1>5. OnceInv'
  BY <1>1, <1>2 DEF OnceInv, OnePending
<1>6. SeenInv'
  BY <1>1 DEF SeenInv, Others
<1> QED
  BY <1>4, <1>5, <1>6 DEF GenInv

LEMMA LookGen ==
  ASSUME IInv, NEW r \in Request, NEW j \in Job, SkipJob(r, j) \/ FindDue(r, j)
  PROVE  GenInv'
<1> USE DEF IInv
<1>1. /\ at[r] = "next" /\ at'[r] \in {"next", "check"} /\ (at'[r] = "check" => job'[r] = j)
      /\ j \in todo[r] /\ todo'[r] = todo[r] \ {j}
      /\ UNCHANGED <<reminders, run, seen, new, runs, crowded>>
      /\ Others(r)
  <2>1. CASE SkipJob(r, j)
    BY <2>1 DEF SkipJob, Others, TypeOK
  <2>2. CASE FindDue(r, j)
    BY <2>2 DEF FindDue, Others, TypeOK
  <2> QED
    BY <2>1, <2>2
<1>2. RunInv'
  BY <1>1 DEF RunInv, Others
<1>3. OnceInv'
  BY <1>1 DEF OnceInv, OnePending
<1>4. SeenInv'
  BY <1>1 DEF SeenInv, Others
<1> QED
  BY <1>2, <1>3, <1>4 DEF GenInv

LEMMA CheckGen == ASSUME IInv, NEW r \in Request, CheckPending(r) PROVE GenInv'
<1> USE DEF IInv
<1> DEFINE n == [job |-> job[r], type |-> seen[r][job[r]], due |-> due[r], run |-> run[r]]
<1>1. /\ at[r] = "check" /\ at'[r] = "next"
      /\ new'[r] = IF Reminded(r) THEN new[r] ELSE new[r] \cup {n}
      /\ UNCHANGED <<reminders, run, seen, todo, runs, crowded>>
      /\ Others(r)
  BY DEF CheckPending, Others, TypeOK
<1>2. n.run = run[r] /\ n.job = job[r] /\ n.type = seen[r][job[r]]
  OBVIOUS
<1>3. job[r] \notin todo[r] /\ \A p \in new[r] : p.job # job[r]
  BY <1>1 DEF RunInv
<1>4. ~Reminded(r) => \A p \in pending : ~(p.job = n.job /\ p.type = n.type)
  BY DEF Reminded
<1> HIDE DEF n
<1>5. RunInv'
  <2>1. \A p \in new'[r] :
           /\ p.run = run'[r] /\ p.job \notin todo'[r]
           /\ \A o \in new'[r] : p.job = o.job => p = o
    BY <1>1, <1>2, <1>3 DEF RunInv
  <2> QED
    BY <1>1, <2>1 DEF RunInv, Others
<1>6. OnceInv'
  <2>1. \A p \in pending, o \in new'[r] : p.job = o.job /\ p.type = o.type => {p.run, o.run} \subseteq crowded
    BY <1>1, <1>4 DEF OnceInv
  <2> QED
    BY <1>1, <2>1 DEF OnceInv, OnePending, Others
<1>7. SeenInv'
  BY <1>1 DEF SeenInv, Others
<1> QED
  BY <1>5, <1>6, <1>7 DEF GenInv

LEMMA ReturnGen ==
  ASSUME IInv, NEW r \in Request, at[r] # "idle", Return(r), pending' \in {pending, pending \cup new[r]}
  PROVE  GenInv'
<1> USE DEF IInv
<1>1. /\ at'[r] = "idle" /\ todo'[r] = {} /\ new'[r] = {}
      /\ UNCHANGED <<dismissed, runs, crowded>> /\ Others(r)
  BY DEF Return, Others, TypeOK
<1>2. \A p \in new[r] : p.run = run[r] /\ run[r] \in 1 .. runs
  BY DEF RunInv
<1>3. runs \in Nat
  BY DEF TypeOK
<1>4. RunInv'
  <2>1. \A p \in pending' \cup dismissed' : p.run <= runs
    BY <1>1, <1>2, <1>3 DEF RunInv
  <2>2. \A q \in Request \ {r} : at[q] # "idle" => \A p \in pending' \cup dismissed' : p.run # run[q]
    BY <1>1, <1>2 DEF RunInv
  <2> QED
    BY <1>1, <2>1, <2>2 DEF RunInv, Others
<1>5. OnceInv'
  <2>1. \A p, q \in pending' : p.job = q.job /\ p.type = q.type /\ p # q => {p.run, q.run} \subseteq crowded
    BY DEF OnceInv, OnePending, RunInv
  <2>2. \A s \in Request \ {r} : \A p \in new[r], q \in new[s] : {p.run, q.run} \subseteq crowded
    BY <1>2 DEF RunInv
  <2>3. \A s \in Request : \A p \in pending', q \in new'[s] :
           p.job = q.job /\ p.type = q.type => {p.run, q.run} \subseteq crowded
    BY <1>1, <2>2 DEF OnceInv, Others
  <2> QED
    BY <1>1, <2>1, <2>3 DEF OnceInv, OnePending
<1>6. SeenInv'
  BY <1>1 DEF SeenInv, Others
<1> QED
  BY <1>4, <1>5, <1>6 DEF GenInv

LEMMA DismissGen == ASSUME IInv, NEW p \in pending, DismissReminder(p) PROVE GenInv'
  BY DEF IInv, DismissReminder, GenInv, RunInv, OnceInv, SeenInv, OnePending

LEMMA GenNext == ASSUME IInv, Next PROVE GenInv'
<1>1. ASSUME Tick PROVE GenInv'
  BY <1>1, SameGen DEF Tick, memory
<1>2. ASSUME NEW u \in Update, NEW j \in Job, LoadJob(u, j) PROVE GenInv'
  BY <1>2, SameGen DEF LoadJob, memory
<1>3. ASSUME NEW u \in Update, NEW s \in Status, SetStatus(u, s) PROVE GenInv'
  BY <1>3, SameGen DEF SetStatus, memory
<1>4. ASSUME NEW u \in Update, CommitUpdate(u) \/ FailUpdate(u) PROVE GenInv'
  BY <1>4, SameGen DEF CommitUpdate, FailUpdate, Answer, memory
<1>5. ASSUME NEW r \in Request, Store(r) \/ FailGeneration(r) PROVE GenInv'
  BY <1>5, ReturnGen DEF Store, FailGeneration
<1> QED
  BY <1>1, <1>2, <1>3, <1>4, <1>5, GenerateGen, LookGen, CheckGen, DismissGen DEF Next
-----------------------------------------------------------------------------
(* What reminders say.                                                     *)

SayInv == FreshInv /\ DueInv /\ ReachInv

\* The status of the latest event is the one to be seen, for an overdue job.
LEMMA SeenOverdue ==
  ASSUME IInv, NEW r \in Request, at[r] # "idle", NEW j \in Job \ everTorn,
         \/ Overdue(r, j)
         \/ DueAt(r, j) <= start[r]
  PROVE  seen[r][j] = Latest(j)[1]
<1>1. Latest(j)[2] \in Nat /\ start[r] \in Nat /\ Longest \in Nat
  BY LatestType, ReminderAssumption DEF IInv, TypeOK, Time
<1>2. \A s : Period(s) \in Nat /\ Longest < Period(s)
  BY PeriodType
<1>3. ~(start[r] <= Latest(j)[2] + Longest)
  BY <1>1, <1>2 DEF Overdue, DueAt
<1> QED
  BY <1>3 DEF IInv, FreshInv

LEMMA SameSay == ASSUME IInv, UNCHANGED <<tracking, reminders, memory, gone>> PROVE SayInv'
<1>1. FreshInv'
  BY SameLatest DEF IInv, FreshInv, memory
<1>2. DueInv'
  BY DEF IInv, DueInv, DueOfAnEvent, OfAnEvent, memory
<1>3. ReachInv'
  BY SameLatest DEF IInv, ReachInv, Overdue, memory
<1> QED
  BY <1>1, <1>2, <1>3 DEF SayInv

LEMMA CommitSay == ASSUME IInv, NEW u \in Update, CommitUpdate(u) PROVE SayInv'
<1> USE DEF IInv
<1>1. UNCHANGED <<reminders, memory, gone>> /\ everTorn \subseteq everTorn'
  BY DEF CommitUpdate, Answer, memory
<1>2. \A j \in Job : events[j] \subseteq events'[j]
  BY CommitLatest
<1>3. stamp[u] \in Time /\ now <= stamp[u] + Longest
  BY DEF CommitUpdate, ClockInv, TypeOK
<1>4. \A r \in Request : start[r] <= stamp[u] + Longest /\ start[r] \in Time
  BY <1>3, ReminderAssumption DEF ClockInv, TypeOK, Time
<1>5. Event(u)[2] = stamp[u]
  BY DEF Event
<1>6. FreshInv'
  <2> SUFFICES ASSUME NEW r \in Request, at[r] # "idle", NEW j \in Job \ everTorn'
               PROVE  seen[r][j] = (Latest(j)')[1] \/ start[r] <= (Latest(j)')[2] + Longest
    BY <1>1 DEF FreshInv, memory
  <2> QED
    BY <1>1, <1>4, <1>5, CommitLatest DEF FreshInv
<1>7. DueInv'
  <2>1. DueOfAnEvent'
    <3>1. \A p \in pending \cup dismissed : p.job \in Job
      BY DEF TypeOK, Reminder
    <3> QED
      BY <1>1, <1>2, <3>1 DEF DueInv, DueOfAnEvent
  <2>2. \A j \in Job : \A s, t : OfAnEvent(j, s, t) => OfAnEvent(j, s, t)'
    BY <1>1, <1>2 DEF OfAnEvent
  <2>3. \A r \in Request : job[r] \in Job /\ \A p \in new[r] : p.job \in Job
    BY DEF TypeOK, Reminder
  <2>4. ASSUME NEW r \in Request, NEW p \in new'[r] PROVE OfAnEvent(p.job, p.type, p.due)'
    BY <1>1, <2>2, <2>3, <2>4 DEF DueInv, memory
  <2>5. ASSUME NEW r \in Request, at'[r] = "check" PROVE OfAnEvent(job[r], seen[r][job[r]], due[r])'
    <3>1. \A j \in Job : \A s, t : job[r] = j /\ seen[r][j] = s /\ due[r] = t => OfAnEvent(j, s, t)'
      BY <1>1, <2>2, <2>5 DEF DueInv, memory
    <3> QED
      BY <1>1, <1>2, <2>3, <2>5 DEF DueInv, OfAnEvent, memory
  <2> QED
    BY <2>1, <2>4, <2>5 DEF DueInv
<1>8. ReachInv'
  <2> SUFFICES ASSUME NEW r \in Request, at[r] # "idle", NEW j \in Job \ everTorn', Overdue(r, j)'
               PROVE  \/ j \in todo[r]
                      \/ at[r] = "check" /\ job[r] = j
                      \/ \E p \in pending \cup new[r] \cup gone[r] : p.job = j /\ p.type = (Latest(j)')[1]
    BY <1>1 DEF ReachInv, memory
  <2>1. j # target[u]
    <3> SUFFICES ASSUME j = target[u]
                 PROVE  FALSE
      OBVIOUS
    <3>1. Latest(j)' = Event(u)
      BY CommitLatest
    <3>2. stamp[u] + Period(Event(u)[1]) <= start[r]
      BY <3>1, <1>1, <1>5 DEF Overdue, memory
    <3>3. Period(Event(u)[1]) \in Nat /\ Longest < Period(Event(u)[1]) /\ Longest \in Nat
      BY PeriodType, ReminderAssumption
    <3> QED
      BY <1>3, <1>4, <3>2, <3>3 DEF Time
  <2>2. Latest(j)' = Latest(j)
    BY <2>1, CommitLatest
  <2>3. Overdue(r, j)
    BY <2>2, <1>1 DEF Overdue, memory
  <2> QED
    BY <2>2, <2>3, <1>1 DEF ReachInv
<1> QED
  BY <1>6, <1>7, <1>8 DEF SayInv

LEMMA GenerateSay == ASSUME IInv, NEW r \in Request, Generate(r) PROVE SayInv'
<1> USE DEF IInv
<1>1. /\ at[r] = "idle" /\ at'[r] = "next" /\ start'[r] = now /\ seen'[r] = status
      /\ todo'[r] = {j \in Job : status[j] \in Followed}
      /\ UNCHANGED <<tracking, reminders, job, due, new, gone>>
      /\ Others(r)
  BY DEF Generate, Others, TypeOK
<1>2. \A j \in Job \ everTorn : status[j] = Latest(j)[1]
  BY DEF UpdateInv, StatusIsLatest
<1>3. FreshInv'
  BY <1>1, <1>2, SameLatest DEF FreshInv, Others
<1>4. DueInv'
  <2>1. DueOfAnEvent'
    BY <1>1 DEF DueInv, DueOfAnEvent
  <2>2. \A q \in Request : \A p \in new'[q] : OfAnEvent(p.job, p.type, p.due)'
    BY <1>1 DEF DueInv, OfAnEvent
  <2>3. \A q \in Request : at'[q] = "check" => OfAnEvent(job[q], seen[q][job[q]], due[q])'
    BY <1>1 DEF DueInv, OfAnEvent, Others
  <2> QED
    BY <2>1, <2>2, <2>3 DEF DueInv
<1>5. ReachInv'
  BY <1>1, <1>2, SameLatest DEF ReachInv, Overdue, Others
<1> QED
  BY <1>3, <1>4, <1>5 DEF SayInv

LEMMA SkipSay == ASSUME IInv, NEW r \in Request, NEW j \in Job, SkipJob(r, j) PROVE SayInv'
<1> USE DEF IInv
<1>1. /\ at[r] = "next" /\ DueAt(r, j) > start[r]
      /\ todo'[r] = todo[r] \ {j} /\ \A q \in Request \ {r} : todo'[q] = todo[q]
      /\ UNCHANGED <<tracking, reminders, at, start, run, seen, job, due, new, gone>>
  BY DEF SkipJob, TypeOK
<1>2. j \in everTorn \/ ~Overdue(r, j)
  <2> SUFFICES ASSUME j \notin everTorn, Overdue(r, j)
               PROVE  FALSE
    OBVIOUS
  <2>1. seen[r][j] = Latest(j)[1]
    BY <1>1, SeenOverdue
  <2>2. DueAt(r, j) \in Int /\ start[r] \in Int
    BY LatestType, PeriodType DEF DueAt, TypeOK, Time
  <2> QED
    BY <1>1, <2>1, <2>2 DEF Overdue, DueAt
<1>3. FreshInv'
  BY <1>1, SameLatest DEF FreshInv
<1>4. DueInv'
  BY <1>1 DEF DueInv, DueOfAnEvent, OfAnEvent
<1>5. ReachInv'
  BY <1>1, <1>2, SameLatest DEF ReachInv, Overdue
<1> QED
  BY <1>3, <1>4, <1>5 DEF SayInv

LEMMA FindSay == ASSUME IInv, NEW r \in Request, NEW j \in Job, FindDue(r, j) PROVE SayInv'
<1> USE DEF IInv
<1>1. /\ at[r] = "next" /\ at'[r] = "check" /\ job'[r] = j /\ due'[r] = DueAt(r, j) /\ DueAt(r, j) <= start[r]
      /\ todo'[r] = todo[r] \ {j}
      /\ UNCHANGED <<tracking, reminders, start, run, seen, new, gone>>
      /\ Others(r)
  BY DEF FindDue, Others, TypeOK
<1>2. OfAnEvent(j, seen[r][j], DueAt(r, j))
  <2> SUFFICES ASSUME j \notin everTorn
               PROVE  <<seen[r][j], DueAt(r, j) - Period(seen[r][j])>> \in events[j]
    BY DEF OfAnEvent
  <2>1. seen[r][j] = Latest(j)[1]
    BY <1>1, SeenOverdue
  <2>2. DueAt(r, j) - Period(seen[r][j]) = Latest(j)[2]
    BY LatestType, PeriodType DEF DueAt, Time
  <2>3. Latest(j) \in events[j] /\ Latest(j) = <<Latest(j)[1], Latest(j)[2]>>
    BY LatestType
  <2> QED
    BY <2>1, <2>2, <2>3
<1>3. FreshInv'
  BY <1>1, SameLatest DEF FreshInv, Others
<1>4. DueInv'
  <2>1. DueOfAnEvent' /\ \A q \in Request : \A p \in new'[q] : OfAnEvent(p.job, p.type, p.due)'
    BY <1>1 DEF DueInv, DueOfAnEvent, OfAnEvent
  <2>2. \A q \in Request \ {r} : at'[q] = "check" => OfAnEvent(job[q], seen[q][job[q]], due[q])'
    BY <1>1 DEF DueInv, OfAnEvent, Others
  <2>3. OfAnEvent(job[r], seen[r][job[r]], due[r])'
    BY <1>1, <1>2 DEF OfAnEvent
  <2> QED
    BY <2>1, <2>2, <2>3 DEF DueInv
<1>5. ReachInv'
  BY <1>1, SameLatest DEF ReachInv, Overdue, Others
<1> QED
  BY <1>3, <1>4, <1>5 DEF SayInv

LEMMA CheckSay == ASSUME IInv, NEW r \in Request, CheckPending(r) PROVE SayInv'
<1> USE DEF IInv
<1> DEFINE n == [job |-> job[r], type |-> seen[r][job[r]], due |-> due[r], run |-> run[r]]
<1>1. /\ at[r] = "check" /\ at'[r] = "next"
      /\ new'[r] = IF Reminded(r) THEN new[r] ELSE new[r] \cup {n}
      /\ UNCHANGED <<tracking, reminders, start, run, seen, todo, gone>>
      /\ Others(r)
  BY DEF CheckPending, Others, TypeOK
<1>2. n.job = job[r] /\ n.type = seen[r][job[r]] /\ n.due = due[r]
  OBVIOUS
<1>3. \E p \in pending \cup new'[r] : p.job = job[r] /\ p.type = seen[r][job[r]]
  BY <1>1, <1>2 DEF Reminded
<1> HIDE DEF n
<1>4. FreshInv'
  BY <1>1, SameLatest DEF FreshInv, Others
<1>5. DueInv'
  <2>1. \A p \in new'[r] : OfAnEvent(p.job, p.type, p.due)
    BY <1>1, <1>2 DEF DueInv
  <2>2. \A p : OfAnEvent(p.job, p.type, p.due) => OfAnEvent(p.job, p.type, p.due)'
    BY <1>1 DEF OfAnEvent
  <2>3. \A q \in Request : \A p \in new'[q] : OfAnEvent(p.job, p.type, p.due)'
    BY <1>1, <2>1, <2>2 DEF DueInv, Others
  <2>4. DueOfAnEvent'
    BY <1>1 DEF DueInv, DueOfAnEvent
  <2>5. \A q \in Request : at'[q] = "check" => OfAnEvent(job[q], seen[q][job[q]], due[q])'
    BY <1>1 DEF DueInv, OfAnEvent, Others
  <2> QED
    BY <2>3, <2>4, <2>5 DEF DueInv
<1>6. ReachInv'
  <2> SUFFICES ASSUME NEW q \in Request, at'[q] # "idle", NEW j \in Job \ everTorn, Overdue(q, j)
               PROVE  \/ j \in todo'[q]
                      \/ at'[q] = "check" /\ job'[q] = j
                      \/ \E p \in pending \cup new'[q] \cup gone[q] : p.job = j /\ p.type = Latest(j)[1]
    BY <1>1, SameLatest DEF ReachInv, Overdue
  <2>1. CASE q # r
    BY <1>1, <2>1 DEF ReachInv, Others
  <2>2. CASE q = r /\ job[r] = j
    <3>1. seen[r][j] = Latest(j)[1]
      BY <1>1, <2>2, SeenOverdue
    <3> QED
      BY <1>3, <2>2, <3>1
  <2>3. CASE q = r /\ job[r] # j
    BY <1>1, <2>3 DEF ReachInv
  <2> QED
    BY <2>1, <2>2, <2>3
<1> QED
  BY <1>4, <1>5, <1>6 DEF SayInv

LEMMA ReturnSay ==
  ASSUME IInv, NEW r \in Request, Return(r), pending' \in {pending, pending \cup new[r]}
  PROVE  SayInv'
<1> USE DEF IInv
<1>1. /\ at'[r] = "idle" /\ new'[r] = {} /\ \A q \in Request \ {r} : gone'[q] = gone[q]
      /\ UNCHANGED <<tracking, dismissed>> /\ pending \subseteq pending' /\ Others(r)
  BY DEF Return, Others, TypeOK
<1>2. FreshInv'
  BY <1>1, SameLatest DEF FreshInv, Others
<1>3. DueInv'
  <2>1. DueOfAnEvent'
    BY <1>1 DEF DueInv, DueOfAnEvent, OfAnEvent
  <2>2. \A q \in Request : \A p \in new'[q] : OfAnEvent(p.job, p.type, p.due)'
    BY <1>1 DEF DueInv, OfAnEvent, Others
  <2>3. \A q \in Request : at'[q] = "check" => OfAnEvent(job[q], seen[q][job[q]], due[q])'
    BY <1>1 DEF DueInv, OfAnEvent, Others
  <2> QED
    BY <2>1, <2>2, <2>3 DEF DueInv
<1>4. ReachInv'
  BY <1>1, SameLatest DEF ReachInv, Overdue, Others
<1> QED
  BY <1>2, <1>3, <1>4 DEF SayInv

LEMMA DismissSay == ASSUME IInv, NEW p \in pending, DismissReminder(p) PROVE SayInv'
<1> USE DEF IInv
<1>1. /\ UNCHANGED <<tracking, memory>>
      /\ pending' = pending \ {p} /\ dismissed' = dismissed \cup {p}
      /\ \A r \in Request : at[r] # "idle" => gone'[r] = gone[r] \cup {p}
  BY DEF DismissReminder, memory
<1>2. FreshInv'
  BY <1>1, SameLatest DEF FreshInv, memory
<1>3. DueInv'
  BY <1>1 DEF DueInv, DueOfAnEvent, OfAnEvent, memory
<1>4. ReachInv'
  <2>1. \A r \in Request : at[r] # "idle" => pending \cup new[r] \cup gone[r] \subseteq pending' \cup new'[r] \cup gone'[r]
    BY <1>1 DEF memory
  <2> QED
    BY <1>1, <2>1, SameLatest DEF ReachInv, Overdue, memory
<1> QED
  BY <1>2, <1>3, <1>4 DEF SayInv

LEMMA SayNext == ASSUME IInv, Next PROVE SayInv'
<1>1. ASSUME Tick PROVE SayInv'
  BY <1>1, SameSay DEF Tick, memory
<1>2. ASSUME NEW u \in Update, NEW j \in Job, LoadJob(u, j) PROVE SayInv'
  BY <1>2, SameSay DEF LoadJob, memory
<1>3. ASSUME NEW u \in Update, NEW s \in Status, SetStatus(u, s) PROVE SayInv'
  BY <1>3, SameSay DEF SetStatus, memory
<1>4. ASSUME NEW u \in Update, FailUpdate(u) PROVE SayInv'
  BY <1>4, SameSay DEF FailUpdate, Answer, memory
<1>5. ASSUME NEW r \in Request, Store(r) \/ FailGeneration(r) PROVE SayInv'
  BY <1>5, ReturnSay DEF Store, FailGeneration
<1> QED
  BY <1>1, <1>2, <1>3, <1>4, <1>5, CommitSay, GenerateSay, SkipSay, FindSay, CheckSay, DismissSay DEF Next
-----------------------------------------------------------------------------
LEMMA InitInv == ASSUME Init PROVE IInv
<1>1. TypeOK
  BY SomeJobType, ReminderAssumption DEF Init, TypeOK, Followed, Time
<1>2. /\ \A r \in Request : at[r] = "idle" /\ start[r] = 0 /\ new[r] = {} /\ todo[r] = {}
      /\ \A u \in Update : step[u] = "idle"
      /\ \A j \in Job : events[j] = {<<status[j], 0>>}
      /\ now = 0 /\ pending = {} /\ dismissed = {}
  BY DEF Init
<1>3. EventInv
  <2> SUFFICES ASSUME NEW j \in Job
               PROVE  /\ \E e \in events[j] : \A f \in events[j] : f[2] <= e[2]
                      /\ \A e, f \in events[j] : e[2] = f[2] => e = f
    BY DEF EventInv
  <2>1. \A e \in events[j] : e = <<status[j], 0>> /\ e[2] = 0
    BY <1>2
  <2>2. <<status[j], 0>> \in events[j]
    BY <1>2
  <2> QED
    BY <2>1, <2>2
<1>4. ClockInv
  BY <1>2 DEF ClockInv
<1>5. RunInv /\ OnceInv /\ SeenInv
  BY <1>2 DEF RunInv, OnceInv, OnePending, SeenInv
<1>6. FreshInv /\ DueInv /\ ReachInv
  BY <1>2 DEF FreshInv, DueInv, DueOfAnEvent, ReachInv
<1>7. \A j \in Job : Latest(j) = <<status[j], 0>>
  BY <1>2 DEF Latest
<1>8. UpdateInv
  BY <1>2, <1>7 DEF Init, UpdateInv, StatusIsLatest
<1> QED
  BY <1>1, <1>3, <1>4, <1>5, <1>6, <1>8 DEF IInv

\* The inductive invariant holds in every reachable state.
THEOREM Invariance == Spec => []IInv
<1>1. Init => IInv
  BY InitInv
<1>2. IInv /\ [Next]_vars => IInv'
  <2>1. ASSUME IInv, Next PROVE IInv'
    BY <2>1, StepType, TrackNext, GenNext, SayNext DEF IInv, TrackInv, GenInv, SayInv
  <2>2. ASSUME IInv, UNCHANGED vars PROVE IInv'
    <3>1. TypeOK' /\ EventInv' /\ ClockInv'
      BY <2>2 DEF IInv, TypeOK, EventInv, ClockInv
    <3>2. UpdateInv'
      BY <2>2, SameLatest DEF IInv, UpdateInv, StatusIsLatest
    <3> QED
      BY <2>2, <3>1, <3>2, SameGen, SameSay DEF IInv, GenInv, SayInv, memory
  <2> QED
    BY <2>1, <2>2
<1> QED
  BY <1>1, <1>2, PTL DEF Spec

\* The status of a job is that of its latest event, unless the last update of
\* the job was overtaken while it awaited its body.
THEOREM StatusFollowsEvents == Spec => []StatusIsLatest
<1>1. IInv => StatusIsLatest
  BY DEF IInv, UpdateInv
<1> QED
  BY <1>1, Invariance, PTL

\* Two reminders of one job and type are pending together only if their
\* generations overlapped.
THEOREM OneIsPending == Spec => []OnePending
<1>1. IInv => OnePending
  BY DEF IInv, OnceInv
<1> QED
  BY <1>1, Invariance, PTL

\* A reminder is one period later than an event with the status it is for.
THEOREM RemindersAreTrue == Spec => []DueOfAnEvent
<1>1. IInv => DueOfAnEvent
  BY DEF IInv, DueInv
<1> QED
  BY <1>1, Invariance, PTL

\* A generation leaves no overdue job without a reminder.
THEOREM NoneForgotten == Spec => AllReminded
<1>1. IInv /\ [Next]_vars => [\A r \in Request : Store(r) =>
         \A j \in Job \ everTorn :
             /\ Latest(j)[1] \in Followed
             /\ Latest(j)[2] + Period(Latest(j)[1]) <= start[r]
             => \E p \in pending' \cup gone[r] : p.job = j /\ p.type = Latest(j)[1]]_vars
  <2> SUFFICES ASSUME IInv, NEW r \in Request, Store(r), NEW j \in Job \ everTorn, Overdue(r, j)
               PROVE  \E p \in pending' \cup gone[r] : p.job = j /\ p.type = Latest(j)[1]
    BY DEF Overdue
  <2>1. at[r] = "next" /\ todo[r] = {} /\ pending' = pending \cup new[r]
    BY DEF Store
  <2> QED
    BY <2>1 DEF IInv, ReachInv
<1> QED
  BY <1>1, Invariance, PTL DEF Spec, AllReminded
=============================================================================
