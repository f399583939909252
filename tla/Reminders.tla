----------------------------- MODULE Reminders -----------------------------
(***************************************************************************)
(* Tracking statuses and the reminders made from them: TrackingService     *)
(* with its routes, generate_reminders and dismiss_reminder.               *)
(*                                                                         *)
(* Statuses are set on the event loop, but an update loads the job before  *)
(* it awaits the body of its request, and its session writes the status    *)
(* only if it differs from the one it loaded; the event is added always.   *)
(* A commit may take time, as threads have locks too, and holds the loop.  *)
(* The tracking of a temporary result is an update whose load and write    *)
(* are adjacent.  Generations run on threads, a transaction of many        *)
(* SELECTs each.                                                           *)
(*                                                                         *)
(* Jobs are tracked and visible here, and stay: SourceDeleteCleanup hides  *)
(* and deletes them.  So keep_job does not touch a status, and every job   *)
(* has an event.  No two events of a job have one created_at: utcnow()     *)
(* counts microseconds, and there is a commit between them.                *)
(***************************************************************************)
EXTENDS Integers, FiniteSets

CONSTANTS Job,          \* tracked jobs
          Status,       \* VALID_TRACKING_STATUSES
          Update,       \* requests that set a status
          Request,      \* threads that generate reminders
          SavedDays,    \* saved_reminder_days
          AppliedDays,  \* applied_reminder_days
          Longest,      \* the most a commit takes
          MaxTime,      \* bound: the clock
          MaxEvent,     \* bound: events of a job
          MaxRun        \* bound: generations

Followed == {"saved", "applied"}

ASSUME ReminderAssumption ==
    /\ Job # {}
    /\ Followed \subseteq Status
    /\ {SavedDays, AppliedDays, Longest, MaxTime, MaxEvent, MaxRun} \subseteq Nat
    /\ Longest < SavedDays /\ Longest < AppliedDays

VARIABLES
    now,        \* the clock
    status,     \* job_postings.tracking_status
    events,     \* job_tracking_events of each job: status and created_at
    pending,    \* reminders that are pending
    dismissed,  \* and those that were dismissed
    \* of each update
    step,       \* what it is about to do
    target,     \* its job
    loaded,     \* the status its session has of that
    choice,     \* the status it sets
    stamp,      \* created_at of its event
    \* of each generation
    at,         \* the statement it is about to run
    start,      \* its "now"
    run,        \* its number
    seen,       \* the statuses it has loaded
    todo,       \* jobs it has still to look at
    job,        \* the job it is at
    due,        \* due_at for that
    new,        \* reminders it adds
    \* history
    runs,       \* generations so far
    overtaken,  \* updates whose job another one has updated since they loaded it
    torn,       \* jobs whose last update was overtaken
    everTorn,   \* jobs that were torn at some time
    crowded,    \* generations that overlapped another one
    gone        \* of each generation: reminders dismissed since it began

tracking  == <<status, events, torn, everTorn>>
reminders == <<pending, dismissed>>
update    == <<step, target, loaded, choice, stamp, overtaken>>
request   == <<at, start, run, seen, todo, job, due, new, gone>>
vars      == <<now, tracking, reminders, update, request, runs, crowded>>

Time   == 0 .. MaxTime
Period(s) == IF s = "saved" THEN SavedDays ELSE AppliedDays

\* A generation adds one reminder of a job, so its number tells them apart.
Reminder == [job : Job, type : Followed, due : Nat, run : 1 .. MaxRun]

TypeOK ==
    /\ now \in Time
    /\ status \in [Job -> Status]
    /\ events \in [Job -> SUBSET (Status \X Time)]
    /\ pending \subseteq Reminder /\ dismissed \subseteq Reminder
    /\ step \in [Update -> {"idle", "body", "commit"}]
    /\ target \in [Update -> Job]
    /\ loaded \in [Update -> Status] /\ choice \in [Update -> Status]
    /\ stamp \in [Update -> Time]
    /\ at \in [Request -> {"idle", "next", "check"}]
    /\ start \in [Request -> Time]
    /\ run \in [Request -> 0 .. MaxRun]
    /\ seen \in [Request -> [Job -> Status]]
    /\ todo \in [Request -> SUBSET Job]
    /\ job \in [Request -> Job]
    /\ due \in [Request -> Nat]
    /\ new \in [Request -> SUBSET Reminder]
    /\ runs \in 0 .. MaxRun
    /\ overtaken \subseteq Update
    /\ torn \subseteq Job /\ everTorn \subseteq Job
    /\ crowded \subseteq 1 .. MaxRun
    /\ gone \in [Request -> SUBSET Reminder]
-----------------------------------------------------------------------------
SomeJob == CHOOSE j \in Job : TRUE

Init ==
    /\ now = 0
    /\ status \in [Job -> Status]
    /\ events = [j \in Job |-> {<<status[j], 0>>}]
    /\ pending = {} /\ dismissed = {}
    /\ step = [u \in Update |-> "idle"]
    /\ target = [u \in Update |-> SomeJob]
    /\ loaded = [u \in Update |-> "saved"] /\ choice = loaded
    /\ stamp = [u \in Update |-> 0]
    /\ at = [r \in Request |-> "idle"]
    /\ start = [r \in Request |-> 0]
    /\ run = start
    /\ seen = [r \in Request |-> [j \in Job |-> "saved"]]
    /\ todo = [r \in Request |-> {}]
    /\ job = [r \in Request |-> SomeJob]
    /\ due = start
    /\ new = todo
    /\ runs = 0
    /\ overtaken = {} /\ torn = {} /\ everTorn = {} /\ crowded = {}
    /\ gone = todo

Tick ==
    /\ now < MaxTime
    /\ \A u \in Update : step[u] = "commit" => now < stamp[u] + Longest
    /\ now' = now + 1
    /\ UNCHANGED <<tracking, reminders, update, request, runs, crowded>>
-----------------------------------------------------------------------------
(* Updates of a status.                                                    *)

LoopIsFree == \A u \in Update : step[u] # "commit"

\* The handler loads the job and awaits the body.
LoadJob(u, j) ==
    /\ LoopIsFree /\ step[u] = "idle"
    /\ step' = [step EXCEPT ![u] = "body"]
    /\ target' = [target EXCEPT ![u] = j]
    /\ loaded' = [loaded EXCEPT ![u] = status[j]]
    /\ UNCHANGED <<now, tracking, reminders, choice, stamp, overtaken, request, runs, crowded>>

SetStatus(u, s) ==
    /\ LoopIsFree /\ step[u] = "body"
    /\ \A e \in events[target[u]] : e[2] < now
    /\ Cardinality(events[target[u]]) < MaxEvent
    /\ step' = [step EXCEPT ![u] = "commit"]
    /\ choice' = [choice EXCEPT ![u] = s]
    /\ stamp' = [stamp EXCEPT ![u] = now]
    /\ UNCHANGED <<now, tracking, reminders, target, loaded, overtaken, request, runs, crowded>>

\* What the UPDATE leaves in the row, if there is one.
Written(u) == IF choice[u] = loaded[u] THEN status[target[u]] ELSE choice[u]

\* Seeded fault: the event has the status that is replaced.
FaultyEvent(u) == <<loaded[u], stamp[u]>>

Event(u) == <<choice[u], stamp[u]>>

Answer(u) ==
    /\ step' = [step EXCEPT ![u] = "idle"]
    /\ target' = [target EXCEPT ![u] = SomeJob]
    /\ loaded' = [loaded EXCEPT ![u] = "saved"]
    /\ choice' = [choice EXCEPT ![u] = "saved"]
    /\ stamp' = [stamp EXCEPT ![u] = 0]
    /\ UNCHANGED <<now, reminders, request, runs, crowded>>

CommitUpdate(u) ==
    /\ step[u] = "commit"
    /\ status' = [status EXCEPT ![target[u]] = Written(u)]
    /\ events' = [events EXCEPT ![target[u]] = @ \cup {Event(u)}]
    /\ overtaken' = (overtaken \cup {v \in Update : step[v] = "body" /\ target[v] = target[u]}) \ {u}
    /\ torn' = IF u \in overtaken THEN torn \cup {target[u]} ELSE torn \ {target[u]}
    /\ everTorn' = IF u \in overtaken THEN everTorn \cup {target[u]} ELSE everTorn
    /\ Answer(u)

\* A status that is not valid, or an exception: nothing is written.
FailUpdate(u) ==
    /\ step[u] # "idle"
    /\ overtaken' = overtaken \ {u}
    /\ Answer(u)
    /\ UNCHANGED tracking
-----------------------------------------------------------------------------
(* Generations and dismissals.                                             *)

Generate(r) ==
    /\ at[r] = "idle" /\ runs < MaxRun
    /\ at' = [at EXCEPT ![r] = "next"]
    /\ start' = [start EXCEPT ![r] = now]
    /\ runs' = runs + 1
    /\ run' = [run EXCEPT ![r] = runs + 1]
    /\ seen' = [seen EXCEPT ![r] = status]
    /\ todo' = [todo EXCEPT ![r] = {j \in Job : status[j] \in Followed}]
    /\ LET others == {run[q] : q \in {q \in Request : at[q] # "idle"}}
       IN  crowded' = IF others = {} THEN crowded ELSE crowded \cup others \cup {runs + 1}
    /\ UNCHANGED <<now, tracking, reminders, update, job, due, new, gone>>

\* Seeded fault: the oldest event.
FaultyLatest(j) == CHOOSE e \in events[j] : \A f \in events[j] : e[2] <= f[2]

Latest(j) == CHOOSE e \in events[j] : \A f \in events[j] : f[2] <= e[2]

\* The SELECT of the latest event.
DueAt(r, j) == Latest(j)[2] + Period(seen[r][j])

SkipJob(r, j) ==
    /\ at[r] = "next" /\ j \in todo[r] /\ DueAt(r, j) > start[r]
    /\ todo' = [todo EXCEPT ![r] = @ \ {j}]
    /\ UNCHANGED <<now, tracking, reminders, update, at, start, run, seen, job, due, new, gone,
                    runs, crowded>>

FindDue(r, j) ==
    /\ at[r] = "next" /\ j \in todo[r] /\ DueAt(r, j) <= start[r]
    /\ todo' = [todo EXCEPT ![r] = @ \ {j}]
    /\ job' = [job EXCEPT ![r] = j]
    /\ due' = [due EXCEPT ![r] = DueAt(r, j)]
    /\ at' = [at EXCEPT ![r] = "check"]
    /\ UNCHANGED <<now, tracking, reminders, update, start, run, seen, new, gone, runs, crowded>>

\* Seeded fault: another window has another reminder.
FaultyReminded(r) ==
    \E p \in pending : p.job = job[r] /\ p.type = seen[r][job[r]] /\ p.due = due[r]

\* Seeded fault: one that was dismissed will do.
FaultyRemindedOnce(r) ==
    \E p \in pending \cup dismissed : p.job = job[r] /\ p.type = seen[r][job[r]]

\* The SELECT of a pending reminder.
Reminded(r) == \E p \in pending : p.job = job[r] /\ p.type = seen[r][job[r]]

CheckPending(r) ==
    /\ at[r] = "check"
    /\ new' = IF Reminded(r) THEN new
              ELSE [new EXCEPT ![r] = @ \cup
                     {[job |-> job[r], type |-> seen[r][job[r]], due |-> due[r], run |-> run[r]]}]
    /\ at' = [at EXCEPT ![r] = "next"]
    /\ job' = [job EXCEPT ![r] = SomeJob]
    /\ due' = [due EXCEPT ![r] = 0]
    /\ UNCHANGED <<now, tracking, reminders, update, start, run, seen, todo, gone, runs, crowded>>

Return(r) ==
    /\ at' = [at EXCEPT ![r] = "idle"]
    /\ start' = [start EXCEPT ![r] = 0]
    /\ run' = [run EXCEPT ![r] = 0]
    /\ seen' = [seen EXCEPT ![r] = [j \in Job |-> "saved"]]
    /\ todo' = [todo EXCEPT ![r] = {}]
    /\ job' = [job EXCEPT ![r] = SomeJob]
    /\ due' = [due EXCEPT ![r] = 0]
    /\ new' = [new EXCEPT ![r] = {}]
    /\ gone' = [gone EXCEPT ![r] = {}]
    /\ UNCHANGED <<now, tracking, dismissed, update, runs, crowded>>

Store(r) ==
    /\ at[r] = "next" /\ todo[r] = {}
    /\ pending' = pending \cup new[r]
    /\ Return(r)

\* An exception: the transaction is rolled back.
FailGeneration(r) ==
    /\ at[r] # "idle"
    /\ Return(r)
    /\ UNCHANGED pending

DismissReminder(p) ==
    /\ p \in pending
    /\ pending' = pending \ {p}
    /\ dismissed' = dismissed \cup {p}
    /\ gone' = [r \in Request |-> IF at[r] = "idle" THEN {} ELSE gone[r] \cup {p}]
    /\ UNCHANGED <<now, tracking, update, at, start, run, seen, todo, job, due, new, runs, crowded>>

Next ==
    \/ Tick
    \/ \E u \in Update : \/ \E j \in Job : LoadJob(u, j)
                         \/ \E s \in Status : SetStatus(u, s)
                         \/ CommitUpdate(u) \/ FailUpdate(u)
    \/ \E r \in Request : \/ Generate(r) \/ CheckPending(r) \/ Store(r) \/ FailGeneration(r)
                          \/ \E j \in Job : SkipJob(r, j) \/ FindDue(r, j)
    \/ \E p \in pending : DismissReminder(p)

Spec == Init /\ [][Next]_vars
-----------------------------------------------------------------------------
\* The tracking status of a job is that of its latest event, unless the last
\* update of the job was overtaken by another while it awaited its body
\* (update_tracking_status, routes.py 1204 to 1221): the next one that is not
\* overtaken repairs it.
StatusIsLatest == \A j \in Job \ torn : status[j] = Latest(j)[1]

\* A job has one pending reminder of a type, unless two generations overlapped
\* (the SELECT at 93 and the INSERT at 103 have no constraint behind them).
OnePending ==
    \A p, q \in pending : p.job = q.job /\ p.type = q.type /\ p # q => {p.run, q.run} \subseteq crowded

\* A reminder is one period later than an event of its job with the status it
\* is for, although the status is read first and the event later, and updates
\* run in between (69 to 91); except of a job whose status was torn.
DueOfAnEvent ==
    \A p \in pending \cup dismissed :
        p.job \in everTorn \/ <<p.type, p.due - Period(p.type)>> \in events[p.job]

\* A generation leaves no job without a reminder whose latest event was due
\* when it began, unless the reminder it found was dismissed meanwhile.
AllReminded ==
    [][\A r \in Request : Store(r) =>
         \A j \in Job \ everTorn :
             /\ Latest(j)[1] \in Followed
             /\ Latest(j)[2] + Period(Latest(j)[1]) <= start[r]
             => \E p \in pending' \cup gone[r] : p.job = j /\ p.type = Latest(j)[1]]_vars

\* "Reminder generation should avoid duplicate pending reminders for the same
\* job/reminder type/window" (job_intelligence_platform_backend_implementation_plan.md
\* 474).  The code does not when generations overlap.
NoDuplicateReminder ==
    \A p, q \in pending : p.job = q.job /\ p.type = q.type /\ p.due = q.due => p = q

\* Generation should "create or refresh" reminders (the same, 429), which
\* "answer what action is overdue" (441).  The code does not refresh any: one
\* that is pending after a generation may be for a status that the job has left.
PendingIsOverdue ==
    [][\A r \in Request : Store(r) =>
         run[r] \in crowded \/ \A p \in pending' : p.type = seen[r][p.job]]_vars

\* The answer has the status that was asked for (test_api_flow.py 82).  The
\* code answers, and keeps, that of another request that overtook this one.
AnswerIsChoice ==
    [][\A u \in Update : CommitUpdate(u) => status'[target[u]] = choice[u]]_vars
=============================================================================
