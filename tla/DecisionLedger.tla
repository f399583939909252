---------------------------- MODULE DecisionLedger ----------------------------
(***************************************************************************)
(* What the decisions of tracked jobs promise, with none of the sessions,  *)
(* statements or locks: a ledger to which decisions are added, those of    *)
(* one transaction in one step.  A job's decisions enter in the order of   *)
(* their numbers and the last of them is its latest; none is changed or    *)
(* removed, and none is superseded but by a later one of its job.          *)
(*                                                                         *)
(* JobDecisions implements this specification.                             *)
(***************************************************************************)
EXTENDS Naturals

CONSTANTS Job,
          Number,    \* of decisions
          Verdict    \* what a decision may say of a job

VARIABLES past,      \* the decisions there are
          current,   \* the numbers of those that are marked current
          latest     \* latest[j]: the number of the latest decision of job j

avars == <<past, current, latest>>

Entry == [number : Number, job : Job, says : Verdict]

Of(entries, j) == {e \in entries : e.job = j}

IsNewest(entries, j, n) ==
    /\ \E e \in Of(entries, j) : e.number = n
    /\ \A e \in Of(entries, j) : e.number <= n

AInit ==
    /\ past \subseteq Entry
    /\ latest \in [Job -> Number]
    /\ \A j \in Job : IsNewest(past, j, latest[j])
    /\ current = {latest[j] : j \in Job}
-----------------------------------------------------------------------------
\* One or more jobs have decisions that they did not have.
Decide ==
    LET new     == past' \ past
        decided == {j \in Job : Of(new, j) # {}}
    IN  /\ past \subseteq past' /\ decided # {} /\ new \subseteq Entry
        /\ \A e \in new : /\ e.number > latest[e.job]
                          /\ \A f \in past' \ {e} : f.number # e.number
        /\ latest' \in [Job -> Number]
        /\ \A j \in decided : IsNewest(new, j, latest'[j])
        /\ \A j \in Job \ decided : latest'[j] = latest[j]
        /\ {latest'[j] : j \in decided} \subseteq current'
        /\ current' \subseteq current \cup {latest'[j] : j \in decided}
        /\ \A e \in past : e.number \in current \ current' => e.job \in decided

ASpec == AInit /\ [][Decide]_avars
=============================================================================
