-------------------------- MODULE TransientListing --------------------------
(***************************************************************************)
(* What the temporary results of ingestion promise to their user, with     *)
(* none of the registry, transactions, locks or matching: a run publishes  *)
(* what it found, once and all of it, in place of what its source listed;  *)
(* of jobs that were tracked before the run, and still are, it lists       *)
(* nothing.  A listed result can be chosen and saved, which makes at most  *)
(* one job and takes the result off the list in the same step.  Runs       *)
(* themselves neither make nor remove tracked jobs.                        *)
(*                                                                         *)
(* TransientTracking implements this specification.                        *)
(***************************************************************************)
CONSTANTS Source,    (* the sources that are run                           *)
          Run,       (* the runs there are                                 *)
          SourceOf,  (* the source of each run                             *)
          Posting    (* what a run may find, each with its key             *)

VARIABLES jobs,      (* the keys of the tracked jobs                       *)
          phase,     (* phase[r]: how far run r has come                   *)
          known,     (* known[r]: those tracked ever since r began         *)
          listed,    (* listed[s]: what source s lists and nobody saved    *)
          chosen,    (* results a user is about to save                    *)
          saved      (* results that were saved                            *)

avars == <<jobs, phase, known, listed, chosen, saved>>

AKey == {p.key : p \in Posting}

AInit ==
    /\ jobs \in SUBSET AKey
    /\ phase = [r \in Run |-> "new"]
    /\ known = [r \in Run |-> {}]
    /\ listed = [s \in Source |-> {}]
    /\ chosen = {}
    /\ saved = {}

-----------------------------------------------------------------------------
BeginRun(r) ==
    /\ phase[r] = "new"
    /\ phase' = [phase EXCEPT ![r] = "running"]
    /\ known' = [known EXCEPT ![r] = jobs]
    /\ UNCHANGED <<jobs, listed, chosen, saved>>

Publish(r, found) ==
    /\ phase[r] = "running"
    /\ \A p \in found : p.key \notin known[r]
    /\ phase' = [phase EXCEPT ![r] = "over"]
    /\ listed' = [listed EXCEPT ![SourceOf[r]] = {r} \X found]
    /\ UNCHANGED <<jobs, known, chosen, saved>>

(* A run that fails takes nothing off the list.                            *)
Quit(r) ==
    /\ phase[r] = "running"
    /\ phase' = [phase EXCEPT ![r] = "over"]
    /\ UNCHANGED <<jobs, known, listed, chosen, saved>>

Choose(id) ==
    /\ id \in listed[SourceOf[id[1]]]
    /\ chosen' = chosen \cup {id}
    /\ UNCHANGED <<jobs, phase, known, listed, saved>>

GiveUp(id) ==
    /\ chosen' = chosen \ {id}
    /\ UNCHANGED <<jobs, phase, known, listed, saved>>

(* The result becomes a job, or is found to be one.  It may have been      *)
(* replaced since it was chosen.                                           *)
Save(id) ==
    /\ id \in chosen \ saved
    /\ \E k \in jobs \cup {id[2].key} : jobs' = jobs \cup {k}
    /\ listed' = [s \in Source |-> listed[s] \ {id}]
    /\ chosen' = chosen \ {id}
    /\ saved' = saved \cup {id}
    /\ UNCHANGED <<phase, known>>

(* A source is deleted, and a job with it.                                 *)
Remove(k) ==
    /\ jobs' = jobs \ {k}
    /\ known' = [r \in Run |-> known[r] \ {k}]
    /\ UNCHANGED <<phase, listed, chosen, saved>>

(* What is not saved does not survive the process.                         *)
Crash ==
    /\ phase' = [r \in Run |-> IF phase[r] = "running" THEN "over" ELSE phase[r]]
    /\ listed' = [s \in Source |-> {}]
    /\ chosen' = {}
    /\ UNCHANGED <<jobs, known, saved>>

ANext ==
    \/ \E r \in Run : BeginRun(r) \/ Quit(r) \/ \E found \in SUBSET Posting : Publish(r, found)
    \/ \E id \in Run \X Posting : Choose(id) \/ GiveUp(id) \/ Save(id)
    \/ \E k \in AKey : Remove(k)
    \/ Crash

ASpec == AInit /\ [][ANext]_avars
=============================================================================
