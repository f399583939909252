--------------------------- MODULE BatchLifecycle ---------------------------
(***************************************************************************)
(* What the source batch run subsystem promises to its clients, with none  *)
(* of its registries, locks, previews, clocks or threads: batches run one  *)
(* at a time; every source of a batch is given at most one verdict; a      *)
(* batch that completes has given all of them, and its final status says   *)
(* whether one of them is a failure; nothing is said twice.                *)
(*                                                                         *)
(* SourceBatchRuns implements this specification.                          *)
(***************************************************************************)
CONSTANTS Source,   (* the sources that can be run in a batch             *)
          BatchId   (* the identifiers a batch can be given               *)

VARIABLES phase,    (* phase[b]: how far batch b has come                  *)
          verdict   (* verdict[b][s]: what b says about source s           *)

avars == <<phase, verdict>>

Finished == {"completed", "completed_with_failures", "failed"}
Phase    == {"absent", "active", "forgotten"} \cup Finished
Verdict  == {"no_part", "open", "success", "failed"}

ATypeOK == /\ phase \in [BatchId -> Phase]
           /\ verdict \in [BatchId -> [Source -> Verdict]]

AInit == /\ phase = [b \in BatchId |-> "absent"]
         /\ verdict = [b \in BatchId |-> [s \in Source |-> "no_part"]]

-----------------------------------------------------------------------------
(* A new batch for the sources in S.  One that has nothing to run is       *)
(* completed at once and needs no turn.                                    *)
Start(b, S) ==
  /\ phase[b] = "absent"
  /\ \A c \in BatchId : phase[c] # "active"
  /\ phase' = [phase EXCEPT ![b] = IF S = {} THEN "completed" ELSE "active"]
  /\ verdict' = [verdict EXCEPT ![b] =
                   [s \in Source |-> IF s \in S THEN "open" ELSE "no_part"]]

Decide(b, s, v) ==
  /\ phase[b] = "active"
  /\ verdict[b][s] = "open"
  /\ verdict' = [verdict EXCEPT ![b][s] = v]
  /\ UNCHANGED phase

Complete(b) ==
  /\ phase[b] = "active"
  /\ \A s \in Source : verdict[b][s] # "open"
  /\ phase' = [phase EXCEPT ![b] = IF \E s \in Source : verdict[b][s] = "failed"
                                   THEN "completed_with_failures"
                                   ELSE "completed"]
  /\ UNCHANGED verdict

(* The batch machinery itself broke: sources may be left without verdict.  *)
Abort(b) ==
  /\ phase[b] = "active"
  /\ phase' = [phase EXCEPT ![b] = "failed"]
  /\ UNCHANGED verdict

(* The batches in B are dropped: finished ones some time after they ended. *)
Drop(B) ==
  /\ phase' = [b \in BatchId |-> IF b \in B THEN "forgotten" ELSE phase[b]]
  /\ verdict' = [b \in BatchId |->
                   IF b \in B THEN [s \in Source |-> "no_part"] ELSE verdict[b]]

Forget(B) == (\A b \in B : phase[b] \in Finished) /\ Drop(B)

(* A restart of the process forgets every batch there is.                  *)
Crash == Drop({b \in BatchId : phase[b] # "absent"})

ANext == \/ \E b \in BatchId, S \in SUBSET Source : Start(b, S)
         \/ \E b \in BatchId, s \in Source, v \in {"success", "failed"} :
              Decide(b, s, v)
         \/ \E b \in BatchId : Complete(b) \/ Abort(b)
         \/ \E B \in SUBSET BatchId : Forget(B)
         \/ Crash

ASpec == AInit /\ [][ANext]_avars
=============================================================================
