----------------------------- MODULE MCReminders -----------------------------
(* Instances of Reminders for TLC. *)
EXTENDS Reminders, TLC

Symmetric == Permutations(Update) \cup Permutations(Request)
=============================================================================
