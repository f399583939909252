------------------------ MODULE MCSourceDeleteCleanup ------------------------
(* Instances of SourceDeleteCleanup for TLC. *)
EXTENDS SourceDeleteCleanup, TLC

\* Sources, jobs and delete requests are interchangeable.
Symmetric == Permutations(Source) \cup Permutations(Job) \cup Permutations(Cleanup)
=============================================================================
