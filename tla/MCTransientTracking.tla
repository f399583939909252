------------------------- MODULE MCTransientTracking -------------------------
(* Instances of TransientTracking for TLC. *)
EXTENDS TransientTracking, TLC

CONSTANT s1

P(e, page, query, k) == [ext |-> e, url |-> <<page, query>>, key |-> k]

\* Two postings at different addresses, the second without identifier, and the
\* first with a text changed.
Changing == {P("e1", "p1", "q", "k1"), P("e1", "p1", "q", "k3"), P(NoExt, "p2", "q", "k2")}

\* Two postings whose addresses differ in the query only.
SamePage == {P("e1", "p1", "q1", "k1"), P("e2", "p1", "q2", "k2")}

OneSource == [r \in Run |-> s1]
=============================================================================
