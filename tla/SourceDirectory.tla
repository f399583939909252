--------------------------- MODULE SourceDirectory ---------------------------
(***************************************************************************)
(* What the table of sources promises, with none of its columns, sessions, *)
(* checks, indexes or migrations: a directory in which every source holds  *)
(* keys that no other holds.  A source is entered once, may exchange its   *)
(* keys for free ones in one step, and leaves for good; its keys are free  *)
(* from then on.  An old directory, whose entries may collide, is opened   *)
(* by removing some of them and changing none.                             *)
(*                                                                         *)
(* SourceCatalog implements this specification.                            *)
(***************************************************************************)
CONSTANTS Source,   \* the entries there can be
          Key       \* what identifies a source

VARIABLES open,     \* whether the directory is in use
          life,     \* life[s]: where entry s is in its life
          holds     \* holds[s]: the keys of s, none unless it is live

avars == <<open, life, holds>>

AInit ==
    /\ open = FALSE
    /\ life \in [Source -> {"unborn", "live"}]
    /\ holds \in [Source -> SUBSET Key]
    /\ \A s \in Source : life[s] = "unborn" => holds[s] = {}

Apart(s, t) == holds[s] \cap holds[t] = {}
-----------------------------------------------------------------------------
Open(kept) ==
    /\ ~open /\ open'
    /\ \A s \in kept : life[s] = "live" /\ \A t \in kept \ {s} : Apart(s, t)
    /\ life' = [s \in Source |-> IF life[s] = "live" /\ s \notin kept THEN "deleted" ELSE life[s]]
    /\ holds' = [s \in Source |-> IF s \in kept THEN holds[s] ELSE {}]

\* Source s has what it holds in the next state, and nobody else changes.
Claim(s) ==
    /\ holds'[s] \subseteq Key
    /\ holds' = [holds EXCEPT ![s] = holds'[s]]
    /\ \A t \in Source \ {s} : Apart(s, t)'

Enter(s) ==
    /\ open /\ life[s] = "unborn"
    /\ life' = [life EXCEPT ![s] = "live"]
    /\ Claim(s)
    /\ UNCHANGED open

Exchange(s) ==
    /\ open /\ life[s] = "live"
    /\ Claim(s)
    /\ UNCHANGED <<open, life>>

Leave(s) ==
    /\ open /\ life[s] = "live"
    /\ life' = [life EXCEPT ![s] = "deleted"]
    /\ holds' = [holds EXCEPT ![s] = {}]
    /\ UNCHANGED open

ANext ==
    \/ \E kept \in SUBSET Source : Open(kept)
    \/ \E s \in Source : Enter(s) \/ Exchange(s) \/ Leave(s)

ASpec == AInit /\ [][ANext]_avars
=============================================================================
