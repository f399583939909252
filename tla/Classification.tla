--------------------------- MODULE Classification ---------------------------
(***************************************************************************)
(* Job preferences and the rules that put a posting into a bucket          *)
(* (src/app/domain/job_preferences.py, src/app/domain/classification.py).  *)
(*                                                                         *)
(* A posting is the set of keywords its lower-cased text contains, with a  *)
(* mark for a description under 120 characters.  Preferences come in as    *)
(* lists and are kept as sets: the order of a list decides only which      *)
(* keyword is quoted as evidence.                                          *)
(***************************************************************************)
EXTENDS Integers, Sequences, FiniteSets, SequencesExt

CONSTANTS Keyword,       \* trimmed entries of the lists, and names of role families
          Blank,         \* the one of no characters
          TooLong,       \* those above MAX_KEYWORD_LENGTH
          Lower,         \* lower() and casefold() of a keyword
          MaxFamilies,   \* MAX_ROLE_FAMILIES
          MaxPerFamily,  \* MAX_KEYWORDS_PER_ROLE_FAMILY
          MaxEntries     \* MAX_FLAT_LIST_ENTRIES

ASSUME KeywordAssumption ==
    /\ Blank \in Keyword /\ TooLong \subseteq Keyword \ {Blank}
    /\ Lower \in [Keyword -> Keyword]
    /\ \A k \in Keyword : Lower[Lower[k]] = Lower[k] /\ (Lower[k] = Blank <=> k = Blank)

ASSUME LimitAssumption == {MaxFamilies, MaxPerFamily, MaxEntries} \subseteq Nat

List == {"role_negatives", "remote_positives", "location_positives", "location_negatives",
         "sponsorship_supported", "sponsorship_unsupported", "sponsorship_ambiguous"}

Sponsorship == {"sponsorship_supported", "sponsorship_unsupported", "sponsorship_ambiguous"}

\* What a client sends: keywords of each role family it names, and the lists.
IsPayload(p) ==
    /\ p = [roles |-> p.roles, lists |-> p.lists]
    /\ DOMAIN p.roles \subseteq Keyword /\ IsFiniteSet(DOMAIN p.roles)
    /\ p.roles \in [DOMAIN p.roles -> Seq(Keyword)]
    /\ p.lists \in [List -> Seq(Keyword)]

Posting == [words : SUBSET Keyword, short : BOOLEAN]

Bucket == {"matched", "review", "rejected"}
-----------------------------------------------------------------------------
\* _normalize_keyword_list: blanks are dropped, the first spelling is kept.
Kept(s) ==
    {s[i] : i \in {i \in DOMAIN s : s[i] # Blank /\ \A j \in 1 .. i - 1 : Lower[s[j]] # Lower[s[i]]}}

Normalized(p) ==
    [roles |-> [f \in DOMAIN p.roles |-> Kept(p.roles[f])],
     lists |-> [l \in List |-> Kept(p.lists[l])]]

\* What validate reports as errors of single fields.
ListFits(s, max) == Len(s) <= max /\ \A i \in DOMAIN s : s[i] \notin TooLong

Fits(p) ==
    /\ Cardinality(DOMAIN p.roles) <= MaxFamilies
    /\ \A f \in DOMAIN p.roles :
          /\ f # Blank /\ f \notin TooLong
          /\ \A g \in DOMAIN p.roles \ {f} : Lower[g] # Lower[f]
          /\ ListFits(p.roles[f], MaxPerFamily)
    /\ \A l \in List : ListFits(p.lists[l], MaxEntries)

\* Seeded fault: a list of blanks is a signal.
FaultyHasPositiveSignal(p) ==
    \/ \E f \in DOMAIN p.roles : p.roles[f] # <<>>
    \/ p.lists["remote_positives"] # <<>>
    \/ p.lists["location_positives"] # <<>>

HasPositiveSignal(p) ==
    \/ \E f \in DOMAIN p.roles : Kept(p.roles[f]) # {}
    \/ Kept(p.lists["remote_positives"]) # {}
    \/ Kept(p.lists["location_positives"]) # {}

\* validate_job_filter_preferences does not raise.
Valid(p) == Fits(p) /\ HasPositiveSignal(p)
-----------------------------------------------------------------------------
\* Role keywords and location negatives are looked up as they are spelled,
\* the others in lower case.
Mentions(x, K)      == K \cap x.words # {}
MentionsLower(x, K) == {Lower[k] : k \in K} \cap x.words # {}

Aligned(x, q) == {f \in DOMAIN q.roles : Mentions(x, q.roles[f])}

RoleNegative(x, q)     == Mentions(x, q.lists["role_negatives"])
LocationNegative(x, q) == Mentions(x, q.lists["location_negatives"])

Sponsored(q) == \E l \in Sponsorship : q.lists[l] # {}

SponsorshipState(x, q) ==
    IF ~Sponsored(q) THEN "neutral"
    ELSE IF MentionsLower(x, q.lists["sponsorship_supported"]) THEN "supported"
    ELSE IF MentionsLower(x, q.lists["sponsorship_unsupported"]) THEN "unsupported"
    ELSE IF MentionsLower(x, q.lists["sponsorship_ambiguous"]) THEN "ambiguous" ELSE "missing"

\* Seeded fault: a preferred location hides that the job is remote.
FaultyLocationScore(x, q) ==
    IF MentionsLower(x, q.lists["location_positives"]) THEN 6
    ELSE IF MentionsLower(x, q.lists["remote_positives"]) THEN 10 ELSE 0

LocationScore(x, q) ==
    IF MentionsLower(x, q.lists["remote_positives"]) THEN 10
    ELSE IF MentionsLower(x, q.lists["location_positives"]) THEN 6 ELSE 0

\* Seeded fault: the sign.
FaultySponsorshipScore(state) ==
    CASE state = "supported" -> -6 [] state = "unsupported" -> -20 [] OTHER -> 0

SponsorshipScore(state) ==
    CASE state = "supported" -> 6 [] state = "unsupported" -> -20 [] OTHER -> 0

Score(x, q) ==
    18 * Cardinality(Aligned(x, q))
    - (IF RoleNegative(x, q) THEN 25 ELSE 0)
    + LocationScore(x, q)
    - (IF LocationNegative(x, q) THEN 12 ELSE 0)
    + SponsorshipScore(SponsorshipState(x, q))
    - (IF x.short THEN 2 ELSE 0)

\* preview_job
BucketOf(x, q) ==
    IF RoleNegative(x, q) /\ Score(x, q) < 10 THEN "rejected"
    ELSE IF Aligned(x, q) = {} THEN "rejected"
    ELSE IF SponsorshipState(x, q) \in {"ambiguous", "missing"} THEN "review"
    ELSE IF SponsorshipState(x, q) = "unsupported" THEN "rejected"
    ELSE IF ~LocationNegative(x, q) /\ Score(x, q) >= 25 THEN "matched"
    ELSE "review"
-----------------------------------------------------------------------------
Rank(b) == CASE b = "matched" -> 2 [] b = "review" -> 1 [] OTHER -> 0

\* r asks for all that q asks for and maybe more, and is the same otherwise.
Widens(r, q) ==
    /\ DOMAIN q.roles \subseteq DOMAIN r.roles
    /\ \A f \in DOMAIN q.roles : q.roles[f] \subseteq r.roles[f]
    /\ \A l \in List : IF l \in {"remote_positives", "location_positives"}
                       THEN q.lists[l] \subseteq r.lists[l] ELSE q.lists[l] = r.lists[l]
=============================================================================
