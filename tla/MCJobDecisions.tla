--------------------------- MODULE MCJobDecisions ---------------------------
(* Instances of JobDecisions for TLC. *)
EXTENDS JobDecisions, TLC

Words == {"", "py", "qa", "sales", "onsite", "remote", "Remote", "spain", "visa ok", "no visa", "visa"}

Lowered == [k \in Words |-> IF k = "Remote" THEN "remote" ELSE k]

Lists(locations, ok, no, maybe) == [l \in List |->
    CASE l = "role_negatives" -> <<"sales">>       [] l = "location_negatives" -> <<"onsite">>
      [] l = "location_positives" -> locations     [] l = "remote_positives" -> <<"Remote", "remote">>
      [] l = "sponsorship_supported" -> ok         [] l = "sponsorship_unsupported" -> no
      [] l = "sponsorship_ambiguous" -> maybe]

Near == [roles |-> ("py" :> <<"py", "">>), lists |-> Lists(<<>>, <<>>, <<>>, <<>>)]
Far  == [roles |-> ("py" :> <<"py">>) @@ ("qa" :> <<"qa">>),
         lists |-> Lists(<<"spain">>, <<>>, <<>>, <<>>)]
Visa == [Far EXCEPT !.lists = Lists(<<"spain">>, <<"visa ok">>, <<"no visa">>, <<"visa">>)]
Bare == [roles |-> ("py" :> <<"">>), lists |-> [l \in List |-> <<>>]]

Payloads == {Near, Far, Visa, Bare}

\* The first reaches 25 points because it is remote, the second if both of its
\* families are asked for.
Texts == {[words |-> {"py", "remote", "spain", "visa ok", "visa"}, short |-> TRUE],
          [words |-> {"py", "qa", "spain", "no visa", "visa"}, short |-> FALSE]}
=============================================================================
