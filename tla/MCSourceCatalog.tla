--------------------------- MODULE MCSourceCatalog ---------------------------
(* Instances of SourceCatalog for TLC. *)
EXTENDS SourceCatalog, Sequences, TLC

P(name, kind, company, url, ident) ==
    [f \in Field |-> CASE f = "name" -> name [] f = "kind" -> kind [] f = "adapter" -> ""
                       [] f = "company" -> company [] f = "url" -> url [] f = "ident" -> ident]

Texts == {"", "greenhouse", "lever", "Acme", "ACME", "acme", "Beta", "beta", "u1", "u2", "u1/", "x", "y"}

Slugs == [t \in Texts |-> CASE t \in {"Acme", "ACME"} -> "acme" [] t = "Beta" -> "beta"
                            [] t = "u1/" -> "u1" [] OTHER -> t]

\* Two boards; the third is the first in another spelling, the fourth has its
\* company in a column of its own and so belongs to the first company as well.
Acme == P("Acme", "greenhouse", "", "u1", "x")
Beta == P("Beta", "lever", "", "u2", "y")
Same == P("ACME", "greenhouse", "", "u1/", "x")
Both == P("Beta", "greenhouse", "Acme", "u2", "y")

\* A second board of the first company, which only old tables have.
Twin == P("acme", "greenhouse", "", "u2", "x")

Payloads == {Acme, Beta, Same, Both, P("Beta", "greenhouse", "", "u1", "x")}

Given(p, state, status, empties) ==
    [NewRow(p, TRUE) EXCEPT !.owner = NoKey, !.state = state, !.status = status, !.empties = empties]

Never  == <<"healthy", "none", 0>>
Empty  == <<"warning", "success", 1>>
Full   == <<"healthy", "success", 0>>
Failed == <<"error", "failed", 0>>

Tables == {[s \in Source |-> IF s > Len(t) THEN BlankRow ELSE
               [Given(t[s][1], t[s][2][1], t[s][2][2], t[s][2][3]) EXCEPT !.owner = NoKey]] : t \in
            {<<>>} \cup {<<<<p, h>>>> : p \in {Acme}, h \in {Never, Empty}}
                   \cup {<<<<Acme, g>>, <<p, h>>>> : p \in {Both, Twin}, g \in {Never, Failed}, h \in {Full, Empty}}
                   \cup {<<<<Acme, Empty>>, <<Twin, h>>, <<Both, Full>>>> : h \in {Never, Full, Failed}} }

Patches == {{}, {"kind"}, {"name", "url"}}

Boards == {<<"greenhouse", "y">>}

Additions == {Acme}

Symmetric == Permutations(Request)
=============================================================================
