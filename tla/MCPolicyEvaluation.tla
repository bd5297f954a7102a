------------------------- MODULE MCPolicyEvaluation -------------------------
(* One direct, one proxy and one attribute the static rules do not know.     *)
(* Windows of two or three groups of one attribute, or two of each of two:   *)
(* parity, ratios at 4/5 and 1/2, ties, groups at and under each minimum.    *)
EXTENDS PolicyEvaluation, TLC

CONSTANTS race, zip, other

MCFinance == (race :> "DIRECT") @@ (zip :> "PROXY")

Group(a, c) == [attribute |-> a, favorable_outcome_count |-> c[1], total_count |-> c[2]]
Counts == {<<0, 2>>, <<1, 1>>, <<1, 2>>, <<4, 30>>, <<5, 30>>, <<10, 30>>, <<15, 36>>,
           <<24, 30>>, <<30, 60>>, <<15, 30>>, <<56, 60>>, <<30, 30>>}
FewCounts == {<<1, 2>>, <<2, 2>>, <<10, 30>>, <<24, 30>>}
MCWindow ==
    {<<Group(race, c), Group(race, d)>> : c, d \in Counts}
    \cup {<<Group(race, c), Group(race, d), Group(race, e)>> : c, d, e \in Counts}
    \cup {<<Group(race, c), Group(race, d), Group(other, e), Group(other, f)>> :
              c, d, e, f \in FewCounts}

Limits == {Unset, NaN, Rational(0, 1), Rational(1, 2), Rational(1, 1), Rational(3, 1)}
Sizes == {Unset, Rational(1, 2), Rational(1, 1), Rational(61, 2)}
MCParameters == [limit : Limits, minimum_group_size : Sizes]

MCWindowRules == {MCFinance @@ (other :> "DIRECT"), MCFinance @@ (other :> "PROXY")}
=============================================================================
