------------------------------ MODULE MCCredit ------------------------------
(* Credit for TLC: rules that step at once and by more than one level, so  *)
(* that the ends of the scale are reached.                                 *)
EXTENDS Credit, TLC

CONSTANTS p1, p2, p3, acme

MCPayments == {p1, p2, p3}
MCDefaultRules == [grace |-> 0, onTime |-> 2, late |-> 1, step |-> 2,
                   enabled |-> TRUE]
MCRuleChoices ==
    {[grace |-> 1, onTime |-> 1, late |-> 2, step |-> 3, enabled |-> TRUE],
     [grace |-> 0, onTime |-> 2, late |-> 2, step |-> 1, enabled |-> FALSE]}
MCSymmetry == Permutations(Payments) \cup Permutations(Keys)
                 \cup Permutations(Workers)

=============================================================================
