---------------------------- MODULE MCRuleEngine ----------------------------
(* Small instances of RuleEngine for TLC: three rules on one key, two of which agree, *)
(* and a fourth on no key, for projects with and without CO2.                         *)
EXTENDS RuleEngine, TLC

CONSTANTS co2, water, fdv, full, lite

MCWhen == [a \in Rules |-> IF a = 3 THEN Facts \ {water} ELSE Facts]
MCConflictKey == [a \in Rules |-> IF a = 4 THEN NoKey ELSE fdv]
MCValue == [a \in Rules |-> CASE a \in {1, 3} -> full [] a = 2 -> lite [] OTHER -> NoValue]

\* All rule sets, or the one that holds the first two rules.
MCFilters == {Rules, Rules \cap {1, 2}}

Symmetry == Permutations(Resolvers)

\* Of runs, which the liveness run tells apart, only the order of arrival matters.
Numbered == \A q, r \in Runs : q < r /\ run[r].pc # "unused" => run[q].pc # "unused"
=============================================================================
