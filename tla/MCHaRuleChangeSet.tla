------------------------- MODULE MCHaRuleChangeSet -------------------------
EXTENDS HaRuleChangeSet, TLC

CONSTANTS alice, bob, g1, g2

\* bob is narrowed to g1; g1 is created, and g2 gets a protected tag, at version 1.
MCScope == [p \in Principals |-> IF p = bob THEN {g1} ELSE Guests]

MCLiveAt == [v \in Versions |-> IF v = 0 THEN {g2} ELSE Guests]

MCTaggedAt == [v \in Versions |-> IF v = 0 THEN {} ELSE {g2}]

HandlersSymmetry == Permutations(Handlers)
=============================================================================
