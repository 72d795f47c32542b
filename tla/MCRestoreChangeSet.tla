------------------------- MODULE MCRestoreChangeSet -------------------------
EXTENDS RestoreChangeSet, TLC

CONSTANTS alice, bob, g1, g2

\* The owner is in everybody's scope while it lives, but only alice's grant names its
\* VMID; the others reach it by a tag.
MCScope    == [p \in Principals |-> {g1, g2}]
MCByNumber == [p \in Principals |-> IF p = alice THEN {g1, g2} ELSE {}]

\* The archive may turn out to belong to g2, which is always there and never protected.
MCLives == [o \in Owners |-> IF o = g1 THEN Statuses ELSE {"open"}]

CallsSymmetry == Permutations(Handlers)
=============================================================================
