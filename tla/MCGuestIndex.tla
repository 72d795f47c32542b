---------------------------- MODULE MCGuestIndex ----------------------------
EXTENDS GuestIndex, TLC

\* The guest exists at version 0, is gone at 1, and is back from 2 on.
MCRoster == [v \in 0 .. Horizon |-> IF v = 1 THEN {} ELSE Vmids]

CallersSymmetry == Permutations(Callers)
=============================================================================
