---------------------------- MODULE MCChangeSet -----------------------------
EXTENDS ChangeSet, TLC

HandlersSymmetry == Permutations(Handlers)

CallsSymmetry == Permutations(Handlers) \cup Permutations(Humans)
=============================================================================
