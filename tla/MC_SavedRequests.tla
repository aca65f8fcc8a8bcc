-------------------------- MODULE MC_SavedRequests --------------------------
\* SavedRequests with two commands in flight and one collection.
EXTENDS SavedRequests, TLC

Symmetry == Permutations(Slots)
=============================================================================
