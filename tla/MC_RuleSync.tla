---------------------------- MODULE MC_RuleSync ----------------------------
\* RuleSync with two overlapping commands on two rules.
EXTENDS RuleSync, TLC

CONSTANTS c1, c2, r1, r2

Symmetry == Permutations({c1, c2}) \cup Permutations({r1, r2})
=============================================================================
