------------------------- MODULE MCSmsConfigurations -------------------------
EXTENDS SmsConfigurations, TLC

CONSTANTS g1, g2, g3, mock, other, x1, x2, x3, s1

Symmetry == Permutations(Configs) \union Permutations(Calls)
=============================================================================
