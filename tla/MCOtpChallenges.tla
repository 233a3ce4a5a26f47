--------------------------- MODULE MCOtpChallenges ---------------------------
EXTENDS OtpChallengesRefinement, TLC

CONSTANTS p1, ip1, ch1, ch2, ch3, r1, r2, a1, a2, a3

Symmetry == Permutations(Challenges) \union Permutations(Requests) \union Permutations(Attempts)
=============================================================================
