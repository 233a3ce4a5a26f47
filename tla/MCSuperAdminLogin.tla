-------------------------- MODULE MCSuperAdminLogin --------------------------
EXTENDS SuperAdminLogin, TLC

CONSTANTS u1, u2, ip1, ch1, ch2, r1, l1, l2, c1

Symmetry == Permutations(Challenges) \union Permutations(Logins)
=============================================================================
