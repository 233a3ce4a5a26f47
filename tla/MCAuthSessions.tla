--------------------------- MODULE MCAuthSessions ---------------------------
EXTENDS AuthSessionsRefinement, TLC

CONSTANTS u1, u2, s1, s2, t1, t2, t3, t4, c1, c2, c3

\* One resident session of u1.
OneOwner == s1 :> u1
OneClient == s1 :> ResidentMobile

\* A resident session and an administrator session of the same user.
TwoOwners == s1 :> u1 @@ s2 :> u1
TwoClients == s1 :> ResidentMobile @@ s2 :> SuperAdminWeb

CallSymmetry == Permutations(Calls)
TokenAndCallSymmetry == Permutations(Tokens) \union Permutations(Calls)
=============================================================================
