SPECIFICATION Spec
CONSTANTS
  u1 = u1  u2 = u2  s1 = s1  s2 = s2
  t1 = t1  t2 = t2  t3 = t3  t4 = t4  c1 = c1  c2 = c2  c3 = c3
  NoUser = NoUser  NoSession = NoSession  NoToken = NoToken  NoCall = NoCall
  Users = {u1}  Sessions = {s1, s2}
  Owner <- TwoOwners  ClientType <- TwoClients
  Tokens = {t1, t2, t3, t4}  Calls = {c1, c2}
  Lifetime = 1  MaxNow = 1  Faults = TRUE
INVARIANTS TypeOK OneActiveToken NoForkedFamily RevokedFamilyIsDead
PROPERTIES ImplementsTokenFamily NoTokenBornInDeadSession
CHECK_DEADLOCK FALSE
SYMMETRY TokenAndCallSymmetry
