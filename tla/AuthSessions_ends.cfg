SPECIFICATION FairSpec
CONSTANTS
  u1 = u1  u2 = u2  s1 = s1  s2 = s2
  t1 = t1  t2 = t2  t3 = t3  t4 = t4  c1 = c1  c2 = c2  c3 = c3
  NoUser = NoUser  NoSession = NoSession  NoToken = NoToken  NoCall = NoCall
  Users = {u1}  Sessions = {s1}
  Owner <- OneOwner  ClientType <- OneClient
  Tokens = {t1, t2, t3}  Calls = {c1, c2}
  Lifetime = 1  MaxNow = 1  Faults = TRUE

PROPERTIES CallsEnd
CHECK_DEADLOCK FALSE
