SPECIFICATION Spec
CONSTANTS
  u1 = u1  u2 = u2  s1 = s1  s2 = s2
  t1 = t1  t2 = t2  t3 = t3  t4 = t4  c1 = c1  c2 = c2  c3 = c3
  NoUser = NoUser  NoSession = NoSession  NoToken = NoToken  NoCall = NoCall
  Users = {u1}  Sessions = {s1}
  Owner <- OneOwner  ClientType <- OneClient
  Tokens = {t1, t2, t3, t4}  Calls = {c1, c2}
  Lifetime = 1  MaxNow = 0  Faults = FALSE
PROPERTIES ReuseRevokesSession
CHECK_DEADLOCK FALSE
