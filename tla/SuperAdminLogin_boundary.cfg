SPECIFICATION Spec
CONSTANTS
  u1 = u1  u2 = u2  ip1 = ip1  ch1 = ch1  ch2 = ch2  r1 = r1  l1 = l1  l2 = l2  c1 = c1
  NoAdmin = NoAdmin  NoIp = NoIp  NoChallenge = NoChallenge  Nobody = Nobody
  WrongCode = WrongCode
  Admins = {u1}  Enrolled = {u1}  Ips = {ip1}  Challenges = {ch1}
  Requests = {r1}  Logins = {l1, l2}  RecoveryCodes = {}
  Window = 2  Lifetime = 2
  IdentityLimit = 1  IpLimit = 1  GuessLimit = 2
  MaxNow = 1   Prompt = FALSE  Faults = FALSE
INVARIANTS OneLoginPerTimeStep
CHECK_DEADLOCK FALSE
