SPECIFICATION Spec
CONSTANTS
  u1 = u1  u2 = u2  ip1 = ip1  ch1 = ch1  ch2 = ch2  r1 = r1  l1 = l1  l2 = l2  c1 = c1
  NoAdmin = NoAdmin  NoIp = NoIp  NoChallenge = NoChallenge  Nobody = Nobody
  WrongCode = WrongCode
  Admins = {u1, u2}  Enrolled = {u1}  Ips = {ip1}  Challenges = {ch1}
  Requests = {r1}  Logins = {l1, l2}  RecoveryCodes = {c1}
  Window = 3  Lifetime = 2
  IdentityLimit = 1  IpLimit = 1  GuessLimit = 2
  MaxNow = 2   Prompt = TRUE  Faults = TRUE
SYMMETRY Symmetry
INVARIANTS TypeOK OneLoginPerRecoveryCode OneLoginPerTimeStep GuessBudget
PROPERTIES TimeStepsAdvance
CHECK_DEADLOCK FALSE
