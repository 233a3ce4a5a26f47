SPECIFICATION Spec
CONSTANTS
  p1 = p1  ip1 = ip1  ch1 = ch1  ch2 = ch2  ch3 = ch3  r1 = r1  r2 = r2
  a1 = a1  a2 = a2  a3 = a3
  NoPhone = NoPhone  NoIp = NoIp  NoChallenge = NoChallenge  Nobody = Nobody
  Phones = {p1}  Ips = {ip1}
  Challenges = {ch1, ch2, ch3}  Requests = {r1, r2}  Attempts = {a1, a2}
  Cooldown = 1  Window = 3  OtpLifetime = 2
  PhoneLimit = 2  IpLimit = 2  MaxAttempts = 2
  MaxNow = 3  Prompt = TRUE  Faults = TRUE
SYMMETRY Symmetry
INVARIANTS TypeOK OneLoginPerChallenge GuessBudget OnePendingPerPhone
PROPERTIES ImplementsOneTimeCodes
CHECK_DEADLOCK FALSE
