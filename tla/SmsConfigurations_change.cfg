SPECIFICATION Spec
CONSTANTS
  g1 = g1  g2 = g2  g3 = g3  mock = mock  other = other  x1 = x1  x2 = x2  x3 = x3  s1 = s1
  NoProvider = NoProvider  NoConfig = NoConfig  Nobody = Nobody
  Configs = {g1, g2, g3}  Providers = {mock, other}  Calls = {x1, x2}  Senders = {s1}  Faults = TRUE
SYMMETRY Symmetry
INVARIANTS TypeOK ActiveIsTested SentWithTested OneActive NoDeadlock RevisionsInOrder
PROPERTIES NoOutage
CHECK_DEADLOCK FALSE
