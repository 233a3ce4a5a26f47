SPECIFICATION TablesSpec
CONSTANTS
  Ahead = 3  Late = 1  MaxMonth = 8
  Scans <- MCScans  ScanMonth <- MCScanMonth
  t1 = t1  t2 = t2  t3 = t3  e1 = e1  e2 = e2  w1 = w1  w2 = w2  NoEvent = NoEvent  NoKey = NoKey  Nobody = Nobody
  Tickets = {t1, t2, t3}  Quantity <- MCQuantity  MaxCapacity = 4
  AttemptIds <- MCAttemptIds  Events = {e1, e2}  Workers = {w1, w2}
  k0 = k0  k1 = k1  k2 = k2  r1 = r1  r2 = r2  o1 = o1  o2 = o2  i1 = i1  i2 = i2
  factor = factor  Factor = factor
  Keys = {k0, k1, k2}  DevKey = k0  Replicas = {r1, r2}  Runs = {o1, o2}  Rows = {i1, i2}
SYMMETRY Symmetry
INVARIANTS TypeOK ScheduleSuffices ReplayAbsorbed BooksBalance EventActsOnce EntriesPaid
  Readable ShownIsStored
