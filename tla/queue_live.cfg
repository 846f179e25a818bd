SPECIFICATION FairSpec
CONSTANTS
  r1 = r1  r2 = r2  r3 = r3  m1 = m1  m2 = m2
  Record = {r1, r2}
  Phone = {p1, p2}
  NoPhone = NoPhone
  None = None
  Owner <- TwoMobeds
  LastObs = 2
  RecordOf <- OneEach
  Worker = {w1}
  HasEvents = {r1}
  Allowlist = {p1, p2}
  Unsendable = {}
  DailyCap = 2
  MobedCap = 1
  MaxAttempts = 2
  Breaker = 1
  MaxActs = 1
  MaxCrashes = 1
INVARIANTS
  TypeOK
PROPERTIES
  BreakerHolds
  EveryReminderSettles
