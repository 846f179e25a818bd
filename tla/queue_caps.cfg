SPECIFICATION Spec
CONSTANTS
  r1 = r1  r2 = r2  r3 = r3  m1 = m1  m2 = m2
  Record = {r1, r2, r3}
  Phone = {p1, p2, p3}
  NoPhone = NoPhone
  None = None
  Owner <- ThreeFamilies
  LastObs = 3
  RecordOf <- OneEachOfThree
  Worker = {w1}
  HasEvents = {r1}
  Allowlist = {p1, p2, p3}
  Unsendable = {}
  DailyCap = 2
  MobedCap = 1
  MaxAttempts = 1
  Breaker = 2
  MaxActs = 1
  MaxCrashes = 0
INVARIANTS
  WithinCaps
PROPERTIES
  StopWins
