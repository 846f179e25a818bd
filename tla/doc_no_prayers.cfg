SPECIFICATION DeskSpec
CONSTANTS
  Kinds = {"machi", "booking"}
  Mobed = {m1, p1}
  Panthaky = {p1}
  Family = {f1}
  Call = {c1, c2}
  Rojs = 2
  Mahs = 2
  Days = {1, 2}
  Throughs = {4, 6}
  Gehs = 1
  FirstNow = 1
  Counts = {0, 3}
  Horizon = 1
  MaxPeriods = 3
  MaxEvents = 5
  MaxActs = 3
  MaxTicks = 1
  f1 = f1
  f2 = f2
  f3 = f3
  d1 = d1
  d2 = d2
  d3 = d3
  n1 = n1
  n2 = n2
  m1 = m1
  p1 = p1
  Memorial = {f1, f2}
  DatesOf <- TwoAndOne
  DayOf <- CloseInTurn
  Prayer = {afringan, baaj}
  Request = {c1, c2}
  Worker = {w1, w2}
  LastDay = 2
  MaxAsks = 3
  Behdin = {f1, f2, f3}
  MobedOf <- TwoMobeds
  NumberOf <- TwoNumbers
  Tap = {t1, t2}
  Nobody = Nobody
  ShareCap = 1
  GlobalCap = 2
  MaxRows = 3
  MaxDeaths = 1
  MaxTurns = 1
INVARIANT
  NeverWithoutPrayers
CHECK_DEADLOCK FALSE
