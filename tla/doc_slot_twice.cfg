SPECIFICATION DiarySpec
CONSTANTS
  Kinds = {"machi"}
  Mobed = {m1, p1}
  Panthaky = {p1}
  Family = {f1}
  Call = {c1, c2}
  Rojs = 2
  Mahs = 2
  Days = {1, 2, 3}
  Throughs = {4}
  Gehs = 1
  FirstNow = 0
  Counts = {}
  Horizon = 1
  MaxPeriods = 3
  MaxEvents = 3
  MaxActs = 4
  MaxTicks = 1
INVARIANT
  OneMachiPerSlot
CHECK_DEADLOCK FALSE
