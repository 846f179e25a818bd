SPECIFICATION MessagesSpec
CONSTANTS
  r1 = r1  r2 = r2  r3 = r3  m1 = m1  m2 = m2  p1 = p1  p2 = p2  p3 = p3
  NoPhone = NoPhone
  MaxActs = 6
  Phone = {p1, p2}
  Record = {r1, r2, r3}
  Owner <- SharedTown
  LastObs = 3
  RecordOf <- TwoAndOther
  HasEvents = {r2}
  Number = {p1, p2, p3}
  Entry = {r1, r2, r3}
  PhoneOf <- Shared
  Agreeing = {r1, r3}
  Reminded = {p1, p2}
  Handler = {h1, h2}
  Request = {h1, h2}
  AckCap = 1
  MaxStops = 4
  MaxCrashes = 1
  Msg = {n1}
  Named = {n1}
  NoWork = NoWork
  Mobed = {1, 2}
  Thing = {"machi"}
  OnWhatsApp = {1}
  Worker = {h1, h2}
  MaxFails = 1
  MaxChanges = 1
INVARIANTS
  StopHolds
  AgreementIsInTheBook
  AckedOnce
  MobedsToldOnce
  FollowsReceipts
  ShowsWhatHappened
  ReportedOnce
PROPERTIES
  EveryStopIsHonoured
  ReportComes
CHECK_DEADLOCK FALSE
