SPECIFICATION SignInSpec
CONSTANTS
  x1 = x1  x2 = x2
  Device = {d1, d2}
  MaxSession = 2
  Refresh = {x1, x2}
  Older = {d1}
  MaxGen = 2
  MaxActs = 2
  Attempt = {a1}
  Phone = {p1, p2, p3}
  CanJoin = {p1}
  Hook = {x1, x2}
  Page = {x1, x2}
  Withheld = {p3}
  Nobody = Nobody
  Confirming = TRUE
  MaxTries = 2
  MaxNumbers = 1
  MaxSent = 2
  Caller = {c1, c2}
  NoCaller = NoCaller
  Known = {c1}
  Member = {}
  Address = {i1}
  PhoneDayCap = 2
  AddressHour = 2
  AddressDayCap = 3
  NewHourCap = 1
  Ask = {x1, x2}
  Guess = {x1, x2}
  MaxCodes = 3
  HourCap = 2
  DayCap = 2
  MaxGuesses = 2
SYMMETRY Interchangeable
INVARIANTS
  EndedForAReason
  SignOutReaches
  SignedInByTheirPhone
  OneSessionEach
  OneUseWithinTries
  OneAtATime
CHECK_DEADLOCK FALSE
