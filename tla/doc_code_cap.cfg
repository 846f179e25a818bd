SPECIFICATION OtpSpec
CONSTANTS
  Caller = {c1, c2}
  NoCaller = NoCaller
  Known = {c1}
  Member = {}
  Address = {i1}
  PhoneDayCap = 2
  AddressHour = 2
  AddressDayCap = 3
  NewHourCap = 1
  Ask = {k1, k2}
  Guess = {v1}
  MaxCodes = 3
  HourCap = 2
  DayCap = 2
  MaxGuesses = 2
INVARIANTS
  CapAlerts
CHECK_DEADLOCK FALSE
