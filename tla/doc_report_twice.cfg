SPECIFICATION ReportSpec
CONSTANTS
  Mobed = {1, 2}
  Thing = {"machi"}
  OnWhatsApp = {1, 2}
  Worker = {"w1"}
  MaxFails = 1
  MaxChanges = 0
INVARIANTS
  NeverSentTwice
CHECK_DEADLOCK FALSE
