SPECIFICATION FairSpec
CONSTANTS
  c1 = c1
  c2 = c2
  c3 = c3
  Callers = {c1, c2}
  Handles = {alice}
  MaxNodes = 1
  IdleEnabled = TRUE
  Lapses = {"away", "silent"}
  NoCaller = NoCaller
  NoHandle = NoHandle
PROPERTIES
  DisplacedEnds
  IdleEnds
  BudgetedEnds
CHECK_DEADLOCK FALSE
