SPECIFICATION Spec
CONSTANTS
  Spectator = {}
  Offers = {"draw", "cancel", "adjourn"}
  MaxTime = 4
  MaxMoves = 3
  StartTimes = {1}
  Incs = {1}
  AutoFlags = {TRUE}
  AbsenceLimit = 2
  CheckPeriod = 1
CHECK_DEADLOCK FALSE
INVARIANT StalemateIsDraw
