SPECIFICATION MCSpec
CONSTANTS
  Spectator = {}
  Offers = {"draw", "cancel", "adjourn"}
  MaxTime = 5
  MaxMoves = 3
  StartTimes = {0, 1}
  Incs <- MCIncs
  AutoFlags = {TRUE, FALSE}
  AbsenceLimit = 2
  CheckPeriod = 1
  RequestTime = 2
CHECK_DEADLOCK FALSE
INVARIANTS EndsAtOnce ScoresMatchReason AbsenceTimed OneFlagFalls
PROPERTIES TimeEndsGame OnlyAbsentLose
