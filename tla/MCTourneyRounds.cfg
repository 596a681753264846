SPECIFICATION MCSpec
CONSTANTS
  Jid = {1, 2, 3, 4, 5, 6}
  Multigame = {2}
  Joiner = {1, 2, 3}
  Leaver = {}
  Casual = {}
  RoundsAsked = {2}
  MaxPlayers = 6
  MaxTourneys = 1
  Parts = {"rounds"}
  FewPlayers = 3
  MoreRounds = 3
CHECK_DEADLOCK FALSE
INVARIANTS RoundsStart
