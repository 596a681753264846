\* Chess over the openings of MCChess, a bound of plies in each; tournaments of few players in every order
\* of events, and of more players and rounds, one event at a time.
SPECIFICATION GamesSpec
CONSTANTS
  Openings <- MCOpenings
  Jid = {1, 2, 3, 4, 5, 6}
  Multigame = {2}
  Joiner = {1, 2, 3, 4}
  Leaver = {2, 3}
  Casual <- MCCasual
  RoundsAsked = {0, 2}
  MaxPlayers = 6
  MaxTourneys = 1
  Parts = {"chess", "rounds", "pairings"}
  FewPlayers = 4
  MoreRounds = 3
INVARIANTS
  MovesAreLegal
  TryingLeavesBoard
  EndsAreRight
  ReplayGivesGame
  RoundsSound
  OneRoundAtATime
CHECK_DEADLOCK FALSE
