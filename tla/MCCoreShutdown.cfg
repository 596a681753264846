SPECIFICATION MCSpec
CONSTANTS
  g1 = g1   g2 = g2   match = match   tourney = tourney
  Jid = {u1, u2}
  Game = {g1, g2}
  Module = {match, tourney}
  Engines = {u2}
  Visitor = {u1}
  MaxInbox = 1
  NoGame = NoGame
PROPERTY CloseFinishes
CHECK_DEADLOCK FALSE
