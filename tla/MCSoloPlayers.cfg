SPECIFICATION Spec
CONSTANTS
  a1 = a1
  a2 = a2
  b1 = b1
  Jid = {a1, b1}
  PartialOf <- MCPartialOf
  Terms = {t1, t2}
  NoTerms = NoTerms
  Adjourned = {}
  AdjPlayers <- NoPlayersOf
  Stored = {}
  Engines = {a1, b1}
  Game = {g1, g2}
  MaxMatches = 2
  MaxInbox = 2
  MaxDelayed = 0
  MaxRepeats = 0
VIEW StateView
CHECK_DEADLOCK FALSE
PROPERTIES
  SoloPlayersReleased
