SPECIFICATION Spec
CONSTANTS
  a1 = a1
  a2 = a2
  b1 = b1
  Jid = {a1, b1}
  PartialOf <- MCPartialOf
  Terms = {adj1}
  NoTerms = NoTerms
  Adjourned = {adj1}
  AdjPlayers <- MCAdjPlayers
  Stored = {}
  Engines = {}
  Game = {g1}
  MaxMatches = 2
  MaxInbox = 2
  MaxDelayed = 1
  MaxRepeats = 0
VIEW StateView
CHECK_DEADLOCK FALSE
INVARIANTS
  NeverCrashes
