SPECIFICATION Spec
CONSTANTS
  a1 = a1
  a2 = a2
  b1 = b1
  Jid = {a1, a2, b1}
  PartialOf <- MCPartialOf
  Terms = {t1, t2}
  NoTerms = NoTerms
  Adjourned = {}
  AdjPlayers <- NoPlayersOf
  Stored = {}
  Engines = {b1}
  Game = {g1}
  MaxMatches = 2
  MaxInbox = 2
  MaxDelayed = 0
  MaxRepeats = 0
SYMMETRY InterchangeableValues
VIEW StateView
CHECK_DEADLOCK FALSE
INVARIANTS
  PlayersAvailable
  CopyCatchesUp
  MatchsConsistent
PROPERTIES
  NoSilentClose
  TermsAgreed
