SPECIFICATION FairSpec
CONSTANTS
  a1 = a1
  a2 = a2
  b1 = b1
  Jid = {a1, b1}
  PartialOf <- MCPartialOf
  Terms = {adj1}
  NoTerms = NoTerms
  Adjourned = {adj1}
  AdjPlayers <- MCAdjPlayers
  Stored = {adj1}
  Engines = {}
  Game = {g1}
  MaxMatches = 1
  MaxInbox = 2
  MaxDelayed = 2
  MaxRepeats = 1
CHECK_DEADLOCK FALSE
INVARIANTS
  ResumeFindsOffer
PROPERTIES
  OffersSettled
