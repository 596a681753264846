\* Each module alone, with users a (an admin, two resources) and b; four results of rated games;
\* a room of three clients with two nicks; adjourned games; the creation of games.
SPECIFICATION MCSpec
CONSTANTS
  a1 = a1   a2 = a2   b1 = b1   r1 = r1   r2 = r2   r3 = r3   r4 = r4
  Jid = {a1, a2, b1}
  PartialOf <- MCPartialOf
  MaxInbox = 3
  MaxTransactions = 3
  MaxRestarts = 1
  Category = {"blitz"}
  Limits <- MCLimits
  MaxAnnouncements = 2
  MaxSearches = 1
  Announcers = {""}
  Word = {"w"}
  Target = {"c"}
  MaxTime = 2
  MaxGames = 3
  GamePlayers <- MCGamePlayers
  Results = {1, 2}
  Player = {"a", "b", "c"}
  RatedResult = {r1, r2, r3, r4}
  PlayersOf <- MCPlayersOf
  JidOrder <- MCJidOrder
  Nobody = Nobody
  Rated = {"a", "b"}
  User = {"a", "b", "c"}
  MatchOffers <- MCMatchOffers
  AnnouncementOffers <- MCAnnouncementOffers
INVARIANTS
  TableFollowsList
  OneGameEach
  BansStored
  ProfileTrue
  PagesComplete
  RatedGamesCounted
  ViewsAgree
  AdjournedKept
  GameAsOffered
CHECK_DEADLOCK FALSE
