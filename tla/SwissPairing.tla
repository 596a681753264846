------------------------------ MODULE SwissPairing ----------------------------
(***************************************************************************)
(* The pairings of a tournament (src/src/Pairing/Tourney.cc,               *)
(* TourneyPlayers.cc), in the style 's', the one ChessTourney asks for.    *)
(* Players are named 1, 2, ... in the order they joined; all have the      *)
(* rating 0 that TourneyManager gives them, which decides nothing.         *)
(* Results are counted in half points.                                     *)
(***************************************************************************)
EXTENDS Integers, Sequences, FiniteSets

BYE == 0

NoResult == -1

(* A tourney is its playerList, by name, and its gameList.  A player has   *)
(* the list of his opponents, [name, result, white], and the color due to  *)
(* him at the start: his score, the total and consecutive colors and the   *)
(* color due to him later are the ones of the list.                        *)
NoPlayers == [player |-> <<>>, games |-> {}]

AddPlayer(t) ==
  LET name == Cardinality(DOMAIN t.player) + 1
  IN [t EXCEPT !.player = [n \in 1..name |->
       IF n = name THEN [opponents |-> <<>>, due |-> 0] ELSE @[n]]]

-----------------------------------------------------------------------------
(* What is read of a player.                                               *)

Names(t) == DOMAIN t.player

Opponents(t, p) == t.player[p].opponents

CalculateScore(t, p) ==
  LET AtLeast(n) == Cardinality({i \in DOMAIN Opponents(t, p) : Opponents(t, p)[i].result >= n})
  IN AtLeast(1) + AtLeast(2)

AlreadyPlayed(t, p, o) ==
  \E i \in DOMAIN Opponents(t, p) : Opponents(t, p)[i].name = o

Colored(t, p, white) ==
  {i \in DOMAIN Opponents(t, p) : Opponents(t, p)[i].white = white}

(* Since the last game with the other color.                               *)
Consecutive(t, p, white) ==
  Cardinality({i \in DOMAIN Opponents(t, p) :
                 i..Len(Opponents(t, p)) \subseteq Colored(t, p, white)})

ColorDue(t, p) ==
  IF Opponents(t, p) = <<>> THEN t.player[p].due
  ELSE IF Consecutive(t, p, TRUE) > 0 THEN 0 ELSE 1

(* The bye is the last one of playerList.                                  *)
Before(p, o) == p # BYE /\ (o = BYE \/ p < o)

-----------------------------------------------------------------------------
(* The order of the players and their preferences.                         *)

SortsBefore(t, p, o) ==
  \/ CalculateScore(t, p) > CalculateScore(t, o)
  \/ CalculateScore(t, p) = CalculateScore(t, o) /\ Before(p, o)

GetSortValue(t, p) == Cardinality({o \in Names(t) : SortsBefore(t, o, p)})

(* Half the players with the same score: the best of them meets the one in *)
(* the middle.                                                             *)
Offset(t, p) ==
  Cardinality({o \in Names(t) : CalculateScore(t, o) = CalculateScore(t, p)}) \div 2

Distance(a, b) == IF a > b THEN a - b ELSE b - a

PairingScore(t, p, o) ==
    Distance(GetSortValue(t, o), GetSortValue(t, p) + Offset(t, p)) * 1000
      + Distance(CalculateScore(t, o), CalculateScore(t, p)) * 5
      + Distance(ColorDue(t, o), ColorDue(t, p))

PotentialOpponents(t, p, unpaired) ==
  {o \in unpaired \ {p} : ~AlreadyPlayed(t, p, o)}

Prefers(t, p, o, other) ==
  \/ PairingScore(t, p, o) < PairingScore(t, p, other)
  \/ PairingScore(t, p, o) = PairingScore(t, p, other) /\ Before(o, other)

FindBestOpponent(t, p, options) ==
  CHOOSE o \in options : \A other \in options \ {o} : Prefers(t, p, o, other)

FirstOf(t, players) ==
  CHOOSE p \in players : \A other \in players \ {p} : SortsBefore(t, p, other)

(* Mutant: nobody is unpaired again to try another opponent.               *)
AssignGreedily(t) ==
  LET assign[unpaired \in SUBSET Names(t)] ==
        IF unpaired = {} THEN {{}}
        ELSE LET p == FirstOf(t, unpaired)
                 options == PotentialOpponents(t, p, unpaired)
             IN IF options = {} THEN {}
                ELSE LET o == FindBestOpponent(t, p, options)
                     IN {{<<p, o>>} \cup rest : rest \in assign[unpaired \ {p, o}]}
  IN assign[Names(t)]

(* The first player that is not paired takes the first opponent he prefers *)
(* that lets the others be paired: the players before him are unpaired     *)
(* when none does.  The empty set when the first one runs out of opponents *)
(* or nobody plays.                                                        *)
SwissAssign2(t) ==
  LET assign[unpaired \in SUBSET Names(t)] ==
        IF unpaired = {} THEN {{}}
        ELSE LET p == FirstOf(t, unpaired)
                 options == {o \in PotentialOpponents(t, p, unpaired) :
                               assign[unpaired \ {p, o}] # {}}
             IN IF options = {} THEN {}
                ELSE LET o == FindBestOpponent(t, p, options)
                     IN {{<<p, o>>} \cup rest : rest \in assign[unpaired \ {p, o}]}
  IN IF Names(t) = {} THEN {} ELSE assign[Names(t)]

-----------------------------------------------------------------------------
(* A round.                                                                *)

(* AssignColors: whether p plays white, for p before o in playerList.      *)
TakesWhite(t, p, o) ==
  LET due == ColorDue(t, p)
      row(q) == Consecutive(t, q, due = 0)
      total(q) == Cardinality(Colored(t, q, due = 0))
      more(f(_)) == f(p) > f(o)
  IN IF due # ColorDue(t, o) THEN due = 1
     ELSE LET p_is_more == IF row(p) # row(o) THEN more(row)
                           ELSE IF total(p) # total(o) THEN more(total)
                           ELSE CalculateScore(t, p) >= CalculateScore(t, o)
          IN p_is_more = (due = 1)

ColorizeTourney(t, pairs) ==
  LET Colors(p, o) == IF TakesWhite(t, p, o) THEN <<p, o>> ELSE <<o, p>>
  IN {IF Before(g[1], g[2]) THEN Colors(g[1], g[2]) ELSE Colors(g[2], g[1]) : g \in pairs}

(* The bye of the last round goes, and a new one comes when the number of  *)
(* players is odd.                                                         *)
UnpairAndCheckBye(t) ==
  LET players == Names(t) \ {BYE}
  IN [t EXCEPT !.player =
       [n \in players \cup (IF Cardinality(players) % 2 = 1 THEN {BYE} ELSE {}) |->
          IF n = BYE THEN [opponents |-> <<>>, due |-> 0] ELSE @[n]]]

WithOpponent(r, o) == [r EXCEPT !.opponents = Append(@, o)]

WithGames(t, games) ==
  [t EXCEPT !.games = games,
            !.player = [n \in DOMAIN @ |->
              LET g == CHOOSE g \in games : n \in {g[1], g[2]}
              IN WithOpponent(@[n], [name   |-> IF g[1] = n THEN g[2] ELSE g[1],
                                     result |-> NoResult,
                                     white  |-> g[1] = n])]]

(* Without a pairing the list of games stays as it is, empty.              *)
MakeAssignments(old) ==
  LET t == UnpairAndCheckBye(old)
      pairings == SwissAssign2(t)
  IN IF pairings = {} THEN t
     ELSE WithGames(t, ColorizeTourney(t, CHOOSE pairs \in pairings : TRUE))

(* start: the players are due the colors in turn.                          *)
StartPairing(t, firstColor) ==
  MakeAssignments([t EXCEPT !.player =
    [n \in DOMAIN @ |-> [@[n] EXCEPT !.due = (firstColor + n + 1) % 2]]])

-----------------------------------------------------------------------------
(* Results.                                                                *)

(* The last game of p against o; 0 when they never met.                    *)
GameAgainst(t, p, o) ==
  LET met == {i \in DOMAIN Opponents(t, p) : Opponents(t, p)[i].name = o}
  IN IF met = {} THEN 0 ELSE CHOOSE i \in met : \A j \in met : j <= i

SetResult(t, p, o, points) ==
  [t EXCEPT !.player[p].opponents[GameAgainst(t, p, o)].result = points]

(* The points are those of white.  It dereferences null unless the two met.*)
SetGameResult(t, white, black, points) ==
  [SetResult(SetResult(t, white, black, points), black, white, 2 - points)
     EXCEPT !.games = @ \ {<<white, black>>}]

ByeGames(t) == {g \in t.games : BYE \in {g[1], g[2]}}

(* Mutant: the color of the bye is mistaken.                               *)
ByeWins(t) ==
  IF ByeGames(t) = {} THEN t
  ELSE LET g == CHOOSE g \in ByeGames(t) : TRUE
       IN SetGameResult(t, g[1], g[2], IF g[1] = BYE THEN 2 ELSE 0)

SetByeResult(t) ==
  IF ByeGames(t) = {} THEN t
  ELSE LET g == CHOOSE g \in ByeGames(t) : TRUE
       IN SetGameResult(t, g[1], g[2], IF g[1] = BYE THEN 0 ELSE 2)

-----------------------------------------------------------------------------
(* Reference: the ways to pair everybody with somebody new.                *)

Pairings(t) ==
  {mate \in [Names(t) -> Names(t)] : \A p \in Names(t) :
     mate[p] # p /\ mate[mate[p]] = p /\ ~AlreadyPlayed(t, p, mate[p])}
=============================================================================
