----------------------------- MODULE TourneyManager ---------------------------
(***************************************************************************)
(* The tournaments (src/src/TourneyManager.cc, ChessTourney.cc).  The      *)
(* dispatcher of the module handles the requests, the start of the         *)
(* tournaments and the results; the games it creates need players that     *)
(* the core knows to be free (src/src/ServerCore.cc), and end in threads   *)
(* of their own.  An exception that nobody catches in a dispatcher, or a   *)
(* null pointer, ends the process.                                         *)
(***************************************************************************)
EXTENDS SwissPairing, SequencesExt

CONSTANTS Jid,
          Multigame,       \* the users who may play several games
          Joiner,          \* the users who join tournaments
          Leaver,          \* the users who come and go
          Casual,          \* the pairs that may play outside the tournaments
          RoundsAsked,     \* the numbers of rounds asked for
          MaxPlayers,      \* of a tournament
          MaxTourneys

VARIABLES available,       \* users_status of the core: who is available
          games_playing,   \* and how many games each plays
          rooms,           \* the games that are played
          ended,           \* the messages _endGame queued in the core
          tourneys,        \* by id; it starts at 1
          scheduled,       \* the tournaments to start
          creating,        \* the games startNextRound has still to create
          reports,         \* the messages _reportResult, in their order
          process          \* "up" or "down"

core_vars == <<available, games_playing, rooms, ended>>
vars == <<core_vars, tourneys, scheduled, creating, reports, process>>

TourneyInit ==
  /\ available = Jid /\ games_playing = [u \in Jid |-> 0]
  /\ rooms = {} /\ ended = {}
  /\ tourneys = <<>> /\ scheduled = {} /\ creating = {}
  /\ reports = <<>> /\ process = "up"

-----------------------------------------------------------------------------
(* The core.  A game is [tourney, round, names, players]; tourney 0 stands *)
(* for the other modules.  The round and the names only tell games apart.  *)

CanPlay(u) == u \in available /\ (games_playing[u] <= 0 \/ u \in Multigame)

Players(g) == {g.players[1], g.players[2]}

CountGame(g, n) ==
  games_playing' = [u \in Jid |->
    games_playing[u] + n * Cardinality({i \in {1, 2} : g.players[i] = u})]

HandlePresence(u) ==
  /\ process = "up" /\ u \in Leaver
  /\ available' = IF u \in available THEN available \ {u} ELSE available \cup {u}
  /\ UNCHANGED <<games_playing, rooms, ended, tourneys, scheduled, creating, reports, process>>

CreateGame(g) ==
  /\ \A u \in Players(g) : CanPlay(u)
  /\ CountGame(g, 1)
  /\ rooms' = rooms \cup {g}
  /\ UNCHANGED <<available, ended>>

CreateCasualGame(pair) ==
  /\ process = "up"
  /\ CreateGame([tourney |-> 0, round |-> 0, names |-> <<>>, players |-> pair])
  /\ UNCHANGED <<tourneys, scheduled, creating, reports, process>>

(* The endGame of the room: it queues _endGame in the core, stores the     *)
(* game and calls reportResult, which queues too.  A game that is canceled *)
(* or adjourned has no result.                                             *)
EndGame(g, result) ==
  /\ process = "up" /\ g \in rooms
  /\ rooms' = rooms \ {g} /\ ended' = ended \cup {g}
  /\ reports' = IF g.tourney = 0 THEN reports
                ELSE Append(reports, [game |-> g, result |-> result])
  /\ UNCHANGED <<available, games_playing, tourneys, scheduled, creating, process>>

(* _endGame, in the dispatcher of the core.                                *)
ForgetGame(g) ==
  /\ process = "up" /\ g \in ended
  /\ ended' = ended \ {g} /\ CountGame(g, -1)
  /\ UNCHANGED <<available, rooms, tourneys, scheduled, creating, reports, process>>

-----------------------------------------------------------------------------
(* ChessTourney.                                                           *)

NewTourney(rounds) ==
  [joined |-> <<>>, running |-> FALSE, missing_rounds |-> rounds, started |-> FALSE,
   missing_results |-> FALSE, result_set |-> {}, swiss |-> NoPlayers, round |-> 0]

(* addPlayer *)
WithPlayer(t, u) == [t EXCEPT !.joined = Append(@, u), !.swiss = AddPlayer(@)]

(* player_map: of the players with the same jid, the last.                 *)
PlayerOf(t, u) == SelectLastInSeq(t.joined, LAMBDA v : v = u)

(* match, when it makes a round.                                           *)
Match(t, firstColor) ==
  [t EXCEPT !.missing_rounds = @ - 1, !.started = TRUE,
            !.missing_results = TRUE, !.result_set = {}, !.round = @ + 1,
            !.swiss = SetByeResult(IF t.started THEN MakeAssignments(@)
                                   ELSE StartPairing(@, firstColor))]

(* makeGames                                                               *)
Games(id, t) ==
  {[tourney |-> id, round |-> t.round, names |-> g,
    players |-> <<t.joined[g[1]], t.joined[g[2]]>>] : g \in t.swiss.games}

(* A game without a result is neither drawn nor won by white.              *)
Points(result) == CASE result = "win" -> 2 [] result = "draw" -> 1 [] OTHER -> 0

TakesResult(t, players) ==
  players \cap t.result_set = {} /\ players \subseteq Range(t.joined)

HaveMet(t, w, b) ==
  GameAgainst(t.swiss, w, b) # 0 /\ GameAgainst(t.swiss, b, w) # 0

(* addResult, which throws unless TakesResult.                             *)
AddResult(t, g, result) ==
  LET swiss == SetGameResult(t.swiss, PlayerOf(t, g.players[1]),
                             PlayerOf(t, g.players[2]), Points(result))
  IN [t EXCEPT !.swiss = swiss, !.result_set = @ \cup Players(g),
               !.missing_results = swiss.games # {}]

-----------------------------------------------------------------------------
(* The dispatcher of the module.                                           *)

Idle == process = "up" /\ creating = {}

handleCreate(rounds) ==
  /\ Idle /\ Len(tourneys) < MaxTourneys
  /\ tourneys' = Append(tourneys, NewTourney(rounds))
  /\ scheduled' = scheduled \cup {Len(tourneys')}
  /\ UNCHANGED <<core_vars, creating, reports, process>>

(* Nothing keeps a user from joining twice.                                *)
handleJoin(u, id) ==
  /\ Idle /\ ~tourneys[id].running
  /\ Len(tourneys[id].joined) < MaxPlayers
  /\ tourneys' = [tourneys EXCEPT ![id] = WithPlayer(@, u)]
  /\ UNCHANGED <<core_vars, scheduled, creating, reports, process>>

(* Mutant: the next round starts with every result.                        *)
StartAnyRound(id, t) ==
  IF t.missing_rounds = 0
  THEN tourneys' = [tourneys EXCEPT ![id] = t] /\ UNCHANGED creating
  ELSE \E firstColor \in {0, 1} :
         /\ tourneys' = [tourneys EXCEPT ![id] = Match(t, firstColor)]
         /\ creating' = Games(id, tourneys'[id])

(* startNextRound, for the tournament t: match makes no round while        *)
(* results miss, and throws tourney_over after the last one.               *)
startNextRound(id, t) ==
  IF t.missing_results \/ t.missing_rounds = 0
  THEN tourneys' = [tourneys EXCEPT ![id] = t] /\ UNCHANGED creating
  ELSE \E firstColor \in IF t.started THEN {0} ELSE {0, 1} :
         /\ tourneys' = [tourneys EXCEPT ![id] = Match(t, firstColor)]
         /\ creating' = Games(id, tourneys'[id])

startTourney(id) ==
  /\ Idle /\ id \in scheduled
  /\ scheduled' = scheduled \ {id}
  /\ startNextRound(id, [tourneys[id] EXCEPT !.running = TRUE])
  /\ UNCHANGED <<core_vars, reports, process>>

(* The games of the round, one after the other.                            *)
CreateTourneyGame(g) ==
  /\ process = "up" /\ g \in creating
  /\ creating' = creating \ {g}
  /\ CreateGame(g)
  /\ UNCHANGED <<tourneys, scheduled, reports, process>>

GoDown ==
  /\ process' = "down"
  /\ UNCHANGED <<core_vars, tourneys, scheduled, creating, reports>>

(* createGame throws create_game_error; "TODO handle exception".           *)
FailToCreate(g) ==
  /\ process = "up" /\ g \in creating
  /\ \E u \in Players(g) : ~CanPlay(u)
  /\ GoDown

_reportResult ==
  /\ Idle /\ reports # <<>>
  /\ LET r == Head(reports)
         t == tourneys[r.game.tourney]
     IN /\ TakesResult(t, Players(r.game))
        /\ HaveMet(t, PlayerOf(t, r.game.players[1]), PlayerOf(t, r.game.players[2]))
        /\ startNextRound(r.game.tourney, AddResult(t, r.game, r.result))
  /\ reports' = Tail(reports)
  /\ UNCHANGED <<core_vars, scheduled, process>>

(* addResult throws result_error, or finds no game of the two players.     *)
FailToReport ==
  /\ Idle /\ reports # <<>>
  /\ LET r == Head(reports)
         t == tourneys[r.game.tourney]
     IN \/ ~TakesResult(t, Players(r.game))
        \/ ~HaveMet(t, PlayerOf(t, r.game.players[1]), PlayerOf(t, r.game.players[2]))
  /\ GoDown

-----------------------------------------------------------------------------

TourneyStep ==
  \/ \E rounds \in RoundsAsked : handleCreate(rounds)
  \/ \E id \in DOMAIN tourneys : \E u \in Joiner : handleJoin(u, id)
  \/ \E id \in scheduled : startTourney(id)
  \/ \E g \in creating : CreateTourneyGame(g) \/ FailToCreate(g)
  \/ _reportResult \/ FailToReport

CoreStep ==
  \/ \E u \in Leaver : HandlePresence(u)
  \/ \E pair \in Casual : CreateCasualGame(pair)
  \/ \E g \in ended : ForgetGame(g)

Result == {"win", "lose", "draw", "none"}

RoomStep == \E g \in rooms : \E result \in Result : EndGame(g, result)

Next == TourneyStep \/ CoreStep \/ RoomStep

TourneySpec == TourneyInit /\ [][Next]_vars

-----------------------------------------------------------------------------
(* Properties.                                                             *)

RealPlayers(t) == Names(t.swiss) \ {BYE}

Paired(t) == IF RealPlayers(t) = {} THEN 0 ELSE Len(Opponents(t.swiss, 1))

(* In every round everybody is paired once, with somebody he has not met,  *)
(* the bye included, one of the two plays white, and the results of the    *)
(* two agree.  A round has no pairing only when no pairing of players who  *)
(* have not met exists.                                                    *)
PairingsSound ==
  \A id \in DOMAIN tourneys :
    LET t == tourneys[id]
        met(p, i) == Opponents(t.swiss, p)[i]
    IN /\ \A p \in RealPlayers(t) :
            /\ Len(Opponents(t.swiss, p)) = Paired(t)
            /\ \A i, j \in 1..Paired(t) : i # j => met(p, i).name # met(p, j).name
            /\ \A i \in 1..Paired(t) :
                 LET o == met(p, i).name
                 IN o # BYE => /\ met(o, i).name = p
                               /\ met(o, i).white = ~met(p, i).white
                               /\ \/ met(p, i).result + met(o, i).result = 2
                                  \/ {met(p, i).result, met(o, i).result} = {NoResult}
       /\ t.round > Paired(t) /\ RealPlayers(t) # {} => Pairings(t.swiss) = {}

AllDiffer(t) == \A i, j \in DOMAIN t.joined : i # j => t.joined[i] # t.joined[j]

(* When no user joined twice, every game that was decided, and every bye,  *)
(* gave one point in all: the scores add up to the pairs that met, without *)
(* the games of the round that are still open.                             *)
ScoresAddUp ==
  \A id \in DOMAIN tourneys :
    LET t == tourneys[id]
        Score(p) == CalculateScore(t.swiss, p)
        pairs == (Cardinality(RealPlayers(t)) + 1) \div 2
    IN AllDiffer(t) =>
         MapThenSumSet(Score, RealPlayers(t))
           = 2 * (Paired(t) * pairs - Cardinality(t.swiss.games))

(* The table of a tournament after every round: who met whom, and what it  *)
(* was worth.                                                              *)
RoundsSound == PairingsSound /\ ScoresAddUp

(* When no user joined twice, the games of a tournament that are to be     *)
(* created, played or reported are those of the current round that have no *)
(* result, whatever the order in which the rooms and the core report:      *)
(* "start the next round if all games are over".                           *)
OneRoundAtATime ==
  process = "up" => \A id \in DOMAIN tourneys :
    AllDiffer(tourneys[id]) =>
      {g \in creating \cup rooms \cup {reports[i].game : i \in DOMAIN reports} :
         g.tourney = id} = Games(id, tourneys[id])

(* "start the next round if all games are over" (TourneyManager.cc): the   *)
(* games of a round are created when its players, who joined once, are     *)
(* there and play nowhere else.  The core may not yet have handled the end *)
(* of their last game.                                                     *)
RoundsStart ==
  process = "down" /\ (\A id \in DOMAIN tourneys : AllDiffer(tourneys[id])) =>
    \E g \in creating : \E u \in Players(g) :
      u \notin available \/ \E other \in rooms : u \in Players(other)
=============================================================================
