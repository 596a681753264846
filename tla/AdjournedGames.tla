----------------------------- MODULE AdjournedGames ---------------------------
(***************************************************************************)
(* Adjourned games (GameChess::adjourn and its constructor for them in     *)
(* src/src/GameChess.cc, GameRoom::endGame, AdjournedWrapper and           *)
(* listAdjournedGames in src/src/MatchManager.cc, and their tables in      *)
(* src/src/DatabaseInterface.cc): what of a game survives when it is       *)
(* stored, loaded, offered and resumed, when the server is stopped, and    *)
(* when it is over and replayed (HistoryProcess.cc).                       *)
(*                                                                         *)
(* Who may offer and accept is in MatchManager.  Time is in ticks, and the *)
(* history of a game has whole seconds.  A move is its number.             *)
(***************************************************************************)
EXTENDS Integers, Sequences, SequencesExt, FiniteSets, Functions, TLC

CONSTANTS Second,            \* ticks of a second
          Clock,             \* seconds of each player at the start
          Kinds,             \* of games: timed, auto_flag
          Instants,          \* the ticks at which something happens, from 0 on
          MaxMoves, MaxRows, MaxOffers

C == INSTANCE GameChess

VARIABLES live,              \* games being played
          stored,            \* the rows of adjourned_games: from ids to histories
          next_row,
          offers,            \* matches made of a stored game: ids and histories
          erases,            \* eraseAdjGame transactions under way
          clock,
          server,
          listed,            \* the ids a player got with the last list
          over,              \* games: the histories of those that are over
          story              \* "none", "unfinished", "over" or "failed"

adjourned_vars ==
  <<live, stored, next_row, offers, erases, clock, server, listed, over, story>>

AdjournedInit ==
  /\ live = <<>> /\ stored = <<>> /\ next_row = 1
  /\ offers = <<>> /\ erases = {} /\ clock = 0
  /\ server = "up" /\ listed = {} /\ over = <<>>
  /\ story = "none"

-----------------------------------------------------------------------------
(* Games and their histories.                                              *)

(* int(getSeconds() + 0.001): getSeconds rounds towards zero already, and  *)
(* what is then below zero is rounded up once more.                        *)
Seconds(t) ==
  IF t > -Second THEN IF t < 0 THEN 0 ELSE t \div Second
  ELSE 1 - ((-t) \div Second)

\* colormap.find(jid)->second, and the players of a game in order
Players == [white |-> "a", black |-> "b"]

NewGame(timed, auto_flag) ==
  [state |-> C!NewGame([c \in C!Color |-> Clock * Second], [c \in C!Color |-> 0],
                     "white", timed, auto_flag),
   moves |-> <<>>, start |-> clock, rated |-> TRUE, left |-> {}]

(* currentTime of the room of a game, which starts at 0.                   *)
Now(game) == clock - game.start

(* What is left of the clock of c at this moment.                          *)
Rest(game, c) ==
  LET g == game.state
  IN g.time[c] - IF g.turn = c /\ g.turns_restart >= 2
                 THEN Now(game) - g.time_of_last_move ELSE 0

(* GameChess::state: the clocks that occupants are shown, in seconds and   *)
(* not below 0 when auto_flag ends the game.                               *)
Shown(game) ==
  [c \in C!Color |-> IF game.state.auto_flag /\ Rest(game, c) < 0 THEN 0
                     ELSE Seconds(Rest(game, c))]

IsMove(word) == "move" \in DOMAIN word

(* move: the text has the move, and the seconds left in a timed game.      *)
Moved(game) ==
  LET g == C!Move(game.state, game.state.turn, "open", Now(game))
      number == [move |-> Len(SelectSeq(game.moves, IsMove)) + 1]
      time == IF g.timed THEN <<[time |-> Seconds(g.time[game.state.turn])]>> ELSE <<>>
  IN [game EXCEPT !.state = g, !.moves = game.moves \o <<number>> \o time, !.left = {}]

(* Mutant: the time since the last move is not taken from the clock. *)
timeLeftOfLastMove(game, c) == Seconds(game.state.time[c])

(* generateHistoryTag of a game that is not over.                          *)
timeLeft(game, c) ==
  LET g == game.state IN
  Seconds(IF g.turn = c /\ g.turns_restart >= 2
          THEN g.time[c] - (Now(game) - g.time_of_last_move) ELSE g.time[c])

(* adjourn: the scores are not kept, the rest is the history of the game.  *)
(* The increment of white stands for both.  shown and rest are what a      *)
(* player saw and had when the game was stored.                            *)
adjourn(game) ==
  [timed |-> game.state.timed, autoflag |-> game.state.auto_flag, rated |-> game.rated,
   movetext |-> game.moves,
   players |-> {[jid |-> Players[c], color |-> c,
                 time_left |-> IF game.state.timed THEN timeLeft(game, c) ELSE 0,
                 inc |-> Seconds(game.state.inc["white"])] : c \in C!Color},
   shown |-> Shown(game), rest |-> [c \in C!Color |-> Rest(game, c)]]

(* interpretHistoryMoves: of a timed game every other word is a time.      *)
interpretHistoryMoves(timed, movetext) ==
  LET words == IF timed THEN (Len(movetext) + 1) \div 2 ELSE Len(movetext)
  IN [i \in 1..words |-> movetext[IF timed THEN 2 * i - 1 ELSE i]]

(* The constructors for adjourned games.  auto_flag is set whatever the    *)
(* history says, the clocks stand still for two moves.                     *)
Resumed(history) ==
  LET played == interpretHistoryMoves(history.timed, history.movetext)
      player(c) == CHOOSE p \in history.players : p.color = c
      time == [c \in C!Color |-> player(c).time_left * Second]
      inc == [c \in C!Color |-> player(c).inc * Second]
      turn == IF Len(played) % 2 = 0 THEN "white" ELSE "black"
  IN [state |-> C!NewGame(time, inc, turn, history.timed, TRUE),
      moves |-> history.movetext, start |-> clock, rated |-> history.rated,
      left |-> {[history |-> history, board |-> played]}]

(* HistoryProcess::generate: a state for the start and one for each move,  *)
(* with the time the player has left, unless that is negative.             *)
generateStateTag(moves, time) ==
  [moves |-> moves] @@ IF time >= 0 THEN [time |-> time] ELSE <<>>

generate(history) ==
  LET played == interpretHistoryMoves(history.timed, history.movetext)
      time(i) == IF history.timed THEN history.movetext[2 * i].time ELSE -1
  IN <<generateStateTag(<<>>, IF history.timed THEN Clock ELSE -1)>>
       \o [i \in DOMAIN played |-> generateStateTag(SubSeq(played, 1, i), time(i))]

-----------------------------------------------------------------------------
(* Rooms, offers and transactions.                                         *)

Start(timed, auto_flag) ==
  /\ server = "up" /\ story = "none"
  /\ live' = <<NewGame(timed, auto_flag)>> /\ story' = "unfinished"
  /\ UNCHANGED <<stored, next_row, offers, erases, clock, server, listed, over>>

Tick ==
  /\ clock' \in {t \in Instants : t > clock}
  /\ UNCHANGED <<live, stored, next_row, offers, erases, server, listed, over, story>>

Move(i) ==
  LET g == live[i].state IN
  /\ server = "up" /\ Len(live[i].moves) < MaxMoves
  /\ ~C!MoveTooLate(g, Now(live[i]))
  /\ live' = [live EXCEPT ![i] = Moved(@)]
  /\ UNCHANGED <<stored, next_row, offers, erases, clock, server, listed, over, story>>

(* A flag has fallen, or somebody resigns in a game without clocks (one    *)
(* that has come to the bound): the result and the history are stored.     *)
(* Bound: the first game that is over.                                     *)
EndGame(i) ==
  /\ server = "up" /\ over = <<>>
  /\ IF live[i].state.timed
     THEN C!SeeTime(live[i].state, Now(live[i])).done # "no-reason"
     ELSE Len(live[i].moves) = MaxMoves
  /\ live' = RemoveAt(live, i) /\ story' = "over"
  /\ over' = Append(over, [timed |-> live[i].state.timed, movetext |-> live[i].moves])
  /\ UNCHANGED <<stored, next_row, offers, erases, clock, server, listed>>

insertAdjournedGame(table, first, histories) ==
  table @@ [id \in first..(first + Len(histories) - 1) |-> histories[id - first + 1]]

(* The players agree: endGame stores the game and waits for it.  The time  *)
(* is not looked at.                                                       *)
Adjourn(i) ==
  /\ server = "up" /\ next_row <= MaxRows
  /\ stored' = insertAdjournedGame(stored, next_row, <<adjourn(live[i])>>) /\ next_row' = next_row + 1
  /\ live' = RemoveAt(live, i)
  /\ UNCHANGED <<offers, erases, clock, server, listed, over, story>>

(* loadAdjourned and resumeOffer, of a game of the last list.  It may be   *)
(* gone: then there is no offer.                                           *)
Offer(id) ==
  /\ server = "up" /\ Len(offers) < MaxOffers
  /\ id \in listed \cap DOMAIN stored
  /\ offers' = Append(offers, [id |-> id, history |-> stored[id]])
  /\ UNCHANGED <<live, stored, next_row, erases, clock, server, listed, over, story>>

Decline(k) ==
  /\ server = "up"
  /\ offers' = RemoveAt(offers, k)
  /\ UNCHANGED <<live, stored, next_row, erases, clock, server, listed, over, story>>

(* AdjournedWrapper::createGame queues the erase; ServerCore::createGame   *)
(* may then refuse the game, when a player cannot play, and it is lost.    *)
Accept(k) ==
  /\ server = "up"
  /\ offers' = RemoveAt(offers, k)
  /\ erases' = erases \cup {offers[k].id}
  /\ \/ live = <<>> /\ live' = <<Resumed(offers[k].history)>> /\ story' = "unfinished"
     \/ /\ live' = live
        /\ story' = IF story = "unfinished" /\ live = <<>> /\ DOMAIN stored \subseteq erases'
                    THEN "failed" ELSE story
  /\ UNCHANGED <<stored, next_row, clock, server, listed, over>>

\* eraseAdjGame
Erase(id) ==
  /\ id \in erases
  /\ erases' = erases \ {id}
  /\ stored' = Restrict(stored, DOMAIN stored \ {id})
  /\ UNCHANGED <<live, next_row, offers, clock, server, listed, over, story>>

\* a page of the games, in any order: there is no ORDER BY
searchAdjournedGames(offset, results) ==
  LET left == Cardinality(DOMAIN stored) - offset
      size == IF left < 0 THEN 0 ELSE IF left < results THEN left ELSE results
  IN {page \in SUBSET DOMAIN stored : Cardinality(page) = size}

(* getGameHistory and fetchGame: what a client is shown of a game.         *)
fetchGame(id) == generate(over[id])

(* handleList and listAdjournedGames.                                      *)
List(offset, results) ==
  /\ server = "up"
  /\ listed' \in searchAdjournedGames(offset, results)
  /\ UNCHANGED <<live, stored, next_row, offers, erases, clock, server, over, story>>

(* onClose: the rooms store their games, the module goes with its offers.  *)
StopGames ==
  /\ server = "up" /\ next_row + Len(live) <= MaxRows + 1
  /\ server' = "stopping"
  /\ stored' = insertAdjournedGame(stored, next_row, [i \in DOMAIN live |-> adjourn(live[i])])
  /\ next_row' = next_row + Len(live)
  /\ live' = <<>> /\ offers' = <<>>
  /\ UNCHANGED <<erases, clock, listed, over, story>>

(* The process ends when the manager's destructor has run what is left.    *)
Restart ==
  /\ server = "stopping" /\ erases = {}
  /\ server' = "up"
  /\ UNCHANGED <<live, stored, next_row, offers, erases, clock, listed, over, story>>

AdjournedNext ==
  \/ \E kind \in Kinds : Start(kind[1], kind[2])
  \/ Tick \/ StopGames \/ Restart
  \/ \E i \in DOMAIN live : Move(i) \/ EndGame(i) \/ Adjourn(i)
  \/ \E id \in listed : Offer(id)
  \/ \E k \in DOMAIN offers : Decline(k) \/ Accept(k)
  \/ \E id \in erases : Erase(id)
  \/ \E offset \in {0, 1} : List(offset, 1)

-----------------------------------------------------------------------------
(* Properties.                                                             *)

(* A resumed game has the moves that were made, in their order, is rated   *)
(* if it was, and its clocks are those the room showed when the game was   *)
(* stored, but that one shown at 0 may stand below.  A player with time    *)
(* left loses less than a second and gains nothing; one without any stays  *)
(* so, and a clock below 0 is turned back by less than two seconds.        *)
ResumedAsLeft ==
  \A i \in DOMAIN live : \A left \in live[i].left :
    LET history == left.history IN
    /\ left.board = SelectSeq(history.movetext, IsMove)
    /\ \A n \in DOMAIN left.board : left.board[n].move = n
    /\ live[i].rated = history.rated /\ live[i].state.timed = history.timed
    /\ history.timed => \A c \in C!Color :
         LET time == live[i].state.time[c]
             rest == history.rest[c]
         IN /\ \/ time = history.shown[c] * Second
               \/ history.autoflag /\ history.shown[c] = 0 /\ time < 0
            /\ rest >= 0 => time \in (rest - Second + 1)..rest
            /\ rest < 0 => time \in rest..(rest + 2 * Second - 1) /\ time <= 0

(* A game that was begun and is not over is being played or is stored,     *)
(* through every agreement, offer, restart of the server and order of the  *)
(* transactions, unless its creation failed.                               *)
GamesKept == story = "unfinished" => live # <<>> \/ DOMAIN stored \ erases # {}

(* The replay of a game that is over has its moves in order, one more in   *)
(* each state, and without increments no player's clock is ever turned     *)
(* back, though the game was adjourned and resumed in between.             *)
ReplayFollows ==
  \A id \in DOMAIN over :
    LET states == fetchGame(id)
        shown(i) == "time" \in DOMAIN states[i]
    IN /\ \A i \in DOMAIN states : states[i].moves = [n \in 1..(i - 1) |-> [move |-> n]]
       /\ \A i, j \in DOMAIN states :
            shown(i) /\ shown(j) /\ i < j /\ (i = 1 \/ i % 2 = j % 2) =>
              states[j].time <= states[i].time

AdjournedKept == ResumedAsLeft /\ GamesKept /\ ReplayFollows
=============================================================================
