---------------------------- MODULE GameRegistry ----------------------------
(***************************************************************************)
(* What ServerCore promises to the rest of the server about users and      *)
(* games, without its threads, queues and rooms (src/src/ServerCore.cc).   *)
(*                                                                         *)
(* users_status is the map ServerCore keeps under a read/write lock; a     *)
(* user that is not in the map has the default status of UserStatus.hh.    *)
(* games is the abstract life of every Game object: "new" until createGame *)
(* takes its players, "live" until endGame gives them back, then "ended".  *)
(* Each action below is one critical section of that lock.                 *)
(***************************************************************************)
EXTENDS Integers, FiniteSets

CONSTANTS
  Jid,    \* full Jids of the users
  Game    \* Game objects that are ever created; bounds the number of games

(* What the proofs assume: without it a number of games need not exist.   *)
FiniteRegistry == IsFiniteSet(Jid) /\ IsFiniteSet(Game)

VARIABLES
  users_status,   \* Jid -> UserStatus
  games           \* Game -> its phase and its players

vars == <<users_status, games>>

UserStatus == [available : BOOLEAN, games_playing : Nat, multigame : BOOLEAN]

GameInfo == [phase : {"new", "live", "ended"}, players : SUBSET Jid]

NewStatus == [available |-> FALSE, games_playing |-> 0, multigame |-> FALSE]

CanPlay(status) ==
  status.available /\ (status.games_playing <= 0 \/ status.multigame)

(* The games that hold u: counted in u's games_playing since createGame.   *)
LiveGames(u) == {g \in Game : games[g].phase = "live" /\ u \in games[g].players}

-----------------------------------------------------------------------------

Init ==
  /\ users_status = [u \in Jid |-> NewStatus]
  /\ games = [g \in Game |-> [phase |-> "new", players |-> {}]]

(* handlePresence: the games being played stay counted whatever the user   *)
(* announces; only an available presence can carry the multigame flag.     *)
SetPresence(u, available, multigame) ==
  /\ multigame => available
  /\ users_status' = [users_status EXCEPT ![u].available = available,
                                          ![u].multigame = multigame]
  /\ UNCHANGED games

AllCanPlay(players) == \A u \in players : CanPlay(users_status[u])

(* status->find(...)->games_playing++ or -- for each player of a game.     *)
AddGames(players, n) ==
  users_status' = [u \in Jid |->
    IF u \in players
    THEN [users_status[u] EXCEPT !.games_playing = @ + n]
    ELSE users_status[u]]

CreateGame(g, players) ==
  /\ games[g].phase = "new"
  /\ AllCanPlay(players)
  /\ AddGames(players, 1)
  /\ games' = [games EXCEPT ![g] = [phase |-> "live", players |-> players]]

EndGame(g) ==
  /\ games[g].phase = "live"
  /\ AddGames(games[g].players, -1)
  /\ games' = [games EXCEPT ![g].phase = "ended"]

Next ==
  \/ \E u \in Jid, available, multigame \in BOOLEAN :
        SetPresence(u, available, multigame)
  \/ \E g \in Game, players \in SUBSET Jid : CreateGame(g, players)
  \/ \E g \in Game : EndGame(g)

Spec == Init /\ [][Next]_vars

-----------------------------------------------------------------------------

(* Every variable has its type: in particular games_playing, an int that   *)
(* _endGame decrements without a test, never goes below zero.              *)
TypeOK ==
  /\ users_status \in [Jid -> UserStatus]
  /\ games \in [Game -> GameInfo]

(* The counter createGame increments and _endGame decrements is exact: it  *)
(* is the number of live games of the user, through any interleaving of    *)
(* presences, creations and ends.  A lost update would lock a user out of  *)
(* playing for ever, or let a single-game user play twice.                 *)
CountsExact ==
  \A u \in Jid : users_status[u].games_playing = Cardinality(LiveGames(u))

(* A user enters a game only while available, and enters a second one only *)
(* after announcing multigame (the check at the head of createGame).       *)
NoSecondGame ==
  [][\A u \in Jid :
        LiveGames(u)' \ LiveGames(u) # {} =>
          /\ users_status[u].available
          /\ LiveGames(u) = {} \/ users_status[u].multigame]_vars

=============================================================================
