------------------------------ MODULE GameChess -------------------------------
(***************************************************************************)
(* A game of chess as its room sees it (src/src/GameChess.cc): whose turn  *)
(* it is, the clocks, and the code of its end, as operators on a record.   *)
(* The board is libchess: of a position only what is tested after a move   *)
(* is kept.  The names of game_end_reason_table stand for the END_CODEs.   *)
(***************************************************************************)
EXTENDS Integers

Color == {"white", "black"}

Opponent(color) == IF color = "white" THEN "black" ELSE "white"

(* What verifyCheckMate and verifyDraw say of the player to move.          *)
Position ==
  {"open", "mate", "repetition", "impossible-mate", "fifty-moves", "stalemate"}

Draws == {"draw-agreement", "draw-repetition", "draw-fifty-moves",
          "draw-impossible-mate", "draw-timeover"}

END_CODE == Draws \cup
  {"no-reason", "white-mated", "black-mated", "stalemate", "white-timeover",
   "black-timeover", "white-resigned", "black-resigned", "white-wo", "black-wo"}

Score == {"win", "lose", "draw"}

Game == [done : END_CODE,
         resign : Color \cup {"none"},      \* _resign
         time_over : Color \cup {"none"},
         time : [Color -> Int], inc : [Color -> Int], \* the clocks, in units of time
         time_of_last_move : Nat,
         turns_restart : Nat,
         turn : Color, position : Position,
         timed : BOOLEAN, auto_flag : BOOLEAN]

(* A new game, or an adjourned one that is resumed: the clocks, increments *)
(* and the player to move are those of the game.                           *)
NewGame(time, inc, turn, timed, auto_flag) ==
  [done |-> "no-reason", resign |-> "none", time_over |-> "none",
   time |-> time, inc |-> inc, time_of_last_move |-> 0, turns_restart |-> 0,
   turn |-> turn, position |-> "open", timed |-> timed, auto_flag |-> auto_flag]

-----------------------------------------------------------------------------

(* The time a player has left at time t.                                   *)
TimeLeft(game, color, t) ==
  game.time[color] - (IF game.turn = color THEN t - game.time_of_last_move ELSE 0)

(* The clocks are looked at from the third move after a start or a resume. *)
FallenFlags(game, t) ==
  {color \in Color :
     game.timed /\ game.turns_restart >= 2 /\ TimeLeft(game, color, t) <= 0}

TimeOver(color) == IF color = "white" THEN "white-timeover" ELSE "black-timeover"

CheckTimeOver(game, t) ==
  LET fallen == FallenFlags(game, t) IN
    IF fallen = {} THEN game
    ELSE [game EXCEPT
      !.time_over = IF "black" \in fallen THEN "black" ELSE "white",
      !.done = CASE fallen = Color -> "draw-timeover"
                 [] fallen = {"white"} -> TimeOver("white")
                 [] fallen = {"black"} -> TimeOver("black")]

(* done() sets the end code when a flag has fallen.                        *)
SeeTime(game, t) ==
  IF game.done = "no-reason" /\ game.auto_flag THEN CheckTimeOver(game, t) ELSE game

(* realDone, called when turn is already the player who has to reply.      *)
EndOfPosition(turn, position, auto_flag) ==
  CASE position = "mate" -> IF turn = "white" THEN "black-mated" ELSE "white-mated"
    [] position = "repetition" /\ auto_flag -> "draw-repetition"
    [] position = "impossible-mate" /\ auto_flag -> "draw-impossible-mate"
    [] position = "fifty-moves" /\ auto_flag -> "draw-fifty-moves"
    [] position = "stalemate" /\ auto_flag -> "stalemate"
    [] OTHER -> "no-reason"

(* move throws time_over before it looks at the move.                      *)
MoveTooLate(game, t) == game.auto_flag /\ FallenFlags(game, t) # {}

(* Some move of color is valid.                                            *)
MayMove(game, color) ==
  /\ game.done = "no-reason"
  /\ game.turn = color
  /\ game.position \notin {"mate", "stalemate"}

(* Mutant: the increment is taken away from the clock.                     *)
MoveAgainstIncrement(game, color, position, t) ==
  [game EXCEPT
    !.turn = Opponent(color),
    !.position = position,
    !.done = EndOfPosition(Opponent(color), position, game.auto_flag),
    !.time[color] = IF game.timed /\ game.turns_restart >= 2
                    THEN @ - (t - game.time_of_last_move) - game.inc[color] ELSE @,
    !.time_of_last_move = IF game.timed THEN t ELSE @,
    !.turns_restart = IF game.timed THEN @ + 1 ELSE @]

(* A valid move of color that leads to position.                           *)
Move(game, color, position, t) ==
  [game EXCEPT
    !.turn = Opponent(color),
    !.position = position,
    !.done = EndOfPosition(Opponent(color), position, game.auto_flag),
    !.time[color] = IF game.timed /\ game.turns_restart >= 2
                    THEN @ - (t - game.time_of_last_move) + game.inc[color] ELSE @,
    !.time_of_last_move = IF game.timed THEN t ELSE @,
    !.turns_restart = IF game.timed THEN @ + 1 ELSE @]

Resign(game, color) ==
  [game EXCEPT !.resign = color,
               !.done = IF color = "white" THEN "white-resigned" ELSE "black-resigned"]

(* The code is the winner's; only the first absent player is looked at.    *)
Wo(game, absent) ==
  [game EXCEPT !.done = IF absent = "white" THEN "black-wo" ELSE "white-wo"]

Draw(game) == [game EXCEPT !.done = "draw-agreement"]

-----------------------------------------------------------------------------

(* Chess::winner *)
WinnerOnBoard(game) ==
  IF game.position = "mate" THEN Opponent(game.turn) ELSE "none"

WhiteWon(game) ==
  \/ game.resign = "black"
  \/ WinnerOnBoard(game) = "white"
  \/ game.timed /\ game.time_over = "black"
  \/ game.done = "white-wo"

(* Mutant: losing on time is not looked at.                                *)
ResultWithoutTime(game) ==
  IF game.done \in Draws THEN [color \in Color |-> "draw"]
  ELSE IF game.resign = "black" \/ WinnerOnBoard(game) = "white"
            \/ game.done = "white-wo"
    THEN [white |-> "win", black |-> "lose"]
    ELSE [white |-> "lose", black |-> "win"]

(* donePlayerResultList, of a game that is over.  Codes 8 to 12 are draws. *)
Result(game) ==
  IF game.done \in Draws THEN [color \in Color |-> "draw"]
  ELSE IF WhiteWon(game) THEN [white |-> "win", black |-> "lose"]
  ELSE [white |-> "lose", black |-> "win"]

=============================================================================
