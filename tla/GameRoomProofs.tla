---------------------------- MODULE GameRoomProofs ----------------------------
(***************************************************************************)
(* Proofs about GameRoom: for any start times, increments, bounds and      *)
(* spectators, a game ends once, with scores that agree with the reason it *)
(* gives, a flag falls for a cause and never two of them unless both began *)
(* without time, and only who is away is blamed for being away.            *)
(***************************************************************************)
EXTENDS GameRoom, SequenceTheorems, TLAPS

-----------------------------------------------------------------------------
(* The game.                                                               *)

(* Nothing has decided the game yet.                                       *)
Undecided(g) ==
  /\ g.done = "no-reason"
  /\ g.resign = "none"
  /\ g.time_over = "none"
  /\ g.position # "mate"

(* What the clocks may show when they are looked at: either the game is    *)
(* being played, or a move has just been made, and the clocks without time *)
(* are those that began so or that of the player who paid for the move.    *)
JustMoved(g, t) ==
  /\ g.timed => g.time_of_last_move = t
  /\ g.timed /\ g.auto_flag /\ g.turns_restart >= 2 =>
       \A p \in Color : g.time[p] <= 0 =>
         \/ g.turns_restart = 2
         \/ g.turn = Opponent(p) /\ g.inc[p] < 0 /\ g.time[Opponent(p)] > 0

Looked(g, t) == ClocksRun(g) \/ JustMoved(g, t)

(* The scores of a game that is over agree with its end code.              *)
ScoresAgree(g) ==
  LET loser == LoserOf(g.done) IN
    /\ loser # "none" => Result(g)[loser] = "lose" /\ Result(g)[Opponent(loser)] = "win"
    /\ g.done \in Draws => \A p \in Color : Result(g)[p] = "draw"

LEMMA ResultType ==
  ASSUME NEW g \in Game
  PROVE  Result(g) \in [Color -> Score]
BY DEF Result, Score, Color

(* Two records of a game with the same clocks and player to move.          *)
SameClocks(g, g2) ==
  /\ g2.timed = g.timed /\ g2.auto_flag = g.auto_flag
  /\ g2.turns_restart = g.turns_restart /\ g2.turn = g.turn
  /\ g2.time = g.time /\ g2.inc = g.inc

LEMMA OneFell ==
  ASSUME NEW g, NEW g2, NEW p \in Color, SameClocks(g, g2), g2.done = TimeOver(p),
         g.timed, g.auto_flag, g.turns_restart >= 2, g.time[Opponent(p)] > 0,
         \/ g.turn = p /\ g.time[p] > 0
         \/ g.turn = Opponent(p) /\ g.inc[p] < 0
         \/ g.turns_restart = 2 /\ g.time[p] <= 0
  PROVE  FlagsFell(g2)
<1>1. g2.done # "draw-timeover" /\ \A q \in Color : g2.done = TimeOver(q) => q = p
  BY DEF TimeOver, Color
<1>2. MayFall(g2, p)
  BY DEF MayFall, SameClocks
<1> QED BY <1>1, <1>2 DEF FlagsFell, SameClocks

LEMMA OneFallen ==
  ASSUME NEW g \in Game, NEW t \in Nat, NEW g2, NEW p \in Color, SameClocks(g, g2),
         g.auto_flag, Looked(g, t), g2.done = TimeOver(p),
         p \in FallenFlags(g, t), Opponent(p) \notin FallenFlags(g, t)
  PROVE  FlagsFell(g2)
<1> DEFINE q == Opponent(p)
<1>1. q \in Color /\ q # p /\ Opponent(q) = p /\ Color = {p, q}
  BY DEF Opponent, Color
<1>2. /\ g.timed /\ g.turns_restart >= 2 /\ TimeLeft(g, p, t) <= 0
      /\ ~(TimeLeft(g, q, t) <= 0)
  BY <1>1 DEF FallenFlags
<1>3. /\ g.time[p] \in Int /\ g.time[q] \in Int /\ g.time_of_last_move \in Nat
      /\ g.turns_restart \in Nat /\ g.turn \in {p, q}
  BY <1>1 DEF Game
<1>4. CASE ClocksRun(g)
  <2>1. g.time[p] > 0 /\ g.time[q] > 0
    BY <1>1, <1>2, <1>4 DEF ClocksRun
  <2>2. g.turn = p
    BY <1>1, <1>2, <1>3, <2>1 DEF TimeLeft
  <2> QED BY <1>2, <2>1, <2>2, OneFell
<1>5. CASE JustMoved(g, t)
  <2>1. g.time_of_last_move = t
    BY <1>2, <1>5 DEF JustMoved
  <2>2. g.time[p] <= 0 /\ g.time[q] > 0
    BY <1>1, <1>2, <1>3, <2>1 DEF TimeLeft
  <2>3. g.turns_restart = 2 \/ (g.turn = q /\ g.inc[p] < 0)
    BY <1>2, <1>5, <2>2 DEF JustMoved
  <2> QED BY <1>2, <2>2, <2>3, OneFell
<1> QED BY <1>4, <1>5 DEF Looked

LEMMA BothFallen ==
  ASSUME NEW g \in Game, NEW t \in Nat, NEW g2, SameClocks(g, g2),
         g.auto_flag, Looked(g, t), g2.done = "draw-timeover", FallenFlags(g, t) = Color
  PROVE  FlagsFell(g2)
<1>1. \A p \in Color : g.timed /\ g.turns_restart >= 2 /\ TimeLeft(g, p, t) <= 0
  BY DEF FallenFlags
<1>2. /\ \A p \in Color : g.time[p] \in Int
      /\ g.time_of_last_move \in Nat /\ g.turns_restart \in Nat /\ g.turn \in Color
  BY DEF Game
<1>3. g.timed /\ g.turns_restart >= 2
  BY <1>1 DEF Color
<1>4. ~ClocksRun(g)
  <2>1. PICK p \in Color : g.turn # p
    BY DEF Color
  <2>2. ~(g.time[p] > 0)
    BY <1>1, <1>2, <2>1 DEF TimeLeft
  <2> QED BY <1>3, <2>2 DEF ClocksRun
<1>5. JustMoved(g, t) /\ g.time_of_last_move = t
  BY <1>3, <1>4 DEF Looked, JustMoved
<1>6. ASSUME NEW p \in Color PROVE g.time[p] <= 0
  <2>1. g.time[p] \in Int /\ TimeLeft(g, p, t) <= 0
    BY <1>1, <1>2
  <2> QED BY <1>2, <1>5, <2>1 DEF TimeLeft
<1>7. g.turns_restart = 2
  <2>1. /\ "white" \in Color /\ Opponent("white") \in Color
        /\ g.time["white"] <= 0 /\ ~(g.time[Opponent("white")] > 0)
    BY <1>2, <1>6 DEF Color, Opponent
  <2> QED BY <1>3, <1>5, <2>1 DEF JustMoved
<1>8. \A p \in Color : TimeOver(p) # "draw-timeover"
  BY DEF TimeOver
<1> QED BY <1>3, <1>6, <1>7, <1>8 DEF FlagsFell, SameClocks

(* A look that sees no flag down finds the clocks above zero.              *)
LEMMA StillRunning ==
  ASSUME NEW g \in Game, NEW t \in Nat, Looked(g, t), FallenFlags(g, t) = {}
  PROVE  ClocksRun(g)
<1> SUFFICES ASSUME JustMoved(g, t), g.timed, g.turns_restart >= 2, NEW p \in Color
             PROVE  g.time[p] > 0
  BY DEF Looked, ClocksRun
<1>1. g.time_of_last_move = t /\ g.time[p] \in Int
  BY DEF JustMoved, Game
<1>2. ~(TimeLeft(g, p, t) <= 0)
  BY DEF FallenFlags
<1> QED BY <1>1, <1>2 DEF TimeLeft

(* A look at the clocks decides an undecided game or leaves it alone.      *)
LEMMA CheckTimeOverFacts ==
  ASSUME NEW g \in Game, NEW t \in Nat, Undecided(g)
  PROVE  /\ CheckTimeOver(g, t) \in Game
         /\ FallenFlags(g, t) = {} => CheckTimeOver(g, t) = g
         /\ FallenFlags(g, t) # {} =>
              /\ CheckTimeOver(g, t).done # "no-reason"
              /\ ScoresAgree(CheckTimeOver(g, t))
              /\ g.auto_flag /\ Looked(g, t) => FlagsFell(CheckTimeOver(g, t))
<1> DEFINE fallen == FallenFlags(g, t)
           g2 == CheckTimeOver(g, t)
<1>1. fallen \in SUBSET Color
  BY DEF FallenFlags
<1>2. fallen \in {{}, {"white"}, {"black"}, Color}
  BY <1>1 DEF Color
<1>3. CASE fallen = {}
  BY <1>3 DEF CheckTimeOver
<1>4. CASE fallen = {"white"}
  <2>1. g2 = [g EXCEPT !.time_over = "white", !.done = "white-timeover"]
    BY <1>4 DEF CheckTimeOver, TimeOver, Color
  <2>2. g2 \in Game /\ g2.done = "white-timeover"
    BY <2>1 DEF Game, Color, END_CODE
  <2>3. /\ g2.resign = "none" /\ g2.time_over = "white" /\ g2.position # "mate"
        /\ SameClocks(g, g2)
    BY <2>1 DEF Game, Undecided, SameClocks
  <2>4. ScoresAgree(g2)
    BY <2>2, <2>3 DEF ScoresAgree, LoserOf, Result, WhiteWon, WinnerOnBoard, Opponent, Draws
  <2>5. g.auto_flag /\ Looked(g, t) => FlagsFell(g2)
    <3>1. "white" \in fallen /\ "black" \notin fallen
      BY <1>4
    <3> HIDE DEF g2, fallen
    <3> QED BY <2>2, <2>3, <3>1, OneFallen DEF Color, Opponent, TimeOver, fallen
  <2> QED BY <1>4, <2>2, <2>4, <2>5
<1>5. CASE fallen = {"black"}
  <2>0. fallen # {} /\ fallen # Color /\ fallen # {"white"} /\ "black" \in fallen
    BY <1>5 DEF Color
  <2>1. g2 = [g EXCEPT !.time_over = "black", !.done = "black-timeover"]
    BY <1>5, <2>0 DEF CheckTimeOver, TimeOver
  <2>2. g2 \in Game /\ g2.done = "black-timeover"
    BY <2>1 DEF Game, Color, END_CODE
  <2>3. /\ g2.resign = "none" /\ g2.time_over = "black" /\ g2.position # "mate" /\ g2.timed
        /\ SameClocks(g, g2)
    BY <2>0, <2>1 DEF Game, Undecided, FallenFlags, SameClocks
  <2>4. ScoresAgree(g2)
    BY <2>2, <2>3 DEF ScoresAgree, LoserOf, Result, WhiteWon, WinnerOnBoard, Opponent, Draws
  <2>5. g.auto_flag /\ Looked(g, t) => FlagsFell(g2)
    <3>1. "black" \in fallen /\ "white" \notin fallen
      BY <1>5
    <3> HIDE DEF g2, fallen
    <3> QED BY <2>2, <2>3, <3>1, OneFallen DEF Color, Opponent, TimeOver, fallen
  <2> QED BY <2>0, <2>2, <2>4, <2>5
<1>6. CASE fallen = Color
  <2>0. fallen \notin {{}, {"white"}, {"black"}} /\ "black" \in fallen
    BY <1>6 DEF Color
  <2>1. g2 = [g EXCEPT !.time_over = "black", !.done = "draw-timeover"]
    BY <1>6, <2>0 DEF CheckTimeOver
  <2>2. g2 \in Game /\ g2.done = "draw-timeover"
    BY <2>1 DEF Game, Color, END_CODE, Draws
  <2>3. ScoresAgree(g2)
    BY <2>2 DEF ScoresAgree, LoserOf, Result, Draws, Color
  <2>4. g.auto_flag /\ Looked(g, t) => FlagsFell(g2)
    <3>1. SameClocks(g, g2)
      BY <2>1 DEF Game, SameClocks
    <3> HIDE DEF g2
    <3> QED BY <1>6, <2>2, <3>1, BothFallen
  <2> QED BY <2>0, <2>2, <2>3, <2>4
<1> QED BY <1>2, <1>3, <1>4, <1>5, <1>6

(* The end code of g says how it ended; the scores and the clocks agree    *)
(* with it.                                                                *)
Decided(g) == g.done # "no-reason" /\ ScoresAgree(g) /\ FlagsFell(g)

LEMMA SeeTimeFacts ==
  ASSUME NEW g \in Game, NEW t \in Nat,
         (Undecided(g) /\ Looked(g, t)) \/ Decided(g)
  PROVE  /\ SeeTime(g, t) \in Game
         /\ \/ Undecided(g) /\ SeeTime(g, t) = g /\ ClocksRun(g)
            \/ Decided(SeeTime(g, t))
<1>1. CASE Undecided(g) /\ Looked(g, t) /\ g.auto_flag
  <2>1. SeeTime(g, t) = CheckTimeOver(g, t)
    BY <1>1 DEF SeeTime, Undecided
  <2>2. FallenFlags(g, t) = {} => ClocksRun(g)
    BY <1>1, StillRunning
  <2> QED BY <1>1, <2>1, <2>2, CheckTimeOverFacts DEF Decided
<1>2. CASE Undecided(g) /\ ~g.auto_flag
  BY <1>2 DEF SeeTime, ClocksRun
<1>3. CASE Decided(g)
  BY <1>3 DEF SeeTime, Decided
<1> QED BY <1>1, <1>2, <1>3

(* A move in time leaves the clock of its player above zero, unless the    *)
(* increment takes it away, whatever the moves it counts from, and ends    *)
(* the game when it mates.                                                 *)
LEMMA MoveFacts ==
  ASSUME NEW g \in Game, NEW p \in Color, NEW position \in Position, NEW t \in Nat,
         Undecided(g), ClocksRun(g), g.turn = p, ~MoveTooLate(g, t)
  PROVE  /\ Move(g, p, position, t) \in Game
         /\ \/ Undecided(Move(g, p, position, t)) /\ Looked(Move(g, p, position, t), t)
            \/ Decided(Move(g, p, position, t))
<1> DEFINE g2 == Move(g, p, position, t)
           end == EndOfPosition(Opponent(p), position, g.auto_flag)
           left == IF g.timed /\ g.turns_restart >= 2
                   THEN g.time[p] - (t - g.time_of_last_move) + g.inc[p] ELSE g.time[p]
           last == IF g.timed THEN t ELSE g.time_of_last_move
           turns == IF g.timed THEN g.turns_restart + 1 ELSE g.turns_restart
<1>1. end \in END_CODE /\ Opponent(p) \in Color
  BY DEF EndOfPosition, END_CODE, Draws, Position, Opponent, Color
<1>2. left \in Int
  BY DEF Game
<1>3. /\ g2 \in Game
      /\ g2.done = end /\ g2.position = position
      /\ g2.resign = "none" /\ g2.time_over = "none"
      /\ g2.time = [g.time EXCEPT ![p] = left] /\ g2.inc = g.inc
      /\ g2.timed = g.timed /\ g2.auto_flag = g.auto_flag
      /\ g2.turn = Opponent(p) /\ g2.time_of_last_move = last /\ g2.turns_restart = turns
  <2> DEFINE time == [g.time EXCEPT ![p] = left]
  <2>1. g2 = [g EXCEPT !.turn = Opponent(p), !.position = position, !.done = end,
                       !.time = time, !.time_of_last_move = last,
                       !.turns_restart = turns]
    <3> HIDE DEF end
    <3> QED BY DEF Move, Game, end
  <2>2. time \in [Color -> Int] /\ last \in Nat /\ turns \in Nat
    <3> HIDE DEF left
    <3> QED BY <1>2 DEF Game
  <2> HIDE DEF g2, end, last, turns, time
  <2>3. /\ g2.done = end /\ g2.position = position
        /\ g2.resign = "none" /\ g2.time_over = "none"
        /\ g2.time = time /\ g2.inc = g.inc
        /\ g2.timed = g.timed /\ g2.auto_flag = g.auto_flag
        /\ g2.turn = Opponent(p) /\ g2.time_of_last_move = last /\ g2.turns_restart = turns
    BY <2>1 DEF Game, Undecided
  <2>4. g2 \in Game
    BY <1>1, <2>1, <2>2 DEF Game
  <2> QED BY <2>3, <2>4 DEF time
<1>4. JustMoved(g2, t)
  <2>1. g2.timed => g2.time_of_last_move = t
    BY <1>3
  <2>2. ASSUME g2.timed, g2.auto_flag, g2.turns_restart >= 2, NEW q \in Color, g2.time[q] <= 0
        PROVE  \/ g2.turns_restart = 2
               \/ g2.turn = Opponent(q) /\ g2.inc[q] < 0 /\ g2.time[Opponent(q)] > 0
    <3> SUFFICES ASSUME g2.turns_restart # 2
                 PROVE  g2.turn = Opponent(q) /\ g2.inc[q] < 0 /\ g2.time[Opponent(q)] > 0
      OBVIOUS
    <3>1. g.timed /\ g.auto_flag /\ g.turns_restart \in Nat /\ g.turns_restart + 1 >= 2
            /\ g.turns_restart + 1 # 2
      BY <1>3, <2>2 DEF Game
    <3>2. g.turns_restart >= 2
      BY <3>1
    <3>3. /\ \A c \in Color : g.time[c] > 0
          /\ FallenFlags(g, t) = {}
      BY <3>1, <3>2 DEF ClocksRun, MoveTooLate
    <3>4. ~(TimeLeft(g, p, t) <= 0)
      BY <3>1, <3>2, <3>3 DEF FallenFlags
    <3>5. /\ g.time[p] \in Int /\ g.inc[p] \in Int /\ g.time_of_last_move \in Nat
          /\ g.time[p] - (t - g.time_of_last_move) > 0
      BY <3>4 DEF Game, TimeLeft
    <3>6. left = g.time[p] - (t - g.time_of_last_move) + g.inc[p]
      BY <3>1, <3>2
    <3>7. /\ g2.time[p] = left
          /\ \A c \in Color : c # p => g2.time[c] = g.time[c]
      <4> HIDE DEF g2, left
      <4> QED BY <1>3 DEF Game
    <3>8. q = p
      BY <2>2, <3>3, <3>7 DEF Game
    <3>9. g.inc[p] < 0
      BY <2>2, <3>5, <3>6, <3>7, <3>8
    <3>10. g2.time[Opponent(p)] > 0
      BY <3>3, <3>7 DEF Opponent, Color
    <3> HIDE DEF g2
    <3> QED BY <1>3, <3>8, <3>9, <3>10
  <2> HIDE DEF g2
  <2> QED BY <2>1, <2>2 DEF JustMoved
<1>5. Undecided(g2) \/ Decided(g2)
  <2>1. CASE end = "no-reason"
    <3>1. position # "mate"
      BY <2>1 DEF EndOfPosition
    <3> QED BY <1>3, <2>1, <3>1 DEF Undecided
  <2>2. CASE end # "no-reason"
    <3>1. LoserOf(end) = "none"
      BY DEF EndOfPosition, LoserOf
    <3>2. end \in Draws => \A q \in Color : Result(g2)[q] = "draw"
      BY <1>3 DEF Result
    <3>3. FlagsFell(g2)
      <4>1. /\ end # "draw-timeover" /\ end # "white-timeover" /\ end # "black-timeover"
        BY DEF EndOfPosition
      <4> HIDE DEF end, g2
      <4> QED BY <1>3, <4>1 DEF FlagsFell, TimeOver
    <3> QED BY <1>3, <2>2, <3>1, <3>2, <3>3 DEF Decided, ScoresAgree
  <2> QED BY <2>1, <2>2
<1> QED BY <1>3, <1>4, <1>5 DEF Looked

LEMMA ResignFacts ==
  ASSUME NEW g \in Game, NEW p \in Color, Undecided(g)
  PROVE  Resign(g, p) \in Game /\ Decided(Resign(g, p))
<1> DEFINE g2 == Resign(g, p)
<1>1. g2 \in Game
  BY DEF Resign, Game, Color, END_CODE
<1>2. /\ g2.resign = p /\ g2.time_over = "none" /\ g2.position # "mate"
      /\ g2.done = IF p = "white" THEN "white-resigned" ELSE "black-resigned"
  BY DEF Resign, Game, Undecided
<1>3. Decided(g2)
  <2> HIDE DEF g2
  <2>1. p = "white" => ScoresAgree(g2)
    BY <1>2 DEF ScoresAgree, LoserOf, Result, WhiteWon, WinnerOnBoard, Opponent, Draws
  <2>2. p = "black" => ScoresAgree(g2)
    BY <1>2 DEF ScoresAgree, LoserOf, Result, WhiteWon, WinnerOnBoard, Opponent, Draws
  <2>3. g2.done # "no-reason" /\ FlagsFell(g2)
    BY <1>2 DEF FlagsFell, TimeOver
  <2> QED BY <2>1, <2>2, <2>3 DEF Decided, Color
<1> QED BY <1>1, <1>3

LEMMA WoFacts ==
  ASSUME NEW g \in Game, NEW p \in Color, Undecided(g)
  PROVE  Wo(g, p) \in Game /\ Decided(Wo(g, p))
<1> DEFINE g2 == Wo(g, p)
<1>1. g2 \in Game
  BY DEF Wo, Game, Color, END_CODE
<1>2. /\ g2.resign = "none" /\ g2.time_over = "none" /\ g2.position # "mate"
      /\ g2.done = IF p = "white" THEN "black-wo" ELSE "white-wo"
  BY DEF Wo, Game, Undecided
<1>3. Decided(g2)
  <2> HIDE DEF g2
  <2>1. p = "white" => ScoresAgree(g2)
    BY <1>2 DEF ScoresAgree, LoserOf, Result, WhiteWon, WinnerOnBoard, Opponent, Draws
  <2>2. p = "black" => ScoresAgree(g2)
    BY <1>2 DEF ScoresAgree, LoserOf, Result, WhiteWon, WinnerOnBoard, Opponent, Draws
  <2>3. g2.done # "no-reason" /\ FlagsFell(g2)
    BY <1>2 DEF FlagsFell, TimeOver
  <2> QED BY <2>1, <2>2, <2>3 DEF Decided, Color
<1> QED BY <1>1, <1>3

LEMMA DrawFacts ==
  ASSUME NEW g \in Game, Undecided(g)
  PROVE  Draw(g) \in Game /\ Decided(Draw(g))
<1>1. Draw(g) \in Game /\ Draw(g).done = "draw-agreement"
  BY DEF Draw, Game, END_CODE, Draws
<1>2. FlagsFell(Draw(g))
  BY <1>1 DEF FlagsFell, TimeOver
<1> QED
  BY <1>1, <1>2 DEF Decided, ScoresAgree, LoserOf, Result, Draws

-----------------------------------------------------------------------------
(* The end of the game in the room.                                        *)

(* The game and what was reported of it.  ActiveNotDone and OneFlagFalls   *)
(* are parts of it; the scores agree with the reason only because nothing  *)
(* has decided the game while it is active.                                *)
GameInv ==
  /\ game \in Game
  /\ game_active \in BOOLEAN
  /\ ends \in Seq(End)
  /\ EndedOnce
  /\ ScoresMatchReason
  /\ game_active => Undecided(game) /\ ClocksRun(game)
  /\ FlagsFell(game)

LEMMA AddEndInv ==
  ASSUME GameInv, game_active,
         NEW type \in EndType, NEW reason \in Reason,
         NEW scores \in [Color -> Score \cup {"none"}],
         NEW stored \in {"result", "adjourned", "nothing"},
         NEW g \in Game, FlagsFell(g),
         type = "normal" => reason = g.done /\ scores = Result(g) /\ Decided(g),
         AddEnd(type, reason, scores, stored, g)
  PROVE  GameInv'
<1> DEFINE end == [type |-> type, reason |-> reason, scores |-> scores,
                   stored |-> stored]
<1>1. ends = <<>>
  BY EmptySeq DEF GameInv, EndedOnce
<1>2. end \in End
  BY DEF End
<1>3. ends' = <<end>> /\ game' = g /\ game_active' = FALSE
  BY <1>1 DEF AddEnd
<1>4. ends' \in Seq(End) /\ Len(ends') = 1 /\ DOMAIN ends' = {1} /\ ends'[1] = end
  <2> HIDE DEF end
  <2> QED BY <1>2, <1>3
<1>5. ScoresMatchReason'
  <2> SUFFICES ASSUME end.type = "normal"
               PROVE  LET loser == LoserOf(end.reason) IN
                        /\ loser # "none" =>
                             end.scores[loser] = "lose"
                               /\ end.scores[Opponent(loser)] = "win"
                        /\ end.reason \in Draws => \A p \in Color : end.scores[p] = "draw"
    BY <1>4 DEF ScoresMatchReason
  <2> QED BY DEF Decided, ScoresAgree
<1>6. EndedOnce'
  BY <1>3, <1>4 DEF EndedOnce
<1> QED BY <1>3, <1>4, <1>5, <1>6 DEF GameInv

LEMMA EndNormalInv ==
  ASSUME GameInv, game_active, NEW g \in Game, Decided(g), EndNormal(g)
  PROVE  GameInv'
<1>1. g.done \in Reason /\ Result(g) \in [Color -> Score \cup {"none"}]
  BY ResultType DEF Reason, Game
<1> QED BY <1>1, AddEndInv DEF EndNormal, EndType, Decided

LEMMA EndOtherwiseInv ==
  ASSUME GameInv, game_active
  PROVE  /\ \A reason \in Reason : EndCanceled(reason, game) => GameInv'
         /\ \A reason \in Reason : EndAdjourned(reason, game) => GameInv'
<1>1. game \in Game /\ FlagsFell(game)
  BY DEF GameInv
<1>2. NoScores \in [Color -> Score \cup {"none"}]
  BY DEF NoScores
<1>3. ASSUME NEW reason \in Reason, EndCanceled(reason, game)
      PROVE  GameInv'
  BY <1>1, <1>2, <1>3, AddEndInv DEF EndCanceled, EndType
<1>4. ASSUME NEW reason \in Reason, EndAdjourned(reason, game)
      PROVE  GameInv'
  <2> DEFINE stored == IF game.done = "no-reason" THEN "adjourned" ELSE "nothing"
  <2>1. AddEnd("adjourned", reason, NoScores, stored, game)
    BY <1>4 DEF EndAdjourned
  <2>2. stored \in {"result", "adjourned", "nothing"} /\ "adjourned" \in EndType
    BY DEF EndType
  <2> HIDE DEF stored
  <2> QED BY <1>1, <1>2, <2>1, <2>2, AddEndInv
<1> QED BY <1>3, <1>4

LEMMA KeptGameInv ==
  ASSUME GameInv, KeepGame
  PROVE  GameInv'
BY DEF GameInv, KeepGame, EndedOnce, ScoresMatchReason

LEMMA GoOnInv ==
  ASSUME GameInv, game_active, now \in Nat,
         NEW g \in Game, (Undecided(g) /\ Looked(g, now)) \/ Decided(g), GoOn(g)
  PROVE  GameInv'
<1> DEFINE seen == SeeTime(g, now)
<1>1. /\ seen \in Game
      /\ (Undecided(g) /\ seen = g /\ ClocksRun(g)) \/ Decided(seen)
  BY SeeTimeFacts
<1>2. CASE seen.done # "no-reason"
  <2>1. Decided(seen) /\ EndNormal(seen)
    BY <1>1, <1>2 DEF GoOn, Undecided
  <2> QED BY <1>1, <2>1, EndNormalInv
<1>3. CASE seen.done = "no-reason"
  <2>1. /\ Undecided(seen) /\ ClocksRun(seen)
        /\ game' = seen /\ UNCHANGED <<game_active, ends>>
    BY <1>1, <1>3 DEF GoOn, Decided
  <2> HIDE DEF seen
  <2>2. FlagsFell(seen)
    BY <1>3 DEF FlagsFell, TimeOver
  <2> QED BY <1>1, <2>1, <2>2 DEF GameInv, EndedOnce, ScoresMatchReason
<1> QED BY <1>2, <1>3

LEMMA SomebodyIsEarliest ==
  ASSUME player_timeout \in [Color -> Nat]
  PROVE  \E p \in Color : player_timeout[p] = Earliest
<1> DEFINE times == {player_timeout[p] : p \in Color}
<1>1. \E t \in times : \A p \in Color : t <= player_timeout[p]
  <2>1. CASE player_timeout["white"] <= player_timeout["black"]
    BY <2>1 DEF Color
  <2>2. CASE player_timeout["black"] <= player_timeout["white"]
    BY <2>2 DEF Color
  <2> QED BY <2>1, <2>2 DEF Color
<1>2. Earliest \in times
  BY <1>1 DEF Earliest
<1> QED BY <1>2

LEMMA CheckAbsenceInv ==
  ASSUME GameInv, game_active, player_timeout \in [Color -> Nat], CheckAbsence(game)
  PROVE  GameInv'
<1> DEFINE absent == {p \in Color : player_timeout[p] = Earliest}
           loser == CHOOSE p \in absent : TRUE
<1>1. CASE game' = game /\ UNCHANGED <<game_active, ends>>
  BY <1>1, KeptGameInv DEF KeepGame
<1>2. CASE EndCanceled("canceled-timed-out", game)
  BY <1>2, EndOtherwiseInv DEF Reason
<1>3. CASE absent # {} /\ EndNormal(Wo(game, loser))
  <2>1. loser \in Color
    BY <1>3
  <2>2. game \in Game /\ Undecided(game)
    BY DEF GameInv
  <2> HIDE DEF loser
  <2> QED BY <1>3, <2>1, <2>2, WoFacts, EndNormalInv
<1>4. absent # {}
  BY SomebodyIsEarliest
<1> QED BY <1>1, <1>2, <1>3, <1>4 DEF CheckAbsence

-----------------------------------------------------------------------------
(* The room.                                                               *)

RoomInv ==
  /\ now \in 0..MaxTime
  /\ occupants \subseteq Color \cup Spectator
  /\ agreement \in [Request -> SUBSET Color]
  /\ player_timeout \in [Color -> 0..Never]
  /\ check_at \in 0..Never
  /\ stopped \in BOOLEAN
  /\ AbsenceTimed

IInv == RoomInv /\ GameInv

(* Never is later than any time a player may be given.                     *)
LEMMA TimeFacts ==
  /\ Never \in Nat
  /\ \A t \in 0..MaxTime : /\ t \in Nat
                           /\ t + AbsenceLimit \in 0..Never
                           /\ t + AbsenceLimit # Never
                           /\ t + CheckPeriod \in 0..Never
BY RoomAssumption DEF Never

LEMMA InitIInv == Init => IInv
<1> SUFFICES ASSUME Init PROVE IInv
  OBVIOUS
<1>1. RoomInv
  <2>1. 0 \in 0..MaxTime
    BY RoomAssumption
  <2>2. AbsenceLimit \in 0..Never /\ AbsenceLimit # Never /\ CheckPeriod \in 0..Never
    BY RoomAssumption DEF Never
  <2> QED BY <2>1, <2>2 DEF Init, RoomInv, AbsenceTimed
<1>2. PICK time \in [Color -> StartTimes], inc \in [Color -> Incs], turn \in Color,
           timed \in BOOLEAN, auto_flag \in AutoFlags :
        game = NewGame(time, inc, turn, timed, auto_flag)
  BY DEF Init
<1>3. time \in [Color -> Int] /\ inc \in [Color -> Int] /\ auto_flag \in BOOLEAN
  <2>1. StartTimes \subseteq Int /\ AutoFlags \subseteq BOOLEAN /\ Incs \subseteq Int
    BY RoomAssumption
  <2>2. auto_flag \in BOOLEAN
    BY <2>1, Zenon
  <2> QED BY <2>1, <2>2
<1>4. game \in Game
  BY <1>2, <1>3 DEF NewGame, Game, END_CODE, Position
<1>5. Undecided(game) /\ ClocksRun(game) /\ FlagsFell(game)
  <2>1. /\ game.done = "no-reason" /\ game.resign = "none"
        /\ game.time_over = "none" /\ game.position = "open"
        /\ game.turns_restart = 0
    BY <1>2 DEF NewGame
  <2> QED BY <2>1 DEF Undecided, ClocksRun, FlagsFell, TimeOver
<1>6. ends \in Seq(End) /\ Len(ends) = 0 /\ DOMAIN ends = {} /\ game_active = TRUE
  BY EmptySeq DEF Init
<1>7. EndedOnce /\ ScoresMatchReason
  BY <1>6 DEF EndedOnce, ScoresMatchReason
<1> QED BY <1>1, <1>4, <1>5, <1>6, <1>7 DEF IInv, GameInv

(* What an iq of a player leaves of the room.                              *)
LEMMA AgreementInv ==
  ASSUME RoomInv, Rest, agreement' \in [Request -> SUBSET Color]
  PROVE  RoomInv'
BY DEF RoomInv, Rest, AbsenceTimed

LEMMA AgreedType ==
  ASSUME RoomInv, NEW r \in Request, NEW p \in Color, Agreed(r, p)
  PROVE  agreement' \in [Request -> SUBSET Color]
BY DEF RoomInv, Agreed

LEMMA HandleIqInv ==
  ASSUME IInv, NEW p \in Color, HandleIq(p)
  PROVE  IInv'
<1> USE DEF IInv
<1>1. RoomInv /\ GameInv /\ game \in Game /\ now \in Nat
  BY TimeFacts DEF RoomInv, GameInv
<1>2. game_active
  BY DEF HandleIq, HandleMove, HandleResign, HandleDrawAccept, HandleCancelAccept,
         HandleAdjournAccept, HandleDecline, MayPlay
<1>3. Undecided(game) /\ ClocksRun(game) /\ Looked(game, now)
  BY <1>2 DEF GameInv, Looked
<1>4. ASSUME NEW position \in Position, HandleMove(p, position)
      PROVE  IInv'
  <2>1. CASE MoveTooLate(game, now)
    <3>1. /\ CheckTimeOver(game, now) \in Game
          /\ Decided(CheckTimeOver(game, now))
      BY <1>1, <1>3, <2>1, CheckTimeOverFacts DEF MoveTooLate, Decided
    <3>2. EndNormal(CheckTimeOver(game, now)) /\ UNCHANGED agreement /\ Rest
      BY <1>4, <2>1 DEF HandleMove
    <3>3. GameInv'
      BY <1>1, <1>2, <3>1, <3>2, EndNormalInv
    <3> QED BY <1>1, <3>2, <3>3, AgreementInv DEF RoomInv
  <2>2. CASE ~MoveTooLate(game, now)
    <3> DEFINE g == Move(game, p, position, now)
    <3>1. MayMove(game, p) /\ GoOn(g) /\ Agreed("move", p) /\ Rest
      BY <1>4, <2>2 DEF HandleMove
    <3>2. g \in Game /\ ((Undecided(g) /\ Looked(g, now)) \/ Decided(g))
      BY <1>1, <1>3, <2>2, <3>1, MoveFacts DEF MayMove
    <3> HIDE DEF g
    <3>3. GameInv'
      BY <1>1, <1>2, <3>1, <3>2, GoOnInv
    <3> QED BY <1>1, <3>1, <3>3, AgreedType, AgreementInv DEF Request
  <2> QED BY <2>1, <2>2
<1>5. ASSUME HandleResign(p)
      PROVE  IInv'
  <2>1. GoOn(Resign(game, p)) /\ UNCHANGED agreement /\ Rest
    BY <1>5 DEF HandleResign
  <2>2. GameInv'
    BY <1>1, <1>2, <1>3, <2>1, ResignFacts, GoOnInv
  <2> QED BY <1>1, <2>1, <2>2, AgreementInv DEF RoomInv
<1>6. ASSUME HandleDrawAccept(p)
      PROVE  IInv'
  <2>1. /\ Agreed("draw", p) /\ Rest
        /\ GoOn(Draw(game)) \/ GoOn(game)
    BY <1>6 DEF HandleDrawAccept
  <2>2. GameInv'
    BY <1>1, <1>2, <1>3, <2>1, DrawFacts, GoOnInv
  <2> QED BY <1>1, <2>1, <2>2, AgreedType, AgreementInv DEF Request
<1>7. ASSUME HandleCancelAccept(p)
      PROVE  IInv'
  <2>1. /\ Agreed("cancel", p) /\ Rest
        /\ EndCanceled("canceled-agreement", game) \/ GoOn(game)
    BY <1>7 DEF HandleCancelAccept
  <2>2. GameInv'
    BY <1>1, <1>2, <1>3, <2>1, EndOtherwiseInv, GoOnInv DEF Reason
  <2> QED BY <1>1, <2>1, <2>2, AgreedType, AgreementInv DEF Request
<1>8. ASSUME HandleAdjournAccept(p)
      PROVE  IInv'
  <2>1. /\ Agreed("adjourn", p) /\ Rest
        /\ EndAdjourned("adjourned-agreement", game) \/ GoOn(game)
    BY <1>8 DEF HandleAdjournAccept
  <2>2. GameInv'
    BY <1>1, <1>2, <1>3, <2>1, EndOtherwiseInv, GoOnInv DEF Reason
  <2> QED BY <1>1, <2>1, <2>2, AgreedType, AgreementInv DEF Request
<1>9. ASSUME NEW r \in Request, HandleDecline(p, r)
      PROVE  IInv'
  <2>1. agreement' = [agreement EXCEPT ![r] = {}] /\ GoOn(game) /\ Rest
    BY <1>9 DEF HandleDecline
  <2>2. GameInv'
    BY <1>1, <1>2, <1>3, <2>1, GoOnInv
  <2>3. agreement' \in [Request -> SUBSET Color]
    BY <1>1, <2>1 DEF RoomInv
  <2> QED BY <1>1, <2>1, <2>2, <2>3, AgreementInv
<1> QED BY <1>4, <1>5, <1>6, <1>7, <1>8, <1>9 DEF HandleIq

LEMMA PresenceInv ==
  ASSUME IInv, NEW u \in Color \cup Spectator, Enter(u) \/ Leave(u)
  PROVE  IInv'
<1>1. GameInv'
  BY KeptGameInv DEF Enter, Leave, IInv
<1>2. now \in 0..MaxTime /\ Never \in 0..Never
  BY TimeFacts DEF IInv, RoomInv
<1>3. CASE Enter(u)
  <2>1. /\ occupants' = occupants \cup {u}
        /\ player_timeout' = [p \in Color |-> IF p = u THEN Never ELSE player_timeout[p]]
        /\ UNCHANGED <<now, agreement, check_at, stopped>>
    BY <1>3 DEF Enter
  <2>2. AbsenceTimed'
    BY <2>1 DEF AbsenceTimed, IInv, RoomInv
  <2> QED BY <1>1, <1>2, <2>1, <2>2 DEF IInv, RoomInv
<1>4. CASE Leave(u)
  <2> DEFINE until == now + AbsenceLimit
  <2>1. until \in 0..Never /\ until # Never
    BY <1>2, TimeFacts
  <2>2. /\ occupants' = occupants \ {u}
        /\ player_timeout' = [p \in Color |-> IF p = u THEN until ELSE player_timeout[p]]
        /\ UNCHANGED <<now, agreement, check_at, stopped>>
    BY <1>4 DEF Leave
  <2> HIDE DEF until
  <2>3. AbsenceTimed'
    BY <2>1, <2>2 DEF AbsenceTimed, IInv, RoomInv
  <2> QED BY <1>1, <2>1, <2>2, <2>3 DEF IInv, RoomInv
<1> QED BY <1>3, <1>4

LEMMA CheckTimeInv == IInv /\ CheckTime => IInv'
<1> SUFFICES ASSUME IInv, CheckTime PROVE IInv'
  OBVIOUS
<1>1. RoomInv'
  <2>1. check_at' = Never \/ check_at' = now + CheckPeriod
    BY DEF CheckTime
  <2>2. check_at' \in 0..Never
    BY <2>1, TimeFacts DEF IInv, RoomInv
  <2> QED BY <2>2 DEF CheckTime, roomVars, IInv, RoomInv, AbsenceTimed
<1>2. GameInv'
  <2> DEFINE seen == SeeTime(game, now)
  <2>1. GameInv /\ now \in Nat /\ player_timeout \in [Color -> Nat]
    BY TimeFacts DEF IInv, RoomInv
  <2>2. CASE ~game_active
    BY <2>1, <2>2, KeptGameInv DEF CheckTime
  <2>3. CASE game_active
    <3>1. /\ seen \in Game
          /\ seen = game \/ Decided(seen)
          /\ game.done = "no-reason"
      BY <2>1, <2>3, SeeTimeFacts DEF GameInv, Undecided, Looked
    <3>2. CASE seen.done # "no-reason"
      <4>1. EndNormal(seen) /\ Decided(seen)
        BY <2>3, <3>1, <3>2 DEF CheckTime
      <4> QED BY <2>1, <2>3, <3>1, <4>1, EndNormalInv
    <3>3. CASE seen.done = "no-reason"
      <4>1. CheckAbsence(game)
        BY <2>3, <3>1, <3>3 DEF CheckTime, Decided
      <4> QED BY <2>1, <2>3, <4>1, CheckAbsenceInv
    <3> QED BY <3>2, <3>3
  <2> QED BY <2>2, <2>3
<1> QED BY <1>1, <1>2 DEF IInv

LEMMA StopInv == IInv /\ Stop => IInv'
<1> SUFFICES ASSUME IInv, Stop PROVE IInv'
  OBVIOUS
<1>1. GameInv'
  <2>1. CASE game_active
    BY <2>1, EndOtherwiseInv DEF Stop, IInv, Reason
  <2>2. CASE ~game_active
    BY <2>2, KeptGameInv DEF Stop, IInv
  <2> QED BY <2>1, <2>2
<1>2. RoomInv'
  <2> DEFINE until == now + AbsenceLimit
  <2>1. until \in 0..Never /\ until # Never
    BY TimeFacts DEF IInv, RoomInv
  <2>2. /\ occupants' = {} /\ stopped' = TRUE
        /\ player_timeout' = [p \in Color |-> IF p \in occupants THEN until
                                              ELSE player_timeout[p]]
        /\ UNCHANGED <<now, agreement, check_at>>
    BY DEF Stop
  <2> HIDE DEF until
  <2>3. AbsenceTimed'
    BY <2>1, <2>2 DEF AbsenceTimed, IInv, RoomInv
  <2> QED BY <2>1, <2>2, <2>3 DEF IInv, RoomInv
<1> QED BY <1>1, <1>2 DEF IInv

LEMMA NextIInv == IInv /\ [Next]_vars => IInv'
<1> SUFFICES ASSUME IInv, [Next]_vars PROVE IInv'
  OBVIOUS
<1>1. ASSUME NEW u \in Color \cup Spectator, Enter(u) \/ Leave(u)
      PROVE  IInv'
  BY <1>1, PresenceInv
<1>2. ASSUME NEW p \in Color, HandleIq(p)
      PROVE  IInv'
  BY <1>2, HandleIqInv
<1>3. CASE CheckTime
  BY <1>3, CheckTimeInv
<1>4. CASE Stop
  BY <1>4, StopInv
<1>5. CASE Tick
  <2>1. now' \in 0..MaxTime
    BY <1>5, RoomAssumption DEF Tick, IInv, RoomInv
  <2> QED
    BY <1>5, <2>1 DEF Tick, roomVars, IInv, RoomInv, AbsenceTimed, GameInv, EndedOnce,
                      ScoresMatchReason
<1>6. CASE UNCHANGED vars
  BY <1>6 DEF vars, roomVars, IInv, RoomInv, AbsenceTimed, GameInv, EndedOnce,
              ScoresMatchReason
<1> QED BY <1>1, <1>2, <1>3, <1>4, <1>5, <1>6 DEF Next

LEMMA Invariance == Spec => []IInv
BY InitIInv, NextIInv, PTL DEF Spec

-----------------------------------------------------------------------------

(* Every variable keeps its type, for any bounds of the clock and moves.   *)
THEOREM RoomTypeCorrect == Spec => []TypeOK
<1>1. IInv => TypeOK
  BY DEF IInv, RoomInv, GameInv, TypeOK
<1> QED BY <1>1, Invariance, PTL

(* endGame is called once in the life of a room, when the game stops being *)
(* active, and an active game has no end code between two messages.        *)
THEOREM RoomEndsAtOnce == Spec => []EndsAtOnce
<1>1. IInv => EndsAtOnce
  BY DEF IInv, GameInv, EndsAtOnce, ActiveNotDone, Undecided
<1> QED BY <1>1, Invariance, PTL

(* The scores reported with a normal end follow from its reason.           *)
THEOREM RoomScoresMatchReason == Spec => []ScoresMatchReason
<1>1. IInv => ScoresMatchReason
  BY DEF IInv, GameInv
<1> QED BY <1>1, Invariance, PTL

(* The timeout of a player is running exactly while the player is away.    *)
THEOREM RoomAbsenceTimed == Spec => []AbsenceTimed
<1>1. IInv => AbsenceTimed
  BY DEF IInv, RoomInv
<1> QED BY <1>1, Invariance, PTL

(* With the flag on nobody plays on with a clock at zero, and the two      *)
(* flags never fall together but in a game in which both clocks began at   *)
(* zero or below: for any start times and increments, below zero too.      *)
THEOREM RoomOneFlagFalls == Spec => []OneFlagFalls
<1>1. IInv => OneFlagFalls
  BY DEF IInv, GameInv, OneFlagFalls
<1> QED BY <1>1, Invariance, PTL

-----------------------------------------------------------------------------
(* Ends by absence.                                                        *)

(* The reason blames nobody for being away. *)
BlamesNobody(reason) == reason \notin {"white-wo", "black-wo", "canceled-timed-out"}

LEMMA ClocksBlameNobody ==
  ASSUME NEW g \in Game, NEW t \in Nat, BlamesNobody(g.done)
  PROVE  BlamesNobody(CheckTimeOver(g, t).done) /\ BlamesNobody(SeeTime(g, t).done)
<1> DEFINE fallen == FallenFlags(g, t)
           done == CASE fallen = Color -> "draw-timeover"
                     [] fallen = {"white"} -> TimeOver("white")
                     [] fallen = {"black"} -> TimeOver("black")
<1>1. BlamesNobody(CheckTimeOver(g, t).done)
  <2>1. CASE fallen = {}
    BY <2>1 DEF CheckTimeOver
  <2>2. CASE fallen # {}
    <3>1. fallen \in {{"white"}, {"black"}, Color}
      <4>1. fallen \in SUBSET Color
        BY DEF FallenFlags
      <4> HIDE DEF fallen
      <4> QED BY <2>2, <4>1 DEF Color
    <3>2. done \in {"draw-timeover", "white-timeover", "black-timeover"}
      <4> HIDE DEF fallen
      <4> QED BY <3>1 DEF Color, TimeOver
    <3>3. CheckTimeOver(g, t).done = done
      <4> HIDE DEF done
      <4> QED BY <2>2 DEF CheckTimeOver, Game, done
    <3> QED BY <3>2, <3>3 DEF BlamesNobody
  <2> QED BY <2>1, <2>2
<1> QED BY <1>1 DEF SeeTime

LEMMA PlayBlamesNobody ==
  ASSUME NEW g \in Game, NEW p \in Color
  PROVE  /\ BlamesNobody(Resign(g, p).done) /\ BlamesNobody(Draw(g).done)
         /\ \A position \in Position, t \in Nat :
              BlamesNobody(Move(g, p, position, t).done)
<1>1. BlamesNobody(Resign(g, p).done) /\ BlamesNobody(Draw(g).done)
  BY DEF Resign, Draw, BlamesNobody, Game
<1>2. ASSUME NEW position \in Position, NEW t \in Nat
      PROVE  BlamesNobody(Move(g, p, position, t).done)
  <2> DEFINE end == EndOfPosition(Opponent(p), position, g.auto_flag)
  <2>1. BlamesNobody(end)
    BY DEF EndOfPosition, BlamesNobody
  <2>2. Move(g, p, position, t).done = end
    <3> HIDE DEF end
    <3> QED BY DEF Move, Game, end
  <2> QED BY <2>1, <2>2
<1> QED BY <1>1, <1>2

EndsBlameAbsent == \A k \in DOMAIN ends' \ DOMAIN ends : BlamesAbsent(ends'[k])

(* The one end of the game is the one that is added.                       *)
LEMMA AddedEnd ==
  ASSUME GameInv, game_active, NEW type, NEW reason, NEW scores, NEW stored, NEW g,
         AddEnd(type, reason, scores, stored, g),
         BlamesNobody(reason) \/ BlamesAbsent([reason |-> reason])
  PROVE  EndsBlameAbsent
<1> DEFINE end == [type |-> type, reason |-> reason, scores |-> scores,
                   stored |-> stored]
<1>1. ends = <<>>
  BY EmptySeq DEF GameInv, EndedOnce
<1>2. ends' = <<end>>
  BY <1>1 DEF AddEnd
<1> HIDE DEF end
<1>3. DOMAIN ends' = {1} /\ ends'[1] = end
  BY <1>2
<1>4. end.reason = reason
  BY DEF end
<1> QED BY <1>3, <1>4 DEF EndsBlameAbsent, BlamesNobody, BlamesAbsent

LEMMA KeptEnds == UNCHANGED ends => EndsBlameAbsent
BY DEF EndsBlameAbsent

LEMMA NormalEnd ==
  ASSUME GameInv, game_active, NEW g, BlamesNobody(g.done), EndNormal(g)
  PROVE  EndsBlameAbsent
BY AddedEnd DEF EndNormal

LEMMA OtherEnd ==
  ASSUME GameInv, game_active, NEW reason, BlamesNobody(reason),
         EndCanceled(reason, game) \/ EndAdjourned(reason, game)
  PROVE  EndsBlameAbsent
<1>1. CASE EndCanceled(reason, game)
  BY <1>1, AddedEnd DEF EndCanceled
<1>2. CASE EndAdjourned(reason, game)
  <2> DEFINE stored == IF game.done = "no-reason" THEN "adjourned" ELSE "nothing"
  <2>1. AddEnd("adjourned", reason, NoScores, stored, game)
    BY <1>2 DEF EndAdjourned
  <2> HIDE DEF stored
  <2> QED BY <2>1, AddedEnd
<1> QED BY <1>1, <1>2

LEMMA GoneOn ==
  ASSUME GameInv, game_active, now \in Nat, NEW g \in Game, BlamesNobody(g.done), GoOn(g)
  PROVE  EndsBlameAbsent
<1> DEFINE seen == SeeTime(g, now)
<1>1. BlamesNobody(seen.done)
  BY ClocksBlameNobody
<1>2. EndNormal(seen) \/ UNCHANGED ends
  BY DEF GoOn
<1> HIDE DEF seen
<1> QED BY <1>1, <1>2, NormalEnd, KeptEnds

(* The players whose timeout has passed are away.                          *)
LEMMA AbsenceEnd ==
  ASSUME RoomInv, GameInv, game_active, CheckAbsence(game)
  PROVE  EndsBlameAbsent
<1> DEFINE absent == {p \in Color : player_timeout[p] = Earliest}
           loser == CHOOSE p \in absent : TRUE
<1>1. CASE UNCHANGED ends
  BY <1>1, KeptEnds
<1>2. CASE ~UNCHANGED ends
  <2>1. Earliest < now
    <3>1. player_timeout \in [Color -> Nat]
      BY TimeFacts DEF RoomInv
    <3>2. PICK p \in Color : player_timeout[p] = Earliest
      BY <3>1, SomebodyIsEarliest
    <3>3. Earliest \in Nat /\ now \in Nat
      BY <3>1, <3>2, TimeFacts DEF RoomInv
    <3>4. ~(Earliest >= now)
      BY <1>2 DEF CheckAbsence
    <3> QED BY <3>3, <3>4
  <2>2. absent \cap occupants = {}
    <3> SUFFICES ASSUME NEW p \in Color, player_timeout[p] = Earliest PROVE p \notin occupants
      OBVIOUS
    <3>1. /\ now \in 0..MaxTime /\ player_timeout[p] \in Nat
          /\ MaxTime \in Nat /\ Never \in Nat /\ MaxTime <= Never
      BY TimeFacts, RoomAssumption DEF RoomInv, Never
    <3>2. player_timeout[p] # Never
      BY <2>1, <3>1
    <3>3. p \in occupants <=> player_timeout[p] = Never
      BY DEF RoomInv, AbsenceTimed
    <3> QED BY <3>2, <3>3
  <2>3. CASE absent = Color /\ EndCanceled("canceled-timed-out", game)
    <3>1. BlamesAbsent([reason |-> "canceled-timed-out"])
      BY <2>2, <2>3 DEF BlamesAbsent
    <3> QED BY <2>3, <3>1, AddedEnd DEF EndCanceled
  <2>4. CASE EndNormal(Wo(game, loser))
    <3>1. loser \in absent
      <4>1. player_timeout \in [Color -> Nat]
        BY TimeFacts DEF RoomInv
      <4>2. PICK p \in Color : player_timeout[p] = Earliest
        BY <4>1, SomebodyIsEarliest
      <4>3. p \in absent
        BY <4>2
      <4> HIDE DEF absent
      <4> QED BY <4>3
    <3>2. loser \in Color /\ loser \notin occupants
      BY <2>2, <3>1
    <3>3. Wo(game, loser).done = IF loser = "white" THEN "black-wo" ELSE "white-wo"
      BY DEF Wo, GameInv, Game
    <3> HIDE DEF loser
    <3>4. BlamesAbsent([reason |-> Wo(game, loser).done])
      BY <3>2, <3>3 DEF BlamesAbsent, Color
    <3> QED BY <2>4, <3>4, AddedEnd DEF EndNormal
  <2> QED BY <1>2, <2>3, <2>4 DEF CheckAbsence
<1> QED BY <1>1, <1>2

LEMMA IqBlamesNobody ==
  ASSUME IInv, NEW p \in Color, HandleIq(p)
  PROVE  EndsBlameAbsent
<1>1. GameInv /\ game \in Game /\ now \in Nat
  BY TimeFacts DEF IInv, RoomInv, GameInv
<1>2. game_active
  BY DEF HandleIq, HandleMove, HandleResign, HandleDrawAccept, HandleCancelAccept,
         HandleAdjournAccept, HandleDecline, MayPlay
<1>3. BlamesNobody(game.done)
  BY <1>1, <1>2 DEF GameInv, Undecided, BlamesNobody
<1>4. ASSUME GoOn(game) PROVE EndsBlameAbsent
  BY <1>1, <1>2, <1>3, <1>4, GoneOn
<1>5. ASSUME NEW position \in Position, HandleMove(p, position)
      PROVE  EndsBlameAbsent
  <2>1. \/ EndNormal(CheckTimeOver(game, now))
        \/ MayMove(game, p) /\ GoOn(Move(game, p, position, now)) /\ ~MoveTooLate(game, now)
    BY <1>5 DEF HandleMove
  <2>2. CASE EndNormal(CheckTimeOver(game, now))
    BY <1>1, <1>2, <1>3, <2>2, ClocksBlameNobody, NormalEnd
  <2>3. CASE MayMove(game, p) /\ GoOn(Move(game, p, position, now)) /\ ~MoveTooLate(game, now)
    <3>1. Move(game, p, position, now) \in Game
      BY <1>1, <1>2, <2>3, MoveFacts DEF MayMove, GameInv
    <3>2. BlamesNobody(Move(game, p, position, now).done)
      BY <1>1, PlayBlamesNobody
    <3> QED BY <1>1, <1>2, <2>3, <3>1, <3>2, GoneOn
  <2> QED BY <2>1, <2>2, <2>3
<1>6. CASE HandleResign(p)
  <2>1. Resign(game, p) \in Game /\ BlamesNobody(Resign(game, p).done)
    BY <1>1, PlayBlamesNobody DEF Resign, Game, Color, END_CODE
  <2> QED BY <1>1, <1>2, <1>6, <2>1, GoneOn DEF HandleResign
<1>7. CASE HandleDrawAccept(p)
  <2>1. Draw(game) \in Game /\ BlamesNobody(Draw(game).done)
    BY <1>1, PlayBlamesNobody DEF Draw, Game, END_CODE, Draws
  <2>2. GoOn(Draw(game)) \/ GoOn(game)
    BY <1>7 DEF HandleDrawAccept
  <2> QED BY <1>1, <1>2, <1>4, <2>1, <2>2, GoneOn
<1>8. CASE HandleCancelAccept(p)
  <2>1. BlamesNobody("canceled-agreement")
    BY DEF BlamesNobody
  <2>2. EndCanceled("canceled-agreement", game) \/ GoOn(game)
    BY <1>8 DEF HandleCancelAccept
  <2> QED BY <1>1, <1>2, <1>4, <2>1, <2>2, OtherEnd
<1>9. CASE HandleAdjournAccept(p)
  <2>1. BlamesNobody("adjourned-agreement")
    BY DEF BlamesNobody
  <2>2. EndAdjourned("adjourned-agreement", game) \/ GoOn(game)
    BY <1>9 DEF HandleAdjournAccept
  <2> QED BY <1>1, <1>2, <1>4, <2>1, <2>2, OtherEnd
<1>10. ASSUME NEW r \in Request, HandleDecline(p, r)
       PROVE  EndsBlameAbsent
  BY <1>4, <1>10 DEF HandleDecline
<1> QED BY <1>5, <1>6, <1>7, <1>8, <1>9, <1>10 DEF HandleIq

(* Whoever loses by absence, and whoever gets a game canceled by being     *)
(* away, is away when the game ends, however late the timer runs.          *)
THEOREM RoomOnlyAbsentLose == Spec => OnlyAbsentLose
<1>1. IInv /\ [Next]_vars =>
        [\A k \in DOMAIN ends' \ DOMAIN ends : BlamesAbsent(ends'[k])]_vars
  <2> SUFFICES ASSUME IInv, Next PROVE EndsBlameAbsent
    BY DEF EndsBlameAbsent
  <2>1. CASE UNCHANGED ends
    BY <2>1, KeptEnds
  <2>2. CASE CheckTime /\ ~UNCHANGED ends
    <3> DEFINE seen == SeeTime(game, now)
    <3>1. /\ game \in Game /\ now \in Nat
          /\ RoomInv /\ GameInv
      BY TimeFacts DEF IInv, RoomInv, GameInv
    <3>2. game_active
      BY <2>2 DEF CheckTime, KeepGame
    <3>3. Undecided(game) /\ BlamesNobody(seen.done)
      BY <3>1, <3>2, ClocksBlameNobody DEF GameInv, Undecided, BlamesNobody
    <3>4. CASE EndNormal(seen)
      <4> HIDE DEF seen
      <4> QED BY <3>1, <3>2, <3>3, <3>4, NormalEnd
    <3>5. CASE seen.done = "no-reason" /\ CheckAbsence(seen)
      <4>1. seen = game
        BY <3>1, <3>2, <3>3, <3>5, SeeTimeFacts DEF Decided, GameInv, Looked
      <4> QED BY <3>1, <3>2, <3>5, <4>1, AbsenceEnd
    <3> QED BY <2>2, <3>2, <3>4, <3>5 DEF CheckTime
  <2>3. CASE Stop /\ ~UNCHANGED ends
    <3>1. game_active /\ EndAdjourned("adjourned-shutdown", game)
      BY <2>3 DEF Stop, KeepGame
    <3>2. BlamesNobody("adjourned-shutdown") /\ GameInv
      BY DEF BlamesNobody, IInv
    <3> QED BY <3>1, <3>2, OtherEnd
  <2>4. ASSUME NEW p \in Color, HandleIq(p)
        PROVE  EndsBlameAbsent
    BY <2>4, IqBlamesNobody
  <2> QED BY <2>1, <2>2, <2>3, <2>4 DEF Next, Enter, Leave, KeepGame, Tick
<1> QED BY <1>1, Invariance, PTL DEF Spec, OnlyAbsentLose

=============================================================================
