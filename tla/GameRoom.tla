------------------------------- MODULE GameRoom -------------------------------
(***************************************************************************)
(* The room of a game (src/src/GameRoom.cc, Agreement.cc): its thread      *)
(* handles the stanzas of the occupants and the timer, and decides when    *)
(* and how the game ends.  The game is a record of GameChess.  Players are *)
(* named by their color.                                                   *)
(*                                                                         *)
(* A stanza may be handled at any moment: the queue of the room only       *)
(* delays it.  The clock now is read once in every step; it counts from    *)
(* the creation of the room.                                               *)
(***************************************************************************)
EXTENDS GameChess, FiniteSets, Sequences

CONSTANTS
  Spectator,     \* other users that enter the room
  Offers,        \* the requests that players make: draw, cancel, adjourn
  MaxTime,       \* bound of the clock
  MaxMoves,      \* bound on the moves of a game
  StartTimes,    \* the times a clock may show at the start
  Incs,          \* the increments a player may have
  AutoFlags,     \* the values of autoflag that players choose
  AbsenceLimit,  \* 5 minutes
  CheckPeriod    \* 10 seconds, the period of the timer

ASSUME RoomAssumption ==
  /\ IsFiniteSet(Spectator) /\ Spectator \cap Color = {}
  /\ Offers \subseteq {"draw", "cancel", "adjourn"}
  /\ MaxTime \in Nat /\ MaxMoves \in Nat
  /\ StartTimes \subseteq Int /\ Incs \subseteq Int
  /\ AutoFlags \subseteq BOOLEAN
  /\ AbsenceLimit \in Nat \ {0} /\ CheckPeriod \in Nat \ {0}

VARIABLES
  now,             \* Timer::now
  occupants,       \* the users in the room
  agreement,       \* Request -> the players that agreed
  player_timeout,  \* Color -> when an absent player loses
  game,            \* the GameChess record
  game_active,
  ends,            \* the calls of endGame, each with what it did
  check_at,        \* when checkTime runs; Never once the room can be closed
  stopped          \* onStop has run

roomVars == <<occupants, agreement, player_timeout>>
vars == <<now, roomVars, game, game_active, ends, check_at, stopped>>

Request == {"move", "draw", "cancel", "adjourn"}

(* 1000000 hours, and later than anything that happens.                    *)
Never == MaxTime + AbsenceLimit + CheckPeriod + 1

(* What a call of endGame did: why, the scores it reports, and what it    *)
(* stored in the database.                                                 *)
EndType == {"normal", "canceled", "adjourned"}
Reason == END_CODE \cup {"canceled-agreement", "canceled-timed-out",
                         "adjourned-agreement", "adjourned-shutdown"}
End == [type : EndType, reason : Reason,
        scores : [Color -> Score \cup {"none"}],
        stored : {"result", "adjourned", "nothing"}]

(* A new game, or one that is resumed: its clocks may stand below zero     *)
(* then, and nobody tests the increments that are asked for.               *)
Init ==
  /\ now = 0
  /\ occupants = {}
  /\ agreement = [r \in Request |-> {}]
  /\ player_timeout = [p \in Color |-> AbsenceLimit]
  /\ game \in {NewGame(time, inc, turn, timed, auto_flag) :
                 time \in [Color -> StartTimes], inc \in [Color -> Incs], turn \in Color,
                 timed \in BOOLEAN, auto_flag \in AutoFlags}
  /\ game_active = TRUE
  /\ ends = <<>>
  /\ check_at = CheckPeriod
  /\ stopped = FALSE

-----------------------------------------------------------------------------
(* endGame: hide the game, store it, report and notify the result.         *)

NoScores == [p \in Color |-> "none"]

AddEnd(type, reason, scores, stored, g) ==
  /\ game_active' = FALSE
  /\ ends' = Append(ends, [type |-> type, reason |-> reason, scores |-> scores,
                           stored |-> stored])
  /\ game' = g

EndNormal(g) == AddEnd("normal", g.done, Result(g), "result", g)

EndCanceled(reason, g) == AddEnd("canceled", reason, NoScores, "nothing", g)

(* adjourn throws game_over, and nothing is stored, if the game is done.   *)
EndAdjourned(reason, g) ==
  AddEnd("adjourned", reason, NoScores,
         IF g.done = "no-reason" THEN "adjourned" ELSE "nothing", g)

KeepGame == UNCHANGED <<game, game_active, ends>>

(* Mutant: the end of handleGameIq forgets to test whether it is over.     *)
GoOnUntested(g) == game' = SeeTime(g, now) /\ UNCHANGED <<game_active, ends>>

(* "check if the game is over", at the end of handleGameIq.                *)
GoOn(g) ==
  LET seen == SeeTime(g, now) IN
    IF seen.done # "no-reason" THEN EndNormal(seen)
    ELSE game' = seen /\ UNCHANGED <<game_active, ends>>

-----------------------------------------------------------------------------
(* Presences: Muc::addUser, removeUser and notifyUserStatus.               *)

(* Mutant: a player who comes back keeps the timeout of the absence.       *)
EnterLate(u) ==
  /\ ~stopped
  /\ u \notin occupants
  /\ occupants' = occupants \cup {u}
  /\ UNCHANGED <<now, agreement, player_timeout, check_at, stopped>>
  /\ KeepGame

Enter(u) ==
  /\ ~stopped
  /\ u \notin occupants
  /\ occupants' = occupants \cup {u}
  /\ player_timeout' = [p \in Color |-> IF p = u THEN Never ELSE player_timeout[p]]
  /\ UNCHANGED <<now, agreement, check_at, stopped>>
  /\ KeepGame

Leave(u) ==
  /\ ~stopped
  /\ u \in occupants
  /\ occupants' = occupants \ {u}
  /\ player_timeout' = [p \in Color |-> IF p = u THEN now + AbsenceLimit
                                        ELSE player_timeout[p]]
  /\ UNCHANGED <<now, agreement, check_at, stopped>>
  /\ KeepGame

-----------------------------------------------------------------------------
(* Iqs of the players: handleGameIq and the handlers it calls.             *)

MayPlay(p) == ~stopped /\ p \in occupants /\ game_active

Agreed(r, p) == agreement' = [agreement EXCEPT ![r] = @ \cup {p}]

AllAgree(r, p) == agreement[r] \cup {p} = Color

Unmoved == agreement["move"] # Color

Rest == UNCHANGED <<now, occupants, player_timeout, check_at, stopped>>

HandleMove(p, position) ==
  /\ MayPlay(p)
  /\ IF MoveTooLate(game, now)
     THEN EndNormal(CheckTimeOver(game, now)) /\ UNCHANGED agreement
     ELSE /\ MayMove(game, p)
          /\ game.turns_restart < MaxMoves
          /\ GoOn(Move(game, p, position, now))
          /\ Agreed("move", p)
  /\ Rest

HandleResign(p) ==
  /\ MayPlay(p)
  /\ GoOn(Resign(game, p))
  /\ UNCHANGED agreement
  /\ Rest

HandleDrawAccept(p) ==
  /\ MayPlay(p)
  /\ "draw" \in Offers
  /\ Agreed("draw", p)
  /\ GoOn(IF AllAgree("draw", p) THEN Draw(game) ELSE game)
  /\ Rest

(* A second request of the same player changes nothing.                    *)
HandleCancelAccept(p) ==
  /\ MayPlay(p)
  /\ "cancel" \in Offers
  /\ Agreed("cancel", p)
  /\ IF p \notin agreement["cancel"] /\ (AllAgree("cancel", p) \/ Unmoved)
     THEN EndCanceled("canceled-agreement", game)
     ELSE GoOn(game)
  /\ Rest

HandleAdjournAccept(p) ==
  /\ MayPlay(p)
  /\ "adjourn" \in Offers
  /\ Agreed("adjourn", p)
  /\ IF AllAgree("adjourn", p) THEN EndAdjourned("adjourned-agreement", game)
     ELSE GoOn(game)
  /\ Rest

HandleDecline(p, r) ==
  /\ MayPlay(p)
  /\ r \in Offers
  /\ agreement' = [agreement EXCEPT ![r] = {}]
  /\ GoOn(game)
  /\ Rest

-----------------------------------------------------------------------------
(* The timer, and the stop of the room.                                    *)

Earliest == CHOOSE t \in {player_timeout[p] : p \in Color} :
              \A p \in Color : t <= player_timeout[p]

(* Mutant: the player who is there loses, instead of the absent one.       *)
CheckAbsenceSwapped(g) ==
  LET absent == {p \in Color : player_timeout[p] = Earliest} IN
    IF Earliest >= now THEN game' = g /\ UNCHANGED <<game_active, ends>>
    ELSE IF absent = Color THEN EndCanceled("canceled-timed-out", g)
    ELSE EndNormal(Wo(g, CHOOSE p \in Color : p \notin absent))

(* The players that timed out first lose, unless that is everybody.        *)
CheckAbsence(g) ==
  LET absent == {p \in Color : player_timeout[p] = Earliest} IN
    IF Earliest >= now THEN game' = g /\ UNCHANGED <<game_active, ends>>
    ELSE IF absent = Color THEN EndCanceled("canceled-timed-out", g)
    ELSE EndNormal(Wo(g, CHOOSE p \in absent : TRUE))

(* Mutant: checkTime does not look at game_active.                         *)
CheckTimeAlways ==
  /\ check_at <= now
  /\ LET seen == SeeTime(game, now) IN
       IF seen.done # "no-reason" THEN EndNormal(seen) ELSE CheckAbsence(seen)
  /\ check_at' = IF ~game_active' /\ occupants = {} THEN Never
                 ELSE now + CheckPeriod
  /\ UNCHANGED <<now, roomVars, stopped>>

(* Mutant: checkTime does not look at the clocks.                          *)
CheckAbsenceOnly ==
  /\ check_at <= now
  /\ IF ~game_active THEN KeepGame ELSE CheckAbsence(game)
  /\ check_at' = IF ~game_active' /\ occupants = {} THEN Never
                 ELSE now + CheckPeriod
  /\ UNCHANGED <<now, roomVars, stopped>>

CheckTime ==
  /\ check_at <= now
  /\ LET seen == SeeTime(game, now) IN
       IF ~game_active THEN KeepGame
       ELSE IF seen.done # "no-reason" THEN EndNormal(seen)
       ELSE CheckAbsence(seen)
  /\ check_at' = IF ~game_active' /\ occupants = {} THEN Never
                 ELSE now + CheckPeriod
  /\ UNCHANGED <<now, roomVars, stopped>>

(* onStop: Muc::close removes every occupant.                              *)
Stop ==
  /\ ~stopped
  /\ stopped' = TRUE
  /\ IF game_active THEN EndAdjourned("adjourned-shutdown", game) ELSE KeepGame
  /\ occupants' = {}
  /\ player_timeout' = [p \in Color |-> IF p \in occupants THEN now + AbsenceLimit
                                        ELSE player_timeout[p]]
  /\ UNCHANGED <<now, agreement, check_at>>

Tick ==
  /\ now < MaxTime
  /\ now' = now + 1
  /\ UNCHANGED <<roomVars, game, game_active, ends, check_at, stopped>>

-----------------------------------------------------------------------------

HandleIq(p) ==
  \/ \E position \in Position : HandleMove(p, position)
  \/ HandleResign(p)
  \/ HandleDrawAccept(p)
  \/ HandleCancelAccept(p)
  \/ HandleAdjournAccept(p)
  \/ \E r \in Request : HandleDecline(p, r)

Next ==
  \/ \E u \in Color \cup Spectator : Enter(u) \/ Leave(u)
  \/ \E p \in Color : HandleIq(p)
  \/ CheckTime
  \/ Stop
  \/ Tick

Spec == Init /\ [][Next]_vars

(* Time passes, and the thread of the room gets to its timer.              *)
FairSpec == Spec /\ WF_vars(Tick) /\ WF_vars(CheckTime)

-----------------------------------------------------------------------------

(* Every variable has its type.                                            *)
TypeOK ==
  /\ now \in 0..MaxTime
  /\ occupants \subseteq Color \cup Spectator
  /\ agreement \in [Request -> SUBSET Color]
  /\ player_timeout \in [Color -> 0..Never]
  /\ game \in Game
  /\ game_active \in BOOLEAN
  /\ ends \in Seq(End)
  /\ check_at \in 0..Never
  /\ stopped \in BOOLEAN

(* A game ends once, whatever comes together: moves, requests, flags,      *)
(* absences, the stop of the room.  endGame gives the players back, stores *)
(* and reports the game without a test of its own.                         *)
EndedOnce == Len(ends) = IF game_active THEN 0 ELSE 1

(* Between two stanzas no active game is over: the end of a game is never  *)
(* left for later, and adjourn cannot throw game_over when the room stops. *)
ActiveNotDone == game_active => game.done = "no-reason"

(* A game ends at once and once.                                           *)
EndsAtOnce == EndedOnce /\ ActiveNotDone

(* A player is on the way to lose by absence exactly while absent.         *)
AbsenceTimed ==
  \A p \in Color : p \in occupants <=> player_timeout[p] = Never

(* The loser named by the reason of an end, mates apart.                   *)
LoserOf(reason) ==
  CASE reason \in {"white-timeover", "white-resigned", "black-wo"} -> "white"
    [] reason \in {"black-timeover", "black-resigned", "white-wo"} -> "black"
    [] OTHER -> "none"

(* The scores the room reports agree with the reason it gives: the player  *)
(* out of time, resigned or absent has lost, the agreed and counted draws  *)
(* are draws.                                                              *)
ScoresMatchReason ==
  \A k \in DOMAIN ends : ends[k].type = "normal" =>
    LET loser == LoserOf(ends[k].reason) IN
      /\ loser # "none" =>
           ends[k].scores[loser] = "lose" /\ ends[k].scores[Opponent(loser)] = "win"
      /\ ends[k].reason \in Draws => \A p \in Color : ends[k].scores[p] = "draw"

(* The clocks that count are above zero while the game is played with the  *)
(* flag on.                                                                *)
ClocksRun(g) ==
  g.timed /\ g.auto_flag /\ g.turns_restart >= 2 => \A p \in Color : g.time[p] > 0

(* Why the flag of p may fall: in the time p takes for a move, by a move   *)
(* of p that an increment below zero cost the rest, or at once when the    *)
(* clocks begin to count, if that of p began at zero or below.             *)
MayFall(g, p) ==
  \/ g.turn = p /\ g.time[p] > 0
  \/ g.turn = Opponent(p) /\ g.inc[p] < 0
  \/ g.turns_restart = 2 /\ g.time[p] <= 0

(* A game that ended by time ended by clocks that count, and for a player  *)
(* whose flag may fall.  The other still had time, unless both began       *)
(* without any.                                                            *)
FlagsFell(g) ==
  /\ g.done \in {"white-timeover", "black-timeover", "draw-timeover"} =>
       g.timed /\ g.auto_flag /\ g.turns_restart >= 2
  /\ \A p \in Color : g.done = TimeOver(p) => MayFall(g, p) /\ g.time[Opponent(p)] > 0
  /\ g.done = "draw-timeover" =>
       g.turns_restart = 2 /\ \A p \in Color : g.time[p] <= 0

(* With the flag on, nobody plays on with a clock at zero, no time is lost *)
(* while the opponent thinks, and the two flags fall together only in a    *)
(* game that was resumed with, or asked for, clocks at zero or below.      *)
OneFlagFalls == (game_active => ClocksRun(game)) /\ FlagsFell(game)

(* Who an end blames for being away is away.                               *)
BlamesAbsent(end) ==
  /\ end.reason = "white-wo" => "black" \notin occupants
  /\ end.reason = "black-wo" => "white" \notin occupants
  /\ end.reason = "canceled-timed-out" => occupants \cap Color = {}

(* Only a player who is away loses by absence.                             *)
OnlyAbsentLose ==
  [][\A k \in DOMAIN ends' \ DOMAIN ends : BlamesAbsent(ends'[k])]_vars

InTime == now + 2 * CheckPeriod <= MaxTime

(* A player whose flag has fallen does not play on, even if nobody moves,  *)
(* and an absent player does not hold the other for ever: the timer ends   *)
(* the game.                                                               *)
TimeEndsGame ==
  /\ game_active /\ game.auto_flag /\ FallenFlags(game, now) # {} /\ InTime
       ~> ~game_active
  /\ \A p \in Color :
       game_active /\ player_timeout[p] < now /\ InTime ~> (~game_active \/ p \in occupants)

-----------------------------------------------------------------------------

(* Stalemate is one of the "reasons for drawing" (GameChess::call_flag).   *)
StalemateIsDraw ==
  \A k \in DOMAIN ends :
    ends[k].reason = "stalemate" => \A p \in Color : ends[k].scores[p] = "draw"

=============================================================================
