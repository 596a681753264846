------------------------------ MODULE MatchFactory -----------------------------
(***************************************************************************)
(* From the stanza of an offer or an announcement to the game of it:       *)
(* MatchFactory.cc, MatchChess.cc, ChessMatchAnnouncement.cc and the       *)
(* constructors of GameChess.cc in src/src.  The stanza is looked at once, *)
(* when it comes; the game is made from what was kept of it when everybody *)
(* has accepted.                                                           *)
(*                                                                         *)
(* Attributes are strings; a time of 0 is one that is not there, which no  *)
(* category with a clock allows, and so is an increment of 0.  Increments  *)
(* are not looked at before the game is made.                              *)
(***************************************************************************)
EXTENDS GameChess, FiniteSets, Sequences

CONSTANTS User,
          MatchOffers,         \* what clients send: the offers of a match,
          AnnouncementOffers   \* and the announcements

VARIABLES asked,   \* the offer that stands, as its sender wrote it
          terms,   \* the Match or MatchAnnouncement made of it
          game     \* the game made of that, once there is one

creation_vars == <<asked, terms, game>>

None == [kind |-> "none"]

\* an attribute that is not there
NotGiven == ""

PlayerTag(jid, color, time, inc) ==
  [jid |-> jid, color |-> color, time |-> time, inc |-> inc]

CreationInit == asked = None /\ terms = None /\ game = None

-----------------------------------------------------------------------------
(* MatchFactory *)

Minutes(n) == 60 * n

isTimeValid(player, category) ==
  CASE category = "standard" -> player.time >= Minutes(11)
    [] category = "blitz" -> player.time \in Minutes(3)..Minutes(10)
    [] category = "lightning" -> player.time \in Minutes(1)..Minutes(2)
    [] OTHER -> category = "untimed"

Chosen(players) == {i \in DOMAIN players : players[i].color # NotGiven}

(* What validateXML throws for.  Two players choose no color or both.      *)
validateXML(offer, num_players) ==
  LET players == offer.players IN
  /\ Len(players) = num_players
  /\ \A i \in DOMAIN players : isTimeValid(players[i], offer.category)
  /\ offer.category # "untimed" =>
       \A i, j \in DOMAIN players : players[i].time = players[j].time
  /\ \A i \in Chosen(players) : players[i].color \in Color
  /\ \A i, j \in Chosen(players) : i # j => players[i].color # players[j].color
  /\ Cardinality(Chosen(players)) \in {0, num_players}

Default(attribute) == IF attribute = NotGiven THEN "true" ELSE attribute

(* What it changes in the offer, which is a copy.                          *)
Validated(offer) ==
  [offer EXCEPT !.rated = Default(@), !.autoflag = Default(@),
     !.players = [i \in DOMAIN @ |->
        IF offer.category = "untimed" THEN [@[i] EXCEPT !.time = 0] ELSE @[i]]]

(* create: the players are those of the copy, the attributes are not.      *)
create(offer) ==
  [kind |-> "match", category |-> offer.category, rated |-> offer.rated,
   autoflag |-> offer.autoflag, players |-> Validated(offer).players]

(* MatchAnnouncementFactory *)
createAnnouncement(offer) ==
  LET copy == Validated(offer) IN
  [kind |-> "announcement", category |-> copy.category, rated |-> copy.rated,
   autoflag |-> copy.autoflag, players |-> copy.players]

-----------------------------------------------------------------------------
(* MatchChess and ChessMatchAnnouncement *)

(* Mutant: a color is drawn for every player that has none.                *)
PlayersOfOneColor(players, drawn) ==
  [i \in DOMAIN players |->
     [players[i] EXCEPT !.color = IF @ = NotGiven THEN drawn ELSE @]]

(* The color drawn for the first player, unless one is chosen, and then    *)
(* the other one in turn.                                                  *)
getPlayersFromXML(players, drawn) ==
  LET color[i \in DOMAIN players] ==
        IF players[i].color # NotGiven THEN players[i].color
        ELSE IF i = 1 THEN drawn ELSE Opponent(color[i - 1])
  IN [i \in DOMAIN players |->
        PlayerTag(players[i].jid, color[i], players[i].time, players[i].inc)]

(* The constructors of GameChessUntimed and GameChess: white first, and    *)
(* attributes that are not there are true.                                 *)
newGame(players, attributes, timed) ==
  LET first == IF players[1].color = "black" THEN 2 ELSE 1
      player == [white |-> players[first], black |-> players[3 - first]]
  IN [kind |-> "game", category |-> attributes.category,
      player |-> player,
      colormap |-> [jid \in {players[1].jid, players[2].jid} |->
                      IF player["white"].jid = jid THEN player["white"].color
                      ELSE player["black"].color],
      rated |-> attributes.rated \in {NotGiven, "true"},
      chess |-> NewGame([color \in Color |-> player[color].time],
                        [color \in Color |-> player[color].inc], "white", timed,
                        attributes.autoflag \in {NotGiven, "true"})]

MatchGame(match, drawn) ==
  newGame(getPlayersFromXML(match.players, drawn), match, match.category # "untimed")

(* The player who accepts plays on the terms of the first, without the     *)
(* color.  No category is "Untimed", so the game has a clock.              *)
AnnouncementGame(announcement, user, drawn) ==
  LET owner == announcement.players[1]
      other_player == [owner EXCEPT !.jid = user, !.color = NotGiven]
  IN newGame(getPlayersFromXML(<<owner, other_player>>, drawn), announcement,
             announcement.category # "Untimed")

-----------------------------------------------------------------------------
(* The managers.                                                           *)

Jids(offer) == {offer.players[i].jid : i \in DOMAIN offer.players}

(* handleOffer of a match, and of new terms for the match: of the players  *)
(* of the old ones.                                                        *)
handleOffer(offer) ==
  /\ terms.kind \in {"none", "match"} /\ game = None
  /\ validateXML(offer, 2)
  /\ Cardinality(Jids(offer)) = 2
  /\ terms.kind = "match" => Jids(offer) = Jids(terms)
  /\ asked' = offer /\ terms' = create(offer) /\ UNCHANGED game

(* handleCreate of AnnouncementManager.                                    *)
createFromOffer(offer) ==
  /\ terms = None
  /\ validateXML(offer, 1)
  /\ asked' = offer /\ terms' = createAnnouncement(offer) /\ UNCHANGED game

closeMatch(drawn) ==
  /\ terms.kind = "match" /\ game = None
  /\ game' = MatchGame(terms, drawn) /\ UNCHANGED <<asked, terms>>

(* handleAccept of AnnouncementManager.                                    *)
acceptAnnouncement(user, drawn) ==
  /\ terms.kind = "announcement" /\ game = None
  /\ user # terms.players[1].jid
  /\ game' = AnnouncementGame(terms, user, drawn) /\ UNCHANGED <<asked, terms>>

(* The players move, and the room looks whether the game is over.  No time *)
(* goes by: what the clocks do then is in GameRoom.  Bound: one move of    *)
(* each player that counts, the third and the fourth.                      *)
MovesAtOnce == 4

MoveAtOnce ==
  /\ game # None /\ game.chess.turns_restart < MovesAtOnce
  /\ LET chess == game.chess IN
     /\ MayMove(chess, chess.turn) /\ ~MoveTooLate(chess, 0)
     /\ game' = [game EXCEPT !.chess = SeeTime(Move(chess, chess.turn, "open", 0), 0)]
  /\ UNCHANGED <<asked, terms>>

CreationNext ==
  \/ \E offer \in MatchOffers : handleOffer(offer)
  \/ \E offer \in AnnouncementOffers : createFromOffer(offer)
  \/ \E drawn \in Color : closeMatch(drawn)
  \/ \E user \in User, drawn \in Color : acceptAnnouncement(user, drawn)
  \/ MoveAtOnce

CreationSpec == CreationInit /\ [][CreationNext]_creation_vars

-----------------------------------------------------------------------------

(* The game is the one that was asked for, whatever the sender left open:  *)
(* each side has one of the users and its own clock, at the time and with  *)
(* the increment that were asked for, in an announcement the same for      *)
(* both; the colors are those that were chosen, and rated and autoflag are *)
(* true unless they were refused.  Only a match of the category untimed    *)
(* has no clocks; an announcement of it has clocks at 0, and both flags    *)
(* fall at the second move.  Else a player who moves at once runs out of   *)
(* time only by an increment that takes all of it away.                    *)
GameAsOffered ==
  game # None =>
    /\ \A color \in Color :
         /\ game.player[color].color = color
         /\ game.colormap[game.player[color].jid] = color
    /\ \A i \in DOMAIN asked.players :
         LET tag == asked.players[i] IN
         /\ tag.jid \in DOMAIN game.colormap
         /\ tag.color # NotGiven => game.colormap[tag.jid] = tag.color
         /\ game.chess.inc[game.colormap[tag.jid]] = tag.inc
         /\ asked.category # "untimed" =>
              \A color \in Color : game.player[color].time = tag.time /\ tag.time > 0
    /\ Cardinality(DOMAIN game.colormap) = 2
    /\ terms.kind = "announcement" => game.chess.inc["white"] = game.chess.inc["black"]
    /\ game.rated <=> asked.rated \in {NotGiven, "true"}
    /\ game.chess.auto_flag <=> asked.autoflag \in {NotGiven, "true"}
    /\ game.chess.timed <=> terms.kind = "announcement" \/ asked.category # "untimed"
    /\ game.chess.done = "draw-timeover" =>
         terms.kind = "announcement" /\ asked.category = "untimed"
    /\ \A color \in Color : game.chess.done = TimeOver(color) =>
         /\ asked.category # "untimed"
         /\ game.player[color].time + game.chess.inc[color] <= 0

=============================================================================
