--------------------------- MODULE MatchFactoryProofs ---------------------------
(***************************************************************************)
(* Proofs about the games made of offers and announcements, for any users  *)
(* and any offers, with increments below zero too.                         *)
(*                                                                         *)
(* GameAsOffered is not inductive.  FactoryInv adds                        *)
(*   - TermsInv: what stands was made of an offer that is valid, so before *)
(*     there is a game its players differ and chose no color or two;       *)
(*   - ChessInv: a clock shows the time that was asked for and, after the  *)
(*     move of its player that counts, the increment too; while the game   *)
(*     goes on with the flag on, no clock that counts is at zero.          *)
(***************************************************************************)
EXTENDS MatchFactory, FiniteSetTheorems, TLAPS

(* One step of the loop: the colors, from those before.                    *)
NextColors(players, drawn, color) ==
  [i \in DOMAIN players |->
     IF players[i].color # NotGiven THEN players[i].color
     ELSE IF i = 1 THEN drawn ELSE Opponent(color[i - 1])]

(* The players of a game of two get different colors, the chosen ones where *)
(* they are chosen.                                                         *)
LEMMA TwoColors ==
  ASSUME NEW players, DOMAIN players = 1..2, NEW drawn \in Color,
         \A i \in 1..2 : players[i].color \in Color \cup {NotGiven},
         \A i, j \in 1..2 : i # j /\ players[i].color # NotGiven =>
           players[j].color = NotGiven \/ players[i].color # players[j].color,
         players[2].color # NotGiven => players[1].color # NotGiven,
         NEW q, q = getPlayersFromXML(players, drawn)
  PROVE  /\ DOMAIN q = 1..2
         /\ \A i \in 1..2 : /\ q[i].jid = players[i].jid /\ q[i].time = players[i].time
                            /\ q[i].inc = players[i].inc /\ q[i].color \in Color
                            /\ players[i].color # NotGiven => q[i].color = players[i].color
         /\ q[2].color = Opponent(q[1].color)
<1> DEFINE color == CHOOSE c : c = NextColors(players, drawn, c)
           first == IF players[1].color # NotGiven THEN players[1].color ELSE drawn
           second == IF players[2].color # NotGiven THEN players[2].color ELSE Opponent(first)
<1>1. \E c : c = NextColors(players, drawn, c)
  <2> DEFINE d == [i \in 1..2 |-> IF i = 1 THEN first ELSE second]
  <2>1. /\ d[1] = first /\ d[2] = second /\ d[2 - 1] = first
    OBVIOUS
  <2>2. DOMAIN NextColors(players, drawn, d) = 1..2
    BY DEF NextColors
  <2>3. NextColors(players, drawn, d)[1] = first /\ NextColors(players, drawn, d)[2] = second
    BY <2>1 DEF NextColors
  <2>4. NextColors(players, drawn, d) = d
    <3> HIDE DEF first, second
    <3> QED BY <2>2, <2>3 DEF NextColors
  <2> QED BY <2>4
<1>2. color = NextColors(players, drawn, color)
  <2> HIDE DEF first, second
  <2> QED BY <1>1
<1>3. q = [i \in DOMAIN players |->
             PlayerTag(players[i].jid, color[i], players[i].time, players[i].inc)]
  BY Zenon DEF getPlayersFromXML, NextColors
<1> HIDE DEF color
<1>4. color[1] = first /\ color[2] = second
  <2>1. color[1] = first
    BY <1>2 DEF NextColors
  <2> HIDE DEF first
  <2>2. 2 - 1 = 1
    OBVIOUS
  <2>3. color[2] = IF players[2].color # NotGiven THEN players[2].color ELSE Opponent(color[2 - 1])
    BY <1>2 DEF NextColors
  <2> QED BY <2>1, <2>2, <2>3
<1>5. /\ DOMAIN q = 1..2
      /\ \A i \in 1..2 : /\ q[i].jid = players[i].jid /\ q[i].time = players[i].time
                         /\ q[i].inc = players[i].inc /\ q[i].color = color[i]
  BY <1>3 DEF PlayerTag
<1>6. /\ first \in Color /\ second \in Color /\ second = Opponent(first)
      /\ players[1].color # NotGiven => first = players[1].color
      /\ players[2].color # NotGiven => second = players[2].color
  BY DEF Opponent, Color
<1> HIDE DEF first, second
<1> QED BY <1>4, <1>5, <1>6

(* A game of two players of different colors.                              *)
LEMMA NewGameOfTwo ==
  ASSUME NEW q, \A i \in 1..2 : q[i].color \in Color, q[2].color = Opponent(q[1].color),
         q[1].jid # q[2].jid, NEW attributes, NEW timed,
         NEW g, g = newGame(q, attributes, timed)
  PROVE  /\ \A color \in Color : /\ g.player[color].color = color
                                 /\ g.colormap[g.player[color].jid] = color
                                 /\ \E i \in 1..2 : g.player[color] = q[i]
         /\ DOMAIN g.colormap = {q[1].jid, q[2].jid}
         /\ \A i \in 1..2 : g.colormap[q[i].jid] = q[i].color /\ g.player[q[i].color] = q[i]
         /\ Cardinality(DOMAIN g.colormap) = 2
         /\ g.rated <=> attributes.rated \in {NotGiven, "true"}
         /\ g.chess = NewGame([color \in Color |-> g.player[color].time],
                              [color \in Color |-> g.player[color].inc], "white", timed,
                              attributes.autoflag \in {NotGiven, "true"})
         /\ g = [kind |-> "game", category |-> g.category, player |-> g.player,
                 colormap |-> g.colormap, rated |-> g.rated, chess |-> g.chess]
<1> DEFINE first == IF q[1].color = "black" THEN 2 ELSE 1
           player == [white |-> q[first], black |-> q[3 - first]]
           color == [jid \in {q[1].jid, q[2].jid} |->
                       IF player["white"].jid = jid THEN player["white"].color
                       ELSE player["black"].color]
<1>1. g = [kind |-> "game", category |-> attributes.category, player |-> player,
           colormap |-> color, rated |-> attributes.rated \in {NotGiven, "true"},
           chess |-> NewGame([c \in Color |-> player[c].time],
                             [c \in Color |-> player[c].inc], "white", timed,
                             attributes.autoflag \in {NotGiven, "true"})]
  BY Zenon DEF newGame
<1>2. \/ first = 1 /\ 3 - first = 2 /\ q[1].color = "white" /\ q[2].color = "black"
      \/ first = 2 /\ 3 - first = 1 /\ q[1].color = "black" /\ q[2].color = "white"
  BY DEF Opponent, Color
<1>3. player["white"] = q[first] /\ player["black"] = q[3 - first]
  OBVIOUS
<1> HIDE DEF first, player
<1>4. /\ DOMAIN color = {q[1].jid, q[2].jid}
      /\ \A i \in 1..2 : color[q[i].jid] = q[i].color
  BY <1>2, <1>3
<1> HIDE DEF color
<1>5. \A c \in Color : /\ player[c].color = c /\ color[player[c].jid] = c
                       /\ \E i \in 1..2 : player[c] = q[i]
  BY <1>2, <1>3, <1>4 DEF Color
<1>8. \A i \in 1..2 : player[q[i].color] = q[i]
  BY <1>2, <1>3
<1>6. /\ g.player = player /\ g.colormap = color
      /\ g.rated = (attributes.rated \in {NotGiven, "true"})
      /\ g.chess = NewGame([c \in Color |-> player[c].time],
                           [c \in Color |-> player[c].inc], "white", timed,
                           attributes.autoflag \in {NotGiven, "true"})
      /\ g = [kind |-> "game", category |-> g.category, player |-> g.player,
              colormap |-> g.colormap, rated |-> g.rated, chess |-> g.chess]
  BY <1>1
<1>7. Cardinality({q[1].jid, q[2].jid}) = 2
  <2>1. Cardinality({q[1].jid}) = 1 /\ IsFiniteSet({q[1].jid})
    BY FS_Singleton
  <2>2. Cardinality({q[1].jid} \cup {q[2].jid}) = 1 + 1
    BY <2>1, FS_AddElement
  <2>3. {q[1].jid} \cup {q[2].jid} = {q[1].jid, q[2].jid}
    OBVIOUS
  <2> QED BY <2>2, <2>3
<1> QED BY <1>4, <1>5, <1>6, <1>7, <1>8

-----------------------------------------------------------------------------
(* What clients send: times and increments are numbers of seconds.         *)
Sent(offers) ==
  \A offer \in offers :
    /\ offer = [kind |-> "offer", category |-> offer.category, rated |-> offer.rated,
                autoflag |-> offer.autoflag, players |-> offer.players]
    /\ Len(offer.players) \in Nat
    /\ offer.players = [i \in 1..Len(offer.players) |->
         PlayerTag(offer.players[i].jid, offer.players[i].color, offer.players[i].time,
                   offer.players[i].inc)]
    /\ \A i \in 1..Len(offer.players) :
         offer.players[i].time \in Nat /\ offer.players[i].inc \in Int

(* A record with the fields of a game of chess.                            *)
ChessRecord(done, resign, time_over, time, inc, last, turns, turn, position, timed, flag) ==
  [done |-> done, resign |-> resign, time_over |-> time_over, time |-> time, inc |-> inc,
   time_of_last_move |-> last, turns_restart |-> turns, turn |-> turn,
   position |-> position, timed |-> timed, auto_flag |-> flag]

IsChess(c) ==
  c = ChessRecord(c.done, c.resign, c.time_over, c.time, c.inc, c.time_of_last_move,
                  c.turns_restart, c.turn, c.position, c.timed, c.auto_flag)

(* What stands was made of a valid offer.                                   *)
TermsInv ==
  \/ terms = None /\ game = None
  \/ /\ Sent({asked}) /\ validateXML(asked, 2) /\ Cardinality(Jids(asked)) = 2
     /\ terms = create(asked)
  \/ /\ Sent({asked}) /\ validateXML(asked, 1)
     /\ terms = createAnnouncement(asked)

(* The clocks count from the third move, which is white's, and the fourth. *)
FirstCounted(color) == IF color = "white" THEN 3 ELSE 4

Clock(g, color) ==
  IF g.chess.timed /\ g.chess.turns_restart >= FirstCounted(color)
  THEN g.player[color].time + g.chess.inc[color] ELSE g.player[color].time

ClocksInv(g) ==
  LET chess == g.chess IN
  /\ chess.time_of_last_move = 0 /\ chess.turns_restart \in 0..MovesAtOnce
  /\ chess.turn \in Color /\ chess.inc \in [Color -> Int] /\ chess.time \in [Color -> Int]
  /\ \A color \in Color : /\ g.player[color].time \in Nat
                           /\ chess.time[color] = Clock(g, color)
  /\ chess.timed => (chess.turn = "white" <=> chess.turns_restart \in {0, 2, 4})
  /\ chess.timed /\ chess.auto_flag /\ chess.done = "no-reason" /\ chess.turns_restart >= 2 =>
       \A color \in Color : chess.time[color] > 0

(* Only the clocks of the category untimed begin at zero.                  *)
ChessInv ==
  game # None =>
    /\ game = [kind |-> "game", category |-> game.category, player |-> game.player,
               colormap |-> game.colormap, rated |-> game.rated, chess |-> game.chess]
    /\ IsChess(game.chess) /\ ClocksInv(game)
    /\ \A color \in Color : game.player[color].time = 0 <=> asked.category = "untimed"

FactoryInv == TermsInv /\ ChessInv /\ GameAsOffered

(* A record of a game of chess has the fields it was made of.               *)
LEMMA ChessFields ==
  ASSUME NEW done, NEW resign, NEW time_over, NEW time, NEW inc, NEW last, NEW turns, NEW turn,
         NEW position, NEW timed, NEW flag, NEW c,
         c = ChessRecord(done, resign, time_over, time, inc, last, turns, turn, position, timed, flag)
  PROVE  /\ IsChess(c) /\ c.done = done /\ c.resign = resign /\ c.time_over = time_over
         /\ c.time = time /\ c.inc = inc /\ c.time_of_last_move = last
         /\ c.turns_restart = turns /\ c.turn = turn /\ c.position = position
         /\ c.timed = timed /\ c.auto_flag = flag
<1>1. /\ c.done = done /\ c.resign = resign /\ c.time_over = time_over
      /\ c.time = time /\ c.inc = inc /\ c.time_of_last_move = last
      /\ c.turns_restart = turns /\ c.turn = turn /\ c.position = position
      /\ c.timed = timed /\ c.auto_flag = flag
  BY DEF ChessRecord
<1> QED BY <1>1, Zenon DEF IsChess

(* What a valid offer is.                                                  *)
LEMMA ValidOffer ==
  ASSUME NEW offer, Sent({offer}), NEW n \in {1, 2}, validateXML(offer, n)
  PROVE  /\ Len(offer.players) = n /\ DOMAIN offer.players = 1..n
         /\ \A i \in 1..n : /\ offer.players[i].color \in Color \cup {NotGiven}
                            /\ offer.players[i].time \in Nat /\ offer.players[i].inc \in Int
                            /\ offer.category # "untimed" => offer.players[i].time > 0
         /\ offer.category \in {"standard", "blitz", "lightning", "untimed"}
         /\ offer.category # "untimed" =>
              \A i, j \in 1..n : offer.players[i].time = offer.players[j].time
         /\ \A i, j \in 1..n : i # j /\ offer.players[i].color # NotGiven =>
              offer.players[j].color = NotGiven \/ offer.players[i].color # offer.players[j].color
         /\ n = 2 /\ offer.players[2].color # NotGiven => offer.players[1].color # NotGiven
<1> DEFINE players == offer.players
<1>1. /\ Len(players) = n /\ DOMAIN players = 1..n
      /\ \A i \in 1..n : players[i].time \in Nat /\ players[i].inc \in Int
  BY DEF Sent, validateXML
<1>2. \A i \in 1..n : i \in Chosen(players) <=> players[i].color # NotGiven
  BY <1>1 DEF Chosen
<1>3. /\ \A i \in 1..n : isTimeValid(players[i], offer.category)
      /\ offer.category # "untimed" =>
           \A i, j \in 1..n : players[i].time = players[j].time
      /\ \A i \in Chosen(players) : players[i].color \in Color
      /\ \A i, j \in Chosen(players) : i # j => players[i].color # players[j].color
      /\ Cardinality(Chosen(players)) \in {0, n}
  BY <1>1 DEF validateXML
<1>4. \A i \in 1..n : offer.category # "untimed" => players[i].time > 0
  <2> SUFFICES ASSUME NEW i \in 1..n, offer.category # "untimed" PROVE players[i].time > 0
    OBVIOUS
  <2>1. isTimeValid(players[i], offer.category) /\ players[i].time \in Nat
    BY <1>1, <1>3
  <2>2. \/ players[i].time >= 60 * 11 \/ players[i].time \in 60 * 3..60 * 10
        \/ players[i].time \in 60 * 1..60 * 2
    BY <2>1 DEF isTimeValid, Minutes
  <2>3. ASSUME NEW t \in Nat, t >= 60 * 11 \/ t \in 60 * 3..60 * 10 \/ t \in 60 * 1..60 * 2
        PROVE  t > 0
    <3>1. 60 * 11 = 660 /\ 60 * 3 = 180 /\ 60 * 1 = 60
      OBVIOUS
    <3> QED BY <2>3, <3>1
  <2> HIDE DEF players
  <2> QED BY <2>1, <2>2, <2>3
<1>5. n = 2 /\ players[2].color # NotGiven => players[1].color # NotGiven
  <2> SUFFICES ASSUME n = 2, players[2].color # NotGiven, players[1].color = NotGiven PROVE FALSE
    OBVIOUS
  <2>1. Chosen(players) = {2}
    BY <1>1 DEF Chosen
  <2> QED BY <2>1, <1>3, FS_Singleton
<1>6. offer.category \in {"standard", "blitz", "lightning", "untimed"}
  BY <1>1, <1>3 DEF isTimeValid
<1> QED BY <1>1, <1>2, <1>3, <1>4, <1>5, <1>6

(* A game begins, of players and attributes as they were asked for.        *)
LEMMA GameBegins ==
  ASSUME NEW q, \A i \in 1..2 : q[i].color \in Color /\ q[i].time \in Nat /\ q[i].inc \in Int,
         q[2].color = Opponent(q[1].color), q[1].jid # q[2].jid,
         DOMAIN asked.players \subseteq 1..2, DOMAIN asked.players # {},
         \A i \in DOMAIN asked.players :
           /\ q[i].jid = asked.players[i].jid /\ q[i].inc = asked.players[i].inc
           /\ asked.players[i].color # NotGiven => q[i].color = asked.players[i].color,
         terms.kind = "announcement" => q[1].inc = q[2].inc,
         asked.category = "untimed" => \A i \in 1..2 : q[i].time = 0,
         asked.category # "untimed" =>
           \A i \in 1..2 : /\ q[i].time > 0
                           /\ \A j \in DOMAIN asked.players : q[i].time = asked.players[j].time,
         terms.rated \in {NotGiven, "true"} <=> asked.rated \in {NotGiven, "true"},
         terms.autoflag \in {NotGiven, "true"} <=> asked.autoflag \in {NotGiven, "true"},
         NEW timed \in BOOLEAN,
         timed <=> terms.kind = "announcement" \/ asked.category # "untimed",
         game' = newGame(q, terms, timed), UNCHANGED <<asked, terms>>
  PROVE  ChessInv' /\ GameAsOffered'
<1> DEFINE g == game'
<1>1. /\ \A color \in Color : /\ g.player[color].color = color
                               /\ g.colormap[g.player[color].jid] = color
                               /\ \E i \in 1..2 : g.player[color] = q[i]
      /\ DOMAIN g.colormap = {q[1].jid, q[2].jid}
      /\ \A i \in 1..2 : g.colormap[q[i].jid] = q[i].color /\ g.player[q[i].color] = q[i]
      /\ Cardinality(DOMAIN g.colormap) = 2
      /\ g.rated <=> terms.rated \in {NotGiven, "true"}
      /\ g.chess = NewGame([color \in Color |-> g.player[color].time],
                           [color \in Color |-> g.player[color].inc], "white", timed,
                           terms.autoflag \in {NotGiven, "true"})
      /\ g = [kind |-> "game", category |-> g.category, player |-> g.player,
              colormap |-> g.colormap, rated |-> g.rated, chess |-> g.chess]
  <2> DEFINE of == terms
  <2>1. g = newGame(q, of, timed)
    OBVIOUS
  <2> HIDE DEF of, g
  <2>2. /\ \A color \in Color : /\ g.player[color].color = color
                                 /\ g.colormap[g.player[color].jid] = color
                                 /\ \E i \in 1..2 : g.player[color] = q[i]
        /\ DOMAIN g.colormap = {q[1].jid, q[2].jid}
        /\ \A i \in 1..2 : g.colormap[q[i].jid] = q[i].color /\ g.player[q[i].color] = q[i]
        /\ Cardinality(DOMAIN g.colormap) = 2
        /\ g.rated <=> of.rated \in {NotGiven, "true"}
        /\ g.chess = NewGame([color \in Color |-> g.player[color].time],
                             [color \in Color |-> g.player[color].inc], "white", timed,
                             of.autoflag \in {NotGiven, "true"})
        /\ g = [kind |-> "game", category |-> g.category, player |-> g.player,
                colormap |-> g.colormap, rated |-> g.rated, chess |-> g.chess]
    BY <2>1, NewGameOfTwo
  <2> QED BY <2>2 DEF of
<1> DEFINE time == [color \in Color |-> g.player[color].time]
           inc == [color \in Color |-> g.player[color].inc]
           flag == terms.autoflag \in {NotGiven, "true"}
<1>2. g.chess = ChessRecord("no-reason", "none", "none", time, inc, 0, 0, "white", "open", timed,
                            flag)
  BY <1>1, Zenon DEF NewGame, ChessRecord
<1>3. \A color \in Color : /\ g.player[color].time \in Nat /\ g.player[color].inc \in Int
                           /\ g.player[color].time = 0 <=> asked.category = "untimed"
                           /\ asked.category # "untimed" =>
                                /\ g.player[color].time > 0
                                /\ \A i \in DOMAIN asked.players :
                                     g.player[color].time = asked.players[i].time
  BY <1>1
<1>4. /\ time \in [Color -> Int] /\ inc \in [Color -> Int]
      /\ \A color \in Color : time[color] = g.player[color].time /\ inc[color] = g.player[color].inc
  BY <1>3
<1> HIDE DEF time, inc, flag, g
<1>5. /\ IsChess(g.chess) /\ g.chess.inc = inc /\ g.chess.time_of_last_move = 0
      /\ g.chess.turns_restart = 0 /\ g.chess.turn = "white" /\ g.chess.time = time
      /\ g.chess.done = "no-reason" /\ g.chess.timed = timed
      /\ g.chess.auto_flag = flag
  BY <1>2, ChessFields
<1>8. /\ \A i \in DOMAIN asked.players :
           g.chess.inc[g.colormap[asked.players[i].jid]] = asked.players[i].inc
      /\ terms.kind = "announcement" => g.chess.inc["white"] = g.chess.inc["black"]
  <2>1. \A i \in 1..2 : g.chess.inc[g.colormap[q[i].jid]] = q[i].inc
    BY <1>1, <1>4, <1>5
  <2>2. terms.kind = "announcement" => \A color \in Color : g.player[color].inc = q[1].inc
    BY <1>1
  <2> QED BY <1>4, <1>5, <2>1, <2>2 DEF Color
<1>6. ChessInv'
  <2>1. ClocksInv(g)
    <3>1. \A color \in Color : Clock(g, color) = g.player[color].time
      BY <1>5 DEF Clock, FirstCounted
    <3> QED BY <1>3, <1>4, <1>5, <3>1 DEF ClocksInv, Color, MovesAtOnce
  <2>2. game' = g /\ asked' = asked /\ terms' = terms
    BY DEF g
  <2> QED BY <1>1, <1>3, <1>5, <2>1, <2>2 DEF ChessInv
<1>7. GameAsOffered'
  <2>1. game' = g /\ asked' = asked /\ terms' = terms
    BY DEF g
  <2>2. \A i \in DOMAIN asked.players :
          /\ asked.players[i].jid \in DOMAIN g.colormap
          /\ asked.players[i].color # NotGiven =>
               g.colormap[asked.players[i].jid] = asked.players[i].color
          /\ g.chess.inc[g.colormap[asked.players[i].jid]] = asked.players[i].inc
          /\ asked.category # "untimed" =>
               \A color \in Color : /\ g.player[color].time = asked.players[i].time
                                    /\ asked.players[i].time > 0
    BY <1>1, <1>3, <1>8
  <2>3. g.rated <=> asked.rated \in {NotGiven, "true"}
    BY <1>1
  <2>4. g.chess.auto_flag <=> asked.autoflag \in {NotGiven, "true"}
    BY <1>5 DEF flag
  <2>5. g.chess.timed <=> terms.kind = "announcement" \/ asked.category # "untimed"
    BY <1>5
  <2>6. g.chess.done # "draw-timeover" /\ \A color \in Color : g.chess.done # TimeOver(color)
    BY <1>5 DEF TimeOver
  <2>7. /\ \A color \in Color : g.player[color].color = color
                                 /\ g.colormap[g.player[color].jid] = color
        /\ Cardinality(DOMAIN g.colormap) = 2
    BY <1>1
  <2> QED BY ONLY <1>8, <2>1, <2>2, <2>3, <2>4, <2>5, <2>6, <2>7, Zenon DEF GameAsOffered
<1> QED BY <1>6, <1>7

-----------------------------------------------------------------------------
(* The steps.                                                              *)

(* An offer that is accepted stands, and there is no game yet.              *)
LEMMA OfferStanding ==
  ASSUME TermsInv, NEW offer, Sent({offer}),
         handleOffer(offer) \/ createFromOffer(offer)
  PROVE  TermsInv' /\ game' = None
<1>1. CASE handleOffer(offer)
  BY <1>1 DEF TermsInv, handleOffer
<1>2. CASE createFromOffer(offer)
  <2>1. game = None
    BY <1>2 DEF TermsInv, createFromOffer, create, createAnnouncement, None
  <2> QED BY <1>2, <2>1 DEF TermsInv, createFromOffer
<1> QED BY <1>1, <1>2

(* What is kept of the attributes means what was asked for.                *)
LEMMA Attributes ==
  ASSUME NEW a
  PROVE  Default(a) \in {NotGiven, "true"} <=> a \in {NotGiven, "true"}
BY DEF Default

(* The game of a match that everybody accepted.                             *)
LEMMA MatchBegins ==
  ASSUME TermsInv, NEW drawn \in Color, closeMatch(drawn)
  PROVE  TermsInv' /\ ChessInv' /\ GameAsOffered'
<1>1. /\ Sent({asked}) /\ validateXML(asked, 2) /\ Cardinality(Jids(asked)) = 2
      /\ terms = create(asked)
  BY DEF TermsInv, closeMatch, create, createAnnouncement, None
<1> DEFINE players == asked.players
           mine == Validated(asked).players
<1>2. /\ DOMAIN players = 1..2
      /\ \A i \in 1..2 : /\ players[i].color \in Color \cup {NotGiven}
                         /\ players[i].time \in Nat /\ players[i].inc \in Int
                         /\ asked.category # "untimed" => players[i].time > 0
      /\ asked.category # "untimed" => \A i, j \in 1..2 : players[i].time = players[j].time
      /\ \A i, j \in 1..2 : i # j /\ players[i].color # NotGiven =>
           players[j].color = NotGiven \/ players[i].color # players[j].color
      /\ players[2].color # NotGiven => players[1].color # NotGiven
  BY <1>1, ValidOffer
<1>3. \A i \in 1..2 : players[i] = PlayerTag(players[i].jid, players[i].color, players[i].time,
                                              players[i].inc)
  BY <1>1, <1>2 DEF Sent
<1>4. /\ mine = [i \in 1..2 |-> IF asked.category = "untimed" THEN [players[i] EXCEPT !.time = 0]
                                ELSE players[i]]
      /\ terms.players = mine /\ terms.kind = "match" /\ terms.category = asked.category
      /\ terms.rated = asked.rated /\ terms.autoflag = asked.autoflag
  BY <1>1, <1>2 DEF Sent, Validated, create
<1>5. /\ DOMAIN mine = 1..2
      /\ \A i \in 1..2 : /\ mine[i].jid = players[i].jid /\ mine[i].color = players[i].color
                         /\ mine[i].time = IF asked.category = "untimed" THEN 0 ELSE players[i].time
                         /\ mine[i].inc = players[i].inc
  BY <1>3, <1>4 DEF PlayerTag
<1>6. players[1].jid # players[2].jid
  <2> SUFFICES ASSUME players[1].jid = players[2].jid PROVE FALSE
    OBVIOUS
  <2>1. Jids(asked) = {players[1].jid}
    BY <1>2 DEF Jids
  <2>2. Cardinality({players[1].jid}) = 1
    BY FS_Singleton
  <2> QED BY <1>1, <2>1, <2>2
<1> HIDE DEF mine
<1> DEFINE q == getPlayersFromXML(mine, drawn)
           timed == terms.category # "untimed"
<1>7. /\ \A i \in 1..2 : /\ q[i].jid = mine[i].jid /\ q[i].time = mine[i].time
                         /\ q[i].inc = mine[i].inc /\ q[i].color \in Color
                         /\ mine[i].color # NotGiven => q[i].color = mine[i].color
      /\ q[2].color = Opponent(q[1].color)
  <2>1. /\ \A i \in 1..2 : mine[i].color \in Color \cup {NotGiven}
        /\ \A i, j \in 1..2 : i # j /\ mine[i].color # NotGiven =>
             mine[j].color = NotGiven \/ mine[i].color # mine[j].color
        /\ mine[2].color # NotGiven => mine[1].color # NotGiven
    BY <1>2, <1>5
  <2> QED BY <1>5, <2>1, TwoColors
<1>8. game' = newGame(q, terms, timed) /\ UNCHANGED <<asked, terms>>
  BY <1>4 DEF closeMatch, MatchGame
<1> HIDE DEF q
<1>9. /\ timed \in BOOLEAN /\ (timed <=> terms.kind = "announcement" \/ asked.category # "untimed")
      /\ \A i \in 1..2 : q[i].color \in Color /\ q[i].time \in Nat /\ q[i].inc \in Int
      /\ q[1].jid # q[2].jid
      /\ DOMAIN asked.players \subseteq 1..2 /\ DOMAIN asked.players # {}
      /\ \A i \in DOMAIN asked.players :
           /\ q[i].jid = asked.players[i].jid /\ q[i].inc = asked.players[i].inc
           /\ asked.players[i].color # NotGiven => q[i].color = asked.players[i].color
      /\ terms.kind = "announcement" => q[1].inc = q[2].inc
      /\ asked.category = "untimed" => \A i \in 1..2 : q[i].time = 0
      /\ asked.category # "untimed" =>
           \A i \in 1..2 : /\ q[i].time > 0
                           /\ \A j \in DOMAIN asked.players : q[i].time = asked.players[j].time
  BY <1>2, <1>4, <1>5, <1>6, <1>7
<1> HIDE DEF timed, players
<1>10. ChessInv' /\ GameAsOffered'
  BY <1>4, <1>7, <1>8, <1>9, GameBegins
<1>11. TermsInv'
  BY <1>1, <1>8 DEF TermsInv
<1> QED BY <1>10, <1>11

(* The game of an announcement and of who accepts it.                       *)
LEMMA AnnouncementBegins ==
  ASSUME TermsInv, NEW user, NEW drawn \in Color, acceptAnnouncement(user, drawn)
  PROVE  TermsInv' /\ ChessInv' /\ GameAsOffered'
<1>1. Sent({asked}) /\ validateXML(asked, 1) /\ terms = createAnnouncement(asked)
  BY DEF TermsInv, acceptAnnouncement, create, createAnnouncement, None
<1> DEFINE tag == asked.players[1]
           owner == terms.players[1]
           mine == <<owner, [owner EXCEPT !.jid = user, !.color = NotGiven]>>
<1>2. /\ DOMAIN asked.players = 1..1
      /\ tag.color \in Color \cup {NotGiven} /\ tag.time \in Nat /\ tag.inc \in Int
      /\ asked.category # "untimed" => tag.time > 0
      /\ asked.category \in {"standard", "blitz", "lightning", "untimed"}
  BY <1>1, ValidOffer
<1>3. tag = PlayerTag(tag.jid, tag.color, tag.time, tag.inc)
  BY <1>1, <1>2 DEF Sent
<1>4. /\ owner = IF asked.category = "untimed" THEN [tag EXCEPT !.time = 0] ELSE tag
      /\ terms.kind = "announcement" /\ terms.category = asked.category
      /\ terms.rated = Default(asked.rated) /\ terms.autoflag = Default(asked.autoflag)
  BY <1>1, <1>2 DEF Sent, Validated, createAnnouncement
<1>5. /\ owner.jid = tag.jid /\ owner.color = tag.color /\ owner.inc = tag.inc
      /\ owner.time = IF asked.category = "untimed" THEN 0 ELSE tag.time
      /\ owner = PlayerTag(owner.jid, owner.color, owner.time, owner.inc)
  BY <1>3, <1>4 DEF PlayerTag
<1>6. user # owner.jid
  BY DEF acceptAnnouncement
<1> HIDE DEF owner
<1>7. /\ DOMAIN mine = 1..2 /\ mine[1] = owner
      /\ mine[2].jid = user /\ mine[2].color = NotGiven /\ mine[2].time = owner.time
      /\ mine[2].inc = owner.inc
  <2>1. mine[2] = [owner EXCEPT !.jid = user, !.color = NotGiven] /\ mine[1] = owner
    BY SMT
  <2>2. DOMAIN mine = 1..2
    OBVIOUS
  <2>3. DOMAIN owner = {"jid", "color", "time", "inc"}
    BY <1>5 DEF PlayerTag
  <2> HIDE DEF mine
  <2> QED BY <2>1, <2>2, <2>3
<1> HIDE DEF mine
<1> DEFINE q == getPlayersFromXML(mine, drawn)
           timed == terms.category # "Untimed"
<1>8. /\ \A i \in 1..2 : /\ q[i].jid = mine[i].jid /\ q[i].time = mine[i].time
                         /\ q[i].inc = mine[i].inc /\ q[i].color \in Color
                         /\ mine[i].color # NotGiven => q[i].color = mine[i].color
      /\ q[2].color = Opponent(q[1].color)
  <2>1. /\ \A i \in 1..2 : mine[i].color \in Color \cup {NotGiven}
        /\ \A i, j \in 1..2 : i # j /\ mine[i].color # NotGiven =>
             mine[j].color = NotGiven \/ mine[i].color # mine[j].color
        /\ mine[2].color # NotGiven => mine[1].color # NotGiven
    BY <1>2, <1>5, <1>7
  <2> QED BY <1>7, <2>1, TwoColors
<1>9. game' = newGame(q, terms, timed) /\ UNCHANGED <<asked, terms>>
  BY Zenon DEF acceptAnnouncement, AnnouncementGame, owner, mine
<1> HIDE DEF q
<1>10. /\ timed \in BOOLEAN /\ (timed <=> terms.kind = "announcement" \/ asked.category # "untimed")
       /\ \A i \in 1..2 : q[i].color \in Color /\ q[i].time \in Nat /\ q[i].inc \in Int
       /\ q[1].jid # q[2].jid
       /\ DOMAIN asked.players \subseteq 1..2 /\ DOMAIN asked.players # {}
       /\ \A i \in DOMAIN asked.players :
            /\ q[i].jid = asked.players[i].jid /\ q[i].inc = asked.players[i].inc
            /\ asked.players[i].color # NotGiven => q[i].color = asked.players[i].color
       /\ terms.kind = "announcement" => q[1].inc = q[2].inc
       /\ asked.category = "untimed" => \A i \in 1..2 : q[i].time = 0
       /\ asked.category # "untimed" =>
            \A i \in 1..2 : /\ q[i].time > 0
                            /\ \A j \in DOMAIN asked.players : q[i].time = asked.players[j].time
  <2>1. timed \in BOOLEAN /\ (timed <=> terms.kind = "announcement" \/ asked.category # "untimed")
    BY <1>2, <1>4
  <2> HIDE DEF timed
  <2>2. \A i \in 1..2 : q[i].time = owner.time /\ q[i].inc = owner.inc /\ q[i].color \in Color
    BY <1>7, <1>8
  <2>3. /\ owner.time \in Nat /\ owner.inc = tag.inc /\ tag.inc \in Int
        /\ asked.category # "untimed" => owner.time > 0 /\ owner.time = tag.time
        /\ asked.category = "untimed" => owner.time = 0
    BY <1>2, <1>5
  <2>4. /\ q[1].jid # q[2].jid /\ q[1].jid = tag.jid
        /\ tag.color # NotGiven => q[1].color = tag.color
    BY <1>5, <1>6, <1>7, <1>8
  <2>5. \A i \in DOMAIN asked.players : i = 1 /\ i \in 1..2
    BY <1>2
  <2>6. 1 \in DOMAIN asked.players
    BY <1>2
  <2> QED BY <2>1, <2>2, <2>3, <2>4, <2>5, <2>6
<1>11. /\ terms.rated \in {NotGiven, "true"} <=> asked.rated \in {NotGiven, "true"}
       /\ terms.autoflag \in {NotGiven, "true"} <=> asked.autoflag \in {NotGiven, "true"}
  BY <1>4, Attributes
<1> HIDE DEF timed, tag
<1>12. ChessInv' /\ GameAsOffered'
  BY <1>8, <1>9, <1>10, <1>11, GameBegins
<1>13. TermsInv'
  BY <1>1, <1>9 DEF TermsInv
<1> QED BY <1>12, <1>13

(* A move at once: the clock of its player gets the increment, or stays.    *)
LEMMA MovedAtOnce ==
  ASSUME NEW c, IsChess(c), c.time_of_last_move = 0, c.turns_restart \in Nat, c.turn \in Color,
         c.time \in [Color -> Int], c.inc \in [Color -> Int],
         NEW m, m = Move(c, c.turn, "open", 0)
  PROVE  /\ IsChess(m) /\ m.inc = c.inc /\ m.time_of_last_move = 0
         /\ m.turns_restart = IF c.timed THEN c.turns_restart + 1 ELSE c.turns_restart
         /\ m.turn = Opponent(c.turn)
         /\ m.time = [c.time EXCEPT ![c.turn] =
                        IF c.timed /\ c.turns_restart >= 2 THEN @ + c.inc[c.turn] ELSE @]
         /\ m.done = "no-reason" /\ m.timed = c.timed /\ m.auto_flag = c.auto_flag
<1> DEFINE t == c.turn
           time == [c.time EXCEPT ![t] = IF c.timed /\ c.turns_restart >= 2
                      THEN @ - (0 - c.time_of_last_move) + c.inc[t] ELSE @]
           turns == IF c.timed THEN c.turns_restart + 1 ELSE c.turns_restart
           last == IF c.timed THEN 0 ELSE c.time_of_last_move
           done == EndOfPosition(Opponent(t), "open", c.auto_flag)
<1>1. done = "no-reason" /\ last = 0
  BY DEF EndOfPosition
<1>2. time = [c.time EXCEPT ![t] = IF c.timed /\ c.turns_restart >= 2 THEN @ + c.inc[t] ELSE @]
  <2>1. c.time[t] \in Int /\ c.inc[t] \in Int
    OBVIOUS
  <2>2. c.time[t] - (0 - c.time_of_last_move) + c.inc[t] = c.time[t] + c.inc[t]
    BY <2>1
  <2> QED BY <2>2
<1>3. turns = IF c.timed THEN c.turns_restart + 1 ELSE c.turns_restart
  OBVIOUS
<1>4. m = [c EXCEPT !.turn = Opponent(t), !.position = "open", !.done = done, !.time[t] =
              IF c.timed /\ c.turns_restart >= 2 THEN @ - (0 - c.time_of_last_move) + c.inc[t] ELSE @,
            !.time_of_last_move = IF c.timed THEN 0 ELSE @,
            !.turns_restart = IF c.timed THEN @ + 1 ELSE @]
  BY Zenon DEF Move
<1>5. m = [c EXCEPT !.turn = Opponent(t), !.position = "open", !.done = done, !.time = time,
            !.time_of_last_move = last, !.turns_restart = turns]
  BY <1>4 DEF IsChess, ChessRecord
<1> HIDE DEF time, turns, last, done
<1>6. ASSUME NEW opponent, opponent = Opponent(t)
      PROVE  m = ChessRecord(done, c.resign, c.time_over, time, c.inc, last, turns, opponent,
                             "open", c.timed, c.auto_flag)
  <2>1. PICK k1, k2, k3, k4, k5, k6, k7, k8, k9, k10, k11 :
          c = ChessRecord(k1, k2, k3, k4, k5, k6, k7, k8, k9, k10, k11)
    BY Zenon DEF IsChess
  <2>2. /\ c.resign = k2 /\ c.time_over = k3 /\ c.inc = k5 /\ c.timed = k10 /\ c.auto_flag = k11
    BY <2>1, ChessFields
  <2>3. m = [c EXCEPT !.turn = opponent, !.position = "open", !.done = done, !.time = time,
              !.time_of_last_move = last, !.turns_restart = turns]
    BY <1>5, <1>6
  <2>4. m = ChessRecord(done, k2, k3, time, k5, last, turns, opponent, "open", k10, k11)
    BY ONLY <2>1, <2>3 DEF ChessRecord
  <2> QED BY <2>2, <2>4
<1>7. m = ChessRecord(done, c.resign, c.time_over, time, c.inc, last, turns, Opponent(t),
                      "open", c.timed, c.auto_flag)
  BY <1>6
<1>8. /\ IsChess(m) /\ m.done = done /\ m.time = time /\ m.inc = c.inc
      /\ m.time_of_last_move = last /\ m.turns_restart = turns /\ m.turn = Opponent(t)
      /\ m.timed = c.timed /\ m.auto_flag = c.auto_flag
  BY <1>7, ChessFields
<1> QED BY <1>1, <1>2, <1>3, <1>8

(* The flags are looked at.                                                *)
LEMMA SeenAtOnce ==
  ASSUME NEW m, IsChess(m), m.done = "no-reason", NEW next, next = SeeTime(m, 0)
  PROVE  /\ IsChess(next) /\ next.inc = m.inc /\ next.time_of_last_move = m.time_of_last_move
         /\ next.turns_restart = m.turns_restart /\ next.turn = m.turn /\ next.time = m.time
         /\ next.timed = m.timed /\ next.auto_flag = m.auto_flag
         /\ \/ next.done = "no-reason" /\ (m.auto_flag => FallenFlags(m, 0) = {})
            \/ FallenFlags(m, 0) = Color /\ next.done = "draw-timeover"
            \/ \E color \in Color :
                 FallenFlags(m, 0) = {color} /\ next.done = TimeOver(color)
<1> DEFINE fallen == FallenFlags(m, 0)
           over == IF "black" \in fallen THEN "black" ELSE "white"
           code == CASE fallen = Color -> "draw-timeover"
                     [] fallen = {"white"} -> TimeOver("white")
                     [] fallen = {"black"} -> TimeOver("black")
<1>1. CASE next = m /\ (m.auto_flag => fallen = {})
  BY <1>1
<1>2. CASE fallen # {} /\ next = CheckTimeOver(m, 0)
  <2>1. next = [m EXCEPT !.time_over = over, !.done = code]
    BY <1>2, Zenon DEF CheckTimeOver
  <2>2. \/ fallen = Color /\ code = "draw-timeover"
        \/ \E color \in Color : fallen = {color} /\ code = TimeOver(color)
    <3>1. fallen \in SUBSET Color
      BY DEF FallenFlags
    <3> HIDE DEF fallen
    <3>2. fallen = Color \/ fallen = {"white"} \/ fallen = {"black"}
      BY <1>2, <3>1 DEF Color
    <3>3. Color # {"white"} /\ Color # {"black"} /\ {"white"} # {"black"}
      BY DEF Color
    <3>4. CASE fallen = Color
      BY <3>3, <3>4
    <3>5. CASE fallen = {"white"}
      BY <3>3, <3>5 DEF Color
    <3>6. CASE fallen = {"black"}
      BY <3>3, <3>6 DEF Color
    <3> QED BY <3>2, <3>4, <3>5, <3>6
  <2> HIDE DEF over, code, fallen
  <2>3. PICK k1, k2, k3, k4, k5, k6, k7, k8, k9, k10, k11 :
          m = ChessRecord(k1, k2, k3, k4, k5, k6, k7, k8, k9, k10, k11)
    BY Zenon DEF IsChess
  <2>4. next = ChessRecord(code, k2, over, k4, k5, k6, k7, k8, k9, k10, k11)
    BY ONLY <2>1, <2>3 DEF ChessRecord
  <2>5. /\ m.inc = k5 /\ m.time_of_last_move = k6 /\ m.turns_restart = k7 /\ m.turn = k8
        /\ m.time = k4 /\ m.timed = k10 /\ m.auto_flag = k11
    BY <2>3, ChessFields
  <2>6. /\ IsChess(next) /\ next.inc = k5 /\ next.time_of_last_move = k6
        /\ next.turns_restart = k7 /\ next.turn = k8 /\ next.time = k4
        /\ next.timed = k10 /\ next.auto_flag = k11 /\ next.done = code
    BY <2>4, ChessFields
  <2> QED BY <1>2, <2>2, <2>5, <2>6 DEF fallen
<1>3. \/ next = m /\ (m.auto_flag => fallen = {})
      \/ fallen # {} /\ next = CheckTimeOver(m, 0)
  BY Zenon DEF SeeTime, CheckTimeOver
<1> QED BY <1>1, <1>2, <1>3

(* The clocks after a move at once, and the flags that fall by it.         *)
LEMMA ClocksAfterMove ==
  ASSUME NEW g, ClocksInv(g), g.chess.done = "no-reason", g.chess.turns_restart < MovesAtOnce,
         NEW h, h.player = g.player,
         LET c == g.chess
             m == h.chess
         IN /\ m.inc = c.inc /\ m.time_of_last_move = 0
            /\ m.turns_restart = IF c.timed THEN c.turns_restart + 1 ELSE c.turns_restart
            /\ m.turn = Opponent(c.turn)
            /\ m.time = [c.time EXCEPT ![c.turn] =
                           IF c.timed /\ c.turns_restart >= 2 THEN @ + c.inc[c.turn] ELSE @]
            /\ m.timed = c.timed /\ m.auto_flag = c.auto_flag
            /\ m.done # "no-reason" \/ (m.auto_flag => FallenFlags(m, 0) = {}),
         NEW none \in BOOLEAN,
         \A color \in Color : g.player[color].time = 0 <=> none
  PROVE  /\ ClocksInv(h)
         /\ h.chess.auto_flag /\ FallenFlags(h.chess, 0) = Color => none /\ h.chess.timed
         /\ \A color \in Color : h.chess.auto_flag /\ FallenFlags(h.chess, 0) = {color} =>
              ~none /\ g.player[color].time + h.chess.inc[color] <= 0
<1> DEFINE c == g.chess
           m == h.chess
           t == c.turn
           o == Opponent(t)
<1>1. /\ c.time_of_last_move = 0 /\ c.turns_restart \in 0..3 /\ t \in Color
      /\ c.inc \in [Color -> Int] /\ c.time \in [Color -> Int]
      /\ \A color \in Color : g.player[color].time \in Nat /\ c.time[color] = Clock(g, color)
      /\ c.timed => (t = "white" <=> c.turns_restart \in {0, 2})
      /\ c.timed /\ c.auto_flag /\ c.turns_restart >= 2 => \A color \in Color : c.time[color] > 0
  BY DEF ClocksInv, MovesAtOnce
<1>2. /\ m.inc = c.inc /\ m.time_of_last_move = 0
      /\ m.turns_restart = IF c.timed THEN c.turns_restart + 1 ELSE c.turns_restart
      /\ m.turn = o
      /\ m.time = [c.time EXCEPT ![t] =
                     IF c.timed /\ c.turns_restart >= 2 THEN @ + c.inc[t] ELSE @]
      /\ m.timed = c.timed /\ m.auto_flag = c.auto_flag
      /\ m.done # "no-reason" \/ (m.auto_flag => FallenFlags(m, 0) = {})
  OBVIOUS
<1>3. o \in Color /\ o # t /\ Color = {t, o} /\ (o = "white" <=> t # "white")
  BY <1>1 DEF Opponent, Color
<1>4. /\ m.time \in [Color -> Int] /\ m.time[o] = c.time[o]
      /\ m.time[t] = IF c.timed /\ c.turns_restart >= 2 THEN c.time[t] + c.inc[t] ELSE c.time[t]
  <2> HIDE DEF c, m, t, o
  <2> QED BY <1>1, <1>2, <1>3
<1> HIDE DEF c, m, t, o
<1>5. m.timed => m.turns_restart = c.turns_restart + 1 /\ m.turns_restart \in 1..4
  BY <1>1, <1>2
<1>6. \A color \in Color :
        /\ c.time[color] = IF c.timed /\ c.turns_restart >= FirstCounted(color)
                           THEN g.player[color].time + c.inc[color] ELSE g.player[color].time
        /\ g.player[color].time \in Nat /\ c.inc[color] \in Int
  BY <1>1 DEF Clock, c
<1>7. \A color \in Color :
        m.time[color] = IF m.timed /\ m.turns_restart >= FirstCounted(color)
                        THEN g.player[color].time + m.inc[color] ELSE g.player[color].time
  <2>1. CASE c.timed
    <3>1. c.turns_restart \in {0, 1, 2, 3}
      BY <1>1
    <3> QED BY <1>1, <1>2, <1>3, <1>4, <1>6, <2>1, <3>1 DEF FirstCounted
  <2>2. CASE ~c.timed
    BY <1>2, <1>3, <1>4, <1>6, <2>2
  <2> QED BY <2>1, <2>2
<1>8. \A color \in Color :
        color \in FallenFlags(m, 0) <=> m.timed /\ m.turns_restart >= 2 /\ m.time[color] <= 0
  <2> SUFFICES ASSUME NEW color \in Color PROVE TimeLeft(m, color, 0) = m.time[color]
    BY DEF FallenFlags
  <2>1. m.time[color] \in Int
    BY <1>4
  <2> QED BY <1>2, <2>1 DEF TimeLeft
<1>9. ClocksInv(h)
  <2>1. \A color \in Color : /\ h.player[color].time \in Nat
                             /\ m.time[color] = Clock(h, color)
    BY <1>6, <1>7 DEF Clock, m
  <2>2. m.turns_restart \in 0..4 /\ (m.timed => (m.turn = "white" <=> m.turns_restart \in {0, 2, 4}))
    BY <1>1, <1>2, <1>3
  <2>3. m.timed /\ m.auto_flag /\ m.done = "no-reason" /\ m.turns_restart >= 2 =>
          \A color \in Color : m.time[color] > 0
    <3> SUFFICES ASSUME m.timed, m.auto_flag, m.done = "no-reason", m.turns_restart >= 2,
                        NEW color \in Color
                 PROVE  m.time[color] > 0
      OBVIOUS
    <3>1. FallenFlags(m, 0) = {}
      BY <1>2
    <3>2. ~(m.time[color] <= 0)
      BY <1>8, <3>1
    <3>3. m.time[color] \in Int
      BY <1>4
    <3> QED BY <3>2, <3>3
  <2>4. m.inc \in [Color -> Int] /\ m.turn \in Color /\ m.time_of_last_move = 0
    BY <1>1, <1>2, <1>3
  <2> QED BY <1>4, <2>1, <2>2, <2>3, <2>4 DEF ClocksInv, MovesAtOnce, m
<1>10. ASSUME m.auto_flag, FallenFlags(m, 0) = Color PROVE none /\ m.timed
  <2>1. m.timed /\ m.turns_restart >= 2 /\ \A color \in Color : m.time[color] <= 0
    BY <1>3, <1>8, <1>10
  <2>2. ~(c.turns_restart >= 2)
    BY <1>1, <1>2, <1>3, <1>4, <1>10, <2>1
  <2>3. m.turns_restart = 2
    BY <1>1, <1>5, <2>1, <2>2
  <2>4. g.player[o].time = 0
    BY <1>3, <1>6, <1>7, <2>1, <2>3 DEF FirstCounted
  <2> QED BY <1>3, <2>1, <2>4
<1>11. ASSUME NEW p \in Color, m.auto_flag, FallenFlags(m, 0) = {p}
       PROVE  ~none /\ g.player[p].time + m.inc[p] <= 0
  <2>1. /\ m.timed /\ c.timed /\ m.turns_restart >= 2 /\ m.time[p] <= 0
        /\ \A color \in Color : color # p => m.time[color] > 0
    BY <1>2, <1>4, <1>8, <1>11
  <2>2. ASSUME none PROVE FALSE
    <3>1. \A color \in Color : g.player[color].time = 0
      BY <2>2
    <3>2. m.turns_restart # 2
      BY <1>3, <1>7, <2>1, <3>1 DEF FirstCounted
    <3>3. c.turns_restart \in {2, 3}
      BY <1>1, <1>5, <2>1, <3>2
    <3>4. c.time["black"] = 0
      BY <1>6, <3>1, <3>3 DEF FirstCounted, Color
    <3> QED BY <1>1, <1>2, <1>11, <2>1, <3>3, <3>4 DEF Color
  <2>3. m.turns_restart >= FirstCounted(p)
    <3> SUFFICES ASSUME ~(m.turns_restart >= FirstCounted(p)) PROVE FALSE
      OBVIOUS
    <3>1. m.time[p] = g.player[p].time
      BY <1>7
    <3> QED BY <1>6, <2>1, <2>2, <3>1
  <2> QED BY <1>7, <2>1, <2>2, <2>3
<1> QED BY <1>9, <1>10, <1>11 DEF m

(* A move at once keeps what was offered, and fells the flag of a player   *)
(* without time only.                                                      *)
LEMMA MoveKeeps ==
  ASSUME TermsInv, ChessInv, GameAsOffered, MoveAtOnce
  PROVE  TermsInv' /\ ChessInv' /\ GameAsOffered'
<1> DEFINE chess == game.chess
           untimed == asked.category = "untimed"
<1>1. /\ game # None
      /\ game = [kind |-> "game", category |-> game.category, player |-> game.player,
                 colormap |-> game.colormap, rated |-> game.rated, chess |-> chess]
      /\ IsChess(chess) /\ ClocksInv(game)
      /\ \A color \in Color : game.player[color].time = 0 <=> untimed
      /\ chess.done = "no-reason" /\ chess.turns_restart < MovesAtOnce
  BY DEF ChessInv, MoveAtOnce, MayMove
<1>2. PICK m : m = Move(chess, chess.turn, "open", 0)
  OBVIOUS
<1>3. PICK next : next = SeeTime(m, 0)
  OBVIOUS
<1>4. game' = [game EXCEPT !.chess = next] /\ UNCHANGED <<asked, terms>>
  BY <1>2, <1>3 DEF MoveAtOnce
<1>5. /\ IsChess(m) /\ m.inc = chess.inc /\ m.time_of_last_move = 0
      /\ m.turns_restart = IF chess.timed THEN chess.turns_restart + 1 ELSE chess.turns_restart
      /\ m.turn = Opponent(chess.turn)
      /\ m.time = [chess.time EXCEPT ![chess.turn] =
            IF chess.timed /\ chess.turns_restart >= 2 THEN @ + chess.inc[chess.turn] ELSE @]
      /\ m.done = "no-reason" /\ m.timed = chess.timed /\ m.auto_flag = chess.auto_flag
  <2>1. /\ chess.time_of_last_move = 0 /\ chess.turns_restart \in Nat /\ chess.turn \in Color
        /\ chess.time \in [Color -> Int] /\ chess.inc \in [Color -> Int]
    BY <1>1 DEF ClocksInv, MovesAtOnce
  <2> HIDE DEF chess
  <2> QED BY <1>1, <1>2, <2>1, MovedAtOnce
<1>6. /\ IsChess(next) /\ next.inc = m.inc /\ next.time_of_last_move = m.time_of_last_move
      /\ next.turns_restart = m.turns_restart /\ next.turn = m.turn /\ next.time = m.time
      /\ next.timed = m.timed /\ next.auto_flag = m.auto_flag
      /\ \/ next.done = "no-reason" /\ (m.auto_flag => FallenFlags(m, 0) = {})
         \/ FallenFlags(m, 0) = Color /\ next.done = "draw-timeover"
         \/ \E color \in Color : FallenFlags(m, 0) = {color} /\ next.done = TimeOver(color)
  BY <1>3, <1>5, SeenAtOnce
<1>7. FallenFlags(next, 0) = FallenFlags(m, 0)
  BY <1>6 DEF FallenFlags, TimeLeft
<1>8. next.done # "no-reason" => next.auto_flag
  BY <1>3, <1>5, <1>6 DEF SeeTime
<1>9. /\ game'.chess = next /\ game'.player = game.player /\ game'.colormap = game.colormap
      /\ game'.rated = game.rated
      /\ game' = [kind |-> "game", category |-> game'.category, player |-> game'.player,
                  colormap |-> game'.colormap, rated |-> game'.rated, chess |-> next]
  <2>1. PICK k, p, c, r : game = [kind |-> "game", category |-> k, player |-> p, colormap |-> c,
                                  rated |-> r, chess |-> chess]
    BY <1>1
  <2> HIDE DEF chess
  <2>2. game' = [kind |-> "game", category |-> k, player |-> p, colormap |-> c, rated |-> r,
                 chess |-> next]
    BY <1>4, <2>1
  <2>3. /\ game.player = p /\ game.colormap = c /\ game.rated = r
    BY <2>1
  <2>4. /\ game'.category = k /\ game'.player = p /\ game'.colormap = c /\ game'.rated = r
        /\ game'.chess = next
    BY <2>2
  <2> QED BY <2>2, <2>3, <2>4
<1>13. /\ ClocksInv(game')
       /\ next.auto_flag /\ FallenFlags(next, 0) = Color => untimed /\ next.timed
       /\ \A color \in Color : next.auto_flag /\ FallenFlags(next, 0) = {color} =>
            ~untimed /\ game.player[color].time + next.inc[color] <= 0
  <2> DEFINE g == game
             h == game'
  <2>1. /\ ClocksInv(g) /\ g.chess.done = "no-reason" /\ g.chess.turns_restart < MovesAtOnce
        /\ h.player = g.player /\ untimed \in BOOLEAN
        /\ \A color \in Color : g.player[color].time = 0 <=> untimed
    BY <1>1, <1>9
  <2>2. LET c == g.chess
            d == h.chess
        IN /\ d.inc = c.inc /\ d.time_of_last_move = 0
           /\ d.turns_restart = IF c.timed THEN c.turns_restart + 1 ELSE c.turns_restart
           /\ d.turn = Opponent(c.turn)
           /\ d.time = [c.time EXCEPT ![c.turn] =
                          IF c.timed /\ c.turns_restart >= 2 THEN @ + c.inc[c.turn] ELSE @]
           /\ d.timed = c.timed /\ d.auto_flag = c.auto_flag
           /\ d.done # "no-reason" \/ (d.auto_flag => FallenFlags(d, 0) = {})
    BY <1>5, <1>6, <1>7, <1>9 DEF TimeOver
  <2>3. h.chess = next
    BY <1>9
  <2> HIDE DEF g, h, untimed
  <2>4. /\ ClocksInv(h)
        /\ h.chess.auto_flag /\ FallenFlags(h.chess, 0) = Color => untimed /\ h.chess.timed
        /\ \A color \in Color : h.chess.auto_flag /\ FallenFlags(h.chess, 0) = {color} =>
             ~untimed /\ g.player[color].time + h.chess.inc[color] <= 0
    BY <2>1, <2>2, ClocksAfterMove
  <2> QED BY <2>3, <2>4 DEF g, h
<1>10. ChessInv'
  <2>1. asked' = asked
    BY <1>4
  <2> QED BY <1>1, <1>6, <1>9, <1>13, <2>1 DEF ChessInv
<1>11. GameAsOffered'
  <2>1. /\ \A color \in Color : /\ game.player[color].color = color
                                /\ game.colormap[game.player[color].jid] = color
        /\ \A i \in DOMAIN asked.players :
             LET tag == asked.players[i] IN
             /\ tag.jid \in DOMAIN game.colormap
             /\ tag.color # NotGiven => game.colormap[tag.jid] = tag.color
             /\ game.chess.inc[game.colormap[tag.jid]] = tag.inc
             /\ asked.category # "untimed" =>
                  \A color \in Color : game.player[color].time = tag.time /\ tag.time > 0
        /\ Cardinality(DOMAIN game.colormap) = 2
        /\ terms.kind = "announcement" => game.chess.inc["white"] = game.chess.inc["black"]
        /\ game.rated <=> asked.rated \in {NotGiven, "true"}
        /\ game.chess.auto_flag <=> asked.autoflag \in {NotGiven, "true"}
        /\ game.chess.timed <=> terms.kind = "announcement" \/ asked.category # "untimed"
    BY <1>1, Zenon DEF GameAsOffered
  <2>2. /\ game'.chess.timed = game.chess.timed /\ game'.chess.auto_flag = game.chess.auto_flag
        /\ game'.chess.inc = game.chess.inc
    BY <1>5, <1>6, <1>9
  <2>3. asked' = asked /\ terms' = terms
    BY <1>4
  <2>4. game'.player = game.player /\ game'.colormap = game.colormap /\ game'.rated = game.rated
    BY <1>9
  <2>5. /\ \A color \in Color : /\ game'.player[color].color = color
                                /\ game'.colormap[game'.player[color].jid] = color
        /\ \A i \in DOMAIN asked'.players :
             LET tag == asked'.players[i] IN
             /\ tag.jid \in DOMAIN game'.colormap
             /\ tag.color # NotGiven => game'.colormap[tag.jid] = tag.color
             /\ game'.chess.inc[game'.colormap[tag.jid]] = tag.inc
             /\ asked'.category # "untimed" =>
                  \A color \in Color : game'.player[color].time = tag.time /\ tag.time > 0
    <3>1. \A color \in Color : /\ game'.player[color].color = color
                               /\ game'.colormap[game'.player[color].jid] = color
      BY ONLY <2>1, <2>4, Zenon
    <3>2. ASSUME NEW i \in DOMAIN asked'.players
          PROVE  /\ asked'.players[i].jid \in DOMAIN game'.colormap
                 /\ asked'.players[i].color # NotGiven =>
                      game'.colormap[asked'.players[i].jid] = asked'.players[i].color
                 /\ game'.chess.inc[game'.colormap[asked'.players[i].jid]] = asked'.players[i].inc
                 /\ asked'.category # "untimed" =>
                      \A color \in Color : /\ game'.player[color].time = asked'.players[i].time
                                           /\ asked'.players[i].time > 0
      <4>1. i \in DOMAIN asked.players /\ asked'.players[i] = asked.players[i]
        BY ONLY <2>3, i \in DOMAIN asked'.players, Zenon
      <4>2. /\ asked.players[i].jid \in DOMAIN game.colormap
            /\ asked.players[i].color # NotGiven =>
                 game.colormap[asked.players[i].jid] = asked.players[i].color
            /\ game.chess.inc[game.colormap[asked.players[i].jid]] = asked.players[i].inc
            /\ asked.category # "untimed" =>
                 \A color \in Color : /\ game.player[color].time = asked.players[i].time
                                      /\ asked.players[i].time > 0
        BY ONLY <2>1, <4>1, Zenon
      <4> QED BY ONLY <2>2, <2>3, <2>4, <4>1, <4>2, Zenon
    <3> QED BY ONLY <3>1, <3>2, Zenon
  <2>6. /\ Cardinality(DOMAIN game'.colormap) = 2
        /\ terms'.kind = "announcement" => game'.chess.inc["white"] = game'.chess.inc["black"]
        /\ game'.rated <=> asked'.rated \in {NotGiven, "true"}
        /\ game'.chess.auto_flag <=> asked'.autoflag \in {NotGiven, "true"}
    BY ONLY <2>1, <2>2, <2>3, <2>4, Zenon
  <2>7. game'.chess.timed <=> terms'.kind = "announcement" \/ asked'.category # "untimed"
    BY ONLY <2>1, <2>2, <2>3, Zenon
  <2>8. /\ game'.chess.done = "draw-timeover" =>
             terms'.kind = "announcement" /\ asked'.category = "untimed"
        /\ \A color \in Color : game'.chess.done = TimeOver(color) =>
             /\ asked'.category # "untimed"
             /\ game'.player[color].time + game'.chess.inc[color] <= 0
    <3>1. /\ next.done = "draw-timeover" => untimed /\ next.timed
          /\ \A color \in Color : next.done = TimeOver(color) =>
               ~untimed /\ game.player[color].time + next.inc[color] <= 0
      <4> HIDE DEF untimed
      <4>1. /\ "white" \in Color /\ "black" \in Color /\ TimeOver("white") # TimeOver("black")
            /\ \A color \in Color : TimeOver(color) # "draw-timeover"
                                     /\ TimeOver(color) # "no-reason"
            /\ \A p, q \in Color : TimeOver(p) = TimeOver(q) => p = q
        BY DEF TimeOver, Color
      <4>2. CASE next.done = "draw-timeover"
        BY <1>6, <1>7, <1>8, <1>13, <4>1, <4>2
      <4>3. ASSUME NEW p \in Color, next.done = TimeOver(p)
            PROVE  ~untimed /\ game.player[p].time + next.inc[p] <= 0
        BY <1>6, <1>7, <1>8, <1>13, <4>1, <4>3
      <4> QED BY <4>2, <4>3
    <3>2. game'.chess = next
      BY <1>9
    <3> QED BY <2>1, <2>2, <2>3, <2>4, <3>1, <3>2
  <2> QED BY ONLY <2>5, <2>6, <2>7, <2>8, Zenon DEF GameAsOffered
<1>12. TermsInv'
  <2>1. ~(terms = None /\ game = None)
    BY <1>1
  <2> QED BY <1>4, <2>1 DEF TermsInv
<1> QED BY <1>10, <1>11, <1>12

(* Whatever an offer leaves open, and whoever accepts: the game has the    *)
(* users, colors, clocks, increments and flags that were asked for, and a  *)
(* player who moves at once loses on time only by an increment that takes  *)
(* all of it away, or with clocks that begin at zero (validateXML,         *)
(* getPlayersFromXML, the constructors of GameChess).                      *)
THEOREM OffersGiveTheirGames ==
  ASSUME Sent(MatchOffers), Sent(AnnouncementOffers)
  PROVE  CreationSpec => []GameAsOffered
<1>1. CreationInit => FactoryInv
  BY DEF CreationInit, FactoryInv, TermsInv, ChessInv, GameAsOffered
<1>2. FactoryInv /\ [CreationNext]_creation_vars => FactoryInv'
  <2> SUFFICES ASSUME FactoryInv, [CreationNext]_creation_vars PROVE FactoryInv'
    OBVIOUS
  <2> USE DEF FactoryInv
  <2>1. ASSUME NEW offer \in MatchOffers \cup AnnouncementOffers,
               handleOffer(offer) \/ createFromOffer(offer)
        PROVE  FactoryInv'
    <3>1. Sent({offer})
      BY DEF Sent
    <3>2. TermsInv' /\ game' = None
      BY <2>1, <3>1, OfferStanding
    <3> QED BY <3>2 DEF ChessInv, GameAsOffered
  <2>2. ASSUME NEW drawn \in Color, closeMatch(drawn) PROVE FactoryInv'
    BY <2>2, MatchBegins
  <2>3. ASSUME NEW user \in User, NEW drawn \in Color, acceptAnnouncement(user, drawn)
        PROVE  FactoryInv'
    BY <2>3, AnnouncementBegins
  <2>4. CASE MoveAtOnce
    BY <2>4, MoveKeeps
  <2>5. CASE UNCHANGED creation_vars
    BY <2>5 DEF creation_vars, TermsInv, ChessInv, GameAsOffered
  <2> QED BY <2>1, <2>2, <2>3, <2>4, <2>5 DEF CreationNext
<1>3. FactoryInv => GameAsOffered
  BY DEF FactoryInv
<1> QED BY <1>1, <1>2, <1>3, PTL DEF CreationSpec
=============================================================================
